----------------------------- MODULE MCGsmLink -----------------------------
\* A small instance of GsmLink: its constants are given in the .cfgs.
EXTENDS GsmLink
=============================================================================
