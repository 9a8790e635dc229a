----------------------------- MODULE MCGsmInit -----------------------------
\* A small instance of GsmInit: its constants are numbers, given in the .cfg.
EXTENDS GsmInit
=============================================================================
