---------------------------- MODULE MCOtaSession ----------------------------
\* A small instance of OtaSession: two clients.
EXTENDS OtaSession

CONSTANTS phone, laptop

MCBoth == {phone, laptop}
=============================================================================
