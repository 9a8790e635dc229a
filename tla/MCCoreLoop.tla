----------------------------- MODULE MCCoreLoop -----------------------------
\* CoreLoop has no constants: its state is finite as it stands.
EXTENDS CoreLoop
=============================================================================
