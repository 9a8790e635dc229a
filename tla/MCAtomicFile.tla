----------------------------- MODULE MCAtomicFile -----------------------------
\* Small instances of AtomicFile: two configurations, failures of the volume and
\* power cuts.
EXTENDS AtomicFile

CONSTANTS c1, c2, factory, absent, torn

MCConfigs == {c1, c2}
=============================================================================
