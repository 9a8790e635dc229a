----------------------------- MODULE MCManagers -----------------------------
\* The managers one at a time: they share the input and the sensors only, and none reads
\* what another one keeps.
EXTENDS Managers

MCConfigurations == {{"press"}, {"warm"}, {"saver"}, {"thermostat"}}
=============================================================================
