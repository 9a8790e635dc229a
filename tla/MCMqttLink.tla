----------------------------- MODULE MCMqttLink -----------------------------
\* A small instance of MqttLink: its constants are given in the .cfgs.
EXTENDS MqttLink
=============================================================================
