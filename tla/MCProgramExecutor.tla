-------------------------- MODULE MCProgramExecutor --------------------------
\* A small instance of ProgramExecutor.
EXTENDS ProgramExecutor, TLC

CONSTANTS ignition, crank, door, alarm, none, idle

MCRelays == {ignition, crank}
MCInputs == {door}
MCTriggers == {alarm}

S(act, ref, ms, retries) == [act |-> act, ref |-> ref, ms |-> ms, retries |-> retries]

\* Programs that leave the starter relay to STARTER_* steps; two of them name what
\* does not exist.
MCClean ==
  "auto" :> << S("RELAY_ON", ignition, 0, 0),
               S("STARTER_WAIT_INPUT", door, 0, 2),
               S("RELAY_PULSE_OFF_ON_OFF", ignition, 1, 0) >>
  @@ "timed" :> << S("INPUT_DISABLE", door, 0, 0),
                   S("STARTER_TIMED", none, 4, 0),
                   S("INPUT_ENABLE", door, 0, 0) >>
  @@ "blink" :> << S("RELAY_TOGGLE", ignition, 0, 0),
                   S("RELAY_PULSE_ON_OFF_ON", ignition, 1, 0),
                   S("RELAY_OFF", ignition, 0, 0),
                   S("WAIT", none, 2, 0),
                   S("INPUT_ENABLE", none, 0, 0) >>
  @@ "blind" :> << S("MANAGER_OFF", "thermostat", 0, 0),
                   S("STARTER_WAIT_INPUT", none, 0, 1) >>
  @@ "skips" :> << S("TRIGGER_DISABLE", alarm, 0, 0),
                   S("TRIGGER_ENABLE", none, 0, 0),
                   S("UNKNOWN", none, 0, 0),
                   S("RELAY_PULSE_ON_OFF_ON", none, 1, 0) >>
=============================================================================
