--------------------------- MODULE RelayController ---------------------------
(***************************************************************************)
(* The relay bank: the state bit and the turn-on time of every relay, and  *)
(* the safety net that switches off an overdue starter relay.              *)
(***************************************************************************)
EXTENDS Millis

CONSTANTS
  Relays,         \* indices of the relays that exist on the board
  StarterRelay,   \* relayIndexById(vehicle.starter_relay_id), or a non-relay
  MaxStarter      \* vehicle.starter_max_time_sec in ms

ASSUME MaxStarterAssumption == MaxStarter \in Nat

VARIABLES
  now,     \* millis()
  relay,   \* _state and _turnOnTime of each relay
  error    \* the last code given to ErrorManager::set

RelayState == [on : BOOLEAN, since : Instant]

\* setRelay(): the state bit and the turn-on stamp it leaves (0 when off).
Switched(state) == [on |-> state, since |-> IF state THEN now ELSE 0]

AllOff == [r \in Relays |-> Switched(FALSE)]

\* begin(): only the starter relay gets a limit, and none if the time is 0.
MaxOnTime(r) == IF r = StarterRelay THEN MaxStarter ELSE 0

\* The relays checkSafety() forces off.  The starter's limit counts only while
\* a STARTER_* step is being executed.
Overdue(starterActive) ==
  {r \in Relays : /\ relay[r].on
                  /\ r = StarterRelay => starterActive
                  /\ MaxOnTime(r) > 0
                  /\ Elapsed(relay[r].since, now) > MaxOnTime(r)}

CheckSafety(starterActive) ==
  LET late == Overdue(starterActive) IN
  /\ relay' = [r \in Relays |-> IF r \in late THEN Switched(FALSE) ELSE relay[r]]
  /\ error' = IF late = {} THEN error ELSE "RELAY_TIMEOUT"
=============================================================================
