------------------------------ MODULE Managers ------------------------------
(***************************************************************************)
(* What starts programs by itself: a debounced input and a temperature     *)
(* behind TriggerManager, BatterySaverManager and ThermostatManager.  Each *)
(* pass of NORMAL and NORMAL_SILENT samples the input, reads the sensors   *)
(* and runs the managers in this order; all of it counts with millis().    *)
(* Sensor readings are classes relative to the thresholds and free in      *)
(* every pass, "none" for a sensor that is absent or invalid.  Whether     *)
(* start() succeeds is nothing to the managers: they ignore its result.    *)
(***************************************************************************)
EXTENDS Millis, FiniteSets

CONSTANTS
  DEBOUNCE,       \* Timing::DEBOUNCE_DELAY_MS
  TRIGGER_EVERY,  \* Timing::TRIGGER_CHECK_INTERVAL_MS
  DAY,            \* Timing::MILLIS_PER_DAY
  LOW_FOR,        \* battery_saver.min_low_voltage_duration_sec
  BETWEEN,        \* battery_saver.min_time_between_attempts_sec
  MAX_ATTEMPTS,   \* battery_saver.max_attempts_per_day
  MaxLag,         \* the longest time between two passes
  Configurations  \* sets of "press" and "warm" (triggers), "saver", "thermostat"

ASSUME ManagersAssumption ==
  /\ {DEBOUNCE, TRIGGER_EVERY, LOW_FOR, BETWEEN, MAX_ATTEMPTS} \subseteq Nat
  /\ {DAY, MaxLag} \subseteq Nat \ {0}
  /\ \A t \in {DEBOUNCE, TRIGGER_EVERY, LOW_FOR, BETWEEN, DAY} : t + MaxLag < Wrap

VARIABLES
  has,        \* the managers the configuration enables; never changes
  now,        \* millis() of the last pass
  on,         \* runtime switches: the managers, and "input"
  pin, input, \* the level the last pass sampled, and what DigitalInputs makes of it
  volts,      \* the reading of the last pass: "none", "low", "band", "high"
  temp,       \* "none", "below" both thresholds, "between" them, "above" both
  trig,       \* TriggerManager: _lastCheck, _inputLastState, _tempLastState
  saver,      \* BatterySaverManager
  edge,       \* ThermostatManager: _lastStateLower, _lastStateUpper
  started,    \* what the last pass started
  press,      \* ghost: the run of equal samples; the contact is down, rearmed
  ages        \* ghost of the battery saver, in true time

ownVars == <<trig, saver, edge>>
managersVars == <<has, now, on, pin, input, volts, temp, ownVars, started, press, ages>>

\* What can be read: only what a configured manager looks at.
Levels == IF "press" \in has THEN BOOLEAN ELSE {FALSE}
Voltages == IF "saver" \in has THEN {"none", "low", "band", "high"} ELSE {"none"}
Temperatures ==
  IF "thermostat" \in has THEN {"none", "below", "between", "above"}
  ELSE IF "warm" \in has THEN {"none", "below", "above"} ELSE {"none"}

ManagersInit ==
  /\ has \in Configurations /\ on = has \cup {"input"}
  /\ now = 0
  /\ pin \in Levels
  /\ input = [current |-> pin, lastRaw |-> pin, stable |-> TRUE, lastChange |-> 0]
  /\ volts = "none" /\ temp = "none"
  /\ trig = [lastCheck |-> 0, input |-> FALSE, temp |-> FALSE]
  /\ saver = [lastAttempt |-> 0, attempts |-> 0, dayStart |-> 0, lowStart |-> 0]
  /\ edge = [lower |-> FALSE, upper |-> FALSE]
  /\ started = {}
  /\ press = [run |-> {pin}, age |-> DEBOUNCE, down |-> pin, stale |-> FALSE, rearmed |-> TRUE]
  /\ ages = [start |-> 0, low |-> 0, day |-> {}]

-----------------------------------------------------------------------------
\* DigitalInputs::update() and getState().

\* Slip: the time of the change is not taken anew while the contact bounces.
ChangedWhileStable(raw) ==
  [input EXCEPT !.lastRaw = raw, !.stable = FALSE,
                !.lastChange = IF input.stable THEN now' ELSE @]

Changed(raw) == [input EXCEPT !.lastRaw = raw, !.stable = FALSE, !.lastChange = now']

Settled(i, raw) ==
  IF ~i.stable /\ Elapsed(i.lastChange, now') >= DEBOUNCE
  THEN [i EXCEPT !.current = raw, !.stable = TRUE] ELSE i

Sample == Settled(IF pin' # input.lastRaw THEN Changed(pin') ELSE input, pin')

InputsUpdate == input' = IF "input" \in on THEN Sample ELSE input

\* The same in true time: the contact is down, or up, once all samples of DEBOUNCE ms
\* agree, and rearmed once it is up or not heard.  What was known before the input was
\* switched off is stale.
Heard == {"input", "press"} \subseteq on

Known(age) == [press EXCEPT !.run = {pin'}, !.age = age,
                            !.down = IF age >= DEBOUNCE THEN pin' ELSE @,
                            !.stale = @ /\ age < DEBOUNCE]

PressUpdate(d) ==
  LET held == IF "input" \notin on THEN [press EXCEPT !.run = {}, !.age = 0, !.stale = TRUE]
              ELSE Known(IF press.run # {pin'} THEN 0
                         ELSE IF press.age + d < DEBOUNCE THEN press.age + d ELSE DEBOUNCE)
  IN press' = [held EXCEPT !.rearmed = \/ @ /\ "press" \notin started'
                                       \/ ~held.down \/ held.stale \/ ~Heard]

-----------------------------------------------------------------------------
\* TriggerManager::update(): an edge of the input, then one of the temperature.
Checks == Elapsed(trig.lastCheck, now') >= TRIGGER_EVERY

TriggerStarts ==
  {s \in {"press", "warm"} \cap on :
     Checks /\ IF s = "press" THEN Heard /\ input'.current /\ ~trig.input
                              ELSE temp' = "above" /\ ~trig.temp}

TriggerUpdate ==
  trig' = IF ~Checks THEN trig
          ELSE [lastCheck |-> now',
                input |-> Heard /\ input'.current,
                temp |-> "warm" \in on
                           /\ IF temp' = "none" THEN trig.temp ELSE temp' = "above"]

-----------------------------------------------------------------------------
\* BatterySaverManager::update()

\* Slip: a new day keeps the count of attempts.
TodayKeepsCount ==
  IF saver.dayStart = 0 \/ Elapsed(saver.dayStart, now') >= DAY
  THEN [saver EXCEPT !.dayStart = now'] ELSE saver

\* The day counts from the first pass; zero means that it has not begun.
Today ==
  LET begun == IF saver.dayStart = 0 THEN [saver EXCEPT !.dayStart = now'] ELSE saver
  IN IF Elapsed(begun.dayStart, now') >= DAY
     THEN [begun EXCEPT !.attempts = 0, !.dayStart = now'] ELSE begun

\* Slip: instants are compared instead of subtracted.
SpacedByInstant(s) == now' >= (s.lastAttempt + BETWEEN) % Wrap

Spaced(s) == Elapsed(s.lastAttempt, now') >= BETWEEN

LowSince(s) == IF s.lowStart = 0 THEN now' ELSE s.lowStart

SaverStarts(s) ==
  /\ "saver" \in on /\ volts' = "low"
  /\ Elapsed(LowSince(s), now') >= LOW_FOR
  /\ s.attempts < MAX_ATTEMPTS /\ Spaced(s)

Low(s) ==
  IF SaverStarts(s)
  THEN [s EXCEPT !.attempts = @ + 1, !.lastAttempt = now', !.lowStart = 0]
  ELSE [s EXCEPT !.lowStart = LowSince(s)]

SaverUpdate ==
  saver' = IF "saver" \notin on THEN [saver EXCEPT !.lowStart = 0]
           ELSE CASE volts' = "low" -> Low(Today)
                  [] volts' = "high" -> [Today EXCEPT !.lowStart = 0]
                  [] OTHER -> Today

\* In true time: since the last start, since when the voltage is low (0 if it is not), and
\* the starts of the last DAY.
SaverStarted == "saver" \in started'

AgesUpdate(older) ==
  ages' = IF SaverStarted THEN [start |-> 0, low |-> 0, day |-> older.day \cup {0}]
          ELSE [older EXCEPT !.low = IF "saver" \notin on \/ volts' = "high" THEN 0
                                    ELSE IF @ = 0 /\ volts' = "low" THEN 1 ELSE @]

-----------------------------------------------------------------------------
\* ThermostatManager::update()
Over == [lower |-> temp' \in {"between", "above"}, upper |-> temp' = "above"]

ThermostatStarts ==
  {s \in {"lower", "upper"} : "thermostat" \in on /\ temp' # "none" /\ Over[s] /\ ~edge[s]}

ThermostatUpdate ==
  edge' = IF "thermostat" \notin on THEN [lower |-> FALSE, upper |-> FALSE]
          ELSE IF temp' = "none" THEN edge ELSE Over

-----------------------------------------------------------------------------
\* In true time, d ms later.
Older(d) ==
  [start |-> IF ages.start + d < BETWEEN THEN ages.start + d ELSE BETWEEN,
   low |-> IF ages.low = 0 THEN 0 ELSE IF ages.low + d > LOW_FOR THEN LOW_FOR + 1 ELSE ages.low + d,
   day |-> {a + d : a \in ages.day} \cap 0..DAY - 1]

\* One pass of handleNormal() or handleNormalSilent(), up to the modem.
Pass(d) ==
  /\ now' = (now + d) % Wrap
  /\ pin' \in Levels /\ volts' \in Voltages /\ temp' \in Temperatures
  /\ InputsUpdate
  /\ started' = TriggerStarts \cup ThermostatStarts
                  \cup IF SaverStarts(Today) THEN {"saver"} ELSE {}
  /\ TriggerUpdate /\ SaverUpdate /\ ThermostatUpdate
  /\ PressUpdate(d) /\ AgesUpdate(Older(d))
  /\ UNCHANGED <<has, on>>

\* Routes, MQTT and steps of programs switch inputs and managers at run time.
Switches(s) ==
  /\ s \in IF "press" \in has THEN has \cup {"input"} ELSE has
  /\ on' = IF s \in on THEN on \ {s} ELSE on \cup {s}
  /\ UNCHANGED <<has, now, pin, input, volts, temp, ownVars, started, press, ages>>

ManagersNext == (\E d \in 0..MaxLag : Pass(d)) \/ \E s \in {"input", "press", "warm", "saver", "thermostat"} : Switches(s)

ManagersSpec == ManagersInit /\ [][ManagersNext]_managersVars

\* The loop passes, and its passes take time.
ManagersFairSpec == ManagersSpec /\ WF_managersVars(\E d \in 1..MaxLag : Pass(d))

-----------------------------------------------------------------------------
ManagersTypeOK ==
  /\ now \in Instant
  /\ has \in Configurations /\ on \subseteq has \cup {"input"} /\ pin \in BOOLEAN
  /\ input \in [current : BOOLEAN, lastRaw : BOOLEAN, stable : BOOLEAN, lastChange : Instant]
  /\ volts \in {"none", "low", "band", "high"}
  /\ temp \in {"none", "below", "between", "above"}
  /\ trig \in [lastCheck : Instant, input : BOOLEAN, temp : BOOLEAN]
  /\ saver \in [lastAttempt : Instant, attempts : 0..MAX_ATTEMPTS,
                dayStart : Instant, lowStart : Instant]
  /\ edge \in [lower : BOOLEAN, upper : BOOLEAN]
  /\ started \subseteq {"press", "warm", "saver", "lower", "upper"}
  /\ press \in [run : SUBSET BOOLEAN, age : 0..DEBOUNCE, down : BOOLEAN, stale : BOOLEAN,
                rearmed : BOOLEAN]
  /\ ages \in [start : 0..BETWEEN, low : 0..LOW_FOR + 1, day : SUBSET (0..DAY - 1)]

\* A contact starts its program once for each time it is pressed, however it bounces and
\* whenever input and trigger are switched: it is down in all samples of DEBOUNCE ms, and
\* was up as long, or not heard, since it last started one.
OncePerPress ==
  [][(\E d \in 0..MaxLag : Pass(d)) /\ "press" \in started' => press.rearmed /\ (press'.down \/ press'.stale)]_managersVars

\* Across every wrap of the counter the battery saver starts programs BETWEEN apart, on a
\* voltage that was not above the band for LOW_FOR, and no more often in any DAY than the
\* limit allows for the two days, counted from the first pass, that it may touch.
SaverPaced ==
  [][\A d \in 0..MaxLag : Pass(d) /\ SaverStarted =>
       /\ Older(d).start = BETWEEN /\ (LOW_FOR = 0 \/ Older(d).low > LOW_FOR)
       /\ Cardinality(Older(d).day) < 2 * MAX_ATTEMPTS]_managersVars

\* A battery that stays low is charged again and again.
SaverServes ==
  <>[]("saver" \in on /\ volts = "low") => []<>("saver" \in started)
=============================================================================
