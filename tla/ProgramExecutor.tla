--------------------------- MODULE ProgramExecutor ---------------------------
(***************************************************************************)
(* The program interpreter as the NORMAL loop drives it: every pass calls  *)
(* ProgramExecutor::update() and then RelayController::update(); between    *)
(* passes a trigger, a manager, MQTT or the web may call start(), which     *)
(* preempts whatever is running.                                           *)
(***************************************************************************)
EXTENDS RelayController, FiniteSets, Sequences

CONSTANTS
  Inputs,       \* digital inputs that exist on the board
  Triggers,     \* ids of the configured input and temperature triggers
  NoRef,        \* an id that resolves to nothing
  NoProgram,    \* _programId = 0
  Programs,     \* program id -> its compiled steps
  WaitAfter,    \* vehicle.wait_after_start_sec in ms
  RetryPause,   \* pause before the starter is tried again (1000 ms)
  MaxLag        \* longest time between two passes of the loop

Managers == {"battery_saver", "thermostat"}
Knobs == Inputs \cup Triggers \cup Managers

PulseActs == {"RELAY_PULSE_ON_OFF_ON", "RELAY_PULSE_OFF_ON_OFF"}
StarterActs == {"STARTER_TIMED", "STARTER_WAIT_INPUT"}
RelayActs == {"RELAY_ON", "RELAY_OFF", "RELAY_TOGGLE"} \cup PulseActs
InputActs == {"INPUT_ENABLE", "INPUT_DISABLE"}
TriggerActs == {"TRIGGER_ENABLE", "TRIGGER_DISABLE"}   \* input and temperature
ManagerActs == {"MANAGER_ON", "MANAGER_OFF"}
Acts == RelayActs \cup StarterActs \cup InputActs \cup TriggerActs
          \cup ManagerActs \cup {"WAIT", "UNKNOWN"}

CompiledStep == [act : Acts, ref : Relays \cup Knobs \cup {NoRef},
                 ms : Nat, retries : 0 .. 255]

ASSUME ExecutorAssumption ==
  /\ NoRef \notin Relays \cup Knobs
  /\ \A p \in DOMAIN Programs : /\ Programs[p] \in Seq(CompiledStep)
                                /\ Programs[p] # <<>>
  /\ NoProgram \notin DOMAIN Programs
  /\ {WaitAfter, RetryPause, MaxLag} \subseteq Nat

\* A timer outlives neither the counter nor a slow pass of the loop.
ASSUME TimerAssumption ==
  /\ MaxStarter + MaxLag < Wrap
  /\ WaitAfter + MaxLag < Wrap
  /\ RetryPause + MaxLag < Wrap
  /\ \A p \in DOMAIN Programs : \A k \in DOMAIN Programs[p] :
       Programs[p][k].ms + MaxLag < Wrap

VARIABLES
  lag,       \* time since the last ProgramExecutor::update()
  handler,   \* the routine of the pass that runs next
  running,   \* _running
  program,   \* _programId
  step,      \* _currentStep, from 1
  rt,        \* _rt: phase and start of a WAIT or a pulse
  starter,   \* _starter: phase, start of the phase, attempts left
  enabled,   \* runtime switches of inputs, triggers and managers
  pool       \* references held on the two step buffers of PoolManager

vars == <<now, relay, error, lag, handler, running, program, step, rt,
          starter, enabled, pool>>

NoTimer == [phase |-> 0, at |-> 0]
NoStarter == [phase |-> 0, at |-> 0, left |-> 0]

Init ==
  /\ now \in Instant
  /\ relay = AllOff
  /\ error = "NONE"
  /\ lag = 0
  /\ handler = "executor"
  /\ running = FALSE
  /\ program = NoProgram
  /\ step = 1
  /\ rt = NoTimer
  /\ starter = NoStarter
  /\ enabled = [k \in Knobs |-> TRUE]
  /\ pool = 0

-----------------------------------------------------------------------------
\* What a step does at once.

Current == Programs[program][step]

InStarterStep == running /\ Current.act \in StarterActs

\* The presses the step asks for.
Asked ==
  IF ~InStarterStep THEN 0 ELSE IF Current.retries > 0 THEN Current.retries ELSE 1

\* The write executeStep() makes to the relay the step names.
RelayWrite(s) ==
  CASE s.act \in {"RELAY_ON", "RELAY_PULSE_ON_OFF_ON"}   -> "on"
    [] s.act \in {"RELAY_OFF", "RELAY_PULSE_OFF_ON_OFF"} -> "off"
    [] s.act = "RELAY_TOGGLE"                            -> "toggle"
    [] OTHER                                             -> "none"

\* An unknown relay or input aborts the program, an unknown trigger is skipped.
Aborts(s) ==
  \/ s.act \in RelayActs /\ s.ref \notin Relays
  \/ s.act \in InputActs /\ s.ref \notin Inputs

Blocks(s) == s.act \in PulseActs \cup StarterActs \cup {"WAIT"} /\ ~Aborts(s)

\* executeStep() and nextStep() call each other until a step blocks or aborts
\* or the program ends: the chain that starts at step i comes to rest at j.
RestsAt(p, i, j) ==
  /\ j <= Len(p) => Blocks(p[j]) \/ Aborts(p[j])
  /\ \A k \in i .. j - 1 : ~Blocks(p[k]) /\ ~Aborts(p[k])

\* Steps i..j of p that write relay r.
WritesTo(p, i, j, r) ==
  {k \in i .. j : k \in DOMAIN p /\ p[k].ref = r /\ RelayWrite(p[k]) # "none"}

Latest(S) == CHOOSE k \in S : \A m \in S : m <= k

\* Relay r after steps i..j: the last on or off decides, then every toggle.
RelayAfter(bank, p, i, j, r) ==
  LET all   == WritesTo(p, i, j, r)
      fixed == {k \in all : RelayWrite(p[k]) # "toggle"}
      flips == {k \in all : \A m \in fixed : m < k}
      base  == IF fixed = {} THEN bank[r].on ELSE RelayWrite(p[Latest(fixed)]) = "on"
  IN IF all = {} THEN bank[r]
                 ELSE Switched(base # (Cardinality(flips) % 2 = 1))

\* Knob k after steps i..j: the last step that names it decides.
KnobAfter(p, i, j, k) ==
  LET all == {m \in i .. j : /\ m \in DOMAIN p
                             /\ p[m].act \in InputActs \cup TriggerActs \cup ManagerActs
                             /\ p[m].ref = k}
  IN IF all = {} THEN enabled[k]
     ELSE p[Latest(all)].act \in {"INPUT_ENABLE", "TRIGGER_ENABLE", "MANAGER_ON"}

-----------------------------------------------------------------------------
\* finish(): the buffers go back to the pool.  The fields start() resets
\* anyway are cleared here.
Finish(held) ==
  /\ running' = FALSE
  /\ program' = NoProgram
  /\ step' = 1
  /\ rt' = NoTimer
  /\ starter' = NoStarter
  /\ pool' = held - 1

AbortWithError(held) ==
  /\ relay' = AllOff
  /\ Finish(held)
  /\ error' = "PROGRAM_INVALID_REF"

\* Slip: the attempts that a step cut short had left are kept.
ResetButCount == [NoStarter EXCEPT !.left = starter.left]

StarterReset == NoStarter

\* The chain of executeStep() calls that begins at step i of program id.
RunFrom(id, i, bank, held) ==
  \E j \in i .. Len(Programs[id]) + 1 :
    LET p == Programs[id]
        after == [r \in Relays |-> RelayAfter(bank, p, i, j, r)]
    IN /\ RestsAt(p, i, j)
       /\ enabled' = [k \in Knobs |-> KnobAfter(p, i, j, k)]
       /\ \/ /\ j > Len(p)
             /\ relay' = after
             /\ Finish(held)
             /\ UNCHANGED error
          \/ /\ j <= Len(p) /\ Aborts(p[j])
             /\ AbortWithError(held)
          \/ /\ j <= Len(p) /\ Blocks(p[j])
             /\ relay' = after
             /\ running' = TRUE
             /\ program' = id
             /\ step' = j
             /\ rt' = [phase |-> IF p[j].act \in PulseActs THEN 1 ELSE 0,
                       at |-> IF p[j].act \in StarterActs THEN 0 ELSE now]
             /\ starter' = StarterReset
             /\ pool' = held
             /\ UNCHANGED error

NextStep(bank) == RunFrom(program, step + 1, bank, pool)

-----------------------------------------------------------------------------
\* Slip: stop() does not look at the step it cuts short.
StoppedAsIs == relay

\* start(): stop() switches the starter off if a STARTER_* step is cut short.
StoppedBank ==
  [r \in Relays |-> IF InStarterStep /\ r = StarterRelay THEN Switched(FALSE)
                                                         ELSE relay[r]]
\* Slip: stop() does not release what the stopped program held.
HeldThroughStop == pool

HeldAfterStop == IF running THEN pool - 1 ELSE pool

Start(id) ==
  /\ handler = "executor"
  /\ RunFrom(id, 1, StoppedBank, HeldAfterStop + 1)
  /\ UNCHANGED <<now, lag, handler>>

\* The program file is missing, unreadable or has no steps.
StartUnknown ==
  /\ handler = "executor"
  /\ relay' = StoppedBank
  /\ Finish(HeldAfterStop + 1)
  /\ UNCHANGED <<now, lag, handler, error, enabled>>

-----------------------------------------------------------------------------
\* update()

\* Slip: a phase lasts one pass more than asked.
DueLate(from, ms) == Elapsed(from, now) > ms

Due(from, ms) == Elapsed(from, now) >= ms

WaitDone ==
  /\ running /\ Current.act = "WAIT"
  /\ Due(rt.at, Current.ms)
  /\ NextStep(relay)

PulseFlip ==
  /\ running /\ Current.act \in PulseActs
  /\ rt.phase = 1 /\ Due(rt.at, Current.ms)
  /\ relay' = [relay EXCEPT ![Current.ref] =
                 Switched(Current.act = "RELAY_PULSE_OFF_ON_OFF")]
  /\ rt' = [phase |-> 2, at |-> now]
  /\ UNCHANGED <<error, running, program, step, starter, enabled, pool>>

PulseEnd ==
  /\ running /\ Current.act \in PulseActs
  /\ rt.phase = 2 /\ Due(rt.at, Current.ms)
  /\ NextStep([relay EXCEPT ![Current.ref] =
                 Switched(Current.act = "RELAY_PULSE_ON_OFF_ON")])

\* Slip: a STARTER_TIMED step gets the time it asks for.
AttemptAsAsked ==
  IF Current.act = "STARTER_TIMED" /\ Current.ms > 0 THEN Current.ms ELSE MaxStarter

AttemptMs ==
  IF Current.act = "STARTER_TIMED" /\ Current.ms > 0 /\ Current.ms < MaxStarter
  THEN Current.ms ELSE MaxStarter

StarterEngage ==
  /\ InStarterStep /\ StarterRelay \in Relays
  /\ \/ starter.phase = 0
     \/ starter.phase = 3 /\ Due(starter.at, RetryPause)
  /\ relay' = [relay EXCEPT ![StarterRelay] = Switched(TRUE)]
  /\ starter' = [phase |-> 1, at |-> now,
                 left |-> IF starter.left > 0 THEN starter.left ELSE Asked]
  /\ UNCHANGED <<error, running, program, step, rt, enabled, pool>>

\* starter_relay_id resolves to nothing, or in a press the awaited input does.
StarterUnusable ==
  /\ InStarterStep
  /\ \/ StarterRelay \notin Relays
     \/ /\ starter.phase = 1
        /\ Current.act = "STARTER_WAIT_INPUT" /\ Current.ref \notin Inputs
  /\ AbortWithError(pool)
  /\ UNCHANGED enabled

\* Time is up, or the input became active (a disabled input reads inactive).
StarterRelease(level) ==
  /\ InStarterStep /\ StarterRelay \in Relays
  /\ starter.phase = 1
  /\ Current.act = "STARTER_WAIT_INPUT" => Current.ref \in Inputs
  /\ \/ Current.act = "STARTER_WAIT_INPUT" /\ level /\ enabled[Current.ref]
     \/ Due(starter.at, AttemptMs)
  /\ relay' = [relay EXCEPT ![StarterRelay] = Switched(FALSE)]
  /\ starter' = [phase |-> 2, at |-> now, left |-> starter.left]
  /\ UNCHANGED <<error, running, program, step, rt, enabled, pool>>

\* Slip: a failed attempt is not counted.
VerdictKeepsCount(engineRunning) ==
  /\ InStarterStep /\ StarterRelay \in Relays
  /\ starter.phase = 2 /\ Due(starter.at, WaitAfter)
  /\ IF engineRunning THEN NextStep(relay)
     ELSE /\ starter' = [starter EXCEPT !.phase = 3, !.at = now]
          /\ UNCHANGED <<relay, error, running, program, step, rt, enabled, pool>>

StarterVerdict(engineRunning) ==
  /\ InStarterStep /\ StarterRelay \in Relays
  /\ starter.phase = 2 /\ Due(starter.at, WaitAfter)
  /\ \/ /\ engineRunning
        /\ NextStep(relay)
     \/ /\ ~engineRunning /\ starter.left > 1
        /\ starter' = [phase |-> 3, at |-> now, left |-> starter.left - 1]
        /\ UNCHANGED <<relay, error, running, program, step, rt, enabled, pool>>
     \/ /\ ~engineRunning /\ starter.left <= 1
        /\ Finish(pool)
        /\ UNCHANGED <<relay, error, enabled>>

\* Nothing runs, or the current phase has not lasted long enough.
Pending(level) ==
  /\ \/ ~running
     \/ /\ running /\ Current.act \in PulseActs \cup {"WAIT"}
        /\ ~Due(rt.at, Current.ms)
     \/ /\ InStarterStep /\ StarterRelay \in Relays
        /\ \/ /\ starter.phase = 1 /\ ~Due(starter.at, AttemptMs)
              /\ Current.act = "STARTER_WAIT_INPUT"
                   => Current.ref \in Inputs /\ ~(level /\ enabled[Current.ref])
           \/ starter.phase = 2 /\ ~Due(starter.at, WaitAfter)
           \/ starter.phase = 3 /\ ~Due(starter.at, RetryPause)
  /\ UNCHANGED <<relay, error, running, program, step, rt, starter, enabled, pool>>

\* level: what the awaited input reads; engineRunning: Core::isEngineRunning().
ExecutorUpdate ==
  /\ handler = "executor"
  /\ handler' = "relay"
  /\ lag' = 0
  /\ UNCHANGED now
  /\ \/ WaitDone
     \/ PulseFlip
     \/ PulseEnd
     \/ StarterUnusable
     \/ StarterEngage
     \/ \E level \in BOOLEAN : StarterRelease(level) \/ Pending(level)
     \/ \E engineRunning \in BOOLEAN : StarterVerdict(engineRunning)

RelayUpdate ==
  /\ handler = "relay"
  /\ handler' = "executor"
  /\ CheckSafety(InStarterStep)
  /\ UNCHANGED <<now, lag, running, program, step, rt, starter, enabled, pool>>

Loop == ExecutorUpdate \/ RelayUpdate

\* The two updates of a pass run back to back, time passes between passes.
Tick ==
  /\ handler = "executor"
  /\ lag < MaxLag
  /\ lag' = lag + 1
  /\ now' = Later(now)
  /\ UNCHANGED <<relay, error, handler, running, program, step, rt, starter,
                 enabled, pool>>

Starts == (\E id \in DOMAIN Programs : Start(id)) \/ StartUnknown

Next == Loop \/ Tick \/ Starts

Spec == Init /\ [][Next]_vars

\* The loop keeps being called, and time passes.
FairSpec == Spec /\ WF_vars(Loop) /\ SF_vars(Tick)

-----------------------------------------------------------------------------
\* Every variable has its type; a running program rests on a step that blocks.
TypeOK ==
  /\ now \in Instant
  /\ relay \in [Relays -> RelayState]
  /\ error \in {"NONE", "PROGRAM_INVALID_REF", "RELAY_TIMEOUT"}
  /\ lag \in 0 .. MaxLag
  /\ handler \in {"executor", "relay"}
  /\ running \in BOOLEAN
  /\ program \in DOMAIN Programs \cup {NoProgram}
  /\ step \in Nat
  /\ rt \in [phase : 0 .. 2, at : Instant]
  /\ starter \in [phase : 0 .. 3, at : Instant, left : 0 .. 255]
  /\ enabled \in [Knobs -> BOOLEAN]
  /\ pool \in Nat
  /\ running => /\ program \in DOMAIN Programs
                /\ step \in DOMAIN Programs[program]
                /\ Blocks(Current)

\* No program writes the starter relay with a plain relay step.
CleanPrograms ==
  /\ StarterRelay \in Relays
  /\ \A p \in DOMAIN Programs : \A k \in DOMAIN Programs[p] :
       RelayWrite(Programs[p][k]) # "none" => Programs[p][k].ref # StarterRelay

Cranking == InStarterStep /\ starter.phase = 1

\* The starter relay is energised exactly while a STARTER_* step is in its
\* cranking phase: no end of a program, abort or preemption by start() leaves
\* it on, and nothing but the step's own timing switches it off.
StarterOnlyWhileCranking ==
  CleanPrograms => (relay[StarterRelay].on <=> Cranking)

\* The longest time the starter relay is on: starter_max_time_sec was not yet
\* reached at the last pass, which is at most MaxLag ago.
CrankLimit == (IF MaxStarter = 0 THEN 0 ELSE MaxStarter - 1) + MaxLag

\* The starter is never energised for longer than its limit allows, whatever
\* the step asks for (attemptMs is capped by starter_max_time_sec).
CrankBounded ==
  CleanPrograms /\ relay[StarterRelay].on
    => Elapsed(relay[StarterRelay].since, now) <= CrankLimit

\* The executor always releases the starter before checkSafety() has to: the
\* safety net reports RELAY_TIMEOUT only when a program drives the starter
\* relay with a plain relay step.
SafetyNetUnused == CleanPrograms => error # "RELAY_TIMEOUT"

\* The step buffers are held exactly while a program runs, on every path
\* through start(), stop(), finish() and abortWithError().
PoolBalanced == pool = IF running THEN 1 ELSE 0

\* What makes the promises above inductive: a step that has not cranked has no
\* attempts left over, the starter's clock is the relay's, and at the last pass
\* the limit had not been reached.
StarterTimed ==
  /\ handler = "relay" => lag = 0
  /\ starter.phase = 0 => starter.left = 0
  /\ starter.phase # 0 => InStarterStep /\ starter.left > 0
  /\ CleanPrograms /\ Cranking =>
       /\ relay[StarterRelay].since = starter.at
       /\ Elapsed(starter.at, now) <= CrankLimit - MaxLag + lag

ExecutorInv ==
  /\ TypeOK
  /\ PoolBalanced
  /\ StarterOnlyWhileCranking
  /\ SafetyNetUnused
  /\ StarterTimed

\* Once nobody starts programs any more, whatever runs comes to an end.
ProgramEnds == <>[][~Starts]_vars => <>[](~running)

\* The promise to the starter motor.
Duty == INSTANCE StarterDuty WITH
  Limit <- CrankLimit,
  MaxPresses <- 255,
  on <- relay[StarterRelay].on,
  onFor <- IF relay[StarterRelay].on THEN Elapsed(relay[StarterRelay].since, now)
                                     ELSE 0,
  begun <- starter.phase # 0,
  asked <- Asked,
  spare <- CASE starter.phase \in {1, 2} -> starter.left - 1
             [] starter.phase = 3 -> starter.left
             [] OTHER -> 0

\* Programs that leave the starter relay to STARTER_* steps respect the
\* promise: a step presses the starter at most as often as it asks for, whatever
\* it preempted had left, and the length of a press is bounded.
KeepsDuty == Duty!DutySpec
=============================================================================
