------------------------ MODULE ProgramExecutorProofs ------------------------
(***************************************************************************)
(* Proofs about ProgramExecutor for every board, every set of programs and *)
(* every timing that meets the assumptions.                                *)
(***************************************************************************)
EXTENDS ProgramExecutor, TLAPS

\* One millisecond adds one to an elapsed time that does not wrap.
LEMMA ElapsedLater ==
  ASSUME NEW from \in Instant, NEW to \in Instant,
         Elapsed(from, to) + 1 < Wrap
  PROVE  /\ Later(to) \in Instant
         /\ Elapsed(from, Later(to)) = Elapsed(from, to) + 1
BY WrapAssumption DEF Instant, Later, Elapsed

\* An elapsed time is an instant: uint32 subtraction stays in uint32.
LEMMA ElapsedType ==
  ASSUME NEW from \in Instant, NEW to \in Instant
  PROVE  /\ Elapsed(from, to) \in Instant
         /\ Elapsed(from, to) \in Nat
         /\ Elapsed(to, to) = 0
         /\ Later(to) \in Instant
         /\ 0 \in Instant
BY WrapAssumption DEF Instant, Later, Elapsed

\* A relay write leaves a well-typed relay.
LEMMA SwitchedType ==
  ASSUME now \in Instant, NEW state \in BOOLEAN
  PROVE  /\ Switched(state) \in RelayState
         /\ Switched(state).on = state
         /\ state => Switched(state).since = now
BY ElapsedType DEF Switched, RelayState

\* Steps that write the bank leave a well-typed bank, and leave a relay none of
\* them names alone.
LEMMA RelayAfterType ==
  ASSUME now \in Instant, NEW bank \in [Relays -> RelayState],
         NEW p, NEW i, NEW j, NEW r \in Relays
  PROVE  /\ RelayAfter(bank, p, i, j, r) \in RelayState
         /\ WritesTo(p, i, j, r) = {} => RelayAfter(bank, p, i, j, r) = bank[r]
<1> DEFINE all   == WritesTo(p, i, j, r)
           fixed == {k \in all : RelayWrite(p[k]) # "toggle"}
           flips == {k \in all : \A m \in fixed : m < k}
           base  == IF fixed = {} THEN bank[r].on ELSE RelayWrite(p[Latest(fixed)]) = "on"
           state == base # (Cardinality(flips) % 2 = 1)
<1>1. state \in BOOLEAN
  OBVIOUS
<1>2. RelayAfter(bank, p, i, j, r) = IF all = {} THEN bank[r] ELSE Switched(state)
  BY DEF RelayAfter
<1>3. Switched(state) \in RelayState
  <2> HIDE DEF state
  <2> QED BY <1>1, SwitchedType
<1> HIDE DEF state, all
<1>4. bank[r] \in RelayState
  OBVIOUS
<1>5. QED BY <1>2, <1>3, <1>4 DEF all

\* A program that is clean writes the starter relay in no step.
LEMMA CleanWrites ==
  ASSUME CleanPrograms, NEW id \in DOMAIN Programs, NEW i \in Nat, NEW j \in Nat
  PROVE  WritesTo(Programs[id], i, j, StarterRelay) = {}
BY DEF CleanPrograms, WritesTo

-----------------------------------------------------------------------------
\* What one update of the executor's variables must leave true.
Settled ==
  /\ relay' \in [Relays -> RelayState]
  /\ error' \in {error, "PROGRAM_INVALID_REF"}
  /\ running' \in BOOLEAN
  /\ program' \in DOMAIN Programs \cup {NoProgram}
  /\ step' \in Nat
  /\ rt' \in [phase : 0 .. 2, at : Instant]
  /\ enabled' \in [Knobs -> BOOLEAN]
  /\ running' => /\ program' \in DOMAIN Programs
                 /\ step' \in DOMAIN Programs[program']
                 /\ Blocks(Programs[program'][step'])
  /\ pool' = IF running' THEN 1 ELSE 0

\* Whatever steps ran, every runtime switch still holds a Boolean.
LEMMA EnabledType ==
  ASSUME enabled \in [Knobs -> BOOLEAN], NEW p, NEW i, NEW j
  PROVE  [k \in Knobs |-> KnobAfter(p, i, j, k)] \in [Knobs -> BOOLEAN]
<1> SUFFICES ASSUME NEW k \in Knobs PROVE KnobAfter(p, i, j, k) \in BOOLEAN
  OBVIOUS
<1> DEFINE all == {m \in i .. j : /\ m \in DOMAIN p
                                  /\ p[m].act \in InputActs \cup TriggerActs \cup ManagerActs
                                  /\ p[m].ref = k}
           turned == p[Latest(all)].act \in {"INPUT_ENABLE", "TRIGGER_ENABLE", "MANAGER_ON"}
<1>1. KnobAfter(p, i, j, k) = IF all = {} THEN enabled[k] ELSE turned
  BY DEF KnobAfter
<1>2. turned \in BOOLEAN
  OBVIOUS
<1>3. enabled[k] \in BOOLEAN
  OBVIOUS
<1> HIDE DEF all, turned
<1>4. QED BY <1>1, <1>2, <1>3

\* finish() releases what start() acquired.
LEMMA FinishSettles ==
  ASSUME Finish(1)
  PROVE  /\ running' = FALSE /\ program' = NoProgram /\ step' = 1
         /\ rt' \in [phase : 0 .. 2, at : Instant]
         /\ starter' = NoStarter /\ pool' = 0
BY ElapsedType, WrapAssumption DEF Finish, NoTimer, Instant

\* A chain of executeStep() calls leaves the executor settled, the starter
\* untouched and its state reset.
LEMMA RunFromSettles ==
  ASSUME TypeOK, NEW id \in DOMAIN Programs, NEW i \in Nat \ {0},
         NEW bank \in [Relays -> RelayState],
         CleanPrograms => ~bank[StarterRelay].on,
         RunFrom(id, i, bank, 1)
  PROVE  /\ Settled
         /\ starter' = NoStarter
         /\ CleanPrograms => ~relay'[StarterRelay].on
<1> DEFINE p == Programs[id]
           after(j) == [r \in Relays |-> RelayAfter(bank, p, i, j, r)]
<1>1. p \in Seq(CompiledStep) /\ now \in Instant
  BY ExecutorAssumption DEF TypeOK
<1>2. PICK j \in i .. Len(p) + 1 :
        /\ RestsAt(p, i, j)
        /\ enabled' = [k \in Knobs |-> KnobAfter(p, i, j, k)]
        /\ \/ /\ j > Len(p)
              /\ relay' = after(j)
              /\ Finish(1)
              /\ UNCHANGED error
           \/ /\ j <= Len(p) /\ Aborts(p[j])
              /\ AbortWithError(1)
           \/ /\ j <= Len(p) /\ Blocks(p[j])
              /\ relay' = after(j)
              /\ running' = TRUE
              /\ program' = id
              /\ step' = j
              /\ rt' = [phase |-> IF p[j].act \in PulseActs THEN 1 ELSE 0,
                        at |-> IF p[j].act \in StarterActs THEN 0 ELSE now]
              /\ starter' = NoStarter
              /\ pool' = 1
              /\ UNCHANGED error
  BY DEF RunFrom, StarterReset
<1>3. enabled' \in [Knobs -> BOOLEAN]
  BY <1>2, EnabledType DEF TypeOK
<1>4. after(j) \in [Relays -> RelayState]
  BY <1>1, RelayAfterType
<1>5. CleanPrograms => ~after(j)[StarterRelay].on
  <2> SUFFICES ASSUME CleanPrograms PROVE ~after(j)[StarterRelay].on
    OBVIOUS
  <2>1. StarterRelay \in Relays
    BY DEF CleanPrograms
  <2>2. j \in Nat
    BY <1>1
  <2>3. WritesTo(p, i, j, StarterRelay) = {}
    BY <2>2, CleanWrites
  <2>4. after(j)[StarterRelay] = bank[StarterRelay]
    BY <1>1, <2>1, <2>3, RelayAfterType
  <2>5. QED BY <2>4
<1>6. AllOff \in [Relays -> RelayState] /\ \A r \in Relays : ~AllOff[r].on
  BY <1>1, SwitchedType DEF AllOff
<1>7. CASE j > Len(p) /\ relay' = after(j) /\ Finish(1) /\ UNCHANGED error
  <2> HIDE DEF after
  <2> QED BY <1>3, <1>4, <1>5, <1>7, FinishSettles DEF Settled
<1>8. CASE AbortWithError(1)
  BY <1>3, <1>6, <1>8, FinishSettles DEF Settled, AbortWithError, CleanPrograms
<1>9. CASE /\ j <= Len(p) /\ Blocks(p[j])
           /\ relay' = after(j)
           /\ running' = TRUE /\ program' = id /\ step' = j
           /\ rt' = [phase |-> IF p[j].act \in PulseActs THEN 1 ELSE 0,
                     at |-> IF p[j].act \in StarterActs THEN 0 ELSE now]
           /\ starter' = NoStarter /\ pool' = 1
           /\ UNCHANGED error
  <2>1. rt' \in [phase : 0 .. 2, at : Instant]
    BY <1>1, <1>9, ElapsedType
  <2>2. j \in DOMAIN p /\ j \in Nat
    BY <1>1, <1>9
  <2> HIDE DEF after
  <2> QED BY <1>3, <1>4, <1>5, <1>9, <2>1, <2>2 DEF Settled
<1>10. QED BY <1>2, <1>7, <1>8, <1>9

-----------------------------------------------------------------------------
\* A settled executor whose starter is at rest satisfies the invariant.
LEMMA SettledInv ==
  ASSUME ExecutorInv, Settled, starter' = NoStarter,
         CleanPrograms => ~relay'[StarterRelay].on,
         now' = now, lag' \in 0 .. MaxLag, handler' \in {"executor", "relay"},
         handler' = "relay" => lag' = 0
  PROVE  ExecutorInv'
<1>1. TypeOK'
  BY ElapsedType DEF ExecutorInv, TypeOK, Settled, NoStarter, Current
<1>2. PoolBalanced'
  BY DEF Settled, PoolBalanced
<1>3. StarterOnlyWhileCranking' /\ StarterTimed'
  BY DEF StarterOnlyWhileCranking, StarterTimed, Cranking, NoStarter
<1>4. SafetyNetUnused'
  BY DEF ExecutorInv, SafetyNetUnused, Settled
<1>5. QED BY <1>1, <1>2, <1>3, <1>4 DEF ExecutorInv

\* The executor is not in a starter step, or its starter has been released.
LEMMA IdleStarterOff ==
  ASSUME ExecutorInv, ~Cranking, CleanPrograms
  PROVE  ~relay[StarterRelay].on
BY DEF ExecutorInv, StarterOnlyWhileCranking

\* The state begin() leaves satisfies the invariant.
THEOREM ExecutorInit == Init => ExecutorInv
<1> SUFFICES ASSUME Init PROVE ExecutorInv
  OBVIOUS
<1>1. now \in Instant
  BY DEF Init
<1>2. relay \in [Relays -> RelayState] /\ \A r \in Relays : ~relay[r].on
  BY <1>1, SwitchedType DEF Init, AllOff
<1>3. TypeOK
  <2>1. lag \in 0 .. MaxLag
    BY ExecutorAssumption DEF Init
  <2>2. rt \in [phase : 0 .. 2, at : Instant]
    BY <1>1, ElapsedType DEF Init, NoTimer
  <2>3. starter \in [phase : 0 .. 3, at : Instant, left : 0 .. 255]
    BY <1>1, ElapsedType DEF Init, NoStarter
  <2>4. QED BY <1>1, <1>2, <2>1, <2>2, <2>3 DEF Init, TypeOK
<1>4. StarterOnlyWhileCranking
  BY <1>2 DEF Init, StarterOnlyWhileCranking, Cranking, InStarterStep, CleanPrograms
<1>5. QED
  BY <1>3, <1>4 DEF Init, ExecutorInv, PoolBalanced, SafetyNetUnused, StarterTimed,
                   Cranking, InStarterStep, NoStarter

\* stop() leaves the starter relay off, in whatever step it finds the program.
LEMMA StopReleases ==
  ASSUME ExecutorInv
  PROVE  /\ StoppedBank \in [Relays -> RelayState]
         /\ CleanPrograms => ~StoppedBank[StarterRelay].on
<1>1. now \in Instant /\ relay \in [Relays -> RelayState]
  BY DEF ExecutorInv, TypeOK
<1>2. StoppedBank \in [Relays -> RelayState]
  BY <1>1, SwitchedType DEF StoppedBank
<1>3. ASSUME CleanPrograms PROVE ~StoppedBank[StarterRelay].on
  <2>1. StarterRelay \in Relays
    BY <1>3 DEF CleanPrograms
  <2>2. CASE InStarterStep
    BY <1>1, <2>1, <2>2, SwitchedType DEF StoppedBank
  <2>3. CASE ~InStarterStep
    BY <1>3, <2>1, <2>3, IdleStarterOff DEF StoppedBank, Cranking
  <2>4. QED BY <2>2, <2>3
<1>4. QED BY <1>2, <1>3

\* start() of a known program, whatever it preempts, keeps the invariant.
LEMMA StartInv ==
  ASSUME ExecutorInv, NEW id \in DOMAIN Programs, Start(id)
  PROVE  ExecutorInv'
<1>1. TypeOK /\ now \in Instant
  BY DEF ExecutorInv, TypeOK
<1>2. HeldAfterStop + 1 = 1
  BY DEF ExecutorInv, PoolBalanced, HeldAfterStop
<1>3. /\ StoppedBank \in [Relays -> RelayState]
      /\ CleanPrograms => ~StoppedBank[StarterRelay].on
  BY StopReleases
<1>5. RunFrom(id, 1, StoppedBank, 1)
  BY <1>2 DEF Start
<1>6. /\ Settled
      /\ starter' = NoStarter
      /\ CleanPrograms => ~relay'[StarterRelay].on
  BY <1>1, <1>3, <1>5, RunFromSettles
<1>7. QED
  BY <1>1, <1>6, SettledInv DEF Start, TypeOK

\* start() of a missing or empty program stops what ran and keeps the invariant.
LEMMA StartUnknownInv ==
  ASSUME ExecutorInv, StartUnknown
  PROVE  ExecutorInv'
<1>1. TypeOK /\ now \in Instant
  BY DEF ExecutorInv, TypeOK
<1>2. Finish(1)
  BY DEF ExecutorInv, PoolBalanced, HeldAfterStop, StartUnknown
<1>3. /\ StoppedBank \in [Relays -> RelayState]
      /\ CleanPrograms => ~StoppedBank[StarterRelay].on
  BY StopReleases
<1>5. Settled
  BY <1>1, <1>2, <1>3, FinishSettles DEF Settled, StartUnknown, TypeOK
<1>6. QED
  BY <1>1, <1>2, <1>3, <1>5, FinishSettles, SettledInv DEF StartUnknown, TypeOK

-----------------------------------------------------------------------------
\* The steps of update() that end a phase by running on.
LEMMA RunOnInv ==
  ASSUME ExecutorInv, now' = now, lag' = 0, handler' = "relay", running,
         NEW bank \in [Relays -> RelayState],
         CleanPrograms => ~bank[StarterRelay].on,
         NextStep(bank)
  PROVE  ExecutorInv'
<1>1. TypeOK /\ pool = 1
  BY DEF ExecutorInv, PoolBalanced
<1>2. program \in DOMAIN Programs /\ step + 1 \in Nat \ {0}
  BY <1>1 DEF TypeOK
<1>3. RunFrom(program, step + 1, bank, 1)
  BY <1>1 DEF NextStep
<1>4. /\ Settled
      /\ starter' = NoStarter
      /\ CleanPrograms => ~relay'[StarterRelay].on
  BY <1>1, <1>2, <1>3, RunFromSettles
<1>5. 0 \in 0 .. MaxLag
  BY ExecutorAssumption
<1>6. QED BY <1>4, <1>5, SettledInv

\* The relay a running pulse or an executing RELAY_* step names exists, and a
\* clean program's is not the starter's.
LEMMA PulseRelay ==
  ASSUME TypeOK, running, Current.act \in PulseActs
  PROVE  /\ Current.ref \in Relays
         /\ CleanPrograms => Current.ref # StarterRelay
<1>1. program \in DOMAIN Programs /\ step \in DOMAIN Programs[program] /\ Blocks(Current)
  BY DEF TypeOK
<1>2. Current.ref \in Relays
  BY <1>1 DEF Blocks, Aborts, RelayActs
<1>3. RelayWrite(Current) # "none"
  BY DEF RelayWrite, PulseActs
<1>4. QED BY <1>1, <1>2, <1>3 DEF CleanPrograms, Current

\* The end of a WAIT keeps the invariant.
LEMMA WaitDoneInv ==
  ASSUME ExecutorInv, now' = now, lag' = 0, handler' = "relay", WaitDone
  PROVE  ExecutorInv'
<1>1. relay \in [Relays -> RelayState]
  BY DEF ExecutorInv, TypeOK
<1>2. ~Cranking
  BY DEF WaitDone, Cranking, InStarterStep, StarterActs
<1>3. QED BY <1>1, <1>2, IdleStarterOff, RunOnInv DEF WaitDone

\* The second edge of a pulse keeps the invariant.
LEMMA PulseEndInv ==
  ASSUME ExecutorInv, now' = now, lag' = 0, handler' = "relay", PulseEnd
  PROVE  ExecutorInv'
<1> DEFINE level == Current.act = "RELAY_PULSE_ON_OFF_ON"
           bank == [relay EXCEPT ![Current.ref] = Switched(level)]
<1>1. TypeOK /\ now \in Instant /\ relay \in [Relays -> RelayState]
  BY DEF ExecutorInv, TypeOK
<1>2. running /\ Current.act \in PulseActs /\ NextStep(bank)
  BY DEF PulseEnd
<1>3. Current.ref \in Relays /\ (CleanPrograms => Current.ref # StarterRelay)
  BY <1>1, <1>2, PulseRelay
<1>4. ~Cranking
  BY <1>2 DEF Cranking, InStarterStep, StarterActs, PulseActs
<1>5. Switched(level) \in RelayState
  BY <1>1, SwitchedType
<1> HIDE DEF level
<1>6. bank \in [Relays -> RelayState]
  BY <1>1, <1>5
<1>7. CleanPrograms => ~bank[StarterRelay].on
  BY <1>1, <1>3, <1>4, IdleStarterOff DEF CleanPrograms
<1> HIDE DEF bank
<1>8. QED BY <1>2, <1>6, <1>7, RunOnInv

\* The first edge of a pulse keeps the invariant: its relay is not the starter's.
LEMMA PulseFlipInv ==
  ASSUME ExecutorInv, now' = now, lag' = 0, handler' = "relay", PulseFlip
  PROVE  ExecutorInv'
<1> DEFINE level == Current.act = "RELAY_PULSE_OFF_ON_OFF"
<1>1. TypeOK /\ now \in Instant /\ relay \in [Relays -> RelayState]
  BY DEF ExecutorInv, TypeOK
<1>2. /\ running /\ Current.act \in PulseActs
      /\ relay' = [relay EXCEPT ![Current.ref] = Switched(level)]
      /\ rt' = [phase |-> 2, at |-> now]
      /\ UNCHANGED <<error, running, program, step, starter, enabled, pool>>
  BY DEF PulseFlip
<1>3. Current.ref \in Relays /\ (CleanPrograms => Current.ref # StarterRelay)
  BY <1>1, <1>2, PulseRelay
<1>4. starter.phase = 0 /\ ~Cranking
  BY <1>1, <1>2 DEF ExecutorInv, StarterTimed, Cranking, InStarterStep, StarterActs,
                    PulseActs, TypeOK
<1>5. Switched(level) \in RelayState
  BY <1>1, SwitchedType
<1> HIDE DEF level
<1>6. relay' \in [Relays -> RelayState]
  BY <1>1, <1>2, <1>5
<1>7. TypeOK'
  <2>1. 0 \in 0 .. MaxLag
    BY ExecutorAssumption
  <2>2. rt' \in [phase : 0 .. 2, at : Instant]
    BY <1>1, <1>2
  <2>3. QED BY <1>1, <1>2, <1>6, <2>1, <2>2 DEF TypeOK, Current
<1>8. CleanPrograms => ~relay'[StarterRelay].on
  BY <1>1, <1>2, <1>3, <1>4, IdleStarterOff DEF CleanPrograms
<1>9. starter'.phase = 0 /\ ~Cranking'
  BY <1>2, <1>4 DEF Cranking
<1>10. QED
  BY <1>2, <1>7, <1>8, <1>9 DEF ExecutorInv, PoolBalanced, StarterOnlyWhileCranking,
     SafetyNetUnused, StarterTimed

\* abortWithError() from update().
LEMMA AbortInv ==
  ASSUME ExecutorInv, now' = now, lag' = 0, handler' = "relay", running,
         AbortWithError(pool), enabled' = enabled
  PROVE  ExecutorInv'
<1>1. TypeOK /\ pool = 1 /\ now \in Instant
  BY DEF ExecutorInv, PoolBalanced, TypeOK
<1>2. AllOff \in [Relays -> RelayState] /\ \A r \in Relays : ~AllOff[r].on
  BY <1>1, SwitchedType DEF AllOff
<1>3. Settled /\ starter' = NoStarter
  BY <1>1, <1>2, FinishSettles DEF Settled, AbortWithError, TypeOK
<1>4. CleanPrograms => ~relay'[StarterRelay].on
  BY <1>2 DEF AbortWithError, CleanPrograms
<1>5. 0 \in 0 .. MaxLag
  BY ExecutorAssumption
<1>6. QED BY <1>3, <1>4, <1>5, SettledInv

\* The starter step being executed is left as it is.
LEMMA StarterStepFrame ==
  ASSUME ExecutorInv, InStarterStep, UNCHANGED <<running, program, step>>
  PROVE  /\ InStarterStep'
         /\ Current' = Current
         /\ Current.retries \in 0 .. 255
         /\ Current.ms \in Nat
<1>1. program \in DOMAIN Programs /\ step \in DOMAIN Programs[program]
  BY DEF ExecutorInv, TypeOK, InStarterStep
<1>2. Programs[program] \in Seq(CompiledStep)
  BY <1>1, ExecutorAssumption
<1>3. Current \in CompiledStep
  BY <1>1, <1>2 DEF Current
<1>4. QED BY <1>3 DEF InStarterStep, Current, CompiledStep

\* Energising the starter starts the step's clock and the relay's at one instant.
LEMMA StarterEngageInv ==
  ASSUME ExecutorInv, now' = now, lag' = 0, handler' = "relay", StarterEngage
  PROVE  ExecutorInv'
<1>1. /\ TypeOK /\ now \in Instant /\ relay \in [Relays -> RelayState]
      /\ starter \in [phase : 0 .. 3, at : Instant, left : 0 .. 255]
  BY DEF ExecutorInv, TypeOK
<1>2. /\ InStarterStep /\ StarterRelay \in Relays
      /\ relay' = [relay EXCEPT ![StarterRelay] = Switched(TRUE)]
      /\ UNCHANGED <<error, running, program, step, rt, enabled, pool>>
  BY DEF StarterEngage
<1>3. InStarterStep' /\ Current' = Current /\ Current.retries \in 0 .. 255
  BY <1>2, StarterStepFrame
<1>4. /\ starter' \in [phase : 0 .. 3, at : Instant, left : 0 .. 255]
      /\ starter'.phase = 1 /\ starter'.at = now /\ starter'.left > 0
  BY <1>1, <1>3 DEF StarterEngage, Asked
<1>5. relay' \in [Relays -> RelayState] /\ relay'[StarterRelay] = Switched(TRUE)
  BY <1>1, <1>2, SwitchedType
<1>6. 0 \in 0 .. MaxLag
  BY ExecutorAssumption
<1>7. TypeOK'
  BY <1>1, <1>2, <1>3, <1>4, <1>5, <1>6 DEF TypeOK, Current
<1>8. Cranking' /\ relay'[StarterRelay].on /\ relay'[StarterRelay].since = now
  BY <1>1, <1>3, <1>4, <1>5, SwitchedType DEF Cranking
<1>9. Elapsed(starter'.at, now') <= CrankLimit - MaxLag + lag'
  BY <1>1, <1>4, ElapsedType, MaxStarterAssumption, ExecutorAssumption DEF CrankLimit
<1>10. StarterTimed'
  BY <1>3, <1>4, <1>8, <1>9 DEF StarterTimed, Cranking
<1>11. QED
  BY <1>2, <1>7, <1>8, <1>10 DEF ExecutorInv, PoolBalanced, StarterOnlyWhileCranking, SafetyNetUnused

\* The end of a press leaves the starter relay off.
LEMMA StarterReleaseInv ==
  ASSUME ExecutorInv, now' = now, lag' = 0, handler' = "relay",
         NEW level \in BOOLEAN, StarterRelease(level)
  PROVE  ExecutorInv'
<1>1. /\ TypeOK /\ now \in Instant /\ relay \in [Relays -> RelayState]
      /\ starter \in [phase : 0 .. 3, at : Instant, left : 0 .. 255]
  BY DEF ExecutorInv, TypeOK
<1>2. /\ InStarterStep /\ StarterRelay \in Relays /\ starter.phase = 1
      /\ relay' = [relay EXCEPT ![StarterRelay] = Switched(FALSE)]
      /\ starter' = [phase |-> 2, at |-> now, left |-> starter.left]
      /\ UNCHANGED <<error, running, program, step, rt, enabled, pool>>
  BY DEF StarterRelease
<1>3. InStarterStep' /\ Current' = Current
  BY <1>2, StarterStepFrame
<1>4. /\ starter' \in [phase : 0 .. 3, at : Instant, left : 0 .. 255]
      /\ starter'.phase = 2 /\ starter'.left > 0
  <2>1. starter.left > 0
    BY <1>2 DEF ExecutorInv, StarterTimed
  <2>2. starter' \in [phase : 0 .. 3, at : Instant, left : 0 .. 255]
    BY <1>1, <1>2
  <2>3. starter'.phase = 2 /\ starter'.left = starter.left
    BY <1>1, <1>2
  <2>4. QED BY <2>1, <2>2, <2>3
<1>5. relay' \in [Relays -> RelayState] /\ ~relay'[StarterRelay].on
  BY <1>1, <1>2, SwitchedType
<1>6. 0 \in 0 .. MaxLag
  BY ExecutorAssumption
<1>7. TypeOK'
  BY <1>1, <1>2, <1>3, <1>4, <1>5, <1>6 DEF TypeOK, Current
<1>8. ~Cranking'
  BY <1>4 DEF Cranking
<1>9. StarterTimed'
  BY <1>3, <1>4, <1>8 DEF StarterTimed
<1>10. QED
  BY <1>2, <1>5, <1>7, <1>8, <1>9 DEF ExecutorInv, PoolBalanced, StarterOnlyWhileCranking, SafetyNetUnused

\* The verdict after the wait (done, retry, give up) keeps the invariant.
LEMMA StarterVerdictInv ==
  ASSUME ExecutorInv, now' = now, lag' = 0, handler' = "relay",
         NEW engineRunning \in BOOLEAN, StarterVerdict(engineRunning)
  PROVE  ExecutorInv'
<1>1. /\ TypeOK /\ now \in Instant /\ relay \in [Relays -> RelayState] /\ pool = 1
      /\ starter \in [phase : 0 .. 3, at : Instant, left : 0 .. 255]
  BY DEF ExecutorInv, TypeOK, PoolBalanced, StarterVerdict, InStarterStep
<1>2. InStarterStep /\ running /\ starter.phase = 2 /\ ~Cranking
  BY DEF StarterVerdict, InStarterStep, Cranking
<1>3. CleanPrograms => ~relay[StarterRelay].on
  BY <1>2, IdleStarterOff
<1>4. 0 \in 0 .. MaxLag
  BY ExecutorAssumption
<1>5. CASE NextStep(relay)
  BY <1>1, <1>2, <1>3, <1>5, RunOnInv
<1>6. CASE /\ starter.left > 1
           /\ starter' = [phase |-> 3, at |-> now, left |-> starter.left - 1]
           /\ UNCHANGED <<relay, error, running, program, step, rt, enabled, pool>>
  <2>1. InStarterStep' /\ Current' = Current
    BY <1>2, <1>6, StarterStepFrame
  <2>2. /\ starter' \in [phase : 0 .. 3, at : Instant, left : 0 .. 255]
        /\ starter'.phase = 3 /\ starter'.left > 0
    BY <1>1, <1>6
  <2>3. TypeOK'
    BY <1>1, <1>4, <1>6, <2>1, <2>2 DEF TypeOK, Current
  <2>4. ~Cranking'
    BY <2>2 DEF Cranking
  <2>5. QED
    BY <1>3, <1>6, <2>1, <2>2, <2>3, <2>4 DEF ExecutorInv, PoolBalanced,
       StarterOnlyWhileCranking, SafetyNetUnused, StarterTimed
<1>7. CASE Finish(pool) /\ UNCHANGED <<relay, error, enabled>>
  <2>1. Settled /\ starter' = NoStarter
    BY <1>1, <1>7, FinishSettles DEF Settled, TypeOK
  <2>2. QED BY <1>3, <1>4, <1>7, <2>1, SettledInv
<1>8. QED BY <1>5, <1>6, <1>7 DEF StarterVerdict

\* update() may leave a press on only while its time is not up.
LEMMA PendingInv ==
  ASSUME ExecutorInv, now' = now, lag' = 0, handler' = "relay",
         NEW level \in BOOLEAN, Pending(level)
  PROVE  ExecutorInv'
<1>1. UNCHANGED <<relay, error, running, program, step, rt, starter, enabled, pool>>
  BY DEF Pending
<1>2. 0 \in 0 .. MaxLag
  BY ExecutorAssumption
<1>3. TypeOK'
  BY <1>1, <1>2 DEF ExecutorInv, TypeOK, Current
<1>4. InStarterStep' = InStarterStep /\ Cranking' = Cranking
  BY <1>1 DEF InStarterStep, Cranking, Current
<1>5. ASSUME CleanPrograms, Cranking
      PROVE  Elapsed(starter.at, now) <= CrankLimit - MaxLag
  <2>1. starter.at \in Instant /\ now \in Instant
    BY DEF ExecutorInv, TypeOK
  <2>2. Elapsed(starter.at, now) \in Nat
    BY <2>1, ElapsedType
  <2>3. InStarterStep /\ Current.ms \in Nat
    BY <1>1, <1>5, StarterStepFrame DEF Cranking
  <2>4. AttemptMs \in Nat /\ AttemptMs <= MaxStarter
    BY <2>3, MaxStarterAssumption DEF AttemptMs
  <2>5. ~Due(starter.at, AttemptMs)
    BY <1>5 DEF Pending, Cranking, InStarterStep, StarterActs, PulseActs
  <2>6. Elapsed(starter.at, now) < MaxStarter
    BY <2>2, <2>4, <2>5, MaxStarterAssumption DEF Due
  <2>7. QED
    BY <2>2, <2>6, MaxStarterAssumption, ExecutorAssumption DEF CrankLimit
<1>6. StarterTimed'
  <2>1. CrankLimit - MaxLag + 0 = CrankLimit - MaxLag
    BY MaxStarterAssumption, ExecutorAssumption DEF CrankLimit
  <2>2. QED
    BY <1>1, <1>4, <1>5, <2>1 DEF ExecutorInv, StarterTimed
<1>7. QED
  BY <1>1, <1>3, <1>4, <1>6 DEF ExecutorInv, PoolBalanced, StarterOnlyWhileCranking,
     SafetyNetUnused

\* ProgramExecutor::update() keeps the invariant, whichever branch it takes.
LEMMA UpdateInv ==
  ASSUME ExecutorInv, ExecutorUpdate
  PROVE  ExecutorInv'
<1>1. now' = now /\ lag' = 0 /\ handler' = "relay"
  BY DEF ExecutorUpdate
<1>2. CASE WaitDone
  BY <1>1, <1>2, WaitDoneInv
<1>3. CASE PulseFlip
  BY <1>1, <1>3, PulseFlipInv
<1>4. CASE PulseEnd
  BY <1>1, <1>4, PulseEndInv
<1>5. CASE StarterUnusable
  BY <1>1, <1>5, AbortInv DEF StarterUnusable, InStarterStep
<1>6. CASE StarterEngage
  BY <1>1, <1>6, StarterEngageInv
<1>7. ASSUME NEW level \in BOOLEAN, StarterRelease(level) PROVE ExecutorInv'
  BY <1>1, <1>7, StarterReleaseInv
<1>8. ASSUME NEW level \in BOOLEAN, Pending(level) PROVE ExecutorInv'
  BY <1>1, <1>8, PendingInv
<1>9. ASSUME NEW engineRunning \in BOOLEAN, StarterVerdict(engineRunning)
       PROVE  ExecutorInv'
  BY <1>1, <1>9, StarterVerdictInv
<1>10. QED
  BY <1>2, <1>3, <1>4, <1>5, <1>6, <1>7, <1>8, <1>9 DEF ExecutorUpdate

\* checkSafety() has nothing to do while a clean program cranks: at the pass it
\* belongs to, the executor has just seen that time is not up.
LEMMA RelayUpdateInv ==
  ASSUME ExecutorInv, RelayUpdate
  PROVE  ExecutorInv'
<1> DEFINE late == Overdue(InStarterStep)
<1>1. /\ TypeOK /\ now \in Instant /\ relay \in [Relays -> RelayState]
      /\ lag = 0 /\ handler = "relay" /\ handler' = "executor"
      /\ UNCHANGED <<now, lag, running, program, step, rt, starter, enabled, pool>>
      /\ relay' = [r \in Relays |-> IF r \in late THEN Switched(FALSE) ELSE relay[r]]
      /\ error' = IF late = {} THEN error ELSE "RELAY_TIMEOUT"
  BY DEF RelayUpdate, CheckSafety, ExecutorInv, TypeOK, StarterTimed
<1>2. ASSUME CleanPrograms PROVE late = {}
  <2> SUFFICES ASSUME NEW r \in late PROVE FALSE
    OBVIOUS
  <2>1. /\ r = StarterRelay /\ relay[r].on /\ InStarterStep
        /\ MaxStarter > 0 /\ Elapsed(relay[r].since, now) > MaxStarter
    BY DEF Overdue, MaxOnTime
  <2>2. Cranking
    BY <1>2, <2>1 DEF ExecutorInv, StarterOnlyWhileCranking
  <2>3. Elapsed(relay[r].since, now) <= CrankLimit - MaxLag + lag
    BY <1>2, <2>1, <2>2 DEF ExecutorInv, StarterTimed
  <2>4. CrankLimit - MaxLag + lag = MaxStarter - 1
    BY <1>1, <2>1, MaxStarterAssumption, ExecutorAssumption DEF CrankLimit
  <2>5. relay[r].since \in Instant
    BY <1>1 DEF Overdue, RelayState
  <2>6. Elapsed(relay[r].since, now) \in Int
    BY <1>1, <2>5, ElapsedType
  <2>7. QED BY <2>1, <2>3, <2>4, <2>6, MaxStarterAssumption
<1> HIDE DEF late
<1>3. relay' \in [Relays -> RelayState]
  BY <1>1, SwitchedType
<1>4. TypeOK'
  <2>1. error' \in {"NONE", "PROGRAM_INVALID_REF", "RELAY_TIMEOUT"}
    BY <1>1 DEF TypeOK
  <2>2. QED BY <1>1, <1>3, <2>1 DEF TypeOK, Current
<1>5. CleanPrograms => relay'[StarterRelay] = relay[StarterRelay] /\ error' = error
  BY <1>1, <1>2 DEF CleanPrograms
<1>6. InStarterStep' = InStarterStep /\ Cranking' = Cranking
  BY <1>1 DEF InStarterStep, Cranking, Current
<1>7. StarterTimed'
  BY <1>1, <1>5, <1>6 DEF ExecutorInv, StarterTimed
<1>8. QED
  BY <1>1, <1>4, <1>5, <1>6, <1>7 DEF ExecutorInv, PoolBalanced,
     StarterOnlyWhileCranking, SafetyNetUnused

\* Time that passes before the next pass of the loop keeps the invariant.
LEMMA TickInv ==
  ASSUME ExecutorInv, Tick
  PROVE  ExecutorInv'
<1>1. /\ TypeOK /\ now \in Instant /\ lag \in 0 .. MaxLag /\ lag < MaxLag
      /\ handler = "executor" /\ lag' = lag + 1 /\ now' = Later(now)
      /\ UNCHANGED <<relay, error, handler, running, program, step, rt, starter,
                     enabled, pool>>
  BY DEF Tick, ExecutorInv, TypeOK
<1>2. lag' \in 0 .. MaxLag
  BY <1>1, ExecutorAssumption
<1>3. TypeOK'
  BY <1>1, <1>2, ElapsedType DEF TypeOK, Current
<1>4. InStarterStep' = InStarterStep /\ Cranking' = Cranking
  BY <1>1 DEF InStarterStep, Cranking, Current
<1>5. ASSUME CleanPrograms, Cranking
      PROVE  Elapsed(starter.at, Later(now)) <= CrankLimit - MaxLag + (lag + 1)
  <2>1. starter.at \in Instant
    BY <1>1 DEF TypeOK
  <2>2. Elapsed(starter.at, now) \in Int
    BY <1>1, <2>1, ElapsedType
  <2>3. CrankLimit \in Int /\ CrankLimit <= MaxStarter + MaxLag
    BY MaxStarterAssumption, ExecutorAssumption DEF CrankLimit
  <2>4. Elapsed(starter.at, now) <= CrankLimit - MaxLag + lag
    BY <1>5 DEF ExecutorInv, StarterTimed
  <2>5. Elapsed(starter.at, now) + 1 < Wrap
    BY <1>1, <2>2, <2>3, <2>4, MaxStarterAssumption, ExecutorAssumption,
       TimerAssumption, WrapAssumption
  <2>6. Elapsed(starter.at, Later(now)) = Elapsed(starter.at, now) + 1
    BY <1>1, <2>1, <2>5, ElapsedLater
  <2>7. QED BY <1>1, <2>2, <2>3, <2>4, <2>6, ExecutorAssumption
<1>6. StarterTimed'
  BY <1>1, <1>4, <1>5 DEF ExecutorInv, StarterTimed
<1>7. QED
  BY <1>1, <1>3, <1>4, <1>6 DEF ExecutorInv, PoolBalanced, StarterOnlyWhileCranking,
     SafetyNetUnused

\* The invariant is inductive.
THEOREM ExecutorStep == ExecutorInv /\ [Next]_vars => ExecutorInv'
<1> SUFFICES ASSUME ExecutorInv, [Next]_vars PROVE ExecutorInv'
  OBVIOUS
<1>1. CASE UNCHANGED vars
  BY <1>1 DEF vars, ExecutorInv, TypeOK, PoolBalanced, StarterOnlyWhileCranking,
     SafetyNetUnused, StarterTimed, Cranking, InStarterStep, Current
<1>2. CASE ExecutorUpdate
  BY <1>2, UpdateInv
<1>3. CASE RelayUpdate
  BY <1>3, RelayUpdateInv
<1>4. CASE Tick
  BY <1>4, TickInv
<1>5. ASSUME NEW id \in DOMAIN Programs, Start(id) PROVE ExecutorInv'
  BY <1>5, StartInv
<1>6. CASE StartUnknown
  BY <1>6, StartUnknownInv
<1>7. QED
  BY <1>1, <1>2, <1>3, <1>4, <1>5, <1>6 DEF Next, Loop, Starts

\* The invariant holds of every run, for every board, program set and timing.
THEOREM ExecutorSafe == Spec => []ExecutorInv
BY ExecutorInit, ExecutorStep, PTL DEF Spec

\* The starter is never energised beyond its limit.
THEOREM CrankIsBounded == Spec => []CrankBounded
<1>1. ExecutorInv => CrankBounded
  <2> SUFFICES ASSUME ExecutorInv, CleanPrograms, relay[StarterRelay].on
               PROVE  Elapsed(relay[StarterRelay].since, now) <= CrankLimit
    BY DEF CrankBounded
  <2>1. Cranking
    BY DEF ExecutorInv, StarterOnlyWhileCranking
  <2>2. Elapsed(relay[StarterRelay].since, now) <= CrankLimit - MaxLag + lag
    BY <2>1 DEF ExecutorInv, StarterTimed
  <2>3. /\ relay[StarterRelay].since \in Instant /\ now \in Instant
        /\ lag \in 0 .. MaxLag
    BY DEF ExecutorInv, TypeOK, CleanPrograms, RelayState
  <2>4. Elapsed(relay[StarterRelay].since, now) \in Int
    BY <2>3, ElapsedType
  <2>5. QED
    BY <2>2, <2>3, <2>4, MaxStarterAssumption, ExecutorAssumption DEF CrankLimit
<1>2. QED BY <1>1, ExecutorSafe, PTL

\* The starter relay is on exactly while a starter step cranks.
THEOREM StarterIsGuarded == Spec => []StarterOnlyWhileCranking
<1>1. ExecutorInv => StarterOnlyWhileCranking
  BY DEF ExecutorInv
<1>2. QED BY <1>1, ExecutorSafe, PTL

\* A clean program never trips the relay safety net.
THEOREM SafetyNetIsUnused == Spec => []SafetyNetUnused
<1>1. ExecutorInv => SafetyNetUnused
  BY DEF ExecutorInv
<1>2. QED BY <1>1, ExecutorSafe, PTL

\* The step buffers are held exactly while a program runs.
THEOREM PoolIsBalanced == Spec => []PoolBalanced
<1>1. ExecutorInv => PoolBalanced
  BY DEF ExecutorInv
<1>2. QED BY <1>1, ExecutorSafe, PTL

-----------------------------------------------------------------------------
\* The refinement of StarterDuty.  onOf, forOf and spareOf are the mapping.

onFor == IF relay[StarterRelay].on THEN Elapsed(relay[StarterRelay].since, now) ELSE 0
spare == CASE starter.phase \in {1, 2} -> starter.left - 1
           [] starter.phase = 3 -> starter.left
           [] OTHER -> 0

\* Steps that end or replace the starter step reset its state.
LEMMA RunFromResets ==
  ASSUME NEW id, NEW i, NEW bank, NEW held, RunFrom(id, i, bank, held)
  PROVE  starter' = NoStarter
BY DEF RunFrom, Finish, AbortWithError, StarterReset

\* No step asks for more presses than its field holds.
LEMMA AskedType ==
  ASSUME NEW id \in DOMAIN Programs, NEW k \in DOMAIN Programs[id]
  PROVE  Programs[id][k].retries \in 0 .. 255
<1>1. Programs[id] \in Seq(CompiledStep)
  BY ExecutorAssumption
<1>2. Programs[id][k] \in CompiledStep
  BY <1>1
<1>. QED BY <1>2 DEF CompiledStep

\* With its state reset the starter relay is off, in the abstract too.
LEMMA ResetIsStepOver ==
  ASSUME CleanPrograms, ExecutorInv', starter' = NoStarter
  PROVE  Duty!StepOver
<1>1. starter'.phase = 0
  BY DEF NoStarter
<1>2. ~Cranking'
  BY <1>1 DEF Cranking
<1>3. ~relay'[StarterRelay].on /\ relay'[StarterRelay].on \in BOOLEAN
  BY <1>2 DEF ExecutorInv, StarterOnlyWhileCranking, TypeOK, RelayState, CleanPrograms
<1>4. Asked' \in 0 .. 255
  <2>1. InStarterStep' => program' \in DOMAIN Programs /\ step' \in DOMAIN Programs[program']
    BY DEF ExecutorInv, TypeOK, InStarterStep
  <2>2. InStarterStep' => Current'.retries \in 0 .. 255
    BY <2>1, AskedType DEF Current
  <2>. QED BY <2>2 DEF Asked
<1>. QED
  BY <1>1, <1>3, <1>4 DEF Duty!StepOver

\* Energising the starter is a press of the promise, the first or a spare one.
LEMMA EngageIsPress ==
  ASSUME CleanPrograms, ExecutorInv, ExecutorInv', now' = now, StarterEngage
  PROVE  Duty!FirstPress \/ Duty!PressAgain
<1>1. /\ TypeOK /\ now \in Instant /\ relay \in [Relays -> RelayState]
      /\ starter \in [phase : 0 .. 3, at : Instant, left : 0 .. 255]
      /\ StarterRelay \in Relays
      /\ starter.phase = 0 => starter.left = 0
      /\ starter.phase # 0 => starter.left > 0
  BY DEF ExecutorInv, TypeOK, StarterTimed, CleanPrograms
<1>2. /\ InStarterStep /\ Asked \in 1 .. 255 /\ Asked' = Asked
      /\ starter'.phase = 1 /\ starter'.left \in 1 .. 255
      /\ starter.phase = 0 => starter'.left = Asked
      /\ starter.phase = 3 => starter'.left = starter.left
  <2>1. Current.retries \in 0 .. 255
    <3>1. program \in DOMAIN Programs /\ step \in DOMAIN Programs[program]
      BY <1>1 DEF TypeOK, StarterEngage, InStarterStep
    <3>2. QED BY <3>1, AskedType DEF Current
  <2>2. InStarterStep /\ UNCHANGED <<running, program, step>>
    BY DEF StarterEngage
  <2>3. Asked \in 1 .. 255 /\ Asked' = Asked
    BY <2>1, <2>2 DEF Asked, InStarterStep, Current
  <2>4. QED BY <1>1, <2>2, <2>3 DEF StarterEngage
<1>3. /\ relay'[StarterRelay].on = TRUE
      /\ relay'[StarterRelay].since = now
  BY <1>1, SwitchedType DEF StarterEngage
<1>4. Elapsed(relay'[StarterRelay].since, now') = 0
  BY <1>1, <1>3, ElapsedType
<1>5. ~relay[StarterRelay].on
  <2>1. starter.phase # 1
    BY DEF StarterEngage
  <2>2. QED BY <2>1, IdleStarterOff DEF Cranking
<1>6. CASE starter.phase = 0
  BY <1>1, <1>2, <1>3, <1>4, <1>5, <1>6 DEF Duty!FirstPress
<1>7. CASE starter.phase = 3
  BY <1>1, <1>2, <1>3, <1>4, <1>5, <1>7 DEF Duty!PressAgain
<1>8. QED BY <1>6, <1>7 DEF StarterEngage

\* The end of a press is a release of the promise.
LEMMA ReleaseIsRelease ==
  ASSUME CleanPrograms, ExecutorInv, ExecutorInv', NEW level \in BOOLEAN,
         StarterRelease(level)
  PROVE  Duty!Release
<1>1. /\ starter.phase = 1 /\ starter'.phase = 2 /\ starter'.left = starter.left
  BY DEF StarterRelease
<1>2. Cranking /\ ~Cranking'
  BY <1>1 DEF StarterRelease, Cranking
<1>3. /\ relay[StarterRelay].on
      /\ ~relay'[StarterRelay].on /\ relay'[StarterRelay].on \in BOOLEAN
  BY <1>2 DEF ExecutorInv, StarterOnlyWhileCranking, TypeOK, RelayState, CleanPrograms
<1>4. Asked' = Asked
  BY DEF StarterRelease, Asked, InStarterStep, Current
<1>. QED BY <1>1, <1>3, <1>4 DEF Duty!Release

\* A step that neither moves the starter's state nor the clock is a stutter.
LEMMA StillIsStutter ==
  ASSUME CleanPrograms, ExecutorInv, ExecutorInv', now' = now,
         Cranking' <=> Cranking, (starter'.at = starter.at) \/ ~Cranking,
         (starter'.phase # 0) <=> (starter.phase # 0), spare' = spare, Asked' = Asked
  PROVE  UNCHANGED Duty!duty
<1>1. /\ relay[StarterRelay].on \in BOOLEAN /\ relay'[StarterRelay].on \in BOOLEAN
      /\ relay[StarterRelay].on <=> Cranking
      /\ relay'[StarterRelay].on <=> Cranking'
  BY DEF ExecutorInv, StarterOnlyWhileCranking, TypeOK, RelayState, CleanPrograms
<1>2. Cranking => /\ relay[StarterRelay].since = starter.at
                  /\ relay'[StarterRelay].since = starter'.at
  BY DEF ExecutorInv, StarterTimed
<1>3. relay'[StarterRelay].on = relay[StarterRelay].on
  BY <1>1
<1>4. onFor' = onFor
  BY <1>1, <1>2, <1>3 DEF onFor
<1>5. QED BY <1>3, <1>4 DEF Duty!duty, onFor, spare

\* A millisecond wears a press by one and never beyond the limit.
LEMMA TickIsWear ==
  ASSUME CleanPrograms, ExecutorInv, ExecutorInv', Tick
  PROVE  [Duty!DutyNext]_(Duty!duty)
<1>1. /\ UNCHANGED <<relay, starter>> /\ now' = Later(now)
      /\ now \in Instant /\ lag' = lag + 1 /\ lag \in 0 .. MaxLag /\ lag < MaxLag
      /\ relay[StarterRelay] \in RelayState
  BY DEF Tick, ExecutorInv, TypeOK, CleanPrograms
<1>2. Asked' = Asked
  BY DEF Tick, Asked, InStarterStep, Current
<1>2a. CASE ~relay[StarterRelay].on
  BY <1>1, <1>2, <1>2a DEF Duty!duty
<1>3. CASE relay[StarterRelay].on
  <2> DEFINE from == relay[StarterRelay].since
  <2>1. Cranking /\ from = starter.at /\ from \in Instant
    BY <1>1, <1>3 DEF ExecutorInv, StarterOnlyWhileCranking, StarterTimed, RelayState
  <2>2. Elapsed(from, now) <= CrankLimit - MaxLag + lag
    BY <2>1 DEF ExecutorInv, StarterTimed
  <2>3. Elapsed(from, now) \in Nat
    BY <1>1, <2>1, ElapsedType
  <2>4. CrankLimit \in Int /\ CrankLimit <= MaxStarter + MaxLag
    BY MaxStarterAssumption, ExecutorAssumption DEF CrankLimit
  <2>5. Elapsed(from, now) < CrankLimit
    BY <1>1, <2>2, <2>3, <2>4, ExecutorAssumption
  <2>6. Elapsed(from, now) + 1 < Wrap
    BY <2>3, <2>4, <2>5, MaxStarterAssumption, ExecutorAssumption, TimerAssumption,
       WrapAssumption
  <2>7. Elapsed(from, Later(now)) = Elapsed(from, now) + 1
    BY <1>1, <2>1, <2>6, ElapsedLater
  <2>8. Duty!Wear
    BY <1>1, <1>2, <1>3, <2>5, <2>7 DEF Duty!Wear
  <2>9. QED BY <2>8 DEF Duty!DutyNext
<1>4. QED BY <1>2a, <1>3

\* Each branch of update() is a step of the promise or a stutter.
LEMMA UpdateKeepsDuty ==
  ASSUME CleanPrograms, ExecutorInv, ExecutorInv', ExecutorUpdate
  PROVE  [Duty!DutyNext]_(Duty!duty)
<1>1. now' = now
  BY DEF ExecutorUpdate
<1>2. CASE WaitDone \/ PulseEnd \/ StarterUnusable
  <2>1. starter' = NoStarter
    BY <1>2, RunFromResets DEF WaitDone, PulseEnd, StarterUnusable,
       NextStep, AbortWithError, Finish
  <2>2. QED BY <2>1, ResetIsStepOver DEF Duty!DutyNext
<1>3. CASE PulseFlip
  <2>1. UNCHANGED <<starter, running, program, step>>
    BY <1>3 DEF PulseFlip
  <2>2. (Cranking' <=> Cranking) /\ spare' = spare /\ Asked' = Asked
    BY <2>1 DEF Cranking, InStarterStep, Current, spare, Asked
  <2>3. QED BY <1>1, <2>1, <2>2, StillIsStutter
<1>4. CASE StarterEngage
  BY <1>1, <1>4, EngageIsPress DEF Duty!DutyNext
<1>5. ASSUME NEW level \in BOOLEAN, StarterRelease(level)
      PROVE  [Duty!DutyNext]_(Duty!duty)
  BY <1>5, ReleaseIsRelease DEF Duty!DutyNext
<1>6. ASSUME NEW level \in BOOLEAN, Pending(level)
      PROVE  [Duty!DutyNext]_(Duty!duty)
  <2>1. UNCHANGED <<relay, starter>> /\ Asked' = Asked
    BY <1>6 DEF Pending, Asked, InStarterStep, Current
  <2>2. QED BY <1>1, <2>1 DEF Duty!duty
<1>7. ASSUME NEW engineRunning \in BOOLEAN, StarterVerdict(engineRunning)
      PROVE  [Duty!DutyNext]_(Duty!duty)
  <2>1. CASE NextStep(relay) \/ Finish(pool)
    <3>1. starter' = NoStarter
      BY <2>1, RunFromResets DEF NextStep, Finish
    <3>2. QED BY <3>1, ResetIsStepOver DEF Duty!DutyNext
  <2>2. CASE /\ starter' = [phase |-> 3, at |-> now, left |-> starter.left - 1]
             /\ UNCHANGED <<running, program, step>>
    <3>1. starter.phase = 2
      BY <1>7 DEF StarterVerdict
    <3>2. starter'.phase = 3 /\ starter'.left = starter.left - 1
      BY <2>2
    <3>3. ~Cranking /\ (Cranking' <=> Cranking)
      BY <3>1, <3>2 DEF Cranking
    <3>4. spare' = spare
      BY <3>1, <3>2 DEF spare
    <3>5. (starter'.phase # 0) <=> (starter.phase # 0)
      BY <3>1, <3>2
    <3>6. Asked' = Asked
      BY <2>2 DEF Asked, InStarterStep, Current
    <3>7. QED BY <1>1, <3>3, <3>4, <3>5, <3>6, StillIsStutter
  <2>3. QED BY <1>7, <2>1, <2>2 DEF StarterVerdict
<1>8. QED
  BY <1>2, <1>3, <1>4, <1>5, <1>6, <1>7 DEF ExecutorUpdate

\* Each step of the executor is a step of the promise or a stutter.
LEMMA StepKeepsDuty ==
  ASSUME CleanPrograms, ExecutorInv, ExecutorInv', [Next]_vars
  PROVE  [Duty!DutyNext]_(Duty!duty)
<1>1. CASE UNCHANGED vars
  BY <1>1 DEF vars, Duty!duty, Asked, InStarterStep, Current
<1>2. CASE ExecutorUpdate
  BY <1>2, UpdateKeepsDuty
<1>3. CASE RelayUpdate
  <2>1. UNCHANGED <<now, running, program, step, starter>>
    BY <1>3 DEF RelayUpdate
  <2>2. (Cranking' <=> Cranking) /\ spare' = spare /\ Asked' = Asked
    BY <2>1 DEF Cranking, InStarterStep, Current, spare, Asked
  <2>3. QED BY <2>1, <2>2, StillIsStutter
<1>4. CASE Tick
  BY <1>4, TickIsWear
<1>5. CASE Starts
  <2>1. starter' = NoStarter
    BY <1>5, RunFromResets DEF Starts, Start, StartUnknown, Finish
  <2>2. QED BY <2>1, ResetIsStepOver DEF Duty!DutyNext
<1>6. QED
  BY <1>1, <1>2, <1>3, <1>4, <1>5 DEF Next, Loop

\* Programs that leave the starter relay to STARTER_* steps keep the promise to
\* the starter motor: the executor implements StarterDuty.
THEOREM ExecutorKeepsDuty ==
  ASSUME CleanPrograms
  PROVE  Spec => KeepsDuty
<1>1. Init => Duty!DutyInit
  <2> SUFFICES ASSUME Init PROVE Duty!DutyInit
    OBVIOUS
  <2>1. starter.phase = 0 /\ ~relay[StarterRelay].on
    <3>1. starter.phase = 0
      BY DEF Init, NoStarter
    <3>2. ~Cranking
      BY <3>1 DEF Cranking
    <3>3. QED BY <3>1, <3>2, ExecutorInit, IdleStarterOff
  <2>2. Asked = 0
    BY DEF Init, Asked, InStarterStep
  <2>3. QED BY <2>1, <2>2 DEF Duty!DutyInit
<1>2. ExecutorInv /\ ExecutorInv' /\ [Next]_vars => [Duty!DutyNext]_(Duty!duty)
  BY StepKeepsDuty
<1>3. QED
  BY <1>1, <1>2, ExecutorSafe, PTL DEF Spec, KeepsDuty, Duty!DutySpec
=============================================================================
