----------------------------- MODULE CoreProofs -----------------------------
(***************************************************************************)
(* The main loop: CoreLoop, then the managers that one of its passes runs. *)
(* Of the loop: the way into the serving modes and the safety of the       *)
(* relays.  Neither is inductive: what a boot has found must be carried    *)
(* through its stages, and OTA_UPDATE, entered from any mode, leads to     *)
(* NORMAL only with a session that needs a reachable server or an upload   *)
(* drained in NORMAL.  From the same invariant, the modes keep ModePromise.*)
(* Of the managers: a press starts once, and the battery saver keeps its   *)
(* pace.  The code only knows instants of a counter that wraps; what it    *)
(* promises is about true time, which the ghosts press and ages count.     *)
(* The invariants say when the instants tell the truth: the debouncer's    *)
(* last change as long as the input has not settled, the saver's instants  *)
(* until the interval they measure is over, and its day for every start    *)
(* that the count of today has forgotten.                                  *)
(***************************************************************************)
EXTENDS CoreLoop, Managers, FiniteSetTheorems, TLAPS

\* What the stages have found by the time each of them begins.
BootProgress ==
  mode = "BOOT" =>
    /\ ~web /\ session = "none"
    /\ boot.stage \in {"EnsureProgramIndex", "InitHardware", "InitManagers"}
         => boot.config = "loaded"
    /\ boot.stage = "InitManagers" => boot.hardware
    /\ boot.stage = "SelectInitialMode" /\ boot.config # "failed"
         => boot.config = "loaded" /\ boot.hardware /\ boot.managers

\* An update that may end in NORMAL came from there.
UpdateFromFit ==
  /\ mode # "OTA_UPDATE" => session = "none"
  /\ mode = "OTA_UPDATE" /\ (web \/ session \in {"await", "failed"}) => Fit

CoreInv == TypeOK /\ BootProgress /\ UpdateFromFit /\ NormalIsFit /\ RelaysSafe

\* A cold start is of its types.
LEMMA ColdStart ==
  /\ ColdBoot \in [stage : Stages, config : {"unread", "failed", "loaded"}, setup : BOOLEAN,
                   badMap : BOOLEAN, hardware : BOOLEAN, managers : BOOLEAN]
  /\ Off \in [starter : BOOLEAN, others : BOOLEAN]
  BY DEF ColdBoot, Off, Stages

\* The invariant holds when the power comes on.
LEMMA CoreInit == Init => CoreInv
<1>. SUFFICES ASSUME Init PROVE CoreInv OBVIOUS
<1>1. TypeOK
  <2>1. queue \in 0..2 BY DEF Init
  <2>. QED BY <2>1, ColdStart, Zenon DEF Init, TypeOK, Modes
<1>2. RelaysSafe
  <2>1. ~relay.starter BY DEF Init, Off
  <2>. QED BY <2>1 DEF Init, RelaysSafe
<1>3. BootProgress /\ UpdateFromFit /\ NormalIsFit
  BY DEF Init, BootProgress, UpdateFromFit, NormalIsFit, ColdBoot, Serving
<1>. QED BY <1>1, <1>2, <1>3 DEF CoreInv

\* Every restart finds the same: nothing but the flash survives it.
LEMMA RestartsKeep == ASSUME Restarts PROVE CoreInv'
<1>1. TypeOK'
  <2>1. queue' \in 0..2 BY DEF Restarts
  <2>. QED BY <2>1, ColdStart, Zenon DEF Restarts, TypeOK, Modes
<1>2. RelaysSafe'
  <2>1. ~relay'.starter BY DEF Restarts, Off
  <2>. QED BY <2>1 DEF Restarts, RelaysSafe
<1>3. BootProgress' /\ UpdateFromFit' /\ NormalIsFit'
  BY DEF Restarts, BootProgress, UpdateFromFit, NormalIsFit, ColdBoot, Serving
<1>. QED BY <1>1, <1>2, <1>3 DEF CoreInv

\* The stages before the last keep the mode, the relays and the web as they are.
LEMMA BootKeeps ==
  ASSUME CoreInv,
         WiFiOff \/ MountFS \/ LoadOrCreateConfig \/ EnsureProgramIndex
           \/ InitHardware \/ InitManagers
  PROVE  CoreInv'
<1>. USE DEF CoreInv, TypeOK, BootProgress, UpdateFromFit, NormalIsFit, RelaysSafe, Fit,
             Modes, Serving, Stages, InStage, Booting, otaVars, workVars
<1>1. CASE WiFiOff BY <1>1 DEF WiFiOff
<1>2. CASE MountFS BY <1>2 DEF MountFS, HardRestart
<1>3. CASE LoadOrCreateConfig BY ZenonT(60), <1>3 DEF LoadOrCreateConfig, HardRestart
<1>4. CASE EnsureProgramIndex BY <1>4 DEF EnsureProgramIndex
<1>5. CASE InitHardware BY ZenonT(60), <1>5 DEF InitHardware
<1>6. CASE InitManagers BY <1>6 DEF InitManagers
<1>. QED BY <1>1, <1>2, <1>3, <1>4, <1>5, <1>6

\* The last stage serves only what the earlier ones found in order.
LEMMA SelectKeeps == ASSUME CoreInv, SelectInitialMode PROVE CoreInv'
<1>. USE DEF CoreInv, TypeOK, Fit, Modes, Serving, Stages, workVars, Off
<1>1. /\ mode = "BOOT" /\ boot.stage = "SelectInitialMode"
      /\ boot' = [boot EXCEPT !.stage = "Done"] /\ mode' = InitialMode
      /\ session' = session /\ exec' = exec /\ restart' = restart
      /\ deferred' = deferred /\ queue' = queue /\ pc' = "handler" /\ relay' = relay
  BY DEF SelectInitialMode, InStage, SwitchMode, RelaysFor, InitialMode
<1>2. mode' \in {"EMERGENCY_AP", "SETUP_AP", "NORMAL"} BY <1>1 DEF InitialMode
<1>3. web' \in BOOLEAN /\ strayed' = FALSE
  BY <1>2 DEF SelectInitialMode, SwitchMode
<1>4. mode' = "NORMAL" => Fit' BY <1>1 DEF InitialMode, BootProgress
<1>. QED BY <1>1, <1>2, <1>3, <1>4 DEF BootProgress, UpdateFromFit, NormalIsFit, RelaysSafe

\* Entering OTA_UPDATE leaves no server to a device that is not fit.
LEMMA EnterOtaKeeps ==
  ASSUME CoreInv, mode # "BOOT", mode # "OTA_UPDATE", SwitchMode("OTA_UPDATE"),
         boot' = boot, restart' \in {"no", "now", "asked", "due"}, exec' = exec,
         pc' \in {"head", "handler"}, queue' \in 0..2, deferred' \in BOOLEAN,
         session' = "ready" \/ (session' = "await" /\ mode = "NORMAL")
  PROVE  CoreInv'
<1>1. relay' = Off /\ mode' = "OTA_UPDATE" /\ strayed' = FALSE
      /\ web' = (web /\ mode \notin {"SETUP_AP", "EMERGENCY_AP"})
  BY DEF SwitchMode, RelaysFor
<1>. USE DEF CoreInv, TypeOK, Fit, Modes, Serving, Stages, Off
<1>2. web' => Fit BY <1>1 DEF NormalIsFit
<1>3. TypeOK' BY ZenonT(60), <1>1
<1>4. RelaysSafe'
  <2>1. ~relay'.starter BY <1>1
  <2>. QED BY <1>1, <2>1 DEF RelaysSafe
<1>5. BootProgress' /\ UpdateFromFit' /\ NormalIsFit'
  BY <1>1, <1>2 DEF BootProgress, UpdateFromFit, NormalIsFit
<1>. QED BY <1>3, <1>4, <1>5

\* An upload is drained into an update only in NORMAL, so the update came from there.
LEMMA LoopHeadKeeps == ASSUME CoreInv, LoopHead PROVE CoreInv'
<1>1. /\ mode # "BOOT" /\ boot' = boot /\ restart' = restart /\ exec' = exec
      /\ pc' = "handler" /\ queue' \in 0..2 /\ deferred' = FALSE
  BY DEF LoopHead, Drain, CoreInv, TypeOK, bootVars
<1>2. CASE Drains
  <2>1. SwitchMode("OTA_UPDATE") /\ session' = "await" /\ mode = "NORMAL"
    BY <1>2 DEF LoopHead, Drain, Drains
  <2>. QED BY <1>1, <2>1, EnterOtaKeeps DEF CoreInv, TypeOK
<1>3. CASE ~Drains
  <2>1. mode' = mode /\ relay' = relay /\ web' = web /\ session' = session
        /\ strayed' = strayed
    BY <1>3 DEF LoopHead, Drain
  <2>2. TypeOK'
    <3>1. TypeOK BY DEF CoreInv
    <3>2. deferred' \in BOOLEAN /\ pc' \in {"head", "handler"} BY <1>1
    <3>3. strayed' \in BOOLEAN /\ web' \in BOOLEAN BY <2>1, <3>1, Zenon DEF TypeOK
    <3>. QED BY <1>1, <2>1, <3>1, <3>2, <3>3 DEF TypeOK
  <2>3. BootProgress' /\ UpdateFromFit' /\ NormalIsFit' /\ RelaysSafe'
    BY <1>1, <2>1 DEF CoreInv, BootProgress, UpdateFromFit, NormalIsFit, RelaysSafe, Fit, Off
  <2>. QED BY <2>2, <2>3 DEF CoreInv
<1>. QED BY <1>2, <1>3

\* The handlers: a press begins and goes on in the serving modes only.
LEMMA HandlersKeep ==
  ASSUME CoreInv, Serves \/ PassStarts \/ GoSilent \/ Idles \/ OtaWaits \/ OtaEnds
  PROVE  CoreInv'
<1>. USE DEF CoreInv, TypeOK, BootProgress, UpdateFromFit, NormalIsFit, RelaysSafe, Fit,
             Modes, Serving, Stages, Off, Handles, bootVars, otaVars, workVars
<1>1. CASE Serves
  <2>1. /\ mode \in Serving /\ mode' = mode /\ boot' = boot /\ session' = session
        /\ restart' = restart /\ web' = web /\ deferred' = deferred /\ strayed' = strayed
        /\ queue' = queue /\ pc' = "head"
    BY <1>1 DEF Serves
  <2>2. /\ exec' \in {"none", "waits", "cranks"}
        /\ relay' \in [starter : BOOLEAN, others : BOOLEAN]
        /\ relay'.starter => exec' = "cranks"
    <3>1. CASE exec = "cranks" /\ exec' = "waits" /\ relay' = [relay EXCEPT !.starter = FALSE]
      BY <3>1
    <3>2. CASE exec' = "none" /\ relay' = Off BY <3>2
    <3>3. CASE exec' = "cranks" /\ relay' \in [starter : {TRUE}, others : BOOLEAN] BY <3>3
    <3>4. CASE Started BY <3>4 DEF Started
    <3>. QED BY <1>1, <3>1, <3>2, <3>3, <3>4 DEF Serves, ProgramGoesOn
  <2>. QED BY <2>1, <2>2
<1>2. CASE PassStarts BY ZenonT(60), <1>2 DEF PassStarts, Started
<1>3. CASE GoSilent BY <1>3 DEF GoSilent, SwitchMode, RelaysFor
<1>4. CASE Idles \/ OtaWaits BY <1>4 DEF Idles, OtaWaits
<1>5. CASE OtaEnds BY ZenonT(60), <1>5 DEF OtaEnds, SwitchMode, RelaysFor
<1>. QED BY <1>1, <1>2, <1>3, <1>4, <1>5

\* Requests start programs and updates in any mode, and none of them touches what was found.
LEMMA WebKeeps == ASSUME CoreInv, Web \/ RebootFallsDue PROVE CoreInv'
<1>. USE DEF CoreInv, TypeOK, bootVars, otaVars, workVars
<1>1. CASE StartOta /\ mode # "OTA_UPDATE"
  <2>1. mode # "BOOT" BY <1>1 DEF StartOta, BootProgress
  <2>2. SwitchMode("OTA_UPDATE") /\ session' = "ready" /\ deferred' = FALSE
        /\ UNCHANGED <<pc, boot, restart, exec, queue>>
    BY <1>1 DEF StartOta
  <2>. QED BY <1>1, <2>1, <2>2, EnterOtaKeeps
<1>. USE DEF BootProgress, UpdateFromFit, NormalIsFit, RelaysSafe, Fit, Modes, Serving,
             Stages, Off
<1>2. CASE StartOta /\ mode = "OTA_UPDATE" BY ZenonT(60), <1>2 DEF StartOta
<1>3. CASE RunProgram
  <2>1. /\ relay' \in [starter : BOOLEAN, others : BOOLEAN] /\ ~relay'.starter
        /\ exec' \in {"none", "waits", "cranks"} /\ strayed' = TRUE
    BY <1>3 DEF RunProgram, Started
  <2>. QED BY <1>3, <2>1 DEF RunProgram
<1>4. CASE QueueWork BY <1>4 DEF QueueWork
<1>5. CASE PostReboot \/ RebootFallsDue BY <1>5 DEF PostReboot, RebootFallsDue
<1>6. CASE UploadOpens
  <2>1. CASE mode = "OTA_UPDATE" BY <1>6, <2>1 DEF UploadOpens
  <2>2. CASE mode # "OTA_UPDATE" BY <1>6, <2>2 DEF UploadOpens
  <2>. QED BY <2>1, <2>2
<1>7. CASE UploadEnds BY <1>7 DEF UploadEnds
<1>. QED BY <1>1, <1>2, <1>3, <1>4, <1>5, <1>6, <1>7 DEF Web

\* Every step of the loop and of the web keeps the invariant.
LEMMA CoreStep == CoreInv /\ [Next]_vars => CoreInv'
<1>. SUFFICES ASSUME CoreInv, [Next]_vars PROVE CoreInv' OBVIOUS
<1>1. CASE HardRestartNow \/ RebootDue \/ Flashes
  BY <1>1, RestartsKeep DEF HardRestartNow, RebootDue, Flashes
<1>2. CASE Boot BY <1>2, BootKeeps, SelectKeeps DEF Boot
<1>3. CASE LoopHead BY <1>3, LoopHeadKeeps
<1>4. CASE Serves \/ PassStarts \/ GoSilent \/ Idles \/ OtaWaits \/ OtaEnds
  BY <1>4, HandlersKeep
<1>5. CASE Web \/ RebootFallsDue BY <1>5, WebKeeps
<1>6. CASE UNCHANGED vars
  BY <1>6 DEF vars, CoreInv, TypeOK, BootProgress, UpdateFromFit, NormalIsFit, RelaysSafe,
              Fit, Off
<1>. QED BY <1>1, <1>2, <1>3, <1>4, <1>5, <1>6 DEF Next, Loop

\* Programs are served only on a device that was booted well and is set up: there is no
\* way around it through uploads, failed updates or timeouts (Core::update()).
THEOREM ServedIsFit == Spec => []NormalIsFit
<1>1. CoreInv => NormalIsFit BY DEF CoreInv
<1>. QED BY <1>1, CoreInit, CoreStep, PTL DEF Spec

\* The starter is on only where presses are ended, and OTA_UPDATE begins with all
\* relays off and keeps them so for programs that were running.
THEOREM RelaysAreSafe == Spec => []RelaysSafe
<1>1. CoreInv => RelaysSafe BY DEF CoreInv
<1>. QED BY <1>1, CoreInit, CoreStep, PTL DEF Spec

\* NORMAL_SILENT has no access point to be asked through.
SilentIsDark == mode = "NORMAL_SILENT" => ~web

\* As long as mode and findings of the boot stay, so do the promised ones.
LEMMA SameModes ==
  ASSUME SilentIsDark, mode' = mode, boot' = boot, web' = web
  PROVE  SilentIsDark' /\ UNCHANGED Promise!modeVars
  BY DEF SilentIsDark, Promise!modeVars, apMode, booted, Fit

\* A restart and the stages of a boot decide whether the device is fit.
LEMMA BootPromise ==
  ASSUME CoreInv, SilentIsDark, HardRestartNow \/ RebootDue \/ Flashes \/ Boot
  PROVE  SilentIsDark' /\ [Promise!Next]_(Promise!modeVars)
<1>1. CASE HardRestartNow \/ RebootDue \/ Flashes
  <2>1. mode' = "BOOT" BY <1>1 DEF HardRestartNow, RebootDue, Flashes, Restarts
  <2>2. Promise!Boots BY <2>1 DEF Promise!Boots, apMode, booted
  <2>. QED BY <2>1, <2>2 DEF SilentIsDark, Promise!Next
<1>2. CASE \/ WiFiOff \/ MountFS \/ LoadOrCreateConfig \/ EnsureProgramIndex
          \/ InitHardware \/ InitManagers
  <2>1. mode = "BOOT" /\ mode' = mode
    BY <1>2 DEF WiFiOff, MountFS, LoadOrCreateConfig, EnsureProgramIndex, InitHardware,
                InitManagers, InStage, Booting
  <2>2. UNCHANGED Promise!modeVars BY <2>1 DEF Promise!modeVars, apMode, booted
  <2>. QED BY <2>1, <2>2 DEF SilentIsDark
<1>3. CASE SelectInitialMode
  <2>1. /\ mode = "BOOT" /\ boot.stage = "SelectInitialMode" /\ mode' = InitialMode
        /\ boot' = [boot EXCEPT !.stage = "Done"]
    BY <1>3 DEF SelectInitialMode, InStage, SwitchMode
  <2>2. Fit' <=> Fit BY <2>1 DEF Fit, CoreInv, TypeOK
  <2>3. mode' = "NORMAL" => Fit'
    BY <2>1, <2>2 DEF InitialMode, CoreInv, BootProgress, Fit
  <2>4. mode' \in {"EMERGENCY_AP", "SETUP_AP"} => ~Fit'
    BY <2>1, <2>2 DEF InitialMode, Fit
  <2>5. mode' \in {"EMERGENCY_AP", "SETUP_AP", "NORMAL"} BY <2>1 DEF InitialMode
  <2>6. apMode' \in {"SETUP_AP", "NORMAL"} /\ booted' = (apMode' = "NORMAL")
    <3>1. CASE mode' = "NORMAL" BY <2>3, <3>1 DEF apMode, booted, Fit
    <3>2. CASE mode' \in {"EMERGENCY_AP", "SETUP_AP"} BY <2>4, <3>2 DEF apMode, booted
    <3>. QED BY <2>5, <3>1, <3>2
  <2>7. Promise!Boots BY <2>6 DEF Promise!Boots
  <2>. QED BY <2>5, <2>7 DEF SilentIsDark, Promise!Next
<1>. QED BY <1>1, <1>2, <1>3 DEF Boot

\* An update begins where an access point is, with the findings of the boot kept.
LEMMA EnterPromise ==
  ASSUME mode \in {"EMERGENCY_AP", "SETUP_AP", "NORMAL"}, mode' = "OTA_UPDATE",
         boot' = boot
  PROVE  SilentIsDark' /\ Promise!UpdateBegins
  BY DEF SilentIsDark, Promise!UpdateBegins, apMode, booted, Fit

\* A pass drains an update in NORMAL only; it leaves NORMAL for silence, and OTA_UPDATE
\* for NORMAL only where the boot has found the device fit.
LEMMA PassPromise ==
  ASSUME CoreInv, SilentIsDark,
         \/ LoopHead \/ Serves \/ PassStarts \/ GoSilent \/ Idles \/ OtaWaits \/ OtaEnds
  PROVE  SilentIsDark' /\ [Promise!Next]_(Promise!modeVars)
<1>1. CASE LoopHead
  <2>1. boot' = boot BY <1>1 DEF LoopHead, bootVars
  <2>2. CASE Drains
    <3>1. mode = "NORMAL" /\ mode' = "OTA_UPDATE"
      BY <1>1, <2>2 DEF LoopHead, Drain, Drains, SwitchMode
    <3>. QED BY <2>1, <3>1, EnterPromise DEF Promise!Next
  <2>3. CASE ~Drains
    <3>1. mode' = mode /\ web' = web BY <1>1, <2>3 DEF LoopHead, Drain
    <3>. QED BY <2>1, <3>1, SameModes
  <2>. QED BY <2>2, <2>3
<1>2. CASE Serves \/ PassStarts \/ Idles \/ OtaWaits
  <2>1. UNCHANGED <<mode, web, boot>>
    BY <1>2 DEF Serves, PassStarts, Idles, OtaWaits, bootVars
  <2>. QED BY <2>1, SameModes
<1>3. CASE GoSilent
  <2>1. mode = "NORMAL" /\ mode' = "NORMAL_SILENT" /\ ~web' /\ boot' = boot
    BY <1>3 DEF GoSilent, Handles, SwitchMode, bootVars
  <2>2. Promise!Silence BY <2>1 DEF Promise!Silence, apMode, booted, Fit
  <2>. QED BY <2>1, <2>2 DEF SilentIsDark, Promise!Next
<1>4. CASE OtaEnds
  <2>1. /\ mode = "OTA_UPDATE" /\ session \in {"await", "failed"} /\ mode' = "NORMAL"
        /\ boot' = boot
    BY <1>4 DEF OtaEnds, Handles, SwitchMode, bootVars
  <2>2. Fit BY <2>1 DEF CoreInv, UpdateFromFit
  <2>3. booted = TRUE /\ booted' = TRUE BY <2>1, <2>2 DEF booted, Fit
  <2>4. Promise!UpdateGivenUp BY <2>1, <2>3 DEF Promise!UpdateGivenUp, apMode
  <2>. QED BY <2>1, <2>4 DEF SilentIsDark, Promise!Next
<1>. QED BY <1>1, <1>2, <1>3, <1>4

\* Requests begin an update wherever they reach the server, and change no mode else.
LEMMA WebPromise ==
  ASSUME CoreInv, SilentIsDark, Web \/ RebootFallsDue
  PROVE  SilentIsDark' /\ [Promise!Next]_(Promise!modeVars)
<1>1. CASE StartOta /\ mode # "OTA_UPDATE"
  <2>1. web /\ mode' = "OTA_UPDATE" /\ boot' = boot
    BY <1>1 DEF StartOta, SwitchMode, bootVars
  <2>2. mode \in {"EMERGENCY_AP", "SETUP_AP", "NORMAL"}
    BY <1>1, <2>1 DEF CoreInv, TypeOK, Modes, BootProgress, SilentIsDark
  <2>. QED BY <2>1, <2>2, EnterPromise DEF Promise!Next
<1>2. CASE StartOta /\ mode = "OTA_UPDATE"
  <2>1. UNCHANGED <<mode, web, boot>> BY <1>2 DEF StartOta, bootVars
  <2>. QED BY <2>1, SameModes
<1>3. CASE RunProgram \/ QueueWork \/ PostReboot \/ UploadOpens \/ UploadEnds
          \/ RebootFallsDue
  <2>1. UNCHANGED <<mode, web, boot>>
    BY <1>3 DEF RunProgram, QueueWork, PostReboot, UploadOpens, UploadEnds,
                RebootFallsDue, bootVars
  <2>. QED BY <2>1, SameModes
<1>. QED BY <1>1, <1>2, <1>3 DEF Web

\* The loop implements ModePromise: only a boot decides whether the device is fit, and an
\* update of one that is not ends in a restart.
THEOREM LoopPromises == Spec => LoopKeepsModes
<1>1. Init => SilentIsDark /\ Promise!Init
  BY DEF Init, SilentIsDark, Promise!Init, apMode, booted
<1>2. CoreInv /\ SilentIsDark /\ [Next]_vars =>
        SilentIsDark' /\ [Promise!Next]_(Promise!modeVars)
  <2>1. CASE UNCHANGED vars BY <2>1, SameModes DEF vars
  <2>. QED BY <2>1, BootPromise, PassPromise, WebPromise DEF Next, Loop
<1>. QED BY <1>1, <1>2, CoreInit, CoreStep, PTL DEF Spec, LoopKeepsModes, Promise!Spec

-----------------------------------------------------------------------------
\* The run of equal samples is the debouncer's; while it has not settled, it has counted
\* at least as long as the run, exactly as long where nothing is stale; and a start that
\* has not been rearmed is still remembered as an input that is on.
Counted == Elapsed(input.lastChange, now)
InputInv ==
  /\ press.run = {} \/ press.run = {input.lastRaw}
  /\ ~press.stale => press.run = {input.lastRaw} /\ (press.down <=> input.current)
  /\ input.stable => (input.current <=> input.lastRaw)
  /\ press.run # {} /\ ~input.stable => press.age <= Counted /\ Counted < DEBOUNCE
  /\ ~press.stale /\ ~input.stable => Counted = press.age
  /\ ~press.rearmed => trig.input

\* The instants the battery saver keeps say no more than has passed.
PaceInv ==
  /\ ages.start < BETWEEN => Elapsed(saver.lastAttempt, now) = ages.start
  /\ saver.lowStart # 0 /\ ages.low <= LOW_FOR => Elapsed(saver.lowStart, now) < ages.low
  /\ saver.lowStart # 0 => ages.low > 0

\* The starts of the last DAY are those the limit counts and those of the day before, which
\* are at least as old as the day that is counted now.
DayInv ==
  \E before, today \in SUBSET (0..DAY - 1) :
    /\ ages.day = before \cup today
    /\ Cardinality(today) <= saver.attempts /\ Cardinality(before) <= MAX_ATTEMPTS
    /\ saver.dayStart # 0 => \A a \in before : Elapsed(saver.dayStart, now) <= a

ManagersInv == ManagersTypeOK /\ InputInv /\ PaceInv /\ DayInv

-----------------------------------------------------------------------------
\* Subtraction of instants across a pass.
LEMMA ElapsedFacts ==
  ASSUME NEW t \in Instant, NEW u \in Instant, NEW d \in 0..MaxLag
  PROVE  /\ (u + d) % Wrap \in Instant /\ Elapsed(t, u) \in 0..Wrap - 1 /\ Elapsed(u, u) = 0
         /\ Elapsed(t, (u + d) % Wrap) <= Elapsed(t, u) + d
         /\ Elapsed(t, u) + d < Wrap => Elapsed(t, (u + d) % Wrap) = Elapsed(t, u) + d
<1>1. d \in Nat /\ d < Wrap /\ u \in Nat /\ u < Wrap /\ Wrap \in Nat
  BY ManagersAssumption, WrapAssumption DEF Instant
<1>2. (u + d) % Wrap = IF u + d < Wrap THEN u + d ELSE u + d - Wrap BY <1>1
<1>. DEFINE v == (u + d) % Wrap
<1>3. v = IF u + d < Wrap THEN u + d ELSE u + d - Wrap BY <1>2
<1>. HIDE DEF v
<1>4. v \in Instant /\ Elapsed(t, u) \in 0..Wrap - 1 /\ Elapsed(u, u) = 0
      /\ Elapsed(t, v) <= Elapsed(t, u) + d
      /\ (Elapsed(t, u) + d < Wrap => Elapsed(t, v) = Elapsed(t, u) + d)
  BY <1>1, <1>3 DEF Instant, Elapsed
<1>. QED BY <1>4 DEF v

\* The constants, one by one.
LEMMA Bounds ==
  /\ DEBOUNCE \in Nat /\ LOW_FOR \in Nat /\ BETWEEN \in Nat /\ MAX_ATTEMPTS \in Nat
  /\ TRIGGER_EVERY \in Nat /\ DAY \in Nat \ {0} /\ MaxLag \in Nat \ {0} /\ Wrap \in Nat
  /\ Wrap > 1 /\ DEBOUNCE + MaxLag < Wrap /\ LOW_FOR + MaxLag < Wrap /\ BETWEEN + MaxLag < Wrap
BY ManagersAssumption, WrapAssumption

Inputs == [current : BOOLEAN, lastRaw : BOOLEAN, stable : BOOLEAN, lastChange : Instant]
Presses == [run : SUBSET BOOLEAN, age : 0..DEBOUNCE, down : BOOLEAN, stale : BOOLEAN,
            rearmed : BOOLEAN]
Savers == [lastAttempt : Instant, attempts : 0..MAX_ATTEMPTS, dayStart : Instant,
           lowStart : Instant]

-----------------------------------------------------------------------------
\* One sample: what becomes of the debouncer, and what of the run.
Age(d) == IF press.run # {pin'} THEN 0
          ELSE IF press.age + d < DEBOUNCE THEN press.age + d ELSE DEBOUNCE
ChangedAt == IF pin' # input.lastRaw THEN now' ELSE input.lastChange
Steady == input.stable /\ pin' = input.lastRaw
Settles == ~Steady /\ Elapsed(ChangedAt, now') >= DEBOUNCE

\* A sampled input takes the level over once it has been the same for DEBOUNCE ms, keeps
\* the settled state otherwise and notes when the level changed.
LEMMA SampledInput ==
  ASSUME ManagersTypeOK, NEW d \in 0..MaxLag, Pass(d), "input" \in on
  PROVE  /\ input' \in Inputs /\ pin' \in BOOLEAN
         /\ input'.lastRaw = pin' /\ input'.lastChange = ChangedAt
         /\ Settles => input'.current = pin' /\ input'.stable = TRUE
         /\ ~Settles => input'.current = input.current
         /\ ~Settles /\ Steady => input'.stable = input.stable
         /\ ~Settles /\ ~Steady => input'.stable = FALSE
<1>1. /\ input \in Inputs /\ now \in Instant
      /\ now' = (now + d) % Wrap /\ pin' \in BOOLEAN /\ input' = Sample
  BY DEF ManagersTypeOK, Inputs, Pass, InputsUpdate, Levels
<1>2. now' \in Instant BY <1>1, ElapsedFacts
<1>3. /\ input.current \in BOOLEAN /\ input.lastRaw \in BOOLEAN /\ input.stable \in BOOLEAN
      /\ input.lastChange \in Instant
  BY <1>1 DEF Inputs
<1>4. CASE pin' = input.lastRaw
  <2>1. input' = Settled(input, pin') BY <1>1, <1>4 DEF Sample
  <2>2. ChangedAt = input.lastChange BY <1>4 DEF ChangedAt
  <2>3. CASE Settles
    <3>1. input' = [input EXCEPT !.current = pin', !.stable = TRUE]
      BY <2>1, <2>2, <2>3, <1>4 DEF Settled, Settles, Steady
    <3>2. input' \in Inputs BY <1>1, <3>1 DEF Inputs
    <3>3. input'.current = pin' /\ input'.stable = TRUE /\ input'.lastRaw = input.lastRaw
          /\ input'.lastChange = input.lastChange
      BY <1>1, <3>1 DEF Inputs
    <3>. QED BY <1>1, <1>4, <2>2, <2>3, <3>2, <3>3, Zenon
  <2>4. CASE ~Settles
    <3>1. input' = input BY <2>1, <2>2, <2>4, <1>4 DEF Settled, Settles, Steady
    <3>2. ~Steady => input.stable = FALSE BY <1>3, <1>4, Zenon DEF Steady
    <3>. QED BY <1>1, <1>4, <2>2, <2>4, <3>1, <3>2, Zenon
  <2>. QED BY <2>3, <2>4
<1>5. CASE pin' # input.lastRaw
  <2>. DEFINE c == Changed(pin')
  <2>1. input' = Settled(c, pin') BY <1>1, <1>5 DEF Sample
  <2>2. ChangedAt = now' /\ ~Steady BY <1>5 DEF ChangedAt, Steady
  <2>3. c = [input EXCEPT !.lastRaw = pin', !.stable = FALSE, !.lastChange = now'] BY DEF Changed
  <2>4. /\ c \in Inputs /\ c.stable = FALSE /\ c.lastChange = now' /\ c.lastRaw = pin'
        /\ c.current = input.current
    BY <1>1, <1>2, <2>3 DEF Inputs
  <2>. HIDE DEF c
  <2>5. CASE Settles
    <3>1. input' = [c EXCEPT !.current = pin', !.stable = TRUE]
      BY <2>1, <2>2, <2>4, <2>5 DEF Settled, Settles
    <3>2. input' \in Inputs BY <1>1, <2>4, <3>1 DEF Inputs
    <3>3. input'.current = pin' /\ input'.stable = TRUE /\ input'.lastRaw = pin'
          /\ input'.lastChange = now'
      BY <2>4, <3>1 DEF Inputs
    <3>. QED BY <1>1, <2>2, <2>5, <3>2, <3>3, Zenon
  <2>6. CASE ~Settles
    <3>1. input' = c BY <2>1, <2>2, <2>4, <2>6 DEF Settled, Settles
    <3>. QED BY <1>1, <2>2, <2>4, <2>6, <3>1, Zenon
  <2>. QED BY <2>5, <2>6
<1>. QED BY <1>4, <1>5

\* A run as long as DEBOUNCE says whether the contact is down, a shorter one only grows.
LEMMA KnownFacts ==
  ASSUME press \in Presses, pin' \in BOOLEAN, NEW a \in 0..DEBOUNCE
  PROVE  /\ a >= DEBOUNCE => Known(a) = [press EXCEPT !.run = {pin'}, !.age = a,
                                                   !.down = pin', !.stale = FALSE]
         /\ a < DEBOUNCE => Known(a) = [press EXCEPT !.run = {pin'}, !.age = a]
<1>1. DEBOUNCE \in Nat /\ a \in Nat BY Bounds
<1>2. ASSUME a >= DEBOUNCE
      PROVE  Known(a) = [press EXCEPT !.run = {pin'}, !.age = a, !.down = pin', !.stale = FALSE]
  <2>1. ~(a < DEBOUNCE) BY <1>1, <1>2
  <2>2. (press.stale /\ a < DEBOUNCE) = FALSE BY <2>1, Zenon
  <2>. QED BY <1>2, <2>2, Zenon DEF Known
<1>3. ASSUME a < DEBOUNCE PROVE Known(a) = [press EXCEPT !.run = {pin'}, !.age = a]
  <2>1. ~(a >= DEBOUNCE) BY <1>1, <1>3
  <2>2. press.stale \in BOOLEAN BY DEF Presses
  <2>3. (press.stale /\ a < DEBOUNCE) = press.stale BY <1>3, <2>2, Zenon
  <2>4. Known(a) = [press EXCEPT !.run = {pin'}, !.age = a, !.down = press.down,
                                 !.stale = press.stale]
    BY <2>1, <2>3, Zenon DEF Known
  <2>. QED BY <2>4 DEF Presses
<1>. QED BY <1>2, <1>3

\* What a sampled pass knows of the contact.
LEMMA SampledPress ==
  ASSUME ManagersTypeOK, NEW d \in 0..MaxLag, Pass(d), "input" \in on
  PROVE  /\ press' \in Presses /\ Age(d) \in 0..DEBOUNCE
         /\ press'.run = {pin'} /\ press'.age = Age(d)
         /\ Age(d) >= DEBOUNCE => press'.down = pin' /\ press'.stale = FALSE
         /\ Age(d) < DEBOUNCE => press'.down = press.down /\ press'.stale = press.stale
<1>1. press \in Presses /\ pin' \in BOOLEAN /\ PressUpdate(d)
  BY DEF ManagersTypeOK, Presses, Pass, Levels
<1>2. Age(d) \in 0..DEBOUNCE BY <1>1, Bounds DEF Age, Presses
<1>. DEFINE held == Known(Age(d))
            R == \/ held.rearmed /\ "press" \notin started'
                 \/ ~held.down \/ held.stale \/ ~Heard
<1>3. press' = [held EXCEPT !.rearmed = R] BY <1>1, Zenon DEF PressUpdate, Age
<1>4. R \in BOOLEAN BY Zenon
<1>. HIDE DEF R
<1>5. CASE Age(d) >= DEBOUNCE
  <2>1. held = [press EXCEPT !.run = {pin'}, !.age = Age(d), !.down = pin', !.stale = FALSE]
    BY <1>1, <1>2, <1>5, KnownFacts
  <2>. HIDE DEF held
  <2>2. press' = [press EXCEPT !.run = {pin'}, !.age = Age(d), !.down = pin', !.stale = FALSE,
                               !.rearmed = R]
    BY <1>1, <1>3, <2>1 DEF Presses
  <2>3. press' \in Presses /\ press'.run = {pin'} /\ press'.age = Age(d)
        /\ press'.down = pin' /\ press'.stale = FALSE
    BY <1>1, <1>2, <1>4, <2>2 DEF Presses
  <2>4. ~(Age(d) < DEBOUNCE) BY <1>2, <1>5, Bounds
  <2>. QED BY <1>2, <2>3, <2>4
<1>6. CASE Age(d) < DEBOUNCE
  <2>1. held = [press EXCEPT !.run = {pin'}, !.age = Age(d)]
    BY <1>1, <1>2, <1>6, KnownFacts
  <2>. HIDE DEF held
  <2>2. press' = [press EXCEPT !.run = {pin'}, !.age = Age(d), !.rearmed = R]
    BY <1>1, <1>3, <2>1 DEF Presses
  <2>3. press' \in Presses /\ press'.run = {pin'} /\ press'.age = Age(d)
        /\ press'.down = press.down /\ press'.stale = press.stale
    BY <1>1, <1>2, <1>4, <2>2 DEF Presses
  <2>4. ~(Age(d) >= DEBOUNCE) BY <1>2, <1>6, Bounds
  <2>. QED BY <1>2, <2>3, <2>4
<1>7. Age(d) >= DEBOUNCE \/ Age(d) < DEBOUNCE BY <1>2, Bounds
<1>. QED BY <1>5, <1>6, <1>7, Zenon

\* A pass that does not sample the input leaves it as it is, and what is known grows stale.
LEMMA Unsampled ==
  ASSUME ManagersTypeOK, NEW d \in 0..MaxLag, Pass(d), "input" \notin on
  PROVE  /\ input' = input /\ press' \in Presses
         /\ press'.run = {} /\ press'.stale = TRUE /\ press'.rearmed = TRUE
<1>1. press \in Presses /\ PressUpdate(d) /\ ~Heard BY DEF ManagersTypeOK, Presses, Pass, Heard
<1>2. input' = input BY DEF Pass, InputsUpdate
<1>. DEFINE held == [press EXCEPT !.run = {}, !.age = 0, !.stale = TRUE]
            R == \/ held.rearmed /\ "press" \notin started'
                 \/ ~held.down \/ held.stale \/ ~Heard
<1>3. press' = [held EXCEPT !.rearmed = R] BY <1>1, Zenon DEF PressUpdate
<1>4. R = TRUE BY <1>1, Zenon
<1>. HIDE DEF R
<1>5. 0 \in 0..DEBOUNCE BY Bounds
<1>6. press' = [press EXCEPT !.run = {}, !.age = 0, !.stale = TRUE, !.rearmed = TRUE]
  BY <1>1, <1>3, <1>4 DEF Presses
<1>. QED BY <1>1, <1>2, <1>5, <1>6 DEF Presses

\* A start is rearmed by a contact that is up, stale or not heard.
LEMMA Rearmed ==
  ASSUME ManagersTypeOK, NEW d \in 0..MaxLag, Pass(d), ~press'.rearmed
  PROVE  /\ Heard /\ press'.down /\ ~press'.stale
         /\ ~press.rearmed \/ "press" \in started'
<1>1. press \in Presses /\ PressUpdate(d) BY DEF ManagersTypeOK, Presses, Pass
<1>. DEFINE held == IF "input" \notin on THEN [press EXCEPT !.run = {}, !.age = 0, !.stale = TRUE]
                    ELSE Known(Age(d))
            R == \/ held.rearmed /\ "press" \notin started'
                 \/ ~held.down \/ held.stale \/ ~Heard
<1>2. press' = [held EXCEPT !.rearmed = R] BY <1>1, Zenon DEF PressUpdate, Age
<1>3. held.rearmed = press.rearmed /\ held = [f \in DOMAIN press |-> held[f]]
  BY <1>1 DEF Known, Presses
<1>4. "rearmed" \in DOMAIN held /\ "down" \in DOMAIN held /\ "stale" \in DOMAIN held
  BY <1>1 DEF Known, Presses
<1>. HIDE DEF held
<1>5. press'.rearmed = R /\ press'.down = held.down /\ press'.stale = held.stale
  BY <1>2, <1>4
<1>. QED BY <1>3, <1>5, Zenon

\* The debouncer counts the run, and where something is stale possibly more.
LEMMA RunIsCounted ==
  ASSUME ManagersTypeOK, InputInv, NEW d \in 0..MaxLag, Pass(d), ~Steady
  PROVE  LET e == Elapsed(ChangedAt, now') IN
         /\ e \in Nat /\ (e < DEBOUNCE => Age(d) <= e)
         /\ ~press.stale /\ e < DEBOUNCE => e = Age(d)
         /\ ~press.stale /\ e >= DEBOUNCE => Age(d) >= DEBOUNCE
<1>1. /\ input \in Inputs /\ press \in Presses /\ now \in Instant
      /\ now' = (now + d) % Wrap /\ pin' \in BOOLEAN
  BY DEF ManagersTypeOK, Inputs, Presses, Pass, Levels
<1>2. now' \in Instant /\ Elapsed(now', now') = 0 BY <1>1, ElapsedFacts
<1>3. press.age \in 0..DEBOUNCE /\ d \in Nat BY <1>1, Bounds DEF Presses
<1>4. Age(d) \in 0..DEBOUNCE BY <1>3, Bounds DEF Age
<1>5. CASE pin' # input.lastRaw
  <2>1. ChangedAt = now' BY <1>5 DEF ChangedAt
  <2>2. press.run # {pin'} BY <1>1, <1>5 DEF InputInv
  <2>3. Age(d) = 0 BY <2>2 DEF Age
  <2>. QED BY <1>2, <2>1, <2>3, Bounds
<1>6. CASE pin' = input.lastRaw
  <2>1. ChangedAt = input.lastChange /\ ~input.stable BY <1>6 DEF ChangedAt, Steady
  <2>. DEFINE e == Elapsed(input.lastChange, now')
  <2>2. /\ Counted \in 0..Wrap - 1 /\ e \in 0..Wrap - 1
        /\ Counted + d < Wrap => e = Counted + d
    BY ZenonT(60), <1>1, <1>2, ElapsedFacts DEF Counted, Inputs
  <2>. HIDE DEF e
  <2>3. CASE press.run = {}
    <3>1. Age(d) = 0 /\ press.stale BY <2>3 DEF Age, InputInv
    <3>. QED BY <2>1, <2>2, <3>1, Bounds DEF e
  <2>4. CASE press.run = {input.lastRaw}
    <3>1. press.age <= Counted /\ Counted < DEBOUNCE /\ (~press.stale => Counted = press.age)
      BY <2>1, <2>4 DEF InputInv
    <3>2. e = Counted + d BY <2>2, <3>1, <1>3, Bounds
    <3>3. Age(d) = IF press.age + d < DEBOUNCE THEN press.age + d ELSE DEBOUNCE
      BY <1>6, <2>4 DEF Age
    <3>4. /\ e \in Nat /\ (e < DEBOUNCE => Age(d) <= e)
          /\ ~press.stale /\ e < DEBOUNCE => e = Age(d)
          /\ ~press.stale /\ e >= DEBOUNCE => Age(d) >= DEBOUNCE
      BY <1>3, <2>2, <3>1, <3>2, <3>3, Bounds
    <3>. QED BY <2>1, <3>4 DEF e
  <2>. QED BY <2>3, <2>4 DEF InputInv
<1>. QED BY <1>5, <1>6

\* A pass keeps the debouncer and what is known of the contact together.
LEMMA InputKept ==
  ASSUME ManagersTypeOK, InputInv, NEW d \in 0..MaxLag, Pass(d)
  PROVE  InputInv' /\ ("press" \in started' => press.rearmed /\ (press'.down \/ press'.stale))
<1>1. TriggerUpdate /\ ("press" \in started' => "press" \in TriggerStarts)
  BY DEF Pass, ThermostatStarts
<1>2. "press" \in TriggerStarts => Checks /\ Heard /\ input'.current /\ ~trig.input
  BY DEF TriggerStarts
<1>3. ASSUME ~press'.stale => (press'.down <=> input'.current)
      PROVE  /\ ~press'.rearmed => trig'.input
             /\ "press" \in started' => press.rearmed /\ (press'.down \/ press'.stale)
  <2>1. ASSUME ~press'.rearmed PROVE trig'.input
    <3>1. Heard /\ press'.down /\ ~press'.stale /\ (~press.rearmed \/ "press" \in started')
      BY <2>1, Rearmed
    <3>2. input'.current BY <1>3, <3>1
    <3>3. CASE Checks
      <4>1. trig'.input = (Heard /\ input'.current) BY <1>1, <3>3 DEF TriggerUpdate
      <4>. QED BY <3>1, <3>2, <4>1, Zenon
    <3>4. CASE ~Checks
      <4>1. trig' = trig BY <1>1, <3>4 DEF TriggerUpdate
      <4>2. ~press.rearmed BY <1>1, <1>2, <3>1, <3>4
      <4>. QED BY <4>1, <4>2 DEF InputInv
    <3>. QED BY <3>3, <3>4
  <2>2. ASSUME "press" \in started' PROVE press.rearmed /\ (press'.down \/ press'.stale)
    BY <1>1, <1>2, <1>3, <2>2 DEF InputInv
  <2>. QED BY <2>1, <2>2
<1>4. CASE "input" \notin on
  <2>1. /\ input' = input /\ press'.run = {} /\ press'.stale = TRUE BY <1>4, Unsampled
  <2>2. input'.stable => (input'.current <=> input'.lastRaw) BY <2>1 DEF InputInv
  <2>. QED BY <1>3, <2>1, <2>2 DEF InputInv
<1>5. CASE "input" \in on
  <2>. DEFINE e == Elapsed(ChangedAt, now')
  <2>1. input \in Inputs /\ press \in Presses BY DEF ManagersTypeOK, Inputs, Presses
  <2>2. /\ input' \in Inputs /\ pin' \in BOOLEAN
        /\ input'.lastRaw = pin' /\ input'.lastChange = ChangedAt
        /\ Settles => input'.current = pin' /\ input'.stable = TRUE
        /\ ~Settles => input'.current = input.current
        /\ ~Settles /\ Steady => input'.stable = input.stable
        /\ ~Settles /\ ~Steady => input'.stable = FALSE
    BY <1>5, SampledInput
  <2>3. /\ press' \in Presses /\ Age(d) \in 0..DEBOUNCE
        /\ press'.run = {pin'} /\ press'.age = Age(d)
        /\ Age(d) >= DEBOUNCE => press'.down = pin' /\ press'.stale = FALSE
        /\ Age(d) < DEBOUNCE => press'.down = press.down /\ press'.stale = press.stale
    BY <1>5, SampledPress
  <2>4. ~Steady => /\ e \in Nat /\ (e < DEBOUNCE => Age(d) <= e)
                   /\ ~press.stale /\ e < DEBOUNCE => e = Age(d)
                   /\ ~press.stale /\ e >= DEBOUNCE => Age(d) >= DEBOUNCE
    BY RunIsCounted
  <2>5. Counted' = e BY <2>2 DEF Counted
  <2>6. /\ Settles => ~Steady /\ e >= DEBOUNCE
        /\ ~Settles /\ ~Steady => ~(e >= DEBOUNCE)
    BY DEF Settles
  <2>. HIDE DEF e
  <2>7. /\ Settles /\ ~press.stale => ~(Age(d) < DEBOUNCE)
        /\ ~Settles /\ ~Steady => e < DEBOUNCE /\ Age(d) <= e /\ Age(d) < DEBOUNCE
        /\ ~Settles /\ ~Steady /\ ~press.stale => e = Age(d)
        /\ Age(d) < DEBOUNCE \/ Age(d) >= DEBOUNCE
        /\ Age(d) >= DEBOUNCE => ~(Age(d) < DEBOUNCE)
    BY <2>3, <2>4, <2>6, Bounds
  <2>8. Steady => input.stable /\ pin' = input.lastRaw /\ (input.current <=> input.lastRaw)
    BY DEF Steady, InputInv
  <2>9. input'.stable => (input'.current <=> input'.lastRaw)
    BY <2>2, <2>8, Zenon
  <2>10. ~input'.stable => ~Settles /\ ~Steady BY <2>2, <2>8, Zenon
  <2>11. ~press'.stale => (press'.down <=> input'.current)
    <3>1. CASE Age(d) >= DEBOUNCE
      <4>1. press'.down = pin' /\ (Settles \/ Steady) BY <2>3, <2>7, <3>1
      <4>2. input'.current <=> pin' BY <2>2, <2>8, <4>1, Zenon
      <4>. QED BY <4>1, <4>2, Zenon
    <3>2. CASE Age(d) < DEBOUNCE
      <4>1. press'.down = press.down /\ press'.stale = press.stale BY <2>3, <3>2
      <4>2. ~press.stale => ~Settles BY <2>7, <3>2
      <4>3. ~press.stale => (press.down <=> input.current) BY DEF InputInv
      <4>. QED BY <2>2, <4>1, <4>2, <4>3, Zenon
    <3>. QED BY <2>7, <3>1, <3>2
  <2>12. ~input'.stable => press'.age <= Counted' /\ Counted' < DEBOUNCE
    BY <2>3, <2>5, <2>7, <2>10
  <2>13. ~press'.stale /\ ~input'.stable => Counted' = press'.age
    <3>1. ASSUME ~press'.stale, ~input'.stable PROVE ~press.stale
      <4>1. Age(d) < DEBOUNCE BY <2>7, <2>10, <3>1
      <4>2. press'.stale = press.stale BY <2>3, <4>1
      <4>. QED BY <3>1, <4>2, Zenon
    <3>. QED BY <2>3, <2>5, <2>7, <2>10, <3>1
  <2>14. press'.run = {input'.lastRaw} BY <2>2, <2>3
  <2>. QED BY <1>3, <2>9, <2>11, <2>12, <2>13, <2>14 DEF InputInv
<1>. QED BY <1>4, <1>5

-----------------------------------------------------------------------------
\* Starts of the last DAY, d ms later: no more of them than before.
Aged(S, d) == {a + d : a \in S} \cap 0..DAY - 1

\* Growing older adds no start: what is left of a set is no larger than the set was.
LEMMA AgedCount ==
  ASSUME NEW S \in SUBSET (0..DAY - 1), NEW d \in Nat
  PROVE  /\ Aged(S, d) \in SUBSET (0..DAY - 1)
         /\ IsFiniteSet(S) /\ Cardinality(S) \in Nat
         /\ IsFiniteSet(Aged(S, d)) /\ Cardinality(Aged(S, d)) \in Nat
         /\ Cardinality(Aged(S, d)) <= Cardinality(S)
<1>1. IsFiniteSet(0..DAY - 1) BY Bounds, FS_Interval
<1>2. Aged(S, d) \in SUBSET (0..DAY - 1) BY DEF Aged
<1>3. IsFiniteSet(S) /\ IsFiniteSet(Aged(S, d)) BY <1>1, <1>2, FS_Subset
<1>4. Cardinality(S) \in Nat /\ Cardinality(Aged(S, d)) \in Nat BY <1>3, FS_CardinalityType
<1>5. ASSUME Cardinality(S) < Cardinality(Aged(S, d)) PROVE FALSE
  <2>. DEFINE f == [a \in Aged(S, d) |-> a - d]
  <2>1. f \in [Aged(S, d) -> S] BY Bounds DEF Aged
  <2>. HIDE DEF f
  <2>2. PICK x, y \in Aged(S, d) : x # y /\ f[x] = f[y] BY <1>3, <1>5, <2>1, FS_PigeonHole
  <2>3. x - d = y - d BY <2>2 DEF f
  <2>4. x \in Nat /\ y \in Nat BY <1>2
  <2>. QED BY <2>2, <2>3, <2>4
<1>. QED BY <1>2, <1>3, <1>4, <1>5

\* The starts of two days grow older one by one.
LEMMA AgedUnion ==
  ASSUME NEW S, NEW T, NEW d \in Nat
  PROVE  Aged(S \cup T, d) = Aged(S, d) \cup Aged(T, d)
BY DEF Aged

\* Two days hold no more starts than each of them.
LEMMA TwoDays ==
  ASSUME NEW S, NEW T, IsFiniteSet(S), IsFiniteSet(T)
  PROVE  Cardinality(S \cup T) <= Cardinality(S) + Cardinality(T)
<1>1. IsFiniteSet(S \cap T) BY FS_Subset
<1>2. Cardinality(S) \in Nat /\ Cardinality(T) \in Nat /\ Cardinality(S \cap T) \in Nat
  BY <1>1, FS_CardinalityType
<1>3. Cardinality(S \cup T) = Cardinality(S) + Cardinality(T) - Cardinality(S \cap T)
  BY FS_Union
<1>. QED BY <1>2, <1>3

-----------------------------------------------------------------------------
\* The day that is counted begins anew only after DAY.
DayBegins == /\ saver.dayStart # 0 /\ Elapsed(saver.dayStart, now') >= DAY
             /\ Today.attempts = 0 /\ Today.dayStart = now'
DayGoesOn == /\ Today.attempts = saver.attempts
             /\ \/ Today.dayStart = saver.dayStart
                \/ saver.dayStart = 0 /\ Today.dayStart = now'

\* A pass counts its attempts in a day that has begun by then, the old one or a new one.
LEMMA TodayFacts ==
  ASSUME ManagersTypeOK, NEW d \in 0..MaxLag, Pass(d)
  PROVE  /\ now' \in Instant /\ Today \in Savers
         /\ Today.lastAttempt = saver.lastAttempt /\ Today.lowStart = saver.lowStart
         /\ DayBegins \/ DayGoesOn
<1>1. saver \in Savers /\ now \in Instant /\ now' = (now + d) % Wrap
  BY DEF ManagersTypeOK, Savers, Pass
<1>2. now' \in Instant /\ Elapsed(now', now') = 0 BY <1>1, ElapsedFacts
<1>3. 0 \in 0..MAX_ATTEMPTS BY Bounds
<1>4. CASE saver.dayStart = 0
  <2>. DEFINE b == [saver EXCEPT !.dayStart = now']
  <2>1. b \in Savers /\ b.dayStart = now' /\ b.attempts = saver.attempts
        /\ b.lastAttempt = saver.lastAttempt /\ b.lowStart = saver.lowStart
    BY <1>1, <1>2 DEF Savers
  <2>2. Today = b BY <1>2, <1>4, <2>1, Bounds DEF Today
  <2>. QED BY <1>2, <1>4, <2>1, <2>2 DEF DayGoesOn
<1>5. CASE saver.dayStart # 0 /\ Elapsed(saver.dayStart, now') >= DAY
  <2>1. Today = [saver EXCEPT !.attempts = 0, !.dayStart = now'] BY <1>5 DEF Today
  <2>. QED BY <1>1, <1>2, <1>3, <1>5, <2>1 DEF DayBegins, Savers
<1>6. CASE saver.dayStart # 0 /\ ~(Elapsed(saver.dayStart, now') >= DAY)
  <2>1. Today = saver BY <1>6 DEF Today
  <2>. QED BY <1>1, <1>2, <2>1 DEF DayGoesOn
<1>. QED BY <1>4, <1>5, <1>6

\* What a pass makes of the battery saver and of true time: it is off, it starts, or it
\* waits.
SaverIsOff(d) ==
  /\ "saver" \notin on /\ ~SaverStarted
  /\ saver' = [saver EXCEPT !.lowStart = 0] /\ ages' = [Older(d) EXCEPT !.low = 0]
SaverCharges(d) ==
  /\ SaverStarted /\ SaverStarts(Today)
  /\ saver' = [Today EXCEPT !.attempts = Today.attempts + 1, !.lastAttempt = now', !.lowStart = 0]
  /\ ages' = [start |-> 0, low |-> 0, day |-> Older(d).day \cup {0}]
SaverWaits(d) ==
  /\ ~SaverStarted
  /\ \/ volts' = "high" /\ saver' = [Today EXCEPT !.lowStart = 0]
        /\ ages' = [Older(d) EXCEPT !.low = 0]
     \/ volts' = "low" /\ saver' = [Today EXCEPT !.lowStart = LowSince(Today)]
        /\ ages' = [Older(d) EXCEPT !.low = IF Older(d).low = 0 THEN 1 ELSE Older(d).low]
     \/ saver' = Today /\ ages' = Older(d)

\* The cases of BatterySaverManager::update() are the only ones.
LEMMA SaverPass ==
  ASSUME ManagersTypeOK, NEW d \in 0..MaxLag, Pass(d)
  PROVE  SaverIsOff(d) \/ SaverCharges(d) \/ SaverWaits(d)
<1>1. SaverUpdate /\ AgesUpdate(Older(d)) /\ volts' \in {"none", "low", "band", "high"}
  BY DEF Pass, Voltages
<1>2. SaverStarted <=> SaverStarts(Today)
  BY DEF Pass, SaverStarted, TriggerStarts, ThermostatStarts
<1>3. Older(d) = [start |-> Older(d).start, low |-> Older(d).low, day |-> Older(d).day] BY DEF Older
<1>4. CASE "saver" \notin on
  <2>1. ~SaverStarted BY <1>2, <1>4 DEF SaverStarts
  <2>. QED BY <1>1, <1>4, <2>1 DEF SaverUpdate, AgesUpdate, SaverIsOff
<1>5. CASE SaverStarts(Today)
  <2>1. volts' = "low" /\ "saver" \in on BY <1>5 DEF SaverStarts
  <2>2. saver' = Low(Today) BY <1>1, <2>1 DEF SaverUpdate
  <2>3. saver' = [Today EXCEPT !.attempts = Today.attempts + 1, !.lastAttempt = now',
                               !.lowStart = 0]
    BY <1>5, <2>2 DEF Low
  <2>4. ages' = [start |-> 0, low |-> 0, day |-> Older(d).day \cup {0}]
    BY <1>1, <1>2, <1>5 DEF AgesUpdate
  <2>. QED BY <1>2, <1>5, <2>3, <2>4 DEF SaverCharges
<1>6. CASE "saver" \in on /\ ~SaverStarts(Today)
  <2>1. ~SaverStarted BY <1>2, <1>6
  <2>2. CASE volts' = "low"
    <3>1. saver' = [Today EXCEPT !.lowStart = LowSince(Today)]
      BY <1>1, <1>6, <2>2 DEF SaverUpdate, Low
    <3>2. ages' = [Older(d) EXCEPT !.low = IF Older(d).low = 0 THEN 1 ELSE Older(d).low]
      BY <1>1, <1>6, <2>1, <2>2 DEF AgesUpdate
    <3>. QED BY <2>1, <2>2, <3>1, <3>2 DEF SaverWaits
  <2>3. CASE volts' = "high"
    BY <1>1, <1>6, <2>1, <2>3 DEF SaverUpdate, AgesUpdate, SaverWaits
  <2>4. CASE volts' \in {"none", "band"}
    <3>1. saver' = Today BY <1>1, <1>6, <2>4 DEF SaverUpdate
    <3>2. ages' = [Older(d) EXCEPT !.low = Older(d).low]
      BY <1>1, <1>6, <2>1, <2>4 DEF AgesUpdate
    <3>3. ages' = Older(d) BY <1>3, <3>2
    <3>. QED BY <2>1, <3>1, <3>3 DEF SaverWaits
  <2>. QED BY <1>1, <2>2, <2>3, <2>4
<1>. QED BY <1>4, <1>5, <1>6

-----------------------------------------------------------------------------
\* What is d ms older still agrees with the instants the battery saver keeps.
LEMMA OlderFacts ==
  ASSUME ManagersTypeOK, PaceInv, NEW d \in 0..MaxLag, Pass(d)
  PROVE  /\ Older(d).start \in 0..BETWEEN /\ Older(d).low \in 0..LOW_FOR + 1
         /\ Older(d).day = Aged(ages.day, d)
         /\ Older(d).start < BETWEEN => Elapsed(saver.lastAttempt, now') = Older(d).start
         /\ saver.lowStart # 0 =>
              /\ Older(d).low > 0
              /\ Older(d).low <= LOW_FOR => Elapsed(saver.lowStart, now') < Older(d).low
<1>1. /\ saver \in Savers /\ now \in Instant /\ now' = (now + d) % Wrap
      /\ ages \in [start : 0..BETWEEN, low : 0..LOW_FOR + 1, day : SUBSET (0..DAY - 1)]
  BY DEF ManagersTypeOK, Savers, Pass
<1>2. /\ ages.start \in 0..BETWEEN /\ ages.low \in 0..LOW_FOR + 1 /\ d \in Nat
      /\ saver.lastAttempt \in Instant /\ saver.lowStart \in Instant
  BY <1>1, Bounds DEF Savers
<1>3. Older(d).day = Aged(ages.day, d) BY DEF Older, Aged
<1>4. Older(d).start = IF ages.start + d < BETWEEN THEN ages.start + d ELSE BETWEEN
  BY DEF Older
<1>5. Older(d).low = IF ages.low = 0 THEN 0
                     ELSE IF ages.low + d > LOW_FOR THEN LOW_FOR + 1 ELSE ages.low + d
  BY DEF Older
<1>6. Older(d).start < BETWEEN => Elapsed(saver.lastAttempt, now') = Older(d).start
  <2>. DEFINE e == Elapsed(saver.lastAttempt, now)
  <2>1. e + d < Wrap => Elapsed(saver.lastAttempt, now') = e + d
    BY <1>1, <1>2, ElapsedFacts
  <2>2. ages.start < BETWEEN => e = ages.start BY DEF PaceInv
  <2>. HIDE DEF e
  <2>. QED BY <1>2, <1>4, <2>1, <2>2, Bounds
<1>7. ASSUME saver.lowStart # 0
      PROVE  /\ Older(d).low > 0
             /\ Older(d).low <= LOW_FOR => Elapsed(saver.lowStart, now') < Older(d).low
  <2>. DEFINE e == Elapsed(saver.lowStart, now)
  <2>1. e \in 0..Wrap - 1 /\ (e + d < Wrap => Elapsed(saver.lowStart, now') = e + d)
    BY <1>1, <1>2, ElapsedFacts
  <2>2. ages.low > 0 /\ (ages.low <= LOW_FOR => e < ages.low) BY <1>7 DEF PaceInv
  <2>. HIDE DEF e
  <2>. QED BY <1>2, <1>5, <2>1, <2>2, Bounds
<1>8. Older(d).start \in 0..BETWEEN /\ Older(d).low \in 0..LOW_FOR + 1
  BY <1>2, <1>4, <1>5, Bounds
<1>. QED BY <1>3, <1>6, <1>7, <1>8

\* A pass keeps the instants true, and a start has waited for both of its intervals.
LEMMA PaceKept ==
  ASSUME ManagersTypeOK, PaceInv, NEW d \in 0..MaxLag, Pass(d)
  PROVE  /\ PaceInv'
         /\ SaverStarted => Older(d).start = BETWEEN /\ (LOW_FOR = 0 \/ Older(d).low > LOW_FOR)
<1>. DEFINE o == Older(d)
<1>1. /\ now' \in Instant /\ Today \in Savers
      /\ Today.lastAttempt = saver.lastAttempt /\ Today.lowStart = saver.lowStart
  BY TodayFacts
<1>2. Elapsed(now', now') = 0 BY <1>1, ElapsedFacts, Bounds
<1>3. saver \in Savers BY DEF ManagersTypeOK, Savers
<1>4. /\ o.start \in 0..BETWEEN /\ o.low \in 0..LOW_FOR + 1
      /\ o.start < BETWEEN => Elapsed(saver.lastAttempt, now') = o.start
      /\ saver.lowStart # 0 =>
           o.low > 0 /\ (o.low <= LOW_FOR => Elapsed(saver.lowStart, now') < o.low)
  BY OlderFacts
<1>5. o = [start |-> o.start, low |-> o.low, day |-> o.day] BY DEF Older
<1>. HIDE DEF o
<1>6. CASE SaverIsOff(d)
  <2>1. saver' = [saver EXCEPT !.lowStart = 0] /\ ages' = [o EXCEPT !.low = 0] /\ ~SaverStarted
    BY <1>6 DEF SaverIsOff, o
  <2>2. saver'.lastAttempt = saver.lastAttempt /\ saver'.lowStart = 0 /\ ages'.start = o.start
    BY <1>3, <1>5, <2>1 DEF Savers
  <2>. QED BY <1>4, <2>1, <2>2 DEF PaceInv
<1>7. CASE SaverCharges(d)
  <2>1. saver'.lastAttempt = now' /\ saver'.lowStart = 0 /\ ages'.start = 0
    BY <1>1, <1>7 DEF SaverCharges, Savers
  <2>2. Elapsed(saver.lastAttempt, now') >= BETWEEN /\ Elapsed(LowSince(Today), now') >= LOW_FOR
    BY <1>1, <1>7 DEF SaverCharges, SaverStarts, Spaced
  <2>3. o.start = BETWEEN BY <1>4, <2>2, Bounds
  <2>4. LOW_FOR = 0 \/ o.low > LOW_FOR
    <3>1. CASE saver.lowStart = 0
      BY <1>1, <1>2, <2>2, <3>1, Bounds DEF LowSince
    <3>2. CASE saver.lowStart # 0
      <4>1. Elapsed(saver.lowStart, now') >= LOW_FOR BY <1>1, <2>2, <3>2 DEF LowSince
      <4>2. Elapsed(saver.lowStart, now') \in Nat
        BY <1>1, <1>3, ElapsedFacts, Bounds DEF Savers
      <4>. QED BY <1>4, <3>2, <4>1, <4>2, Bounds
    <3>. QED BY <3>1, <3>2
  <2>. QED BY <1>2, <2>1, <2>3, <2>4 DEF PaceInv, o
<1>8. CASE SaverWaits(d)
  <2>1. ~SaverStarted BY <1>8 DEF SaverWaits
  <2>2. CASE volts' = "high" /\ saver' = [Today EXCEPT !.lowStart = 0] /\ ages' = [o EXCEPT !.low = 0]
    <3>1. saver'.lastAttempt = saver.lastAttempt /\ saver'.lowStart = 0 /\ ages'.start = o.start
      BY <1>1, <1>5, <2>2 DEF Savers
    <3>. QED BY <1>4, <2>1, <3>1 DEF PaceInv
  <2>3. CASE /\ volts' = "low" /\ saver' = [Today EXCEPT !.lowStart = LowSince(Today)]
             /\ ages' = [o EXCEPT !.low = IF o.low = 0 THEN 1 ELSE o.low]
    <3>1. /\ saver'.lastAttempt = saver.lastAttempt /\ ages'.start = o.start
          /\ saver'.lowStart = LowSince(Today) /\ ages'.low = IF o.low = 0 THEN 1 ELSE o.low
      BY <1>1, <1>5, <2>3 DEF Savers
    <3>2. LowSince(Today) = IF saver.lowStart = 0 THEN now' ELSE saver.lowStart
      BY <1>1 DEF LowSince
    <3>3. ages'.low > 0 /\ (ages'.low <= LOW_FOR => Elapsed(saver'.lowStart, now') < ages'.low)
      BY <1>2, <1>4, <3>1, <3>2, Bounds
    <3>. QED BY <1>4, <2>1, <3>1, <3>3 DEF PaceInv
  <2>4. CASE saver' = Today /\ ages' = o
    BY <1>1, <1>4, <2>1, <2>4 DEF PaceInv
  <2>. QED BY <1>8, <2>2, <2>3, <2>4 DEF SaverWaits, o
<1>. QED BY <1>6, <1>7, <1>8, SaverPass

-----------------------------------------------------------------------------
\* The starts of the last DAY, told apart by the day that counts them.
Split(S, before, today, s, t) ==
  /\ before \in SUBSET (0..DAY - 1) /\ today \in SUBSET (0..DAY - 1) /\ S = before \cup today
  /\ Cardinality(today) <= s.attempts /\ Cardinality(before) <= MAX_ATTEMPTS
  /\ s.dayStart # 0 => \A a \in before : Elapsed(s.dayStart, t) <= a

\* d ms later the split stands for the same day.
LEMMA AgedSplit ==
  ASSUME ManagersTypeOK, DayInv, NEW d \in 0..MaxLag, Pass(d)
  PROVE  \E before, today \in SUBSET (0..DAY - 1) : Split(Older(d).day, before, today, saver, now')
<1>1. /\ saver \in Savers /\ now \in Instant /\ now' = (now + d) % Wrap /\ d \in Nat
  BY Bounds DEF ManagersTypeOK, Savers, Pass
<1>2. now' \in Instant BY TodayFacts
<1>3. PICK b, t \in SUBSET (0..DAY - 1) : Split(ages.day, b, t, saver, now)
  BY DEF DayInv, Split
<1>4. /\ Aged(b, d) \in SUBSET (0..DAY - 1) /\ Aged(t, d) \in SUBSET (0..DAY - 1)
      /\ Cardinality(Aged(b, d)) <= MAX_ATTEMPTS
      /\ Cardinality(Aged(t, d)) <= saver.attempts
  <2>1. /\ Cardinality(t) <= saver.attempts /\ Cardinality(b) <= MAX_ATTEMPTS
        /\ saver.attempts \in 0..MAX_ATTEMPTS
    BY <1>1, <1>3 DEF Split, Savers
  <2>2. /\ Aged(b, d) \in SUBSET (0..DAY - 1) /\ Cardinality(b) \in Nat
        /\ Cardinality(Aged(b, d)) \in Nat /\ Cardinality(Aged(b, d)) <= Cardinality(b)
    BY <1>1, AgedCount
  <2>3. /\ Aged(t, d) \in SUBSET (0..DAY - 1) /\ Cardinality(t) \in Nat
        /\ Cardinality(Aged(t, d)) \in Nat /\ Cardinality(Aged(t, d)) <= Cardinality(t)
    BY <1>1, AgedCount
  <2>. QED BY <2>1, <2>2, <2>3, Bounds
<1>5. Older(d).day = Aged(b, d) \cup Aged(t, d)
  <2>1. Older(d).day = Aged(ages.day, d) BY DEF Older, Aged
  <2>2. ages.day = b \cup t BY <1>3 DEF Split
  <2>. QED BY <1>1, <2>1, <2>2, AgedUnion
<1>6. saver.dayStart # 0 => \A a \in Aged(b, d) : Elapsed(saver.dayStart, now') <= a
  <2>1. SUFFICES ASSUME saver.dayStart # 0, NEW a \in b, a + d \in 0..DAY - 1
                 PROVE  Elapsed(saver.dayStart, now') <= a + d
    BY DEF Aged
  <2>2. Elapsed(saver.dayStart, now) <= a BY <1>3, <2>1 DEF Split
  <2>3. Elapsed(saver.dayStart, now') <= Elapsed(saver.dayStart, now) + d
        /\ Elapsed(saver.dayStart, now) \in 0..Wrap - 1
    BY <1>1, ElapsedFacts DEF Savers
  <2>4. Elapsed(saver.dayStart, now') \in 0..Wrap - 1
    BY <1>1, <1>2, ElapsedFacts, Bounds DEF Savers
  <2>5. a \in Nat BY <1>3
  <2>. QED BY <1>1, <2>2, <2>3, <2>4, <2>5, Bounds
<1>7. Split(Older(d).day, Aged(b, d), Aged(t, d), saver, now')
  BY <1>4, <1>5, <1>6 DEF Split
<1>. QED BY <1>4, <1>7

\* When the day begins anew, every start of the day before the last one is older than DAY:
\* the day that ends takes its place.
LEMMA TodaySplit ==
  ASSUME ManagersTypeOK, DayInv, NEW d \in 0..MaxLag, Pass(d)
  PROVE  \E before, today \in SUBSET (0..DAY - 1) : Split(Older(d).day, before, today, Today, now')
<1>1. saver \in Savers BY DEF ManagersTypeOK, Savers
<1>2. /\ now' \in Instant /\ Today \in Savers /\ (DayBegins \/ DayGoesOn)
  BY TodayFacts
<1>3. PICK b, t \in SUBSET (0..DAY - 1) : Split(Older(d).day, b, t, saver, now')
  BY AgedSplit
<1>4. CASE DayBegins
  <2>1. b = {}
    <3>1. SUFFICES ASSUME NEW a \in b PROVE FALSE OBVIOUS
    <3>2. Elapsed(saver.dayStart, now') <= a /\ Elapsed(saver.dayStart, now') >= DAY
      BY <1>3, <1>4 DEF DayBegins, Split
    <3>3. a \in 0..DAY - 1 BY <1>3
    <3>4. Elapsed(saver.dayStart, now') \in 0..Wrap - 1
      BY <1>1, <1>2, ElapsedFacts, Bounds DEF Savers
    <3>. QED BY <3>2, <3>3, <3>4, Bounds
  <2>2. Today.attempts = 0 /\ Today.dayStart = now' BY <1>4 DEF DayBegins
  <2>3. Elapsed(now', now') = 0 /\ Cardinality({}) = 0 BY <1>2, ElapsedFacts, Bounds, FS_EmptySet
  <2>4. \A a \in t : 0 <= a BY Bounds
  <2>5. Cardinality(t) <= MAX_ATTEMPTS
    <3>1. Cardinality(t) <= saver.attempts /\ saver.attempts \in 0..MAX_ATTEMPTS
      BY <1>1, <1>3 DEF Split, Savers
    <3>2. Cardinality(t) \in Nat BY AgedCount, Bounds
    <3>. QED BY <3>1, <3>2, Bounds
  <2>6. Older(d).day = t \cup {} BY <1>3, <2>1 DEF Split
  <2>7. Split(Older(d).day, t, {}, Today, now')
    BY <2>2, <2>3, <2>4, <2>5, <2>6 DEF Split
  <2>. QED BY <2>7
<1>5. CASE DayGoesOn
  <2>1. Today.dayStart # 0 => \A a \in b : Elapsed(Today.dayStart, now') <= a
    <3>1. CASE Today.dayStart = saver.dayStart BY <1>3, <3>1 DEF Split
    <3>2. CASE Today.dayStart = now'
      <4>1. Elapsed(now', now') = 0 BY <1>2, ElapsedFacts, Bounds
      <4>2. \A a \in b : 0 <= a BY Bounds
      <4>. QED BY <3>2, <4>1, <4>2
    <3>. QED BY <1>5, <3>1, <3>2 DEF DayGoesOn
  <2>2. Split(Older(d).day, b, t, Today, now')
    BY <1>3, <1>5, <2>1 DEF Split, DayGoesOn
  <2>. QED BY <2>2
<1>. QED BY <1>2, <1>4, <1>5

\* A pass keeps the count, and a start is below the limits of both days.
LEMMA DayKept ==
  ASSUME ManagersTypeOK, DayInv, NEW d \in 0..MaxLag, Pass(d)
  PROVE  /\ DayInv' /\ ages'.day \in SUBSET (0..DAY - 1)
         /\ SaverStarted => Cardinality(Older(d).day) < 2 * MAX_ATTEMPTS
<1>. DEFINE o == Older(d)
<1>1. PICK b, t \in SUBSET (0..DAY - 1) : Split(o.day, b, t, Today, now')
  BY TodaySplit
<1>2. Today \in Savers /\ now' \in Instant BY TodayFacts
<1>3. /\ IsFiniteSet(b) /\ IsFiniteSet(t) /\ Cardinality(b) \in Nat /\ Cardinality(t) \in Nat
  BY AgedCount, Bounds
<1>4. /\ o.day = b \cup t /\ Cardinality(t) <= Today.attempts /\ Cardinality(b) <= MAX_ATTEMPTS
      /\ Today.dayStart # 0 => \A a \in b : Elapsed(Today.dayStart, now') <= a
  BY <1>1 DEF Split
<1>5. o = [start |-> o.start, low |-> o.low, day |-> o.day] BY DEF Older
<1>. HIDE DEF o
<1>6. ASSUME saver'.attempts = Today.attempts, saver'.dayStart = Today.dayStart,
             ages'.day = o.day
      PROVE  DayInv' /\ ages'.day \in SUBSET (0..DAY - 1)
  BY <1>4, <1>6 DEF DayInv
<1>7. CASE SaverIsOff(d)
  <2>1. /\ saver' = [saver EXCEPT !.lowStart = 0] /\ ages'.day = o.day /\ ~SaverStarted
    BY <1>5, <1>7 DEF SaverIsOff, o
  <2>2. saver'.attempts = saver.attempts /\ saver'.dayStart = saver.dayStart
    BY <2>1 DEF ManagersTypeOK
  <2>3. PICK before, today \in SUBSET (0..DAY - 1) : Split(o.day, before, today, saver, now')
    BY AgedSplit DEF o
  <2>4. DayInv' BY <2>1, <2>2, <2>3 DEF DayInv, Split
  <2>. QED BY <1>4, <2>1, <2>4
<1>8. CASE SaverCharges(d)
  <2>1. /\ saver'.attempts = Today.attempts + 1 /\ saver'.dayStart = Today.dayStart
        /\ ages'.day = o.day \cup {0} /\ Today.attempts < MAX_ATTEMPTS /\ SaverStarted
    BY <1>2, <1>8 DEF SaverCharges, SaverStarts, Savers, o
  <2>2. Today.attempts \in Nat BY <1>2, Bounds DEF Savers
  <2>3. Cardinality(o.day) < 2 * MAX_ATTEMPTS
    <3>1. Cardinality(b \cup t) <= Cardinality(b) + Cardinality(t) BY <1>3, TwoDays
    <3>2. Cardinality(b \cup t) \in Nat BY <1>3, FS_Union, FS_CardinalityType
    <3>. QED BY <1>3, <1>4, <2>1, <2>2, <3>1, <3>2, Bounds
  <2>4. t \cup {0} \in SUBSET (0..DAY - 1) /\ o.day \cup {0} \in SUBSET (0..DAY - 1)
    BY <1>4, Bounds
  <2>5. Cardinality(t \cup {0}) <= Today.attempts + 1
    <3>1. Cardinality(t \cup {0}) = IF 0 \in t THEN Cardinality(t) ELSE Cardinality(t) + 1
      BY <1>3, FS_AddElement
    <3>. QED BY <1>3, <1>4, <2>2, <3>1
  <2>6. o.day \cup {0} = b \cup (t \cup {0}) BY <1>4
  <2>7. DayInv' BY <1>4, <2>1, <2>4, <2>5, <2>6 DEF DayInv
  <2>. QED BY <2>1, <2>3, <2>4, <2>7 DEF o
<1>9. CASE SaverWaits(d)
  <2>1. /\ saver'.attempts = Today.attempts /\ saver'.dayStart = Today.dayStart
        /\ ages'.day = o.day /\ ~SaverStarted
    BY <1>2, <1>5, <1>9 DEF SaverWaits, Savers, o
  <2>. QED BY <1>6, <2>1
<1>. QED BY <1>7, <1>8, <1>9, SaverPass

-----------------------------------------------------------------------------
\* A pass leaves every variable of its type.
LEMMA TypesKept ==
  ASSUME ManagersTypeOK, PaceInv, DayInv, NEW d \in 0..MaxLag, Pass(d)
  PROVE  ManagersTypeOK'
<1>1. /\ has' = has /\ on' = on /\ pin' \in BOOLEAN
      /\ volts' \in {"none", "low", "band", "high"}
      /\ temp' \in {"none", "below", "between", "above"}
      /\ started' \subseteq {"press", "warm", "saver", "lower", "upper"}
  BY DEF Pass, Levels, Voltages, Temperatures, TriggerStarts, ThermostatStarts
<1>2. has' \in Configurations /\ on' \subseteq has' \cup {"input"} BY <1>1 DEF ManagersTypeOK
<1>3. now' \in Instant /\ Today \in Savers BY TodayFacts
<1>4. input' \in Inputs /\ press' \in Presses
  <2>1. CASE "input" \in on BY <2>1, SampledInput, SampledPress
  <2>2. CASE "input" \notin on BY <2>2, Unsampled DEF ManagersTypeOK, Inputs
  <2>. QED BY <2>1, <2>2
<1>5. trig' \in [lastCheck : Instant, input : BOOLEAN, temp : BOOLEAN]
  <2>1. trig \in [lastCheck : Instant, input : BOOLEAN, temp : BOOLEAN] /\ TriggerUpdate
    BY DEF ManagersTypeOK, Pass
  <2>2. CASE ~Checks BY <2>1, <2>2 DEF TriggerUpdate
  <2>3. CASE Checks
    <3>. DEFINE i == Heard /\ input'.current
                w == "warm" \in on /\ IF temp' = "none" THEN trig.temp ELSE temp' = "above"
    <3>1. trig' = [lastCheck |-> now', input |-> i, temp |-> w]
      BY <2>1, <2>3, Zenon DEF TriggerUpdate
    <3>2. i \in BOOLEAN /\ w \in BOOLEAN BY Zenon
    <3>. HIDE DEF i, w
    <3>. QED BY <1>3, <3>1, <3>2
  <2>. QED BY <2>2, <2>3
<1>6. edge' \in [lower : BOOLEAN, upper : BOOLEAN]
  BY DEF ManagersTypeOK, Pass, ThermostatUpdate, Over
<1>7. /\ Older(d).start \in 0..BETWEEN /\ Older(d).low \in 0..LOW_FOR + 1
      /\ ages'.day \in SUBSET (0..DAY - 1)
      /\ Older(d) = [start |-> Older(d).start, low |-> Older(d).low, day |-> Older(d).day]
  BY OlderFacts, DayKept DEF Older
<1>8. saver \in Savers /\ 0 \in Instant /\ now' \in Instant
  BY <1>3, WrapAssumption DEF ManagersTypeOK, Savers, Instant
<1>. DEFINE o == Older(d)
<1>. HIDE DEF o
<1>9. /\ saver' \in Savers /\ ages'.start \in 0..BETWEEN /\ ages'.low \in 0..LOW_FOR + 1
      /\ ages' = [start |-> ages'.start, low |-> ages'.low, day |-> ages'.day]
  <2>1. CASE SaverIsOff(d)
    <3>1. saver' = [saver EXCEPT !.lowStart = 0] /\ ages' = [o EXCEPT !.low = 0]
      BY <2>1 DEF SaverIsOff, o
    <3>2. o.start \in 0..BETWEEN /\ o = [start |-> o.start, low |-> o.low, day |-> o.day]
      BY <1>7 DEF o
    <3>3. saver' \in Savers BY <1>8, <3>1 DEF Savers
    <3>4. 0 \in 0..LOW_FOR + 1 BY Bounds
    <3>. QED BY <3>1, <3>2, <3>3, <3>4
  <2>2. CASE SaverCharges(d)
    <3>1. saver' = [Today EXCEPT !.attempts = Today.attempts + 1, !.lastAttempt = now', !.lowStart = 0]
      BY <2>2 DEF SaverCharges
    <3>2. Today.attempts + 1 \in 0..MAX_ATTEMPTS
      BY <1>3, <2>2, Bounds DEF SaverCharges, SaverStarts, Savers
    <3>3. ages' = [start |-> 0, low |-> 0, day |-> Older(d).day \cup {0}]
      BY <2>2 DEF SaverCharges
    <3>4. saver' \in Savers BY <1>3, <1>8, <3>1, <3>2 DEF Savers
    <3>5. 0 \in 0..BETWEEN /\ 0 \in 0..LOW_FOR + 1 BY Bounds
    <3>. QED BY <3>3, <3>4, <3>5
  <2>3. CASE SaverWaits(d)
    <3>1. o.start \in 0..BETWEEN /\ o.low \in 0..LOW_FOR + 1
          /\ o = [start |-> o.start, low |-> o.low, day |-> o.day]
      BY <1>7 DEF o
    <3>2. CASE saver' = [Today EXCEPT !.lowStart = 0] /\ ages' = [o EXCEPT !.low = 0]
      BY <1>3, <1>8, <3>1, <3>2, Bounds DEF Savers
    <3>3. CASE /\ saver' = [Today EXCEPT !.lowStart = LowSince(Today)]
               /\ ages' = [o EXCEPT !.low = IF o.low = 0 THEN 1 ELSE o.low]
      <4>1. LowSince(Today) \in Instant BY <1>3 DEF LowSince, Savers
      <4>2. 1 \in 0..LOW_FOR + 1 BY Bounds
      <4>. QED BY <1>3, <3>1, <3>3, <4>1, <4>2 DEF Savers
    <3>4. CASE saver' = Today /\ ages' = o BY <1>3, <3>1, <3>4
    <3>. QED BY <2>3, <3>2, <3>3, <3>4 DEF SaverWaits, o
  <2>. QED BY <2>1, <2>2, <2>3, SaverPass
<1>10. ages' \in [start : 0..BETWEEN, low : 0..LOW_FOR + 1, day : SUBSET (0..DAY - 1)]
  BY <1>7, <1>9
<1>. QED BY <1>1, <1>2, <1>3, <1>4, <1>5, <1>6, <1>9, <1>10
         DEF ManagersTypeOK, Inputs, Presses, Savers

\* setup() leaves everything that is counted at zero, and nothing is pressed or started.
LEMMA ManagersInvInit == ManagersInit => ManagersInv
<1>. SUFFICES ASSUME ManagersInit PROVE ManagersInv OBVIOUS
<1>1. 0 \in Instant /\ Elapsed(0, 0) = 0
  BY WrapAssumption DEF Instant, Elapsed
<1>2. pin \in BOOLEAN BY DEF ManagersInit, Levels
<1>3. ManagersTypeOK
  BY <1>1, <1>2, Bounds DEF ManagersInit, ManagersTypeOK
<1>4. InputInv BY <1>1, <1>2, Bounds DEF ManagersInit, InputInv, Counted
<1>5. PaceInv BY <1>1, Bounds DEF ManagersInit, PaceInv
<1>6. DayInv
  <2>1. Cardinality({}) = 0 /\ {} \in SUBSET (0..DAY - 1) /\ {} = {} \cup {} BY FS_EmptySet
  <2>2. ages.day = {} /\ saver.attempts = 0 /\ saver.dayStart = 0 BY DEF ManagersInit
  <2>. QED BY <2>1, <2>2, Bounds DEF DayInv
<1>. QED BY <1>3, <1>4, <1>5, <1>6 DEF ManagersInv

\* Passes and the switches of routes, MQTT and programs keep the invariant.
LEMMA ManagersInvStep ==
  ASSUME ManagersInv, [ManagersNext]_managersVars
  PROVE  ManagersInv'
<1>1. CASE UNCHANGED managersVars
  <2>1. ManagersTypeOK' BY <1>1 DEF ManagersInv, ManagersTypeOK, managersVars, ownVars
  <2>2. InputInv' /\ PaceInv' /\ DayInv'
    BY <1>1 DEF ManagersInv, InputInv, PaceInv, DayInv, Counted, managersVars, ownVars
  <2>. QED BY <2>1, <2>2 DEF ManagersInv
<1>2. ASSUME NEW d \in 0..MaxLag, Pass(d) PROVE ManagersInv'
  BY <1>2, InputKept, PaceKept, DayKept, TypesKept DEF ManagersInv
<1>3. ASSUME NEW s \in {"input", "press", "warm", "saver", "thermostat"}, Switches(s)
      PROVE  ManagersInv'
  <2>1. on' \subseteq has' \cup {"input"} /\ has' = has
    <3>1. s \in has \cup {"input"} /\ on \subseteq has \cup {"input"}
      BY <1>3 DEF Switches, ManagersInv, ManagersTypeOK
    <3>. QED BY <1>3, <3>1 DEF Switches
  <2>2. ManagersTypeOK' BY <1>3, <2>1 DEF ManagersInv, ManagersTypeOK, Switches, ownVars
  <2>3. InputInv' /\ PaceInv' /\ DayInv'
    BY <1>3 DEF ManagersInv, InputInv, PaceInv, DayInv, Counted, Switches, ownVars
  <2>. QED BY <2>2, <2>3 DEF ManagersInv
<1>. QED BY <1>1, <1>2, <1>3 DEF ManagersNext

\* The invariant of the managers: their instants, flags and counts agree with true time in
\* every state, for all intervals that leave room for one lag before the counter wraps.
THEOREM ManagersAlways == ManagersSpec => []ManagersInv
<1>1. ManagersInit => ManagersInv BY ManagersInvInit
<1>2. ManagersInv /\ [ManagersNext]_managersVars => ManagersInv' BY ManagersInvStep
<1>. QED BY <1>1, <1>2, PTL DEF ManagersSpec

\* The variables of the managers stay in their types: no count of attempts beyond the limit
\* and no start older than a day is ever held.
THEOREM ManagersTypes == ManagersSpec => []ManagersTypeOK
<1>1. ManagersInv => ManagersTypeOK BY DEF ManagersInv
<1>. QED BY <1>1, ManagersAlways, PTL

\* TriggerManager starts a program at most once for each time the contact is pressed, for
\* every bounce of it and whenever the input and the trigger are switched.
THEOREM PressStartsOnce == ManagersSpec => OncePerPress
<1>1. ManagersInv /\ [ManagersNext]_managersVars =>
        [(\E d \in 0..MaxLag : Pass(d)) /\ "press" \in started'
           => press.rearmed /\ (press'.down \/ press'.stale)]_managersVars
  BY InputKept DEF ManagersInv
<1>. QED BY <1>1, ManagersAlways, PTL DEF ManagersSpec, OncePerPress

\* BatterySaverManager keeps BETWEEN, LOW_FOR and the limit of two days at every start, for
\* all values of them and across every wrap of millis().
THEOREM SaverIsPaced == ManagersSpec => SaverPaced
<1>1. ManagersInv /\ [ManagersNext]_managersVars =>
        [\A d \in 0..MaxLag : Pass(d) /\ SaverStarted =>
           /\ Older(d).start = BETWEEN /\ (LOW_FOR = 0 \/ Older(d).low > LOW_FOR)
           /\ Cardinality(Older(d).day) < 2 * MAX_ATTEMPTS]_managersVars
  BY PaceKept, DayKept DEF ManagersInv
<1>. QED BY <1>1, ManagersAlways, PTL DEF ManagersSpec, SaverPaced
=============================================================================
