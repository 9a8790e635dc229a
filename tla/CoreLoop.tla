------------------------------ MODULE CoreLoop ------------------------------
(***************************************************************************)
(* Core::update(): the boot stages, the modes and what ModeManager does    *)
(* between them, with what the other modules take for granted of it: the   *)
(* executor runs in two of the modes only, the flash tick in all but BOOT, *)
(* an update leaves OTA_UPDATE for NORMAL or for a restart.  ProgramExecu- *)
(* tor, WebIngest, OtaSession and UiStream open what is one value here.    *)
(*                                                                         *)
(* A pass has a head (web server, deferred update, flash tick, yield) and  *)
(* the mode's handler; web callbacks run before each of them.              *)
(***************************************************************************)
EXTENDS Naturals

VARIABLES
  mode,     \* _currentMode
  boot,     \* bootStage and what the stages have found and begun
  pc,       \* what the loop does next: "head", "handler"
  restart,  \* "no", "now" (pendingHardRestart), "asked", "due" (rebootRequested)
  web,      \* the server is up and can be reached
  deferred, \* pendingDeferredOtaFromWebUpload
  session,  \* of OTAHandler: "none", "await", "failed", "ready"
  exec,     \* of ProgramExecutor: "none", "waits", "cranks" (a starter press)
  relay,    \* the starter relay is on; some other one is
  queue,    \* flash ticks that queued operations still need
  strayed   \* ghost: a program was started since OTA_UPDATE was entered

bootVars == <<boot, restart>>
otaVars == <<deferred, session, strayed>>
workVars == <<exec, relay, queue>>
vars == <<mode, boot, pc, restart, web, deferred, session, exec, relay, queue, strayed>>

Modes == {"BOOT", "EMERGENCY_AP", "SETUP_AP", "NORMAL", "NORMAL_SILENT", "OTA_UPDATE"}
Serving == {"NORMAL", "NORMAL_SILENT"}
Stages == {"InitWiFiOff", "MountFS", "LoadOrCreateConfig", "EnsureProgramIndex",
           "InitHardware", "InitManagers", "SelectInitialMode", "Done"}

Off == [starter |-> FALSE, others |-> FALSE]
ColdBoot == [stage |-> "InitWiFiOff", config |-> "unread", setup |-> FALSE,
             badMap |-> FALSE, hardware |-> FALSE, managers |-> FALSE]

Init ==
  /\ mode = "BOOT" /\ boot = ColdBoot /\ pc = "head" /\ restart = "no"
  /\ web = FALSE /\ deferred = FALSE /\ session = "none" /\ strayed = FALSE
  /\ exec = "none" /\ relay = Off /\ queue = 0

Restarts ==
  /\ mode' = "BOOT" /\ boot' = ColdBoot /\ pc' = "head" /\ restart' = "no"
  /\ web' = FALSE /\ deferred' = FALSE /\ session' = "none" /\ strayed' = FALSE
  /\ exec' = "none" /\ relay' = Off /\ queue' = 0

-----------------------------------------------------------------------------
\* switchMode(): the exit of the mode, then the entry.  An access point that is
\* started may fail to come up.

\* Slip: OTA_UPDATE leaves the relays as they are.
RelaysKeptFor(m) == relay' = relay

RelaysFor(m) ==
  relay' = IF m = "OTA_UPDATE" \/ mode = "NORMAL_SILENT" THEN Off ELSE relay

SwitchMode(m) ==
  /\ mode' = m
  /\ RelaysFor(m)
  /\ strayed' = FALSE
  /\ CASE m = "NORMAL_SILENT" -> web' = FALSE
       [] m = "OTA_UPDATE" -> web' = (web /\ mode \notin {"SETUP_AP", "EMERGENCY_AP"})
       [] OTHER -> web' \in {TRUE, web}

-----------------------------------------------------------------------------
\* handleBoot(): one stage per pass.
InStage(s) == pc = "head" /\ restart # "now" /\ mode = "BOOT" /\ boot.stage = s
Booting == UNCHANGED <<mode, pc, web, otaVars, workVars>>

WiFiOff == InStage("InitWiFiOff") /\ boot' = [boot EXCEPT !.stage = "MountFS"]
             /\ Booting /\ UNCHANGED restart

\* A volume that cannot be mounted, or defaults just written: the next pass restarts.
HardRestart(b) == boot' = [b EXCEPT !.stage = "Done"] /\ restart' = "now"

MountFS ==
  /\ InStage("MountFS") /\ Booting
  /\ \/ boot' = [boot EXCEPT !.stage = "LoadOrCreateConfig"] /\ UNCHANGED restart
     \/ HardRestart(boot)

LoadOrCreateConfig ==
  /\ InStage("LoadOrCreateConfig") /\ Booting
  /\ \/ HardRestart([boot EXCEPT !.config = "loaded"])
     \/ /\ boot' = [boot EXCEPT !.config = "failed", !.stage = "SelectInitialMode"]
        /\ UNCHANGED restart
     \/ /\ \E setup \in BOOLEAN :
             boot' = [boot EXCEPT !.config = "loaded", !.setup = setup,
                                  !.stage = "EnsureProgramIndex"]
        /\ UNCHANGED restart

EnsureProgramIndex ==
  /\ InStage("EnsureProgramIndex") /\ Booting /\ UNCHANGED restart
  /\ boot' = [boot EXCEPT !.stage = "InitHardware"]

\* The map of pins is a constant of the build; relay.begin() switches all relays off.
InitHardware ==
  /\ InStage("InitHardware") /\ Booting /\ UNCHANGED restart
  /\ \E bad \in BOOLEAN :
       boot' = [boot EXCEPT !.badMap = bad, !.hardware = TRUE, !.stage = "InitManagers"]

InitManagers ==
  /\ InStage("InitManagers") /\ Booting /\ UNCHANGED restart
  /\ boot' = [boot EXCEPT !.managers = TRUE, !.stage = "SelectInitialMode"]

InitialMode ==
  IF boot.config = "failed" \/ boot.badMap THEN "EMERGENCY_AP"
  ELSE IF boot.setup THEN "SETUP_AP" ELSE "NORMAL"

\* The pass goes on with the handler of the new mode.
SelectInitialMode ==
  /\ InStage("SelectInitialMode")
  /\ SwitchMode(InitialMode)
  /\ boot' = [boot EXCEPT !.stage = "Done"] /\ pc' = "handler"
  /\ UNCHANGED <<restart, deferred, session, workVars>>

Boot ==
  \/ WiFiOff \/ MountFS \/ LoadOrCreateConfig \/ EnsureProgramIndex
  \/ InitHardware \/ InitManagers \/ SelectInitialMode

HardRestartNow == pc = "head" /\ restart = "now" /\ Restarts

-----------------------------------------------------------------------------
\* drainDeferredOtaFromWebUpload_()

\* Slip: the mode is checked for being served, which NORMAL_SILENT is too.
DrainsServing == deferred /\ mode \in Serving

Drains == deferred /\ mode = "NORMAL"

Drain ==
  /\ deferred' = FALSE
  /\ IF Drains THEN SwitchMode("OTA_UPDATE") /\ session' = "await"
               ELSE UNCHANGED <<mode, relay, web, session, strayed>>

\* The flash tick, unless a program runs.

\* Slip: flash work is done only where programs are served.
TicksServing == exec = "none" /\ mode' \in Serving

Ticks == exec = "none"

LoopHead ==
  /\ pc = "head" /\ mode # "BOOT"
  /\ pc' = "handler"
  /\ Drain
  /\ queue' = IF Ticks /\ queue > 0 THEN queue - 1 ELSE queue
  /\ UNCHANGED <<bootVars, exec>>

RebootDue == pc = "handler" /\ restart = "due" /\ Restarts

-----------------------------------------------------------------------------
\* The handlers.
Handles(ms) == pc = "handler" /\ restart # "due" /\ mode \in ms /\ pc' = "head"

\* What a start() leaves, whoever calls: no press of the starter has begun.
Started == exec' \in {"none", "waits"} /\ relay' \in [starter : {FALSE}, others : BOOLEAN]

\* programExecutor.update() of programs that leave the starter to STARTER_* steps: a
\* press ends, or the program is aborted; a resting program goes on.
ProgramGoesOn ==
  \/ UNCHANGED <<exec, relay>>
  \/ exec = "waits" /\ Started
  \/ exec = "waits" /\ exec' = "cranks" /\ relay' \in [starter : {TRUE}, others : BOOLEAN]
  \/ exec = "cranks" /\ exec' = "waits" /\ relay' = [relay EXCEPT !.starter = FALSE]
  \/ exec = "cranks" /\ exec' = "none" /\ relay' = Off

\* handleNormal(), handleNormalSilent(): triggers, managers and MQTT start programs.
Serves == Handles(Serving) /\ ProgramGoesOn
            /\ UNCHANGED <<mode, web, bootVars, otaVars, queue>>
PassStarts == Handles(Serving) /\ Started
                /\ UNCHANGED <<mode, web, bootVars, otaVars, queue>>
GoSilent == Handles({"NORMAL"}) /\ web /\ SwitchMode("NORMAL_SILENT")
              /\ UNCHANGED <<bootVars, deferred, session, workVars>>

\* handleSetupAP(), handleEmergencyAP(): the executor stands still.
Idles == Handles({"SETUP_AP", "EMERGENCY_AP"})
           /\ UNCHANGED <<mode, web, bootVars, otaVars, workVars>>

\* handleOTAUpdate(): it waits; a late or failed upload ends it; an update that is
\* complete ends in a restart.
OtaWaits == Handles({"OTA_UPDATE"}) /\ session # "failed"
              /\ UNCHANGED <<mode, web, bootVars, otaVars, workVars>>
OtaEnds == /\ Handles({"OTA_UPDATE"}) /\ session \in {"await", "failed"}
           /\ SwitchMode("NORMAL") /\ session' = "none"
           /\ UNCHANGED <<bootVars, deferred, exec, queue>>
Flashes == pc = "handler" /\ restart # "due" /\ mode = "OTA_UPDATE" /\ session = "ready"
             /\ Restarts

Loop ==
  \/ HardRestartNow \/ Boot \/ LoopHead \/ RebootDue
  \/ Serves \/ PassStarts \/ GoSilent \/ Idles \/ OtaWaits \/ OtaEnds \/ Flashes

-----------------------------------------------------------------------------
\* Callbacks of the web server; flash work queued, or a body under way, is answered 409.
FlashBusy == queue > 0

RunProgram ==
  /\ web /\ ~FlashBusy /\ Started /\ strayed' = TRUE
  /\ UNCHANGED <<mode, pc, web, bootVars, deferred, session, queue>>

\* POST /config/save, /program, /config/reset, ...: a program takes two ticks.
QueueWork ==
  /\ web /\ ~FlashBusy /\ queue' \in {1, 2}
  /\ UNCHANGED <<mode, pc, web, bootVars, otaVars, exec, relay>>

PostReboot ==
  /\ web /\ restart' = "asked"
  /\ UNCHANGED <<mode, boot, pc, web, otaVars, workVars>>
RebootFallsDue ==
  /\ restart = "asked" /\ restart' = "due"
  /\ UNCHANGED <<mode, boot, pc, web, otaVars, workVars>>

UploadOpens ==
  /\ web /\ ~FlashBusy
  /\ IF mode = "OTA_UPDATE" THEN session' = "await" /\ UNCHANGED deferred
                            ELSE deferred' = TRUE /\ UNCHANGED session
  /\ UNCHANGED <<mode, pc, web, bootVars, strayed, workVars>>
UploadEnds ==
  /\ web /\ session = "await" /\ session' \in {"ready", "failed"}
  /\ UNCHANGED <<mode, pc, web, bootVars, deferred, strayed, workVars>>

\* startOTAUpdate(), if there is a /update.bin; in OTA_UPDATE switchMode() returns.
StartOta ==
  /\ web /\ ~FlashBusy /\ deferred' = FALSE /\ session' = "ready"
  /\ IF mode = "OTA_UPDATE" THEN UNCHANGED <<mode, relay, web, strayed>>
                            ELSE SwitchMode("OTA_UPDATE")
  /\ UNCHANGED <<pc, bootVars, exec, queue>>

Web == RunProgram \/ QueueWork \/ PostReboot \/ UploadOpens \/ UploadEnds \/ StartOta

Next == Loop \/ Web \/ RebootFallsDue

Spec == Init /\ [][Next]_vars

\* The loop runs, and a program that is served and not started anew comes to its end
\* (ProgramExecutor!ProgramEnds).
ProgramDone == Serves /\ exec # "none" /\ exec' = "none"
FairSpec == Spec /\ WF_vars(Loop) /\ SF_vars(ProgramDone)

-----------------------------------------------------------------------------
TypeOK ==
  /\ mode \in Modes /\ pc \in {"head", "handler"}
  /\ boot \in [stage : Stages, config : {"unread", "failed", "loaded"}, setup : BOOLEAN,
               badMap : BOOLEAN, hardware : BOOLEAN, managers : BOOLEAN]
  /\ restart \in {"no", "now", "asked", "due"}
  /\ web \in BOOLEAN /\ deferred \in BOOLEAN /\ strayed \in BOOLEAN
  /\ session \in {"none", "await", "failed", "ready"}
  /\ exec \in {"none", "waits", "cranks"}
  /\ relay \in [starter : BOOLEAN, others : BOOLEAN]
  /\ queue \in 0..2

\* Programs and managers are served only on a device that read its configuration, has
\* been set up and has begun its hardware and managers on a good map: no upload, failed
\* update or timeout leads out of EMERGENCY_AP or SETUP_AP but by a restart.
Fit == boot.config = "loaded" /\ ~boot.setup /\ boot.hardware /\ ~boot.badMap /\ boot.managers
NormalIsFit == mode \in Serving => Fit

\* Whatever requests, uploads and programs do between them, the loop changes modes as
\* ModePromise says, with the same outcome of a boot as OtaSession takes for granted.
apMode == IF mode = "EMERGENCY_AP" THEN "SETUP_AP" ELSE mode
booted == mode # "BOOT" /\ Fit
Promise == INSTANCE ModePromise WITH mode <- apMode, fit <- booted
LoopKeepsModes == Promise!Spec

\* The starter is on only in a press of a mode that ends presses, and relays are on in
\* OTA_UPDATE only for a program started there: "relay outputs to safe state".
RelaysSafe ==
  /\ relay.starter => exec = "cranks" /\ mode \in Serving
  /\ mode = "OTA_UPDATE" /\ ~strayed => relay = Off

\* Accepted work reaches the flash in every mode once nobody starts programs, unless
\* the program that keeps it back rests in a mode that does not serve it.
Starts == RunProgram \/ PassStarts
Unserved == exec # "none" /\ mode \notin Serving
CommitServed == <>[][~Starts]_vars => []<>(queue = 0 \/ Unserved)
=============================================================================
