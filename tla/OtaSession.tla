----------------------------- MODULE OtaSession -----------------------------
(***************************************************************************)
(* A firmware update: the upload of /update.bin, the session of OTAHandler *)
(* that waits for it and flashes it, and the modes of Core it goes through.*)
(*                                                                         *)
(* A pass of the loop drains the entry into OTA_UPDATE that an upload has  *)
(* asked for and then calls the handler of the mode.  Web callbacks come   *)
(* between the two, between passes, and at every yield of the flashing.    *)
(***************************************************************************)
EXTENDS Naturals

CONSTANT Clients    \* requests to /upload that may be under way together

VARIABLES
  stage,      \* where the loop is
  mode,       \* ModeManager::_currentMode after the boot
  web,        \* the access point is up
  session,    \* OTAHandler: _awaitHttpUploadSession, _httpUploadDone,
              \* _httpUploadOk, and OTA_HTTP_UPLOAD_IDLE_MS have passed
  pending,    \* pendingDeferredOtaFromWebUpload
  pressure,   \* otaUploadPressureActive: the modem is kept down
  timedOut,   \* gOtaHttpUploadAwaitTimedOut
  up,         \* what each client's request to /upload has come to
  used,       \* gUploadCtxUsed
  bin,        \* /update.bin exists
  tmp,        \* /update.bin.tmp exists
  reading,    \* the file processUpdateFile() has open
  staged,     \* what Update.end() has left for the next start
  live,       \* the firmware that runs
  crossed     \* an upload has met another one, or a session with its file

loopVars == <<stage, mode, web>>
sessionVars == <<session, pending, pressure, timedOut>>
uploadVars == <<up, used, bin, tmp, crossed>>
firmware == <<reading, staged, live>>
vars == <<loopVars, sessionVars, uploadVars, firmware>>

Session == [await : BOOLEAN, done : BOOLEAN, ok : BOOLEAN, late : BOOLEAN]

\* onModeExit(), prepareHttpUploadSession(), prepareImmediateFirmwareProcess().
NoSession == [await |-> FALSE, done |-> FALSE, ok |-> FALSE, late |-> FALSE]
Awaiting  == [NoSession EXCEPT !.await = TRUE]
Immediate == [NoSession EXCEPT !.done = TRUE, !.ok = TRUE]

\* SETUP_AP also stands for EMERGENCY_AP.
BootModes == {"NORMAL", "SETUP_AP"}
Modes == BootModes \cup {"NORMAL_SILENT", "OTA_UPDATE"}

NobodyUploads == [c \in Clients |-> "idle"]

Boots ==
  /\ stage' = "drain" /\ mode' \in BootModes /\ web' = TRUE
  /\ session' = NoSession /\ pending' = FALSE
  /\ pressure' = FALSE /\ timedOut' = FALSE
  /\ up' = NobodyUploads /\ used' = FALSE
  /\ reading' = "none" /\ staged' = "none"

Init ==
  /\ stage = "drain" /\ mode \in BootModes /\ web = TRUE
  /\ session = NoSession /\ pending = FALSE
  /\ pressure = FALSE /\ timedOut = FALSE
  /\ up = NobodyUploads /\ used = FALSE
  /\ bin \in BOOLEAN /\ tmp \in BOOLEAN
  /\ reading = "none" /\ staged = "none" /\ live = "old"
  /\ crossed = FALSE

-----------------------------------------------------------------------------
\* drainDeferredOtaFromWebUpload_(), and switchMode() from NORMAL.

\* Slip: the update is drained whatever the mode.
DrainsAlways == pending

Drains == pending /\ mode = "NORMAL"

Drain ==
  /\ stage = "drain"
  /\ stage' = "handler"
  /\ pending' = FALSE
  /\ IF Drains
     THEN mode' = "OTA_UPDATE" /\ session' = Awaiting /\ pressure' = FALSE
     ELSE UNCHANGED <<mode, session, pressure>>
  /\ UNCHANGED <<web, timedOut, uploadVars, firmware>>

\* A handler that has nothing to do with updates.
HandleOther ==
  /\ stage = "handler" /\ mode # "OTA_UPDATE"
  /\ stage' = "drain"
  /\ UNCHANGED <<mode, web, sessionVars, uploadVars, firmware>>

\* ap_timeout_sec without a UI session: the access point goes for good, and
\* with it every connection.
GoSilent ==
  /\ stage = "handler" /\ mode = "NORMAL" /\ web
  /\ stage' = "drain" /\ mode' = "NORMAL_SILENT" /\ web' = FALSE
  /\ up' = NobodyUploads
  /\ UNCHANGED <<sessionVars, used, bin, tmp, crossed, firmware>>

InOta == stage = "handler" /\ mode = "OTA_UPDATE"

\* switchMode(NORMAL): exitOTAUpdate() and enterNormal().
LeaveOta ==
  /\ stage' = "drain" /\ mode' = "NORMAL" /\ web' = TRUE
  /\ session' = NoSession /\ pressure' = FALSE

\* The session's branches in the order of OTAHandler::update().
Waits == session.await /\ ~session.done

\* Slip: a failed upload is not told from a finished one.
FailedUnseen == FALSE

Failed == session.await /\ session.done /\ ~session.ok

\* Slip: the flag is not raised, and the upload goes on without its session.
TimeoutUnmarked ==
  /\ InOta /\ Waits /\ session.late
  /\ LeaveOta
  /\ UNCHANGED <<pending, timedOut, uploadVars, firmware>>

SessionTimesOut ==
  /\ InOta /\ Waits /\ session.late
  /\ LeaveOta
  /\ timedOut' = TRUE
  /\ UNCHANGED <<pending, uploadVars, firmware>>

UploadFailed ==
  /\ InOta /\ Failed
  /\ LeaveOta
  /\ bin' = FALSE
  /\ UNCHANGED <<pending, timedOut, up, used, tmp, crossed, firmware>>

\* Still receiving, or waiting for the file.
WaitOn ==
  /\ InOta
  /\ \/ Waits /\ ~session.late
     \/ ~Waits /\ ~Failed /\ ~bin
  /\ stage' = "drain" /\ pressure' = FALSE
  /\ UNCHANGED <<mode, web, session, pending, timedOut, uploadVars, firmware>>

\* processUpdateFile() opens the file.
FlashBegins ==
  /\ InOta /\ ~Waits /\ ~Failed /\ bin
  /\ stage' = "flash" /\ reading' = "intact" /\ pressure' = FALSE
  /\ UNCHANGED <<mode, web, session, pending, timedOut, uploadVars, staged, live>>

\* It cannot be read, or the updater refuses it: the file goes.
FlashFails ==
  /\ stage = "flash"
  /\ stage' = "reboot" /\ reading' = "none" /\ bin' = FALSE
  /\ UNCHANGED <<mode, web, sessionVars, up, used, tmp, crossed, staged, live>>

\* The blocks of a deleted file may have been given to another before they
\* were read.
Flashed ==
  /\ stage = "flash"
  /\ stage' = "extract"
  /\ staged' \in IF reading = "intact" THEN {"new"} ELSE {"new", "torn"}
  /\ UNCHANGED <<mode, web, sessionVars, uploadVars, reading, live>>

\* extractFiles() writes the assets; whether it succeeds or not, the file goes.
Extracted ==
  /\ stage = "extract"
  /\ stage' = "reboot" /\ reading' = "none" /\ bin' = FALSE
  /\ UNCHANGED <<mode, web, sessionVars, up, used, tmp, crossed, staged, live>>

Reboot ==
  /\ stage = "reboot"
  /\ Boots
  /\ live' = IF staged = "none" THEN live ELSE staged
  /\ UNCHANGED <<bin, tmp, crossed>>

Loop ==
  \/ Drain \/ HandleOther \/ GoSilent
  \/ SessionTimesOut \/ UploadFailed \/ WaitOn
  \/ FlashBegins \/ FlashFails \/ Flashed \/ Extracted \/ Reboot

-----------------------------------------------------------------------------
\* A callback with index 0.

Holds(c) == up[c] \in {"open", "errored"}

\* The context is another request's: one's own leftover is released first.
Taken(c) == used /\ ~Holds(c)

MayBegin(c) == web /\ up[c] # "open"

\* The old file is deleted at once, under a reader too.
DeletesFile == bin' = FALSE
                 /\ reading' = IF reading = "intact" THEN "spoilt" ELSE reading

Crosses(c) == (mode = "OTA_UPDATE" /\ bin) \/ \E d \in Clients \ {c} : up[d] # "idle"

IndexZero(c) ==
  /\ MayBegin(c)
  /\ timedOut' = FALSE
  /\ DeletesFile
  /\ crossed' = (crossed \/ Crosses(c))
  /\ UNCHANGED <<loopVars, staged, live>>

\* isFlashBusy(): 409.
UploadRejected(c) ==
  /\ MayBegin(c) /\ up[c] = "idle"
  /\ up' = [up EXCEPT ![c] = "void"]
  /\ crossed' = (crossed \/ Crosses(c))
  /\ UNCHANGED <<loopVars, sessionVars, used, bin, tmp, firmware>>

\* No space (507), no context (409) or no stream (500).
UploadRefused(c) ==
  /\ IndexZero(c)
  /\ up' = [up EXCEPT ![c] = "void"]
  /\ used' = Taken(c)
  /\ tmp' = FALSE
  /\ UNCHANGED <<session, pending, pressure>>

\* onOtaHttpUploadStreamOpenedFromWeb()
UploadOpened(c) ==
  /\ IndexZero(c) /\ ~Taken(c)
  /\ up' = [up EXCEPT ![c] = "open"]
  /\ used' = TRUE
  /\ tmp' = TRUE
  /\ pressure' = TRUE
  /\ IF mode = "OTA_UPDATE" THEN session' = Awaiting /\ UNCHANGED pending
                            ELSE pending' = TRUE /\ UNCHANGED session

Begins(c) == UploadRejected(c) \/ UploadRefused(c) \/ UploadOpened(c)

-----------------------------------------------------------------------------
\* A later callback.

\* 408: the next piece after a timeout, whoever's it is.
UploadCut(c) ==
  /\ web /\ timedOut /\ up[c] # "idle"
  /\ timedOut' = FALSE
  /\ DeletesFile
  /\ tmp' = (tmp /\ up[c] # "open")
  /\ used' = (used /\ ~Holds(c))
  /\ up' = [up EXCEPT ![c] = "void"]
  /\ UNCHANGED <<loopVars, session, pending, pressure, crossed, staged, live>>

\* notifyOtaHttpUploadComplete()
Notify(ok) ==
  /\ session' = [session EXCEPT !.done = TRUE, !.ok = ok]
  /\ pressure' = FALSE

\* An open upload's piece ends it: its request is as `next` says.
EndsAs(c, next) ==
  /\ web /\ ~timedOut /\ up[c] = "open"
  /\ up' = [up EXCEPT ![c] = next]
  /\ tmp' = FALSE
  /\ UNCHANGED <<loopVars, pending, timedOut, crossed, firmware>>

\* Slip: the failure is not reported.
WriteFailsSilently(c) ==
  /\ EndsAs(c, "errored")
  /\ UNCHANGED <<session, pressure, used, bin>>

\* 500, with the context kept.
WriteFails(c) ==
  /\ EndsAs(c, "errored")
  /\ Notify(FALSE)
  /\ UNCHANGED <<used, bin>>

\* Slip: 413 leaves the context taken.
TooLargeUnreleased(c) ==
  /\ EndsAs(c, "void")
  /\ Notify(FALSE)
  /\ UNCHANGED <<used, bin>>

\* 413
TooLarge(c) ==
  /\ EndsAs(c, "void")
  /\ Notify(FALSE)
  /\ used' = FALSE
  /\ UNCHANGED bin

\* Slip: the result of closeWriteStream() is not looked at.
FinishedUnchecked(c, ok) ==
  /\ EndsAs(c, "idle")
  /\ Notify(TRUE)
  /\ used' = FALSE
  /\ bin' = (ok /\ tmp)

\* The final piece: the temporary file becomes /update.bin, or not.
Finished(c, ok) ==
  /\ ok => tmp
  /\ EndsAs(c, "idle")
  /\ Notify(ok)
  /\ used' = FALSE
  /\ bin' = ok

\* The request is over, or its connection is lost: nobody is told.
Gone(c) ==
  /\ web /\ up[c] # "idle"
  /\ up' = [up EXCEPT ![c] = "idle"]
  /\ UNCHANGED <<loopVars, sessionVars, used, bin, tmp, crossed, firmware>>

-----------------------------------------------------------------------------
\* POST /ota/start.  From SETUP_AP the switch takes the access point down.
StartOta ==
  /\ web /\ bin
  /\ pending' = FALSE /\ pressure' = FALSE /\ session' = Immediate
  /\ mode' = "OTA_UPDATE"
  /\ IF mode = "SETUP_AP" THEN web' = FALSE /\ up' = NobodyUploads
                          ELSE UNCHANGED <<web, up>>
  /\ crossed' = (crossed \/ up # NobodyUploads)
  /\ UNCHANGED <<stage, timedOut, used, bin, tmp, firmware>>

\* OTA_HTTP_UPLOAD_IDLE_MS after the session was prepared.
TimePasses ==
  /\ Waits /\ ~session.late
  /\ session' = [session EXCEPT !.late = TRUE]
  /\ UNCHANGED <<loopVars, pending, pressure, timedOut, uploadVars, firmware>>

\* A watchdog, POST /reboot or a power cut, which may lose what is staged.
Restart ==
  /\ Boots
  /\ \/ live' = live
     \/ staged # "none" /\ live' = staged
  /\ UNCHANGED <<bin, tmp, crossed>>

Next ==
  \/ Loop
  \/ TimePasses
  \/ \E c \in Clients :
       \/ Begins(c) \/ UploadCut(c) \/ WriteFails(c) \/ TooLarge(c) \/ Gone(c)
       \/ \E ok \in BOOLEAN : Finished(c, ok)
  \/ StartOta
  \/ Restart

Spec == Init /\ [][Next]_vars

\* The loop runs and time passes; clients may do nothing.
FairSpec == Spec /\ WF_vars(Loop) /\ WF_vars(TimePasses)

-----------------------------------------------------------------------------
\* Every variable has its type.
TypeOK ==
  /\ stage \in {"drain", "handler", "flash", "extract", "reboot"}
  /\ mode \in Modes
  /\ web \in BOOLEAN
  /\ session \in Session
  /\ pending \in BOOLEAN
  /\ pressure \in BOOLEAN
  /\ timedOut \in BOOLEAN
  /\ up \in [Clients -> {"idle", "open", "errored", "void"}]
  /\ used \in BOOLEAN
  /\ bin \in BOOLEAN
  /\ tmp \in BOOLEAN
  /\ reading \in {"none", "intact", "spoilt"}
  /\ staged \in {"none", "new", "torn"}
  /\ live \in {"old", "new", "torn"}
  /\ crossed \in BOOLEAN

\* The flags and the reader belong to their modes and stages.
FlagsFit ==
  /\ stage \in {"flash", "extract", "reboot"} => mode = "OTA_UPDATE"
  /\ reading # "none" <=> stage \in {"flash", "extract"}
  /\ mode = "OTA_UPDATE" => ~pending
  /\ timedOut => ~pending /\ ~pressure

\* One request at a time holds the only upload context.
ContextHeld ==
  \A c \in Clients : Holds(c) => used /\ \A d \in Clients \ {c} : ~Holds(d)

\* Unless updates cross: requests come one by one; an open upload has its
\* temporary file and, in OTA_UPDATE, a session that waits for it; a session
\* that was told of success has its file until the flashing is over; nothing
\* disturbs the reader, and the firmware is what a client sent.
UpdatesInTurn ==
  ~crossed =>
    /\ \A c, d \in Clients : up[c] # "idle" /\ up[d] # "idle" => c = d
    /\ \A c \in Clients : up[c] = "open" =>
         tmp /\ ~bin /\ (mode = "OTA_UPDATE" => Waits)
    /\ mode = "OTA_UPDATE" /\ stage # "reboot" =>
         /\ session.done /\ session.ok => bin
         /\ timedOut => bin /\ up = NobodyUploads
    /\ reading # "none" => bin /\ reading = "intact"
    /\ staged # "torn" /\ live # "torn"

\* Types, the owner of the context, and what an update may rely on as long as
\* no other one crosses it.
OtaInv == TypeOK /\ FlagsFit /\ ContextHeld /\ UpdatesInTurn

\* An upload that outlived its session is condemned: in NORMAL an open upload
\* either is about to get its session or meets the timeout flag with its next
\* piece, so it is never reported as done after the session is gone.
ExpiredIsCutOff ==
  ~crossed /\ mode = "NORMAL" /\ (\E c \in Clients : up[c] = "open")
    => pending \/ timedOut

Leaked == used /\ \A c \in Clients : ~Holds(c)

\* The modem is kept down only for an upload under way, or one whose
\* connection was lost: no end of an upload or of a session forgets to lift it.
PressureHasUpload == pressure => Leaked \/ \E c \in Clients : up[c] = "open"

\* The upload context comes back on every way an upload can end, but a lost
\* connection and a failed write.
OnlyLostLeaks ==
  [][Leaked' /\ ~Leaked => ~web' \/ \E c \in Clients : Holds(c) /\ Gone(c)]_vars

\* The device was fit at its last boot: an update from SETUP_AP has no access point,
\* and one from NORMAL keeps it.
fit == IF mode = "OTA_UPDATE" THEN web ELSE mode # "SETUP_AP"
Promise == INSTANCE ModePromise

\* However uploads, sessions and requests interleave, an update that began in SETUP_AP
\* ends in a restart and never in NORMAL, and NORMAL_SILENT lets no update begin.
UpdateKeepsModes == Promise!Spec

Asks == StartOta \/ \E c \in Clients : Begins(c)

\* An update comes to an end: once nobody asks for another one the device
\* leaves OTA_UPDATE, by a timeout, a failure or a restart.
OtaEnds == <>[][~Asks]_vars /\ []~crossed => <>[](mode # "OTA_UPDATE")
=============================================================================
