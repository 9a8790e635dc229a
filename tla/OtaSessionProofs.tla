-------------------------- MODULE OtaSessionProofs --------------------------
(***************************************************************************)
(* Proofs about OtaSession, for any clients.                               *)
(***************************************************************************)
EXTENDS OtaSession, TLAPS

-----------------------------------------------------------------------------
\* The states OTAHandler can leave its session in.
LEMMA SessionStates ==
  NoSession \in Session /\ Awaiting \in Session /\ Immediate \in Session
  BY DEF NoSession, Awaiting, Immediate, Session

\* A session that is told of the end of its upload is a session.
LEMMA SessionTold ==
  ASSUME session \in Session, NEW ok \in BOOLEAN, Notify(ok)
  PROVE  session' \in Session /\ pressure' = FALSE
  BY DEF Notify, Session

\* So is one whose time has come.
LEMMA SessionLate ==
  ASSUME session \in Session, TimePasses PROVE session' \in Session
  BY DEF TimePasses, Session

\* Every step leaves each variable in its type.
LEMMA TypesKept ==
  ASSUME TypeOK, [Next]_vars PROVE TypeOK'
  <1> USE SessionStates DEF vars, loopVars, sessionVars, uploadVars, firmware, TypeOK,
    NobodyUploads
  <1>1. CASE Drain
    <2>1. CASE pending /\ mode = "NORMAL"
      BY ZenonT(60), <1>1, <2>1 DEF Drain, Drains, Modes
    <2>2. CASE ~(pending /\ mode = "NORMAL")
      <3>1. /\ stage' = "handler" /\ pending' = FALSE
            /\ UNCHANGED <<mode, web, session, pressure, timedOut, uploadVars,
              firmware>>
        BY <1>1, <2>2 DEF Drain, Drains
      <3>2. QED BY ZenonT(60), <3>1
    <2>3. QED BY <2>1, <2>2
  <1>2. CASE HandleOther BY <1>2 DEF HandleOther
  <1>3. CASE GoSilent BY ZenonT(60), <1>3 DEF GoSilent, BootModes, Modes
  <1>4. CASE SessionTimesOut
    BY ZenonT(60), <1>4 DEF SessionTimesOut, InOta, LeaveOta, BootModes, Modes
  <1>5. CASE UploadFailed
    BY ZenonT(60), <1>5 DEF UploadFailed, InOta, LeaveOta, BootModes, Modes
  <1>6. CASE WaitOn BY ZenonT(60), <1>6 DEF WaitOn, InOta
  <1>7. CASE FlashBegins BY ZenonT(60), <1>7 DEF FlashBegins, InOta
  <1>8. CASE FlashFails BY ZenonT(60), <1>8 DEF FlashFails
  <1>9. CASE Flashed BY ZenonT(60), <1>9 DEF Flashed
  <1>10. CASE Extracted BY ZenonT(60), <1>10 DEF Extracted
  <1>11. CASE Reboot BY ZenonT(60), <1>11 DEF Reboot, Boots, BootModes, Modes
  <1>12. CASE TimePasses BY <1>12, SessionLate DEF TimePasses
  <1>13. CASE StartOta BY ZenonT(60), <1>13 DEF StartOta, BootModes, Modes
  <1>14. CASE Restart BY ZenonT(60), <1>14 DEF Restart, Boots, BootModes, Modes
  <1>15. ASSUME NEW c \in Clients, UploadRejected(c) PROVE TypeOK'
    BY <1>15 DEF UploadRejected, MayBegin, Crosses
  <1>16. ASSUME NEW c \in Clients, UploadRefused(c) PROVE TypeOK'
    BY <1>16 DEF UploadRefused, IndexZero, MayBegin, DeletesFile, Taken, Crosses
  <1>17. ASSUME NEW c \in Clients, UploadOpened(c) PROVE TypeOK'
    <2>1. CASE mode = "OTA_UPDATE" BY <1>17, <2>1 DEF UploadOpened, IndexZero,
      DeletesFile
    <2>2. CASE mode # "OTA_UPDATE" BY <1>17, <2>2 DEF UploadOpened, IndexZero,
      DeletesFile
    <2>3. QED BY <2>1, <2>2
  <1>18. ASSUME NEW c \in Clients, UploadCut(c) PROVE TypeOK'
    BY <1>18 DEF UploadCut, DeletesFile
  <1>19. ASSUME NEW c \in Clients, WriteFails(c) PROVE TypeOK'
    <2>1. session' \in Session /\ pressure' = FALSE BY <1>19, SessionTold DEF WriteFails
    <2>2. QED BY ZenonT(60), <1>19, <2>1 DEF WriteFails, EndsAs
  <1>20. ASSUME NEW c \in Clients, TooLarge(c) PROVE TypeOK'
    <2>1. session' \in Session /\ pressure' = FALSE BY <1>20, SessionTold DEF TooLarge
    <2>2. QED BY ZenonT(60), <1>20, <2>1 DEF TooLarge, EndsAs
  <1>21. ASSUME NEW c \in Clients, Gone(c) PROVE TypeOK'
    BY <1>21 DEF Gone
  <1>22. ASSUME NEW c \in Clients, NEW ok \in BOOLEAN, Finished(c, ok) PROVE TypeOK'
    <2>1. session' \in Session /\ pressure' = FALSE BY <1>22, SessionTold DEF Finished
    <2>2. QED BY <1>22, <2>1 DEF Finished, EndsAs
  <1>23. CASE UNCHANGED vars BY <1>23
  <1>24. QED BY <1>1, <1>2, <1>3, <1>4, <1>5, <1>6, <1>7, <1>8, <1>9, <1>10, <1>11,
    <1>12, <1>13, <1>14, <1>15, <1>16, <1>17, <1>18, <1>19, <1>20, <1>21, <1>22,
    <1>23 DEF Next, Loop, Begins

\* A step into or out of OTA_UPDATE takes its flags along.
LEMMA FlagsKept ==
  ASSUME OtaInv, [Next]_vars PROVE FlagsFit'
  <1> USE DEF vars, loopVars, sessionVars, uploadVars, firmware, OtaInv, TypeOK,
    FlagsFit, ContextHeld, UpdatesInTurn, Holds, Waits, Failed, Session, NoSession,
    Awaiting, Immediate, NobodyUploads
  <1>1. CASE Drain BY <1>1 DEF Drain, Drains
  <1>2. CASE HandleOther BY <1>2 DEF HandleOther
  <1>3. CASE GoSilent BY <1>3 DEF GoSilent
  <1>4. CASE SessionTimesOut BY <1>4 DEF SessionTimesOut, InOta, LeaveOta
  <1>5. CASE UploadFailed BY <1>5 DEF UploadFailed, InOta, LeaveOta
  <1>6. CASE WaitOn BY <1>6 DEF WaitOn, InOta
  <1>7. CASE FlashBegins BY <1>7 DEF FlashBegins, InOta
  <1>8. CASE FlashFails BY <1>8 DEF FlashFails
  <1>9. CASE Flashed BY <1>9 DEF Flashed
  <1>10. CASE Extracted BY <1>10 DEF Extracted
  <1>11. CASE Reboot BY <1>11 DEF Reboot, Boots
  <1>12. CASE TimePasses BY <1>12 DEF TimePasses
  <1>13. CASE StartOta BY <1>13 DEF StartOta
  <1>14. CASE Restart BY <1>14 DEF Restart, Boots
  <1>15. ASSUME NEW c \in Clients, UploadRejected(c) PROVE FlagsFit'
    BY <1>15 DEF UploadRejected, MayBegin, Crosses
  <1>16. ASSUME NEW c \in Clients, UploadRefused(c) PROVE FlagsFit'
    BY <1>16 DEF UploadRefused, IndexZero, MayBegin, DeletesFile, Taken, Crosses
  <1>17. ASSUME NEW c \in Clients, UploadOpened(c) PROVE FlagsFit'
    BY <1>17 DEF UploadOpened, IndexZero, MayBegin, DeletesFile, Taken, Crosses
  <1>18. ASSUME NEW c \in Clients, UploadCut(c) PROVE FlagsFit'
    BY <1>18 DEF UploadCut, DeletesFile
  <1>19. ASSUME NEW c \in Clients, WriteFails(c) PROVE FlagsFit'
    BY <1>19 DEF WriteFails, EndsAs, Notify
  <1>20. ASSUME NEW c \in Clients, TooLarge(c) PROVE FlagsFit'
    BY <1>20 DEF TooLarge, EndsAs, Notify
  <1>21. ASSUME NEW c \in Clients, Gone(c) PROVE FlagsFit'
    BY <1>21 DEF Gone
  <1>22. ASSUME NEW c \in Clients, NEW ok \in BOOLEAN, Finished(c, ok)
         PROVE FlagsFit'
    BY <1>22 DEF Finished, EndsAs, Notify
  <1>23. CASE UNCHANGED vars BY <1>23
  <1>24. QED BY <1>1, <1>2, <1>3, <1>4, <1>5, <1>6, <1>7, <1>8, <1>9, <1>10, <1>11,
    <1>12, <1>13, <1>14, <1>15, <1>16, <1>17, <1>18, <1>19, <1>20, <1>21, <1>22,
    <1>23 DEF Next, Loop, Begins

\* The context is acquired only when it is free, and released by its holder.
LEMMA ContextKept ==
  ASSUME OtaInv, [Next]_vars PROVE ContextHeld'
  <1> USE DEF vars, loopVars, sessionVars, uploadVars, firmware, OtaInv, TypeOK,
    FlagsFit, ContextHeld, UpdatesInTurn, Holds, Waits, Failed, Session, NoSession,
    Awaiting, Immediate, NobodyUploads
  <1>1. CASE Drain BY <1>1 DEF Drain, Drains
  <1>2. CASE HandleOther BY <1>2 DEF HandleOther
  <1>3. CASE GoSilent BY <1>3 DEF GoSilent
  <1>4. CASE SessionTimesOut BY <1>4 DEF SessionTimesOut, InOta, LeaveOta
  <1>5. CASE UploadFailed BY <1>5 DEF UploadFailed, InOta, LeaveOta
  <1>6. CASE WaitOn BY <1>6 DEF WaitOn, InOta
  <1>7. CASE FlashBegins BY <1>7 DEF FlashBegins, InOta
  <1>8. CASE FlashFails BY <1>8 DEF FlashFails
  <1>9. CASE Flashed BY <1>9 DEF Flashed
  <1>10. CASE Extracted BY <1>10 DEF Extracted
  <1>11. CASE Reboot BY <1>11 DEF Reboot, Boots
  <1>12. CASE TimePasses BY <1>12 DEF TimePasses
  <1>13. CASE StartOta BY <1>13 DEF StartOta
  <1>14. CASE Restart BY <1>14 DEF Restart, Boots
  <1>15. ASSUME NEW c \in Clients, UploadRejected(c) PROVE ContextHeld'
    BY <1>15 DEF UploadRejected, MayBegin, Crosses
  <1>16. ASSUME NEW c \in Clients, UploadRefused(c) PROVE ContextHeld'
    BY <1>16 DEF UploadRefused, IndexZero, MayBegin, DeletesFile, Taken, Crosses
  <1>17. ASSUME NEW c \in Clients, UploadOpened(c) PROVE ContextHeld'
    BY <1>17 DEF UploadOpened, IndexZero, MayBegin, DeletesFile, Taken, Crosses
  <1>18. ASSUME NEW c \in Clients, UploadCut(c) PROVE ContextHeld'
    BY <1>18 DEF UploadCut, DeletesFile
  <1>19. ASSUME NEW c \in Clients, WriteFails(c) PROVE ContextHeld'
    BY <1>19 DEF WriteFails, EndsAs, Notify
  <1>20. ASSUME NEW c \in Clients, TooLarge(c) PROVE ContextHeld'
    BY <1>20 DEF TooLarge, EndsAs, Notify
  <1>21. ASSUME NEW c \in Clients, Gone(c) PROVE ContextHeld'
    BY <1>21 DEF Gone
  <1>22. ASSUME NEW c \in Clients, NEW ok \in BOOLEAN, Finished(c, ok)
         PROVE ContextHeld'
    BY <1>22 DEF Finished, EndsAs, Notify
  <1>23. CASE UNCHANGED vars BY <1>23
  <1>24. QED BY <1>1, <1>2, <1>3, <1>4, <1>5, <1>6, <1>7, <1>8, <1>9, <1>10, <1>11,
    <1>12, <1>13, <1>14, <1>15, <1>16, <1>17, <1>18, <1>19, <1>20, <1>21, <1>22,
    <1>23 DEF Next, Loop, Begins

\* What an update relies on is disturbed only by a step that crosses it.
LEMMA TurnsKept ==
  ASSUME OtaInv, [Next]_vars PROVE UpdatesInTurn'
  <1> USE DEF vars, loopVars, sessionVars, uploadVars, firmware, OtaInv, TypeOK,
    FlagsFit, ContextHeld, UpdatesInTurn, Holds, Waits, Failed, Session, NoSession,
    Awaiting, Immediate, NobodyUploads
  <1>1. CASE Drain BY <1>1 DEF Drain, Drains
  <1>2. CASE HandleOther BY <1>2 DEF HandleOther
  <1>3. CASE GoSilent BY <1>3 DEF GoSilent
  <1>4. CASE SessionTimesOut BY <1>4 DEF SessionTimesOut, InOta, LeaveOta
  <1>5. CASE UploadFailed BY <1>5 DEF UploadFailed, InOta, LeaveOta
  <1>6. CASE WaitOn BY <1>6 DEF WaitOn, InOta
  <1>7. CASE FlashBegins BY <1>7 DEF FlashBegins, InOta
  <1>8. CASE FlashFails BY <1>8 DEF FlashFails
  <1>9. CASE Flashed BY <1>9 DEF Flashed
  <1>10. CASE Extracted BY <1>10 DEF Extracted
  <1>11. CASE Reboot BY <1>11 DEF Reboot, Boots
  <1>12. CASE TimePasses BY <1>12 DEF TimePasses
  <1>13. ASSUME StartOta, ~crossed' PROVE UpdatesInTurn'
    <2> USE <1>13 DEF StartOta
    <2>1. ~crossed /\ up = NobodyUploads /\ up' = up OBVIOUS
    <2>2. \A c \in Clients : up'[c] = "idle" BY <2>1
    <2>3. session'.done /\ session'.ok /\ bin' OBVIOUS
    <2>4. QED BY <2>1, <2>2, <2>3
  <1>14. CASE Restart BY <1>14 DEF Restart, Boots
  <1>15. ASSUME NEW c \in Clients, UploadRejected(c) PROVE UpdatesInTurn'
    BY <1>15 DEF UploadRejected, MayBegin, Crosses
  <1>16. ASSUME NEW c \in Clients, UploadRefused(c) PROVE UpdatesInTurn'
    BY <1>16 DEF UploadRefused, IndexZero, MayBegin, DeletesFile, Taken, Crosses
  <1>17. ASSUME NEW c \in Clients, UploadOpened(c) PROVE UpdatesInTurn'
    BY ZenonT(60), <1>17 DEF UploadOpened, IndexZero, MayBegin, DeletesFile, Taken, Crosses
  <1>18. ASSUME NEW c \in Clients, UploadCut(c) PROVE UpdatesInTurn'
    BY <1>18 DEF UploadCut, DeletesFile
  <1>19. ASSUME NEW c \in Clients, WriteFails(c) PROVE UpdatesInTurn'
    BY <1>19 DEF WriteFails, EndsAs, Notify
  <1>20. ASSUME NEW c \in Clients, TooLarge(c) PROVE UpdatesInTurn'
    BY <1>20 DEF TooLarge, EndsAs, Notify
  <1>21. ASSUME NEW c \in Clients, Gone(c) PROVE UpdatesInTurn'
    BY <1>21 DEF Gone
  <1>22. ASSUME NEW c \in Clients, NEW ok \in BOOLEAN, Finished(c, ok)
         PROVE UpdatesInTurn'
    BY <1>22 DEF Finished, EndsAs, Notify
  <1>23. CASE UNCHANGED vars BY <1>23
  <1>24. QED BY <1>1, <1>2, <1>3, <1>4, <1>5, <1>6, <1>7, <1>8, <1>9, <1>10, <1>11,
    <1>12, <1>13, <1>14, <1>15, <1>16, <1>17, <1>18, <1>19, <1>20, <1>21, <1>22,
    <1>23 DEF Next, Loop, Begins

\* A session that ends by timeout raises the flag for its upload.
LEMMA ExpiryKept ==
  ASSUME OtaInv, ExpiredIsCutOff, [Next]_vars PROVE ExpiredIsCutOff'
  <1> USE DEF vars, loopVars, sessionVars, uploadVars, firmware, OtaInv, TypeOK,
    FlagsFit, ContextHeld, UpdatesInTurn, Holds, Waits, Failed, Session, NoSession,
    Awaiting, Immediate, NobodyUploads, ExpiredIsCutOff
  <1>1. CASE Drain BY <1>1 DEF Drain, Drains
  <1>2. CASE HandleOther BY <1>2 DEF HandleOther
  <1>3. CASE GoSilent BY <1>3 DEF GoSilent
  <1>4. CASE SessionTimesOut BY <1>4 DEF SessionTimesOut, InOta, LeaveOta
  <1>5. CASE UploadFailed BY <1>5 DEF UploadFailed, InOta, LeaveOta
  <1>6. CASE WaitOn BY <1>6 DEF WaitOn, InOta
  <1>7. CASE FlashBegins BY <1>7 DEF FlashBegins, InOta
  <1>8. CASE FlashFails BY <1>8 DEF FlashFails
  <1>9. CASE Flashed BY <1>9 DEF Flashed
  <1>10. CASE Extracted BY <1>10 DEF Extracted
  <1>11. CASE Reboot BY <1>11 DEF Reboot, Boots
  <1>12. CASE TimePasses BY <1>12 DEF TimePasses
  <1>13. CASE StartOta BY <1>13 DEF StartOta
  <1>14. CASE Restart BY <1>14 DEF Restart, Boots
  <1>15. ASSUME NEW c \in Clients, UploadRejected(c) PROVE ExpiredIsCutOff'
    BY <1>15 DEF UploadRejected, MayBegin, Crosses
  <1>16. ASSUME NEW c \in Clients, UploadRefused(c) PROVE ExpiredIsCutOff'
    BY <1>16 DEF UploadRefused, IndexZero, MayBegin, DeletesFile, Taken, Crosses
  <1>17. ASSUME NEW c \in Clients, UploadOpened(c) PROVE ExpiredIsCutOff'
    BY <1>17 DEF UploadOpened, IndexZero, MayBegin, DeletesFile, Taken, Crosses
  <1>18. ASSUME NEW c \in Clients, UploadCut(c) PROVE ExpiredIsCutOff'
    BY <1>18 DEF UploadCut, DeletesFile
  <1>19. ASSUME NEW c \in Clients, WriteFails(c) PROVE ExpiredIsCutOff'
    BY <1>19 DEF WriteFails, EndsAs, Notify
  <1>20. ASSUME NEW c \in Clients, TooLarge(c) PROVE ExpiredIsCutOff'
    BY <1>20 DEF TooLarge, EndsAs, Notify
  <1>21. ASSUME NEW c \in Clients, Gone(c) PROVE ExpiredIsCutOff'
    BY <1>21 DEF Gone
  <1>22. ASSUME NEW c \in Clients, NEW ok \in BOOLEAN, Finished(c, ok)
         PROVE ExpiredIsCutOff'
    BY <1>22 DEF Finished, EndsAs, Notify
  <1>23. CASE UNCHANGED vars BY <1>23
  <1>24. QED BY <1>1, <1>2, <1>3, <1>4, <1>5, <1>6, <1>7, <1>8, <1>9, <1>10, <1>11,
    <1>12, <1>13, <1>14, <1>15, <1>16, <1>17, <1>18, <1>19, <1>20, <1>21, <1>22,
    <1>23 DEF Next, Loop, Begins

\* Pressure is lifted by whatever ends its upload or its session.
LEMMA PressureKept ==
  ASSUME OtaInv, PressureHasUpload, [Next]_vars PROVE PressureHasUpload'
  <1> USE DEF vars, loopVars, sessionVars, uploadVars, firmware, OtaInv, TypeOK,
    FlagsFit, ContextHeld, UpdatesInTurn, Holds, Waits, Failed, Session, NoSession,
    Awaiting, Immediate, NobodyUploads, PressureHasUpload, Leaked
  <1>1. CASE Drain BY <1>1 DEF Drain, Drains
  <1>2. CASE HandleOther BY <1>2 DEF HandleOther
  <1>3. CASE GoSilent BY <1>3 DEF GoSilent
  <1>4. CASE SessionTimesOut BY <1>4 DEF SessionTimesOut, InOta, LeaveOta
  <1>5. CASE UploadFailed BY <1>5 DEF UploadFailed, InOta, LeaveOta
  <1>6. CASE WaitOn BY <1>6 DEF WaitOn, InOta
  <1>7. CASE FlashBegins BY <1>7 DEF FlashBegins, InOta
  <1>8. CASE FlashFails BY <1>8 DEF FlashFails
  <1>9. CASE Flashed BY <1>9 DEF Flashed
  <1>10. CASE Extracted BY <1>10 DEF Extracted
  <1>11. CASE Reboot BY <1>11 DEF Reboot, Boots
  <1>12. CASE TimePasses BY <1>12 DEF TimePasses
  <1>13. CASE StartOta BY <1>13 DEF StartOta
  <1>14. CASE Restart BY <1>14 DEF Restart, Boots
  <1>15. ASSUME NEW c \in Clients, UploadRejected(c) PROVE PressureHasUpload'
    BY <1>15 DEF UploadRejected, MayBegin, Crosses
  <1>16. ASSUME NEW c \in Clients, UploadRefused(c) PROVE PressureHasUpload'
    BY <1>16 DEF UploadRefused, IndexZero, MayBegin, DeletesFile, Taken, Crosses
  <1>17. ASSUME NEW c \in Clients, UploadOpened(c) PROVE PressureHasUpload'
    BY <1>17 DEF UploadOpened, IndexZero, MayBegin, DeletesFile, Taken, Crosses
  <1>18. ASSUME NEW c \in Clients, UploadCut(c) PROVE PressureHasUpload'
    BY <1>18 DEF UploadCut, DeletesFile
  <1>19. ASSUME NEW c \in Clients, WriteFails(c) PROVE PressureHasUpload'
    BY <1>19 DEF WriteFails, EndsAs, Notify
  <1>20. ASSUME NEW c \in Clients, TooLarge(c) PROVE PressureHasUpload'
    BY <1>20 DEF TooLarge, EndsAs, Notify
  <1>21. ASSUME NEW c \in Clients, Gone(c) PROVE PressureHasUpload'
    BY <1>21 DEF Gone
  <1>22. ASSUME NEW c \in Clients, NEW ok \in BOOLEAN, Finished(c, ok)
         PROVE PressureHasUpload'
    BY <1>22 DEF Finished, EndsAs, Notify
  <1>23. CASE UNCHANGED vars BY <1>23
  <1>24. QED BY <1>1, <1>2, <1>3, <1>4, <1>5, <1>6, <1>7, <1>8, <1>9, <1>10, <1>11,
    <1>12, <1>13, <1>14, <1>15, <1>16, <1>17, <1>18, <1>19, <1>20, <1>21, <1>22,
    <1>23 DEF Next, Loop, Begins

-----------------------------------------------------------------------------
\* Nothing is under way when the firmware starts.
LEMMA InitFits == Init => OtaInv /\ ExpiredIsCutOff /\ PressureHasUpload
  <1> USE SessionStates DEF Init, NobodyUploads
  <1>1. Init => TypeOK BY DEF TypeOK, BootModes, Modes
  <1>2. Init => FlagsFit /\ ContextHeld BY DEF FlagsFit, ContextHeld, Holds, BootModes
  <1>3. Init => UpdatesInTurn BY DEF UpdatesInTurn, BootModes
  <1>4. Init => ExpiredIsCutOff /\ PressureHasUpload
    BY DEF ExpiredIsCutOff, PressureHasUpload
  <1>5. QED BY <1>1, <1>2, <1>3, <1>4 DEF OtaInv

\* One update at a time is safe: the context has one owner, a session that was
\* told of success has its file, and the firmware that runs is what a client
\* sent, unless an upload crosses another update.
THEOREM OtaSafe == Spec => []OtaInv
  <1>1. Init => OtaInv BY InitFits
  <1>2. OtaInv /\ [Next]_vars => OtaInv'
    BY TypesKept, FlagsKept, ContextKept, TurnsKept DEF OtaInv
  <1>3. QED BY <1>1, <1>2, PTL DEF Spec

\* In particular, updates that do not cross flash what a client sent.
THEOREM UpdatesTakeTurns == Spec => []UpdatesInTurn
  <1>1. OtaInv => UpdatesInTurn BY DEF OtaInv
  <1>2. QED BY <1>1, OtaSafe, PTL

\* An upload whose session timed out is cut off at its next piece.
THEOREM ExpiredUploadsEnd == Spec => []ExpiredIsCutOff
  <1>1. Init => ExpiredIsCutOff BY InitFits
  <1>2. OtaInv /\ ExpiredIsCutOff /\ [Next]_vars => ExpiredIsCutOff' BY ExpiryKept
  <1>3. QED BY <1>1, <1>2, OtaSafe, PTL DEF Spec

\* The modem is kept down only for an upload, or one that lost its connection.
THEOREM PressureIsLifted == Spec => []PressureHasUpload
  <1>1. Init => PressureHasUpload BY InitFits
  <1>2. OtaInv /\ PressureHasUpload /\ [Next]_vars => PressureHasUpload'
    BY PressureKept
  <1>3. QED BY <1>1, <1>2, OtaSafe, PTL DEF Spec

\* The upload context is lost only with a connection or after a failed write.
LEMMA LeakNeedsLoss ==
  ASSUME OtaInv, [Next]_vars, Leaked', ~Leaked
  PROVE  ~web' \/ \E c \in Clients : Holds(c) /\ Gone(c)
  <1> USE DEF vars, loopVars, sessionVars, uploadVars, firmware, OtaInv, TypeOK,
    ContextHeld, Leaked, Holds, NobodyUploads
  <1>1. ~Drain BY DEF Drain, Drains
  <1>2. ~HandleOther BY DEF HandleOther
  <1>3. CASE GoSilent BY <1>3 DEF GoSilent
  <1>4. ~SessionTimesOut BY DEF SessionTimesOut, InOta, LeaveOta
  <1>5. ~UploadFailed BY DEF UploadFailed, InOta, LeaveOta
  <1>6. ~WaitOn BY DEF WaitOn, InOta
  <1>7. ~FlashBegins BY DEF FlashBegins, InOta
  <1>8. ~FlashFails BY DEF FlashFails
  <1>9. ~Flashed BY DEF Flashed
  <1>10. ~Extracted BY DEF Extracted
  <1>11. ~Reboot BY DEF Reboot, Boots
  <1>12. ~TimePasses BY DEF TimePasses
  <1>13. CASE StartOta BY <1>13 DEF StartOta
  <1>14. ~Restart BY DEF Restart, Boots
  <1>15. \A c \in Clients : ~UploadRejected(c) BY DEF UploadRejected, MayBegin, Crosses
  <1>16. \A c \in Clients : ~UploadRefused(c) BY DEF UploadRefused, IndexZero, MayBegin,
    DeletesFile, Taken, Crosses
  <1>17. \A c \in Clients : ~UploadOpened(c) BY DEF UploadOpened, IndexZero, MayBegin,
    DeletesFile, Taken, Crosses
  <1>18. \A c \in Clients : ~UploadCut(c) BY DEF UploadCut, DeletesFile
  <1>19. \A c \in Clients : ~WriteFails(c) BY DEF WriteFails, EndsAs, Notify
  <1>20. \A c \in Clients : ~TooLarge(c) BY DEF TooLarge, EndsAs, Notify
  <1>21. \A c \in Clients : Gone(c) => Holds(c) BY DEF Gone
  <1>22. \A c \in Clients, ok \in BOOLEAN : ~Finished(c, ok) BY DEF Finished, EndsAs,
    Notify
  <1>23. ~UNCHANGED vars OBVIOUS
  <1>24. QED BY <1>1, <1>2, <1>3, <1>4, <1>5, <1>6, <1>7, <1>8, <1>9, <1>10, <1>11,
    <1>12, <1>13, <1>14, <1>15, <1>16, <1>17, <1>18, <1>19, <1>20, <1>21, <1>22,
    <1>23 DEF Next, Loop, Begins

\* The upload context comes back on every other way an upload can end.
THEOREM ContextComesBack == Spec => OnlyLostLeaks
  <1>1. OtaInv /\ [Next]_vars =>
          [Leaked' /\ ~Leaked => ~web' \/ \E c \in Clients : Holds(c) /\ Gone(c)]_vars
    BY LeakNeedsLoss
  <1>2. QED BY <1>1, OtaSafe, PTL DEF Spec, OnlyLostLeaks

-----------------------------------------------------------------------------
\* Who has an access point, and that a session waits for an upload only with one.
AccessPoint ==
  /\ mode = "NORMAL" => web
  /\ mode = "NORMAL_SILENT" => ~web
  /\ mode = "OTA_UPDATE" /\ session.await => web

\* A step that changes neither the mode nor the access point is a stutter, as long as
\* no session begins to wait.
LEMMA OthersKeepModes ==
  ASSUME AccessPoint, mode' = mode, web' = web,
         mode = "OTA_UPDATE" /\ session'.await => web \/ session.await
  PROVE  AccessPoint' /\ UNCHANGED Promise!modeVars
  BY DEF AccessPoint, Promise!modeVars, fit

\* The end of an upload does not make its session wait.
LEMMA ToldWaits ==
  ASSUME session \in Session, NEW ok \in BOOLEAN, Notify(ok)
  PROVE  session'.await = session.await
  BY DEF Notify, Session

\* The callbacks of uploads, the flashing and time keep the modes.
LEMMA CallbacksKeepModes ==
  ASSUME OtaInv, AccessPoint,
         \/ HandleOther \/ WaitOn \/ FlashBegins \/ FlashFails \/ Flashed \/ Extracted
         \/ TimePasses
         \/ \E c \in Clients :
              \/ Begins(c) \/ UploadCut(c) \/ WriteFails(c) \/ TooLarge(c) \/ Gone(c)
              \/ \E ok \in BOOLEAN : Finished(c, ok)
  PROVE  AccessPoint' /\ UNCHANGED Promise!modeVars
  <1>1. session \in Session BY DEF OtaInv, TypeOK
  <1>2. CASE HandleOther \/ WaitOn \/ FlashBegins \/ FlashFails \/ Flashed \/ Extracted
    <2>1. UNCHANGED <<mode, web, session>>
      BY <1>2 DEF HandleOther, WaitOn, FlashBegins, FlashFails, Flashed, Extracted,
        sessionVars
    <2>2. QED BY <2>1, OthersKeepModes
  <1>3. CASE TimePasses
    <2>1. UNCHANGED <<mode, web>> /\ session'.await = session.await
      BY <1>1, <1>3 DEF TimePasses, loopVars, Session
    <2>2. QED BY <2>1, OthersKeepModes
  <1>4. ASSUME NEW c \in Clients,
               UploadRejected(c) \/ UploadRefused(c) \/ UploadCut(c) \/ Gone(c)
        PROVE  UNCHANGED <<mode, web, session>>
    BY <1>4 DEF UploadRejected, UploadRefused, UploadCut, Gone, IndexZero, loopVars,
      sessionVars
  <1>5. ASSUME NEW c \in Clients, UploadOpened(c) PROVE UNCHANGED <<mode, web>> /\ web
    BY <1>5 DEF UploadOpened, IndexZero, MayBegin, loopVars
  <1>6. ASSUME NEW c \in Clients,
               \/ WriteFails(c) \/ TooLarge(c)
               \/ \E ok \in BOOLEAN : Finished(c, ok)
        PROVE  UNCHANGED <<mode, web>> /\ session'.await = session.await
    <2>1. UNCHANGED <<mode, web>>
      BY <1>6 DEF WriteFails, TooLarge, Finished, EndsAs, loopVars
    <2>2. \E ok \in BOOLEAN : Notify(ok) BY <1>6 DEF WriteFails, TooLarge, Finished
    <2>3. QED BY <1>1, <2>1, <2>2, ToldWaits
  <1>7. QED BY <1>2, <1>3, <1>4, <1>5, <1>6, OthersKeepModes DEF Begins

\* A new session waits for nobody, or for an upload.
LEMMA NewSessions == ~NoSession.await /\ Awaiting.await /\ ~Immediate.await
  BY DEF NoSession, Awaiting, Immediate

\* The steps that change the mode do as ModePromise says.
LEMMA SwitchesKeepPromise ==
  ASSUME OtaInv, AccessPoint,
         \/ Drain \/ GoSilent \/ SessionTimesOut \/ UploadFailed \/ Reboot \/ StartOta
         \/ Restart
  PROVE  AccessPoint' /\ [Promise!Next]_(Promise!modeVars)
  <1> USE NewSessions DEF AccessPoint, fit
  <1>1. CASE Drain
    <2>1. CASE Drains
      <3>1. /\ mode = "NORMAL" /\ mode' = "OTA_UPDATE" /\ web' = web
            /\ session' = Awaiting
        BY <1>1, <2>1 DEF Drain, Drains
      <3>2. Promise!UpdateBegins BY <3>1 DEF Promise!UpdateBegins
      <3>3. QED BY <3>1, <3>2 DEF Promise!Next
    <2>2. CASE ~Drains
      <3>1. UNCHANGED <<mode, web, session>> BY <1>1, <2>2 DEF Drain
      <3>2. QED BY <3>1, OthersKeepModes
    <2>3. QED BY <2>1, <2>2
  <1>2. CASE GoSilent
    <2>1. mode = "NORMAL" /\ mode' = "NORMAL_SILENT" /\ ~web' BY <1>2 DEF GoSilent
    <2>2. Promise!Silence BY <2>1 DEF Promise!Silence
    <2>3. QED BY <2>1, <2>2 DEF Promise!Next
  <1>3. CASE SessionTimesOut \/ UploadFailed
    <2>1. mode = "OTA_UPDATE" /\ session.await /\ mode' = "NORMAL" /\ web' = TRUE
      BY <1>3 DEF SessionTimesOut, UploadFailed, InOta, Waits, Failed, LeaveOta
    <2>2. Promise!UpdateGivenUp BY <2>1 DEF Promise!UpdateGivenUp
    <2>3. QED BY <2>1, <2>2 DEF Promise!Next
  <1>4. CASE Reboot \/ Restart
    <2>1. mode' \in BootModes /\ web' = TRUE BY <1>4 DEF Reboot, Restart, Boots
    <2>2. Promise!Boots BY <2>1 DEF BootModes, Promise!Boots
    <2>3. QED BY <2>1, <2>2 DEF Promise!Next, BootModes
  <1>5. CASE StartOta
    <2>1. /\ web /\ mode' = "OTA_UPDATE" /\ session' = Immediate
          /\ web' = (mode # "SETUP_AP")
      BY <1>5 DEF StartOta
    <2>2. CASE mode = "OTA_UPDATE"
      <3>1. UNCHANGED Promise!modeVars BY <2>1, <2>2 DEF Promise!modeVars
      <3>2. QED BY <2>1, <3>1
    <2>3. CASE mode \in {"SETUP_AP", "NORMAL"}
      <3>1. Promise!UpdateBegins BY <2>1, <2>3 DEF Promise!UpdateBegins
      <3>2. QED BY <2>1, <3>1 DEF Promise!Next
    <2>4. mode \in Modes BY DEF OtaInv, TypeOK
    <2>5. QED BY <2>1, <2>2, <2>3, <2>4 DEF Modes, BootModes
  <1>6. QED BY <1>1, <1>2, <1>3, <1>4, <1>5

\* An update that began in SETUP_AP or EMERGENCY_AP ends in a restart only, whatever
\* uploads, sessions and requests come between: the modes keep their promise.
THEOREM UpdatesKeepModes == Spec => UpdateKeepsModes
  <1>1. Init => AccessPoint /\ Promise!Init
    BY NewSessions DEF Init, AccessPoint, BootModes, Promise!Init, fit
  <1>2. OtaInv /\ AccessPoint /\ [Next]_vars =>
          AccessPoint' /\ [Promise!Next]_(Promise!modeVars)
    <2>1. CASE UNCHANGED vars
      BY <2>1, OthersKeepModes DEF vars, loopVars, sessionVars
    <2>2. QED BY <2>1, CallbacksKeepModes, SwitchesKeepPromise DEF Next, Loop
  <1>3. QED BY <1>1, <1>2, OtaSafe, PTL DEF Spec, UpdateKeepsModes, Promise!Spec

====
