--------------------------- MODULE GsmLinkProofs ---------------------------
(***************************************************************************)
(* Proofs about GsmLink, for any number of tries and any threshold.        *)
(***************************************************************************)
EXTENDS GsmLink, TLAPS

\* The properties are not inductive as they stand: a reattach leaves READY for
\* the bring-up with the counter it finds there.
LinkInv ==
  /\ LinkTypeOK /\ RetryBudget /\ AnswersHaveDeadline
  /\ state = "READY" => retry < MAX_RETRIES

-----------------------------------------------------------------------------
\* Every operation on a waiter gives a waiter, and none but a command and a
\* change of state changes what is awaited.
LEMMA WaiterKept ==
  ASSUME NEW w \in Waiter
  PROVE  /\ NoAwait \in Waiter /\ NoAwait.kind = "NONE"
         /\ \A k \in AwaitKinds : Awaits(k) \in Waiter /\ Awaits(k).kind = k
         /\ \A l : HearsLine(w, l) \in Waiter /\ HearsLine(w, l).kind = w.kind
         /\ \A res : Absorbs(w, res) \in Waiter /\ Absorbs(w, res).kind = w.kind
         /\ PassesDeadline(w) \in Waiter /\ PassesDeadline(w).kind = w.kind
  <1>1. NoAwait \in Waiter /\ NoAwait.kind = "NONE" BY DEF NoAwait, Waiter, AwaitKinds
  <1>2. \A k \in AwaitKinds : Awaits(k) \in Waiter /\ Awaits(k).kind = k
    BY <1>1 DEF Awaits, NoAwait, Waiter
  <1>3. ASSUME NEW l PROVE HearsLine(w, l) \in Waiter /\ HearsLine(w, l).kind = w.kind
    BY ZenonT(60) DEF HearsLine, Waiter
  <1>4. ASSUME NEW res PROVE Absorbs(w, res) \in Waiter /\ Absorbs(w, res).kind = w.kind
    BY DEF Absorbs, Waiter
  <1>5. PassesDeadline(w) \in Waiter /\ PassesDeadline(w).kind = w.kind
    BY DEF PassesDeadline, Waiter
  <1>6. QED BY <1>1, <1>2, <1>3, <1>4, <1>5

\* Requests of READY keep their types whatever they are made of.
LEMMA Counted ==
  ASSUME NEW r \in Requests, NEW young \in BOOLEAN, req = r
  PROVE  /\ Streak(young) \in Nat
         /\ ~Enough(Streak(young)) => Streak(young) \in 0..TCP_CLOSED_REATTACH_THRESHOLD
  BY LinkAssumption DEF Requests, Streak, Enough

-----------------------------------------------------------------------------
\* The initial state satisfies the invariant.
LEMMA LinkInvInit == Init => LinkInv
  <1> USE LinkAssumption
  <1> SUFFICES ASSUME Init PROVE LinkInv OBVIOUS
  <1>1. aw \in Waiter BY DEF Init, NoAwait, Waiter, AwaitKinds
  <1>2. req \in Requests /\ req.rebootStep = 0 BY DEF Init, NoRequests, Requests
  <1>3. rec \in Recovery BY DEF Init, Recovery
  <1>4. state = "IDLE" /\ state \in GSMState /\ state \notin BringupStates
    BY DEF Init, GSMState, BringupStates
  <1>5. sent \in BOOLEAN /\ creg \in BOOLEAN BY Zenon DEF Init
  <1>6. retry \in 0..MAX_RETRIES /\ apnStep \in 0..3 BY DEF Init
  <1>7. QED BY <1>1, <1>2, <1>3, <1>4, <1>5, <1>6
    DEF LinkInv, LinkTypeOK, RetryBudget, AnswersHaveDeadline

\* What every way into a state of the bring-up has in common.
LEMMA Entered ==
  ASSUME LinkTypeOK, NEW s \in GSMState, Enter(s), retry' \in 0..MAX_RETRIES,
         s \in BringupStates \cup {"READY"} => retry' < MAX_RETRIES,
         UNCHANGED <<creg, apnStep, rec, req>>
  PROVE  LinkInv'
  BY WaiterKept DEF Enter, LinkInv, LinkTypeOK, RetryBudget, AnswersHaveDeadline, BringupStates

\* A try that fails is followed by another one while there are any.
LEMMA Retried ==
  ASSUME LinkInv, state \in BringupStates, NEW kind \in AwaitKinds \ {"NONE"}, Retry(kind),
         UNCHANGED <<creg, apnStep, rec, req>>
  PROVE  LinkInv'
  <1> USE LinkAssumption DEF LinkInv, LinkTypeOK, RetryBudget, AnswersHaveDeadline,
        BringupStates, GSMState
  <1>1. retry' \in 0..MAX_RETRIES /\ retry' = retry + 1 BY DEF Retry
  <1>2. CASE GivesUp BY <1>1, <1>2, Entered DEF Retry
  <1>3. CASE ~GivesUp
    <2>1. aw' = Awaits(kind) /\ sent' = TRUE /\ state' = state
      BY <1>3 DEF Retry, Send
    <2>2. retry' < MAX_RETRIES BY <1>1, <1>3 DEF GivesUp
    <2>3. QED BY <1>1, <2>1, <2>2, WaiterKept
  <1>4. QED BY <1>2, <1>3

\* A command goes out and nothing else changes.
LEMMA CommandSent ==
  ASSUME LinkInv, NEW kind \in AwaitKinds \ {"NONE"}, Send(kind), Stays,
         apnStep' \in 0..3, UNCHANGED <<creg, rec, req>>
  PROVE  LinkInv'
  BY WaiterKept DEF Send, Stays, LinkInv, LinkTypeOK, RetryBudget, AnswersHaveDeadline

\* Every step keeps the invariant.
LEMMA LinkInvNext == LinkInv /\ [Next]_vars => LinkInv'
  <1> SUFFICES ASSUME LinkInv, [Next]_vars PROVE LinkInv' OBVIOUS
  <1> USE LinkAssumption DEF LinkInv, LinkTypeOK
  <1>1. CASE Begin
    <2>1. rec' \in Recovery BY <1>1 DEF Begin, Recovery
    <2>2. QED BY <1>1, <2>1, WaiterKept
      DEF Begin, Enter, RetryBudget, AnswersHaveDeadline, BringupStates, GSMState
  <1>2. CASE Stop
    <2>1. rec' \in Recovery BY <1>2 DEF Stop, Recovery
    <2>2. retry' \in 0..MAX_RETRIES BY <1>2 DEF Stop
    <2>3. /\ state' = "IDLE" /\ sent' = FALSE /\ aw' = NoAwait
          /\ UNCHANGED <<creg, apnStep, req>>
      BY <1>2 DEF Stop, Enter
    <2>4. QED BY <2>1, <2>2, <2>3, WaiterKept
      DEF RetryBudget, AnswersHaveDeadline, BringupStates, GSMState
  <1>3. CASE RequestReattach
    <2>1. req' \in Requests /\ (req'.rebootStep = 1 => req'.reboot)
      BY <1>3 DEF RequestReattach, Asks, Requests
    <2>2. QED BY <1>3, <2>1
      DEF RequestReattach, Asks, ctl, RetryBudget, AnswersHaveDeadline
  <1>4. CASE RequestModemReboot
    <2>1. req' \in Requests /\ (req'.rebootStep = 1 => req'.reboot)
      BY <1>4 DEF RequestModemReboot, Asks, Requests
    <2>2. QED BY <1>4, <2>1
      DEF RequestModemReboot, Asks, ctl, RetryBudget, AnswersHaveDeadline
  <1>5. ASSUME EntersReady, UNCHANGED <<creg, apnStep, rec>> PROVE LinkInv'
    <2>1. req' \in Requests /\ (req'.rebootStep = 1 => req'.reboot)
      BY <1>5 DEF EntersReady, Requests
    <2>2. QED BY <1>5, <2>1, WaiterKept
      DEF EntersReady, RetryBudget, AnswersHaveDeadline, BringupStates, GSMState
  <1>6. CASE InitEnds
    <2>1. UNCHANGED <<creg, apnStep, rec>> BY <1>6 DEF InitEnds, SameLink
    <2>2. CASE EntersReady BY <1>5, <2>1, <2>2
    <2>3. ASSUME NEW s \in {"REGISTERING", "GPRS_SETUP"}, Enter(s), retry' = 0, UNCHANGED req
          PROVE LinkInv'
      BY <2>1, <2>3, Entered DEF GSMState, BringupStates
    <2>4. QED BY <1>6, <2>2, <2>3 DEF InitEnds
  <1>7. CASE Registering
    <2>1. state \in BringupStates /\ UNCHANGED <<creg, apnStep, rec, req>>
      BY <1>7 DEF Registering, SameLink, BringupStates
    <2>2. CASE Onward("GPRS_SETUP")
      BY <2>1, <2>2, Entered DEF Onward, GSMState, BringupStates
    <2>3. CASE Send("CREG") /\ Stays BY <2>1, <2>3, CommandSent DEF AwaitKinds
    <2>4. CASE Retry("CREG") BY <2>1, <2>4, Retried DEF AwaitKinds
    <2>5. QED BY <1>7, <2>2, <2>3, <2>4 DEF Registering
  <1>8. CASE GprsSetup
    <2>1. state \in BringupStates /\ UNCHANGED <<creg, rec, req>>
      BY <1>8 DEF GprsSetup, SameLink, BringupStates
    <2>2. CASE apnStep' \in 0..3 /\ Send("OK") /\ Stays
      BY <2>1, <2>2, CommandSent DEF AwaitKinds
    <2>3. CASE /\ retry' = retry + 1 /\ UNCHANGED apnStep
               /\ IF GivesUp THEN Enter("ERROR") ELSE StartsOver /\ UNCHANGED state
      <3>1. retry' \in 0..MAX_RETRIES BY <2>1, <2>3 DEF RetryBudget
      <3>2. CASE GivesUp
        BY <2>1, <2>3, <3>1, <3>2, Entered DEF GSMState, BringupStates
      <3>3. CASE ~GivesUp
        <4>1. retry' < MAX_RETRIES BY <2>1, <2>3, <3>3 DEF RetryBudget, GivesUp
        <4>2. QED BY <2>1, <2>3, <3>1, <3>3, <4>1, WaiterKept
          DEF StartsOver, RetryBudget, AnswersHaveDeadline
      <3>4. QED BY <3>2, <3>3
    <2>4. CASE apnStep' = 3 /\ Onward("GPRS_ATTACH")
      <3>1. retry' \in 0..MAX_RETRIES /\ retry' < MAX_RETRIES /\ apnStep' \in 0..3
        BY <2>4 DEF Onward
      <3>2. state' = "GPRS_ATTACH" /\ sent' = FALSE /\ aw' = NoAwait
        BY <2>4 DEF Onward, Enter
      <3>3. QED BY <2>1, <3>1, <3>2, WaiterKept
        DEF RetryBudget, AnswersHaveDeadline, GSMState, BringupStates
    <2>5. 0 \in 0..3 /\ (apnStep < LastApnStep => apnStep + 1 \in 0..3)
      BY DEF LastApnStep
    <2>6. QED BY <1>8, <2>2, <2>3, <2>4, <2>5 DEF GprsSetup
  <1>9. CASE GprsAttach
    <2>1. state \in BringupStates /\ UNCHANGED <<creg, apnStep, rec, req>>
      BY <1>9 DEF GprsAttach, SameLink, BringupStates
    <2>2. CASE Send("OK") /\ Stays BY <2>1, <2>2, CommandSent DEF AwaitKinds
    <2>3. CASE Retry("OK") BY <2>1, <2>3, Retried DEF AwaitKinds
    <2>4. CASE Onward("GPRS_GETIP")
      BY <2>1, <2>4, Entered DEF Onward, GSMState, BringupStates
    <2>5. QED BY <1>9, <2>2, <2>3, <2>4 DEF GprsAttach
  <1>10. CASE GprsGetIp
    <2>1. state \in BringupStates /\ UNCHANGED <<creg, apnStep, rec>>
      BY <1>10 DEF GprsGetIp, SameLink, BringupStates
    <2>2. CASE Send("IP") /\ Stays /\ UNCHANGED req
      BY <2>1, <2>2, CommandSent DEF AwaitKinds
    <2>3. CASE Retry("IP") /\ UNCHANGED req BY <2>1, <2>3, Retried DEF AwaitKinds
    <2>4. CASE EntersReady BY <1>5, <2>1, <2>4
    <2>5. QED BY <1>10, <2>2, <2>3, <2>4 DEF GprsGetIp
  <1>11. CASE ReadyReboots
    <2>1. req' \in Requests /\ (req'.rebootStep = 1 => req'.reboot)
      <3>1. CASE req' = [req EXCEPT !.rebootStep = 1]
        BY <1>11, <3>1 DEF ReadyReboots, Requests
      <3>2. CASE req' = Rebooted
        <4>1. Rebooted.rebootStep = 0 BY DEF Rebooted, Requests
        <4>2. Rebooted \in Requests
          <5> DEFINE half == [req EXCEPT !.reboot = FALSE]
          <5>1. half \in Requests BY Zenon DEF Requests
          <5>2. Rebooted = [half EXCEPT !.rebootStep = 0] BY DEF Rebooted, Requests
          <5> HIDE DEF half
          <5>3. QED BY <5>1, <5>2 DEF Requests
        <4>3. QED BY <3>2, <4>1, <4>2
      <3>3. QED BY <1>11, <3>1, <3>2 DEF ReadyReboots
    <2>2. CASE Send("OK") /\ UNCHANGED state
      BY <1>11, <2>1, <2>2, WaiterKept
      DEF ReadyReboots, Send, RetryBudget, AnswersHaveDeadline, BringupStates, AwaitKinds
    <2>3. CASE Enter("INIT")
      BY <1>11, <2>1, <2>3, WaiterKept
      DEF ReadyReboots, Enter, RetryBudget, AnswersHaveDeadline, BringupStates, GSMState
    <2>4. QED BY <1>11, <2>2, <2>3 DEF ReadyReboots
  <1>12. ASSUME NEW r \in Requests, r.rebootStep = 1 => r.reboot, state = "READY",
                ToAttach(r)
         PROVE LinkInv'
    BY <1>12, WaiterKept
    DEF ToAttach, Enter, RetryBudget, AnswersHaveDeadline, BringupStates, GSMState
  <1>13. CASE Reattach
    <2> DEFINE r == [req EXCEPT !.reattach = FALSE, !.cooling = TRUE]
    <2>1. r \in Requests /\ (r.rebootStep = 1 => r.reboot) BY DEF Requests
    <2>2. QED BY <1>12, <1>13, <2>1 DEF Reattach, InReady
  <1>14. CASE BearerLost
    <2> DEFINE r == [req EXCEPT !.pdp = FALSE, !.reattach = TRUE]
    <2>1. r \in Requests /\ (r.rebootStep = 1 => r.reboot) BY DEF Requests
    <2>2. QED BY <1>12, <1>14, <2>1 DEF BearerLost, InReady
  <1>15. CASE ReadyPasses
    <2>1. state = "READY" BY <1>15 DEF ReadyPasses, InReady
    <2>2. PICK young \in BOOLEAN :
            LET n == IF req.closed THEN Streak(young) ELSE req.streak
                counted == [req EXCEPT !.closed = FALSE, !.streak = n]
            IN IF req.closed /\ Enough(n)
               THEN ToAttach([counted EXCEPT !.streak = TCP_CLOSED_REATTACH_THRESHOLD,
                                             !.reattach = TRUE])
               ELSE /\ req' = counted /\ Stays /\ SameLink /\ UNCHANGED apnStep
                    /\ UNCHANGED sent /\ aw' \in {aw, NoAwait}
      BY <1>15 DEF ReadyPasses
    <2> DEFINE n == IF req.closed THEN Streak(young) ELSE req.streak
               counted == [req EXCEPT !.closed = FALSE, !.streak = n]
               r == [counted EXCEPT !.streak = TCP_CLOSED_REATTACH_THRESHOLD,
                                    !.reattach = TRUE]
    <2>3. CASE req.closed /\ Enough(n)
      <3> DEFINE top == TCP_CLOSED_REATTACH_THRESHOLD
      <3>0. top \in 0..top OBVIOUS
      <3>1. r \in Requests /\ (r.rebootStep = 1 => r.reboot)
        <4> HIDE DEF top
        <4>1. r = [req EXCEPT !.closed = FALSE, !.streak = top, !.reattach = TRUE]
          BY DEF Requests, top
        <4> HIDE DEF r
        <4>2. QED BY <3>0, <4>1 DEF Requests, top
      <3>2. ToAttach(r) BY <2>2, <2>3
      <3>3. QED BY <1>12, <2>1, <3>1, <3>2
    <2>4. CASE ~(req.closed /\ Enough(n))
      <3>1. n \in 0..TCP_CLOSED_REATTACH_THRESHOLD BY <2>4, Counted DEF Requests
      <3>2. counted \in Requests /\ (counted.rebootStep = 1 => counted.reboot)
        BY <3>1 DEF Requests
      <3>3. /\ req' = counted /\ UNCHANGED <<state, retry, creg, rec, apnStep, sent>>
            /\ aw' \in {aw, NoAwait}
        BY <2>2, <2>4 DEF Stays, SameLink
      <3>4. QED BY <2>1, <3>2, <3>3, WaiterKept
        DEF RetryBudget, AnswersHaveDeadline, BringupStates
    <2>5. QED BY <2>3, <2>4
  <1>16. ASSUME UNCHANGED <<creg, retry, apnStep, req>>, state = "ERROR",
                Enter("INIT") \/ UNCHANGED <<state, aw, sent>>, rec' \in Recovery
         PROVE LinkInv'
    BY <1>16, WaiterKept
    DEF Enter, RetryBudget, AnswersHaveDeadline, BringupStates, GSMState
  <1>17. CASE ErrorRestarts
    BY <1>16, <1>17 DEF ErrorRestarts, InError, Recovery
  <1>18. CASE ErrorRests BY <1>16, <1>18 DEF ErrorRests, InError, Recovery
  <1>19. CASE ErrorResets BY <1>16, <1>19 DEF ErrorResets, InError, Recovery
  <1>20. ASSUME UNCHANGED <<state, sent, retry, apnStep>>, creg' \in BOOLEAN,
                aw' \in Waiter, aw'.kind = aw.kind, req' \in Requests,
                req'.rebootStep = 1 => req'.reboot, rec' \in Recovery
         PROVE LinkInv'
    BY <1>20 DEF RetryBudget, AnswersHaveDeadline
  <1>21. CASE Line
    <2>1. PICK l \in ModemLines :
            /\ aw' = HearsLine(aw, l) /\ creg' = CregAfter(creg, l)
            /\ req' = [req EXCEPT !.pdp = @ \/ l = "PDP DEACT", !.closed = @ \/ l = "CLOSED"]
      BY <1>21 DEF Line
    <2>2. UNCHANGED <<state, sent, retry, apnStep, rec>> BY <1>21 DEF Line
    <2>3. creg' \in BOOLEAN BY <2>1 DEF CregAfter
    <2>4. req' \in Requests /\ (req'.rebootStep = 1 => req'.reboot) BY <2>1 DEF Requests
    <2>5. aw' \in Waiter /\ aw'.kind = aw.kind BY <2>1, WaiterKept
    <2>6. QED BY <1>20, <2>2, <2>3, <2>4, <2>5
  <1>22. CASE ResultComes BY <1>20, <1>22, WaiterKept DEF ResultComes
  <1>23. CASE AwaitElapses BY <1>20, <1>23, WaiterKept DEF AwaitElapses
  <1>24. CASE CooldownElapses BY <1>20, <1>24 DEF CooldownElapses, ctl, Recovery
  <1>25. CASE BringupAges BY <1>20, <1>25 DEF BringupAges, ctl, Recovery
  <1>26. CASE BackoffElapses BY <1>20, <1>26 DEF BackoffElapses, ctl, Requests
  <1>27. CASE UNCHANGED vars BY <1>20, <1>27 DEF vars, ctl
  <1>28. QED BY <1>1, <1>2, <1>3, <1>4, <1>6, <1>7, <1>8, <1>9, <1>10, <1>11, <1>13,
    <1>14, <1>15, <1>17, <1>18, <1>19, <1>21, <1>22, <1>23, <1>24, <1>25, <1>26, <1>27
    DEF Next, Update, TimePasses

-----------------------------------------------------------------------------
\* Every reachable state satisfies the invariant.
THEOREM LinkSafe == Spec => []LinkInv
  BY LinkInvInit, LinkInvNext, PTL DEF Spec

\* The fields keep their types, and the shared counter of tries its bound.
THEOREM LinkTypes == Spec => []LinkTypeOK
  BY LinkSafe, PTL DEF LinkInv

\* Whatever the modem says, no state of the bring-up begins without a try left:
\* handleRegistering() to handleGprsGetIp() share _retryCount.
THEOREM TriesAreBudgeted == Spec => []RetryBudget
  BY LinkSafe, PTL DEF LinkInv

\* Every command of the bring-up is waited for with a deadline.
THEOREM CommandsHaveDeadline == Spec => []AnswersHaveDeadline
  BY LinkSafe, PTL DEF LinkInv
=============================================================================
