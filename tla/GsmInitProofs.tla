--------------------------- MODULE GsmInitProofs ---------------------------
(***************************************************************************)
(* Proofs about GsmInit, for rings of any size and any number of tries and *)
(* of baud rates.                                                          *)
(***************************************************************************)
EXTENDS GsmInit, TLAPS

AtRequests == [tag : {"none", "plain", "CFUN"}, expect : {"None", "Ok", "AnyLine"}]
Results == {"none", "ok", "error", "timeout"}
Sessions == [state : {"Idle", "Waiting", "Done"}, active : AtRequests, q : Seq(AtRequests),
             hq : Seq(AtRequests), res : Results]

\* What a session of AT commands always is: its rings are within their sizes,
\* and an idle one has no active request.
SessionOK(s) ==
  /\ s \in Sessions /\ Len(s.q) <= QSIZE /\ Len(s.hq) <= HQSIZE
  /\ s.state = "Idle" => s.active = NoRequest

-----------------------------------------------------------------------------
\* Every operation of the AT session keeps it well formed.
LEMMA RequestTypes ==
  /\ NoRequest \in AtRequests /\ GsmRequest \in AtRequests
  /\ Request("CFUN", "AnyLine") \in AtRequests
  BY DEF NoRequest, GsmRequest, Request, AtRequests

LEMMA FreshOK == SessionOK(Fresh)
  <1>1. <<>> \in Seq(AtRequests) /\ Len(<<>>) = 0 OBVIOUS
  <1>2. Fresh \in Sessions BY <1>1, RequestTypes DEF Fresh, Sessions, Results
  <1>3. QED BY <1>1, <1>2, QueueAssumption DEF SessionOK, Fresh

LEMMA EnqueueOK ==
  ASSUME NEW s, SessionOK(s), NEW r \in AtRequests
  PROVE  SessionOK(Enqueue(s, r)) /\ SessionOK(EnqueueHigh(s, r))
  <1>1. \A t \in Seq(AtRequests) : /\ Append(t, r) \in Seq(AtRequests)
                                   /\ Len(Append(t, r)) = Len(t) + 1 /\ Len(t) \in Nat
    OBVIOUS
  <1> s.q \in Seq(AtRequests) /\ s.hq \in Seq(AtRequests) BY DEF SessionOK, Sessions
  <1>2. ASSUME Len(s.q) < QSIZE PROVE SessionOK(Enqueue(s, r))
    <2> DEFINE longer == Append(s.q, r)
    <2>1. longer \in Seq(AtRequests) /\ Len(longer) <= QSIZE BY <1>1, <1>2, QueueAssumption
    <2>2. Enqueue(s, r) = [s EXCEPT !.q = longer] BY <1>2 DEF Enqueue
    <2> HIDE DEF longer
    <2>3. QED BY <2>1, <2>2 DEF SessionOK, Sessions
  <1>3. ASSUME Len(s.hq) < HQSIZE PROVE SessionOK(EnqueueHigh(s, r))
    <2> DEFINE longer == Append(s.hq, r)
    <2>1. longer \in Seq(AtRequests) /\ Len(longer) <= HQSIZE BY <1>1, <1>3, QueueAssumption
    <2>2. EnqueueHigh(s, r) = [s EXCEPT !.hq = longer] BY <1>3 DEF EnqueueHigh
    <2> HIDE DEF longer
    <2>3. QED BY <2>1, <2>2 DEF SessionOK, Sessions
  <1>4. QED BY <1>2, <1>3 DEF Enqueue, EnqueueHigh

LEMMA TickOK ==
  ASSUME NEW s, SessionOK(s) PROVE SessionOK(Tick(s))
  <1>1. CASE Starts(s) /\ s.hq # <<>>
    <2>1. Head(s.hq) \in AtRequests /\ Tail(s.hq) \in Seq(AtRequests)
          /\ Len(Tail(s.hq)) <= HQSIZE
      BY <1>1, QueueAssumption DEF SessionOK, Sessions
    <2>2. Tick(s) = [s EXCEPT !.state = "Waiting", !.active = Head(s.hq), !.hq = Tail(s.hq),
                              !.q = s.q]
      BY <1>1 DEF Tick, StartNext, SessionOK, Sessions
    <2>3. QED BY <2>1, <2>2 DEF SessionOK, Sessions
  <1>2. CASE Starts(s) /\ s.hq = <<>>
    <2>1. Head(s.q) \in AtRequests /\ Tail(s.q) \in Seq(AtRequests)
          /\ Len(Tail(s.q)) <= QSIZE
      BY <1>2, QueueAssumption DEF SessionOK, Sessions, Starts
    <2>2. Tick(s) = [s EXCEPT !.state = "Waiting", !.active = Head(s.q), !.hq = s.hq,
                              !.q = Tail(s.q)]
      BY <1>2 DEF Tick, StartNext, SessionOK, Sessions
    <2>3. QED BY <2>1, <2>2 DEF SessionOK, Sessions
  <1>3. CASE ~Starts(s) BY <1>3 DEF Tick
  <1>4. QED BY <1>1, <1>2, <1>3

LEMMA FinishOK ==
  ASSUME NEW s, SessionOK(s), NEW res \in Results PROVE SessionOK(Finish(s, res))
  BY DEF Finish, SessionOK, Sessions, NoRequest

LEMMA ResultOK ==
  ASSUME NEW s, SessionOK(s)
  PROVE  /\ SessionOK(TakeResult(s)) /\ SessionOK(TimeOut(s))
         /\ \A l : SessionOK(OnLine(s, l))
  <1>1. SessionOK(TakeResult(s)) BY RequestTypes DEF TakeResult, SessionOK, Sessions, Results
  <1>2. SessionOK(TimeOut(s)) BY FinishOK DEF TimeOut, Results
  <1>3. \A l : SessionOK(OnLine(s, l)) BY FinishOK DEF OnLine, Results
  <1>4. QED BY <1>1, <1>2, <1>3

\* So does every step of the controller.
LEMMA SessionKept ==
  ASSUME SessionOK(at), [Next]_vars PROVE SessionOK(at')
  <1>1. SessionOK(Drained) BY TickOK, ResultOK DEF Ticked, Drained
  <1>2. \A kind : Send(kind) => SessionOK(at')
    BY <1>1, EnqueueOK, RequestTypes DEF Send, SendOn
  <1>3. \A kind : SendOn(Fresh, kind) => SessionOK(at')
    BY FreshOK, EnqueueOK, RequestTypes DEF SendOn
  <1>4. (Absorb \/ Forget \/ \E p : Advance(p)) => SessionOK(at')
    BY <1>1 DEF Absorb, Forget, Advance
  <1>5. UNCHANGED at => SessionOK(at') OBVIOUS
  <1>6. CASE Begin \/ Stop BY <1>5, <1>6 DEF Begin, Stop
  <1>7. CASE LinkReturns BY <1>1, <1>7, EnqueueOK, RequestTypes DEF LinkReturns
  <1>8. CASE LinkPasses BY <1>1, <1>2, <1>4, <1>8, EnqueueOK, RequestTypes DEF LinkPasses
  <1>9. CASE StartSearch BY <1>9, FreshOK DEF StartSearch
  <1>10. CASE HypSendAt \/ AsksMaker \/ SearchSendAt \/ InitSends
    BY <1>2, <1>10 DEF HypSendAt, AsksMaker, SearchSendAt, InitSends
  <1>11. CASE HypFails \/ Verified \/ SearchFails
    BY <1>4, <1>11 DEF HypFails, Verified, SearchFails
  <1>12. CASE SearchWaitsOver \/ AttachAgain \/ InitWaits
    BY <1>4, <1>12 DEF SearchWaitsOver, AttachAgain, InitWaits
  <1>13. CASE InitAdvances \/ RegistrationAsked \/ AttachAsked \/ BearerAsked
    BY <1>4, <1>13 DEF InitAdvances, RegistrationAsked, AttachAsked, BearerAsked
  <1>14. CASE AsksRate \/ RateAnswered BY <1>2, <1>4, <1>14 DEF AsksRate, RateAnswered
  <1>15. CASE RateLock BY <1>2, <1>3, <1>4, <1>15 DEF RateLock
  <1>16. CASE InitDone BY <1>1, <1>16, EnqueueOK, RequestTypes DEF InitDone
  <1>17. CASE Line BY <1>17, ResultOK DEF Line
  <1>18. CASE TimePasses
    BY <1>5, <1>18, ResultOK
    DEF TimePasses, AwaitElapses, AtElapses, HoldElapses, WindowCloses, talk
  <1>19. CASE TransportTakes BY <1>19, ResultOK DEF TransportTakes
  <1>20. CASE UNCHANGED vars BY <1>20 DEF vars, talk
  <1>21. QED BY <1>6, <1>7, <1>8, <1>9, <1>10, <1>11, <1>12, <1>13, <1>14, <1>15, <1>16,
    <1>17, <1>18, <1>19, <1>20 DEF Next, Update

-----------------------------------------------------------------------------
\* Every operation on a waiter gives a waiter, and none but a command and a
\* reset changes what is awaited.
LEMMA WaiterKept ==
  ASSUME NEW w \in Waiter
  PROVE  /\ NoAwait \in Waiter /\ NoAwait.kind = "NONE"
         /\ \A k \in AwaitKinds : Awaits(k) \in Waiter /\ Awaits(k).kind = k
         /\ \A l : HearsLine(w, l) \in Waiter /\ HearsLine(w, l).kind = w.kind
         /\ \A res : Absorbs(w, res) \in Waiter /\ Absorbs(w, res).kind = w.kind
         /\ PassesDeadline(w) \in Waiter /\ PassesDeadline(w).kind = w.kind
  <1>1. NoAwait \in Waiter /\ NoAwait.kind = "NONE" BY DEF NoAwait, Waiter, AwaitKinds
  <1>2. \A k \in AwaitKinds : Awaits(k) \in Waiter /\ Awaits(k).kind = k
    BY <1>1 DEF Awaits, NoAwait, Waiter
  <1>3. \A l : HearsLine(w, l) \in Waiter /\ HearsLine(w, l).kind = w.kind
    BY ZenonT(60) DEF HearsLine, Waiter
  <1>4. \A res : Absorbs(w, res) \in Waiter /\ Absorbs(w, res).kind = w.kind
    BY DEF Absorbs, Waiter
  <1>5. PassesDeadline(w) \in Waiter /\ PassesDeadline(w).kind = w.kind
    BY DEF PassesDeadline, Waiter
  <1>6. QED BY <1>1, <1>2, <1>3, <1>4, <1>5

\* The properties together are inductive once it is known that a rate which is
\* being tried is one of the list.
RateInList ==
  state = "INIT" /\ phase \in SearchPhases \ {"BsCooldown"} => sess.idx + 1 <= BaudCandidates

InitInv ==
  /\ InitTypeOK /\ SearchIsConsistent /\ ContactBeforeUse /\ OnlyOldContactSticks
  /\ RateInList /\ SessionOK(at)

\* The parts of the invariant that speak of types.
Typed ==
  /\ sent \in BOOLEAN /\ retry \in 0..MAX_RETRIES /\ aw \in Waiter /\ hold \in BOOLEAN
  /\ seen \in SUBSET {"SIMCOM", "IPR"} /\ creg \in BOOLEAN /\ sess \in Session

LEMMA InitInvInit == Init => InitInv
  <1> SUFFICES ASSUME Init PROVE InitInv OBVIOUS
  <1>1. aw \in Waiter BY DEF Init, NoAwait, Waiter, AwaitKinds
  <1>2. sess \in Session /\ ~sess.search BY InitAssumption DEF Init, NewSession, Session
  <1>3. sent \in BOOLEAN /\ hold \in BOOLEAN /\ creg \in BOOLEAN BY Zenon DEF Init
  <1>4. /\ state = "IDLE" /\ phase = "None" /\ retry \in 0..MAX_RETRIES
        /\ seen \in SUBSET {"SIMCOM", "IPR"}
    BY InitAssumption DEF Init
  <1>5. SessionOK(at) BY FreshOK DEF Init
  <1>6. QED BY <1>1, <1>2, <1>3, <1>4, <1>5
    DEF InitInv, InitTypeOK, SearchIsConsistent, ContactBeforeUse, OnlyOldContactSticks,
        RateInList, SessionOK, States, GsmInitPhase, Stuck

\* Phases beyond contact: a step among them that keeps what is known of the
\* modem, and awaits something where it waits.
LEMMA BeyondContact ==
  ASSUME InitInv, Typed', SessionOK(at'), state = "INIT", state' = "INIT",
         phase \notin HypPhases \cup SearchPhases,
         phase' \in GsmInitPhase \ (HypPhases \cup SearchPhases),
         phase' \in AwaitPhases => aw'.kind # "NONE",
         sess'.verified = sess.verified, sess'.search = sess.search
  PROVE  InitInv'
  BY DEF InitInv, Typed, InitTypeOK, SearchIsConsistent, ContactBeforeUse,
         OnlyOldContactSticks, RateInList, SessionOK, States, Stuck, SearchPhases

\* The hypothesis: a step within its phases.
LEMMA WithinHypothesis ==
  ASSUME InitInv, Typed', SessionOK(at'), state = "INIT", state' = "INIT",
         phase \in HypPhases, phase' \in HypPhases,
         phase' \in AwaitPhases /\ aw'.kind = "NONE" => sess.verified /\ sess'.fallback = "old",
         sess'.verified = sess.verified, sess'.search = sess.search
  PROVE  InitInv'
  BY DEF InitInv, Typed, InitTypeOK, SearchIsConsistent, ContactBeforeUse,
         OnlyOldContactSticks, RateInList, SessionOK, States, Stuck, SearchPhases, HypPhases,
         GsmInitPhase

\* The search: a step within its phases, or into them.
LEMMA WithinSearch ==
  ASSUME InitInv, Typed', SessionOK(at'), state = "INIT", state' = "INIT",
         phase' \in SearchPhases, phase' \in AwaitPhases => aw'.kind # "NONE",
         sess'.search, ~sess'.verified,
         phase' # "BsCooldown" => sess'.idx + 1 <= BaudCandidates
  PROVE  InitInv'
  BY DEF InitInv, Typed, InitTypeOK, SearchIsConsistent, ContactBeforeUse,
         OnlyOldContactSticks, RateInList, SessionOK, States, Stuck, SearchPhases, HypPhases,
         GsmInitPhase

-----------------------------------------------------------------------------
\* Every step keeps the invariant.
LEMMA InitInvNext == InitInv /\ [Next]_vars => InitInv'
  <1> SUFFICES ASSUME InitInv, [Next]_vars PROVE InitInv' OBVIOUS
  <1> USE InitAssumption
  <1>1. SessionOK(at') BY SessionKept DEF InitInv
  <1>2. Typed /\ phase \in GsmInitPhase /\ state \in States
    BY DEF InitInv, InitTypeOK, Typed
  <1>3. /\ Heeded \in Waiter /\ Heeded.kind = aw.kind
        /\ NoAwait \in Waiter /\ NoAwait.kind = "NONE"
        /\ \A k \in AwaitKinds : Awaits(k) \in Waiter /\ Awaits(k).kind = k
    BY <1>2, WaiterKept DEF Typed, Heeded
  <1>4. NewSession \in Session /\ NewSession.search = FALSE
    BY DEF NewSession, Session
  <1>5. TRUE \in BOOLEAN /\ FALSE \in BOOLEAN /\ {} \in SUBSET {"SIMCOM", "IPR"}
        /\ 0 \in 0..MAX_RETRIES /\ MAX_RETRIES \in 0..MAX_RETRIES
    OBVIOUS
  \* Out of the stop, into it, and beyond INIT.
  <1>6. ASSUME EntersInit, ~sess'.search, sess' \in Session, retry' \in 0..MAX_RETRIES,
               hold' \in BOOLEAN, UNCHANGED creg
        PROVE  InitInv'
    <2>1. Typed' BY <1>2, <1>3, <1>5, <1>6 DEF Typed, EntersInit, Enter
    <2>2. QED BY <1>1, <1>6, <2>1
      DEF EntersInit, Enter, InitInv, Typed, InitTypeOK, SearchIsConsistent, ContactBeforeUse,
          OnlyOldContactSticks, RateInList, SessionOK, States, Stuck, SearchPhases,
          AwaitPhases, ContactWaits, HypPhases, GsmInitPhase
  <1>7. CASE Begin
    <2>1. hold' \in BOOLEAN BY <1>5, <1>7 DEF Begin
    <2>2. QED BY <1>2, <1>4, <1>6, <1>7, <2>1 DEF Begin, Typed
  <1>8. CASE LinkReturns
    <2>1. hold' \in BOOLEAN BY <1>5, <1>8 DEF LinkReturns
    <2>2. ~sess.search
      BY <1>8 DEF LinkReturns, InitInv, ContactBeforeUse, SearchIsConsistent
    <2>3. QED BY <1>2, <1>5, <1>6, <1>8, <2>1, <2>2 DEF LinkReturns, Typed
  <1>9. CASE Stop
    <2>1. Typed' BY <1>2, <1>3, <1>4, <1>5, <1>9 DEF Typed, Stop, Enter
    <2>2. QED BY <1>1, <1>4, <1>9, <2>1
      DEF Stop, Enter, InitInv, Typed, InitTypeOK, SearchIsConsistent, ContactBeforeUse,
          OnlyOldContactSticks, RateInList, SessionOK, States, Stuck, GsmInitPhase
  \* A step that stays where it is and changes nothing but what was heard.
  <1>10. ASSUME UNCHANGED <<state, phase>>, Typed', state = "INIT" => aw'.kind = aw.kind,
                sess'.verified = sess.verified, sess'.search = sess.search,
                sess'.idx = sess.idx, sess'.fallback \in {sess.fallback, "old"}
         PROVE  InitInv'
    BY <1>1, <1>10
    DEF InitInv, Typed, InitTypeOK, SearchIsConsistent, ContactBeforeUse,
        OnlyOldContactSticks, RateInList, SessionOK, Stuck
  <1>11. CASE LinkPasses
    <2>1. aw' \in Waiter /\ sent' \in BOOLEAN
      BY <1>2, <1>3, <1>5, <1>11 DEF LinkPasses, Send, SendOn, Absorb, Typed, AwaitKinds
    <2>2. Typed' BY <1>2, <1>11, <2>1 DEF LinkPasses, Typed
    <2>3. state # "INIT" BY <1>11 DEF LinkPasses
    <2>4. QED BY <1>10, <1>11, <2>2, <2>3 DEF LinkPasses
  <1>12. CASE InitWaits
    <2>1. aw' = Heeded /\ UNCHANGED <<state, phase, sent, retry, hold, seen, creg, sess>>
      BY <1>12 DEF InitWaits, Absorb, SameInit
    <2>2. Typed' BY <1>2, <1>3, <2>1 DEF Typed
    <2>3. QED BY <1>3, <1>10, <2>1, <2>2
  <1>13. CASE Line
    <2>1. PICK l \in ModemLines :
            /\ aw' = HearsLine(aw, l) /\ creg' = CregAfter(creg, l)
            /\ seen' = IF state = "INIT" THEN seen \cup ({l} \cap {"SIMCOM", "IPR"}) ELSE seen
      BY <1>13 DEF Line
    <2>2. UNCHANGED <<state, sent, retry, phase, hold, sess>> BY <1>13 DEF Line
    <2>3. aw' \in Waiter /\ aw'.kind = aw.kind BY <1>2, <2>1, WaiterKept DEF Typed
    <2>4. creg' \in BOOLEAN BY <1>2, <2>1 DEF CregAfter, Typed
    <2>5. seen' \in SUBSET {"SIMCOM", "IPR"} BY <1>2, <2>1 DEF Typed
    <2>6. Typed' BY <1>2, <2>2, <2>3, <2>4, <2>5 DEF Typed
    <2>7. QED BY <1>10, <2>2, <2>3, <2>6
  <1>14. CASE AwaitElapses
    <2>1. aw' = PassesDeadline(aw) /\ UNCHANGED <<state, sent, retry, memory>>
      BY <1>14 DEF AwaitElapses
    <2>2. aw' \in Waiter /\ aw'.kind = aw.kind BY <1>2, <2>1, WaiterKept DEF Typed
    <2>3. Typed' BY <1>2, <2>1, <2>2 DEF Typed, memory
    <2>4. QED BY <1>10, <2>1, <2>2, <2>3 DEF memory
  <1>15. CASE AtElapses \/ TransportTakes \/ UNCHANGED vars
    <2>1. UNCHANGED <<state, sent, retry, aw, memory>>
      BY <1>15 DEF AtElapses, TransportTakes, vars, talk
    <2>2. Typed' BY <1>2, <2>1 DEF Typed, memory
    <2>3. QED BY <1>10, <2>1, <2>2 DEF memory
  <1>16. CASE HoldElapses
    <2>1. Typed' BY <1>2, <1>5, <1>16 DEF HoldElapses, Typed, talk
    <2>2. QED BY <1>10, <1>16, <2>1 DEF HoldElapses, talk
  <1>17. CASE WindowCloses
    <2>1. /\ sess' \in Session /\ sess'.fallback = "old" /\ sess'.idx = sess.idx
          /\ sess'.verified = sess.verified /\ sess'.search = sess.search
      BY <1>2, <1>17 DEF WindowCloses, Typed, Session
    <2>2. Typed' BY <1>2, <1>17, <2>1 DEF WindowCloses, Typed, talk
    <2>3. QED BY <1>10, <1>17, <2>1, <2>2 DEF WindowCloses, talk
  \* What a command sets.
  <1>18. ASSUME NEW s, NEW kind \in AwaitKinds \ {"NONE"}, SendOn(s, kind)
         PROVE  aw' \in Waiter /\ aw'.kind # "NONE" /\ sent' \in BOOLEAN
    BY <1>3, <1>5, <1>18 DEF SendOn
  <1>19. "OK" \in AwaitKinds \ {"NONE"} /\ \A p : KindOf(p) \in AwaitKinds \ {"NONE"}
    BY DEF AwaitKinds, KindOf
  \* The hypothesis.
  <1>20. CASE HypSendAt
    <2>1. aw' \in Waiter /\ aw'.kind # "NONE" /\ sent' \in BOOLEAN
      BY <1>18, <1>19, <1>20 DEF HypSendAt, Send
    <2>2. /\ sess' \in Session
          /\ sess'.verified = sess.verified /\ sess'.search = sess.search
      <3>1. sess' = [sess EXCEPT !.fallback = "young"] \/ sess' = sess
        BY <1>2, <1>20 DEF HypSendAt, Typed, Session
      <3>2. QED BY <1>2, <3>1 DEF Typed, Session
    <2>3. /\ state = "INIT" /\ state' = "INIT" /\ phase = "HypSendAt" /\ phase' = "HypAwaitAt"
          /\ UNCHANGED <<retry, seen, hold, creg>>
      BY <1>20 DEF HypSendAt, InInit, To, SameInit
    <2>4. Typed' BY <1>2, <2>1, <2>2, <2>3 DEF Typed
    <2>5. QED BY <1>1, <2>1, <2>2, <2>3, <2>4, WithinHypothesis DEF HypPhases
  <1>21. CASE HypFails
    <2>1. /\ state = "INIT" /\ state' = "INIT" /\ phase \in HypPhases /\ ~FallsBack
          /\ phase \notin SearchPhases
          /\ aw' = NoAwait /\ seen' = {} /\ UNCHANGED <<sess, hold, creg>>
      BY <1>21 DEF HypFails, InInit, HypPhases, SearchPhases, Forget, SameInit
    <2>2. retry' \in 0..MAX_RETRIES BY <1>2, <1>21 DEF HypFails, Typed
    <2>3. /\ phase' \in HypPhases /\ sent' \in BOOLEAN
          /\ HypKeepsPhase \/ phase' = "HypSendAt"
      BY <1>2, <1>5, <1>21, <2>1 DEF HypFails, To, HypPhases, Typed
    <2>4. ~sess.search BY <2>1 DEF InitInv, SearchIsConsistent
    <2>5. HypKeepsPhase => sess.verified /\ sess'.fallback = "old"
      BY <2>1, <2>4 DEF FallsBack, HypKeepsPhase
    <2>6. Typed' BY <1>2, <1>3, <1>5, <2>1, <2>2, <2>3 DEF Typed
    <2>7. "HypSendAt" \notin AwaitPhases BY DEF AwaitPhases, ContactWaits
    <2>8. QED BY <1>1, <2>1, <2>3, <2>5, <2>6, <2>7, WithinHypothesis
  \* The search.
  <1>22. CASE StartSearch
    <2>1. /\ sess' \in Session /\ sess'.search /\ sess'.verified = sess.verified
          /\ sess'.idx = 0
      <3> DEFINE on == [sess EXCEPT !.search = TRUE]
      <3>1. on \in Session /\ on.search /\ on.verified = sess.verified
        BY <1>2 DEF Typed, Session
      <3>2. sess' = [on EXCEPT !.idx = 0] BY <1>2, <1>22 DEF StartSearch, Typed, Session
      <3> HIDE DEF on
      <3>3. QED BY <3>1, <3>2 DEF Session
    <2>2. /\ state = "INIT" /\ state' = "INIT" /\ ~sess.verified /\ phase' = "BsSettle"
          /\ aw' = NoAwait /\ sent' = FALSE /\ hold' = TRUE /\ retry' = 0
          /\ UNCHANGED <<seen, creg>>
      BY <1>22 DEF StartSearch, FallsBack, To, SameInit
    <2>3. Typed' BY <1>2, <1>3, <1>5, <2>1, <2>2 DEF Typed
    <2>4. phase' \in SearchPhases /\ phase' \notin AwaitPhases
      BY <2>2 DEF SearchPhases, AwaitPhases, ContactWaits
    <2>5. QED BY <1>1, <2>1, <2>2, <2>3, <2>4, WithinSearch
  <1>23. state = "INIT" /\ phase \in SearchPhases => sess.search /\ ~sess.verified
    BY DEF InitInv, SearchIsConsistent
  <1>24. CASE SearchWaitsOver
    <2>1. /\ state = "INIT" /\ state' = "INIT" /\ phase \in {"BsCooldown", "BsSettle"}
          /\ aw' = Heeded /\ UNCHANGED <<retry, seen, creg>>
      BY <1>24 DEF SearchWaitsOver, InInit, Absorb, SameInit
    <2>2. CASE phase = "BsCooldown"
      <3>1. /\ sess' = [sess EXCEPT !.idx = 0] /\ hold' = TRUE /\ phase' = "BsSettle"
            /\ UNCHANGED sent
        BY <1>24, <2>2 DEF SearchWaitsOver, To
      <3>2. /\ sess' \in Session /\ sess'.search = sess.search
            /\ sess'.verified = sess.verified /\ sess'.idx = 0
        BY <1>2, <3>1 DEF Typed, Session
      <3>3. Typed' BY <1>2, <1>3, <1>5, <2>1, <3>1, <3>2 DEF Typed
      <3>4. QED BY <1>1, <1>23, <2>1, <2>2, <3>1, <3>2, <3>3, WithinSearch
        DEF SearchPhases, AwaitPhases, ContactWaits
    <2>3. CASE phase # "BsCooldown"
      <3>1. sent' = FALSE /\ phase' = "BsSendAt" /\ UNCHANGED <<sess, hold>>
        BY <1>24, <2>3 DEF SearchWaitsOver, To
      <3>2. Typed' BY <1>2, <1>3, <1>5, <2>1, <3>1 DEF Typed
      <3>3. sess.idx + 1 <= BaudCandidates
        BY <2>1, <2>3 DEF InitInv, RateInList, SearchPhases
      <3>4. QED BY <1>1, <1>23, <2>1, <3>1, <3>2, <3>3, WithinSearch
        DEF SearchPhases, AwaitPhases, ContactWaits
    <2>4. QED BY <2>2, <2>3
  <1>25. CASE SearchSendAt
    <2>1. aw' \in Waiter /\ aw'.kind # "NONE" /\ sent' \in BOOLEAN
      BY <1>18, <1>19, <1>25 DEF SearchSendAt, Send
    <2>2. /\ state = "INIT" /\ state' = "INIT" /\ phase = "BsSendAt" /\ phase' = "BsAwaitAt"
          /\ UNCHANGED <<retry, seen, sess, hold, creg>>
      BY <1>25 DEF SearchSendAt, InInit, To, SameInit
    <2>3. Typed' BY <1>2, <2>1, <2>2 DEF Typed
    <2>4. sess.idx + 1 <= BaudCandidates BY <2>2 DEF InitInv, RateInList, SearchPhases
    <2>5. QED BY <1>1, <1>23, <2>1, <2>2, <2>3, <2>4, WithinSearch DEF SearchPhases
  <1>26. CASE SearchFails
    <2>1. /\ state = "INIT" /\ state' = "INIT" /\ phase \in {"BsAwaitAt", "BsAwaitCgmi"}
          /\ aw' = NoAwait /\ seen' = {} /\ sent' = FALSE /\ hold' = TRUE
          /\ sess' = [sess EXCEPT !.idx = sess.idx + 1]
          /\ phase' = (IF LastRate THEN "BsCooldown" ELSE "BsSettle")
          /\ UNCHANGED <<retry, creg>>
      BY <1>26 DEF SearchFails, InInit, Forget, To, SameInit
    <2>2. sess.idx \in Nat /\ sess.idx + 1 \in 0..BaudCandidates
      BY <1>2, <2>1 DEF InitInv, RateInList, SearchPhases, Typed, Session
    <2>3. /\ sess' \in Session /\ sess'.search = sess.search
          /\ sess'.verified = sess.verified /\ sess'.idx = sess.idx + 1
      <3> DEFINE next == sess.idx + 1
      <3>1. sess' = [sess EXCEPT !.idx = next] /\ next \in 0..BaudCandidates BY <2>1, <2>2
      <3> HIDE DEF next
      <3>2. /\ sess' \in Session /\ sess'.search = sess.search
            /\ sess'.verified = sess.verified /\ sess'.idx = next
        BY <1>2, <3>1 DEF Typed, Session
      <3>3. QED BY <3>2 DEF next
    <2>4. phase' # "BsCooldown" => sess'.idx + 1 <= BaudCandidates
      BY <2>1, <2>2, <2>3 DEF LastRate
    <2>5. Typed' BY <1>2, <1>3, <1>5, <2>1, <2>3 DEF Typed
    <2>6. phase' \in SearchPhases /\ phase' \notin AwaitPhases /\ phase \in SearchPhases
      BY <2>1 DEF SearchPhases, AwaitPhases, ContactWaits
    <2>7. QED BY <1>1, <1>23, <2>1, <2>3, <2>4, <2>5, <2>6, WithinSearch
  \* AT+CGMI, and contact.
  <1>27. CASE AsksMaker
    <2>1. aw' \in Waiter /\ aw'.kind # "NONE" /\ sent' \in BOOLEAN
      BY <1>18, <1>19, <1>27 DEF AsksMaker, Send
    <2>2. /\ state = "INIT" /\ state' = "INIT" /\ phase \in {"HypAwaitAt", "BsAwaitAt"}
          /\ phase' = MakerPhase /\ seen' = {} /\ UNCHANGED <<retry, sess, hold, creg>>
      BY <1>27 DEF AsksMaker, InInit, To, SameInit
    <2>3. Typed' BY <1>2, <1>5, <2>1, <2>2 DEF Typed
    <2>4. CASE phase = "HypAwaitAt"
      BY <1>1, <2>1, <2>2, <2>3, <2>4, WithinHypothesis DEF HypPhases, MakerPhase
    <2>5. CASE phase = "BsAwaitAt"
      <3>1. sess.idx + 1 <= BaudCandidates BY <2>2, <2>5 DEF InitInv, RateInList, SearchPhases
      <3>2. QED BY <1>1, <1>23, <2>1, <2>2, <2>3, <2>5, <3>1, WithinSearch
        DEF SearchPhases, MakerPhase
    <2>6. QED BY <2>2, <2>4, <2>5
  <1>28. CASE Verified
    <2>1. /\ state' = "INIT" /\ phase' = "EarlyAteSend" /\ aw' = NoAwait /\ seen' = {}
          /\ sent' = FALSE /\ retry' = 0 /\ sess' = Contact /\ UNCHANGED <<hold, creg>>
      BY <1>28 DEF Verified, InInit, Forget, To, SameInit
    <2>2. sess' \in Session /\ sess'.verified /\ ~sess'.search
      <3> DEFINE found == [sess EXCEPT !.verified = TRUE]
      <3>1. found \in Session /\ found.verified BY <1>2 DEF Typed, Session
      <3>2. Contact = [found EXCEPT !.search = FALSE] BY <1>2 DEF Contact, Typed, Session
      <3> HIDE DEF found
      <3>3. QED BY <1>5, <2>1, <3>1, <3>2 DEF Session
    <2>3. Typed' BY <1>2, <1>3, <1>5, <2>1, <2>2 DEF Typed
    <2>4. QED BY <1>1, <2>1, <2>2, <2>3
      DEF InitInv, Typed, InitTypeOK, SearchIsConsistent, ContactBeforeUse,
          OnlyOldContactSticks, RateInList, SessionOK, States, Stuck, SearchPhases, HypPhases,
          GsmInitPhase, AwaitPhases, ContactWaits
  \* Beyond contact: every step there is one that sends, or one that does not
  \* wait afterwards.
  <1> DEFINE Known == GsmInitPhase \ (HypPhases \cup SearchPhases)
  <1>29. ASSUME NEW s, NEW kind \in AwaitKinds \ {"NONE"}, SendOn(s, kind),
                state = "INIT", phase \in Known, phase' \in Known, SameInit,
                seen' \in {seen, {}}, UNCHANGED <<retry, hold>>, sess' \in Session,
                sess'.verified = sess.verified, sess'.search = sess.search
         PROVE  InitInv'
    <2>1. aw' \in Waiter /\ aw'.kind # "NONE" /\ sent' \in BOOLEAN BY <1>18, <1>29
    <2>2. Typed' BY <1>2, <1>5, <1>29, <2>1 DEF Typed, SameInit
    <2>3. QED BY <1>1, <1>29, <2>1, <2>2, BeyondContact DEF SameInit
  <1>30. ASSUME aw' \in {NoAwait, Heeded}, seen' \in {seen, {}}, state = "INIT",
                phase \in Known, phase' \in Known \ AwaitPhases, SameInit, UNCHANGED retry,
                sent' \in BOOLEAN, hold' \in BOOLEAN, sess' \in Session,
                sess'.verified = sess.verified, sess'.search = sess.search
         PROVE  InitInv'
    <2>1. Typed' BY <1>2, <1>3, <1>5, <1>30 DEF Typed, SameInit
    <2>2. QED BY <1>1, <1>30, <2>1, BeyondContact DEF SameInit
  <1>31. ASSUME NEW p, Advance(p), state = "INIT", phase \in Known,
                p \in Known \ AwaitPhases, UNCHANGED hold, sess' \in Session,
                sess'.verified = sess.verified, sess'.search = sess.search
         PROVE  InitInv'
    <2>1. hold' \in BOOLEAN /\ sent' \in BOOLEAN
      BY <1>2, <1>5, <1>31 DEF Advance, Typed
    <2>2. QED BY <1>30, <1>31, <2>1 DEF Advance, Forget, To
  <1> USE DEF GsmInitPhase, HypPhases, SearchPhases, AwaitPhases, ContactWaits, ConfigPhases
  <1>32. CASE InitSends
    <2>1. /\ phase \in DOMAIN WaitOf /\ state = "INIT" /\ phase' = WaitOf[phase]
          /\ SendOn(Drained, KindOf(phase)) /\ SameInit /\ UNCHANGED <<retry, seen, sess, hold>>
      BY <1>32 DEF InitSends, InInit, Send, To
    <2>2. phase \in Known /\ phase' \in Known BY <2>1 DEF WaitOf
    <2>3. QED BY <1>2, <1>19, <1>29, <2>1, <2>2 DEF Typed
  <1>33. CASE InitAdvances
    <2>1. /\ phase \in DOMAIN After /\ state = "INIT" /\ Advance(After[phase])
          /\ UNCHANGED <<sess, hold>>
      BY <1>33 DEF InitAdvances, InInit
    <2>2. phase \in Known /\ After[phase] \in Known \ AwaitPhases BY <2>1 DEF After
    <2>3. QED BY <1>2, <1>31, <2>1, <2>2 DEF Typed
  <1>34. CASE AsksRate
    <2>1. /\ state = "INIT" /\ phase = "DIprQ" /\ SameInit
          /\ UNCHANGED <<retry, seen, sess, hold>>
      BY <1>34 DEF AsksRate, InInit
    <2>2. CASE SendOn(Drained, "OK") /\ phase' = "DIprWait"
      BY <1>2, <1>19, <1>29, <2>1, <2>2 DEF Typed
    <2>3. CASE aw' = Heeded /\ sent' = FALSE /\ phase' = "CCreg"
      <3>1. sent' \in BOOLEAN BY <1>5, <2>3
      <3>2. QED BY <1>2, <1>30, <2>1, <2>3, <3>1 DEF Typed
    <2>4. QED BY <1>34, <2>2, <2>3 DEF AsksRate, Absorb, Send, To
  <1>35. CASE RateAnswered
    <2>1. /\ state = "INIT" /\ phase = "DIprWait" /\ UNCHANGED hold
          /\ sess' = [sess EXCEPT !.iprKnown = TRUE]
      BY <1>35 DEF RateAnswered, InInit
    <2>2. /\ sess' \in Session
          /\ sess'.verified = sess.verified /\ sess'.search = sess.search
      BY <1>2, <1>5, <2>1 DEF Typed, Session
    <2>3. CASE SendOn(Drained, "OK") /\ seen' = {} /\ phase' = "DLockWaitIpr" /\ SameInit
               /\ UNCHANGED retry
      BY <1>19, <1>29, <2>1, <2>2, <2>3
    <2>4. CASE Advance("CCreg") BY <1>31, <2>1, <2>2, <2>4
    <2>5. QED BY <1>35, <2>3, <2>4 DEF RateAnswered, Send, To
  <1>36. CASE RateLock
    <2>1. /\ state = "INIT" /\ phase \in {"DLockWaitIpr", "DLockWaitW"}
          /\ UNCHANGED <<sess, hold>>
      BY <1>36 DEF RateLock, InInit
    <2>2. CASE Advance("CCreg") BY <1>2, <1>31, <2>1, <2>2 DEF Typed
    <2>3. ASSUME NEW s, SendOn(s, "OK"), phase' \in {"DLockWaitW", "DLockAwaitVerifyAt"},
                 SameInit, seen' = {}, UNCHANGED retry
          PROVE  InitInv'
      BY <1>2, <1>19, <1>29, <2>1, <2>3 DEF Typed
    <2>4. QED BY <1>36, <2>2, <2>3 DEF RateLock, Send, To
  <1>37. CASE RegistrationAsked
    <2>1. state = "INIT" /\ phase = "CCregWait" /\ UNCHANGED hold
      BY <1>37 DEF RegistrationAsked, InInit
    <2>2. CASE Advance("ModAte") /\ sess' = [sess EXCEPT !.target = "REGISTERING"]
      <3>1. /\ sess' \in Session
            /\ sess'.verified = sess.verified /\ sess'.search = sess.search
        BY <1>2, <2>2 DEF Typed, Session
      <3>2. QED BY <1>31, <2>1, <2>2, <3>1
    <2>3. CASE Advance("CCgatt") /\ sess' = [sess EXCEPT !.cgatt = 0]
      <3>1. /\ sess' \in Session
            /\ sess'.verified = sess.verified /\ sess'.search = sess.search
        BY <1>2, <2>3 DEF Typed, Session
      <3>2. QED BY <1>31, <2>1, <2>3, <3>1
    <2>4. QED BY <1>37, <2>2, <2>3 DEF RegistrationAsked
  <1>38. CASE AttachAsked
    <2>1. state = "INIT" /\ phase = "CCgattWait" BY <1>38 DEF AttachAsked, InInit
    <2>2. CASE Advance("CSapbr") /\ sess' = [sess EXCEPT !.cgatt = 0] /\ UNCHANGED hold
      <3>1. /\ sess' \in Session
            /\ sess'.verified = sess.verified /\ sess'.search = sess.search
        BY <1>2, <2>2 DEF Typed, Session
      <3>2. QED BY <1>31, <2>1, <2>2, <3>1
    <2>3. CASE /\ MoreTries /\ aw' = NoAwait /\ seen' = {} /\ sent' = TRUE
               /\ phase' = "CCgattBackoff" /\ hold' = TRUE
               /\ sess' = [sess EXCEPT !.cgatt = @ + 1] /\ SameInit /\ UNCHANGED retry
      <3> DEFINE tries == sess.cgatt + 1
      <3>1. tries \in 0..INIT_CGATT_RETRY_MAX BY <1>2, <2>3 DEF MoreTries, Typed, Session
      <3>2. sess' = [sess EXCEPT !.cgatt = tries] BY <2>3
      <3> HIDE DEF tries
      <3>3. /\ sess' \in Session
            /\ sess'.verified = sess.verified /\ sess'.search = sess.search
        BY <1>2, <3>1, <3>2 DEF Typed, Session
      <3>4. hold' \in BOOLEAN /\ sent' \in BOOLEAN BY <1>5, <2>3
      <3>5. QED BY <1>30, <2>1, <2>3, <3>3, <3>4
    <2>4. CASE Advance("CSapbr") /\ UNCHANGED <<sess, hold>>
      BY <1>2, <1>31, <2>1, <2>4 DEF Typed
    <2>5. QED BY <1>38, <2>2, <2>3, <2>4 DEF AttachAsked, Forget, To
  <1>39. CASE AttachAgain
    <2>1. /\ state = "INIT" /\ phase = "CCgattBackoff" /\ aw' = Heeded /\ sent' = FALSE
          /\ phase' = "CCgatt" /\ SameInit /\ UNCHANGED <<retry, seen, sess, hold>>
      BY <1>39 DEF AttachAgain, InInit, Absorb, To
    <2>2. sent' \in BOOLEAN BY <1>5, <2>1
    <2>3. QED BY <1>2, <1>30, <2>1, <2>2 DEF Typed
  <1>40. CASE BearerAsked
    <2>1. /\ state = "INIT" /\ phase = "CSapbrWait" /\ Advance("ModAte") /\ UNCHANGED hold
          /\ \E target \in {"REGISTERING", "GPRS_SETUP", "READY"} :
               sess' = [sess EXCEPT !.target = target]
      BY <1>40 DEF BearerAsked, InInit
    <2>2. /\ sess' \in Session
          /\ sess'.verified = sess.verified /\ sess'.search = sess.search
      BY <1>2, <2>1 DEF Typed, Session
    <2>3. QED BY <1>31, <2>1, <2>2
  \* INIT ends in a later phase: contact was made.
  <1>41. CASE InitDone
    <2>1. /\ state = "INIT" /\ phase = "ModCreg2" /\ state' = "LINK" /\ aw' = NoAwait
          /\ retry' = 0 /\ seen' = {} /\ UNCHANGED <<phase, creg, sess, hold>>
      BY <1>41 DEF InitDone, InInit, Enter
    <2>2. sent' \in BOOLEAN BY <1>5, <1>41 DEF InitDone
    <2>3. Typed' BY <1>2, <1>3, <1>5, <2>1, <2>2 DEF Typed
    <2>4. sess.verified /\ ~sess.search
      BY <2>1 DEF InitInv, ContactBeforeUse, SearchIsConsistent
    <2>5. QED BY <1>1, <2>1, <2>3, <2>4
      DEF InitInv, Typed, InitTypeOK, SearchIsConsistent, ContactBeforeUse,
          OnlyOldContactSticks, RateInList, SessionOK, States, Stuck
  <1>42. QED BY <1>7, <1>8, <1>9, <1>11, <1>12, <1>13, <1>14, <1>15, <1>16, <1>17, <1>20,
    <1>21, <1>22, <1>24, <1>25, <1>26, <1>27, <1>28, <1>32, <1>33, <1>34, <1>35, <1>36,
    <1>37, <1>38, <1>39, <1>40, <1>41 DEF Next, Update, TimePasses

-----------------------------------------------------------------------------
\* Every reachable state satisfies the invariant.
THEOREM InitSafe == Spec => []InitInv
  BY InitInvInit, InitInvNext, PTL DEF Spec

\* The fields keep their types, the index of the rates and the counter of
\* attach queries their bounds, and an idle AT session has no active request.
THEOREM InitTypes == Spec => []InitTypeOK
  BY InitSafe, PTL DEF InitInv

\* The search flag and the search phases agree, so the branch of handleInit()
\* for any other phase during the search is dead code.
THEOREM SearchAgrees == Spec => []SearchIsConsistent
  BY InitSafe, PTL DEF InitInv

\* No command beyond AT and AT+CGMI goes to a modem that has not been recognised
\* since the last stop(), however often INIT is entered again.
THEOREM ContactComesFirst == Spec => []ContactBeforeUse
  BY InitSafe, PTL DEF InitInv

\* handleInit() can be left waiting with no deadline in one case only.
THEOREM OneCaseSticks == Spec => []OnlyOldContactSticks
  BY InitSafe, PTL DEF InitInv
=============================================================================
