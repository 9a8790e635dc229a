------------------------------ MODULE GsmInit ------------------------------
(***************************************************************************)
(* INIT, the bring-up of the modem: contact at the expected baud rate, the *)
(* search for another one, the stored rate, what can be resumed, the       *)
(* modem's settings.  The states beyond INIT are one state here, "LINK",   *)
(* that keeps the AT session busy and may come back; GsmLink opens it.     *)
(***************************************************************************)
EXTENDS AtSession, GsmWaiter

CONSTANTS
  MAX_RETRIES, INIT_CGATT_RETRY_MAX,
  BaudCandidates      \* kBaudCandidateCount

ASSUME InitAssumption ==
  MAX_RETRIES \in Nat \ {0} /\ INIT_CGATT_RETRY_MAX \in Nat /\ BaudCandidates \in Nat \ {0}

VARIABLES
  state,    \* _state
  sent,     \* _lastCommandTime # 0
  retry,    \* _retryCount
  aw,       \* the waiter
  at,       \* _stack.at
  phase,    \* _initPhase
  hold,     \* a wait runs: the first 5 s, the quiet 20 s, a settle time, a cooldown
  seen,     \* what the response buffer holds: "SIMCOM", "IPR"
  creg,     \* _cregStat is 1 or 5
  sess      \* what gsmResetSessionAfterStop() resets

talk == <<state, sent, retry, aw, at>>
memory == <<phase, hold, seen, creg, sess>>
vars == <<talk, memory>>

States == {"IDLE", "INIT", "LINK"}
HypPhases == {"HypSendAt", "HypAwaitAt", "HypAwaitCgmi"}
ContactWaits == {"HypAwaitAt", "HypAwaitCgmi", "BsAwaitAt", "BsAwaitCgmi"}
SearchPhases == {"BsCooldown", "BsSettle", "BsSendAt", "BsAwaitAt", "BsAwaitCgmi"}
AwaitPhases == ContactWaits \cup {"EarlyAteWait", "DIprWait", "DLockWaitIpr", "DLockWaitW",
                 "DLockAwaitVerifyAt", "CCregWait", "CCgattWait", "CSapbrWait"}
ConfigPhases == {"ModAte", "ModCmee", "ModCreg2"}
GsmInitPhase == {"None", "EarlyAteSend", "DIprQ", "CCreg", "CCgatt", "CCgattBackoff", "CSapbr"}
                  \cup HypPhases \cup SearchPhases \cup AwaitPhases \cup ConfigPhases

\* gsmResetSessionAfterStop().  fallback: the 60 s after the first AT.
NewSession == [verified |-> FALSE, fallback |-> "unset", search |-> FALSE, idx |-> 0,
               iprKnown |-> FALSE, target |-> "REGISTERING", cgatt |-> 0]

Init ==
  /\ state = "IDLE" /\ sent = FALSE /\ retry = 0 /\ aw = NoAwait /\ at = Fresh
  /\ phase = "None" /\ hold = FALSE /\ seen = {} /\ creg = FALSE /\ sess = NewSession

-----------------------------------------------------------------------------
\* The head of a pass: at.tick(), then its result.
Ticked == Tick(at)
Drained == TakeResult(Ticked)
Result == IF Ticked.state = "Done" THEN Ticked.res ELSE "none"
Heeded == Absorbs(aw, Result)
Ok == Heeded.ok
Err == Heeded.err
Late == IsLate(aw)
Settled == Ok \/ Err \/ Late

\* sendAt(): a request into the queue, the waiter set.
GsmRequest == Request("plain", "Ok")
SendOn(s, kind) == at' = Enqueue(s, GsmRequest) /\ aw' = Awaits(kind) /\ sent' = TRUE
Send(kind) == SendOn(Drained, kind)

\* A pass that only absorbs the result, and one that resets the waiter.
Absorb == at' = Drained /\ aw' = Heeded
Forget == at' = Drained /\ aw' = NoAwait

\* changeState()
Enter(s) == state' = s /\ aw' = NoAwait
EntersInit == Enter("INIT") /\ sent' = FALSE /\ phase' = "HypSendAt" /\ seen' = {}

\* begin() of CellularCore::service() and stop() of CellularCore::suspend().
Begin ==
  /\ state = "IDLE" /\ EntersInit /\ sess' = NewSession /\ hold' = TRUE
  /\ UNCHANGED <<retry, at, creg>>

Stop ==
  /\ state # "IDLE" /\ Enter("IDLE") /\ sent' = FALSE /\ retry' = 0
  /\ phase' = "None" /\ seen' = {} /\ sess' = NewSession /\ hold' = FALSE
  /\ UNCHANGED <<at, creg>>

\* Beyond INIT: passes that send or absorb, then a restart out of ERROR or a
\* reboot of the modem.  Neither touches the session.
LinkPasses ==
  /\ state = "LINK"
  /\ \/ \E kind \in {"NONE", "OK"} : Send(kind)
     \/ Absorb /\ UNCHANGED sent
     \/ /\ at' = EnqueueHigh(Drained, Request("CFUN", "AnyLine"))    \* recovery
        /\ aw' = Heeded /\ UNCHANGED sent
  /\ UNCHANGED <<state, retry, phase, hold, seen, creg, sess>>

LinkReturns ==
  /\ state = "LINK" /\ EntersInit /\ retry' \in {0, MAX_RETRIES}
  /\ \/ at' = Drained /\ hold' = FALSE                          \* begin() from ERROR
     \/ at' = Enqueue(Drained, GsmRequest) /\ hold' = TRUE      \* AT+CFUN=1,1
  /\ UNCHANGED <<creg, sess>>

-----------------------------------------------------------------------------
\* One pass of handleInit() in phase p, past the waits at its head.
\* The hypothesis window closes 60 s after the first AT without contact.
\* Slip: the window is looked at before an AT is sent only.
FallsBackAtSend ==
  ~sess.search /\ ~sess.verified /\ sess.fallback = "old" /\ phase = "HypSendAt"

FallsBack == ~sess.search /\ ~sess.verified /\ sess.fallback = "old" /\ phase \in HypPhases
InInit(p) == state = "INIT" /\ ~hold /\ phase = p /\ ~FallsBack
SameInit == UNCHANGED <<state, creg>>
To(p) == phase' = p
Advance(p) == Forget /\ seen' = {} /\ sent' = FALSE /\ To(p) /\ SameInit /\ UNCHANGED retry

StartSearch ==
  /\ state = "INIT" /\ ~hold /\ FallsBack
  /\ at' = Fresh /\ aw' = NoAwait /\ sent' = FALSE /\ retry' = 0
  /\ sess' = [sess EXCEPT !.search = TRUE, !.idx = 0] /\ hold' = TRUE /\ To("BsSettle")
  /\ SameInit /\ UNCHANGED seen

HypSendAt ==
  /\ InInit("HypSendAt") /\ Send("OK") /\ To("HypAwaitAt")
  /\ sess' = [sess EXCEPT !.fallback = IF @ = "unset" THEN "young" ELSE @]
  /\ SameInit /\ UNCHANGED <<retry, seen, hold>>

\* AT, then AT+CGMI: an answer that does not name the maker fails too.
WrongMaker == phase \in {"HypAwaitCgmi", "BsAwaitCgmi"} /\ "SIMCOM" \notin seen
ContactFails == Err \/ (Ok /\ WrongMaker) \/ (~Ok /\ Late)
ContactHolds == ~Err /\ Ok /\ ~WrongMaker

\* After the window the phase is kept and nothing is left to wait for.
HypKeepsPhase == sess.fallback = "old"
HypFails ==
  /\ phase \in {"HypAwaitAt", "HypAwaitCgmi"} /\ InInit(phase) /\ ContactFails
  /\ Forget /\ seen' = {}
  /\ IF HypKeepsPhase
     THEN /\ retry' = IF retry < MAX_RETRIES THEN retry + 1 ELSE retry    \* bounded here
          /\ UNCHANGED <<phase, sent>>
     ELSE /\ retry' = IF retry + 1 >= MAX_RETRIES THEN 0 ELSE retry + 1
          /\ sent' = FALSE /\ To("HypSendAt")
  /\ SameInit /\ UNCHANGED <<sess, hold>>

\* Slip: an OK is contact enough.
AnyMaker == "EarlyAteSend"

MakerPhase == IF phase = "HypAwaitAt" THEN "HypAwaitCgmi" ELSE "BsAwaitCgmi"

AsksMaker ==
  /\ phase \in {"HypAwaitAt", "BsAwaitAt"} /\ InInit(phase) /\ ContactHolds
  /\ Send("OK") /\ seen' = {}
  /\ To(MakerPhase)
  /\ SameInit /\ UNCHANGED <<retry, sess, hold>>

\* Slip: the search is not switched off.
ContactInSearch == [sess EXCEPT !.verified = TRUE]

Contact == [sess EXCEPT !.verified = TRUE, !.search = FALSE]

Verified ==
  /\ phase \in {"HypAwaitCgmi", "BsAwaitCgmi"} /\ InInit(phase) /\ ContactHolds
  /\ Forget /\ seen' = {} /\ sent' = FALSE /\ retry' = 0 /\ To("EarlyAteSend")
  /\ sess' = Contact
  /\ SameInit /\ UNCHANGED hold

\* The search: one rate after another, a cooldown after the last.
SearchWaitsOver ==
  /\ phase \in {"BsCooldown", "BsSettle"} /\ InInit(phase) /\ Absorb
  /\ IF phase = "BsCooldown"
     THEN sess' = [sess EXCEPT !.idx = 0] /\ hold' = TRUE /\ To("BsSettle") /\ UNCHANGED sent
     ELSE sent' = FALSE /\ To("BsSendAt") /\ UNCHANGED <<sess, hold>>
  /\ SameInit /\ UNCHANGED <<retry, seen>>

SearchSendAt ==
  /\ InInit("BsSendAt") /\ ~sent /\ Send("OK") /\ To("BsAwaitAt")
  /\ SameInit /\ UNCHANGED <<retry, seen, sess, hold>>

\* Slip: the last rate is left out.
LastRateEarly == sess.idx + 2 >= BaudCandidates

LastRate == sess.idx + 1 >= BaudCandidates

SearchFails ==
  /\ phase \in {"BsAwaitAt", "BsAwaitCgmi"} /\ InInit(phase) /\ ContactFails
  /\ Forget /\ seen' = {} /\ sent' = FALSE /\ hold' = TRUE
  /\ sess' = [sess EXCEPT !.idx = @ + 1]
  /\ To(IF LastRate THEN "BsCooldown" ELSE "BsSettle")
  /\ SameInit /\ UNCHANGED retry

-----------------------------------------------------------------------------
\* The steps that send one command, and those that go on whatever the answer.
WaitOf == [EarlyAteSend |-> "EarlyAteWait", CCreg |-> "CCregWait", CCgatt |-> "CCgattWait",
           CSapbr |-> "CSapbrWait", ModAte |-> "ModAte", ModCmee |-> "ModCmee",
           ModCreg2 |-> "ModCreg2"]
KindOf(p) == CASE p = "CCreg" -> "CREG" [] p = "CSapbr" -> "IP" [] OTHER -> "OK"

InitSends ==
  /\ phase \in DOMAIN WaitOf /\ InInit(phase) /\ ~sent
  /\ Send(KindOf(phase)) /\ To(WaitOf[phase])
  /\ SameInit /\ UNCHANGED <<retry, seen, sess, hold>>

After == [EarlyAteWait |-> "DIprQ", DLockAwaitVerifyAt |-> "CCreg", ModAte |-> "ModCmee",
          ModCmee |-> "ModCreg2"]

InitAdvances ==
  /\ phase \in DOMAIN After /\ InInit(phase) /\ sent /\ Settled /\ Advance(After[phase])
  /\ UNCHANGED <<sess, hold>>

\* AT+IPR? once per session; a wrong stored rate is written and verified.
AsksRate ==
  /\ InInit("DIprQ") /\ UNCHANGED <<retry, seen, sess, hold>> /\ SameInit
  /\ IF sess.iprKnown THEN Absorb /\ sent' = FALSE /\ To("CCreg")
     ELSE ~sent /\ Send("OK") /\ To("DIprWait")

RateAnswered ==
  /\ InInit("DIprWait") /\ Settled /\ sess' = [sess EXCEPT !.iprKnown = TRUE] /\ UNCHANGED hold
  /\ IF ~Err /\ Ok /\ "IPR" \notin seen
     THEN Send("OK") /\ seen' = {} /\ To("DLockWaitIpr") /\ SameInit /\ UNCHANGED retry
     ELSE Advance("CCreg")

RateLock ==
  /\ phase \in {"DLockWaitIpr", "DLockWaitW"} /\ InInit(phase) /\ Settled
  /\ UNCHANGED <<sess, hold>>
  /\ IF Err \/ Late THEN Advance("CCreg")
     ELSE /\ SameInit /\ seen' = {} /\ UNCHANGED retry
          /\ IF phase = "DLockWaitIpr" THEN Send("OK") /\ To("DLockWaitW")
             ELSE SendOn(Fresh, "OK") /\ To("DLockAwaitVerifyAt")

\* Resume: what is already registered and open is not set up again.
\* Slip: an answer is counted on.
RegistrationAnswered == Err \/ (Ok /\ aw.creg)

RegistrationKnown == Err \/ (Ok /\ aw.creg) \/ Late

RegistrationAsked ==
  /\ InInit("CCregWait") /\ RegistrationKnown /\ UNCHANGED hold
  /\ IF Err
     THEN Advance("ModAte") /\ sess' = [sess EXCEPT !.target = "REGISTERING"]
     ELSE Advance("CCgatt") /\ sess' = [sess EXCEPT !.cgatt = 0]

MoreTries == sess.cgatt < INIT_CGATT_RETRY_MAX

AttachAsked ==
  /\ InInit("CCgattWait") /\ Settled
  /\ \/ Ok /\ Advance("CSapbr") /\ sess' = [sess EXCEPT !.cgatt = 0] /\ UNCHANGED hold
     \/ /\ ~Ok /\ MoreTries
        /\ Forget /\ seen' = {} /\ sent' = TRUE /\ To("CCgattBackoff") /\ hold' = TRUE
        /\ sess' = [sess EXCEPT !.cgatt = @ + 1] /\ SameInit /\ UNCHANGED retry
     \/ ~Ok /\ ~MoreTries /\ Advance("CSapbr") /\ UNCHANGED <<sess, hold>>

AttachAgain ==
  /\ InInit("CCgattBackoff") /\ Absorb /\ sent' = FALSE /\ To("CCgatt")
  /\ SameInit /\ UNCHANGED <<retry, seen, sess, hold>>

BearerAsked ==
  /\ InInit("CSapbrWait") /\ (Settled \/ aw.ip) /\ Advance("ModAte") /\ UNCHANGED hold
  /\ sess' = [sess EXCEPT !.target = IF ~creg THEN "REGISTERING"
                                     ELSE IF aw.ip /\ ~Err /\ ~Late THEN "READY"
                                     ELSE "GPRS_SETUP"]

\* The end of INIT; a resumed READY polls the signal at once.
InitDone ==
  /\ InInit("ModCreg2") /\ sent /\ Settled
  /\ Enter("LINK") /\ retry' = 0 /\ seen' = {}
  /\ IF sess.target = "READY" THEN at' = Enqueue(Drained, GsmRequest) /\ sent' = TRUE
     ELSE at' = Drained /\ sent' = FALSE
  /\ UNCHANGED <<phase, creg, sess, hold>>

\* The passes in which nothing is due yet.
Unanswered ==
  /\ phase \in AwaitPhases \cup ConfigPhases /\ ~FallsBack /\ sent /\ ~aw.ip
  /\ IF phase = "CCregWait" THEN ~RegistrationKnown ELSE ~Settled
InitWaits ==
  /\ state = "INIT" /\ (hold \/ Unanswered)
  /\ Absorb /\ UNCHANGED <<sent, phase, retry, seen, sess, hold>> /\ SameInit

Update ==
  \/ StartSearch \/ HypSendAt \/ HypFails \/ AsksMaker \/ Verified
  \/ SearchWaitsOver \/ SearchSendAt \/ SearchFails
  \/ InitSends \/ InitAdvances \/ AsksRate \/ RateAnswered \/ RateLock
  \/ RegistrationAsked \/ AttachAsked \/ AttachAgain \/ BearerAsked \/ InitDone \/ InitWaits
  \/ LinkPasses

-----------------------------------------------------------------------------
\* What a modem, or noise on the line, may say; AtSession::onLine comes first.
ModemLines == {"OK", "ERROR", "NO CARRIER", "+CREG: 0", "+CREG: 1", "+SAPBR: ip",
               "SIMCOM", "IPR"}

Line ==
  /\ state # "IDLE" /\ UNCHANGED <<state, sent, retry, phase, hold, sess>>
  /\ \E l \in ModemLines :
       /\ at' = OnLine(at, l) /\ aw' = HearsLine(aw, l) /\ creg' = CregAfter(creg, l)
       /\ seen' = IF state = "INIT" THEN seen \cup ({l} \cap {"SIMCOM", "IPR"}) ELSE seen

\* millis() passes a deadline that is set.
AwaitElapses == /\ aw.kind # "NONE" /\ aw' = PassesDeadline(aw)
                /\ UNCHANGED <<state, sent, retry, at, memory>>
AtElapses == at.state = "Waiting" /\ at' = TimeOut(at)
             /\ UNCHANGED <<state, sent, retry, aw, memory>>
HoldElapses == hold /\ hold' = FALSE /\ UNCHANGED <<talk, phase, seen, creg, sess>>
WindowCloses == /\ sess.fallback = "young" /\ sess' = [sess EXCEPT !.fallback = "old"]
                /\ UNCHANGED <<talk, phase, hold, seen, creg>>
TimePasses == AwaitElapses \/ AtElapses \/ HoldElapses \/ WindowCloses

\* While a socket is open or opening, the transport ticks first and takes the
\* result (Sim800TcpTransport::tick): the controller never sees it.
TransportTakes == /\ state # "IDLE" /\ at.state = "Done" /\ at' = TakeResult(at)
                  /\ UNCHANGED <<state, sent, retry, aw, memory>>

Next == Begin \/ Stop \/ LinkReturns \/ Update \/ Line \/ TimePasses \/ TransportTakes

Spec == Init /\ [][Next]_vars

\* Core::update() runs for ever, and so does the clock; the modem need not answer.
Fairness ==
  /\ WF_vars(Update) /\ WF_vars(AwaitElapses)
  /\ WF_vars(HoldElapses) /\ WF_vars(WindowCloses)

FairSpec == Spec /\ Fairness

-----------------------------------------------------------------------------
\* The session, the controller and the AT session have their types, and at most
\* one request is active in the AT session.
Waiter == [kind : AwaitKinds, ok : BOOLEAN, err : BOOLEAN, creg : BOOLEAN, ip : BOOLEAN,
           late : BOOLEAN]
Session == [verified : BOOLEAN, fallback : {"unset", "young", "old"}, search : BOOLEAN,
            idx : 0..BaudCandidates, iprKnown : BOOLEAN,
            target : {"REGISTERING", "GPRS_SETUP", "READY"}, cgatt : 0..INIT_CGATT_RETRY_MAX]
InitTypeOK ==
  /\ state \in States /\ sent \in BOOLEAN /\ retry \in 0..MAX_RETRIES
  /\ aw \in Waiter /\ phase \in GsmInitPhase /\ hold \in BOOLEAN
  /\ seen \in SUBSET {"SIMCOM", "IPR"} /\ creg \in BOOLEAN /\ sess \in Session
  /\ at.state = "Idle" => at.active = NoRequest

\* The search for a baud rate runs exactly in its own phases, never once the
\* modem has been recognised, and the default branch of the search switch,
\* which would fall back to the hypothesis, is never taken.
SearchIsConsistent ==
  /\ state = "INIT" => (sess.search <=> phase \in SearchPhases)
  /\ sess.search => ~sess.verified

\* Beyond the hypothesis and the search, and beyond INIT, the modem has answered
\* AT and named its maker since the last stop() (_verifiedModemContactSinceStop),
\* also after restarts out of ERROR and reboots.
ContactBeforeUse ==
  state = "LINK" \/ (state = "INIT" /\ phase \notin HypPhases \cup SearchPhases)
    => sess.verified

\* Stuck: a phase that waits for an answer, with no waiter and so no deadline.
\* It happens in one case only: contact was made in this session, the window of
\* the hypothesis has closed, and the modem fails AT or AT+CGMI when INIT is
\* entered again (HypAwaitAt keeps its phase, and the search needs a session
\* without contact).  stop() ends it, or the result of an older command.
Stuck == state = "INIT" /\ phase \in AwaitPhases /\ aw.kind = "NONE"
OnlyOldContactSticks ==
  Stuck => sess.verified /\ sess.fallback = "old" /\ phase \in HypPhases

\* But for that case INIT goes on whatever the modem does or does not answer:
\* it ends, or it becomes the search.
InitProgresses == state = "INIT" ~> (state # "INIT" \/ sess.search \/ Stuck)

\* The search comes round to every baud rate while no modem is recognised.
SearchTriesAll ==
  \A i \in 0..(BaudCandidates - 1) :
    sess.search ~> (~sess.search \/ (phase = "BsSendAt" /\ sess.idx = i))
=============================================================================
