------------------------------ MODULE GsmLink ------------------------------
(***************************************************************************)
(* The modem controller beyond INIT: registration, the bearer, READY with  *)
(* its reattaches and the reboot a user asks for, and the recovery from    *)
(* ERROR.  INIT is one state here that ends in any of the states it can    *)
(* resume at; GsmInit opens it.  The AT session is open: the result of any *)
(* command may come at any pass.                                           *)
(***************************************************************************)
EXTENDS GsmWaiter

CONSTANTS
  MAX_RETRIES, TCP_CLOSED_REATTACH_THRESHOLD,
  HasUser              \* config: apn_user is not empty

ASSUME LinkAssumption ==
  /\ MAX_RETRIES \in Nat \ {0} /\ TCP_CLOSED_REATTACH_THRESHOLD \in Nat \ {0}
  /\ HasUser \in BOOLEAN

VARIABLES
  state,    \* _state
  sent,     \* _lastCommandTime # 0
  retry,    \* _retryCount
  aw,       \* the waiter
  creg,     \* _cregStat is 1 or 5
  apnStep,  \* _gprsCfgStep
  rec,      \* recovery: cooldown, restart pending, bring-up over 5 min
  req       \* what READY has to do: reattach, reboot, the URCs seen, CLOSED in a row

ctl == <<state, sent, retry, aw>>
vars == <<ctl, creg, apnStep, rec, req>>

BringupStates == {"REGISTERING", "GPRS_SETUP", "GPRS_ATTACH", "GPRS_GETIP"}
GSMState == {"IDLE", "INIT", "READY", "ERROR"} \cup BringupStates

\* cooling: _reattachCooldownUntilMs is set and ahead.
NoRequests == [reattach |-> FALSE, cooling |-> FALSE, pdp |-> FALSE, closed |-> FALSE,
               streak |-> 0, reboot |-> FALSE, rebootStep |-> 0]

Init ==
  /\ state = "IDLE" /\ sent = FALSE /\ retry = 0 /\ aw = NoAwait
  /\ creg = FALSE /\ apnStep = 0 /\ req = NoRequests
  /\ rec = [cooling |-> FALSE, restart |-> FALSE, aged |-> FALSE]

-----------------------------------------------------------------------------
\* sendAt(), changeState(), awaitTimedOut()
Send(kind) == aw' = Awaits(kind) /\ sent' = TRUE
Enter(s) == state' = s /\ aw' = NoAwait /\ sent' = FALSE
Late == IsLate(aw)

\* Slip: silence is no failure.
FailsOnError == aw.err

Fails == aw.err \/ (~aw.ok /\ Late)
Holds == ~aw.err /\ aw.ok

\* begin() of CellularCore::service(); stop() of suspend() keeps the requests.
Begin ==
  /\ state = "IDLE" /\ Enter("INIT") /\ rec' = [rec EXCEPT !.aged = FALSE]
  /\ UNCHANGED <<retry, creg, apnStep, req>>

Stop ==
  /\ state # "IDLE" /\ Enter("IDLE") /\ retry' = 0 /\ UNCHANGED rec
  /\ UNCHANGED <<creg, apnStep, req>>

\* CellularCore::service() after a pass that left the modem READY; POST
\* /modem/reboot at any time.
Asks(r) == r # req /\ req' = r /\ UNCHANGED <<ctl, creg, apnStep, rec>>
RequestReattach == state = "READY" /\ Asks([req EXCEPT !.reattach = TRUE])
RequestModemReboot == Asks([req EXCEPT !.reboot = TRUE])

-----------------------------------------------------------------------------
SameLink == UNCHANGED <<creg, rec>>
Stays == UNCHANGED <<state, retry>>

\* changeState(READY), with the poll of the signal that follows it.
EntersReady ==
  /\ state' = "READY" /\ aw' = NoAwait /\ sent' = TRUE /\ retry' = 0
  /\ req' = [req EXCEPT !.cooling = FALSE]

\* INIT ends; GsmInit shows where and that it does.
InitEnds ==
  /\ state = "INIT" /\ SameLink /\ UNCHANGED apnStep
  /\ \/ EntersReady
     \/ \E s \in {"REGISTERING", "GPRS_SETUP"} : Enter(s) /\ retry' = 0 /\ UNCHANGED req

\* REGISTERING to GPRS_GETIP: a failure counts, the last one ends in ERROR.

GivesUp == retry + 1 >= MAX_RETRIES
Retry(kind) ==
  /\ retry' = retry + 1
  /\ IF GivesUp THEN Enter("ERROR") ELSE Send(kind) /\ UNCHANGED state
Onward(s) == retry' = 0 /\ Enter(s)

Registering ==
  /\ state = "REGISTERING" /\ SameLink /\ UNCHANGED <<req, apnStep>>
  /\ \/ creg /\ Onward("GPRS_SETUP")
     \/ ~creg /\ ~sent /\ Send("CREG") /\ Stays
     \/ ~creg /\ sent /\ (aw.err \/ Late) /\ Retry("CREG")

\* The APN commands; a failure starts again with the first of them.  After silence
\* the code leaves the waiter as it is, and the next pass sets it anew.

StartsOver == aw' = NoAwait /\ sent' = FALSE

LastApnStep == IF HasUser THEN 3 ELSE 1
GprsSetup ==
  /\ state = "GPRS_SETUP" /\ SameLink /\ UNCHANGED req
  /\ \/ ~sent /\ apnStep' = 0 /\ Send("OK") /\ Stays
     \/ /\ sent /\ Fails /\ retry' = retry + 1 /\ UNCHANGED apnStep
        /\ IF GivesUp THEN Enter("ERROR") ELSE StartsOver /\ UNCHANGED state
     \/ sent /\ Holds /\ apnStep < LastApnStep /\ apnStep' = apnStep + 1 /\ Send("OK") /\ Stays
     \/ sent /\ Holds /\ apnStep = LastApnStep /\ apnStep' = 3 /\ Onward("GPRS_ATTACH")

GprsAttach ==
  /\ state = "GPRS_ATTACH" /\ SameLink /\ UNCHANGED <<req, apnStep>>
  /\ \/ ~sent /\ Send("OK") /\ Stays
     \/ sent /\ Fails /\ Retry("OK")
     \/ sent /\ Holds /\ Onward("GPRS_GETIP")

\* READY needs the address line only; the final OK may still be under way.
GprsGetIp ==
  /\ state = "GPRS_GETIP" /\ SameLink /\ UNCHANGED apnStep
  /\ \/ ~sent /\ Send("IP") /\ Stays /\ UNCHANGED req
     \/ sent /\ (aw.err \/ (~aw.ip /\ Late)) /\ Retry("IP") /\ UNCHANGED req
     \/ sent /\ ~aw.err /\ aw.ip /\ EntersReady

-----------------------------------------------------------------------------
\* READY: the requests in the order handleReady() looks at them.
\* Slip: only an OK closes the bearer.
ClosedByOk == aw.ok

BearerClosed == aw.ok \/ aw.err \/ Late

Rebooted == [req EXCEPT !.reboot = FALSE, !.rebootStep = 0]

ReadyReboots ==
  /\ state = "READY" /\ req.reboot /\ UNCHANGED <<creg, apnStep, rec, retry>>
  /\ \/ /\ req.rebootStep = 0 /\ req' = [req EXCEPT !.rebootStep = 1]
        /\ Send("OK") /\ UNCHANGED state
     \/ /\ req.rebootStep = 1 /\ BearerClosed /\ Enter("INIT")
        /\ req' = Rebooted

\* A reattach opens the bearer again; PDP DEACT and CLOSED often enough do it
\* at once and leave a request behind as well.
Reattaches == req.reattach /\ ~req.cooling
ToAttach(r) == req' = r /\ Enter("GPRS_ATTACH") /\ UNCHANGED <<creg, apnStep, rec, retry>>
Streak(young) == IF req.streak = 0 \/ ~young THEN 1 ELSE req.streak + 1
Enough(n) == n >= TCP_CLOSED_REATTACH_THRESHOLD
InReady == state = "READY" /\ ~req.reboot

Reattach ==
  /\ InReady /\ Reattaches
  /\ ToAttach([req EXCEPT !.reattach = FALSE, !.cooling = TRUE])

BearerLost ==
  /\ InReady /\ ~Reattaches /\ req.pdp
  /\ ToAttach([req EXCEPT !.pdp = FALSE, !.reattach = TRUE])

\* Otherwise a CLOSED is counted, and the polls that are due are sent.
ReadyPasses ==
  /\ InReady /\ ~Reattaches /\ ~req.pdp
  /\ \E young \in BOOLEAN :
       LET n == IF req.closed THEN Streak(young) ELSE req.streak
           counted == [req EXCEPT !.closed = FALSE, !.streak = n]
       IN IF req.closed /\ Enough(n)
          THEN ToAttach([counted EXCEPT !.streak = TCP_CLOSED_REATTACH_THRESHOLD,
                                        !.reattach = TRUE])
          ELSE /\ req' = counted /\ Stays /\ SameLink /\ UNCHANGED apnStep
               /\ UNCHANGED sent /\ aw' \in {aw, NoAwait}

-----------------------------------------------------------------------------
\* ERROR, past the cooldown: a pending restart, else recovery.  Of _recoveryLevel
\* only the age of the bring-up matters: levels 0 and 1 restart, every other one
\* resets the modem, and level 3 is never set, its assignment being after a return.

\* Slip: the age of the bring-up is looked at first.
RestartDueIfYoung == rec.restart /\ ~rec.aged

RestartDue == rec.restart

InError == state = "ERROR" /\ ~rec.cooling /\ UNCHANGED <<creg, retry, apnStep, req>>

ErrorRestarts ==                                                  \* begin()
  /\ InError /\ RestartDue /\ Enter("INIT")
  /\ rec' = [rec EXCEPT !.restart = FALSE]

ErrorRests ==                                                     \* level 1
  /\ InError /\ ~rec.restart /\ ~rec.aged /\ UNCHANGED <<state, aw, sent>>
  /\ rec' = [rec EXCEPT !.cooling = TRUE, !.restart = TRUE]

ErrorResets ==                                                    \* AT+CFUN=1,1
  /\ InError /\ ~rec.restart /\ rec.aged /\ UNCHANGED <<state, aw, sent>>
  /\ rec' = [rec EXCEPT !.cooling = TRUE]

\* One pass of update(); in every other state of the fields it changes nothing.
Update ==
  InitEnds \/ Registering \/ GprsSetup \/ GprsAttach \/ GprsGetIp
    \/ ReadyReboots \/ Reattach \/ BearerLost \/ ReadyPasses
    \/ ErrorRestarts \/ ErrorRests \/ ErrorResets

-----------------------------------------------------------------------------
\* What a modem, or noise on the line, may say.
ModemLines == {"OK", "ERROR", "+CREG: 0", "+CREG: 1", "+SAPBR: ip", "PDP DEACT", "CLOSED"}

Line ==
  /\ state # "IDLE" /\ UNCHANGED <<state, sent, retry, apnStep, rec>>
  /\ \E l \in ModemLines :
       /\ aw' = HearsLine(aw, l) /\ creg' = CregAfter(creg, l)
       /\ req' = [req EXCEPT !.pdp = @ \/ l = "PDP DEACT", !.closed = @ \/ l = "CLOSED"]

\* A pass absorbs the result of a command of its own, of an earlier state or of
\* the transport; in READY the transport takes it first (Sim800TcpTransport::tick).
ResultComes ==
  /\ state \notin {"IDLE", "INIT", "READY"}
  /\ \E res \in {"ok", "error", "timeout"} : aw' = Absorbs(aw, res)
  /\ UNCHANGED <<state, sent, retry, creg, apnStep, rec, req>>

\* millis() passes a deadline that is set.
AwaitElapses == /\ aw.kind # "NONE" /\ aw' = PassesDeadline(aw)
                /\ UNCHANGED <<state, sent, retry, creg, apnStep, rec, req>>
CooldownElapses == /\ rec.cooling /\ rec' = [rec EXCEPT !.cooling = FALSE]
                   /\ UNCHANGED <<ctl, creg, apnStep, req>>
\* The age of the bring-up passes 5 min, and falls back to 0 where millis() wraps.
BringupAges == /\ state # "IDLE" /\ rec' = [rec EXCEPT !.aged = ~@]
               /\ UNCHANGED <<ctl, creg, apnStep, req>>
BackoffElapses == /\ req.cooling /\ req' = [req EXCEPT !.cooling = FALSE]
                  /\ UNCHANGED <<ctl, creg, apnStep, rec>>

TimePasses == AwaitElapses \/ CooldownElapses \/ BringupAges \/ BackoffElapses

Next == Begin \/ Stop \/ RequestReattach \/ RequestModemReboot \/ Update \/ Line
          \/ ResultComes \/ TimePasses

Spec == Init /\ [][Next]_vars

\* Core::update() runs for ever, and so does the clock; the modem need not answer.
Fairness == WF_vars(Update) /\ WF_vars(AwaitElapses) /\ WF_vars(CooldownElapses)
              /\ WF_vars(BackoffElapses)

FairSpec == Spec /\ Fairness

-----------------------------------------------------------------------------
\* The fields have their types; a step of the reboot under way has been asked for.
Waiter == [kind : AwaitKinds, ok : BOOLEAN, err : BOOLEAN, creg : BOOLEAN, ip : BOOLEAN,
           late : BOOLEAN]
Recovery == [cooling : BOOLEAN, restart : BOOLEAN, aged : BOOLEAN]
Requests == [reattach : BOOLEAN, cooling : BOOLEAN, pdp : BOOLEAN, closed : BOOLEAN,
             streak : 0..TCP_CLOSED_REATTACH_THRESHOLD, reboot : BOOLEAN, rebootStep : 0..1]
LinkTypeOK ==
  /\ state \in GSMState /\ sent \in BOOLEAN /\ retry \in 0..MAX_RETRIES /\ aw \in Waiter
  /\ creg \in BOOLEAN /\ apnStep \in 0..3 /\ rec \in Recovery /\ req \in Requests
  /\ (req.rebootStep = 1 => req.reboot)

\* Every state of the bring-up is left within its budget of tries: the counter
\* that all of them share is fresh on each way into it, from INIT, from READY
\* by a reattach, and from one to the next.
RetryBudget == state \in BringupStates => retry < MAX_RETRIES

\* A command that was sent is waited for: no state of the bring-up counts on an
\* answer without a deadline.
AnswersHaveDeadline == state \in BringupStates /\ sent => aw.kind # "NONE"

\* So the bring-up comes to an end with a modem that answers nothing, errors, or
\* leftovers of earlier commands.
BringupSettles == state \in BringupStates ~> state \notin BringupStates

\* A restart that ERROR has decided on happens.
RestartHappens == (state = "ERROR" /\ rec.restart) ~> (state # "ERROR")

\* READY gives way to what it was asked for: a reattach once its cooldown has
\* passed, a lost bearer, a reboot; unless a reboot was cut short by stop().
RebootCutShort == req.rebootStep = 1 /\ aw.kind = "NONE"
RequestsServed ==
  (state = "READY" /\ (req.reattach \/ req.pdp \/ req.reboot) /\ ~RebootCutShort)
    ~> (state # "READY")
=============================================================================
