------------------------------ MODULE AtSession ------------------------------
(***************************************************************************)
(* The queue of AT commands between the controllers and the modem: two     *)
(* rings of requests, one active request, one result at a time.  A session *)
(* is a record; every operation of the class is an operator on it.  A      *)
(* deadline may pass between any two lines: TimeOut is the tick that finds *)
(* it passed.                                                              *)
(***************************************************************************)
EXTENDS Naturals, Sequences

CONSTANTS QSIZE, HQSIZE     \* sizes of the two rings

ASSUME QueueAssumption == QSIZE \in Nat \ {0} /\ HQSIZE \in Nat \ {0}

\* A request is known by its tag and by the answer it expects.
Request(tag, expect) == [tag |-> tag, expect |-> expect]
NoRequest == Request("none", "None")

\* reset(): everything queued, active or finished is forgotten.
Fresh == [state |-> "Idle", active |-> NoRequest, q |-> <<>>, hq |-> <<>>, res |-> "none"]

\* enqueue(), enqueueHigh(): a full ring drops the request; no caller looks.
Enqueue(s, r) == IF Len(s.q) < QSIZE THEN [s EXCEPT !.q = Append(@, r)] ELSE s
EnqueueHigh(s, r) == IF Len(s.hq) < HQSIZE THEN [s EXCEPT !.hq = Append(@, r)] ELSE s

\* startNext_() of an idle session: the high ring first.
Starts(s) == s.state = "Idle" /\ (s.hq # <<>> \/ s.q # <<>>)
StartNext(s) ==
  LET high == s.hq # <<>> IN
  [s EXCEPT !.state = "Waiting", !.active = IF high THEN Head(s.hq) ELSE Head(s.q),
            !.hq = IF high THEN Tail(@) ELSE @, !.q = IF high THEN @ ELSE Tail(@)]

\* finish_()
Finish(s, res) == [s EXCEPT !.state = "Done", !.res = res]

\* tick(): start the next command, or give up the one whose deadline passed.
Tick(s) == IF Starts(s) THEN StartNext(s) ELSE s
TimeOut(s) == IF s.state = "Waiting" THEN Finish(s, "timeout") ELSE s

\* onLine(): whatever command the line belongs to, it completes the active one.
OnLine(s, line) ==
  IF s.state # "Waiting" THEN s
  ELSE IF s.active.expect = "Ok" /\ line = "OK" THEN Finish(s, "ok")
  ELSE IF s.active.expect = "Ok" /\ line \in {"ERROR", "+CME ERROR"} THEN Finish(s, "error")
  ELSE IF s.active.expect = "AnyLine" THEN Finish(s, "ok")
  ELSE s

\* onByte(): the prompt completes a CIPSEND; no line does.
OnPrompt(s) == IF s.state = "Waiting" /\ s.active.expect = "Prompt" THEN Finish(s, "ok") ELSE s

\* takeResult()
TakeResult(s) ==
  IF s.state # "Done" THEN s
  ELSE [s EXCEPT !.state = "Idle", !.active = NoRequest, !.res = "none"]
=============================================================================
