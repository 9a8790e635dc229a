----------------------------- MODULE GsmWaiter -----------------------------
(***************************************************************************)
(* The waiter of the modem controller for the answer to its last command:  *)
(* what is awaited, the flags the lines set, and whether its deadline has  *)
(* passed.  A waiter is a record; its operations are operators on it.      *)
(***************************************************************************)
EXTENDS Naturals

AwaitKinds == {"NONE", "OK", "CREG", "IP"}

\* resetAwait(), beginAwait(); sendAt() begins the waiter of its kind.
NoAwait == [kind |-> "NONE", ok |-> FALSE, err |-> FALSE, creg |-> FALSE, ip |-> FALSE,
            late |-> FALSE]
Awaits(kind) == [NoAwait EXCEPT !.kind = kind]

\* handleAwaitLine(): the waiter believes any line, whoever it answers.
HearsLine(w, l) ==
  IF w.kind = "NONE" THEN w
  ELSE [w EXCEPT !.ok = @ \/ l = "OK", !.err = @ \/ l \in {"ERROR", "NO CARRIER"},
                 !.creg = @ \/ (w.kind = "CREG" /\ l \in {"+CREG: 1", "+CREG: 0"}),
                 !.ip = @ \/ (w.kind = "IP" /\ l = "+SAPBR: ip")]

\* gsmAbsorbAtSessionResult()
Absorbs(w, res) ==
  [w EXCEPT !.ok = @ \/ res = "ok", !.err = @ \/ res \in {"error", "timeout"}]

\* awaitTimedOut()
IsLate(w) == w.kind # "NONE" /\ w.late
PassesDeadline(w) == [w EXCEPT !.late = w.kind # "NONE"]

\* handleUrc() on a +CREG line: what is known of the registration.
CregAfter(creg, l) == CASE l = "+CREG: 1" -> TRUE [] l = "+CREG: 0" -> FALSE [] OTHER -> creg
=============================================================================
