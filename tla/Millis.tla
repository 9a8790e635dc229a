------------------------------- MODULE Millis -------------------------------
(***************************************************************************)
(* The Arduino millisecond counter.  millis() is a uint32_t that wraps;    *)
(* the firmware never compares two instants, it subtracts them             *)
(* (`now - startedAt`), which is right across one wrap.  Wrap stands for   *)
(* 2^32.                                                                   *)
(***************************************************************************)
EXTENDS Integers

CONSTANT Wrap

ASSUME WrapAssumption == Wrap \in Nat /\ Wrap > 1

Instant == 0 .. Wrap - 1

\* One millisecond later, in uint32_t.
Later(t) == IF t = Wrap - 1 THEN 0 ELSE t + 1

\* `to - from` in uint32_t.
Elapsed(from, to) == IF from <= to THEN to - from ELSE to + Wrap - from
=============================================================================
