----------------------------- MODULE StarterDuty -----------------------------
(***************************************************************************)
(* What the starter motor is promised, whatever program runs and whoever   *)
(* preempts it: one starter step presses the starter at most as often as   *)
(* it asks for, whatever the step before had left, and no press lasts      *)
(* longer than Limit.                                                      *)
(***************************************************************************)
EXTENDS Integers

CONSTANTS Limit, MaxPresses

VARIABLES
  on,      \* the starter relay is energised
  onFor,   \* for how long it has been
  begun,   \* the step has pressed the starter
  asked,   \* presses the step asks for, 0 if it is no starter step
  spare    \* presses the step may still make

duty == <<on, onFor, begun, asked, spare>>

DutyInit == ~on /\ onFor = 0 /\ ~begun /\ asked = 0 /\ spare = 0

FirstPress ==
  /\ ~on /\ ~begun /\ asked > 0
  /\ on' = TRUE /\ onFor' = 0 /\ begun' = TRUE
  /\ spare' = asked - 1
  /\ UNCHANGED asked

PressAgain ==
  /\ ~on /\ begun /\ spare > 0
  /\ on' = TRUE /\ onFor' = 0
  /\ spare' = spare - 1
  /\ UNCHANGED <<begun, asked>>

Release ==
  /\ on
  /\ on' = FALSE /\ onFor' = 0
  /\ UNCHANGED <<begun, asked, spare>>

\* The step is over, done, given up, aborted or preempted, and the next begins.
StepOver ==
  /\ on' = FALSE /\ onFor' = 0 /\ begun' = FALSE /\ spare' = 0
  /\ asked' \in 0 .. MaxPresses

Wear ==
  /\ on /\ onFor < Limit
  /\ onFor' = onFor + 1
  /\ UNCHANGED <<on, begun, asked, spare>>

DutyNext == FirstPress \/ PressAgain \/ Release \/ StepOver \/ Wear

DutySpec == DutyInit /\ [][DutyNext]_duty
=============================================================================
