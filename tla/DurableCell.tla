----------------------------- MODULE DurableCell -----------------------------
(***************************************************************************)
(* What FSManager::writeJsonAtomicStream() promises of one file: a write   *)
(* takes effect at one instant or not at all, and its answer says which.   *)
(* Two things it does not promise.  A volume that takes only part of the   *)
(* new version goes unnoticed: that part is what takes effect, and the     *)
(* answer is the same.  And a power cut ends the write under way; the code *)
(* does not keep the file through it, so the cut leaves the old version,   *)
(* the new one or no file.  The second failure of the volume voids the     *)
(* promise.                                                                *)
(***************************************************************************)
CONSTANTS Versions, Absent, Torn

VARIABLES
  value,    \* the version a reader is entitled to
  pending,  \* the version being written, Absent between writes
  short,    \* the volume has taken only part of it
  taken,    \* the write under way has taken effect
  answer,   \* what the last write returned; "cut" when it never did
  void      \* the volume has failed twice

vars == <<value, pending, short, taken, answer, void>>

Init ==
  /\ value \in Versions \cup {Absent}
  /\ pending = Absent /\ short = FALSE /\ taken = FALSE
  /\ answer = "none" /\ void = FALSE

Begin(v) ==
  /\ pending = Absent
  /\ pending' = v
  /\ UNCHANGED <<value, short, taken, answer>>

Shorten ==
  /\ pending # Absent /\ ~short /\ ~taken
  /\ short' = TRUE
  /\ UNCHANGED <<value, pending, taken, answer>>

TakesEffect == value' = IF short THEN Torn ELSE pending

Take ==
  /\ pending # Absent /\ ~taken
  /\ TakesEffect
  /\ taken' = TRUE /\ short' = FALSE
  /\ UNCHANGED <<pending, answer>>

\* The last step may also be the one that takes effect.
End ==
  /\ pending # Absent
  /\ pending' = Absent /\ taken' = FALSE /\ short' = FALSE
  /\ \/ taken /\ answer' = "true" /\ UNCHANGED value
     \/ ~taken /\ answer' = "true" /\ TakesEffect
     \/ ~taken /\ answer' = "false" /\ UNCHANGED value

Cut ==
  /\ pending' = Absent /\ taken' = FALSE /\ short' = FALSE /\ answer' = "cut"
  /\ \/ UNCHANGED value
     \/ pending # Absent /\ value' = Absent

Kept == Shorten \/ Take \/ End \/ Cut \/ \E v \in Versions : Begin(v)

Next == void' \/ (UNCHANGED void /\ Kept)

Spec == Init /\ [][Next]_vars
=============================================================================
