----------------------------- MODULE FlashCommit -----------------------------
(***************************************************************************)
(* FlashCommitCoordinator: work on the flash that the web has accepted     *)
(* waits in flags and in one slot until a tick() finds no program running. *)
(*                                                                         *)
(* tick() runs in the main loop; web callbacks run whenever it yields,     *)
(* which inside tick() is only while the CRC of a saved config is taken.   *)
(***************************************************************************)
EXTENDS FiniteSets, Integers

CONSTANTS
  Posts,         \* clients that POST JSON; also names the body each sends
  Kind,          \* Posts -> Kinds, the path a client posts to
  Ids,           \* program ids
  Target,        \* Posts -> Ids, the id in a posted program
  MaxPrograms    \* Limits::MAX_PROGRAMS

Kinds == {"config", "program"}
NoOp == <<"NONE">>
FsOps == {<<"RESET_CONFIG">>, <<"RESET_PROGRAMS">>} \cup ({"DELETE_PROGRAM"} \X Ids)

\* A body arrives in two pieces; a file is the set of pieces written to it.
Piece == Posts \X {1, 2}
Body(p) == {p} \X {1, 2}
Empty == {}      \* no file, or one with nothing in it

ASSUME FlashAssumption ==
  /\ Kind \in [Posts -> Kinds]
  /\ Target \in [Posts -> Ids]
  /\ MaxPrograms \in Nat

VARIABLES
  stage,           \* where tick() is: "loop" outside, "crc" at its yield
  running,         \* ProgramExecutor::isRunning()
  deferred,        \* deferredPosted{Config,Program}Apply_
  indexPhase,      \* deferredPostedProgramIndexPhase_
  op,              \* pendingFsOp_, with pendingProgramId_ for a deletion
  lastOk,          \* lastFlashOk_
  tmp,             \* HttpPostJson::TMP_CONFIG and TMP_PROGRAM
  config,          \* /config.json, Empty for the factory defaults
  programs,        \* ids that have a file under /programs
  index,           \* ids listed in /programs/index.json
  skipped          \* ghost: programs the last rebuild left out of it

queue == <<deferred, indexPhase, op>>
listing == <<index, skipped>>
store == <<config, programs, listing>>
flashVars == <<stage, running, queue, lastOk, tmp, store>>

\* rebuildProgramIndex() over files that it can read: the first MaxPrograms it
\* meets.
Listings(files) ==
  {s \in SUBSET files : Cardinality(s) = IF Cardinality(files) <= MaxPrograms
                                         THEN Cardinality(files) ELSE MaxPrograms}

FlashInit ==
  /\ stage = "loop"
  /\ running = FALSE
  /\ deferred = [k \in Kinds |-> FALSE]
  /\ indexPhase = FALSE
  /\ op = NoOp
  /\ lastOk = TRUE
  /\ tmp = [k \in Kinds |-> Empty]
  /\ config = Empty
  /\ programs \in SUBSET Ids
  /\ skipped \in SUBSET programs
  /\ index \in Listings(programs \ skipped)

IsPending == deferred["config"] \/ deferred["program"] \/ op # NoOp

Undefer(k) == deferred' = [deferred EXCEPT ![k] = FALSE]

Consume(k) == tmp' = [tmp EXCEPT ![k] = Empty]

\* rebuildProgramIndex(), which returns ok.  A file that does not open, or whose
\* header does not parse or names another id, is left out, and that is no
\* failure; neither is an index cut short by the volume, which lists nothing.
Rebuilt(files, ok) ==
  \/ /\ ok
     /\ \E unread \in SUBSET files :
          index' \in Listings(files \ unread) /\ skipped' = unread
  \/ ~ok /\ UNCHANGED listing

-----------------------------------------------------------------------------
\* First part of tick(): the posted config, written as a whole here (AtomicFile
\* opens the write).  The flag stays up while the CRC of the new file is taken.
ConfigWritten ==
  /\ stage = "loop" /\ ~running /\ deferred["config"]
  /\ tmp["config"] # Empty
  /\ config' = tmp["config"]
  /\ Consume("config")
  /\ stage' = "crc"
  /\ UNCHANGED <<running, queue, lastOk, programs, listing>>

ConfigDone ==
  /\ stage = "crc"
  /\ lastOk' = TRUE
  /\ Undefer("config")
  /\ stage' = "program"
  /\ UNCHANGED <<running, indexPhase, op, tmp, store>>

\* Slip: the flag stays up when the file is refused.
ConfigRefusedKept ==
  /\ stage = "loop" /\ ~running /\ deferred["config"]
  /\ Consume("config")
  /\ lastOk' = FALSE
  /\ stage' = "program"
  /\ UNCHANGED <<running, queue, store>>

\* The file does not parse or validate, or cannot be written.
ConfigRefused ==
  /\ stage = "loop" /\ ~running /\ deferred["config"]
  /\ Consume("config")
  /\ lastOk' = FALSE
  /\ Undefer("config")
  /\ stage' = "program"
  /\ UNCHANGED <<running, indexPhase, op, store>>

ConfigIdle ==
  /\ stage = "loop" /\ ~running /\ ~deferred["config"]
  /\ stage' = "program"
  /\ UNCHANGED <<running, queue, lastOk, tmp, store>>

-----------------------------------------------------------------------------
\* Second part of tick(): the posted program, its file in one tick and the
\* index in a later one.
ProgramWritten ==
  /\ stage = "program" /\ deferred["program"] /\ ~indexPhase
  /\ \E piece \in tmp["program"] : programs' = programs \cup {Target[piece[1]]}
  /\ Consume("program")
  /\ indexPhase' = TRUE
  /\ stage' = "loop"
  /\ UNCHANGED <<running, deferred, op, lastOk, config, listing>>

ProgramRefused ==
  /\ stage = "program" /\ deferred["program"] /\ ~indexPhase
  /\ Consume("program")
  /\ lastOk' = FALSE
  /\ Undefer("program")
  /\ stage' = "op"
  /\ UNCHANGED <<running, indexPhase, op, store>>

\* Slip: the result of rebuildProgramIndex() is not looked at.
ProgramIndexedUnchecked(ok) ==
  /\ stage = "program" /\ deferred["program"] /\ indexPhase
  /\ Rebuilt(programs, ok)
  /\ lastOk' = TRUE
  /\ Undefer("program")
  /\ indexPhase' = FALSE
  /\ stage' = "op"
  /\ UNCHANGED <<running, op, tmp, config, programs>>

ProgramIndexed(ok) ==
  /\ stage = "program" /\ deferred["program"] /\ indexPhase
  /\ Rebuilt(programs, ok)
  /\ lastOk' = ok
  /\ Undefer("program")
  /\ indexPhase' = FALSE
  /\ stage' = "op"
  /\ UNCHANGED <<running, op, tmp, config, programs>>

ProgramIdle ==
  /\ stage = "program" /\ ~deferred["program"]
  /\ stage' = "op"
  /\ UNCHANGED <<running, queue, lastOk, tmp, store>>

-----------------------------------------------------------------------------
\* Last part of tick(): the queued operation, taken out of its slot first.
OpTaken(what) ==
  /\ stage = "op" /\ op = what
  /\ op' = NoOp
  /\ stage' = "loop"
  /\ UNCHANGED <<running, deferred, indexPhase, tmp>>

\* deleteProgram() refuses a program that is in use or has no file.
DeleteProgram(id) ==
  /\ OpTaken(<<"DELETE_PROGRAM", id>>)
  /\ \/ /\ id \in programs
        /\ programs' = programs \ {id}
        /\ \E ok \in BOOLEAN : Rebuilt(programs', ok) /\ lastOk' = ok
     \/ lastOk' = FALSE /\ UNCHANGED <<programs, listing>>
  /\ UNCHANGED config

ResetConfig ==
  /\ OpTaken(<<"RESET_CONFIG">>)
  /\ \/ lastOk' = TRUE /\ config' = Empty
     \/ lastOk' = FALSE /\ UNCHANGED config
  /\ UNCHANGED <<programs, listing>>

\* Some files may refuse to go; the index follows what is left.
ResetPrograms ==
  /\ OpTaken(<<"RESET_PROGRAMS">>)
  /\ programs' \in SUBSET programs
  /\ \E ok \in BOOLEAN : Rebuilt(programs', ok) /\ lastOk' = (ok /\ programs' = {})
  /\ UNCHANGED config

OpIdle == OpTaken(NoOp) /\ UNCHANGED <<lastOk, store>>

Tick ==
  \/ ConfigWritten \/ ConfigDone \/ ConfigRefused \/ ConfigIdle
  \/ ProgramWritten \/ ProgramRefused \/ ProgramIdle
  \/ \E ok \in BOOLEAN : ProgramIndexed(ok)
  \/ \E id \in Ids : DeleteProgram(id)
  \/ ResetConfig \/ ResetPrograms \/ OpIdle

-----------------------------------------------------------------------------
\* Triggers, managers and MQTT start programs between ticks, pending or not.
ProgramStarts ==
  /\ stage = "loop" /\ ~running
  /\ running' = TRUE
  /\ UNCHANGED <<stage, queue, lastOk, tmp, store>>

ProgramStops ==
  /\ stage = "loop" /\ running
  /\ running' = FALSE
  /\ UNCHANGED <<stage, queue, lastOk, tmp, store>>

\* A reset: what waits in RAM is gone, and ensureProgramIndex() repairs the
\* index at boot if the files and the index differ.
FlashRestart ==
  /\ stage' = "loop" /\ running' = FALSE
  /\ deferred' = [k \in Kinds |-> FALSE] /\ indexPhase' = FALSE
  /\ op' = NoOp
  /\ lastOk' = TRUE
  /\ \/ index = programs /\ UNCHANGED listing
     \/ index # programs /\ \E ok \in BOOLEAN : Rebuilt(programs, ok)
  /\ UNCHANGED <<tmp, config, programs>>
=============================================================================
