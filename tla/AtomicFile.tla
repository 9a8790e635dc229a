------------------------------ MODULE AtomicFile ------------------------------
(***************************************************************************)
(* /config.json on LittleFS: FSManager::writeJsonAtomicStream(), one step  *)
(* per call it makes on the volume, and the boot that loads the file or    *)
(* writes the factory defaults in its place.  A call on the volume is      *)
(* atomic; it may fail, and power may go between any two of them.          *)
(***************************************************************************)
EXTENDS Naturals

CONSTANTS
  Configs,      \* configurations clients save
  Factory,      \* DEFAULT_CONFIG_JSON
  Absent, Torn, \* no file; a file with part of what was to be in it
  MaxFaults,    \* bound: calls that may fail
  MaxCuts       \* bound: power cuts

Versions == Configs \cup {Factory}

ASSUME FileAssumption ==
  /\ Absent # Torn /\ Absent \notin Versions /\ Torn \notin Versions
  /\ MaxFaults \in Nat /\ MaxCuts \in Nat

VARIABLES
  mode,     \* "BOOT": LoadOrCreateConfig; "RUN"; "EMERGENCY_AP"
  files,    \* contents of "path", "bak" and "tmp"
  pc,       \* the next call of the write under way, "none" between writes
  job,      \* what it writes
  old,      \* the target: not there yet, or "kept" as .bak (hadBackup), or "removed"
  answer,   \* what the last write returned
  was, will,\* ghosts: path before and after the last save a client asked for
  spent     \* failures and cuts so far, and whether an encoder came up short

vars == <<mode, files, pc, job, old, answer, was, will, spent>>

Names == {"path", "bak", "tmp"}
Contents == Versions \cup {Absent, Torn}
Steps == {"clear", "open", "encode", "reject", "shelve", "move", "unlink",
          "place", "undo", "restore", "drop"}

Init ==
  /\ mode = "BOOT" /\ pc = "none" /\ job = Absent
  /\ \E v \in Configs \cup {Absent} :
       /\ files = [n \in Names |-> IF n = "path" THEN v ELSE Absent]
       /\ was = v /\ will = v
  /\ old = "absent" /\ answer = "none" /\ spent = [faults |-> 0, cuts |-> 0, short |-> FALSE]

-----------------------------------------------------------------------------
Works == UNCHANGED spent
Fails == spent.faults < MaxFaults /\ spent' = [spent EXCEPT !.faults = @ + 1]

Remove(n) == files' = [files EXCEPT ![n] = Absent]
Rename(n, m) == files' = [files EXCEPT ![m] = files[n], ![n] = Absent]

\* A call whose outcome is not looked at.
Tries(effect) == (effect /\ Works) \/ (UNCHANGED files /\ Fails)

Goes(from, to) == pc = from /\ pc' = to /\ UNCHANGED <<mode, job, answer, was, will>>

\* writeJsonAtomicStream() returns.  At boot it was reset(): a written file
\* is followed by a hard restart, a refusal by EMERGENCY_AP.
Returns(ok) ==
  /\ pc' = "none" /\ job' = Absent /\ old' = "absent"
  /\ answer' = IF ok THEN "true" ELSE "false"
  /\ IF mode = "BOOT"
       THEN /\ mode' = IF ok THEN "BOOT" ELSE "EMERGENCY_AP"
            /\ UNCHANGED <<was, will>>
       ELSE /\ IF ok THEN was' = will /\ UNCHANGED will ELSE will' = was /\ UNCHANGED was
            /\ UNCHANGED mode

Begins(v) == pc = "none" /\ pc' = "clear" /\ job' = v /\ UNCHANGED <<files, old, answer>>

-----------------------------------------------------------------------------
ClearTmp == Goes("clear", "open") /\ Tries(Remove("tmp")) /\ UNCHANGED old

\* Opening for writing truncates what is there.
OpenTmp ==
  \/ /\ Goes("open", "encode")
     /\ files' = [files EXCEPT !["tmp"] = Torn]
     /\ Works /\ UNCHANGED old
  \/ /\ pc = "open" /\ Returns(FALSE)
     /\ Fails /\ UNCHANGED files

\* Slip: the count is not compared with 0.
EncodeUnchecked ==
  /\ UNCHANGED old /\ Goes("encode", "shelve")
  /\ \/ files' = [files EXCEPT !["tmp"] = job] /\ Works
     \/ UNCHANGED files /\ Fails

\* The encoder's count is 0 (nothing could be written) or reaches maxBytes
\* (the defaults do not): the file is rejected.
Encode ==
  /\ UNCHANGED old
  /\ \/ /\ Goes("encode", "shelve")
        /\ files' = [files EXCEPT !["tmp"] = job] /\ Works
     \/ Goes("encode", "reject") /\ UNCHANGED files /\ Fails
     \/ Goes("encode", "reject") /\ job # Factory /\ UNCHANGED files /\ Works

\* The volume takes part of the file: the count is short, and only compared with
\* 0 and maxBytes.
EncodeShort ==
  /\ Goes("encode", "shelve") /\ UNCHANGED <<files, old>>
  /\ spent.faults < MaxFaults
  /\ spent' = [faults |-> spent.faults + 1, cuts |-> spent.cuts, short |-> TRUE]

Reject == pc = "reject" /\ Tries(Remove("tmp")) /\ Returns(FALSE)

-----------------------------------------------------------------------------
\* commitTmpToPath_atomic_(): the target becomes the backup, the temporary
\* file becomes the target.
\* Slip: a stale backup is removed whether or not there is a target.
ShelveAlways ==
  /\ UNCHANGED old /\ Tries(Remove("bak"))
  /\ Goes("shelve", IF files["path"] = Absent THEN "place" ELSE "move")

Shelve ==
  /\ UNCHANGED old
  /\ \/ files["path"] = Absent /\ Goes("shelve", "place") /\ UNCHANGED files /\ Works
     \/ files["path"] # Absent /\ Goes("shelve", "move") /\ Tries(Remove("bak"))

Move ==
  \/ Goes("move", "place") /\ Rename("path", "bak") /\ old' = "kept" /\ Works
  \/ Goes("move", "unlink") /\ UNCHANGED <<files, old>> /\ Fails

Unlink ==
  \/ Goes("unlink", "place") /\ Remove("path") /\ old' = "removed" /\ Works
  \/ Goes("unlink", "reject") /\ UNCHANGED <<files, old>> /\ Fails

Place ==
  \/ Goes("place", "drop") /\ old = "kept" /\ Rename("tmp", "path") /\ Works /\ UNCHANGED old
  \/ pc = "place" /\ old # "kept" /\ Rename("tmp", "path") /\ Works /\ Returns(TRUE)
  \/ Goes("place", "undo") /\ UNCHANGED <<files, old>> /\ Fails

\* Slip: the backup is not put back.
UndoOnly == pc = "undo" /\ Tries(Remove("tmp")) /\ Returns(FALSE)

Undo ==
  /\ Tries(Remove("tmp"))
  /\ \/ old = "kept" /\ Goes("undo", "restore") /\ UNCHANGED old
     \/ old # "kept" /\ pc = "undo" /\ Returns(FALSE)

Restore == pc = "restore" /\ Tries(Rename("bak", "path")) /\ Returns(FALSE)

Drop == pc = "drop" /\ Tries(Remove("bak")) /\ Returns(TRUE)

Write ==
  \/ ClearTmp \/ OpenTmp \/ Encode \/ EncodeShort \/ Reject \/ Shelve \/ Move
  \/ Unlink \/ Place \/ Undo \/ Restore \/ Drop

-----------------------------------------------------------------------------
\* loadWithOutcome(): only the target is looked at.  The parser asks for the
\* beginning of an object and not for its end: what is left of a torn file may
\* do, and the rest is defaults.
Load ==
  /\ mode = "BOOT" /\ pc = "none" /\ files["path"] # Absent
  /\ mode' = "RUN"
  /\ UNCHANGED <<files, pc, job, old, answer, was, will, spent>>

\* Slip: the restart is asked for and the defaults are never written.
RestartUnwritten ==
  /\ mode = "BOOT" /\ pc = "none" /\ files["path"] \notin Versions
  /\ answer' = "true"
  /\ UNCHANGED <<mode, files, pc, job, old, was, will, spent>>

\* The target is missing, does not parse or cannot be opened: reset().
ResetAtBoot ==
  /\ mode = "BOOT" /\ Begins(Factory)
  /\ \/ files["path"] \notin Versions /\ Works
     \/ Fails
  /\ UNCHANGED <<mode, was, will>>

\* A client's configuration is committed, or RESET_CONFIG calls reset().
Save(v) ==
  /\ mode # "BOOT" /\ Begins(v)
  /\ was' = files["path"] /\ will' = v
  /\ UNCHANGED <<mode, spent>>

Restart ==
  /\ mode # "BOOT" /\ pc = "none"
  /\ mode' = "BOOT"
  /\ UNCHANGED <<files, pc, job, old, answer, was, will, spent>>

\* Power goes: what was not closed is cut short already.
PowerCut ==
  /\ mode' = "BOOT" /\ pc' = "none" /\ job' = Absent /\ old' = "absent" /\ answer' = "cut"
  /\ spent.cuts < MaxCuts /\ spent' = [spent EXCEPT !.cuts = @ + 1]
  /\ UNCHANGED <<files, was, will>>

Next ==
  \/ Write \/ Load \/ ResetAtBoot \/ Restart \/ PowerCut
  \/ \E v \in Versions : Save(v)

Spec == Init /\ [][Next]_vars

\* The processor runs: a write and a boot go on.
FairSpec == Spec /\ WF_vars(Write \/ Load \/ ResetAtBoot)

-----------------------------------------------------------------------------
\* The write under way, and what it may rely on at each call: a temporary file
\* about to become the target is the one asked for, whole unless its encoder
\* came up short; the target stays in place until then, and "kept" means that
\* the backup is there.  (writeJsonAtomicStream, commitTmpToPath_atomic_.)
WriteInv ==
  /\ mode \in {"BOOT", "RUN", "EMERGENCY_AP"}
  /\ files \in [Names -> Contents]
  /\ pc \in Steps \cup {"none"} /\ job \in Versions \cup {Absent}
  /\ old \in {"absent", "kept", "removed"}
  /\ was \in Contents /\ will \in Contents
  /\ spent \in [faults : Nat, cuts : Nat, short : BOOLEAN]
  /\ pc # "none" => job \in Versions
  /\ pc \in {"shelve", "move", "unlink", "place"} =>
       files["tmp"] = job \/ (files["tmp"] = Torn /\ spent.short)
  /\ pc \in {"move", "unlink"} => files["path"] # Absent
  /\ pc \in {"place", "undo", "restore"} => files["path"] = Absent
  /\ pc \in {"restore", "drop"} => old = "kept"
  /\ pc \notin {"place", "undo", "restore", "drop"} => old = "absent"

\* A short count that nobody notices is the one thing that puts part of a
\* configuration into the target, and the next save into the backup; however
\* other calls fail and wherever power goes, what was begun never gets there
\* (writeJsonAtomicStream, commitTmpToPath_atomic_).
TornByShortCount == \A n \in {"path", "bak"} : files[n] = Torn => spent.short

\* As long as no call fails, a cut never destroys the configuration: the one
\* before the last save, or the one saved, is in the target or in its backup,
\* even after the boot has put the defaults in the target's place.  (The boot
\* never looks at the backup.)
CopyKept ==
  spent.faults = 0 /\ was # Absent
    => \E n \in {"path", "bak"} : files[n] \in {was, will} \ {Absent}

\* After a restart in the middle of a save the device runs with the
\* configuration of before or with the saved one: the atomicity that
\* FSManager.h and docs/modules/fs.md state.
OldOrNew ==
  mode = "RUN" /\ pc = "none" /\ was # Absent => files["path"] \in {was, will}

\* Whatever happened, the device comes out of boot and writes come to an end:
\* no loop of factory resets and restarts (handleBoot, LoadOrCreateConfig).
Settles == []<>(mode # "BOOT" /\ pc = "none")

\* The file is a DurableCell.  While the target is away its content is in the
\* backup, or, when it could not be kept, in the temporary file.
Away == files["path"] = Absent /\ pc \in {"place", "undo", "restore"}

Cell == INSTANCE DurableCell WITH
  value <- IF Away /\ old = "kept" THEN files["bak"]
           ELSE IF Away /\ old = "removed" THEN files["tmp"]
           ELSE files["path"],
  pending <- job,
  short <- pc \in {"shelve", "move", "unlink", "place"} /\ files["tmp"] = Torn,
  taken <- pc = "drop" \/ (Away /\ old = "removed"),
  void <- spent.faults > 1

\* Until a second call fails, however often power goes, a write takes effect at
\* one instant or not at all, and its answer says which; what takes effect is
\* what was asked for unless the volume cut it short, which the answer does not
\* tell: every behaviour is one of a DurableCell (writeJsonAtomicStream).  The
\* second failure can lose the file.
IsDurableCell == Cell!Spec
=============================================================================
