--------------------------- MODULE AtomicFileProofs ---------------------------
(***************************************************************************)
(* Proofs about AtomicFile, for any set of configurations and any bounds   *)
(* on failures and power cuts.                                             *)
(***************************************************************************)
EXTENDS AtomicFile, TLAPS

\* What a write relies on; that only a short count puts part of a configuration
\* into the target or its backup; and what the encoder starts from.
FileInv ==
  /\ WriteInv /\ TornByShortCount
  /\ pc = "encode" => files["tmp"] = Torn

\* The initial states satisfy FileInv.
LEMMA FileInit == ASSUME Init PROVE FileInv
<1>. USE FileAssumption
<1>. PICK v \in Configs \cup {Absent} :
          /\ files = [n \in Names |-> IF n = "path" THEN v ELSE Absent]
          /\ was = v /\ will = v
  BY DEF Init
<1>. QED
  BY DEF Init, FileInv, WriteInv, TornByShortCount, Names, Contents, Versions, Steps

\* The invariant is kept by every step of a write.
LEMMA FileWrite == ASSUME FileInv, Write PROVE FileInv'
<1>. USE FileAssumption DEF FileInv, WriteInv, TornByShortCount, Names, Contents, Versions, Steps,
         Goes, Works, Fails, Tries, Remove, Rename, Returns
<1>1. CASE ClearTmp
  BY <1>1 DEF ClearTmp
<1>2. CASE OpenTmp
  BY <1>2 DEF OpenTmp
<1>3. CASE Encode
  BY <1>3 DEF Encode
<1>3a. CASE EncodeShort
  BY <1>3a DEF EncodeShort
<1>4. CASE Reject
  BY <1>4 DEF Reject
<1>5. CASE Shelve
  BY <1>5 DEF Shelve
<1>6. CASE Move
  BY <1>6 DEF Move
<1>7. CASE Unlink
  BY <1>7 DEF Unlink
<1>8. CASE Place
  BY <1>8 DEF Place
<1>9. CASE Undo
  BY <1>9 DEF Undo
<1>10. CASE Restore
  BY <1>10 DEF Restore
<1>11. CASE Drop
  BY <1>11 DEF Drop
<1>. QED
  BY <1>1, <1>2, <1>3, <1>3a, <1>4, <1>5, <1>6, <1>7, <1>8, <1>9, <1>10, <1>11 DEF Write

\* The invariant is kept by every step.
LEMMA FileStep == ASSUME FileInv, [Next]_vars PROVE FileInv'
<1>. USE FileAssumption DEF FileInv, WriteInv, TornByShortCount, Names, Contents, Versions, Steps,
         Begins, Works, Fails
<1>1. CASE Write
  BY <1>1, FileWrite
<1>2. CASE Load
  BY <1>2 DEF Load
<1>3. CASE ResetAtBoot
  BY <1>3 DEF ResetAtBoot
<1>4. CASE Restart
  BY <1>4 DEF Restart
<1>5. CASE PowerCut
  BY <1>5 DEF PowerCut
<1>6. ASSUME NEW v \in Versions, Save(v) PROVE FileInv'
  BY <1>6 DEF Save
<1>7. CASE UNCHANGED vars
  BY <1>7 DEF vars
<1>. QED
  BY <1>1, <1>2, <1>3, <1>4, <1>5, <1>6, <1>7 DEF Next

\* However calls fail and power goes, the target and its backup never hold part
\* of a configuration unless an encoder came up short; a write that is undone
\* half-way included (writeJsonAtomicStream, commitTmpToPath_atomic_).
THEOREM FileTornOnlyByShortCount == Spec => [](WriteInv /\ TornByShortCount)
<1>1. Init => FileInv
  BY FileInit
<1>2. FileInv /\ [Next]_vars => FileInv'
  BY FileStep
<1>3. FileInv => WriteInv /\ TornByShortCount
  BY DEF FileInv
<1>. QED
  BY <1>1, <1>2, <1>3, PTL DEF Spec

-----------------------------------------------------------------------------
\* Where the configuration of before the save is at each call of a write, and
\* what a write at boot leaves alone, as long as no call has failed.
CopyInv ==
  spent.faults = 0 =>
    /\ pc \notin {"unlink", "undo", "restore"}
    /\ mode # "BOOT" /\ pc # "none" => job = will
    /\ ~spent.short
    /\ pc = "drop" => files["path"] = job
    /\ mode = "BOOT" /\ pc # "none" =>
         job = Factory /\ files["path"] = Absent /\ old = "absent"
    /\ was # Absent =>
         /\ mode # "BOOT" /\ pc \in {"clear", "open", "encode", "reject", "shelve", "move"}
              => files["path"] = was
         /\ mode # "BOOT" /\ pc = "place" => old = "kept" /\ files["bak"] = was
    /\ CopyKept

\* The initial states satisfy CopyInv.
LEMMA CopyInit == ASSUME Init PROVE CopyInv
BY FileAssumption DEF Init, CopyInv, CopyKept, Names

\* CopyInv is kept by every step of a write.
LEMMA CopyWrite == ASSUME FileInv, CopyInv, Write PROVE CopyInv'
<1>. USE FileAssumption DEF FileInv, WriteInv, TornByShortCount, CopyInv, CopyKept,
         Names, Contents, Versions, Steps, Goes, Works, Fails, Tries, Remove, Rename, Returns
<1>1. CASE ClearTmp
  BY <1>1 DEF ClearTmp
<1>2. CASE OpenTmp
  BY <1>2 DEF OpenTmp
<1>3. CASE Encode
  BY <1>3 DEF Encode
<1>3a. CASE EncodeShort
  BY <1>3a DEF EncodeShort
<1>4. CASE Reject
  BY <1>4 DEF Reject
<1>5. CASE Shelve
  BY <1>5 DEF Shelve
<1>6. CASE Move
  BY <1>6 DEF Move
<1>7. CASE Unlink
  BY <1>7 DEF Unlink
<1>8. CASE Place
  BY <1>8 DEF Place
<1>9. CASE Undo
  BY <1>9 DEF Undo
<1>10. CASE Restore
  BY <1>10 DEF Restore
<1>11. CASE Drop
  BY <1>11 DEF Drop
<1>. QED
  BY <1>1, <1>2, <1>3, <1>3a, <1>4, <1>5, <1>6, <1>7, <1>8, <1>9, <1>10, <1>11 DEF Write

\* CopyInv is kept by every step.
LEMMA CopyStep == ASSUME FileInv, CopyInv, [Next]_vars PROVE CopyInv'
<1>. USE FileAssumption DEF FileInv, WriteInv, TornByShortCount, CopyInv, CopyKept,
         Names, Contents, Versions, Steps, Begins, Works, Fails
<1>1. CASE Write
  BY <1>1, CopyWrite
<1>2. CASE Load
  BY <1>2 DEF Load
<1>3. CASE ResetAtBoot
  BY <1>3 DEF ResetAtBoot
<1>4. CASE Restart
  BY <1>4 DEF Restart
<1>5. CASE PowerCut
  BY <1>5 DEF PowerCut
<1>6. ASSUME NEW v \in Versions, Save(v) PROVE CopyInv'
  BY <1>6 DEF Save
<1>7. CASE UNCHANGED vars
  BY <1>7 DEF vars
<1>. QED
  BY <1>1, <1>2, <1>3, <1>4, <1>5, <1>6, <1>7 DEF Next

\* Power cuts alone, however many, never destroy the configuration: the one
\* before the last save or the one saved is in the target or in its backup
\* (commitTmpToPath_atomic_, handleBoot).
THEOREM CutsKeepACopy == Spec => []CopyKept
<1>1. Init => FileInv /\ CopyInv
  BY FileInit, CopyInit
<1>2. FileInv /\ CopyInv /\ [Next]_vars => FileInv' /\ CopyInv'
  BY FileStep, CopyStep
<1>3. CopyInv => CopyKept
  BY DEF CopyInv, CopyKept
<1>. QED
  BY <1>1, <1>2, <1>3, PTL DEF Spec

-----------------------------------------------------------------------------
\* The failures behind what a write is doing: one if its encoder came up short
\* or the target was not kept, two if both, or if the target was not kept and
\* the temporary file does not get into its place either.
ShortNow == pc \in {"shelve", "move", "unlink", "place"} /\ files["tmp"] = Torn

Blame ==
  /\ spent.short \/ old = "removed" \/ pc \in {"unlink", "undo", "restore"} => spent.faults >= 1
  /\ ShortNow /\ (old = "removed" \/ pc = "unlink") => spent.faults >= 2
  /\ pc = "undo" => old # "removed" \/ spent.faults >= 2

\* What the refinement rests on: the content of the target's stand-ins.
StandIn ==
  /\ pc = "none" <=> job = Absent
  /\ pc \in {"place", "undo", "restore"} /\ old = "kept" => files["bak"] # Absent

CellInv == Blame /\ StandIn

\* The initial states satisfy CellInv.
LEMMA CellInit == ASSUME Init PROVE CellInv
BY FileAssumption DEF Init, CellInv, Blame, StandIn, ShortNow

\* CellInv is kept by every step.
LEMMA CellStep == ASSUME FileInv, CellInv, [Next]_vars PROVE CellInv'
<1>. USE FileAssumption DEF FileInv, WriteInv, TornByShortCount, CellInv, Blame, StandIn, ShortNow,
         Names, Contents, Versions, Steps, Begins, Goes, Works, Fails, Tries, Remove, Rename, Returns
<1>1. CASE ClearTmp
  BY <1>1 DEF ClearTmp
<1>2. CASE OpenTmp
  BY <1>2 DEF OpenTmp
<1>3. CASE Encode
  BY <1>3 DEF Encode
<1>3a. CASE EncodeShort
  BY <1>3a DEF EncodeShort
<1>4. CASE Reject
  BY <1>4 DEF Reject
<1>5. CASE Shelve
  BY <1>5 DEF Shelve
<1>6. CASE Move
  BY <1>6 DEF Move
<1>7. CASE Unlink
  BY <1>7 DEF Unlink
<1>8. CASE Place
  BY <1>8 DEF Place
<1>9. CASE Undo
  BY <1>9 DEF Undo
<1>10. CASE Restore
  BY <1>10 DEF Restore
<1>11. CASE Drop
  BY <1>11 DEF Drop
<1>12. CASE Load
  BY <1>12 DEF Load
<1>13. CASE ResetAtBoot
  BY <1>13 DEF ResetAtBoot
<1>14. CASE Restart
  BY <1>14 DEF Restart
<1>15. CASE PowerCut
  BY <1>15 DEF PowerCut
<1>16. ASSUME NEW v \in Versions, Save(v) PROVE CellInv'
  BY <1>16 DEF Save
<1>17. CASE UNCHANGED vars
  BY <1>17 DEF vars
<1>. QED
  BY <1>1, <1>2, <1>3, <1>3a, <1>4, <1>5, <1>6, <1>7, <1>8, <1>9, <1>10, <1>11, <1>12,
     <1>13, <1>14, <1>15, <1>16, <1>17 DEF Next, Write

\* The initial states are initial states of a DurableCell.
LEMMA CellMapsInit == ASSUME Init PROVE Cell!Init
BY FileAssumption DEF Init, Cell!Init, Away, Names, Versions

\* Every step of a write is a step of a DurableCell or changes nothing of it.
LEMMA CellMapsWrite ==
  ASSUME FileInv, CellInv, Write
  PROVE  [Cell!Next]_(Cell!vars)
<1>. USE FileAssumption DEF FileInv, WriteInv, TornByShortCount, CellInv, Blame, StandIn, ShortNow,
         Names, Contents, Versions, Steps, Goes, Works, Fails, Tries, Remove, Rename, Returns,
         Away, Cell!Next, Cell!Kept, Cell!Shorten, Cell!Take, Cell!End,
         Cell!TakesEffect, Cell!vars
<1>1. CASE ClearTmp
  BY <1>1 DEF ClearTmp
<1>2. CASE OpenTmp
  BY <1>2 DEF OpenTmp
<1>3. CASE Encode
  BY <1>3 DEF Encode
<1>3a. CASE EncodeShort
  BY <1>3a DEF EncodeShort
<1>4. CASE Reject
  BY <1>4 DEF Reject
<1>5. CASE Shelve
  BY <1>5 DEF Shelve
<1>6. CASE Move
  BY <1>6 DEF Move
<1>7. CASE Unlink
  BY <1>7 DEF Unlink
<1>8. CASE Place
  BY <1>8 DEF Place
<1>9. CASE Undo
  BY <1>9 DEF Undo
<1>10. CASE Restore
  BY <1>10 DEF Restore
<1>11. CASE Drop
  BY <1>11 DEF Drop
<1>. QED
  BY <1>1, <1>2, <1>3, <1>3a, <1>4, <1>5, <1>6, <1>7, <1>8, <1>9, <1>10, <1>11 DEF Write

\* So is every step.
LEMMA CellMapsStep ==
  ASSUME FileInv, CellInv, [Next]_vars
  PROVE  [Cell!Next]_(Cell!vars)
<1>. USE FileAssumption DEF FileInv, WriteInv, TornByShortCount, CellInv, Blame, StandIn, ShortNow,
         Names, Contents, Versions, Steps, Begins, Works, Fails, Away, Cell!Next, Cell!Kept, Cell!vars
<1>1. CASE Write
  BY <1>1, CellMapsWrite
<1>2. CASE Load
  BY <1>2 DEF Load
<1>3. CASE ResetAtBoot
  BY <1>3 DEF ResetAtBoot, Cell!Begin
<1>4. CASE Restart
  BY <1>4 DEF Restart
<1>5. CASE PowerCut
  BY <1>5 DEF PowerCut, Cell!Cut
<1>6. ASSUME NEW v \in Versions, Save(v) PROVE [Cell!Next]_(Cell!vars)
  BY <1>6 DEF Save, Cell!Begin
<1>7. CASE UNCHANGED vars
  BY <1>7 DEF vars
<1>. QED
  BY <1>1, <1>2, <1>3, <1>4, <1>5, <1>6, <1>7 DEF Next

\* Until a second call fails, and through any number of power cuts, a write takes
\* effect at one instant or not at all, its answer says which, and nothing but a
\* short count makes it take effect in part: the file implements DurableCell
\* (writeJsonAtomicStream).
THEOREM FileIsDurableCell == Spec => IsDurableCell
<1>1. Init => FileInv /\ CellInv /\ Cell!Init
  BY FileInit, CellInit, CellMapsInit
<1>2. FileInv /\ CellInv /\ [Next]_vars => FileInv' /\ CellInv' /\ [Cell!Next]_(Cell!vars)
  BY FileStep, CellStep, CellMapsStep
<1>. QED
  BY <1>1, <1>2, PTL DEF Spec, IsDurableCell, Cell!Spec
=============================================================================
