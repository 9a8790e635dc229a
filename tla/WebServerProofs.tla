--------------------------- MODULE WebServerProofs ---------------------------
(***************************************************************************)
(* Proofs about the two modules of the web server.  WebIngest: any         *)
(* clients, programs and sizes, and any overlaps; a theorem about one path *)
(* asks that the clients of that path take turns, and no more.  UiStream:  *)
(* any pages, queue and time limits, and a heap that refuses whatever it   *)
(* likes.                                                                  *)
(***************************************************************************)
EXTENDS WebIngest, UiStream, FiniteSetTheorems, SequenceTheorems, WellFoundedInduction, TLAPS

\* Clients of path k take turns.
Turns(k) ==
  \A p, q \in Posts :
    Kind[p] = k /\ Kind[q] = k /\ post[p] # "none" /\ post[q] # "none" => p = q

\* A client that writes keeps its path's flag up, and no body of that path waits.
Marked(k) == \A p \in Writing : Kind[p] = k => posted[k] /\ ~deferred[k]

\* A client whose body failed has no accepted one behind it to discard.
FailedIsIdle(k) == \A p \in Posts : Kind[p] = k /\ post[p] = "failed" => ~deferred[k]

\* The temporary file holds what the client that writes has sent.
Pieces(k) ==
  \A p \in Posts : Kind[p] = k => /\ post[p] = "open" => tmp[k] = {<<p, 1>>}
                                  /\ post[p] = "full" => tmp[k] = Body(p)

\* What a path keeps if its own clients take turns, whatever those of the other
\* path do.
PathInv(k) == Turns(k) /\ Marked(k) /\ FailedIsIdle(k) /\ Pieces(k) /\ AwaitingIsWhole(k)
Paths == \A k \in Kinds \ Overlap : PathInv(k)

\* The phases of tick() belong to what they work on.
Phases ==
  /\ stage = "crc" => deferred["config"]
  /\ indexPhase => deferred["program"]

\* At most one of the clients, of the flags and of the slot is in use.
Alone ==
  /\ \A p, q \in Writing : p = q
  /\ \A p \in Writing : op = NoOp /\ \A k \in Kinds : ~deferred[k]
  /\ ~(deferred["config"] /\ deferred["program"])
  /\ \A k \in Kinds : deferred[k] => op = NoOp

\* No context is given back that was not taken.
SlotsCover == Cardinality(Holding) <= slots

\* What holds however clients overlap.
FlashInv == TypeOK /\ Phases

-----------------------------------------------------------------------------
\* Listings() only lists programs that are stored.
LEMMA ListingsAreStored ==
  ASSUME NEW files \in SUBSET Ids PROVE Listings(files) \in SUBSET (SUBSET Ids)
  BY DEF Listings

\* Entering a state that holds a context adds its client to the holders, any
\* other takes it away.
LEMMA HoldingChange ==
  ASSUME TypeOK, NEW p \in Posts, NEW s \in PostStates, Enters(p, s)
  PROVE  Holding' = IF s \in {"none", "oom"} THEN Holding \ {p} ELSE Holding \cup {p}
  BY DEF TypeOK, Enters, Holding

\* There are finitely many holders.
LEMMA HoldingIsFinite == IsFiniteSet(Holding) /\ Cardinality(Holding) \in Nat
  BY IngestAssumption, FS_Subset, FS_CardinalityType DEF Holding

\* The number of holders after a client has changed its state.
LEMMA HoldingCount ==
  ASSUME TypeOK, NEW p \in Posts, NEW s \in PostStates, Enters(p, s)
  PROVE  /\ s \in {"none", "oom"} =>
              Cardinality(Holding') = IF p \in Holding THEN Cardinality(Holding) - 1
                                                       ELSE Cardinality(Holding)
         /\ s \notin {"none", "oom"} =>
              Cardinality(Holding') = IF p \in Holding THEN Cardinality(Holding)
                                                       ELSE Cardinality(Holding) + 1
<1>1. CASE s \in {"none", "oom"}
  <2>1. Holding' = Holding \ {p}
    BY <1>1, HoldingChange
  <2>. QED
    BY ONLY <1>1, <2>1, HoldingIsFinite, FS_RemoveElement
<1>2. CASE s \notin {"none", "oom"}
  <2>1. Holding' = Holding \cup {p}
    BY <1>2, HoldingChange
  <2>. QED
    BY ONLY <1>2, <2>1, HoldingIsFinite, FS_AddElement
<1>. QED
  BY <1>1, <1>2

\* Nobody holds a context in the initial states.
LEMMA IngestInit ==
  ASSUME Init
  PROVE  /\ TypeOK /\ SlotsCover /\ Phases /\ StoredIsWhole /\ Alone
         /\ \A k \in Kinds : PathInv(k)
<1>1. TypeOK
  <2>1. programs \in SUBSET Ids /\ index \in SUBSET Ids /\ skipped \in SUBSET Ids
    BY ListingsAreStored DEF Init, FlashInit
  <2>2. tmp \in [Kinds -> SUBSET Piece] /\ config \in SUBSET Piece
    BY DEF Init, FlashInit, Empty
  <2>3. deferred \in [Kinds -> BOOLEAN] /\ op \in FsOps \cup {NoOp}
    BY DEF Init, FlashInit
  <2>4. post \in [Posts -> PostStates] /\ posted \in [Kinds -> BOOLEAN] /\ slots \in 0 .. MaxSlots
    BY IngestAssumption DEF Init, PostStates
  <2>. QED
    BY <2>1, <2>2, <2>3, <2>4 DEF Init, FlashInit, TypeOK
<1>2. Holding = {} /\ Writing = {}
  BY DEF Init, Holding, Writing
<1>3. SlotsCover
  BY <1>2, FS_EmptySet DEF Init, SlotsCover
<1>4. Alone /\ Phases /\ StoredIsWhole
  BY <1>2 DEF Init, FlashInit, Alone, Phases, StoredIsWhole, Kinds
<1>5. \A k \in Kinds : PathInv(k)
  BY <1>2 DEF Init, FlashInit, PathInv, Turns, Marked, FailedIsIdle, Pieces, AwaitingIsWhole, Awaits
<1>. QED
  BY <1>1, <1>3, <1>4, <1>5

-----------------------------------------------------------------------------
\* What tick(), the programs and the queue of operations do to the flash.
FlashStep ==
  \/ Loop \/ Programs
  \/ \E what \in FsOps : QueueOp(what)

\* Types are kept by the steps that leave the web's variables alone.
LEMMA FlashTypes == ASSUME TypeOK, FlashStep PROVE TypeOK'
<1>. USE FlashAssumption DEF TypeOK, Loop, Tick, OpTaken, Consume, Undefer, Rebuilt, Kinds,
         queue, store, listing, Empty
<1>1. CASE Loop
  <2>1. CASE ConfigWritten
    BY <1>1, <2>1 DEF ConfigWritten
  <2>2. CASE ConfigDone
    BY <1>1, <2>2 DEF ConfigDone
  <2>3. CASE ConfigRefused
    BY <1>1, <2>3 DEF ConfigRefused
  <2>4. CASE ConfigIdle
    BY <1>1, <2>4 DEF ConfigIdle
  <2>5. CASE ProgramWritten
    BY <1>1, <2>5 DEF ProgramWritten, Piece
  <2>6. CASE ProgramRefused
    BY <1>1, <2>6 DEF ProgramRefused
  <2>7. ASSUME NEW ok \in BOOLEAN, ProgramIndexed(ok) PROVE TypeOK'
    BY <1>1, <2>7, ListingsAreStored DEF ProgramIndexed
  <2>8. CASE ProgramIdle
    BY <1>1, <2>8 DEF ProgramIdle
  <2>9. ASSUME NEW id \in Ids, DeleteProgram(id) PROVE TypeOK'
    <3>1. programs' \in SUBSET Ids /\ lastOk' \in BOOLEAN
      BY <2>9 DEF DeleteProgram
    <3>2. UNCHANGED listing \/ \E ok \in BOOLEAN : Rebuilt(programs', ok)
      BY <2>9 DEF DeleteProgram
    <3>3. index' \in SUBSET Ids /\ skipped' \in SUBSET Ids
      BY <3>1, <3>2, ListingsAreStored
    <3>. QED
      BY <1>1, <2>9, <3>1, <3>3 DEF DeleteProgram
  <2>10. CASE ResetConfig
    BY <1>1, <2>10 DEF ResetConfig
  <2>11. CASE ResetPrograms
    <3>1. programs' \in SUBSET Ids /\ lastOk' \in BOOLEAN
      BY <2>11 DEF ResetPrograms
    <3>2. \E ok \in BOOLEAN : Rebuilt(programs', ok)
      BY <2>11 DEF ResetPrograms
    <3>3. index' \in SUBSET Ids /\ skipped' \in SUBSET Ids
      BY <3>1, <3>2, ListingsAreStored
    <3>. QED
      BY <1>1, <2>11, <3>1, <3>3 DEF ResetPrograms
  <2>12. CASE OpIdle
    BY <1>1, <2>12 DEF OpIdle
  <2>. QED
    BY <1>1, <2>1, <2>2, <2>3, <2>4, <2>5, <2>6, <2>7, <2>8, <2>9, <2>10, <2>11, <2>12
<1>2. CASE Programs
  BY <1>2 DEF Programs, ProgramStarts, ProgramStops
<1>3. ASSUME NEW what \in FsOps, QueueOp(what) PROVE TypeOK'
  BY <1>3 DEF QueueOp
<1>. QED
  BY <1>1, <1>2, <1>3 DEF FlashStep

\* What a path keeps is kept by the same steps.
LEMMA FlashKeeps ==
  ASSUME FlashInv, NEW k \in Kinds, PathInv(k), FlashStep
  PROVE  PathInv(k)'
<1>. USE FlashAssumption DEF FlashInv, TypeOK, PathInv, Turns, Marked, FailedIsIdle, Pieces,
         Phases, AwaitingIsWhole, Awaits, Writing, Loop, Tick, OpTaken, Consume,
         Undefer, Kinds, queue, store, listing, Empty
<1>1. CASE Loop
  <2>1. CASE ConfigWritten
    BY <1>1, <2>1 DEF ConfigWritten
  <2>2. CASE ConfigDone
    BY <1>1, <2>2 DEF ConfigDone
  <2>3. CASE ConfigRefused
    BY <1>1, <2>3 DEF ConfigRefused
  <2>4. CASE ConfigIdle
    BY <1>1, <2>4 DEF ConfigIdle
  <2>5. CASE ProgramWritten
    BY <1>1, <2>5 DEF ProgramWritten
  <2>6. CASE ProgramRefused
    BY <1>1, <2>6 DEF ProgramRefused
  <2>7. ASSUME NEW ok \in BOOLEAN, ProgramIndexed(ok) PROVE PathInv(k)'
    BY <1>1, <2>7 DEF ProgramIndexed
  <2>8. CASE ProgramIdle
    BY <1>1, <2>8 DEF ProgramIdle
  <2>9. ASSUME NEW id \in Ids, DeleteProgram(id) PROVE PathInv(k)'
    BY <1>1, <2>9 DEF DeleteProgram
  <2>10. CASE ResetConfig \/ ResetPrograms \/ OpIdle
    BY <1>1, <2>10 DEF ResetConfig, ResetPrograms, OpIdle
  <2>. QED
    BY <1>1, <2>1, <2>2, <2>3, <2>4, <2>5, <2>6, <2>7, <2>8, <2>9, <2>10
<1>2. CASE Programs
  BY <1>2 DEF Programs, ProgramStarts, ProgramStops
<1>3. ASSUME NEW what \in FsOps, QueueOp(what) PROVE PathInv(k)'
  BY <1>3 DEF QueueOp
<1>. QED
  BY <1>1, <1>2, <1>3 DEF FlashStep

-----------------------------------------------------------------------------
\* What the clients of the web do.
ClientStep ==
  \/ \E p \in Posts : Begins(p) \/ GoesOn(p) \/ Drop(p)
  \/ \E k \in Kinds : EmptyPost(k)

\* Types are kept by the clients' steps, the counter's bounds apart.
LEMMA ClientTypes ==
  ASSUME TypeOK, ClientStep, slots' \in 0 .. MaxSlots PROVE TypeOK'
<1>. USE FlashAssumption DEF TypeOK, RequestEnds, Consume, Enters, flashVars, queue, store, listing,
         Empty, PostStates
<1>1. ASSUME NEW p \in Posts, Begins(p) PROVE TypeOK'
  <2>1. CASE BodyWithoutContext(p)
    BY <2>1 DEF BodyWithoutContext
  <2>2. CASE BodyRejected(p)
    BY <2>2 DEF BodyRejected
  <2>3. CASE BodyUnusable(p)
    BY <2>3 DEF BodyUnusable
  <2>4. CASE BodyOpened(p)
    BY <2>4 DEF BodyOpened, Piece
  <2>. QED
    BY <1>1, <2>1, <2>2, <2>3, <2>4 DEF Begins
<1>2. ASSUME NEW p \in Posts, GoesOn(p) PROVE TypeOK'
  <2>1. CASE BodyGoesOn(p)
    BY <2>1 DEF BodyGoesOn, Piece
  <2>2. CASE Accept(p)
    BY <2>2 DEF Accept
  <2>3. CASE Discard(p)
    BY <2>3 DEF Discard
  <2>4. CASE AnswerBusy(p)
    BY <2>4 DEF AnswerBusy
  <2>5. CASE AnswerNoMemory(p)
    BY <2>5 DEF AnswerNoMemory
  <2>. QED
    BY <1>2, <2>1, <2>2, <2>3, <2>4, <2>5 DEF GoesOn
<1>3. ASSUME NEW p \in Posts, Drop(p) PROVE TypeOK'
  BY <1>3 DEF Drop
<1>4. ASSUME NEW k \in Kinds, EmptyPost(k) PROVE TypeOK'
  BY <1>4 DEF EmptyPost
<1>. QED
  BY <1>1, <1>2, <1>3, <1>4 DEF ClientStep

\* A context is taken and given back with its client's state, but for a lost
\* connection, which keeps it.
LEMMA ClientSlots ==
  ASSUME TypeOK, ClientStep
  PROVE  \/ slots' < MaxSlots + 1 /\ slots' - slots = Cardinality(Holding') - Cardinality(Holding)
         \/ Dropped /\ slots' = slots /\ Cardinality(Holding') <= Cardinality(Holding)
<1>. /\ slots \in Nat /\ slots <= MaxSlots /\ MaxSlots \in Nat
     /\ \A p \in Posts : post[p] \in PostStates
  BY IngestAssumption DEF TypeOK
<1>. Cardinality(Holding) \in Nat
  BY HoldingIsFinite
<1>. DEFINE Balanced ==
       slots' < MaxSlots + 1 /\ slots' - slots = Cardinality(Holding') - Cardinality(Holding)
<1>1. ASSUME NEW p \in Posts, Begins(p) PROVE Balanced
  <2>1. p \notin Holding
    BY <1>1 DEF Begins, BodyWithoutContext, BodyRejected, BodyUnusable, BodyOpened, BodyBegins,
       Holding
  <2>2. CASE BodyWithoutContext(p)
    BY <2>1, <2>2, HoldingCount DEF BodyWithoutContext, PostStates
  <2>3. ASSUME NEW s \in {"open", "failed", "busy"}, Enters(p, s), slots < MaxSlots,
               slots' = slots + 1
        PROVE  Balanced
    BY <2>1, <2>3, HoldingCount DEF PostStates
  <2>. QED
    BY <1>1, <2>2, <2>3 DEF Begins, BodyRejected, BodyUnusable, BodyOpened
<1>2. ASSUME NEW p \in Posts, GoesOn(p) PROVE Balanced
  <2>1. CASE BodyGoesOn(p)
    <3>1. p \in Holding /\ slots' = slots
      BY <2>1 DEF BodyGoesOn, Holding
    <3>2. \E s \in {"full", "failed"} : Enters(p, s)
      BY <2>1 DEF BodyGoesOn
    <3>. QED
      BY <3>1, <3>2, HoldingCount DEF PostStates
  <2>2. CASE Accept(p) \/ Discard(p) \/ AnswerBusy(p)
    <3>1. p \in Holding /\ slots' = slots - 1 /\ Enters(p, "none")
      BY <2>2 DEF Accept, Discard, AnswerBusy, RequestEnds, Holding
    <3>. QED
      BY <3>1, HoldingCount DEF PostStates
  <2>3. CASE AnswerNoMemory(p)
    <3>1. p \notin Holding /\ slots' = slots /\ Enters(p, "none")
      BY <2>3 DEF AnswerNoMemory, Holding
    <3>. QED
      BY <3>1, HoldingCount DEF PostStates
  <2>. QED
    BY <1>2, <2>1, <2>2, <2>3 DEF GoesOn
<1>3. ASSUME NEW p \in Posts, Drop(p)
      PROVE  Dropped /\ slots' = slots /\ Cardinality(Holding') <= Cardinality(Holding)
  <2>1. Enters(p, "none") /\ slots' = slots
    BY <1>3 DEF Drop
  <2>2. Cardinality(Holding') <= Cardinality(Holding)
    BY <2>1, HoldingCount DEF PostStates
  <2>. QED
    BY <1>3, <2>1, <2>2 DEF Dropped
<1>4. ASSUME NEW k \in Kinds, EmptyPost(k) PROVE Balanced
  BY <1>4 DEF EmptyPost, Holding
<1>. QED
  BY <1>1, <1>2, <1>3, <1>4 DEF ClientStep

\* The number of holders after a step is a number.
LEMMA NextHoldingIsFinite == Cardinality(Holding)' \in Nat
  BY HoldingIsFinite, IngestAssumption, FS_Subset, FS_CardinalityType DEF Holding

\* The clients' steps keep what a path keeps if its own take turns.
LEMMA ClientKeeps ==
  ASSUME FlashInv, NEW k \in Kinds \ Overlap, PathInv(k), ClientStep
  PROVE  PathInv(k)'
<1>. USE FlashAssumption DEF FlashInv, TypeOK, PathInv, Turns, Marked, FailedIsIdle,
         Pieces, AwaitingIsWhole, Awaits, Writing, RequestEnds, Consume, Enters,
         Kinds, flashVars, queue, store, listing, Empty, PostStates
<1>1. ASSUME NEW p \in Posts, Begins(p) PROVE PathInv(k)'
  <2>1. CASE BodyWithoutContext(p)
    BY <2>1 DEF BodyWithoutContext, BodyBegins, MayPost
  <2>2. CASE BodyRejected(p)
    BY <2>2 DEF BodyRejected, BodyBegins, MayPost
  <2>3. CASE BodyUnusable(p)
    BY <2>3 DEF BodyUnusable, BodyBegins, MayPost, IsFlashBusy, IsPending
  <2>4. CASE BodyOpened(p)
    BY <2>4 DEF BodyOpened, BodyBegins, MayPost, IsFlashBusy, IsPending
  <2>. QED
    BY <1>1, <2>1, <2>2, <2>3, <2>4 DEF Begins
<1>2. ASSUME NEW p \in Posts, GoesOn(p) PROVE PathInv(k)'
  <2>1. CASE BodyGoesOn(p)
    BY <2>1 DEF BodyGoesOn, Body
  <2>2. CASE Accept(p)
    BY <2>2 DEF Accept
  <2>3. CASE Discard(p)
    BY <2>3 DEF Discard
  <2>4. CASE AnswerBusy(p)
    BY <2>4 DEF AnswerBusy
  <2>5. CASE AnswerNoMemory(p)
    BY <2>5 DEF AnswerNoMemory
  <2>. QED
    BY <1>2, <2>1, <2>2, <2>3, <2>4, <2>5 DEF GoesOn
<1>3. ASSUME NEW p \in Posts, Drop(p) PROVE PathInv(k)'
  BY <1>3 DEF Drop
<1>4. ASSUME NEW j \in Kinds, EmptyPost(j) PROVE PathInv(k)'
  BY <1>4 DEF EmptyPost, MayPost
<1>. QED
  BY <1>1, <1>2, <1>3, <1>4 DEF ClientStep

-----------------------------------------------------------------------------
\* Types and the count of contexts are kept by every step, turns or none.
LEMMA CountStep ==
  ASSUME TypeOK, SlotsCover, [Next]_vars PROVE TypeOK' /\ SlotsCover'
<1>1. CASE FlashStep
  <2>1. UNCHANGED <<post, slots>>
    BY <1>1 DEF FlashStep, Loop, Programs, QueueOp
  <2>. QED
    BY <1>1, <2>1, FlashTypes DEF SlotsCover, Holding
<1>2. CASE ClientStep
  <2>1. slots \in Nat /\ slots <= MaxSlots
    BY IngestAssumption DEF TypeOK
  <2>2. Cardinality(Holding) \in Nat /\ Cardinality(Holding)' \in Nat
    BY HoldingIsFinite, NextHoldingIsFinite
  <2>3. slots' \in Int
    BY <1>2, <2>1 DEF ClientStep, Begins, GoesOn, BodyWithoutContext, BodyRejected, BodyUnusable,
       BodyOpened, BodyGoesOn, Accept, Discard, AnswerBusy, AnswerNoMemory, Drop, EmptyPost,
       RequestEnds
  <2>4. SlotsCover' /\ slots' \in 0 .. MaxSlots
    BY <1>2, <2>1, <2>2, <2>3, ClientSlots, IngestAssumption DEF SlotsCover
  <2>. QED
    BY <1>2, <2>4, ClientTypes
<1>3. CASE Restart
  <2>1. index' \in SUBSET Ids /\ skipped' \in SUBSET Ids
    BY <1>3, ListingsAreStored DEF TypeOK, Restart, FlashRestart, Rebuilt, listing
  <2>2. post' \in [Posts -> PostStates] /\ posted' \in [Kinds -> BOOLEAN] /\ slots' \in 0 .. MaxSlots
    BY <1>3, IngestAssumption DEF Restart, PostStates
  <2>3. TypeOK'
    BY <1>3, <2>1, <2>2 DEF TypeOK, Restart, FlashRestart
  <2>4. Holding' = {}
    BY <1>3 DEF Restart, Holding
  <2>. QED
    BY <1>3, <2>3, <2>4, FS_EmptySet DEF SlotsCover, Restart
<1>4. CASE UNCHANGED vars
  BY <1>4 DEF vars, flashVars, queue, store, listing, TypeOK, SlotsCover, Holding
<1>. QED
  BY <1>1, <1>2, <1>3, <1>4 DEF Next, FlashStep, ClientStep

\* Types and phases are kept by every step.
LEMMA FlashInvStep == ASSUME FlashInv, SlotsCover, [Next]_vars PROVE FlashInv'
<1>. USE DEF Phases, Kinds, queue, store, listing, flashVars, RequestEnds,
         Undefer, OpTaken
<1>. SUFFICES Phases'
  BY CountStep DEF FlashInv
<1>1. deferred \in [Kinds -> BOOLEAN]
  BY DEF FlashInv, TypeOK
<1>. Phases
  BY DEF FlashInv
<1>. \A p \in Posts : Kind[p] \in Kinds
  BY FlashAssumption
<1>2. CASE Loop
  <2>1. CASE ConfigWritten \/ ConfigDone \/ ConfigRefused \/ ConfigIdle
    <3>1. CASE ConfigWritten \/ ConfigIdle
      BY <3>1 DEF ConfigWritten, ConfigIdle
    <3>2. CASE ConfigDone \/ ConfigRefused
      <4>1. deferred'["program"] = deferred["program"] /\ stage' = "program"
        BY <1>1, <3>2 DEF ConfigDone, ConfigRefused
      <4>2. UNCHANGED indexPhase
        BY <3>2 DEF ConfigDone, ConfigRefused
      <4>. QED
        BY <4>1, <4>2
    <3>. QED
      BY <2>1, <3>1, <3>2
  <2>2. CASE ProgramWritten \/ ProgramRefused \/ ProgramIdle
    BY <1>2, <2>2 DEF ProgramWritten, ProgramRefused, ProgramIdle
  <2>3. ASSUME NEW ok \in BOOLEAN, ProgramIndexed(ok) PROVE Phases'
    BY <1>2, <2>3 DEF ProgramIndexed
  <2>4. ASSUME NEW id \in Ids, DeleteProgram(id) PROVE Phases'
    BY <1>2, <2>4 DEF DeleteProgram
  <2>5. CASE ResetConfig \/ ResetPrograms \/ OpIdle
    BY <1>2, <2>5 DEF ResetConfig, ResetPrograms, OpIdle
  <2>. QED
    BY <1>1, <1>2, <2>1, <2>2, <2>3, <2>4, <2>5 DEF Loop, Tick
<1>3. CASE Programs \/ \E what \in FsOps : QueueOp(what)
  BY <1>1, <1>3 DEF Programs, ProgramStarts, ProgramStops, QueueOp
<1>4. CASE ClientStep
  BY <1>1, <1>4 DEF ClientStep, Begins, GoesOn, BodyWithoutContext, BodyRejected, BodyUnusable,
     BodyOpened, BodyGoesOn, Accept, Discard, AnswerBusy, AnswerNoMemory, Drop, EmptyPost
<1>5. CASE Restart
  BY <1>1, <1>5 DEF Restart, FlashRestart
<1>6. CASE UNCHANGED vars
  BY <1>1, <1>6 DEF vars
<1>. QED
  BY <1>2, <1>3, <1>4, <1>5, <1>6 DEF Next, ClientStep

\* A path whose clients take turns keeps its invariant.
LEMMA PathStep ==
  ASSUME FlashInv, NEW k \in Kinds \ Overlap, PathInv(k), [Next]_vars
  PROVE  PathInv(k)'
<1>. k \in Kinds
  OBVIOUS
<1>1. CASE FlashStep
  BY <1>1, FlashKeeps
<1>2. CASE ClientStep
  BY <1>2, ClientKeeps
<1>3. CASE Restart
  BY <1>3 DEF Restart, FlashRestart, PathInv, Turns, Marked, FailedIsIdle, Pieces,
     AwaitingIsWhole, Awaits, Writing
<1>4. CASE UNCHANGED vars
  BY <1>4 DEF vars, flashVars, queue, store, listing, PathInv, Turns, Marked, FailedIsIdle, Pieces,
     AwaitingIsWhole, Awaits, Writing
<1>. QED
  BY <1>1, <1>2, <1>3, <1>4 DEF Next, FlashStep, ClientStep

\* What tick() stores was waiting for it.
LEMMA WholeStep ==
  ASSUME FlashInv, PathInv("config"), StoredIsWhole, [Next]_vars
  PROVE  StoredIsWhole'
<1>. USE DEF StoredIsWhole, queue, store, listing
<1>1. CASE ConfigWritten
  <2>1. Awaits("config")
    BY <1>1 DEF ConfigWritten, Awaits
  <2>2. \E p \in Posts : tmp["config"] = Body(p)
    BY <2>1 DEF PathInv, AwaitingIsWhole
  <2>. QED
    BY <1>1, <2>2 DEF ConfigWritten
<1>2. CASE ResetConfig
  BY <1>2 DEF ResetConfig
<1>3. CASE UNCHANGED config
  BY <1>3
<1>4. Next => ConfigWritten \/ ResetConfig \/ UNCHANGED config
  <2>1. Loop => ConfigWritten \/ ResetConfig \/ UNCHANGED config
    BY DEF Loop, Tick, ConfigDone, ConfigRefused, ConfigIdle, ProgramWritten, ProgramRefused,
       ProgramIndexed, ProgramIdle, DeleteProgram, ResetPrograms, OpIdle
  <2>2. ClientStep => UNCHANGED config
    BY DEF ClientStep, Begins, GoesOn, BodyWithoutContext, BodyRejected, BodyUnusable,
       BodyOpened, BodyGoesOn, Accept, Discard, AnswerBusy, AnswerNoMemory, Drop, EmptyPost,
       RequestEnds, flashVars
  <2>. QED
    BY <2>1, <2>2 DEF Next, ClientStep, Programs, ProgramStarts, ProgramStops, QueueOp, Restart,
       FlashRestart
<1>5. UNCHANGED vars => UNCHANGED config
  BY DEF vars, flashVars
<1>. QED
  BY <1>1, <1>2, <1>3, <1>4, <1>5

\* If no path has overlaps, one thing at a time waits for the flash.
LEMMA AloneStep ==
  ASSUME FlashInv, \A k \in Kinds : PathInv(k), Alone, [Next]_vars
  PROVE  Alone'
<1>. USE FlashAssumption DEF FlashInv, TypeOK, PathInv, Marked, Alone, Writing, RequestEnds, Enters,
         Kinds, flashVars, queue, store, listing, NoOp, FsOps, PostStates
<1>1. CASE Loop
  BY <1>1 DEF Loop, Tick, ConfigWritten, ConfigDone, ConfigRefused, ConfigIdle, ProgramWritten,
     ProgramRefused, ProgramIndexed, ProgramIdle, DeleteProgram, ResetConfig, ResetPrograms, OpIdle,
     OpTaken, Undefer
<1>2. CASE Programs
  BY <1>2 DEF Programs, ProgramStarts, ProgramStops
<1>3. ASSUME NEW what \in FsOps, QueueOp(what) PROVE Alone'
  BY <1>3 DEF QueueOp, IsFlashBusy, IsPending
<1>4. ASSUME NEW p \in Posts, Begins(p) PROVE Alone'
  <2>1. CASE BodyWithoutContext(p) \/ BodyRejected(p) \/ BodyUnusable(p)
    BY <2>1 DEF BodyWithoutContext, BodyRejected, BodyUnusable
  <2>2. CASE BodyOpened(p)
    BY <2>2 DEF BodyOpened, IsFlashBusy, IsPending
  <2>. QED
    BY <1>4, <2>1, <2>2 DEF Begins
<1>5. ASSUME NEW p \in Posts, GoesOn(p) PROVE Alone'
  <2>1. CASE BodyGoesOn(p)
    BY <2>1 DEF BodyGoesOn
  <2>2. CASE Accept(p)
    BY <2>2 DEF Accept
  <2>3. CASE Discard(p) \/ AnswerBusy(p) \/ AnswerNoMemory(p)
    BY <2>3 DEF Discard, AnswerBusy, AnswerNoMemory
  <2>. QED
    BY <1>5, <2>1, <2>2, <2>3 DEF GoesOn
<1>6. ASSUME NEW p \in Posts, Drop(p) PROVE Alone'
  BY <1>6 DEF Drop
<1>7. ASSUME NEW k \in Kinds, EmptyPost(k) PROVE Alone'
  BY <1>7 DEF EmptyPost
<1>8. CASE Restart
  BY <1>8 DEF Restart, FlashRestart
<1>9. CASE UNCHANGED vars
  BY <1>9 DEF vars
<1>. QED
  BY <1>1, <1>2, <1>3, <1>4, <1>5, <1>6, <1>7, <1>8, <1>9 DEF Next

\* Types, phases and the count of contexts hold in every behaviour.
LEMMA CountInvariant == Spec => [](FlashInv /\ SlotsCover)
<1>1. Init => FlashInv /\ SlotsCover
  BY IngestInit DEF FlashInv
<1>2. FlashInv /\ SlotsCover /\ [Next]_vars => (FlashInv /\ SlotsCover)'
  BY CountStep, FlashInvStep DEF FlashInv
<1>. QED
  BY <1>1, <1>2, PTL DEF Spec

\* What a path keeps holds in every behaviour in which its clients take turns.
LEMMA PathsInvariant == Spec => []Paths
<1>1. Init => Paths
  BY IngestInit DEF Paths
<1>2. FlashInv /\ Paths /\ [Next]_vars => Paths'
  BY PathStep DEF Paths
<1>. QED
  BY <1>1, <1>2, CountInvariant, PTL DEF Spec

\* The contexts in use never run below none or beyond the pool, however clients
\* overlap (gRawJsonPostPool).
THEOREM IngestTypes == Spec => []TypeOK
<1>1. FlashInv => TypeOK
  BY DEF FlashInv
<1>. QED
  BY <1>1, CountInvariant, PTL

\* One thing at a time waits for the flash (deferPosted*Apply, queue*).
THEOREM FlashHasOneUser == ASSUME Overlap = {} PROVE Spec => []OneFlashUser
<1>1. Init => Alone
  BY IngestInit
<1>2. FlashInv /\ Paths /\ Alone /\ [Next]_vars => Alone'
  BY AloneStep DEF Paths
<1>3. Alone => OneFlashUser
  BY DEF Alone, OneFlashUser, FlashUsers, Kinds, NoOp
<1>. QED
  BY <1>1, <1>2, <1>3, CountInvariant, PathsInvariant, PTL DEF Spec

\* What tick() reads is one client's whole body if the clients of its path take
\* turns, whatever those of the other path do (jsonPostStreamOnBody).
THEOREM AcceptedBodiesAreWhole ==
  ASSUME NEW k \in Kinds \ Overlap PROVE Spec => []AwaitingIsWhole(k)
<1>1. Paths => AwaitingIsWhole(k)
  BY DEF Paths, PathInv
<1>. QED
  BY <1>1, PathsInvariant, PTL

\* What is stored is one client's whole configuration if those who save one take
\* turns, whatever those who save programs do (applyPostedConfigJsonFile).
THEOREM StoredBodiesAreWhole == ASSUME "config" \notin Overlap PROVE Spec => []StoredIsWhole
<1>1. Init => StoredIsWhole
  BY IngestInit
<1>2. FlashInv /\ Paths /\ StoredIsWhole /\ [Next]_vars => StoredIsWhole'
  BY WholeStep DEF Paths, Kinds
<1>. QED
  BY <1>1, <1>2, CountInvariant, PathsInvariant, PTL DEF Spec

\* Only a lost connection takes a context out of its pool, however clients
\* overlap (jsonPostStreamOnRequest).
THEOREM OnlyDropsLeak == Spec => OnlyDropLeaks
<1>1. FlashInv /\ [Next]_vars => [Leaked' = Leaked \/ Dropped \/ Restart]_vars
  <2>. SUFFICES ASSUME TypeOK, [Next]_vars, ~Dropped, ~Restart PROVE Leaked' = Leaked
    BY DEF FlashInv
  <2>1. Cardinality(Holding) \in Nat /\ Cardinality(Holding)' \in Nat
    BY HoldingIsFinite, NextHoldingIsFinite
  <2>2. CASE ClientStep
    <3>1. slots \in Int /\ slots' \in Int
      BY <2>2, IngestAssumption DEF TypeOK, ClientStep, Begins, GoesOn, BodyWithoutContext,
         BodyRejected, BodyUnusable, BodyOpened, BodyGoesOn, Accept, Discard, AnswerBusy,
         AnswerNoMemory, Drop, EmptyPost, RequestEnds
    <3>2. slots' - slots = Cardinality(Holding)' - Cardinality(Holding)
      BY <2>2, ClientSlots
    <3>. QED
      BY <2>1, <3>1, <3>2 DEF Leaked
  <2>3. CASE post' = post /\ slots' = slots
    BY <2>3 DEF Leaked, Holding
  <2>. QED
    BY <2>2, <2>3 DEF Next, ClientStep, Loop, Programs, QueueOp, vars
<1>. QED
  BY <1>1, CountInvariant, PTL DEF Spec, OnlyDropLeaks

\* The index goes stale only with its rebuild due or its failure reported
\* (applyPostedProgramJsonFile in two ticks, rebuildProgramIndex).
THEOREM IndexFollowsPrograms ==
  ASSUME "program" \notin Overlap PROVE Spec => StaleIndexReported
<1>1. FlashInv /\ PathInv("program") /\ [Next]_vars =>
        [~Listed' => RebuildDue' \/ ~lastOk' \/ (~Listed /\ ~RebuildDue) \/ Restart]_vars
  <2>. SUFFICES ASSUME FlashInv, PathInv("program"), [Next]_vars, ~Restart, ~Listed'
                PROVE  RebuildDue' \/ ~lastOk' \/ (~Listed /\ ~RebuildDue)
    OBVIOUS
  <2>. USE DEF Listed, RebuildDue, OpTaken, Undefer, Consume, Rebuilt, queue, store,
             listing
  <2>1. CASE Loop
    <3>. TypeOK
      BY DEF FlashInv
    <3>1. CASE ConfigWritten \/ ConfigDone \/ ConfigRefused \/ ConfigIdle
      BY <3>1 DEF ConfigWritten, ConfigDone, ConfigRefused, ConfigIdle, TypeOK, Kinds
    <3>2. CASE ProgramWritten
      BY <3>2 DEF ProgramWritten
    <3>3. CASE ProgramRefused \/ ProgramIdle \/ OpIdle \/ ResetConfig
      BY <3>3 DEF ProgramRefused, ProgramIdle, OpIdle, ResetConfig
    <3>4. ASSUME NEW ok \in BOOLEAN, ProgramIndexed(ok)
          PROVE  RebuildDue' \/ ~lastOk' \/ (~Listed /\ ~RebuildDue)
      BY <3>4 DEF ProgramIndexed
    <3>5. ASSUME NEW id \in Ids, DeleteProgram(id)
          PROVE  RebuildDue' \/ ~lastOk' \/ (~Listed /\ ~RebuildDue)
      BY <3>5 DEF DeleteProgram
    <3>6. CASE ResetPrograms
      BY <3>6 DEF ResetPrograms
    <3>. QED
      BY <2>1, <3>1, <3>2, <3>3, <3>4, <3>5, <3>6 DEF Loop, Tick
  <2>2. ASSUME NEW p \in Posts, Accept(p)
        PROVE  RebuildDue' \/ ~lastOk' \/ (~Listed /\ ~RebuildDue)
    <3>1. CASE Kind[p] = "program"
      <4>1. ~RebuildDue
        BY <2>2, <3>1 DEF PathInv, Marked, Writing, Accept
      <4>. QED
        BY <2>2, <4>1 DEF Accept, RequestEnds
    <3>2. CASE Kind[p] = "config"
      BY <2>2, <3>2 DEF Accept, RequestEnds, FlashInv, TypeOK, Kinds
    <3>. QED
      BY <3>1, <3>2, FlashAssumption DEF Kinds
  <2>3. CASE UNCHANGED <<deferred, indexPhase, programs, listing>>
    BY <2>3
  <2>4. ClientStep => \/ \E p \in Posts : Accept(p)
                      \/ UNCHANGED <<deferred, indexPhase, programs, listing>>
    BY DEF ClientStep, Begins, GoesOn, BodyWithoutContext, BodyRejected, BodyUnusable, BodyOpened,
       BodyGoesOn, Discard, AnswerBusy, AnswerNoMemory, Drop, EmptyPost, RequestEnds, flashVars
  <2>. QED
    BY <2>1, <2>2, <2>3, <2>4
    DEF Next, ClientStep, Programs, ProgramStarts, ProgramStops, QueueOp, vars, flashVars
<1>2. Paths => PathInv("program")
  BY DEF Paths, Kinds
<1>. QED
  BY <1>1, <1>2, CountInvariant, PathsInvariant, PTL DEF Spec, StaleIndexReported

-----------------------------------------------------------------------------
(***************************************************************************)
(* UiStream.  That a page never shows hardware before it knows the mode is *)
(* not inductive: what is still queued counts, and so does the step of the *)
(* baseline.  A stream that is not in its baseline, or that has only the   *)
(* hardware of it left, has the mode told or queued; a queued hardware has *)
(* the mode told or queued before it; a baseline begun anew in the middle  *)
(* of all this takes nothing back.  stop() closes the stream of a server   *)
(* that is up only: there is none without it.                              *)
(***************************************************************************)

\* The page shows the mode, or will once it has been sent the first n - 1 events of s.
ModeBefore(s, v, n) == v["mode"] # Unknown \/ \E j \in 1..n - 1 : s.queue[j].event = "mode"

\* What a stream and its page have in common.
HardwareAfterMode(s, v) ==
  /\ s.client = Nobody => s.queue = <<>>
  /\ s.client # Nobody =>
       /\ v["hardware"] # Unknown => v["mode"] # Unknown
       /\ s.step \in {0, Len(Baseline)} => ModeBefore(s, v, Len(s.queue) + 1)
       /\ \A i \in 1..Len(s.queue) : s.queue[i].event = "hardware" => ModeBefore(s, v, i)

UiInv ==
  /\ UiTypeOK /\ HardwareAfterMode(stream, view)
  /\ stream.client # Nobody => ap.server

StreamOK(s, v) ==
  /\ s \in Streams /\ Len(s.queue) <= QUEUE_MAX /\ v \in Views
  /\ HardwareAfterMode(s, v)

-----------------------------------------------------------------------------
\* The names of channels and events, and what no page is told.
LEMMA Facts ==
  /\ Len(Baseline) = 3 /\ Baseline[1] = "clocks" /\ Baseline[2] = "mode" /\ Baseline[3] = "hardware"
  /\ Channels = {"mode", "hardware"} /\ Events = {"clocks", "mode", "hardware"}
  /\ Blank \in Views /\ Blank["mode"] = Unknown /\ Blank["hardware"] = Unknown
  /\ Unknown \notin Told /\ Nobody \notin Pages
  BY UiAssumption DEF Baseline, Channels, Events, Blank, Views, Unknown, Told, Modes, Nobody

\* A non-empty set of positions has a last one.
LEMMA LastOne ==
  ASSUME NEW n \in Nat, NEW S \in SUBSET (1..n), S # {}
  PROVE  Max(S) \in S
<1>. DEFINE R == OpToRel(<, Nat)
            T == {k \in Nat : \E i \in S : k = n - i}
<1>1. \A i \in S : n - i \in T OBVIOUS
<1>2. IsWellFoundedOn(R, Nat) BY NatLessThanWellFounded
<1>3. \A x, y \in Nat : y < x => <<y, x>> \in R BY DEF OpToRel
<1>4. T \subseteq Nat /\ T # {} BY <1>1
<1>. HIDE DEF R
<1>5. PICK x \in T : \A y \in T : ~ (<<y, x>> \in R) BY <1>4, <1>2, WFMin
<1>6. ASSUME NEW y \in T PROVE ~(y < x) BY <1>3, <1>5
<1>7. PICK i \in S : x = n - i BY <1>5
<1>8. ASSUME NEW j \in S PROVE i >= j
  <2>1. ~ (n - j < n - i) BY <1>1, <1>6, <1>7
  <2>2. QED BY <2>1
<1>9. \E m \in S : \A j \in S : m >= j BY <1>8
<1>. QED BY <1>9, Zenon DEF Max

\* A stream that is closed is in order whatever is shown.
LEMMA ClosedOK ==
  ASSUME NEW s \in Streams, NEW v
  PROVE  /\ CloseStream(s) \in Streams /\ CloseStream(s).client = Nobody
         /\ CloseStream(s).queue = <<>> /\ Len(CloseStream(s).queue) <= QUEUE_MAX
         /\ HardwareAfterMode(CloseStream(s), v)
<1>1. <<>> \in Seq(Notices) /\ Len(<<>>) = 0 OBVIOUS
<1>2. CloseStream(s) \in Streams /\ CloseStream(s).client = Nobody /\ CloseStream(s).queue = <<>>
  BY <1>1 DEF CloseStream, Streams
<1>. QED BY <1>1, <1>2, UiAssumption DEF HardwareAfterMode

\* A baseline asked for anew keeps what was told in order.
LEMMA ResyncOK ==
  ASSUME NEW s \in Streams, NEW v \in Views, HardwareAfterMode(s, v)
  PROVE  /\ Resync(s) \in Streams /\ Resync(s).client = s.client
         /\ Resync(s).queue = s.queue
         /\ HardwareAfterMode(Resync(s), v)
<1>1. /\ Resync(s) \in Streams /\ Resync(s).client = s.client
      /\ Resync(s).queue = s.queue /\ Resync(s).step = 1
  <2>1. Blank \in Views /\ 1 \in 0..Len(Baseline)
    BY Facts
  <2>. QED BY <2>1 DEF Resync, Streams
<1>. QED BY <1>1, Facts DEF HardwareAfterMode, ModeBefore

\* So does an event appended to it, the hardware once the mode is told or queued.
LEMMA AppendedOK ==
  ASSUME NEW s \in Streams, NEW v \in Views, HardwareAfterMode(s, v), s.client # Nobody,
         NEW m \in Notices, m.event = "hardware" => s.step \in {0, 3},
         NEW t \in Streams, t.client = s.client, t.queue = Append(s.queue, m),
         t.step = s.step
  PROVE  /\ HardwareAfterMode(t, v)
         /\ m.event = "mode" \/ s.step \in {0, 3} => ModeBefore(t, v, Len(t.queue) + 1)
<1>1. s.queue \in Seq(Notices) BY DEF Streams
<1>2. /\ Len(t.queue) = Len(s.queue) + 1 /\ Len(s.queue) \in Nat
      /\ \A i \in 1..Len(s.queue) : t.queue[i] = s.queue[i]
      /\ t.queue[Len(s.queue) + 1] = m
  BY <1>1, AppendProperties
<1>3. \A i \in 1..Len(s.queue) + 1 : ModeBefore(s, v, i) => ModeBefore(t, v, i)
  BY <1>2 DEF ModeBefore
<1>4. s.step \in {0, 3} => ModeBefore(s, v, Len(s.queue) + 1) BY Facts DEF HardwareAfterMode
<1>5. ModeBefore(t, v, Len(s.queue) + 1) => ModeBefore(t, v, Len(t.queue) + 1)
  BY <1>2 DEF ModeBefore
<1>6. s.step \in {0, 3} => ModeBefore(t, v, Len(t.queue) + 1) BY <1>2, <1>3, <1>4, <1>5
<1>7. m.event = "mode" => ModeBefore(t, v, Len(t.queue) + 1) BY <1>2 DEF ModeBefore
<1>8. ASSUME NEW i \in 1..Len(t.queue), t.queue[i].event = "hardware"
      PROVE  ModeBefore(t, v, i)
  <2>1. CASE i \in 1..Len(s.queue) BY <2>1, <1>2, <1>3, <1>8 DEF HardwareAfterMode
  <2>2. CASE i = Len(s.queue) + 1 BY <2>2, <1>2, <1>3, <1>4, <1>8
  <2>3. QED BY <2>1, <2>2, <1>2
<1>. QED BY <1>6, <1>7, <1>8, Facts DEF HardwareAfterMode

-----------------------------------------------------------------------------
\* One event that fits, or none.
LEMMA SentOK ==
  ASSUME UiTypeOK, NEW s \in Streams, Len(s.queue) <= QUEUE_MAX,
         HardwareAfterMode(s, view), NEW e \in Events, NEW fits \in SUBSET Events,
         s.client = Nobody => fits = {}, e = "hardware" => s.step \in {0, 3}
  PROVE  LET t == SendJsonEvent(s, e, fits) IN
         /\ t \in Streams /\ Len(t.queue) <= QUEUE_MAX
         /\ t.client = s.client /\ t.step = s.step
         /\ HardwareAfterMode(t, view)
         /\ Len(t.queue) = Len(s.queue) \/ Len(t.queue) = Len(s.queue) + 1
         /\ Len(t.queue) # Len(s.queue) /\ e = "mode" /\ t.client # Nobody
              => ModeBefore(t, view, Len(t.queue) + 1)
         /\ Len(t.queue) # Len(s.queue) => t.client # Nobody
<1>. DEFINE t == SendJsonEvent(s, e, fits)
            m == [event |-> e, value |-> Actual(e)]
<1>1. CASE e \in fits /\ Len(s.queue) < QUEUE_MAX
  <2>1. s.client # Nobody BY <1>1
  <2>2. Actual(e) \in Told /\ (e = "mode" => Actual(e) \in Told)
    BY Facts DEF Actual, Told, UiTypeOK, RestOK, Modes
  <2>3. m \in Notices BY <2>2 DEF Notices
  <2>4. s.queue \in Seq(Notices) /\ s.last \in [Channels -> Told \cup {Unknown}] BY DEF Streams, Views
  <2>5. /\ Append(s.queue, m) \in Seq(Notices)
        /\ Len(Append(s.queue, m)) = Len(s.queue) + 1 /\ Len(s.queue) \in Nat
    BY <2>3, <2>4, AppendProperties
  <2>6. t = [s EXCEPT !.queue = Append(s.queue, m),
                      !.last = [c \in Channels |-> IF c = e THEN Actual(e) ELSE s.last[c]]]
    BY <1>1 DEF SendJsonEvent, Sent
  <2>7. [c \in Channels |-> IF c = e THEN Actual(e) ELSE s.last[c]]
          \in Views
    BY <2>2, <2>4 DEF Views
  <2>. HIDE DEF m, t
  <2>8. t \in Streams /\ t.client = s.client /\ t.step = s.step /\ t.queue = Append(s.queue, m)
    BY <2>5, <2>6, <2>7 DEF Streams
  <2>9. m.event = e BY DEF m
  <2>10. /\ HardwareAfterMode(t, view)
         /\ m.event = "mode" => ModeBefore(t, view, Len(t.queue) + 1)
    BY <2>1, <2>3, <2>8, <2>9, AppendedOK DEF UiTypeOK, Views
  <2>11. Len(t.queue) <= QUEUE_MAX BY <1>1, <2>5, <2>8, UiAssumption
  <2>. QED BY <2>1, <2>5, <2>8, <2>9, <2>10, <2>11 DEF t
<1>2. CASE ~(e \in fits /\ Len(s.queue) < QUEUE_MAX)
  <2>1. t = s BY <1>2 DEF SendJsonEvent
  <2>. QED BY <2>1
<1>. QED BY <1>1, <1>2

\* One event of the baseline, which goes on only once it is queued.
LEMMA BaselineOK ==
  ASSUME UiTypeOK, NEW s \in Streams, Len(s.queue) <= QUEUE_MAX,
         HardwareAfterMode(s, view), NEW fits \in SUBSET Events,
         s.client = Nobody => fits = {}, s.step > 0
  PROVE  LET t == BaselineTick(s, fits) IN
         /\ t \in Streams /\ Len(t.queue) <= QUEUE_MAX /\ t.client = s.client
         /\ HardwareAfterMode(t, view)
<1>. DEFINE e == Baseline[s.step]
            t == SendJsonEvent(s, e, fits)
            next == IF s.step < Len(Baseline) THEN s.step + 1 ELSE 0
            u == [t EXCEPT !.step = next]
<1>1. s.step \in 1..3 BY Facts DEF Streams
<1>2. e \in Events /\ (e = "hardware" => s.step = 3) /\ (s.step = 2 => e = "mode")
  <2>1. CASE s.step = 1 BY <2>1, Facts
  <2>2. CASE s.step = 2 BY <2>2, Facts
  <2>3. CASE s.step = 3 BY <2>3, Facts
  <2>. QED BY <1>1, <2>1, <2>2, <2>3
<1>3. /\ t \in Streams /\ Len(t.queue) <= QUEUE_MAX
      /\ t.client = s.client /\ t.step = s.step
      /\ HardwareAfterMode(t, view)
      /\ Len(t.queue) # Len(s.queue) /\ e = "mode" /\ t.client # Nobody
              => ModeBefore(t, view, Len(t.queue) + 1)
      /\ Len(t.queue) # Len(s.queue) => t.client # Nobody
  BY <1>2, SentOK
<1>4. BaselineTick(s, fits) = IF Len(t.queue) = Len(s.queue) THEN t ELSE u
  BY DEF BaselineTick
<1>. HIDE DEF e, t
<1>5. ASSUME Len(t.queue) # Len(s.queue)
      PROVE  u \in Streams /\ Len(u.queue) <= QUEUE_MAX /\ u.client = s.client
             /\ HardwareAfterMode(u, view)
  <2>1. next \in 0..3 /\ (next = 3 <=> s.step = 2) /\ (next = 0 <=> s.step = 3) BY <1>1, Facts
  <2>. HIDE DEF next
  <2>2. /\ u \in Streams /\ u.queue = t.queue /\ u.client = t.client /\ u.step = next
    BY <1>3, <2>1, Facts DEF Streams
  <2>. HIDE DEF u
  <2>3. s.step = 3 => ModeBefore(t, view, Len(t.queue) + 1)
    BY <1>3, <1>5, Facts DEF HardwareAfterMode
  <2>4. next \in {0, 3} => ModeBefore(t, view, Len(t.queue) + 1) BY <1>2, <1>3, <1>5, <2>1, <2>3
  <2>5. HardwareAfterMode(u, view)
    BY <1>3, <2>2, <2>4, Facts DEF HardwareAfterMode, ModeBefore
  <2>. QED BY <1>3, <2>2, <2>5
<1>. QED BY <1>3, <1>4, <1>5

\* Outside the baseline, several events in one tick.
LEMMA ChangesOK ==
  ASSUME UiTypeOK, NEW s \in Streams, Len(s.queue) <= QUEUE_MAX,
         HardwareAfterMode(s, view), NEW fits \in SUBSET Events,
         s.client = Nobody => fits = {}, s.step = 0
  PROVE  LET t == ChangesTick(s, fits) IN
         /\ t \in Streams /\ Len(t.queue) <= QUEUE_MAX /\ t.client = s.client
         /\ HardwareAfterMode(t, view)
<1>. DEFINE Good(t) == /\ t \in Streams /\ Len(t.queue) <= QUEUE_MAX /\ t.client = s.client
                       /\ t.step = 0 /\ HardwareAfterMode(t, view)
<1>1. ASSUME NEW t, Good(t), NEW e \in Events PROVE Good(SendIfStale(t, e, fits))
  BY <1>1, SentOK DEF SendIfStale
<1>2. Good(s) OBVIOUS
<1>. HIDE DEF Good
<1>3. Good(ChangesTick(s, fits)) BY <1>1, <1>2, Facts DEF ChangesTick
<1>. QED BY <1>3 DEF Good

\* A tick of the stream, whatever the heap has room for.
LEMMA StreamTickOK ==
  ASSUME UiInv, NEW fits \in SUBSET Events
  PROVE  LET t == StreamTick(stream, fits) IN
         /\ t \in Streams /\ Len(t.queue) <= QUEUE_MAX /\ t.client = stream.client
         /\ HardwareAfterMode(t, view)
<1>. DEFINE allowed == IF stream.client = Nobody \/ NoSession THEN {} ELSE fits
<1>1. /\ stream \in Streams /\ Len(stream.queue) <= QUEUE_MAX /\ UiTypeOK
      /\ HardwareAfterMode(stream, view)
  BY DEF UiInv, UiTypeOK
<1>2. allowed \in SUBSET Events /\ (stream.client = Nobody => allowed = {}) OBVIOUS
<1>3. StreamTick(stream, fits) = IF stream.step > 0 THEN BaselineTick(stream, allowed)
                                 ELSE ChangesTick(stream, allowed)
  BY DEF StreamTick
<1>. HIDE DEF allowed
<1>4. stream.step > 0 \/ stream.step = 0 BY <1>1, Facts DEF Streams
<1>5. CASE stream.step > 0 BY <1>1, <1>2, <1>3, <1>5, BaselineOK
<1>6. CASE stream.step = 0 BY <1>1, <1>2, <1>3, <1>6, ChangesOK
<1>. QED BY <1>4, <1>5, <1>6

-----------------------------------------------------------------------------
\* The invariant in the parts that steps disturb one by one.
LEMMA InvParts ==
  UiInv <=> RestOK /\ StreamOK(stream, view) /\ (stream.client # Nobody => ap.server)
  BY DEF UiInv, UiTypeOK, StreamOK

\* What every step that opens no stream has in common.
LEMMA StreamKept ==
  ASSUME UiInv, RestOK', StreamOK(stream', view'),
         stream'.client = Nobody \/ stream'.client = stream.client,
         ap.server => ap'.server
  PROVE  UiInv'
  BY InvParts DEF UiInv, UiTypeOK, StreamOK

\* The last session goes, and the stream with it.
LEMMA UnwatchedOK ==
  ASSUME UiInv, NEW sessions, CloseIfUnwatched(sessions)
  PROVE  StreamOK(stream', view') /\ (stream'.client = Nobody \/ stream'.client = stream.client)
<1>1. StreamOK(stream, view) BY InvParts
<1>2. CASE stream' = CloseStream(stream) /\ view' = Blank
  BY <1>1, <1>2, ClosedOK, Facts DEF StreamOK
<1>3. CASE UNCHANGED <<stream, view>> BY <1>1, <1>3
<1>. QED BY <1>2, <1>3 DEF CloseIfUnwatched

\* Closing it, with the view of a page that holds no stream.
LEMMA ClosesOK ==
  ASSUME UiInv, stream' = CloseStream(stream), view' = Blank
  PROVE  StreamOK(stream', view') /\ stream'.client = Nobody
  BY InvParts, ClosedOK, Facts DEF StreamOK

\* An event of no channel.
LEMMA AppendsOK ==
  ASSUME NEW s, NEW v, StreamOK(s, v), s.client # Nobody, Len(s.queue) < QUEUE_MAX,
         NEW e \in {"resync", "log"}
  PROVE  LET t == [s EXCEPT !.queue = Append(@, [event |-> e, value |-> ""])] IN
         StreamOK(t, v) /\ t.client = s.client
<1>. DEFINE m == [event |-> e, value |-> ""]
            t == [s EXCEPT !.queue = Append(s.queue, m)]
<1>1. m \in Notices /\ m.event # "hardware" BY DEF Notices, Told
<1>2. s.queue \in Seq(Notices) /\ s \in Streams BY DEF StreamOK, Streams
<1>. HIDE DEF m
<1>3. /\ Append(s.queue, m) \in Seq(Notices)
      /\ Len(Append(s.queue, m)) = Len(s.queue) + 1 /\ Len(s.queue) \in Nat
  BY <1>1, <1>2, AppendProperties
<1>4. t \in Streams /\ t.client = s.client /\ t.step = s.step /\ t.queue = Append(s.queue, m)
  BY <1>2, <1>3 DEF Streams
<1>. HIDE DEF t
<1>5. HardwareAfterMode(t, v) BY <1>1, <1>2, <1>4, AppendedOK DEF StreamOK
<1>6. Len(t.queue) <= QUEUE_MAX BY <1>3, <1>4, UiAssumption
<1>7. StreamOK(t, v) /\ t.client = s.client BY <1>4, <1>5, <1>6 DEF StreamOK
<1>. QED BY <1>7 DEF t, m

\* broadcastResync().
LEMMA ForceOK ==
  ASSUME NEW s, NEW v, StreamOK(s, v), NEW sessions
  PROVE  StreamOK(BroadcastResync(s, sessions), v) /\ BroadcastResync(s, sessions).client = s.client
<1>. DEFINE longer == [s EXCEPT !.queue = Append(@, [event |-> "resync", value |-> ""])]
            t == IF Len(s.queue) < QUEUE_MAX THEN longer ELSE s
<1>1. ASSUME s.client # Nobody PROVE StreamOK(t, v) /\ t.client = s.client
  <2>1. CASE Len(s.queue) < QUEUE_MAX BY <1>1, <2>1, AppendsOK
  <2>2. CASE ~(Len(s.queue) < QUEUE_MAX) BY <2>2
  <2>. QED BY <2>1, <2>2
<1>2. BroadcastResync(s, sessions) = IF s.client = Nobody \/ \A p \in Pages : sessions[p] = Gone
                           THEN s ELSE Resync(t)
  BY DEF BroadcastResync
<1>. HIDE DEF t
<1>3. ASSUME s.client # Nobody PROVE StreamOK(Resync(t), v) /\ Resync(t).client = s.client
  BY <1>1, <1>3, ResyncOK DEF StreamOK
<1>. QED BY <1>2, <1>3

\* A page that is told the first events of the queue.
LEMMA DeliverOK ==
  ASSUME UiInv, NEW n, Deliver(n)
  PROVE  StreamOK(stream', view') /\ stream'.client = stream.client
<1>. DEFINE q == stream.queue
            told(c) == Tells(c, n)
            rest == SubSeq(q, n + 1, Len(q))
<1>1. /\ q \in Seq(Notices) /\ Len(q) \in Nat /\ Len(q) <= QUEUE_MAX
      /\ n \in 1..Len(q) /\ n \in Nat
      /\ stream \in Streams /\ view \in Views /\ HardwareAfterMode(stream, view)
  BY InvParts DEF StreamOK, Streams, Deliver
<1>2. stream.client # Nobody BY <1>1 DEF HardwareAfterMode
<1>3. \A i \in 1..Len(q) : q[i] \in Notices BY <1>1, ElementOfSeq
<1>4. \A c : told(c) # {} => Max(told(c)) \in told(c)
  BY <1>1, LastOne DEF Tells
<1>5. ASSUME NEW c, told(c) # {} PROVE q[Max(told(c))].value \in Told
  <2>1. told(c) \subseteq 1..Len(q) BY <1>1 DEF Tells
  <2>2. Max(told(c)) \in 1..Len(q) BY <1>4, <1>5, <2>1, Zenon
  <2>. QED BY <1>3, <2>2 DEF Notices
<1>6. view' = [c \in Channels |-> IF told(c) = {} THEN view[c] ELSE q[Max(told(c))].value]
  BY DEF Deliver
<1>7. view' \in Views BY <1>1, <1>5, <1>6 DEF Views
<1>8. view["mode"] # Unknown \/ told("mode") # {} => view'["mode"] # Unknown
  BY <1>5, <1>6, Facts
<1>9. view'["hardware"] # Unknown => view["hardware"] # Unknown \/ told("hardware") # {}
  BY <1>6, Facts
<1>10. /\ rest \in Seq(Notices) /\ Len(rest) = Len(q) - n
       /\ \A i \in 1..Len(q) - n : rest[i] = q[n + i]
  BY <1>1, SubSeqProperties
<1>11. stream' = [stream EXCEPT !.queue = rest] BY DEF Deliver
<1>. HIDE DEF rest
<1>12. /\ stream' \in Streams /\ stream'.queue = rest /\ stream'.client = stream.client
       /\ stream'.step = stream.step
  BY <1>1, <1>10, <1>11 DEF Streams
<1>13. ASSUME NEW i \in 1..n, q[i].event = "hardware" PROVE view'["mode"] # Unknown
  <2>1. ModeBefore(stream, view, i) BY <1>1, <1>2, <1>13 DEF HardwareAfterMode
  <2>2. ASSUME NEW j \in 1..i - 1, q[j].event = "mode" PROVE told("mode") # {}
    BY <1>1, <2>2 DEF Tells
  <2>. QED BY <1>8, <2>1, <2>2 DEF ModeBefore
<1>14. view'["hardware"] # Unknown => view'["mode"] # Unknown
  <2>1. view["hardware"] # Unknown => view["mode"] # Unknown
    BY <1>1, <1>2 DEF HardwareAfterMode
  <2>2. told("hardware") # {} => \E i \in 1..n : q[i].event = "hardware" BY DEF Tells
  <2>. QED BY <1>8, <1>9, <1>13, <2>1, <2>2
<1>15. ASSUME NEW k \in 1..Len(q) - n + 1, ModeBefore(stream, view, n + k)
       PROVE  ModeBefore(stream', view', k)
  <2>1. ASSUME NEW j \in 1..(n + k) - 1, q[j].event = "mode"
        PROVE  ModeBefore(stream', view', k)
    <3>1. CASE j <= n
      <4>1. j \in told("mode") BY <2>1, <3>1, <1>1 DEF Tells
      <4>. QED BY <4>1, <1>8 DEF ModeBefore
    <3>2. CASE j > n
      <4>1. j - n \in 1..k - 1 /\ rest[j - n] = q[j] BY <1>1, <1>10, <3>2
      <4>. QED BY <4>1, <2>1, <1>12 DEF ModeBefore
    <3>. QED BY <1>1, <3>1, <3>2
  <2>2. ASSUME view["mode"] # Unknown PROVE ModeBefore(stream', view', k)
    BY <1>8, <2>2 DEF ModeBefore
  <2>3. view["mode"] # Unknown \/ \E j \in 1..(n + k) - 1 : q[j].event = "mode"
    BY <1>15, Zenon DEF ModeBefore
  <2>. QED BY <2>1, <2>2, <2>3
<1>16. ASSUME NEW i \in 1..Len(rest), rest[i].event = "hardware"
       PROVE  ModeBefore(stream', view', i)
  <2>1. i \in 1..Len(q) - n + 1 /\ n + i \in 1..Len(q) /\ q[n + i].event = "hardware"
    BY <1>1, <1>10, <1>16
  <2>2. ModeBefore(stream, view, n + i) BY <1>1, <1>2, <2>1 DEF HardwareAfterMode
  <2>. QED BY <1>15, <2>1, <2>2
<1>17. stream.step \in {0, Len(Baseline)} => ModeBefore(stream', view', Len(rest) + 1)
  <2>1. /\ Len(rest) + 1 \in 1..Len(q) - n + 1 /\ n + (Len(rest) + 1) = Len(q) + 1
    BY <1>1, <1>10
  <2>2. stream.step \in {0, Len(Baseline)} => ModeBefore(stream, view, Len(q) + 1)
    BY <1>1, <1>2 DEF HardwareAfterMode
  <2>. QED BY <1>15, <2>1, <2>2
<1>18. HardwareAfterMode(stream', view')
  BY <1>2, <1>12, <1>14, <1>16, <1>17 DEF HardwareAfterMode
<1>19. Len(stream'.queue) <= QUEUE_MAX BY <1>1, <1>10, <1>12, UiAssumption
<1>. QED BY <1>7, <1>12, <1>18, <1>19 DEF StreamOK

-----------------------------------------------------------------------------
\* The initial state satisfies the invariant.
LEMMA UiInvInit == UiInit => UiInv
<1>. SUFFICES ASSUME UiInit PROVE UiInv OBVIOUS
<1>1. /\ stream.client = Nobody /\ stream.queue = <<>> /\ stream.step = 0 /\ stream.last = Blank
      /\ stream = [client |-> Nobody, queue |-> <<>>, step |-> 0, last |-> Blank]
  BY DEF UiInit, Closed
<1>2. <<>> \in Seq(Notices) /\ Len(<<>>) = 0 /\ 0 \in 0..Len(Baseline) BY Facts
<1>3. stream \in Streams BY <1>1, <1>2, Facts DEF Streams, Views
<1>4. StreamOK(stream, view)
  BY <1>1, <1>2, <1>3, Facts, UiAssumption DEF UiInit, StreamOK, HardwareAfterMode
<1>5. RestOK
  <2>1. Gone \in 0..Gone /\ 0 \in 0..AP_TIMEOUT BY UiAssumption DEF Gone
  <2>2. env \in [may : Environments, left : 0..MaxEvents]
    <3>1. MaxEvents \in 0..MaxEvents BY UiAssumption
    <3>. QED BY <3>1 DEF UiInit
  <2>3. mode \in Modes /\ pc \in {"update", "handle", "send"} /\ hardware \in {"on", "off"}
        /\ cellular \in {"served", "suspended"}
    BY DEF UiInit, Modes
  <2>4. ap \in [state : {"Idle", "WaitBefore", "WaitMode", "WaitApStart"},
                due : BOOLEAN, up : BOOLEAN, server : BOOLEAN]
    BY DEF UiInit
  <2>5. ui \in [heavy : BOOLEAN, ready : BOOLEAN, before : BOOLEAN] /\ station \in BOOLEAN
    BY DEF UiInit, Quiet
  <2>6. seen \in [Pages -> 0..Gone] /\ idle \in 0..AP_TIMEOUT BY <2>1 DEF UiInit
  <2>. QED BY <2>2, <2>3, <2>4, <2>5, <2>6 DEF RestOK
<1>. QED BY <1>1, <1>4, <1>5, InvParts

-----------------------------------------------------------------------------
\* The three parts of a pass.
LEMMA UpdateInv == UiInv /\ Update => UiInv'
<1>. SUFFICES ASSUME UiInv, Update PROVE UiInv' OBVIOUS
<1>. DEFINE sessions == [p \in Pages |-> IF p \in Expired THEN Gone ELSE seen[p]]
<1>1. RestOK /\ StreamOK(stream, view) BY InvParts
<1>2. seen' = sessions /\ (CloseIfUnwatched(sessions) \/ UNCHANGED <<stream, view>>)
  BY DEF Update, ExpireSessions
<1>3. Gone \in 0..Gone BY UiAssumption DEF Gone
<1>4. seen' \in [Pages -> 0..Gone] BY <1>1, <1>2, <1>3 DEF RestOK
<1>. HIDE DEF sessions
<1>5. StreamOK(stream', view') /\ (stream'.client = Nobody \/ stream'.client = stream.client)
  <2>1. CASE CloseIfUnwatched(sessions) BY <2>1, UnwatchedOK
  <2>2. CASE UNCHANGED <<stream, view>> BY <1>1, <2>2
  <2>. QED BY <1>2, <2>1, <2>2
<1>6. /\ ap' \in [state : {"Idle", "WaitBefore", "WaitMode", "WaitApStart"},
                  due : BOOLEAN, up : BOOLEAN, server : BOOLEAN]
      /\ ap.server => ap'.server
  <2>1. ap \in [state : {"Idle", "WaitBefore", "WaitMode", "WaitApStart"},
                due : BOOLEAN, up : BOOLEAN, server : BOOLEAN]
    BY <1>1 DEF RestOK
  <2>2. CASE ApWaits BY <2>1, <2>2 DEF ApWaits
  <2>3. CASE ApBegins BY <2>1, <2>3 DEF ApBegins, To
  <2>4. CASE SoftAp BY <2>1, <2>4 DEF SoftAp, To
  <2>5. CASE HeapIsLow BY <2>1, <2>5 DEF HeapIsLow, To
  <2>6. CASE ApComesUp BY <2>1, <2>6 DEF ApComesUp
  <2>. QED BY <2>2, <2>3, <2>4, <2>5, <2>6 DEF Update
<1>7. RestOK' BY <1>1, <1>4, <1>6 DEF Update, RestOK
<1>. QED BY <1>5, <1>6, <1>7, StreamKept

\* handleNormal(), handleNormalSilent(), handleOTAUpdate(): the access point is taken down, or
\* started with another configuration, under a stream or without one.
LEMMA HandleInv == UiInv /\ Handle => UiInv'
<1>. SUFFICES ASSUME UiInv, Handle PROVE UiInv' OBVIOUS
<1>1. RestOK /\ StreamOK(stream, view) /\ (stream.client # Nobody => ap.server) BY InvParts
<1>2. pc' \in {"update", "handle", "send"} /\ hardware' = hardware /\ env' = env BY DEF Handle
<1>3. Gone \in 0..Gone /\ 0 \in 0..AP_TIMEOUT BY UiAssumption DEF Gone
<1>4. [p \in Pages |-> Gone] \in [Pages -> 0..Gone] BY <1>3
<1>5. CASE HandleNormal
  <2>1. Marks \in [heavy : BOOLEAN, ready : BOOLEAN, before : BOOLEAN]
        /\ cellular' \in {"served", "suspended"}
    BY <1>1, <1>5 DEF HandleNormal, RestOK, Marks, Joined, Quiet, LinkFor
  <2>2. CASE ApTimesOut
    <3>1. mode' = "NORMAL_SILENT" /\ Stop
          /\ ui' = [Marks EXCEPT !.heavy = FALSE, !.ready = FALSE] /\ idle' = idle
      BY <1>5, <2>2 DEF HandleNormal
    <3>2. ap' = [ap EXCEPT !.up = FALSE] /\ seen' = [p \in Pages |-> Gone]
          /\ view' = Blank /\ station' = FALSE
          /\ stream' = IF ap.server THEN CloseStream(stream) ELSE stream
      BY <3>1 DEF Stop
    <3>3. StreamOK(stream', view') /\ stream'.client = Nobody
      <4>1. CASE ap.server BY <3>2, <4>1, ClosesOK
      <4>2. CASE ~ap.server
        <5>1. stream.client = Nobody /\ stream' = stream BY <1>1, <3>2, <4>2
        <5>. QED BY <1>1, <3>2, <5>1, Facts DEF StreamOK, HardwareAfterMode
      <4>. QED BY <4>1, <4>2
    <3>4. /\ ap' \in [state : {"Idle", "WaitBefore", "WaitMode", "WaitApStart"},
                      due : BOOLEAN, up : BOOLEAN, server : BOOLEAN]
          /\ ap.server => ap'.server
      BY <1>1, <3>2 DEF RestOK
    <3>5. ui' \in [heavy : BOOLEAN, ready : BOOLEAN, before : BOOLEAN] BY <2>1, <3>1
    <3>6. mode' \in Modes /\ station' \in BOOLEAN BY <3>1, <3>2 DEF Modes
    <3>7. RestOK' BY <1>1, <1>2, <1>4, <2>1, <3>1, <3>2, <3>4, <3>5, <3>6 DEF RestOK
    <3>. QED BY <3>3, <3>4, <3>7, StreamKept
  <2>3. CASE ~ApTimesOut
    <3>1. ui' = Marks /\ UNCHANGED <<mode, ap, seen, stream, view, station, idle>>
      BY <1>5, <2>3 DEF HandleNormal
    <3>2. RestOK' BY <1>1, <1>2, <2>1, <3>1 DEF RestOK
    <3>. QED BY <1>1, <3>1, <3>2, StreamKept
  <2>. QED BY <2>2, <2>3
<1>6. ASSUME UNCHANGED <<mode, ap, seen, idle, ui, station, stream, view>>,
             cellular' \in {"served", "suspended"}
      PROVE  UiInv'
  <2>1. RestOK' BY <1>1, <1>2, <1>6 DEF RestOK
  <2>. QED BY <1>1, <1>6, <2>1, StreamKept
<1>7. CASE HandleNormalSilent BY <1>6, <1>7 DEF HandleNormalSilent
<1>8. CASE HandleOta
  <2>1. ASSUME NEW changed \in BOOLEAN, RestartAp(changed) PROVE UiInv'
    <3>1. /\ ap' \in [state : {"Idle", "WaitBefore", "WaitMode", "WaitApStart"},
                      due : BOOLEAN, up : BOOLEAN, server : BOOLEAN]
          /\ ap.server => ap'.server
          /\ ui' \in [heavy : BOOLEAN, ready : BOOLEAN, before : BOOLEAN]
          /\ station' \in BOOLEAN
      BY ZenonT(60), <1>1, <2>1 DEF RestOK, RestartAp
    <3>2. seen' \in [Pages -> 0..Gone] /\ idle' \in 0..AP_TIMEOUT
      BY <1>1, <1>3, <1>4, <2>1 DEF RestOK, RestartAp
    <3>3. mode' \in Modes /\ cellular' \in {"served", "suspended"}
      BY <1>8, <2>1 DEF RestartAp, HandleOta, Modes
    <3>4. RestOK' BY <1>2, <1>1, <3>1, <3>2, <3>3 DEF RestOK
    <3>5. StreamOK(stream', view') /\ (stream'.client = Nobody \/ stream'.client = stream.client)
      <4>1. CASE changed
        <5>1. stream' = CloseStream(stream) /\ view' = Blank BY <2>1, <4>1 DEF RestartAp
        <5>. QED BY <5>1, ClosesOK
      <4>2. CASE ~changed
        <5>1. stream' = BroadcastResync(stream, seen) /\ view' = view BY <2>1, <4>2 DEF RestartAp
        <5>. QED BY <1>1, <5>1, ForceOK
      <4>. QED BY <4>1, <4>2
    <3>. QED BY <3>1, <3>4, <3>5, StreamKept
  <2>2. CASE UNCHANGED <<mode, ap, seen, idle, ui, station, stream, view>>
    BY <1>6, <1>8, <2>2 DEF HandleOta
  <2>. QED BY <1>8, <2>1, <2>2 DEF HandleOta
<1>. QED BY <1>5, <1>7, <1>8 DEF Handle

\* The tick that follows the yield().
LEMMA SendInv == ASSUME UiInv, NEW fits \in SUBSET Events, Send(fits) PROVE UiInv'
<1>1. RestOK /\ StreamOK(stream, view) BY InvParts
<1>2. stream' = StreamTick(stream, fits) /\ view' = view /\ UNCHANGED ap BY DEF Send, apVars
<1>3. RestOK' BY <1>1 DEF Send, apVars, RestOK
<1>4. StreamOK(stream', view') /\ stream'.client = stream.client
  BY <1>1, <1>2, StreamTickOK DEF StreamOK
<1>. QED BY <1>2, <1>3, <1>4, StreamKept

-----------------------------------------------------------------------------
\* The callbacks.
\* The bound of the environment.
LEMMA HappensOK ==
  ASSUME UiInv, NEW e, Happens(e)
  PROVE  env' \in [may : Environments, left : 0..MaxEvents]
<1>1. env \in [may : Environments, left : 0..MaxEvents] /\ env.left > 0
      /\ env' = [env EXCEPT !.left = env.left - 1]
  BY InvParts DEF RestOK, Happens
<1>2. env.left - 1 \in 0..MaxEvents BY <1>1, UiAssumption
<1>. QED BY <1>1, <1>2

\* A lease is renewed, or the oldest one is taken.
LEMMA TouchOK ==
  ASSUME UiInv, NEW p \in Pages, TouchUiSession(p)
  PROVE  seen' \in [Pages -> 0..Gone] /\ idle' \in 0..AP_TIMEOUT
<1>1. Gone \in 0..Gone /\ 0 \in 0..Gone /\ 0 \in 0..AP_TIMEOUT BY UiAssumption DEF Gone
<1>2. seen \in [Pages -> 0..Gone] BY InvParts DEF RestOK
<1>. QED BY <1>1, <1>2 DEF TouchUiSession, Oldest, Active

\* What no callback that leaves the stream alone disturbs.
LEMMA SameStream ==
  ASSUME UiInv, UNCHANGED <<stream, view, ap>>, RestOK'
  PROVE  UiInv'
BY InvParts, StreamKept

\* What a page may ask for.
LEMMA UiPagesInv ==
  ASSUME UiInv, NEW p \in Pages, Heartbeat(p) \/ UiReady(p) \/ CloseUiSession(p) \/ Connect(p)
  PROVE  UiInv'
<1>1. RestOK /\ StreamOK(stream, view) BY InvParts
<1>2. CASE Heartbeat(p)
  <2>1. seen' \in [Pages -> 0..Gone] /\ idle' \in 0..AP_TIMEOUT BY <1>2, TouchOK DEF Heartbeat
  <2>2. RestOK' BY <1>1, <1>2, <2>1 DEF Heartbeat, RestOK
  <2>. QED BY <1>2, <2>2, SameStream DEF Heartbeat
<1>3. CASE UiReady(p)
  <2>1. seen' \in [Pages -> 0..Gone] /\ idle' \in 0..AP_TIMEOUT BY <1>3, TouchOK DEF UiReady
  <2>2. env' \in [may : Environments, left : 0..MaxEvents] BY <1>3, HappensOK DEF UiReady
  <2>3. ui' \in [heavy : BOOLEAN, ready : BOOLEAN, before : BOOLEAN]
    BY <1>1, <1>3 DEF UiReady, RestOK
  <2>4. RestOK' BY <1>1, <1>3, <2>1, <2>2, <2>3 DEF UiReady, RestOK
  <2>. QED BY <1>3, <2>4, SameStream DEF UiReady
<1>4. CASE CloseUiSession(p)
  <2>1. env' \in [may : Environments, left : 0..MaxEvents] BY <1>4, HappensOK DEF CloseUiSession
  <2>2. Gone \in 0..Gone BY UiAssumption DEF Gone
  <2>3. seen' \in [Pages -> 0..Gone] BY <1>1, <1>4, <2>2 DEF CloseUiSession, RestOK
  <2>4. RestOK' BY <1>1, <1>4, <2>1, <2>3 DEF CloseUiSession, RestOK, apVars
  <2>5. CloseIfUnwatched(seen') /\ ap' = ap BY <1>4 DEF CloseUiSession, apVars
  <2>6. StreamOK(stream', view') /\ (stream'.client = Nobody \/ stream'.client = stream.client)
    BY <2>5, UnwatchedOK
  <2>. QED BY <2>4, <2>5, <2>6, StreamKept
<1>5. CASE Connect(p)
  <2>1. env' \in [may : Environments, left : 0..MaxEvents] BY <1>5, HappensOK DEF Connect
  <2>2. RestOK' BY <1>1, <1>5, <2>1 DEF Connect, RestOK, apVars
  <2>3. ap' = ap /\ ap.server /\ view' = Blank BY <1>5 DEF Connect, apVars, Reachable
  <2>4. StreamOK(stream', view')
    <3>1. CASE stream.client = Nobody
      <4>. DEFINE s == [stream EXCEPT !.client = p]
      <4>1. stream' = Resync(s) BY <1>5, <3>1 DEF Connect
      <4>2. stream \in Streams /\ stream.queue = <<>>
        BY <1>1, <3>1 DEF StreamOK, HardwareAfterMode
      <4>3. /\ stream' \in Streams /\ stream'.queue = <<>> /\ stream'.step = 1
            /\ stream'.client = p
        <5>1. Blank \in Views /\ 1 \in 0..Len(Baseline)
          BY Facts
        <5>2. stream' = [s EXCEPT !.last = Blank, !.step = 1] BY <4>1 DEF Resync
        <5>3. s \in Streams /\ s.queue = <<>> /\ s.client = p BY <4>2 DEF Streams
        <5>. HIDE DEF s
        <5>. QED BY <5>1, <5>2, <5>3 DEF Streams
      <4>4. Len(<<>>) = 0 OBVIOUS
      <4>5. HardwareAfterMode(stream', view') BY <2>3, <4>3, <4>4, Facts DEF HardwareAfterMode
      <4>. QED BY <2>3, <4>3, <4>4, <4>5, Facts, UiAssumption DEF StreamOK
    <3>2. CASE stream.client # Nobody
      <4>1. stream' = CloseStream(stream) BY <1>5, <3>2 DEF Connect
      <4>. QED BY <2>3, <4>1, ClosesOK
    <3>. QED BY <3>1, <3>2
  <2>. QED BY <2>2, <2>3, <2>4, InvParts DEF UiInv, UiTypeOK, StreamOK
<1>. QED BY <1>2, <1>3, <1>4, <1>5

\* Everything that comes between the parts of a pass.
LEMMA UiWebInv == UiInv /\ Web => UiInv'
<1>. SUFFICES ASSUME UiInv, Web PROVE UiInv' OBVIOUS
<1>1. RestOK /\ StreamOK(stream, view) BY InvParts
<1>2. CASE StationComesOrGoes
  <2>1. env' \in [may : Environments, left : 0..MaxEvents]
    BY <1>2, HappensOK DEF StationComesOrGoes
  <2>2. station' \in BOOLEAN BY <1>1, <1>2, Zenon DEF StationComesOrGoes, RestOK
  <2>3. RestOK' BY <1>1, <1>2, <2>1, <2>2 DEF StationComesOrGoes, RestOK
  <2>. QED BY <1>2, <2>3, SameStream DEF StationComesOrGoes
<1>3. CASE NoteHeavyUiTraffic
  <2>1. env' \in [may : Environments, left : 0..MaxEvents]
    BY <1>3, HappensOK DEF NoteHeavyUiTraffic
  <2>2. ui' \in [heavy : BOOLEAN, ready : BOOLEAN, before : BOOLEAN]
    BY <1>1, <1>3 DEF NoteHeavyUiTraffic, RestOK
  <2>3. RestOK' BY <1>1, <1>3, <2>1, <2>2 DEF NoteHeavyUiTraffic, RestOK
  <2>. QED BY <1>3, <2>3, SameStream DEF NoteHeavyUiTraffic
<1>4. CASE Disconnect
  <2>1. RestOK' BY <1>1, <1>4 DEF Disconnect, RestOK, apVars
  <2>. QED BY <1>4, <2>1, ClosesOK, StreamKept DEF Disconnect, apVars
<1>5. CASE EnterOta
  <2>1. env' \in [may : Environments, left : 0..MaxEvents] BY <1>5, HappensOK DEF EnterOta
  <2>2. Gone \in 0..Gone BY UiAssumption DEF Gone
  <2>3. seen' \in [Pages -> 0..Gone] /\ mode' \in Modes BY <1>5, <2>2 DEF EnterOta, Modes
  <2>4. RestOK' BY <1>1, <1>5, <2>1, <2>3 DEF EnterOta, RestOK
  <2>. QED BY <1>5, <2>4, ClosesOK, StreamKept DEF EnterOta
<1>6. CASE HardwareChanges
  <2>1. env' \in [may : Environments, left : 0..MaxEvents] BY <1>6, HappensOK DEF HardwareChanges
  <2>2. RestOK' BY <1>1, <1>6, <2>1 DEF HardwareChanges, RestOK, apVars
  <2>. QED BY <1>6, <2>2, SameStream DEF HardwareChanges, apVars
<1>7. CASE StatusForce
  <2>1. env' \in [may : Environments, left : 0..MaxEvents] BY <1>7, HappensOK DEF StatusForce
  <2>2. RestOK' BY <1>1, <1>7, <2>1 DEF StatusForce, RestOK, apVars
  <2>3. StreamOK(stream', view') /\ stream'.client = stream.client
    BY <1>1, <1>7, ForceOK DEF StatusForce
  <2>. QED BY <1>7, <2>2, <2>3, StreamKept DEF StatusForce, apVars
<1>8. CASE BroadcastLog
  <2>1. env' \in [may : Environments, left : 0..MaxEvents] BY <1>8, HappensOK DEF BroadcastLog
  <2>2. UNCHANGED <<pc, apVars, seen, hardware>> BY <1>8 DEF BroadcastLog
  <2>. RestOK' BY <1>1, <2>1, <2>2 DEF RestOK, apVars
  <2>3. StreamOK(stream', view') /\ stream'.client = stream.client
    BY <1>1, <1>8, AppendsOK DEF BroadcastLog
  <2>. QED BY <1>8, <2>3, StreamKept DEF BroadcastLog, apVars
<1>9. CASE Second
  <2>1. /\ seen \in [Pages -> 0..Gone] /\ idle \in 0..AP_TIMEOUT
        /\ SESSION_TIMEOUT \in Nat /\ AP_TIMEOUT \in Nat /\ Gone = SESSION_TIMEOUT + 1
    BY <1>1, UiAssumption DEF RestOK, Gone
  <2>2. \A n \in 0..Gone : Older(n, SESSION_TIMEOUT) \in 0..Gone BY <2>1 DEF Older
  <2>3. seen' \in [Pages -> 0..Gone] BY <1>9, <2>1, <2>2 DEF Second
  <2>4. idle' \in 0..AP_TIMEOUT BY <1>9, <2>1 DEF Second, Older
  <2>5. ap' \in [state : {"Idle", "WaitBefore", "WaitMode", "WaitApStart"},
                 due : BOOLEAN, up : BOOLEAN, server : BOOLEAN] /\ ap'.server = ap.server
    BY <1>1, <1>9 DEF Second, RestOK
  <2>6. RestOK' BY <1>1, <1>9, <2>3, <2>4, <2>5 DEF Second, RestOK
  <2>. QED BY <1>1, <1>9, <2>5, <2>6, StreamKept DEF Second
<1>10. ASSUME NEW n, Deliver(n) PROVE UiInv'
  <2>1. RestOK' BY <1>1, <1>10 DEF Deliver, RestOK, apVars
  <2>2. ap' = ap BY <1>10 DEF Deliver, apVars
  <2>. QED BY <1>10, <2>1, <2>2, DeliverOK, StreamKept
<1>. QED BY <1>2, <1>3, <1>4, <1>5, <1>6, <1>7, <1>8, <1>9, <1>10, UiPagesInv DEF Web

\* Every step keeps the invariant.
LEMMA UiInvStep == UiInv /\ [UiNext]_uiVars => UiInv'
<1>. SUFFICES ASSUME UiInv, [UiNext]_uiVars PROVE UiInv' OBVIOUS
<1>1. CASE UiLoop BY <1>1, UpdateInv, HandleInv, SendInv DEF UiLoop
<1>2. CASE Web BY <1>2, UiWebInv
<1>3. CASE UNCHANGED uiVars
  <2>. RestOK BY InvParts
  <2>1. RestOK' BY <1>3 DEF uiVars, apVars, RestOK
  <2>2. UNCHANGED <<stream, view, ap>> BY <1>3 DEF uiVars, apVars
  <2>. QED BY <2>1, <2>2, SameStream
<1>. QED BY <1>1, <1>2, <1>3 DEF UiNext

\* The invariant holds in every behaviour.
THEOREM UiAlways == UiSpec => []UiInv
BY UiInvInit, UiInvStep, PTL DEF UiSpec

\* Every variable keeps its type, however the pages, the heap and the access point behave.
THEOREM UiTypes == UiSpec => []UiTypeOK
<1>1. UiInv => UiTypeOK BY DEF UiInv
<1>. QED BY <1>1, UiAlways, PTL

\* Whatever the yield lets in and the heap refuses, a page is never shown hardware of a
\* mode it does not know.
THEOREM BaselineIsInOrder == UiSpec => []BaselineInOrder
<1>1. UiInv => BaselineInOrder BY DEF UiInv, HardwareAfterMode, BaselineInOrder
<1>. QED BY <1>1, UiAlways, PTL
=============================================================================
