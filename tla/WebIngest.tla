------------------------------ MODULE WebIngest ------------------------------
(***************************************************************************)
(* The web routes that hand work to FlashCommit: JSON bodies streamed to a *)
(* temporary file, one callback per piece and one at the end, and requests *)
(* that queue an operation.                                                *)
(***************************************************************************)
EXTENDS FlashCommit

CONSTANTS
  MaxSlots,   \* size of gRawJsonPostPool
  Overlap     \* paths whose clients post while another post is under way

ASSUME IngestAssumption ==
  /\ IsFiniteSet(Posts)
  /\ MaxSlots \in Nat
  /\ Overlap \subseteq Kinds

VARIABLES
  post,     \* the request context each client's _tempObject points to
  posted,   \* posted{Config,Program}JsonPending
  slots     \* contexts in use

vars == <<flashVars, post, posted, slots>>

\* "open": the first piece is written; "full": all of it; "failed": the body is
\* too long or could not be written; "busy", "oom": refused from the start.
PostStates == {"none", "open", "full", "failed", "busy", "oom"}

Init ==
  /\ FlashInit
  /\ post = [p \in Posts |-> "none"]
  /\ posted = [k \in Kinds |-> FALSE]
  /\ slots = 0

\* Slip: the web's own streams do not count.
IsFlashBusyLater == IsPending

IsFlashBusy == IsPending \/ \E k \in Kinds : posted[k]

\* Callbacks of the web server run between ticks and while tick() yields.
Yielding == stage \in {"loop", "crc"}

Enters(p, state) == post' = [post EXCEPT ![p] = state]

\* The clients of a path take turns, unless they overlap.
MayPost(k) == k \in Overlap \/ \A p \in Posts : Kind[p] = k => post[p] = "none"

-----------------------------------------------------------------------------
\* jsonPostStreamOnBody() with index 0: the guards in their order.
BodyBegins(p) == Yielding /\ post[p] = "none" /\ MayPost(Kind[p])

BodyWithoutContext(p) ==
  /\ BodyBegins(p) /\ slots = MaxSlots
  /\ Enters(p, "oom")
  /\ UNCHANGED <<flashVars, posted, slots>>

\* The other path's stream is open, or the flash is busy.
BodyRejected(p) ==
  /\ BodyBegins(p) /\ slots < MaxSlots /\ IsFlashBusy
  /\ Enters(p, "busy")
  /\ slots' = slots + 1
  /\ UNCHANGED <<flashVars, posted>>

\* The body is too long, or its directory or file cannot be made.
BodyUnusable(p) ==
  /\ BodyBegins(p) /\ slots < MaxSlots /\ ~IsFlashBusy
  /\ Enters(p, "failed")
  /\ slots' = slots + 1
  /\ UNCHANGED <<flashVars, posted>>

BodyOpened(p) ==
  /\ BodyBegins(p) /\ slots < MaxSlots /\ ~IsFlashBusy
  /\ posted' = [posted EXCEPT ![Kind[p]] = TRUE]
  /\ slots' = slots + 1
  /\ \/ Enters(p, "open") /\ tmp' = [tmp EXCEPT ![Kind[p]] = {<<p, 1>>}]
     \/ Enters(p, "failed") /\ Consume(Kind[p])
  /\ UNCHANGED <<stage, running, queue, lastOk, store>>

\* The last piece.  It goes to the file whatever else was written there.
BodyGoesOn(p) ==
  /\ Yielding /\ post[p] = "open"
  /\ \/ Enters(p, "full") /\ tmp' = [tmp EXCEPT ![Kind[p]] = @ \cup {<<p, 2>>}]
     \/ Enters(p, "failed") /\ UNCHANGED tmp
  /\ UNCHANGED <<stage, running, queue, lastOk, store, posted, slots>>

-----------------------------------------------------------------------------
\* jsonPostStreamOnRequest(): the body is complete.
RequestEnds(p) ==
  /\ Yielding
  /\ Enters(p, "none")
  /\ posted' = [posted EXCEPT ![Kind[p]] = FALSE]
  /\ slots' = slots - 1
  /\ UNCHANGED <<stage, running, op, lastOk, store>>

\* Slip: a failed write is not looked at.
AcceptFailed(p) ==
  /\ post[p] \in {"full", "failed"}
  /\ RequestEnds(p)
  /\ deferred' = [deferred EXCEPT ![Kind[p]] = TRUE]
  /\ indexPhase' = (indexPhase /\ Kind[p] = "config")
  /\ UNCHANGED tmp

\* deferPosted{Config,Program}Apply() and 200.
Accept(p) ==
  /\ post[p] = "full"
  /\ RequestEnds(p)
  /\ deferred' = [deferred EXCEPT ![Kind[p]] = TRUE]
  /\ indexPhase' = (indexPhase /\ Kind[p] = "config")
  /\ UNCHANGED tmp

\* 413 and 500: the temporary file is removed.
Discard(p) ==
  /\ post[p] = "failed"
  /\ RequestEnds(p)
  /\ Consume(Kind[p])
  /\ UNCHANGED <<deferred, indexPhase>>

\* Slip: 409 is sent before the context is released.
AnswerBusyUnreleased(p) ==
  /\ Yielding /\ post[p] = "busy"
  /\ Enters(p, "none")
  /\ posted' = [posted EXCEPT ![Kind[p]] = FALSE]
  /\ UNCHANGED <<flashVars, slots>>

\* 409
AnswerBusy(p) ==
  /\ post[p] = "busy"
  /\ RequestEnds(p)
  /\ UNCHANGED <<deferred, indexPhase, tmp>>

AnswerNoMemory(p) ==
  /\ Yielding /\ post[p] = "oom"
  /\ Enters(p, "none")
  /\ UNCHANGED <<flashVars, posted, slots>>

\* A post without a body never reaches jsonPostStreamOnBody().
EmptyPost(k) ==
  /\ Yielding /\ MayPost(k)
  /\ posted' = [posted EXCEPT ![k] = FALSE]
  /\ UNCHANGED <<flashVars, post, slots>>

\* The connection is lost in the middle of a body: nobody is told.
Drop(p) ==
  /\ Yielding /\ post[p] # "none"
  /\ Enters(p, "none")
  /\ UNCHANGED <<flashVars, posted, slots>>

\* DELETE /program, POST /config/reset, POST /programs reset=1.
QueueOp(what) ==
  /\ Yielding /\ ~IsFlashBusy
  /\ op' = what
  /\ UNCHANGED <<stage, running, deferred, indexPhase, lastOk,
                 tmp, store, post, posted, slots>>

\* POST /reboot, an OTA, a watchdog: nothing waits for the flash.
Restart ==
  /\ FlashRestart
  /\ post' = [p \in Posts |-> "none"]
  /\ posted' = [k \in Kinds |-> FALSE]
  /\ slots' = 0

-----------------------------------------------------------------------------
Loop == Tick /\ UNCHANGED <<post, posted, slots>>

Programs == (ProgramStarts \/ ProgramStops) /\ UNCHANGED <<post, posted, slots>>

\* A client that has begun a post goes on with it.
GoesOn(p) == BodyGoesOn(p) \/ Accept(p) \/ Discard(p) \/ AnswerBusy(p)
               \/ AnswerNoMemory(p)

Begins(p) == BodyWithoutContext(p) \/ BodyRejected(p) \/ BodyUnusable(p)
               \/ BodyOpened(p)

Next ==
  \/ Loop
  \/ Programs
  \/ \E p \in Posts : Begins(p) \/ GoesOn(p) \/ Drop(p)
  \/ \E k \in Kinds : EmptyPost(k)
  \/ \E what \in FsOps : QueueOp(what)
  \/ Restart

Spec == Init /\ [][Next]_vars

\* The loop runs, programs end, and clients finish what they began.
FairSpec ==
  /\ Spec
  /\ SF_vars(Loop)
  /\ WF_vars(ProgramStops /\ UNCHANGED <<post, posted, slots>>)
  /\ \A p \in Posts : SF_vars(GoesOn(p))

-----------------------------------------------------------------------------
\* Every variable has its type.
TypeOK ==
  /\ stage \in {"loop", "crc", "program", "op"}
  /\ running \in BOOLEAN
  /\ deferred \in [Kinds -> BOOLEAN]
  /\ indexPhase \in BOOLEAN
  /\ op \in FsOps \cup {NoOp}
  /\ lastOk \in BOOLEAN
  /\ tmp \in [Kinds -> SUBSET Piece]
  /\ config \in SUBSET Piece
  /\ programs \in SUBSET Ids
  /\ index \in SUBSET Ids
  /\ skipped \in SUBSET Ids
  /\ post \in [Posts -> PostStates]
  /\ posted \in [Kinds -> BOOLEAN]
  /\ slots \in 0 .. MaxSlots

Writing == {p \in Posts : post[p] \in {"open", "full"}}

FlashUsers == Writing \cup {k \in Kinds : deferred[k]} \cup ({op} \ {NoOp})

\* One thing at a time waits for the flash: a stream, an accepted body or a
\* queued operation, so that none overwrites what another has been promised.
\* Where clients overlap this is lost: the end of any request to a path clears
\* the flag of the stream that is open there (jsonPostStreamOnRequest).
OneFlashUser == \A u, v \in FlashUsers : u = v

\* A body has been accepted and tick() has not read it yet.
Awaits(k) ==
  deferred[k] /\ ~(k = "config" /\ stage = "crc") /\ ~(k = "program" /\ indexPhase)

\* A body that was accepted is whole, and stays so until tick() has read it.
AwaitingIsWhole(k) ==
  Awaits(k) => \E p \in Posts : Kind[p] = k /\ tmp[k] = Body(p)

\* The stored configuration is the factory's or one client's, never a mixture
\* or a part, whatever the clients of the other path do to one another: what
\* their overlap breaks stays on their path.
StoredIsWhole == config = Empty \/ \E p \in Posts : config = Body(p)

\* The index lists the programs that the last rebuild could read; while more are
\* stored than fit, it is full.
Listed == index \in Listings(programs \ skipped)
RebuildDue == deferred["program"] /\ indexPhase

\* But for programs that a rebuild itself leaves out, which nobody is told of,
\* the index of programs goes stale only while its rebuild is due, or with the
\* failure reported: between the two ticks that save a program nothing cancels
\* the second, and a restart there is repaired at boot if the flash allows.
StaleIndexReported ==
  [][~Listed' => \/ RebuildDue'
                 \/ ~lastOk'
                 \/ ~Listed /\ ~RebuildDue
                 \/ Restart]_vars

Dropped == \E p \in Posts : Drop(p)

Holding == {p \in Posts : post[p] \notin {"none", "oom"}}
Leaked == slots - Cardinality(Holding)

\* A context goes back to its pool on every way a request can end but one: the
\* connection is lost.
OnlyDropLeaks == [][Leaked' = Leaked \/ Dropped \/ Restart]_vars

\* The flash is not busy for ever: what is accepted or queued is worked off.
BusyEnds == []<>~IsFlashBusy

\* The same for clients that never lose their connection.
BusyEndsUnlessDropped == [](Leaked = 0) => BusyEnds
=============================================================================
