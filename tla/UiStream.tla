------------------------------ MODULE UiStream ------------------------------
(***************************************************************************)
(* What the device owes a browser, and what a browser costs the modem: the *)
(* access point's start, the leases of pages (POST /ui/session), the one   *)
(* event stream (/events) with its baseline and its de-duplication, and    *)
(* the gate that keeps the cellular link still while a page loads.         *)
(*                                                                         *)
(* A pass of the loop is Update, Handle and, where the stream takes it,    *)
(* Send; Handle ends with the gate of runSseIncrementalTick() and its      *)
(* yield(), so that web callbacks run between any two of the three.        *)
(*                                                                         *)
(* "mode" and "hardware" stand for the channels sent when they change (gsm,*)
(* error, runtime, program and flash are treated as they are), "clocks"    *)
(* for the one sent every second.  The ages are in seconds.                *)
(***************************************************************************)
EXTENDS Naturals, FiniteSetsExt, Sequences

CONSTANTS
  Pages,           \* session ids: one browser page each
  MAX_SESSIONS,    \* WebUi::MAX_UI_SESSIONS
  SESSION_TIMEOUT, \* WebUi::SESSION_TIMEOUT_MS
  AP_TIMEOUT,      \* wifi.ap_timeout_sec; 0 when it is not enabled
  QUEUE_MAX,       \* STATUS_QUEUE_MAX, SSE_SOFT_QUEUE_MAX: stricter than SSE_MAX_QUEUED - 3
  Environments,    \* what may happen, one set of it per behaviour
  MaxEvents        \* bound on how often

ASSUME UiAssumption ==
  /\ {MAX_SESSIONS, SESSION_TIMEOUT, AP_TIMEOUT, QUEUE_MAX, MaxEvents} \subseteq Nat
  /\ "nobody" \notin Pages

VARIABLES
  mode,     \* _currentMode, of the three in which pages and modem meet
  pc,       \* "update", "handle", "send"
  ap,       \* apStartState_, whether its deadline has passed, apActive, serverActive
  seen,     \* uiSessions_: seconds since lastSeenMs, or Gone
  idle,     \* seconds since lastUiActivityMs_
  ui,       \* lastHeavyUiMs_ # 0, uiBrowserReady_, prevSoftApSta > 0
  station,  \* somebody has joined the access point
  cellular, \* CellularCore is "served" or "suspended"
  stream,   \* who holds it, its queue, gBaselineStep, the last values sent
  view,     \* what the page that holds the stream has been told
  hardware, \* the value of that channel
  env       \* what may happen in this behaviour, and how often still

apVars == <<mode, ap, idle, ui, station, cellular>>
uiVars == <<pc, apVars, seen, stream, view, hardware, env>>

Gone == SESSION_TIMEOUT + 1 \* no session
Nobody == "nobody"
Unknown == "unknown"
Baseline == <<"clocks", "mode", "hardware">>
Channels == {"mode", "hardware"}
Events == {"clocks"} \cup Channels
Blank == [c \in Channels |-> Unknown]

Closed == [client |-> Nobody, queue |-> <<>>, step |-> 0, last |-> Blank]
Quiet == [heavy |-> FALSE, ready |-> FALSE, before |-> FALSE]
NoSession == \A p \in Pages : seen[p] = Gone

UiInit ==
  /\ mode = "NORMAL" /\ pc = "update"
  /\ ap = [state |-> "WaitBefore", due |-> FALSE, up |-> FALSE, server |-> FALSE]
  /\ seen = [p \in Pages |-> Gone] /\ idle = 0 /\ ui = Quiet /\ station = FALSE
  /\ cellular = "suspended" /\ stream = Closed /\ view = Blank /\ hardware = "off"
  /\ env \in [may : Environments, left : {MaxEvents}]

Happens(e) == e \in env.may /\ env.left > 0 /\ env' = [env EXCEPT !.left = @ - 1]

-----------------------------------------------------------------------------
\* events.close(): the queue goes with the client; the de-duplication state stays.
CloseStream(s) == [s EXCEPT !.client = Nobody, !.queue = <<>>]

\* The last session has gone, and its stream goes with it.
CloseIfUnwatched(sessions) ==
  IF \A p \in Pages : sessions[p] = Gone
  THEN stream' = CloseStream(stream) /\ view' = Blank
  ELSE UNCHANGED <<stream, view>>


Expired == {p \in Pages : seen[p] = SESSION_TIMEOUT}

\* processUiSessions()
ExpireSessions ==
  LET rest == [p \in Pages |-> IF p \in Expired THEN Gone ELSE seen[p]] IN
  /\ seen' = rest
  /\ IF Expired # {} THEN CloseIfUnwatched(rest) ELSE UNCHANGED <<stream, view>>

\* The start of the access point, one wait after the other; "SetMode" takes no time.
\* softAP() may fail, and nothing tries again; low heap puts the server off.
To(s) == ap' = [ap EXCEPT !.state = s, !.due = FALSE]
ApWaits == (ap.state # "Idle" => ~ap.due) /\ ap' = ap
ApBegins == ap.state = "WaitBefore" /\ ap.due /\ To("WaitMode")
SoftAp == ap.state = "WaitMode" /\ ap.due /\ (To("WaitApStart") \/ To("Idle"))
HeapIsLow == ap.state = "WaitApStart" /\ ap.due /\ To("WaitApStart")
ApComesUp ==
  /\ ap.state = "WaitApStart" /\ ap.due
  /\ ap' = [state |-> "Idle", due |-> FALSE, up |-> TRUE, server |-> TRUE]

Update ==
  /\ pc = "update" /\ pc' = "handle"
  /\ ExpireSessions
  /\ ApWaits \/ ApBegins \/ SoftAp \/ HeapIsLow \/ ApComesUp
  /\ UNCHANGED <<mode, idle, ui, station, cellular, hardware, env>>

-----------------------------------------------------------------------------
\* requestBaselineResync()

\* Slip: what was sent is forgotten, but no baseline is asked for.
OnlyForgotten(s) == [s EXCEPT !.last = Blank]

Resync(s) == [s EXCEPT !.last = Blank, !.step = 1]

\* broadcastResync(): "resync" itself only where there is room.
BroadcastResync(s, sessions) ==
  IF s.client = Nobody \/ \A p \in Pages : sessions[p] = Gone THEN s
  ELSE Resync(IF Len(s.queue) < QUEUE_MAX
              THEN [s EXCEPT !.queue = Append(@, [event |-> "resync", value |-> ""])] ELSE s)

\* stop(), called by NORMAL_SILENT.
Stop ==
  /\ ap' = [ap EXCEPT !.up = FALSE]
  /\ seen' = [p \in Pages |-> Gone]
  /\ stream' = IF ap.server THEN CloseStream(stream) ELSE stream
  /\ view' = Blank /\ station' = FALSE

\* The cellular gate of handleNormal(): an access point that is down suspends the link
\* and clears the marks; the first station that joins marks a load; a load suspends it
\* until /ui/ready.
Joined == station /\ ~ui.before
Marks ==
  IF ~ap.up THEN Quiet
  ELSE IF Joined THEN [heavy |-> TRUE, ready |-> FALSE, before |-> TRUE]
  ELSE [ui EXCEPT !.before = station]
LinkFor(m) == IF ap.up /\ (m.ready \/ ~m.heavy) THEN "served" ELSE "suspended"

ApTimesOut == AP_TIMEOUT > 0 /\ ap.up /\ NoSession /\ idle >= AP_TIMEOUT

\* start() of the mode that follows an update: the saved configuration may be another.
RestartAp(changed) ==
  /\ ap' = IF changed THEN [ap EXCEPT !.up = FALSE, !.state = "WaitBefore", !.due = FALSE]
           ELSE ap
  /\ IF changed
     THEN seen' = [p \in Pages |-> Gone] /\ stream' = CloseStream(stream)
            /\ view' = Blank /\ station' = FALSE /\ ui' = [ui EXCEPT !.heavy = FALSE, !.ready = FALSE]
     ELSE stream' = BroadcastResync(stream, seen) /\ UNCHANGED <<seen, view, station, ui>>
  /\ idle' = 0 /\ mode' = "NORMAL"

HandleNormal ==
  /\ mode = "NORMAL" /\ cellular' = LinkFor(Marks) /\ UNCHANGED idle
  /\ IF ApTimesOut
     THEN mode' = "NORMAL_SILENT" /\ Stop /\ ui' = [Marks EXCEPT !.heavy = FALSE, !.ready = FALSE]
     ELSE ui' = Marks /\ UNCHANGED <<mode, ap, seen, stream, view, station>>

HandleNormalSilent ==
  /\ mode = "NORMAL_SILENT" /\ cellular' = "served"
  /\ UNCHANGED <<mode, ap, seen, idle, ui, station, stream, view>>

HandleOta ==
  /\ mode = "OTA_UPDATE" /\ cellular' = "suspended"
  /\ \/ UNCHANGED <<mode, ap, seen, idle, ui, station, stream, view>>
     \/ \E changed \in BOOLEAN : RestartAp(changed)

\* The gate of runSseIncrementalTick(); its yield() follows.
Gate ==
  /\ stream'.client # Nobody /\ \E p \in Pages : seen'[p] # Gone
  /\ Len(stream'.queue) < QUEUE_MAX

Handle ==
  /\ pc = "handle"
  /\ HandleNormal \/ HandleNormalSilent \/ HandleOta
  /\ pc' = IF Gate THEN "send" ELSE "update"
  /\ UNCHANGED <<hardware, env>>

-----------------------------------------------------------------------------
\* What the payload of an event says.
Actual(e) == CASE e = "mode" -> mode [] e = "hardware" -> hardware [] OTHER -> ""

Sent(s, e) ==
  [s EXCEPT !.queue = Append(@, [event |-> e, value |-> Actual(e)]),
            !.last = [c \in Channels |-> IF c = e THEN Actual(e) ELSE @[c]]]

\* sendJsonEvent(): sseSoftQueueAllowsSend() is asked again for each event, and the
\* heap (fits) may have room for one of them and not for another.

\* Slip: what was to be sent is remembered as sent, whether it was or not.
RemembersUnsent(s, e, fits) ==
  IF e \in fits /\ Len(s.queue) < QUEUE_MAX THEN Sent(s, e)
  ELSE [s EXCEPT !.last = Sent(s, e).last]

SendJsonEvent(s, e, fits) ==
  IF e \in fits /\ Len(s.queue) < QUEUE_MAX THEN Sent(s, e) ELSE s

\* A baseline takes one event a tick and goes on where it stopped.
BaselineTick(s, fits) ==
  LET e == Baseline[s.step]
      t == SendJsonEvent(s, e, fits)
  IN IF Len(t.queue) = Len(s.queue) THEN t
     ELSE [t EXCEPT !.step = IF s.step < Len(Baseline) THEN s.step + 1 ELSE 0]

\* Otherwise every event that has something new, in the same order.
Stale(s, e) == e = "clocks" \/ s.last[e] # Actual(e)
SendIfStale(s, e, fits) == IF Stale(s, e) THEN SendJsonEvent(s, e, fits) ELSE s
ChangesTick(s, fits) ==
  LET clocksSent == SendIfStale(s, "clocks", fits)
      modeSent == SendIfStale(clocksSent, "mode", fits)
  IN SendIfStale(modeSent, "hardware", fits)

\* A client or a session lost in the yield() fails every send.
StreamTick(s, fits) ==
  LET allowed == IF s.client = Nobody \/ NoSession THEN {} ELSE fits
  IN IF s.step > 0 THEN BaselineTick(s, allowed) ELSE ChangesTick(s, allowed)

Send(fits) ==
  /\ pc = "send" /\ pc' = "update"
  /\ stream' = StreamTick(stream, fits)
  /\ UNCHANGED <<apVars, seen, view, hardware, env>>

UiLoop == Update \/ Handle \/ \E fits \in SUBSET Events : Send(fits)

-----------------------------------------------------------------------------
\* Callbacks.  A request needs a station, and a radio and a server that are up.
Reachable == ap.server /\ station /\ (ap.up \/ ap.state = "WaitApStart")

StationComesOrGoes ==
  /\ (ap.up \/ ap.state = "WaitApStart") /\ Happens("station")
  /\ station' = ~station
  /\ UNCHANGED <<pc, mode, ap, idle, ui, cellular, seen, stream, view, hardware>>

\* noteHeavyUiTraffic(): the page, its assets, /bootstrap, /config/get, ...
NoteHeavyUiTraffic ==
  /\ Reachable /\ Happens("pages")
  /\ ui' = [ui EXCEPT !.heavy = TRUE, !.ready = FALSE] /\ cellular' = "suspended"
  /\ UNCHANGED <<pc, mode, ap, idle, station, seen, stream, view, hardware>>

\* touchUiSession(): a free slot, else the one that was seen longest ago.
Active == {p \in Pages : seen[p] # Gone}
Oldest == {p \in Active : \A q \in Active : seen[q] <= seen[p]}
TouchUiSession(p) ==
  /\ idle' = 0
  /\ IF p \in Active \/ Cardinality(Active) < MAX_SESSIONS
     THEN seen' = [seen EXCEPT ![p] = 0]
     ELSE \E old \in Oldest : seen' = [seen EXCEPT ![old] = Gone, ![p] = 0]

Heartbeat(p) ==
  /\ Reachable /\ TouchUiSession(p)
  /\ UNCHANGED <<pc, mode, ap, ui, station, cellular, stream, view, hardware, env>>

UiReady(p) ==
  /\ Reachable /\ Happens("pages") /\ TouchUiSession(p)
  /\ ui' = [ui EXCEPT !.ready = TRUE]
  /\ UNCHANGED <<pc, mode, ap, station, cellular, stream, view, hardware>>

CloseUiSession(p) ==
  /\ Reachable /\ Happens("pages") /\ p \in Active
  /\ seen' = [seen EXCEPT ![p] = Gone] /\ CloseIfUnwatched(seen')
  /\ UNCHANGED <<pc, apVars, hardware>>

\* onConnect: a client more than MAX_SSE_CLIENTS closes them all, itself with them.
Connect(p) ==
  /\ Reachable /\ Happens("stream") /\ view' = Blank
  /\ stream' = IF stream.client = Nobody THEN Resync([stream EXCEPT !.client = p])
               ELSE CloseStream(stream)
  /\ UNCHANGED <<pc, apVars, seen, hardware>>

Disconnect ==
  /\ stream.client # Nobody /\ stream' = CloseStream(stream) /\ view' = Blank
  /\ UNCHANGED <<pc, apVars, seen, hardware, env>>

\* The queue drains as the page acknowledges it; of each channel it shows the last value.
Tells(c, n) == {i \in 1..n : stream.queue[i].event = c}
Deliver(n) ==
  /\ n \in 1..Len(stream.queue)
  /\ view' = [c \in Channels |-> IF Tells(c, n) = {} THEN view[c]
                                 ELSE stream.queue[Max(Tells(c, n))].value]
  /\ stream' = [stream EXCEPT !.queue = SubSeq(@, n + 1, Len(@))]
  /\ UNCHANGED <<pc, apVars, seen, hardware, env>>
DeliverAll == Deliver(Len(stream.queue))

HardwareChanges ==
  /\ Happens("changes") /\ hardware' = IF hardware = "on" THEN "off" ELSE "on"
  /\ UNCHANGED <<pc, apVars, seen, stream, view>>

\* broadcastStatusForce() of a flash tick, of POST /modem/reboot, ...
StatusForce ==
  /\ Happens("changes") /\ stream' = BroadcastResync(stream, seen)
  /\ UNCHANGED <<pc, apVars, seen, view, hardware>>

\* broadcastLog()
BroadcastLog ==
  /\ Happens("changes")
  /\ stream.client # Nobody /\ ~NoSession /\ Len(stream.queue) < QUEUE_MAX
  /\ stream' = [stream EXCEPT !.queue = Append(@, [event |-> "log", value |-> ""])]
  /\ UNCHANGED <<pc, apVars, seen, view, hardware>>

\* enterOTAUpdate(): closeSseForOta(), then a status nobody watches.
EnterOta ==
  /\ mode = "NORMAL" /\ Reachable /\ Happens("ota")
  /\ mode' = "OTA_UPDATE" /\ seen' = [p \in Pages |-> Gone]
  /\ stream' = CloseStream(stream) /\ view' = Blank
  /\ UNCHANGED <<pc, ap, idle, ui, station, cellular, hardware>>

Older(n, max) == IF n < max THEN n + 1 ELSE n
Second ==
  /\ seen' = [p \in Pages |-> IF seen[p] = Gone THEN Gone ELSE Older(seen[p], SESSION_TIMEOUT)]
  /\ idle' = Older(idle, AP_TIMEOUT)
  /\ ap' = [ap EXCEPT !.due = ap.state # "Idle"]
  /\ UNCHANGED <<pc, mode, ui, station, cellular, stream, view, hardware, env>>

Web ==
  \/ StationComesOrGoes \/ NoteHeavyUiTraffic \/ Disconnect \/ EnterOta
  \/ HardwareChanges \/ StatusForce \/ BroadcastLog \/ Second
  \/ \E p \in Pages : Heartbeat(p) \/ UiReady(p) \/ CloseUiSession(p) \/ Connect(p)
  \/ \E n \in 1..QUEUE_MAX : Deliver(n)

UiNext == UiLoop \/ Web

UiSpec == UiInit /\ [][UiNext]_uiVars

-----------------------------------------------------------------------------
\* The loop and the clock go on, a page reads what it is sent, the heap is enough for an
\* empty queue and for the server again and again, and an update comes to an end.
Roomy == stream.queue = <<>> /\ Send(Events)
UiFairSpec ==
  /\ UiSpec /\ WF_uiVars(UiLoop) /\ WF_uiVars(Second) /\ WF_uiVars(DeliverAll)
  /\ SF_uiVars(Roomy) /\ SF_uiVars(Update /\ ApComesUp)
  /\ SF_uiVars(Handle /\ mode = "OTA_UPDATE" /\ mode' = "NORMAL")

Modes == {"NORMAL", "NORMAL_SILENT", "OTA_UPDATE"}
Told == Modes \cup {"on", "off", ""}
Notices == [event : Events \cup {"resync", "log"}, value : Told]
Views == [Channels -> Told \cup {Unknown}]
Streams == [client : Pages \cup {Nobody}, queue : Seq(Notices), step : 0..Len(Baseline),
            last : Views]
RestOK ==
  /\ mode \in Modes /\ pc \in {"update", "handle", "send"}
  /\ ap \in [state : {"Idle", "WaitBefore", "WaitMode", "WaitApStart"},
             due : BOOLEAN, up : BOOLEAN, server : BOOLEAN]
  /\ seen \in [Pages -> 0..Gone] /\ idle \in 0..AP_TIMEOUT
  /\ ui \in [heavy : BOOLEAN, ready : BOOLEAN, before : BOOLEAN]
  /\ station \in BOOLEAN /\ cellular \in {"served", "suspended"}
  /\ hardware \in {"on", "off"} /\ env \in [may : Environments, left : 0..MaxEvents]
UiTypeOK == RestOK /\ stream \in Streams /\ Len(stream.queue) <= QUEUE_MAX /\ view \in Views

\* "Paced baseline (clocks -> mode -> gsm -> hardware)": whatever the yield() lets in
\* and the heap refuses, a page is never shown hardware of a mode it does not know.
BaselineInOrder ==
  stream.client # Nobody /\ view["hardware"] # Unknown => view["mode"] # Unknown

\* A page that keeps its lease and its stream comes to show what is so, and goes on to,
\* once changes stop: no refused, overtaken or repeated event is the last word.
Watched == stream.client # Nobody /\ ~NoSession
Shown == view = [c \in Channels |-> Actual(c)]
ViewConverges == <>[]Watched => <>[]Shown

\* When the pages fall silent the modem is served again, by an access point that times
\* out if in no other way - unless the access point never came up.
Beats == \E p \in Pages : Heartbeat(p)
Stranded == mode = "NORMAL" /\ ap.state = "Idle" /\ ~ap.up
=============================================================================
