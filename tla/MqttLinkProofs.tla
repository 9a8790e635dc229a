--------------------------- MODULE MqttLinkProofs ---------------------------
(***************************************************************************)
(* A client that takes itself for subscribed has asked for its topic in    *)
(* this very session: socket and AT session are opaque there, what they do *)
(* touches none of the three fields of the engine the promise is about.    *)
(* And at most one close is on its way: there the engine is opaque, and    *)
(* what matters is who appends to the ring of the AT session and who takes *)
(* from it.                                                                *)
(***************************************************************************)
EXTENDS MqttLink, FiniteSetTheorems, TLAPS

Fields == {"mq", "staged", "spoke", "sub", "awaits", "asked", "late", "slow", "up",
           "opening", "setup", "sending", "closing", "out", "at"}
ClientFields == {"subscribed", "wasConnected", "online", "fails"}
IsNet(n) == n = [f \in Fields |-> n[f]]
IsClient(c) == c = [f \in ClientFields |-> c[f]] /\ c.subscribed \in BOOLEAN

\* m is n as far as the subscription goes.
Same(n, m) == IsNet(m) /\ m.mq = n.mq /\ m.sub = n.sub /\ m.asked = n.asked

Holds(c, n) == c.subscribed => n.mq = "Connected" /\ (n.sub \/ n.asked)

\* Without a modem nobody takes himself for subscribed.
LinkInv ==
  /\ IsNet(net) /\ IsClient(client) /\ SubscriptionAsked
  /\ gsm # "ready" => ~client.subscribed

LEMMA StopSame == ASSUME NEW n, IsNet(n) PROVE Same(n, Stop(n))
  BY DEF Stop, Stopped, Same, IsNet, Fields

LEMMA TcpTickSame == ASSUME NEW n, IsNet(n) PROVE Same(n, TcpTick(n))
<1>1. Same(n, Answered(n)) BY ZenonT(60) DEF Answered, Same, IsNet, Fields
<1>2. ASSUME NEW m, IsNet(m) PROVE Same(m, StartSend(m))
  BY <1>2 DEF StartSend, Same, IsNet, Fields
<1>. QED BY <1>1, <1>2 DEF TcpTick, Same

LEMMA TcpOnLineSame == ASSUME NEW n, IsNet(n), NEW line PROVE Same(n, TcpOnLine(n, line))
  BY DEF TcpOnLine, Same, IsNet, Fields

LEMMA TickedSame == ASSUME NEW n, IsNet(n) PROVE Same(n, Ticked(n))
<1>. DEFINE m == [n EXCEPT !.at = Tick(@)]
<1>1. Same(n, m) BY DEF Same, IsNet, Fields
<1>2. Same(m, TcpTick(m)) BY <1>1, TcpTickSame DEF Same
<1>3. Same(m, [m EXCEPT !.at = TakeResult(@)]) BY <1>1 DEF Same, IsNet, Fields
<1>. HIDE DEF m
<1>4. Same(n, TcpTick(m)) /\ Same(n, [m EXCEPT !.at = TakeResult(@)])
  BY <1>1, <1>2, <1>3 DEF Same
<1>. QED BY <1>4 DEF Ticked, m

\* The engine: the states it may go to and what becomes of the subscription.
LEMMA SetErrorEnds == ASSUME NEW n, IsNet(n) PROVE IsNet(SetError(n)) /\ SetError(n).mq = "Error"
<1>1. IsNet(Stop(n)) BY StopSame DEF Same
<1>2. IsNet(ResetSession(Stop(n))) BY <1>1 DEF ResetSession, IsNet, Fields
<1>. QED BY <1>2 DEF SetError, IsNet, Fields

LEMMA ToIdleEnds == ASSUME NEW n, IsNet(n) PROVE IsNet(ToIdle(n)) /\ ToIdle(n).mq = "Idle"
<1>1. IsNet(ResetSession(n)) BY DEF ResetSession, IsNet, Fields
<1>. QED BY <1>1 DEF ToIdle, IsNet, Fields

LEMMA PumpedKeeps ==
  ASSUME NEW n, IsNet(n), NEW r \in Pumped(n)
  PROVE  IsNet(r) /\ (r.mq = "Connected" => r.sub = n.sub /\ r.asked = n.asked)
<1>1. PICK f \in Frames : r = ParseFrame(PumpWrite(n), f) BY DEF Pumped
<1>. DEFINE m == PumpWrite(n)
<1>2. Same(n, m) BY DEF PumpWrite, Same, IsNet, Fields
<1>. HIDE DEF m
<1>3. IsNet(SetError(m)) /\ SetError(m).mq = "Error" BY <1>2, SetErrorEnds DEF Same
<1>4. r = ParseFrame(m, f) BY <1>1 DEF m
<1>5. CASE m.mq = "Error" BY <1>2, <1>4, <1>5 DEF ParseFrame, Same
<1>6. CASE m.mq # "Error" /\ f = "CONNACK"
  BY <1>2, <1>4, <1>6 DEF ParseFrame, Same, IsNet, Fields
<1>7. CASE m.mq # "Error" /\ f = "REFUSED" BY <1>3, <1>4, <1>7 DEF ParseFrame
<1>8. CASE m.mq # "Error" /\ f = "SUBACK"
  BY <1>2, <1>4, <1>8 DEF ParseFrame, Same, IsNet, Fields
<1>9. CASE m.mq # "Error" /\ f = "none" BY <1>2, <1>4, <1>9 DEF ParseFrame, Same
<1>. QED BY <1>5, <1>6, <1>7, <1>8, <1>9 DEF Frames

LEMMA HandshakeNet == ASSUME NEW n, IsNet(n), NEW r \in Handshake(n) PROVE IsNet(r)
<1>1. IsNet(StageConnect(n)) BY DEF StageConnect, IsNet, Fields
<1>2. PICK p \in Pumped(StageConnect(n)) : r = IF HandshakeLate(p) THEN SetError(p) ELSE p
  BY DEF Handshake
<1>3. IsNet(p) BY <1>1, PumpedKeeps
<1>. QED BY <1>2, <1>3, SetErrorEnds

\* In Connected what was due is staged, and stays known as staged.
LEMMA OnlineKeeps ==
  ASSUME NEW n, IsNet(n), n.sub \/ n.asked, NEW ping \in BOOLEAN, NEW r \in Online(n, ping)
  PROVE  r.mq = "Connected" => r.sub \/ r.asked
<1>. DEFINE s == StageSubscribe(n)
            t == IF ping THEN Stage(s) ELSE s
<1>1. ASSUME NEW m, IsNet(m) PROVE Same(m, Stage(m)) BY <1>1 DEF Stage, Same, IsNet, Fields
<1>2. IsNet(s) /\ (s.sub \/ s.asked)
  <2>1. IsNet(Stage(n)) BY <1>1 DEF Same
  <2>. QED BY <2>1 DEF StageSubscribe, IsNet, Fields
<1>. HIDE DEF s
<1>3. IsNet(t) /\ (t.sub \/ t.asked) BY <1>1, <1>2 DEF Same
<1>4. r \in {IF p.up THEN p ELSE ToIdle(p) : p \in Pumped(t)} BY DEF Online, s
<1>. HIDE DEF t
<1>5. PICK p \in Pumped(t) : r = IF p.up THEN p ELSE ToIdle(p) BY <1>4
<1>6. IsNet(p) /\ (p.mq = "Connected" => p.sub \/ p.asked) BY <1>3, PumpedKeeps
<1>. QED BY <1>5, <1>6, ToIdleEnds

LEMMA OnlineNet == ASSUME NEW n, IsNet(n), NEW ping, NEW r \in Online(n, ping) PROVE IsNet(r)
<1>. DEFINE s == StageSubscribe(n)
            t == IF ping THEN Stage(s) ELSE s
<1>1. ASSUME NEW m, IsNet(m) PROVE IsNet(Stage(m)) BY <1>1 DEF Stage, IsNet, Fields
<1>2. IsNet(s)
  <2>1. IsNet(Stage(n)) BY <1>1
  <2>. QED BY <2>1 DEF StageSubscribe, IsNet, Fields
<1>. HIDE DEF s
<1>3. IsNet(t) BY <1>1, <1>2
<1>4. r \in {IF p.up THEN p ELSE ToIdle(p) : p \in Pumped(t)} BY DEF Online, s
<1>. HIDE DEF t
<1>5. PICK p \in Pumped(t) : r = IF p.up THEN p ELSE ToIdle(p) BY <1>4
<1>. QED BY <1>3, <1>5, PumpedKeeps, ToIdleEnds

LEMMA ConnectingNet == ASSUME NEW n, IsNet(n), NEW r \in Connecting(n) PROVE IsNet(r)
<1>1. IsNet(ConnectStart(n)) BY DEF ConnectStart, IsNet, Fields
<1>2. r = IF ConnectStart(n).late THEN SetError(ConnectStart(n)) ELSE ConnectStart(n)
  BY DEF Connecting
<1>. QED BY <1>1, <1>2, SetErrorEnds

LEMMA ToHandshakeNet == ASSUME NEW n, IsNet(n), NEW r \in ToHandshake(n) PROVE IsNet(r)
<1>1. IsNet([n EXCEPT !.mq = "MqttConnecting", !.late = FALSE]) BY DEF IsNet, Fields
<1>. QED BY <1>1, HandshakeNet DEF ToHandshake

LEMMA TickKeeps ==
  ASSUME NEW n, IsNet(n), NEW ping \in BOOLEAN, NEW r \in MqttTick(n, ping)
  PROVE  /\ IsNet(r)
         /\ n.mq = "Connected" /\ (n.sub \/ n.asked) /\ r.mq = "Connected" => r.sub \/ r.asked
<1>1. CASE n.up /\ n.mq = "Idle"
  <2>1. IsNet([n EXCEPT !.slow = FALSE]) BY DEF IsNet, Fields
  <2>. QED BY <1>1, <2>1, ToHandshakeNet DEF MqttTick
<1>2. CASE n.up /\ n.mq = "TcpConnecting" BY <1>2, ToHandshakeNet DEF MqttTick
<1>3. CASE n.up /\ n.mq = "MqttConnecting" BY <1>3, HandshakeNet DEF MqttTick
<1>4. CASE n.up /\ n.mq = "Connected"
  <2>1. r \in Online(n, ping) BY <1>4 DEF MqttTick
  <2>. QED BY <2>1, OnlineNet, OnlineKeeps
<1>5. CASE n.up /\ n.mq = "Error" BY <1>5 DEF MqttTick
<1>6. CASE ~n.up /\ n.mq = "Idle"
  <2>1. IsNet(ResetSession(n)) BY DEF ResetSession, IsNet, Fields
  <2>2. IsNet([ResetSession(n) EXCEPT !.mq = "TcpConnecting"]) BY <2>1 DEF IsNet, Fields
  <2>. QED BY <1>6, <2>2, ConnectingNet DEF MqttTick
<1>7. CASE ~n.up /\ n.mq = "TcpConnecting" BY <1>7, ConnectingNet DEF MqttTick
<1>8. CASE ~(n.up /\ n.mq = "Idle") /\ ~(n.up /\ n.mq = "TcpConnecting")
           /\ ~(n.up /\ n.mq = "MqttConnecting") /\ ~(n.up /\ n.mq = "Connected")
           /\ ~(n.up /\ n.mq = "Error") /\ ~(~n.up /\ n.mq = "Idle")
           /\ ~(~n.up /\ n.mq = "TcpConnecting")
  <2>1. r = [n EXCEPT !.mq = "Idle"] BY <1>8 DEF MqttTick
  <2>. QED BY <2>1 DEF IsNet, Fields
<1>. QED BY <1>1, <1>2, <1>3, <1>4, <1>5, <1>6, <1>7, <1>8, Zenon

LEMMA ServeKeeps ==
  ASSUME LinkInv, NEW waited \in BOOLEAN, NEW rested \in BOOLEAN, Serve(waited, rested)
  PROVE  LinkInv'
<1>. DEFINE n0 == IF gsm = "ready" THEN net ELSE ToIdle(net)
            c0 == IF waited THEN Reconnects(client, n0) ELSE client
            asksNow == n0.mq = "Connected" /\ ~client.subscribed
            n1 == IF asksNow THEN [n0 EXCEPT !.sub = TRUE] ELSE n0
            c1 == [c0 EXCEPT !.subscribed = @ \/ asksNow]
<1>1. PICK n2 \in MqttTick(n1, waited), due \in BOOLEAN : Publishes(c1, n2, due)
  BY DEF Serve
<1>2. IsNet(n0) BY ToIdleEnds DEF LinkInv
<1>3. IsClient(c0) /\ c0.subscribed = client.subscribed
  BY DEF LinkInv, Reconnects, IsClient, ClientFields
<1>4. client.subscribed => n0.mq = "Connected" /\ (n0.sub \/ n0.asked)
  BY DEF LinkInv, SubscriptionAsked
<1>. HIDE DEF n0, c0
<1>5. IsNet(n1) /\ n1.mq = n0.mq /\ (asksNow => n1.sub) /\ (~asksNow => n1 = n0)
  BY <1>2 DEF IsNet, Fields
<1>6. IsClient(c1) /\ (c1.subscribed <=> client.subscribed \/ asksNow)
  BY <1>3 DEF IsClient, ClientFields
<1>7. c1.subscribed => n1.mq = "Connected" /\ (n1.sub \/ n1.asked)
  BY <1>4, <1>5, <1>6
<1>. HIDE DEF n1, c1, asksNow
<1>8. IsNet(n2) /\ (c1.subscribed /\ n2.mq = "Connected" => n2.sub \/ n2.asked)
  BY <1>5, <1>7, TickKeeps
<1>9. Same(n2, Stage(n2)) BY <1>8 DEF Stage, Same, IsNet, Fields
<1>10. Same(n2, net') BY <1>1, <1>8, <1>9 DEF Publishes, Same
<1>11. IsClient(client') /\ (n2.mq # "Connected" => ~client'.subscribed)
       /\ (client'.subscribed => c1.subscribed)
  BY <1>1, <1>6 DEF Publishes, Lost, IsClient, ClientFields
<1>12. gsm' = "ready" BY DEF Serve
<1>. QED BY <1>8, <1>10, <1>11, <1>12 DEF LinkInv, SubscriptionAsked, Same

LEMMA PollsKeep ==
  ASSUME LinkInv, NEW n, Same(net, n), Polls(n)
  PROVE  LinkInv'
<1>1. Same(n, net') BY TickedSame DEF Polls, Same
<1>. QED BY <1>1 DEF Polls, LinkInv, SubscriptionAsked, Same

LEMMA LinkStep == LinkInv /\ [Next]_vars => LinkInv'
<1>. SUFFICES ASSUME LinkInv, [Next]_vars PROVE LinkInv' OBVIOUS
<1>1. CASE \E waited, rested \in BOOLEAN : Serve(waited, rested) BY <1>1, ServeKeeps
<1>2. CASE Scrambles
  BY <1>2 DEF Scrambles, LinkInv, SubscriptionAsked, NewClient, NewNet, IsNet, IsClient,
              Fields, ClientFields
<1>3. CASE Reattaches \/ BearerLost \/ Suspend
  BY <1>3 DEF Reattaches, BearerLost, Suspend, Disconnects, LinkInv, SubscriptionAsked,
              IsClient, ClientFields
<1>4. CASE GsmBegins BY <1>4 DEF GsmBegins, LinkInv, SubscriptionAsked
<1>5. CASE AtResets BY <1>5 DEF AtResets, LinkInv, SubscriptionAsked, IsNet, Fields
<1>6. CASE Line
  <2>1. PICK l \in Lines : Polls(IF Listens THEN TcpOnLine([net EXCEPT !.at = OnLine(@, l)], l)
                                 ELSE [net EXCEPT !.at = OnLine(@, l)])
    BY <1>6 DEF Line
  <2>2. Same(net, [net EXCEPT !.at = OnLine(@, l)]) BY DEF LinkInv, Same, IsNet, Fields
  <2>3. Same(net, TcpOnLine([net EXCEPT !.at = OnLine(@, l)], l))
    BY <2>2, TcpOnLineSame DEF Same
  <2>. QED BY <2>1, <2>2, <2>3, PollsKeep
<1>7. CASE Prompt
  <2>1. Same(net, [net EXCEPT !.at = OnPrompt(@)]) BY DEF LinkInv, Same, IsNet, Fields
  <2>. QED BY <1>7, <2>1, PollsKeep DEF Prompt
<1>8. CASE TimesOut
  <2>1. Same(net, [net EXCEPT !.at = TimeOut(@)]) BY DEF LinkInv, Same, IsNet, Fields
  <2>. QED BY <1>8, <2>1, PollsKeep DEF TimesOut
<1>9. CASE Silence
  <2>1. Same(net, net) BY DEF LinkInv, Same
  <2>. QED BY <1>9, <2>1, PollsKeep DEF Silence
<1>10. CASE AttemptElapses \/ AttemptSlow
  BY <1>10 DEF AttemptElapses, AttemptSlow, Elapses, LinkInv, SubscriptionAsked, IsNet, Fields
<1>11. CASE UNCHANGED vars BY <1>11 DEF vars, LinkInv, SubscriptionAsked
<1>. QED BY <1>1, <1>2, <1>3, <1>4, <1>5, <1>6, <1>7, <1>8, <1>9, <1>10, <1>11 DEF Next

\* No reconnect, late line, refusal or suspension leaves a client that believes it is
\* subscribed and has not asked (MQTTClient::loop(), MqttFsmClient::tick()).
THEOREM SubscribedHasAsked == Spec => []SubscriptionAsked
<1>1. Init => LinkInv
  BY DEF Init, LinkInv, SubscriptionAsked, NewClient, NewNet, IsNet, IsClient, Fields,
         ClientFields
<1>2. LinkInv => SubscriptionAsked BY DEF LinkInv
<1>. QED BY <1>1, <1>2, LinkStep, PTL DEF Spec

-----------------------------------------------------------------------------
\* One close: the ring and the active request, in terms of who is in them.
AtFields == {"state", "active", "q", "hq", "res"}
Tags == {"CIPRXGET0", "CIPMUX0", "CIPSTART", "CIPSEND", "CIPCLOSE"}
Expects == {"Ok", "Prompt"}
Requests == [tag : Tags, expect : Expects]
ClosesIn(at) == {i \in 1..Len(at.q) : at.q[i].tag = "CIPCLOSE"}
Closing(at) == at.active.tag = "CIPCLOSE" \/ ClosesIn(at) # {}

AtInv(at) ==
  /\ at = [f \in AtFields |-> at[f]] /\ at.q \in Seq(Requests) /\ at.hq = <<>>
  /\ at.state = "Idle" => at.active.tag # "CIPCLOSE"
  /\ \A i, j \in ClosesIn(at) : i = j
  /\ at.active.tag = "CIPCLOSE" => ClosesIn(at) = {}

\* b is a session that goes on from a without a new close.
Quieter(a, b) == AtInv(b) /\ (Closing(b) => Closing(a))

CloseInv(n) == IsNet(n) /\ AtInv(n.at) /\ (Closing(n.at) => n.closing)

LEMMA RequestIn ==
  ASSUME NEW t \in Tags, NEW e \in Expects
  PROVE  Request(t, e) \in Requests /\ Request(t, e).tag = t
  BY DEF Request, Requests

LEMMA EnqueueOther ==
  ASSUME NEW a, AtInv(a), NEW r \in Requests, r.tag # "CIPCLOSE"
  PROVE  Quieter(a, Enqueue(a, r))
<1>1. CASE Len(a.q) < QSIZE
  <2>. DEFINE b == [a EXCEPT !.q = Append(@, r)]
  <2>1. /\ b = [f \in AtFields |-> b[f]] /\ b.q = Append(a.q, r) /\ b.hq = <<>>
        /\ b.active = a.active /\ b.state = a.state
    BY DEF AtInv, AtFields
  <2>2. b.q \in Seq(Requests) /\ ClosesIn(b) = ClosesIn(a)
    BY <2>1 DEF AtInv, ClosesIn
  <2>3. Enqueue(a, r) = b BY <1>1 DEF Enqueue
  <2>. HIDE DEF b
  <2>4. AtInv(b) BY <2>1, <2>2 DEF AtInv
  <2>5. Closing(b) => Closing(a) BY <2>1, <2>2 DEF Closing
  <2>. QED BY <2>3, <2>4, <2>5 DEF Quieter
<1>2. CASE ~(Len(a.q) < QSIZE) BY <1>2 DEF Enqueue, Quieter
<1>. QED BY <1>1, <1>2

LEMMA EnqueueClose ==
  ASSUME NEW a, AtInv(a), ~Closing(a), NEW r \in Requests
  PROVE  AtInv(Enqueue(a, r))
<1>1. CASE Len(a.q) < QSIZE
  <2>. DEFINE b == [a EXCEPT !.q = Append(@, r)]
  <2>1. /\ b = [f \in AtFields |-> b[f]] /\ b.q = Append(a.q, r) /\ b.hq = <<>>
        /\ b.active = a.active /\ b.state = a.state
    BY DEF AtInv, AtFields
  <2>2. b.q \in Seq(Requests) /\ ClosesIn(b) \subseteq {Len(a.q) + 1}
    BY <2>1 DEF AtInv, ClosesIn, Closing
  <2>. QED BY <1>1, <2>1, <2>2 DEF Enqueue, AtInv, Closing
<1>2. CASE ~(Len(a.q) < QSIZE) BY <1>2 DEF Enqueue
<1>. QED BY <1>1, <1>2

LEMMA TickQuieter == ASSUME NEW a, AtInv(a) PROVE Quieter(a, Tick(a))
<1>1. CASE Starts(a)
  <2>. DEFINE b == StartNext(a)
  <2>1. a.q # <<>> /\ a.state = "Idle" /\ a.hq = <<>> BY <1>1 DEF Starts, AtInv
  <2>2. /\ b = [f \in AtFields |-> b[f]] /\ b.q = Tail(a.q) /\ b.hq = <<>>
        /\ b.active = Head(a.q) /\ b.state = "Waiting"
    BY <2>1 DEF AtInv, AtFields, StartNext
  <2>3. /\ Tail(a.q) \in Seq(Requests) /\ Len(Tail(a.q)) = Len(a.q) - 1
        /\ \A i \in 1..Len(a.q) - 1 : Tail(a.q)[i] = a.q[i + 1]
        /\ Head(a.q) = a.q[1] /\ Len(a.q) \in Nat \ {0}
    BY <2>1 DEF AtInv
  <2>4. \A i \in ClosesIn(b) : i + 1 \in ClosesIn(a) /\ i \in 1..Len(a.q) - 1
    <3>. SUFFICES ASSUME NEW i \in ClosesIn(b)
                  PROVE  i + 1 \in ClosesIn(a) /\ i \in 1..Len(a.q) - 1
      OBVIOUS
    <3>. HIDE DEF b
    <3>1. i \in 1..Len(b.q) /\ b.q[i].tag = "CIPCLOSE" BY DEF ClosesIn
    <3>2. i \in 1..Len(a.q) - 1 BY <3>1, <2>2, <2>3
    <3>3. a.q[i + 1].tag = "CIPCLOSE" BY <3>1, <3>2, <2>2, <2>3
    <3>4. i + 1 \in 1..Len(a.q) BY <3>2, <2>3
    <3>. QED BY <3>2, <3>3, <3>4 DEF ClosesIn
  <2>5. \A i, j \in ClosesIn(b) : i = j BY <2>3, <2>4 DEF AtInv
  <2>6. b.active.tag = "CIPCLOSE" => 1 \in ClosesIn(a) BY <2>2, <2>3 DEF ClosesIn
  <2>7. b.active.tag = "CIPCLOSE" => ClosesIn(b) = {}
    BY <2>3, <2>4, <2>6 DEF AtInv
  <2>8. Closing(b) => Closing(a) BY <2>4, <2>6 DEF Closing
  <2>9. b.q \in Seq(Requests) BY <2>2, <2>3
  <2>. HIDE DEF b
  <2>10. AtInv(b) BY <2>2, <2>5, <2>7, <2>9 DEF AtInv
  <2>. QED BY <1>1, <2>8, <2>10 DEF Tick, Quieter, b
<1>2. CASE ~Starts(a) BY <1>2 DEF Tick, Quieter
<1>. QED BY <1>1, <1>2

LEMMA FinishQuieter == ASSUME NEW a, AtInv(a), NEW res PROVE Quieter(a, Finish(a, res))
<1>. DEFINE b == Finish(a, res)
<1>1. /\ b = [f \in AtFields |-> b[f]] /\ b.q = a.q /\ b.hq = <<>>
      /\ b.active = a.active /\ b.state = "Done"
  BY DEF AtInv, AtFields, Finish
<1>. HIDE DEF b
<1>. QED BY <1>1 DEF Quieter, AtInv, Closing, ClosesIn, b

\* Whatever comes from the modem, or does not come, brings no close.
LEMMA HeardQuieter ==
  ASSUME NEW a, AtInv(a), NEW line
  PROVE  Quieter(a, TimeOut(a)) /\ Quieter(a, OnPrompt(a)) /\ Quieter(a, OnLine(a, line))
<1>1. Quieter(a, a) BY DEF Quieter
<1>. QED BY <1>1, FinishQuieter DEF TimeOut, OnPrompt, OnLine

LEMMA TakeQuieter ==
  ASSUME NEW a, AtInv(a)
  PROVE  /\ Quieter(a, TakeResult(a))
         /\ a.state = "Done" /\ a.active.tag = "CIPCLOSE" => ~Closing(TakeResult(a))
<1>1. CASE a.state = "Done"
  <2>. DEFINE b == TakeResult(a)
  <2>1. /\ b = [f \in AtFields |-> b[f]] /\ b.q = a.q /\ b.hq = <<>>
        /\ b.active.tag = "none" /\ b.state = "Idle"
    BY <1>1 DEF AtInv, AtFields, TakeResult, NoRequest, Request
  <2>. HIDE DEF b
  <2>. QED BY <2>1 DEF Quieter, AtInv, Closing, ClosesIn, b
<1>2. CASE a.state # "Done" BY <1>2 DEF TakeResult, Quieter
<1>. QED BY <1>1, <1>2

\* The socket.
LEMMA QuietUpdate ==
  ASSUME NEW n, CloseInv(n), NEW b, Quieter(n.at, b)
  PROVE  CloseInv([n EXCEPT !.at = b])
  BY DEF CloseInv, Quieter, IsNet, Fields

LEMMA StopCloses == ASSUME NEW n, CloseInv(n) PROVE CloseInv(Stop(n))
<1>. DEFINE closes == (n.up \/ n.opening) /\ ~n.closing
            m == Stop(n)
<1>1. /\ IsNet(m) /\ (m.closing <=> n.closing \/ n.up \/ n.opening)
      /\ m.at = IF closes THEN Enqueue(n.at, Request("CIPCLOSE", "Ok")) ELSE n.at
  BY DEF Stop, Stopped, CloseInv, IsNet, Fields
<1>2. AtInv(m.at)
  <2>1. Request("CIPCLOSE", "Ok") \in Requests BY RequestIn DEF Tags, Expects
  <2>. QED BY <1>1, <2>1, EnqueueClose DEF CloseInv
<1>3. Closing(m.at) => m.closing BY <1>1 DEF CloseInv
<1>. QED BY <1>1, <1>2, <1>3 DEF CloseInv

LEMMA ConnectStartCloses == ASSUME NEW n, CloseInv(n) PROVE CloseInv(ConnectStart(n))
<1>. DEFINE r1 == Request("CIPRXGET0", "Ok")
            r2 == Request("CIPMUX0", "Ok")
            r3 == Request("CIPSTART", "Ok")
            set == IF n.setup THEN n.at ELSE Enqueue(Enqueue(n.at, r1), r2)
<1>1. /\ r1 \in Requests /\ r2 \in Requests /\ r3 \in Requests
      /\ r1.tag # "CIPCLOSE" /\ r2.tag # "CIPCLOSE" /\ r3.tag # "CIPCLOSE"
  BY RequestIn DEF Tags, Expects
<1>. HIDE DEF r1, r2, r3
<1>2. Quieter(n.at, set)
  <2>1. Quieter(n.at, Enqueue(n.at, r1)) BY <1>1, EnqueueOther DEF CloseInv
  <2>2. Quieter(Enqueue(n.at, r1), Enqueue(Enqueue(n.at, r1), r2))
    BY <1>1, <2>1, EnqueueOther DEF Quieter
  <2>. QED BY <2>1, <2>2 DEF Quieter, CloseInv
<1>. HIDE DEF set
<1>3. Quieter(n.at, Enqueue(set, r3)) BY <1>1, <1>2, EnqueueOther DEF Quieter
<1>4. CloseInv([n EXCEPT !.opening = TRUE, !.setup = TRUE, !.at = Enqueue(set, r3)])
  BY <1>3 DEF CloseInv, Quieter, IsNet, Fields
<1>. QED BY <1>4 DEF ConnectStart, set, r1, r2, r3

LEMMA TcpTickCloses == ASSUME NEW n, CloseInv(n) PROVE CloseInv(TcpTick(n))
<1>1. CloseInv(Answered(n))
  <2>1. CASE n.at.state = "Done"
    <3>. DEFINE m == Answered(n)
    <3>1. /\ IsNet(m) /\ m.at = TakeResult(n.at)
          /\ m.closing <=> n.closing /\ n.at.active.tag # "CIPCLOSE"
      BY ZenonT(60), <2>1 DEF Answered, CloseInv, IsNet, Fields
    <3>. HIDE DEF m
    <3>. QED BY <2>1, <3>1, TakeQuieter DEF CloseInv, Quieter, m
  <2>2. CASE n.at.state # "Done" BY <2>2 DEF Answered
  <2>. QED BY <2>1, <2>2
<1>2. ASSUME NEW m, CloseInv(m) PROVE CloseInv(StartSend(m))
  <2>. DEFINE r == Request("CIPSEND", "Prompt")
  <2>1. r \in Requests /\ r.tag # "CIPCLOSE" BY RequestIn DEF Tags, Expects
  <2>. HIDE DEF r
  <2>2. Quieter(m.at, Enqueue(m.at, r)) BY <1>2, <2>1, EnqueueOther DEF CloseInv
  <2>3. CloseInv([m EXCEPT !.sending = TRUE, !.at = Enqueue(@, r)])
    BY <1>2, <2>2 DEF CloseInv, Quieter, IsNet, Fields
  <2>. QED BY <1>2, <2>3 DEF StartSend, r
<1>. QED BY <1>1, <1>2 DEF TcpTick

LEMMA TcpOnLineCloses ==
  ASSUME NEW n, CloseInv(n), NEW line PROVE CloseInv(TcpOnLine(n, line))
<1>1. /\ IsNet(TcpOnLine(n, line)) /\ TcpOnLine(n, line).at = n.at
      /\ TcpOnLine(n, line).closing = n.closing
  BY DEF TcpOnLine, CloseInv, IsNet, Fields
<1>. QED BY <1>1 DEF CloseInv

LEMMA TickedCloses == ASSUME NEW n, CloseInv(n) PROVE CloseInv(Ticked(n))
<1>. DEFINE m == [n EXCEPT !.at = Tick(@)]
<1>1. CloseInv(m) BY TickQuieter, QuietUpdate DEF CloseInv
<1>. HIDE DEF m
<1>2. CloseInv(TcpTick(m)) BY <1>1, TcpTickCloses
<1>3. CloseInv([m EXCEPT !.at = TakeResult(@)])
  BY <1>1, TakeQuieter, QuietUpdate DEF CloseInv
<1>. QED BY <1>2, <1>3 DEF Ticked, m

\* The engine leaves the session to the socket.
Leaves(n, m) == IsNet(m) /\ m.at = n.at /\ m.closing = n.closing

LEMMA LeavesCloses == ASSUME NEW n, CloseInv(n), NEW m, Leaves(n, m) PROVE CloseInv(m)
  BY DEF CloseInv, Leaves

LEMMA EngineCloses ==
  ASSUME NEW n, CloseInv(n)
  PROVE  /\ CloseInv(ResetSession(n)) /\ CloseInv(ToIdle(n)) /\ CloseInv(SetError(n))
         /\ CloseInv(Stage(n)) /\ CloseInv(StageConnect(n)) /\ CloseInv(StageSubscribe(n))
         /\ \A r \in Pumped(n) : CloseInv(r)
<1>1. ASSUME NEW m, CloseInv(m) PROVE CloseInv(ResetSession(m))
  BY <1>1, LeavesCloses DEF ResetSession, Leaves, CloseInv, IsNet, Fields
<1>2. ASSUME NEW m, CloseInv(m), NEW s PROVE CloseInv([m EXCEPT !.mq = s])
  BY <1>2, LeavesCloses DEF Leaves, CloseInv, IsNet, Fields
<1>3. ASSUME NEW m, CloseInv(m) PROVE CloseInv(SetError(m))
  BY <1>3, <1>1, <1>2, StopCloses DEF SetError
<1>4. CloseInv(ToIdle(n)) BY <1>1, <1>2 DEF ToIdle
<1>5. ASSUME NEW m, CloseInv(m) PROVE CloseInv(Stage(m))
  BY <1>5, LeavesCloses DEF Stage, Leaves, CloseInv, IsNet, Fields
<1>6. CloseInv(StageConnect(n))
  BY LeavesCloses DEF StageConnect, Leaves, CloseInv, IsNet, Fields
<1>7. CloseInv(StageSubscribe(n))
  <2>1. ASSUME NEW m, CloseInv(m)
        PROVE  CloseInv([m EXCEPT !.awaits = TRUE, !.sub = FALSE, !.asked = TRUE])
    BY <2>1, LeavesCloses DEF Leaves, CloseInv, IsNet, Fields
  <2>. QED BY <1>5, <2>1 DEF StageSubscribe
<1>8. ASSUME NEW r \in Pumped(n) PROVE CloseInv(r)
  <2>1. PICK f \in Frames : r = ParseFrame(PumpWrite(n), f) BY <1>8 DEF Pumped
  <2>. DEFINE m == PumpWrite(n)
  <2>2. CloseInv(m) BY LeavesCloses DEF PumpWrite, Leaves, CloseInv, IsNet, Fields
  <2>. HIDE DEF m
  <2>3. CloseInv([m EXCEPT !.mq = "Connected", !.awaits = FALSE, !.late = FALSE])
        /\ CloseInv([m EXCEPT !.awaits = FALSE])
    BY <2>2, LeavesCloses DEF Leaves, CloseInv, IsNet, Fields
  <2>4. r = ParseFrame(m, f) BY <2>1 DEF m
  <2>. QED BY <1>3, <2>2, <2>3, <2>4 DEF ParseFrame, Frames
<1>. QED BY <1>1, <1>3, <1>4, <1>5, <1>6, <1>7, <1>8

LEMMA TickNetCloses ==
  ASSUME NEW n, CloseInv(n), NEW ping \in BOOLEAN, NEW r \in MqttTick(n, ping)
  PROVE  CloseInv(r)
<1>1. ASSUME NEW m, CloseInv(m), NEW s \in Handshake(m) PROVE CloseInv(s)
  <2>1. PICK p \in Pumped(StageConnect(m)) : s = IF HandshakeLate(p) THEN SetError(p) ELSE p
    BY <1>1 DEF Handshake
  <2>2. CloseInv(p) BY <1>1, EngineCloses
  <2>. QED BY <2>1, <2>2, EngineCloses
<1>2. ASSUME NEW m, CloseInv(m), NEW s \in Connecting(m) PROVE CloseInv(s)
  <2>1. s = IF ConnectStart(m).late THEN SetError(ConnectStart(m)) ELSE ConnectStart(m)
    BY <1>2 DEF Connecting
  <2>. QED BY <1>2, <2>1, ConnectStartCloses, EngineCloses
<1>3. ASSUME NEW m, CloseInv(m), NEW s \in ToHandshake(m) PROVE CloseInv(s)
  <2>1. CloseInv([m EXCEPT !.mq = "MqttConnecting", !.late = FALSE])
    BY <1>3, LeavesCloses DEF Leaves, CloseInv, IsNet, Fields
  <2>. QED BY <1>1, <1>3, <2>1 DEF ToHandshake
<1>4. ASSUME NEW s \in Online(n, ping) PROVE CloseInv(s)
  <2>. DEFINE t == IF ping THEN Stage(StageSubscribe(n)) ELSE StageSubscribe(n)
  <2>1. CloseInv(t) BY EngineCloses
  <2>2. s \in {IF p.up THEN p ELSE ToIdle(p) : p \in Pumped(t)} BY <1>4 DEF Online
  <2>. HIDE DEF t
  <2>3. PICK p \in Pumped(t) : s = IF p.up THEN p ELSE ToIdle(p) BY <2>2
  <2>4. CloseInv(p) BY <2>1, EngineCloses
  <2>. QED BY <2>3, <2>4, EngineCloses
<1>5. ASSUME NEW m, CloseInv(m), NEW s PROVE CloseInv([m EXCEPT !.mq = s])
  BY <1>5, LeavesCloses DEF Leaves, CloseInv, IsNet, Fields
<1>6. CloseInv([n EXCEPT !.slow = FALSE])
  BY LeavesCloses DEF Leaves, CloseInv, IsNet, Fields
<1>7. CloseInv([ResetSession(n) EXCEPT !.mq = "TcpConnecting"]) BY <1>5, EngineCloses
<1>. QED BY <1>1, <1>2, <1>3, <1>4, <1>5, <1>6, <1>7 DEF MqttTick

LEMMA ServeCloses ==
  ASSUME CloseInv(net), NEW waited \in BOOLEAN, NEW rested \in BOOLEAN, Serve(waited, rested)
  PROVE  CloseInv(net')
<1>. DEFINE n0 == IF gsm = "ready" THEN net ELSE ToIdle(net)
            c0 == IF waited THEN Reconnects(client, n0) ELSE client
            asksNow == n0.mq = "Connected" /\ ~client.subscribed
            n1 == IF asksNow THEN [n0 EXCEPT !.sub = TRUE] ELSE n0
            c1 == [c0 EXCEPT !.subscribed = @ \/ asksNow]
<1>1. PICK n2 \in MqttTick(n1, waited), due \in BOOLEAN : Publishes(c1, n2, due)
  BY DEF Serve
<1>2. CloseInv(n0) BY EngineCloses
<1>. HIDE DEF n0, c0
<1>3. CloseInv(n1) BY <1>2, LeavesCloses DEF Leaves, CloseInv, IsNet, Fields
<1>. HIDE DEF n1, c1, asksNow
<1>4. CloseInv(n2) BY <1>1, <1>3, TickNetCloses
<1>. QED BY <1>1, <1>4, EngineCloses DEF Publishes

LEMMA FreshCloses == AtInv(Fresh) /\ ~Closing(Fresh)
  BY DEF AtInv, Closing, ClosesIn, Fresh, NoRequest, Request, AtFields, Requests

CloseHolds == CloseInv(net)

LEMMA CloseStep == CloseHolds /\ [Next]_vars => CloseHolds'
<1>. SUFFICES ASSUME CloseInv(net), [Next]_vars PROVE CloseInv(net') BY DEF CloseHolds
<1>1. CASE \E waited, rested \in BOOLEAN : Serve(waited, rested) BY <1>1, ServeCloses
<1>2. CASE Scrambles
  <2>1. IsNet(NewNet) /\ NewNet.at = Fresh BY DEF NewNet, IsNet, Fields
  <2>. QED BY <1>2, <2>1, FreshCloses DEF Scrambles, CloseInv
<1>3. CASE Reattaches \/ BearerLost \/ Suspend \/ GsmBegins \/ UNCHANGED vars
  BY <1>3 DEF Reattaches, BearerLost, Suspend, Disconnects, GsmBegins, vars
<1>4. CASE AtResets
  <2>1. Quieter(net.at, Fresh) BY FreshCloses DEF Quieter
  <2>. QED BY <1>4, <2>1, QuietUpdate DEF AtResets
<1>5. ASSUME NEW a, Quieter(net.at, a), Polls([net EXCEPT !.at = a]) PROVE CloseInv(net')
  BY <1>5, QuietUpdate, TickedCloses DEF Polls
<1>6. CASE Line
  <2>1. PICK l \in Lines : Polls(IF Listens THEN TcpOnLine([net EXCEPT !.at = OnLine(@, l)], l)
                                 ELSE [net EXCEPT !.at = OnLine(@, l)])
    BY <1>6 DEF Line
  <2>2. Quieter(net.at, OnLine(net.at, l)) BY HeardQuieter DEF CloseInv
  <2>3. CloseInv([net EXCEPT !.at = OnLine(@, l)]) BY <2>2, QuietUpdate
  <2>4. CloseInv(TcpOnLine([net EXCEPT !.at = OnLine(@, l)], l)) BY <2>3, TcpOnLineCloses
  <2>. QED BY <2>1, <2>3, <2>4, TickedCloses DEF Polls
<1>7. CASE Prompt \/ TimesOut
  <2>1. Quieter(net.at, OnPrompt(net.at)) /\ Quieter(net.at, TimeOut(net.at))
    BY HeardQuieter DEF CloseInv
  <2>. QED BY <1>5, <1>7, <2>1 DEF Prompt, TimesOut
<1>8. CASE Silence BY <1>8, TickedCloses DEF Silence, Polls
<1>9. CASE AttemptElapses \/ AttemptSlow
  BY <1>9, LeavesCloses DEF AttemptElapses, AttemptSlow, Elapses, Leaves, CloseInv, IsNet, Fields
<1>. QED BY <1>1, <1>2, <1>3, <1>4, <1>6, <1>7, <1>8, <1>9 DEF Next

LEMMA OneIndex == ASSUME NEW n, CloseInv(n)
                  PROVE  Closes(n.at) <= 1 /\ (Closes(n.at) = 1 => n.closing)
<1>. DEFINE S == ClosesIn(n.at)
<1>1. Tagged(n.at.q, "CIPCLOSE") = S BY DEF Tagged, ClosesIn, CloseInv, AtInv
<1>2. CASE S = {}
  <2>1. Cardinality(S) = 0 BY <1>2, FS_EmptySet
  <2>. QED BY <1>1, <2>1 DEF Closes, CloseInv, Closing
<1>3. CASE S # {}
  <2>1. PICK i : S = {i} BY <1>3 DEF CloseInv, AtInv
  <2>2. Cardinality(S) = 1 BY <2>1, FS_Singleton
  <2>3. n.at.active.tag # "CIPCLOSE" BY <1>3 DEF CloseInv, AtInv
  <2>. QED BY <1>1, <1>3, <2>2, <2>3 DEF Closes, CloseInv, Closing
<1>. QED BY <1>2, <1>3

\* However often sockets come and go, no more than one AT+CIPCLOSE is on its way
\* (Sim800TcpTransport::stop()).
THEOREM AtMostOneClose == Spec => []OneClose
<1>1. Init => CloseHolds
  <2>1. IsNet(NewNet) /\ NewNet.at = Fresh BY DEF NewNet, IsNet, Fields
  <2>. QED BY <2>1, FreshCloses DEF Init, CloseInv, CloseHolds
<1>2. CloseHolds => OneClose BY OneIndex DEF OneClose, CloseHolds
<1>. QED BY <1>1, <1>2, CloseStep, PTL DEF Spec
=============================================================================
