------------------------------ MODULE MqttLink ------------------------------
(***************************************************************************)
(* From the broker to the modem: the client that publishes and takes       *)
(* commands (MQTTClient), its protocol engine (MqttFsmClient), the socket  *)
(* of the modem (Sim800TcpTransport) on the AT session, and the glue that  *)
(* starts and stops them with the modem (CellularCore).  GsmLink opens the *)
(* modem controller; here it is idle, coming up or READY.                  *)
(*                                                                         *)
(* The line is open: any line, prompt or frame may come whenever the UART  *)
(* is polled, also late ones of an earlier socket.  A pass of the loop     *)
(* polls the UART all along; Loop is a pass without the polls, which are   *)
(* steps of their own before and after it.                                 *)
(***************************************************************************)
EXTENDS AtSession, FiniteSets

CONSTANTS
  TX_SIZE,      \* packets the transport takes before they are sent
  REATTACH_FAILS, FAILS_MAX  \* failures that ask for a reattach; cap of their count

ASSUME LinkAssumption ==
  /\ TX_SIZE \in Nat \ {0}
  /\ REATTACH_FAILS \in Nat \ {0} /\ FAILS_MAX \in Nat /\ FAILS_MAX >= REATTACH_FAILS

VARIABLES
  gsm,      \* "idle", "up" (INIT to GPRS_GETIP, ERROR), "ready"
  asks,     \* _reattachRequested of the controller
  client,   \* MQTTClient and CellularCore
  net       \* MqttFsmClient, transport and AT session

vars == <<gsm, asks, client, net>>

MqttState == {"Idle", "TcpConnecting", "MqttConnecting", "Connected", "Error"}
\* REFUSED: a CONNACK with an error code, or the broker's DISCONNECT.  A command in a
\* PUBLISH goes to the executor, or publishes as the status does.
\* A pass reads any frames: the ring keeps those of an earlier socket and drops the
\* oldest when it is full.
Frames == {"CONNACK", "REFUSED", "SUBACK", "none"}
\* CONNECT FAIL is as CLOSED to the socket, ALREADY CONNECT as CONNECT OK, SEND FAIL
\* as SEND OK.
Lines == {"OK", "ERROR", "+CME ERROR", "CONNECT OK", "CLOSED", "SEND OK"}

NewClient ==
  [subscribed |-> FALSE, wasConnected |-> FALSE, online |-> FALSE,
   fails |-> 0]

\* staged: _txLen # 0, spoke: _lastTxMs # 0; late: the timeout of the state is over,
\* slow: 30 s since _tcpConnectStartMs; asked is a ghost: SUBSCRIBE was staged since
\* resetSession_().  out counts the packets in _tx of the transport.
NewNet ==
  [mq |-> "Idle", staged |-> FALSE, spoke |-> FALSE, sub |-> FALSE, awaits |-> FALSE,
   asked |-> FALSE, late |-> FALSE, slow |-> FALSE,
   up |-> FALSE, opening |-> FALSE, setup |-> FALSE, sending |-> FALSE,
   closing |-> FALSE, out |-> 0, at |-> Fresh]

Init == gsm = "idle" /\ asks = FALSE /\ client = NewClient /\ net = NewNet

-----------------------------------------------------------------------------
\* Sim800TcpTransport.  connectStart(): the settings go out once.
ConnectStart(n) ==
  IF n.opening \/ n.up THEN n
  ELSE LET set == IF n.setup THEN n.at
                  ELSE Enqueue(Enqueue(n.at, Request("CIPRXGET0", "Ok")),
                               Request("CIPMUX0", "Ok"))
       IN [n EXCEPT !.opening = TRUE, !.setup = TRUE,
                    !.at = Enqueue(set, Request("CIPSTART", "Ok"))]

\* stop()
Stopped(n, closes) ==
  [n EXCEPT !.up = FALSE, !.opening = FALSE, !.sending = FALSE, !.out = 0,
            !.closing = @ \/ n.up \/ n.opening,
            !.at = IF closes THEN Enqueue(@, Request("CIPCLOSE", "Ok")) ELSE @]

\* Slip: a close under way does not keep the next one back.
StopsAgain(n) == Stopped(n, n.up \/ n.opening)

Stop(n) == Stopped(n, (n.up \/ n.opening) /\ ~n.closing)

\* tick(): take the result there is, whoever asked; the prompt lets the bytes go.
Fell(n, tag) == n.at.active.tag = tag /\ n.at.res # "ok"
Answered(n) ==
  IF n.at.state # "Done" THEN n
  ELSE [n EXCEPT !.at = TakeResult(@),
                 !.closing = @ /\ n.at.active.tag # "CIPCLOSE",
                 !.up = @ /\ ~Fell(n, "CIPSTART"), !.opening = @ /\ ~Fell(n, "CIPSTART"),
                 !.sending = @ /\ ~Fell(n, "CIPSEND"),
                 !.out = IF Fell(n, "CIPSEND") THEN 0 ELSE @]

\* startSend_()
StartSend(n) ==
  IF n.up /\ ~n.sending /\ n.out > 0
  THEN [n EXCEPT !.sending = TRUE, !.at = Enqueue(@, Request("CIPSEND", "Prompt"))]
  ELSE n

TcpTick(n) == StartSend(Answered(n))

\* onLine(): the end of a send drops what was written after its start, too.
TcpOnLine(n, line) ==
  CASE line = "CONNECT OK" -> [n EXCEPT !.up = TRUE, !.opening = FALSE]
    [] line \in {"CLOSED", "ERROR"} -> [n EXCEPT !.up = FALSE, !.opening = FALSE]
    [] line = "SEND OK" -> [n EXCEPT !.sending = FALSE, !.out = 0]
    [] OTHER -> n

-----------------------------------------------------------------------------
\* MqttFsmClient: resetSession_(), setError_().
ResetSession(n) ==
  [n EXCEPT !.staged = FALSE, !.spoke = FALSE, !.sub = FALSE, !.awaits = FALSE,
            !.asked = FALSE, !.late = FALSE, !.slow = FALSE]
ToIdle(n) == [ResetSession(n) EXCEPT !.mq = "Idle"]
SetError(n) == [ResetSession(Stop(n)) EXCEPT !.mq = "Error"]

\* buildConnect_(), buildSubscribe_(), buildPingreq_(), buildPublish_(): one packet
\* is staged at a time.
Stage(n) == IF n.staged THEN n ELSE [n EXCEPT !.staged = TRUE, !.spoke = TRUE]
StageConnect(n) == IF n.spoke THEN n ELSE [n EXCEPT !.staged = TRUE]
StageSubscribe(n) ==
  IF n.sub /\ ~n.awaits /\ ~n.staged
  THEN [Stage(n) EXCEPT !.awaits = TRUE, !.sub = FALSE, !.asked = TRUE] ELSE n

\* pumpWrite_(), pumpReadAndParse_() with one of the four frames a pass may read.
PumpWrite(n) ==
  IF n.staged /\ n.out < TX_SIZE
  THEN [n EXCEPT !.staged = FALSE, !.spoke = TRUE, !.out = @ + 1] ELSE n

ParseFrame(n, f) ==
  IF n.mq = "Error" THEN n
  ELSE CASE f = "CONNACK" -> [n EXCEPT !.mq = "Connected", !.awaits = FALSE, !.late = FALSE]
         [] f = "REFUSED" -> SetError(n)
         [] f = "SUBACK" -> [n EXCEPT !.awaits = FALSE]
         [] f = "none" -> n
Pumped(n) == {ParseFrame(m, f) : m \in {PumpWrite(n)}, f \in Frames}

\* The handshake: an acknowledgement clears its timer, and the tick that read it
\* then looks at the age of the attempt as a whole.

HandshakeLate(n) == IF n.mq = "Connected" THEN n.slow ELSE n.late

Handshake(n) ==
  {IF HandshakeLate(r) THEN SetError(r) ELSE r : r \in Pumped(StageConnect(n))}

Online(n, ping) ==
  LET s == StageSubscribe(n) IN
  {IF r.up THEN r ELSE ToIdle(r) : r \in Pumped(IF ping THEN Stage(s) ELSE s)}

\* Slip: a socket that never opens is waited for.
ConnectingPatiently(n) == {ConnectStart(n)}

\* ensureTcp_()
Connecting(n) == {IF m.late THEN SetError(m) ELSE m : m \in {ConnectStart(n)}}
ToHandshake(n) == Handshake([n EXCEPT !.mq = "MqttConnecting", !.late = FALSE])

\* tick() of a client that is asked to connect; in Error it waits for the socket to
\* go down, which setError_() has seen to unless CONNECT OK comes after it.
MqttTick(n, ping) ==
  CASE n.up /\ n.mq = "Idle" -> ToHandshake([n EXCEPT !.slow = FALSE])
    [] n.up /\ n.mq = "TcpConnecting" -> ToHandshake(n)
    [] n.up /\ n.mq = "MqttConnecting" -> Handshake(n)
    [] n.up /\ n.mq = "Connected" -> Online(n, ping)
    [] n.up /\ n.mq = "Error" -> {n}
    [] ~n.up /\ n.mq = "Idle" -> Connecting([ResetSession(n) EXCEPT !.mq = "TcpConnecting"])
    [] ~n.up /\ n.mq = "TcpConnecting" -> Connecting(n)
    [] OTHER -> {[n EXCEPT !.mq = "Idle"]}

-----------------------------------------------------------------------------
\* MQTTClient.  connect(): a try that failed is counted, and never discounted.

\* Slip: a try that left a socket does not count.
FailedWithoutSocket(n) == n.mq = "Error" /\ ~n.up

Failed(n) == n.mq = "Error"

Reconnects(c, n) ==
  [c EXCEPT !.fails = IF Failed(n) /\ @ < FAILS_MAX THEN @ + 1 ELSE @]

\* loop() after the tick: the online message once per session, the status when due.

\* Slip: the subscription is remembered.
LostSocket(c) == [c EXCEPT !.wasConnected = FALSE, !.online = FALSE]

Lost(c) == [c EXCEPT !.subscribed = FALSE, !.wasConnected = FALSE, !.online = FALSE]

Publishes(c, n, due) ==
  /\ net' = IF n.mq = "Connected" /\ (due \/ c.online \/ ~c.wasConnected) THEN Stage(n) ELSE n
  /\ client' = IF n.mq # "Connected" THEN Lost(c)
               ELSE [c EXCEPT !.wasConnected = TRUE,
                              !.online = (@ \/ ~c.wasConnected) /\ n.staged]

\* CellularCore::service().  The client is started while gsm = "ready": the pass that
\* finds the modem READY begins and serves, the first that does not disconnects.
\* waited: the reconnect interval is over, or that of the keepalive; rested: so are
\* the 5 s between two reattaches.
Serve(waited, rested) ==
  /\ gsm # "idle" /\ gsm' = "ready"
  /\ LET n0 == IF gsm = "ready" THEN net ELSE ToIdle(net)                 \* begin()
         c0 == IF waited THEN Reconnects(client, n0) ELSE client
         asksNow == n0.mq = "Connected" /\ ~client.subscribed
         n1 == IF asksNow THEN [n0 EXCEPT !.sub = TRUE] ELSE n0
         c1 == [c0 EXCEPT !.subscribed = @ \/ asksNow]
     IN /\ asks' = (asks \/ (rested /\ c1.fails >= REATTACH_FAILS))
        /\ \E n2 \in MqttTick(n1, waited), due \in BOOLEAN : Publishes(c1, n2, due)

\* parseOneFrame_() consumes the frame from the buffer that setError_() has emptied:
\* the length wraps, and the 64 KB it then moves need not leave the device running.
Scrambles ==
  /\ gsm = "ready" /\ net.up /\ net.mq # "Error"
  /\ gsm' = "idle" /\ asks' = FALSE /\ client' = NewClient /\ net' = NewNet

\* disconnect() leaves the socket to a tick that begin() comes before.
Disconnects(s) ==
  /\ gsm' = s /\ UNCHANGED net
  /\ client' = IF gsm = "ready" THEN [client EXCEPT !.subscribed = FALSE] ELSE client

\* READY is left for a reattach or a lost bearer; suspend() stops the controller.
Reattaches == gsm = "ready" /\ asks /\ asks' = FALSE /\ Disconnects("up")
BearerLost == gsm = "ready" /\ Disconnects("up") /\ UNCHANGED asks
Suspend == gsm # "idle" /\ Disconnects("idle") /\ UNCHANGED asks

\* begin() of the controller, and INIT's reset of the AT session.
GsmBegins == gsm = "idle" /\ gsm' = "up" /\ UNCHANGED <<asks, client, net>>
AtResets == gsm = "up" /\ net' = [net EXCEPT !.at = Fresh] /\ UNCHANGED <<gsm, asks, client>>

-----------------------------------------------------------------------------
\* A poll: a line or a prompt may have come, or the deadline of the command
\* has passed; then the AT session and the socket tick.  The socket looks at what
\* comes, and ticks, only if it is wanted or there; the result of a command it does
\* not take goes to the controller.
Listens == gsm = "ready" \/ net.up \/ net.opening
Ticked(n) == LET m == [n EXCEPT !.at = Tick(@)] IN
             IF gsm = "ready" \/ n.up \/ n.opening THEN TcpTick(m)
             ELSE [m EXCEPT !.at = TakeResult(@)]
Polls(n) == gsm # "idle" /\ net' = Ticked(n) /\ UNCHANGED <<gsm, asks, client>>

Line == \E l \in Lines :
          LET n == [net EXCEPT !.at = OnLine(@, l)] IN
          Polls(IF Listens THEN TcpOnLine(n, l) ELSE n)
Prompt == Polls([net EXCEPT !.at = OnPrompt(@)])
TimesOut == Polls([net EXCEPT !.at = TimeOut(@)])
Silence == Polls(net)

\* millis() passes an instant.
InAttempt == net.mq \in {"TcpConnecting", "MqttConnecting"}
Elapses(n) == InAttempt /\ net' = n /\ UNCHANGED <<gsm, asks, client>>
AttemptElapses == Elapses([net EXCEPT !.late = TRUE, !.slow = TRUE])
AttemptSlow == Elapses([net EXCEPT !.slow = TRUE])

Next ==
  \/ (\E waited, rested \in BOOLEAN : Serve(waited, rested))
  \/ Scrambles \/ Reattaches \/ BearerLost \/ Suspend \/ GsmBegins \/ AtResets
  \/ Line \/ Prompt \/ TimesOut \/ Silence
  \/ AttemptElapses \/ AttemptSlow

Spec == Init /\ [][Next]_vars

\* The loop and the clock run, so each interval is over at some pass, and a READY
\* controller serves a reattach (GsmLink!RequestsServed, which holds unless a stop() has
\* cut a reboot short).  Nothing is assumed of the modem or the broker.
Fairness ==
  /\ WF_vars(Serve(TRUE, TRUE)) /\ WF_vars(Reattaches) /\ WF_vars(AttemptElapses)

FairSpec == Spec /\ Fairness

-----------------------------------------------------------------------------
\* A client that takes itself for subscribed is connected, and SUBSCRIBE is due or
\* was staged in this very session: no reconnect, late line, refusal or suspension
\* leaves a device that never hears a command again.
SubscriptionAsked == client.subscribed => net.mq = "Connected" /\ (net.sub \/ net.asked)

\* However often sockets come and go, at most one AT+CIPCLOSE is queued or running,
\* so closes alone never fill the ring the next CIPSTART needs.
Tagged(s, tag) == {i \in DOMAIN s : s[i].tag = tag}
Closes(at) ==
  Cardinality(Tagged(at.q, "CIPCLOSE")) + (IF at.active.tag = "CIPCLOSE" THEN 1 ELSE 0)
OneClose == Closes(net.at) <= 1 /\ (Closes(net.at) = 1 => net.closing)

\* An attempt to connect ends, whatever of the answers is lost, late or of an earlier
\* socket, unless the modem is taken away.
HandshakeSettles == (gsm = "ready" /\ InAttempt) ~> (~InAttempt \/ gsm # "ready")

\* So does an error, even where a late CONNECT OK has brought the socket up again
\* and the engine has no way out of its own: the count of failures reattaches.
ErrorIsLeft == (gsm = "ready" /\ net.mq = "Error") ~> (net.mq # "Error" \/ gsm # "ready")

\* getConsecutiveConnectFails() counts failures in a row: a reattach is not asked for
\* while the client is connected.
ReattachWhileFailing == [][asks' /\ ~asks => net'.mq # "Connected"]_vars
=============================================================================
