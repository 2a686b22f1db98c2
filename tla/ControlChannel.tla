--------------------------- MODULE ControlChannel ---------------------------
(***************************************************************************)
(* The authenticated control connection between the relay and the agent.   *)
(*                                                                         *)
(* Relay side (lib/agent-client.ts): one AgentClient with its current      *)
(* socket, its reconnect timer and its handshake deadline. Every callback  *)
(* of a socket is an action; Node runs one callback at a time, and the     *)
(* callbacks of a socket the client has given up still arrive.             *)
(*                                                                         *)
(* Agent side (control_auth.rs, the accept loop of main.rs): a launch      *)
(* binds the port, publishes a fresh credential and then serves; each      *)
(* accepted connection takes a pending permit, proves the credential, takes*)
(* an authenticated permit, is acknowledged and gives the pending permit   *)
(* back. Other local programs (Peers) connect too.                         *)
(***************************************************************************)
EXTENDS Integers, Sequences, FiniteSets

CONSTANTS
  Socks,        \* sockets the relay's client may have at a time, old ones included
  Peers,        \* connections of other local programs
  Agents,       \* agent processes an operator may launch
  Streams,      \* browser streams (SSE) of the relay
  MaxPending,   \* permits of Admission.pending (16)
  MaxAuth,      \* permits of Admission.authenticated (64)
  MaxLaunches,  \* bound: launches of agents
  MaxStops,     \* bound: calls of stop()
  MaxLate,      \* bound: deadlines that expire although the other end would answer
  MaxWire,      \* bound: lines in flight in one direction of a connection
  None          \* no socket

ASSUME AdmissionAssumption ==
  /\ MaxPending \in Nat \ {0} /\ MaxAuth \in Nat \ {0}
  /\ MaxLaunches \in Nat /\ MaxStops \in Nat /\ MaxLate \in Nat /\ MaxWire \in Nat
  /\ IsFiniteSet(Socks) /\ IsFiniteSet(Peers)
  /\ Socks \cap Peers = {} /\ None \notin Socks \cup Peers

VARIABLES
  started,        \* getAgentClient has created and started the client
  stopped, socket, authenticated,
  reconnect,      \* reconnectTimer # null
  timers,         \* reconnect timeouts pending in the event loop
  authTimer,      \* the socket whose deadline authTimer refers to, or None
  armed,          \* sockets with a handshake deadline pending in the event loop
  stops,          \* calls of stop() so far
  shown,          \* last connection_status each browser stream received
  side,           \* per connection, its client's end
  handled,        \* per relay socket: disconnect() has run
  token,          \* per relay socket: the credential its connect() read
  up,             \* per connection: lines in flight to the agent
  down,           \* per relay socket: lines in flight from the agent
  peer,           \* per connection, the agent's end
  pc, tok,        \* per agent process: where it is, its credential
  file,           \* the credential file: 0 for none
  launches,
  foreign,        \* another program listens on the agent's port
  pendingFree, authFree,  \* free permits of the agent process that listens
  late            \* deadlines that expired although the other end would answer

relayVars == <<started, stopped, socket, authenticated, reconnect, timers, authTimer, armed,
               stops, handled, token>>
connVars == <<side, up, down, peer>>
permitVars == <<pendingFree, authFree>>
agentVars == <<pc, tok, file, launches, foreign>>
vars == <<relayVars, shown, connVars, permitVars, agentVars, late>>

Conns == Socks \cup Peers

\* A line to the agent: the authenticate message, any control, or no JSON
\* object at all.
Line == [kind : {"auth"}, tok : Nat] \cup [kind : {"control", "junk"}, tok : {0}]
Auth(t) == [kind |-> "auth", tok |-> t]
Control == [kind |-> "control", tok |-> 0]
Junk == [kind |-> "junk", tok |-> 0]

\* A connection whose two ends are gone can be used for the next one.
Free(s) == side[s] = "closed" /\ peer[s] \in {"none", "closed"}

Listening == foreign \/ \E a \in Agents : pc[a] \in {"bound", "serving"}

Active(s) == ~stopped /\ socket = s /\ ~handled[s]

Serving == \E a \in Agents : pc[a] = "serving"
AgentToken == tok[CHOOSE a \in Agents : pc[a] = "serving"]

\* The relay's end of s has not given up.
RelayWaits(s) == s \in Socks /\ side[s] \in {"connecting", "open"}

\* A deadline expires. It is five seconds on either side, over the loopback
\* interface: while the other end is there and would answer, that happens at
\* most MaxLate times.
Expire(otherAnswers) ==
  IF otherAnswers THEN late < MaxLate /\ late' = late + 1 ELSE UNCHANGED late

isConnected == authenticated /\ socket # None

-----------------------------------------------------------------------------
(* Relay: AgentClient. *)

\* emit('status', ...) reaches every stream that is open.
EmitStatus(connected) ==
  shown' = [t \in Streams |-> IF shown[t] = "closed" THEN "closed" ELSE connected]

\* Mutant: the credential is read only once, at the first start.
ReadTokenOnce == IF file = 0 THEN 0 ELSE 1

\* readAgentToken: the credential on disk now, 0 if there is none it can trust.
ReadToken == file

\* Mutant: no check for a pending timer.
ScheduleReconnectAgain(isStopped) ==
  IF isStopped
  THEN UNCHANGED <<reconnect, timers>>
  ELSE reconnect' = TRUE /\ timers' = timers + 1

\* scheduleReconnect(), given the value of stopped it finds.
ScheduleReconnect(isStopped) ==
  IF isStopped \/ reconnect
  THEN UNCHANGED <<reconnect, timers>>
  ELSE reconnect' = TRUE /\ timers' = timers + 1

\* socket.destroy(): no more data; the 'close' callback is still to come.
Destroy(s) ==
  /\ side' = [side EXCEPT ![s] = "gone"]
  /\ down' = [down EXCEPT ![s] = <<>>]

\* Mutant: stop() leaves authenticated set.
StopFieldsKeepAuth ==
  /\ stopped' = TRUE /\ stops' = stops + 1
  /\ reconnect' = FALSE /\ timers' = IF reconnect THEN timers - 1 ELSE timers
  /\ authTimer' = None /\ armed' = armed \ {authTimer}
  /\ socket' = None /\ UNCHANGED authenticated

\* stop() on the client's fields.
StopFields ==
  /\ stopped' = TRUE /\ stops' = stops + 1
  /\ reconnect' = FALSE /\ timers' = IF reconnect THEN timers - 1 ELSE timers
  /\ authTimer' = None /\ armed' = armed \ {authTimer}
  /\ authenticated' = FALSE /\ socket' = None

\* connect() as the reconnect timer (timers and reconnect already updated to
\* pending and isSet) or start() calls it: nothing while a socket exists, a
\* retry later if the credential cannot be read, else a new socket.
Connect(isSet, pending) ==
  \/ /\ socket # None
     /\ reconnect' = isSet /\ timers' = pending
     /\ UNCHANGED <<socket, handled, token, side, up, down, peer, shown>>
  \/ /\ socket = None /\ ReadToken = 0
     /\ EmitStatus("down")
     /\ reconnect' = TRUE /\ timers' = IF isSet THEN pending ELSE pending + 1
     /\ UNCHANGED <<socket, handled, token, side, up, down, peer>>
  \/ /\ socket = None /\ ReadToken # 0
     /\ \E s \in Socks :
          /\ Free(s)
          /\ socket' = s
          /\ handled' = [handled EXCEPT ![s] = FALSE]
          /\ token' = [token EXCEPT ![s] = ReadToken]
          /\ side' = [side EXCEPT ![s] = "connecting"]
          /\ peer' = [peer EXCEPT ![s] = "none"]
          /\ up' = [up EXCEPT ![s] = <<>>] /\ down' = [down EXCEPT ![s] = <<>>]
     /\ reconnect' = isSet /\ timers' = pending
     /\ UNCHANGED shown

ConnectFrame == UNCHANGED <<authenticated, authTimer, armed, stops, permitVars, agentVars, late>>

\* start(): getAgentClient's first call, or a later one.
Start ==
  /\ started' = TRUE /\ stopped' = FALSE
  /\ Connect(reconnect, timers)
  /\ ConnectFrame

\* The reconnect timeout fires.
OnReconnect ==
  /\ timers > 0
  /\ IF stopped
     THEN /\ reconnect' = FALSE /\ timers' = timers - 1
          /\ UNCHANGED <<socket, handled, token, side, up, down, peer, shown>>
     ELSE Connect(FALSE, timers - 1)
  /\ UNCHANGED <<started, stopped>> /\ ConnectFrame

\* stop(), called from outside any callback.
Stop ==
  /\ started /\ stops < MaxStops
  /\ StopFields
  /\ IF socket = None THEN UNCHANGED <<side, down>> ELSE Destroy(socket)
  /\ UNCHANGED <<started, handled, token, shown, up, peer, permitVars, agentVars, late>>

\* Mutant: only an established session is retried.
DisconnectFinal(s, left) ==
  /\ handled' = [handled EXCEPT ![s] = TRUE]
  /\ authenticated' = FALSE
  /\ armed' = left \ {authTimer} /\ authTimer' = None
  /\ socket' = None
  /\ Destroy(s)
  /\ EmitStatus("down")
  /\ ScheduleReconnect(~authenticated)
  /\ UNCHANGED <<started, stopped, stops, token>>

\* disconnect() of socket s when active: the socket is given up, the streams
\* are told, and a reconnect is scheduled unless a listener called stop().
\* left is the set of deadlines pending once the calling callback has begun.
Disconnect(s, left) ==
  /\ handled' = [handled EXCEPT ![s] = TRUE]
  /\ authenticated' = FALSE
  /\ armed' = left \ {authTimer} /\ authTimer' = None
  /\ socket' = None
  /\ Destroy(s)
  /\ EmitStatus("down")
  /\ \/ ScheduleReconnect(FALSE) /\ UNCHANGED <<stopped, stops>>
     \/ /\ stops < MaxStops
        /\ stopped' = TRUE /\ stops' = stops + 1
        /\ reconnect' = FALSE /\ timers' = IF reconnect THEN timers - 1 ELSE timers
  /\ UNCHANGED <<started, token>>

\* socket.once('connect'): send the credential and start the deadline.
OnConnect(s) ==
  /\ side[s] = "connecting" /\ peer[s] # "none"
  /\ side' = [side EXCEPT ![s] = "open"]
  /\ IF Active(s)
     THEN /\ up' = [up EXCEPT ![s] = Append(@, Auth(token[s]))]
          /\ token' = [token EXCEPT ![s] = 0]
          /\ authTimer' = s /\ armed' = armed \cup {s}
     ELSE UNCHANGED <<up, token, authTimer, armed>>
  /\ UNCHANGED <<started, stopped, socket, authenticated, reconnect, timers, stops, handled,
                 shown, down, peer, permitVars, agentVars, late>>

\* Mutant: the deadline is not cleared by the acknowledgement.
OnAckKeepsDeadline(s) ==
  /\ side[s] = "open" /\ Active(s) /\ ~authenticated
  /\ down[s] # <<>> /\ Head(down[s]) = "ack"
  /\ EmitStatus("up")
  /\ authenticated' = TRUE
  /\ down' = [down EXCEPT ![s] = Tail(@)]
  /\ UNCHANGED <<started, stopped, socket, reconnect, timers, authTimer, armed, stops, handled,
                 token, side, up, peer, permitVars, agentVars, late>>

\* socket.on('data') while not authenticated: the exact acknowledgement makes
\* the client connected; a status listener may call stop() at once.
OnAck(s) ==
  /\ side[s] = "open" /\ Active(s) /\ ~authenticated
  /\ down[s] # <<>> /\ Head(down[s]) = "ack"
  /\ EmitStatus("up")
  /\ \/ /\ authenticated' = TRUE
        /\ armed' = armed \ {authTimer} /\ authTimer' = None
        /\ down' = [down EXCEPT ![s] = Tail(@)]
        /\ UNCHANGED <<stopped, stops, reconnect, timers, socket, side>>
     \/ stops < MaxStops /\ StopFields /\ Destroy(s)
  /\ UNCHANGED <<started, handled, token, up, peer, permitVars, agentVars, late>>

\* Mutant: any first line is taken for the acknowledgement.
OnAnyAck(s) ==
  /\ side[s] = "open" /\ Active(s) /\ ~authenticated
  /\ down[s] # <<>> /\ Head(down[s]) # "ack"
  /\ EmitStatus("up")
  /\ authenticated' = TRUE /\ armed' = armed \ {authTimer} /\ authTimer' = None
  /\ down' = [down EXCEPT ![s] = Tail(@)]
  /\ UNCHANGED <<started, stopped, socket, reconnect, timers, stops, handled, token, side, up,
                 peer, permitVars, agentVars, late>>

\* Any other first line, or more than 256 bytes without one.
OnBadAck(s) ==
  /\ side[s] = "open" /\ Active(s) /\ ~authenticated
  /\ down[s] # <<>> /\ Head(down[s]) # "ack"
  /\ Disconnect(s, armed)
  /\ UNCHANGED <<up, peer, permitVars, agentVars, late>>

\* socket.on('data') afterwards: one event line, given to the listeners.
OnEvent(s) ==
  /\ side[s] = "open" /\ Active(s) /\ authenticated
  /\ down[s] # <<>>
  /\ down' = [down EXCEPT ![s] = Tail(@)]
  /\ UNCHANGED <<relayVars, shown, side, up, peer, permitVars, agentVars, late>>

\* The handshake deadline of s fires.
OnAuthTimeout(s) ==
  /\ s \in armed
  /\ Expire(Serving /\ peer[s] \in {"backlog", "verify", "ack", "established"})
  /\ IF Active(s)
     THEN Disconnect(s, armed \ {s})
     ELSE /\ armed' = armed \ {s}
          /\ UNCHANGED <<started, stopped, socket, authenticated, reconnect, timers, authTimer,
                         stops, handled, token, shown, side, down>>
  /\ UNCHANGED <<up, peer, permitVars, agentVars>>

\* socket.on('error'): refused, or reset by the agent's end. A 'close'
\* follows.
OnError(s) ==
  /\ \/ side[s] = "connecting" /\ peer[s] = "none" /\ ~Listening
     \/ side[s] \in {"connecting", "open"} /\ peer[s] = "closed"
  /\ IF Active(s)
     THEN Disconnect(s, armed)
     ELSE Destroy(s) /\ UNCHANGED <<relayVars, shown>>
  /\ UNCHANGED <<up, peer, permitVars, agentVars, late>>

\* socket.on('close') after the end of the stream, everything having been read.
OnEnd(s) ==
  /\ side[s] = "open" /\ peer[s] = "closed" /\ down[s] = <<>>
  /\ IF Active(s)
     THEN Disconnect(s, armed)
     ELSE Destroy(s) /\ UNCHANGED <<relayVars, shown>>
  /\ UNCHANGED <<up, peer, permitVars, agentVars, late>>

\* socket.on('close') of a destroyed socket: disconnect() finds it not active.
\* Then the socket and its closures are garbage.
OnClose(s) ==
  /\ side[s] = "gone"
  /\ IF Active(s)
     THEN Disconnect(s, armed)
     ELSE /\ side' = [side EXCEPT ![s] = "closed"]
          /\ handled' = [handled EXCEPT ![s] = FALSE] /\ token' = [token EXCEPT ![s] = 0]
          /\ UNCHANGED <<started, stopped, socket, authenticated, reconnect, timers, authTimer,
                         armed, stops, shown, down>>
  /\ UNCHANGED <<up, peer, permitVars, agentVars, late>>

\* sendControl(): dropped without a trace unless authenticated.
SendControl ==
  /\ authenticated /\ socket # None
  /\ Len(up[socket]) < MaxWire
  /\ up' = [up EXCEPT ![socket] = Append(@, Control)]
  /\ UNCHANGED <<relayVars, shown, side, down, peer, permitVars, agentVars, late>>

\* Mutant: a new stream assumes the agent is down.
StreamOpenSilent(t) ==
  /\ started /\ shown[t] = "closed"
  /\ shown' = [shown EXCEPT ![t] = "down"]
  /\ UNCHANGED <<relayVars, connVars, permitVars, agentVars, late>>

\* buildStreamResponse: a browser subscribes and is told the current state at
\* once; cancel() removes its listeners.
StreamOpen(t) ==
  /\ started /\ shown[t] = "closed"
  /\ shown' = [shown EXCEPT ![t] = IF isConnected THEN "up" ELSE "down"]
  /\ UNCHANGED <<relayVars, connVars, permitVars, agentVars, late>>

StreamCancel(t) ==
  /\ shown[t] # "closed"
  /\ shown' = [shown EXCEPT ![t] = "closed"]
  /\ UNCHANGED <<relayVars, connVars, permitVars, agentVars, late>>

-----------------------------------------------------------------------------
(* Agent. *)

\* An operator launches an agent process.
Launch(a) ==
  /\ pc[a] = "off" /\ launches < MaxLaunches
  /\ pc' = [pc EXCEPT ![a] = "starting"] /\ launches' = launches + 1
  /\ UNCHANGED <<tok, file, foreign, relayVars, shown, connVars, permitVars, late>>

\* Mutant: the credential is published before the port is bound.
BindLast(a) ==
  /\ pc[a] = "starting"
  /\ pc' = [pc EXCEPT ![a] = IF Listening THEN "off" ELSE "bound"]
  /\ file' = IF Listening THEN file + 1 ELSE file
  /\ UNCHANGED <<tok, launches, foreign, relayVars, shown, connVars, permitVars, late>>

\* TcpListener::bind: main returns the error if the port is taken.
Bind(a) ==
  /\ pc[a] = "starting"
  /\ pc' = [pc EXCEPT ![a] = IF Listening THEN "off" ELSE "bound"]
  /\ UNCHANGED <<tok, file, launches, foreign, relayVars, shown, connVars, permitVars, late>>

\* PublishedCredential::publish: a fresh token renamed over the file, then the
\* accept loop.
Publish(a) ==
  /\ pc[a] = "bound"
  /\ pc' = [pc EXCEPT ![a] = "serving"]
  /\ tok' = [tok EXCEPT ![a] = file + 1] /\ file' = file + 1
  /\ UNCHANGED <<launches, foreign, relayVars, shown, connVars, permitVars, late>>

\* Every connection to the program that held the port is reset.
ResetAll ==
  /\ peer' = [s \in Conns |-> IF peer[s] = "none" THEN "none" ELSE "closed"]
  /\ up' = [s \in Conns |-> <<>>]

\* The process ends: killed, or publish failed. The file stays; with the
\* process go its listener, its connections and its semaphores.
Exit(a) ==
  /\ pc[a] # "off"
  /\ pc' = [pc EXCEPT ![a] = "off"] /\ tok' = [tok EXCEPT ![a] = 0]
  /\ IF pc[a] = "starting"
     THEN UNCHANGED <<peer, up, permitVars>>
     ELSE ResetAll /\ pendingFree' = MaxPending /\ authFree' = MaxAuth
  /\ UNCHANGED <<file, launches, foreign, relayVars, shown, side, down, late>>

\* The kernel completes a connection while something listens.
Establish(s) ==
  /\ s \in Socks /\ side[s] = "connecting" /\ peer[s] = "none" /\ Listening
  /\ peer' = [peer EXCEPT ![s] = "backlog"]
  /\ UNCHANGED <<relayVars, shown, side, up, down, permitVars, agentVars, late>>

\* The agent drops its end; what it had not read is lost.
Hang(s) ==
  /\ peer' = [peer EXCEPT ![s] = "closed"]
  /\ up' = [up EXCEPT ![s] = <<>>]

\* A line for the relay, lost if the relay has destroyed the socket. What other
\* programs receive is not followed.
Deliver(s, line) ==
  down' = IF RelayWaits(s)
          THEN [down EXCEPT ![s] = Append(@, line)] ELSE down

ServeFrame == UNCHANGED <<relayVars, shown, side, agentVars>>

\* Mutant: no pending budget.
AcceptAll(s) ==
  /\ Serving /\ peer[s] = "backlog"
  /\ peer' = [peer EXCEPT ![s] = "verify"] /\ pendingFree' = pendingFree - 1
  /\ UNCHANGED <<authFree, up, down, late>> /\ ServeFrame

\* The accept loop: a connection takes a pending permit, or is dropped.
Accept(s) ==
  /\ Serving /\ peer[s] = "backlog" /\ pendingFree > 0
  /\ peer' = [peer EXCEPT ![s] = "verify"] /\ pendingFree' = pendingFree - 1
  /\ UNCHANGED <<authFree, up, down, late>> /\ ServeFrame

AcceptDrops(s) ==
  /\ Serving /\ peer[s] = "backlog" /\ pendingFree = 0
  /\ Hang(s)
  /\ UNCHANGED <<permitVars, down, late>> /\ ServeFrame

\* verify_peer reads the first line; a match takes an authenticated permit.
Verify(s) ==
  /\ Serving /\ peer[s] = "verify" /\ up[s] # <<>>
  /\ Head(up[s]) = Auth(AgentToken) /\ authFree > 0
  /\ up' = [up EXCEPT ![s] = Tail(@)]
  /\ peer' = [peer EXCEPT ![s] = "ack"] /\ authFree' = authFree - 1
  /\ UNCHANGED <<pendingFree, down, late>> /\ ServeFrame

\* Any other line, or no permit: the task ends and its permit returns.
VerifyRefuses(s) ==
  /\ Serving /\ peer[s] = "verify" /\ up[s] # <<>>
  /\ Head(up[s]) # Auth(AgentToken) \/ authFree = 0
  /\ Hang(s) /\ pendingFree' = pendingFree + 1
  /\ UNCHANGED <<authFree, down, late>> /\ ServeFrame

\* Its 5-second deadline, or the end of the stream before a line.
VerifyFails(s) ==
  /\ Serving /\ peer[s] = "verify"
  /\ Expire(RelayWaits(s))
  /\ Hang(s) /\ pendingFree' = pendingFree + 1
  /\ UNCHANGED <<authFree, down>> /\ ServeFrame

\* Mutant: drop(pending) is forgotten.
WriteAckKeepsPermit(s) ==
  /\ Serving /\ peer[s] = "ack"
  /\ peer' = [peer EXCEPT ![s] = "established"]
  /\ Deliver(s, "ack")
  /\ UNCHANGED <<permitVars, up, late>> /\ ServeFrame

\* write_ack, then drop(pending) and the subscription.
WriteAck(s) ==
  /\ Serving /\ peer[s] = "ack"
  /\ peer' = [peer EXCEPT ![s] = "established"] /\ pendingFree' = pendingFree + 1
  /\ Deliver(s, "ack")
  /\ UNCHANGED <<authFree, up, late>> /\ ServeFrame

\* Its deadline, or a write error.
WriteAckFails(s) ==
  /\ Serving /\ peer[s] = "ack"
  /\ Expire(RelayWaits(s))
  /\ Hang(s) /\ pendingFree' = pendingFree + 1 /\ authFree' = authFree + 1
  /\ UNCHANGED down /\ ServeFrame

\* A line on an established connection: a control is obeyed, anything that is
\* no JSON object ends the connection.
ReadControl(s) ==
  /\ Serving /\ peer[s] = "established" /\ up[s] # <<>> /\ Head(up[s]) # Junk
  /\ up' = [up EXCEPT ![s] = Tail(@)]
  /\ UNCHANGED <<peer, permitVars, down, late>> /\ ServeFrame

ReadJunk(s) ==
  /\ Serving /\ peer[s] = "established" /\ up[s] # <<>> /\ Head(up[s]) = Junk
  /\ Hang(s) /\ authFree' = authFree + 1
  /\ UNCHANGED <<pendingFree, down, late>> /\ ServeFrame

\* One broadcast event is written to the connection.
Forward(s) ==
  /\ Serving /\ peer[s] = "established" /\ side[s] = "open" /\ Len(down[s]) < MaxWire
  /\ Deliver(s, "event")
  /\ UNCHANGED <<peer, permitVars, up, late>> /\ ServeFrame

\* The client's end is gone: end of stream, or a failed write of an event.
HangUp(s) ==
  /\ Serving /\ peer[s] = "established" /\ side[s] \in {"gone", "closed"}
  /\ Hang(s) /\ authFree' = authFree + 1
  /\ UNCHANGED <<pendingFree, down, late>> /\ ServeFrame

-----------------------------------------------------------------------------
(* Environment. *)

\* Another local program connects and sends lines; the credential is readable
\* by programs of the same user. Peers read and close as they like.
PeerConnect(p) ==
  /\ Free(p) /\ Listening
  /\ side' = [side EXCEPT ![p] = "open"] /\ peer' = [peer EXCEPT ![p] = "backlog"]
  /\ \E lines \in {<<>>, <<Junk>>, <<Auth(file), Control>>, <<Auth(file), Junk>>} :
       up' = [up EXCEPT ![p] = lines]
  /\ UNCHANGED <<relayVars, shown, down, permitVars, agentVars, late>>

PeerClose(p) ==
  /\ side[p] = "open"
  /\ side' = [side EXCEPT ![p] = "closed"]
  /\ UNCHANGED <<relayVars, shown, up, down, peer, permitVars, agentVars, late>>

\* Another program takes the agent's port, answers with a line of its own, and
\* goes away again.
ForeignTakes ==
  /\ ~Listening /\ foreign' = TRUE
  /\ UNCHANGED <<pc, tok, file, launches, relayVars, shown, connVars, permitVars, late>>

ForeignReplies(s) ==
  /\ foreign /\ peer[s] = "backlog"
  /\ peer' = [peer EXCEPT ![s] = "foreign"]
  /\ Deliver(s, "other")
  /\ UNCHANGED <<relayVars, shown, side, up, permitVars, agentVars, late>>

ForeignLeaves ==
  /\ foreign /\ foreign' = FALSE
  /\ ResetAll
  /\ UNCHANGED <<pc, tok, file, launches, relayVars, shown, side, down, permitVars, late>>

-----------------------------------------------------------------------------
Init ==
  /\ started = FALSE /\ stopped = FALSE /\ socket = None /\ authenticated = FALSE
  /\ reconnect = FALSE /\ timers = 0 /\ authTimer = None /\ armed = {} /\ stops = 0
  /\ shown = [t \in Streams |-> "closed"]
  /\ side = [s \in Conns |-> "closed"] /\ peer = [s \in Conns |-> "none"]
  /\ handled = [s \in Socks |-> FALSE] /\ token = [s \in Socks |-> 0]
  /\ up = [s \in Conns |-> <<>>] /\ down = [s \in Socks |-> <<>>]
  /\ pc = [a \in Agents |-> "off"] /\ tok = [a \in Agents |-> 0]
  /\ file = 0 /\ launches = 0 /\ foreign = FALSE
  /\ pendingFree = MaxPending /\ authFree = MaxAuth /\ late = 0

Callback(s) ==
  \/ OnConnect(s) \/ OnAck(s) \/ OnBadAck(s) \/ OnEvent(s)
  \/ OnAuthTimeout(s) \/ OnError(s) \/ OnEnd(s) \/ OnClose(s)

Relay ==
  \/ Start \/ Stop \/ OnReconnect \/ SendControl
  \/ \E s \in Socks : Callback(s)
  \/ \E t \in Streams : StreamOpen(t) \/ StreamCancel(t)

Serve(s) ==
  \/ Accept(s) \/ AcceptDrops(s) \/ Verify(s) \/ VerifyRefuses(s) \/ VerifyFails(s)
  \/ WriteAck(s) \/ WriteAckFails(s) \/ ReadControl(s) \/ ReadJunk(s) \/ HangUp(s)

Agent ==
  \/ \E a \in Agents : Launch(a) \/ Bind(a) \/ Publish(a) \/ Exit(a)
  \/ \E s \in Conns : Serve(s)
  \/ \E s \in Socks : Forward(s)

Environment ==
  \/ \E s \in Socks : Establish(s)
  \/ \E p \in Peers : PeerConnect(p) \/ PeerClose(p)
  \/ ForeignTakes \/ ForeignLeaves \/ \E s \in Conns : ForeignReplies(s)

Next == Relay \/ Agent \/ Environment

Spec == Init /\ [][Next]_vars

\* Node runs every callback and timeout that is due, the kernel completes or
\* refuses a connection, and the agent's tasks run. Nothing is assumed of
\* operators, of other programs, or of how long an agent lives.
Fairness ==
  /\ WF_vars(OnReconnect)
  /\ \A s \in Socks : WF_vars(Establish(s) \/ Callback(s))
  /\ \A s \in Conns : WF_vars(Serve(s))

FairSpec == Spec /\ Fairness

-----------------------------------------------------------------------------
(* Properties. *)

Ends == {"closed", "connecting", "open", "gone"}
AgentEnds == {"none", "backlog", "verify", "ack", "established", "foreign", "closed"}

TypeOK ==
  /\ started \in BOOLEAN /\ stopped \in BOOLEAN /\ authenticated \in BOOLEAN
  /\ socket \in Socks \cup {None} /\ authTimer \in Socks \cup {None}
  /\ reconnect \in BOOLEAN /\ timers \in Nat /\ armed \subseteq Socks
  /\ stops \in 0..MaxStops /\ late \in 0..MaxLate
  /\ shown \in [Streams -> {"closed", "up", "down"}]
  /\ side \in [Conns -> Ends] /\ peer \in [Conns -> AgentEnds]
  /\ handled \in [Socks -> BOOLEAN] /\ token \in [Socks -> Nat]
  /\ up \in [Conns -> Seq(Line)] /\ down \in [Socks -> Seq({"ack", "event", "other"})]
  /\ pc \in [Agents -> {"off", "starting", "bound", "serving"}]
  /\ tok \in [Agents -> Nat] /\ file \in Nat /\ launches \in 0..MaxLaunches
  /\ foreign \in BOOLEAN
  /\ pendingFree \in 0..MaxPending /\ authFree \in 0..MaxAuth

\* architecture.md: a guard against error and close both firing, doubling the
\* reconnect attempts. Whatever callbacks of old sockets still arrive, and
\* however start() and stop() interleave with them, the client has at most one
\* socket that is not destroyed, the current one, and at most one reconnect
\* timeout pending, the one stop() can clear.
OneAttempt ==
  /\ \A s \in Socks : side[s] \in {"connecting", "open"} <=> s = socket
  /\ timers = IF reconnect THEN 1 ELSE 0

\* A client that was started and not stopped always has a socket to hear from
\* or a reconnect timeout to wait for: no callback leaves it with neither.
NeverStranded == started /\ ~stopped => socket # None \/ timers > 0

\* The handshake has a deadline exactly as long as it is under way: the
\* current socket is connected and not yet acknowledged. An old socket's
\* deadline never fires, and no handshake waits without one.
DeadlineWhileHandshaking ==
  armed = {s \in Socks : s = socket /\ side[s] = "open" /\ ~authenticated}

\* wire-protocol.md: the relay reports connected only after the exact
\* acknowledgement, so the agent has admitted this very connection (and may
\* have closed it since, which the relay has yet to notice).
ConnectedMeansAdmitted ==
  authenticated => socket # None /\ peer[socket] \in {"established", "closed"}

\* Every browser stream shows whether the relay is connected, from the moment
\* it subscribes, as long as nobody calls stop(), which tells no one.
StatusIsCurrent ==
  stops = 0 => \A t \in Streams :
                 shown[t] # "closed" => (shown[t] = "up" <=> isConnected)

\* Permits are neither lost nor invented: while an agent serves, the free ones
\* and the connections that hold one make up the budget, so connections that
\* have not authenticated never occupy an authenticated slot.
PermitsConserved ==
  Serving =>
    /\ pendingFree + Cardinality({s \in Conns : peer[s] \in {"verify", "ack"}}) = MaxPending
    /\ authFree + Cardinality({s \in Conns : peer[s] \in {"ack", "established"}}) = MaxAuth

\* The credential on disk is the serving agent's, even when further agents are
\* launched while it runs: one that cannot bind never publishes.
CredentialIsServers == \A a \in Agents : pc[a] = "serving" => file = tok[a]

\* What the rest of the relay may rely on: the client is a reconnecting link,
\* never stuck and never up but through an attempt of its own.
Phase ==
  CASE ~started -> "idle"
    [] started /\ stopped -> "stopped"
    [] started /\ ~stopped /\ authenticated -> "up"
    [] started /\ ~stopped /\ ~authenticated /\ socket # None -> "trying"
    [] started /\ ~stopped /\ ~authenticated /\ socket = None /\ timers > 0 -> "waiting"
    [] OTHER -> "stuck"

Link == INSTANCE ReconnectingLink WITH phase <- Phase
LinkSpec == Link!Spec

\* wire-protocol.md: normal reconnect loads the replacement credential. If in
\* the end some agent keeps serving and the client is not stopped, the client
\* is connected again and again, whatever old credentials, failed handshakes,
\* foreign programs and peers came before.
Reconnects ==
  <>[](started /\ ~stopped /\ Serving) => []<>isConnected
=============================================================================
