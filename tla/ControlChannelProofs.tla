------------------------ MODULE ControlChannelProofs ------------------------
(***************************************************************************)
(* Proofs about ControlChannel for any number of sockets, peers, agent     *)
(* launches and streams, and any budgets.                                  *)
(***************************************************************************)
EXTENDS ControlChannel, FiniteSetTheorems, TLAPS

(***************************************************************************)
(* Types, but for the upper bounds of the permits and the lower bound of   *)
(* the timers, which need the invariants below.                            *)
(***************************************************************************)
RelayTyped ==
  /\ started \in BOOLEAN /\ stopped \in BOOLEAN /\ authenticated \in BOOLEAN
  /\ socket \in Socks \cup {None} /\ authTimer \in Socks \cup {None}
  /\ reconnect \in BOOLEAN /\ timers \in Int /\ armed \subseteq Socks
  /\ stops \in 0..MaxStops
  /\ handled \in [Socks -> BOOLEAN] /\ token \in [Socks -> Nat]

ConnTyped ==
  /\ side \in [Conns -> Ends] /\ peer \in [Conns -> AgentEnds]
  /\ up \in [Conns -> Seq(Line)] /\ down \in [Socks -> Seq({"ack", "event", "other"})]

AgentTyped ==
  /\ pc \in [Agents -> {"off", "starting", "bound", "serving"}]
  /\ tok \in [Agents -> Nat] /\ file \in Nat /\ launches \in 0..MaxLaunches
  /\ foreign \in BOOLEAN
  /\ pendingFree \in Nat /\ authFree \in Nat
  /\ late \in 0..MaxLate
  /\ shown \in [Streams -> {"closed", "up", "down"}]

Typed == RelayTyped /\ ConnTyped /\ AgentTyped

LEMMA LineTypes ==
  /\ \A t \in Nat : Auth(t) \in Line
  /\ Control \in Line /\ Junk \in Line
  BY DEF Auth, Control, Junk, Line

LEMMA ShortSeqs ==
  ASSUME NEW S, NEW x \in S, NEW y \in S
  PROVE  <<>> \in Seq(S) /\ <<x>> \in Seq(S) /\ <<x, y>> \in Seq(S)
  OBVIOUS

LEMMA InitTyped == Init => Typed
  <1>. SUFFICES ASSUME Init PROVE Typed
    OBVIOUS
  <1>1. RelayTyped
    <2>1. /\ stops \in 0..MaxStops /\ timers \in Int
          /\ handled \in [Socks -> BOOLEAN] /\ token \in [Socks -> Nat]
      BY AdmissionAssumption DEF Init
    <2>. QED BY <2>1 DEF Init, RelayTyped
  <1>2. side \in [Conns -> Ends] /\ peer \in [Conns -> AgentEnds]
    BY DEF Init, Ends, AgentEnds
  <1>3. up \in [Conns -> Seq(Line)] /\ down \in [Socks -> Seq({"ack", "event", "other"})]
    BY DEF Init
  <1>4. AgentTyped
    <2>1. /\ launches \in 0..MaxLaunches /\ late \in 0..MaxLate /\ file \in Nat
          /\ pendingFree \in Nat /\ authFree \in Nat /\ tok \in [Agents -> Nat]
      BY AdmissionAssumption DEF Init
    <2>2. /\ pc \in [Agents -> {"off", "starting", "bound", "serving"}]
          /\ shown \in [Streams -> {"closed", "up", "down"}]
      BY DEF Init
    <2>. QED BY <2>1, <2>2 DEF Init, AgentTyped
  <1>. QED BY <1>1, <1>2, <1>3, <1>4 DEF Typed, ConnTyped

LEMMA ShownType ==
  ASSUME shown \in [Streams -> {"closed", "up", "down"}], NEW c \in {"up", "down"},
         EmitStatus(c)
  PROVE  shown' \in [Streams -> {"closed", "up", "down"}]
  BY DEF EmitStatus

LEMMA DestroyType ==
  ASSUME ConnTyped, NEW s \in Socks, Destroy(s)
  PROVE  side' \in [Conns -> Ends] /\ down' \in [Socks -> Seq({"ack", "event", "other"})]
  BY DEF ConnTyped, Destroy, Conns, Ends

LEMMA DisconnectType ==
  ASSUME Typed, NEW s \in Socks, NEW left, left \subseteq Socks, Disconnect(s, left)
  PROVE  /\ RelayTyped'
         /\ shown' \in [Streams -> {"closed", "up", "down"}]
         /\ side' \in [Conns -> Ends] /\ down' \in [Socks -> Seq({"ack", "event", "other"})]
  <1>1. shown' \in [Streams -> {"closed", "up", "down"}]
    BY ShownType DEF Disconnect, Typed, AgentTyped
  <1>2. side' \in [Conns -> Ends] /\ down' \in [Socks -> Seq({"ack", "event", "other"})]
    BY DestroyType DEF Disconnect, Typed
  <1>3. /\ socket' = None /\ authTimer' = None /\ authenticated' = FALSE
        /\ started' = started /\ token' = token
    BY DEF Disconnect
  <1>4. armed' \subseteq Socks
    BY DEF Disconnect
  <1>5. handled' \in [Socks -> BOOLEAN]
    BY DEF Disconnect, Typed, RelayTyped
  <1>6. stops' \in 0..MaxStops /\ timers' \in Int
    BY AdmissionAssumption DEF Disconnect, ScheduleReconnect, Typed, RelayTyped
  <1>7. stopped' \in BOOLEAN /\ reconnect' \in BOOLEAN
    BY DEF Disconnect, ScheduleReconnect, Typed, RelayTyped
  <1>8. RelayTyped'
    BY <1>3, <1>4, <1>5, <1>6, <1>7 DEF Typed, RelayTyped
  <1>. QED BY <1>1, <1>2, <1>8

LEMMA StopFieldsType ==
  ASSUME RelayTyped, StopFields, stops < MaxStops, UNCHANGED <<started, handled, token>>
  PROVE  RelayTyped'
  <1>1. /\ socket' = None /\ authTimer' = None /\ authenticated' = FALSE
        /\ stopped' = TRUE /\ reconnect' = FALSE
        /\ started' = started /\ token' = token /\ handled' = handled
    BY DEF StopFields
  <1>2. armed' \subseteq Socks
    BY DEF StopFields, RelayTyped
  <1>3. stops' \in 0..MaxStops /\ timers' \in Int
    BY AdmissionAssumption DEF StopFields, RelayTyped
  <1>. QED BY <1>1, <1>2, <1>3 DEF RelayTyped

LEMMA ConnectType ==
  ASSUME Typed, NEW isSet \in BOOLEAN, NEW pending \in Int, Connect(isSet, pending)
  PROVE  /\ socket' \in Socks \cup {None} /\ reconnect' \in BOOLEAN /\ timers' \in Int
         /\ handled' \in [Socks -> BOOLEAN] /\ token' \in [Socks -> Nat]
         /\ ConnTyped' /\ shown' \in [Streams -> {"closed", "up", "down"}]
  <1>1. CASE socket # None
    BY <1>1 DEF Connect, Typed, RelayTyped, ConnTyped, AgentTyped
  <1>2. CASE socket = None /\ ReadToken = 0
    <2>1. shown' \in [Streams -> {"closed", "up", "down"}]
      BY <1>2, ShownType DEF Connect, Typed, AgentTyped
    <2>. QED BY <1>2, <2>1 DEF Connect, Typed, RelayTyped, ConnTyped
  <1>3. CASE socket = None /\ ReadToken # 0
    <2>1. PICK s \in Socks :
            /\ socket' = s
            /\ handled' = [handled EXCEPT ![s] = FALSE]
            /\ token' = [token EXCEPT ![s] = ReadToken]
            /\ side' = [side EXCEPT ![s] = "connecting"]
            /\ peer' = [peer EXCEPT ![s] = "none"]
            /\ up' = [up EXCEPT ![s] = <<>>] /\ down' = [down EXCEPT ![s] = <<>>]
      BY <1>3 DEF Connect
    <2>2. reconnect' = isSet /\ timers' = pending /\ shown' = shown
      BY <1>3 DEF Connect
    <2>. QED BY <2>1, <2>2 DEF Typed, RelayTyped, ConnTyped, AgentTyped, ReadToken, Conns, Ends,
                                AgentEnds
  <1>. QED BY <1>1, <1>2, <1>3

USE DEF relayVars, connVars, permitVars, agentVars

LEMMA RelayStepTyped ==
  ASSUME Typed, Relay
  PROVE  Typed'
  <1>1. CASE Start
    BY <1>1, ConnectType DEF Start, ConnectFrame, Typed, RelayTyped, AgentTyped
  <1>2. CASE Stop
    <2>1. socket # None => side' \in [Conns -> Ends] /\ down' \in [Socks -> Seq({"ack", "event", "other"})]
      BY <1>2, DestroyType DEF Stop, Typed, RelayTyped
    <2>2. socket = None => side' = side /\ down' = down
      BY <1>2 DEF Stop
    <2>3. ConnTyped' /\ AgentTyped'
      BY <1>2, <2>1, <2>2 DEF Stop, Typed, ConnTyped, AgentTyped
    <2>4. RelayTyped'
      BY <1>2, StopFieldsType DEF Stop, Typed
    <2>. QED BY <2>3, <2>4 DEF Typed
  <1>3. CASE OnReconnect
    <2>1. CASE stopped
      <3>1. reconnect' = FALSE /\ timers' = timers - 1
        BY <1>3, <2>1 DEF OnReconnect
      <3>2. UNCHANGED <<started, stopped, socket, authenticated, authTimer, armed, stops, handled,
                        token, shown, connVars, permitVars, agentVars, late>>
        BY <1>3, <2>1 DEF OnReconnect, ConnectFrame
      <3>3. timers' \in Int
        BY <3>1 DEF Typed, RelayTyped
      <3>4. ConnTyped' /\ AgentTyped'
        BY <3>2 DEF Typed, ConnTyped, AgentTyped
      <3>. QED BY <3>1, <3>2, <3>3, <3>4 DEF Typed, RelayTyped
    <2>2. CASE ~stopped
      <3>0. timers - 1 \in Int
        BY DEF Typed, RelayTyped
      <3>1. Connect(FALSE, timers - 1)
        BY <1>3, <2>2 DEF OnReconnect
      <3>2. UNCHANGED <<started, stopped, authenticated, authTimer, armed, stops, permitVars,
                        agentVars, late>>
        BY <1>3 DEF OnReconnect, ConnectFrame
      <3>3. /\ socket' \in Socks \cup {None} /\ reconnect' \in BOOLEAN /\ timers' \in Int
            /\ handled' \in [Socks -> BOOLEAN] /\ token' \in [Socks -> Nat]
            /\ ConnTyped' /\ shown' \in [Streams -> {"closed", "up", "down"}]
        BY <3>0, <3>1, ConnectType
      <3>. QED BY <3>2, <3>3 DEF Typed, RelayTyped, AgentTyped
    <2>. QED BY <2>1, <2>2
  <1>4. CASE SendControl
    BY <1>4, LineTypes DEF SendControl, Typed, RelayTyped, ConnTyped, AgentTyped, Conns
  <1>5. ASSUME NEW s \in Socks, Callback(s)
        PROVE  Typed'
    <2>1. CASE OnConnect(s)
      <3>1. AgentTyped' /\ peer' = peer /\ down' = down
        BY <2>1 DEF OnConnect, Typed, AgentTyped
      <3>2. side' \in [Conns -> Ends]
        BY <2>1 DEF OnConnect, Typed, ConnTyped, Conns, Ends
      <3>3. up' \in [Conns -> Seq(Line)]
        <4>1. token[s] \in Nat /\ s \in Conns
          BY DEF Typed, RelayTyped, Conns
        <4>2. Append(up[s], Auth(token[s])) \in Seq(Line)
          BY <4>1, LineTypes DEF Typed, ConnTyped
        <4>. QED BY <2>1, <4>1, <4>2 DEF OnConnect, Typed, ConnTyped
      <3>4. token' \in [Socks -> Nat]
        BY <2>1 DEF OnConnect, Typed, RelayTyped
      <3>5. authTimer' \in Socks \cup {None} /\ armed' \subseteq Socks
        BY <2>1 DEF OnConnect, Typed, RelayTyped
      <3>6. UNCHANGED <<started, stopped, socket, authenticated, reconnect, timers, stops, handled>>
        BY <2>1 DEF OnConnect
      <3>. QED BY <3>1, <3>2, <3>3, <3>4, <3>5, <3>6 DEF Typed, RelayTyped, ConnTyped
    <2>2. CASE OnAck(s)
      <3>1. shown' \in [Streams -> {"closed", "up", "down"}]
        BY <2>2, ShownType DEF OnAck, Typed, AgentTyped
      <3>2. AgentTyped'
        BY <2>2, <3>1 DEF OnAck, Typed, AgentTyped
      <3>3. CASE /\ authenticated' = TRUE
                 /\ armed' = armed \ {authTimer} /\ authTimer' = None
                 /\ down' = [down EXCEPT ![s] = Tail(@)]
                 /\ UNCHANGED <<stopped, stops, reconnect, timers, socket, side>>
        <4>1. down' \in [Socks -> Seq({"ack", "event", "other"})]
          <5>1. Tail(down[s]) \in Seq({"ack", "event", "other"})
            BY <2>2 DEF OnAck, Typed, ConnTyped
          <5>. QED BY <3>3, <5>1 DEF Typed, ConnTyped
        <4>2. UNCHANGED <<started, handled, token, up, peer>>
          BY <2>2 DEF OnAck
        <4>. QED BY <3>2, <3>3, <4>1, <4>2 DEF Typed, RelayTyped, ConnTyped
      <3>4. CASE stops < MaxStops /\ StopFields /\ Destroy(s)
        <4>1. side' \in [Conns -> Ends] /\ down' \in [Socks -> Seq({"ack", "event", "other"})]
          BY <3>4, DestroyType DEF Typed
        <4>2. RelayTyped'
          BY <2>2, <3>4, StopFieldsType DEF OnAck, Typed
        <4>. QED BY <2>2, <3>2, <4>1, <4>2 DEF OnAck, Typed, ConnTyped
      <3>. QED BY <2>2, <3>3, <3>4 DEF OnAck
    <2>3. CASE OnBadAck(s)
      BY <2>3, DisconnectType DEF OnBadAck, Typed, RelayTyped, ConnTyped, AgentTyped
    <2>4. CASE OnEvent(s)
      BY <2>4 DEF OnEvent, Typed, RelayTyped, ConnTyped, AgentTyped
    <2>5. CASE OnAuthTimeout(s)
      <3>1. late' \in 0..MaxLate
        BY <2>5, AdmissionAssumption DEF OnAuthTimeout, Expire, Typed, AgentTyped
      <3>2. CASE Active(s)
        BY <2>5, <3>1, <3>2, DisconnectType
           DEF OnAuthTimeout, Typed, RelayTyped, ConnTyped, AgentTyped
      <3>3. CASE ~Active(s)
        BY <2>5, <3>1, <3>3 DEF OnAuthTimeout, Typed, RelayTyped, ConnTyped, AgentTyped
      <3>. QED BY <3>2, <3>3
    <2>6. CASE OnError(s) \/ OnEnd(s)
      <3>1. CASE Active(s)
        BY <2>6, <3>1, DisconnectType
           DEF OnError, OnEnd, Typed, RelayTyped, ConnTyped, AgentTyped
      <3>2. CASE ~Active(s)
        BY <2>6, <3>2, DestroyType
           DEF OnError, OnEnd, Typed, RelayTyped, ConnTyped, AgentTyped
      <3>. QED BY <3>1, <3>2
    <2>7. CASE OnClose(s)
      <3>1. CASE Active(s)
        BY <2>7, <3>1, DisconnectType DEF OnClose, Typed, RelayTyped, ConnTyped, AgentTyped
      <3>2. CASE ~Active(s)
        <4>1. side' \in [Conns -> Ends]
          BY <2>7, <3>2 DEF OnClose, Typed, ConnTyped, Conns, Ends
        <4>4. /\ handled' = [handled EXCEPT ![s] = FALSE]
               /\ token' = [token EXCEPT ![s] = 0]
          BY <2>7, <3>2 DEF OnClose
        <4>2. handled' \in [Socks -> BOOLEAN] /\ token' \in [Socks -> Nat]
          BY <4>4 DEF Typed, RelayTyped
        <4>3. UNCHANGED <<started, stopped, socket, authenticated, reconnect, timers, authTimer,
                          armed, stops, shown, down, up, peer, permitVars, agentVars, late>>
          BY <2>7, <3>2 DEF OnClose
        <4>. QED BY <4>1, <4>2, <4>3 DEF Typed, RelayTyped, ConnTyped, AgentTyped
      <3>. QED BY <3>1, <3>2
    <2>. QED BY <1>5, <2>1, <2>2, <2>3, <2>4, <2>5, <2>6, <2>7 DEF Callback
  <1>6. ASSUME NEW t \in Streams, StreamOpen(t) \/ StreamCancel(t)
        PROVE  Typed'
    BY <1>6 DEF StreamOpen, StreamCancel, Typed, RelayTyped, ConnTyped, AgentTyped
  <1>. QED BY <1>1, <1>2, <1>3, <1>4, <1>5, <1>6 DEF Relay

LEMMA HangType ==
  ASSUME ConnTyped, NEW s \in Conns, Hang(s)
  PROVE  peer' \in [Conns -> AgentEnds] /\ up' \in [Conns -> Seq(Line)]
  BY DEF ConnTyped, Hang, AgentEnds

LEMMA ResetAllType ==
  ASSUME ConnTyped, ResetAll
  PROVE  peer' \in [Conns -> AgentEnds] /\ up' \in [Conns -> Seq(Line)]
  <1>1. \A s \in Conns : (IF peer[s] = "none" THEN "none" ELSE "closed") \in AgentEnds
    BY DEF AgentEnds
  <1>. QED BY <1>1 DEF ResetAll

LEMMA DeliverType ==
  ASSUME ConnTyped, NEW s, NEW l \in {"ack", "event", "other"}, Deliver(s, l)
  PROVE  down' \in [Socks -> Seq({"ack", "event", "other"})]
  <1>1. CASE RelayWaits(s)
    <2>1. s \in Socks
      BY <1>1 DEF RelayWaits
    <2>2. Append(down[s], l) \in Seq({"ack", "event", "other"})
      BY <2>1 DEF ConnTyped
    <2>. QED BY <1>1, <2>1, <2>2 DEF ConnTyped, Deliver
  <1>2. CASE ~RelayWaits(s)
    BY <1>2 DEF ConnTyped, Deliver
  <1>. QED BY <1>1, <1>2

LEMMA PopUpType ==
  ASSUME ConnTyped, NEW s \in Conns, up[s] # <<>>, up' = [up EXCEPT ![s] = Tail(@)]
  PROVE  up' \in [Conns -> Seq(Line)]
  <1>1. Tail(up[s]) \in Seq(Line)
    BY DEF ConnTyped
  <1>. QED BY <1>1 DEF ConnTyped

LEMMA PeerType ==
  ASSUME ConnTyped, NEW s \in Conns, NEW e \in AgentEnds, peer' = [peer EXCEPT ![s] = e]
  PROVE  peer' \in [Conns -> AgentEnds]
  BY DEF ConnTyped

LEMMA ExpireType ==
  ASSUME late \in 0..MaxLate, NEW b, Expire(b)
  PROVE  late' \in 0..MaxLate
  BY AdmissionAssumption DEF Expire

\* A step of a connection's task: what its frame leaves alone.
LEMMA ServeFrameTyped ==
  ASSUME Typed, ServeFrame,
         peer' \in [Conns -> AgentEnds], up' \in [Conns -> Seq(Line)],
         down' \in [Socks -> Seq({"ack", "event", "other"})],
         pendingFree' \in Nat, authFree' \in Nat, late' \in 0..MaxLate
  PROVE  Typed'
  <1>1. RelayTyped'
    BY DEF ServeFrame, Typed, RelayTyped
  <1>2. side' = side /\ shown' = shown /\ UNCHANGED <<pc, tok, file, launches, foreign>>
    BY DEF ServeFrame
  <1>. QED BY <1>1, <1>2 DEF Typed, ConnTyped, AgentTyped

LEMMA ServeTyped ==
  ASSUME Typed, NEW s \in Conns, Serve(s) \/ (s \in Socks /\ Forward(s))
  PROVE  Typed'
  <1>. USE DEF Typed
  <1>0. {"verify", "ack", "established"} \subseteq AgentEnds
    BY DEF AgentEnds
  <1>1. CASE Accept(s)
    <2>1. pendingFree' \in Nat /\ authFree' \in Nat /\ late' \in 0..MaxLate
      BY <1>1 DEF Accept, AgentTyped
    <2>2. peer' \in [Conns -> AgentEnds]
      BY <1>0, <1>1, PeerType DEF Accept
    <2>3. up' = up /\ down' = down /\ ServeFrame
      BY <1>1 DEF Accept
    <2>. QED BY <2>1, <2>2, <2>3, ServeFrameTyped DEF ConnTyped
  <1>2. CASE AcceptDrops(s)
    <2>1. peer' \in [Conns -> AgentEnds] /\ up' \in [Conns -> Seq(Line)]
      BY <1>2, HangType DEF AcceptDrops
    <2>2. UNCHANGED <<pendingFree, authFree, down, late>> /\ ServeFrame
      BY <1>2 DEF AcceptDrops
    <2>. QED BY <2>1, <2>2, ServeFrameTyped DEF ConnTyped, AgentTyped
  <1>3. CASE Verify(s)
    <2>1. pendingFree' \in Nat /\ authFree' \in Nat /\ late' \in 0..MaxLate
      BY <1>3 DEF Verify, AgentTyped
    <2>2. peer' \in [Conns -> AgentEnds]
      BY <1>0, <1>3, PeerType DEF Verify
    <2>3. up' \in [Conns -> Seq(Line)]
      BY <1>3, PopUpType DEF Verify
    <2>4. down' = down /\ ServeFrame
      BY <1>3 DEF Verify
    <2>. QED BY <2>1, <2>2, <2>3, <2>4, ServeFrameTyped DEF ConnTyped
  <1>4. CASE VerifyRefuses(s)
    <2>1. pendingFree' \in Nat /\ authFree' \in Nat /\ late' \in 0..MaxLate
      BY <1>4 DEF VerifyRefuses, AgentTyped
    <2>2. peer' \in [Conns -> AgentEnds] /\ up' \in [Conns -> Seq(Line)]
      BY <1>4, HangType DEF VerifyRefuses
    <2>3. down' = down /\ ServeFrame
      BY <1>4 DEF VerifyRefuses
    <2>. QED BY <2>1, <2>2, <2>3, ServeFrameTyped DEF ConnTyped
  <1>5. CASE VerifyFails(s)
    <2>1. pendingFree' \in Nat /\ authFree' \in Nat
      BY <1>5 DEF VerifyFails, AgentTyped
    <2>2. peer' \in [Conns -> AgentEnds] /\ up' \in [Conns -> Seq(Line)]
      BY <1>5, HangType DEF VerifyFails
    <2>3. late' \in 0..MaxLate
      BY <1>5, ExpireType DEF VerifyFails, AgentTyped
    <2>4. down' = down /\ ServeFrame
      BY <1>5 DEF VerifyFails
    <2>. QED BY <2>1, <2>2, <2>3, <2>4, ServeFrameTyped DEF ConnTyped
  <1>6. CASE WriteAck(s)
    <2>1. pendingFree' \in Nat /\ authFree' \in Nat /\ late' \in 0..MaxLate
      BY <1>6 DEF WriteAck, AgentTyped
    <2>2. peer' \in [Conns -> AgentEnds]
      BY <1>0, <1>6, PeerType DEF WriteAck
    <2>3. down' \in [Socks -> Seq({"ack", "event", "other"})]
      BY <1>6, DeliverType DEF WriteAck
    <2>4. up' = up /\ ServeFrame
      BY <1>6 DEF WriteAck
    <2>. QED BY <2>1, <2>2, <2>3, <2>4, ServeFrameTyped DEF ConnTyped
  <1>7. CASE WriteAckFails(s)
    <2>1. pendingFree' \in Nat /\ authFree' \in Nat
      BY <1>7 DEF WriteAckFails, AgentTyped
    <2>2. peer' \in [Conns -> AgentEnds] /\ up' \in [Conns -> Seq(Line)]
      BY <1>7, HangType DEF WriteAckFails
    <2>3. late' \in 0..MaxLate
      BY <1>7, ExpireType DEF WriteAckFails, AgentTyped
    <2>4. down' = down /\ ServeFrame
      BY <1>7 DEF WriteAckFails
    <2>. QED BY <2>1, <2>2, <2>3, <2>4, ServeFrameTyped DEF ConnTyped
  <1>8. CASE ReadControl(s)
    <2>1. up' \in [Conns -> Seq(Line)]
      BY <1>8, PopUpType DEF ReadControl
    <2>2. UNCHANGED <<peer, pendingFree, authFree, down, late>> /\ ServeFrame
      BY <1>8 DEF ReadControl
    <2>. QED BY <2>1, <2>2, ServeFrameTyped DEF ConnTyped, AgentTyped
  <1>9. CASE ReadJunk(s) \/ HangUp(s)
    <2>1. pendingFree' \in Nat /\ authFree' \in Nat /\ late' \in 0..MaxLate
      BY <1>9 DEF ReadJunk, HangUp, AgentTyped
    <2>2. peer' \in [Conns -> AgentEnds] /\ up' \in [Conns -> Seq(Line)]
      BY <1>9, HangType DEF ReadJunk, HangUp
    <2>3. down' = down /\ ServeFrame
      BY <1>9 DEF ReadJunk, HangUp
    <2>. QED BY <2>1, <2>2, <2>3, ServeFrameTyped DEF ConnTyped
  <1>10. CASE s \in Socks /\ Forward(s)
    <2>1. down' \in [Socks -> Seq({"ack", "event", "other"})]
      BY <1>10, DeliverType DEF Forward
    <2>2. UNCHANGED <<peer, pendingFree, authFree, up, late>> /\ ServeFrame
      BY <1>10 DEF Forward
    <2>. QED BY <2>1, <2>2, ServeFrameTyped DEF ConnTyped, AgentTyped
  <1>. QED BY <1>1, <1>2, <1>3, <1>4, <1>5, <1>6, <1>7, <1>8, <1>9, <1>10 DEF Serve

LEMMA LifeTyped ==
  ASSUME Typed, NEW a \in Agents, Launch(a) \/ Bind(a) \/ Publish(a) \/ Exit(a)
  PROVE  Typed'
  <1>. DEFINE PCs == {"off", "starting", "bound", "serving"}
  <1>1. RelayTyped' /\ UNCHANGED <<shown, side, down, late, foreign>>
    BY DEF Launch, Bind, Publish, Exit, Typed, RelayTyped
  <1>2. launches' \in 0..MaxLaunches /\ file' \in Nat
    BY AdmissionAssumption DEF Launch, Bind, Publish, Exit, Typed, AgentTyped
  <1>3. pc' \in [Agents -> PCs]
    BY DEF Launch, Bind, Publish, Exit, Typed, AgentTyped
  <1>4. tok' \in [Agents -> Nat]
    BY DEF Launch, Bind, Publish, Exit, Typed, AgentTyped
  <1>5. pendingFree' \in Nat /\ authFree' \in Nat
    BY AdmissionAssumption DEF Launch, Bind, Publish, Exit, Typed, AgentTyped
  <1>6. peer' \in [Conns -> AgentEnds] /\ up' \in [Conns -> Seq(Line)]
    <2>1. CASE peer' = peer /\ up' = up
      BY <2>1 DEF Typed, ConnTyped
    <2>2. CASE ResetAll
      BY <2>2, ResetAllType DEF Typed
    <2>. QED BY <2>1, <2>2 DEF Launch, Bind, Publish, Exit
  <1>. QED BY <1>1, <1>2, <1>3, <1>4, <1>5, <1>6 DEF Typed, ConnTyped, AgentTyped

LEMMA EnvironmentTyped ==
  ASSUME Typed, Environment
  PROVE  Typed'
  <1>. USE DEF Typed
  <1>1. ASSUME NEW s \in Socks, Establish(s)
        PROVE  Typed'
    <2>1. s \in Conns /\ "backlog" \in AgentEnds
      BY DEF Conns, AgentEnds
    <2>2. peer' \in [Conns -> AgentEnds]
      BY <1>1, <2>1, PeerType DEF Establish
    <2>3. UNCHANGED <<relayVars, shown, side, up, down, permitVars, agentVars, late>>
      BY <1>1 DEF Establish
    <2>. QED BY <2>2, <2>3 DEF RelayTyped, ConnTyped, AgentTyped
  <1>2. ASSUME NEW p \in Peers, PeerConnect(p)
        PROVE  Typed'
    <2>1. p \in Conns /\ "backlog" \in AgentEnds /\ "open" \in Ends
      BY DEF Conns, AgentEnds, Ends
    <2>2. peer' \in [Conns -> AgentEnds]
      BY <1>2, <2>1, PeerType DEF PeerConnect
    <2>3. side' \in [Conns -> Ends]
      BY <1>2, <2>1 DEF PeerConnect, ConnTyped
    <2>4. PICK lines \in {<<>>, <<Junk>>, <<Auth(file), Control>>, <<Auth(file), Junk>>} :
            up' = [up EXCEPT ![p] = lines]
      BY <1>2 DEF PeerConnect
    <2>5. Auth(file) \in Line /\ Control \in Line /\ Junk \in Line
      BY LineTypes DEF AgentTyped
    <2>6. lines \in Seq(Line)
      <3>1. <<>> \in Seq(Line) /\ <<Junk>> \in Seq(Line)
        BY <2>5, ShortSeqs
      <3>2. <<Auth(file), Control>> \in Seq(Line) /\ <<Auth(file), Junk>> \in Seq(Line)
        BY <2>5, ShortSeqs
      <3>. QED BY <2>4, <3>1, <3>2
    <2>7. up' \in [Conns -> Seq(Line)]
      BY <2>1, <2>4, <2>6 DEF ConnTyped
    <2>8. UNCHANGED <<relayVars, shown, down, permitVars, agentVars, late>>
      BY <1>2 DEF PeerConnect
    <2>. QED BY <2>2, <2>3, <2>7, <2>8 DEF RelayTyped, ConnTyped, AgentTyped
  <1>3. ASSUME NEW p \in Peers, PeerClose(p)
        PROVE  Typed'
    <2>1. side' \in [Conns -> Ends]
      BY <1>3 DEF PeerClose, ConnTyped, Conns, Ends
    <2>2. UNCHANGED <<relayVars, shown, up, down, peer, permitVars, agentVars, late>>
      BY <1>3 DEF PeerClose
    <2>. QED BY <2>1, <2>2 DEF RelayTyped, ConnTyped, AgentTyped
  <1>4. CASE ForeignTakes
    BY <1>4 DEF ForeignTakes, RelayTyped, ConnTyped, AgentTyped
  <1>5. CASE ForeignLeaves
    <2>1. peer' \in [Conns -> AgentEnds] /\ up' \in [Conns -> Seq(Line)]
      BY <1>5, ResetAllType DEF ForeignLeaves
    <2>2. foreign' = FALSE /\ UNCHANGED <<pc, tok, file, launches, relayVars, shown, side, down,
                                          permitVars, late>>
      BY <1>5 DEF ForeignLeaves
    <2>. QED BY <2>1, <2>2 DEF RelayTyped, ConnTyped, AgentTyped
  <1>6. ASSUME NEW s \in Conns, ForeignReplies(s)
        PROVE  Typed'
    <2>1. peer' \in [Conns -> AgentEnds]
      BY <1>6, PeerType DEF ForeignReplies, AgentEnds
    <2>2. down' \in [Socks -> Seq({"ack", "event", "other"})]
      BY <1>6, DeliverType DEF ForeignReplies
    <2>3. UNCHANGED <<relayVars, shown, side, up, permitVars, agentVars, late>>
      BY <1>6 DEF ForeignReplies
    <2>. QED BY <2>1, <2>2, <2>3 DEF RelayTyped, ConnTyped, AgentTyped
  <1>. QED BY <1>1, <1>2, <1>3, <1>4, <1>5, <1>6 DEF Environment

LEMMA StepTyped ==
  ASSUME Typed, [Next]_vars
  PROVE  Typed'
  <1>1. CASE UNCHANGED vars
    BY <1>1 DEF vars, Typed, RelayTyped, ConnTyped, AgentTyped
  <1>2. CASE Agent
    BY <1>2, ServeTyped, LifeTyped DEF Agent, Conns
  <1>. QED BY <1>1, <1>2, RelayStepTyped, EnvironmentTyped DEF Next

(***************************************************************************)
(* The client's bookkeeping. OneAttempt, NeverStranded and                 *)
(* DeadlineWhileHandshaking are inductive together once it is also said    *)
(* who may own a socket, a timer and a deadline.                           *)
(***************************************************************************)
SocketOwned == \A s \in Socks : side[s] \in {"connecting", "open"} <=> s = socket
SocketActive == socket # None => started /\ ~stopped /\ ~handled[socket]
TimerOwned ==
  /\ timers = IF reconnect THEN 1 ELSE 0
  /\ reconnect => started
DeadlineOwned == armed = IF authTimer = None THEN {} ELSE {authTimer}
UpIsOpen == authenticated => socket # None /\ side[socket] = "open"

ClientInv ==
  /\ SocketOwned /\ SocketActive /\ TimerOwned /\ DeadlineOwned /\ UpIsOpen
  /\ NeverStranded /\ DeadlineWhileHandshaking

LEMMA InitClient == Init => ClientInv
  <1>. SUFFICES ASSUME Init PROVE ClientInv
    OBVIOUS
  <1>1. \A s \in Socks : side[s] = "closed" /\ s # None
    BY AdmissionAssumption DEF Init, Conns
  <1>2. SocketOwned /\ SocketActive /\ UpIsOpen /\ NeverStranded
    BY <1>1 DEF Init, SocketOwned, SocketActive, UpIsOpen, NeverStranded
  <1>3. TimerOwned
    BY DEF Init, TimerOwned
  <1>4. DeadlineOwned /\ DeadlineWhileHandshaking
    BY <1>1 DEF Init, DeadlineOwned, DeadlineWhileHandshaking
  <1>. QED BY <1>2, <1>3, <1>4 DEF ClientInv

\* Without a socket and without authentication no deadline can be owed.
LEMMA NoSocketClient ==
  ASSUME Typed', socket' = None, authTimer' = None, armed' = {}, authenticated' = FALSE,
         \A s \in Socks : side'[s] \notin {"connecting", "open"},
         TimerOwned', NeverStranded'
  PROVE  ClientInv'
  <1>1. SocketOwned'
    BY AdmissionAssumption DEF SocketOwned
  <1>2. SocketActive' /\ UpIsOpen'
    BY DEF SocketActive, UpIsOpen
  <1>3. DeadlineOwned'
    BY DEF DeadlineOwned
  <1>4. DeadlineWhileHandshaking'
    BY DEF DeadlineWhileHandshaking
  <1>. QED BY <1>1, <1>2, <1>3, <1>4 DEF ClientInv

\* A step that leaves the client's fields and its ends of the sockets alone.
LEMMA ClientFrame ==
  ASSUME ClientInv, UNCHANGED relayVars, \A s \in Socks : side'[s] = side[s], Typed
  PROVE  ClientInv'
  <1>0. UNCHANGED <<started, stopped, socket, authenticated, reconnect, timers, authTimer, armed,
                    handled>>
    OBVIOUS
  <1>1. SocketOwned'
    BY <1>0 DEF ClientInv, SocketOwned
  <1>2. SocketActive' /\ TimerOwned' /\ DeadlineOwned' /\ NeverStranded'
    BY <1>0 DEF ClientInv, SocketActive, TimerOwned, DeadlineOwned, NeverStranded
  <1>3. UpIsOpen'
    BY <1>0 DEF ClientInv, UpIsOpen, Typed, RelayTyped
  <1>4. DeadlineWhileHandshaking'
    BY <1>0 DEF ClientInv, DeadlineWhileHandshaking
  <1>. QED BY <1>1, <1>2, <1>3, <1>4 DEF ClientInv

LEMMA DestroyEnds ==
  ASSUME Typed, SocketOwned, NEW s \in Socks, s = socket, Destroy(s)
  PROVE  \A t \in Socks : side'[t] \notin {"connecting", "open"}
  BY DEF Destroy, SocketOwned, Typed, ConnTyped, Conns

LEMMA ClientDisconnect ==
  ASSUME Typed, Typed', ClientInv, NEW s \in Socks, s = socket, NEW left, left \subseteq armed,
         Disconnect(s, left)
  PROVE  ClientInv'
  <1>0. started /\ ~stopped /\ s # None
    BY AdmissionAssumption DEF ClientInv, SocketActive
  <1>1. \A t \in Socks : side'[t] \notin {"connecting", "open"}
    BY DestroyEnds DEF Disconnect, ClientInv
  <1>2. armed' = {} /\ socket' = None /\ authTimer' = None /\ authenticated' = FALSE
    BY DEF Disconnect, ClientInv, DeadlineOwned
  <1>3. TimerOwned' /\ NeverStranded'
    <2>1. started'
      BY <1>0 DEF Disconnect
    <2>2. CASE ScheduleReconnect(FALSE)
      <3>1. reconnect' = TRUE /\ timers' = 1
        BY <2>2 DEF ScheduleReconnect, ClientInv, TimerOwned, Typed, RelayTyped
      <3>. QED BY <2>1, <3>1 DEF TimerOwned, NeverStranded
    <2>3. CASE /\ stopped' = TRUE /\ reconnect' = FALSE
               /\ timers' = IF reconnect THEN timers - 1 ELSE timers
      BY <2>3 DEF ClientInv, TimerOwned, NeverStranded, Typed, RelayTyped
    <2>. QED BY <2>2, <2>3 DEF Disconnect
  <1>. QED BY <1>1, <1>2, <1>3, NoSocketClient

LEMMA ClientStopFields ==
  ASSUME Typed, Typed', ClientInv, StopFields,
         \A t \in Socks : side'[t] \notin {"connecting", "open"}
  PROVE  ClientInv'
  <1>1. armed' = {} /\ socket' = None /\ authTimer' = None /\ authenticated' = FALSE
    BY DEF StopFields, ClientInv, DeadlineOwned
  <1>2. reconnect' = FALSE /\ timers' = 0 /\ stopped' = TRUE
    BY DEF StopFields, ClientInv, TimerOwned, Typed, RelayTyped
  <1>3. TimerOwned' /\ NeverStranded'
    BY <1>2 DEF TimerOwned, NeverStranded
  <1>. QED BY <1>1, <1>3, NoSocketClient

LEMMA ClientConnect ==
  ASSUME Typed, Typed', ClientInv, NEW isSet \in BOOLEAN, NEW pending \in Int,
         pending = IF isSet THEN 1 ELSE 0,
         Connect(isSet, pending), started', ~stopped',
         UNCHANGED <<authenticated, authTimer, armed>>
  PROVE  ClientInv'
  <1>1. CASE socket # None
    <2>1. reconnect' = isSet /\ timers' = pending /\ UNCHANGED <<socket, handled, side>>
      BY <1>1 DEF Connect
    <2>2. SocketOwned' /\ SocketActive'
      BY <2>1 DEF ClientInv, SocketOwned, SocketActive
    <2>3. TimerOwned'
      BY <2>1 DEF TimerOwned
    <2>4. NeverStranded'
      BY <1>1, <2>1 DEF NeverStranded
    <2>5. DeadlineOwned' /\ DeadlineWhileHandshaking' /\ UpIsOpen'
      BY <2>1 DEF ClientInv, DeadlineOwned, DeadlineWhileHandshaking, UpIsOpen
    <2>. QED BY <2>2, <2>3, <2>4, <2>5 DEF ClientInv
  <1>2. CASE socket = None
    <2>1. ~authenticated /\ \A s \in Socks : side[s] \notin {"connecting", "open"}
      BY <1>2, AdmissionAssumption DEF ClientInv, UpIsOpen, SocketOwned
    <2>2. armed = {} /\ authTimer = None
      BY <1>2, <2>1, AdmissionAssumption DEF ClientInv, DeadlineOwned, DeadlineWhileHandshaking
    <2>3. CASE ReadToken = 0
      <3>1. socket' = None /\ side' = side /\ reconnect' = TRUE
        BY <1>2, <2>3 DEF Connect
      <3>2. timers' = 1
        BY <1>2, <2>3 DEF Connect
      <3>3. TimerOwned' /\ NeverStranded'
        BY <3>1, <3>2 DEF TimerOwned, NeverStranded
      <3>4. authenticated' = FALSE
        BY <2>1 DEF Typed, RelayTyped
      <3>. QED BY <2>1, <2>2, <3>1, <3>3, <3>4, NoSocketClient
    <2>4. CASE ReadToken # 0
      <3>1. PICK s \in Socks :
              /\ socket' = s
              /\ handled' = [handled EXCEPT ![s] = FALSE]
              /\ side' = [side EXCEPT ![s] = "connecting"]
        BY <1>2, <2>4 DEF Connect
      <3>2. reconnect' = isSet /\ timers' = pending
        BY <1>2, <2>4 DEF Connect
      <3>3. /\ side'[s] = "connecting" /\ ~handled'[s] /\ s # None
            /\ \A t \in Socks : t # s => side'[t] = side[t]
        BY <3>1, AdmissionAssumption DEF Typed, RelayTyped, ConnTyped, Conns
      <3>4. SocketOwned'
        BY <2>1, <3>1, <3>3 DEF SocketOwned
      <3>5. SocketActive' /\ UpIsOpen'
        BY <2>1, <3>1, <3>3 DEF SocketActive, UpIsOpen
      <3>6. TimerOwned'
        BY <3>2 DEF TimerOwned
      <3>7. NeverStranded'
        BY <3>1, <3>3 DEF NeverStranded
      <3>8. DeadlineOwned'
        BY <2>2 DEF DeadlineOwned
      <3>9. DeadlineWhileHandshaking'
        BY <2>2, <3>1, <3>3 DEF DeadlineWhileHandshaking
      <3>. QED BY <3>4, <3>5, <3>6, <3>7, <3>8, <3>9 DEF ClientInv
    <2>. QED BY <2>3, <2>4
  <1>. QED BY <1>1, <1>2

LEMMA ClientCallback ==
  ASSUME Typed, Typed', ClientInv, NEW s \in Socks, Callback(s)
  PROVE  ClientInv'
  <1>0. s # None /\ s \in Conns
    BY AdmissionAssumption DEF Conns
  <1>a. side[s] \in {"connecting", "open"} <=> Active(s)
    BY <1>0 DEF ClientInv, SocketOwned, SocketActive, Active
  <1>b. s \in armed => Active(s)
    BY <1>a DEF ClientInv, DeadlineWhileHandshaking
  <1>1. CASE OnConnect(s)
    <2>1. Active(s) /\ socket = s /\ ~authenticated /\ armed = {}
      BY <1>1, <1>a DEF OnConnect, Active, ClientInv, UpIsOpen, DeadlineWhileHandshaking
    <2>2. /\ authTimer' = s /\ armed' = {s}
          /\ UNCHANGED <<started, stopped, socket, authenticated, reconnect, timers, handled>>
      BY <1>1, <2>1 DEF OnConnect
    <2>3. side'[s] = "open" /\ \A t \in Socks : t # s => side'[t] = side[t]
      BY <1>0, <1>1 DEF OnConnect, Typed, ConnTyped, Conns
    <2>4. SocketOwned'
      BY <2>1, <2>2, <2>3 DEF ClientInv, SocketOwned
    <2>5. SocketActive' /\ TimerOwned' /\ NeverStranded'
      BY <2>2 DEF ClientInv, SocketActive, TimerOwned, NeverStranded
    <2>6. DeadlineOwned' /\ UpIsOpen'
      BY <1>0, <2>1, <2>2, <2>3 DEF DeadlineOwned, UpIsOpen
    <2>7. DeadlineWhileHandshaking'
      BY <2>1, <2>2, <2>3 DEF DeadlineWhileHandshaking
    <2>. QED BY <2>4, <2>5, <2>6, <2>7 DEF ClientInv
  <1>2. CASE OnAck(s)
    <2>1. socket = s /\ side[s] = "open"
      BY <1>2 DEF OnAck, Active
    <2>2. CASE /\ authenticated' = TRUE
               /\ armed' = armed \ {authTimer} /\ authTimer' = None
               /\ UNCHANGED <<stopped, reconnect, timers, socket, side>>
      <3>1. armed' = {} /\ started' = started /\ handled' = handled
        BY <1>2, <2>2 DEF OnAck, ClientInv, DeadlineOwned
      <3>2. SocketOwned' /\ SocketActive' /\ TimerOwned' /\ NeverStranded'
        BY <2>2, <3>1 DEF ClientInv, SocketOwned, SocketActive, TimerOwned, NeverStranded
      <3>3. DeadlineOwned' /\ DeadlineWhileHandshaking'
        BY <2>2, <3>1 DEF DeadlineOwned, DeadlineWhileHandshaking
      <3>4. UpIsOpen'
        BY <1>0, <2>1, <2>2 DEF UpIsOpen
      <3>. QED BY <3>2, <3>3, <3>4 DEF ClientInv
    <2>3. CASE StopFields /\ Destroy(s)
      BY <2>1, <2>3, DestroyEnds, ClientStopFields DEF ClientInv
    <2>. QED BY <1>2, <2>2, <2>3 DEF OnAck
  <1>3. CASE OnBadAck(s)
    BY <1>3, ClientDisconnect DEF OnBadAck, Active
  <1>4. CASE OnEvent(s)
    BY <1>4, ClientFrame DEF OnEvent
  <1>5. CASE OnAuthTimeout(s)
    <2>1. Active(s) /\ Disconnect(s, armed \ {s})
      BY <1>5, <1>b DEF OnAuthTimeout
    <2>. QED BY <2>1, ClientDisconnect DEF Active
  <1>6. CASE OnError(s) \/ OnEnd(s)
    <2>1. Active(s) /\ Disconnect(s, armed)
      BY <1>6, <1>a DEF OnError, OnEnd
    <2>. QED BY <2>1, ClientDisconnect DEF Active
  <1>7. CASE OnClose(s)
    <2>1. side[s] = "gone" /\ ~Active(s) /\ socket # s
      BY <1>7, <1>a DEF OnClose, ClientInv, SocketOwned
    <2>2. /\ side' = [side EXCEPT ![s] = "closed"] /\ handled' = [handled EXCEPT ![s] = FALSE]
          /\ UNCHANGED <<started, stopped, socket, authenticated, reconnect, timers, authTimer,
                         armed>>
      BY <1>7, <2>1 DEF OnClose
    <2>3. side'[s] = "closed" /\ \A t \in Socks : t # s => side'[t] = side[t]
      BY <1>0, <2>2 DEF Typed, ConnTyped, Conns
    <2>4. SocketOwned'
      BY <2>1, <2>2, <2>3 DEF ClientInv, SocketOwned
    <2>5. TimerOwned' /\ NeverStranded' /\ DeadlineOwned'
      BY <2>2 DEF ClientInv, TimerOwned, NeverStranded, DeadlineOwned
    <2>6. socket # None => handled'[socket] = handled[socket]
      BY <2>1, <2>2 DEF Typed, RelayTyped
    <2>7. SocketActive'
      BY <2>2, <2>6 DEF ClientInv, SocketActive
    <2>8. UpIsOpen' /\ DeadlineWhileHandshaking'
      BY <2>1, <2>2, <2>3 DEF ClientInv, UpIsOpen, DeadlineWhileHandshaking, Typed, RelayTyped
    <2>. QED BY <2>4, <2>5, <2>7, <2>8 DEF ClientInv
  <1>. QED BY <1>1, <1>2, <1>3, <1>4, <1>5, <1>6, <1>7 DEF Callback

LEMMA StepClient ==
  ASSUME Typed, Typed', ClientInv, [Next]_vars
  PROVE  ClientInv'
  <1>1. CASE Relay
    <2>1. CASE Start
      <3>1. timers = IF reconnect THEN 1 ELSE 0
        BY DEF ClientInv, TimerOwned
      <3>2. started' /\ ~stopped' /\ UNCHANGED <<authenticated, authTimer, armed>>
        BY <2>1 DEF Start, ConnectFrame
      <3>3. Connect(reconnect, timers)
        BY <2>1 DEF Start
      <3>4. reconnect \in BOOLEAN /\ timers \in Int
        BY DEF Typed, RelayTyped
      <3>. QED BY <3>1, <3>2, <3>3, <3>4, ClientConnect
    <2>2. CASE Stop
      <3>1. StopFields
        BY <2>2 DEF Stop
      <3>2. \A t \in Socks : side'[t] \notin {"connecting", "open"}
        <4>1. CASE socket = None
          BY <2>2, <4>1, AdmissionAssumption DEF Stop, ClientInv, SocketOwned
        <4>2. CASE socket # None
          BY <2>2, <4>2, DestroyEnds DEF Stop, ClientInv, Typed, RelayTyped
        <4>. QED BY <4>1, <4>2
      <3>. QED BY <3>1, <3>2, ClientStopFields
    <2>3. CASE OnReconnect
      <3>1. reconnect /\ timers = 1 /\ started
        BY <2>3 DEF OnReconnect, ClientInv, TimerOwned, Typed, RelayTyped
      <3>2. CASE stopped
        <4>1. timers' = 0
          BY <2>3, <3>1, <3>2 DEF OnReconnect
        <4>2. /\ reconnect' = FALSE
              /\ UNCHANGED <<started, stopped, socket, authenticated, authTimer, armed, handled,
                             side>>
          BY <2>3, <3>2 DEF OnReconnect, ConnectFrame
        <4>3. SocketOwned' /\ SocketActive' /\ DeadlineOwned'
          BY <4>2 DEF ClientInv, SocketOwned, SocketActive, DeadlineOwned
        <4>4. UpIsOpen' /\ DeadlineWhileHandshaking'
          BY <4>2 DEF ClientInv, UpIsOpen, DeadlineWhileHandshaking
        <4>5. TimerOwned' /\ NeverStranded'
          BY <3>2, <4>1, <4>2 DEF TimerOwned, NeverStranded
        <4>. QED BY <4>3, <4>4, <4>5 DEF ClientInv
      <3>3. CASE ~stopped
        <4>1. Connect(FALSE, timers - 1)
          BY <2>3, <3>3 DEF OnReconnect
        <4>2. started' /\ ~stopped' /\ UNCHANGED <<authenticated, authTimer, armed>>
          BY <2>3, <3>1, <3>3 DEF OnReconnect, ConnectFrame
        <4>3. timers - 1 \in Int /\ timers - 1 = IF FALSE THEN 1 ELSE 0
          BY <3>1
        <4>. QED BY <4>1, <4>2, <4>3, ClientConnect
      <3>. QED BY <3>2, <3>3
    <2>4. CASE SendControl
      BY <2>4, ClientFrame DEF SendControl
    <2>5. ASSUME NEW t \in Streams, StreamOpen(t) \/ StreamCancel(t)
          PROVE  ClientInv'
      BY <2>5, ClientFrame DEF StreamOpen, StreamCancel
    <2>. QED BY <1>1, <2>1, <2>2, <2>3, <2>4, <2>5, ClientCallback DEF Relay
  <1>2. CASE Agent
    <2>1. UNCHANGED <<relayVars, side>>
      BY <1>2 DEF Agent, Launch, Bind, Publish, Exit, Serve, Accept, AcceptDrops, Verify,
        VerifyRefuses, VerifyFails, WriteAck, WriteAckFails, ReadControl, ReadJunk, Forward,
        HangUp, ServeFrame
    <2>. QED BY <2>1, ClientFrame
  <1>3. CASE Environment
    <2>1. UNCHANGED relayVars
      BY <1>3 DEF Environment, Establish, PeerConnect, PeerClose, ForeignTakes, ForeignLeaves,
        ForeignReplies
    <2>2. CASE side' = side
      BY <2>1, <2>2, ClientFrame
    <2>3. CASE \E p \in Peers, e \in Ends : side' = [side EXCEPT ![p] = e]
      <3>1. PICK p \in Peers, e \in Ends : side' = [side EXCEPT ![p] = e]
        BY <2>3
      <3>2. \A s \in Socks : side'[s] = side[s]
        BY <3>1, AdmissionAssumption DEF Typed, ConnTyped, Conns
      <3>. QED BY <2>1, <3>2, ClientFrame
    <2>4. "open" \in Ends /\ "closed" \in Ends
      BY DEF Ends
    <2>. QED BY <1>3, <2>2, <2>3, <2>4 DEF Environment, Establish, PeerConnect, PeerClose,
               ForeignTakes, ForeignLeaves, ForeignReplies
  <1>4. CASE UNCHANGED vars
    BY <1>4, ClientFrame DEF vars
  <1>. QED BY <1>1, <1>2, <1>3, <1>4 DEF Next

(***************************************************************************)
(* Only one agent process has the port, and only it publishes.             *)
(***************************************************************************)
OneListener ==
  /\ \A a, b \in Agents :
       pc[a] \in {"bound", "serving"} /\ pc[b] \in {"bound", "serving"} => a = b
  /\ foreign => \A a \in Agents : pc[a] \notin {"bound", "serving"}

CredInv == OneListener /\ CredentialIsServers

LEMMA InitCred == Init => CredInv
  BY DEF Init, CredInv, OneListener, CredentialIsServers

LEMMA StepCred ==
  ASSUME Typed, CredInv, [Next]_vars
  PROVE  CredInv'
  <1>. USE DEF CredInv
  <1>1. CASE UNCHANGED <<pc, tok, file, foreign>>
    BY <1>1 DEF OneListener, CredentialIsServers
  <1>2. ASSUME NEW a \in Agents, Launch(a)
        PROVE  CredInv'
    <2>1. pc' = [pc EXCEPT ![a] = "starting"] /\ UNCHANGED <<tok, file, foreign>>
      BY <1>2 DEF Launch
    <2>2. \A b \in Agents : pc'[b] = IF b = a THEN "starting" ELSE pc[b]
      BY <2>1 DEF Typed, AgentTyped
    <2>. QED BY <2>1, <2>2 DEF OneListener, CredentialIsServers
  <1>3. ASSUME NEW a \in Agents, Bind(a)
        PROVE  CredInv'
    <2>1. pc' = [pc EXCEPT ![a] = IF Listening THEN "off" ELSE "bound"]
          /\ UNCHANGED <<tok, file, foreign>>
      BY <1>3 DEF Bind
    <2>2. CASE Listening
      <3>1. \A b \in Agents : pc'[b] = IF b = a THEN "off" ELSE pc[b]
        BY <2>1, <2>2 DEF Typed, AgentTyped
      <3>. QED BY <2>1, <3>1 DEF OneListener, CredentialIsServers
    <2>3. CASE ~Listening
      <3>1. \A b \in Agents : pc'[b] = IF b = a THEN "bound" ELSE pc[b]
        BY <2>1, <2>3 DEF Typed, AgentTyped
      <3>2. ~foreign /\ \A b \in Agents : pc[b] \notin {"bound", "serving"}
        BY <2>3 DEF Listening
      <3>. QED BY <2>1, <3>1, <3>2 DEF OneListener, CredentialIsServers
    <2>. QED BY <2>2, <2>3
  <1>4. ASSUME NEW a \in Agents, Publish(a)
        PROVE  CredInv'
    <2>1. /\ pc[a] = "bound" /\ foreign' = foreign
          /\ \A b \in Agents : pc'[b] = IF b = a THEN "serving" ELSE pc[b]
          /\ tok'[a] = file'
      BY <1>4 DEF Publish, Typed, AgentTyped
    <2>. QED BY <2>1 DEF OneListener, CredentialIsServers
  <1>5. ASSUME NEW a \in Agents, Exit(a)
        PROVE  CredInv'
    <2>1. /\ pc' = [pc EXCEPT ![a] = "off"] /\ tok' = [tok EXCEPT ![a] = 0]
          /\ file' = file /\ foreign' = foreign
      BY <1>5 DEF Exit
    <2>2. \A b \in Agents : /\ pc'[b] = IF b = a THEN "off" ELSE pc[b]
                            /\ b # a => tok'[b] = tok[b]
      BY <2>1 DEF Typed, AgentTyped
    <2>. QED BY <2>1, <2>2 DEF OneListener, CredentialIsServers
  <1>6. CASE ForeignTakes
    BY <1>6 DEF ForeignTakes, Listening, OneListener, CredentialIsServers
  <1>7. CASE ForeignLeaves
    BY <1>7 DEF ForeignLeaves, OneListener, CredentialIsServers
  <1>8. CASE Relay
    <2>1. UNCHANGED <<pc, tok, file, foreign>>
      BY <1>8 DEF Relay, Start, Stop, OnReconnect, ConnectFrame, SendControl, Callback, OnConnect,
        OnAck, OnBadAck, OnEvent, OnAuthTimeout, OnError, OnEnd, OnClose, StreamOpen, StreamCancel
    <2>. QED BY <2>1, <1>1
  <1>9. CASE \/ \E s \in Conns : Serve(s) \/ ForeignReplies(s)
             \/ \E s \in Socks : Forward(s) \/ Establish(s)
             \/ \E p \in Peers : PeerConnect(p) \/ PeerClose(p)
    <2>1. UNCHANGED <<pc, tok, file, foreign>>
      BY <1>9 DEF Serve, Accept, AcceptDrops, Verify, VerifyRefuses, VerifyFails, WriteAck,
        WriteAckFails, ReadControl, ReadJunk, HangUp, Forward, ServeFrame, Establish, PeerConnect,
        PeerClose, ForeignReplies
    <2>. QED BY <2>1, <1>1
  <1>10. CASE UNCHANGED vars
    BY <1>10, <1>1 DEF vars
  <1>. QED BY <1>2, <1>3, <1>4, <1>5, <1>6, <1>7, <1>8, <1>9, <1>10 DEF Next, Agent, Environment

(***************************************************************************)
(* An acknowledgement is on its way only on a connection that was admitted,*)
(* and stays admitted until the agent's end closes.                        *)
(***************************************************************************)
NoAck(q) == \A i \in 1..Len(q) : q[i] # "ack"
Admitted == {"established", "closed"}

AckInv ==
  /\ \A s \in Socks : peer[s] \in Admitted \/ NoAck(down[s])
  /\ ConnectedMeansAdmitted

LEMMA NoAckFacts ==
  ASSUME NEW S, NEW q \in Seq(S), NoAck(q)
  PROVE  /\ NoAck(<<>>)
         /\ q # <<>> => NoAck(Tail(q)) /\ Head(q) # "ack"
         /\ \A l \in S : l # "ack" => NoAck(Append(q, l))
  <1>1. NoAck(<<>>)
    BY DEF NoAck
  <1>2. ASSUME q # <<>>
        PROVE  NoAck(Tail(q)) /\ Head(q) # "ack"
    <2>1. Len(q) \in Nat /\ Len(q) > 0 /\ Head(q) = q[1]
      BY <1>2
    <2>2. /\ Len(Tail(q)) = Len(q) - 1
          /\ \A i \in 1..Len(Tail(q)) : Tail(q)[i] = q[i + 1]
      BY <1>2, <2>1
    <2>. QED BY <2>1, <2>2 DEF NoAck
  <1>3. ASSUME NEW l \in S, l # "ack"
        PROVE  NoAck(Append(q, l))
    <2>1. Len(q) \in Nat /\ Len(Append(q, l)) = Len(q) + 1
      OBVIOUS
    <2>2. \A i \in 1..Len(Append(q, l)) :
            Append(q, l)[i] = IF i = Len(q) + 1 THEN l ELSE q[i]
      BY <2>1
    <2>. QED BY <1>3, <2>1, <2>2 DEF NoAck
  <1>. QED BY <1>1, <1>2, <1>3

\* The agent's ends and the lines to the relay evolve so that AckInv's first
\* part is kept.
LEMMA AckStep ==
  ASSUME AckInv,
         \A s \in Socks : NoAck(down[s]) => NoAck(down'[s]) \/ peer'[s] \in Admitted,
         \A s \in Socks : peer[s] \in Admitted => peer'[s] \in Admitted,
         authenticated' => authenticated /\ socket' = socket,
         socket \in Socks \cup {None}
  PROVE  AckInv'
  <1>1. \A s \in Socks : peer'[s] \in Admitted \/ NoAck(down'[s])
    BY DEF AckInv
  <1>2. ConnectedMeansAdmitted'
    BY DEF AckInv, ConnectedMeansAdmitted, Admitted
  <1>. QED BY <1>1, <1>2 DEF AckInv

LEMMA InitAck == Init => AckInv
  BY DEF Init, AckInv, NoAck, ConnectedMeansAdmitted

\* socket.destroy() and the loss of the other end only remove lines.
LEMMA DownFewer ==
  ASSUME Typed, NEW s \in Socks,
         \/ down' = down
         \/ down' = [down EXCEPT ![s] = <<>>]
         \/ down[s] # <<>> /\ down' = [down EXCEPT ![s] = Tail(@)]
  PROVE  \A t \in Socks : NoAck(down[t]) => NoAck(down'[t])
  <1>. SUFFICES ASSUME NEW t \in Socks, NoAck(down[t]) PROVE NoAck(down'[t])
    OBVIOUS
  <1>1. down[t] \in Seq({"ack", "event", "other"})
    BY DEF Typed, ConnTyped
  <1>2. NoAck(<<>>) /\ (down[t] # <<>> => NoAck(Tail(down[t])))
    BY <1>1, NoAckFacts
  <1>3. down'[t] = down[t] \/ down'[t] = <<>> \/ (down[t] # <<>> /\ down'[t] = Tail(down[t]))
    BY DEF Typed, ConnTyped
  <1>. QED BY <1>2, <1>3

LEMMA RelayAck ==
  ASSUME Typed, ClientInv, AckInv, Relay
  PROVE  AckInv'
  <1>0. socket \in Socks \cup {None} /\ authenticated \in BOOLEAN
    BY DEF Typed, RelayTyped
  <1>1. ASSUME NEW b, NEW n, Connect(b, n), authenticated' = authenticated
        PROVE  AckInv'
    <2>1. CASE /\ UNCHANGED <<socket, down, peer>>
      BY <1>0, <1>1, <2>1, AckStep
    <2>2. CASE /\ socket = None
               /\ \E s \in Socks : /\ peer' = [peer EXCEPT ![s] = "none"]
                                   /\ down' = [down EXCEPT ![s] = <<>>]
      <3>1. PICK s \in Socks : /\ peer' = [peer EXCEPT ![s] = "none"]
                               /\ down' = [down EXCEPT ![s] = <<>>]
        BY <2>2
      <3>2. ~authenticated'
        BY <1>1, <2>2 DEF ClientInv, UpIsOpen
      <3>3. /\ down'[s] = <<>>
            /\ \A t \in Socks : t # s => peer'[t] = peer[t] /\ down'[t] = down[t]
        BY <3>1 DEF Typed, ConnTyped, Conns
      <3>4. NoAck(<<>>)
        BY DEF NoAck
      <3>. QED BY <3>2, <3>3, <3>4 DEF AckInv, ConnectedMeansAdmitted
    <2>. QED BY <1>1, <2>1, <2>2 DEF Connect
  <1>2. ASSUME NEW s \in Socks, UNCHANGED peer,
               authenticated' => authenticated /\ socket' = socket,
               \/ down' = down
               \/ down' = [down EXCEPT ![s] = <<>>]
               \/ down[s] # <<>> /\ down' = [down EXCEPT ![s] = Tail(@)]
        PROVE  AckInv'
    BY <1>0, <1>2, DownFewer, AckStep
  <1>3. CASE Start \/ OnReconnect
    <2>1. CASE \E b, n : Connect(b, n)
      BY <1>1, <1>3, <2>1 DEF Start, OnReconnect, ConnectFrame
    <2>2. CASE UNCHANGED <<socket, down, peer>>
      <3>1. authenticated' = authenticated
        BY <1>3 DEF Start, OnReconnect, ConnectFrame
      <3>. QED BY <1>0, <2>2, <3>1, AckStep
    <2>. QED BY <1>3, <2>1, <2>2 DEF Start, OnReconnect
  <1>4. CASE Stop
    <2>1. CASE socket = None
      BY <1>0, <1>4, <2>1, AckStep DEF Stop, StopFields
    <2>2. CASE socket # None
      BY <1>0, <1>2, <1>4, <2>2 DEF Stop, StopFields, Destroy
    <2>. QED BY <2>1, <2>2
  <1>5. CASE SendControl
    BY <1>0, <1>5, AckStep DEF SendControl
  <1>6. ASSUME NEW t \in Streams, StreamOpen(t) \/ StreamCancel(t)
        PROVE  AckInv'
    BY <1>0, <1>6, AckStep DEF StreamOpen, StreamCancel
  <1>7. ASSUME NEW s \in Socks, Callback(s)
        PROVE  AckInv'
    <2>1. CASE OnConnect(s)
      BY <1>0, <2>1, AckStep DEF OnConnect
    <2>2. CASE OnAck(s)
      <3>1. peer[s] \in Admitted
        <4>1. down[s] \in Seq({"ack", "event", "other"}) /\ down[s] # <<>> /\ Head(down[s]) = "ack"
          BY <2>2 DEF OnAck, Typed, ConnTyped
        <4>2. ~NoAck(down[s])
          BY <4>1, NoAckFacts
        <4>. QED BY <4>2 DEF AckInv
      <3>2. peer' = peer /\ socket = s /\ s # None
        BY <2>2, AdmissionAssumption DEF OnAck, Active
      <3>3. \A t \in Socks : NoAck(down[t]) => NoAck(down'[t])
        BY <2>2, DownFewer DEF OnAck, Destroy
      <3>4. authenticated' => socket' = s
        BY <2>2, <3>2 DEF OnAck, StopFields
      <3>. QED BY <3>1, <3>2, <3>3, <3>4 DEF AckInv, ConnectedMeansAdmitted, Admitted
    <2>3. CASE OnBadAck(s) \/ OnAuthTimeout(s) \/ OnError(s) \/ OnEnd(s) \/ OnClose(s)
      <3>1. peer' = peer /\ (down' = down \/ down' = [down EXCEPT ![s] = <<>>])
        BY <2>3 DEF OnBadAck, OnAuthTimeout, OnError, OnEnd, OnClose, Disconnect, Destroy
      <3>2. authenticated' => authenticated /\ socket' = socket
        BY <2>3 DEF OnBadAck, OnAuthTimeout, OnError, OnEnd, OnClose, Disconnect
      <3>. QED BY <1>2, <3>1, <3>2
    <2>4. CASE OnEvent(s)
      BY <1>2, <2>4 DEF OnEvent
    <2>. QED BY <1>7, <2>1, <2>2, <2>3, <2>4 DEF Callback
  <1>. QED BY <1>3, <1>4, <1>5, <1>6, <1>7 DEF Relay

\* A line that is no acknowledgement, or one to a connection now admitted.
LEMMA DeliverAck ==
  ASSUME Typed, NEW s, NEW l \in {"ack", "event", "other"}, Deliver(s, l),
         s \in Socks => l # "ack" \/ peer'[s] \in Admitted
  PROVE  \A t \in Socks : NoAck(down[t]) => NoAck(down'[t]) \/ peer'[t] \in Admitted
  <1>. SUFFICES ASSUME NEW t \in Socks, NoAck(down[t]), peer'[t] \notin Admitted
                PROVE  NoAck(down'[t])
    OBVIOUS
  <1>1. down[t] \in Seq({"ack", "event", "other"})
    BY DEF Typed, ConnTyped
  <1>2. l # "ack" => NoAck(Append(down[t], l))
    BY <1>1, NoAckFacts
  <1>3. down'[t] = down[t] \/ (t = s /\ down'[t] = Append(down[t], l))
    BY DEF Deliver, Typed, ConnTyped
  <1>. QED BY <1>2, <1>3

LEMMA ResetAdmits ==
  ASSUME ResetAll, NEW s \in Socks, peer[s] \in Admitted
  PROVE  peer'[s] \in Admitted
  BY DEF ResetAll, Admitted, Conns

LEMMA PeerAdmits ==
  ASSUME Typed, NEW s \in Conns, NEW e, peer' = [peer EXCEPT ![s] = e],
         peer[s] \notin Admitted \/ e \in Admitted \/ s \notin Socks
  PROVE  \A t \in Socks : peer[t] \in Admitted => peer'[t] \in Admitted
  BY DEF Typed, ConnTyped, Conns

LEMMA StepAck ==
  ASSUME Typed, ClientInv, AckInv, [Next]_vars
  PROVE  AckInv'
  <1>0. socket \in Socks \cup {None}
    BY DEF Typed, RelayTyped
  <1>1. ASSUME NEW s \in Conns, Serve(s) \/ (s \in Socks /\ Forward(s))
        PROVE  AckInv'
    <2>1. authenticated' = authenticated /\ socket' = socket
      BY <1>1 DEF Serve, Accept, AcceptDrops, Verify, VerifyRefuses, VerifyFails, WriteAck,
        WriteAckFails, ReadControl, ReadJunk, HangUp, Forward, ServeFrame
    <2>2. \A t \in Socks : peer[t] \in Admitted => peer'[t] \in Admitted
      <3>1. CASE peer' = peer
        BY <3>1
      <3>2. CASE \E e \in AgentEnds : /\ peer' = [peer EXCEPT ![s] = e]
                                      /\ peer[s] \notin Admitted \/ e \in Admitted
        BY <3>2, PeerAdmits
      <3>3. "verify" \in AgentEnds /\ "ack" \in AgentEnds /\ Admitted \subseteq AgentEnds
            /\ Admitted = {"established", "closed"}
        BY DEF AgentEnds, Admitted
      <3>. QED BY <1>1, <3>1, <3>2, <3>3
             DEF Serve, Accept, AcceptDrops, Verify, VerifyRefuses, VerifyFails, WriteAck,
               WriteAckFails, ReadControl, ReadJunk, HangUp, Forward, Hang
    <2>3. \A t \in Socks : NoAck(down[t]) => NoAck(down'[t]) \/ peer'[t] \in Admitted
      <3>1. CASE down' = down
        BY <3>1
      <3>2. CASE WriteAck(s)
        <4>1. peer'[s] \in Admitted
          BY <3>2 DEF WriteAck, Admitted, Typed, ConnTyped
        <4>. QED BY <3>2, <4>1, DeliverAck DEF WriteAck
      <3>3. CASE Forward(s)
        BY <3>3, DeliverAck DEF Forward
      <3>. QED BY <1>1, <3>1, <3>2, <3>3
             DEF Serve, Accept, AcceptDrops, Verify, VerifyRefuses, VerifyFails,
               WriteAckFails, ReadControl, ReadJunk, HangUp
    <2>. QED BY <1>0, <2>1, <2>2, <2>3, AckStep
  <1>2. ASSUME NEW a \in Agents, Launch(a) \/ Bind(a) \/ Publish(a) \/ Exit(a)
        PROVE  AckInv'
    <2>1. authenticated' = authenticated /\ socket' = socket /\ down' = down
      BY <1>2 DEF Launch, Bind, Publish, Exit
    <2>2. CASE peer' = peer
      BY <1>0, <2>1, <2>2, AckStep
    <2>3. CASE ResetAll
      BY <1>0, <2>1, <2>3, AckStep, ResetAdmits
    <2>. QED BY <1>2, <2>2, <2>3 DEF Launch, Bind, Publish, Exit
  <1>3. CASE Environment
    <2>1. authenticated' = authenticated /\ socket' = socket
      BY <1>3 DEF Environment, Establish, PeerConnect, PeerClose, ForeignTakes, ForeignLeaves,
        ForeignReplies
    <2>2. CASE \E s \in Conns : ForeignReplies(s)
      <3>1. PICK s \in Conns : ForeignReplies(s)
        BY <2>2
      <3>2. \A t \in Socks : peer[t] \in Admitted => peer'[t] \in Admitted
        BY <3>1, PeerAdmits DEF ForeignReplies, Admitted
      <3>3. \A t \in Socks : NoAck(down[t]) => NoAck(down'[t]) \/ peer'[t] \in Admitted
        BY <3>1, DeliverAck DEF ForeignReplies
      <3>. QED BY <1>0, <2>1, <3>2, <3>3, AckStep
    <2>3. CASE ~\E s \in Conns : ForeignReplies(s)
      <3>1. down' = down
        BY <1>3, <2>3 DEF Environment, Establish, PeerConnect, PeerClose, ForeignTakes,
          ForeignLeaves
      <3>2. \A t \in Socks : peer[t] \in Admitted => peer'[t] \in Admitted
        <4>1. CASE peer' = peer
          BY <4>1
        <4>2. CASE ResetAll
          BY <4>2, ResetAdmits
        <4>3. ASSUME NEW s \in Socks, Establish(s)
              PROVE  \A t \in Socks : peer[t] \in Admitted => peer'[t] \in Admitted
          BY <4>3, PeerAdmits DEF Establish, Admitted, Conns
        <4>4. ASSUME NEW p \in Peers, PeerConnect(p)
              PROVE  \A t \in Socks : peer[t] \in Admitted => peer'[t] \in Admitted
          BY <4>4, PeerAdmits, AdmissionAssumption DEF PeerConnect, Conns
        <4>. QED BY <1>3, <2>3, <4>1, <4>2, <4>3, <4>4
               DEF Environment, PeerClose, ForeignTakes, ForeignLeaves
      <3>. QED BY <1>0, <2>1, <3>1, <3>2, AckStep
    <2>. QED BY <2>2, <2>3
  <1>4. CASE UNCHANGED vars
    BY <1>0, <1>4, AckStep DEF vars
  <1>. QED BY <1>1, <1>2, <1>3, <1>4, RelayAck DEF Next, Agent, Conns

(***************************************************************************)
(* Permits. A connection is past the backlog only while an agent serves,   *)
(* and each stage holds its permits.                                       *)
(***************************************************************************)
PendingStages == {"verify", "ack"}
AuthStages == {"ack", "established"}
At(K) == {s \in Conns : peer[s] \in K}

PermitInv ==
  /\ \A s \in Conns : peer[s] \in {"verify", "ack", "established"} => Serving
  /\ pendingFree + Cardinality(At(PendingStages)) = MaxPending
  /\ authFree + Cardinality(At(AuthStages)) = MaxAuth

LEMMA ConnsFinite == IsFiniteSet(Conns)
  BY AdmissionAssumption, FS_Union DEF Conns

LEMMA AtFinite ==
  ASSUME NEW K
  PROVE  IsFiniteSet(At(K)) /\ Cardinality(At(K)) \in Nat
  <1>1. At(K) \in SUBSET Conns
    BY DEF At
  <1>. QED BY <1>1, ConnsFinite, FS_Subset, FS_CardinalityType

\* One connection moves to another stage.
LEMMA MovePeer ==
  ASSUME Typed, NEW s \in Conns, NEW e, peer' = [peer EXCEPT ![s] = e], NEW K
  PROVE  /\ Cardinality(At(K)) \in Nat
         /\ (peer[s] \in K <=> e \in K) => Cardinality(At(K)') = Cardinality(At(K))
         /\ peer[s] \notin K /\ e \in K => Cardinality(At(K)') = Cardinality(At(K)) + 1
         /\ peer[s] \in K /\ e \notin K => Cardinality(At(K)') = Cardinality(At(K)) - 1
  <1>1. \A t \in Conns : peer'[t] = IF t = s THEN e ELSE peer[t]
    BY DEF Typed, ConnTyped
  <1>2. (peer[s] \in K <=> e \in K) => At(K)' = At(K)
    BY <1>1 DEF At
  <1>3. peer[s] \notin K /\ e \in K => At(K)' = At(K) \cup {s} /\ s \notin At(K)
    BY <1>1 DEF At
  <1>4. peer[s] \in K /\ e \notin K => At(K)' = At(K) \ {s} /\ s \in At(K)
    BY <1>1 DEF At
  <1>5. s \notin At(K) => Cardinality(At(K) \cup {s}) = Cardinality(At(K)) + 1
    BY AtFinite, FS_AddElement
  <1>6. s \in At(K) => Cardinality(At(K) \ {s}) = Cardinality(At(K)) - 1
    BY AtFinite, FS_RemoveElement
  <1>7. peer[s] \notin K /\ e \in K => Cardinality(At(K)') = Cardinality(At(K)) + 1
    BY <1>3, <1>5
  <1>8. peer[s] \in K /\ e \notin K => Cardinality(At(K)') = Cardinality(At(K)) - 1
    BY <1>4, <1>6
  <1>. QED BY <1>2, <1>7, <1>8, AtFinite

LEMMA InitPermits == Init => PermitInv
  <1>. SUFFICES ASSUME Init PROVE PermitInv
    OBVIOUS
  <1>1. \A s \in Conns : peer[s] = "none"
    BY DEF Init
  <1>2. At(PendingStages) = {} /\ At(AuthStages) = {}
    BY <1>1 DEF At, PendingStages, AuthStages
  <1>3. Cardinality({}) = 0 /\ pendingFree = MaxPending /\ authFree = MaxAuth
    BY FS_EmptySet DEF Init
  <1>4. pendingFree + 0 = MaxPending /\ authFree + 0 = MaxAuth
    BY <1>3, AdmissionAssumption
  <1>. QED BY <1>1, <1>2, <1>3, <1>4 DEF PermitInv

\* A step that moves no connection between stages.
LEMMA PermitFrame ==
  ASSUME PermitInv, UNCHANGED <<pendingFree, authFree>>, Serving => Serving',
         \A s \in Conns : \A K \in {{"verify", "ack", "established"}, PendingStages, AuthStages} :
           peer'[s] \in K <=> peer[s] \in K
  PROVE  PermitInv'
  <1>1. At(PendingStages)' = At(PendingStages) /\ At(AuthStages)' = At(AuthStages)
    BY DEF At
  <1>. QED BY <1>1 DEF PermitInv

\* A step after which no connection is past the backlog.
LEMMA PermitEmpty ==
  ASSUME \A s \in Conns : peer'[s] \in {"none", "closed"},
         pendingFree' = MaxPending, authFree' = MaxAuth
  PROVE  PermitInv'
  <1>1. At(PendingStages)' = {} /\ At(AuthStages)' = {}
    BY DEF At, PendingStages, AuthStages
  <1>2. Cardinality({}) = 0
    BY FS_EmptySet
  <1>3. MaxPending + 0 = MaxPending /\ MaxAuth + 0 = MaxAuth
    BY AdmissionAssumption
  <1>. QED BY <1>1, <1>2, <1>3 DEF PermitInv

\* A step that moves connection s, with the permits that go with it.
LEMMA PermitMove ==
  ASSUME Typed, PermitInv, NEW s \in Conns, NEW e, peer' = [peer EXCEPT ![s] = e],
         Serving => Serving', e \in {"verify", "ack", "established"} => Serving',
         pendingFree' = pendingFree + (IF peer[s] \in PendingStages THEN 1 ELSE 0)
                                    - (IF e \in PendingStages THEN 1 ELSE 0),
         authFree' = authFree + (IF peer[s] \in AuthStages THEN 1 ELSE 0)
                              - (IF e \in AuthStages THEN 1 ELSE 0)
  PROVE  PermitInv'
  <1>0. pendingFree \in Nat /\ authFree \in Nat /\ MaxPending \in Nat /\ MaxAuth \in Nat
    BY AdmissionAssumption DEF Typed, AgentTyped
  <1>1. \A t \in Conns : peer'[t] \in {"verify", "ack", "established"} => Serving'
    BY DEF PermitInv, Typed, ConnTyped
  <1>2. pendingFree' + Cardinality(At(PendingStages)') = MaxPending
    <2>. DEFINE c == Cardinality(At(PendingStages))
                d == Cardinality(At(PendingStages)')
    <2>1. /\ c \in Nat
          /\ (peer[s] \in PendingStages <=> e \in PendingStages) => d = c
          /\ peer[s] \notin PendingStages /\ e \in PendingStages => d = c + 1
          /\ peer[s] \in PendingStages /\ e \notin PendingStages => d = c - 1
      BY MovePeer
    <2>2. pendingFree + c = MaxPending
      BY DEF PermitInv
    <2>. HIDE DEF c, d
    <2>3. pendingFree' + d = MaxPending
      BY <1>0, <2>1, <2>2
    <2>. QED BY <2>3 DEF d
  <1>3. authFree' + Cardinality(At(AuthStages)') = MaxAuth
    <2>. DEFINE c == Cardinality(At(AuthStages))
                d == Cardinality(At(AuthStages)')
    <2>1. /\ c \in Nat
          /\ (peer[s] \in AuthStages <=> e \in AuthStages) => d = c
          /\ peer[s] \notin AuthStages /\ e \in AuthStages => d = c + 1
          /\ peer[s] \in AuthStages /\ e \notin AuthStages => d = c - 1
      BY MovePeer
    <2>2. authFree + c = MaxAuth
      BY DEF PermitInv
    <2>. HIDE DEF c, d
    <2>3. authFree' + d = MaxAuth
      BY <1>0, <2>1, <2>2
    <2>. QED BY <2>3 DEF d
  <1>. QED BY <1>1, <1>2, <1>3 DEF PermitInv

LEMMA RelayPermits ==
  ASSUME Typed, PermitInv, Relay
  PROVE  PermitInv'
  <1>1. UNCHANGED <<pendingFree, authFree, pc>>
    BY DEF Relay, Start, Stop, OnReconnect, ConnectFrame, SendControl, Callback, OnConnect, OnAck,
      OnBadAck, OnEvent, OnAuthTimeout, OnError, OnEnd, OnClose, StreamOpen, StreamCancel
  <1>2. Serving => Serving'
    BY <1>1 DEF Serving
  <1>3. CASE peer' = peer
    BY <1>1, <1>2, <1>3, PermitFrame
  <1>4. CASE \E s \in Socks : Free(s) /\ peer' = [peer EXCEPT ![s] = "none"]
    <2>1. PICK s \in Socks : Free(s) /\ peer' = [peer EXCEPT ![s] = "none"]
      BY <1>4
    <2>2. peer[s] \in {"none", "closed"} /\ s \in Conns
      BY <2>1 DEF Free, Conns
    <2>3. \A t \in Conns : peer'[t] = IF t = s THEN "none" ELSE peer[t]
      BY <2>1 DEF Typed, ConnTyped
    <2>4. \A t \in Conns :
            \A K \in {{"verify", "ack", "established"}, PendingStages, AuthStages} :
              peer'[t] \in K <=> peer[t] \in K
      BY <2>2, <2>3 DEF PendingStages, AuthStages
    <2>. QED BY <1>1, <1>2, <2>4, PermitFrame
  <1>5. CASE Start \/ OnReconnect
    BY <1>3, <1>4, <1>5 DEF Start, OnReconnect, Connect
  <1>6. CASE ~(Start \/ OnReconnect)
    <2>1. peer' = peer
      BY <1>6 DEF Relay, Stop, SendControl, Callback, OnConnect, OnAck, OnBadAck, OnEvent,
        OnAuthTimeout, OnError, OnEnd, OnClose, StreamOpen, StreamCancel
    <2>. QED BY <2>1, <1>3
  <1>. QED BY <1>5, <1>6

LEMMA ServePermits ==
  ASSUME Typed, PermitInv, NEW s \in Conns, Serve(s) \/ Forward(s)
  PROVE  PermitInv'
  <1>0. pendingFree \in Nat /\ authFree \in Nat
    BY DEF Typed, AgentTyped
  <1>a. Serving /\ pc' = pc
    BY DEF Serve, Accept, AcceptDrops, Verify, VerifyRefuses, VerifyFails, WriteAck,
      WriteAckFails, ReadControl, ReadJunk, HangUp, Forward, ServeFrame
  <1>b. Serving'
    BY <1>a DEF Serving
  <1>1. CASE peer' = peer /\ pendingFree' = pendingFree /\ authFree' = authFree
    BY <1>1, <1>b, PermitFrame
  <1>2. CASE Accept(s)
    <2>1. /\ peer[s] = "backlog" /\ peer' = [peer EXCEPT ![s] = "verify"]
          /\ pendingFree' = pendingFree - 1 /\ authFree' = authFree
      BY <1>2 DEF Accept
    <2>2. /\ pendingFree' = pendingFree + (IF peer[s] \in PendingStages THEN 1 ELSE 0)
                                        - (IF "verify" \in PendingStages THEN 1 ELSE 0)
          /\ authFree' = authFree + (IF peer[s] \in AuthStages THEN 1 ELSE 0)
                                  - (IF "verify" \in AuthStages THEN 1 ELSE 0)
      BY <1>0, <2>1 DEF PendingStages, AuthStages
    <2>. QED BY <1>b, <2>1, <2>2, PermitMove
  <1>3. CASE AcceptDrops(s)
    <2>1. /\ peer[s] = "backlog" /\ peer' = [peer EXCEPT ![s] = "closed"]
          /\ pendingFree' = pendingFree /\ authFree' = authFree
      BY <1>3 DEF AcceptDrops, Hang
    <2>2. /\ pendingFree' = pendingFree + (IF peer[s] \in PendingStages THEN 1 ELSE 0)
                                        - (IF "closed" \in PendingStages THEN 1 ELSE 0)
          /\ authFree' = authFree + (IF peer[s] \in AuthStages THEN 1 ELSE 0)
                                  - (IF "closed" \in AuthStages THEN 1 ELSE 0)
      BY <1>0, <2>1 DEF PendingStages, AuthStages
    <2>. QED BY <1>b, <2>1, <2>2, PermitMove
  <1>4. CASE Verify(s)
    <2>1. /\ peer[s] = "verify" /\ peer' = [peer EXCEPT ![s] = "ack"]
          /\ pendingFree' = pendingFree /\ authFree' = authFree - 1
      BY <1>4 DEF Verify
    <2>2. /\ pendingFree' = pendingFree + (IF peer[s] \in PendingStages THEN 1 ELSE 0)
                                        - (IF "ack" \in PendingStages THEN 1 ELSE 0)
          /\ authFree' = authFree + (IF peer[s] \in AuthStages THEN 1 ELSE 0)
                                  - (IF "ack" \in AuthStages THEN 1 ELSE 0)
      BY <1>0, <2>1 DEF PendingStages, AuthStages
    <2>. QED BY <1>b, <2>1, <2>2, PermitMove
  <1>5. CASE VerifyRefuses(s) \/ VerifyFails(s)
    <2>1. /\ peer[s] = "verify" /\ peer' = [peer EXCEPT ![s] = "closed"]
          /\ pendingFree' = pendingFree + 1 /\ authFree' = authFree
      BY <1>5 DEF VerifyRefuses, VerifyFails, Hang
    <2>2. /\ pendingFree' = pendingFree + (IF peer[s] \in PendingStages THEN 1 ELSE 0)
                                        - (IF "closed" \in PendingStages THEN 1 ELSE 0)
          /\ authFree' = authFree + (IF peer[s] \in AuthStages THEN 1 ELSE 0)
                                  - (IF "closed" \in AuthStages THEN 1 ELSE 0)
      BY <1>0, <2>1 DEF PendingStages, AuthStages
    <2>. QED BY <1>b, <2>1, <2>2, PermitMove
  <1>6. CASE WriteAck(s)
    <2>1. /\ peer[s] = "ack" /\ peer' = [peer EXCEPT ![s] = "established"]
          /\ pendingFree' = pendingFree + 1 /\ authFree' = authFree
      BY <1>6 DEF WriteAck
    <2>2. /\ pendingFree' = pendingFree + (IF peer[s] \in PendingStages THEN 1 ELSE 0)
                                        - (IF "established" \in PendingStages THEN 1 ELSE 0)
          /\ authFree' = authFree + (IF peer[s] \in AuthStages THEN 1 ELSE 0)
                                  - (IF "established" \in AuthStages THEN 1 ELSE 0)
      BY <1>0, <2>1 DEF PendingStages, AuthStages
    <2>. QED BY <1>b, <2>1, <2>2, PermitMove
  <1>7. CASE WriteAckFails(s)
    <2>1. /\ peer[s] = "ack" /\ peer' = [peer EXCEPT ![s] = "closed"]
          /\ pendingFree' = pendingFree + 1 /\ authFree' = authFree + 1
      BY <1>7 DEF WriteAckFails, Hang
    <2>2. /\ pendingFree' = pendingFree + (IF peer[s] \in PendingStages THEN 1 ELSE 0)
                                        - (IF "closed" \in PendingStages THEN 1 ELSE 0)
          /\ authFree' = authFree + (IF peer[s] \in AuthStages THEN 1 ELSE 0)
                                  - (IF "closed" \in AuthStages THEN 1 ELSE 0)
      BY <1>0, <2>1 DEF PendingStages, AuthStages
    <2>. QED BY <1>b, <2>1, <2>2, PermitMove
  <1>8. CASE ReadJunk(s) \/ HangUp(s)
    <2>1. /\ peer[s] = "established" /\ peer' = [peer EXCEPT ![s] = "closed"]
          /\ pendingFree' = pendingFree /\ authFree' = authFree + 1
      BY <1>8 DEF ReadJunk, HangUp, Hang
    <2>2. /\ pendingFree' = pendingFree + (IF peer[s] \in PendingStages THEN 1 ELSE 0)
                                        - (IF "closed" \in PendingStages THEN 1 ELSE 0)
          /\ authFree' = authFree + (IF peer[s] \in AuthStages THEN 1 ELSE 0)
                                  - (IF "closed" \in AuthStages THEN 1 ELSE 0)
      BY <1>0, <2>1 DEF PendingStages, AuthStages
    <2>. QED BY <1>b, <2>1, <2>2, PermitMove
  <1>9. CASE ReadControl(s) \/ Forward(s)
    BY <1>1, <1>9 DEF ReadControl, Forward
  <1>. QED BY <1>2, <1>3, <1>4, <1>5, <1>6, <1>7, <1>8, <1>9 DEF Serve

LEMMA StepPermits ==
  ASSUME Typed, CredInv, PermitInv, [Next]_vars
  PROVE  PermitInv'
  <1>0. pendingFree \in Nat /\ authFree \in Nat
    BY DEF Typed, AgentTyped
  <1>1. ASSUME NEW a \in Agents, Launch(a) \/ Bind(a) \/ Publish(a) \/ (Exit(a) /\ pc[a] = "starting")
        PROVE  PermitInv'
    <2>1. UNCHANGED <<peer, pendingFree, authFree>>
      BY <1>1 DEF Launch, Bind, Publish, Exit
    <2>2. /\ pc[a] # "serving"
          /\ \A b \in Agents : b # a => pc'[b] = pc[b]
      BY <1>1 DEF Launch, Bind, Publish, Exit, Typed, AgentTyped
    <2>3. Serving => Serving'
      BY <2>2 DEF Serving
    <2>. QED BY <2>1, <2>3, PermitFrame
  <1>2. ASSUME NEW a \in Agents, Exit(a), pc[a] # "starting"
        PROVE  PermitInv'
    <2>1. \A s \in Conns : peer'[s] \in {"none", "closed"}
      BY <1>2 DEF Exit, ResetAll
    <2>2. pendingFree' = MaxPending /\ authFree' = MaxAuth
      BY <1>2 DEF Exit
    <2>. QED BY <2>1, <2>2, PermitEmpty
  <1>3. CASE Environment
    <2>1. UNCHANGED <<pendingFree, authFree, pc>>
      BY <1>3 DEF Environment, Establish, PeerConnect, PeerClose, ForeignTakes, ForeignLeaves,
        ForeignReplies
    <2>2. Serving => Serving'
      BY <2>1 DEF Serving
    <2>3. CASE peer' = peer
      BY <2>1, <2>2, <2>3, PermitFrame
    <2>4. ASSUME NEW s \in Conns, NEW e \in {"backlog", "foreign"}, peer[s] \in {"none", "closed", "backlog"},
                 peer' = [peer EXCEPT ![s] = e]
          PROVE  PermitInv'
      <3>1. /\ pendingFree' = pendingFree + (IF peer[s] \in PendingStages THEN 1 ELSE 0)
                                          - (IF e \in PendingStages THEN 1 ELSE 0)
            /\ authFree' = authFree + (IF peer[s] \in AuthStages THEN 1 ELSE 0)
                                    - (IF e \in AuthStages THEN 1 ELSE 0)
        BY <1>0, <2>1, <2>4 DEF PendingStages, AuthStages
      <3>. QED BY <2>2, <2>4, <3>1, PermitMove
    <2>5. CASE ForeignLeaves
      <3>1. ~Serving
        BY <2>5 DEF ForeignLeaves, Serving, CredInv, OneListener
      <3>2. \A s \in Conns : peer[s] \notin {"verify", "ack", "established"}
        BY <3>1 DEF PermitInv
      <3>3. \A s \in Conns : peer'[s] \in {"none", "closed"}
        BY <2>5 DEF ForeignLeaves, ResetAll
      <3>4. \A s \in Conns :
              \A K \in {{"verify", "ack", "established"}, PendingStages, AuthStages} :
                peer'[s] \in K <=> peer[s] \in K
        BY <3>2, <3>3 DEF PendingStages, AuthStages
      <3>. QED BY <2>1, <2>2, <3>4, PermitFrame
    <2>6. CASE \/ \E s \in Socks : Establish(s)
               \/ \E p \in Peers : PeerConnect(p)
               \/ \E s \in Conns : ForeignReplies(s)
      BY <2>4, <2>6 DEF Establish, PeerConnect, Free, ForeignReplies, Conns
    <2>. QED BY <1>3, <2>3, <2>5, <2>6 DEF Environment, PeerClose, ForeignTakes
  <1>4. CASE UNCHANGED vars
    BY <1>4, PermitFrame DEF vars, Serving
  <1>. QED BY <1>1, <1>2, <1>3, <1>4, RelayPermits, ServePermits DEF Next, Agent, Conns

(***************************************************************************)
(* The client implements ReconnectingLink.                                 *)
(***************************************************************************)
LEMMA PhaseValue ==
  ASSUME Typed, ClientInv
  PROVE  /\ ~started => Phase = "idle"
         /\ started /\ stopped => Phase = "stopped"
         /\ started /\ ~stopped /\ authenticated => Phase = "up"
         /\ started /\ ~stopped /\ ~authenticated /\ socket # None => Phase = "trying"
         /\ started /\ ~stopped /\ ~authenticated /\ socket = None => Phase = "waiting"
  <1>1. started /\ ~stopped /\ socket = None => timers > 0
    BY DEF ClientInv, NeverStranded
  <1>. QED BY <1>1 DEF Phase, Typed, RelayTyped

LEMMA StepLink ==
  ASSUME Typed, Typed', ClientInv, ClientInv', [Next]_vars
  PROVE  [Link!Next]_Phase
  <1>. USE DEF Link!Next, Link!Begin, Link!Retry, Link!Succeed, Link!Fail, Link!Halt
  <1>a. /\ ~started' => Phase' = "idle"
        /\ started' /\ stopped' => Phase' = "stopped"
        /\ started' /\ ~stopped' /\ authenticated' => Phase' = "up"
        /\ started' /\ ~stopped' /\ ~authenticated' /\ socket' # None => Phase' = "trying"
        /\ started' /\ ~stopped' /\ ~authenticated' /\ socket' = None => Phase' = "waiting"
    <2>1. started' /\ ~stopped' /\ socket' = None => timers' > 0
      BY DEF ClientInv, NeverStranded
    <2>. QED BY <2>1 DEF Phase, Typed, RelayTyped
  <1>b. authenticated => socket # None
    BY DEF ClientInv, UpIsOpen
  <1>c. socket # None => started /\ ~stopped
    BY DEF ClientInv, SocketActive
  <1>1. CASE UNCHANGED <<started, stopped, socket, authenticated>>
    BY <1>1, <1>a, <1>b, <1>c, PhaseValue
  <1>2. CASE Start \/ (OnReconnect /\ ~stopped)
    <2>1. started' /\ ~stopped' /\ authenticated' = authenticated
      <3>1. CASE Start
        BY <3>1 DEF Start, ConnectFrame
      <3>2. CASE OnReconnect /\ ~stopped
        <4>1. started
          BY <3>2 DEF OnReconnect, ClientInv, TimerOwned, Typed, RelayTyped
        <4>. QED BY <3>2, <4>1 DEF OnReconnect, ConnectFrame
      <3>. QED BY <1>2, <3>1, <3>2
    <2>2. socket # None => socket' = socket
      BY <1>2 DEF Start, OnReconnect, Connect
    <2>. QED BY <1>a, <1>b, <1>c, <2>1, <2>2, PhaseValue
  <1>3. CASE OnReconnect /\ stopped
    BY <1>1, <1>3 DEF OnReconnect, ConnectFrame
  <1>4. CASE Stop
    <2>1. started /\ started' /\ stopped'
      BY <1>4 DEF Stop, StopFields
    <2>. QED BY <1>a, <1>b, <1>c, <2>1, PhaseValue
  <1>5. ASSUME NEW s \in Socks, Callback(s)
        PROVE  [Link!Next]_Phase
    <2>0. s # None
      BY AdmissionAssumption
    <2>1. ASSUME NEW left, Active(s), Disconnect(s, left)
          PROVE  [Link!Next]_Phase
      <3>1. socket = s /\ socket' = None /\ ~authenticated' /\ started' = started
        BY <2>1 DEF Disconnect, Active
      <3>. QED BY <1>a, <1>c, <2>0, <3>1, PhaseValue
    <2>2. CASE OnAck(s)
      <3>1. /\ socket = s /\ ~authenticated /\ started' = started
            /\ \/ authenticated' /\ stopped' = stopped
               \/ stopped'
        BY <2>2 DEF OnAck, Active, StopFields
      <3>. QED BY <1>a, <1>c, <2>0, <3>1, PhaseValue
    <2>3. CASE OnConnect(s) \/ OnEvent(s)
      BY <1>1, <2>3 DEF OnConnect, OnEvent
    <2>4. CASE OnBadAck(s)
      BY <2>1, <2>4 DEF OnBadAck
    <2>5. CASE OnAuthTimeout(s) \/ OnError(s) \/ OnEnd(s) \/ OnClose(s)
      BY <1>1, <2>1, <2>5 DEF OnAuthTimeout, OnError, OnEnd, OnClose
    <2>. QED BY <1>5, <2>2, <2>3, <2>4, <2>5 DEF Callback
  <1>6. CASE \/ SendControl
             \/ \E t \in Streams : StreamOpen(t) \/ StreamCancel(t)
    BY <1>1, <1>6 DEF SendControl, StreamOpen, StreamCancel
  <1>7. CASE Agent
    BY <1>1, <1>7 DEF Agent, Launch, Bind, Publish, Exit, Serve, Accept, AcceptDrops, Verify,
      VerifyRefuses, VerifyFails, WriteAck, WriteAckFails, ReadControl, ReadJunk, Forward,
      HangUp, ServeFrame
  <1>8. CASE Environment
    BY <1>1, <1>8 DEF Environment, Establish, PeerConnect, PeerClose, ForeignTakes, ForeignLeaves,
      ForeignReplies
  <1>9. CASE UNCHANGED vars
    BY <1>1, <1>9 DEF vars
  <1>. QED BY <1>2, <1>3, <1>4, <1>5, <1>6, <1>7, <1>8, <1>9 DEF Next, Relay

-----------------------------------------------------------------------------
IInv == Typed /\ ClientInv /\ CredInv /\ AckInv /\ PermitInv

\* The whole invariant is inductive, for any number of sockets, programs and
\* launches.
LEMMA Inductive == Spec => []IInv
  <1>1. Init => IInv
    BY InitTyped, InitClient, InitCred, InitAck, InitPermits DEF IInv
  <1>2. IInv /\ [Next]_vars => IInv'
    BY StepTyped, StepClient, StepCred, StepAck, StepPermits DEF IInv
  <1>. QED BY <1>1, <1>2, PTL DEF Spec

\* No step of relay, agent or environment leaves the types, and the free
\* permits stay within their budgets: none is returned twice.
THEOREM TypeCorrect == Spec => []TypeOK
  <1>1. IInv => TypeOK
    <2>. SUFFICES ASSUME IInv PROVE TypeOK
      OBVIOUS
    <2>1. pendingFree \in 0..MaxPending /\ authFree \in 0..MaxAuth
      <3>1. /\ Cardinality(At(PendingStages)) \in Nat
            /\ Cardinality(At(AuthStages)) \in Nat
        BY AtFinite
      <3>2. /\ pendingFree + Cardinality(At(PendingStages)) = MaxPending
            /\ authFree + Cardinality(At(AuthStages)) = MaxAuth
        BY DEF IInv, PermitInv
      <3>3. /\ pendingFree \in Nat /\ authFree \in Nat
            /\ MaxPending \in Nat /\ MaxAuth \in Nat
        BY AdmissionAssumption DEF IInv, Typed, AgentTyped
      <3>. QED BY <3>1, <3>2, <3>3
    <2>2. timers \in Nat
      BY DEF IInv, ClientInv, TimerOwned
    <2>. QED BY <2>1, <2>2 DEF IInv, Typed, RelayTyped, ConnTyped, AgentTyped, TypeOK
  <1>. QED BY <1>1, Inductive, PTL

\* The client never has two attempts at once, whatever order the callbacks of
\* old sockets, the timers, start() and stop() come in.
THEOREM SingleAttempt == Spec => []OneAttempt
  <1>1. IInv => OneAttempt
    BY DEF IInv, ClientInv, SocketOwned, TimerOwned, OneAttempt
  <1>. QED BY <1>1, Inductive, PTL

\* A started client that was not stopped always has something to wait for.
THEOREM NoStranding == Spec => []NeverStranded
  <1>1. IInv => NeverStranded
    BY DEF IInv, ClientInv
  <1>. QED BY <1>1, Inductive, PTL

\* The handshake deadline of lib/agent-client.ts is pending exactly while the
\* current socket waits for its acknowledgement.
THEOREM DeadlineExact == Spec => []DeadlineWhileHandshaking
  <1>1. IInv => DeadlineWhileHandshaking
    BY DEF IInv, ClientInv
  <1>. QED BY <1>1, Inductive, PTL

\* The relay believes itself connected only on a connection the agent admitted.
THEOREM ConnectedIsAdmitted == Spec => []ConnectedMeansAdmitted
  <1>1. IInv => ConnectedMeansAdmitted
    BY DEF IInv, AckInv
  <1>. QED BY <1>1, Inductive, PTL

\* A launch that loses the port never replaces the serving agent's credential.
THEOREM ServerOwnsCredential == Spec => []CredentialIsServers
  <1>1. IInv => CredentialIsServers
    BY DEF IInv, CredInv
  <1>. QED BY <1>1, Inductive, PTL

\* Every path of a connection's task gives back exactly the permits it took.
THEOREM PermitsKept == Spec => []PermitsConserved
  <1>1. IInv => PermitsConserved
    BY DEF IInv, PermitInv, At, PendingStages, AuthStages, PermitsConserved
  <1>. QED BY <1>1, Inductive, PTL

\* AgentClient with its sockets, timers and handshakes implements the
\* reconnecting link the rest of the relay relies on.
THEOREM ImplementsLink == Spec => LinkSpec
  <1>1. Init => Link!Init
    BY DEF Init, Link!Init, Phase
  <1>2. IInv /\ IInv' /\ [Next]_vars => [Link!Next]_Phase
    BY StepLink DEF IInv
  <1>. QED BY <1>1, <1>2, Inductive, PTL DEF Spec, LinkSpec, Link!Spec

LEMMA EmitShows ==
  ASSUME NEW c \in {"up", "down"}, EmitStatus(c), c = "up" <=> isConnected'
  PROVE  StatusIsCurrent'
  BY DEF EmitStatus, StatusIsCurrent

LEMMA StatusFrame ==
  ASSUME StatusIsCurrent, stops' = stops, shown' = shown, isConnected' <=> isConnected
  PROVE  StatusIsCurrent'
  BY DEF StatusIsCurrent

LEMMA StepStatus ==
  ASSUME Typed, ClientInv, StatusIsCurrent, [Next]_vars
  PROVE  StatusIsCurrent'
  <1>a. stops \in Nat
    BY AdmissionAssumption DEF Typed, RelayTyped
  <1>b. stops' = stops + 1 => StatusIsCurrent'
    BY <1>a DEF StatusIsCurrent
  <1>1. CASE UNCHANGED <<stops, shown, authenticated, socket>>
    BY <1>1, StatusFrame DEF isConnected
  <1>2. CASE Start \/ OnReconnect
    <2>1. stops' = stops /\ authenticated' = authenticated
      BY <1>2 DEF Start, OnReconnect, ConnectFrame
    <2>2. CASE UNCHANGED <<socket, shown>>
      BY <1>1, <2>1, <2>2
    <2>3. CASE socket = None /\ EmitStatus("down") /\ socket' = socket
      BY <2>3, EmitShows DEF isConnected
    <2>4. CASE socket = None /\ shown' = shown
      <3>1. ~authenticated
        BY <2>4 DEF ClientInv, UpIsOpen
      <3>. QED BY <2>1, <2>4, <3>1, StatusFrame DEF isConnected
    <2>. QED BY <1>2, <2>2, <2>3, <2>4 DEF Start, OnReconnect, Connect
  <1>3. CASE Stop
    BY <1>3, <1>b DEF Stop, StopFields
  <1>4. ASSUME NEW s \in Socks, Callback(s)
        PROVE  StatusIsCurrent'
    <2>1. ASSUME NEW left, Disconnect(s, left)
          PROVE  StatusIsCurrent'
      BY <2>1, EmitShows DEF Disconnect, isConnected
    <2>2. CASE OnAck(s)
      <3>1. CASE stops' = stops + 1
        BY <3>1, <1>b
      <3>2. CASE authenticated' = TRUE /\ socket' = socket
        <4>1. socket # None /\ EmitStatus("up")
          BY <2>2, AdmissionAssumption DEF OnAck, Active
        <4>. QED BY <3>2, <4>1, EmitShows DEF isConnected
      <3>. QED BY <2>2, <3>1, <3>2 DEF OnAck, StopFields
    <2>3. CASE OnConnect(s) \/ OnEvent(s)
      BY <1>1, <2>3 DEF OnConnect, OnEvent
    <2>4. CASE OnBadAck(s)
      BY <2>1, <2>4 DEF OnBadAck
    <2>5. CASE OnAuthTimeout(s) \/ OnError(s) \/ OnEnd(s) \/ OnClose(s)
      BY <1>1, <2>1, <2>5 DEF OnAuthTimeout, OnError, OnEnd, OnClose
    <2>. QED BY <1>4, <2>2, <2>3, <2>4, <2>5 DEF Callback
  <1>5. ASSUME NEW t \in Streams, StreamOpen(t) \/ StreamCancel(t)
        PROVE  StatusIsCurrent'
    <2>1. UNCHANGED <<stops, authenticated, socket>>
      BY <1>5 DEF StreamOpen, StreamCancel
    <2>2. isConnected' <=> isConnected
      BY <2>1 DEF isConnected
    <2>3. \A u \in Streams : \/ shown'[u] = shown[u]
                             \/ shown'[u] = "closed"
                             \/ shown'[u] = IF isConnected THEN "up" ELSE "down"
      BY <1>5 DEF StreamOpen, StreamCancel, Typed, AgentTyped
    <2>. QED BY <2>1, <2>2, <2>3 DEF StatusIsCurrent
  <1>6. CASE SendControl \/ UNCHANGED vars
    BY <1>1, <1>6 DEF SendControl, vars
  <1>7. CASE Agent
    BY <1>1, <1>7 DEF Agent, Launch, Bind, Publish, Exit, Serve, Accept, AcceptDrops, Verify,
      VerifyRefuses, VerifyFails, WriteAck, WriteAckFails, ReadControl, ReadJunk, Forward,
      HangUp, ServeFrame
  <1>8. CASE Environment
    BY <1>1, <1>8 DEF Environment, Establish, PeerConnect, PeerClose, ForeignTakes, ForeignLeaves,
      ForeignReplies
  <1>. QED BY <1>2, <1>3, <1>4, <1>5, <1>6, <1>7, <1>8 DEF Next, Relay

\* However connects, failures and subscriptions interleave, a browser stream is
\* never left showing the wrong connection_status, until stop() is called.
THEOREM StatusStaysCurrent == Spec => []StatusIsCurrent
  <1>1. Init => StatusIsCurrent
    BY DEF Init, StatusIsCurrent
  <1>2. IInv /\ StatusIsCurrent /\ [Next]_vars => StatusIsCurrent'
    BY StepStatus DEF IInv
  <1>. QED BY <1>1, <1>2, Inductive, PTL DEF Spec
=============================================================================
