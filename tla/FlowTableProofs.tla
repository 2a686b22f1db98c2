-------------------------- MODULE FlowTableProofs --------------------------
(***************************************************************************)
(* Proofs about FlowTable for every value of its constants: any number of  *)
(* addresses, ports, interfaces and frames, any MAX_FLOWS, thresholds,     *)
(* channel capacity and list limit.                                        *)
(***************************************************************************)
EXTENDS FlowTable, FiniteSetTheorems, TLAPS

(***************************************************************************)
(* The data.                                                               *)
(***************************************************************************)

LEMMA NotValues == NoKey \notin Key /\ NoFlow \notin Flow
  <1>1. NoKey \notin Key
    BY FlowTableAssumption DEF NoKey, Key
  <1>2. NoFlow \notin Flow
    BY DEF NoFlow, Flow
  <1>. QED BY <1>1, <1>2

LEMMA KeyForType ==
  ASSUME NEW addrs, NEW p \in Packet
  PROVE  KeyFor(addrs, p) \in Key \cup {NoKey}
  <1>1. Outbound(p) \in Key /\ Inbound(p) \in Key
    BY DEF Outbound, Inbound, Key, Packet
  <1>. QED BY <1>1 DEF KeyFor

LEMMA FlowTypes ==
  /\ NewFlow \in Flow
  /\ \A f \in Flow, p \in Packet, t \in 0..MaxTime : Touch(f, p, t) \in Flow
  <1>1. NewFlow \in Flow
    BY DEF NewFlow, Flow
  <1>2. ASSUME NEW f \in Flow, NEW p \in Packet, NEW t \in 0..MaxTime
        PROVE  Touch(f, p, t) \in Flow
    BY DEF Touch, Flow
  <1>. QED BY <1>1, <1>2

LEMMA FrameTypes ==
  ASSUME NEW fr \in FrameState, fr # NoFrame
  PROVE  fr.at \in 0..MaxTime /\ fr.pkt \in Packet
  BY DEF FrameState

LEMMA NewFrameType ==
  ASSUME NEW t \in 0..MaxTime, NEW p \in Packet
  PROVE  [at |-> t, pkt |-> p] \in FrameState /\ [at |-> t, pkt |-> p] # NoFrame
  BY DEF FrameState, NoFrame

LEMMA EmitterTypes ==
  /\ Idle \in EmitterState /\ Idle.pc = "idle"
  /\ \A t \in 0..MaxTime : [pc |-> "tick", at |-> t] \in EmitterState
  /\ \A U, C \in SUBSET Key : [pc |-> "send", updates |-> U, closes |-> C] \in EmitterState
  BY DEF EmitterState, Idle

LEMMA EmitterTick ==
  ASSUME NEW e \in EmitterState, e.pc = "tick"
  PROVE  e.at \in 0..MaxTime
  BY DEF EmitterState, Idle

LEMMA EmitterSend ==
  ASSUME NEW e \in EmitterState, e.pc = "send"
  PROVE  e = [pc |-> "send", updates |-> e.updates, closes |-> e.closes]
         /\ e.updates \subseteq Key /\ e.closes \subseteq Key
  BY DEF EmitterState, Idle

LEMMA EventType ==
  ASSUME NEW type \in {"update", "closed"}, NEW k \in Key
  PROVE  [type |-> type, key |-> k] \in Event
  BY DEF Event

-----------------------------------------------------------------------------
(***************************************************************************)
(* The tab's list.                                                         *)
(***************************************************************************)

LEMMA WithoutFacts ==
  ASSUME NEW S, NEW s \in Seq(S), Distinct(s), NEW k
  PROVE  /\ Without(s, k) \in Seq(S) /\ Len(Without(s, k)) <= Len(s)
         /\ Distinct(Without(s, k))
         /\ \A i \in DOMAIN Without(s, k) :
              Without(s, k)[i] # k /\ \E j \in DOMAIN s : Without(s, k)[i] = s[j]
  <1>1. CASE \A i \in DOMAIN s : s[i] # k
    BY <1>1 DEF Without
  <1>2. CASE ~(\A i \in DOMAIN s : s[i] # k)
    <2>. DEFINE i == CHOOSE i \in DOMAIN s : s[i] = k
                w == [j \in 1..(Len(s) - 1) |-> IF j < i THEN s[j] ELSE s[j + 1]]
    <2>1. i \in DOMAIN s /\ s[i] = k
      BY <1>2
    <2>2. Without(s, k) = w
      BY <1>2 DEF Without
    <2>. HIDE DEF i
    <2>3. Len(s) \in Nat /\ DOMAIN s = 1..Len(s) /\ Len(s) - 1 \in Nat
      BY <2>1
    <2>4. \A j \in 1..(Len(s) - 1) : w[j] \in S
      BY <2>1, <2>3
    <2>5. w \in Seq(S) /\ Len(w) = Len(s) - 1 /\ DOMAIN w = 1..(Len(s) - 1)
      BY <2>3, <2>4
    <2>6. \A j \in 1..(Len(s) - 1) :
             w[j] = s[IF j < i THEN j ELSE j + 1] /\ (IF j < i THEN j ELSE j + 1) \in DOMAIN s
      BY <2>1, <2>3
    <2>. HIDE DEF w
    <2>7. \A j \in DOMAIN w : w[j] # k /\ \E n \in DOMAIN s : w[j] = s[n]
      <3>. SUFFICES ASSUME NEW j \in DOMAIN w
                    PROVE  w[j] # k /\ \E n \in DOMAIN s : w[j] = s[n]
        OBVIOUS
      <3>. DEFINE n == IF j < i THEN j ELSE j + 1
      <3>1. n \in DOMAIN s /\ w[j] = s[n]
        BY <2>5, <2>6
      <3>2. n # i
        BY <2>1, <2>3, <2>5
      <3>3. s[n] # k
        BY <2>1, <3>1, <3>2 DEF Distinct
      <3>. QED BY <3>1, <3>3
    <2>8. Distinct(w)
      <3>. SUFFICES ASSUME NEW a \in DOMAIN w, NEW b \in DOMAIN w, w[a] = w[b]
                    PROVE  a = b
        BY DEF Distinct
      <3>. DEFINE at(j) == IF j < i THEN j ELSE j + 1
      <3>1. at(a) \in DOMAIN s /\ at(b) \in DOMAIN s /\ s[at(a)] = s[at(b)]
        BY <2>5, <2>6
      <3>2. at(a) = at(b)
        BY <3>1 DEF Distinct
      <3>. QED BY <2>1, <2>3, <2>5, <3>2
    <2>. QED BY <2>2, <2>3, <2>5, <2>7, <2>8
  <1>. QED BY <1>1, <1>2

LEMMA TruncatedFacts ==
  ASSUME NEW S, NEW s \in Seq(S), Distinct(s), NEW n \in Nat
  PROVE  /\ Truncated(s, n) \in Seq(S) /\ Len(Truncated(s, n)) <= n
         /\ Distinct(Truncated(s, n))
         /\ \A i \in DOMAIN Truncated(s, n) : i \in DOMAIN s /\ Truncated(s, n)[i] = s[i]
  <1>1. CASE Len(s) <= n
    BY <1>1 DEF Truncated
  <1>2. CASE ~(Len(s) <= n)
    <2>1. Truncated(s, n) = SubSeq(s, 1, n) /\ Len(s) \in Nat /\ n < Len(s)
      BY <1>2 DEF Truncated
    <2>2. /\ SubSeq(s, 1, n) \in Seq(S) /\ Len(SubSeq(s, 1, n)) = n
          /\ \A i \in 1..n : SubSeq(s, 1, n)[i] = s[i]
      BY <2>1
    <2>. QED BY <2>1, <2>2 DEF Distinct
  <1>. QED BY <1>1, <1>2

LEMMA ConsFacts ==
  ASSUME NEW S, NEW s \in Seq(S), Distinct(s), NEW k \in S, \A i \in DOMAIN s : s[i] # k
  PROVE  /\ <<k>> \o s \in Seq(S) /\ Distinct(<<k>> \o s)
         /\ \A i \in DOMAIN (<<k>> \o s) :
              (<<k>> \o s)[i] = k \/ \E j \in DOMAIN s : (<<k>> \o s)[i] = s[j]
  <1>. DEFINE c == <<k>> \o s
  <1>1. /\ c \in Seq(S) /\ Len(c) = Len(s) + 1 /\ Len(s) \in Nat
        /\ c[1] = k /\ \A i \in 2..Len(c) : c[i] = s[i - 1] /\ i - 1 \in 1..Len(s)
    OBVIOUS
  <1>2. DOMAIN c = 1..(Len(s) + 1) /\ DOMAIN s = 1..Len(s)
    BY <1>1
  <1>. HIDE DEF c
  <1>3. \A i \in DOMAIN c : i = 1 \/ i \in 2..Len(c)
    BY <1>1, <1>2
  <1>4. Distinct(c)
    <2>. SUFFICES ASSUME NEW a \in DOMAIN c, NEW b \in DOMAIN c, c[a] = c[b]
                  PROVE  a = b
      BY DEF Distinct
    <2>1. CASE a = 1 \/ b = 1
      BY <1>1, <1>2, <1>3, <2>1
    <2>2. CASE a # 1 /\ b # 1
      <3>1. a - 1 \in DOMAIN s /\ b - 1 \in DOMAIN s /\ s[a - 1] = s[b - 1]
        BY <1>1, <1>2, <1>3, <2>2
      <3>. QED BY <1>2, <3>1 DEF Distinct
    <2>. QED BY <2>1, <2>2
  <1>5. \A i \in DOMAIN c : c[i] = k \/ \E j \in DOMAIN s : c[i] = s[j]
    BY <1>1, <1>2, <1>3
  <1>. QED BY <1>1, <1>4, <1>5 DEF c

\* An event applied to the list keeps it a list of distinct connections within
\* the limit; a close removes its connection and nothing but an update's own
\* connection is added.
LEMMA AppliedFacts ==
  ASSUME ViewOK, NEW e \in Event
  PROVE  /\ Applied(e, view) \in Seq(Key) /\ Len(Applied(e, view)) <= limit
         /\ Distinct(Applied(e, view))
         /\ \A i \in DOMAIN Applied(e, view) :
              /\ e.type = "closed" => Applied(e, view)[i] # e.key
              /\ Applied(e, view)[i] = e.key \/ \E j \in DOMAIN view : Applied(e, view)[i] = view[j]
  <1>0. /\ view \in Seq(Key) /\ Len(view) <= limit /\ Distinct(view) /\ limit \in Nat
        /\ e.key \in Key /\ e.type \in {"update", "closed"} /\ Len(view) \in Nat
    BY FlowTableAssumption DEF ViewOK, Event
  <1>1. CASE e.type = "closed"
    <2>1. Applied(e, view) = Without(view, e.key)
      BY <1>1 DEF Applied
    <2>2. Len(Without(view, e.key)) \in Nat
      BY <1>0, WithoutFacts
    <2>. QED BY <1>0, <2>1, <2>2, WithoutFacts
  <1>2. CASE e.type = "update" /\ \E i \in DOMAIN view : view[i] = e.key
    <2>1. Applied(e, view) = view
      BY <1>2 DEF Applied
    <2>. QED BY <1>0, <1>2, <2>1
  <1>3. CASE e.type = "update" /\ \A i \in DOMAIN view : view[i] # e.key
    <2>. DEFINE c == <<e.key>> \o view
    <2>1. Applied(e, view) = Truncated(c, limit)
      BY <1>3 DEF Applied
    <2>2. /\ c \in Seq(Key) /\ Distinct(c)
          /\ \A i \in DOMAIN c : c[i] = e.key \/ \E j \in DOMAIN view : c[i] = view[j]
      BY <1>0, <1>3, ConsFacts
    <2>. HIDE DEF c
    <2>3. /\ Truncated(c, limit) \in Seq(Key) /\ Len(Truncated(c, limit)) <= limit
          /\ Distinct(Truncated(c, limit))
          /\ \A i \in DOMAIN Truncated(c, limit) : i \in DOMAIN c /\ Truncated(c, limit)[i] = c[i]
      BY <1>0, <2>2, TruncatedFacts
    <2>. QED BY <1>3, <2>1, <2>2, <2>3
  <1>. QED BY <1>0, <1>1, <1>2, <1>3

-----------------------------------------------------------------------------
(***************************************************************************)
(* Types.                                                                  *)
(***************************************************************************)

LEMMA SendType ==
  ASSUME ChannelOK, online \in BOOLEAN,
         NEW type \in {"update", "closed"}, NEW k \in Key, Send(type, k)
  PROVE  ChannelOK'
  <1>. DEFINE e == [type |-> type, key |-> k]
  <1>1. e \in Event
    BY EventType
  <1>2. lagged' \in BOOLEAN /\ closed' \in Nat
    BY DEF ChannelOK, Send
  <1>. HIDE DEF e
  <1>3. chan \in Seq(Event) /\ Len(chan) <= ChannelCap /\ ChannelCap \in Nat \ {0} /\ Len(chan) \in Nat
    BY FlowTableAssumption DEF ChannelOK
  <1>4. chan' \in Seq(Event) /\ Len(chan') <= ChannelCap
    <2>1. CASE ~online
      <3>1. chan' = <<>>
        BY <2>1 DEF Send
      <3>. QED BY <1>3, <3>1
    <2>2. CASE online /\ Len(chan) < ChannelCap
      <3>1. chan' = Append(chan, e)
        BY <2>2 DEF Send, e
      <3>. QED BY <1>1, <1>3, <2>2, <3>1
    <2>3. CASE online /\ ~(Len(chan) < ChannelCap)
      <3>1. chan' = Append(Tail(chan), e)
        BY <2>3 DEF Send, e
      <3>2. chan # <<>> /\ Len(chan) = ChannelCap
        BY <1>3, <2>3
      <3>3. Tail(chan) \in Seq(Event) /\ Len(Tail(chan)) = ChannelCap - 1
        BY <1>3, <3>2
      <3>. QED BY <1>1, <1>3, <3>1, <3>3
    <2>. QED BY <2>1, <2>2, <2>3
  <1>. QED BY <1>2, <1>4 DEF ChannelOK

\* What a packet does under the table's lock: nothing, update its flow, create
\* it, or in a replay close a stale flow and create it again.
LEMMA ObserveCases ==
  ASSUME AgentOK, Observe
  PROVE  /\ UNCHANGED <<mode, local, now, emitter, chan, online, view, limit, lagged, closed, spent>>
         /\ frame # NoFrame /\ frame' = NoFrame /\ aging' \in 0..MaxTime
         /\ \/ UNCHANGED <<flows, counters, dropped>>
            \/ \E k \in Key, f \in Flow :
                 /\ k = KeyFor(local, frame.pkt)
                 /\ flows' = [flows EXCEPT ![k] = f]
                 /\ Live(flows') = Live(flows) \cup {k}
                 /\ \/ k \in Live(flows) /\ dropped' = {} /\ counters' = Counted(0, 0, 0)
                    \/ /\ k \notin Live(flows) /\ dropped' = {}
                       /\ counters' = Counted(1, 0, 0)
                    \/ /\ k \in Live(flows) /\ dropped' = {k} /\ mode = "replay"
                       /\ counters' = Counted(1, 1, 0)
  <1>1. frame # NoFrame /\ frame.at \in 0..MaxTime /\ frame.pkt \in Packet
    BY FrameTypes DEF AgentOK, Observe
  <1>. DEFINE k == KeyFor(local, frame.pkt)
  <1>2. k \in Key \cup {NoKey}
    BY <1>1, KeyForType
  <1>3. /\ UNCHANGED <<mode, local, now, emitter, chan, online, view, limit, lagged, closed, spent>>
        /\ frame' = NoFrame /\ aging' \in 0..MaxTime
    BY <1>1 DEF AgentOK, Observe, viewVars
  <1>4. CASE k = NoKey
    <2>1. UNCHANGED <<flows, counters, dropped>>
      BY <1>4 DEF Observe
    <2>. QED BY <1>1, <1>3, <2>1
  <1>5. CASE k \in Key
    <2>. DEFINE old == flows[k]
                expired == mode = "replay" /\ old # NoFlow /\ Stale(k, old, frame.at)
                isNew == old = NoFlow \/ expired
                f == Touch(IF isNew THEN NewFlow ELSE old, frame.pkt, frame.at)
    <2>1. /\ flows' = [flows EXCEPT ![k] = f]
          /\ counters' = Counted(IF isNew THEN 1 ELSE 0, IF expired THEN 1 ELSE 0, 0)
          /\ dropped' = IF expired THEN {k} ELSE {}
      BY <1>5, NotValues DEF Observe
    <2>2. /\ old \in Flow \cup {NoFlow} /\ (k \in Live(flows) <=> old # NoFlow)
          /\ flows \in [Key -> Flow \cup {NoFlow}]
          /\ counters \in [observed : Nat, idle : Nat, capacity : Nat]
      BY <1>5 DEF AgentOK, Live
    <2>3. f \in Flow
      BY <1>1, <2>2, FlowTypes
    <2>. HIDE DEF k, f
    <2>4. Live(flows') = Live(flows) \cup {k}
      BY <1>5, <2>1, <2>2, <2>3, NotValues DEF Live
    <2>5. \/ k \in Live(flows) /\ dropped' = {} /\ counters' = Counted(0, 0, 0)
          \/ /\ k \notin Live(flows) /\ dropped' = {}
             /\ counters' = Counted(1, 0, 0)
          \/ /\ k \in Live(flows) /\ dropped' = {k} /\ mode = "replay"
             /\ counters' = Counted(1, 1, 0)
      <3>. HIDE DEF old
      <3>1. CASE expired
        BY <2>1, <2>2, <3>1
      <3>2. CASE ~expired /\ old = NoFlow
        BY <2>1, <2>2, <3>2
      <3>3. CASE ~expired /\ old # NoFlow
        BY <2>1, <2>2, <3>3
      <3>. QED BY <3>1, <3>2, <3>3
    <2>. QED BY <1>1, <1>3, <1>5, <2>1, <2>3, <2>4, <2>5 DEF k
  <1>. QED BY <1>2, <1>4, <1>5

\* The sweep keeps some flows and closes the others.
LEMMA SweepFacts ==
  ASSUME AgentOK, EmitSweep
  PROVE  \E t \in 0..MaxTime, V \in SUBSET Live(flows) :
           LET idle == {k \in Live(flows) : Stale(k, flows[k], t)}
           IN /\ t = (IF mode = "replay" THEN aging ELSE emitter.at)
              /\ V \in Victims(Live(flows) \ idle)
              /\ flows' = [k \in Key |-> IF k \in idle \cup V THEN NoFlow ELSE flows[k]]
              /\ counters' = Counted(0, Cardinality(idle), Cardinality(V))
              /\ emitter' = [pc |-> "send", updates |-> Live(flows'), closes |-> idle \cup V]
              /\ Live(flows') = Live(flows) \ (idle \cup V)
              /\ emitter.pc = "tick"
  <1>. DEFINE t == IF mode = "replay" THEN aging ELSE emitter.at
              idle == {k \in Live(flows) : Stale(k, flows[k], t)}
  <1>1. t \in 0..MaxTime /\ emitter.pc = "tick"
    BY EmitterTick DEF AgentOK, EmitSweep
  <1>2. PICK V \in Victims(Live(flows) \ idle) :
          /\ flows' = [k \in Key |-> IF k \in idle \cup V THEN NoFlow ELSE flows[k]]
          /\ counters' = Counted(0, Cardinality(idle), Cardinality(V))
          /\ emitter' = [pc |-> "send", updates |-> Live(flows'), closes |-> idle \cup V]
    BY DEF EmitSweep
  <1>3. V \in SUBSET Live(flows)
    BY <1>2 DEF Victims
  <1>4. Live(flows') = Live(flows) \ (idle \cup V)
    BY <1>2 DEF Live
  <1>. HIDE DEF t
  <1>. QED BY <1>1, <1>2, <1>3, <1>4 DEF t

LEMMA KeyFinite == IsFiniteSet(Key)
  <1>. DEFINE T == (((Protos \X Addrs) \X Ports) \X Addrs) \X Ports
              g == [x \in T |-> [proto |-> x[1][1][1][1], laddr |-> x[1][1][1][2],
                                 lport |-> x[1][1][2], raddr |-> x[1][2], rport |-> x[2]]]
  <1>1. IsFiniteSet(T)
    BY FlowTableAssumption, FS_Product
  <1>2. ASSUME NEW k \in Key PROVE \E x \in T : g[x] = k
    <2>. DEFINE x == <<<<<<<<k.proto, k.laddr>>, k.lport>>, k.raddr>>, k.rport>>
    <2>1. x \in T
      BY DEF Key
    <2>2. g[x] = [proto |-> k.proto, laddr |-> k.laddr, lport |-> k.lport,
                  raddr |-> k.raddr, rport |-> k.rport]
      BY <2>1
    <2>3. g[x] = k
      BY <2>2 DEF Key
    <2>. QED BY <2>1, <2>3
  <1>3. \A x \in T : g[x] \in Key
    BY DEF Key
  <1>. HIDE DEF T
  <1>4. g \in [T -> Key]
    BY <1>3
  <1>. HIDE DEF g
  <1>5. g \in Surjection(T, Key)
    BY <1>2, <1>4 DEF Surjection
  <1>. QED BY <1>1, <1>5, FS_Surjection

LEMMA CounterTypes ==
  ASSUME AgentOK, NEW n \in Nat, NEW i \in Nat, NEW v \in Nat
  PROVE  Counted(n, i, v) \in [observed : Nat, idle : Nat, capacity : Nat]
  BY DEF AgentOK, Counted

LEMMA SpentTypes ==
  ASSUME NEW s \in [frames : Nat, switches : Nat, outages : Nat, user : Nat]
  PROVE  /\ [s EXCEPT !.frames = @ + 1] \in [frames : Nat, switches : Nat, outages : Nat, user : Nat]
         /\ [s EXCEPT !.switches = @ + 1] \in [frames : Nat, switches : Nat, outages : Nat, user : Nat]
         /\ [s EXCEPT !.outages = @ + 1] \in [frames : Nat, switches : Nat, outages : Nat, user : Nat]
         /\ [s EXCEPT !.user = @ + 1] \in [frames : Nat, switches : Nat, outages : Nat, user : Nat]
  OBVIOUS

LEMMA InitType == Init => TypeOK
  <1>. SUFFICES ASSUME Init PROVE TypeOK
    OBVIOUS
  <1>1. AgentOK
    <2>1. now \in 0..MaxTime /\ aging \in 0..MaxTime
      BY FlowTableAssumption DEF Init
    <2>2. frame \in FrameState /\ emitter \in EmitterState
      BY EmitterTypes DEF Init, FrameState
    <2>3. /\ mode \in Modes /\ local \in Locals /\ dropped = {}
          /\ flows \in [Key -> Flow \cup {NoFlow}]
          /\ counters \in [observed : Nat, idle : Nat, capacity : Nat]
          /\ spent \in [frames : Nat, switches : Nat, outages : Nat, user : Nat]
      BY DEF Init
    <2>. QED BY <2>1, <2>2, <2>3 DEF AgentOK
  <1>2. ChannelOK
    <2>1. chan = <<>> /\ lagged = FALSE /\ closed = 0 /\ ChannelCap \in Nat
      BY FlowTableAssumption DEF Init
    <2>2. chan \in Seq(Event) /\ Len(chan) <= ChannelCap
      BY <2>1
    <2>3. lagged \in BOOLEAN /\ closed \in Nat
      BY <2>1
    <2>. QED BY <2>2, <2>3 DEF ChannelOK
  <1>3. ViewOK
    <2>1. view = <<>> /\ online = TRUE /\ limit \in Limits /\ limit \in Nat
      BY FlowTableAssumption DEF Init
    <2>. QED BY <2>1 DEF ViewOK, Distinct
  <1>. QED BY <1>1, <1>2, <1>3 DEF TypeOK

LEMMA CaptureType ==
  ASSUME TypeOK, Capture PROVE TypeOK'
  <1>. USE DEF tableVars, viewVars
  <1>0. AgentOK /\ ChannelOK /\ ViewOK
    BY DEF TypeOK
  <1>1. ASSUME NEW p \in Packet, NextFrame(p) PROVE TypeOK'
    <2>1. PICK t \in 0..MaxTime : frame' = [at |-> t, pkt |-> p]
      BY <1>1 DEF NextFrame
    <2>2. frame' \in FrameState
      BY <2>1, NewFrameType
    <2>3. /\ spent' \in [frames : Nat, switches : Nat, outages : Nat, user : Nat]
          /\ UNCHANGED <<mode, tableVars, now, aging, dropped, emitter, chan, viewVars, lagged, closed>>
      BY <1>0, <1>1, SpentTypes DEF NextFrame, AgentOK
    <2>. QED BY <1>0, <2>2, <2>3 DEF TypeOK, AgentOK, ChannelOK, ViewOK
  <1>2. CASE Observe
    <2>1. /\ UNCHANGED <<mode, local, now, emitter, chan, online, view, limit, lagged, closed, spent>>
          /\ frame' = NoFrame /\ aging' \in 0..MaxTime
      BY <1>0, <1>2, ObserveCases
    <2>2. /\ flows' \in [Key -> Flow \cup {NoFlow}] /\ dropped' \subseteq Key
          /\ counters' \in [observed : Nat, idle : Nat, capacity : Nat]
      <3>1. CASE UNCHANGED <<flows, counters, dropped>>
        BY <1>0, <3>1 DEF AgentOK
      <3>2. CASE \E k \in Key, f \in Flow :
                   /\ flows' = [flows EXCEPT ![k] = f] /\ dropped' \subseteq {k}
                   /\ \/ counters' = Counted(0, 0, 0)
                      \/ counters' = Counted(1, 0, 0)
                      \/ counters' = Counted(1, 1, 0)
        <4>1. counters' \in [observed : Nat, idle : Nat, capacity : Nat]
          <5>. DEFINE T == [observed : Nat, idle : Nat, capacity : Nat]
          <5>1. Counted(0, 0, 0) \in T /\ Counted(1, 0, 0) \in T /\ Counted(1, 1, 0) \in T
            BY <1>0, CounterTypes
          <5>. HIDE DEF T
          <5>. QED BY <3>2, <5>1 DEF T
        <4>2. flows' \in [Key -> Flow \cup {NoFlow}] /\ dropped' \subseteq Key
          BY <1>0, <3>2 DEF AgentOK
        <4>. QED BY <4>1, <4>2
      <3>. QED BY <1>0, <1>2, <3>1, <3>2, ObserveCases
    <2>3. frame' \in FrameState
      BY <2>1 DEF FrameState
    <2>. QED BY <1>0, <2>1, <2>2, <2>3 DEF TypeOK, AgentOK, ChannelOK, ViewOK
  <1>3. CASE CaptureClose
    <2>1. PICK k \in dropped : Send("closed", k) /\ dropped' = dropped \ {k}
      BY <1>3 DEF CaptureClose
    <2>2. k \in Key /\ dropped' \subseteq Key /\ online \in BOOLEAN
      BY <1>0, <2>1 DEF AgentOK, ViewOK
    <2>3. ChannelOK'
      BY <1>0, <2>1, <2>2, SendType
    <2>4. UNCHANGED <<mode, tableVars, now, aging, frame, emitter, viewVars, spent>>
      BY <1>3 DEF CaptureClose
    <2>. QED BY <1>0, <2>2, <2>3, <2>4 DEF TypeOK, AgentOK, ViewOK
  <1>4. ASSUME NEW addrs \in Locals, SwitchInterface(addrs) PROVE TypeOK'
    <2>1. /\ local' = addrs /\ flows' = [k \in Key |-> NoFlow] /\ dropped' \subseteq Key
          /\ spent' \in [frames : Nat, switches : Nat, outages : Nat, user : Nat]
          /\ UNCHANGED <<mode, counters, now, aging, frame, emitter, chan, viewVars, lagged, closed>>
      BY <1>0, <1>4, SpentTypes DEF SwitchInterface, AgentOK, Live
    <2>. QED BY <1>0, <2>1 DEF TypeOK, AgentOK, ChannelOK, ViewOK
  <1>. QED BY <1>1, <1>2, <1>3, <1>4 DEF Capture

LEMMA EmitType ==
  ASSUME TypeOK, Emit PROVE TypeOK'
  <1>. USE DEF tableVars, viewVars
  <1>0. AgentOK /\ ChannelOK /\ ViewOK /\ online \in BOOLEAN
    BY DEF TypeOK, ViewOK
  <1>1. CASE EmitTick
    <2>1. emitter' \in EmitterState
      BY <1>0, <1>1, EmitterTypes DEF EmitTick, AgentOK
    <2>2. UNCHANGED <<mode, tableVars, now, aging, frame, dropped, chan, viewVars, lagged, closed, spent>>
      BY <1>1 DEF EmitTick
    <2>. QED BY <1>0, <2>1, <2>2 DEF TypeOK, AgentOK, ChannelOK, ViewOK
  <1>2. CASE EmitSweep
    <2>0. UNCHANGED <<mode, local, now, aging, frame, dropped, chan, viewVars, lagged, closed, spent>>
      BY <1>2 DEF EmitSweep
    <2>1. PICK I \in SUBSET Key, V \in SUBSET Key :
            /\ flows' = [k \in Key |-> IF k \in I \cup V THEN NoFlow ELSE flows[k]]
            /\ counters' = Counted(0, Cardinality(I), Cardinality(V))
            /\ emitter' = [pc |-> "send", updates |-> Live(flows'), closes |-> I \cup V]
      <3>1. Live(flows) \subseteq Key
        BY DEF Live
      <3>. QED BY <1>0, <1>2, <3>1, SweepFacts
    <2>2. Cardinality(I) \in Nat /\ Cardinality(V) \in Nat
      BY KeyFinite, FS_Subset, FS_CardinalityType
    <2>3. counters' \in [observed : Nat, idle : Nat, capacity : Nat]
      BY <1>0, <2>1, <2>2, CounterTypes
    <2>4. flows' \in [Key -> Flow \cup {NoFlow}]
      BY <1>0, <2>1 DEF AgentOK
    <2>5. emitter' \in EmitterState
      <3>1. Live(flows') \in SUBSET Key /\ I \cup V \in SUBSET Key
        BY DEF Live
      <3>. QED BY <2>1, <3>1, EmitterTypes
    <2>. QED BY <1>0, <2>0, <2>3, <2>4, <2>5 DEF TypeOK, AgentOK, ChannelOK, ViewOK
  <1>3. CASE EmitUpdate
    <2>1. PICK k \in emitter.updates :
            Send("update", k) /\ emitter' = [emitter EXCEPT !.updates = @ \ {k}]
      BY <1>3 DEF EmitUpdate
    <2>2. /\ emitter = [pc |-> "send", updates |-> emitter.updates, closes |-> emitter.closes]
          /\ emitter.updates \subseteq Key /\ emitter.closes \subseteq Key
      BY <1>0, <1>3, EmitterSend DEF EmitUpdate, AgentOK
    <2>3. emitter' = [pc |-> "send", updates |-> emitter.updates \ {k}, closes |-> emitter.closes]
      BY <2>1, <2>2
    <2>4. emitter' \in EmitterState
      BY <2>2, <2>3, EmitterTypes
    <2>5. ChannelOK'
      BY <1>0, <2>1, <2>2, SendType
    <2>6. UNCHANGED <<mode, tableVars, now, aging, frame, dropped, viewVars, spent>>
      BY <1>3 DEF EmitUpdate
    <2>. QED BY <1>0, <2>4, <2>5, <2>6 DEF TypeOK, AgentOK, ViewOK
  <1>4. CASE EmitClose
    <2>1. PICK k \in emitter.closes :
            Send("closed", k) /\ emitter' = [emitter EXCEPT !.closes = @ \ {k}]
      BY <1>4 DEF EmitClose
    <2>2. /\ emitter = [pc |-> "send", updates |-> emitter.updates, closes |-> emitter.closes]
          /\ emitter.updates \subseteq Key /\ emitter.closes \subseteq Key
      BY <1>0, <1>4, EmitterSend DEF EmitClose, AgentOK
    <2>3. emitter' = [pc |-> "send", updates |-> emitter.updates, closes |-> emitter.closes \ {k}]
      BY <2>1, <2>2
    <2>4. emitter' \in EmitterState
      BY <2>2, <2>3, EmitterTypes
    <2>5. ChannelOK'
      BY <1>0, <2>1, <2>2, SendType
    <2>6. UNCHANGED <<mode, tableVars, now, aging, frame, dropped, viewVars, spent>>
      BY <1>4 DEF EmitClose
    <2>. QED BY <1>0, <2>4, <2>5, <2>6 DEF TypeOK, AgentOK, ViewOK
  <1>5. CASE EmitDone
    <2>1. /\ emitter' = Idle
          /\ UNCHANGED <<mode, tableVars, now, aging, frame, dropped, chan, viewVars, lagged, closed, spent>>
      BY <1>5 DEF EmitDone
    <2>. QED BY <1>0, <2>1, EmitterTypes DEF TypeOK, AgentOK, ChannelOK, ViewOK
  <1>. QED BY <1>1, <1>2, <1>3, <1>4, <1>5 DEF Emit

LEMMA TabType ==
  ASSUME TypeOK, Tab \/ Tick PROVE TypeOK'
  <1>. USE DEF tableVars
  <1>0. AgentOK /\ ChannelOK /\ ViewOK
    BY DEF TypeOK
  <1>1. CASE Deliver
    <2>1. /\ chan # <<>> /\ chan' = Tail(chan) /\ view' = Applied(Head(chan), view)
          /\ UNCHANGED <<mode, tableVars, now, aging, frame, dropped, emitter, online, limit,
                         lagged, closed, spent>>
      BY <1>1 DEF Deliver
    <2>2. chan \in Seq(Event) /\ Len(chan) \in Nat /\ Len(chan) <= ChannelCap /\ ChannelCap \in Nat
      BY <1>0, FlowTableAssumption DEF ChannelOK
    <2>3. Head(chan) \in Event /\ Tail(chan) \in Seq(Event) /\ Len(Tail(chan)) = Len(chan) - 1
      BY <2>1, <2>2
    <2>4. ChannelOK'
      BY <1>0, <2>1, <2>2, <2>3 DEF ChannelOK
    <2>5. ViewOK'
      BY <1>0, <2>1, <2>3, AppliedFacts DEF ViewOK
    <2>. QED BY <1>0, <2>1, <2>4, <2>5 DEF TypeOK, AgentOK
  <1>2. CASE Disconnect
    <2>1. /\ online' = FALSE /\ chan' = <<>>
          /\ spent' \in [frames : Nat, switches : Nat, outages : Nat, user : Nat]
          /\ UNCHANGED <<mode, tableVars, now, aging, frame, dropped, emitter, view, limit, lagged, closed>>
      BY <1>0, <1>2, SpentTypes DEF Disconnect, AgentOK
    <2>2. chan' \in Seq(Event) /\ Len(chan') <= ChannelCap
      BY <2>1, FlowTableAssumption
    <2>3. ChannelOK' /\ ViewOK'
      BY <1>0, <2>1, <2>2 DEF ChannelOK, ViewOK
    <2>. QED BY <1>0, <2>1, <2>3 DEF TypeOK, AgentOK
  <1>3. CASE Reconnect
    <2>1. /\ online' = TRUE
          /\ UNCHANGED <<mode, tableVars, now, aging, frame, dropped, emitter, chan, view, limit,
                         lagged, closed, spent>>
      BY <1>3 DEF Reconnect
    <2>. QED BY <1>0, <2>1 DEF TypeOK, AgentOK, ChannelOK, ViewOK
  <1>4. CASE UserReset
    <2>1. /\ view' = <<>>
          /\ spent' \in [frames : Nat, switches : Nat, outages : Nat, user : Nat]
          /\ UNCHANGED <<mode, tableVars, now, aging, frame, dropped, emitter, chan, online, limit,
                         lagged, closed>>
      BY <1>0, <1>4, SpentTypes DEF UserReset, AgentOK
    <2>2. ViewOK'
      <3>1. limit \in Nat
        BY <1>0, FlowTableAssumption DEF ViewOK
      <3>. QED BY <1>0, <2>1, <3>1 DEF ViewOK, Distinct
    <2>. QED BY <1>0, <2>1, <2>2 DEF TypeOK, AgentOK, ChannelOK
  <1>5. ASSUME NEW n \in Limits, SetLimit(n) PROVE TypeOK'
    <2>1. /\ limit' = n /\ view' = Truncated(view, n)
          /\ spent' \in [frames : Nat, switches : Nat, outages : Nat, user : Nat]
          /\ UNCHANGED <<mode, tableVars, now, aging, frame, dropped, emitter, chan, online, lagged, closed>>
      BY <1>0, <1>5, SpentTypes DEF SetLimit, AgentOK
    <2>2. ViewOK'
      <3>1. n \in Nat
        BY FlowTableAssumption
      <3>. QED BY <1>0, <2>1, <3>1, TruncatedFacts DEF ViewOK
    <2>. QED BY <1>0, <2>1, <2>2 DEF TypeOK, AgentOK, ChannelOK
  <1>6. CASE Tick
    <2>1. /\ now' \in 0..MaxTime
          /\ UNCHANGED <<mode, tableVars, aging, frame, dropped, emitter, chan, viewVars, lagged,
                         closed, spent>>
      BY <1>0, <1>6, FlowTableAssumption DEF Tick, AgentOK
    <2>. QED BY <1>0, <2>1 DEF TypeOK, AgentOK, ChannelOK, ViewOK, viewVars
  <1>. QED BY <1>1, <1>2, <1>3, <1>4, <1>5, <1>6 DEF Tab

LEMMA TypeStep == TypeOK /\ [Next]_vars => TypeOK'
  <1>. SUFFICES ASSUME TypeOK, [Next]_vars PROVE TypeOK'
    OBVIOUS
  <1>1. CASE Next
    BY <1>1, CaptureType, EmitType, TabType DEF Next
  <1>2. CASE UNCHANGED vars
    BY <1>2 DEF vars, tableVars, viewVars, TypeOK, AgentOK, ChannelOK, ViewOK
  <1>. QED BY <1>1, <1>2

\* Every variable keeps its type: in particular the broadcast channel never
\* holds more than its capacity, and the tab's list is within its limit and
\* shows each connection once.
THEOREM TypeCorrect == Spec => []TypeOK
  BY InitType, TypeStep, PTL DEF Spec

-----------------------------------------------------------------------------
(***************************************************************************)
(* Every flow is closed exactly once.                                      *)
(***************************************************************************)

\* The capture thread announces what it dropped before it reads a frame.
DropsFirst == frame # NoFrame => dropped = {}

AccountInv == TypeOK /\ DropsFirst /\ FlowsAccounted

LEMMA FiniteKeys ==
  ASSUME NEW S \in SUBSET Key PROVE IsFiniteSet(S) /\ Cardinality(S) \in Nat
  BY KeyFinite, FS_Subset, FS_CardinalityType

LEMMA SplitCardinality ==
  ASSUME NEW S \in SUBSET Key, NEW T \in SUBSET S
  PROVE  Cardinality(S) = Cardinality(S \ T) + Cardinality(T)
  <1>1. IsFiniteSet(S) /\ IsFiniteSet(T) /\ Cardinality(S) \in Nat /\ Cardinality(T) \in Nat
    BY FiniteKeys
  <1>2. Cardinality(S \ T) = Cardinality(S) - Cardinality(S \cap T)
    BY <1>1, FS_Difference
  <1>3. S \cap T = T
    OBVIOUS
  <1>. QED BY <1>1, <1>2, <1>3

LEMMA OneMore ==
  ASSUME NEW S \in SUBSET Key, NEW k \in Key, k \notin S
  PROVE  Cardinality(S \cup {k}) = Cardinality(S) + 1
  BY FiniteKeys, FS_AddElement

LEMMA OneLess ==
  ASSUME NEW S \in SUBSET Key, NEW k \in S
  PROVE  Cardinality(S) = Cardinality(S \ {k}) + 1
  <1>1. Cardinality({k}) = 1
    BY FS_Singleton
  <1>. QED BY <1>1, SplitCardinality

LEMMA PendingType == ASSUME AgentOK PROVE PendingCloses \in SUBSET Key
  BY EmitterSend DEF AgentOK, PendingCloses

LEMMA AccountTypes ==
  ASSUME TypeOK
  PROVE  /\ AgentOK /\ Live(flows) \in SUBSET Key /\ dropped \in SUBSET Key
         /\ PendingCloses \in SUBSET Key
         /\ Cardinality(Live(flows)) \in Nat /\ Cardinality(PendingCloses) \in Nat
         /\ Cardinality(dropped) \in Nat /\ closed \in Nat
         /\ counters.observed \in Nat /\ counters.idle \in Nat /\ counters.capacity \in Nat
         /\ spent.switches \in Nat
  <1>1. AgentOK /\ closed \in Nat
    BY DEF TypeOK, ChannelOK
  <1>2. /\ Live(flows) \in SUBSET Key /\ dropped \in SUBSET Key
        /\ counters.observed \in Nat /\ counters.idle \in Nat /\ counters.capacity \in Nat
        /\ spent.switches \in Nat
    BY <1>1 DEF AgentOK, Live
  <1>3. PendingCloses \in SUBSET Key
    BY <1>1, PendingType
  <1>. QED BY <1>1, <1>2, <1>3, FiniteKeys

\* A step that touches neither the table nor a close.
LEMMA AccountQuiet ==
  ASSUME FlowsAccounted, UNCHANGED <<flows, counters, closed, dropped>>,
         PendingCloses' = PendingCloses, spent'.switches = spent.switches
  PROVE  FlowsAccounted'
  BY DEF FlowsAccounted

LEMMA AccountCapture ==
  ASSUME AccountInv, Capture PROVE DropsFirst' /\ FlowsAccounted'
  <1>. USE DEF tableVars
  <1>0. TypeOK /\ DropsFirst /\ FlowsAccounted
    BY DEF AccountInv
  <1>. DEFINE L == Cardinality(Live(flows))
              P == Cardinality(PendingCloses)
              D == Cardinality(dropped)
  <1>00. /\ AgentOK /\ Live(flows) \in SUBSET Key /\ dropped \in SUBSET Key
         /\ L \in Nat /\ P \in Nat /\ D \in Nat /\ closed \in Nat
         /\ counters.observed \in Nat /\ counters.idle \in Nat /\ counters.capacity \in Nat
         /\ spent.switches \in Nat
         /\ counters.observed = L + (closed + P + D)
         /\ spent.switches = 0 => counters.idle + counters.capacity = closed + P + D
    BY <1>0, AccountTypes DEF FlowsAccounted
  <1>01. Cardinality({}) = 0
    BY FS_EmptySet
  <1>1. ASSUME NEW p \in Packet, NextFrame(p) PROVE DropsFirst' /\ FlowsAccounted'
    <2>1. /\ UNCHANGED <<flows, counters, closed, dropped, emitter>> /\ dropped = {}
          /\ spent'.switches = spent.switches
      BY <1>00, <1>1 DEF NextFrame, AgentOK
    <2>. QED BY <1>0, <2>1, AccountQuiet DEF DropsFirst, PendingCloses
  <1>2. CASE Observe
    <2>1. /\ UNCHANGED <<emitter, closed, spent>> /\ frame # NoFrame /\ frame' = NoFrame
      BY <1>00, <1>2, ObserveCases
    <2>2. PendingCloses' = PendingCloses /\ dropped = {} /\ D = 0 /\ DropsFirst'
      BY <1>0, <1>01, <2>1 DEF PendingCloses, DropsFirst
    <2>3. CASE UNCHANGED <<flows, counters, dropped>>
      BY <1>0, <2>1, <2>2, <2>3, AccountQuiet
    <2>4. CASE \E k \in Key, f \in Flow :
                 /\ Live(flows') = Live(flows) \cup {k}
                 /\ \/ k \in Live(flows) /\ dropped' = {} /\ counters' = Counted(0, 0, 0)
                    \/ k \notin Live(flows) /\ dropped' = {} /\ counters' = Counted(1, 0, 0)
                    \/ k \in Live(flows) /\ dropped' = {k} /\ counters' = Counted(1, 1, 0)
      <3>1. PICK k \in Key :
                 /\ Live(flows') = Live(flows) \cup {k}
                 /\ \/ k \in Live(flows) /\ dropped' = {} /\ counters' = Counted(0, 0, 0)
                    \/ k \notin Live(flows) /\ dropped' = {} /\ counters' = Counted(1, 0, 0)
                    \/ k \in Live(flows) /\ dropped' = {k} /\ counters' = Counted(1, 1, 0)
        BY <2>4
      <3>2. CASE k \in Live(flows) /\ dropped' = {} /\ counters' = Counted(0, 0, 0)
        <4>1. Live(flows') = Live(flows)
          BY <3>1, <3>2
        <4>2. Cardinality(Live(flows')) = L /\ Cardinality(dropped') = 0
          BY <1>01, <3>2, <4>1
        <4>3. counters'.observed = counters.observed /\ counters'.idle = counters.idle
              /\ counters'.capacity = counters.capacity
          BY <1>00, <3>2 DEF Counted
        <4>. QED BY <1>00, <2>1, <2>2, <4>2, <4>3 DEF FlowsAccounted
      <3>3. CASE k \notin Live(flows) /\ dropped' = {} /\ counters' = Counted(1, 0, 0)
        <4>1. Cardinality(Live(flows')) = L + 1
          BY <1>00, <3>1, <3>3, OneMore
        <4>. QED BY <1>00, <2>1, <2>2, <3>3, <4>1 DEF FlowsAccounted, Counted
      <3>4. CASE k \in Live(flows) /\ dropped' = {k} /\ counters' = Counted(1, 1, 0)
        <4>1. Live(flows') = Live(flows) /\ Cardinality(dropped') = 1
          BY <3>1, <3>4, FS_Singleton
        <4>2. Cardinality(Live(flows')) = L
          BY <4>1
        <4>3. counters'.observed = counters.observed + 1 /\ counters'.idle = counters.idle + 1
              /\ counters'.capacity = counters.capacity
          BY <1>00, <3>4 DEF Counted
        <4>. QED BY <1>00, <2>1, <2>2, <4>1, <4>2, <4>3 DEF FlowsAccounted
      <3>. QED BY <3>1, <3>2, <3>3, <3>4
    <2>. QED BY <1>00, <1>2, <2>2, <2>3, <2>4, ObserveCases
  <1>3. CASE CaptureClose
    <2>1. PICK k \in dropped : Send("closed", k) /\ dropped' = dropped \ {k}
      BY <1>3 DEF CaptureClose
    <2>2. closed' = closed + 1 /\ UNCHANGED <<flows, counters, frame, emitter, spent>>
      BY <1>3, <2>1 DEF CaptureClose, Send
    <2>3. D = Cardinality(dropped') + 1 /\ Cardinality(dropped') \in Nat
      BY <1>00, <2>1, OneLess, FiniteKeys
    <2>4. PendingCloses' = PendingCloses /\ DropsFirst'
      BY <1>0, <2>1, <2>2 DEF PendingCloses, DropsFirst
    <2>. QED BY <1>00, <2>2, <2>3, <2>4 DEF FlowsAccounted
  <1>4. ASSUME NEW addrs \in Locals, SwitchInterface(addrs) PROVE DropsFirst' /\ FlowsAccounted'
    <2>1. /\ dropped = {} /\ dropped' = Live(flows) /\ frame = NoFrame /\ frame' = frame
          /\ flows' = [k \in Key |-> NoFlow] /\ UNCHANGED <<counters, emitter, closed>>
      BY <1>4 DEF SwitchInterface
    <2>2. Live(flows') = {}
      BY <2>1 DEF Live
    <2>3. spent'.switches = spent.switches + 1
      BY <1>00, <1>4 DEF SwitchInterface, AgentOK
    <2>4. PendingCloses' = PendingCloses /\ DropsFirst' /\ D = 0
      BY <1>01, <2>1 DEF PendingCloses, DropsFirst
    <2>5. spent'.switches # 0
      BY <1>00, <2>3
    <2>. QED BY <1>00, <1>01, <2>1, <2>2, <2>4, <2>5 DEF FlowsAccounted
  <1>. QED BY <1>1, <1>2, <1>3, <1>4 DEF Capture

LEMMA AccountEmit ==
  ASSUME AccountInv, Emit PROVE DropsFirst' /\ FlowsAccounted'
  <1>. USE DEF tableVars
  <1>0. TypeOK /\ DropsFirst /\ FlowsAccounted
    BY DEF AccountInv
  <1>. DEFINE L == Cardinality(Live(flows))
              P == Cardinality(PendingCloses)
              D == Cardinality(dropped)
  <1>00. /\ AgentOK /\ Live(flows) \in SUBSET Key /\ PendingCloses \in SUBSET Key
         /\ L \in Nat /\ P \in Nat /\ D \in Nat /\ closed \in Nat
         /\ counters.observed \in Nat /\ counters.idle \in Nat /\ counters.capacity \in Nat
         /\ spent.switches \in Nat
         /\ counters.observed = L + (closed + P + D)
         /\ spent.switches = 0 => counters.idle + counters.capacity = closed + P + D
    BY <1>0, AccountTypes DEF FlowsAccounted
  <1>01. UNCHANGED <<frame, dropped, spent>>
    BY DEF Emit, EmitTick, EmitSweep, EmitUpdate, EmitClose, EmitDone
  <1>02. DropsFirst'
    BY <1>0, <1>01 DEF DropsFirst
  <1>1. CASE EmitTick
    <2>1. /\ UNCHANGED <<flows, counters, closed>> /\ emitter.pc = "idle" /\ emitter'.pc = "tick"
      BY <1>1, EmitterTypes DEF EmitTick
    <2>2. PendingCloses' = PendingCloses
      BY <2>1 DEF PendingCloses
    <2>. QED BY <1>0, <1>01, <1>02, <2>1, <2>2, AccountQuiet
  <1>2. CASE EmitSweep
    <2>1. closed' = closed
      BY <1>2 DEF EmitSweep
    <2>2. PICK t \in 0..MaxTime, V \in SUBSET Live(flows) :
            LET idle == {k \in Live(flows) : Stale(k, flows[k], t)}
            IN /\ V \in Victims(Live(flows) \ idle)
               /\ counters' = Counted(0, Cardinality(idle), Cardinality(V))
               /\ emitter' = [pc |-> "send", updates |-> Live(flows'), closes |-> idle \cup V]
               /\ Live(flows') = Live(flows) \ (idle \cup V)
               /\ emitter.pc = "tick"
      BY <1>00, <1>2, SweepFacts
    <2>. DEFINE idle == {k \in Live(flows) : Stale(k, flows[k], t)}
    <2>3. V \subseteq Live(flows) \ idle /\ idle \subseteq Live(flows)
      BY <2>2 DEF Victims
    <2>4. /\ counters' = Counted(0, Cardinality(idle), Cardinality(V))
          /\ Live(flows') = Live(flows) \ (idle \cup V)
          /\ PendingCloses' = idle \cup V /\ PendingCloses = {}
      BY <2>2 DEF PendingCloses
    <2>. HIDE DEF idle
    <2>5. idle \in SUBSET Key /\ V \in SUBSET Key /\ idle \cup V \in SUBSET Live(flows)
      BY <1>00, <2>3
    <2>6. Cardinality(idle) \in Nat /\ Cardinality(V) \in Nat /\ Cardinality(idle \cup V) \in Nat
      BY <1>00, <2>5, FiniteKeys
    <2>7. L = Cardinality(Live(flows')) + Cardinality(idle \cup V)
      BY <1>00, <2>4, <2>5, SplitCardinality
    <2>8. Cardinality(idle \cup V) = Cardinality(V) + Cardinality(idle)
      <3>1. (idle \cup V) \ idle = V
        BY <2>3
      <3>2. idle \cup V \in SUBSET Key
        BY <1>00, <2>5
      <3>. QED BY <3>1, <3>2, SplitCardinality
    <2>9. Cardinality(PendingCloses') = Cardinality(idle \cup V) /\ P = 0
          /\ Cardinality(Live(flows')) \in Nat
      <3>1. Live(flows') \in SUBSET Key
        BY DEF Live
      <3>. QED BY <2>4, <3>1, FiniteKeys, FS_EmptySet
    <2>10. /\ counters'.observed = counters.observed
           /\ counters'.idle = counters.idle + Cardinality(idle)
           /\ counters'.capacity = counters.capacity + Cardinality(V)
      BY <1>00, <2>4 DEF Counted
    <2>. QED BY <1>00, <1>01, <1>02, <2>1, <2>6, <2>7, <2>8, <2>9, <2>10 DEF FlowsAccounted
  <1>3. CASE EmitUpdate
    <2>1. PICK k \in emitter.updates :
            Send("update", k) /\ emitter' = [emitter EXCEPT !.updates = @ \ {k}]
      BY <1>3 DEF EmitUpdate
    <2>2. closed' = closed /\ UNCHANGED <<flows, counters>> /\ emitter.pc = "send"
      BY <1>3, <2>1 DEF EmitUpdate, Send
    <2>3. emitter = [pc |-> "send", updates |-> emitter.updates, closes |-> emitter.closes]
      BY <1>00, <2>2, EmitterSend DEF AgentOK
    <2>4. emitter'.pc = "send" /\ emitter'.closes = emitter.closes
      BY <2>1, <2>3
    <2>5. PendingCloses' = PendingCloses
      BY <2>2, <2>4 DEF PendingCloses
    <2>. QED BY <1>0, <1>01, <1>02, <2>2, <2>5, AccountQuiet
  <1>4. CASE EmitClose
    <2>1. PICK k \in emitter.closes :
            Send("closed", k) /\ emitter' = [emitter EXCEPT !.closes = @ \ {k}]
      BY <1>4 DEF EmitClose
    <2>2. closed' = closed + 1 /\ UNCHANGED <<flows, counters>> /\ emitter.pc = "send"
      BY <1>4, <2>1 DEF EmitClose, Send
    <2>3. emitter = [pc |-> "send", updates |-> emitter.updates, closes |-> emitter.closes]
      BY <1>00, <2>2, EmitterSend DEF AgentOK
    <2>4. emitter'.pc = "send" /\ emitter'.closes = emitter.closes \ {k}
      BY <2>1, <2>3
    <2>5. PendingCloses' = PendingCloses \ {k} /\ k \in PendingCloses
      BY <2>1, <2>2, <2>4 DEF PendingCloses
    <2>6. P = Cardinality(PendingCloses') + 1 /\ Cardinality(PendingCloses') \in Nat
      <3>1. PendingCloses \ {k} \in SUBSET Key
        BY <1>00
      <3>. QED BY <1>00, <2>5, <3>1, OneLess, FiniteKeys
    <2>. QED BY <1>00, <1>01, <1>02, <2>2, <2>6 DEF FlowsAccounted
  <1>5. CASE EmitDone
    <2>1. /\ UNCHANGED <<flows, counters, closed>> /\ emitter.pc = "send" /\ emitter.closes = {}
          /\ emitter'.pc = "idle"
      BY <1>5, EmitterTypes DEF EmitDone
    <2>2. PendingCloses' = PendingCloses
      BY <2>1 DEF PendingCloses
    <2>. QED BY <1>0, <1>01, <1>02, <2>1, <2>2, AccountQuiet
  <1>. QED BY <1>1, <1>2, <1>3, <1>4, <1>5 DEF Emit

LEMMA AccountTab ==
  ASSUME AccountInv, Tab \/ Tick PROVE DropsFirst' /\ FlowsAccounted'
  <1>0. TypeOK /\ DropsFirst /\ FlowsAccounted
    BY DEF AccountInv
  <1>1. UNCHANGED <<flows, counters, closed, dropped, frame, emitter>>
    BY DEF Tab, Tick, Deliver, Disconnect, Reconnect, UserReset, SetLimit, tableVars
  <1>2. spent'.switches = spent.switches
    BY <1>0 DEF Tab, Tick, Deliver, Disconnect, Reconnect, UserReset, SetLimit, TypeOK, AgentOK
  <1>3. PendingCloses' = PendingCloses /\ DropsFirst'
    BY <1>0, <1>1 DEF PendingCloses, DropsFirst
  <1>. QED BY <1>0, <1>1, <1>2, <1>3, AccountQuiet

\* Every observed flow is live, closed exactly once or about to be, for any
\* interleaving of observation, sweep, switch and sends; and without a switch
\* the eviction counters are the closes.
THEOREM EveryFlowAccounted == Spec => []FlowsAccounted
  <1>1. Init => AccountInv
    <2>. SUFFICES ASSUME Init PROVE AccountInv
      OBVIOUS
    <2>1. TypeOK /\ DropsFirst
      BY InitType DEF Init, DropsFirst
    <2>2. /\ Live(flows) = {} /\ dropped = {} /\ PendingCloses = {} /\ closed = 0
          /\ counters = [observed |-> 0, idle |-> 0, capacity |-> 0]
      BY EmitterTypes DEF Init, Live, PendingCloses
    <2>3. FlowsAccounted
      BY <2>2, FS_EmptySet DEF FlowsAccounted
    <2>. QED BY <2>1, <2>3 DEF AccountInv
  <1>2. AccountInv /\ [Next]_vars => AccountInv'
    <2>. SUFFICES ASSUME AccountInv, [Next]_vars PROVE AccountInv'
      OBVIOUS
    <2>1. TypeOK'
      BY TypeStep DEF AccountInv
    <2>2. CASE Next
      BY <2>1, <2>2, AccountCapture, AccountEmit, AccountTab DEF Next, AccountInv
    <2>3. CASE UNCHANGED vars
      BY <2>1, <2>3 DEF vars, tableVars, AccountInv, DropsFirst, FlowsAccounted, PendingCloses
    <2>. QED BY <2>2, <2>3
  <1>3. AccountInv => FlowsAccounted
    BY DEF AccountInv
  <1>. QED BY <1>1, <1>2, <1>3, PTL DEF Spec

-----------------------------------------------------------------------------
(***************************************************************************)
(* Both directions of a connection are one flow.                           *)
(***************************************************************************)

\* The order key_for gives the endpoints of every flow in the table.
Oriented(k, addrs) ==
  \/ k.laddr \in addrs
  \/ addrs = {} /\ (k.laddr < k.raddr \/ (k.laddr = k.raddr /\ k.lport <= k.rport))

OrientedInv == TypeOK /\ \A k \in Live(flows) : Oriented(k, local)

LEMMA KeyForOriented ==
  ASSUME NEW addrs, NEW p \in Packet, KeyFor(addrs, p) \in Key
  PROVE  Oriented(KeyFor(addrs, p), addrs)
  <1>0. /\ p.src \in Int /\ p.dst \in Int /\ p.sport \in Int /\ p.dport \in Int
    BY FlowTableAssumption DEF Packet
  <1>1. CASE p.src \in addrs
    <2>1. KeyFor(addrs, p) = Outbound(p)
      BY <1>1 DEF KeyFor
    <2>. QED BY <1>1, <2>1 DEF Outbound, Oriented
  <1>2. CASE p.src \notin addrs /\ p.dst \in addrs
    <2>1. KeyFor(addrs, p) = Inbound(p)
      BY <1>2 DEF KeyFor
    <2>. QED BY <1>2, <2>1 DEF Inbound, Oriented
  <1>3. CASE addrs = {} /\ SrcIsCanonicalLocal(p)
    <2>1. KeyFor(addrs, p) = Outbound(p)
      BY <1>3 DEF KeyFor
    <2>. QED BY <1>3, <2>1 DEF Outbound, Oriented, SrcIsCanonicalLocal
  <1>4. CASE addrs = {} /\ ~SrcIsCanonicalLocal(p)
    <2>1. KeyFor(addrs, p) = Inbound(p)
      BY <1>4 DEF KeyFor
    <2>. QED BY <1>0, <1>4, <2>1 DEF Inbound, Oriented, SrcIsCanonicalLocal
  <1>5. CASE addrs # {} /\ p.src \notin addrs /\ p.dst \notin addrs
    <2>1. KeyFor(addrs, p) = NoKey
      BY <1>5 DEF KeyFor
    <2>. QED BY <2>1, NotValues
  <1>. QED BY <1>1, <1>2, <1>3, <1>4, <1>5

\* Two oriented flows of one connection are the same flow or join two of the
\* host's own addresses.
LEMMA OrientedUnique ==
  ASSUME NEW k \in Key, NEW addrs, Oriented(k, addrs), Oriented(Reverse(k), addrs)
  PROVE  Reverse(k) = k \/ {k.laddr, k.raddr} \subseteq addrs
  <1>. DEFINE r == Reverse(k)
  <1>1. /\ k = [proto |-> k.proto, laddr |-> k.laddr, lport |-> k.lport,
                raddr |-> k.raddr, rport |-> k.rport]
        /\ k.laddr \in Int /\ k.raddr \in Int /\ k.lport \in Int /\ k.rport \in Int
    BY FlowTableAssumption DEF Key
  <1>2. r = [proto |-> k.proto, laddr |-> k.raddr, lport |-> k.rport,
             raddr |-> k.laddr, rport |-> k.lport]
    BY DEF Reverse
  <1>. HIDE DEF r
  <1>3. r.laddr = k.raddr /\ r.raddr = k.laddr /\ r.lport = k.rport /\ r.rport = k.lport
    BY <1>2
  <1>4. CASE addrs = {}
    <2>1. k.laddr = k.raddr /\ k.lport = k.rport
      BY <1>1, <1>3, <1>4 DEF Oriented, r
    <2>. QED BY <1>1, <1>2, <2>1 DEF r
  <1>5. CASE addrs # {}
    BY <1>3, <1>5 DEF Oriented, r
  <1>. QED BY <1>4, <1>5

LEMMA OrientedStep == OrientedInv /\ [Next]_vars => OrientedInv'
  <1>. SUFFICES ASSUME OrientedInv, [Next]_vars PROVE OrientedInv'
    OBVIOUS
  <1>0. TypeOK /\ AgentOK /\ TypeOK'
    BY TypeStep DEF OrientedInv, TypeOK
  <1>1. CASE UNCHANGED <<flows, local>>
    BY <1>0, <1>1 DEF OrientedInv
  <1>2. CASE Observe
    <2>1. local' = local
      BY <1>0, <1>2, ObserveCases
    <2>2. CASE flows' = flows
      BY <1>0, <2>1, <2>2 DEF OrientedInv
    <2>3. CASE \E k \in Key : k = KeyFor(local, frame.pkt) /\ Live(flows') = Live(flows) \cup {k}
      <3>1. frame.pkt \in Packet
        BY <1>0, <1>2, FrameTypes DEF AgentOK, Observe
      <3>2. Oriented(KeyFor(local, frame.pkt), local)
        BY <2>3, <3>1, KeyForOriented
      <3>. QED BY <1>0, <2>1, <2>3, <3>2 DEF OrientedInv
    <2>. QED BY <1>0, <1>2, <2>2, <2>3, ObserveCases
  <1>3. ASSUME NEW addrs \in Locals, SwitchInterface(addrs) PROVE OrientedInv'
    <2>1. Live(flows') = {}
      BY <1>3 DEF SwitchInterface, Live
    <2>. QED BY <1>0, <2>1 DEF OrientedInv
  <1>4. CASE EmitSweep
    <2>1. local' = local
      BY <1>4 DEF EmitSweep
    <2>2. Live(flows') \subseteq Live(flows)
      BY <1>0, <1>4, SweepFacts
    <2>. QED BY <1>0, <2>1, <2>2 DEF OrientedInv
  <1>5. CASE \/ \E p \in Packet : NextFrame(p)
             \/ CaptureClose \/ EmitTick \/ EmitUpdate \/ EmitClose \/ EmitDone \/ Tab \/ Tick
    <2>1. UNCHANGED <<flows, local>>
      BY <1>5 DEF NextFrame, CaptureClose, EmitTick, EmitUpdate, EmitClose, EmitDone, Tab, Tick,
                  Deliver, Disconnect, Reconnect, UserReset, SetLimit, tableVars
    <2>. QED BY <1>1, <2>1
  <1>6. CASE UNCHANGED vars
    BY <1>1, <1>6 DEF vars, tableVars
  <1>. QED BY <1>2, <1>3, <1>4, <1>5, <1>6 DEF Next, Capture, Emit

\* key_for keeps both directions of a connection in one flow, whatever the
\* interface is switched to, unless both endpoints are the host's own.
THEOREM OneFlow == Spec => []OneFlowUnlessBothLocal
  <1>1. Init => OrientedInv
    BY InitType DEF Init, OrientedInv, Live
  <1>2. OrientedInv => OneFlowUnlessBothLocal
    <2>. SUFFICES ASSUME OrientedInv, NEW k \in Live(flows), Reverse(k) \in Live(flows)
                  PROVE  Reverse(k) = k \/ {k.laddr, k.raddr} \subseteq local
      BY DEF OneFlowUnlessBothLocal
    <2>1. k \in Key /\ Oriented(k, local) /\ Oriented(Reverse(k), local)
      BY DEF OrientedInv, Live
    <2>. QED BY <2>1, OrientedUnique
  <1>. QED BY <1>1, <1>2, OrientedStep, PTL DEF Spec

-----------------------------------------------------------------------------
(***************************************************************************)
(* Fresh flows survive.                                                    *)
(***************************************************************************)

\* A reading of the agent's clock is never ahead of it.
ClockInv == TypeOK /\ (emitter.pc = "tick" => emitter.at <= now)

LEMMA ThresholdBound ==
  ASSUME NEW k \in Key, NEW f \in Flow
  PROVE  IdleThreshold(k, f) \in Nat /\ SynIdle <= IdleThreshold(k, f)
  <1>0. StatusFor(k, f) \in {"TIME_WAIT", "CLOSE_WAIT", "SYN_SENT", "ESTABLISHED"}
    BY DEF StatusFor
  <1>1. CASE StatusFor(k, f) \in {"TIME_WAIT", "CLOSE_WAIT"}
    <2>1. IdleThreshold(k, f) = ClosingIdle
      BY <1>1 DEF IdleThreshold
    <2>. QED BY <2>1, FlowTableAssumption
  <1>2. CASE StatusFor(k, f) = "SYN_SENT"
    <2>1. IdleThreshold(k, f) = SynIdle
      BY <1>2 DEF IdleThreshold
    <2>. QED BY <2>1, FlowTableAssumption
  <1>3. CASE StatusFor(k, f) = "ESTABLISHED"
    <2>1. IdleThreshold(k, f) = IF k.proto = "tcp" THEN LongIdle ELSE UdpIdle
      BY <1>3 DEF IdleThreshold
    <2>. QED BY <2>1, FlowTableAssumption
  <1>. QED BY <1>0, <1>1, <1>2, <1>3

LEMMA ClockStep == ClockInv /\ [Next]_vars => ClockInv'
  <1>. SUFFICES ASSUME ClockInv, [Next]_vars PROVE ClockInv'
    OBVIOUS
  <1>. USE DEF tableVars, viewVars
  <1>0. TypeOK /\ AgentOK /\ TypeOK' /\ AgentOK' /\ now \in Nat /\ now' \in Nat
    BY TypeStep, FlowTableAssumption DEF ClockInv, TypeOK, AgentOK
  <1>1. CASE emitter' = emitter /\ now <= now'
    <2>1. emitter.pc = "tick" => emitter.at \in Int
      BY <1>0, EmitterTick DEF AgentOK
    <2>. QED BY <1>0, <1>1, <2>1 DEF ClockInv
  <1>2. CASE EmitTick
    BY <1>0, <1>2 DEF EmitTick, ClockInv
  <1>3. CASE EmitSweep
    <2>1. PICK U, C : emitter' = [pc |-> "send", updates |-> U, closes |-> C]
      BY <1>3 DEF EmitSweep
    <2>. QED BY <1>0, <2>1 DEF ClockInv
  <1>4. CASE EmitUpdate \/ EmitClose
    <2>1. emitter = [pc |-> "send", updates |-> emitter.updates, closes |-> emitter.closes]
      BY <1>0, <1>4, EmitterSend DEF EmitUpdate, EmitClose, AgentOK
    <2>2. ASSUME EmitUpdate PROVE emitter'.pc = "send"
      <3>1. PICK k : emitter' = [emitter EXCEPT !.updates = @ \ {k}]
        BY <2>2 DEF EmitUpdate
      <3>. QED BY <2>1, <3>1
    <2>3. ASSUME EmitClose PROVE emitter'.pc = "send"
      <3>1. PICK k : emitter' = [emitter EXCEPT !.closes = @ \ {k}]
        BY <2>3 DEF EmitClose
      <3>. QED BY <2>1, <3>1
    <2>4. emitter'.pc = "send"
      BY <1>4, <2>2, <2>3
    <2>. QED BY <1>0, <2>4 DEF ClockInv
  <1>5. CASE EmitDone
    <2>1. emitter'.pc = "idle"
      BY <1>5, EmitterTypes DEF EmitDone
    <2>. QED BY <1>0, <2>1 DEF ClockInv
  <1>6. CASE Capture \/ Tab \/ UNCHANGED vars
    <2>1. UNCHANGED <<emitter, now>>
      BY <1>6 DEF Capture, NextFrame, Observe, CaptureClose, SwitchInterface, Tab, Deliver,
                  Disconnect, Reconnect, UserReset, SetLimit, vars
    <2>. QED BY <1>0, <1>1, <2>1
  <1>7. CASE Tick
    <2>1. emitter' = emitter /\ now' = now + 1
      BY <1>7 DEF Tick
    <2>. QED BY <1>0, <1>1, <2>1
  <1>. QED BY <1>2, <1>3, <1>4, <1>5, <1>6, <1>7 DEF Next, Emit

\* No flow is evicted as idle that was seen within the shortest threshold, on
\* the clock that its table ages by, although the emitter's reading of the
\* agent's clock may be older than the flow's last packet.
THEOREM NoFreshEviction == Spec => FreshFlowsSurvive
  <1>. DEFINE Kept ==
         \A k \in Live(flows) :
           flows'[k] = NoFlow =>
             \/ spent'.switches # spent.switches
             \/ counters'.capacity > counters.capacity
             \/ (IF mode = "replay" THEN aging ELSE now) - flows[k].seen > SynIdle
  <1>1. Init => ClockInv
    BY InitType, EmitterTypes DEF Init, ClockInv
  <1>2. ClockInv /\ [Next]_vars => [Kept]_vars
    <2>. SUFFICES ASSUME ClockInv, [Next]_vars,
                         NEW k \in Live(flows), flows'[k] = NoFlow
                  PROVE  \/ spent'.switches # spent.switches
                         \/ counters'.capacity > counters.capacity
                         \/ (IF mode = "replay" THEN aging ELSE now) - flows[k].seen > SynIdle
      OBVIOUS
    <2>0. TypeOK /\ AgentOK
      BY DEF ClockInv, TypeOK
    <2>1. k \in Key /\ flows[k] # NoFlow /\ flows[k] \in Flow /\ flows[k].seen \in Nat
      BY <2>0 DEF Live, AgentOK, Flow
    <2>2. CASE flows' = flows
      BY <2>1, <2>2
    <2>3. CASE Observe
      <3>1. CASE \E j \in Key, f \in Flow : flows' = [flows EXCEPT ![j] = f]
        BY <2>0, <2>1, <3>1, NotValues DEF AgentOK
      <3>. QED BY <2>0, <2>2, <2>3, <3>1, ObserveCases
    <2>4. ASSUME NEW addrs \in Locals, SwitchInterface(addrs) PROVE spent'.switches # spent.switches
      BY <2>0, <2>4 DEF SwitchInterface, AgentOK
    <2>5. CASE EmitSweep
      <3>1. PICK t \in 0..MaxTime, V \in SUBSET Live(flows) :
              LET idle == {j \in Live(flows) : Stale(j, flows[j], t)}
              IN /\ t = (IF mode = "replay" THEN aging ELSE emitter.at)
                 /\ flows' = [j \in Key |-> IF j \in idle \cup V THEN NoFlow ELSE flows[j]]
                 /\ counters' = Counted(0, Cardinality(idle), Cardinality(V))
                 /\ emitter.pc = "tick"
        BY <2>0, <2>5, SweepFacts
      <3>2. CASE k \in V
        <4>1. IsFiniteSet(V) /\ Cardinality(V) \in Nat /\ V # {}
          <5>1. V \in SUBSET Key
            BY DEF Live
          <5>. QED BY <3>2, <5>1, FiniteKeys
        <4>2. Cardinality(V) # 0
          BY <4>1, FS_EmptySet
        <4>3. counters'.capacity = counters.capacity + Cardinality(V) /\ counters.capacity \in Nat
          BY <2>0, <3>1 DEF Counted, AgentOK
        <4>. QED BY <4>1, <4>2, <4>3
      <3>3. CASE k \notin V
        <4>1. Stale(k, flows[k], t)
          BY <2>1, <3>1, <3>3
        <4>2. IdleThreshold(k, flows[k]) \in Nat /\ SynIdle <= IdleThreshold(k, flows[k])
          BY <2>1, ThresholdBound
        <4>3. t - flows[k].seen > SynIdle
          <5>1. t \in Nat /\ SynIdle \in Nat
            BY FlowTableAssumption
          <5>. QED BY <2>1, <4>1, <4>2, <5>1 DEF Stale, Since
        <4>4. CASE mode = "replay"
          BY <3>1, <4>3, <4>4
        <4>5. CASE mode # "replay"
          <5>1. t = emitter.at /\ emitter.at <= now /\ now \in Int /\ SynIdle \in Int
            BY <2>0, <3>1, <4>5, FlowTableAssumption DEF ClockInv, AgentOK
          <5>. QED BY <2>1, <4>3, <4>5, <5>1
        <4>. QED BY <4>4, <4>5
      <3>. QED BY <3>2, <3>3
    <2>6. CASE \/ \E p \in Packet : NextFrame(p)
               \/ CaptureClose \/ EmitTick \/ EmitUpdate \/ EmitClose \/ EmitDone \/ Tab \/ Tick
      <3>1. flows' = flows
        BY <2>6 DEF NextFrame, CaptureClose, EmitTick, EmitUpdate, EmitClose, EmitDone, Tab, Tick,
                    Deliver, Disconnect, Reconnect, UserReset, SetLimit, tableVars
      <3>. QED BY <2>2, <3>1
    <2>7. CASE UNCHANGED vars
      BY <2>2, <2>7 DEF vars, tableVars
    <2>. QED BY <2>3, <2>4, <2>5, <2>6, <2>7 DEF Next, Capture, Emit
  <1>3. [][Kept]_vars => FreshFlowsSurvive
    BY PTL DEF FreshFlowsSurvive
  <1>. QED BY <1>1, <1>2, <1>3, ClockStep, PTL DEF Spec

-----------------------------------------------------------------------------
(***************************************************************************)
(* A tab that received everything shows no flow that is gone.              *)
(***************************************************************************)

\* Of the events on their way for a connection the last one is its close; if
\* there are none, the tab does not show it.
Retired(k) ==
  \/ \E i \in DOMAIN chan :
       /\ chan[i].type = "closed" /\ chan[i].key = k
       /\ \A j \in DOMAIN chan : j > i => chan[j].key # k
  \/ (\A j \in DOMAIN chan : chan[j].key # k) /\ k \notin Shown

\* As long as nothing was lost: what the emitter is about to report is in the
\* table, and of what is not in the table the close is due or was the last word.
RetiredInv ==
  /\ TypeOK
  /\ (~lagged /\ spent.switches = 0 /\ spent.outages = 0) =>
       /\ online
       /\ emitter.pc = "send" => emitter.updates \subseteq Live(flows)
       /\ \A k \in Key \ Live(flows) : k \in PendingCloses \/ Retired(k)

\* Sending an event keeps every other connection retired, and a close retires
\* its own, if the event is not lost.
LEMMA SendRetires ==
  ASSUME TypeOK, online, NEW type \in {"update", "closed"}, NEW k \in Key, Send(type, k),
         ~lagged', view' = view
  PROVE  /\ \A j \in Key : j # k /\ Retired(j) => Retired(j)'
         /\ type = "closed" => Retired(k)'
  <1>. DEFINE e == [type |-> type, key |-> k]
              n == Len(chan)
  <1>1. chan \in Seq(Event) /\ n \in Nat /\ DOMAIN chan = 1..n /\ e \in Event
    BY EventType DEF TypeOK, ChannelOK
  <1>2. chan' = Append(chan, e)
    <2>1. ~(Len(chan) >= ChannelCap)
      BY DEF Send
    <2>2. Len(chan) < ChannelCap
      BY <1>1, <2>1, FlowTableAssumption
    <2>. QED BY <2>2 DEF Send
  <1>3. e.type = type /\ e.key = k
    OBVIOUS
  <1>. HIDE DEF e
  <1>4. /\ DOMAIN chan' = 1..(n + 1) /\ chan'[n + 1] = e
        /\ \A i \in 1..n : chan'[i] = chan[i]
    BY <1>1, <1>2
  <1>. HIDE DEF n
  <1>5. Shown' = Shown
    BY DEF Shown
  <1>6. ASSUME NEW j \in Key, j # k, Retired(j) PROVE Retired(j)'
    <2>1. CASE (\A i \in DOMAIN chan : chan[i].key # j) /\ j \notin Shown
      <3>1. \A i \in DOMAIN chan' : chan'[i].key # j
        BY <1>1, <1>3, <1>4, <1>6, <2>1
      <3>. QED BY <1>5, <2>1, <3>1 DEF Retired
    <2>2. CASE \E i \in DOMAIN chan :
                 /\ chan[i].type = "closed" /\ chan[i].key = j
                 /\ \A m \in DOMAIN chan : m > i => chan[m].key # j
      <3>1. PICK i \in DOMAIN chan :
                 /\ chan[i].type = "closed" /\ chan[i].key = j
                 /\ \A m \in DOMAIN chan : m > i => chan[m].key # j
        BY <2>2
      <3>2. i \in DOMAIN chan' /\ chan'[i].type = "closed" /\ chan'[i].key = j
        BY <1>1, <1>4, <3>1
      <3>3. \A m \in DOMAIN chan' : m > i => chan'[m].key # j
        BY <1>1, <1>3, <1>4, <1>6, <3>1
      <3>. QED BY <3>2, <3>3 DEF Retired
    <2>. QED BY <1>6, <2>1, <2>2 DEF Retired
  <1>7. ASSUME type = "closed" PROVE Retired(k)'
    <2>1. /\ n + 1 \in DOMAIN chan' /\ chan'[n + 1].type = "closed" /\ chan'[n + 1].key = k
          /\ \A m \in DOMAIN chan' : ~(m > n + 1)
      BY <1>1, <1>3, <1>4, <1>7
    <2>. QED BY <2>1 DEF Retired
  <1>. QED BY <1>6, <1>7

\* Delivering the oldest event keeps every connection retired.
LEMMA DeliverRetires ==
  ASSUME TypeOK, Deliver, NEW k \in Key, Retired(k)
  PROVE  Retired(k)'
  <1>. DEFINE n == Len(chan)
              e == Head(chan)
  <1>1. /\ chan \in Seq(Event) /\ n \in Nat /\ DOMAIN chan = 1..n /\ chan # <<>> /\ n # 0
        /\ chan' = Tail(chan) /\ view' = Applied(e, view) /\ ViewOK
    BY DEF TypeOK, ChannelOK, Deliver
  <1>2. /\ e = chan[1] /\ e \in Event /\ DOMAIN chan' = 1..(n - 1)
        /\ \A i \in 1..(n - 1) : chan'[i] = chan[i + 1]
    BY <1>1
  <1>3. \A i \in DOMAIN view' :
          /\ e.type = "closed" => view'[i] # e.key
          /\ view'[i] = e.key \/ \E j \in DOMAIN view : view'[i] = view[j]
    BY <1>1, <1>2, AppliedFacts
  <1>. HIDE DEF n, e
  <1>4. CASE (\A j \in DOMAIN chan : chan[j].key # k) /\ k \notin Shown
    <2>1. e.key # k /\ \A j \in DOMAIN chan' : chan'[j].key # k
      BY <1>1, <1>2, <1>4
    <2>2. k \notin Shown'
      BY <1>3, <1>4, <2>1 DEF Shown
    <2>. QED BY <2>1, <2>2 DEF Retired
  <1>5. CASE \E i \in DOMAIN chan :
               /\ chan[i].type = "closed" /\ chan[i].key = k
               /\ \A j \in DOMAIN chan : j > i => chan[j].key # k
    <2>1. PICK i \in DOMAIN chan :
               /\ chan[i].type = "closed" /\ chan[i].key = k
               /\ \A j \in DOMAIN chan : j > i => chan[j].key # k
      BY <1>5
    <2>2. CASE i = 1
      <3>1. \A j \in DOMAIN chan' : chan'[j].key # k
        BY <1>1, <1>2, <2>1, <2>2
      <3>2. k \notin Shown'
        BY <1>2, <1>3, <2>1, <2>2 DEF Shown
      <3>. QED BY <3>1, <3>2 DEF Retired
    <2>3. CASE i # 1
      <3>1. i - 1 \in DOMAIN chan' /\ chan'[i - 1] = chan[i]
        BY <1>1, <1>2, <2>1, <2>3
      <3>2. \A j \in DOMAIN chan' : j > i - 1 => chan'[j].key # k
        BY <1>1, <1>2, <2>1, <2>3
      <3>. QED BY <2>1, <3>1, <3>2 DEF Retired
    <2>. QED BY <2>2, <2>3
  <1>. QED BY <1>4, <1>5 DEF Retired

\* A list cut or emptied by the user retires no less.
LEMMA ShrinkRetires ==
  ASSUME chan' = chan, Shown' \subseteq Shown, NEW k, Retired(k)
  PROVE  Retired(k)'
  BY DEF Retired

LEMMA RetiredStep == RetiredInv /\ [Next]_vars => RetiredInv'
  <1>. SUFFICES ASSUME RetiredInv, [Next]_vars PROVE RetiredInv'
    OBVIOUS
  <1>. USE DEF tableVars, viewVars
  <1>0. TypeOK /\ AgentOK /\ TypeOK'
    BY TypeStep DEF RetiredInv, TypeOK
  <1>. SUFFICES ASSUME ~lagged', spent'.switches = 0, spent'.outages = 0
                PROVE  /\ online'
                       /\ emitter'.pc = "send" => emitter'.updates \subseteq Live(flows')
                       /\ \A k \in Key \ Live(flows') : k \in PendingCloses' \/ Retired(k)'
    BY <1>0 DEF RetiredInv
  <1>1. ~lagged /\ spent.switches = 0 /\ spent.outages = 0
    <2>1. ~lagged
      BY DEF Next, Capture, Emit, Tab, NextFrame, Observe, CaptureClose, SwitchInterface, EmitTick,
             EmitSweep, EmitUpdate, EmitClose, EmitDone, Deliver, Disconnect, Reconnect, UserReset,
             SetLimit, Tick, Send, vars
    <2>2. \/ spent' = spent \/ spent' = [spent EXCEPT !.frames = @ + 1]
          \/ spent' = [spent EXCEPT !.switches = @ + 1] \/ spent' = [spent EXCEPT !.outages = @ + 1]
          \/ spent' = [spent EXCEPT !.user = @ + 1]
      BY DEF Next, Capture, Emit, Tab, NextFrame, Observe, CaptureClose, SwitchInterface, EmitTick,
             EmitSweep, EmitUpdate, EmitClose, EmitDone, Deliver, Disconnect, Reconnect, UserReset,
             SetLimit, Tick, vars
    <2>3. spent \in [frames : Nat, switches : Nat, outages : Nat, user : Nat]
      BY <1>0 DEF AgentOK
    <2>4. spent.switches = 0 /\ spent.outages = 0
      BY <2>2, <2>3
    <2>. QED BY <2>1, <2>4
  <1>2. /\ online
        /\ emitter.pc = "send" => emitter.updates \subseteq Live(flows)
        /\ \A k \in Key \ Live(flows) : k \in PendingCloses \/ Retired(k)
    BY <1>1 DEF RetiredInv
  <1>. DEFINE Goal == /\ online'
                      /\ emitter'.pc = "send" => emitter'.updates \subseteq Live(flows')
                      /\ \A k \in Key \ Live(flows') : k \in PendingCloses' \/ Retired(k)'
  <1>3. ASSUME UNCHANGED <<emitter, chan, online, view>>, Live(flows) \subseteq Live(flows')
        PROVE  Goal
    <2>1. PendingCloses' = PendingCloses /\ Shown' = Shown
      BY <1>3 DEF PendingCloses, Shown
    <2>. QED BY <1>2, <1>3, <2>1, ShrinkRetires
  <1>4. CASE Observe
    <2>1. UNCHANGED <<emitter, chan, online, view>>
      BY <1>0, <1>4, ObserveCases
    <2>2. Live(flows) \subseteq Live(flows')
      BY <1>0, <1>4, ObserveCases
    <2>. QED BY <1>3, <2>1, <2>2
  <1>5. CASE (\E p \in Packet : NextFrame(p)) \/ Tick \/ UNCHANGED vars
    <2>1. UNCHANGED <<emitter, chan, online, view, flows>>
      BY <1>5 DEF NextFrame, Tick, vars
    <2>. QED BY <1>3, <2>1
  <1>6. CASE CaptureClose
    <2>1. PICK k \in dropped : Send("closed", k)
      BY <1>6 DEF CaptureClose
    <2>2. UNCHANGED <<flows, emitter, online, view>> /\ k \in Key
      BY <1>0, <1>6, <2>1 DEF CaptureClose, AgentOK
    <2>3. PendingCloses' = PendingCloses
      BY <2>2 DEF PendingCloses
    <2>4. \A j \in Key : Retired(j) => Retired(j)'
      BY <1>0, <1>2, <2>1, <2>2, SendRetires
    <2>. QED BY <1>2, <2>2, <2>3, <2>4
  <1>7. ASSUME NEW addrs \in Locals, SwitchInterface(addrs) PROVE Goal
    <2>1. spent'.switches = spent.switches + 1
      BY <1>0, <1>7 DEF SwitchInterface, AgentOK
    <2>. QED BY <1>1, <2>1
  <1>8. CASE EmitTick
    <2>1. /\ UNCHANGED <<flows, chan, online, view>> /\ emitter.pc = "idle" /\ emitter'.pc = "tick"
      BY <1>8, EmitterTypes DEF EmitTick
    <2>2. PendingCloses' = PendingCloses /\ Shown' = Shown
      BY <2>1 DEF PendingCloses, Shown
    <2>. QED BY <1>2, <2>1, <2>2, ShrinkRetires
  <1>9. CASE EmitSweep
    <2>1. UNCHANGED <<chan, online, view>>
      BY <1>9 DEF EmitSweep
    <2>2. PICK C \in SUBSET Live(flows) :
            /\ emitter' = [pc |-> "send", updates |-> Live(flows'), closes |-> C]
            /\ Live(flows') = Live(flows) \ C /\ emitter.pc = "tick"
      BY <1>0, <1>9, SweepFacts
    <2>3. PendingCloses' = C /\ PendingCloses = {} /\ Shown' = Shown
      BY <2>1, <2>2 DEF PendingCloses, Shown
    <2>4. \A k \in Key \ Live(flows) : Retired(k)'
      BY <1>2, <2>1, <2>3, ShrinkRetires
    <2>. QED BY <1>2, <2>1, <2>2, <2>3, <2>4
  <1>10. CASE EmitUpdate
    <2>1. PICK k \in emitter.updates :
            Send("update", k) /\ emitter' = [emitter EXCEPT !.updates = @ \ {k}]
      BY <1>10 DEF EmitUpdate
    <2>2. UNCHANGED <<flows, online, view>> /\ emitter.pc = "send"
      BY <1>10 DEF EmitUpdate
    <2>3. /\ emitter = [pc |-> "send", updates |-> emitter.updates, closes |-> emitter.closes]
          /\ emitter.updates \subseteq Key
      BY <1>0, <2>2, EmitterSend DEF AgentOK
    <2>4. /\ emitter'.pc = "send" /\ emitter'.closes = emitter.closes
          /\ emitter'.updates = emitter.updates \ {k}
      BY <2>1, <2>3
    <2>5. PendingCloses' = PendingCloses
      BY <2>2, <2>4 DEF PendingCloses
    <2>6. k \in Live(flows) /\ k \in Key
      BY <1>2, <2>1, <2>2, <2>3
    <2>7. \A j \in Key \ Live(flows) : Retired(j) => Retired(j)'
      BY <1>0, <1>2, <2>1, <2>2, <2>6, SendRetires
    <2>. QED BY <1>2, <2>2, <2>4, <2>5, <2>7
  <1>11. CASE EmitClose
    <2>1. PICK k \in emitter.closes :
            Send("closed", k) /\ emitter' = [emitter EXCEPT !.closes = @ \ {k}]
      BY <1>11 DEF EmitClose
    <2>2. UNCHANGED <<flows, online, view>> /\ emitter.pc = "send"
      BY <1>11 DEF EmitClose
    <2>3. /\ emitter = [pc |-> "send", updates |-> emitter.updates, closes |-> emitter.closes]
          /\ emitter.closes \subseteq Key
      BY <1>0, <2>2, EmitterSend DEF AgentOK
    <2>4. /\ emitter'.pc = "send" /\ emitter'.closes = emitter.closes \ {k}
          /\ emitter'.updates = emitter.updates
      BY <2>1, <2>3
    <2>5. PendingCloses' = PendingCloses \ {k} /\ k \in Key
      BY <2>1, <2>2, <2>3, <2>4 DEF PendingCloses
    <2>6. Retired(k)' /\ \A j \in Key : Retired(j) => Retired(j)'
      BY <1>0, <1>2, <2>1, <2>2, <2>5, SendRetires
    <2>. QED BY <1>2, <2>2, <2>4, <2>5, <2>6
  <1>12. CASE EmitDone
    <2>1. /\ UNCHANGED <<flows, chan, online, view>> /\ emitter.pc = "send"
          /\ emitter.closes = {} /\ emitter'.pc = "idle"
      BY <1>12, EmitterTypes DEF EmitDone
    <2>2. PendingCloses' = PendingCloses /\ Shown' = Shown
      BY <2>1 DEF PendingCloses, Shown
    <2>. QED BY <1>2, <2>1, <2>2, ShrinkRetires
  <1>13. CASE Deliver
    <2>1. UNCHANGED <<flows, emitter, online>>
      BY <1>13 DEF Deliver
    <2>2. PendingCloses' = PendingCloses
      BY <2>1 DEF PendingCloses
    <2>. QED BY <1>0, <1>2, <1>13, <2>1, <2>2, DeliverRetires
  <1>14. CASE Disconnect
    <2>1. spent'.outages = spent.outages + 1
      BY <1>0, <1>14 DEF Disconnect, AgentOK
    <2>. QED BY <1>1, <2>1
  <1>15. CASE Reconnect
    BY <1>2, <1>15 DEF Reconnect
  <1>16. CASE UserReset \/ \E n \in Limits : SetLimit(n)
    <2>1. UNCHANGED <<flows, emitter, chan, online>>
      BY <1>16 DEF UserReset, SetLimit
    <2>2. Shown' \subseteq Shown
      <3>1. CASE UserReset
        BY <3>1 DEF UserReset, Shown
      <3>2. ASSUME NEW n \in Limits, SetLimit(n) PROVE Shown' \subseteq Shown
        <4>1. view \in Seq(Key) /\ Distinct(view) /\ n \in Nat /\ view' = Truncated(view, n)
          BY <1>0, <3>2, FlowTableAssumption DEF TypeOK, ViewOK, SetLimit
        <4>2. \A i \in DOMAIN view' : i \in DOMAIN view /\ view'[i] = view[i]
          BY <4>1, TruncatedFacts
        <4>. QED BY <4>2 DEF Shown
      <3>. QED BY <1>16, <3>1, <3>2
    <2>3. PendingCloses' = PendingCloses
      BY <2>1 DEF PendingCloses
    <2>. QED BY <1>2, <2>1, <2>2, <2>3, ShrinkRetires
  <1>. QED BY <1>4, <1>5, <1>6, <1>7, <1>8, <1>9, <1>10, <1>11, <1>12, <1>13, <1>14, <1>15, <1>16
           DEF Next, Capture, Emit, Tab

\* While its stream neither breaks nor lags and the interface is not switched, a
\* tab that has received everything shows only flows that are in the table.
THEOREM NoZombies == Spec => []NoZombie
  <1>1. Init => RetiredInv
    <2>. SUFFICES ASSUME Init PROVE RetiredInv
      OBVIOUS
    <2>1. /\ TypeOK /\ online /\ emitter.pc = "idle" /\ chan = <<>> /\ view = <<>>
      BY InitType, EmitterTypes DEF Init
    <2>2. DOMAIN chan = {} /\ Shown = {}
      BY <2>1 DEF Shown
    <2>3. \A k \in Key : Retired(k)
      BY <2>2 DEF Retired
    <2>. QED BY <2>1, <2>3 DEF RetiredInv
  <1>2. RetiredInv => NoZombie
    <2>. SUFFICES ASSUME RetiredInv, Settled, ~lagged, spent.switches = 0, spent.outages = 0,
                         NEW k \in Shown, k \notin Live(flows)
                  PROVE  FALSE
      BY DEF NoZombie
    <2>1. k \in Key
      BY DEF RetiredInv, TypeOK, ViewOK, Shown
    <2>2. chan = <<>> /\ PendingCloses = {}
      BY EmitterTypes DEF Settled, PendingCloses
    <2>3. Retired(k)
      BY <2>1, <2>2 DEF RetiredInv
    <2>. QED BY <2>2, <2>3 DEF Retired
  <1>. QED BY <1>1, <1>2, RetiredStep, PTL DEF Spec

=============================================================================
