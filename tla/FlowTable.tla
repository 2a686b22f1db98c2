------------------------------ MODULE FlowTable ------------------------------
(***************************************************************************)
(* The flow table and the connection events built from it: the capture     *)
(* thread that observes packets and resets the table on an interface       *)
(* switch, the emitter task that evicts, snapshots and announces once a    *)
(* second, the broadcast channel, and the connection list of a browser tab *)
(* (capture-agent/src/flow.rs and main.rs, app/page.tsx).                  *)
(*                                                                         *)
(* The table is only touched under its mutex, so each critical section is  *)
(* one step. A clock read before the lock is taken, and every event sent   *)
(* after it is released, are steps of their own.                           *)
(***************************************************************************)
EXTENDS Integers, Sequences, FiniteSets

CONSTANTS
  Addrs,          \* addresses, numbered in the order key_for compares them
  Ports,          \* ports
  Protos,         \* transport protocols with ports
  FlagSets,       \* TCP flag combinations a segment may carry
  Locals,         \* the address sets of interfaces and replays; {} for a replay that knows none
  Modes,          \* "live" or "replay"
  MaxFlows,       \* MAX_FLOWS
  SynIdle,        \* idle_threshold_ms of SYN_SENT
  UdpIdle,        \* of a connectionless flow
  ClosingIdle,    \* of TIME_WAIT and CLOSE_WAIT
  LongIdle,       \* of every other flow
  ChannelCap,     \* capacity of the broadcast channel
  Limits,         \* values of the tab's connection buffer limit
  MaxTime,        \* bound: the agent's clock
  MaxFrames,      \* bound: captured frames
  MaxSwitches,    \* bound: interface switches
  MaxOutages,     \* bound: times the tab's stream is interrupted
  MaxUserActions  \* bound: resets and limit changes in the tab

ASSUME FlowTableAssumption ==
  /\ Addrs \subseteq Int /\ Ports \subseteq Int
  /\ IsFiniteSet(Addrs) /\ IsFiniteSet(Ports) /\ IsFiniteSet(Protos)
  /\ Protos \subseteq {"tcp", "udp"}
  /\ FlagSets \subseteq SUBSET {"syn", "ack", "fin", "rst"}
  /\ Locals \subseteq SUBSET Addrs /\ Modes \subseteq {"live", "replay"}
  /\ MaxFlows \in Nat /\ ChannelCap \in Nat \ {0} /\ Limits \subseteq Nat \ {0}
  /\ SynIdle \in Nat /\ UdpIdle \in Nat /\ ClosingIdle \in Nat /\ LongIdle \in Nat
  /\ SynIdle <= UdpIdle /\ SynIdle <= ClosingIdle /\ SynIdle <= LongIdle
  /\ MaxTime \in Nat /\ MaxFrames \in Nat /\ MaxSwitches \in Nat
  /\ MaxOutages \in Nat /\ MaxUserActions \in Nat

VARIABLES
  mode,      \* "live" or "replay", fixed at launch
  local,     \* FlowTable::local_addrs
  flows,     \* FlowTable::flows
  counters,  \* total_flows_observed, idle_evictions, capacity_evictions
  now,       \* start.elapsed() of the agent
  aging,     \* replay_flow_clock
  frame,     \* capture thread: the parsed frame and the clock read for it
  dropped,   \* capture thread: flows whose connection_closed is still to be sent
  emitter,   \* emitter task: waiting, holding a clock reading, or sending
  chan,      \* the events the tab's stream has not delivered yet
  online,    \* whether the tab's stream is subscribed
  view,      \* the tab's connection list, newest first
  limit,     \* the tab's connection buffer limit
  lagged,    \* whether the channel ever overwrote an undelivered event
  closed,    \* history: connection_closed events sent
  spent      \* how many frames, switches, outages and user actions happened

tableVars == <<local, flows, counters>>
viewVars == <<online, view, limit>>
vars == <<mode, tableVars, now, aging, frame, dropped, emitter, chan, viewVars, lagged,
          closed, spent>>

-----------------------------------------------------------------------------
(* Data. *)

Packet ==
  {p \in [proto : Protos, src : Addrs, sport : Ports, dst : Addrs, dport : Ports,
          flags : FlagSets \cup {{}}] :
     IF p.proto = "tcp" THEN p.flags \in FlagSets ELSE p.flags = {}}

Key == [proto : Protos, laddr : Addrs, lport : Ports, raddr : Addrs, rport : Ports]

NoKey == [proto |-> "none"]

Flow == [seen : Nat, syn : BOOLEAN, established : BOOLEAN, fin : BOOLEAN, rst : BOOLEAN]

NoFlow == [seen |-> -1]

Idle == [pc |-> "idle"]

NoFrame == [at |-> -1]

FrameState == {NoFrame} \cup [at : 0..MaxTime, pkt : Packet]

EmitterState ==
  {Idle} \cup [pc : {"tick"}, at : 0..MaxTime]
         \cup [pc : {"send"}, updates : SUBSET Key, closes : SUBSET Key]

Event == [type : {"update", "closed"}, key : Key]

Live(table) == {k \in Key : table[k] # NoFlow}

\* u64::saturating_sub; the mutant is wrapping_sub (on a small word).
SinceWraps(t, s) == (t - s) % 256

Since(t, s) == IF t >= s THEN t - s ELSE 0

-----------------------------------------------------------------------------
(* FlowTable's operations. *)

Outbound(p) ==
  [proto |-> p.proto, laddr |-> p.src, lport |-> p.sport, raddr |-> p.dst, rport |-> p.dport]

Inbound(p) ==
  [proto |-> p.proto, laddr |-> p.dst, lport |-> p.dport, raddr |-> p.src, rport |-> p.sport]

SrcIsCanonicalLocal(p) == p.src < p.dst \/ (p.src = p.dst /\ p.sport <= p.dport)

\* key_for: the local endpoint first; without any local address, the smaller.
KeyFor(addrs, p) ==
  CASE p.src \in addrs -> Outbound(p)
    [] p.src \notin addrs /\ p.dst \in addrs -> Inbound(p)
    [] addrs = {} /\ SrcIsCanonicalLocal(p) -> Outbound(p)
    [] addrs = {} /\ ~SrcIsCanonicalLocal(p) -> Inbound(p)
    [] OTHER -> NoKey

StatusFor(k, f) ==
  IF f.fin \/ f.rst THEN "TIME_WAIT"
  ELSE IF f.established THEN "ESTABLISHED"
  ELSE IF f.syn THEN "SYN_SENT"
  ELSE IF k.proto # "tcp" THEN "ESTABLISHED"
  ELSE "CLOSE_WAIT"

IdleThreshold(k, f) ==
  CASE StatusFor(k, f) \in {"TIME_WAIT", "CLOSE_WAIT"} -> ClosingIdle
    [] StatusFor(k, f) = "SYN_SENT" -> SynIdle
    [] StatusFor(k, f) = "ESTABLISHED" -> IF k.proto = "tcp" THEN LongIdle ELSE UdpIdle

Stale(k, f, t) == Since(t, f.seen) > IdleThreshold(k, f)

NewFlow == [seen |-> 0, syn |-> FALSE, established |-> FALSE, fin |-> FALSE, rst |-> FALSE]

\* What one packet does to its flow's state. A reset undoes the establishment
\* the same segment's acknowledgement made.
Touch(f, p, t) ==
  [seen |-> t,
   syn |-> f.syn \/ ("syn" \in p.flags /\ "ack" \notin p.flags),
   established |-> (f.established \/ "ack" \in p.flags) /\ "rst" \notin p.flags,
   fin |-> f.fin \/ "fin" \in p.flags,
   rst |-> f.rst \/ "rst" \in p.flags]

\* The table's counters, advanced.
Counted(new, idle, capacity) ==
  [observed |-> counters.observed + new, idle |-> counters.idle + idle,
   capacity |-> counters.capacity + capacity]

-----------------------------------------------------------------------------
(* The broadcast channel: a full one overwrites its oldest event, and        *)
(* without a subscriber an event is gone.                                    *)

Send(type, k) ==
  LET e == [type |-> type, key |-> k]
  IN /\ chan' = CASE ~online -> <<>>
                  [] online /\ Len(chan) < ChannelCap -> Append(chan, e)
                  [] OTHER -> Append(Tail(chan), e)
     /\ lagged' = (lagged \/ (online /\ Len(chan) >= ChannelCap))
     /\ closed' = IF type = "closed" THEN closed + 1 ELSE closed

-----------------------------------------------------------------------------
(* The capture thread. *)

\* A frame is read and its clock with it: the agent's own when live, the
\* file's monotone ReplayClock in replay.
NextFrame(p) ==
  /\ frame = NoFrame /\ dropped = {} /\ spent.frames < MaxFrames
  /\ \E t \in 0..MaxTime :
       /\ IF mode = "live" THEN t = now ELSE t >= aging
       /\ frame' = [at |-> t, pkt |-> p]
  /\ spent' = [spent EXCEPT !.frames = @ + 1]
  /\ UNCHANGED <<mode, tableVars, now, aging, dropped, emitter, chan, viewVars, lagged, closed>>

\* Mutant: is_new decided before the stale flow is expired.
ObserveCountsEarly ==
  /\ frame # NoFrame
  /\ LET k == KeyFor(local, frame.pkt)
         t == frame.at
         old == flows[k]
         expired == mode = "replay" /\ old # NoFlow /\ Stale(k, old, t)
     IN IF k = NoKey THEN UNCHANGED <<flows, counters, dropped>>
        ELSE /\ flows' = [flows EXCEPT ![k] =
                            Touch(IF old = NoFlow \/ expired THEN NewFlow ELSE old, frame.pkt, t)]
             /\ counters' = Counted(IF old = NoFlow THEN 1 ELSE 0, IF expired THEN 1 ELSE 0, 0)
             /\ dropped' = IF expired THEN {k} ELSE {}
  /\ aging' = IF mode = "replay" THEN frame.at ELSE aging
  /\ frame' = NoFrame
  /\ UNCHANGED <<mode, local, now, emitter, chan, viewVars, lagged, closed, spent>>

\* with_flow_observation: under the lock the packet updates or creates its
\* flow, in replay after expiring a stale one of the same key, and the replay
\* clock is published. A packet of no tracked flow changes no flow.
Observe ==
  /\ frame # NoFrame
  /\ LET k == KeyFor(local, frame.pkt)
         t == frame.at
         old == flows[k]
         expired == mode = "replay" /\ old # NoFlow /\ Stale(k, old, t)
         isNew == old = NoFlow \/ expired
     IN IF k = NoKey THEN UNCHANGED <<flows, counters, dropped>>
        ELSE /\ flows' = [flows EXCEPT ![k] = Touch(IF isNew THEN NewFlow ELSE old, frame.pkt, t)]
             /\ counters' = Counted(IF isNew THEN 1 ELSE 0, IF expired THEN 1 ELSE 0, 0)
             /\ dropped' = IF expired THEN {k} ELSE {}
  /\ aging' = IF mode = "replay" THEN frame.at ELSE aging
  /\ frame' = NoFrame
  /\ UNCHANGED <<mode, local, now, emitter, chan, viewVars, lagged, closed, spent>>

\* The capture thread announces what it dropped, one event at a time.
CaptureClose ==
  /\ \E k \in dropped : Send("closed", k) /\ dropped' = dropped \ {k}
  /\ UNCHANGED <<mode, tableVars, now, aging, frame, emitter, viewVars, spent>>

\* Mutant: the local addresses change and the flows stay.
SwitchInterfaceKeeps(addrs) ==
  /\ mode = "live" /\ frame = NoFrame /\ dropped = {} /\ spent.switches < MaxSwitches
  /\ addrs # {}
  /\ local' = addrs
  /\ spent' = [spent EXCEPT !.switches = @ + 1]
  /\ UNCHANGED <<mode, flows, counters, dropped, now, aging, frame, emitter, chan, viewVars,
                 lagged, closed>>

\* apply_interface_switch_request, when nothing refuses it: an interface with an
\* address is opened, FlowTable::reset runs under the lock, the closes follow.
SwitchInterface(addrs) ==
  /\ mode = "live" /\ frame = NoFrame /\ dropped = {} /\ spent.switches < MaxSwitches
  /\ addrs # {}
  /\ local' = addrs
  /\ flows' = [k \in Key |-> NoFlow]
  /\ dropped' = Live(flows)
  /\ spent' = [spent EXCEPT !.switches = @ + 1]
  /\ UNCHANGED <<mode, counters, now, aging, frame, emitter, chan, viewVars, lagged, closed>>

-----------------------------------------------------------------------------
(* The emitter task. *)

\* The tick reads the agent's clock before it waits for the table.
EmitTick ==
  /\ emitter = Idle
  /\ emitter' = [pc |-> "tick", at |-> now]
  /\ UNCHANGED <<mode, tableVars, now, aging, frame, dropped, chan, viewVars, lagged, closed, spent>>

\* The capacity victims: the least recently seen of what is over MAX_FLOWS.
Victims(rest) ==
  {V \in SUBSET rest :
     /\ Cardinality(V) = Since(Cardinality(rest), MaxFlows)
     /\ \A v \in V, u \in rest \ V : flows[v].seen <= flows[u].seen}

\* Mutants: flows evicted for capacity are not announced; only flows seen at
\* this very tick are reported.
EmitSweepForgetsCapacity ==
  /\ emitter.pc = "tick"
  /\ LET t == IF mode = "replay" THEN aging ELSE emitter.at
         idle == {k \in Live(flows) : Stale(k, flows[k], t)}
     IN \E V \in Victims(Live(flows) \ idle) :
          /\ flows' = [k \in Key |-> IF k \in idle \cup V THEN NoFlow ELSE flows[k]]
          /\ counters' = Counted(0, Cardinality(idle), Cardinality(V))
          /\ emitter' = [pc |-> "send", updates |-> Live(flows'), closes |-> idle]
  /\ UNCHANGED <<mode, local, now, aging, frame, dropped, chan, viewVars, lagged, closed, spent>>

EmitSweepRecentOnly ==
  /\ emitter.pc = "tick"
  /\ LET t == IF mode = "replay" THEN aging ELSE emitter.at
         idle == {k \in Live(flows) : Stale(k, flows[k], t)}
     IN \E V \in Victims(Live(flows) \ idle) :
          /\ flows' = [k \in Key |-> IF k \in idle \cup V THEN NoFlow ELSE flows[k]]
          /\ counters' = Counted(0, Cardinality(idle), Cardinality(V))
          /\ emitter' = [pc |-> "send", updates |-> {k \in Live(flows') : flows[k].seen >= t},
                         closes |-> idle \cup V]
  /\ UNCHANGED <<mode, local, now, aging, frame, dropped, chan, viewVars, lagged, closed, spent>>

\* Under the lock: evict_stale (idle flows, then the excess over MAX_FLOWS) and
\* then snapshot of what is left.
EmitSweep ==
  /\ emitter.pc = "tick"
  /\ LET t == IF mode = "replay" THEN aging ELSE emitter.at
         idle == {k \in Live(flows) : Stale(k, flows[k], t)}
     IN \E V \in Victims(Live(flows) \ idle) :
          /\ flows' = [k \in Key |-> IF k \in idle \cup V THEN NoFlow ELSE flows[k]]
          /\ counters' = Counted(0, Cardinality(idle), Cardinality(V))
          /\ emitter' = [pc |-> "send", updates |-> Live(flows'), closes |-> idle \cup V]
  /\ UNCHANGED <<mode, local, now, aging, frame, dropped, chan, viewVars, lagged, closed, spent>>

\* connection_update per snapshot entry, then connection_closed per eviction.
EmitUpdate ==
  /\ emitter.pc = "send"
  /\ \E k \in emitter.updates :
       Send("update", k) /\ emitter' = [emitter EXCEPT !.updates = @ \ {k}]
  /\ UNCHANGED <<mode, tableVars, now, aging, frame, dropped, viewVars, spent>>

EmitClose ==
  /\ emitter.pc = "send" /\ emitter.updates = {}
  /\ \E k \in emitter.closes :
       Send("closed", k) /\ emitter' = [emitter EXCEPT !.closes = @ \ {k}]
  /\ UNCHANGED <<mode, tableVars, now, aging, frame, dropped, viewVars, spent>>

EmitDone ==
  /\ emitter.pc = "send" /\ emitter.updates = {} /\ emitter.closes = {}
  /\ emitter' = Idle
  /\ UNCHANGED <<mode, tableVars, now, aging, frame, dropped, chan, viewVars, lagged, closed, spent>>


-----------------------------------------------------------------------------
(* The tab: one stream from the relay, events applied in the order sent.     *)

\* The list without one of its entries; ids are unique in it.
Without(s, k) ==
  IF \A i \in DOMAIN s : s[i] # k THEN s
  ELSE LET i == CHOOSE i \in DOMAIN s : s[i] = k
       IN [j \in 1..(Len(s) - 1) |-> IF j < i THEN s[j] ELSE s[j + 1]]

\* Mutant: the list is never cut.
TruncatedNever(s, n) == s

Truncated(s, n) == IF Len(s) <= n THEN s ELSE SubSeq(s, 1, n)

\* connection_update replaces the entry in place or puts a new one in front;
\* connection_closed filters it out.
Applied(e, s) ==
  CASE e.type = "closed" -> Without(s, e.key)
    [] e.type = "update" /\ (\E i \in DOMAIN s : s[i] = e.key) -> s
    [] OTHER -> Truncated(<<e.key>> \o s, limit)

Deliver ==
  /\ chan # <<>>
  /\ chan' = Tail(chan)
  /\ view' = Applied(Head(chan), view)
  /\ UNCHANGED <<mode, tableVars, now, aging, frame, dropped, emitter, online, limit, lagged,
                 closed, spent>>

\* The stream breaks with whatever it had not delivered. The tab keeps its list
\* and EventSource subscribes again, from the next event on.
Disconnect ==
  /\ online /\ spent.outages < MaxOutages
  /\ online' = FALSE /\ chan' = <<>>
  /\ spent' = [spent EXCEPT !.outages = @ + 1]
  /\ UNCHANGED <<mode, tableVars, now, aging, frame, dropped, emitter, view, limit, lagged, closed>>

Reconnect ==
  /\ ~online /\ online' = TRUE
  /\ UNCHANGED <<mode, tableVars, now, aging, frame, dropped, emitter, chan, view, limit, lagged,
                 closed, spent>>

\* The reset command and button: the list is emptied, the agent is not told.
UserReset ==
  /\ spent.user < MaxUserActions
  /\ view' = <<>>
  /\ spent' = [spent EXCEPT !.user = @ + 1]
  /\ UNCHANGED <<mode, tableVars, now, aging, frame, dropped, emitter, chan, online, limit, lagged,
                 closed>>

\* `buffer connections n`: the list is cut at once.
SetLimit(n) ==
  /\ spent.user < MaxUserActions
  /\ limit' = n /\ view' = Truncated(view, n)
  /\ spent' = [spent EXCEPT !.user = @ + 1]
  /\ UNCHANGED <<mode, tableVars, now, aging, frame, dropped, emitter, chan, online, lagged, closed>>

-----------------------------------------------------------------------------

\* Only a live table ages by the agent's clock.
Tick ==
  /\ mode = "live" /\ now < MaxTime /\ now' = now + 1
  /\ UNCHANGED <<mode, tableVars, aging, frame, dropped, emitter, chan, viewVars, lagged, closed,
                 spent>>

Init ==
  /\ mode \in Modes /\ local \in Locals
  /\ mode = "live" => local # {}
  /\ flows = [k \in Key |-> NoFlow]
  /\ counters = [observed |-> 0, idle |-> 0, capacity |-> 0]
  /\ now = 0 /\ aging = 0 /\ frame = NoFrame /\ dropped = {} /\ emitter = Idle
  /\ chan = <<>> /\ online = TRUE /\ view = <<>> /\ limit \in Limits
  /\ lagged = FALSE /\ closed = 0
  /\ spent = [frames |-> 0, switches |-> 0, outages |-> 0, user |-> 0]

Capture ==
  \/ \E p \in Packet : NextFrame(p)
  \/ Observe
  \/ CaptureClose
  \/ \E addrs \in Locals : SwitchInterface(addrs)

Emit == EmitTick \/ EmitSweep \/ EmitUpdate \/ EmitClose \/ EmitDone

Tab == Deliver \/ Disconnect \/ Reconnect \/ UserReset \/ \E n \in Limits : SetLimit(n)

Next == Capture \/ Emit \/ Tab \/ Tick

Spec == Init /\ [][Next]_vars

\* The capture thread finishes what it started, the interval timer keeps
\* ticking, the stream delivers and EventSource retries. Nothing makes a frame
\* arrive, an interface change, a stream break or a user act.
Fairness ==
  /\ WF_vars(Observe \/ CaptureClose)
  /\ WF_vars(Emit)
  /\ WF_vars(Deliver)
  /\ WF_vars(Reconnect)

FairSpec == Spec /\ Fairness

-----------------------------------------------------------------------------
(* Properties. *)

AgentOK ==
  /\ mode \in Modes /\ local \in Locals
  /\ flows \in [Key -> Flow \cup {NoFlow}]
  /\ counters \in [observed : Nat, idle : Nat, capacity : Nat]
  /\ now \in 0..MaxTime /\ aging \in 0..MaxTime
  /\ frame \in FrameState /\ dropped \subseteq Key /\ emitter \in EmitterState
  /\ spent \in [frames : Nat, switches : Nat, outages : Nat, user : Nat]

ChannelOK ==
  /\ chan \in Seq(Event) /\ Len(chan) <= ChannelCap
  /\ lagged \in BOOLEAN /\ closed \in Nat

Distinct(s) == \A i, j \in DOMAIN s : s[i] = s[j] => i = j

ViewOK ==
  /\ online \in BOOLEAN /\ limit \in Limits
  /\ view \in Seq(Key) /\ Len(view) <= limit /\ Distinct(view)

\* Every variable keeps its type; the channel never exceeds its capacity and
\* the tab's list neither its limit nor one entry per connection.
TypeOK == AgentOK /\ ChannelOK /\ ViewOK

PendingCloses == IF emitter.pc # "send" THEN {} ELSE emitter.closes

\* Every flow ever observed is in the table, announced closed exactly once, or
\* about to be: eviction by the emitter, expiry on arrival in a replay and an
\* interface switch neither lose a close nor send one twice, whatever the
\* threads do in between. Without a switch the two eviction counters that
\* capture_stats reports add up to the closes.
FlowsAccounted ==
  LET gone == closed + Cardinality(PendingCloses) + Cardinality(dropped)
  IN /\ counters.observed = Cardinality(Live(flows)) + gone
     /\ spent.switches = 0 => counters.idle + counters.capacity = gone

Reverse(k) ==
  [proto |-> k.proto, laddr |-> k.raddr, lport |-> k.rport, raddr |-> k.laddr, rport |-> k.lport]

\* Both directions of one connection are one flow, after any number of
\* interface switches, unless both endpoints are the host's own addresses.
OneFlowUnlessBothLocal ==
  \A k \in Live(flows) :
    Reverse(k) \in Live(flows) => Reverse(k) = k \/ {k.laddr, k.raddr} \subseteq local

\* A flow leaves the table only by an interface switch, for capacity, or after
\* more silence than the shortest threshold on the clock it ages by, although
\* the emitter reads that clock before it waits for the table.
FreshFlowsSurvive ==
  [][\A k \in Live(flows) :
       flows'[k] = NoFlow =>
         \/ spent'.switches # spent.switches
         \/ counters'.capacity > counters.capacity
         \/ (IF mode = "replay" THEN aging ELSE now) - flows[k].seen > SynIdle]_vars

\* Nothing is left to be sent or delivered.
Settled == chan = <<>> /\ emitter = Idle /\ dropped = {}

Shown == {view[i] : i \in DOMAIN view}

\* A tab that has received everything shows no connection that is not in the
\* agent's table, as long as its stream never broke or lagged and the interface
\* was not switched: the emitter's closes overtake no update of its own.
NoZombie ==
  Settled /\ ~lagged /\ spent.switches = 0 /\ spent.outages = 0 => Shown \subseteq Live(flows)

\* A flow that stays in the table is shown again and again by a tab that stays
\* subscribed, in spite of resets, limits and closes of an earlier flow with
\* the same key, unless the channel lags.
LiveFlowsShown ==
  \A k \in Key :
    []~lagged /\ <>[](k \in Live(flows) /\ online) => []<>(k \in Shown)

=============================================================================
