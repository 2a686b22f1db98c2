------------------------------- MODULE Pipeline -------------------------------
(***************************************************************************)
(* The capture thread's loop body in main.rs: the requests it drains, then *)
(* a frame of its source, from the frame to what it measures: the clock it *)
(* runs on, the flow it belongs to, the transaction it is part of, the     *)
(* names it teaches, the findings and packet events it is worth; and the   *)
(* emitter's snapshot.                                                     *)
(*                                                                         *)
(* Reassembly, the writer and decryption are modules of their own. A frame *)
(* is a record: parse says what the parser and the reassembler make of it  *)
(*   ok         a packet of a flow,                                        *)
(*   rebuilt    the fragment that completes a datagram of a flow,          *)
(*   part       any other fragment,                                        *)
(*   icmp       a packet without ports,                                    *)
(*   foreign    TCP or UDP between addresses that are not this host's,     *)
(*   control    a packet of the agent's own control channel,               *)
(*   malformed, nonIp  no packet;                                          *)
(* the other fields say what the packet or the rebuilt datagram holds, len *)
(* being its bytes and wire those of the frame itself; pos is the position *)
(* of its segment in its direction, which is sent modulo WireMod.          *)
(***************************************************************************)
EXTENDS CaptureClock, DnsNames, Transactions, FlowMetrics, PcapReader, CaptureConfig, SequencesExt

CONSTANTS
  Host, Peer,       \* the local and the remote address of each flow
  KnownPort,        \* what its remote port stands for, or Hole
  FlowIdle,         \* idle threshold of the flows
  Topics,           \* bounds, by topic: the frames there may be,
  Stamps,           \* their timestamps,
  MaxFrames,        \* how many there are,
  Ticks,            \* what the agent's clock gains from one to the next,
  Replays,          \* whether they are replayed,
  Shows             \* topics that show more: "file", a capture file; "config", requests

\* What a frame holds, and a record of a DNS response: data is the name a CNAME
\* gives or the address an A gives, Hole when it is malformed.
AnswerRecord == [rtype : STRING, name : STRING, data : STRING \cup Addrs \cup {Hole}, ttl : Nat]

Frame ==
  [parse : {"ok", "rebuilt", "part", "icmp", "foreign", "control", "malformed", "nonIp"},
   l7 : {"none", "query", "response", "http", "reply", "hello"}, flow : Flows, out : BOOLEAN,
   id : Nat \cup {Hole}, name : STRING \cup {Hole}, rcode : Nat, answers : Seq(AnswerRecord),
   status : {"interim", "final"}, tcp : BOOLEAN, syn : BOOLEAN, ack : BOOLEAN, rst : BOOLEAN,
   payload : BOOLEAN, pos : Nat, len : Nat, wire : Nat]

\* A DNS message has an id and a question; an address is not a name; only a rebuilt
\* datagram has another length than its frame.
IsFrame(m) ==
  /\ m \in Frame
  /\ IF m.l7 \in {"query", "response"} THEN m.id # Hole /\ m.name # Hole ELSE m.id = Hole
  /\ m.parse # "rebuilt" => m.wire = m.len
  /\ \A i \in 1..Len(m.answers) :
       IF m.answers[i].rtype = "A" THEN m.answers[i].data \in Addrs \cup {Hole} ELSE TRUE

ASSUME PipelineAssumption ==
  /\ FlowIdle \in Nat /\ Host \in [Flows -> Addrs] /\ Peer \in [Flows -> Addrs]
  /\ IsFiniteSet(Flows) /\ Hole \notin [name : STRING, expires : Nat] /\ Hole \notin STRING
  /\ \A topic \in DOMAIN Topics :
       /\ StartOn[topic] \subseteq Devices /\ Stamps[topic] \subseteq Nat /\ Ticks[topic] \subseteq Nat
       /\ \A m \in Topics[topic] : IsFrame(m)

VARIABLES
  pTopic, pReplay,
  pNow,             \* the agent's clock
  pClock,           \* the ReplayClock
  pFlowClock,       \* replay_flow_clock: where it was at the last packet observed
  pFlows,           \* FlowTable: the flows,
  pHosts, pPairs,   \* the rollups,
  pTree,            \* the hierarchy,
  pNames,           \* and the observed names
  pTracker,         \* the TransactionTracker
  pLimits,          \* the limiters of findings and packet events
  pFrames,          \* frames so far
  pTold,            \* history: requests tracked and given a verdict,
  pLearned,         \* the last name and expiry an answered response gave,
  pPositions,       \* the highest position seen of each flow's directions,
  pCounted,         \* bytes of the frames observed, and of the datagrams rebuilt,
  pSteps            \* and the run of ascending timestamps that lasts

fVars == <<pTopic, pReplay, pNow, pClock, pFlowClock, pFlows, pHosts, pPairs, pTree, pNames, pTracker,
           pLimits, pFrames, pTold, pLearned, pPositions, pCounted, pSteps>>

pVars == <<fVars, gVars, cVars>>

\* flow_aging_now_ms
FlowNow(elapsed, now) == IF pReplay THEN elapsed ELSE now

\* evict_idle_flow_key, on arrival in a replay only.
IdleOnArrival(f, now) == pReplay /\ pFlows[f] # Hole /\ SatSub(now, pFlows[f].seen) > FlowIdle

\* The network: a segment is within half the sequence space of the highest one of
\* its direction, as TCP's window keeps it.
InWindow(m, now) ==
  LET high == pPositions[m.flow].high[m.out]
  IN m.tcp /\ m.payload /\ high # Hole /\ ~IdleOnArrival(m.flow, now) =>
       m.pos - high \in -(WireMod \div 2)..(WireMod \div 2)-1

\* learnable_dns_response
Learnable(m, event) ==
  m.l7 = "response" /\ m.rcode = 0 /\ event.kind = "answered" /\ event.proto = "dns"

\* One finding per request that timed out, as the limiter allows.
LimiterAfter(last, now, wanted) == IF wanted /\ LimiterAllows(last, now) THEN now ELSE last

-----------------------------------------------------------------------------
(* What the histories keep *)

\* The names a response gives: those in every set that holds the question and,
\* with a name, what it is an alias of.
Taught(m, now) ==
  LET names == {m.name} \cup UNION {{a.name, a.data} : a \in Range(m.answers)}
      Closed(S) == \A a \in Range(m.answers) : a.rtype = "CNAME" /\ a.name \in S => a.data \in S
      reached == {y \in names : \A S \in SUBSET names : m.name \in S /\ Closed(S) => y \in S}
      Given(addr) == {i \in 1..Len(m.answers) :
                       LET a == m.answers[i] IN a.rtype = "A" /\ a.data = addr /\ a.name \in reached}
  IN [addr \in Addrs |->
        IF m.name \in Unlearnable \/ Given(addr) = {} THEN pLearned[addr]
        ELSE [name |-> m.name, expires |-> now + Retention(m.answers[Max(Given(addr))].ttl)]]

\* The timestamps and elapsed times of the first and second frame of the run.
StepsAfter(ts, elapsed) ==
  IF pSteps.last = Hole \/ ts < pSteps.last
  THEN [last |-> ts, first |-> <<ts, elapsed>>, second |-> Hole, back |-> pSteps.back \/ pSteps.last # Hole]
  ELSE [pSteps EXCEPT !.last = ts, !.second = IF @ = Hole THEN <<ts, elapsed>> ELSE @]

-----------------------------------------------------------------------------
(* A frame *)

\* Where the hierarchy counts a packet: by application only if it has ports itself.
HierarchyPath(m, app) ==
  CASE m.parse = "icmp" -> <<"Ethernet", "IP", "ICMP">>
    [] m.parse \in {"part", "rebuilt"} -> <<"Ethernet", "IP", "Other">>
    [] OTHER -> <<"Ethernet", "IP", IF m.tcp THEN "TCP" ELSE "UDP", app>>

\* A mutant of HierarchyAfter: a rebuilt datagram is counted beside its fragments.
HierarchyAfterTwice(m, app) ==
  LET counted == TreeAdded(pTree, HierarchyPath(m, app), m.wire)
  IN IF m.parse = "foreign" THEN pTree
     ELSE IF m.parse = "rebuilt" THEN TreeAdded(counted, HierarchyPath([m EXCEPT !.parse = "ok"], app), m.len)
     ELSE counted

\* What is captured is counted once: a fragment as it is, its datagram not again. A
\* packet with ports and no flow is not counted.
HierarchyAfter(m, app) ==
  IF m.parse = "foreign" THEN pTree ELSE TreeAdded(pTree, HierarchyPath(m, app), m.wire)

\* What the histories keep of it.
CountedAfter(m) ==
  [captured |-> pCounted.captured + (IF m.parse = "foreign" THEN 0 ELSE m.wire),
   rebuilt |-> pCounted.rebuilt + (IF m.parse = "rebuilt" THEN m.len ELSE 0)]

\* observe and observe_reassembled: the flow, the rollups of its hosts, the hierarchy.
Observed(m, now) ==
  LET f == m.flow
      isNew == pFlows[f] = Hole \/ IdleOnArrival(f, now)
      old == IF isNew THEN NewFlowState ELSE pFlows[f]
      pair == <<Host[f], Peer[f]>>
      new == FlowUpdated(old, m, KnownPort[f], now)
      Roll(rolls, key) == [rolls EXCEPT ![key] = Recorded(rolls[key], m.out, m.len, isNew)]
  IN /\ pFlows' = [pFlows EXCEPT ![f] = new]
     /\ pHosts' = Roll(pHosts, Peer[f])
     /\ pPairs' = Roll(pPairs, pair)
     /\ pTree' = HierarchyAfter(m, new.app)
     /\ pPositions' = [pPositions EXCEPT ![f] =
          LET was == IF isNew THEN [high |-> PerDirection(Hole, Hole), again |-> 0] ELSE @
              late == was.high[m.out] # Hole /\ m.pos <= was.high[m.out]
          IN IF ~(m.tcp /\ m.payload) THEN was
             ELSE IF late THEN [was EXCEPT !.again = @ + 1]
             ELSE [was EXCEPT !.high = [was.high EXCEPT ![m.out] = m.pos]]]

\* Transactions, names and timeouts, then the findings and the packet event.
Matched(m, ts, now, flowNow, retransmit) ==
  LET seen == TrackerObserved(pTracker, m, ts, retransmit)
      swept == Expired(seen.t, ts)
      finding == LimiterAfter(pLimits.finding, now, swept.gone # {})
      shown == LimiterAllows(pLimits.packet, now)
      teaches == Learnable(m, seen.event)
  IN /\ pNames' = IF teaches THEN Learned(pNames, m.name, m.answers, flowNow) ELSE pNames
     /\ pLearned' = IF teaches THEN Taught(m, flowNow) ELSE pLearned
     /\ pTracker' = IF shown THEN FrameAttached(swept.t, seen.event, pFrames + 1) ELSE swept.t
     /\ pLimits' = [finding |-> finding, packet |-> IF shown THEN now ELSE pLimits.packet]
     /\ pTold' = [pTold EXCEPT !.tracked = @ + (IF seen.event.kind = "request" THEN 1 ELSE 0),
                               !.answered = @ + (IF seen.event.kind = "answered" THEN 1 ELSE 0),
                               !.unanswered = @ + Cardinality(swept.gone), !.last = ts]

NextFrame(m, ts, tick) ==
  LET clock == ClockAfter(pClock, ts)
      now == pNow + tick
      flowNow == FlowNow(clock.elapsed, now)
      observed == pFlowClock' = (IF pReplay THEN flowNow ELSE pFlowClock) /\ pCounted' = CountedAfter(m)
      retransmit == pFlows[m.flow] # Hole /\ ~IdleOnArrival(m.flow, flowNow)
                    /\ IsRetransmit(pFlows[m.flow], m)
  IN /\ pFrames < MaxFrames[pTopic]
     /\ pFrames' = pFrames + 1
     /\ UNCHANGED cVars
     /\ pNow' = now
     /\ pClock' = IF pReplay THEN clock ELSE pClock
     /\ pSteps' = StepsAfter(ts, clock.elapsed)
     /\ UNCHANGED <<pTopic, pReplay>>
     /\ \/ /\ m.parse \in {"ok", "rebuilt"} \/ (m.parse = "control" /\ pReplay)
           /\ InWindow(m, flowNow)
           /\ observed
           /\ Observed(m, flowNow)
           /\ Matched(m, ts, now, flowNow, retransmit)
        \/ /\ m.parse \in {"part", "icmp", "foreign"}   \* no flow, hence no message of one
           /\ observed
           /\ pTree' = HierarchyAfter(m, Hole)
           /\ Matched([m EXCEPT !.l7 = "none"], ts, now, flowNow, FALSE)
           /\ UNCHANGED <<pFlows, pHosts, pPairs, pPositions>>
        \/ /\ m.parse = "malformed"
           /\ pLimits' = [pLimits EXCEPT !.finding = LimiterAfter(@, now, TRUE)]
           /\ UNCHANGED <<pFlowClock, pFlows, pHosts, pPairs, pTree, pNames, pTracker, pTold, pLearned,
                          pPositions, pCounted>>
        \/ /\ m.parse = "nonIp" \/ (m.parse = "control" /\ ~pReplay)
           /\ UNCHANGED <<pFlowClock, pFlows, pHosts, pPairs, pTree, pNames, pTracker, pLimits, pTold,
                          pLearned, pPositions, pCounted>>

\* next_frame: libpcap's frames are any, a pcapng file's those it holds.
CapturedFrame(m, ts, tick) ==
  gSource \in {"live", "classic"} /\ NextFrame(m, ts, tick) /\ UNCHANGED gVars

ReplayedFrame(m, tick) == FileFrame /\ NextFrame(m, gFrames'[Len(gFrames')].time, tick)

\* A live source that is quiet still times requests out, on the wall clock.
QuietSource(ts, tick) ==
  LET swept == Expired(pTracker, ts)
  IN /\ gSource = "live" /\ pFrames > 0 /\ pFrames < MaxFrames[pTopic]
     /\ pFrames' = pFrames + 1
     /\ pNow' = pNow + tick
     /\ pTracker' = swept.t
     /\ pSteps' = StepsAfter(ts, pClock.elapsed)
     /\ pLimits' = [pLimits EXCEPT !.finding = LimiterAfter(@, pNow + tick, swept.gone # {})]
     /\ pTold' = [pTold EXCEPT !.unanswered = @ + Cardinality(swept.gone), !.last = ts]
     /\ UNCHANGED <<pTopic, pReplay, pClock, pFlowClock, pFlows, pHosts, pPairs, pTree, pNames, pLearned,
                    pPositions, pCounted, gVars, cVars>>

\* The capture thread takes requests until its source has ended.
Draining == gSource \in {"live", "classic", "open"}

\* apply_interface_switch_request: flows, names and requests are forgotten.
InterfaceSwitched(request, fault) ==
  /\ Draining /\ cHandle # Hole
  /\ request.kind = "switch" /\ Switchable(request.value, fault)
  /\ Switched(request.value)
  /\ pFlows' = [f \in Flows |-> Hole]
  /\ pPositions' = [f \in Flows |-> [high |-> PerDirection(Hole, Hole), again |-> 0]]
  /\ pNames' = NamesCleared(pNames)
  /\ pLearned' = [a \in Addrs |-> Hole]
  /\ pTracker' = TrackerReset(pTracker)
  /\ pTold' = [pTold EXCEPT !.forgotten = @ + Cardinality(PendingRequests(pTracker))]
  /\ UNCHANGED <<pTopic, pReplay, pNow, pClock, pFlowClock, pHosts, pPairs, pTree, pLimits, pFrames,
                    pCounted, pSteps, gVars>>

\* A request that leaves the tables alone.
OtherRequest(request, fault) ==
  /\ Draining
  /\ ConfigRequest(request, fault) \/ SwitchRejected(request, fault)
  /\ UNCHANGED <<fVars, gVars>>

\* The emitter's clock: replay_flow_clock, which only packets that were observed move.
EmitterNow == FlowNow(pFlowClock, pNow)

\* The emitter: snapshot, endpoint_snapshot and conversation_snapshot drain the
\* tick counters, after flows that are idle were evicted.
Snapshot ==
  LET Kept(f) == pFlows[f] # Hole /\ SatSub(EmitterNow, pFlows[f].seen) <= FlowIdle
  IN /\ pFlows' = [f \in Flows |-> IF Kept(f) THEN Drained(pFlows[f]) ELSE Hole]
     /\ pPositions' = [f \in Flows |-> IF Kept(f) THEN pPositions[f]
                                       ELSE [high |-> PerDirection(Hole, Hole), again |-> 0]]
     /\ pHosts' = [a \in DOMAIN pHosts |-> Drained(pHosts[a])]
     /\ pPairs' = [q \in DOMAIN pPairs |-> Drained(pPairs[q])]
     /\ UNCHANGED <<pTopic, pReplay, pNow, pClock, pFlowClock, pTree, pNames, pTracker, pLimits, pFrames,
                    pTold, pLearned, pCounted, pSteps, gVars, cVars>>

\* The rest of the emitter's tick, and the end of the source.
ConfigTold == Shows[pTopic] = "config" /\ (EmitterReads \/ EmitterTells) /\ UNCHANGED <<fVars, gVars>>

SourceEnds ==
  /\ FileEnd \/ (Shows[pTopic] = "config" /\ OtherEnd)
  /\ UNCHANGED <<fVars, cVars>>

StartReplay == OpenFile /\ UNCHANGED <<fVars, cVars>>

PipeInit ==
  /\ pTopic \in DOMAIN Topics /\ pReplay \in Replays[pTopic]
  /\ IF Shows[pTopic] = "file" THEN \E file \in CaptureFiles : ReaderInit(file, "closed")
     ELSE ReaderInit(Hole, IF pReplay THEN "classic" ELSE "live")
  /\ ConfigInit(~pReplay, StartOn[pTopic])
  /\ pNow = 0 /\ pClock = NewClock /\ pFlowClock = 0
  /\ pFlows = [f \in Flows |-> Hole]
  /\ pHosts = [a \in Addrs |-> NewRollup]
  /\ pPairs = [q \in {<<Host[f], Peer[f]>> : f \in Flows} |-> NewRollup]
  /\ pTree = [q \in {<<>>} |-> [bytes |-> 0, packets |-> 0]]
  /\ pNames = NewNames
  /\ pTracker = NewTracker
  /\ pLimits = [finding |-> Hole, packet |-> Hole]
  /\ pFrames = 0
  /\ pTold = [tracked |-> 0, answered |-> 0, unanswered |-> 0, forgotten |-> 0, last |-> 0]
  /\ pLearned = [a \in Addrs |-> Hole]
  /\ pPositions = [f \in Flows |-> [high |-> PerDirection(Hole, Hole), again |-> 0]]
  /\ pCounted = [captured |-> 0, rebuilt |-> 0]
  /\ pSteps = [last |-> Hole, first |-> Hole, second |-> Hole, back |-> FALSE]

PipeNext ==
  \/ \E tick \in Ticks[pTopic] :
       \/ \E ts \in Stamps[pTopic] :
            (\E m \in Topics[pTopic] : CapturedFrame(m, ts, tick)) \/ QuietSource(ts, tick)
       \/ \E m \in Topics[pTopic] : ReplayedFrame(m, tick)
  \/ \E request \in Requests[pTopic], fault \in Faults[pTopic] :
       InterfaceSwitched(request, fault) \/ OtherRequest(request, fault)
  \/ StartReplay
  \/ SourceEnds
  \/ Snapshot
  \/ ConfigTold

PipeSpec == PipeInit /\ [][PipeNext]_pVars

-----------------------------------------------------------------------------
(* Properties *)

\* reassembly.rs, ReplayClock::now_ms: over frames whose timestamps ascend, the
\* clock never advances by more than they do, whatever came before them; and from
\* the second of them on it falls behind by no more than the tolerance, so that
\* neither a reset nor an outlier freezes it.
ClockFollows ==
  LET Grown(from) == pClock.elapsed - from[2]
      Ran(from) == pSteps.last - from[1]
  IN pReplay /\ pSteps.first # Hole =>
       /\ Grown(pSteps.first) <= Ran(pSteps.first)
       /\ pSteps.second # Hole => Grown(pSteps.second) >= Ran(pSteps.second) - Tolerance

TimeoutOf(r) == IF r.id = Hole THEN HttpTimeout ELSE DnsTimeout

\* A request that was overdue a sweep interval ago.
Forgotten(r) == pTold.last - r.sent >= TimeoutOf(r) + SweepInterval

\* transaction.rs, observe_frame and expire: every request that is tracked is
\* pending, was answered, was given up or was dropped by an interface switch,
\* and only one of them; the pending count is what is pending, within the ceiling;
\* the percentiles lie between the extremes; and while no timestamp was before the
\* one of the frame before it, none stays pending for a sweep after it is overdue
\* (transaction.rs:7: "reported once each [...] rather than accumulating").
TransactionsAccounted ==
  LET stats == pTracker.stats
      Sum(p) == stats["dns"][p] + stats["http"][p]
  IN /\ pTracker.total = Cardinality(PendingRequests(pTracker)) /\ pTracker.total <= MaxPending
     /\ pTold.tracked = pTracker.total + pTold.answered + pTold.unanswered + pTold.forgotten
     /\ Sum("answered") = pTold.answered /\ Sum("unanswered") = pTold.unanswered
     /\ \A p \in Protocols :
          stats[p].recent # <<>> =>
            LET q == Percentiles(stats[p])
            IN stats[p].min <= q.median /\ q.median <= q.p95 /\ q.p95 <= stats[p].max
     /\ ~pSteps.back => \A r \in PendingRequests(pTracker) : ~Forgotten(r)

\* dns_names.rs, learn_response, insert and purge_expired: map and index hold the
\* same entries, no more than the capacity; a name that is shown is the last one
\* an answered response gave its address, through its CNAMEs in any order, and is
\* shown until it expires unless the table was full.
NamesExact ==
  LET now == EmitterNow
      held == NamesHeld(pNames)
  IN /\ pNames.index = {<<pNames.entries[a].expires, pNames.entries[a].seq, a>> : a \in held}
     /\ Cardinality(held) <= NameCapacity
     /\ \A a \in Addrs :
          LET name == NameLookup(pNames, a, now)
              known == pLearned[a] # Hole /\ pLearned[a].expires > now
          IN IF name # Hole THEN known /\ pLearned[a].name = name
             ELSE known => pNames.evictions > 0

\* flow.rs, observe_inner: whatever wraps, a data segment counts as retransmitted
\* exactly when its direction's data reached that position before; hosts and pairs
\* count the same bytes although flows come and go, and these are what the hierarchy
\* counts by application and the datagrams rebuilt from fragments, each once; and
\* the hierarchy, at its root and below, counts every captured frame that it
\* observes once, fragments included, and no datagram beside its fragments
\* (flow.rs:563-565: "keeps physical byte and packet totals from counting those
\* bytes a second time").
MetricsExact ==
  LET Both(r) == r.bytes[TRUE] + r.bytes[FALSE]
      Peers(a) == {q \in DOMAIN pPairs : q[2] = a}
      apps == {q \in DOMAIN pTree : Len(q) = 4}
      Children(q) == {r \in DOMAIN pTree : Len(r) = Len(q) + 1 /\ SubSeq(r, 1, Len(q)) = q}
      Counted(paths) == MapThenSumSet(LAMBDA q : pTree[q].bytes, paths)
  IN /\ \A f \in Flows : pFlows[f] # Hole =>
          /\ pFlows[f].retransmits = pPositions[f].again
          /\ \A o \in BOOLEAN : pPositions[f].high[o] # Hole =>
               pFlows[f].maxSeq[o] = pPositions[f].high[o] % WireMod
     /\ \A a \in Addrs : Both(pHosts[a]) = MapThenSumSet(LAMBDA q : Both(pPairs[q]), Peers(a))
     /\ MapThenSumSet(LAMBDA q : Both(pPairs[q]), DOMAIN pPairs) = Counted(apps) + pCounted.rebuilt
     /\ pTree[<<>>].bytes = pCounted.captured
     /\ \A q \in DOMAIN pTree : Children(q) # {} => pTree[q].bytes = Counted(Children(q))
=============================================================================
