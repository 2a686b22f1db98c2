----------------------------- MODULE FlowMetrics -----------------------------
(***************************************************************************)
(* What FlowTable (flow.rs) measures: per flow the bytes, the handshake's  *)
(* round trip and the retransmissions; per remote host and per pair of     *)
(* hosts the totals that outlive flows; and the protocol hierarchy.        *)
(***************************************************************************)
EXTENDS Coverage

CONSTANT WireMod      \* TCP sequence numbers are taken modulo this, 2^32

ASSUME FlowMetricsAssumption == WireMod \in Nat /\ WireMod > 1

\* Two values, of the outbound and of the inbound direction.
PerDirection(out, in) == [d \in BOOLEAN |-> IF d THEN out ELSE in]

NewFlowState ==
  [bytes |-> PerDirection(0, 0), tick |-> PerDirection(0, 0), maxSeq |-> PerDirection(Hole, Hole),
   syn |-> PerDirection(Hole, Hole), synAt |-> Hole, rtt |-> Hole, established |-> FALSE,
   reset |-> FALSE, retransmits |-> 0, segments |-> 0, seen |-> 0, app |-> "Unknown"]

NewRollup ==
  [bytes |-> PerDirection(0, 0), packets |-> PerDirection(0, 0), tick |-> PerDirection(0, 0), flows |-> 0]

\* RollupState::record
Recorded(r, out, len, isNew) ==
  [bytes |-> [r.bytes EXCEPT ![out] = @ + len], packets |-> [r.packets EXCEPT ![out] = @ + 1],
   tick |-> [r.tick EXCEPT ![out] = @ + len], flows |-> r.flows + (IF isNew THEN 1 ELSE 0)]

\* A mutant of NotNewer: numbers are compared as they are.
NotNewerPlain(a, b) == a <= b

\* (a.wrapping_sub(b) as i32) <= 0
NotNewer(a, b) == (a - b) % WireMod = 0 \/ (a - b) % WireMod >= WireMod \div 2

\* The sequence number a segment is sent with.
WireSeq(p) == p.pos % WireMod

\* Only segments with a payload take part; the first of a direction never is one.
IsRetransmit(s, p) ==
  p.tcp /\ p.payload /\ s.maxSeq[p.out] # Hole /\ NotNewer(WireSeq(p), s.maxSeq[p.out])

\* app_layer_protocol: what was sniffed last, or else what the remote port, if it
\* is a well-known one, stands for.
AppLayer(app, l7, known) ==
  CASE l7 \in {"http", "reply"} -> "HTTP"
    [] l7 \in {"query", "response"} -> "DNS"
    [] l7 = "hello" -> "HTTPS/TLS"
    [] OTHER -> IF app = "Unknown" /\ known # Hole THEN known ELSE app

\* observe_inner: what one packet does to its flow's state.
FlowUpdated(s, p, known, now) ==
  LET data == p.tcp /\ p.payload
      again == IsRetransmit(s, p)
      synAt == IF p.tcp /\ p.syn /\ ~p.ack THEN now ELSE s.synAt
  IN [bytes |-> [s.bytes EXCEPT ![p.out] = @ + p.len],
      tick |-> [s.tick EXCEPT ![p.out] = @ + p.len],
      maxSeq |-> IF data /\ ~again THEN [s.maxSeq EXCEPT ![p.out] = WireSeq(p)] ELSE s.maxSeq,
      syn |-> IF p.tcp /\ p.syn /\ s.syn[p.out] = Hole THEN [s.syn EXCEPT ![p.out] = WireSeq(p)] ELSE s.syn,
      synAt |-> synAt,
      rtt |-> IF p.tcp /\ p.syn /\ p.ack /\ ~p.out /\ synAt # Hole THEN SatSub(now, synAt) ELSE s.rtt,
      established |-> ~(p.tcp /\ p.rst) /\ (s.established \/ (p.tcp /\ p.ack)),
      reset |-> s.reset \/ (p.tcp /\ p.rst),
      retransmits |-> s.retransmits + (IF again THEN 1 ELSE 0),
      segments |-> s.segments + (IF data THEN 1 ELSE 0),
      seen |-> now,
      app |-> AppLayer(s.app, p.l7, known)]

\* The tick counters are drained by every snapshot.
Drained(s) == [s EXCEPT !.tick = PerDirection(0, 0)]

\* ProtocolNode::add: every node along the path counts the packet.
TreeAdded(tree, path, len) ==
  LET prefixes == {SubSeq(path, 1, n) : n \in 0..Len(path)}
      Old(q) == IF q \in DOMAIN tree THEN tree[q] ELSE [bytes |-> 0, packets |-> 0]
  IN [q \in DOMAIN tree \cup prefixes |->
        IF q \in prefixes THEN [bytes |-> Old(q).bytes + len, packets |-> Old(q).packets + 1] ELSE tree[q]]
=============================================================================
