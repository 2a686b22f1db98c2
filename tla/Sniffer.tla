------------------------------- MODULE Sniffer -------------------------------
(***************************************************************************)
(* StreamReassembler of reassembly.rs on TCP packets: what the capture loop *)
(* learns of the application layer, with the segment buffers of Segments,  *)
(* the detectors of L7 and the framing of DNS over TCP, which remembers    *)
(* where the next message starts.                                          *)
(*                                                                         *)
(* A sender's bytes are Content, from sequence number FirstSeq on. What is *)
(* captured of them is cut into segments in any way, in any order, any     *)
(* number of times; in the scenario "forged" another host injects segments *)
(* with bytes of its own. Reassembly puts these actions together.          *)
(***************************************************************************)
EXTENDS Segments, L7

CONSTANTS
  Class,           \* class of each direction's ports, see L7
  Content,         \* the bytes a direction sends
  FirstSeq,        \* their first sequence number
  PlausibleFlags,  \* flag bytes looks_like_dns_tcp_start accepts
  CutWindow,       \* CUT_ATTRIBUTION_WINDOW_MS
  EvictEvery,      \* 1 s between sweeps
  Scenarios,       \* subset of {"ordered", "lossy", "forged", "fragmented"}
  ForgedByte,      \* a byte an injected segment consists of
  Edges,           \* bounds: where a direction's bytes may be cut,
  MaxPayload,      \* segment size, time, packets of a scenario
  MaxSniffTime,
  MaxPackets

\* What a TcpStream can hold.
SegStreams ==
  [base : 0..SeqMod-1, data : Seq(Byte \cup {Hole}), cap : Nat, accounted : Nat, prefix : Nat,
   short : Nat \cup {Hole}, finished : BOOLEAN, first : Nat, last : Nat]

ASSUME SniffAssumption ==
  /\ Class \in [StreamKeys -> {"toDns", "fromDns", "tls", "other"}]
  /\ Content \in [StreamKeys -> Seq(Byte)] /\ FirstSeq \in [StreamKeys -> 0..SeqMod-1]
  /\ ForgedByte \in Byte /\ Hole \notin SegStreams
  /\ {CutWindow, EvictEvery, MaxPayload, MaxSniffTime} \subseteq Nat
  /\ \A k \in StreamKeys : Edges[k] \subseteq 0..Len(Content[k])
  /\ \A s \in Scenarios : MaxPackets[s] \in Nat
  /\ MaxDnsTcp = MaxStreamBytes - 2

VARIABLES
  nSegs,       \* the TcpReassembler, see Segments
  nFrames,     \* DnsTcpFraming::entries
  nCut,        \* last_frame_cut_at_ms
  nEvicted,    \* last_evict_ms
  nOut,        \* SniffOutcome of the last packet
  nNow,        \* the reassembly clock
  nScenario,   \* what the network does
  nSeen,       \* how far each direction was captured in order
  nPackets     \* packets captured

nVars == <<nSegs, nFrames, nCut, nEvicted, nOut, nNow, nScenario, nSeen, nPackets>>

NoInfo == [kind |-> "none"]
Nothing == [info |-> NoInfo, status |-> Hole, need |-> 0]

OverDns(key) == Class[key] \in {"toDns", "fromDns"}
ResponseOnly(key) == Class[key] = "fromDns"

-----------------------------------------------------------------------------
(* DnsTcpFraming *)

\* looks_like_dns_tcp_start: a prefix and a header a DNS message could have.
LooksLikeStart(bytes) ==
  /\ Len(bytes) >= 2 + DnsHeaderLen
  /\ bytes[3] \in PlausibleFlags
  /\ DeclaredLen(bytes) >= DnsHeaderLen

\* dns_tcp_walk over bytes, which start at base and begin with carry if there
\* is one: the next message's start and the high byte of a split prefix.
Walk(bytes, base, carry, responseOnly, continuing) ==
  LET all == IF carry = Hole THEN bytes ELSE <<carry>> \o bytes
      len == Len(all)
      at[pos \in Nat] ==
        IF pos >= len THEN [next |-> (base + pos) % SeqMod, pending |-> Hole]
        ELSE IF pos = len - 1 THEN [next |-> (base + pos + 1) % SeqMod, pending |-> all[len]]
        ELSE LET declared == DeclaredLen(SubSeq(all, pos + 1, pos + 2))
             IN IF declared >= DnsHeaderLen THEN at[pos + 2 + declared]
                ELSE IF pos > 0 THEN [next |-> (base + pos) % SeqMod, pending |-> Hole]
                ELSE Hole
      shown == IF len >= 3 THEN all[3] \in ResponseFlags ELSE continuing
  IN IF responseOnly /\ ~shown THEN Hole ELSE at[0]

Forget(frames, key) == [frames EXCEPT ![key] = Hole]

Framed(frames) == {k \in StreamKeys : frames[k] # Hole}

\* record: at the ceiling one of the oldest entries makes room.
Record(frames, key, boundary) ==
  LET full == frames[key] = Hole /\ Cardinality(Framed(frames)) >= MaxStreams
      oldest == {k \in Framed(frames) : \A j \in Framed(frames) : frames[k].last <= frames[j].last}
  IN {[f EXCEPT ![key] = boundary] :
        f \in IF full THEN {Forget(frames, k) : k \in oldest} ELSE {frames}}

WalkAndRecord(frames, key, base, carry, bytes, now) ==
  LET end == Walk(bytes, base, carry, ResponseOnly(key), frames[key] # Hole)
  IN IF end = Hole THEN {Forget(frames, key)}
     ELSE Record(frames, key, [next |-> end.next, pending |-> end.pending, last |-> now])

\* A mutant of Inside: only a split prefix tells that a segment is no start.
InsideAtSplit(frames, key, seq, now) ==
  LET e == frames[key]
  IN e # Hole /\ SatSub(now, e.last) <= StreamIdle /\ seq = e.next /\ e.pending # Hole

\* skip_inside_message: whether it skips the segment. The framings it may leave then...
Inside(frames, key, seq, now) ==
  LET e == frames[key]
  IN /\ e # Hole /\ SatSub(now, e.last) <= StreamIdle
     /\ \/ SeqDelta(seq, e.next) < 0
        \/ seq = e.next /\ e.pending # Hole

SkipInside(frames, key, seq, payload, now) ==
  LET e == frames[key]
      offset == -SeqDelta(seq, e.next)
  IN IF offset >= Len(payload) THEN {frames}
     ELSE WalkAndRecord(frames, key, (e.next - (IF e.pending = Hole THEN 0 ELSE 1)) % SeqMod,
                        e.pending, SubSeq(payload, offset + 1, Len(payload)), now)

\* ... and the one it leaves otherwise: a lapsed boundary goes.
Lapse(frames, key, now) ==
  IF frames[key] # Hole /\ SatSub(now, frames[key].last) > StreamIdle
  THEN Forget(frames, key) ELSE frames

\* note_consumed: the boundary keeps moving over bytes that were not sniffed.
NoteConsumed(frames, key, seq, payload, now) ==
  IF payload = <<>> THEN {frames}
  ELSE IF Inside(frames, key, seq, now) THEN SkipInside(frames, key, seq, payload, now)
  ELSE LET f == Lapse(frames, key, now)
           starts == IF f[key] = Hole THEN LooksLikeStart(payload) ELSE f[key].next = seq
       IN IF starts THEN WalkAndRecord(f, key, seq, Hole, payload, now) ELSE {f}

PastBoundary(frames, key, seq) == frames[key] = Hole \/ SeqDelta(seq, frames[key].next) > 0

RecordMessage(frames, key, base, bytes, otherProtocol, now) ==
  IF ResponseOnly(key) /\ otherProtocol THEN {Forget(frames, key)}
  ELSE IF PastBoundary(frames, key, base) /\ ~LooksLikeStart(bytes) THEN {frames}
  ELSE WalkAndRecord(frames, key, base, Hole, bytes, now)

CoversFirstMessage(frames, key, base, bytes) ==
  /\ Len(bytes) >= 2 /\ Len(bytes) >= 2 + DeclaredLen(bytes)
  /\ frames[key] # Hole /\ SeqDelta(frames[key].next, base + 2 + DeclaredLen(bytes)) >= 0

-----------------------------------------------------------------------------
(* sniff_inner on a TCP packet of a known flow *)

\* attribute: a gap while frames are being cut is blamed on the snap length.
Attribute(status, cutAt, now) ==
  IF status = "missing" /\ cutAt # Hole /\ SatSub(now, cutAt) <= CutWindow
  THEN "truncated" ELSE status

\* An outcome with its direction and the sequence number where its text starts.
Found(sniff, key, base, status) ==
  [info |-> [of |-> key, kind |-> sniff.kind, text |-> sniff.text, from |-> (base + sniff.at) % SeqMod],
   status |-> status, need |-> 0]

IsOther(sniff) == sniff.out = "decided" /\ ~IsDnsKind(sniff.kind)

\* After a change of the buffer: sniff its prefix, move the boundary, and let
\* go of the buffer once its message is decided or known not to decide.
SniffBuffer(segs, frames, key, seq, payload, cutAt, now) ==
  LET status == Attribute(segs.out, cutAt, now)
      prefix == Prefix(segs, key)
      sniff == SniffForTransport(prefix, Class[key])
      base == IF HasBuffer(segs, key) THEN segs.streams[key].base ELSE seq
      outcome == IF sniff.out = "decided" THEN Found(sniff, key, base, status)
                 ELSE [Nothing EXCEPT !.status = status,
                         !.need = IF sniff.out = "need" THEN sniff.atLeast ELSE 0]
      recorded == RecordMessage(frames, key, base, prefix, IsOther(sniff), now)
      past == UNION {IF Inside(f, key, seq, now) THEN SkipInside(f, key, seq, payload, now)
                     ELSE {Lapse(f, key, now)} : f \in recorded}
      moved == IF ~OverDns(key) \/ ~HasBuffer(segs, key) THEN {frames}
               ELSE IF Len(prefix) >= MaxStreamBytes THEN past ELSE recorded
      Done(f) == \/ sniff.out = "decided"
                 \/ /\ OverDns(key) /\ HasBuffer(segs, key) /\ sniff.out = "undecided"
                    /\ CoversFirstMessage(f, key, base, prefix)
  IN {[segs |-> IF Done(f) THEN SegFinished(segs, key, status) ELSE segs,
       frames |-> f, out |-> outcome] : f \in moved}

\* Not decided by the packet alone: through the buffer.
SniffSegment(frames, key, seq, payload, declared, cutAt, now) ==
  UNION {IF segs.out # Hole THEN SniffBuffer(segs, frames, key, seq, payload, cutAt, now)
         ELSE {[segs |-> segs, frames |-> f, out |-> Nothing] :
                 f \in IF OverDns(key) THEN NoteConsumed(frames, key, seq, payload, now) ELSE {frames}} :
         segs \in SegFed(nSegs, key, seq, payload, declared, now)}

SniffInner(key, seq, payload, declared, syn, cutAt, now) ==
  LET skips == OverDns(key) /\ ~syn /\ ~HasBuffer(nSegs, key) /\ Inside(nFrames, key, seq, now)
      frames == IF ~OverDns(key) THEN nFrames
                ELSE IF syn THEN Forget(nFrames, key)
                ELSE IF HasBuffer(nSegs, key) THEN nFrames ELSE Lapse(nFrames, key, now)
      own == SniffForTransport(payload, Class[key])
  IN IF skips
     THEN {[segs |-> nSegs, frames |-> f, out |-> Nothing] :
             f \in SkipInside(nFrames, key, seq, payload, now)}
     ELSE IF own.out = "decided" /\ ~HasBuffer(nSegs, key)
     THEN {[segs |-> nSegs, frames |-> f, out |-> Found(own, key, seq, Hole)] :
             f \in IF OverDns(key) THEN RecordMessage(frames, key, seq, payload, IsOther(own), now)
                   ELSE {frames}}
     ELSE SniffSegment(frames, key, seq, payload, declared, cutAt, now)

-----------------------------------------------------------------------------
(* Actions: a packet goes through sniff_inner, then through maybe_evict *)

EvictDue == SatSub(nNow, nEvicted) >= EvictEvery

\* maybe_evict, for the segments and the boundaries.
Evicted(r) ==
  {[r EXCEPT !.segs = segs, !.frames = [k \in StreamKeys |-> Lapse(r.frames, k, nNow)[k]]] :
     segs \in SegEvictStale(r.segs, nNow)}

\* The outcomes of a packet become the state, with a sweep when it is due.
Sniffed(results) ==
  /\ nPackets < MaxPackets[nScenario] /\ nPackets' = nPackets + 1
  /\ \E r \in results : \E end \in IF EvictDue THEN Evicted(r) ELSE {r} :
       /\ nSegs' = [end.segs EXCEPT !.out = Hole]
       /\ nFrames' = end.frames
       /\ nOut' = r.out
  /\ nEvicted' = IF EvictDue THEN nNow ELSE nEvicted
  /\ UNCHANGED <<nNow, nScenario>>

\* note_capture_truncation, before a frame is parsed.
CutAt(cut) == IF cut THEN nNow ELSE nCut

\* A segment of the sender's bytes i+1..i+n, of which the last cut were not
\* captured. Captured in order, it starts where the last one ended.
Segment(key, i, n, cut) ==
  /\ i + n <= Len(Content[key]) /\ cut < n
  /\ nScenario \in {"ordered", "fragmented"} => i = nSeen[key] /\ cut = 0
  /\ Sniffed(SniffInner(key, (FirstSeq[key] + i) % SeqMod, SubSeq(Content[key], i + 1, i + n - cut),
                        n, FALSE, CutAt(cut > 0), nNow))
  /\ nSeen' = [nSeen EXCEPT ![key] = Larger(@, i + n)]
  /\ nCut' = CutAt(cut > 0)

\* A segment of somebody else's bytes.
Inject(key, i, n) ==
  /\ nScenario = "forged"
  /\ Sniffed(SniffInner(key, (FirstSeq[key] + i) % SeqMod, [j \in 1..n |-> ForgedByte],
                        n, FALSE, nCut, nNow))
  /\ UNCHANGED <<nCut, nSeen>>

\* A new connection on the same tuple: sequence numbers start again.
Syn(key) ==
  /\ nScenario = "lossy"
  /\ Sniffed(SniffInner(key, (FirstSeq[key] - 1) % SeqMod, <<>>, 0, TRUE, nCut, nNow))
  /\ nSeen' = [nSeen EXCEPT ![key] = 0]
  /\ UNCHANGED nCut

\* A packet of another protocol.
OtherPacket ==
  /\ EvictDue
  /\ Sniffed({[segs |-> nSegs, frames |-> nFrames, out |-> Nothing]})
  /\ UNCHANGED <<nCut, nSeen>>

\* A cut frame that is not parsed any further.
CutFrame ==
  /\ nScenario = "lossy"
  /\ nCut' = nNow
  /\ nOut' = Nothing
  /\ UNCHANGED <<nSegs, nFrames, nEvicted, nNow, nScenario, nSeen, nPackets>>

\* reset, after an interface switch; counters stay.
SniffReset ==
  /\ nScenario # "ordered"
  /\ nSegs' = DroppedStreams(nSegs, LiveStreams(nSegs.streams))
  /\ nFrames' = [k \in StreamKeys |-> Hole]
  /\ nCut' = Hole
  /\ nOut' = Nothing
  /\ UNCHANGED <<nEvicted, nNow, nScenario, nSeen, nPackets>>

SniffTick ==
  /\ nNow < MaxSniffTime
  /\ nNow' = nNow + 1
  /\ nOut' = Nothing
  /\ UNCHANGED <<nSegs, nFrames, nCut, nEvicted, nScenario, nSeen, nPackets>>

SniffInit ==
  /\ nSegs = [streams |-> [k \in StreamKeys |-> Hole], bytes |-> 0,
              count |-> [k \in SegKinds |-> 0], out |-> Hole]
  /\ nFrames = [k \in StreamKeys |-> Hole]
  /\ nCut = Hole
  /\ nEvicted = 0
  /\ nOut = Nothing
  /\ nNow = 0
  /\ nScenario \in Scenarios
  /\ nSeen = [k \in StreamKeys |-> 0]
  /\ nPackets = 0

-----------------------------------------------------------------------------
(* Properties *)

HeldAt(s, seq) ==
  LET i == SeqDelta(seq, s.base) + 1 IN IF Held(s.data, i) THEN s.data[i] ELSE Hole

\* A step that keeps what live buffers hold, and shows no other byte in place of
\* one when it decides.
SegFirstSeen ==
  \A k \in StreamKeys :
    LET s == nSegs.streams[k]
        t == nSegs'.streams[k]
        Shown(i) == HeldAt(s, nOut'.info.from + i - 1)
    IN s # Hole /\ ~StreamIsIdle(s, nNow) =>
         /\ t # Hole /\ ~t.finished =>
              \A i \in 1..Len(s.data) :
                Held(s.data, i) => HeldAt(t, s.base + i - 1) = s.data[i]
         /\ t = Hole /\ nOut'.info # NoInfo /\ nOut'.info.of = k =>
              \A i \in 1..Len(nOut'.info.text) :
                Shown(i) # Hole => nOut'.info.text[i] = Shown(i)

\* bytes_held is what the buffers account for; it, the number of buffers and of
\* boundaries, and every buffer stay under their ceilings after every call.
SegAccounted ==
  LET live == LiveStreams(nSegs.streams)
  IN /\ nSegs.bytes = SizeOf(nSegs.streams, live) /\ nSegs.bytes <= MaxSegBytes
     /\ Cardinality(live) <= MaxStreams /\ Cardinality(Framed(nFrames)) <= MaxStreams
     /\ \A k \in live : LET s == nSegs.streams[k]
                        IN Len(s.data) <= MaxStreamBytes /\ s.prefix = ContiguousFrom(s.data, 0)

\* Positions in a direction's bytes where a DNS message starts.
MessageStarts(key) ==
  LET all == Content[key]
      starts[pos \in Nat] ==
        IF pos + 2 > Len(all) THEN {}
        ELSE {pos} \cup starts[pos + 2 + DeclaredLen(SubSeq(all, pos + 1, pos + 2))]
  IN starts[0]

\* JAM-21: on a direction captured in order and without loss, within the
\* decision window and while no buffer was evicted for room, every DNS message
\* shown starts where the sender started one; bytes inside a message, be it too
\* long to buffer or undecodable, are never read as a message, wherever the
\* segments are cut.
OnlyRealMessages ==
  /\ nScenario = "ordered" /\ nNow <= DecisionWindow /\ nSegs.count["capacity"] = 0
  /\ IsDnsKind(nOut.info.kind)
  =>
    LET k == nOut.info.of
    IN \E pos \in MessageStarts(k) : (FirstSeq[k] + pos + 2) % SeqMod = nOut.info.from
=============================================================================
