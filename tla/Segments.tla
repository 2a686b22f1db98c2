------------------------------- MODULE Segments -------------------------------
(***************************************************************************)
(* TcpReassembler of reassembly.rs: one coverage buffer per direction of a *)
(* connection, bounded in bytes, in time and over all directions. The      *)
(* operators take and return a state of the reassembler,                   *)
(*   [streams, bytes, count, out],                                         *)
(* where out is what the call returned: a status, or Hole for "unchanged". *)
(***************************************************************************)
EXTENDS Coverage

CONSTANTS
  Flows,           \* connections; a direction is <<flow, from_local>>
  SeqMod,          \* sequence numbers are taken modulo this (2^32)
  MaxStreamBytes,  \* MAX_TCP_STREAM_BYTES
  MaxStreams,      \* MAX_TCP_STREAMS
  MaxSegBytes,     \* MAX_TCP_BYTES_TOTAL
  StreamIdle,      \* TCP_STREAM_IDLE_MS
  DecisionWindow   \* TCP_DECISION_WINDOW_MS

ASSUME SegAssumption ==
  /\ {MaxStreamBytes, MaxStreams, MaxSegBytes, StreamIdle, DecisionWindow} \subseteq Nat \ {0}
  /\ SeqMod \in Nat /\ SeqMod % 2 = 0 /\ SeqMod > 2 * MaxStreamBytes
  /\ IsFiniteSet(Flows)

StreamKeys == Flows \X BOOLEAN

SegKinds == {"completed", "truncated", "missing", "abandoned", "idle", "capacity", "conflictingBytes"}

\* a.wrapping_sub(b) as i32
SeqDelta(a, b) ==
  LET d == (a - b) % SeqMod IN IF d < SeqMod \div 2 THEN d ELSE d - SeqMod

NewStream(seq, now) ==
  [base |-> seq, data |-> <<>>, cap |-> 0, accounted |-> 0, prefix |-> 0,
   short |-> Hole, finished |-> FALSE, first |-> now, last |-> now]

LiveStreams(streams) == {k \in StreamKeys : streams[k] # Hole}

StreamIsIdle(s, now) == SatSub(now, s.last) > StreamIdle

\* TcpStream::status
StreamStatus(s) ==
  IF s.short # Hole /\ s.short <= s.prefix THEN "truncated"
  ELSE IF s.prefix < Len(s.data) THEN "missing" ELSE "completed"

\* A mutant of ReleasedStream: the vectors are emptied, not given back.
ReleasedStreamKeepsCap(s) == [s EXCEPT !.data = <<>>, !.prefix = 0]

\* release: both vectors are given back.
ReleasedStream(s) == [s EXCEPT !.data = <<>>, !.cap = 0, !.accounted = 0, !.prefix = 0]

\* rebase: room for an earlier segment in front; the vectors are new ones.
Rebased(s, shift, seq) ==
  LET cap == VecGrow(shift, shift + Len(s.data))
      data == [i \in 1..shift |-> Hole] \o s.data
  IN [s EXCEPT !.data = SubSeq(data, 1, Smaller(Len(data), MaxStreamBytes)),
               !.cap = cap, !.accounted = 2 * cap, !.base = seq, !.prefix = 0,
               !.short = IF @ = Hole THEN Hole ELSE @ + shift]

Prefix(st, key) ==
  IF st.streams[key] = Hole THEN <<>>
  ELSE SubSeq(st.streams[key].data, 1, st.streams[key].prefix)

HasBuffer(st, key) == st.streams[key] # Hole

-----------------------------------------------------------------------------

SegBump(st, kind, n) == [st EXCEPT !.count[kind] = @ + n]

DroppedStreams(st, keys) ==
  [st EXCEPT !.streams = [k \in StreamKeys |-> IF k \in keys THEN Hole ELSE @[k]],
             !.bytes = SatSub(@, SizeOf(st.streams, keys))]

Put(st, key, s) == [st EXCEPT !.streams = [@ EXCEPT ![key] = s]]

SegEvictedUntil(st, maxStreams, maxBytes) ==
  {SegBump(DroppedStreams(st, gone), "capacity", Cardinality(gone)) :
     gone \in Evictions(st.streams, LiveStreams(st.streams), st.bytes, maxStreams, maxBytes)}

\* Room at the ceiling, expiry on arrival, and the direction's entry.
SegRoomFor(st, key) ==
  IF ~HasBuffer(st, key) /\ Cardinality(LiveStreams(st.streams)) >= MaxStreams
  THEN SegEvictedUntil(st, SatSub(MaxStreams, 1), MaxSegBytes)
  ELSE {st}

SegEntered(st, key, seq, now) ==
  LET old == IF HasBuffer(st, key) /\ StreamIsIdle(st.streams[key], now)
             THEN SegBump(DroppedStreams(st, {key}), "idle", 1) ELSE st
      s == IF HasBuffer(old, key) THEN old.streams[key] ELSE NewStream(seq, now)
  IN Put(old, key, [s EXCEPT !.last = now])

\* Where the segment lands; Hole when it is too far away in either direction.
Landing(s, seq) ==
  LET rel == SeqDelta(seq, s.base)
  IN IF rel < 0
     THEN IF Len(s.data) - rel > MaxStreamBytes THEN Hole ELSE [stream |-> Rebased(s, -rel, seq), offset |-> 0]
     ELSE IF rel > MaxStreamBytes THEN Hole ELSE [stream |-> s, offset |-> rel]

Extended(s, offset, payload, declared) ==
  LET data == WriteFirstSeen(s.data, offset, payload, MaxStreamBytes)
      cap == VecGrow(s.cap, Len(data))
      hole == offset + Len(payload)
  IN [s EXCEPT !.data = data, !.cap = cap, !.accounted = 2 * cap,
               !.prefix = ContiguousFrom(data, @),
               !.short = IF Len(payload) >= declared THEN @
                         ELSE IF @ = Hole THEN hole ELSE Smaller(@, hole),
               !.finished = @ \/ HitsCap(offset, payload, MaxStreamBytes)]

SegWritten(st, key, land, payload, declared) ==
  LET old == st.streams[key]
      s == Extended(land.stream, land.offset, payload, declared)
      hitCap == HitsCap(land.offset, payload, MaxStreamBytes)
      changed == hitCap \/ NewlyWritten(land.stream.data, land.offset, payload, MaxStreamBytes) # {}
      put == [Put(st, key, s) EXCEPT
                !.bytes = SatSub(@ + s.accounted, old.accounted),
                !.out = IF changed THEN StreamStatus(s) ELSE Hole]
  IN SegEvictedUntil(
       SegBump(SegBump(put, "conflictingBytes",
                       Cardinality(Conflicts(land.stream.data, land.offset, payload, MaxStreamBytes))),
               "abandoned", IF hitCap THEN 1 ELSE 0),
       MaxStreams, MaxSegBytes)

\* What feed does with a direction's entry.
SegAbsorbed(st, key, seq, payload, declared, now) ==
  LET s == st.streams[key]
      land == Landing(s, seq)
  IN IF s.finished THEN {DroppedStreams(st, {key})}
     ELSE IF SatSub(now, s.first) > DecisionWindow
     THEN {SegBump([Put(st, key, [ReleasedStream(s) EXCEPT !.finished = TRUE]) EXCEPT
                      !.bytes = SatSub(@, s.accounted)], "abandoned", 1)}
     ELSE IF land = Hole THEN {st}
     ELSE SegWritten(st, key, land, payload, declared)

SegFed(st0, key, seq, payload, declared, now) ==
  LET st == [st0 EXCEPT !.out = Hole]
  IN IF payload = <<>> THEN {st}
     ELSE UNION {SegAbsorbed(SegEntered(room, key, seq, now), key, seq, payload, declared, now) :
                   room \in SegRoomFor(st, key)}

\* finish: the message is done, whatever its status.
SegFinished(st, key, status) ==
  IF HasBuffer(st, key) THEN SegBump(DroppedStreams(st, {key}), status, 1) ELSE st

SegEvictStale(st, now) ==
  LET idle == {k \in LiveStreams(st.streams) : StreamIsIdle(st.streams[k], now)}
  IN SegEvictedUntil(SegBump(DroppedStreams(st, idle), "idle", Cardinality(idle)),
                     MaxStreams, MaxSegBytes)
=============================================================================
