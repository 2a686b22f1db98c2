------------------------------ MODULE TlsStream ------------------------------
(***************************************************************************)
(* The readers below the TLS interception: a TCP direction in order        *)
(* (tls_stream.rs), its records, the handshake messages in them            *)
(* (tls_handshake.rs), the HTTP/2 frames of the plaintext (http2.rs) and   *)
(* the ring of what was decrypted (ring_buffer.rs).                        *)
(*                                                                         *)
(* Records, handshake messages and frames are items; an item is ItemLen    *)
(* units <<item, i>> long, and its first unit stands for the header that   *)
(* declares its length.                                                    *)
(***************************************************************************)
EXTENDS Coverage, SequencesExt

CONSTANTS
  ItemLen,         \* units of a record, handshake message or frame
  MaxRecord,       \* MAX_TLS_RECORD_BODY_BYTES, with the header
  ReorderWindow,   \* TLS_REORDER_WINDOW_BYTES
  MaxHandshake,    \* MAX_HANDSHAKE_BUFFER
  MaxFrame,        \* MAX_FRAME_LEN
  BadItems,        \* handshake messages and header blocks that do not decode
  ShownFrames,     \* frames with headers or a body, the others are skipped
  RingCap,         \* DECRYPT_RING_CAP_BYTES
  TlsSeqMod        \* TCP sequence numbers are taken modulo this

ASSUME TlsStreamAssumption ==
  /\ {MaxRecord, ReorderWindow, MaxHandshake, MaxFrame, RingCap} \subseteq Nat \ {0}
  /\ TlsSeqMod \in Nat /\ TlsSeqMod > 2 * ReorderWindow
  /\ \A item \in DOMAIN ItemLen : ItemLen[item] \in Nat \ {0}

Units(item) == [i \in 1..ItemLen[item] |-> <<item, i>>]

AllUnits(items) == FoldLeft(LAMBDA all, item : all \o Units(item), <<>>, items)

\* The whole items at the front of a buffer, and the unit at which it stops.
WholeItems(buf) ==
  LET from[pos \in 0..Len(buf)] ==
        IF pos < Len(buf) /\ pos + ItemLen[buf[pos + 1][1]] <= Len(buf)
        THEN LET rest == from[pos + ItemLen[buf[pos + 1][1]]]
             IN [rest EXCEPT !.items = <<buf[pos + 1][1]>> \o @]
        ELSE [items |-> <<>>, rest |-> SubSeq(buf, pos + 1, Len(buf))]
  IN from[0]

\* An item among those read, or the one begun after them, is longer than max.
TooLong(whole, max) ==
  \/ \E i \in 1..Len(whole.items) : ItemLen[whole.items[i]] > max
  \/ whole.rest # <<>> /\ ItemLen[whole.rest[1][1]] > max

-----------------------------------------------------------------------------
(* tls_stream.rs *)

TlsDelta(a, b) ==
  LET d == (a - b) % TlsSeqMod IN IF d < TlsSeqMod \div 2 THEN d ELSE d - TlsSeqMod

\* first_data_sequence
FirstData(seq, syn) == (seq + (IF syn THEN 1 ELSE 0)) % TlsSeqMod

\* TlsTcpStream and the record begun, for units of these records.
TlsStreams(records) ==
  [next : Nat, data : Seq((records \X Nat) \cup {Hole}), partial : Seq(records \X Nat)]

NewTlsStream(seq) == [next |-> seq, data |-> <<>>, partial |-> <<>>]

StreamHeld(s) == 2 * Len(s.data) + Len(s.partial)

HasGap(s) ==
  (\E i \in 1..Len(s.data) : s.data[i] = Hole) /\ (\E i \in 1..Len(s.data) : s.data[i] # Hole)

\* TlsTcpStream::feed: the bytes that are contiguous now, or an error.
TcpFed(s, seq, payload) ==
  LET rel == TlsDelta(seq, s.next)
      piece == IF rel < 0 THEN SubSeq(payload, 1 - rel, Len(payload)) ELSE payload
      offset == Larger(rel, 0)
      data == WriteFirstSeen(s.data, offset, piece, ReorderWindow)
      n == ContiguousFrom(data, 0)
  IN IF piece = <<>> THEN [err |-> Hole, stream |-> s, bytes |-> <<>>]
     ELSE IF offset + Len(piece) > ReorderWindow
     THEN IF offset = 0 /\ s.data = <<>>
          THEN [err |-> Hole, stream |-> [s EXCEPT !.next = (@ + Len(piece)) % TlsSeqMod], bytes |-> piece]
          ELSE [err |-> "tcpGap", stream |-> s, bytes |-> <<>>]
     ELSE IF Conflicts(s.data, offset, piece, ReorderWindow) # {}
     THEN [err |-> "overlapConflict", stream |-> s, bytes |-> <<>>]
     ELSE [err |-> Hole,
           stream |-> [s EXCEPT !.next = (@ + n) % TlsSeqMod, !.data = SubSeq(data, n + 1, Len(data))],
           bytes |-> SubSeq(data, 1, n)]

\* The records in what TCP handed over.
Framed(s, tcp) ==
  LET whole == WholeItems(tcp.stream.partial \o tcp.bytes)
  IN IF tcp.err # Hole THEN [err |-> tcp.err, stream |-> s, records |-> <<>>]
     ELSE IF TooLong(whole, MaxRecord) THEN [err |-> "recordOverflow", stream |-> s, records |-> <<>>]
     ELSE [err |-> Hole, stream |-> [tcp.stream EXCEPT !.partial = whole.rest], records |-> whole.items]

\* TlsDirectionStream::feed_segment: TCP order, then records.
SegmentFed(s, seq, payload) == Framed(s, TcpFed(s, seq, payload))

-----------------------------------------------------------------------------
(* tls_handshake.rs *)

\* TlsHandshakeParser::feed: the messages that are complete now, or an error.
HandshakeFed(parser, units) ==
  LET whole == WholeItems(parser \o units)
  IN IF \/ Len(parser) + Len(units) > MaxHandshake
        \/ TooLong(whole, MaxHandshake)
        \/ \E i \in 1..Len(whole.items) : whole.items[i] \in BadItems
     THEN [ok |-> FALSE, parser |-> <<>>, messages |-> <<>>]
     ELSE [ok |-> TRUE, parser |-> whole.rest, messages |-> whole.items]

-----------------------------------------------------------------------------
(* http2.rs *)

NewHttp2 == [buf |-> <<>>, next |-> Hole, desynced |-> FALSE]

Desynced(h) == [h EXCEPT !.buf = <<>>, !.desynced = TRUE]

\* Http2Reassembler::feed: the frames to show, in order. A gap, a header block
\* that does not decode or a frame beyond the cap ends it for good.
Http2Fed(h, seq, units) ==
  LET whole == WholeItems(h.buf \o units)
      Stops(i) == whole.items[i] \in BadItems \/ ItemLen[whole.items[i]] > MaxFrame
      read == Min({Len(whole.items)} \cup {i - 1 : i \in {j \in 1..Len(whole.items) : Stops(j)}})
      frames == FoldLeft(LAMBDA all, f : IF f \in ShownFrames THEN Append(all, f) ELSE all, <<>>,
                         SubSeq(whole.items, 1, read))
  IN IF h.desynced \/ (h.next # Hole /\ seq # h.next) THEN [http2 |-> Desynced(h), frames |-> <<>>]
     ELSE IF read < Len(whole.items) \/ TooLong(whole, MaxFrame)
     THEN [http2 |-> Desynced([h EXCEPT !.next = seq + Len(units)]), frames |-> frames]
     ELSE [http2 |-> [buf |-> whole.rest, next |-> seq + Len(units), desynced |-> FALSE],
           frames |-> frames]

-----------------------------------------------------------------------------
(* ring_buffer.rs *)

RingUsed(ring) == FoldLeft(LAMBDA n, e : n + ItemLen[e.item], 0, ring)

\* push_entry: the oldest entries go until the rest fits.
RingPushed(ring, entry) ==
  LET all == Append(ring, entry)
      fits == {n \in 0..Len(all) : RingUsed(SubSeq(all, n + 1, Len(all))) <= RingCap}
  IN SubSeq(all, Min(fits) + 1, Len(all))
=============================================================================
