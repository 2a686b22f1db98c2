---------------------------------- MODULE Tls ----------------------------------
(***************************************************************************)
(* TLS interception in main.rs: per connection and direction, the captured *)
(* records are put in order, wait for the keys the process writes to its   *)
(* key log, are decrypted with the sequence number they were sent with,    *)
(* and decoded; under ceilings on directions and bytes, and on timers.     *)
(*                                                                         *)
(* The capture thread handles packets, the emitter polls once a second,    *)
(* the control task opts processes in and out. Each holds the locks it     *)
(* needs for a whole action here; opting out takes two.                    *)
(*                                                                         *)
(* Encryption is symbolic: a record opens with the secret and the sequence *)
(* number it was sealed with, and with no other. Buffers count as what is  *)
(* in them, not as the capacity of their vectors.                          *)
(***************************************************************************)
EXTENDS KeyLog, TlsStream, SequencesExt, TLC

CONSTANTS
  Conns,            \* connections
  PidOf,            \* the process of each, as process_map says
  Random,           \* their client randoms
  ClientOut,        \* whether the client is this host
  Sent,             \* the records each direction sends: Conns -> [BOOLEAN -> Seq]
  SynSeq,           \* the sequence number of their SYNs
  Record,           \* type, plaintext units, sealing and inner type of each record
  Suites,           \* ServerHello messages: their suite, 0 before TLS 1.3
  EarlyHellos,      \* ClientHello messages that announce early data
  FinishedMsgs, KeyUpdateMsgs,
  Supported,        \* 0x1301
  MaxTlsBytes,      \* MAX_TLS_BUFFER_BYTES
  MaxDirections,    \* MAX_TLS_ACTIVE_DIRECTIONS
  MaxPidDirections, \* MAX_TLS_DIRECTIONS_PER_PID
  MaxKeyWait,       \* MAX_TLS_KEY_WAIT_BYTES
  KeyWait, GapHold, \* TLS_KEY_WAIT_MS, TLS_GAP_HOLD_MS
  MaxEarlyRecords, MaxEarlyBytes,
  Scenes,           \* bounds: the connections that take part, by scene;
  TlsEdges,         \* where packets cut what a direction sends
  KeyEdges,         \* and processes what they write to their key logs,
  TlsFaults,        \* whether packets may be cut short or forged, by scene
  MaxTlsPackets     \* and how many packets there are, by scene

\* Why a direction is given up: DecryptionReason.
Reasons ==
  {"noKey", "tcpGap", "overlapConflict", "recordOverflow", "recordInvalid", "unsupportedCipher",
   "handshakeNotObserved", "earlyDataUnresolved", "captureTruncated", "evictedBudget"}

ASSUME TlsAssumption ==
  /\ IsFiniteSet(Conns) /\ \A s \in DOMAIN Scenes : Scenes[s] \subseteq Conns
  /\ KeyEdges \in [Pids -> SUBSET Nat]
  /\ PidOf \in [Conns -> Pids] /\ ClientOut \in [Conns -> BOOLEAN]
  /\ SynSeq \in [Conns -> [BOOLEAN -> Nat]]
  /\ DOMAIN Record \subseteq DOMAIN ItemLen
  /\ \A r \in DOMAIN Record : Record[r].units \in Seq((DOMAIN ItemLen) \X Nat)
  /\ Sent \in [Conns -> [BOOLEAN -> Seq(DOMAIN Record) \ {<<>>}]]
  /\ \A id \in Conns, o \in BOOLEAN : TlsEdges[id][o] \subseteq 0..Len(AllUnits(Sent[id][o]))
  /\ Hole \notin BOOLEAN /\ Hole \notin Reasons /\ Hole \notin TlsStreams(DOMAIN Record)
  /\ {MaxTlsBytes, MaxDirections, MaxPidDirections, MaxKeyWait, KeyWait, GapHold,
      MaxEarlyRecords, MaxEarlyBytes} \subseteq Nat \ {0}

VARIABLES
  tScene,    \* which connections there are
  tConns,    \* DecryptState
  tSyn,      \* directions whose SYN the flow table saw
  tHello,    \* connections whose ClientHello the flow table saw
  tNow,      \* capture time
  tStuck,    \* the capture thread or the emitter is in a loop it cannot leave
  tLeaving,  \* processes that are opted out in the watcher only
  tDecoded,  \* frames put in the ring and handed to emit_decrypted, by direction, in order
  tForged,   \* a packet held bytes that were never sent
  tPackets   \* packets captured

tVars == <<tScene, tConns, tSyn, tHello, tNow, tStuck, tLeaving, tDecoded, tForged, tPackets>>

NewDirection ==
  [stream |-> Hole, hsSecret |-> Hole, hsSeq |-> 0, parser |-> <<>>, started |-> FALSE,
   complete |-> FALSE, suite |-> Hole, early |-> FALSE, earlyRecords |-> 0, earlyBytes |-> 0,
   appSecret |-> Hole, appSeq |-> 0, plain |-> 0, http2 |-> NewHttp2, wait |-> <<>>,
   waitBytes |-> 0, waitSince |-> Hole, gapSince |-> Hole, last |-> 0, terminal |-> Hole,
   reported |-> FALSE, closed |-> FALSE]

\* The outbound and the inbound direction, and what is decoded of them at first.
NewDirections == [o \in BOOLEAN |-> NewDirection]

NoneDecoded == [o \in BOOLEAN |-> <<>>]

NewConnection(pid) ==
  [pid |-> pid, random |-> Hole, clientOut |-> Hole, dir |-> NewDirections, ring |-> <<>>]

DirectionHeld(d) ==
  (IF d.stream = Hole THEN 0 ELSE StreamHeld(d.stream))
  + FoldLeft(LAMBDA n, r : n + ItemLen[r], 0, d.wait) + Len(d.parser) + Len(d.http2.buf)

ConnectionHeld(c) == DirectionHeld(c.dir[TRUE]) + DirectionHeld(c.dir[FALSE]) + RingUsed(c.ring)

Known(conns) == {id \in Conns : conns[id] # Hole}

TotalHeld(conns) == MapThenSumSet(LAMBDA id : ConnectionHeld(conns[id]), Known(conns))

\* active_tls_directions, of a process or of all.
ActiveDirections(conns, pids) ==
  {v \in Known(conns) \X BOOLEAN : conns[v[1]].pid \in pids /\ conns[v[1]].dir[v[2]].stream # Hole}

-----------------------------------------------------------------------------
(* Ending a direction *)

\* emit_pending_decryption_status: told once, as soon as it can be named.
Reported(d, named) == [d EXCEPT !.reported = @ \/ (named /\ d.terminal # Hole)]

\* terminate_decryption_direction
Terminated(d, reason, named) ==
  Reported(IF d.terminal # Hole THEN d
           ELSE [d EXCEPT !.terminal = reason, !.stream = Hole, !.hsSecret = Hole, !.appSecret = Hole,
                          !.hsSeq = 0, !.appSeq = 0, !.wait = <<>>, !.waitBytes = 0, !.waitSince = Hole,
                          !.gapSince = Hole, !.parser = <<>>, !.http2 = NewHttp2],
           named)

\* expire_tls_direction_timers
TimersExpired(d, now, named) ==
  IF d.terminal # Hole THEN d
  ELSE IF d.waitSince # Hole /\ SatSub(now, d.waitSince) >= KeyWait THEN Terminated(d, "noKey", named)
  ELSE IF d.gapSince # Hole /\ SatSub(now, d.gapSince) >= GapHold THEN Terminated(d, "tcpGap", named)
  ELSE d

Named(c) == c.clientOut # Hole

\* mark_tls_direction_evicted
DirectionEvicted(conns, id, o) ==
  LET c == conns[id]
  IN [conns EXCEPT ![id] = [c EXCEPT !.ring = <<>>,
        !.dir = [c.dir EXCEPT ![o] = Terminated(c.dir[o], "evictedBudget", Named(c))]]]

\* Of several, any: the order of a map decides which comes first.
LeastRecent(conns, dirs) ==
  {v \in dirs : \A w \in dirs : conns[v[1]].dir[v[2]].last <= conns[w[1]].dir[w[2]].last}

-----------------------------------------------------------------------------
(* The ceilings: loops that evict one direction at a time *)

Rings(conns) == {id \in Known(conns) : conns[id].ring # <<>>}

\* A loop ends within as many rounds as there are streams and rings, or never: a
\* round that takes neither leaves everything as it was.
Enough(conns) == Cardinality(ActiveDirections(conns, Pids)) + Cardinality(Rings(conns))

Victims(conns, pids, id) == {v \in ActiveDirections(conns, pids) : v[1] # id}

\* make_tls_direction_room: one scope's loop, and whether it goes on for ever.
NeedsRoom(conns, pids, limit, id) ==
  Cardinality(ActiveDirections(conns, pids)) >= limit /\ Victims(conns, pids, id) # {}

RoomRound(conns, pids, limit, id) ==
  IF NeedsRoom(conns, pids, limit, id)
  THEN {DirectionEvicted(conns, v[1], v[2]) : v \in LeastRecent(conns, Victims(conns, pids, id))}
  ELSE {conns}

RoomIn(conns, pids, limit, id) ==
  LET after[k \in 0..Enough(conns)] ==
        IF k = 0 THEN {conns} ELSE UNION {RoomRound(c, pids, limit, id) : c \in after[k - 1]}
  IN after[Enough(conns)]

\* The process's own directions first, then all.
RoomMade(conns, id) ==
  UNION {IF NeedsRoom(own, {PidOf[id]}, MaxPidDirections, id)
         THEN {[conns |-> own, stuck |-> TRUE]}
         ELSE {[conns |-> c, stuck |-> NeedsRoom(c, Pids, MaxDirections, id)] :
                 c \in RoomIn(own, Pids, MaxDirections, id)} :
         own \in RoomIn(conns, {PidOf[id]}, MaxPidDirections, id)}

LastActive(c) == Larger(c.dir[TRUE].last, c.dir[FALSE].last)

OverBudget(conns) ==
  TotalHeld(conns) > MaxTlsBytes /\ (ActiveDirections(conns, Pids) # {} \/ Rings(conns) # {})

\* enforce_tls_buffer_budget: directions first, then rings.
BudgetRound(conns) ==
  LET active == ActiveDirections(conns, Pids)
      oldest == {id \in Rings(conns) : \A j \in Rings(conns) : LastActive(conns[id]) <= LastActive(conns[j])}
  IN IF ~OverBudget(conns) THEN {conns}
     ELSE IF active # {} THEN {DirectionEvicted(conns, v[1], v[2]) : v \in LeastRecent(conns, active)}
     ELSE {[conns EXCEPT ![id] = [@ EXCEPT !.ring = <<>>]] : id \in oldest}

Budgeted(conns) ==
  LET after[k \in 0..Enough(conns)] ==
        IF k = 0 THEN {conns} ELSE UNION {BudgetRound(c) : c \in after[k - 1]}
  IN {[conns |-> c, stuck |-> OverBudget(c)] : c \in after[Enough(conns)]}

-----------------------------------------------------------------------------
(* process_tls_records: s is the direction, the suite agreed on, the ring, the *)
(* records that wait, what is decoded, and whether the loop is over            *)

Ended(s, reason, named) == [s EXCEPT !.d = Terminated(s.d, reason, named), !.over = TRUE]

\* parse_server_hello and parse_client_hello, what they are asked for: the suite of
\* the last server hello, and whether a client hello offers early data.
SuiteIn(messages) ==
  LET hellos == {i \in 1..Len(messages) : messages[i] \in DOMAIN Suites}
  IN IF hellos = {} THEN Hole ELSE Suites[messages[Max(hellos)]]

OffersEarlyData(messages) == \E i \in 1..Len(messages) : messages[i] \in EarlyHellos

\* apply_plaintext_handshake_events: the hellos of cleartext handshake records; a
\* Finished among them means nothing.
HellosRead(s, fed, named) ==
  LET suite == SuiteIn(fed.messages)
      d == [s.d EXCEPT !.parser = fed.parser, !.early = @ \/ OffersEarlyData(fed.messages),
                       !.suite = IF suite = Hole THEN @ ELSE suite]
  IN IF fed.ok
     THEN [s EXCEPT !.d = d, !.suite = IF suite = Hole THEN @ ELSE suite]
     ELSE Ended(s, "recordInvalid", named)

PlainHandshake(s, r, named) == HellosRead(s, HandshakeFed(s.d.parser, Record[r].units), named)

\* defer_tls_record
Deferred(s, r, now, named) ==
  LET d == [s.d EXCEPT !.waitSince = IF @ = Hole THEN now ELSE @]
  IN IF d.waitBytes + ItemLen[r] > MaxKeyWait
     THEN Ended([s EXCEPT !.d = d], "noKey", named)
     ELSE [s EXCEPT !.d = [d EXCEPT !.waitBytes = @ + ItemLen[r]], !.deferred = Append(@, r)]

CurrentSecret(d) == IF d.complete THEN d.appSecret ELSE d.hsSecret

\* decrypt_record
Opens(d, r) ==
  LET seal == Record[r].seal
  IN /\ seal # Hole
     /\ CurrentSecret(d) = seal.secret
     /\ seal.seq = IF d.complete THEN d.appSeq ELSE d.hsSeq

\* A record that opened: its epoch's sequence number moves on.
Advanced(d) ==
  LET e == [d EXCEPT !.waitSince = Hole]
  IN IF d.complete THEN [e EXCEPT !.appSeq = @ + 1] ELSE [e EXCEPT !.hsSeq = @ + 1]


\* Finished ends the handshake epoch, a key update the application secret.
MessageRead(d, msg, handshake) ==
  IF handshake /\ msg \in FinishedMsgs
  THEN [d EXCEPT !.complete = TRUE, !.hsSecret = Hole, !.hsSeq = 0]
  ELSE IF ~handshake /\ msg \in KeyUpdateMsgs /\ d.appSecret # Hole
  THEN [d EXCEPT !.appSecret.gen = @ + 1, !.appSeq = 0]
  ELSE d

SealedHandshake(s, r, named) ==
  LET handshake == ~s.d.complete
      d == [Advanced(s.d) EXCEPT !.started = @ \/ handshake]
      fed == HandshakeFed(d.parser, Record[r].units)
  IN IF fed.ok
     THEN [s EXCEPT !.d = FoldLeft(LAMBDA e, msg : MessageRead(e, msg, handshake),
                                   [d EXCEPT !.parser = fed.parser], fed.messages)]
     ELSE Ended([s EXCEPT !.d = d], "recordInvalid", named)

\* The frames of n units of plaintext go to the ring and to emit_decrypted once the
\* client is known. Which of them it sends on is the limiter's doing: it lets one pass
\* every ten milliseconds, of all connections, and nothing here depends on it.
FramesDecoded(s, fed, n, out, named) ==
  LET d == [Advanced(s.d) EXCEPT !.http2 = fed.http2, !.plain = @ + n]
  IN IF named
     THEN [s EXCEPT !.d = d, !.decoded = @ \o fed.frames,
             !.ring = FoldLeft(LAMBDA ring, f : RingPushed(ring, [out |-> out, item |-> f]), @, fed.frames)]
     ELSE [s EXCEPT !.d = Terminated(d, "handshakeNotObserved", named)]

\* feed_plaintext_to_http2
AppData(s, r, out, named) ==
  FramesDecoded(s, Http2Fed(s.d.http2, s.d.plain, Record[r].units), Len(Record[r].units), out, named)

\* count_early_data_trial: one of the records of early data, or not.
EarlyTrial(s, r, named) ==
  LET d == [s.d EXCEPT !.earlyRecords = @ + 1, !.earlyBytes = @ + ItemLen[r]]
  IN IF d.earlyRecords <= MaxEarlyRecords /\ d.earlyBytes <= MaxEarlyBytes
     THEN [s EXCEPT !.d = d]
     ELSE Ended([s EXCEPT !.d = d], "earlyDataUnresolved", named)

Decrypted(s, r, out, client, named) ==
  LET inner == Record[r].inner
  IN IF ~Opens(s.d, r)
     THEN IF ~s.d.complete /\ ~s.d.started /\ client /\ s.d.early
          THEN EarlyTrial(s, r, named)
          ELSE Ended(s, "recordInvalid", named)
     ELSE CASE inner = "alert" ->
                 [s EXCEPT !.over = TRUE,
                    !.d = [@ EXCEPT !.closed = TRUE, !.appSecret = Hole, !.hsSecret = Hole,
                                    !.wait = <<>>, !.waitBytes = 0]]
            [] inner = "handshake" -> SealedHandshake(s, r, named)
            [] inner = "app" /\ ~s.d.complete -> [s EXCEPT !.d = [Advanced(s.d) EXCEPT !.started = TRUE]]
            [] inner = "app" /\ s.d.complete -> AppData(s, r, out, named)
            [] OTHER -> [s EXCEPT !.d = Advanced(s.d)]

OneRecord(s, r, out, client, now, named) ==
  LET type == Record[r].type
  IN CASE s.over \/ type = "ccs" -> s
       [] ~s.over /\ type = "handshake" -> PlainHandshake(s, r, named)
       [] ~s.over /\ type = "app" ->
            IF s.suite # Hole /\ s.suite # Supported THEN Ended(s, "unsupportedCipher", named)
            ELSE IF s.suite = Hole \/ CurrentSecret(s.d) = Hole THEN Deferred(s, r, now, named)
            ELSE Decrypted(s, r, out, client, named)
       [] OTHER -> Ended(s, "recordInvalid", named)

\* Records still without a key wait for it; end is what the loop left.
WaitsAgain(c, out, end) ==
  LET d == IF end.d.terminal = Hole THEN [end.d EXCEPT !.wait = end.deferred] ELSE end.d
  IN [conn |-> [c EXCEPT !.dir = [c.dir EXCEPT ![out] = d], !.ring = end.ring],
      decoded |-> end.decoded, suite |-> end.suite]

\* One record after the other, from what the direction was at the start.
AllRecords(start, records, out, client, now, named) ==
  FoldLeft(LAMBDA s, r : OneRecord(s, r, out, client, now, named), start, records)

\* The records that waited and the new ones, of direction out of connection c.
Processed(c, out, records, suite, now, decoded) ==
  LET start == [d |-> [c.dir[out] EXCEPT !.wait = <<>>, !.waitBytes = 0], suite |-> suite,
                ring |-> c.ring, deferred |-> <<>>, decoded |-> decoded, over |-> FALSE]
  IN WaitsAgain(c, out, AllRecords(start, records, out, c.clientOut = out, now, Named(c)))

SuiteOf(c) == IF c.dir[TRUE].suite # Hole THEN c.dir[TRUE].suite ELSE c.dir[FALSE].suite

-----------------------------------------------------------------------------
(* try_decrypt_and_emit on a packet of connection id *)

\* secret_label_for_direction
Label(clientOut, out, handshake) ==
  IF clientOut = out THEN IF handshake THEN "clientHandshake" ELSE "client"
  ELSE IF handshake THEN "serverHandshake" ELSE "server"

Secret(w, pid, random, label) ==
  IF HasSecret(w, pid, random, label) THEN [random |-> random, label |-> label, gen |-> 0] ELSE Hole

\* The watcher after handing over a direction's secrets.
WithoutSecrets(w, id, out, flow) ==
  LET pid == PidOf[id]
      seen == MarkedSeen(w, pid, Random[id])
  IN IF id \in flow.hello
     THEN SecretTaken(SecretTaken(seen, pid, Random[id], Label(ClientOut[id], out, FALSE)),
                      pid, Random[id], Label(ClientOut[id], out, TRUE))
     ELSE w

\* The connection's entry, with a stream for every direction whose SYN was seen.
Opened(c, id, flow) ==
  LET Streamed(o) == IF c.dir[o].stream = Hole /\ <<id, o>> \in flow.syn
                     THEN [c.dir[o] EXCEPT !.stream = NewTlsStream(FirstData(SynSeq[id][o], TRUE))]
                     ELSE c.dir[o]
  IN [c EXCEPT !.random = IF @ = Hole /\ id \in flow.hello THEN Random[id] ELSE @,
               !.clientOut = IF @ = Hole /\ id \in flow.hello THEN ClientOut[id] ELSE @,
               !.dir = [c.dir EXCEPT ![TRUE] = Streamed(TRUE), ![FALSE] = Streamed(FALSE)]]

\* The packet's direction up to its stream: timers, then secrets.
Prepared(d, c, id, out, w, flow, cut) ==
  LET named == Named(c)
      told == Reported([d EXCEPT !.last = tNow], named)
      live == IF cut THEN Terminated(told, "captureTruncated", named)
              ELSE TimersExpired(told, tNow, named)
      Offered(label) == IF id \in flow.hello THEN Secret(w, PidOf[id], Random[id], label) ELSE Hole
  IN IF cut \/ live.terminal # Hole THEN live
     ELSE [live EXCEPT
             !.appSecret = IF @ = Hole THEN Offered(Label(ClientOut[id], out, FALSE)) ELSE @,
             !.hsSecret = IF @ = Hole THEN Offered(Label(ClientOut[id], out, TRUE)) ELSE @]

\* What the stream made of a payload; a gap is held for GapHold.
GapChecked(d, fed, named) ==
  LET since == IF d.gapSince = Hole THEN tNow ELSE d.gapSince
      fine == [d EXCEPT !.stream = fed.stream,
                        !.gapSince = IF HasGap(fed.stream) THEN since ELSE Hole]
  IN IF fed.err # Hole THEN [d |-> Terminated(d, fed.err, named), records |-> <<>>, go |-> FALSE]
     ELSE IF HasGap(fed.stream) /\ SatSub(tNow, since) >= GapHold
     THEN [d |-> Terminated(fine, "tcpGap", named), records |-> <<>>, go |-> FALSE]
     ELSE [d |-> fine, records |-> fed.records, go |-> TRUE]

PayloadFed(d, seq, payload, named) == GapChecked(d, SegmentFed(d.stream, seq, payload), named)

\* The packet ends here, its direction being d.
Left(conns, id, c, out, d, decoded) ==
  {[conns |-> [conns EXCEPT ![id] = [c EXCEPT !.dir = [c.dir EXCEPT ![out] = d]]],
    stuck |-> FALSE, decoded |-> decoded]}

\* The bytes held are only counted when the packet was read to the end.
WithinBudget(conns, id, done) ==
  {[conns |-> b.conns, stuck |-> b.stuck, decoded |-> done.decoded] :
     b \in Budgeted([conns EXCEPT ![id] = done.conn])}

RecordsHandled(conns, id, c, out, fed, decoded) ==
  IF ~fed.go THEN Left(conns, id, c, out, fed.d, decoded)
  ELSE WithinBudget(conns, id,
         Processed([c EXCEPT !.dir = [c.dir EXCEPT ![out] = fed.d]], out, fed.d.wait \o fed.records,
                   SuiteOf(c), tNow, decoded))

PayloadHandled(conns, id, c, out, d, p, decoded) ==
  IF d.terminal = Hole /\ d.stream = Hole /\ p.payload # <<>>
  THEN Left(conns, id, c, out, Terminated(d, "handshakeNotObserved", Named(c)), decoded)
  ELSE IF d.terminal # Hole \/ d.stream = Hole \/ d.closed
  THEN Left(conns, id, c, out, d, decoded)
  ELSE RecordsHandled(conns, id, c, out, PayloadFed(d, p.seq, p.payload, Named(c)), decoded)

DirectionHandled(conns, id, c, out, w, flow, p, decoded) ==
  PayloadHandled(conns, id, c, out, Prepared(c.dir[out], c, id, out, w, flow, p.cut), p, decoded)

\* The states after the packet. The return for an entry of another process never
\* happens: a connection has one process.
PacketHandled(conns, id, out, w, flow, p, decoded) ==
  DirectionHandled(conns, id,
    Opened(IF conns[id] = Hole THEN NewConnection(PidOf[id]) ELSE conns[id], id, flow),
    out, w, flow, p, decoded)

\* A mutant of NeedsSlot: room is made for new connections only.
NeedsSlotNewOnly(id, flow) == tConns[id] = Hole /\ \E o \in BOOLEAN : <<id, o>> \in flow.syn

\* A stream slot is needed: the connection is new or a SYN's stream is missing.
NeedsSlot(id, flow) ==
  /\ \E o \in BOOLEAN : <<id, o>> \in flow.syn
  /\ tConns[id] = Hole \/ \E o \in BOOLEAN : <<id, o>> \in flow.syn /\ tConns[id].dir[o].stream = Hole

TryDecrypt(id, out, flow, p) ==
  LET read == FilesRead(kWatcher, kNow)
      polled == Capped(read, kNow)
      rooms == IF NeedsSlot(id, flow) THEN RoomMade(tConns, id) ELSE {[conns |-> tConns, stuck |-> FALSE]}
      decoded == tDecoded[id][out]
      After(room) == IF room.stuck THEN {[conns |-> room.conns, stuck |-> TRUE, decoded |-> decoded]}
                     ELSE PacketHandled(room.conns, id, out, polled, flow, p, decoded)
  IN IF ~IsEligible(polled, PidOf[id])
     THEN KeyApply(polled, read) /\ UNCHANGED <<tConns, tStuck, tDecoded>>
     ELSE /\ KeyApply(WithoutSecrets(polled, id, out, flow), read)
          /\ \E room \in rooms : \E done \in After(room) :
               /\ tConns' = done.conns
               /\ tStuck' = done.stuck
               /\ tDecoded' = [tDecoded EXCEPT ![id] = [@ EXCEPT ![out] = done.decoded]]

\* A packet arrives. The flow table observes it first, and learns of the SYN and,
\* when it can put it together, of the ClientHello.
Captured(id, out, p, syn, hello) ==
  LET flow == [syn |-> IF syn THEN tSyn \cup {<<id, out>>} ELSE tSyn,
               hello |-> IF hello THEN tHello \cup {id} ELSE tHello]
  IN /\ ~tStuck
     /\ tPackets < MaxTlsPackets[tScene]
     /\ tPackets' = tPackets + 1
     /\ TryDecrypt(id, out, flow, p)
     /\ tSyn' = flow.syn /\ tHello' = flow.hello
     /\ UNCHANGED <<tScene, tNow, tLeaving, kWritten, kNow>>

SynPacket(id, out) ==
  /\ Captured(id, out, [seq |-> FirstData(SynSeq[id][out], TRUE), payload |-> <<>>, cut |-> FALSE], TRUE, FALSE)
  /\ UNCHANGED tForged

\* Units i+1..j of what the direction sends, in any order, any number of times.
DataPacket(id, out, i, j, cut) ==
  LET payload == SubSeq(AllUnits(Sent[id][out]), i + 1, j)
  IN /\ i < j
     /\ \E hello \in {FALSE, i = 0 /\ out = ClientOut[id]} :
          Captured(id, out, [seq |-> (SynSeq[id][out] + 1 + i) % TlsSeqMod, payload |-> payload,
                             cut |-> cut], FALSE, hello)
     /\ UNCHANGED tForged

\* A packet with another unit where the i-th belongs.
ForgedPacket(id, out, i) ==
  /\ "forge" \in TlsFaults[tScene] /\ ~tForged
  /\ Captured(id, out, [seq |-> (SynSeq[id][out] + i) % TlsSeqMod,
                        payload |-> <<<<Sent[id][out][1], 0>>>>, cut |-> FALSE], FALSE, FALSE)
  /\ tForged' = TRUE

-----------------------------------------------------------------------------
(* The emitter, once a second: poll, replay_pending_tls_keys, timers, budget *)

\* The records of a direction that wait are read with the secrets it has now.
Resumed(s, id, out, c, keyed, w) ==
  LET Into(done) == [conns |-> [s.conns EXCEPT ![id] = done.conn], w |-> w,
                     decoded |-> [s.decoded EXCEPT ![id] = [@ EXCEPT ![out] = done.decoded]]]
      Kept == [c EXCEPT !.dir = [c.dir EXCEPT ![out] = keyed]]
  IN IF keyed.wait # <<>> /\ (keyed.appSecret # Hole \/ keyed.hsSecret # Hole)
     THEN Into(Processed([c EXCEPT !.dir = [c.dir EXCEPT ![out] = [keyed EXCEPT !.last = tNow]]], out,
                         keyed.wait, SuiteOf(c), tNow, s.decoded[id][out]))
     ELSE [conns |-> [s.conns EXCEPT ![id] = Kept], w |-> w, decoded |-> s.decoded]

\* One direction, with secrets that may have come.
Replayed(s, id, out) ==
  LET c == s.conns[id]
      d == c.dir[out]
      app == Label(c.clientOut, out, FALSE)
      hs == Label(c.clientOut, out, TRUE)
      takesApp == d.appSecret = Hole
      takesHs == ~d.complete /\ d.hsSecret = Hole
      w1 == IF takesApp THEN SecretTaken(s.w, c.pid, c.random, app) ELSE s.w
      w2 == IF takesHs THEN SecretTaken(w1, c.pid, c.random, hs) ELSE w1
      keyed == [d EXCEPT !.appSecret = IF takesApp THEN Secret(s.w, c.pid, c.random, app) ELSE @,
                         !.hsSecret = IF takesHs THEN Secret(s.w, c.pid, c.random, hs) ELSE @]
  IN IF d.terminal # Hole \/ d.closed THEN s ELSE Resumed(s, id, out, c, keyed, w2)

ReplayedConnection(s, id) ==
  LET c == s.conns[id]
  IN IF c = Hole \/ c.random = Hole \/ ~IsEligible(s.w, c.pid) THEN s
     ELSE LET seen == [s EXCEPT !.w = MarkedSeen(s.w, c.pid, c.random)]
          IN Replayed(Replayed(seen, id, TRUE), id, FALSE)

\* expire_tls_state_timers
AllExpired(conns) ==
  LET Expired(c) == [c EXCEPT !.dir = [c.dir EXCEPT ![TRUE] = TimersExpired(@, tNow, Named(c)),
                                                    ![FALSE] = TimersExpired(@, tNow, Named(c))]]
  IN [id \in Conns |-> IF conns[id] = Hole THEN Hole ELSE Expired(conns[id])]

Replays(read) ==
  FoldSet(LAMBDA id, s : ReplayedConnection(s, id),
          [conns |-> tConns, w |-> Capped(read, kNow), decoded |-> tDecoded], Conns)

TlsPoll ==
  LET read == FilesRead(kWatcher, kNow)
  IN /\ ~tStuck
     /\ \E replayed \in {Replays(read)} :
          /\ KeyApply(replayed.w, read)
          /\ \E b \in Budgeted(AllExpired(replayed.conns)) : tConns' = b.conns /\ tStuck' = b.stuck
          /\ tDecoded' = replayed.decoded
     /\ UNCHANGED <<tScene, tSyn, tHello, tNow, tLeaving, tForged, tPackets, kWritten, kNow>>

-----------------------------------------------------------------------------
(* The flow table, the control task, the process *)

\* The flow goes: the table forgets it, then remove_decrypt_connection its connection
\* and its secrets, under three locks. One step here: a packet of a new flow of the
\* same addresses and ports between them is left out.
FlowGoes(id) ==
  LET c == tConns[id]
  IN /\ ~tStuck
     /\ tConns' = [tConns EXCEPT ![id] = Hole]
     /\ tSyn' = {s \in tSyn : s[1] # id} /\ tHello' = tHello \ {id}
     /\ tDecoded' = [tDecoded EXCEPT ![id] = NoneDecoded]
     /\ KeyApply(IF c = Hole \/ c.random = Hole THEN kWatcher
                 ELSE FlowSecretsRemoved(kWatcher, c.pid, c.random), kWatcher)
     /\ UNCHANGED <<tScene, tNow, tStuck, tLeaving, tForged, tPackets, kWritten, kNow>>

OptIn(pid) == KeyRegister(pid) /\ pid \notin tLeaving /\ UNCHANGED tVars

\* Opting out: the watcher under its lock, then the connections under theirs.
OptOut(pid) ==
  /\ KeyUnregister(pid)
  /\ tLeaving' = tLeaving \cup {pid}
  /\ UNCHANGED <<tScene, tConns, tSyn, tHello, tNow, tStuck, tDecoded, tForged, tPackets>>

OptOutConnections(pid) ==
  /\ pid \in tLeaving /\ ~tStuck
  /\ tLeaving' = tLeaving \ {pid}
  /\ tConns' = [id \in Conns |-> IF tConns[id] # Hole /\ tConns[id].pid = pid THEN Hole ELSE tConns[id]]
  /\ UNCHANGED <<tScene, tSyn, tHello, tNow, tStuck, tDecoded, tForged, tPackets, kVars>>

ProcessWrites(pid, n) == KeyWrite(pid, n) /\ UNCHANGED tVars

\* Time passes for packets and for secrets.
TlsTick ==
  /\ kNow < MaxKeyTime
  /\ kNow' = kNow + 1 /\ tNow' = tNow + 1
  /\ UNCHANGED <<tScene, tConns, tSyn, tHello, tStuck, tLeaving, tDecoded, tForged, tPackets, kWatcher, kWritten, kGone>>

TlsInit ==
  /\ KeyInit
  /\ tScene \in DOMAIN Scenes
  /\ tConns = [id \in Conns |-> Hole]
  /\ tSyn = {}
  /\ tHello = {}
  /\ tNow = 0
  /\ tStuck = FALSE
  /\ tLeaving = {}
  /\ tDecoded = [id \in Conns |-> NoneDecoded]
  /\ tForged = FALSE
  /\ tPackets = 0

ScenePids == {PidOf[id] : id \in Scenes[tScene]}

TlsNext ==
  \/ \E id \in Scenes[tScene], out \in BOOLEAN :
       \/ SynPacket(id, out)
       \/ \E i, j \in TlsEdges[id][out] : \E cut \in {FALSE, "cut" \in TlsFaults[tScene]} :
            DataPacket(id, out, i, j, cut)
       \/ \E i \in TlsEdges[id][out] \ {0} : ForgedPacket(id, out, i)
  \/ TlsPoll
  \/ \E id \in Scenes[tScene] : FlowGoes(id)
  \/ \E pid \in ScenePids :
       \/ OptIn(pid) \/ OptOut(pid) \/ OptOutConnections(pid)
       \/ \E edge \in KeyEdges[pid] : edge > kWritten[pid] /\ ProcessWrites(pid, edge - kWritten[pid])
  \/ TlsTick

TlsSpec == TlsInit /\ [][TlsNext]_<<tVars, kVars>>

-----------------------------------------------------------------------------
(* Properties *)

\* The records the loop has a case for: a cleartext alert has none and ends its
\* direction as invalid, as a peer does that refuses a handshake.
HasNoClearAlert(records) == \A i \in 1..Len(records) : Record[records[i]].type \in {"ccs", "handshake", "app"}


\* main.rs, make_tls_direction_room and enforce_tls_buffer_budget: between packets
\* the bytes held for all connections are within the budget, and there are at most
\* as many directions as the limits say, and one more: room is made for one when
\* the SYNs of both may be known.
TlsBounded ==
  ~tStuck =>
    /\ TotalHeld(tConns) <= MaxTlsBytes
    /\ Cardinality(ActiveDirections(tConns, Pids)) <= MaxDirections + 1
    /\ \A pid \in Pids : Cardinality(ActiveDirections(tConns, {pid})) <= MaxPidDirections + 1

\* main.rs, the control task's opt-out and keylog.rs, unregister: once an opt-out
\* is over, and until the process opts in again, neither secrets nor plaintext nor
\* records of its connections are held anywhere, whatever packets were in flight.
OptOutForgets ==
  \A pid \in Pids \ tLeaving :
    ~IsEligible(kWatcher, pid) =>
      /\ \A s \in kWatcher.secrets : s.key[1] # pid
      /\ \A id \in Known(tConns) : tConns[id].pid # pid

\* main.rs:381: "Enforce active-stream limits before creating another directional
\* stream": make_tls_direction_room, called for a connection that needs a stream,
\* comes to an end, whatever became of the directions of the others before.
RoomIsFound == ~tStuck
=============================================================================
