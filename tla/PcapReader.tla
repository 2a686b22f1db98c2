------------------------------ MODULE PcapReader ------------------------------
(***************************************************************************)
(* pcapng.rs, Reader, and the replay sources of main.rs: a capture file    *)
(* becomes the frames the capture loop sees, or a refusal at startup.      *)
(*                                                                         *)
(* A file is a sequence of blocks. A block is a record: kind; framed, FALSE *)
(* when the file ends in it or its two lengths are not the same valid one; *)
(* order, the byte order it was written in; body, FALSE when its fields or *)
(* its options are cut short or of a wrong length; and by kind              *)
(*   section    version,                                                    *)
(*   interface  link (Hole: one the agent cannot parse), unit (if_tsresol:  *)
(*              counts per second, Hole: too many for a u128), name (its    *)
(*              size),                                                      *)
(*   packet     iface, count.                                               *)
(* A simple packet block and any other have no field that matters.          *)
(***************************************************************************)
EXTENDS Coverage, SequencesExt

CONSTANTS
  MaxInterfaces,   \* MAX_INTERFACES
  MaxNameBytes,    \* MAX_INTERFACE_NAME_BYTES
  Second,          \* nanoseconds in a second
  MaxTime,         \* the last nanosecond a u64 holds
  OwnWrites,       \* what the agent's writer may have written: link and times, in nanoseconds
  CaptureFiles     \* bound: the files there may be

FileBlock ==
  [kind : {"section", "interface", "packet", "simple", "other"}, framed : BOOLEAN, order : STRING,
   body : BOOLEAN, version : STRING, link : STRING \cup {Hole}, unit : (Nat \ {0}) \cup {Hole}, name : Nat,
   iface : Nat, count : Nat]

ASSUME ReaderAssumption ==
  /\ {MaxInterfaces, MaxNameBytes, Second} \subseteq Nat \ {0} /\ MaxTime \in Nat
  /\ CaptureFiles \subseteq Seq(FileBlock) /\ Hole \notin CaptureFiles
  /\ Hole \notin {"eof", "error", "frame", "open"}
  /\ OwnWrites \subseteq [link : STRING, times : Seq(0..MaxTime)]

VARIABLES
  gFile,      \* the file replayed, or Hole
  gReader,    \* Reader: blocks read, order, supported_section, interfaces, name bytes
  gSource,    \* the packet source: "closed", "open", "classic", "live", "refused",
              \* "eof" or "error"
  gFrames     \* history: the frames handed out

gVars == <<gFile, gReader, gSource, gFrames>>

\* What the agent's own Writer leaves: one little-endian section with one interface,
\* which counts nanoseconds, its packets, and a block of statistics.
OwnFile(w) ==
  LET b == [kind |-> "section", framed |-> TRUE, order |-> "little", body |-> TRUE, version |-> "1.0",
            link |-> w.link, unit |-> Second, name |-> 1, iface |-> 0, count |-> 0]
      Packet(i) == [b EXCEPT !.kind = "packet", !.count = w.times[i]]
  IN <<b, [b EXCEPT !.kind = "interface"]>> \o [i \in DOMAIN w.times |-> Packet(i)]
     \o <<[b EXCEPT !.kind = "other"]>>

NewReader == [at |-> 0, order |-> Hole, supported |-> FALSE, interfaces |-> <<>>, names |-> 0]

Supported(version) == version \in {"1.0", "1.2"}

\* linktype_from_pcapng
Parsable(i) == i.link # Hole

\* for_each_ordered_option, with the fields before the options.
WellFormed(b) == b.body

\* read_section_block: a section header has an order of its own, any other block
\* the one of its section; a block read in another order has no valid length.
Framed(reader, b) ==
  b.framed /\ (b.kind = "section" \/ (reader.order # Hole /\ reader.order = b.order))

\* A mutant of StartSection: interfaces stay known in the next section.
StartSectionKeeps(reader, b) ==
  [reader EXCEPT !.order = b.order, !.supported = Supported(b.version), !.names = 0]

\* start_section; what a section of another version holds is not looked at.
StartSection(reader, b) ==
  [reader EXCEPT !.order = b.order, !.supported = Supported(b.version), !.interfaces = <<>>, !.names = 0]

\* add_interface
Addable(reader, b) ==
  Len(reader.interfaces) < MaxInterfaces /\ WellFormed(b) /\ b.name <= MaxNameBytes - reader.names

AddInterface(reader, b) ==
  [reader EXCEPT !.interfaces = Append(@, [link |-> b.link, unit |-> b.unit]), !.names = @ + b.name]

\* epb_timestamp: whole nanoseconds of a count, and Hole when a u64 cannot hold them.
Nanos(count, unit) == (count * Second) \div unit

TimeOf(i, b) ==
  IF i.unit = Hole THEN Hole
  ELSE IF Nanos(b.count, i.unit) > MaxTime THEN Hole ELSE Nanos(b.count, i.unit)

\* decode_packet: on the interface of that number in the section.
Decodable(reader, b) ==
  /\ WellFormed(b) /\ b.iface < Len(reader.interfaces)
  /\ LET i == reader.interfaces[b.iface + 1] IN Parsable(i) /\ TimeOf(i, b) # Hole

DecodePacket(reader, b) ==
  LET i == reader.interfaces[b.iface + 1] IN [link |-> i.link, time |-> TimeOf(i, b)]

\* A turn of the loops of new and next_packet: the reader afterwards and, when the
\* block ends the loop, with what.
Turn(reader, b, opening) ==
  LET r == [reader EXCEPT !.at = @ + 1]
      Go(after) == [reader |-> after, out |-> Hole]
      End(out) == [reader |-> r, out |-> out]
  IN IF ~Framed(r, b) THEN End("error")
     ELSE IF b.kind = "section"
     THEN IF Supported(b.version) /\ ~WellFormed(b) THEN End("error") ELSE Go(StartSection(r, b))
     ELSE IF ~r.supported THEN Go(r)
     ELSE IF b.kind = "interface"
     THEN IF ~Addable(r, b) THEN End("error")
          ELSE [reader |-> AddInterface(r, b), out |-> IF opening /\ Parsable(b) THEN "open" ELSE Hole]
     ELSE IF b.kind = "packet"
     THEN IF ~Decodable(r, b) THEN End("error")
          ELSE IF opening THEN Go(r) ELSE End("frame")
     ELSE IF b.kind = "simple" THEN End("error")
     ELSE Go(r)

\* The loops: from the reader's place on until a block ends it, or the file does.
Read(reader, opening) ==
  LET rest == SubSeq(gFile, reader.at + 1, Len(gFile))
      end == FoldLeft(LAMBDA acc, b : IF acc.out = Hole THEN Turn(acc.reader, b, opening) ELSE acc,
                      [reader |-> reader, out |-> Hole], rest)
  IN IF end.out = Hole THEN [end EXCEPT !.out = "eof"] ELSE end

\* resolve_packet_source: a file this reader refuses goes to libpcap, which may
\* refuse it too, unless it starts like a pcapng file.
OpenFile ==
  LET end == Read(NewReader, TRUE)
      pcapng == gFile # <<>> /\ gFile[1].kind = "section"
  IN /\ gSource = "closed" /\ gFile # Hole
     /\ gReader' = end.reader
     /\ \/ end.out = "open" /\ gSource' = "open"
        \/ end.out # "open" /\ gSource' = "refused"
        \/ end.out # "open" /\ ~pcapng /\ gSource' = "classic"
     /\ UNCHANGED <<gFile, gFrames>>

\* next_frame: a packet ...
FileFrame ==
  LET end == Read(gReader, FALSE)
      f == DecodePacket(end.reader, gFile[end.reader.at])
  IN /\ gSource = "open" /\ end.out = "frame"
     /\ gReader' = end.reader
     /\ gFrames' = Append(gFrames, f)
     /\ UNCHANGED <<gFile, gSource>>

\* ... or the end of the replay, of the file or with an error.
FileEnd ==
  LET end == Read(gReader, FALSE)
  IN /\ gSource = "open" /\ end.out # "frame"
     /\ gReader' = end.reader
     /\ gSource' = end.out
     /\ UNCHANGED <<gFile, gFrames>>

\* libpcap's sources: their frames are any, and they end or fail at any time.
OtherEnd ==
  /\ gSource \in {"live", "classic"}
  /\ gSource' \in {"eof", "error"} /\ (gSource = "live" => gSource' = "eof")
  /\ UNCHANGED <<gFile, gReader, gFrames>>

ReaderInit(file, source) ==
  /\ gFile = file
  /\ gReader = NewReader
  /\ gSource = source
  /\ gFrames = <<>>

-----------------------------------------------------------------------------
(* Properties *)

\* What block p of the file says by itself, with what its section says before it.
SectionOf(p) == {s \in 1..p-1 : gFile[s].kind = "section" /\ \A q \in s+1..p-1 : gFile[q].kind # "section"}
InSection(p, kind) == {q \in 1..p-1 : gFile[q].kind = kind /\ \A s \in SectionOf(p) : q > s}
Understood(p) == \A s \in SectionOf(p) : Supported(gFile[s].version)
Described(p) ==
  {q \in InSection(p, "interface") : Cardinality(InSection(q, "interface")) = gFile[p].iface}

Sound(p) ==
  LET b == gFile[p]
      understood == IF b.kind = "section" THEN Supported(b.version) ELSE Understood(p)
      NameBytes(S) == MapThenSumSet(LAMBDA q : gFile[q].name, S)
  IN /\ b.framed /\ (b.kind = "section" \/ \E s \in SectionOf(p) : gFile[s].order = b.order)
     /\ understood =>
          /\ b.kind # "simple" /\ (b.kind = "other" \/ b.body)
          /\ b.kind = "interface" =>
               /\ Cardinality(InSection(p, "interface")) < MaxInterfaces
               /\ NameBytes(InSection(p, "interface") \cup {p}) <= MaxNameBytes
          /\ b.kind = "packet" =>
               \E q \in Described(p) : gFile[q].link # Hole /\ gFile[q].unit # Hole
                                       /\ Nanos(b.count, gFile[q].unit) <= MaxTime

\* pcapng.rs, Reader: the frames handed out are those of the file's sections this
\* agent understands, all of them and in their order, each with the link type and
\* the time of the interface its own section gives that number, although opening
\* the file already read some blocks; the replay ends with the file, or with an
\* error at the first block that is not sound, and hands out nothing after it. A
\* sound file with an interface this agent can parse is not refused, and what the
\* agent wrote itself comes back as it was captured.
ReplayExact ==
  gFile # Hole /\ gSource # "closed" =>
    LET stored == {p \in 1..gReader.at : gFile[p].kind = "packet" /\ Understood(p) /\ Sound(p)}
        Place(p) == Cardinality({q \in stored : q <= p})
        FrameAt(p) == LET i == gFile[CHOOSE q \in Described(p) : TRUE]
                      IN [link |-> i.link, time |-> Nanos(gFile[p].count, i.unit)]
        sound == \A p \in 1..gReader.at : Sound(p)
    IN /\ Len(gFrames) = Cardinality(stored) /\ \A p \in stored : gFrames[Place(p)] = FrameAt(p)
       /\ gSource \in {"open", "eof"} => sound
       /\ gSource \in {"refused", "classic"} /\ sound =>
            ~\E p \in 1..Len(gFile) : gFile[p].kind = "interface" /\ Understood(p) /\ gFile[p].link # Hole
       /\ gSource = "eof" => gReader.at = Len(gFile)
       /\ gSource = "error" => ~Sound(gReader.at) /\ \A p \in 1..gReader.at-1 : Sound(p)
       /\ \A w \in OwnWrites : gFile = OwnFile(w) =>
            /\ gSource \in {"open", "eof"}
            /\ gSource = "eof" => gFrames = [i \in DOMAIN w.times |-> [link |-> w.link, time |-> w.times[i]]]
=============================================================================
