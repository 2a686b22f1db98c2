---------------------------- MODULE PipelineProofs ----------------------------
(***************************************************************************)
(* What holds of the capture thread for every value of the constants.      *)
(***************************************************************************)
EXTENDS Pipeline, FoldFacts

-----------------------------------------------------------------------------
(* The capture handle and what is known of it *)

Told == {"interface", "config"}
Handles == [device : Devices, snap : Nat, filter : ShortFilters]
SharedStates == [interface : Devices, link : {LinkOf[d] : d \in Devices},
                 config : [filter : ShortFilters, snap : Nat]]

\* The types of the capture configuration; what the emitter has read is not checked
\* by its value, which is of either kind.
ConfigTypes ==
  /\ cHandle # Hole => cHandle \in Handles
  /\ cShared \in SharedStates
  /\ cFresh \in [Told -> BOOLEAN]
  /\ cTurn \in Told
  /\ cRead # Hole => /\ cRead = [of |-> cRead.of, value |-> cRead.value, fresh |-> cRead.fresh]
                     /\ cRead.of \in Told /\ cRead.fresh \in BOOLEAN
  /\ cShown = [interface |-> cShown.interface, config |-> cShown.config, error |-> cShown.error]

\* What the emitter will send is what is shared, unless that changed since it read it.
ReadIsFresh == cRead # Hole /\ cRead.fresh => cRead.value = cShared[cRead.of]

\* ConfigMatchesHandle is not inductive: a viewer is told what the emitter read some
\* time ago, so that what was read has to be tied to what is shared.
ConfigInv == ConfigTypes /\ ReadIsFresh /\ ConfigMatchesHandle

\* A configuration that is stored leaves what was read and what is shown in order.
LEMMA OutdatedStep ==
  ASSUME ConfigInv, NEW what \in SUBSET Told, NEW told \in BOOLEAN, Outdated(what, told)
  PROVE  /\ cFresh' \in [Told -> BOOLEAN]
         /\ cRead' # Hole => /\ cRead' = [of |-> cRead'.of, value |-> cRead'.value, fresh |-> cRead'.fresh]
                             /\ cRead'.of \in Told /\ cRead'.fresh \in BOOLEAN
         /\ cRead' # Hole /\ cRead'.fresh => cRead'.of \notin what /\ cRead' = cRead
         /\ \A w \in Told \ what : cFresh'[w] = cFresh[w]
         /\ ~told => \A w \in what : cFresh'[w] = FALSE
  <1>1. CASE cRead # Hole /\ cRead.of \in what
    <2>1. cRead' = [of |-> cRead.of, value |-> cRead.value, fresh |-> FALSE]
      BY <1>1 DEF Outdated, ConfigInv, ConfigTypes
    <2>2. cFresh' = [w \in Told |-> IF w \in what THEN FALSE ELSE cFresh[w]]
      BY <1>1 DEF Outdated, ConfigInv, ConfigTypes
    <2>. QED BY <1>1, <2>1, <2>2 DEF ConfigInv, ConfigTypes
  <1>2. CASE ~(cRead # Hole /\ cRead.of \in what)
    <2>1. cRead' = cRead
      BY <1>2 DEF Outdated
    <2>2. cFresh' = [w \in Told |-> IF w \in what THEN told ELSE cFresh[w]]
      BY <1>2 DEF Outdated, ConfigInv, ConfigTypes
    <2>. QED BY <1>2, <2>1, <2>2 DEF ConfigInv, ConfigTypes
  <1>. QED BY <1>1, <1>2

\* A handle whose configuration is the one that is stored with it.
LEMMA ConfigStoredStep ==
  ASSUME ConfigInv, cHandle # Hole, NEW h \in Handles, h.device = cReopen,
         cHandle' = h, ConfigStored([filter |-> h.filter, snap |-> h.snap])
  PROVE  ConfigInv'
  <1>. DEFINE c == [filter |-> h.filter, snap |-> h.snap]
  <1>1. c \in [filter : ShortFilters, snap : Nat]
    BY DEF Handles
  <1>2. cShared' = [interface |-> cShared.interface, link |-> cShared.link, config |-> c]
    BY DEF ConfigStored, ConfigInv, ConfigTypes, SharedStates
  <1>3. cShown' = [interface |-> cShown.interface, config |-> c, error |-> cShown.error]
    BY DEF ConfigStored, ConfigInv, ConfigTypes
  <1>4. Outdated({"config"}, TRUE)
    BY DEF ConfigStored
  <1>5. /\ cFresh' \in [Told -> BOOLEAN]
        /\ cRead' # Hole => /\ cRead' = [of |-> cRead'.of, value |-> cRead'.value, fresh |-> cRead'.fresh]
                            /\ cRead'.of \in Told /\ cRead'.fresh \in BOOLEAN
        /\ cRead' # Hole /\ cRead'.fresh => cRead'.of # "config" /\ cRead' = cRead
        /\ cFresh'["interface"] = cFresh["interface"]
    <2>1. {"config"} \in SUBSET Told /\ "interface" \in Told \ {"config"}
      BY DEF Told
    <2>. QED BY <1>4, <2>1, OutdatedStep
  <1>6. cTurn' = cTurn /\ cReopen' = cReopen /\ cLink' = cLink
    BY DEF ConfigStored
  <1>. HIDE DEF c
  <1>7. ConfigTypes'
    BY <1>1, <1>2, <1>3, <1>5, <1>6 DEF ConfigInv, ConfigTypes, SharedStates
  <1>8. ReadIsFresh'
    <2>. SUFFICES ASSUME cRead' # Hole, cRead'.fresh PROVE cRead'.value = cShared'[cRead'.of]
      BY DEF ReadIsFresh
    <2>1. cRead' = cRead /\ cRead.of = "interface"
      BY <1>5 DEF Told
    <2>2. cRead.value = cShared["interface"]
      BY <2>1 DEF ConfigInv, ReadIsFresh
    <2>. QED BY <1>2, <2>1, <2>2
  <1>9. ConfigMatchesHandle'
    <2>1. cShared'.link = cLink'
      BY <1>2, <1>6 DEF ConfigInv, ConfigMatchesHandle
    <2>2. cHandle' # Hole
      BY ConfigAssumption DEF Handles
    <2>3. cShared'.config = [filter |-> cHandle'.filter, snap |-> cHandle'.snap]
      BY <1>2 DEF c
    <2>4. /\ cHandle'.device = cReopen' /\ cHandle'.device = cShared'.interface
          /\ cLink' = LinkOf[cHandle'.device] /\ cLink' # Hole
      BY <1>2, <1>6 DEF ConfigInv, ConfigMatchesHandle
    <2>5. \A w \in DOMAIN cFresh' : cFresh'[w] => cShown'[w] = cShared'[w]
      BY <1>2, <1>3, <1>5 DEF ConfigInv, ConfigMatchesHandle, ConfigTypes, Told
    <2>. QED BY <2>1, <2>2, <2>3, <2>4, <2>5 DEF ConfigMatchesHandle
  <1>. QED BY <1>7, <1>8, <1>9 DEF ConfigInv

\* A refusal changes nothing but the error a viewer shows.
LEMMA RejectedStep ==
  ASSUME ConfigInv, NEW kind, Rejected(kind)
  PROVE  ConfigInv'
  <1>1. cShown' = [interface |-> cShown.interface, config |-> cShown.config, error |-> kind]
    BY DEF Rejected, ConfigInv, ConfigTypes
  <1>2. UNCHANGED <<cHandle, cReopen, cLink, cShared, cRead, cTurn, cFresh>>
    BY DEF Rejected
  <1>3. ConfigTypes' /\ ReadIsFresh'
    BY <1>1, <1>2 DEF ConfigInv, ConfigTypes, ReadIsFresh
  <1>4. \A w \in DOMAIN cFresh' : cFresh'[w] => cShown'[w] = cShared'[w]
    BY <1>1, <1>2 DEF ConfigInv, ConfigMatchesHandle, ConfigTypes, Told
  <1>5. ConfigMatchesHandle'
    BY <1>2, <1>4 DEF ConfigInv, ConfigMatchesHandle, DefaultConfig
  <1>. QED BY <1>3, <1>5 DEF ConfigInv

\* set_filter and set_snaplen: the handle changes with what is shared, or nothing does.
LEMMA ConfigRequestStep ==
  ASSUME ConfigInv, NEW request, NEW fault, ConfigRequest(request, fault)
  PROVE  ConfigInv'
  <1>1. CASE cHandle = Hole
    BY <1>1, RejectedStep DEF ConfigRequest
  <1>2. CASE cHandle # Hole /\ request.kind = "filter"
    <2>. DEFINE f == request.value
                h == [device |-> cHandle.device, snap |-> cHandle.snap, filter |-> f]
    <2>1. SetFilter(f, fault)
      BY <1>2 DEF ConfigRequest
    <2>2. CASE f \in ShortFilters /\ Installs(f, cHandle.device, fault)
      <3>1. cHandle' = h
        BY <1>2, <2>1, <2>2 DEF SetFilter, ConfigInv, ConfigTypes, Handles
      <3>2. h \in Handles /\ h.device = cReopen
        BY <1>2, <2>2 DEF ConfigInv, ConfigTypes, ConfigMatchesHandle, Handles
      <3>3. [cShared.config EXCEPT !.filter = f] = [filter |-> h.filter, snap |-> h.snap]
        BY <1>2 DEF ConfigInv, ConfigMatchesHandle
      <3>4. ConfigStored([filter |-> h.filter, snap |-> h.snap])
        BY <2>1, <2>2, <3>3 DEF SetFilter
      <3>. HIDE DEF h
      <3>. QED BY <1>2, <3>1, <3>2, <3>4, ConfigStoredStep
    <2>3. CASE ~(f \in ShortFilters /\ Installs(f, cHandle.device, fault))
      BY <2>1, <2>3, RejectedStep DEF SetFilter
    <2>. QED BY <2>2, <2>3
  <1>3. CASE cHandle # Hole /\ request.kind # "filter"
    <2>. DEFINE n == request.value
                filter == cShared.config.filter
                h == [device |-> cReopen, snap |-> n, filter |-> filter]
    <2>1. SetSnaplen(n, fault)
      BY <1>3 DEF ConfigRequest
    <2>2. CASE /\ ValidSnap(n) /\ fault # "open"
               /\ filter # Hole => Installs(filter, cReopen, fault)
      <3>1. cHandle' = h
        BY <2>1, <2>2 DEF SetSnaplen, Opened
      <3>2. h \in Handles /\ h.device = cReopen
        BY <1>3, <2>2, ConfigAssumption
        DEF ConfigInv, ConfigTypes, ConfigMatchesHandle, Handles, SharedStates, ValidSnap
      <3>3. [cShared.config EXCEPT !.snap = n] = [filter |-> h.filter, snap |-> h.snap]
        BY <1>3 DEF ConfigInv, ConfigMatchesHandle
      <3>4. ConfigStored([filter |-> h.filter, snap |-> h.snap])
        BY <2>1, <2>2, <3>3 DEF SetSnaplen
      <3>. HIDE DEF h
      <3>. QED BY <1>3, <3>1, <3>2, <3>4, ConfigStoredStep
    <2>3. CASE ~ /\ ValidSnap(n) /\ fault # "open"
                 /\ filter # Hole => Installs(filter, cReopen, fault)
      BY <2>1, <2>3, RejectedStep DEF SetSnaplen
    <2>. QED BY <2>2, <2>3
  <1>. QED BY <1>1, <1>2, <1>3

\* apply_interface_switch_request: everything is of the new device, and nobody was told.
LEMMA SwitchedStep ==
  ASSUME ConfigInv, NEW name, NEW fault, Switchable(name, fault), Switched(name)
  PROVE  ConfigInv'
  <1>1. name \in Devices /\ LinkOf[name] # Hole
    BY ConfigAssumption DEF Switchable, Capturable
  <1>2. cHandle' = [device |-> name, snap |-> DefaultSnap, filter |-> Hole] /\ cHandle' \in Handles
    BY <1>1, ConfigAssumption DEF Switched, Opened, Handles
  <1>3. cShared' = [interface |-> name, link |-> LinkOf[name], config |-> DefaultConfig]
    BY DEF Switched
  <1>4. DefaultConfig = [filter |-> Hole, snap |-> DefaultSnap] /\ Hole \in ShortFilters /\ DefaultSnap \in Nat
    BY ConfigAssumption DEF DefaultConfig
  <1>5. Outdated(Told, FALSE)
    BY DEF Switched, Told
  <1>6. /\ cFresh' \in [Told -> BOOLEAN]
        /\ cRead' # Hole => /\ cRead' = [of |-> cRead'.of, value |-> cRead'.value, fresh |-> cRead'.fresh]
                            /\ cRead'.of \in Told /\ cRead'.fresh \in BOOLEAN
        /\ ~(cRead' # Hole /\ cRead'.fresh)
        /\ \A w \in Told : cFresh'[w] = FALSE
    BY <1>5, OutdatedStep
  <1>7. cShown' = [interface |-> cShown.interface, config |-> cShown.config, error |-> cShown'.error]
    BY DEF Switched, ConfigInv, ConfigTypes
  <1>8. ConfigTypes' /\ ReadIsFresh'
    BY <1>1, <1>2, <1>3, <1>4, <1>6, <1>7 DEF ConfigInv, ConfigTypes, ReadIsFresh, SharedStates, Switched
  <1>9. ConfigMatchesHandle'
    <2>1. cHandle' # Hole
      BY <1>2, ConfigAssumption DEF Handles
    <2>2. cShared'.link = cLink' /\ cReopen' = name /\ cLink' = LinkOf[name]
      BY <1>3 DEF Switched
    <2>3. \A w \in DOMAIN cFresh' : ~cFresh'[w]
      BY <1>6
    <2>. QED BY <1>1, <1>2, <1>3, <1>4, <2>1, <2>2, <2>3 DEF ConfigMatchesHandle
  <1>. QED BY <1>8, <1>9 DEF ConfigInv

\* The emitter tells what it read, and knows whether that is outdated.
LEMMA EmitterStep ==
  ASSUME ConfigInv, EmitterReads \/ EmitterTells
  PROVE  ConfigInv'
  <1>1. CASE EmitterReads
    <2>1. cRead' = [of |-> cTurn, value |-> cShared[cTurn], fresh |-> TRUE]
      BY <1>1 DEF EmitterReads
    <2>2. UNCHANGED <<cHandle, cReopen, cLink, cShared, cTurn, cShown, cFresh>>
      BY <1>1 DEF EmitterReads
    <2>3. ConfigTypes' /\ ReadIsFresh'
      BY <2>1, <2>2 DEF ConfigInv, ConfigTypes, ReadIsFresh
    <2>4. ConfigMatchesHandle'
      BY <2>2 DEF ConfigInv, ConfigMatchesHandle, DefaultConfig
    <2>. QED BY <2>3, <2>4 DEF ConfigInv
  <1>2. CASE EmitterTells
    <2>1. cRead # Hole /\ cRead.of \in Told /\ cRead.fresh \in BOOLEAN /\ cRead' = Hole
      BY <1>2 DEF EmitterTells, ConfigInv, ConfigTypes
    <2>2. UNCHANGED <<cHandle, cReopen, cLink, cShared>> /\ cTurn' \in Told
      BY <1>2 DEF EmitterTells, Told
    <2>3. cShown' = [cShown EXCEPT ![cRead.of] = cRead.value]
      BY <1>2 DEF EmitterTells
    <2>4. cFresh' = [cFresh EXCEPT ![cRead.of] = cRead.fresh]
      BY <1>2 DEF EmitterTells
    <2>5. cShown' = [interface |-> cShown'.interface, config |-> cShown'.config, error |-> cShown'.error]
      BY <2>1, <2>3 DEF ConfigInv, ConfigTypes, Told
    <2>6. ConfigTypes' /\ ReadIsFresh'
      BY <2>1, <2>2, <2>4, <2>5 DEF ConfigInv, ConfigTypes, ReadIsFresh
    <2>7. \A w \in DOMAIN cFresh' : cFresh'[w] => cShown'[w] = cShared'[w]
      BY <2>1, <2>2, <2>3, <2>4 DEF ConfigInv, ConfigMatchesHandle, ConfigTypes, ReadIsFresh, Told
    <2>8. ConfigMatchesHandle'
      BY <2>2, <2>7 DEF ConfigInv, ConfigMatchesHandle, DefaultConfig
    <2>. QED BY <2>6, <2>8 DEF ConfigInv
  <1>. QED BY <1>1, <1>2

LEMMA ConfigStutters ==
  ASSUME ConfigInv, UNCHANGED cVars
  PROVE  ConfigInv'
  BY DEF ConfigInv, ConfigTypes, ReadIsFresh, ConfigMatchesHandle, DefaultConfig, cVars

LEMMA ConfigInitially ==
  ASSUME PipeInit
  PROVE  ConfigInv
  <1>1. pTopic \in DOMAIN Topics /\ ConfigInit(~pReplay, StartOn[pTopic])
    BY DEF PipeInit
  <1>2. PICK d \in StartOn[pTopic] :
          /\ LinkOf[d] # Hole
          /\ cHandle = IF ~pReplay THEN Opened(d, DefaultSnap) ELSE Hole
          /\ cReopen = IF ~pReplay THEN d ELSE Hole
          /\ cLink = LinkOf[d]
          /\ cShared = [interface |-> d, link |-> LinkOf[d], config |-> DefaultConfig]
    BY <1>1 DEF ConfigInit, Startable
  <1>3. d \in Devices
    BY <1>1, <1>2, PipelineAssumption
  <1>4. /\ cRead = Hole /\ cTurn = "interface"
        /\ cShown = [interface |-> Hole, config |-> Hole, error |-> Hole]
        /\ cFresh = [w \in {"interface", "config"} |-> FALSE]
    BY <1>1 DEF ConfigInit
  <1>5. Opened(d, DefaultSnap) \in Handles /\ DefaultConfig \in [filter : ShortFilters, snap : Nat]
    BY <1>3, ConfigAssumption DEF Opened, Handles, DefaultConfig
  <1>6. ConfigTypes /\ ReadIsFresh
    <2>1. cShared \in SharedStates
      BY <1>2, <1>3, <1>5 DEF SharedStates
    <2>2. cFresh \in [Told -> BOOLEAN] /\ cTurn \in Told
      BY <1>4 DEF Told
    <2>. QED BY <1>2, <1>4, <1>5, <2>1, <2>2 DEF ConfigTypes, ReadIsFresh
  <1>7. ConfigMatchesHandle
    BY <1>2, <1>4 DEF ConfigMatchesHandle, Opened, DefaultConfig
  <1>. QED BY <1>6, <1>7 DEF ConfigInv

\* Only requests and the emitter touch the capture's configuration.
LEMMA ConfigStep ==
  ASSUME ConfigInv, [PipeNext]_pVars
  PROVE  ConfigInv'
  <1>1. ASSUME NEW request, NEW fault, InterfaceSwitched(request, fault)
        PROVE  ConfigInv'
    BY <1>1, SwitchedStep DEF InterfaceSwitched
  <1>2. ASSUME NEW request, NEW fault, OtherRequest(request, fault)
        PROVE  ConfigInv'
    BY <1>2, ConfigRequestStep, RejectedStep DEF OtherRequest, SwitchRejected
  <1>3. CASE ConfigTold
    BY <1>3, EmitterStep DEF ConfigTold
  <1>4. ASSUME NEW m, NEW ts, NEW tick, NextFrame(m, ts, tick)
        PROVE  ConfigInv'
    BY <1>4, ConfigStutters DEF NextFrame
  <1>5. ASSUME NEW m, NEW ts, NEW tick, CapturedFrame(m, ts, tick) \/ ReplayedFrame(m, tick)
        PROVE  ConfigInv'
    BY <1>4, <1>5 DEF CapturedFrame, ReplayedFrame
  <1>6. ASSUME NEW ts, NEW tick, QuietSource(ts, tick)
        PROVE  ConfigInv'
    BY <1>6, ConfigStutters DEF QuietSource
  <1>7. CASE StartReplay \/ SourceEnds \/ Snapshot \/ UNCHANGED pVars
    BY <1>7, ConfigStutters DEF StartReplay, SourceEnds, Snapshot, pVars
  <1>. QED BY <1>1, <1>2, <1>3, <1>5, <1>6, <1>7 DEF PipeNext

\* main.rs, apply_capture_config_request and apply_interface_switch_request: for every
\* sequence of requests and every step of them that fails, the handle, the device it is
\* reopened on, the link type and the shared copies agree, and what a viewer was told
\* after the last change is true.
THEOREM ConfigAlwaysMatches == PipeSpec => []ConfigMatchesHandle
  <1>1. PipeInit => ConfigInv
    BY ConfigInitially
  <1>2. ConfigInv /\ [PipeNext]_pVars => ConfigInv'
    BY ConfigStep
  <1>3. ConfigInv => ConfigMatchesHandle
    BY DEF ConfigInv
  <1>. QED BY <1>1, <1>2, <1>3, PTL DEF PipeSpec

-----------------------------------------------------------------------------
(***************************************************************************)
(* The reader: what it hands out has a time.                               *)
(***************************************************************************)

Outs == {Hole, "error", "open", "frame", "eof"}

Interfaces == [link : STRING \cup {Hole}, unit : (Nat \ {0}) \cup {Hole}]

Readers == [at : Nat, order : STRING \cup {Hole}, supported : BOOLEAN, interfaces : Seq(Interfaces), names : Nat]

Turned == [reader : Readers, out : Outs]

LEMMA TurnType ==
  ASSUME NEW reader \in Readers, NEW b \in FileBlock, NEW opening
  PROVE  /\ Turn(reader, b, opening) \in Turned
         /\ Turn(reader, b, opening).reader.at = reader.at + 1
         /\ Turn(reader, b, opening).out \notin {Hole, "error", "open"} =>
              Decodable(Turn(reader, b, opening).reader, b)
  <1>. DEFINE r == [reader EXCEPT !.at = @ + 1]
              t == Turn(reader, b, opening)
  <1>1. r \in Readers /\ r.at = reader.at + 1
    BY DEF Readers
  <1>2. /\ StartSection(r, b) \in Readers /\ StartSection(r, b).at = r.at
    <2>1. <<>> \in Seq(Interfaces) /\ b.order \in STRING /\ Supported(b.version) \in BOOLEAN
      BY DEF FileBlock, Supported
    <2>. HIDE DEF r
    <2>. QED BY <1>1, <2>1 DEF StartSection, Readers
  <1>3. AddInterface(r, b) \in Readers /\ AddInterface(r, b).at = r.at
    <2>1. /\ [link |-> b.link, unit |-> b.unit] \in Interfaces /\ b.name \in Nat
          /\ r.interfaces \in Seq(Interfaces) /\ r.names \in Nat
      BY <1>1 DEF FileBlock, Interfaces, Readers
    <2>2. Append(r.interfaces, [link |-> b.link, unit |-> b.unit]) \in Seq(Interfaces) /\ r.names + b.name \in Nat
      BY <2>1
    <2>. HIDE DEF r
    <2>. QED BY <1>1, <2>2 DEF AddInterface, Readers
  <1>. HIDE DEF r
  <1>4. \/ t = [reader |-> r, out |-> "error"]
        \/ t = [reader |-> StartSection(r, b), out |-> Hole]
        \/ t = [reader |-> r, out |-> Hole]
        \/ t = [reader |-> AddInterface(r, b), out |-> "open"]
        \/ t = [reader |-> AddInterface(r, b), out |-> Hole]
        \/ t = [reader |-> r, out |-> "frame"] /\ Decodable(r, b)
    BY Zenon DEF Turn, r
  <1>. HIDE DEF t
  <1>5. t \in Turned
    BY <1>1, <1>2, <1>3, <1>4 DEF Turned, Outs
  <1>6. t.reader.at = reader.at + 1 /\ (t.out \notin {Hole, "error", "open"} => Decodable(t.reader, b))
    BY <1>1, <1>2, <1>3, <1>4
  <1>. QED BY <1>5, <1>6 DEF t

\* Nanoseconds are a number, and the agent's own counts are nanoseconds already.
LEMMA NanosType ==
  ASSUME NEW count \in Nat, NEW unit \in Nat \ {0}
  PROVE  Nanos(count, unit) \in Nat
  <1>1. Second \in Nat
    BY ReaderAssumption
  <1>. DEFINE all == count * Second
  <1>2. all \in Nat
    BY <1>1
  <1>. HIDE DEF all
  <1>3. all \div unit \in Nat
    BY <1>2
  <1>. QED BY <1>3 DEF Nanos, all

LEMMA NanosOwn ==
  ASSUME NEW count \in Nat
  PROVE  Nanos(count, Second) = count
  <1>1. Second \in Nat \ {0}
    BY ReaderAssumption
  <1>. QED BY <1>1 DEF Nanos

\* A block is decoded with a time.
LEMMA DecodedTime ==
  ASSUME NEW reader \in Readers, NEW b \in FileBlock, Decodable(reader, b)
  PROVE  DecodePacket(reader, b).time \in Nat
  <1>. DEFINE i == reader.interfaces[b.iface + 1]
  <1>1. b.iface \in Nat /\ b.count \in Nat /\ b.iface < Len(reader.interfaces) /\ reader.interfaces \in Seq(Interfaces)
    BY DEF Decodable, FileBlock, Readers
  <1>2. i \in Interfaces
    BY <1>1
  <1>3. TimeOf(i, b) # Hole
    BY DEF Decodable
  <1>. HIDE DEF i
  <1>4. i.unit \in (Nat \ {0}) \cup {Hole}
    BY <1>2 DEF Interfaces
  <1>5. i.unit \in Nat \ {0} /\ TimeOf(i, b) = Nanos(b.count, i.unit)
    BY <1>3, <1>4, Zenon DEF TimeOf
  <1>6. TimeOf(i, b) \in Nat
    BY <1>1, <1>5, NanosType
  <1>. QED BY <1>6 DEF DecodePacket, i

\* The loop as a run: what it is after each block of the rest of the file, and how it ends.
Reads(h, reader, opening) ==
  LET n == Len(gFile) - reader.at
  IN /\ h \in [0..n -> Turned] /\ h[0] = [reader |-> reader, out |-> Hole]
     /\ \A k \in 1..n :
          h[k] = IF h[k-1].out = Hole THEN Turn(h[k-1].reader, gFile[reader.at + k], opening) ELSE h[k-1]
     /\ Read(reader, opening) = IF h[n].out = Hole THEN [h[n] EXCEPT !.out = "eof"] ELSE h[n]

\* The fold is such a run.
LEMMA ReadRuns ==
  ASSUME NEW reader \in Readers, NEW opening, gFile \in Seq(FileBlock), reader.at <= Len(gFile)
  PROVE  \E h : Reads(h, reader, opening)
  <1>. DEFINE rest == SubSeq(gFile, reader.at + 1, Len(gFile))
              n == Len(rest)
              base == [reader |-> reader, out |-> Hole]
              Step(acc, b) == IF acc.out = Hole THEN Turn(acc.reader, b, opening) ELSE acc
              G == [p \in (1..n) \X Turned |-> Step(p[2], rest[p[1]])]
              Solves(f) == f = [s \in SUBSET DOMAIN rest |->
                                  IF s = {} THEN base ELSE Step(f[s \ {Max(s)}], rest[Max(s)])]
              iter == CHOOSE f : Solves(f)
              end == iter[DOMAIN rest]
  <1>1. reader.at \in Nat /\ Len(gFile) \in Nat
    BY DEF Readers
  <1>0. n \in Nat /\ n = Len(gFile) - reader.at
    <2>1. CASE reader.at = Len(gFile)
      BY <1>1, <2>1
    <2>2. CASE reader.at < Len(gFile)
      BY <1>1, <2>2
    <2>. QED BY <1>1, <2>1, <2>2
  <1>2. /\ n \in Nat /\ n = Len(gFile) - reader.at /\ DOMAIN rest = 1..n
        /\ \A k \in 1..n : rest[k] = gFile[reader.at + k] /\ reader.at + k \in 1..Len(gFile)
                           /\ rest[k] \in FileBlock
    <2>1. rest \in Seq(FileBlock) /\ DOMAIN rest = 1..n
      BY <1>1
    <2>2. ASSUME NEW k \in 1..n
          PROVE  rest[k] = gFile[reader.at + k] /\ reader.at + k \in 1..Len(gFile) /\ rest[k] \in FileBlock
      <3>1. reader.at + k \in 1..Len(gFile)
        BY <1>0, <1>1
      <3>2. rest[k] = gFile[reader.at + 1 + k - 1]
        BY <1>0, <1>1
      <3>. HIDE DEF rest
      <3>. QED BY <1>1, <2>1, <3>1, <3>2
    <2>. QED BY <1>0, <2>1, <2>2
  <1>3. base \in Turned
    BY DEF Turned, Outs
  <1>4. ASSUME NEW k \in 1..n, NEW acc \in Turned
        PROVE  Step(acc, rest[k]) \in Turned /\ G[<<k, acc>>] = Step(acc, rest[k])
    <2>1. acc.reader \in Readers /\ rest[k] \in FileBlock
      BY <1>2 DEF Turned
    <2>. HIDE DEF rest, n
    <2>2. Step(acc, rest[k]) \in Turned
      BY <2>1, TurnType
    <2>3. <<k, acc>> \in (1..n) \X Turned
      OBVIOUS
    <2>. QED BY <2>2, <2>3
  <1>5. Read(reader, opening) = IF end.out = Hole THEN [end EXCEPT !.out = "eof"] ELSE end
    BY DEF Read, FoldLeft, MapThenFoldSet
  <1>. HIDE DEF rest, n, base, Step
  <1>6. G \in [(1..n) \X Turned -> Turned]
    <2>. SUFFICES ASSUME NEW p \in (1..n) \X Turned PROVE Step(p[2], rest[p[1]]) \in Turned
      OBVIOUS
    <2>. QED BY <1>4
  <1>. HIDE DEF G
  <1>7. PICK f \in [SUBSET (1..n) -> Turned] : LeftFolds(f, n, G, base)
    BY <1>0, <1>3, <1>6, LeftFoldExists
  <1>8. \A s \in SUBSET (1..n) : f[s] = IF s = {} THEN base ELSE Step(f[s \ {Max(s)}], rest[Max(s)])
    BY <1>0, <1>4, <1>7, MaxOfIndices DEF LeftFolds
  <1>9. Solves(f)
    BY <1>2, <1>7, <1>8
  <1>10. Solves(iter)
    BY <1>9
  <1>. HIDE DEF iter
  <1>11. \A s \in SUBSET (1..n) : iter[s] = IF s = {} THEN base ELSE Step(iter[s \ {Max(s)}], rest[Max(s)])
    BY <1>2, <1>10, Zenon
  <1>12. FoldsOver(iter, n, Turned, G, base)
    <2>. SUFFICES ASSUME NEW s \in SUBSET (1..n)
                  PROVE  /\ s = {} => iter[s] = base
                         /\ s # {} /\ iter[s \ {Max(s)}] \in Turned => iter[s] = G[<<Max(s), iter[s \ {Max(s)}]>>]
      BY DEF FoldsOver
    <2>1. s # {} => Max(s) \in 1..n
      BY <1>0, MaxOfIndices
    <2>. QED BY <1>4, <1>11, <2>1
  <1>13. PICK h \in [0..n -> Turned] : Running(h, n, G, base) /\ iter[1..n] = h[n]
    <2>1. RunsTo(iter[1..n], n, Turned, G, base)
      BY <1>0, <1>3, <1>6, <1>12, LeftFoldSteps
    <2>. QED BY <2>1 DEF RunsTo
  <1>14. ASSUME NEW k \in 1..n
         PROVE  h[k] = IF h[k-1].out = Hole THEN Turn(h[k-1].reader, gFile[reader.at + k], opening) ELSE h[k-1]
    <2>1. k - 1 \in 0..n
      BY <1>0
    <2>2. h[k-1] \in Turned /\ h[k] = Step(h[k-1], rest[k])
      BY <1>4, <1>13, <2>1 DEF Running
    <2>3. rest[k] = gFile[reader.at + k]
      BY <1>2
    <2>. QED BY <2>2, <2>3 DEF Step
  <1>15. h[0] = [reader |-> reader, out |-> Hole]
    BY <1>0, <1>13 DEF Running, base
  <1>16. end = h[n]
    BY <1>2, <1>13
  <1>17. Read(reader, opening) = IF h[n].out = Hole THEN [h[n] EXCEPT !.out = "eof"] ELSE h[n]
    BY <1>5, <1>16
  <1>18. Reads(h, reader, opening)
    <2>. HIDE DEF end
    <2>. QED BY <1>0, <1>13, <1>14, <1>15, <1>17 DEF Reads
  <1>. QED BY <1>18

\* The loops stay within the file, and end with a frame only at a block that has one.
LEMMA ReadType ==
  ASSUME NEW reader \in Readers, NEW opening, gFile \in Seq(FileBlock), reader.at <= Len(gFile)
  PROVE  LET end == Read(reader, opening)
         IN /\ end \in Turned /\ end.reader.at <= Len(gFile) /\ end.out \in {"error", "open", "frame", "eof"}
            /\ end.out = "frame" => /\ end.reader.at \in 1..Len(gFile)
                                    /\ Decodable(end.reader, gFile[end.reader.at])
  <1>. DEFINE n == Len(gFile) - reader.at
  <1>1. reader.at \in Nat /\ Len(gFile) \in Nat /\ n \in Nat
    BY DEF Readers
  <1>2. PICK h : Reads(h, reader, opening)
    BY ReadRuns
  <1>3. /\ h \in [0..n -> Turned] /\ h[0] = [reader |-> reader, out |-> Hole]
        /\ \A k \in 1..n :
             h[k] = IF h[k-1].out = Hole THEN Turn(h[k-1].reader, gFile[reader.at + k], opening) ELSE h[k-1]
        /\ Read(reader, opening) = IF h[n].out = Hole THEN [h[n] EXCEPT !.out = "eof"] ELSE h[n]
    BY <1>2 DEF Reads
  <1>4. \A k \in 1..n : reader.at + k \in 1..Len(gFile) /\ gFile[reader.at + k] \in FileBlock
    BY <1>1
  <1>. HIDE DEF n
  <1>. DEFINE end == h[n]
  <1>. DEFINE Ok(k) ==
                LET at == h[k].reader.at
                IN /\ at \in Nat /\ at <= reader.at + k
                   /\ h[k].out = Hole => at = reader.at + k
                   /\ h[k].out \notin {Hole, "error", "open"} => at \in 1..Len(gFile) /\ Decodable(h[k].reader, gFile[at])
              T == {k \in Nat : k <= n => Ok(k)}
  <1>14. 0 \in T
    <2>1. h[0].reader = reader /\ h[0].out = Hole
      BY <1>3
    <2>. QED BY <1>1, <2>1
  <1>15. ASSUME NEW k \in Nat, k \in T PROVE k + 1 \in T
    <2>. SUFFICES ASSUME k + 1 <= n PROVE Ok(k + 1)
      OBVIOUS
    <2>1. k + 1 \in 1..n /\ k \in 0..n /\ (k + 1) - 1 = k /\ Ok(k)
      BY <1>1, <1>15
    <2>2. /\ h[k] \in Turned
          /\ h[k+1] = IF h[k].out = Hole THEN Turn(h[k].reader, gFile[reader.at + (k + 1)], opening) ELSE h[k]
      BY <1>3, <2>1
    <2>3. CASE h[k].out = Hole
      <3>. DEFINE b == gFile[reader.at + (k + 1)]
                  t == Turn(h[k].reader, b, opening)
      <3>1. h[k].reader \in Readers /\ b \in FileBlock /\ h[k+1] = t
        BY <1>4, <2>1, <2>2, <2>3 DEF Turned
      <3>2. t.reader.at = h[k].reader.at + 1 /\ (t.out \notin {Hole, "error", "open"} => Decodable(t.reader, b))
        BY <3>1, TurnType
      <3>3. h[k].reader.at = reader.at + k /\ reader.at + (k + 1) \in 1..Len(gFile)
        BY <1>4, <2>1, <2>3
      <3>. HIDE DEF t, b
      <3>4. t.reader.at = reader.at + (k + 1)
        BY <1>1, <3>2, <3>3
      <3>. QED BY <1>1, <3>1, <3>2, <3>3, <3>4 DEF b
    <2>4. CASE h[k].out # Hole
      <3>1. h[k+1] = h[k]
        BY <2>2, <2>4
      <3>. QED BY <1>1, <2>1, <2>4, <3>1
    <2>. QED BY <2>3, <2>4
  <1>16. Ok(n)
    <2>. HIDE DEF T, Ok
    <2>1. Nat \subseteq T
      BY <1>14, <1>15, NatSetInduction
    <2>. QED BY <1>1, <2>1 DEF T
  <1>17. end \in Turned
    BY <1>1, <1>3
  <1>18. reader.at + n = Len(gFile)
    BY <1>1 DEF n
  <1>19. /\ end.reader.at <= Len(gFile)
         /\ end.out \notin {Hole, "error", "open"} =>
              end.reader.at \in 1..Len(gFile) /\ Decodable(end.reader, gFile[end.reader.at])
    BY <1>16, <1>17, <1>18
  <1>. HIDE DEF end
  <1>20. CASE end.out = Hole
    <2>1. [end EXCEPT !.out = "eof"] \in Turned /\ [end EXCEPT !.out = "eof"].reader = end.reader
          /\ [end EXCEPT !.out = "eof"].out = "eof"
      BY <1>17 DEF Turned, Outs
    <2>. QED BY <1>3, <1>19, <1>20, <2>1 DEF end
  <1>21. CASE end.out # Hole
    <2>1. Read(reader, opening) = end
      BY <1>3, <1>21 DEF end
    <2>2. end.out \in {"error", "open", "frame", "eof"}
      BY <1>17, <1>21 DEF Turned, Outs
    <2>. QED BY <1>17, <1>19, <1>21, <2>1, <2>2
  <1>. QED BY <1>20, <1>21

Decoded == [link : STRING \cup {Hole}, time : Nat]

ReaderInv ==
  /\ pReplay => gSource # "live"
  /\ gSource \in {"closed", "open"} =>
       gFile \in CaptureFiles /\ gReader \in Readers /\ gReader.at <= Len(gFile)
  /\ gFrames \in Seq(Decoded)

\* The reader's part of a step, and the time of the frame a file hands out.
LEMMA ReaderSteps ==
  ASSUME ReaderInv, pReplay' = pReplay, OpenFile \/ FileFrame \/ FileEnd \/ OtherEnd \/ UNCHANGED gVars
  PROVE  ReaderInv' /\ (FileFrame => gFrames'[Len(gFrames')].time \in Nat)
  <1>1. ASSUME NEW reader \in Readers, reader.at <= Len(gFile), NEW opening, gFile \in CaptureFiles
        PROVE  LET end == Read(reader, opening)
               IN /\ end \in Turned /\ end.reader.at <= Len(gFile) /\ end.out \in {"error", "open", "frame", "eof"}
                  /\ end.out = "frame" => /\ end.reader.at \in 1..Len(gFile)
                                          /\ Decodable(end.reader, gFile[end.reader.at])
    <2>1. gFile \in Seq(FileBlock)
      BY <1>1, ReaderAssumption
    <2>. QED BY <1>1, <2>1, ReadType
  <1>2. CASE OpenFile
    <2>. DEFINE end == Read(NewReader, TRUE)
    <2>1. gSource = "closed" /\ gReader' = end.reader /\ gSource' # "live" /\ UNCHANGED <<gFile, gFrames>>
      BY <1>2 DEF OpenFile
    <2>2. NewReader \in Readers /\ NewReader.at = 0 /\ gFile \in CaptureFiles /\ gFile \in Seq(FileBlock)
      BY <2>1, ReaderAssumption DEF NewReader, Readers, ReaderInv
    <2>6. NewReader.at <= Len(gFile)
      BY <2>2
    <2>3. end \in Turned /\ end.reader.at <= Len(gFile)
      BY <1>1, <2>2, <2>6
    <2>4. end.reader \in Readers
      BY <2>3 DEF Turned
    <2>5. ~FileFrame
      BY <2>1 DEF FileFrame
    <2>. HIDE DEF end
    <2>. QED BY <2>1, <2>2, <2>3, <2>4, <2>5 DEF ReaderInv
  <1>3. CASE FileFrame
    <2>. DEFINE end == Read(gReader, FALSE)
                f == DecodePacket(end.reader, gFile[end.reader.at])
    <2>1. /\ gSource = "open" /\ end.out = "frame" /\ gReader' = end.reader /\ gFrames' = Append(gFrames, f)
          /\ UNCHANGED <<gFile, gSource>>
      BY <1>3 DEF FileFrame
    <2>2. gReader \in Readers /\ gReader.at <= Len(gFile) /\ gFile \in CaptureFiles /\ gFrames \in Seq(Decoded)
      BY <2>1 DEF ReaderInv
    <2>3. /\ end \in Turned /\ end.reader.at <= Len(gFile) /\ end.reader.at \in 1..Len(gFile)
          /\ Decodable(end.reader, gFile[end.reader.at])
      BY <1>1, <2>1, <2>2
    <2>4. gFile \in Seq(FileBlock)
      BY <2>2, ReaderAssumption
    <2>. HIDE DEF end
    <2>5. end.reader \in Readers /\ gFile[end.reader.at] \in FileBlock
      BY <2>3, <2>4 DEF Turned
    <2>6. f.time \in Nat
      BY <2>3, <2>5, DecodedTime
    <2>7. f \in Decoded
      <3>. DEFINE b == gFile[end.reader.at]
                  i == end.reader.interfaces[b.iface + 1]
      <3>1. b \in FileBlock /\ b.iface \in Nat /\ b.iface < Len(end.reader.interfaces)
            /\ end.reader.interfaces \in Seq(Interfaces)
        BY <2>3, <2>5 DEF Decodable, FileBlock, Readers
      <3>2. i \in Interfaces
        BY <3>1
      <3>3. f = [link |-> i.link, time |-> f.time]
        BY DEF DecodePacket
      <3>. HIDE DEF i, f
      <3>. QED BY <2>6, <3>2, <3>3 DEF Interfaces, Decoded
    <2>. HIDE DEF f
    <2>8. gFrames' \in Seq(Decoded) /\ gFrames'[Len(gFrames')] = f
      BY <2>1, <2>2, <2>7
    <2>. QED BY <2>1, <2>2, <2>3, <2>5, <2>6, <2>8 DEF ReaderInv
  <1>4. CASE FileEnd
    <2>. DEFINE end == Read(gReader, FALSE)
    <2>1. gSource = "open" /\ gReader' = end.reader /\ gSource' = end.out /\ UNCHANGED <<gFile, gFrames>>
          /\ end.out # "frame"
      BY <1>4 DEF FileEnd
    <2>2. gReader \in Readers /\ gReader.at <= Len(gFile) /\ gFile \in CaptureFiles
      BY <2>1 DEF ReaderInv
    <2>3. end \in Turned /\ end.reader.at <= Len(gFile) /\ end.out \in {"error", "open", "frame", "eof"}
      BY <1>1, <2>2
    <2>4. end.reader \in Readers /\ end.out # "live"
      BY <2>3 DEF Turned
    <2>5. ~FileFrame
      BY <2>1 DEF FileFrame
    <2>. HIDE DEF end
    <2>. QED BY <2>1, <2>2, <2>3, <2>4, <2>5 DEF ReaderInv
  <1>5. CASE OtherEnd
    BY <1>5 DEF OtherEnd, ReaderInv, FileFrame
  <1>6. CASE UNCHANGED gVars /\ ~FileFrame
    BY <1>6 DEF ReaderInv, gVars
  <1>. QED BY <1>2, <1>3, <1>4, <1>5, <1>6

\* The reader is only at work when the pipeline is.
LEMMA ReaderStep ==
  ASSUME [PipeNext]_pVars
  PROVE  /\ pReplay' = pReplay
         /\ OpenFile \/ FileFrame \/ FileEnd \/ OtherEnd \/ UNCHANGED gVars
  <1>1. ASSUME NEW request, NEW fault, InterfaceSwitched(request, fault) \/ OtherRequest(request, fault)
        PROVE  UNCHANGED <<pReplay, gVars>>
    BY <1>1 DEF InterfaceSwitched, OtherRequest, fVars
  <1>2. ASSUME NEW m, NEW ts, NEW tick, CapturedFrame(m, ts, tick)
        PROVE  UNCHANGED <<pReplay, gVars>>
    BY <1>2 DEF CapturedFrame, NextFrame
  <1>3. ASSUME NEW m, NEW tick, ReplayedFrame(m, tick)
        PROVE  UNCHANGED pReplay /\ FileFrame
    BY <1>3 DEF ReplayedFrame, NextFrame
  <1>4. ASSUME NEW ts, NEW tick, QuietSource(ts, tick)
        PROVE  UNCHANGED <<pReplay, gVars>>
    BY <1>4 DEF QuietSource
  <1>5. CASE StartReplay \/ SourceEnds \/ Snapshot \/ ConfigTold \/ UNCHANGED pVars
    BY <1>5 DEF StartReplay, SourceEnds, Snapshot, ConfigTold, pVars, fVars
  <1>. QED BY <1>1, <1>2, <1>3, <1>4, <1>5 DEF PipeNext

-----------------------------------------------------------------------------
(***************************************************************************)
(* The replay clock follows the timestamps.                                *)
(*                                                                         *)
(* The bounds that are claimed are about the timestamps; the clock itself  *)
(* compares with its own latest one, which is not the last one seen after  *)
(* a frame from the past. So the invariant bounds the elapsed time by both *)
(* and says when they differ: by the tolerance at most, or while one reset *)
(* waits for the frame that confirms it.                                   *)
(***************************************************************************)

Stamped == Nat \X Nat

Clocks == [latest : Nat \cup {Hole}, reset : Nat \cup {Hole}, elapsed : Nat]

Ascents == [last : Nat \cup {Hole}, first : Stamped \cup {Hole}, second : Stamped \cup {Hole}, back : BOOLEAN]

Waiting(c, s) ==
  c.latest = Hole /\ c.reset = Hole /\ c.elapsed = 0 /\ s.last = Hole /\ s.first = Hole /\ s.second = Hole

Follows(c, s) ==
  /\ c.latest \in Nat /\ s.last \in Nat /\ s.first \in Stamped
  /\ c.elapsed - s.first[2] <= s.last - s.first[1]
  /\ c.elapsed - s.first[2] <= c.latest - s.first[1]
  /\ c.reset # Hole => c.reset = s.last /\ s.second = Hole
  /\ c.reset = Hole => c.latest - s.last <= Tolerance
  /\ s.second # Hole => /\ c.elapsed - s.second[2] >= s.last - s.second[1] - Tolerance
                        /\ c.elapsed - s.second[2] >= c.latest - s.second[1] - Tolerance

Tracks(c, s) == c \in Clocks /\ s \in Ascents /\ (Waiting(c, s) \/ Follows(c, s))

\* What a frame does to the clock.
LEMMA ClockMoves ==
  ASSUME NEW c \in Clocks, NEW ts \in Nat, c.latest \in Nat
  PROVE  /\ ClockAfter(c, ts) \in Clocks
         /\ LET d == ClockAfter(c, ts)
            IN \/ ts >= c.latest /\ d.latest = ts /\ d.reset = Hole /\ d.elapsed = c.elapsed + (ts - c.latest)
               \/ /\ ts < c.latest /\ c.latest - ts <= Tolerance
                  /\ d.latest = c.latest /\ d.reset = Hole /\ d.elapsed = c.elapsed
               \/ /\ c.latest - ts > Tolerance /\ c.reset = Hole
                  /\ d.latest = c.latest /\ d.reset = ts /\ d.elapsed = c.elapsed
               \/ /\ c.latest - ts > Tolerance /\ c.reset \in Nat
                  /\ d.latest = ts /\ d.reset = Hole /\ d.elapsed = c.elapsed + SatSub(ts, c.reset)
  <1>. DEFINE d == ClockAfter(c, ts)
  <1>1. c.elapsed \in Nat /\ c.reset \in Nat \cup {Hole} /\ c.latest # Hole /\ Tolerance \in Nat /\ Hole \notin Nat
    BY CaptureClockAssumption DEF Clocks
  <1>2. CASE ts >= c.latest
    <2>1. d = [latest |-> ts, reset |-> Hole, elapsed |-> c.elapsed + (ts - c.latest)]
      BY <1>1, <1>2 DEF ClockAfter
    <2>2. c.elapsed + (ts - c.latest) \in Nat
      BY <1>1, <1>2
    <2>. HIDE DEF d
    <2>3. d \in Clocks /\ d.latest = ts /\ d.reset = Hole /\ d.elapsed = c.elapsed + (ts - c.latest)
      BY <2>1, <2>2 DEF Clocks
    <2>. QED BY <1>2, <2>3 DEF d
  <1>3. CASE ts < c.latest /\ c.latest - ts <= Tolerance
    <2>1. d = [c EXCEPT !.reset = Hole]
      BY <1>1, <1>3 DEF ClockAfter
    <2>. HIDE DEF d
    <2>2. d \in Clocks /\ d.latest = c.latest /\ d.reset = Hole /\ d.elapsed = c.elapsed
      BY <2>1 DEF Clocks
    <2>. QED BY <1>3, <2>2 DEF d
  <1>4. CASE c.latest - ts > Tolerance /\ c.reset = Hole
    <2>1. d = [c EXCEPT !.reset = ts]
      BY <1>1, <1>4 DEF ClockAfter
    <2>. HIDE DEF d
    <2>2. d \in Clocks /\ d.latest = c.latest /\ d.reset = ts /\ d.elapsed = c.elapsed
      BY <2>1 DEF Clocks
    <2>. QED BY <1>4, <2>2 DEF d
  <1>5. CASE c.latest - ts > Tolerance /\ c.reset # Hole
    <2>0. ~(ts >= c.latest) /\ ~(c.latest - ts <= Tolerance)
      BY <1>1, <1>5
    <2>1. d = [latest |-> ts, reset |-> Hole, elapsed |-> c.elapsed + SatSub(ts, c.reset)]
      BY <1>1, <1>5, <2>0, Zenon DEF ClockAfter
    <2>2. c.reset \in Nat /\ SatSub(ts, c.reset) \in Nat
      BY <1>1, <1>5 DEF SatSub
    <2>3. c.elapsed + SatSub(ts, c.reset) \in Nat
      BY <1>1, <2>2
    <2>. HIDE DEF d
    <2>4. d \in Clocks /\ d.latest = ts /\ d.reset = Hole /\ d.elapsed = c.elapsed + SatSub(ts, c.reset)
      BY <2>1, <2>3 DEF Clocks
    <2>. QED BY <1>5, <2>2, <2>4 DEF d
  <1>. QED BY <1>1, <1>2, <1>3, <1>4, <1>5

\* What a frame does to the history of ascending timestamps.
LEMMA AscentMoves ==
  ASSUME pSteps \in Ascents, pSteps.last \in Nat, NEW ts \in Nat, NEW elapsed \in Nat
  PROVE  /\ StepsAfter(ts, elapsed) \in Ascents
         /\ LET s == StepsAfter(ts, elapsed)
            IN \/ ts < pSteps.last /\ s.last = ts /\ s.first = <<ts, elapsed>> /\ s.second = Hole
               \/ /\ ts >= pSteps.last /\ s.last = ts /\ s.first = pSteps.first
                  /\ s.second = IF pSteps.second = Hole THEN <<ts, elapsed>> ELSE pSteps.second
  <1>. DEFINE s == StepsAfter(ts, elapsed)
  <1>1. pSteps.last # Hole /\ <<ts, elapsed>> \in Stamped /\ pSteps.back \in BOOLEAN
    BY CaptureClockAssumption DEF Ascents, Stamped
  <1>2. CASE ts < pSteps.last
    <2>1. s = [last |-> ts, first |-> <<ts, elapsed>>, second |-> Hole, back |-> pSteps.back \/ pSteps.last # Hole]
      BY <1>2 DEF StepsAfter
    <2>2. (pSteps.back \/ pSteps.last # Hole) \in BOOLEAN
      OBVIOUS
    <2>. HIDE DEF s
    <2>3. s \in Ascents /\ s.last = ts /\ s.first = <<ts, elapsed>> /\ s.second = Hole
      BY <1>1, <2>1, <2>2 DEF Ascents
    <2>. QED BY <1>2, <2>3 DEF s
  <1>3. CASE ts >= pSteps.last
    <2>. DEFINE second == IF pSteps.second = Hole THEN <<ts, elapsed>> ELSE pSteps.second
    <2>1. s = [pSteps EXCEPT !.last = ts, !.second = second]
      BY <1>1, <1>3 DEF StepsAfter
    <2>2. second \in Stamped \cup {Hole}
      BY <1>1 DEF Ascents
    <2>. HIDE DEF s, second
    <2>3. s \in Ascents /\ s.last = ts /\ s.first = pSteps.first /\ s.second = second
      BY <2>1, <2>2 DEF Ascents
    <2>. QED BY <1>3, <2>3 DEF s, second
  <1>. QED BY <1>2, <1>3

\* The first frame of a run: the clock is where it is, ahead of the frame or at it.
LEMMA NewRunFollows ==
  ASSUME NEW c \in Clocks, NEW s \in Ascents, Follows(c, s), NEW ts \in Nat, ts < s.last,
         NEW t \in Ascents, t.last = ts, t.first = <<ts, ClockAfter(c, ts).elapsed>>, t.second = Hole
  PROVE  Follows(ClockAfter(c, ts), t)
  <1>. DEFINE d == ClockAfter(c, ts)
  <1>1. c.latest \in Nat /\ c.elapsed \in Nat /\ Tolerance \in Nat /\ Hole \notin Nat
    BY CaptureClockAssumption DEF Follows, Clocks
  <1>2. d \in Clocks /\ d.elapsed \in Nat
    BY <1>1, ClockMoves DEF Clocks
  <1>3. t.first \in Stamped /\ t.first[1] = ts /\ t.first[2] = d.elapsed
    BY <1>2 DEF Stamped
  <1>4. /\ d.latest \in Nat /\ d.latest >= ts
        /\ d.reset # Hole => d.reset = ts
        /\ d.reset = Hole => d.latest - ts <= Tolerance
    BY <1>1, ClockMoves
  <1>. HIDE DEF d
  <1>5. Follows(d, t)
    BY <1>1, <1>2, <1>3, <1>4 DEF Follows
  <1>. QED BY <1>5 DEF d

\* A frame that does not go back.
LEMMA NextFollows ==
  ASSUME NEW c \in Clocks, NEW s \in Ascents, Follows(c, s), NEW ts \in Nat, ts >= s.last,
         NEW t \in Ascents, t.last = ts, t.first = s.first,
         t.second = IF s.second = Hole THEN <<ts, ClockAfter(c, ts).elapsed>> ELSE s.second
  PROVE  Follows(ClockAfter(c, ts), t)
  <1>. DEFINE d == ClockAfter(c, ts)
              L == c.latest
              E == c.elapsed
              t1 == s.first[1]
              e1 == s.first[2]
  <1>1. L \in Nat /\ E \in Nat /\ Tolerance \in Nat /\ Hole \notin Nat /\ s.last \in Nat
        /\ s.first \in Stamped /\ t1 \in Nat /\ e1 \in Nat
    BY CaptureClockAssumption DEF Follows, Clocks, Stamped
  <1>2. d \in Clocks /\ d.elapsed \in Nat
    BY <1>1, ClockMoves DEF Clocks
  <1>3. E - e1 <= s.last - t1 /\ E - e1 <= L - t1
    BY DEF Follows
  <1>4. /\ c.reset # Hole => c.reset = s.last /\ s.second = Hole
        /\ c.reset = Hole => L - s.last <= Tolerance
    BY DEF Follows
  <1>5. \/ ts >= L /\ d.latest = ts /\ d.reset = Hole /\ d.elapsed = E + (ts - L)
        \/ /\ ts < L /\ L - ts <= Tolerance /\ d.latest = L /\ d.reset = Hole /\ d.elapsed = E
        \/ /\ L - ts > Tolerance /\ c.reset = s.last /\ c.reset # Hole /\ s.second = Hole
           /\ d.latest = ts /\ d.reset = Hole /\ d.elapsed = E + (ts - s.last)
    <2>1. ASSUME L - ts > Tolerance, c.reset = Hole PROVE FALSE
      BY <1>1, <1>4, <2>1
    <2>2. c.reset # Hole => c.reset = s.last /\ SatSub(ts, c.reset) = ts - s.last
      BY <1>1, <1>4 DEF SatSub
    <2>. QED BY <1>1, <1>4, <2>1, <2>2, ClockMoves
  <1>6. /\ d.latest \in Nat /\ d.reset = Hole /\ d.latest - ts <= Tolerance
        /\ d.elapsed - e1 <= ts - t1 /\ d.elapsed - e1 <= d.latest - t1
    BY <1>1, <1>3, <1>5
  <1>7. CASE s.second = Hole
    <2>1. t.second = <<ts, d.elapsed>> /\ <<ts, d.elapsed>>[1] = ts /\ <<ts, d.elapsed>>[2] = d.elapsed
      BY <1>7
    <2>2. d.elapsed - d.elapsed >= ts - ts - Tolerance /\ d.elapsed - d.elapsed >= d.latest - ts - Tolerance
      BY <1>1, <1>2, <1>6
    <2>. HIDE DEF d
    <2>3. Follows(d, t)
      BY <1>1, <1>6, <2>1, <2>2 DEF Follows
    <2>. QED BY <2>3 DEF d
  <1>8. CASE s.second # Hole
    <2>. DEFINE t2 == s.second[1]
                e2 == s.second[2]
    <2>1. t2 \in Nat /\ e2 \in Nat /\ t.second = s.second
      BY <1>8 DEF Ascents, Stamped
    <2>2. E - e2 >= s.last - t2 - Tolerance /\ E - e2 >= L - t2 - Tolerance
      BY <1>8 DEF Follows
    <2>. HIDE DEF d, t2, e2
    <2>3. d.elapsed - e2 >= ts - t2 - Tolerance /\ d.elapsed - e2 >= d.latest - t2 - Tolerance
      BY <1>1, <1>5, <1>8, <2>1, <2>2
    <2>4. Follows(d, t)
      BY <1>1, <1>6, <1>8, <2>1, <2>3 DEF Follows, t2, e2
    <2>. QED BY <2>4 DEF d
  <1>. QED BY <1>7, <1>8

LEMMA TracksOn ==
  ASSUME Tracks(pClock, pSteps), NEW ts \in Nat
  PROVE  Tracks(ClockAfter(pClock, ts), StepsAfter(ts, ClockAfter(pClock, ts).elapsed))
  <1>. DEFINE d == ClockAfter(pClock, ts)
              t == StepsAfter(ts, d.elapsed)
  <1>1. pClock \in Clocks /\ pSteps \in Ascents /\ Hole \notin Nat /\ Tolerance \in Nat
    BY CaptureClockAssumption DEF Tracks
  <1>2. CASE Waiting(pClock, pSteps)
    <2>1. d = [pClock EXCEPT !.latest = ts]
      BY <1>2 DEF ClockAfter, Waiting
    <2>2. d \in Clocks /\ d.latest = ts /\ d.reset = Hole /\ d.elapsed = 0
      BY <1>1, <1>2, <2>1 DEF Clocks, Waiting
    <2>3. t = [last |-> ts, first |-> <<ts, d.elapsed>>, second |-> Hole, back |-> pSteps.back \/ pSteps.last # Hole]
      BY <1>2 DEF StepsAfter, Waiting
    <2>4. <<ts, d.elapsed>> \in Stamped /\ (pSteps.back \/ pSteps.last # Hole) \in BOOLEAN
      BY <2>2 DEF Stamped
    <2>. HIDE DEF d, t
    <2>5. t \in Ascents /\ t.last = ts /\ t.first \in Stamped /\ t.first[1] = ts /\ t.first[2] = 0 /\ t.second = Hole
      BY <2>2, <2>3, <2>4 DEF Ascents
    <2>6. Follows(d, t)
      BY <1>1, <2>2, <2>5 DEF Follows
    <2>. QED BY <2>2, <2>5, <2>6 DEF Tracks, d, t
  <1>3. CASE Follows(pClock, pSteps)
    <2>1. pClock.latest \in Nat /\ pSteps.last \in Nat
      BY <1>3 DEF Follows
    <2>2. d \in Clocks /\ d.elapsed \in Nat
      BY <1>1, <2>1, ClockMoves DEF Clocks
    <2>3. /\ t \in Ascents
          /\ \/ ts < pSteps.last /\ t.last = ts /\ t.first = <<ts, d.elapsed>> /\ t.second = Hole
             \/ /\ ts >= pSteps.last /\ t.last = ts /\ t.first = pSteps.first
                /\ t.second = IF pSteps.second = Hole THEN <<ts, d.elapsed>> ELSE pSteps.second
      <3>. HIDE DEF d
      <3>. QED BY <1>1, <2>1, <2>2, AscentMoves
    <2>. HIDE DEF t
    <2>4. Follows(d, t)
      <3>1. CASE ts < pSteps.last
        <4>1. t.last = ts /\ t.first = <<ts, d.elapsed>> /\ t.second = Hole
          BY <2>1, <2>3, <3>1
        <4>. QED BY <1>1, <1>3, <2>3, <3>1, <4>1, NewRunFollows
      <3>2. CASE ts >= pSteps.last
        <4>1. t.last = ts /\ t.first = pSteps.first
              /\ t.second = IF pSteps.second = Hole THEN <<ts, d.elapsed>> ELSE pSteps.second
          BY <2>1, <2>3, <3>2
        <4>. QED BY <1>1, <1>3, <2>3, <3>2, <4>1, NextFollows
      <3>. QED BY <2>1, <3>1, <3>2
    <2>. QED BY <2>2, <2>3, <2>4 DEF Tracks, t
  <1>. QED BY <1>2, <1>3 DEF Tracks

ClockInv == ReaderInv /\ (pReplay => Tracks(pClock, pSteps)) /\ pTopic \in DOMAIN Topics

LEMMA ClockStep ==
  ASSUME ClockInv, [PipeNext]_pVars
  PROVE  ClockInv'
  <1>0. /\ pReplay' = pReplay /\ ReaderInv /\ ReaderInv' /\ pTopic \in DOMAIN Topics
        /\ FileFrame => gFrames'[Len(gFrames')].time \in Nat
    BY ReaderStep, ReaderSteps DEF ClockInv
  <1>1. ASSUME NEW m, NEW ts \in Nat, NEW tick, NextFrame(m, ts, tick)
        PROVE  ClockInv'
    <2>1. /\ pTopic' = pTopic /\ pClock' = (IF pReplay THEN ClockAfter(pClock, ts) ELSE pClock)
          /\ pSteps' = StepsAfter(ts, ClockAfter(pClock, ts).elapsed)
      BY <1>1 DEF NextFrame
    <2>. QED BY <1>0, <2>1, TracksOn DEF ClockInv
  <1>2. ASSUME UNCHANGED <<pTopic, pClock, pSteps>> PROVE ClockInv'
    BY <1>0, <1>2 DEF ClockInv
  <1>3. ASSUME NEW request, NEW fault, InterfaceSwitched(request, fault) \/ OtherRequest(request, fault)
        PROVE  ClockInv'
    BY <1>2, <1>3 DEF InterfaceSwitched, OtherRequest, fVars
  <1>4. ASSUME NEW m, NEW ts \in Stamps[pTopic], NEW tick, CapturedFrame(m, ts, tick)
        PROVE  ClockInv'
    <2>1. ts \in Nat
      BY <1>0, PipelineAssumption
    <2>. QED BY <1>1, <1>4, <2>1 DEF CapturedFrame
  <1>5. ASSUME NEW m, NEW tick, ReplayedFrame(m, tick)
        PROVE  ClockInv'
    BY <1>0, <1>1, <1>5 DEF ReplayedFrame
  <1>6. ASSUME NEW ts, NEW tick, QuietSource(ts, tick)
        PROVE  ClockInv'
    <2>1. ~pReplay /\ pTopic' = pTopic
      BY <1>0, <1>6 DEF QuietSource, ReaderInv
    <2>. QED BY <1>0, <2>1 DEF ClockInv
  <1>7. CASE StartReplay \/ SourceEnds \/ Snapshot \/ ConfigTold \/ UNCHANGED pVars
    BY <1>2, <1>7 DEF StartReplay, SourceEnds, Snapshot, ConfigTold, pVars, fVars
  <1>. QED BY <1>3, <1>4, <1>5, <1>6, <1>7 DEF PipeNext

LEMMA ClockInitially ==
  ASSUME PipeInit
  PROVE  ClockInv
  <1>1. pTopic \in DOMAIN Topics
    BY DEF PipeInit
  <1>2. ReaderInv
    <2>1. NewReader \in Readers /\ NewReader.at = 0 /\ <<>> \in Seq(Decoded)
      BY DEF NewReader, Readers
    <2>2. CASE Shows[pTopic] = "file"
      <3>1. PICK file \in CaptureFiles : ReaderInit(file, "closed")
        BY <2>2 DEF PipeInit
      <3>2. file \in Seq(FileBlock)
        BY ReaderAssumption
      <3>3. Len(file) \in Nat
        BY <3>2
      <3>. QED BY <2>1, <3>1, <3>3 DEF ReaderInit, ReaderInv
    <2>3. CASE Shows[pTopic] # "file"
      <3>1. ReaderInit(Hole, IF pReplay THEN "classic" ELSE "live")
        BY <2>3 DEF PipeInit
      <3>. QED BY <2>1, <3>1 DEF ReaderInit, ReaderInv
    <2>. QED BY <2>2, <2>3
  <1>3. pClock = NewClock /\ pSteps = [last |-> Hole, first |-> Hole, second |-> Hole, back |-> FALSE]
    BY DEF PipeInit
  <1>4. Tracks(pClock, pSteps)
    BY <1>3 DEF Tracks, NewClock, Clocks, Ascents, Waiting
  <1>. QED BY <1>1, <1>2, <1>4 DEF ClockInv

\* ClockFollows, for reassembly.rs, ReplayClock::now_ms: over frames whose timestamps
\* ascend the clock never advances by more than they do and, from the second of them
\* on, falls behind by no more than the tolerance, for any timestamps before them and
\* from any source, a capture file too.
THEOREM ClockAlwaysFollows == PipeSpec => []ClockFollows
  <1>1. PipeInit => ClockInv
    BY ClockInitially
  <1>2. ClockInv /\ [PipeNext]_pVars => ClockInv'
    BY ClockStep
  <1>3. ClockInv => ClockFollows
    <2>. SUFFICES ASSUME ClockInv, pReplay, pSteps.first # Hole
                  PROVE  /\ pClock.elapsed - pSteps.first[2] <= pSteps.last - pSteps.first[1]
                         /\ pSteps.second # Hole =>
                              pClock.elapsed - pSteps.second[2] >= pSteps.last - pSteps.second[1] - Tolerance
      BY DEF ClockFollows
    <2>1. Follows(pClock, pSteps)
      BY DEF ClockInv, Tracks, Waiting
    <2>. QED BY <2>1 DEF Follows
  <1>. QED BY <1>1, <1>2, <1>3, PTL DEF PipeSpec

-----------------------------------------------------------------------------
(* Requests and responses *)

\* A step is a frame with its time, a quiet source, an interface switch, a snapshot,
\* or none of the frames' business.
LEMMA StepCases ==
  ASSUME ClockInv, [PipeNext]_pVars
  PROVE  \/ \E m, ts, tick : IsFrame(m) /\ ts \in Nat /\ tick \in Nat /\ NextFrame(m, ts, tick)
         \/ \E ts, tick : ts \in Nat /\ tick \in Nat /\ QuietSource(ts, tick)
         \/ \E request, fault : InterfaceSwitched(request, fault)
         \/ Snapshot
         \/ UNCHANGED fVars
  <1>1. /\ pTopic \in DOMAIN Topics /\ ReaderInv
        /\ FileFrame => gFrames'[Len(gFrames')].time \in Nat
    BY ReaderStep, ReaderSteps DEF ClockInv
  <1>2. /\ Stamps[pTopic] \subseteq Nat /\ Ticks[pTopic] \subseteq Nat
        /\ \A m \in Topics[pTopic] : IsFrame(m)
    BY <1>1, PipelineAssumption
  <1>3. ASSUME NEW tick \in Ticks[pTopic], NEW ts \in Stamps[pTopic], NEW m \in Topics[pTopic], CapturedFrame(m, ts, tick)
        PROVE  IsFrame(m) /\ ts \in Nat /\ tick \in Nat /\ NextFrame(m, ts, tick)
    BY <1>2, <1>3 DEF CapturedFrame
  <1>4. ASSUME NEW tick \in Ticks[pTopic], NEW m \in Topics[pTopic], ReplayedFrame(m, tick)
        PROVE  /\ IsFrame(m) /\ gFrames'[Len(gFrames')].time \in Nat /\ tick \in Nat
               /\ NextFrame(m, gFrames'[Len(gFrames')].time, tick)
    BY <1>1, <1>2, <1>4 DEF ReplayedFrame
  <1>5. ASSUME NEW tick \in Ticks[pTopic], NEW ts \in Stamps[pTopic], QuietSource(ts, tick)
        PROVE  ts \in Nat /\ tick \in Nat /\ QuietSource(ts, tick)
    BY <1>2, <1>5
  <1>6. CASE StartReplay \/ SourceEnds \/ ConfigTold \/ UNCHANGED pVars
    BY <1>6 DEF StartReplay, SourceEnds, ConfigTold, pVars
  <1>7. ASSUME NEW request, NEW fault, OtherRequest(request, fault)
        PROVE  UNCHANGED fVars
    BY <1>7 DEF OtherRequest
  <1>8. CASE PipeNext
    <2>1. CASE \E tick \in Ticks[pTopic] :
                 \/ \E ts \in Stamps[pTopic] :
                      (\E m \in Topics[pTopic] : CapturedFrame(m, ts, tick)) \/ QuietSource(ts, tick)
                 \/ \E m \in Topics[pTopic] : ReplayedFrame(m, tick)
      BY <1>3, <1>4, <1>5, <2>1
    <2>2. CASE \E request \in Requests[pTopic], fault \in Faults[pTopic] :
                 InterfaceSwitched(request, fault) \/ OtherRequest(request, fault)
      BY <1>7, <2>2
    <2>. QED BY <1>6, <1>8, <2>1, <2>2 DEF PipeNext
  <1>. QED BY <1>6, <1>8

-----------------------------------------------------------------------------
(***************************************************************************)
(* Every request that is tracked ends once.                                *)
(***************************************************************************)

RequestSet ==
  [flow : Flows, id : Nat \cup {Hole}, out : BOOLEAN, sent : Nat, name : STRING \cup {Hole},
   frame : Nat \cup {Hole}, seq : Nat]

StatsSet ==
  [answered : Nat, unanswered : Nat, untracked : Nat, min : Nat \cup {Hole}, max : Nat \cup {Hole},
   recent : Seq(Nat)]

Trackers ==
  [dns : SUBSET RequestSet, http : [Flows -> Seq(RequestSet)],
   answered : SUBSET [flow : Flows, id : Nat \cup {Hole}, at : Nat],
   total : Int, seq : Nat, sweep : Nat \cup {Hole}, stats : [Protocols -> StatsSet]]

\* Service times: the samples lie between the extremes.
Between(s) ==
  IF s.min = Hole THEN s.recent = <<>> /\ s.max = Hole
  ELSE /\ s.max # Hole
       /\ s.min <= s.max
       /\ \A i \in 1..Len(s.recent) : s.min <= s.recent[i] /\ s.recent[i] <= s.max

\* A sample recorded keeps the samples between the extremes.
LEMMA RecordedBetween ==
  ASSUME NEW s \in StatsSet, Between(s), NEW time \in Nat
  PROVE  LET r == StatsRecorded(s, time)
         IN /\ r \in StatsSet /\ Between(r) /\ r.answered = s.answered + 1 /\ r.unanswered = s.unanswered
  <1>. DEFINE min == IF s.min = Hole THEN time ELSE Smaller(s.min, time)
              max == IF s.max = Hole THEN time ELSE Larger(s.max, time)
              recent == IF Len(s.recent) = RecentSamples THEN Append(Tail(s.recent), time) ELSE Append(s.recent, time)
              r == StatsRecorded(s, time)
  <1>1. /\ s.answered \in Nat /\ s.unanswered \in Nat /\ s.min \in Nat \cup {Hole} /\ s.max \in Nat \cup {Hole}
        /\ s.recent \in Seq(Nat) /\ RecentSamples \in Nat \ {0} /\ Hole \notin Nat /\ Len(s.recent) \in Nat
    BY CaptureClockAssumption, TransactionsAssumption DEF StatsSet
  <1>2. r = [s EXCEPT !.answered = s.answered + 1, !.min = min, !.max = max, !.recent = recent]
    BY DEF StatsRecorded
  <1>3. min \in Nat /\ max \in Nat /\ min <= max /\ min <= time /\ time <= max
    BY <1>1 DEF Smaller, Larger, Between
  <1>4. s.min # Hole => min <= s.min /\ s.max <= max
    BY <1>1 DEF Smaller, Larger, Between
  <1>5. recent \in Seq(Nat) /\ \A i \in 1..Len(recent) : recent[i] = time \/ \E j \in 1..Len(s.recent) : recent[i] = s.recent[j]
    <2>1. CASE Len(s.recent) = RecentSamples
      <3>1. s.recent # <<>>
        BY <1>1, <2>1
      <3>. DEFINE tail == Tail(s.recent)
      <3>2. tail \in Seq(Nat) /\ Len(tail) = Len(s.recent) - 1 /\ \A i \in 1..Len(tail) : tail[i] = s.recent[i + 1]
        BY <1>1, <3>1
      <3>3. recent = Append(tail, time)
        BY <2>1
      <3>. HIDE DEF tail, recent
      <3>4. recent \in Seq(Nat) /\ Len(recent) = Len(s.recent)
        BY <1>1, <3>2, <3>3
      <3>5. ASSUME NEW i \in 1..Len(recent)
            PROVE  recent[i] = time \/ \E j \in 1..Len(s.recent) : recent[i] = s.recent[j]
        <4>1. CASE i = Len(recent)
          BY <1>1, <3>2, <3>3, <3>4, <4>1
        <4>2. CASE i # Len(recent)
          <5>1. i \in 1..Len(tail) /\ i + 1 \in 1..Len(s.recent)
            <6>. DEFINE n == Len(s.recent)
                        l == Len(recent)
                        k == Len(tail)
            <6>1. n \in Nat /\ l = n /\ k = n - 1 /\ i \in 1..l /\ i # l
              BY <1>1, <3>2, <3>4, <4>2
            <6>. HIDE DEF n, l, k
            <6>2. i \in 1..k /\ i + 1 \in 1..n
              BY <6>1
            <6>. QED BY <6>2 DEF n, k
          <5>2. recent[i] = s.recent[i + 1]
            BY <1>1, <3>2, <3>3, <5>1
          <5>. QED BY <5>1, <5>2
        <4>. QED BY <4>1, <4>2
      <3>. QED BY <3>4, <3>5
    <2>2. CASE Len(s.recent) # RecentSamples
      <3>1. recent = Append(s.recent, time)
        BY <2>2
      <3>. HIDE DEF recent
      <3>. QED BY <1>1, <3>1
    <2>. QED BY <2>1, <2>2
  <1>. HIDE DEF min, max, recent, r
  <1>6. r \in StatsSet /\ r.min = min /\ r.max = max /\ r.recent = recent
        /\ r.answered = s.answered + 1 /\ r.unanswered = s.unanswered
    <2>1. s.answered + 1 \in Nat /\ min \in Nat \cup {Hole} /\ max \in Nat \cup {Hole} /\ recent \in Seq(Nat)
      BY <1>1, <1>3, <1>5
    <2>2. r \in StatsSet
      BY <1>2, <2>1 DEF StatsSet
    <2>. QED BY <1>2, <2>2 DEF StatsSet
  <1>7. ASSUME NEW i \in 1..Len(recent) PROVE min <= recent[i] /\ recent[i] <= max
    <2>1. CASE recent[i] = time
      BY <1>3, <2>1
    <2>2. CASE recent[i] # time
      <3>1. PICK j \in 1..Len(s.recent) : recent[i] = s.recent[j]
        BY <1>5, <2>2
      <3>2. s.min # Hole
        <4>1. s.recent # <<>>
          BY <1>1, <3>1
        <4>. QED BY <4>1 DEF Between
      <3>3. s.min <= s.recent[j] /\ s.recent[j] <= s.max /\ s.recent[j] \in Nat /\ s.min \in Nat /\ s.max \in Nat
        BY <1>1, <3>1, <3>2 DEF Between
      <3>. QED BY <1>3, <1>4, <3>1, <3>2, <3>3
    <2>. QED BY <2>1, <2>2
  <1>8. Between(r)
    BY <1>1, <1>3, <1>6, <1>7 DEF Between
  <1>. QED BY <1>6, <1>8 DEF r

\* The median is not above the 95th percentile, and both are samples.
LEMMA RankedBetween ==
  ASSUME NEW s \in Seq(Nat), s # <<>>, NEW lo \in Nat, NEW hi \in Nat,
         \A i \in 1..Len(s) : lo <= s[i] /\ s[i] <= hi
  PROVE  /\ lo <= NearestRank(s, 50) /\ NearestRank(s, 50) <= NearestRank(s, 95) /\ NearestRank(s, 95) <= hi
  <1>. DEFINE n == Len(s)
              rank(percent) == Larger((percent * n + 99) \div 100, 1)
              Below(v) == {i \in DOMAIN s : s[i] <= v}
              At(k) == {v \in Range(s) : Cardinality(Below(v)) >= k}
              half == rank(50)
              most == rank(95)
  <1>1. n \in Nat /\ n >= 1 /\ DOMAIN s = 1..n /\ Range(s) = {s[i] : i \in 1..n}
    BY DEF Range
  <1>2. half \in Nat /\ most \in Nat /\ half <= most /\ most <= n
    <2>. HIDE DEF n
    <2>. QED BY <1>1 DEF Larger
  <1>3. NearestRank(s, 50) = Min(At(half)) /\ NearestRank(s, 95) = Min(At(most))
    BY DEF NearestRank
  <1>4. Range(s) \in SUBSET (0..hi) /\ Range(s) # {} /\ \A v \in Range(s) : lo <= v /\ v <= hi
    BY <1>1
  <1>5. PICK top \in Range(s) : \A v \in Range(s) : top >= v
    BY <1>4, MaxExists
  <1>. HIDE DEF half, most
  <1>6. top \in At(most)
    <2>1. Below(top) = 1..n
      BY <1>1, <1>4, <1>5
    <2>2. Cardinality(1..n) = n
      <3>1. 1 \in Int /\ n \in Int /\ ~(1 > n)
        BY <1>1
      <3>. HIDE DEF n
      <3>2. Cardinality(1..n) = n - 1 + 1
        BY <3>1, FS_Interval
      <3>. QED BY <3>1, <3>2
    <2>. QED BY <1>2, <1>5, <2>1, <2>2
  <1>7. At(most) \subseteq At(half)
    <2>1. ASSUME NEW v PROVE Cardinality(Below(v)) \in Nat
      <3>1. IsFiniteSet(1..n) /\ Below(v) \in SUBSET (1..n)
        BY <1>1, FS_Interval
      <3>. HIDE DEF Below, n
      <3>. QED BY <3>1, FS_Subset, FS_CardinalityType
    <2>. HIDE DEF Below
    <2>. QED BY <1>2, <2>1
  <1>. HIDE DEF Below
  <1>8. At(half) \in SUBSET Nat /\ At(most) \in SUBSET Nat /\ At(half) # {} /\ At(most) # {}
        /\ At(half) \subseteq Range(s) /\ At(most) \subseteq Range(s)
    BY <1>4, <1>6, <1>7
  <1>. HIDE DEF At
  <1>9. /\ Min(At(half)) \in At(half) /\ \A y \in At(half) : Min(At(half)) <= y
        /\ Min(At(most)) \in At(most)
    BY <1>8, MinExists
  <1>. QED BY <1>3, <1>4, <1>7, <1>8, <1>9

\* The percentiles lie between the extremes.
LEMMA PercentilesBetween ==
  ASSUME NEW s \in StatsSet, Between(s), s.recent # <<>>
  PROVE  /\ s.min <= Percentiles(s).median /\ Percentiles(s).median <= Percentiles(s).p95
         /\ Percentiles(s).p95 <= s.max
  <1>1. s.recent \in Seq(Nat) /\ s.min \in Nat \cup {Hole} /\ s.max \in Nat \cup {Hole}
    BY DEF StatsSet
  <1>2. s.min # Hole /\ s.max # Hole /\ \A i \in 1..Len(s.recent) : s.min <= s.recent[i] /\ s.recent[i] <= s.max
    BY DEF Between
  <1>3. Percentiles(s).median = NearestRank(s.recent, 50) /\ Percentiles(s).p95 = NearestRank(s.recent, 95)
    BY DEF Percentiles
  <1>4. s.min \in Nat /\ s.max \in Nat
    BY <1>1, <1>2
  <1>5. /\ s.min <= NearestRank(s.recent, 50) /\ NearestRank(s.recent, 50) <= NearestRank(s.recent, 95)
        /\ NearestRank(s.recent, 95) <= s.max
    BY <1>1, <1>2, <1>4, RankedBetween
  <1>. QED BY <1>3, <1>5

Queued(http) == UNION {{http[f][i] : i \in 1..Len(http[f])} : f \in Flows}

DnsSound(dns) ==
  /\ dns \subseteq RequestSet /\ IsFiniteSet(dns)
  /\ \A r \in dns : r.id # Hole
  /\ \A r, q \in dns : r.flow = q.flow /\ r.id = q.id => r = q

\* The requests of a queue are of its flow and were numbered in their order.
QueueSound(queue, f, seq) ==
  /\ queue \in Seq(RequestSet)
  /\ \A i \in 1..Len(queue) : queue[i].id = Hole /\ queue[i].flow = f /\ queue[i].seq < seq
  /\ \A i, j \in 1..Len(queue) : i < j => queue[i].seq < queue[j].seq

HttpSound(http, seq) ==
  http \in [Flows -> Seq(RequestSet)] /\ \A f \in Flows : QueueSound(http[f], f, seq)

\* A request is queued when some place of some queue holds it.
LEMMA QueuedIs ==
  ASSUME NEW http, NEW r
  PROVE  r \in Queued(http) <=> \E f \in Flows : \E i \in 1..Len(http[f]) : r = http[f][i]
  BY DEF Queued

\* What is pending is a DNS request or one that is queued.
LEMMA PendingIs ==
  ASSUME NEW t
  PROVE  PendingRequests(t) = t.dns \cup Queued(t.http)
  BY DEF PendingRequests, Queued

\* A queued request is of the flow whose queue holds it, at one place of it.
LEMMA QueuedOf ==
  ASSUME NEW http, NEW seq \in Nat, HttpSound(http, seq), NEW r \in Queued(http)
  PROVE  r \in RequestSet /\ r.id = Hole /\ r.seq < seq
  <1>1. PICK f \in Flows : \E i \in 1..Len(http[f]) : r = http[f][i]
    BY QueuedIs
  <1>2. PICK i \in 1..Len(http[f]) : r = http[f][i]
    BY <1>1
  <1>3. QueueSound(http[f], f, seq)
    BY DEF HttpSound
  <1>4. http[f] \in Seq(RequestSet)
    BY <1>3 DEF QueueSound
  <1>5. http[f][i] \in RequestSet
    BY <1>4
  <1>. QED BY <1>2, <1>3, <1>5 DEF QueueSound

\* A queue with one request more.
LEMMA QueueAppend ==
  ASSUME NEW http, NEW seq \in Nat, HttpSound(http, seq), NEW f \in Flows, NEW r \in RequestSet,
         r.id = Hole, r.flow = f, r.seq = seq, NEW h \in [Flows -> Seq(RequestSet)],
         h[f] = Append(http[f], r), \A g \in Flows : g # f => h[g] = http[g]
  PROVE  HttpSound(h, seq + 1) /\ Queued(h) = Queued(http) \cup {r} /\ r \notin Queued(http)
  <1>. DEFINE q == http[f]
              n == Append(q, r)
  <1>1. http \in [Flows -> Seq(RequestSet)] /\ q \in Seq(RequestSet) /\ QueueSound(q, f, seq) /\ Len(q) \in Nat
    BY DEF HttpSound
  <1>. HIDE DEF q
  <1>2. /\ n \in Seq(RequestSet) /\ Len(n) = Len(q) + 1 /\ n[Len(q) + 1] = r
        /\ \A i \in 1..Len(q) : n[i] = q[i]
    BY <1>1
  <1>. HIDE DEF n
  <1>3. h \in [Flows -> Seq(RequestSet)] /\ h[f] = n /\ \A g \in Flows : g # f => h[g] = http[g]
    <2>1. h[f] = n /\ \A g \in Flows : g # f => h[g] = http[g]
      BY DEF n, q
    <2>2. \A g \in Flows : h[g] \in Seq(RequestSet)
      BY <1>1, <1>2, <2>1
    <2>. QED BY <2>1, <2>2
  <1>4. \A i \in 1..Len(q) : q[i].id = Hole /\ q[i].flow = f /\ q[i].seq < seq /\ q[i].seq \in Nat
    <2>1. ASSUME NEW i \in 1..Len(q) PROVE q[i].seq \in Nat
      <3>1. q[i] \in RequestSet
        BY <1>1
      <3>. QED BY <3>1 DEF RequestSet
    <2>. QED BY <1>1, <2>1 DEF QueueSound
  <1>5. \A i \in 1..Len(n) : (i \in 1..Len(q) /\ n[i] = q[i]) \/ (i = Len(q) + 1 /\ n[i] = r)
    BY <1>1, <1>2
  <1>6. QueueSound(n, f, seq + 1)
    <2>1. ASSUME NEW i \in 1..Len(n) PROVE n[i].id = Hole /\ n[i].flow = f /\ n[i].seq < seq + 1
      <3>1. CASE i \in 1..Len(q) /\ n[i] = q[i]
        BY <1>4, <3>1
      <3>2. CASE n[i] = r
        BY <3>2
      <3>. QED BY <1>5, <3>1, <3>2
    <2>2. ASSUME NEW i \in 1..Len(n), NEW j \in 1..Len(n), i < j PROVE n[i].seq < n[j].seq
      <3>1. i \in 1..Len(q) /\ n[i] = q[i]
        BY <1>1, <1>2, <2>2
      <3>2. CASE j \in 1..Len(q) /\ n[j] = q[j]
        BY <1>1, <2>2, <3>1, <3>2 DEF QueueSound
      <3>3. CASE n[j] = r
        BY <1>4, <3>1, <3>3
      <3>. QED BY <1>5, <3>2, <3>3
    <2>. QED BY <1>2, <2>1, <2>2 DEF QueueSound
  <1>7. ASSUME NEW g \in Flows, g # f PROVE QueueSound(h[g], g, seq + 1)
    <2>. DEFINE p == http[g]
    <2>1. QueueSound(p, g, seq) /\ h[g] = p
      BY <1>3, <1>7 DEF HttpSound
    <2>. HIDE DEF p
    <2>2. ASSUME NEW i \in 1..Len(p) PROVE p[i].seq < seq + 1
      <3>1. p \in Seq(RequestSet) /\ p[i].seq < seq
        BY <2>1 DEF QueueSound
      <3>2. p[i] \in RequestSet
        BY <3>1
      <3>3. p[i].seq \in Nat
        BY <3>2 DEF RequestSet
      <3>. QED BY <3>1, <3>3
    <2>. QED BY <2>1, <2>2 DEF QueueSound
  <1>8. HttpSound(h, seq + 1)
    BY <1>3, <1>6, <1>7 DEF HttpSound
  <1>9. r \notin Queued(http)
    <2>1. ASSUME r \in Queued(http) PROVE FALSE
      <3>1. r.seq < seq
        BY <2>1, QueuedOf
      <3>. QED BY <3>1
    <2>. QED BY <2>1
  <1>10. ASSUME NEW x \in Queued(h) PROVE x \in Queued(http) \cup {r}
    <2>1. PICK g \in Flows : \E i \in 1..Len(h[g]) : x = h[g][i]
      BY DEF Queued
    <2>2. PICK i \in 1..Len(h[g]) : x = h[g][i]
      BY <2>1
    <2>3. CASE g = f
      BY <1>3, <1>5, <2>2, <2>3, QueuedIs DEF q
    <2>4. CASE g # f
      BY <1>3, <2>2, <2>4, QueuedIs
    <2>. QED BY <2>3, <2>4
  <1>11. ASSUME NEW x \in Queued(http) PROVE x \in Queued(h)
    <2>1. PICK g \in Flows : \E i \in 1..Len(http[g]) : x = http[g][i]
      BY QueuedIs
    <2>2. PICK i \in 1..Len(http[g]) : x = http[g][i]
      BY <2>1
    <2>3. CASE g = f
      <3>1. i \in 1..Len(q) /\ i \in 1..Len(n) /\ x = n[i]
        BY <1>1, <1>2, <2>2, <2>3 DEF q
      <3>. QED BY <1>3, <3>1, QueuedIs
    <2>4. CASE g # f
      BY <1>3, <2>2, <2>4, QueuedIs
    <2>. QED BY <2>3, <2>4
  <1>12. r \in Queued(h)
    <2>1. Len(q) + 1 \in 1..Len(h[f]) /\ h[f][Len(q) + 1] = r
      BY <1>1, <1>2, <1>3
    <2>. QED BY <2>1, QueuedIs
  <1>. QED BY <1>8, <1>9, <1>10, <1>11, <1>12

\* Queues that lost their first ones, so many of each: cut[f].
CutQueues(http, cut) == [f \in Flows |-> SubSeq(http[f], cut[f] + 1, Len(http[f]))]

CutRequests(http, cut) == UNION {{http[f][i] : i \in 1..cut[f]} : f \in Flows}

\* Queues that lost their first requests are sound, and hold the others.
LEMMA QueueCut ==
  ASSUME NEW http, NEW seq \in Nat, HttpSound(http, seq), NEW cut \in [Flows -> Nat],
         \A f \in Flows : cut[f] <= Len(http[f])
  PROVE  /\ HttpSound(CutQueues(http, cut), seq)
         /\ Queued(CutQueues(http, cut)) = Queued(http) \ CutRequests(http, cut)
         /\ CutRequests(http, cut) \subseteq Queued(http)
         /\ \A f \in Flows : /\ Len(CutQueues(http, cut)[f]) = Len(http[f]) - cut[f]
                             /\ \A i \in 1..Len(http[f]) - cut[f] : CutQueues(http, cut)[f][i] = http[f][cut[f] + i]
  <1>. DEFINE h == CutQueues(http, cut)
              gone == CutRequests(http, cut)
  <1>1. http \in [Flows -> Seq(RequestSet)]
    BY DEF HttpSound
  <1>2. ASSUME NEW f \in Flows
        PROVE  /\ h[f] \in Seq(RequestSet) /\ Len(h[f]) = Len(http[f]) - cut[f] /\ Len(h[f]) \in Nat
               /\ Len(http[f]) \in Nat /\ cut[f] \in Nat
               /\ \A i \in 1..Len(h[f]) : h[f][i] = http[f][cut[f] + i] /\ cut[f] + i \in 1..Len(http[f])
    <2>. DEFINE q == http[f]
                c == cut[f]
                s == SubSeq(q, c + 1, Len(q))
    <2>1. q \in Seq(RequestSet) /\ c \in Nat /\ Len(q) \in Nat /\ c <= Len(q) /\ h[f] = s
      BY <1>1 DEF CutQueues
    <2>. HIDE DEF q, c
    <2>2. CASE c = Len(q)
      <3>1. s = <<>>
        BY <2>1, <2>2
      <3>. HIDE DEF s
      <3>. QED BY <2>1, <2>2, <3>1 DEF q, c
    <2>3. CASE c < Len(q)
      <3>1. s \in Seq(RequestSet) /\ Len(s) = Len(q) - c
        BY <2>1, <2>3
      <3>2. ASSUME NEW i \in 1..Len(s) PROVE s[i] = q[c + i] /\ c + i \in 1..Len(q)
        BY <2>1, <2>3, <3>1
      <3>. HIDE DEF s
      <3>3. h[f] \in Seq(RequestSet) /\ Len(h[f]) = Len(q) - c /\ Len(h[f]) \in Nat
        BY <2>1, <2>3, <3>1
      <3>. QED BY <2>1, <3>1, <3>2, <3>3 DEF q, c
    <2>. QED BY <2>1, <2>2, <2>3
  <1>3. h \in [Flows -> Seq(RequestSet)]
    <2>1. DOMAIN h = Flows /\ h = [f \in Flows |-> h[f]]
      BY DEF CutQueues
    <2>. HIDE DEF h
    <2>. QED BY <1>2, <2>1
  <1>. HIDE DEF h
  <1>4. ASSUME NEW f \in Flows PROVE QueueSound(h[f], f, seq)
    <2>. DEFINE q == http[f]
                p == h[f]
    <2>1. QueueSound(q, f, seq)
      BY DEF HttpSound
    <2>2. /\ p \in Seq(RequestSet) /\ Len(p) \in Nat /\ cut[f] \in Nat
          /\ \A i \in 1..Len(p) : p[i] = q[cut[f] + i] /\ cut[f] + i \in 1..Len(q)
      BY <1>2
    <2>. HIDE DEF p, q
    <2>3. ASSUME NEW i \in 1..Len(p), NEW j \in 1..Len(p), i < j PROVE p[i].seq < p[j].seq
      <3>1. cut[f] + i < cut[f] + j
        BY <2>2, <2>3
      <3>. QED BY <2>1, <2>2, <3>1 DEF QueueSound
    <2>4. QueueSound(p, f, seq)
      BY <2>1, <2>2, <2>3 DEF QueueSound
    <2>. QED BY <2>4 DEF p
  <1>5. HttpSound(h, seq)
    BY <1>3, <1>4 DEF HttpSound
  <1>6. ASSUME NEW x \in gone PROVE x \in Queued(http)
    <2>1. PICK f \in Flows : \E i \in 1..cut[f] : x = http[f][i]
      BY DEF CutRequests
    <2>2. PICK i \in 1..cut[f] : x = http[f][i]
      BY <2>1
    <2>3. i \in 1..Len(http[f])
      BY <1>2
    <2>. QED BY <2>2, <2>3, QueuedIs
  <1>7. ASSUME NEW x \in Queued(h) PROVE x \in Queued(http) /\ x \notin gone
    <2>1. PICK f \in Flows : \E i \in 1..Len(h[f]) : x = h[f][i]
      BY QueuedIs
    <2>2. PICK i \in 1..Len(h[f]) : x = h[f][i]
      BY <2>1
    <2>3. x = http[f][cut[f] + i] /\ cut[f] + i \in 1..Len(http[f])
      BY <1>2, <2>2
    <2>4. ASSUME x \in gone PROVE FALSE
      <3>1. PICK g \in Flows : \E j \in 1..cut[g] : x = http[g][j]
        BY <2>4 DEF CutRequests
      <3>2. PICK j \in 1..cut[g] : x = http[g][j]
        BY <3>1
      <3>3. QueueSound(http[f], f, seq) /\ QueueSound(http[g], g, seq) /\ j \in 1..Len(http[g])
        BY <1>2 DEF HttpSound
      <3>4. x.flow = f /\ x.flow = g
        BY <2>3, <3>2, <3>3 DEF QueueSound
      <3>5. j < cut[f] + i /\ j \in 1..Len(http[f])
        BY <1>2, <3>2, <3>3, <3>4
      <3>6. http[f][j].seq < http[f][cut[f] + i].seq
        BY <2>3, <3>3, <3>5 DEF QueueSound
      <3>7. x \in RequestSet
        BY <2>3, QueuedIs, QueuedOf
      <3>8. x.seq \in Nat
        BY <3>7 DEF RequestSet
      <3>. QED BY <2>3, <3>2, <3>4, <3>6, <3>8
    <2>. QED BY <2>3, <2>4, QueuedIs
  <1>8. ASSUME NEW x \in Queued(http), x \notin gone PROVE x \in Queued(h)
    <2>1. PICK f \in Flows : \E i \in 1..Len(http[f]) : x = http[f][i]
      BY QueuedIs
    <2>2. PICK i \in 1..Len(http[f]) : x = http[f][i]
      BY <2>1
    <2>3. ~(i \in 1..cut[f])
      BY <1>8, <2>2 DEF CutRequests
    <2>4. i - cut[f] \in 1..Len(h[f]) /\ cut[f] + (i - cut[f]) = i
      BY <1>2, <2>3
    <2>5. x = h[f][i - cut[f]]
      BY <1>2, <2>2, <2>4
    <2>. QED BY <2>4, <2>5, QueuedIs
  <1>9. Queued(h) = Queued(http) \ gone
    <2>. HIDE DEF gone
    <2>. QED BY <1>7, <1>8
  <1>10. ASSUME NEW f \in Flows
         PROVE  /\ Len(h[f]) = Len(http[f]) - cut[f]
                /\ \A i \in 1..Len(http[f]) - cut[f] : h[f][i] = http[f][cut[f] + i]
    BY <1>2
  <1>. QED BY <1>5, <1>6, <1>9, <1>10 DEF h

TrackerSound(t) ==
  /\ t \in Trackers /\ DnsSound(t.dns) /\ HttpSound(t.http, t.seq) /\ IsFiniteSet(Queued(t.http))
  /\ t.total = Cardinality(PendingRequests(t))
  /\ \A p \in Protocols : Between(t.stats[p])

SumOf(t, what) == t.stats["dns"][what] + t.stats["http"][what]

Ordered(http) == \A f \in Flows : \A i, j \in 1..Len(http[f]) : i < j => http[f][i].sent <= http[f][j].sent

\* The fields of a tracker have their types.
LEMMA TrackerTyped ==
  ASSUME NEW t \in Trackers
  PROVE  /\ t.dns \in SUBSET RequestSet /\ t.http \in [Flows -> Seq(RequestSet)] /\ t.total \in Int /\ t.seq \in Nat
         /\ t.sweep \in Nat \cup {Hole} /\ t.stats \in [Protocols -> StatsSet]
         /\ t.answered \in SUBSET [flow : Flows, id : Nat \cup {Hole}, at : Nat]
         /\ t.stats["dns"] \in StatsSet /\ t.stats["http"] \in StatsSet
  BY DEF Trackers, Protocols

\* Requests of the two protocols are different ones.
LEMMA PendingApart ==
  ASSUME NEW dns, DnsSound(dns), NEW http, NEW seq \in Nat, HttpSound(http, seq), IsFiniteSet(Queued(http))
  PROVE  /\ dns \cap Queued(http) = {} /\ IsFiniteSet(dns \cup Queued(http))
         /\ Cardinality(dns \cup Queued(http)) = Cardinality(dns) + Cardinality(Queued(http))
         /\ Cardinality(dns) \in Nat /\ Cardinality(Queued(http)) \in Nat
  <1>1. dns \cap Queued(http) = {}
    BY QueuedOf DEF DnsSound
  <1>2. IsFiniteSet(dns) /\ Cardinality(dns) \in Nat /\ Cardinality(Queued(http)) \in Nat
    BY FS_CardinalityType DEF DnsSound
  <1>3. /\ IsFiniteSet(dns \cup Queued(http))
        /\ Cardinality(dns \cup Queued(http)) = Cardinality(dns) + Cardinality(Queued(http)) - Cardinality(dns \cap Queued(http))
    BY <1>2, FS_Union
  <1>4. Cardinality(dns \cap Queued(http)) = 0
    BY <1>1, FS_EmptySet
  <1>. QED BY <1>1, <1>2, <1>3, <1>4

\* The total is the number of DNS requests and of HTTP requests.
LEMMA TotalIs ==
  ASSUME NEW t, TrackerSound(t)
  PROVE  /\ t.total = Cardinality(t.dns) + Cardinality(Queued(t.http))
         /\ Cardinality(t.dns) \in Nat /\ Cardinality(Queued(t.http)) \in Nat
  <1>1. t.seq \in Nat
    BY TrackerTyped DEF TrackerSound
  <1>2. PendingRequests(t) = t.dns \cup Queued(t.http)
    BY PendingIs
  <1>. QED BY <1>1, <1>2, PendingApart DEF TrackerSound

\* What is sound with that total.
LEMMA SoundWith ==
  ASSUME NEW u \in Trackers, DnsSound(u.dns), HttpSound(u.http, u.seq), IsFiniteSet(Queued(u.http)),
         u.total = Cardinality(u.dns) + Cardinality(Queued(u.http)),
         \A p \in Protocols : Between(u.stats[p])
  PROVE  TrackerSound(u)
  <1>1. u.seq \in Nat
    BY TrackerTyped
  <1>2. PendingRequests(u) = u.dns \cup Queued(u.http)
    BY PendingIs
  <1>3. Cardinality(u.dns \cup Queued(u.http)) = Cardinality(u.dns) + Cardinality(Queued(u.http))
    BY <1>1, PendingApart
  <1>. QED BY <1>2, <1>3 DEF TrackerSound

\* What observing a message at ts may do to the tracker.
Effect(t, o, ts) ==
  LET u == o.t
      k == o.event.kind
  IN /\ TrackerSound(u) /\ u.sweep = t.sweep
     /\ u.total = t.total + (IF k = "request" THEN 1 ELSE IF k = "answered" THEN -1 ELSE 0)
     /\ k = "request" => t.total < MaxPending /\ o.event.request \in RequestSet
     /\ SumOf(u, "answered") = SumOf(t, "answered") + (IF k = "answered" THEN 1 ELSE 0)
     /\ SumOf(u, "unanswered") = SumOf(t, "unanswered")
     /\ \A r \in PendingRequests(u) : r \in PendingRequests(t) \/ r.sent = ts
     /\ Ordered(t.http) /\ (\A r \in PendingRequests(t) : r.sent <= ts) => Ordered(u.http)

\* A message that leaves the tracker alone is an effect.
LEMMA NothingDone ==
  ASSUME NEW t, TrackerSound(t), NEW ts, NEW o, o.t = t, o.event.kind \notin {"request", "answered"}
  PROVE  Effect(t, o, ts)
  <1>1. t.total \in Int /\ t.stats["dns"] \in StatsSet /\ t.stats["http"] \in StatsSet
    BY TrackerTyped DEF TrackerSound
  <1>2. /\ t.stats["dns"]["answered"] \in Nat /\ t.stats["http"]["answered"] \in Nat
    BY <1>1 DEF StatsSet
  <1>. QED BY <1>1, <1>2 DEF Effect, SumOf

\* So is one that is only counted as untracked.
LEMMA UntrackedDone ==
  ASSUME NEW t, TrackerSound(t), NEW ts, NEW p \in Protocols
  PROVE  Effect(t, Untracked(t, p), ts)
  <1>. DEFINE o == Untracked(t, p)
              u == [t EXCEPT !.stats[p].untracked = @ + 1]
              s == [t.stats[p] EXCEPT !.untracked = @ + 1]
  <1>0. o.t = u /\ o.event.kind = "untracked"
    BY DEF Untracked, Outcome
  <1>1. t \in Trackers /\ t.total \in Int /\ t.stats \in [Protocols -> StatsSet] /\ t.stats[p] \in StatsSet
    BY TrackerTyped DEF TrackerSound
  <1>2. s \in StatsSet /\ s.answered = t.stats[p].answered /\ s.unanswered = t.stats[p].unanswered /\ s.answered \in Nat
        /\ s.min = t.stats[p].min /\ s.max = t.stats[p].max /\ s.recent = t.stats[p].recent
    <2>. DEFINE w == t.stats[p]
    <2>1. w \in StatsSet /\ w.untracked \in Nat /\ w.answered \in Nat
      BY <1>1 DEF StatsSet
    <2>2. s = [w EXCEPT !.untracked = w.untracked + 1]
      OBVIOUS
    <2>. HIDE DEF w, s
    <2>3. w.untracked + 1 \in Nat
      BY <2>1
    <2>4. s \in StatsSet
      BY <2>1, <2>2, <2>3 DEF StatsSet
    <2>5. s.answered = w.answered /\ s.unanswered = w.unanswered /\ s.min = w.min /\ s.max = w.max /\ s.recent = w.recent
      BY <2>1, <2>2 DEF StatsSet
    <2>. QED BY <2>1, <2>4, <2>5 DEF w
  <1>3. u = [t EXCEPT !.stats = [t.stats EXCEPT ![p] = s]]
    BY <1>1 DEF Trackers
  <1>. HIDE DEF u, s
  <1>4. u \in Trackers /\ u.dns = t.dns /\ u.http = t.http /\ u.total = t.total /\ u.seq = t.seq /\ u.sweep = t.sweep
        /\ u.stats = [t.stats EXCEPT ![p] = s]
    BY <1>1, <1>2, <1>3 DEF Trackers
  <1>5. \A q \in Protocols : u.stats[q] = (IF q = p THEN s ELSE t.stats[q])
    BY <1>1, <1>4
  <1>6. \A q \in Protocols : Between(u.stats[q])
    BY <1>2, <1>5 DEF TrackerSound, Between
  <1>7. TrackerSound(u) /\ PendingRequests(u) = PendingRequests(t)
    BY <1>4, <1>6, PendingIs DEF TrackerSound
  <1>8. \A q \in Protocols : u.stats[q].answered = t.stats[q].answered /\ u.stats[q].unanswered = t.stats[q].unanswered
                             /\ t.stats[q].answered \in Nat
    BY <1>1, <1>2, <1>5 DEF StatsSet
  <1>9. SumOf(u, "answered") = SumOf(t, "answered") + 0 /\ SumOf(u, "unanswered") = SumOf(t, "unanswered")
    BY <1>8 DEF SumOf, Protocols
  <1>. HIDE DEF o
  <1>10. Effect(t, o, ts)
    BY <1>0, <1>1, <1>4, <1>7, <1>9 DEF Effect
  <1>. QED BY <1>10 DEF o

\* The messages of a topic are frames.
LEMMA FrameTyped ==
  ASSUME NEW m, IsFrame(m)
  PROVE  /\ m.flow \in Flows /\ m.out \in BOOLEAN /\ m.id \in Nat \cup {Hole} /\ m.name \in STRING \cup {Hole}
         /\ m.l7 \in {"query", "response"} => m.id # Hole
         /\ m.l7 \notin {"query", "response"} => m.id = Hole
  BY DEF IsFrame, Frame

\* A request made of a frame has its type.
LEMMA NewRequestTyped ==
  ASSUME NEW m, IsFrame(m), NEW ts \in Nat, NEW seq \in Nat
  PROVE  LET r == NewRequest(m, ts, seq)
         IN r \in RequestSet /\ r.flow = m.flow /\ r.id = m.id /\ r.sent = ts /\ r.seq = seq
  BY FrameTyped DEF NewRequest, RequestSet

\* One request more.
LEMMA OneMore ==
  ASSUME NEW t, TrackerSound(t), NEW u \in Trackers, u.stats = t.stats, u.sweep = t.sweep, u.total = t.total + 1,
         t.total < MaxPending, DnsSound(u.dns), HttpSound(u.http, u.seq),
         NEW r, r.sent \in Nat, r \notin t.dns \cup Queued(t.http),
         \/ u.dns = t.dns \cup {r} /\ Queued(u.http) = Queued(t.http)
         \/ u.dns = t.dns /\ Queued(u.http) = Queued(t.http) \cup {r},
         Ordered(t.http) /\ (\A q \in PendingRequests(t) : q.sent <= r.sent) => Ordered(u.http),
         NEW o, o.t = u, o.event.kind = "request", o.event.request \in RequestSet
  PROVE  Effect(t, o, r.sent)
  <1>1. t.seq \in Nat /\ u.seq \in Nat /\ t.total \in Int /\ t.stats["dns"] \in StatsSet /\ t.stats["http"] \in StatsSet
    BY TrackerTyped DEF TrackerSound
  <1>2. t.stats["dns"]["answered"] \in Nat /\ t.stats["http"]["answered"] \in Nat
    BY <1>1 DEF StatsSet
  <1>3. PendingRequests(t) = t.dns \cup Queued(t.http) /\ PendingRequests(u) = u.dns \cup Queued(u.http)
    BY PendingIs
  <1>4. PendingRequests(u) = PendingRequests(t) \cup {r}
    BY <1>3
  <1>5. IsFiniteSet(PendingRequests(t)) /\ IsFiniteSet(Queued(t.http))
    <2>1. IsFiniteSet(Queued(t.http)) /\ DnsSound(t.dns) /\ HttpSound(t.http, t.seq)
      BY DEF TrackerSound
    <2>. QED BY <1>1, <1>3, <2>1, PendingApart
  <1>6. IsFiniteSet(Queued(u.http))
    <2>1. CASE Queued(u.http) = Queued(t.http)
      BY <1>5, <2>1
    <2>2. CASE Queued(u.http) = Queued(t.http) \cup {r}
      BY <1>5, <2>2, FS_AddElement
    <2>. QED BY <2>1, <2>2
  <1>7. Cardinality(PendingRequests(u)) = Cardinality(PendingRequests(t)) + 1
    <2>1. r \notin PendingRequests(t)
      BY <1>3
    <2>. QED BY <1>4, <1>5, <2>1, FS_AddElement
  <1>8. TrackerSound(u)
    BY <1>6, <1>7 DEF TrackerSound
  <1>9. \A q \in PendingRequests(u) : q \in PendingRequests(t) \/ q.sent = r.sent
    BY <1>4
  <1>. QED BY <1>1, <1>2, <1>8, <1>9 DEF Effect, SumOf

\* A DNS query is tracked once, whatever was pending.
LEMMA DnsQueryDone ==
  ASSUME NEW t, TrackerSound(t), NEW m, IsFrame(m), m.l7 = "query", NEW ts \in Nat
  PROVE  Effect(t, DnsQuery(t, m, ts), ts)
  <1>. DEFINE o == DnsQuery(t, m, ts)
              r == NewRequest(m, ts, 0)
              answered == {a \in t.answered : a.flow # m.flow \/ a.id # m.id}
              u == [t EXCEPT !.answered = answered, !.dns = t.dns \cup {r}, !.total = t.total + 1]
  <1>1. t \in Trackers /\ t.total \in Int /\ DnsSound(t.dns) /\ HttpSound(t.http, t.seq) /\ MaxPending \in Nat /\ t.seq \in Nat
    BY TrackerTyped, TransactionsAssumption DEF TrackerSound
  <1>2. CASE ~IsDnsService(m.flow, m.out)
    <2>1. o.t = t /\ o.event.kind = "none"
      BY <1>2 DEF DnsQuery, Nothing, NoEvent
    <2>. QED BY <2>1, NothingDone
  <1>3. CASE IsDnsService(m.flow, m.out) /\ PendingDns(t, m) # {}
    <2>1. o.t = t /\ o.event.kind = "retransmitted"
      BY <1>3 DEF DnsQuery, Outcome
    <2>. QED BY <2>1, NothingDone
  <1>4. CASE IsDnsService(m.flow, m.out) /\ ~(PendingDns(t, m) # {}) /\ t.total >= MaxPending
    <2>1. o = Untracked(t, "dns") /\ "dns" \in Protocols
      BY <1>4 DEF DnsQuery, Protocols
    <2>. QED BY <2>1, UntrackedDone
  <1>5. CASE IsDnsService(m.flow, m.out) /\ PendingDns(t, m) = {} /\ ~(t.total >= MaxPending)
    <2>1. o.t = u /\ o.event.kind = "request" /\ o.event.request = r
      BY <1>5 DEF DnsQuery, Outcome
    <2>2. r \in RequestSet /\ r.flow = m.flow /\ r.id = m.id /\ r.sent = ts /\ r.id # Hole
      BY NewRequestTyped, FrameTyped
    <2>3. \A q \in t.dns : ~(q.flow = m.flow /\ q.id = m.id)
      BY <1>5 DEF PendingDns
    <2>. HIDE DEF r
    <2>4. DnsSound(t.dns \cup {r}) /\ r \notin t.dns
      BY <1>1, <2>2, <2>3, FS_AddElement DEF DnsSound
    <2>5. answered \subseteq t.answered
      OBVIOUS
    <2>. HIDE DEF answered
    <2>6. u \in Trackers /\ u.dns = t.dns \cup {r} /\ u.http = t.http /\ u.seq = t.seq /\ u.sweep = t.sweep /\ u.stats = t.stats
          /\ u.total = t.total + 1
      <3>1. t.dns \cup {r} \in SUBSET RequestSet /\ t.total + 1 \in Int
        BY <1>1, <2>2, TrackerTyped
      <3>2. answered \in SUBSET [flow : Flows, id : Nat \cup {Hole}, at : Nat]
        BY <1>1, <2>5, TrackerTyped
      <3>3. u.dns = t.dns \cup {r} /\ u.http = t.http /\ u.seq = t.seq /\ u.sweep = t.sweep /\ u.stats = t.stats
            /\ u.total = t.total + 1
        BY <1>1 DEF Trackers
      <3>. QED BY <1>1, <3>1, <3>2, <3>3 DEF Trackers
    <2>7. r \notin Queued(t.http)
      BY <1>1, <2>2, QueuedOf
    <2>. HIDE DEF u, o
    <2>8. Effect(t, o, r.sent)
      <3>1. DnsSound(u.dns) /\ HttpSound(u.http, u.seq) /\ r.sent \in Nat /\ r \notin t.dns \cup Queued(t.http)
        BY <1>1, <2>2, <2>4, <2>6, <2>7
      <3>2. t.total < MaxPending
        BY <1>1, <1>5
      <3>3. Queued(u.http) = Queued(t.http) /\ (Ordered(t.http) => Ordered(u.http))
        BY <2>6
      <3>. QED BY <2>1, <2>2, <2>6, <3>1, <3>2, <3>3, OneMore
    <2>. QED BY <2>2, <2>8 DEF o
  <1>. QED BY <1>2, <1>3, <1>4, <1>5

\* A request line joins the queue of its flow.
LEMMA HttpRequestDone ==
  ASSUME NEW t, TrackerSound(t), NEW m, IsFrame(m), m.l7 = "http", NEW ts \in Nat
  PROVE  Effect(t, HttpRequest(t, m, ts), ts)
  <1>. DEFINE o == HttpRequest(t, m, ts)
              r == NewRequest(m, ts, t.seq)
              f == m.flow
              h == [t.http EXCEPT ![f] = Append(t.http[f], r)]
              u == [t EXCEPT !.seq = t.seq + 1, !.http = h, !.total = t.total + 1]
  <1>1. t \in Trackers /\ t.total \in Int /\ DnsSound(t.dns) /\ HttpSound(t.http, t.seq) /\ MaxPending \in Nat /\ t.seq \in Nat
    BY TrackerTyped, TransactionsAssumption DEF TrackerSound
  <1>2. CASE t.total >= MaxPending \/ Len(t.http[m.flow]) >= MaxPipeline
    <2>1. o = Untracked(t, "http") /\ "http" \in Protocols
      BY <1>2 DEF HttpRequest, Protocols
    <2>. QED BY <2>1, UntrackedDone
  <1>3. CASE ~(t.total >= MaxPending \/ Len(t.http[m.flow]) >= MaxPipeline)
    <2>1. o.t = u /\ o.event.kind = "request" /\ o.event.request = r
      BY <1>1, <1>3 DEF HttpRequest, Outcome, Trackers
    <2>2. r \in RequestSet /\ r.flow = f /\ r.id = Hole /\ r.sent = ts /\ r.seq = t.seq /\ f \in Flows
      BY <1>1, NewRequestTyped, FrameTyped
    <2>. HIDE DEF r, f
    <2>3. HttpSound(h, t.seq + 1) /\ Queued(h) = Queued(t.http) \cup {r} /\ r \notin Queued(t.http)
      <3>1. t.http \in [Flows -> Seq(RequestSet)]
        BY <1>1 DEF HttpSound
      <3>2. Append(t.http[f], r) \in Seq(RequestSet)
        BY <2>2, <3>1
      <3>3. /\ h \in [Flows -> Seq(RequestSet)]
            /\ h[f] = Append(t.http[f], r) /\ \A g \in Flows : g # f => h[g] = t.http[g]
        BY <2>2, <3>1, <3>2
      <3>. DEFINE http == t.http
                  seq == t.seq
      <3>4. HttpSound(http, seq) /\ seq \in Nat /\ r.seq = seq
            /\ h[f] = Append(http[f], r) /\ \A g \in Flows : g # f => h[g] = http[g]
        BY <1>1, <2>2, <3>3
      <3>. HIDE DEF h, http, seq
      <3>5. HttpSound(h, seq + 1) /\ Queued(h) = Queued(http) \cup {r} /\ r \notin Queued(http)
        BY <2>2, <3>3, <3>4, QueueAppend
      <3>. QED BY <3>5 DEF http, seq
    <2>4. h \in [Flows -> Seq(RequestSet)]
      BY <2>3 DEF HttpSound
    <2>5. Ordered(t.http) /\ (\A q \in PendingRequests(t) : q.sent <= ts) => Ordered(h)
      <3>. SUFFICES ASSUME Ordered(t.http), \A q \in PendingRequests(t) : q.sent <= ts,
                           NEW g \in Flows, NEW i \in 1..Len(h[g]), NEW j \in 1..Len(h[g]), i < j
                    PROVE  h[g][i].sent <= h[g][j].sent
        BY DEF Ordered
      <3>. DEFINE p == t.http[g]
      <3>1. p \in Seq(RequestSet) /\ Len(p) \in Nat
        BY <1>1 DEF HttpSound
      <3>2. CASE g # f
        <4>1. h[g] = p
          BY <1>1, <3>2 DEF HttpSound
        <4>. QED BY <4>1 DEF Ordered
      <3>3. CASE g = f
        <4>1. h[g] = Append(p, r)
          BY <1>1, <2>2, <3>3 DEF HttpSound
        <4>. HIDE DEF p, h
        <4>2. Len(h[g]) = Len(p) + 1 /\ h[g][Len(p) + 1] = r /\ \A k \in 1..Len(p) : h[g][k] = p[k]
          BY <2>2, <3>1, <4>1
        <4>3. i \in 1..Len(p) /\ h[g][i] = p[i]
          BY <3>1, <4>2
        <4>4. CASE j \in 1..Len(p)
          <5>1. p[i].sent <= p[j].sent
            BY <4>3, <4>4 DEF Ordered, p
          <5>. QED BY <4>2, <4>3, <4>4, <5>1
        <4>5. CASE j = Len(p) + 1
          <5>1. p[i] \in PendingRequests(t)
            BY <4>3, QueuedIs, PendingIs DEF p
          <5>. QED BY <2>2, <4>2, <4>3, <4>5, <5>1
        <4>. QED BY <3>1, <4>2, <4>4, <4>5
      <3>. QED BY <3>2, <3>3
    <2>. HIDE DEF h
    <2>6. u \in Trackers /\ u.dns = t.dns /\ u.http = h /\ u.seq = t.seq + 1 /\ u.sweep = t.sweep /\ u.stats = t.stats
          /\ u.total = t.total + 1
      <3>1. t.seq + 1 \in Nat /\ t.total + 1 \in Int
        BY <1>1
      <3>2. u.dns = t.dns /\ u.http = h /\ u.seq = t.seq + 1 /\ u.sweep = t.sweep /\ u.stats = t.stats
            /\ u.total = t.total + 1
        BY <1>1 DEF Trackers
      <3>. QED BY <1>1, <2>4, <3>1, <3>2 DEF Trackers
    <2>7. r \notin t.dns
      BY <1>1, <2>2 DEF DnsSound
    <2>. HIDE DEF u, o
    <2>8. Effect(t, o, r.sent)
      <3>1. DnsSound(u.dns) /\ HttpSound(u.http, u.seq) /\ r.sent \in Nat /\ r \notin t.dns \cup Queued(t.http)
        BY <1>1, <2>2, <2>3, <2>6, <2>7
      <3>2. t.total < MaxPending
        BY <1>1, <1>3
      <3>3. Queued(u.http) = Queued(t.http) \cup {r}
            /\ (Ordered(t.http) /\ (\A q \in PendingRequests(t) : q.sent <= r.sent) => Ordered(u.http))
        BY <2>2, <2>3, <2>5, <2>6
      <3>. QED BY <2>1, <2>2, <2>6, <3>1, <3>2, <3>3, OneMore
    <2>. QED BY <2>2, <2>8 DEF o
  <1>. QED BY <1>2, <1>3

\* The statistics after an answer.
LEMMA StatsAnswered ==
  ASSUME NEW stats \in [Protocols -> StatsSet], \A p \in Protocols : Between(stats[p]), NEW p \in Protocols,
         NEW time \in Nat, NEW new, DOMAIN new = Protocols,
         \A q \in Protocols : new[q] = IF q = p THEN StatsRecorded(stats[p], time) ELSE stats[q]
  PROVE  /\ \A q \in Protocols : new[q] \in StatsSet
         /\ \A q \in Protocols : Between(new[q])
         /\ new["dns"]["answered"] + new["http"]["answered"] = stats["dns"]["answered"] + stats["http"]["answered"] + 1
         /\ new["dns"]["unanswered"] + new["http"]["unanswered"] = stats["dns"]["unanswered"] + stats["http"]["unanswered"]
  <1>. DEFINE s == stats[p]
              r == StatsRecorded(s, time)
  <1>1. s \in StatsSet /\ Between(s)
    OBVIOUS
  <1>. HIDE DEF s
  <1>2. r \in StatsSet /\ Between(r) /\ r.answered = s.answered + 1 /\ r.unanswered = s.unanswered
    BY <1>1, RecordedBetween
  <1>. HIDE DEF r
  <1>3. \A q \in Protocols : new[q] = IF q = p THEN r ELSE stats[q]
    BY <1>2 DEF r, s
  <1>4. \A q \in Protocols : stats[q].answered \in Nat /\ stats[q].unanswered \in Nat
    BY DEF StatsSet
  <1>5. "dns" \in Protocols /\ "http" \in Protocols /\ p \in {"dns", "http"}
    BY DEF Protocols
  <1>6. CASE p = "dns"
    BY <1>2, <1>3, <1>4, <1>5, <1>6 DEF s
  <1>7. CASE p = "http"
    BY <1>2, <1>3, <1>4, <1>5, <1>7 DEF s
  <1>8. ASSUME NEW q \in Protocols PROVE new[q] \in StatsSet /\ Between(new[q])
    BY <1>2, <1>3
  <1>. QED BY <1>6, <1>7, <1>5, <1>8

\* One request less.
LEMMA OneLess ==
  ASSUME NEW t, TrackerSound(t), NEW u, DOMAIN u = DOMAIN t, u = [k \in DOMAIN t |-> u[k]],
         u.dns \subseteq t.dns, u.http \in [Flows -> Seq(RequestSet)], u.seq = t.seq,
         u.answered \in SUBSET [flow : Flows, id : Nat \cup {Hole}, at : Nat],
         u.sweep = t.sweep, u.total = t.total - 1, HttpSound(u.http, u.seq),
         NEW p \in Protocols, NEW time \in Nat, u.stats = [t.stats EXCEPT ![p] = StatsRecorded(t.stats[p], time)],
         NEW r \in t.dns \cup Queued(t.http), u.dns \cup Queued(u.http) = (t.dns \cup Queued(t.http)) \ {r},
         Queued(u.http) \subseteq Queued(t.http),
         Ordered(t.http) => Ordered(u.http),
         NEW o, o.t = u, o.event.kind = "answered", NEW ts
  PROVE  Effect(t, o, ts)
  <1>1. t.seq \in Nat /\ t.total \in Int /\ t.stats \in [Protocols -> StatsSet] /\ t \in Trackers /\ \A q \in Protocols : Between(t.stats[q])
    BY TrackerTyped DEF TrackerSound
  <1>. DEFINE new == u.stats
              stats == t.stats
  <1>2. /\ stats \in [Protocols -> StatsSet] /\ DOMAIN new = Protocols /\ new = [q \in Protocols |-> new[q]]
        /\ \A q \in Protocols : new[q] = IF q = p THEN StatsRecorded(stats[p], time) ELSE stats[q]
        /\ \A q \in Protocols : Between(stats[q])
    BY <1>1
  <1>. HIDE DEF new, stats
  <1>3. /\ new \in [Protocols -> StatsSet] /\ \A q \in Protocols : Between(new[q])
        /\ new["dns"]["answered"] + new["http"]["answered"] = stats["dns"]["answered"] + stats["http"]["answered"] + 1
        /\ new["dns"]["unanswered"] + new["http"]["unanswered"] = stats["dns"]["unanswered"] + stats["http"]["unanswered"]
    <2>1. /\ \A q \in Protocols : new[q] \in StatsSet
          /\ \A q \in Protocols : Between(new[q])
          /\ new["dns"]["answered"] + new["http"]["answered"] = stats["dns"]["answered"] + stats["http"]["answered"] + 1
          /\ new["dns"]["unanswered"] + new["http"]["unanswered"] = stats["dns"]["unanswered"] + stats["http"]["unanswered"]
      BY <1>2, StatsAnswered
    <2>. QED BY <1>2, <2>1
  <1>4. /\ SumOf(u, "answered") = SumOf(t, "answered") + 1 /\ SumOf(u, "unanswered") = SumOf(t, "unanswered")
    BY <1>3 DEF SumOf, new, stats
  <1>5. PendingRequests(t) = t.dns \cup Queued(t.http) /\ PendingRequests(u) = u.dns \cup Queued(u.http)
    BY PendingIs
  <1>6. PendingRequests(u) = PendingRequests(t) \ {r} /\ r \in PendingRequests(t)
    BY <1>5
  <1>7. IsFiniteSet(PendingRequests(t)) /\ IsFiniteSet(Queued(t.http)) /\ DnsSound(t.dns)
    <2>1. IsFiniteSet(Queued(t.http)) /\ DnsSound(t.dns) /\ HttpSound(t.http, t.seq)
      BY DEF TrackerSound
    <2>. QED BY <1>1, <1>5, <2>1, PendingApart
  <1>8. IsFiniteSet(Queued(u.http))
    BY <1>7, FS_Subset
  <1>9. DnsSound(u.dns)
    BY <1>7, FS_Subset DEF DnsSound
  <1>10. Cardinality(PendingRequests(u)) = Cardinality(PendingRequests(t)) - 1
    BY <1>6, <1>7, FS_RemoveElement
  <1>11. u \in Trackers
    <2>1. t.dns \in SUBSET RequestSet /\ t.sweep \in Nat \cup {Hole}
          /\ DOMAIN t = {"dns", "http", "answered", "total", "seq", "sweep", "stats"}
      BY <1>1, TrackerTyped DEF Trackers
    <2>2. u.dns \in SUBSET RequestSet /\ u.http \in [Flows -> Seq(RequestSet)] /\ u.total \in Int /\ u.seq \in Nat
          /\ u.sweep \in Nat \cup {Hole} /\ u.stats \in [Protocols -> StatsSet]
          /\ u.answered \in SUBSET [flow : Flows, id : Nat \cup {Hole}, at : Nat]
      BY <1>1, <1>3, <2>1 DEF new
    <2>3. u = [dns |-> u.dns, http |-> u.http, answered |-> u.answered, total |-> u.total, seq |-> u.seq,
               sweep |-> u.sweep, stats |-> u.stats]
      BY <2>1
    <2>. QED BY <2>2, <2>3 DEF Trackers
  <1>12. TrackerSound(u)
    BY <1>3, <1>8, <1>9, <1>10, <1>11 DEF TrackerSound, new
  <1>13. \A q \in PendingRequests(u) : q \in PendingRequests(t) \/ q.sent = ts
    BY <1>6
  <1>. QED BY <1>1, <1>4, <1>12, <1>13 DEF Effect

\* A DNS response ends the request it answers, and no other.
LEMMA DnsResponseDone ==
  ASSUME NEW t, TrackerSound(t), NEW m, IsFrame(m), m.l7 = "response", NEW ts \in Nat
  PROVE  Effect(t, DnsResponse(t, m, ts), ts)
  <1>. DEFINE o == DnsResponse(t, m, ts)
              matches == {r \in PendingDns(t, m) : r.out # m.out /\ r.name = m.name}
              r == CHOOSE r \in matches : TRUE
              told == [flow |-> m.flow, id |-> m.id, at |-> ts]
              open == {a \in t.answered : a.flow = m.flow /\ a.id = m.id}
              answered == IF Cardinality(t.answered) < MaxPending THEN (t.answered \ open) \cup {told} ELSE t.answered
              time == SatSub(ts, r.sent)
              stats == [t.stats EXCEPT !["dns"] = StatsRecorded(t.stats["dns"], time)]
              u == [t EXCEPT !.dns = t.dns \ {r}, !.answered = answered, !.total = t.total - 1, !.stats = stats]
  <1>1. t \in Trackers /\ t.total \in Int /\ DnsSound(t.dns) /\ HttpSound(t.http, t.seq) /\ t.seq \in Nat
    BY TrackerTyped DEF TrackerSound
  <1>2. CASE ~IsDnsService(m.flow, ~m.out)
    <2>1. o.t = t /\ o.event.kind = "none"
      BY <1>2 DEF DnsResponse, Nothing, NoEvent
    <2>. QED BY <2>1, NothingDone
  <1>3. CASE IsDnsService(m.flow, ~m.out) /\ matches = {}
    <2>1. o.t = t /\ o.event.kind \in {"duplicate", "unmatched"}
      BY <1>3 DEF DnsResponse, Outcome
    <2>. QED BY <2>1, NothingDone
  <1>4. CASE IsDnsService(m.flow, ~m.out) /\ matches # {}
    <2>1. o = Answered([t EXCEPT !.dns = t.dns \ {r}, !.answered = answered], "dns", r, ts)
      BY <1>4 DEF DnsResponse
    <2>2. r \in t.dns /\ r \in RequestSet
      <3>1. r \in matches
        BY <1>4
      <3>. QED BY <1>1, <3>1 DEF PendingDns, DnsSound
    <2>. HIDE DEF r, o
    <2>3. o.t = u /\ o.event.kind = "answered"
      <3>. HIDE DEF answered
      <3>. QED BY <1>1, <2>1 DEF Answered, Outcome, Trackers
    <2>4. answered \in SUBSET [flow : Flows, id : Nat \cup {Hole}, at : Nat]
      <3>1. told \in [flow : Flows, id : Nat \cup {Hole}, at : Nat]
        BY FrameTyped
      <3>2. t.answered \in SUBSET [flow : Flows, id : Nat \cup {Hole}, at : Nat]
        BY <1>1, TrackerTyped
      <3>. HIDE DEF told
      <3>. QED BY <3>1, <3>2
    <2>5. time \in Nat
      <3>1. r.sent \in Nat
        BY <2>2 DEF RequestSet
      <3>. QED BY <3>1 DEF SatSub
    <2>. HIDE DEF answered, time, stats
    <2>6. u.dns = t.dns \ {r} /\ u.http = t.http /\ u.seq = t.seq /\ u.sweep = t.sweep /\ u.stats = stats
          /\ u.total = t.total - 1 /\ u.answered = answered /\ DOMAIN u = DOMAIN t /\ u = [k \in DOMAIN t |-> u[k]]
      BY <1>1 DEF Trackers
    <2>7. r \notin Queued(t.http) /\ t.http \in [Flows -> Seq(RequestSet)]
      BY <1>1, <2>2, QueuedOf DEF DnsSound, HttpSound
    <2>. HIDE DEF u
    <2>8. /\ u.dns \subseteq t.dns /\ r \in t.dns \cup Queued(t.http) /\ u.dns \cup Queued(u.http) = (t.dns \cup Queued(t.http)) \ {r}
          /\ HttpSound(u.http, u.seq) /\ Queued(u.http) \subseteq Queued(t.http) /\ (Ordered(t.http) => Ordered(u.http))
      BY <1>1, <2>2, <2>6, <2>7
    <2>9. u.stats = [t.stats EXCEPT !["dns"] = StatsRecorded(t.stats["dns"], time)] /\ "dns" \in Protocols
      BY <2>6 DEF stats, Protocols
    <2>10. Effect(t, o, ts)
      BY <2>3, <2>4, <2>5, <2>6, <2>7, <2>8, <2>9, OneLess
    <2>. QED BY <2>10 DEF o
  <1>. QED BY <1>2, <1>3, <1>4

\* A response ends the oldest request of its flow.
LEMMA HttpResponseDone ==
  ASSUME NEW t, TrackerSound(t), NEW m, IsFrame(m), NEW ts \in Nat
  PROVE  Effect(t, HttpResponse(t, m, ts), ts)
  <1>. DEFINE o == HttpResponse(t, m, ts)
              f == m.flow
              http == t.http
              seq == t.seq
              queue == http[f]
              cut == [g \in Flows |-> IF g = f THEN 1 ELSE 0]
              h == [http EXCEPT ![f] = Tail(queue)]
              r == queue[1]
              time == SatSub(ts, r.sent)
              stats == [t.stats EXCEPT !["http"] = StatsRecorded(t.stats["http"], time)]
              u == [t EXCEPT !.http = h, !.total = t.total - 1, !.stats = stats]
  <1>1. t \in Trackers /\ t.total \in Int /\ DnsSound(t.dns) /\ HttpSound(http, seq) /\ seq \in Nat
        /\ http \in [Flows -> Seq(RequestSet)] /\ f \in Flows /\ queue \in Seq(RequestSet)
    BY TrackerTyped, FrameTyped DEF TrackerSound
  <1>2. CASE queue = <<>> \/ queue[1].out = m.out
    <2>1. o.t = t /\ o.event.kind = "unmatched"
      BY <1>2 DEF HttpResponse, Outcome
    <2>. QED BY <2>1, NothingDone
  <1>3. CASE ~(queue = <<>> \/ queue[1].out = m.out) /\ m.status = "interim"
    <2>1. o.t = t /\ o.event.kind = "informational"
      BY <1>3 DEF HttpResponse, Outcome
    <2>. QED BY <2>1, NothingDone
  <1>4. CASE ~(queue = <<>> \/ queue[1].out = m.out) /\ m.status # "interim"
    <2>1. o = Answered([t EXCEPT !.http = h], "http", r, ts)
      BY <1>1, <1>4 DEF HttpResponse, Trackers
    <2>. HIDE DEF o
    <2>2. Len(queue) \in Nat /\ Len(queue) >= 1 /\ r \in RequestSet
      <3>. HIDE DEF queue
      <3>. QED BY <1>1, <1>4
    <2>3. cut \in [Flows -> Nat] /\ \A g \in Flows : cut[g] <= Len(http[g])
      BY <1>1, <2>2
    <2>4. h = CutQueues(http, cut)
      <3>1. ASSUME NEW g \in Flows PROVE h[g] = SubSeq(http[g], cut[g] + 1, Len(http[g]))
        <4>. DEFINE p == http[g]
        <4>1. p \in Seq(RequestSet) /\ Len(p) \in Nat
          BY <1>1
        <4>2. CASE g = f
          <5>1. h[g] = Tail(p) /\ cut[g] = 1 /\ p # <<>>
            BY <1>1, <1>4, <4>2
          <5>. HIDE DEF p, h, cut
          <5>2. Tail(p) = SubSeq(p, 2, Len(p))
            BY <4>1, <5>1
          <5>. QED BY <5>1, <5>2 DEF p
        <4>3. CASE g # f
          <5>1. h[g] = p /\ cut[g] = 0
            BY <1>1, <4>3
          <5>. HIDE DEF p, h, cut
          <5>2. p = SubSeq(p, 1, Len(p))
            BY <4>1
          <5>. QED BY <5>1, <5>2 DEF p
        <4>. QED BY <4>2, <4>3
      <3>2. h = [g \in Flows |-> h[g]]
        BY <1>1
      <3>. HIDE DEF h, cut
      <3>. QED BY <3>1, <3>2 DEF CutQueues
    <2>5. CutRequests(http, cut) = {r}
      <3>1. ASSUME NEW x \in CutRequests(http, cut) PROVE x = r
        <4>1. PICK g \in Flows : \E i \in 1..cut[g] : x = http[g][i]
          BY <3>1 DEF CutRequests
        <4>. QED BY <4>1
      <3>2. r \in CutRequests(http, cut)
        <4>1. 1 \in 1..cut[f] /\ r = http[f][1]
          BY <1>1
        <4>. HIDE DEF r, cut
        <4>. QED BY <1>1, <4>1 DEF CutRequests
      <3>. QED BY <3>1, <3>2
    <2>. HIDE DEF cut, h, r, http, seq, f, queue
    <2>6. /\ HttpSound(h, seq) /\ Queued(h) = Queued(http) \ {r} /\ r \in Queued(http)
          /\ \A g \in Flows : /\ Len(h[g]) = Len(http[g]) - cut[g]
                              /\ \A i \in 1..Len(http[g]) - cut[g] : h[g][i] = http[g][cut[g] + i]
      <3>. DEFINE c == CutQueues(http, cut)
                  gone == CutRequests(http, cut)
      <3>1. /\ HttpSound(c, seq) /\ Queued(c) = Queued(http) \ gone /\ gone \subseteq Queued(http)
            /\ \A g \in Flows : /\ Len(c[g]) = Len(http[g]) - cut[g]
                                /\ \A i \in 1..Len(http[g]) - cut[g] : c[g][i] = http[g][cut[g] + i]
        <4>1. seq \in Nat /\ HttpSound(http, seq)
          BY <1>1
        <4>. QED BY ONLY <2>3, <4>1, QueueCut
      <3>2. h = c /\ gone = {r}
        BY <2>4, <2>5
      <3>. HIDE DEF c, gone
      <3>. QED BY <3>1, <3>2
    <2>7. Ordered(http) => Ordered(h)
      <3>. SUFFICES ASSUME Ordered(http), NEW g \in Flows, NEW i \in 1..Len(h[g]), NEW j \in 1..Len(h[g]), i < j
                    PROVE  h[g][i].sent <= h[g][j].sent
        BY DEF Ordered
      <3>1. cut[g] \in Nat /\ Len(http[g]) \in Nat /\ i \in 1..Len(http[g]) - cut[g] /\ j \in 1..Len(http[g]) - cut[g]
        BY <1>1, <2>3, <2>6
      <3>2. cut[g] + i \in 1..Len(http[g]) /\ cut[g] + j \in 1..Len(http[g]) /\ cut[g] + i < cut[g] + j
        BY <3>1
      <3>3. http[g][cut[g] + i].sent <= http[g][cut[g] + j].sent
        BY <3>2 DEF Ordered
      <3>. QED BY <2>6, <3>1, <3>3
    <2>8. time \in Nat
      <3>1. r.sent \in Nat
        BY <2>2 DEF RequestSet
      <3>. QED BY <3>1 DEF SatSub
    <2>9. o.t = u /\ o.event.kind = "answered"
      BY <1>1, <2>1 DEF Answered, Outcome, Trackers
    <2>. HIDE DEF time, stats
    <2>10. u.dns = t.dns /\ u.http = h /\ u.seq = t.seq /\ u.sweep = t.sweep /\ u.stats = stats
          /\ u.total = t.total - 1 /\ u.answered = t.answered /\ DOMAIN u = DOMAIN t /\ u = [k \in DOMAIN t |-> u[k]]
      BY <1>1 DEF Trackers
    <2>11. r \notin t.dns /\ h \in [Flows -> Seq(RequestSet)]
      BY <1>1, <2>6, QueuedOf DEF DnsSound, HttpSound
    <2>. HIDE DEF u
    <2>12. /\ u.dns \subseteq t.dns /\ r \in t.dns \cup Queued(t.http) /\ u.dns \cup Queued(u.http) = (t.dns \cup Queued(t.http)) \ {r}
          /\ HttpSound(u.http, u.seq) /\ Queued(u.http) \subseteq Queued(t.http) /\ (Ordered(t.http) => Ordered(u.http))
          /\ u.http \in [Flows -> Seq(RequestSet)]
      BY <1>1, <2>6, <2>7, <2>10, <2>11 DEF http, seq
    <2>13. u.stats = [t.stats EXCEPT !["http"] = StatsRecorded(t.stats["http"], time)] /\ "http" \in Protocols
           /\ u.answered \in SUBSET [flow : Flows, id : Nat \cup {Hole}, at : Nat]
      BY <1>1, <2>10, TrackerTyped DEF stats, Protocols
    <2>14. Effect(t, o, ts)
      BY <2>8, <2>9, <2>10, <2>12, <2>13, OneLess
    <2>. QED BY <2>14 DEF o
  <1>. QED BY <1>2, <1>3, <1>4

\* What is not a message of either protocol is nothing to the tracker.
LEMMA ObservedDone ==
  ASSUME NEW t, TrackerSound(t), NEW m, IsFrame(m) \/ m.l7 = "none", NEW ts \in Nat, NEW again \in BOOLEAN
  PROVE  Effect(t, TrackerObserved(t, m, ts, again), ts)
  <1>. DEFINE o == TrackerObserved(t, m, ts, again)
  <1>1. CASE again \/ m.l7 \notin {"query", "response", "http", "reply"}
    <2>1. o = Nothing(t)
      BY <1>1 DEF TrackerObserved
    <2>2. o.t = t /\ o.event.kind = "none"
      BY <2>1 DEF Nothing, NoEvent
    <2>. QED BY <2>2, NothingDone
  <1>2. CASE ~again /\ m.l7 = "query"
    <2>1. o = DnsQuery(t, m, ts)
      BY <1>2 DEF TrackerObserved
    <2>. QED BY <1>2, <2>1, DnsQueryDone
  <1>3. CASE ~again /\ m.l7 = "response"
    <2>1. o = DnsResponse(t, m, ts)
      BY <1>3 DEF TrackerObserved
    <2>. QED BY <1>3, <2>1, DnsResponseDone
  <1>4. CASE ~again /\ m.l7 = "http"
    <2>1. o = HttpRequest(t, m, ts)
      BY <1>4 DEF TrackerObserved
    <2>. QED BY <1>4, <2>1, HttpRequestDone
  <1>5. CASE ~again /\ m.l7 = "reply"
    <2>1. o = HttpResponse(t, m, ts)
      BY <1>5 DEF TrackerObserved
    <2>. QED BY <1>5, <2>1, HttpResponseDone
  <1>. QED BY <1>1, <1>2, <1>3, <1>4, <1>5

\* What is overdue in a queue is a prefix of it.
LEMMA PrefixIs ==
  ASSUME NEW queue \in Seq(RequestSet), NEW now \in Nat
  PROVE  LET n == OverduePrefix(queue, now)
         IN /\ n \in 0..Len(queue) /\ \A i \in 1..n : Overdue(queue[i], now, HttpTimeout)
            /\ n < Len(queue) => ~Overdue(queue[n + 1], now, HttpTimeout)
  <1>. DEFINE S == {k \in 0..Len(queue) : \A i \in 1..k : Overdue(queue[i], now, HttpTimeout)}
              n == OverduePrefix(queue, now)
  <1>1. Len(queue) \in Nat /\ 0 \in S /\ S \in SUBSET (0..Len(queue)) /\ n = Max(S)
    BY DEF OverduePrefix
  <1>2. n \in S /\ \A y \in S : n >= y
    <2>. HIDE DEF S, n
    <2>. QED BY <1>1, MaxExists
  <1>3. ASSUME n < Len(queue), Overdue(queue[n + 1], now, HttpTimeout) PROVE FALSE
    <2>. HIDE DEF n
    <2>1. n + 1 \in 0..Len(queue) /\ \A i \in 1..(n + 1) : i \in 1..n \/ i = n + 1
      BY <1>1, <1>2, <1>3
    <2>2. n + 1 \in S
      BY <1>2, <1>3, <2>1
    <2>. HIDE DEF S
    <2>. QED BY <1>1, <1>2, <2>2
  <1>. QED BY <1>2, <1>3

\* What a sweep at now does to the tracker.
Sweeps(t, s, now) ==
  LET u == s.t
  IN /\ TrackerSound(u) /\ Cardinality(s.gone) \in Nat /\ u.total = t.total - Cardinality(s.gone)
     /\ SumOf(u, "answered") = SumOf(t, "answered")
     /\ SumOf(u, "unanswered") = SumOf(t, "unanswered") + Cardinality(s.gone)
     /\ PendingRequests(u) \subseteq PendingRequests(t)
     /\ Ordered(t.http) => Ordered(u.http)
     /\ \/ u.sweep = t.sweep /\ t.sweep # Hole /\ SatSub(now, t.sweep) < SweepInterval
        \/ /\ u.sweep = now
           /\ Ordered(t.http) => \A r \in PendingRequests(u) : SatSub(now, r.sent) < TimeoutOf(r)

\* saturating_sub
LEMMA SatSubIs ==
  ASSUME NEW a \in Nat, NEW b \in Nat
  PROVE  SatSub(a, b) \in Nat /\ (a >= b => SatSub(a, b) = a - b) /\ (a < b => SatSub(a, b) = 0)
  BY DEF SatSub

\* A sweep ends what is overdue and leaves the rest.
LEMMA ExpiredDone ==
  ASSUME NEW t, TrackerSound(t), NEW now \in Nat
  PROVE  Sweeps(t, Expired(t, now), now)
  <1>. DEFINE s == Expired(t, now)
              tdns == t.dns
              http == t.http
              seq == t.seq
              dns == {r \in tdns : Overdue(r, now, DnsTimeout)}
              cut == [f \in Flows |-> OverduePrefix(http[f], now)]
              late == UNION {{http[f][i] : i \in 1..OverduePrefix(http[f], now)} : f \in Flows}
              h == [f \in Flows |-> SubSeq(http[f], OverduePrefix(http[f], now) + 1, Len(http[f]))]
              answered == {a \in t.answered : SatSub(now, a.at) < DnsTimeout}
              a == Cardinality(dns)
              b == Cardinality(late)
              stats == t.stats
              new == [p \in Protocols |-> [stats[p] EXCEPT !.unanswered = @ + Cardinality(IF p = "dns" THEN dns ELSE late)]]
              u == [t EXCEPT !.sweep = now, !.dns = tdns \ dns, !.http = h, !.answered = answered,
                             !.total = t.total - (a + b), !.stats = new]
  <1>1. t \in Trackers /\ t.total \in Int /\ DnsSound(tdns) /\ HttpSound(http, seq) /\ seq \in Nat
        /\ http \in [Flows -> Seq(RequestSet)] /\ tdns \in SUBSET RequestSet /\ stats \in [Protocols -> StatsSet]
        /\ t.answered \in SUBSET [flow : Flows, id : Nat \cup {Hole}, at : Nat]
        /\ IsFiniteSet(Queued(http)) /\ \A p \in Protocols : Between(stats[p])
    BY TrackerTyped DEF TrackerSound
  <1>2. CASE t.sweep # Hole /\ SatSub(now, t.sweep) < SweepInterval
    <2>1. s.t = t /\ s.gone = {}
      BY <1>2 DEF Expired
    <2>2. Cardinality(s.gone) = 0
      BY <2>1, FS_EmptySet
    <2>3. stats["dns"]["unanswered"] \in Nat /\ stats["http"]["unanswered"] \in Nat
      <3>1. stats["dns"] \in StatsSet /\ stats["http"] \in StatsSet
        BY <1>1 DEF Protocols
      <3>. QED BY <3>1 DEF StatsSet
    <2>. HIDE DEF s
    <2>4. Sweeps(t, s, now)
      BY <1>1, <1>2, <2>1, <2>2, <2>3 DEF Sweeps, SumOf
    <2>. QED BY <2>4 DEF s
  <1>3. CASE ~(t.sweep # Hole /\ SatSub(now, t.sweep) < SweepInterval)
    <2>1. s.t = u /\ s.gone = dns \cup late
      <3>1. s = [t |-> u, gone |-> dns \cup late]
        BY <1>3 DEF Expired
      <3>. HIDE DEF s, u
      <3>. QED BY <3>1
    <2>2. ASSUME NEW f \in Flows
          PROVE  /\ http[f] \in Seq(RequestSet) /\ cut[f] \in 0..Len(http[f]) /\ Len(http[f]) \in Nat
                 /\ cut[f] < Len(http[f]) => ~Overdue(http[f][cut[f] + 1], now, HttpTimeout)
      <3>. DEFINE q == http[f]
      <3>1. q \in Seq(RequestSet) /\ Len(q) \in Nat /\ cut[f] = OverduePrefix(q, now)
        BY <1>1
      <3>. HIDE DEF q, cut
      <3>2. cut[f] \in 0..Len(q) /\ (cut[f] < Len(q) => ~Overdue(q[cut[f] + 1], now, HttpTimeout))
        BY <3>1, PrefixIs
      <3>. QED BY <3>1, <3>2 DEF q
    <2>. HIDE DEF s
    <2>22. late = CutRequests(http, cut) /\ h = CutQueues(http, cut)
      <3>1. \A f \in Flows : cut[f] = OverduePrefix(http[f], now)
        OBVIOUS
      <3>. HIDE DEF cut, http
      <3>2. late = CutRequests(http, cut)
        <4>1. ASSUME NEW x \in late PROVE x \in CutRequests(http, cut)
          BY <3>1 DEF CutRequests
        <4>2. ASSUME NEW x \in CutRequests(http, cut) PROVE x \in late
          BY <3>1 DEF CutRequests
        <4>. QED BY <4>1, <4>2
      <3>3. h = CutQueues(http, cut)
        BY <3>1 DEF CutQueues
      <3>. QED BY <3>2, <3>3
    <2>. HIDE DEF late, h
    <2>3. cut \in [Flows -> Nat] /\ \A f \in Flows : cut[f] <= Len(http[f])
      <3>1. DOMAIN cut = Flows /\ cut = [f \in Flows |-> cut[f]]
        OBVIOUS
      <3>. HIDE DEF cut
      <3>. QED BY <2>2, <3>1
    <2>. HIDE DEF cut, http, seq, tdns
    <2>4. /\ HttpSound(h, seq) /\ Queued(h) = Queued(http) \ late /\ late \subseteq Queued(http)
          /\ \A f \in Flows : /\ Len(h[f]) = Len(http[f]) - cut[f]
                              /\ \A i \in 1..Len(http[f]) - cut[f] : h[f][i] = http[f][cut[f] + i]
      BY <1>1, <2>3, <2>22, QueueCut
    <2>5. h \in [Flows -> Seq(RequestSet)]
      BY <2>4 DEF HttpSound
    <2>6. dns \subseteq tdns /\ DnsSound(tdns \ dns)
      BY <1>1, FS_Subset DEF DnsSound
    <2>. HIDE DEF late, h
    <2>7. ASSUME NEW r \in tdns \ dns PROVE SatSub(now, r.sent) < TimeoutOf(r)
      <3>1. r \in RequestSet /\ r.id # Hole /\ ~(SatSub(now, r.sent) >= DnsTimeout)
        BY <1>1 DEF DnsSound, Overdue
      <3>2. r.sent \in Nat /\ DnsTimeout \in Nat
        BY <3>1, TransactionsAssumption DEF RequestSet
      <3>3. SatSub(now, r.sent) < DnsTimeout
        BY <3>1, <3>2 DEF SatSub
      <3>. QED BY <3>1, <3>3 DEF TimeoutOf
    <2>. HIDE DEF dns
    <2>8. IsFiniteSet(tdns) /\ IsFiniteSet(dns) /\ IsFiniteSet(late) /\ a \in Nat /\ b \in Nat
      BY <1>1, <2>4, <2>6, FS_Subset, FS_CardinalityType DEF DnsSound
    <2>9. Cardinality(tdns \ dns) = Cardinality(tdns) - a
      BY <2>6, <2>8, FS_Difference
    <2>10. Cardinality(Queued(h)) = Cardinality(Queued(http)) - b /\ IsFiniteSet(Queued(h))
      <3>1. late \cap Queued(http) = late /\ Queued(http) \cap late = late
        BY <2>4
      <3>2. /\ IsFiniteSet(Queued(http) \ late)
            /\ Cardinality(Queued(http) \ late) = Cardinality(Queued(http)) - Cardinality(Queued(http) \cap late)
        BY <1>1, FS_Difference
      <3>. QED BY <2>4, <3>1, <3>2
    <2>11. dns \cap late = {} /\ Cardinality(dns \cup late) = a + b
      <3>1. tdns \cap Queued(http) = {}
        BY <1>1, PendingApart
      <3>2. dns \cap late = {}
        BY <2>4, <2>6, <3>1
      <3>3. Cardinality(dns \cup late) = a + b - Cardinality(dns \cap late)
        BY <2>8, FS_Union
      <3>4. Cardinality(dns \cap late) = 0
        BY <3>2, FS_EmptySet
      <3>. QED BY <2>8, <3>2, <3>3, <3>4
    <2>12. t.total = Cardinality(tdns) + Cardinality(Queued(http)) /\ Cardinality(tdns) \in Nat /\ Cardinality(Queued(http)) \in Nat
      BY TotalIs DEF tdns, http
    <2>. HIDE DEF a, b
    <2>13. answered \in SUBSET [flow : Flows, id : Nat \cup {Hole}, at : Nat]
      BY <1>1
    <2>. HIDE DEF answered, stats
    <2>14. /\ new \in [Protocols -> StatsSet] /\ \A q \in Protocols : Between(new[q])
           /\ new["dns"]["answered"] + new["http"]["answered"] = stats["dns"]["answered"] + stats["http"]["answered"]
           /\ new["dns"]["unanswered"] + new["http"]["unanswered"]
                = stats["dns"]["unanswered"] + stats["http"]["unanswered"] + (a + b)
      <3>0. \A p \in Protocols : Cardinality(IF p = "dns" THEN dns ELSE late) = IF p = "dns" THEN a ELSE b
        BY DEF a, b
      <3>9. \A p \in Protocols : new[p] = [stats[p] EXCEPT !.unanswered = stats[p].unanswered + (IF p = "dns" THEN a ELSE b)]
        BY <3>0
      <3>8. DOMAIN new = Protocols /\ new = [p \in Protocols |-> new[p]]
        OBVIOUS
      <3>. HIDE DEF new
      <3>1. ASSUME NEW p \in Protocols
            PROVE  /\ new[p] \in StatsSet /\ Between(new[p]) /\ new[p].answered = stats[p].answered
                   /\ new[p].unanswered = stats[p].unanswered + (IF p = "dns" THEN a ELSE b)
                   /\ stats[p].unanswered \in Nat
        <4>. DEFINE own == stats[p]
                    c == IF p = "dns" THEN a ELSE b
                    r == [own EXCEPT !.unanswered = own.unanswered + c]
        <4>1. own \in StatsSet /\ Between(own) /\ c \in Nat /\ new[p] = r
          BY <1>1, <2>8, <3>9
        <4>. HIDE DEF own, c
        <4>2. own.unanswered \in Nat /\ own.unanswered + c \in Nat
          BY <4>1 DEF StatsSet
        <4>3. r \in StatsSet /\ r.answered = own.answered /\ r.unanswered = own.unanswered + c /\ r.min = own.min /\ r.max = own.max
              /\ r.recent = own.recent
          BY <4>1, <4>2 DEF StatsSet
        <4>. HIDE DEF r
        <4>4. Between(r)
          BY <4>1, <4>3 DEF Between
        <4>. QED BY <4>1, <4>2, <4>3, <4>4 DEF own, c
      <3>2. DOMAIN new = Protocols /\ new = [p \in Protocols |-> new[p]] /\ "dns" \in Protocols /\ "http" \in Protocols
        BY <3>8 DEF Protocols
      <3>4. /\ new["dns"]["answered"] = stats["dns"]["answered"] /\ new["http"]["answered"] = stats["http"]["answered"]
            /\ new["dns"]["unanswered"] = stats["dns"]["unanswered"] + a /\ new["http"]["unanswered"] = stats["http"]["unanswered"] + b
            /\ stats["dns"]["unanswered"] \in Nat /\ stats["http"]["unanswered"] \in Nat
        BY <3>1, <3>2
      <3>5. new \in [Protocols -> StatsSet] /\ \A q \in Protocols : Between(new[q])
        BY <3>1, <3>2
      <3>6. new["dns"]["unanswered"] + new["http"]["unanswered"]
                = stats["dns"]["unanswered"] + stats["http"]["unanswered"] + (a + b)
        BY <2>8, <3>4
      <3>. QED BY <3>4, <3>5, <3>6
    <2>. HIDE DEF new
    <2>15. /\ u.sweep = now /\ u.dns = tdns \ dns /\ u.http = h /\ u.seq = seq /\ u.total = t.total - (a + b)
           /\ u.stats = new /\ u.answered = answered
      BY <1>1 DEF Trackers, seq
    <2>16. u \in Trackers
      <3>1. tdns \ dns \in SUBSET RequestSet /\ now \in Nat \cup {Hole} /\ t.total - (a + b) \in Int
        BY <1>1, <2>8
      <3>. QED BY <1>1, <2>5, <2>13, <2>14, <3>1 DEF Trackers
    <2>. HIDE DEF u
    <2>17. TrackerSound(u)
      <3>1. u.total = Cardinality(u.dns) + Cardinality(Queued(u.http))
        BY <2>8, <2>9, <2>10, <2>12, <2>15
      <3>. QED BY <2>4, <2>6, <2>10, <2>14, <2>15, <2>16, <3>1, SoundWith
    <2>18. PendingRequests(u) = (tdns \ dns) \cup Queued(h) /\ PendingRequests(t) = tdns \cup Queued(http)
      BY <2>15, PendingIs DEF tdns, http
    <2>19. Ordered(http) => Ordered(h)
      <3>. SUFFICES ASSUME Ordered(http), NEW g \in Flows, NEW i \in 1..Len(h[g]), NEW j \in 1..Len(h[g]), i < j
                    PROVE  h[g][i].sent <= h[g][j].sent
        BY DEF Ordered
      <3>1. cut[g] \in Nat /\ Len(http[g]) \in Nat /\ i \in 1..Len(http[g]) - cut[g] /\ j \in 1..Len(http[g]) - cut[g]
        BY <2>2, <2>3, <2>4
      <3>2. cut[g] + i \in 1..Len(http[g]) /\ cut[g] + j \in 1..Len(http[g]) /\ cut[g] + i < cut[g] + j
        BY <3>1
      <3>3. http[g][cut[g] + i].sent <= http[g][cut[g] + j].sent
        BY <3>2 DEF Ordered
      <3>. QED BY <2>4, <3>1, <3>3
    <2>20. ASSUME Ordered(http), NEW r \in Queued(h) PROVE SatSub(now, r.sent) < TimeoutOf(r)
      <3>1. PICK f \in Flows : \E i \in 1..Len(h[f]) : r = h[f][i]
        BY QueuedIs
      <3>2. PICK i \in 1..Len(h[f]) : r = h[f][i]
        BY <3>1
      <3>. DEFINE c == cut[f]
                  q == http[f]
      <3>3. c \in Nat /\ q \in Seq(RequestSet) /\ Len(q) \in Nat /\ i \in 1..Len(q) - c /\ r = q[c + i]
            /\ (c < Len(q) => ~Overdue(q[c + 1], now, HttpTimeout))
        BY <2>2, <2>3, <2>4, <3>2
      <3>4. c + 1 \in 1..Len(q) /\ c + i \in 1..Len(q) /\ c < Len(q) /\ (c + 1 < c + i \/ c + 1 = c + i)
        BY <3>3
      <3>5. q[c + 1].sent <= q[c + i].sent \/ q[c + 1] = q[c + i]
        BY <2>20, <3>4 DEF Ordered
      <3>. HIDE DEF c, q
      <3>6. q[c + 1] \in RequestSet /\ r \in RequestSet
        BY <3>3, <3>4
      <3>11. \A x \in RequestSet : x.sent \in Nat
        BY DEF RequestSet
      <3>7. q[c + 1].sent \in Nat /\ r.sent \in Nat /\ HttpTimeout \in Nat /\ q[c + 1].sent <= r.sent
        BY <3>3, <3>5, <3>6, <3>11, TransactionsAssumption
      <3>8. ~(SatSub(now, q[c + 1].sent) >= HttpTimeout)
        BY <3>3, <3>4 DEF Overdue
      <3>9. SatSub(now, r.sent) < HttpTimeout
        BY <3>7, <3>8 DEF SatSub
      <3>10. r.id = Hole
        BY <1>1, <2>4, QueuedOf
      <3>. QED BY <3>9, <3>10 DEF TimeoutOf
    <2>21. Sweeps(t, s, now)
      <3>1. s.t = u /\ Cardinality(s.gone) = a + b /\ a + b \in Nat /\ u.sweep = now /\ u.total = t.total - (a + b)
        BY <2>1, <2>8, <2>11, <2>15
      <3>2. SumOf(u, "answered") = SumOf(t, "answered") /\ SumOf(u, "unanswered") = SumOf(t, "unanswered") + (a + b)
        BY <2>14, <2>15 DEF SumOf, stats
      <3>3. PendingRequests(u) \subseteq PendingRequests(t)
        BY <2>4, <2>18
      <3>4. Ordered(t.http) => Ordered(u.http) /\ \A r \in PendingRequests(u) : SatSub(now, r.sent) < TimeoutOf(r)
        BY <2>7, <2>15, <2>18, <2>19, <2>20 DEF http
      <3>. QED BY <2>17, <3>1, <3>2, <3>3, <3>4 DEF Sweeps
    <2>. QED BY <2>21 DEF s
  <1>. QED BY <1>2, <1>3

\* attach_frame_id for one request
WithFrame(q, r, id) ==
  IF q.flow = r.flow /\ q.id = r.id /\ q.seq = r.seq THEN [q EXCEPT !.frame = id] ELSE q

\* The number of a frame changes nothing else of a request.
LEMMA WithFrameIs ==
  ASSUME NEW q \in RequestSet, NEW r, NEW id \in Nat
  PROVE  LET w == WithFrame(q, r, id)
         IN w \in RequestSet /\ w.flow = q.flow /\ w.id = q.id /\ w.seq = q.seq /\ w.sent = q.sent
  BY DEF WithFrame, RequestSet

\* Two requests of a queue that have the same number are one.
LEMMA QueuedKeys ==
  ASSUME NEW http, NEW seq \in Nat, HttpSound(http, seq), NEW x \in Queued(http), NEW y \in Queued(http),
         x.flow = y.flow, x.seq = y.seq
  PROVE  x = y
  <1>1. PICK f \in Flows : \E i \in 1..Len(http[f]) : x = http[f][i]
    BY QueuedIs
  <1>2. PICK i \in 1..Len(http[f]) : x = http[f][i]
    BY <1>1
  <1>3. PICK g \in Flows : \E j \in 1..Len(http[g]) : y = http[g][j]
    BY QueuedIs
  <1>4. PICK j \in 1..Len(http[g]) : y = http[g][j]
    BY <1>3
  <1>5. QueueSound(http[f], f, seq) /\ QueueSound(http[g], g, seq)
    BY DEF HttpSound
  <1>6. f = g
    BY <1>2, <1>4, <1>5 DEF QueueSound
  <1>7. x.seq \in Nat /\ Len(http[f]) \in Nat
    <2>1. x \in RequestSet /\ http[f] \in Seq(RequestSet)
      BY <1>5, QueuedOf DEF QueueSound
    <2>. QED BY <2>1 DEF RequestSet
  <1>8. ~(http[f][i].seq < http[f][j].seq) /\ ~(http[f][j].seq < http[f][i].seq)
    BY <1>2, <1>4, <1>6, <1>7
  <1>9. ~(i < j) /\ ~(j < i)
    BY <1>4, <1>5, <1>6, <1>8 DEF QueueSound
  <1>10. i = j
    BY <1>4, <1>6, <1>7, <1>9
  <1>. QED BY <1>2, <1>4, <1>6, <1>10

\* What attaching the number of the frame does to the tracker.
Attaches(t, u) ==
  /\ TrackerSound(u) /\ u.total = t.total /\ u.sweep = t.sweep /\ u.stats = t.stats
  /\ \A r \in PendingRequests(u) : \E q \in PendingRequests(t) : q.sent = r.sent /\ q.id = r.id
  /\ Ordered(t.http) => Ordered(u.http)

\* attach_frame_id renames one request, wherever it is pending.
LEMMA AttachedDone ==
  ASSUME NEW t, TrackerSound(t), NEW event, event.kind = "request" => event.request \in RequestSet, NEW id \in Nat
  PROVE  Attaches(t, FrameAttached(t, event, id))
  <1>. DEFINE r == event.request
              W(q) == WithFrame(q, r, id)
              f == r.flow
              http == t.http
              seq == t.seq
              tdns == t.dns
              dns == {W(q) : q \in tdns}
              queue == [i \in DOMAIN http[f] |-> W(http[f][i])]
              h == [http EXCEPT ![f] = queue]
              u == FrameAttached(t, event, id)
  <1>1. t \in Trackers /\ t.total \in Int /\ DnsSound(tdns) /\ HttpSound(http, seq) /\ seq \in Nat
        /\ http \in [Flows -> Seq(RequestSet)] /\ tdns \in SUBSET RequestSet
        /\ IsFiniteSet(Queued(http)) /\ \A p \in Protocols : Between(t.stats[p])
    BY TrackerTyped DEF TrackerSound
  <1>2. t.total = Cardinality(tdns) + Cardinality(Queued(http))
    BY TotalIs
  <1>3. CASE event.kind # "request"
    <2>1. u = t
      BY <1>3 DEF FrameAttached
    <2>. HIDE DEF u
    <2>2. Attaches(t, u)
      BY <2>1 DEF Attaches
    <2>. QED BY <2>2 DEF u
  <1>4. CASE event.kind = "request" /\ event.proto = "dns"
    <2>1. u = [t EXCEPT !.dns = dns]
      BY <1>4 DEF FrameAttached, WithFrame
    <2>2. ASSUME NEW q \in tdns
          PROVE  W(q) \in RequestSet /\ W(q).flow = q.flow /\ W(q).id = q.id /\ W(q).seq = q.seq /\ W(q).sent = q.sent
      BY <1>1, WithFrameIs
    <2>. HIDE DEF u, W
    <2>. DEFINE g == [q \in tdns |-> W(q)]
    <2>3. ASSUME NEW x \in tdns, NEW y \in tdns, g[x] = g[y] PROVE x = y
      BY <1>1, <2>2, <2>3 DEF DnsSound
    <2>4. (\A x \in tdns : g[x] \in dns) /\ \A y \in dns : \E x \in tdns : y = g[x]
      OBVIOUS
    <2>5. IsFiniteSet(tdns)
      BY <1>1 DEF DnsSound
    <2>6. IsFiniteSet(dns) /\ Cardinality(dns) = Cardinality(tdns)
      <3>. HIDE DEF g, dns
      <3>. QED BY <2>3, <2>4, <2>5, SameSize
    <2>7. DnsSound(dns)
      <3>1. ASSUME NEW x \in dns PROVE x \in RequestSet /\ x.id # Hole
        BY <1>1, <2>2 DEF DnsSound
      <3>2. ASSUME NEW x \in dns, NEW y \in dns, x.flow = y.flow, x.id = y.id PROVE x = y
        <4>1. PICK p \in tdns : x = W(p)
          OBVIOUS
        <4>2. PICK q \in tdns : y = W(q)
          OBVIOUS
        <4>3. p.flow = q.flow /\ p.id = q.id
          BY <2>2, <3>2, <4>1, <4>2
        <4>4. p = q
          BY <1>1, <4>3 DEF DnsSound
        <4>. QED BY <4>1, <4>2, <4>4
      <3>. HIDE DEF dns
      <3>. QED BY <2>6, <3>1, <3>2 DEF DnsSound
    <2>8. ASSUME NEW x \in dns PROVE \E q \in tdns : q.sent = x.sent /\ q.id = x.id
      BY <2>2
    <2>. HIDE DEF dns
    <2>9. u \in Trackers /\ u.dns = dns /\ u.http = http /\ u.seq = seq /\ u.total = t.total /\ u.sweep = t.sweep /\ u.stats = t.stats
      <3>1. dns \in SUBSET RequestSet
        BY <2>7 DEF DnsSound
      <3>2. u.dns = dns /\ u.http = http /\ u.seq = seq /\ u.total = t.total /\ u.sweep = t.sweep /\ u.stats = t.stats
        BY <1>1, <2>1 DEF Trackers
      <3>. QED BY <1>1, <2>1, <3>1, <3>2 DEF Trackers
    <2>. HIDE DEF tdns, http, seq
    <2>10. TrackerSound(u)
      <3>1. u.total = Cardinality(u.dns) + Cardinality(Queued(u.http))
        BY <1>2, <2>6, <2>9
      <3>. QED BY <1>1, <2>7, <2>9, <3>1, SoundWith
    <2>11. PendingRequests(u) = dns \cup Queued(http) /\ PendingRequests(t) = tdns \cup Queued(http)
      BY <2>9, PendingIs DEF tdns, http
    <2>12. Attaches(t, u)
      BY <2>8, <2>9, <2>10, <2>11 DEF Attaches, http
    <2>. QED BY <2>12 DEF u
  <1>5. CASE event.kind = "request" /\ event.proto # "dns"
    <2>1. u = [t EXCEPT !.http = h]
      BY <1>1, <1>5 DEF FrameAttached, WithFrame, Trackers
    <2>2. r \in RequestSet /\ f \in Flows
      BY <1>5 DEF RequestSet
    <2>3. ASSUME NEW q \in RequestSet
          PROVE  W(q) \in RequestSet /\ W(q).flow = q.flow /\ W(q).id = q.id /\ W(q).seq = q.seq /\ W(q).sent = q.sent
                 /\ (q.flow # f => W(q) = q)
      BY WithFrameIs DEF WithFrame
    <2>4. http[f] \in Seq(RequestSet) /\ Len(http[f]) \in Nat
      BY <1>1, <2>2
    <2>. HIDE DEF u, W, r, f
    <2>5. queue \in Seq(RequestSet) /\ Len(queue) = Len(http[f]) /\ \A i \in 1..Len(http[f]) : queue[i] = W(http[f][i])
      <3>. DEFINE q == http[f]
      <3>1. q \in Seq(RequestSet) /\ DOMAIN q = 1..Len(q) /\ \A i \in 1..Len(q) : q[i] \in RequestSet
        BY <2>4
      <3>. HIDE DEF q
      <3>2. [i \in DOMAIN q |-> W(q[i])] \in [1..Len(q) -> RequestSet]
        BY <2>3, <3>1
      <3>3. Len(q) \in Nat
        BY <2>4 DEF q
      <3>. DEFINE p == [i \in DOMAIN q |-> W(q[i])]
      <3>4. DOMAIN p = 1..Len(q) /\ \A i \in 1..Len(q) : p[i] = W(q[i])
        BY <3>1
      <3>. HIDE DEF p
      <3>5. p \in Seq(RequestSet) /\ Len(p) = Len(q)
        BY <3>2, <3>3, <3>4 DEF p
      <3>. QED BY <3>4, <3>5 DEF p, q
    <2>. HIDE DEF queue
    <2>6. h \in [Flows -> Seq(RequestSet)] /\ h[f] = queue /\ \A g \in Flows : g # f => h[g] = http[g]
      BY <1>1, <2>2, <2>5
    <2>. HIDE DEF h
    <2>7. ASSUME NEW g \in Flows
          PROVE  /\ http[g] \in Seq(RequestSet) /\ Len(http[g]) \in Nat /\ Len(h[g]) = Len(http[g]) /\ QueueSound(http[g], g, seq)
                 /\ \A i \in 1..Len(http[g]) : http[g][i] \in RequestSet /\ h[g][i] = W(http[g][i])
      <3>1. http[g] \in Seq(RequestSet) /\ QueueSound(http[g], g, seq)
        BY <1>1 DEF HttpSound
      <3>2. ASSUME NEW i \in 1..Len(http[g]) PROVE http[g][i] \in RequestSet /\ http[g][i].flow = g
        BY <3>1 DEF QueueSound
      <3>3. CASE g = f
        BY <2>4, <2>5, <2>6, <3>1, <3>2, <3>3
      <3>4. CASE g # f
        BY <2>3, <2>6, <3>1, <3>2, <3>4
      <3>. QED BY <3>3, <3>4
    <2>8. ASSUME NEW g \in Flows PROVE QueueSound(h[g], g, seq)
      <3>. DEFINE q == http[g]
                  p == h[g]
      <3>1. q \in Seq(RequestSet) /\ Len(p) = Len(q) /\ QueueSound(q, g, seq) /\ p \in Seq(RequestSet)
            /\ \A i \in 1..Len(q) : q[i] \in RequestSet /\ p[i] = W(q[i])
        BY <2>6, <2>7
      <3>. HIDE DEF p, q
      <3>2. \A i \in 1..Len(q) : p[i].id = q[i].id /\ p[i].flow = q[i].flow /\ p[i].seq = q[i].seq
        BY <2>3, <3>1
      <3>3. QueueSound(p, g, seq)
        BY <3>1, <3>2 DEF QueueSound
      <3>. QED BY <3>3 DEF p
    <2>9. HttpSound(h, seq)
      BY <2>6, <2>8 DEF HttpSound
    <2>. HIDE DEF http, seq, tdns
    <2>. DEFINE old == Queued(http)
                new == Queued(h)
                m == [q \in old |-> W(q)]
    <2>10. ASSUME NEW x \in new PROVE \E q \in old : x = W(q)
      <3>1. PICK g \in Flows : \E i \in 1..Len(h[g]) : x = h[g][i]
        BY <2>10, QueuedIs
      <3>2. PICK i \in 1..Len(h[g]) : x = h[g][i]
        BY <3>1
      <3>3. i \in 1..Len(http[g]) /\ x = W(http[g][i])
        BY <2>7, <3>2
      <3>4. http[g][i] \in Queued(http)
        BY <3>3, QueuedIs
      <3>. QED BY <3>3, <3>4
    <2>11. ASSUME NEW q \in old PROVE W(q) \in new
      <3>1. PICK g \in Flows : \E i \in 1..Len(http[g]) : q = http[g][i]
        BY <2>11, QueuedIs
      <3>2. PICK i \in 1..Len(http[g]) : q = http[g][i]
        BY <3>1
      <3>3. i \in 1..Len(h[g]) /\ W(q) = h[g][i]
        BY <2>7, <3>2
      <3>. QED BY <3>3, QueuedIs
    <2>12. \A q \in old : q \in RequestSet
      BY <1>1, QueuedOf
    <2>13. ASSUME NEW x \in old, NEW y \in old, W(x) = W(y) PROVE x = y
      <3>1. x.flow = y.flow /\ x.seq = y.seq
        BY <2>3, <2>12, <2>13
      <3>. QED BY <1>1, <3>1, QueuedKeys
    <2>14. IsFiniteSet(new) /\ Cardinality(new) = Cardinality(old)
      <3>1. /\ \A x \in old : m[x] \in new
            /\ \A y \in new : \E x \in old : y = m[x]
            /\ \A x, y \in old : m[x] = m[y] => x = y
        <4>. HIDE DEF old, new
        <4>. QED BY <2>10, <2>11, <2>13
      <3>2. IsFiniteSet(old)
        BY <1>1
      <3>. HIDE DEF old, new, m
      <3>. QED BY <3>1, <3>2, SameSize
    <2>15. u \in Trackers /\ u.dns = tdns /\ u.http = h /\ u.seq = seq /\ u.total = t.total /\ u.sweep = t.sweep /\ u.stats = t.stats
      <3>1. u.dns = t.dns /\ u.http = h /\ u.seq = t.seq /\ u.total = t.total /\ u.sweep = t.sweep /\ u.stats = t.stats
        BY <1>1, <2>1 DEF Trackers
      <3>2. u \in Trackers
        BY <1>1, <2>1, <2>6, <3>1 DEF Trackers
      <3>. QED BY <3>1, <3>2 DEF tdns, seq
    <2>16. TrackerSound(u)
      <3>1. u.total = Cardinality(u.dns) + Cardinality(Queued(u.http))
        BY <1>2, <2>14, <2>15
      <3>. QED BY <1>1, <2>9, <2>14, <2>15, <3>1, SoundWith
    <2>17. PendingRequests(u) = tdns \cup new /\ PendingRequests(t) = tdns \cup old
      BY <2>15, PendingIs DEF tdns, http
    <2>18. Ordered(http) => Ordered(h)
      <3>. SUFFICES ASSUME Ordered(http), NEW g \in Flows, NEW i \in 1..Len(h[g]), NEW j \in 1..Len(h[g]), i < j
                    PROVE  h[g][i].sent <= h[g][j].sent
        BY DEF Ordered
      <3>1. i \in 1..Len(http[g]) /\ j \in 1..Len(http[g])
        BY <2>7
      <3>2. http[g][i].sent <= http[g][j].sent
        BY <3>1 DEF Ordered
      <3>3. h[g][i].sent = http[g][i].sent /\ h[g][j].sent = http[g][j].sent
        BY <2>3, <2>7, <3>1
      <3>. QED BY <3>2, <3>3
    <2>19. \A x \in PendingRequests(u) : \E q \in PendingRequests(t) : q.sent = x.sent /\ q.id = x.id
      <3>. HIDE DEF old, new
      <3>. QED BY <2>3, <2>10, <2>12, <2>17
    <2>20. Attaches(t, u)
      BY <2>15, <2>16, <2>18, <2>19 DEF Attaches, http
    <2>. QED BY <2>20 DEF u
  <1>. QED BY <1>3, <1>4, <1>5

\* After a reset nothing is pending, and the statistics stay.
LEMMA ResetDone ==
  ASSUME NEW t, TrackerSound(t)
  PROVE  LET u == TrackerReset(t)
         IN TrackerSound(u) /\ u.total = 0 /\ PendingRequests(u) = {} /\ u.sweep = Hole /\ u.stats = t.stats /\ Ordered(u.http)
  <1>. DEFINE h == [f \in Flows |-> <<>>]
              u == TrackerReset(t)
  <1>1. t \in Trackers /\ t.seq \in Nat /\ \A p \in Protocols : Between(t.stats[p])
    BY TrackerTyped DEF TrackerSound
  <1>2. h \in [Flows -> Seq(RequestSet)] /\ \A f \in Flows : h[f] = <<>>
    OBVIOUS
  <1>3. u = [t EXCEPT !.dns = {}, !.http = h, !.answered = {}, !.total = 0, !.sweep = Hole]
    BY DEF TrackerReset
  <1>. HIDE DEF h, u
  <1>4. HttpSound(h, t.seq) /\ Ordered(h)
    BY <1>2 DEF HttpSound, QueueSound, Ordered
  <1>5. Queued(h) = {} /\ Cardinality(Queued(h)) = 0 /\ IsFiniteSet(Queued(h))
    <2>1. ASSUME NEW x \in Queued(h) PROVE FALSE
      <3>1. PICK f \in Flows : \E i \in 1..Len(h[f]) : x = h[f][i]
        BY <2>1, QueuedIs
      <3>. QED BY <1>2, <3>1
    <2>. QED BY <2>1, FS_EmptySet
  <1>6. DnsSound({}) /\ Cardinality({}) = 0
    BY FS_EmptySet DEF DnsSound
  <1>7. u.dns = {} /\ u.http = h /\ u.seq = t.seq /\ u.total = 0 /\ u.sweep = Hole /\ u.stats = t.stats
    BY <1>1, <1>3 DEF Trackers
  <1>8. u \in Trackers
    <2>1. {} \in SUBSET RequestSet /\ {} \in SUBSET [flow : Flows, id : Nat \cup {Hole}, at : Nat] /\ 0 \in Int
          /\ Hole \in Nat \cup {Hole}
      OBVIOUS
    <2>. QED BY <1>1, <1>2, <1>3, <2>1 DEF Trackers
  <1>9. TrackerSound(u)
    <2>1. u.total = Cardinality(u.dns) + Cardinality(Queued(u.http))
      BY <1>5, <1>6, <1>7
    <2>2. DnsSound(u.dns) /\ HttpSound(u.http, u.seq) /\ IsFiniteSet(Queued(u.http)) /\ \A p \in Protocols : Between(u.stats[p])
      BY <1>1, <1>4, <1>5, <1>6, <1>7
    <2>. QED BY <1>8, <2>1, <2>2, SoundWith
  <1>10. PendingRequests(u) = {}
    BY <1>5, <1>7, PendingIs
  <1>. QED BY <1>4, <1>7, <1>9, <1>10 DEF u

\* While timestamps ascend: the last sweep was less than an interval before the last
\* of them, and left nothing that was overdue by then.
Timed(t, last) ==
  /\ Ordered(t.http) /\ \A r \in PendingRequests(t) : r.sent <= last
  /\ IF t.sweep = Hole THEN PendingRequests(t) = {}
     ELSE /\ t.sweep <= last /\ last - t.sweep < SweepInterval
          /\ \A r \in PendingRequests(t) : SatSub(t.sweep, r.sent) < TimeoutOf(r)

\* What is pending has the type of a request.
LEMMA PendingTyped ==
  ASSUME NEW t, TrackerSound(t), NEW r \in PendingRequests(t)
  PROVE  r \in RequestSet /\ r.sent \in Nat /\ TimeoutOf(r) \in Nat \ {0}
  <1>1. t.dns \subseteq RequestSet /\ HttpSound(t.http, t.seq) /\ t.seq \in Nat
    BY TrackerTyped DEF TrackerSound
  <1>2. r \in RequestSet
    BY <1>1, PendingIs, QueuedOf
  <1>. QED BY <1>2, TransactionsAssumption DEF RequestSet, TimeoutOf

\* A sweep whose time is not before the last one keeps Timed.
LEMMA SweepTimed ==
  ASSUME NEW t, TrackerSound(t), NEW ts \in Nat, NEW s, Sweeps(t, s, ts), Ordered(t.http),
         \A r \in PendingRequests(t) : r.sent <= ts,
         t.sweep # Hole => /\ t.sweep <= ts
                           /\ \A r \in PendingRequests(t) : SatSub(t.sweep, r.sent) < TimeoutOf(r)
  PROVE  Timed(s.t, ts)
  <1>. DEFINE u == s.t
  <1>1. Ordered(u.http) /\ PendingRequests(u) \subseteq PendingRequests(t) /\ TrackerSound(u)
    BY DEF Sweeps
  <1>2. t.sweep \in Nat \cup {Hole} /\ Hole \notin Nat /\ SweepInterval \in Nat \ {0}
    BY TrackerTyped, CaptureClockAssumption, TransactionsAssumption DEF TrackerSound
  <1>3. CASE u.sweep = t.sweep /\ t.sweep # Hole /\ SatSub(ts, t.sweep) < SweepInterval
    <2>1. ts - t.sweep < SweepInterval
      BY <1>2, <1>3 DEF SatSub
    <2>. HIDE DEF u
    <2>2. Timed(u, ts)
      BY <1>1, <1>3, <2>1 DEF Timed
    <2>. QED BY <2>2 DEF u
  <1>4. CASE u.sweep = ts /\ \A r \in PendingRequests(u) : SatSub(ts, r.sent) < TimeoutOf(r)
    <2>1. ts <= ts /\ ts - ts < SweepInterval /\ ts # Hole
      BY <1>2
    <2>. HIDE DEF u
    <2>2. Timed(u, ts)
      BY <1>1, <1>4, <2>1 DEF Timed
    <2>. QED BY <2>2 DEF u
  <1>. QED BY <1>3, <1>4 DEF Sweeps

\* No request is overdue by a sweep interval and more.
LEMMA TimedHolds ==
  ASSUME NEW t, TrackerSound(t), NEW last \in Nat, Timed(t, last), NEW r \in PendingRequests(t)
  PROVE  last - r.sent < TimeoutOf(r) + SweepInterval
  <1>1. r.sent \in Nat /\ TimeoutOf(r) \in Nat /\ SweepInterval \in Nat
    BY PendingTyped, TransactionsAssumption
  <1>2. t.sweep # Hole /\ t.sweep \in Nat
    <2>1. t.sweep # Hole
      BY DEF Timed
    <2>. QED BY <2>1, TrackerTyped DEF TrackerSound
  <1>3. last - t.sweep < SweepInterval /\ SatSub(t.sweep, r.sent) < TimeoutOf(r) /\ t.sweep <= last
    BY <1>2 DEF Timed
  <1>4. CASE t.sweep >= r.sent
    <2>1. t.sweep - r.sent < TimeoutOf(r)
      BY <1>1, <1>2, <1>3, <1>4 DEF SatSub
    <2>. QED BY <1>1, <1>2, <1>3, <2>1
  <1>5. CASE ~(t.sweep >= r.sent)
    BY <1>1, <1>2, <1>3, <1>5
  <1>. QED BY <1>4, <1>5

\* The counts of the history are those of the tracker.
Balanced(t, told) ==
  /\ told \in [tracked : Nat, answered : Nat, unanswered : Nat, forgotten : Nat, last : Nat]
  /\ t.total <= MaxPending
  /\ told.tracked = t.total + told.answered + told.unanswered + told.forgotten
  /\ SumOf(t, "answered") = told.answered /\ SumOf(t, "unanswered") = told.unanswered

ToldAfter(told, kind, gone, ts) ==
  [told EXCEPT !.tracked = @ + (IF kind = "request" THEN 1 ELSE 0),
               !.answered = @ + (IF kind = "answered" THEN 1 ELSE 0),
               !.unanswered = @ + Cardinality(gone), !.last = ts]

\* A message, the sweep after it, and the number of its frame.
LEMMA MatchDone ==
  ASSUME NEW t, TrackerSound(t), NEW told, Balanced(t, told), NEW ts \in Nat, NEW seen, Effect(t, seen, ts),
         NEW swept, Sweeps(seen.t, swept, ts),
         NEW id \in Nat, NEW u, u = swept.t \/ u = FrameAttached(swept.t, seen.event, id),
         NEW now, now = ToldAfter(told, seen.event.kind, swept.gone, ts)
  PROVE  /\ TrackerSound(u) /\ Balanced(u, now) /\ now.last = ts
         /\ Timed(t, told.last) /\ told.last <= ts => Timed(u, ts)
         /\ t.sweep = Hole /\ Timed(t, told.last) => Timed(u, ts)
  <1>. DEFINE v == seen.t
              w == swept.t
              k == seen.event.kind
              c == Cardinality(swept.gone)
              more == IF k = "request" THEN 1 ELSE 0
              done == IF k = "answered" THEN 1 ELSE 0
  <1>1. Effect(t, seen, ts)
    OBVIOUS
  <1>2. TrackerSound(v) /\ v.total = t.total + more - done /\ v.sweep = t.sweep /\ t.total \in Int /\ v.total \in Int
    BY <1>1, TrackerTyped DEF Effect, TrackerSound
  <1>3. Sweeps(v, swept, ts)
    OBVIOUS
  <1>4. TrackerSound(w) /\ c \in Nat /\ w.total = v.total - c /\ PendingRequests(w) \subseteq PendingRequests(v)
    BY <1>3 DEF Sweeps
  <1>5. TrackerSound(u) /\ u.total = w.total /\ u.sweep = w.sweep /\ u.stats = w.stats
        /\ (\A r \in PendingRequests(u) : \E q \in PendingRequests(w) : q.sent = r.sent /\ q.id = r.id)
        /\ (Ordered(w.http) => Ordered(u.http))
    <2>1. CASE u = w
      BY <1>4, <2>1
    <2>2. CASE u = FrameAttached(w, seen.event, id)
      <3>1. seen.event.kind = "request" => seen.event.request \in RequestSet
        BY <1>1 DEF Effect
      <3>. DEFINE event == seen.event
      <3>. HIDE DEF event, w
      <3>2. Attaches(w, FrameAttached(w, event, id))
        BY <1>4, <3>1, AttachedDone DEF event
      <3>. QED BY <2>2, <3>2 DEF Attaches, event
    <2>. QED BY <2>1, <2>2
  <1>6. /\ told.tracked \in Nat /\ told.answered \in Nat /\ told.unanswered \in Nat /\ told.forgotten \in Nat /\ told.last \in Nat
        /\ told.tracked = t.total + told.answered + told.unanswered + told.forgotten /\ t.total <= MaxPending
        /\ SumOf(t, "answered") = told.answered /\ SumOf(t, "unanswered") = told.unanswered /\ MaxPending \in Nat
    BY TransactionsAssumption DEF Balanced
  <1>7. /\ now.tracked = told.tracked + more /\ now.answered = told.answered + done /\ now.unanswered = told.unanswered + c
        /\ now.forgotten = told.forgotten /\ now.last = ts
        /\ now \in [tracked : Nat, answered : Nat, unanswered : Nat, forgotten : Nat, last : Nat]
    <2>1. more \in Nat /\ done \in Nat
      OBVIOUS
    <2>2. told \in [tracked : Nat, answered : Nat, unanswered : Nat, forgotten : Nat, last : Nat]
      BY DEF Balanced
    <2>. DEFINE a == told.tracked + more
                b == told.answered + done
                d == told.unanswered + c
    <2>3. now = [told EXCEPT !.tracked = a, !.answered = b, !.unanswered = d, !.last = ts]
      BY DEF ToldAfter
    <2>. HIDE DEF more, done, c
    <2>4. a \in Nat /\ b \in Nat /\ d \in Nat
      BY <1>4, <1>6, <2>1
    <2>. HIDE DEF a, b, d
    <2>5. now.tracked = a /\ now.answered = b /\ now.unanswered = d /\ now.forgotten = told.forgotten /\ now.last = ts
          /\ now \in [tracked : Nat, answered : Nat, unanswered : Nat, forgotten : Nat, last : Nat]
      BY <2>2, <2>3, <2>4
    <2>. QED BY <2>5 DEF a, b, d
  <1>8. SumOf(u, "answered") = told.answered + done /\ SumOf(u, "unanswered") = told.unanswered + c
    <2>1. SumOf(u, "answered") = SumOf(w, "answered") /\ SumOf(u, "unanswered") = SumOf(w, "unanswered")
      BY <1>5 DEF SumOf
    <2>2. SumOf(w, "answered") = SumOf(v, "answered") /\ SumOf(w, "unanswered") = SumOf(v, "unanswered") + c
      BY <1>3 DEF Sweeps
    <2>3. SumOf(v, "answered") = SumOf(t, "answered") + done /\ SumOf(v, "unanswered") = SumOf(t, "unanswered")
      BY <1>1 DEF Effect
    <2>. QED BY <1>6, <2>1, <2>2, <2>3
  <1>9. Balanced(u, now)
    <2>1. v.total <= MaxPending
      <3>1. more = 1 => t.total < MaxPending /\ done = 0
        BY <1>1 DEF Effect
      <3>2. more \in {0, 1} /\ done \in {0, 1}
        OBVIOUS
      <3>. HIDE DEF more, done
      <3>. QED BY <1>2, <1>6, <3>1, <3>2
    <2>2. more \in Nat /\ done \in Nat
      OBVIOUS
    <2>. HIDE DEF more, done, c, v, w
    <2>3. u.total <= MaxPending
      BY <1>2, <1>4, <1>5, <1>6, <2>1
    <2>4. now.tracked = u.total + now.answered + now.unanswered + now.forgotten
      BY <1>2, <1>4, <1>5, <1>6, <1>7, <2>2
    <2>. QED BY <1>7, <1>8, <2>3, <2>4 DEF Balanced
  <1>10. ASSUME Timed(t, told.last), told.last <= ts \/ t.sweep = Hole PROVE Timed(u, ts)
    <2>0. t.sweep \in Nat \cup {Hole} /\ Hole \notin Nat /\ told.last \in Nat
      BY <1>6, TrackerTyped, CaptureClockAssumption DEF TrackerSound
    <2>1. Ordered(t.http) /\ \A r \in PendingRequests(t) : r.sent <= ts
      <3>1. CASE t.sweep = Hole
        BY <1>10, <3>1 DEF Timed
      <3>2. CASE t.sweep # Hole
        <4>1. told.last <= ts /\ \A r \in PendingRequests(t) : r.sent <= told.last /\ r.sent \in Nat
          BY <1>10, <3>2, PendingTyped DEF Timed
        <4>2. \A r \in PendingRequests(t) : r.sent <= ts
          BY <2>0, <4>1
        <4>. QED BY <1>10, <4>2 DEF Timed
      <3>. QED BY <3>1, <3>2
    <2>2. Ordered(v.http) /\ \A r \in PendingRequests(v) : r \in PendingRequests(t) \/ r.sent = ts
      BY <1>1, <2>1 DEF Effect
    <2>3. \A r \in PendingRequests(v) : r.sent <= ts
      BY <2>1, <2>2
    <2>4. ASSUME v.sweep # Hole
          PROVE  v.sweep <= ts /\ \A r \in PendingRequests(v) : SatSub(v.sweep, r.sent) < TimeoutOf(r)
      <3>1. t.sweep # Hole /\ v.sweep = t.sweep /\ t.sweep \in Nat /\ told.last <= ts
        BY <1>2, <1>10, <2>0, <2>4
      <3>2. t.sweep <= told.last /\ \A r \in PendingRequests(t) : SatSub(t.sweep, r.sent) < TimeoutOf(r)
        BY <1>10, <3>1 DEF Timed
      <3>3. t.sweep <= ts
        BY <2>0, <3>1, <3>2
      <3>4. ASSUME NEW r \in PendingRequests(v) PROVE SatSub(t.sweep, r.sent) < TimeoutOf(r)
        <4>1. CASE r \in PendingRequests(t)
          BY <3>2, <4>1
        <4>2. CASE r.sent = ts
          <5>1. SatSub(t.sweep, ts) = 0
            BY <3>1, <3>3 DEF SatSub
          <5>2. TimeoutOf(r) \in Nat \ {0}
            BY <1>2, PendingTyped
          <5>. QED BY <4>2, <5>1, <5>2
        <4>. QED BY <2>2, <4>1, <4>2
      <3>. QED BY <3>1, <3>3, <3>4
    <2>. HIDE DEF v
    <2>5. Timed(w, ts)
      BY <1>2, <1>3, <2>2, <2>3, <2>4, SweepTimed
    <2>. HIDE DEF w
    <2>6. \A r, q : r.id = q.id => TimeoutOf(r) = TimeoutOf(q)
      BY DEF TimeoutOf
    <2>7. Ordered(u.http) /\ (\A r \in PendingRequests(u) : r.sent <= ts)
      BY <1>5, <2>5 DEF Timed
    <2>8. CASE u.sweep = Hole
      BY <1>5, <2>5, <2>7, <2>8 DEF Timed
    <2>9. CASE u.sweep # Hole
      <3>1. w.sweep <= ts /\ ts - w.sweep < SweepInterval /\ \A r \in PendingRequests(w) : SatSub(w.sweep, r.sent) < TimeoutOf(r)
        BY <1>5, <2>5, <2>9 DEF Timed
      <3>2. \A r \in PendingRequests(u) : SatSub(w.sweep, r.sent) < TimeoutOf(r)
        BY <1>5, <2>6, <3>1
      <3>. QED BY <1>5, <2>7, <2>9, <3>1, <3>2 DEF Timed
    <2>. QED BY <2>8, <2>9
  <1>. QED BY <1>5, <1>7, <1>9, <1>10

\* TransactionsAccounted is not inductive: that every request ends once takes that the
\* two protocols' requests are told apart and never twice the same, and that none stays
\* after it is overdue takes when the last sweep was and what it left.
TxInv ==
  /\ pFrames \in Nat /\ TrackerSound(pTracker) /\ Balanced(pTracker, pTold)
  /\ pSteps = [last |-> pSteps.last, first |-> pSteps.first, second |-> pSteps.second, back |-> pSteps.back]
  /\ pSteps.last \in Nat \cup {Hole} /\ pSteps.back \in BOOLEAN
  /\ ~pSteps.back => /\ Timed(pTracker, pTold.last)
                     /\ IF pSteps.last = Hole THEN pTracker.sweep = Hole /\ pTold.last = 0 ELSE pTold.last <= pSteps.last

\* What a timestamp does to the run of ascending ones.
LEMMA StepsMove ==
  ASSUME TxInv, NEW ts \in Nat, NEW elapsed, pSteps' = StepsAfter(ts, elapsed)
  PROVE  /\ pSteps' = [last |-> pSteps'.last, first |-> pSteps'.first, second |-> pSteps'.second, back |-> pSteps'.back]
         /\ pSteps'.last = ts /\ pSteps'.back \in BOOLEAN
         /\ ~pSteps'.back => ~pSteps.back /\ (pSteps.last = Hole \/ pSteps.last <= ts)
  <1>1. Hole \notin Nat /\ pSteps.last \in Nat \cup {Hole} /\ pSteps.back \in BOOLEAN
        /\ pSteps = [last |-> pSteps.last, first |-> pSteps.first, second |-> pSteps.second, back |-> pSteps.back]
    BY CaptureClockAssumption DEF TxInv
  <1>2. CASE pSteps.last = Hole \/ ts < pSteps.last
    <2>. DEFINE b == pSteps.back \/ pSteps.last # Hole
    <2>1. pSteps' = [last |-> ts, first |-> <<ts, elapsed>>, second |-> Hole, back |-> b]
      BY <1>2 DEF StepsAfter
    <2>2. b \in BOOLEAN /\ (~b => ~pSteps.back /\ pSteps.last = Hole)
      OBVIOUS
    <2>. HIDE DEF b
    <2>3. pSteps'.last = ts /\ pSteps'.back = b /\ pSteps'.first = <<ts, elapsed>> /\ pSteps'.second = Hole
      BY <2>1
    <2>4. pSteps' = [last |-> pSteps'.last, first |-> pSteps'.first, second |-> pSteps'.second, back |-> pSteps'.back]
      BY <2>1, <2>3
    <2>. QED BY <2>2, <2>3, <2>4
  <1>3. CASE ~(pSteps.last = Hole \/ ts < pSteps.last)
    <2>. DEFINE second == IF pSteps.second = Hole THEN <<ts, elapsed>> ELSE pSteps.second
    <2>1. pSteps' = [pSteps EXCEPT !.last = ts, !.second = second]
      BY <1>3 DEF StepsAfter
    <2>. HIDE DEF second
    <2>2. pSteps' = [last |-> ts, first |-> pSteps.first, second |-> second, back |-> pSteps.back]
      BY <1>1, <2>1
    <2>. QED BY <1>1, <1>3, <2>2
  <1>. QED BY <1>2, <1>3

\* Steps that observe a message, or none, at ts.
LEMMA TxMatched ==
  ASSUME TxInv, NEW m, IsFrame(m) \/ m.l7 = "none", NEW ts \in Nat, NEW again \in BOOLEAN, NEW elapsed,
         pSteps' = StepsAfter(ts, elapsed), pFrames' = pFrames + 1,
         LET seen == TrackerObserved(pTracker, m, ts, again)
             swept == Expired(seen.t, ts)
         IN /\ pTracker' \in {swept.t, FrameAttached(swept.t, seen.event, pFrames + 1)}
            /\ pTold' = ToldAfter(pTold, seen.event.kind, swept.gone, ts)
  PROVE  TxInv'
  <1>. DEFINE seen == TrackerObserved(pTracker, m, ts, again)
              swept == Expired(seen.t, ts)
              id == pFrames + 1
              u == pTracker'
              now == pTold'
  <1>1. pFrames \in Nat /\ TrackerSound(pTracker) /\ Balanced(pTracker, pTold) /\ id \in Nat
    BY DEF TxInv
  <1>2. u = swept.t \/ u = FrameAttached(swept.t, seen.event, id)
    OBVIOUS
  <1>3. now = ToldAfter(pTold, seen.event.kind, swept.gone, ts)
    OBVIOUS
  <1>4. Effect(pTracker, seen, ts) /\ Sweeps(seen.t, swept, ts)
    <2>1. Effect(pTracker, seen, ts)
      BY <1>1, ObservedDone
    <2>. HIDE DEF seen
    <2>2. TrackerSound(seen.t)
      BY <2>1 DEF Effect
    <2>. QED BY <2>1, <2>2, ExpiredDone
  <1>. HIDE DEF seen, swept, id, u, now
  <1>5. /\ TrackerSound(u) /\ Balanced(u, now) /\ now.last = ts
        /\ Timed(pTracker, pTold.last) /\ pTold.last <= ts => Timed(u, ts)
        /\ pTracker.sweep = Hole /\ Timed(pTracker, pTold.last) => Timed(u, ts)
    BY <1>1, <1>2, <1>3, <1>4, MatchDone
  <1>6. /\ pSteps' = [last |-> pSteps'.last, first |-> pSteps'.first, second |-> pSteps'.second, back |-> pSteps'.back]
        /\ pSteps'.last = ts /\ pSteps'.back \in BOOLEAN
        /\ ~pSteps'.back => ~pSteps.back /\ (pSteps.last = Hole \/ pSteps.last <= ts)
    BY StepsMove
  <1>7. ASSUME ~pSteps'.back PROVE Timed(u, ts)
    <2>1. ~pSteps.back /\ Timed(pTracker, pTold.last) /\ (pSteps.last = Hole \/ pSteps.last <= ts)
          /\ IF pSteps.last = Hole THEN pTracker.sweep = Hole /\ pTold.last = 0 ELSE pTold.last <= pSteps.last
      BY <1>6, <1>7 DEF TxInv
    <2>2. CASE pSteps.last = Hole
      BY <1>5, <2>1, <2>2
    <2>3. CASE pSteps.last # Hole
      <3>1. pSteps.last \in Nat /\ pTold.last \in Nat
        BY <2>3 DEF TxInv, Balanced
      <3>2. pTold.last <= ts
        BY <2>1, <2>3, <3>1
      <3>. QED BY <1>5, <2>1, <3>2
    <2>. QED BY <2>2, <2>3
  <1>8. pFrames' \in Nat /\ ts # Hole /\ ts <= ts
    BY <1>1, CaptureClockAssumption
  <1>. QED BY <1>5, <1>6, <1>7, <1>8 DEF TxInv, u, now

\* A frame.
LEMMA TxFrame ==
  ASSUME TxInv, NEW m, IsFrame(m), NEW ts \in Nat, NEW tick \in Nat, NextFrame(m, ts, tick)
  PROVE  TxInv'
  <1>. DEFINE clock == ClockAfter(pClock, ts)
              now == pNow + tick
              flowNow == FlowNow(clock.elapsed, now)
              retransmit == pFlows[m.flow] # Hole /\ ~IdleOnArrival(m.flow, flowNow)
                            /\ IsRetransmit(pFlows[m.flow], m)
  <1>1. pFrames' = pFrames + 1 /\ pSteps' = StepsAfter(ts, clock.elapsed)
    BY DEF NextFrame
  <1>2. ASSUME NEW k, IsFrame(k) \/ k.l7 = "none", NEW again \in BOOLEAN, Matched(k, ts, now, flowNow, again)
        PROVE  TxInv'
    <2>. DEFINE seen == TrackerObserved(pTracker, k, ts, again)
                swept == Expired(seen.t, ts)
    <2>1. /\ pTracker' \in {swept.t, FrameAttached(swept.t, seen.event, pFrames + 1)}
          /\ pTold' = ToldAfter(pTold, seen.event.kind, swept.gone, ts)
      BY <1>2 DEF Matched, ToldAfter
    <2>. HIDE DEF clock
    <2>. QED BY <1>1, <1>2, <2>1, TxMatched
  <1>3. CASE UNCHANGED <<pTracker, pTold>>
    <2>1. /\ pSteps' = [last |-> pSteps'.last, first |-> pSteps'.first, second |-> pSteps'.second, back |-> pSteps'.back]
          /\ pSteps'.last = ts /\ pSteps'.back \in BOOLEAN
          /\ ~pSteps'.back => ~pSteps.back /\ (pSteps.last = Hole \/ pSteps.last <= ts)
      <3>. HIDE DEF clock
      <3>. QED BY <1>1, StepsMove
    <2>2. pTold.last \in Nat /\ pFrames \in Nat /\ pSteps.last \in Nat \cup {Hole} /\ ts # Hole
      BY CaptureClockAssumption DEF TxInv, Balanced
    <2>3. ASSUME ~pSteps'.back PROVE Timed(pTracker, pTold.last) /\ pTold.last <= ts
      <3>1. ~pSteps.back /\ (pSteps.last = Hole \/ pSteps.last <= ts) /\ Timed(pTracker, pTold.last)
            /\ IF pSteps.last = Hole THEN pTold.last = 0 ELSE pTold.last <= pSteps.last
        BY <2>1, <2>3 DEF TxInv
      <3>. QED BY <2>2, <3>1
    <2>4. TrackerSound(pTracker) /\ Balanced(pTracker, pTold) /\ pFrames' \in Nat
      BY <1>1, <2>2 DEF TxInv
    <2>. QED BY <1>3, <2>1, <2>2, <2>3, <2>4 DEF TxInv
  <1>4. \/ Matched(m, ts, now, flowNow, retransmit)
        \/ Matched([m EXCEPT !.l7 = "none"], ts, now, flowNow, FALSE)
        \/ UNCHANGED <<pTracker, pTold>>
    BY DEF NextFrame
  <1>5. retransmit \in BOOLEAN /\ FALSE \in BOOLEAN
    OBVIOUS
  <1>6. [m EXCEPT !.l7 = "none"].l7 = "none"
    BY DEF IsFrame, Frame
  <1>. HIDE DEF clock, now, flowNow, retransmit
  <1>. QED BY <1>2, <1>3, <1>4, <1>5, <1>6

\* A quiet source.
LEMMA TxQuiet ==
  ASSUME TxInv, NEW ts \in Nat, NEW tick \in Nat, QuietSource(ts, tick)
  PROVE  TxInv'
  <1>. DEFINE m == [l7 |-> "none"]
              seen == TrackerObserved(pTracker, m, ts, FALSE)
              swept == Expired(seen.t, ts)
              elapsed == pClock.elapsed
  <1>1. seen.t = pTracker /\ seen.event.kind = "none" /\ m.l7 = "none" /\ FALSE \in BOOLEAN
    BY DEF TrackerObserved, Nothing, NoEvent
  <1>2. swept = Expired(pTracker, ts)
    BY <1>1
  <1>3. pTracker' = swept.t /\ pTold' = [pTold EXCEPT !.unanswered = @ + Cardinality(swept.gone), !.last = ts]
        /\ pFrames' = pFrames + 1 /\ pSteps' = StepsAfter(ts, elapsed)
    BY <1>2 DEF QuietSource
  <1>4. pTold' = ToldAfter(pTold, seen.event.kind, swept.gone, ts)
    <2>1. pTold \in [tracked : Nat, answered : Nat, unanswered : Nat, forgotten : Nat, last : Nat]
      BY DEF TxInv, Balanced
    <2>2. pTold.tracked + 0 = pTold.tracked /\ pTold.answered + 0 = pTold.answered
      BY <2>1
    <2>. DEFINE c == Cardinality(swept.gone)
    <2>. HIDE DEF swept, seen
    <2>3. ToldAfter(pTold, seen.event.kind, swept.gone, ts)
            = [pTold EXCEPT !.tracked = pTold.tracked, !.answered = pTold.answered, !.unanswered = @ + c, !.last = ts]
      BY <1>1, <2>2 DEF ToldAfter
    <2>4. pTold' = [pTold EXCEPT !.unanswered = @ + c, !.last = ts]
      BY <1>3
    <2>. HIDE DEF c
    <2>. QED BY <2>1, <2>3, <2>4
  <1>5. pTracker' \in {swept.t, FrameAttached(swept.t, seen.event, pFrames + 1)}
    BY <1>3
  <1>. HIDE DEF m, elapsed
  <1>. QED BY <1>1, <1>3, <1>4, <1>5, TxMatched

\* An interface switch.
LEMMA TxSwitched ==
  ASSUME TxInv, NEW request, NEW fault, InterfaceSwitched(request, fault)
  PROVE  TxInv'
  <1>. DEFINE c == Cardinality(PendingRequests(pTracker))
              u == TrackerReset(pTracker)
  <1>1. pTracker' = u /\ pTold' = [pTold EXCEPT !.forgotten = @ + c] /\ pSteps' = pSteps /\ pFrames' = pFrames
    BY DEF InterfaceSwitched
  <1>2. TrackerSound(pTracker) /\ Balanced(pTracker, pTold)
    BY DEF TxInv
  <1>3. TrackerSound(u) /\ u.total = 0 /\ PendingRequests(u) = {} /\ u.sweep = Hole /\ u.stats = pTracker.stats /\ Ordered(u.http)
    BY <1>2, ResetDone
  <1>4. c = pTracker.total /\ c \in Nat
    BY <1>2, TotalIs DEF TrackerSound
  <1>. HIDE DEF c, u
  <1>5. /\ pTold \in [tracked : Nat, answered : Nat, unanswered : Nat, forgotten : Nat, last : Nat]
        /\ pTold.tracked = pTracker.total + pTold.answered + pTold.unanswered + pTold.forgotten
        /\ SumOf(pTracker, "answered") = pTold.answered /\ SumOf(pTracker, "unanswered") = pTold.unanswered
        /\ MaxPending \in Nat
    BY <1>2, TransactionsAssumption DEF Balanced
  <1>6. /\ pTold'.tracked = pTold.tracked /\ pTold'.answered = pTold.answered /\ pTold'.unanswered = pTold.unanswered
        /\ pTold'.forgotten = pTold.forgotten + c /\ pTold'.last = pTold.last
        /\ pTold' \in [tracked : Nat, answered : Nat, unanswered : Nat, forgotten : Nat, last : Nat]
    <2>1. pTold.forgotten + c \in Nat
      BY <1>4, <1>5
    <2>. QED BY <1>1, <1>5, <2>1
  <1>7. SumOf(u, "answered") = pTold.answered /\ SumOf(u, "unanswered") = pTold.unanswered
    BY <1>3, <1>5 DEF SumOf
  <1>8. pTold'.tracked = u.total + pTold'.answered + pTold'.unanswered + pTold'.forgotten
    BY <1>3, <1>4, <1>5, <1>6
  <1>9. Balanced(u, pTold')
    BY <1>3, <1>5, <1>6, <1>7, <1>8 DEF Balanced
  <1>10. Timed(u, pTold'.last)
    BY <1>3 DEF Timed
  <1>. QED BY <1>1, <1>3, <1>6, <1>9, <1>10 DEF TxInv

\* It holds initially.
LEMMA TxInitially ==
  ASSUME PipeInit
  PROVE  TxInv
  <1>. DEFINE h == [f \in Flows |-> <<>>]
              s == [p \in Protocols |-> NewStats]
  <1>1. /\ pTracker = [dns |-> {}, http |-> h, answered |-> {}, total |-> 0, seq |-> 0, sweep |-> Hole, stats |-> s]
        /\ pFrames = 0 /\ pTold = [tracked |-> 0, answered |-> 0, unanswered |-> 0, forgotten |-> 0, last |-> 0]
        /\ pSteps = [last |-> Hole, first |-> Hole, second |-> Hole, back |-> FALSE]
    BY DEF PipeInit, NewTracker
  <1>2. NewStats \in StatsSet /\ Between(NewStats) /\ NewStats.answered = 0 /\ NewStats.unanswered = 0
    BY DEF NewStats, StatsSet, Between
  <1>3. /\ h \in [Flows -> Seq(RequestSet)] /\ s \in [Protocols -> StatsSet] /\ (\A p \in Protocols : s[p] = NewStats)
        /\ \A f \in Flows : h[f] = <<>>
    BY <1>2
  <1>. HIDE DEF h, s, NewStats
  <1>4. HttpSound(h, 0) /\ Ordered(h)
    BY <1>3 DEF HttpSound, QueueSound, Ordered
  <1>5. Queued(h) = {} /\ Cardinality(Queued(h)) = 0 /\ IsFiniteSet(Queued(h))
    <2>1. ASSUME NEW x \in Queued(h) PROVE FALSE
      <3>1. PICK f \in Flows : \E i \in 1..Len(h[f]) : x = h[f][i]
        BY <2>1, QueuedIs
      <3>. QED BY <1>3, <3>1
    <2>. QED BY <2>1, FS_EmptySet
  <1>6. DnsSound({}) /\ Cardinality({}) = 0
    BY FS_EmptySet DEF DnsSound
  <1>7. pTracker.dns = {} /\ pTracker.http = h /\ pTracker.seq = 0 /\ pTracker.total = 0 /\ pTracker.sweep = Hole /\ pTracker.stats = s
    BY <1>1
  <1>8. pTracker \in Trackers
    <2>1. {} \in SUBSET RequestSet /\ {} \in SUBSET [flow : Flows, id : Nat \cup {Hole}, at : Nat] /\ 0 \in Int /\ 0 \in Nat
          /\ Hole \in Nat \cup {Hole}
      OBVIOUS
    <2>. QED BY <1>1, <1>3, <2>1 DEF Trackers
  <1>9. TrackerSound(pTracker)
    <2>1. pTracker.total = Cardinality(pTracker.dns) + Cardinality(Queued(pTracker.http))
      BY <1>5, <1>6, <1>7
    <2>2. /\ DnsSound(pTracker.dns) /\ HttpSound(pTracker.http, pTracker.seq) /\ IsFiniteSet(Queued(pTracker.http))
          /\ \A p \in Protocols : Between(pTracker.stats[p])
      BY <1>2, <1>3, <1>4, <1>5, <1>6, <1>7
    <2>. QED BY <1>8, <2>1, <2>2, SoundWith
  <1>10. PendingRequests(pTracker) = {}
    BY <1>5, <1>7, PendingIs
  <1>11. Balanced(pTracker, pTold)
    <2>1. SumOf(pTracker, "answered") = 0 /\ SumOf(pTracker, "unanswered") = 0
      BY <1>2, <1>3, <1>7 DEF SumOf, Protocols
    <2>. QED BY <1>1, <1>7, <2>1, TransactionsAssumption DEF Balanced
  <1>12. Timed(pTracker, pTold.last)
    BY <1>4, <1>7, <1>10 DEF Timed
  <1>. QED BY <1>1, <1>7, <1>9, <1>11, <1>12 DEF TxInv

\* Every step keeps it.
LEMMA TxStep ==
  ASSUME ClockInv, TxInv, [PipeNext]_pVars
  PROVE  TxInv'
  <1>1. CASE \E m, ts, tick : IsFrame(m) /\ ts \in Nat /\ tick \in Nat /\ NextFrame(m, ts, tick)
    BY <1>1, TxFrame
  <1>2. CASE \E ts, tick : ts \in Nat /\ tick \in Nat /\ QuietSource(ts, tick)
    BY <1>2, TxQuiet
  <1>3. CASE \E request, fault : InterfaceSwitched(request, fault)
    BY <1>3, TxSwitched
  <1>4. CASE UNCHANGED <<pFrames, pTracker, pTold, pSteps>>
    BY <1>4 DEF TxInv
  <1>5. Snapshot \/ UNCHANGED fVars => UNCHANGED <<pFrames, pTracker, pTold, pSteps>>
    BY DEF Snapshot, fVars
  <1>. QED BY <1>1, <1>2, <1>3, <1>4, <1>5, StepCases

\* It implies what is claimed.
LEMMA TxHolds ==
  ASSUME TxInv
  PROVE  TransactionsAccounted
  <1>1. TrackerSound(pTracker) /\ Balanced(pTracker, pTold) /\ pTold.last \in Nat
    BY DEF TxInv, Balanced
  <1>2. ASSUME NEW p \in Protocols, pTracker.stats[p].recent # <<>>
        PROVE  LET q == Percentiles(pTracker.stats[p])
               IN pTracker.stats[p].min <= q.median /\ q.median <= q.p95 /\ q.p95 <= pTracker.stats[p].max
    <2>. DEFINE s == pTracker.stats[p]
    <2>1. s \in StatsSet /\ Between(s) /\ s.recent # <<>>
      BY <1>1, <1>2, TrackerTyped DEF TrackerSound
    <2>. HIDE DEF s
    <2>2. /\ s.min <= Percentiles(s).median /\ Percentiles(s).median <= Percentiles(s).p95
          /\ Percentiles(s).p95 <= s.max
      BY <2>1, PercentilesBetween
    <2>. QED BY <2>2 DEF s
  <1>3. ASSUME ~pSteps.back, NEW r \in PendingRequests(pTracker) PROVE ~Forgotten(r)
    <2>1. Timed(pTracker, pTold.last)
      BY <1>3 DEF TxInv
    <2>2. pTold.last - r.sent < TimeoutOf(r) + SweepInterval
      BY <1>1, <1>3, <2>1, TimedHolds
    <2>3. pTold.last - r.sent \in Int /\ TimeoutOf(r) + SweepInterval \in Int
      BY <1>1, <1>3, PendingTyped, TransactionsAssumption
    <2>. QED BY <2>2, <2>3 DEF Forgotten
  <1>4. pTracker.total = Cardinality(PendingRequests(pTracker)) /\ pTracker.total <= MaxPending
        /\ pTold.tracked = pTracker.total + pTold.answered + pTold.unanswered + pTold.forgotten
        /\ pTracker.stats["dns"]["answered"] + pTracker.stats["http"]["answered"] = pTold.answered
        /\ pTracker.stats["dns"]["unanswered"] + pTracker.stats["http"]["unanswered"] = pTold.unanswered
    BY <1>1 DEF TrackerSound, Balanced, SumOf
  <1>. HIDE DEF Protocols
  <1>. QED BY <1>2, <1>3, <1>4 DEF TransactionsAccounted

\* TransactionsAccounted, for transaction.rs, observe_frame and expire: every request
\* that is tracked is pending, was answered, was given up or was dropped by an interface
\* switch, once; the pending count is exact and within MAX_PENDING; the percentiles lie
\* between the extremes; and over ascending timestamps none stays pending for a sweep
\* interval after it is overdue. For any messages, ceilings, timeouts and timestamps.
THEOREM TransactionsAlwaysAccounted == PipeSpec => []TransactionsAccounted
  <1>1. PipeInit => ClockInv /\ TxInv
    BY ClockInitially, TxInitially
  <1>2. ClockInv /\ TxInv /\ [PipeNext]_pVars => ClockInv' /\ TxInv'
    BY ClockStep, TxStep
  <1>3. TxInv => TransactionsAccounted
    BY TxHolds
  <1>. QED BY <1>1, <1>2, <1>3, PTL DEF PipeSpec

-----------------------------------------------------------------------------
(* Observed DNS names *)

Tables ==
  [entries : [Addrs -> NameEntries \cup {Hole}], index : SUBSET (Nat \X Nat \X Addrs), seq : Nat, evictions : Nat]

IndexEntry(t, a) == <<t.entries[a].expires, t.entries[a].seq, a>>

NamesSound(t) ==
  /\ t \in Tables
  /\ t.index = {IndexEntry(t, a) : a \in NamesHeld(t)}
  /\ \A a \in NamesHeld(t) : t.entries[a].seq < t.seq
  /\ \A a, b \in NamesHeld(t) : t.entries[a].seq = t.entries[b].seq => a = b
  /\ Cardinality(NamesHeld(t)) <= NameCapacity

Lessons == [Addrs -> [name : STRING, expires : Nat] \cup {Hole}]

\* What is held is what was learned; what was learned is held until it expires, unless
\* the table was full once.
NamesAgree(t, learned, now) ==
  \A a \in Addrs :
    IF t.entries[a] # Hole
    THEN learned[a] # Hole /\ learned[a].name = t.entries[a].name /\ learned[a].expires = t.entries[a].expires
    ELSE learned[a] # Hole /\ learned[a].expires > now => t.evictions > 0

\* The fields of a table have their types.
LEMMA TableTyped ==
  ASSUME NEW t \in Tables
  PROVE  /\ t.entries \in [Addrs -> NameEntries \cup {Hole}] /\ t.index \in SUBSET (Nat \X Nat \X Addrs)
         /\ t.seq \in Nat /\ t.evictions \in Nat
         /\ \A a \in NamesHeld(t) : /\ a \in Addrs /\ t.entries[a] \in NameEntries /\ t.entries[a] # Hole
                                    /\ t.entries[a].expires \in Nat /\ t.entries[a].seq \in Nat
         /\ IsFiniteSet(NamesHeld(t)) /\ Cardinality(NamesHeld(t)) \in Nat
  <1>1. /\ t.entries \in [Addrs -> NameEntries \cup {Hole}] /\ t.index \in SUBSET (Nat \X Nat \X Addrs)
        /\ t.seq \in Nat /\ t.evictions \in Nat
    BY DEF Tables
  <1>2. ASSUME NEW a \in NamesHeld(t)
        PROVE  a \in Addrs /\ t.entries[a] \in NameEntries /\ t.entries[a] # Hole
    BY <1>1 DEF NamesHeld
  <1>3. \A e \in NameEntries : e.expires \in Nat /\ e.seq \in Nat
    BY DEF NameEntries
  <1>4. NamesHeld(t) \subseteq Addrs
    BY DEF NamesHeld
  <1>5. IsFiniteSet(NamesHeld(t)) /\ Cardinality(NamesHeld(t)) \in Nat
    BY <1>4, DnsNamesAssumption, FS_Subset, FS_CardinalityType
  <1>. QED BY <1>1, <1>2, <1>3, <1>5

\* The index holds the entries of the map, and nothing else.
LEMMA IndexIs ==
  ASSUME NEW t, NamesSound(t)
  PROVE  /\ \A i \in t.index : i[3] \in NamesHeld(t) /\ i[1] = t.entries[i[3]].expires /\ i[2] = t.entries[i[3]].seq
         /\ \A i \in t.index : i = IndexEntry(t, i[3])
         /\ \A a \in NamesHeld(t) : IndexEntry(t, a) \in t.index /\ IndexEntry(t, a)[3] = a
  BY DEF NamesSound, IndexEntry

\* The index has a first entry.
LEMMA FirstIs ==
  ASSUME NEW index \in SUBSET (Nat \X Nat \X Addrs), index # {}
  PROVE  FirstOf(index) \in index
  <1>. DEFINE E == {i[1] : i \in index}
              e == Min(E)
              S == {i[2] : i \in {j \in index : j[1] = e}}
              s == Min(S)
  <1>1. E \in SUBSET Nat /\ E # {}
    OBVIOUS
  <1>2. e \in E /\ \A y \in E : e <= y
    <2>. HIDE DEF E
    <2>. QED BY <1>1, MinExists
  <1>3. \E j \in index : j[1] = e
    BY <1>2
  <1>4. S \in SUBSET Nat /\ S # {}
    <2>. HIDE DEF e
    <2>. QED BY <1>3
  <1>5. s \in S /\ \A y \in S : s <= y
    <2>. HIDE DEF S
    <2>. QED BY <1>4, MinExists
  <1>. HIDE DEF s, e
  <1>6. PICK i \in index : i[1] = e /\ i[2] = s
    BY <1>5
  <1>7. ASSUME NEW j \in index PROVE Sooner(i, j)
    <2>1. i[1] \in Nat /\ j[1] \in Nat /\ e <= j[1]
      BY <1>2
    <2>2. CASE j[1] = e
      <3>1. s <= j[2]
        BY <1>5, <2>2
      <3>. QED BY <1>6, <2>2, <3>1 DEF Sooner
    <2>3. CASE j[1] # e
      BY <1>6, <2>1, <2>3 DEF Sooner
    <2>. QED BY <2>2, <2>3
  <1>8. \E k \in index : \A j \in index : Sooner(k, j)
    BY <1>7
  <1>. QED BY <1>8 DEF FirstOf

\* Entries that are taken out of map and index.
Without(t, gone) == [a \in Addrs |-> IF \E i \in gone : i[3] = a THEN Hole ELSE t.entries[a]]

\* purge_expired keeps map and index together, and takes what has expired only.
LEMMA PurgedSound ==
  ASSUME NEW t, NamesSound(t), NEW learned \in Lessons, NEW old \in Nat, NEW now \in Nat, old <= now, NamesAgree(t, learned, old)
  PROVE  NamesSound(Purged(t, now)) /\ NamesAgree(Purged(t, now), learned, now)
  <1>. DEFINE due == {i \in t.index : i[1] <= now}
              e == Without(t, due)
              u == Purged(t, now)
  <1>1. t \in Tables /\ t.entries \in [Addrs -> NameEntries \cup {Hole}] /\ due \subseteq t.index
    BY TableTyped DEF NamesSound
  <1>2. u = [t EXCEPT !.index = t.index \ due, !.entries = e]
    BY DEF Purged, Without
  <1>3. \A a \in Addrs : e[a] = IF \E i \in due : i[3] = a THEN Hole ELSE t.entries[a]
    BY DEF Without
  <1>4. e \in [Addrs -> NameEntries \cup {Hole}]
    <2>1. DOMAIN e = Addrs /\ e = [a \in Addrs |-> e[a]]
      BY DEF Without
    <2>. HIDE DEF e
    <2>. QED BY <1>1, <1>3, <2>1
  <1>5. ASSUME NEW a \in NamesHeld(t)
        PROVE  (\E i \in due : i[3] = a) <=> t.entries[a].expires <= now
    <2>1. ASSUME NEW i \in due, i[3] = a PROVE t.entries[a].expires <= now
      <3>1. i \in t.index /\ i[1] <= now /\ i[1] = t.entries[i[3]].expires
        BY IndexIs
      <3>. QED BY <2>1, <3>1
    <2>2. ASSUME t.entries[a].expires <= now PROVE IndexEntry(t, a) \in due /\ IndexEntry(t, a)[3] = a
      <3>1. IndexEntry(t, a) \in t.index /\ IndexEntry(t, a)[3] = a /\ IndexEntry(t, a)[1] = t.entries[a].expires
        BY IndexIs DEF IndexEntry
      <3>. QED BY <2>2, <3>1
    <2>. QED BY <2>1, <2>2
  <1>. HIDE DEF due, e, u
  <1>6. u.entries = e /\ u.index = t.index \ due /\ u.seq = t.seq /\ u.evictions = t.evictions
    BY <1>1, <1>2 DEF Tables
  <1>7. u \in Tables
    BY <1>1, <1>2, <1>4, <1>6 DEF Tables
  <1>8. NamesHeld(u) = {a \in NamesHeld(t) : ~(t.entries[a].expires <= now)}
    BY <1>3, <1>5, <1>6 DEF NamesHeld
  <1>9. \A a \in NamesHeld(u) : u.entries[a] = t.entries[a] /\ IndexEntry(u, a) = IndexEntry(t, a)
    BY <1>3, <1>6 DEF NamesHeld, IndexEntry
  <1>10. u.index = {IndexEntry(u, a) : a \in NamesHeld(u)}
    <2>1. ASSUME NEW i \in u.index PROVE \E a \in NamesHeld(u) : i = IndexEntry(u, a)
      <3>1. i \in t.index /\ i \notin due
        BY <1>6
      <3>2. i[3] \in NamesHeld(t) /\ i = IndexEntry(t, i[3]) /\ i[1] = t.entries[i[3]].expires
        BY <3>1, IndexIs
      <3>3. ~(t.entries[i[3]].expires <= now)
        BY <3>1, <3>2 DEF due
      <3>. QED BY <1>8, <1>9, <3>2, <3>3
    <2>2. ASSUME NEW a \in NamesHeld(u) PROVE IndexEntry(u, a) \in u.index
      <3>1. IndexEntry(t, a) \in t.index /\ IndexEntry(t, a)[1] = t.entries[a].expires /\ ~(t.entries[a].expires <= now)
        BY <1>8, IndexIs DEF IndexEntry
      <3>. QED BY <1>6, <1>9, <3>1 DEF due
    <2>. QED BY <2>1, <2>2
  <1>11. Cardinality(NamesHeld(u)) <= NameCapacity
    <2>1. NamesHeld(u) \subseteq NamesHeld(t) /\ IsFiniteSet(NamesHeld(t)) /\ Cardinality(NamesHeld(t)) \in Nat
          /\ Cardinality(NamesHeld(u)) \in Nat
      BY <1>1, <1>7, <1>8, TableTyped
    <2>2. Cardinality(NamesHeld(u)) <= Cardinality(NamesHeld(t)) /\ Cardinality(NamesHeld(t)) <= NameCapacity
      BY <2>1, FS_Subset DEF NamesSound
    <2>. QED BY <2>1, <2>2, DnsNamesAssumption
  <1>12. NamesSound(u)
    BY <1>6, <1>7, <1>8, <1>9, <1>10, <1>11 DEF NamesSound
  <1>13. NamesAgree(u, learned, now)
    <2>. SUFFICES ASSUME NEW a \in Addrs
                  PROVE IF u.entries[a] # Hole
                        THEN learned[a] # Hole /\ learned[a].name = u.entries[a].name /\ learned[a].expires = u.entries[a].expires
                        ELSE learned[a] # Hole /\ learned[a].expires > now => u.evictions > 0
      BY DEF NamesAgree
    <2>1. CASE u.entries[a] # Hole
      <3>1. a \in NamesHeld(u) /\ u.entries[a] = t.entries[a]
        BY <1>9, <2>1 DEF NamesHeld
      <3>. QED BY <2>1, <3>1 DEF NamesAgree
    <2>2. CASE u.entries[a] = Hole
      <3>1. CASE t.entries[a] = Hole
        <4>1. learned[a] # Hole => learned[a].expires \in Nat
          BY DEF Lessons
        <4>2. learned[a] # Hole /\ learned[a].expires > now => learned[a].expires > old
          BY <4>1
        <4>. QED BY <1>6, <2>2, <3>1, <4>2 DEF NamesAgree
      <3>2. CASE t.entries[a] # Hole
        <4>1. a \in NamesHeld(t) /\ a \notin NamesHeld(u)
          BY <2>2, <3>2 DEF NamesHeld
        <4>2. t.entries[a].expires <= now /\ t.entries[a].expires \in Nat
          BY <1>1, <1>8, <4>1, TableTyped
        <4>3. learned[a].expires = t.entries[a].expires
          BY <3>2 DEF NamesAgree
        <4>. QED BY <2>2, <4>2, <4>3
      <3>. QED BY <3>1, <3>2
    <2>. QED BY <2>1, <2>2
  <1>. QED BY <1>12, <1>13 DEF u

\* The table has no room for the address.
Full(t, addr) == t.entries[addr] = Hole /\ Cardinality(NamesHeld(t)) >= NameCapacity /\ t.index # {}

\* What an insertion takes out: the entry it replaces, or the first one when it is full.
Gone(t, addr) ==
  IF t.entries[addr] # Hole THEN {addr}
  ELSE IF Full(t, addr) THEN {FirstOf(t.index)[3]} ELSE {}

\* What an insertion leaves, field by field.
LEMMA InsertedIs ==
  ASSUME NEW t, NamesSound(t), NEW addr \in Addrs, NEW name, NEW expires
  PROVE  LET u == NameInserted(t, addr, name, expires)
             gone == Gone(t, addr)
         IN /\ DOMAIN u.entries = Addrs
            /\ u.entries = [a \in Addrs |-> u.entries[a]]
            /\ u.entries[addr] = [name |-> name, expires |-> expires, seq |-> t.seq]
            /\ \A a \in Addrs \ {addr} : u.entries[a] = IF a \in gone THEN Hole ELSE t.entries[a]
            /\ u.index = {i \in t.index : i[3] \notin gone} \cup {<<expires, t.seq, addr>>}
            /\ u.seq = t.seq + 1
            /\ u = [entries |-> u.entries, index |-> u.index, seq |-> u.seq, evictions |-> u.evictions]
            /\ gone \subseteq NamesHeld(t)
  <1>. DEFINE old == t.entries[addr]
              full == old = Hole /\ Cardinality(NamesHeld(t)) >= NameCapacity /\ t.index # {}
              out == IF old # Hole THEN {<<old.expires, old.seq, addr>>}
                     ELSE IF full THEN {FirstOf(t.index)} ELSE {}
              gone == Gone(t, addr)
              kept == [a \in Addrs |-> IF \E i \in out : i[3] = a THEN Hole ELSE t.entries[a]]
              u == NameInserted(t, addr, name, expires)
              x == [name |-> name, expires |-> expires, seq |-> t.seq]
  <1>1. t \in Tables /\ t.index \in SUBSET (Nat \X Nat \X Addrs)
    BY TableTyped DEF NamesSound
  <1>2. gone \subseteq NamesHeld(t) /\ out = {IndexEntry(t, a) : a \in gone}
    <2>1. CASE old # Hole
      BY <2>1 DEF Gone, Full, NamesHeld, IndexEntry
    <2>2. CASE full
      <3>1. FirstOf(t.index) \in t.index
        BY <1>1, <2>2, FirstIs
      <3>2. FirstOf(t.index)[3] \in NamesHeld(t) /\ FirstOf(t.index) = IndexEntry(t, FirstOf(t.index)[3])
        BY <3>1, IndexIs
      <3>3. out = {FirstOf(t.index)} /\ gone = {FirstOf(t.index)[3]}
        BY <2>2 DEF Gone, Full
      <3>. HIDE DEF out, gone
      <3>. QED BY <3>2, <3>3
    <2>3. CASE old = Hole /\ ~full
      BY <2>3 DEF Gone, Full
    <2>. QED BY <2>1, <2>2, <2>3
  <1>3. u = [entries |-> [kept EXCEPT ![addr] = x], index |-> (t.index \ out) \cup {<<expires, t.seq, addr>>},
             seq |-> t.seq + 1, evictions |-> t.evictions + (IF full THEN 1 ELSE 0)]
    BY DEF NameInserted
  <1>4. DOMAIN kept = Addrs /\ \A a \in Addrs : kept[a] = IF \E i \in out : i[3] = a THEN Hole ELSE t.entries[a]
    OBVIOUS
  <1>. DEFINE e == [kept EXCEPT ![addr] = x]
  <1>5. DOMAIN e = Addrs /\ e[addr] = x /\ e = [a \in Addrs |-> e[a]] /\ \A a \in Addrs \ {addr} : e[a] = kept[a]
    <2>. HIDE DEF kept, x
    <2>. QED BY <1>4
  <1>. HIDE DEF e, kept, out, gone, full, u
  <1>6. \A a \in gone : IndexEntry(t, a)[3] = a
    BY DEF IndexEntry
  <1>7. \A a \in Addrs : (\E i \in out : i[3] = a) <=> a \in gone
    BY <1>2, <1>6
  <1>8. t.index \ out = {i \in t.index : i[3] \notin gone}
    <2>1. ASSUME NEW i \in t.index PROVE i \in out <=> i[3] \in gone
      <3>1. i = IndexEntry(t, i[3])
        BY IndexIs
      <3>. QED BY <1>2, <1>6, <3>1
    <2>. QED BY <2>1
  <1>9. /\ u.entries = e /\ u.index = (t.index \ out) \cup {<<expires, t.seq, addr>>}
        /\ u.seq = t.seq + 1
        /\ u = [entries |-> u.entries, index |-> u.index, seq |-> u.seq, evictions |-> u.evictions]
    BY <1>3 DEF e
  <1>10. \A a \in Addrs \ {addr} : u.entries[a] = IF a \in gone THEN Hole ELSE t.entries[a]
    BY <1>4, <1>5, <1>7, <1>9
  <1>. QED BY <1>2, <1>5, <1>8, <1>9, <1>10 DEF gone, full, Full, u, x

\* Only an insertion into a table that is full counts as an eviction.
LEMMA EvictionCounted ==
  ASSUME NEW t, NamesSound(t), NEW addr, NEW name, NEW expires
  PROVE  LET u == NameInserted(t, addr, name, expires)
         IN /\ t.evictions \in Nat /\ u.evictions \in Nat /\ u.evictions >= t.evictions
            /\ Full(t, addr) => u.evictions > 0
  <1>. DEFINE u == NameInserted(t, addr, name, expires)
              full == Full(t, addr)
  <1>1. t.evictions \in Nat
    BY TableTyped DEF NamesSound
  <1>2. u.evictions = t.evictions + (IF full THEN 1 ELSE 0)
    BY DEF NameInserted, Full
  <1>. HIDE DEF u, full
  <1>3. u.evictions \in Nat /\ u.evictions >= t.evictions /\ (full => u.evictions > 0)
    BY <1>1, <1>2
  <1>. QED BY <1>1, <1>3 DEF u, full

\* insert keeps map and index together and stays within the capacity.
LEMMA InsertedSound ==
  ASSUME NEW t, NamesSound(t), NEW addr \in Addrs, NEW name \in STRING, NEW expires \in Nat
  PROVE  NamesSound(NameInserted(t, addr, name, expires))
  <1>. DEFINE u == NameInserted(t, addr, name, expires)
              gone == Gone(t, addr)
              x == [name |-> name, expires |-> expires, seq |-> t.seq]
              rest == NamesHeld(t) \ (gone \cup {addr})
  <1>1. /\ DOMAIN u.entries = Addrs
        /\ u.entries = [a \in Addrs |-> u.entries[a]]
        /\ u.entries[addr] = x
        /\ \A a \in Addrs \ {addr} : u.entries[a] = IF a \in gone THEN Hole ELSE t.entries[a]
        /\ u.index = {i \in t.index : i[3] \notin gone} \cup {<<expires, t.seq, addr>>}
        /\ u.seq = t.seq + 1
        /\ u = [entries |-> u.entries, index |-> u.index, seq |-> u.seq, evictions |-> u.evictions]
        /\ gone \subseteq NamesHeld(t)
    BY InsertedIs
  <1>1a. u.evictions \in Nat
    BY EvictionCounted
  <1>. HIDE DEF u, gone
  <1>2. /\ t \in Tables /\ t.entries \in [Addrs -> NameEntries \cup {Hole}] /\ t.index \in SUBSET (Nat \X Nat \X Addrs)
        /\ t.seq \in Nat
        /\ \A a \in NamesHeld(t) : /\ a \in Addrs /\ t.entries[a] \in NameEntries /\ t.entries[a] # Hole
                                   /\ t.entries[a].expires \in Nat /\ t.entries[a].seq \in Nat
        /\ IsFiniteSet(NamesHeld(t)) /\ Cardinality(NamesHeld(t)) \in Nat
    BY TableTyped DEF NamesSound
  <1>3. x \in NameEntries /\ x # Hole /\ x.expires = expires /\ x.seq = t.seq
    BY <1>2, DnsNamesAssumption DEF NameEntries
  <1>. HIDE DEF x
  <1>4. u \in Tables
    <2>1. \A a \in Addrs : u.entries[a] \in NameEntries \cup {Hole}
      BY <1>1, <1>2, <1>3
    <2>2. u.entries \in [Addrs -> NameEntries \cup {Hole}]
      BY <1>1, <2>1
    <2>3. u.index \in SUBSET (Nat \X Nat \X Addrs) /\ u.seq \in Nat
      BY <1>1, <1>2
    <2>. QED BY <1>1, <1>1a, <2>2, <2>3 DEF Tables
  <1>5. NamesHeld(u) = rest \cup {addr} /\ \A a \in rest : u.entries[a] = t.entries[a] /\ IndexEntry(u, a) = IndexEntry(t, a)
    BY <1>1, <1>3 DEF NamesHeld, IndexEntry
  <1>6. IndexEntry(u, addr) = <<expires, t.seq, addr>>
    BY <1>1, <1>3 DEF IndexEntry
  <1>7. addr \in NamesHeld(t) => addr \in gone
    BY DEF gone, Gone, NamesHeld
  <1>8. u.index = {IndexEntry(u, a) : a \in NamesHeld(u)}
    <2>1. ASSUME NEW i \in t.index, i[3] \notin gone PROVE \E a \in NamesHeld(u) : i = IndexEntry(u, a)
      <3>1. i[3] \in NamesHeld(t) /\ i = IndexEntry(t, i[3])
        BY IndexIs
      <3>2. i[3] \in rest
        BY <1>7, <2>1, <3>1
      <3>. HIDE DEF rest
      <3>. QED BY <1>5, <3>1, <3>2
    <2>2. ASSUME NEW a \in rest PROVE IndexEntry(u, a) \in u.index
      <3>1. IndexEntry(t, a) \in t.index /\ IndexEntry(t, a)[3] = a /\ a \notin gone
        BY IndexIs
      <3>. QED BY <1>1, <1>5, <3>1
    <2>. HIDE DEF rest
    <2>3. ASSUME NEW i \in u.index PROVE \E a \in NamesHeld(u) : i = IndexEntry(u, a)
      BY <1>1, <1>5, <1>6, <2>1
    <2>4. ASSUME NEW a \in NamesHeld(u) PROVE IndexEntry(u, a) \in u.index
      BY <1>1, <1>5, <1>6, <2>2
    <2>. QED BY <2>3, <2>4
  <1>9. /\ \A a \in NamesHeld(u) : u.entries[a].seq < u.seq
        /\ \A a, b \in NamesHeld(u) : u.entries[a].seq = u.entries[b].seq => a = b
    <2>1. /\ \A a \in NamesHeld(t) : t.entries[a].seq < t.seq /\ t.entries[a].seq \in Nat
          /\ \A a, b \in NamesHeld(t) : t.entries[a].seq = t.entries[b].seq => a = b
      BY <1>2 DEF NamesSound
    <2>2. u.entries[addr].seq = t.seq
      BY <1>1, <1>3
    <2>3. \A a \in rest : u.entries[a].seq < t.seq /\ u.entries[a].seq \in Nat
      BY <1>5, <2>1
    <2>4. \A a, b \in rest : u.entries[a].seq = u.entries[b].seq => a = b
      BY <1>5, <2>1
    <2>. HIDE DEF rest
    <2>. QED BY <1>1, <1>2, <1>5, <2>2, <2>3, <2>4
  <1>10. Cardinality(NamesHeld(u)) <= NameCapacity
    <2>1. IsFiniteSet(rest) /\ Cardinality(rest) \in Nat
      BY <1>2, FS_Subset, FS_CardinalityType
    <2>2. addr \notin rest
      OBVIOUS
    <2>3. Cardinality(NamesHeld(u)) = Cardinality(rest) + 1
      <3>. HIDE DEF rest
      <3>. QED BY <1>5, <2>1, <2>2, FS_AddElement
    <2>4. CASE gone # {}
      <3>1. PICK g \in gone : TRUE
        BY <2>4
      <3>2. g \in NamesHeld(t) /\ rest \subseteq NamesHeld(t) \ {g}
        BY <1>1
      <3>3. IsFiniteSet(NamesHeld(t) \ {g}) /\ Cardinality(NamesHeld(t) \ {g}) = Cardinality(NamesHeld(t)) - 1
        BY <1>2, <3>2, FS_RemoveElement
      <3>4. Cardinality(rest) <= Cardinality(NamesHeld(t)) - 1
        <4>. HIDE DEF rest
        <4>. QED BY <3>2, <3>3, FS_Subset
      <3>5. Cardinality(NamesHeld(t)) <= NameCapacity
        BY DEF NamesSound
      <3>. QED BY <1>2, <2>1, <2>3, <3>4, <3>5, DnsNamesAssumption
    <2>5. CASE gone = {}
      <3>1. t.entries[addr] = Hole /\ ~(Cardinality(NamesHeld(t)) >= NameCapacity /\ t.index # {})
        BY <2>5 DEF gone, Gone, Full
      <3>2. rest \subseteq NamesHeld(t)
        OBVIOUS
      <3>3. Cardinality(rest) <= Cardinality(NamesHeld(t))
        <4>. HIDE DEF rest
        <4>. QED BY <1>2, <3>2, FS_Subset
      <3>4. CASE t.index = {}
        <4>1. NamesHeld(t) = {}
          BY <3>4, IndexIs
        <4>2. Cardinality(NamesHeld(t)) = 0
          BY <4>1, FS_EmptySet
        <4>. QED BY <1>2, <2>1, <2>3, <3>3, <4>2, DnsNamesAssumption
      <3>5. CASE Cardinality(NamesHeld(t)) < NameCapacity
        BY <1>2, <2>1, <2>3, <3>3, <3>5, DnsNamesAssumption
      <3>. QED BY <1>2, <3>1, <3>4, <3>5, DnsNamesAssumption
    <2>. QED BY <2>4, <2>5
  <1>11. NamesSound(u)
    BY <1>4, <1>8, <1>9, <1>10 DEF NamesSound
  <1>. QED BY <1>11 DEF u

\* What was learned, with one address more or another name for it.
NowAlso(learned, old, addr, name, expires) ==
  /\ \A a \in Addrs \ {addr} : learned[a] = old[a]
  /\ learned[addr] # Hole /\ learned[addr].name = name /\ learned[addr].expires = expires

\* insert teaches one address; another loses its name only when the table is full.
LEMMA InsertedAgrees ==
  ASSUME NEW t, NamesSound(t), NEW addr \in Addrs, NEW name \in STRING, NEW expires \in Nat,
         NEW now \in Nat, NEW old, NEW learned, NamesAgree(t, old, now),
         NowAlso(learned, old, addr, name, expires)
  PROVE  NamesAgree(NameInserted(t, addr, name, expires), learned, now)
  <1>. DEFINE u == NameInserted(t, addr, name, expires)
              gone == Gone(t, addr)
              x == [name |-> name, expires |-> expires, seq |-> t.seq]
              full == Full(t, addr)
  <1>0. /\ DOMAIN u.entries = Addrs
        /\ u.entries = [a \in Addrs |-> u.entries[a]]
        /\ u.entries[addr] = x
        /\ \A a \in Addrs \ {addr} : u.entries[a] = IF a \in gone THEN Hole ELSE t.entries[a]
        /\ u.index = {i \in t.index : i[3] \notin gone} \cup {<<expires, t.seq, addr>>}
    BY InsertedIs
  <1>1. /\ u.entries[addr] = x
        /\ \A a \in Addrs \ {addr} : u.entries[a] = IF a \in gone THEN Hole ELSE t.entries[a]
    <2>. HIDE DEF u, gone, x
    <2>. QED BY <1>0
  <1>1a. u.evictions \in Nat /\ u.evictions >= t.evictions /\ (full => u.evictions > 0)
    BY EvictionCounted
  <1>1b. /\ \A a \in Addrs \ {addr} : learned[a] = old[a]
         /\ learned[addr] # Hole /\ learned[addr].name = name /\ learned[addr].expires = expires
    BY DEF NowAlso
  <1>2. x.name = name /\ x.expires = expires /\ t.evictions \in Nat /\ t.seq \in Nat
    BY TableTyped DEF NamesSound
  <1>3. \A a \in Addrs \ {addr} : a \in gone => full
    <2>1. CASE t.entries[addr] # Hole
      BY <2>1 DEF Gone
    <2>2. CASE t.entries[addr] = Hole /\ ~full
      BY <2>2 DEF Gone, Full
    <2>. QED BY <2>1, <2>2
  <1>. HIDE DEF u, gone, x, full
  <1>4. u.evictions >= t.evictions /\ (full => u.evictions > 0)
    BY <1>1a, <1>2
  <1>5. ASSUME NEW a \in Addrs
        PROVE IF u.entries[a] # Hole
              THEN learned[a] # Hole /\ learned[a].name = u.entries[a].name /\ learned[a].expires = u.entries[a].expires
              ELSE learned[a] # Hole /\ learned[a].expires > now => u.evictions > 0
    <2>1. CASE a = addr
      <3>1. x # Hole
        <4>1. x \in NameEntries
          BY <1>2 DEF NameEntries, x
        <4>. QED BY <4>1, DnsNamesAssumption
      <3>. QED BY <1>1, <1>1b, <1>2, <2>1, <3>1
    <2>2. CASE a # addr /\ a \in gone
      <3>1. full /\ u.entries[a] = Hole
        BY <1>1, <1>3, <2>2
      <3>. QED BY <1>4, <3>1
    <2>3. CASE a # addr /\ a \notin gone
      <3>1. u.entries[a] = t.entries[a] /\ learned[a] = old[a]
        BY <1>1, <1>1b, <2>3
      <3>2. /\ t.entries[a] # Hole =>
                 learned[a] # Hole /\ learned[a].name = t.entries[a].name /\ learned[a].expires = t.entries[a].expires
            /\ t.entries[a] = Hole => (learned[a] # Hole /\ learned[a].expires > now => t.evictions > 0)
        BY <3>1 DEF NamesAgree
      <3>3. t.evictions > 0 => u.evictions > 0
        BY <1>1a, <1>2
      <3>. QED BY <3>1, <3>2, <3>3
    <2>. QED BY <2>1, <2>2, <2>3
  <1>. QED BY <1>5 DEF NamesAgree, u

\* One pass over the records.
OnePass(reached, answers) ==
  FoldLeft(LAMBDA r, a : IF a.rtype = "CNAME" /\ a.name \in r THEN r \cup {a.data} ELSE r,
           reached, answers)

\* The targets of CNAMEs whose owner is in S are.
ClosedUnder(S, answers) ==
  \A i \in 1..Len(answers) : answers[i].rtype = "CNAME" /\ answers[i].name \in S => answers[i].data \in S

\* A pass adds targets only, and those of every owner it started with.
LEMMA PassIs ==
  ASSUME NEW answers \in Seq(AnswerRecord), NEW N, \A i \in 1..Len(answers) : answers[i].data \in N,
         NEW r \in SUBSET N
  PROVE  /\ OnePass(r, answers) \in SUBSET N
         /\ r \subseteq OnePass(r, answers)
         /\ \A i \in 1..Len(answers) : answers[i].rtype = "CNAME" /\ answers[i].name \in r
                                         => answers[i].data \in OnePass(r, answers)
         /\ \A S : r \subseteq S /\ ClosedUnder(S, answers) => OnePass(r, answers) \subseteq S
  <1>. DEFINE n == Len(answers)
              V == SUBSET N
              Step(acc, a) == IF a.rtype = "CNAME" /\ a.name \in acc THEN acc \cup {a.data} ELSE acc
              G == [p \in (1..n) \X V |-> Step(p[2], answers[p[1]])]
              Solves(f) == f = [s \in SUBSET DOMAIN answers |->
                                  IF s = {} THEN r ELSE Step(f[s \ {Max(s)}], answers[Max(s)])]
              iter == CHOOSE f : Solves(f)
  <1>1. n \in Nat /\ DOMAIN answers = 1..n
    OBVIOUS
  <1>2. OnePass(r, answers) = iter[DOMAIN answers]
    BY DEF OnePass, FoldLeft, MapThenFoldSet
  <1>3. ASSUME NEW k \in 1..n, NEW acc \in V
        PROVE  Step(acc, answers[k]) \in V /\ G[<<k, acc>>] = Step(acc, answers[k])
    <2>1. Step(acc, answers[k]) \in V
      OBVIOUS
    <2>2. <<k, acc>> \in (1..n) \X V
      OBVIOUS
    <2>. HIDE DEF n, V, Step
    <2>. QED BY <2>1, <2>2
  <1>. HIDE DEF n, Step
  <1>4. G \in [(1..n) \X V -> V]
    <2>. SUFFICES ASSUME NEW p \in (1..n) \X V PROVE Step(p[2], answers[p[1]]) \in V
      OBVIOUS
    <2>. HIDE DEF V
    <2>. QED BY <1>3
  <1>4a. r \in V
    OBVIOUS
  <1>. HIDE DEF G, V
  <1>5. PICK f \in [SUBSET (1..n) -> V] : LeftFolds(f, n, G, r)
    BY <1>1, <1>4, <1>4a, LeftFoldExists
  <1>6. \A s \in SUBSET (1..n) : f[s] = IF s = {} THEN r ELSE Step(f[s \ {Max(s)}], answers[Max(s)])
    BY <1>1, <1>3, <1>5, MaxOfIndices DEF LeftFolds
  <1>7. Solves(f)
    BY <1>1, <1>5, <1>6
  <1>8. Solves(iter)
    BY <1>7
  <1>. HIDE DEF iter
  <1>9. \A s \in SUBSET (1..n) : iter[s] = IF s = {} THEN r ELSE Step(iter[s \ {Max(s)}], answers[Max(s)])
    BY <1>1, <1>8, Zenon
  <1>10. FoldsOver(iter, n, V, G, r)
    <2>. SUFFICES ASSUME NEW s \in SUBSET (1..n)
                  PROVE  /\ s = {} => iter[s] = r
                         /\ s # {} /\ iter[s \ {Max(s)}] \in V => iter[s] = G[<<Max(s), iter[s \ {Max(s)}]>>]
      BY DEF FoldsOver
    <2>1. s # {} => Max(s) \in 1..n
      BY <1>1, MaxOfIndices
    <2>. QED BY <1>3, <1>9, <2>1
  <1>11. PICK h \in [0..n -> V] : Running(h, n, G, r) /\ iter[1..n] = h[n]
    <2>1. RunsTo(iter[1..n], n, V, G, r)
      BY <1>1, <1>4, <1>4a, <1>10, LeftFoldSteps
    <2>. QED BY <2>1 DEF RunsTo
  <1>. DEFINE Ok(k) ==
                /\ r \subseteq h[k]
                /\ \A i \in 1..k : answers[i].rtype = "CNAME" /\ answers[i].name \in r => answers[i].data \in h[k]
                /\ \A S : r \subseteq S /\ ClosedUnder(S, answers) => h[k] \subseteq S
              T == {k \in Nat : k <= n => Ok(k)}
  <1>12. 0 \in T
    BY <1>1, <1>11 DEF Running
  <1>13. ASSUME NEW k \in Nat, k \in T PROVE k + 1 \in T
    <2>. SUFFICES ASSUME k + 1 <= n PROVE Ok(k + 1)
      OBVIOUS
    <2>1. k + 1 \in 1..n /\ k \in 0..n /\ (k + 1) - 1 = k /\ Ok(k)
      BY <1>1, <1>13
    <2>2. h[k] \in V /\ h[k+1] = Step(h[k], answers[k+1])
      BY <1>3, <1>11, <2>1 DEF Running
    <2>3. h[k] \subseteq h[k+1]
      BY <2>2 DEF Step
    <2>4. answers[k+1].rtype = "CNAME" /\ answers[k+1].name \in r => answers[k+1].data \in h[k+1]
      <3>1. r \subseteq h[k]
        BY <2>1
      <3>. QED BY <2>2, <3>1 DEF Step
    <2>5. ASSUME NEW S, r \subseteq S, ClosedUnder(S, answers) PROVE h[k+1] \subseteq S
      <3>1. h[k] \subseteq S
        BY <2>1, <2>5
      <3>2. answers[k+1].rtype = "CNAME" /\ answers[k+1].name \in S => answers[k+1].data \in S
        BY <2>1, <2>5 DEF ClosedUnder, n
      <3>. QED BY <2>2, <3>1, <3>2 DEF Step
    <2>6. ASSUME NEW i \in 1..(k+1), answers[i].rtype = "CNAME", answers[i].name \in r PROVE answers[i].data \in h[k+1]
      <3>1. CASE i = k + 1
        BY <2>4, <2>6, <3>1
      <3>2. CASE i # k + 1
        <4>1. i \in 1..k
          BY <3>2
        <4>. QED BY <2>1, <2>3, <2>6, <4>1
      <3>. QED BY <3>1, <3>2
    <2>. QED BY <2>1, <2>3, <2>5, <2>6
  <1>14. Ok(n)
    <2>. HIDE DEF T, Ok
    <2>1. Nat \subseteq T
      BY <1>12, <1>13, NatSetInduction
    <2>. QED BY <1>1, <2>1 DEF T
  <1>15. OnePass(r, answers) = h[n] /\ h[n] \in V
    BY <1>1, <1>2, <1>11
  <1>. QED BY <1>14, <1>15 DEF n, V

\* The names a question reaches: those in every set that holds it and, with an owner,
\* the target of its CNAMEs.
LEMMA ReachableIs ==
  ASSUME NEW answers \in Seq(AnswerRecord), NEW name, NEW N, name \in N,
         \A i \in 1..Len(answers) : answers[i].data \in N
  PROVE  /\ name \in Reachable(name, answers) /\ ClosedUnder(Reachable(name, answers), answers)
         /\ Reachable(name, answers) \in SUBSET N
         /\ \A S : name \in S /\ ClosedUnder(S, answers) => Reachable(name, answers) \subseteq S
  <1>. DEFINE n == Len(answers)
              D == {name} \cup {answers[i].data : i \in 1..n}
              V == SUBSET D
              P == [r \in V |-> OnePass(r, answers)]
              Solves(f) == f = [k \in 0..n |-> IF k = 0 THEN {name} ELSE OnePass(f[k-1], answers)]
              after == CHOOSE f : Solves(f)
  <1>0. Reachable(name, answers) = after[n]
    BY DEF Reachable, OnePass
  <1>1. n \in Nat /\ Reachable(name, answers) = after[n]
    BY <1>0
  <1>2. \A i \in 1..n : answers[i].data \in D
    OBVIOUS
  <1>3. ASSUME NEW r \in V
        PROVE  /\ OnePass(r, answers) \in V /\ P[r] = OnePass(r, answers)
               /\ r \subseteq OnePass(r, answers)
               /\ \A i \in 1..n : answers[i].rtype = "CNAME" /\ answers[i].name \in r
                                         => answers[i].data \in OnePass(r, answers)
               /\ \A S : r \subseteq S /\ ClosedUnder(S, answers) => OnePass(r, answers) \subseteq S
    <2>. HIDE DEF D
    <2>. QED BY <1>2, PassIs
  <1>4. {name} \in V
    OBVIOUS
  <1>5. P \in [V -> V]
    BY <1>3
  <1>. HIDE DEF P, V, n
  <1>6. PICK h \in [0..n -> V] : h[0] = {name} /\ \A k \in 1..n : h[k] = P[h[k-1]]
    <2>. DEFINE base == {name}
    <2>1. base \in V
      BY <1>4
    <2>. HIDE DEF base
    <2>2. \E h \in [0..n -> V] : Iterates(h, n, P, base)
      BY <1>1, <1>5, <2>1, IterExists
    <2>. QED BY <2>2 DEF base, Iterates
  <1>7. Solves(h)
    <2>1. \A k \in 0..n : h[k] = IF k = 0 THEN {name} ELSE OnePass(h[k-1], answers)
      <3>. SUFFICES ASSUME NEW k \in 1..n PROVE h[k] = OnePass(h[k-1], answers)
        BY <1>1, <1>6
      <3>1. k - 1 \in 0..n /\ h[k-1] \in V
        BY <1>1
      <3>. QED BY <1>3, <1>6, <3>1
    <2>. QED BY <2>1
  <1>8. Solves(after)
    BY <1>7
  <1>. HIDE DEF after
  <1>9. \A k \in 0..n : after[k] = IF k = 0 THEN {name} ELSE OnePass(after[k-1], answers)
    BY <1>8, Zenon DEF n
  <1>. DEFINE Ok(k) ==
                /\ after[k] \in V /\ name \in after[k]
                /\ \A S : name \in S /\ ClosedUnder(S, answers) => after[k] \subseteq S
                /\ ClosedUnder(after[k], answers) \/ Cardinality(after[k]) >= k + 1
              T == {k \in Nat : k <= n => Ok(k)}
  <1>10. IsFiniteSet(D) /\ Cardinality(D) <= n + 1
    <2>. DEFINE I == {answers[i].data : i \in 1..n}
    <2>1. IsFiniteSet(1..n) /\ Cardinality(1..n) = n
      BY <1>1, FS_Interval
    <2>. DEFINE g == [i \in 1..n |-> answers[i].data]
    <2>2. g \in Surjection(1..n, I)
      <3>1. g \in [1..n -> I] /\ \A x \in I : \E i \in 1..n : g[i] = x
        OBVIOUS
      <3>. HIDE DEF g, I
      <3>. QED BY <3>1 DEF Surjection
    <2>3. IsFiniteSet(I) /\ Cardinality(I) <= n
      <3>. HIDE DEF I, g
      <3>. QED BY <2>1, <2>2, FS_Surjection
    <2>4. IsFiniteSet(I \cup {name}) /\ Cardinality(I) \in Nat
          /\ Cardinality(I \cup {name}) = IF name \in I THEN Cardinality(I) ELSE Cardinality(I) + 1
      <3>. HIDE DEF I
      <3>. QED BY <2>3, FS_AddElement, FS_CardinalityType
    <2>5. D = I \cup {name}
      OBVIOUS
    <2>. HIDE DEF I, D
    <2>. QED BY <1>1, <2>3, <2>4, <2>5
  <1>11. \A x \in V : IsFiniteSet(x) /\ Cardinality(x) \in Nat /\ Cardinality(x) <= n + 1
    <2>. SUFFICES ASSUME NEW x \in V PROVE IsFiniteSet(x) /\ Cardinality(x) \in Nat /\ Cardinality(x) <= n + 1
      OBVIOUS
    <2>1. x \subseteq D
      BY DEF V
    <2>. HIDE DEF D
    <2>2. IsFiniteSet(x) /\ Cardinality(x) <= Cardinality(D) /\ Cardinality(x) \in Nat /\ Cardinality(D) \in Nat
      BY <1>10, <2>1, FS_Subset, FS_CardinalityType
    <2>. QED BY <1>1, <1>10, <2>2
  <1>12. 0 \in T
    <2>1. after[0] = {name}
      BY <1>1, <1>9
    <2>2. Cardinality(after[0]) = 1
      BY <2>1, FS_Singleton
    <2>3. Ok(0)
      <3>1. after[0] \in V /\ name \in after[0] /\ Cardinality(after[0]) >= 0 + 1
        BY <1>4, <2>1, <2>2
      <3>2. \A S : name \in S /\ ClosedUnder(S, answers) => after[0] \subseteq S
        BY <2>1
      <3>. QED BY <3>1, <3>2
    <2>. HIDE DEF Ok
    <2>. QED BY <2>3
  <1>13. ASSUME NEW k \in Nat, k \in T PROVE k + 1 \in T
    <2>. SUFFICES ASSUME k + 1 <= n PROVE Ok(k + 1)
      OBVIOUS
    <2>. DEFINE a == after[k]
                b == after[k+1]
    <2>1. k + 1 \in 0..n /\ k \in 0..n /\ (k + 1) - 1 = k /\ k + 1 # 0 /\ Ok(k)
      BY <1>1, <1>13
    <2>2. b = OnePass(a, answers) /\ a \in V
      BY <1>9, <2>1
    <2>3. /\ b \in V /\ a \subseteq b
          /\ \A i \in 1..n : answers[i].rtype = "CNAME" /\ answers[i].name \in a => answers[i].data \in b
          /\ \A S : a \subseteq S /\ ClosedUnder(S, answers) => b \subseteq S
      BY <1>3, <2>2
    <2>4. name \in b /\ \A S : name \in S /\ ClosedUnder(S, answers) => b \subseteq S
      BY <2>1, <2>3
    <2>5. ClosedUnder(b, answers) \/ Cardinality(b) >= (k + 1) + 1
      <3>1. CASE b = a
        <4>1. ClosedUnder(b, answers)
          BY <2>3, <3>1 DEF ClosedUnder, n
        <4>. QED BY <4>1
      <3>2. CASE b # a /\ ClosedUnder(a, answers)
        <4>1. b \subseteq a
          BY <2>3, <3>2
        <4>. QED BY <2>3, <3>2, <4>1
      <3>3. CASE b # a /\ ~ClosedUnder(a, answers)
        <4>1. Cardinality(a) >= k + 1
          BY <2>1, <3>3
        <4>2. Cardinality(a) < Cardinality(b) /\ Cardinality(a) \in Nat /\ Cardinality(b) \in Nat
          <5>1. IsFiniteSet(b) /\ Cardinality(a) \in Nat /\ Cardinality(b) \in Nat
            BY <1>11, <2>2, <2>3
          <5>. HIDE DEF a, b
          <5>2. Cardinality(a) <= Cardinality(b) /\ (Cardinality(a) = Cardinality(b) => a = b)
            BY <2>3, <5>1, FS_Subset
          <5>. QED BY <3>3, <5>1, <5>2
        <4>. QED BY <4>1, <4>2
      <3>. QED BY <3>1, <3>2, <3>3
    <2>. QED BY <2>3, <2>4, <2>5
  <1>14. Ok(n)
    <2>. HIDE DEF T, Ok
    <2>1. Nat \subseteq T
      BY <1>12, <1>13, NatSetInduction
    <2>. QED BY <1>1, <2>1 DEF T
  <1>15. ClosedUnder(after[n], answers)
    <2>1. CASE Cardinality(after[n]) >= n + 1
      <3>1. IsFiniteSet(D) /\ Cardinality(D) \in Nat /\ after[n] \subseteq D /\ Cardinality(after[n]) \in Nat
        BY <1>10, <1>11, <1>14, FS_CardinalityType DEF V
      <3>2. Cardinality(after[n]) <= Cardinality(D)
        <4>. HIDE DEF D
        <4>. QED BY <3>1, FS_Subset
      <3>3. Cardinality(after[n]) = Cardinality(D)
        BY <1>1, <1>10, <2>1, <3>1, <3>2
      <3>4. after[n] = D
        <4>. HIDE DEF D
        <4>. QED BY <3>1, <3>3, FS_Subset
      <3>. QED BY <1>2, <3>4 DEF ClosedUnder, n
    <2>. QED BY <1>14, <2>1
  <1>16. after[n] \in SUBSET N
    <2>1. after[n] \subseteq D
      BY <1>14 DEF V
    <2>2. D \subseteq N
      BY DEF n
    <2>. QED BY <2>1, <2>2
  <1>. QED BY <1>1, <1>14, <1>15, <1>16

\* The records among the first k that give the address a name.
Gives(a, answers, reached, k) ==
  {i \in 1..k : answers[i].rtype = "A" /\ answers[i].data = a /\ answers[i].name \in reached}

\* What is learned after the first k records.
Lesson(name, answers, reached, learned, now, k) ==
  [a \in Addrs |->
     IF Gives(a, answers, reached, k) = {} THEN learned[a]
     ELSE [name |-> name, expires |-> now + Retention(answers[Max(Gives(a, answers, reached, k))].ttl)]]

\* A retention is a duration.
LEMMA RetentionNat ==
  ASSUME NEW ttl \in Nat
  PROVE  Retention(ttl) \in Nat
  BY DnsNamesAssumption DEF Retention, Smaller, Larger

\* The tables that are sound.
SoundTables == {u \in Tables : NamesSound(u)}

\* learn_response leaves what its records teach, one after the other.
LEMMA LearnedIs ==
  ASSUME NEW t, NamesSound(t), NEW learned \in Lessons, NEW old \in Nat, NEW now \in Nat, old <= now,
         NamesAgree(t, learned, old), NEW name \in STRING, name \notin Unlearnable, NEW answers \in Seq(AnswerRecord),
         \A i \in 1..Len(answers) : answers[i].rtype = "A" => answers[i].data \in Addrs \cup {Hole}
  PROVE  LET u == Learned(t, name, answers, now)
         IN NamesSound(u)
            /\ NamesAgree(u, Lesson(name, answers, Reachable(name, answers), learned, now, Len(answers)), now)
  <1>. DEFINE n == Len(answers)
              reached == Reachable(name, answers)
              base == Purged(t, now)
              V == SoundTables
              Step(u, a) == IF a.rtype = "A" /\ a.data # Hole /\ a.name \in reached
                            THEN NameInserted(u, a.data, name, now + Retention(a.ttl)) ELSE u
              G == [p \in (1..n) \X V |-> Step(p[2], answers[p[1]])]
              Solves(f) == f = [s \in SUBSET DOMAIN answers |->
                                  IF s = {} THEN base ELSE Step(f[s \ {Max(s)}], answers[Max(s)])]
              iter == CHOOSE f : Solves(f)
              L(k) == Lesson(name, answers, reached, learned, now, k)
  <1>1. n \in Nat /\ DOMAIN answers = 1..n
    OBVIOUS
  <1>2. Learned(t, name, answers, now) = iter[DOMAIN answers]
    BY DEF Learned, FoldLeft, MapThenFoldSet
  <1>3. ASSUME NEW k \in 1..n
        PROVE  /\ answers[k].ttl \in Nat /\ now + Retention(answers[k].ttl) \in Nat
               /\ answers[k].rtype = "A" /\ answers[k].data # Hole => answers[k].data \in Addrs
    <2>1. answers[k] \in AnswerRecord
      OBVIOUS
    <2>2. answers[k].ttl \in Nat
      BY <2>1 DEF AnswerRecord
    <2>3. Retention(answers[k].ttl) \in Nat
      BY <2>2, RetentionNat
    <2>. QED BY <2>2, <2>3
  <1>. HIDE DEF reached, n
  <1>4. \A u : u \in V <=> NamesSound(u)
    BY DEF SoundTables, NamesSound
  <1>5. base \in V /\ NamesAgree(base, learned, now)
    BY <1>4, PurgedSound
  <1>. HIDE DEF base, V
  <1>6. ASSUME NEW k \in 1..n, NEW acc \in V
        PROVE  Step(acc, answers[k]) \in V /\ G[<<k, acc>>] = Step(acc, answers[k])
    <2>1. Step(acc, answers[k]) \in V
      <3>1. CASE answers[k].rtype = "A" /\ answers[k].data # Hole /\ answers[k].name \in reached
        <4>. DEFINE a == answers[k].data
                    e == now + Retention(answers[k].ttl)
        <4>1. NamesSound(acc) /\ a \in Addrs /\ e \in Nat
          BY <1>3, <1>4, <3>1
        <4>2. Step(acc, answers[k]) = NameInserted(acc, a, name, e)
          BY <3>1
        <4>. HIDE DEF a, e, Step
        <4>3. NamesSound(NameInserted(acc, a, name, e))
          BY <4>1, InsertedSound
        <4>. QED BY <1>4, <4>2, <4>3
      <3>2. CASE ~(answers[k].rtype = "A" /\ answers[k].data # Hole /\ answers[k].name \in reached)
        BY <3>2
      <3>. QED BY <3>1, <3>2
    <2>2. <<k, acc>> \in (1..n) \X V
      OBVIOUS
    <2>. HIDE DEF Step
    <2>. QED BY <2>1, <2>2
  <1>. HIDE DEF Step
  <1>7. G \in [(1..n) \X V -> V]
    <2>. SUFFICES ASSUME NEW p \in (1..n) \X V PROVE Step(p[2], answers[p[1]]) \in V
      OBVIOUS
    <2>. QED BY <1>6
  <1>. HIDE DEF G
  <1>8. PICK f \in [SUBSET (1..n) -> V] : LeftFolds(f, n, G, base)
    BY <1>1, <1>5, <1>7, LeftFoldExists
  <1>9. \A s \in SUBSET (1..n) : f[s] = IF s = {} THEN base ELSE Step(f[s \ {Max(s)}], answers[Max(s)])
    BY <1>1, <1>6, <1>8, MaxOfIndices DEF LeftFolds
  <1>10. Solves(f)
    BY <1>1, <1>8, <1>9
  <1>11. Solves(iter)
    BY <1>10
  <1>. HIDE DEF iter
  <1>12. \A s \in SUBSET (1..n) : iter[s] = IF s = {} THEN base ELSE Step(iter[s \ {Max(s)}], answers[Max(s)])
    BY <1>1, <1>11, Zenon
  <1>13. FoldsOver(iter, n, V, G, base)
    <2>. SUFFICES ASSUME NEW s \in SUBSET (1..n)
                  PROVE  /\ s = {} => iter[s] = base
                         /\ s # {} /\ iter[s \ {Max(s)}] \in V => iter[s] = G[<<Max(s), iter[s \ {Max(s)}]>>]
      BY DEF FoldsOver
    <2>1. s # {} => Max(s) \in 1..n
      BY <1>1, MaxOfIndices
    <2>. QED BY <1>6, <1>12, <2>1
  <1>14. PICK h \in [0..n -> V] : Running(h, n, G, base) /\ iter[1..n] = h[n]
    <2>1. RunsTo(iter[1..n], n, V, G, base)
      BY <1>1, <1>5, <1>7, <1>13, LeftFoldSteps
    <2>. QED BY <2>1 DEF RunsTo
  <1>. DEFINE Ok(k) == NamesAgree(h[k], L(k), now)
              T == {k \in Nat : k <= n => Ok(k)}
  <1>15. 0 \in T
    <2>1. h[0] = base
      BY <1>14 DEF Running
    <2>2. \A a \in Addrs : L(0)[a] = learned[a]
      <3>1. \A a \in Addrs : Gives(a, answers, reached, 0) = {}
        BY DEF Gives
      <3>. QED BY <3>1 DEF Lesson
    <2>. HIDE DEF L
    <2>3. NamesAgree(h[0], L(0), now)
      BY <1>5, <2>1, <2>2 DEF NamesAgree
    <2>. QED BY <2>3
  <1>16. ASSUME NEW k \in Nat, k \in T PROVE k + 1 \in T
    <2>. SUFFICES ASSUME k + 1 <= n PROVE Ok(k + 1)
      OBVIOUS
    <2>1. k + 1 \in 1..n /\ k \in 0..n /\ (k + 1) - 1 = k /\ Ok(k)
      BY <1>1, <1>16
    <2>2. h[k] \in V /\ h[k+1] = Step(h[k], answers[k+1])
      BY <1>6, <1>14, <2>1 DEF Running
    <2>. DEFINE r == answers[k+1]
                a0 == r.data
                given == r.rtype = "A" /\ r.data # Hole /\ r.name \in reached
    <2>3. ASSUME NEW a \in Addrs, ~(given /\ a = a0)
          PROVE  L(k+1)[a] = L(k)[a]
      <3>1. Gives(a, answers, reached, k + 1) = Gives(a, answers, reached, k)
        <4>1. ~(r.rtype = "A" /\ r.data = a /\ r.name \in reached)
          BY <2>3, DnsNamesAssumption
        <4>. HIDE DEF given
        <4>2. \A i \in 1..(k+1) : i \in 1..k \/ i = k + 1
          OBVIOUS
        <4>3. 1..k \subseteq 1..(k+1)
          OBVIOUS
        <4>. QED BY <4>1, <4>2, <4>3 DEF Gives
      <3>. QED BY <3>1 DEF Lesson
    <2>4. CASE ~given
      <3>1. h[k+1] = h[k]
        BY <2>2, <2>4 DEF Step
      <3>2. \A a \in Addrs : L(k+1)[a] = L(k)[a]
        BY <2>3, <2>4
      <3>. HIDE DEF L, given
      <3>. QED BY <2>1, <3>1, <3>2 DEF NamesAgree
    <2>5. CASE given
      <3>. DEFINE e == now + Retention(r.ttl)
                  g == Gives(a0, answers, reached, k + 1)
                  x == [name |-> name, expires |-> e]
      <3>1. NamesSound(h[k]) /\ a0 \in Addrs /\ e \in Nat /\ h[k+1] = NameInserted(h[k], a0, name, e)
        BY <1>3, <1>4, <2>1, <2>2, <2>5 DEF Step
      <3>2. k + 1 \in g /\ g \in SUBSET (1..(k+1))
        BY <2>5 DEF Gives
      <3>3. Max(g) = k + 1
        <4>. HIDE DEF g
        <4>1. k + 1 \in Nat /\ g # {}
          BY <3>2
        <4>2. Max(g) \in g /\ Max(g) >= k + 1
          BY <3>2, <4>1, MaxOfIndices
        <4>3. Max(g) \in 1..(k+1)
          BY <3>2, <4>2
        <4>. QED BY <4>2, <4>3
      <3>4. L(k+1)[a0] = x
        <4>1. L(k+1)[a0] = IF g = {} THEN learned[a0] ELSE [name |-> name, expires |-> now + Retention(answers[Max(g)].ttl)]
          BY <3>1 DEF Lesson
        <4>. HIDE DEF L, g
        <4>. QED BY <3>2, <3>3, <4>1
      <3>5. x \in [name : STRING, expires : Nat]
        BY <3>1
      <3>6. x # Hole /\ x.name = name /\ x.expires = e
        BY <3>5, PipelineAssumption
      <3>7. \A a \in Addrs \ {a0} : L(k+1)[a] = L(k)[a]
        BY <2>3
      <3>. DEFINE was == L(k)
                  is == L(k+1)
                  u == h[k]
      <3>8. NamesAgree(u, was, now)
        BY <2>1
      <3>9. NowAlso(is, was, a0, name, e)
        BY <3>4, <3>6, <3>7 DEF NowAlso
      <3>. HIDE DEF L, given, r, a0, e, x, g, was, is, u
      <3>10. NamesAgree(NameInserted(u, a0, name, e), is, now)
        <4>1. NamesSound(u) /\ a0 \in Addrs /\ e \in Nat /\ name \in STRING /\ now \in Nat
          BY <3>1 DEF u
        <4>. QED BY <3>8, <3>9, <4>1, InsertedAgrees
      <3>. QED BY <3>1, <3>10 DEF u, is
    <2>. QED BY <2>4, <2>5
  <1>17. Ok(n)
    <2>. HIDE DEF T, Ok
    <2>1. Nat \subseteq T
      BY <1>15, <1>16, NatSetInduction
    <2>. QED BY <1>1, <2>1 DEF T
  <1>18. Learned(t, name, answers, now) = h[n] /\ h[n] \in V
    BY <1>1, <1>2, <1>14
  <1>19. NamesSound(h[n]) /\ NamesAgree(h[n], L(n), now)
    BY <1>4, <1>17, <1>18
  <1>. QED BY <1>18, <1>19 DEF n, reached

\* The history learns the same.
LEMMA TaughtIs ==
  ASSUME NEW m, IsFrame(m), m.name # Hole, NEW now \in Nat, pLearned \in Lessons
  PROVE  /\ Taught(m, now) \in Lessons
         /\ m.name \in Unlearnable => \A a \in Addrs : Taught(m, now)[a] = pLearned[a]
         /\ m.name \notin Unlearnable =>
              \A a \in Addrs : Taught(m, now)[a]
                = Lesson(m.name, m.answers, Reachable(m.name, m.answers), pLearned, now, Len(m.answers))[a]
  <1>. DEFINE answers == m.answers
              name == m.name
              n == Len(answers)
              names == {name} \cup UNION {{a.name, a.data} : a \in Range(answers)}
              Closed(S) == \A a \in Range(answers) : a.rtype = "CNAME" /\ a.name \in S => a.data \in S
              reached == {y \in names : \A S \in SUBSET names : name \in S /\ Closed(S) => y \in S}
              R == Reachable(name, answers)
              g(a) == Gives(a, answers, R, n)
              tau == Taught(m, now)
  <1>1. name \in STRING /\ answers \in Seq(AnswerRecord) /\ n \in Nat
    BY DEF IsFrame, Frame
  <1>2. Range(answers) = {answers[i] : i \in 1..n}
    BY <1>1 DEF Range
  <1>3. \A S : Closed(S) <=> ClosedUnder(S, answers)
    <2>. HIDE DEF answers, n
    <2>. QED BY <1>2 DEF ClosedUnder, n
  <1>4. name \in names /\ \A i \in 1..n : answers[i].data \in names
    <2>1. ASSUME NEW i \in 1..n PROVE answers[i].data \in names
      <3>1. answers[i] \in Range(answers)
        BY <1>2
      <3>. QED BY <3>1
    <2>. QED BY <2>1
  <1>. HIDE DEF names
  <1>5. R = reached
    <2>1. name \in R /\ ClosedUnder(R, answers) /\ R \in SUBSET names
          /\ \A S : name \in S /\ ClosedUnder(S, answers) => R \subseteq S
      <3>. HIDE DEF answers, name
      <3>. QED BY <1>1, <1>4, ReachableIs DEF n
    <2>. HIDE DEF R, Closed
    <2>2. R \subseteq reached
      BY <1>3, <2>1
    <2>3. reached \subseteq R
      BY <1>3, <2>1
    <2>. QED BY <2>2, <2>3
  <1>6. tau = [a \in Addrs |->
                 IF name \in Unlearnable \/ {i \in 1..n : LET b == answers[i]
                                                           IN b.rtype = "A" /\ b.data = a /\ b.name \in reached} = {}
                 THEN pLearned[a]
                 ELSE [name |-> name, expires |-> now + Retention(answers[Max(
                        {i \in 1..n : LET b == answers[i]
                                      IN b.rtype = "A" /\ b.data = a /\ b.name \in reached})].ttl)]]
    BY DEF Taught, names
  <1>. HIDE DEF reached
  <1>7. tau = [a \in Addrs |->
                 IF name \in Unlearnable \/ g(a) = {} THEN pLearned[a]
                 ELSE [name |-> name, expires |-> now + Retention(answers[Max(g(a))].ttl)]]
    BY <1>5, <1>6 DEF Gives
  <1>. HIDE DEF g, tau
  <1>8. ASSUME NEW a \in Addrs, g(a) # {}
        PROVE  [name |-> name, expires |-> now + Retention(answers[Max(g(a))].ttl)] \in [name : STRING, expires : Nat]
    <2>1. g(a) \in SUBSET (1..n)
      BY DEF g, Gives
    <2>2. Max(g(a)) \in 1..n
      BY <1>1, <1>8, <2>1, MaxOfIndices
    <2>3. answers[Max(g(a))] \in AnswerRecord
      <3>. HIDE DEF answers
      <3>. QED BY <1>1, <2>2 DEF n
    <2>4. answers[Max(g(a))].ttl \in Nat
      BY <2>3 DEF AnswerRecord
    <2>5. Retention(answers[Max(g(a))].ttl) \in Nat
      BY <2>4, RetentionNat
    <2>. QED BY <1>1, <2>5
  <1>9. tau \in Lessons
    <2>1. \A a \in Addrs : pLearned[a] \in [name : STRING, expires : Nat] \cup {Hole}
      BY DEF Lessons
    <2>. QED BY <1>7, <1>8, <2>1 DEF Lessons
  <1>10. name \in Unlearnable => \A a \in Addrs : tau[a] = pLearned[a]
    BY <1>7
  <1>11. name \notin Unlearnable => \A a \in Addrs : tau[a] = Lesson(name, answers, R, pLearned, now, n)[a]
    <2>1. \A a \in Addrs : Lesson(name, answers, R, pLearned, now, n)[a] =
             IF g(a) = {} THEN pLearned[a] ELSE [name |-> name, expires |-> now + Retention(answers[Max(g(a))].ttl)]
      BY DEF Lesson, g
    <2>. QED BY <1>7, <2>1
  <1>. QED BY <1>9, <1>10, <1>11 DEF tau

\* NamesExact is not inductive: what is learned next depends on every field of the
\* index, and an entry past its expiry stays in the map until the next response.
NamesInv ==
  /\ pNow \in Nat /\ NamesSound(pNames) /\ pLearned \in Lessons
  /\ pFlowClock \in Nat /\ (pReplay => pFlowClock <= pClock.elapsed)
  /\ NamesAgree(pNames, pLearned, EmitterNow)

\* A later time asks less.
LEMMA AgreeLater ==
  ASSUME NEW t, NEW learned \in Lessons, NEW old \in Nat, NEW now \in Nat, old <= now, NamesAgree(t, learned, old)
  PROVE  NamesAgree(t, learned, now)
  <1>. SUFFICES ASSUME NEW a \in Addrs
                PROVE IF t.entries[a] # Hole
                      THEN learned[a] # Hole /\ learned[a].name = t.entries[a].name /\ learned[a].expires = t.entries[a].expires
                      ELSE learned[a] # Hole /\ learned[a].expires > now => t.evictions > 0
    BY DEF NamesAgree
  <1>1. learned[a] # Hole => learned[a].expires \in Nat
    BY DEF Lessons
  <1>2. learned[a] # Hole /\ learned[a].expires > now => learned[a].expires > old
    BY <1>1
  <1>. QED BY <1>2 DEF NamesAgree

\* The time of the flows does not go back, and the emitter's is never ahead of it.
LEMMA FlowNowGrows ==
  ASSUME ClockInv, NamesInv, NEW ts \in Nat, NEW tick \in Nat
  PROVE  LET clock == ClockAfter(pClock, ts)
             now == FlowNow(clock.elapsed, pNow + tick)
             late == FlowNow(pFlowClock, pNow + tick)
         IN /\ EmitterNow \in Nat /\ now \in Nat /\ late \in Nat
            /\ EmitterNow <= now /\ EmitterNow <= late
            /\ pReplay => clock.elapsed \in Nat /\ pFlowClock <= clock.elapsed
  <1>. DEFINE clock == ClockAfter(pClock, ts)
  <1>0. pNow \in Nat /\ pFlowClock \in Nat /\ (pReplay => pFlowClock <= pClock.elapsed)
    BY DEF NamesInv
  <1>1. CASE ~pReplay
    BY <1>0, <1>1 DEF FlowNow, EmitterNow
  <1>2. CASE pReplay
    <2>1. pClock \in Clocks /\ pClock.elapsed \in Nat
      BY <1>2 DEF ClockInv, Tracks, Clocks
    <2>2. CASE pClock.latest = Hole
      <3>1. clock.elapsed = pClock.elapsed
        BY <2>1, <2>2 DEF ClockAfter, Clocks
      <3>. HIDE DEF clock
      <3>. QED BY <1>0, <1>2, <2>1, <3>1 DEF FlowNow, EmitterNow, clock
    <2>3. CASE pClock.latest # Hole
      <3>1. pClock.latest \in Nat
        BY <2>1, <2>3 DEF Clocks
      <3>. DEFINE d == clock
                  c == pClock
      <3>2. /\ d \in Clocks
            /\ \/ ts >= c.latest /\ d.latest = ts /\ d.reset = Hole /\ d.elapsed = c.elapsed + (ts - c.latest)
               \/ /\ ts < c.latest /\ c.latest - ts <= Tolerance
                  /\ d.latest = c.latest /\ d.reset = Hole /\ d.elapsed = c.elapsed
               \/ /\ c.latest - ts > Tolerance /\ c.reset = Hole
                  /\ d.latest = c.latest /\ d.reset = ts /\ d.elapsed = c.elapsed
               \/ /\ c.latest - ts > Tolerance /\ c.reset \in Nat
                  /\ d.latest = ts /\ d.reset = Hole /\ d.elapsed = c.elapsed + SatSub(ts, c.reset)
        BY <2>1, <3>1, ClockMoves
      <3>3. d.elapsed \in Nat /\ c.elapsed \in Nat
        BY <2>1, <3>2 DEF Clocks
      <3>4. c.reset \in Nat => SatSub(ts, c.reset) \in Nat
        BY SatSubIs
      <3>. HIDE DEF d, c, clock
      <3>5. c.latest \in Nat
        BY <3>1 DEF c
      <3>6. d.elapsed >= c.elapsed
        BY <3>2, <3>3, <3>4, <3>5
      <3>7. pFlowClock <= d.elapsed
        BY <1>0, <1>2, <3>3, <3>6 DEF c
      <3>. QED BY <1>0, <1>2, <3>3, <3>7 DEF FlowNow, EmitterNow, d, clock
    <2>. QED BY <2>2, <2>3
  <1>. QED BY <1>1, <1>2

\* A message that may teach, at now.
LEMMA NamesMatched ==
  ASSUME NamesInv, NEW m, IsFrame(m) \/ m.l7 = "none", NEW old \in Nat, NEW now \in Nat, old <= now,
         NamesAgree(pNames, pLearned, old),
         NEW ts, NEW wall, NEW retransmit,
         Matched(m, ts, wall, now, retransmit)
  PROVE  NamesSound(pNames') /\ pLearned' \in Lessons /\ NamesAgree(pNames', pLearned', now)
  <1>. DEFINE event == TrackerObserved(pTracker, m, ts, retransmit).event
              teaches == Learnable(m, event)
  <1>1. /\ pNames' = IF teaches THEN Learned(pNames, m.name, m.answers, now) ELSE pNames
        /\ pLearned' = IF teaches THEN Taught(m, now) ELSE pLearned
    BY DEF Matched
  <1>2. teaches => m.l7 = "response" /\ IsFrame(m)
    BY DEF Learnable
  <1>. HIDE DEF teaches
  <1>3. CASE ~teaches
    BY <1>1, <1>3, AgreeLater DEF NamesInv
  <1>4. CASE teaches /\ m.name \in Unlearnable
    <2>1. m.name # Hole
      BY <1>2, <1>4 DEF IsFrame
    <2>2. pNames' = pNames
      BY <1>1, <1>4 DEF Learned
    <2>3. pLearned' \in Lessons /\ \A a \in Addrs : pLearned'[a] = pLearned[a]
      BY <1>1, <1>2, <1>4, <2>1, TaughtIs DEF NamesInv
    <2>4. NamesAgree(pNames, pLearned, now)
      BY AgreeLater DEF NamesInv
    <2>5. NamesAgree(pNames, pLearned', now)
      BY <2>3, <2>4 DEF NamesAgree
    <2>. QED BY <2>2, <2>3, <2>5 DEF NamesInv
  <1>5. CASE teaches /\ m.name \notin Unlearnable
    <2>1. m.name \in STRING /\ m.name # Hole /\ m.answers \in Seq(AnswerRecord)
      BY <1>2, <1>5 DEF IsFrame, Frame
    <2>2. \A i \in 1..Len(m.answers) : m.answers[i].rtype = "A" => m.answers[i].data \in Addrs \cup {Hole}
      BY <1>2, <1>5 DEF IsFrame
    <2>. DEFINE name == m.name
                answers == m.answers
                u == Learned(pNames, name, answers, now)
                L == Lesson(name, answers, Reachable(name, answers), pLearned, now, Len(answers))
                tau == Taught(m, now)
    <2>3. tau \in Lessons /\ \A a \in Addrs : tau[a] = L[a]
      BY <1>2, <1>5, <2>1, TaughtIs DEF NamesInv
    <2>4. NamesSound(u) /\ NamesAgree(u, L, now)
      <3>. HIDE DEF name, answers
      <3>1. /\ name \in STRING /\ name \notin Unlearnable /\ answers \in Seq(AnswerRecord)
            /\ \A i \in 1..Len(answers) : answers[i].rtype = "A" => answers[i].data \in Addrs \cup {Hole}
        BY <1>5, <2>1, <2>2 DEF name, answers
      <3>2. NamesSound(pNames) /\ pLearned \in Lessons
        BY DEF NamesInv
      <3>. QED BY <3>1, <3>2, LearnedIs
    <2>. HIDE DEF u, L, tau
    <2>5. NamesAgree(u, tau, now)
      BY <2>3, <2>4 DEF NamesAgree
    <2>. QED BY <1>1, <1>5, <2>3, <2>4, <2>5 DEF u, tau
  <1>. QED BY <1>3, <1>4, <1>5

\* A frame.
LEMMA NamesFrame ==
  ASSUME ClockInv, NamesInv, NEW m, IsFrame(m), NEW ts \in Nat, NEW tick \in Nat, NextFrame(m, ts, tick)
  PROVE  NamesInv'
  <1>. DEFINE clock == ClockAfter(pClock, ts)
              wall == pNow + tick
              old == EmitterNow
              now == FlowNow(clock.elapsed, wall)
              late == FlowNow(pFlowClock, wall)
              bare == [m EXCEPT !.l7 = "none"]
  <1>1. /\ pNow' = wall /\ pReplay' = pReplay /\ pClock' = IF pReplay THEN clock ELSE pClock
    BY DEF NextFrame
  <1>3. /\ old \in Nat /\ now \in Nat /\ late \in Nat /\ old <= now /\ old <= late /\ wall \in Nat
        /\ pReplay => clock.elapsed \in Nat /\ pFlowClock <= clock.elapsed
    BY FlowNowGrows DEF NamesInv
  <1>4. NamesAgree(pNames, pLearned, old) /\ pFlowClock \in Nat
    BY DEF NamesInv
  <1>5. ASSUME NEW k, IsFrame(k) \/ k.l7 = "none", NEW again, Matched(k, ts, wall, now, again)
        PROVE  NamesSound(pNames') /\ pLearned' \in Lessons /\ NamesAgree(pNames', pLearned', now)
    <2>. HIDE DEF clock, wall, old, now
    <2>. QED BY <1>3, <1>4, <1>5, NamesMatched
  <1>6. bare.l7 = "none"
    BY DEF IsFrame, Frame
  <1>7. \/ /\ pFlowClock' = IF pReplay THEN now ELSE pFlowClock
           /\ (\E again : Matched(m, ts, wall, now, again)) \/ Matched(bare, ts, wall, now, FALSE)
        \/ pFlowClock' = pFlowClock /\ pNames' = pNames /\ pLearned' = pLearned
    BY DEF NextFrame
  <1>2. pReplay => now = clock.elapsed
    BY DEF FlowNow
  <1>8. ASSUME pFlowClock' = IF pReplay THEN now ELSE pFlowClock
        PROVE  EmitterNow' = now /\ pFlowClock' \in Nat /\ (pReplay' => pFlowClock' <= pClock'.elapsed)
    <2>1. EmitterNow' = IF pReplay THEN now ELSE wall
      BY <1>1, <1>8 DEF EmitterNow, FlowNow
    <2>2. ~pReplay => now = wall
      BY DEF FlowNow
    <2>. HIDE DEF clock, wall, now
    <2>. QED BY <1>1, <1>2, <1>3, <1>4, <1>8, <2>1, <2>2
  <1>9. ASSUME pFlowClock' = pFlowClock
        PROVE  EmitterNow' = late /\ pFlowClock' \in Nat /\ (pReplay' => pFlowClock' <= pClock'.elapsed)
    <2>1. EmitterNow' = late
      BY <1>1, <1>9 DEF EmitterNow, FlowNow
    <2>. HIDE DEF clock, wall, now, late
    <2>. QED BY <1>1, <1>3, <1>4, <1>9, <2>1
  <1>. HIDE DEF clock, wall, old, now, late, bare
  <1>10. CASE pFlowClock' = pFlowClock /\ pNames' = pNames /\ pLearned' = pLearned
    <2>1. NamesAgree(pNames, pLearned, late)
      BY <1>3, <1>4, AgreeLater DEF NamesInv
    <2>. QED BY <1>1, <1>3, <1>9, <1>10, <2>1 DEF NamesInv
  <1>11. CASE /\ pFlowClock' = IF pReplay THEN now ELSE pFlowClock
              /\ (\E again : Matched(m, ts, wall, now, again)) \/ Matched(bare, ts, wall, now, FALSE)
    <2>1. NamesSound(pNames') /\ pLearned' \in Lessons /\ NamesAgree(pNames', pLearned', now)
      BY <1>5, <1>6, <1>11
    <2>. QED BY <1>1, <1>3, <1>8, <1>11, <2>1 DEF NamesInv
  <1>. QED BY <1>7, <1>10, <1>11

\* After an interface switch the table is empty.
LEMMA NamesSwitched ==
  ASSUME NamesInv, NEW request, NEW fault, InterfaceSwitched(request, fault)
  PROVE  NamesInv'
  <1>. DEFINE u == NamesCleared(pNames)
              none == [a \in Addrs |-> Hole]
  <1>1. /\ pNames' = u /\ pLearned' = none
        /\ pNow' = pNow /\ pReplay' = pReplay /\ pClock' = pClock /\ pFlowClock' = pFlowClock
    BY DEF InterfaceSwitched
  <1>2. \A a \in Addrs : none[a] = Hole
    OBVIOUS
  <1>3. none \in Lessons /\ none \in [Addrs -> NameEntries \cup {Hole}]
    BY DEF Lessons
  <1>4. pNames \in Tables
    BY DEF NamesInv, NamesSound
  <1>5. u = [pNames EXCEPT !.entries = none, !.index = {}]
    BY DEF NamesCleared
  <1>. HIDE DEF none, u
  <1>6. u.entries = none /\ u.index = {} /\ u.seq = pNames.seq /\ u.evictions = pNames.evictions
    BY <1>4, <1>5 DEF Tables
  <1>7. u \in Tables
    BY <1>3, <1>4, <1>5 DEF Tables
  <1>8. NamesHeld(u) = {}
    BY <1>2, <1>6 DEF NamesHeld
  <1>9. NamesSound(u)
    <2>1. Cardinality(NamesHeld(u)) <= NameCapacity
      BY <1>8, FS_EmptySet, DnsNamesAssumption
    <2>. QED BY <1>6, <1>7, <1>8, <2>1 DEF NamesSound
  <1>10. \A now : NamesAgree(u, none, now)
    BY <1>2, <1>6 DEF NamesAgree
  <1>. QED BY <1>1, <1>3, <1>9, <1>10 DEF NamesInv, EmitterNow, FlowNow

\* It holds initially.
LEMMA NamesInitially ==
  ASSUME PipeInit
  PROVE  NamesInv
  <1>. DEFINE none == [a \in Addrs |-> Hole]
  <1>1. pNow = 0 /\ pNames = NewNames /\ pLearned = none
    BY DEF PipeInit
  <1>0. pFlowClock = 0 /\ pClock.elapsed = 0
    BY DEF PipeInit, NewClock
  <1>2. pNames.entries = none /\ pNames.index = {} /\ pNames.seq = 0 /\ pNames.evictions = 0
        /\ pNames = [entries |-> none, index |-> {}, seq |-> 0, evictions |-> 0]
    BY <1>1 DEF NewNames
  <1>3. \A a \in Addrs : none[a] = Hole
    OBVIOUS
  <1>4. none \in Lessons /\ none \in [Addrs -> NameEntries \cup {Hole}]
    BY DEF Lessons
  <1>. HIDE DEF none
  <1>5. pNames \in Tables
    BY <1>2, <1>4 DEF Tables
  <1>6. NamesHeld(pNames) = {}
    BY <1>2, <1>3 DEF NamesHeld
  <1>7. NamesSound(pNames)
    <2>1. Cardinality(NamesHeld(pNames)) <= NameCapacity
      BY <1>6, FS_EmptySet, DnsNamesAssumption
    <2>. QED BY <1>2, <1>5, <1>6, <2>1 DEF NamesSound
  <1>8. \A now : NamesAgree(pNames, none, now)
    BY <1>2, <1>3 DEF NamesAgree
  <1>. QED BY <1>0, <1>1, <1>4, <1>7, <1>8 DEF NamesInv

\* Every step keeps it.
LEMMA NamesStep ==
  ASSUME ClockInv, NamesInv, [PipeNext]_pVars
  PROVE  NamesInv'
  <1>1. ASSUME NEW m, NEW ts, NEW tick, IsFrame(m), ts \in Nat, tick \in Nat, NextFrame(m, ts, tick)
        PROVE  NamesInv'
    BY <1>1, NamesFrame
  <1>2. ASSUME NEW ts, NEW tick, ts \in Nat, tick \in Nat, QuietSource(ts, tick)
        PROVE  NamesInv'
    <2>1. /\ pNow' = pNow + tick /\ pReplay' = pReplay /\ pClock' = pClock /\ pFlowClock' = pFlowClock
          /\ pNames' = pNames /\ pLearned' = pLearned
      BY <1>2 DEF QuietSource
    <2>. DEFINE old == EmitterNow
                now == FlowNow(pFlowClock, pNow + tick)
    <2>2. old \in Nat /\ now \in Nat /\ old <= now
      BY <1>2, FlowNowGrows
    <2>4. EmitterNow' = now
      BY <2>1 DEF FlowNow, EmitterNow
    <2>5. NamesAgree(pNames, pLearned, old) /\ pLearned \in Lessons
      BY DEF NamesInv
    <2>. HIDE DEF old, now
    <2>6. NamesAgree(pNames, pLearned, now)
      BY <2>2, <2>5, AgreeLater
    <2>7. NamesAgree(pNames, pLearned, EmitterNow)'
      BY <2>1, <2>4, <2>6
    <2>. QED BY <1>2, <2>1, <2>7 DEF NamesInv
  <1>3. ASSUME NEW request, NEW fault, InterfaceSwitched(request, fault)
        PROVE  NamesInv'
    BY <1>3, NamesSwitched
  <1>4. CASE Snapshot
    BY <1>4 DEF Snapshot, NamesInv, EmitterNow, FlowNow
  <1>5. CASE UNCHANGED fVars
    BY <1>5 DEF fVars, NamesInv, EmitterNow, FlowNow
  <1>. QED BY <1>1, <1>2, <1>3, <1>4, <1>5, StepCases

\* It implies what is claimed.
LEMMA NamesHold ==
  ASSUME NamesInv
  PROVE  NamesExact
  <1>. DEFINE now == EmitterNow
  <1>1. pNames.index = {<<pNames.entries[a].expires, pNames.entries[a].seq, a>> : a \in NamesHeld(pNames)}
        /\ Cardinality(NamesHeld(pNames)) <= NameCapacity
    BY DEF NamesInv, NamesSound, IndexEntry
  <1>2. ASSUME NEW a \in Addrs
        PROVE  LET name == NameLookup(pNames, a, now)
                   known == pLearned[a] # Hole /\ pLearned[a].expires > now
               IN IF name # Hole THEN known /\ pLearned[a].name = name
                  ELSE known => pNames.evictions > 0
    <2>. DEFINE e == pNames.entries[a]
                l == pLearned[a]
    <2>1. IF e # Hole THEN l # Hole /\ l.name = e.name /\ l.expires = e.expires
                      ELSE l # Hole /\ l.expires > now => pNames.evictions > 0
      BY DEF NamesInv, NamesAgree
    <2>2. NameLookup(pNames, a, now) = IF e # Hole /\ e.expires > now THEN e.name ELSE Hole
      BY DEF NameLookup
    <2>3. e # Hole => e.name # Hole
      <3>1. pNames \in Tables
        BY DEF NamesInv, NamesSound
      <3>2. e \in NameEntries \cup {Hole}
        BY <3>1 DEF Tables
      <3>. HIDE DEF e
      <3>3. e # Hole => e.name \in STRING
        BY <3>2 DEF NameEntries
      <3>. QED BY <3>3, PipelineAssumption
    <2>. HIDE DEF e, l, now
    <2>. QED BY <2>1, <2>2, <2>3 DEF l
  <1>. QED BY <1>1, <1>2 DEF NamesExact

\* NamesExact, for dns_names.rs, learn_response, insert and purge_expired: map and index
\* hold the same entries, no more than the capacity; a name that is shown is the last one
\* an answered response gave its address, through its CNAMEs in any order, and is shown
\* until it expires unless the table was full. For any responses, capacity, retention
\* bounds and times.
THEOREM NamesAlwaysExact == PipeSpec => []NamesExact
  <1>1. PipeInit => ClockInv /\ NamesInv
    BY ClockInitially, NamesInitially
  <1>2. ClockInv /\ NamesInv /\ [PipeNext]_pVars => ClockInv' /\ NamesInv'
    BY ClockStep, NamesStep
  <1>3. NamesInv => NamesExact
    BY NamesHold
  <1>. QED BY <1>1, <1>2, <1>3, PTL DEF PipeSpec

-----------------------------------------------------------------------------
(* What flows, hosts, pairs and the hierarchy count *)

\* Within half of the sequence space, the order of the numbers is that of the positions.
LEMMA NotNewerIs ==
  ASSUME NEW a \in Nat, NEW b \in Nat, a - b \in -(WireMod \div 2)..(WireMod \div 2)-1
  PROVE  NotNewer(a % WireMod, b % WireMod) <=> a <= b
  <1>. DEFINE W == WireMod
              h == W \div 2
              x == a % W
              y == b % W
  <1>1. W \in Nat /\ W > 1 /\ h \in Nat /\ h >= 1 /\ h + h <= W
    BY FlowMetricsAssumption
  <1>2. a - b >= -h /\ a - b <= h - 1
    BY <1>1
  <1>3. PICK p \in Int : a = W * p + x /\ x \in 0..W-1
    <2>. HIDE DEF W
    <2>1. W > 0 /\ a \in Int
      BY <1>1
    <2>. QED BY <1>1, <2>1, Division
  <1>4. PICK q \in Int : b = W * q + y /\ y \in 0..W-1
    <2>. HIDE DEF W
    <2>1. W > 0 /\ b \in Int
      BY <1>1
    <2>. QED BY <1>1, <2>1, Division
  <1>5. NotNewer(a % WireMod, b % WireMod) <=> (x - y) % W = 0 \/ (x - y) % W >= h
    BY DEF NotNewer
  <1>. HIDE DEF W, h, x, y
  <1>6. CASE a >= b
    <2>. DEFINE d == a - b
    <2>1. d \in 0..W-1 /\ q - p \in Int /\ d < h /\ d \in Nat
      BY <1>1, <1>2, <1>6
    <2>2. x - y = W * (q - p) + d
      <3>1. W * (q - p) = W * q - W * p
        BY <1>1
      <3>2. W * q \in Int /\ W * p \in Int /\ x \in Int /\ y \in Int
        BY <1>1, <1>3, <1>4
      <3>. QED BY <1>3, <1>4, <3>1, <3>2
    <2>. HIDE DEF d
    <2>3. (W * (q - p) + d) % W = d
      BY <1>1, <2>1, Remainder
    <2>4. (x - y) % W = d
      BY <2>2, <2>3
    <2>5. d = 0 <=> a <= b
      BY <1>6 DEF d
    <2>. QED BY <1>1, <1>5, <2>1, <2>4, <2>5
  <1>7. CASE a < b
    <2>. DEFINE d == W + (a - b)
    <2>1. d \in 0..W-1 /\ q - p - 1 \in Int /\ d >= h
      BY <1>1, <1>2, <1>7
    <2>2. x - y = W * (q - p - 1) + d
      <3>1. W * (q - p - 1) = W * q - W * p - W
        BY <1>1
      <3>2. W * q \in Int /\ W * p \in Int /\ x \in Int /\ y \in Int
        BY <1>1, <1>3, <1>4
      <3>. QED BY <1>1, <1>3, <1>4, <3>1, <3>2
    <2>. HIDE DEF d
    <2>3. (W * (q - p - 1) + d) % W = d
      BY <1>1, <2>1, Remainder
    <2>4. (x - y) % W = d
      BY <2>2, <2>3
    <2>. QED BY <1>5, <1>7, <2>1, <2>4
  <1>. QED BY <1>6, <1>7

\* What both directions of a rollup count.
BothOf(rolls, D) == [q \in D |-> rolls[q].bytes[TRUE] + rolls[q].bytes[FALSE]]

BytesOf(tree) == [q \in DOMAIN tree |-> tree[q].bytes]

\* The sums of MetricsExact are totals.
LEMMA PairSum ==
  ASSUME NEW rolls, NEW D, NEW S \in SUBSET D, Summable(BothOf(rolls, D), S)
  PROVE  MapThenSumSet(LAMBDA q : rolls[q].bytes[TRUE] + rolls[q].bytes[FALSE], S) = Total(BothOf(rolls, D), S)
  <1>. DEFINE Step(f, s) == IF s = {} THEN 0
                            ELSE (rolls[CHOOSE x \in s : TRUE].bytes[TRUE] + rolls[CHOOSE x \in s : TRUE].bytes[FALSE])
                                 + f[s \ {CHOOSE x \in s : TRUE}]
              Solves(f) == f = [s \in SUBSET S |-> Step(f, s)]
              w == BothOf(rolls, D)
              iter == CHOOSE f : Solves(f)
  <1>1. MapThenSumSet(LAMBDA q : rolls[q].bytes[TRUE] + rolls[q].bytes[FALSE], S) = iter[S]
    BY DEF MapThenSumSet, MapThenFoldSet
  <1>3. ASSUME NEW f, NEW s \in SUBSET S
        PROVE  Step(f, s) = IF s = {} THEN 0 ELSE w[AnyOf(s)] + f[s \ {AnyOf(s)}]
    <2>1. s # {} => AnyOf(s) \in D
      BY DEF AnyOf
    <2>2. s # {} => w[AnyOf(s)] = rolls[AnyOf(s)].bytes[TRUE] + rolls[AnyOf(s)].bytes[FALSE]
      BY <2>1 DEF BothOf
    <2>. QED BY <2>2 DEF AnyOf
  <1>. HIDE DEF w, Step
  <1>2. Summable(w, S)
    BY DEF w
  <1>4. PICK f : SumsUp(f, w, S)
    BY <1>2, SumExists
  <1>5. Solves(f)
    BY <1>3, <1>4 DEF SumsUp
  <1>6. Solves(iter)
    BY <1>5
  <1>. HIDE DEF iter
  <1>7. SolvesSum(iter, w, S)
    BY <1>3, <1>6 DEF SolvesSum
  <1>8. iter[S] = Total(w, S)
    BY <1>2, <1>7, SolutionSums
  <1>. QED BY <1>1, <1>8 DEF w

\* So is the sum over nodes of the hierarchy.
LEMMA TreeSum ==
  ASSUME NEW tree, NEW S \in SUBSET DOMAIN tree, Summable(BytesOf(tree), S)
  PROVE  MapThenSumSet(LAMBDA q : tree[q].bytes, S) = Total(BytesOf(tree), S)
  <1>. DEFINE Step(f, s) == IF s = {} THEN 0
                            ELSE tree[CHOOSE x \in s : TRUE].bytes + f[s \ {CHOOSE x \in s : TRUE}]
              Solves(f) == f = [s \in SUBSET S |-> Step(f, s)]
              w == BytesOf(tree)
              iter == CHOOSE f : Solves(f)
  <1>1. MapThenSumSet(LAMBDA q : tree[q].bytes, S) = iter[S]
    BY DEF MapThenSumSet, MapThenFoldSet
  <1>3. ASSUME NEW f, NEW s \in SUBSET S
        PROVE  Step(f, s) = IF s = {} THEN 0 ELSE w[AnyOf(s)] + f[s \ {AnyOf(s)}]
    <2>1. s # {} => AnyOf(s) \in DOMAIN tree
      BY DEF AnyOf
    <2>2. s # {} => w[AnyOf(s)] = tree[AnyOf(s)].bytes
      BY <2>1 DEF BytesOf
    <2>. QED BY <2>2 DEF AnyOf
  <1>. HIDE DEF w, Step
  <1>2. Summable(w, S)
    BY DEF w
  <1>4. PICK f : SumsUp(f, w, S)
    BY <1>2, SumExists
  <1>5. Solves(f)
    BY <1>3, <1>4 DEF SumsUp
  <1>6. Solves(iter)
    BY <1>5
  <1>. HIDE DEF iter
  <1>7. SolvesSum(iter, w, S)
    BY <1>3, <1>6 DEF SolvesSum
  <1>8. iter[S] = Total(w, S)
    BY <1>2, <1>7, SolutionSums
  <1>. QED BY <1>1, <1>8 DEF w

Positions == [high : [BOOLEAN -> Nat \cup {Hole}], again : Nat]

\* The highest number of each direction is that of its highest position.
FlowAgrees(s, p) ==
  /\ {"maxSeq", "retransmits"} \subseteq DOMAIN s
  /\ s.maxSeq \in [BOOLEAN -> Nat \cup {Hole}]
  /\ s.retransmits = p.again
  /\ \A o \in BOOLEAN : IF p.high[o] = Hole THEN s.maxSeq[o] = Hole ELSE s.maxSeq[o] = p.high[o] % WireMod

PositionAfter(was, m) ==
  LET late == was.high[m.out] # Hole /\ m.pos <= was.high[m.out]
  IN IF ~(m.tcp /\ m.payload) THEN was
     ELSE IF late THEN [was EXCEPT !.again = @ + 1]
     ELSE [was EXCEPT !.high = [was.high EXCEPT ![m.out] = m.pos]]

\* A sequence number is a number.
LEMMA WireNat ==
  ASSUME NEW x \in Nat
  PROVE  x % WireMod \in Nat /\ x % WireMod # Hole
  <1>1. WireMod \in Nat /\ WireMod > 0 /\ x \in Int
    BY FlowMetricsAssumption
  <1>2. x % WireMod \in 0..WireMod-1
    BY <1>1, Division
  <1>3. x % WireMod \in Nat
    BY <1>1, <1>2
  <1>. QED BY <1>3, CaptureClockAssumption

\* A data segment counts as retransmitted when its position was reached before.
LEMMA AgainIs ==
  ASSUME NEW s, NEW p \in Positions, FlowAgrees(s, p), NEW m, m.out \in BOOLEAN, m.pos \in Nat,
         m.tcp, m.payload,
         p.high[m.out] # Hole => m.pos - p.high[m.out] \in -(WireMod \div 2)..(WireMod \div 2)-1
  PROVE  IsRetransmit(s, m) <=> p.high[m.out] # Hole /\ m.pos <= p.high[m.out]
  <1>. DEFINE o == m.out
              hi == p.high[o]
              pos == m.pos
  <1>1. o \in BOOLEAN /\ hi \in Nat \cup {Hole} /\ pos \in Nat
    BY DEF Positions
  <1>2. IF hi = Hole THEN s.maxSeq[o] = Hole ELSE s.maxSeq[o] = hi % WireMod
    BY <1>1 DEF FlowAgrees
  <1>3. IsRetransmit(s, m) <=> s.maxSeq[o] # Hole /\ NotNewer(pos % WireMod, s.maxSeq[o])
    BY DEF IsRetransmit, WireSeq
  <1>4. hi # Hole => pos - hi \in -(WireMod \div 2)..(WireMod \div 2)-1
    OBVIOUS
  <1>. HIDE DEF o, hi, pos
  <1>5. CASE hi = Hole
    BY <1>2, <1>3, <1>5 DEF o, hi
  <1>6. CASE hi # Hole
    <2>1. hi \in Nat
      BY <1>1, <1>6
    <2>2. NotNewer(pos % WireMod, hi % WireMod) <=> pos <= hi
      BY <1>1, <1>4, <1>6, <2>1, NotNewerIs
    <2>3. hi % WireMod # Hole /\ s.maxSeq[o] = hi % WireMod
      BY <1>2, <1>6, <2>1, WireNat
    <2>. QED BY <1>3, <1>6, <2>2, <2>3 DEF o, hi, pos
  <1>. QED BY <1>5, <1>6

\* A packet keeps the flow and its positions in agreement.
LEMMA FlowObserved ==
  ASSUME NEW s, NEW p \in Positions, FlowAgrees(s, p), NEW m, m.out \in BOOLEAN, m.pos \in Nat,
         m.tcp \in BOOLEAN, m.payload \in BOOLEAN,
         m.tcp /\ m.payload /\ p.high[m.out] # Hole =>
           m.pos - p.high[m.out] \in -(WireMod \div 2)..(WireMod \div 2)-1,
         NEW known, NEW now
  PROVE  PositionAfter(p, m) \in Positions /\ FlowAgrees(FlowUpdated(s, m, known, now), PositionAfter(p, m))
  <1>. DEFINE u == FlowUpdated(s, m, known, now)
              q == PositionAfter(p, m)
              o == m.out
              pos == m.pos
              data == m.tcp /\ m.payload
              again == IsRetransmit(s, m)
              late == p.high[o] # Hole /\ pos <= p.high[o]
              seq == pos % WireMod
  <1>1. /\ u.maxSeq = IF data /\ ~again THEN [s.maxSeq EXCEPT ![o] = seq] ELSE s.maxSeq
        /\ u.retransmits = s.retransmits + (IF again THEN 1 ELSE 0)
        /\ {"maxSeq", "retransmits"} \subseteq DOMAIN u
    BY DEF FlowUpdated, WireSeq
  <1>2. q = IF ~data THEN p ELSE IF late THEN [p EXCEPT !.again = @ + 1]
            ELSE [p EXCEPT !.high = [p.high EXCEPT ![o] = pos]]
    BY DEF PositionAfter
  <1>3. data => (again <=> late)
    BY AgainIs
  <1>4. ~data => ~again
    BY DEF IsRetransmit
  <1>5. /\ s.maxSeq \in [BOOLEAN -> Nat \cup {Hole}] /\ s.retransmits = p.again
        /\ \A d \in BOOLEAN : IF p.high[d] = Hole THEN s.maxSeq[d] = Hole ELSE s.maxSeq[d] = p.high[d] % WireMod
    BY DEF FlowAgrees
  <1>6. p.high \in [BOOLEAN -> Nat \cup {Hole}] /\ p.again \in Nat /\ o \in BOOLEAN /\ pos \in Nat
        /\ p = [high |-> p.high, again |-> p.again]
    BY DEF Positions
  <1>7. seq \in Nat /\ seq # Hole /\ pos # Hole
    BY <1>6, WireNat, CaptureClockAssumption
  <1>. HIDE DEF u, q, data, again, late
  <1>8. CASE ~data
    <2>1. u.maxSeq = s.maxSeq /\ u.retransmits = s.retransmits + 0 /\ q = p
      BY <1>1, <1>2, <1>4, <1>8
    <2>2. u.retransmits = p.again
      BY <1>5, <1>6, <2>1
    <2>3. q \in Positions /\ FlowAgrees(u, q)
      BY <1>1, <1>5, <2>1, <2>2 DEF FlowAgrees
    <2>. QED BY <2>3 DEF q, u
  <1>9. CASE data /\ late
    <2>1. u.maxSeq = s.maxSeq /\ u.retransmits = s.retransmits + 1 /\ q = [p EXCEPT !.again = @ + 1]
      BY <1>1, <1>2, <1>3, <1>9
    <2>2. q.high = p.high /\ q.again = p.again + 1 /\ q \in Positions
      BY <1>6, <2>1 DEF Positions
    <2>3. q \in Positions /\ FlowAgrees(u, q)
      BY <1>1, <1>5, <2>1, <2>2 DEF FlowAgrees
    <2>. QED BY <2>3 DEF q, u
  <1>10. CASE data /\ ~late
    <2>. DEFINE high == [p.high EXCEPT ![o] = pos]
                max == [s.maxSeq EXCEPT ![o] = seq]
    <2>1. u.maxSeq = max /\ u.retransmits = s.retransmits + 0 /\ q = [p EXCEPT !.high = high]
      BY <1>1, <1>2, <1>3, <1>10
    <2>2. high \in [BOOLEAN -> Nat \cup {Hole}] /\ high[o] = pos /\ \A d \in BOOLEAN \ {o} : high[d] = p.high[d]
      <3>. HIDE DEF o, pos
      <3>. QED BY <1>6
    <2>3. max \in [BOOLEAN -> Nat \cup {Hole}] /\ max[o] = seq /\ \A d \in BOOLEAN \ {o} : max[d] = s.maxSeq[d]
      <3>. HIDE DEF o, pos, seq
      <3>. QED BY <1>5, <1>6, <1>7
    <2>. HIDE DEF high, max
    <2>4. q.high = high /\ q.again = p.again /\ q \in Positions
      BY <1>6, <2>1, <2>2 DEF Positions
    <2>5. u.retransmits = q.again
      BY <1>5, <1>6, <2>1, <2>4
    <2>6. ASSUME NEW d \in BOOLEAN PROVE IF high[d] = Hole THEN max[d] = Hole ELSE max[d] = high[d] % WireMod
      <3>1. CASE d = o
        BY <1>7, <2>2, <2>3, <3>1
      <3>2. CASE d # o
        <4>1. high[d] = p.high[d] /\ max[d] = s.maxSeq[d]
          BY <2>2, <2>3, <3>2
        <4>. QED BY <1>5, <4>1
      <3>. QED BY <3>1, <3>2
    <2>7. FlowAgrees(u, q)
      BY <1>1, <2>1, <2>3, <2>4, <2>5, <2>6 DEF FlowAgrees
    <2>. QED BY <2>4, <2>7 DEF q, u
  <1>. QED BY <1>8, <1>9, <1>10

NoPositions == [high |-> PerDirection(Hole, Hole), again |-> 0]

\* A new flow has neither numbers nor positions.
LEMMA NewFlowSound == NoPositions \in Positions /\ FlowAgrees(NewFlowState, NoPositions)
  <1>. DEFINE none == PerDirection(Hole, Hole)
  <1>1. none \in [BOOLEAN -> Nat \cup {Hole}] /\ \A d \in BOOLEAN : none[d] = Hole
    BY DEF PerDirection
  <1>2. /\ NewFlowState.maxSeq = none /\ NewFlowState.retransmits = 0
        /\ {"maxSeq", "retransmits"} \subseteq DOMAIN NewFlowState
    BY DEF NewFlowState
  <1>. HIDE DEF none
  <1>3. NoPositions = [high |-> none, again |-> 0]
    BY DEF NoPositions, none
  <1>4. NoPositions.high = none /\ NoPositions.again = 0 /\ NoPositions \in Positions
    BY <1>1, <1>3 DEF Positions
  <1>. QED BY <1>1, <1>2, <1>4 DEF FlowAgrees

\* A snapshot changes neither.
LEMMA DrainedSound ==
  ASSUME NEW s, NEW p, FlowAgrees(s, p)
  PROVE  FlowAgrees(Drained(s), p)
  <1>. DEFINE u == Drained(s)
  <1>1. {"maxSeq", "retransmits"} \subseteq DOMAIN s
    BY DEF FlowAgrees
  <1>2. u.maxSeq = s.maxSeq /\ u.retransmits = s.retransmits /\ DOMAIN u = DOMAIN s
    BY <1>1 DEF Drained
  <1>. HIDE DEF u
  <1>3. FlowAgrees(u, p)
    BY <1>2 DEF FlowAgrees
  <1>. QED BY <1>3 DEF u

IsPath(q) == \E S : q \in Seq(S)

\* Prefixes of a path.
LEMMA PrefixFacts ==
  ASSUME NEW q, IsPath(q), NEW n \in 0..Len(q)
  PROVE  /\ IsPath(SubSeq(q, 1, n)) /\ Len(q) \in Nat /\ Len(SubSeq(q, 1, n)) = n
         /\ SubSeq(q, 1, Len(q)) = q
         /\ \A k \in 0..n : SubSeq(SubSeq(q, 1, n), 1, k) = SubSeq(q, 1, k)
  <1>1. PICK S : q \in Seq(S)
    BY DEF IsPath
  <1>2. Len(q) \in Nat
    BY <1>1
  <1>. DEFINE p == SubSeq(q, 1, n)
  <1>3. p \in Seq(S) /\ Len(p) = n /\ \A i \in 1..n : p[i] = q[i]
    BY <1>1, <1>2
  <1>4. SubSeq(q, 1, Len(q)) = q
    BY <1>1, <1>2
  <1>5. ASSUME NEW k \in 0..n PROVE SubSeq(p, 1, k) = SubSeq(q, 1, k)
    <2>. DEFINE a == SubSeq(p, 1, k)
                b == SubSeq(q, 1, k)
    <2>1. b \in Seq(S) /\ Len(b) = k /\ \A i \in 1..k : b[i] = q[i]
      BY <1>1, <1>2
    <2>. HIDE DEF p
    <2>2. a \in Seq(S) /\ Len(a) = k /\ \A i \in 1..k : a[i] = p[i]
      BY <1>3
    <2>3. \A i \in 1..k : i \in 1..n
      OBVIOUS
    <2>. HIDE DEF a, b
    <2>4. Len(a) = Len(b) /\ \A i \in 1..Len(a) : a[i] = b[i]
      BY <1>3, <2>1, <2>2, <2>3
    <2>. QED BY <2>1, <2>2, <2>4
  <1>6. IsPath(p)
    BY <1>3 DEF IsPath
  <1>. QED BY <1>2, <1>3, <1>4, <1>5, <1>6

Ancestry(path) == {SubSeq(path, 1, n) : n \in 0..Len(path)}

\* What a packet adds to the hierarchy.
Grown(tree, new, path, len) ==
  /\ DOMAIN new = DOMAIN tree \cup Ancestry(path)
  /\ \A q \in DOMAIN new :
       new[q].bytes = IF q \in Ancestry(path) THEN (IF q \in DOMAIN tree THEN tree[q].bytes ELSE 0) + len
                      ELSE tree[q].bytes

\* ProtocolNode::add: the nodes along the path count the packet, the others what they did.
LEMMA AddedGrown ==
  ASSUME NEW tree, NEW path, NEW len
  PROVE  Grown(tree, TreeAdded(tree, path, len), path, len)
  <1>. DEFINE new == TreeAdded(tree, path, len)
              P == Ancestry(path)
              Old(q) == IF q \in DOMAIN tree THEN tree[q] ELSE [bytes |-> 0, packets |-> 0]
  <1>1. new = [q \in DOMAIN tree \cup P |->
                 IF q \in P THEN [bytes |-> Old(q).bytes + len, packets |-> Old(q).packets + 1] ELSE tree[q]]
    BY DEF TreeAdded, Ancestry
  <1>2. \A q : Old(q).bytes = IF q \in DOMAIN tree THEN tree[q].bytes ELSE 0
    OBVIOUS
  <1>. HIDE DEF new, P, Old
  <1>3. DOMAIN new = DOMAIN tree \cup P
    BY <1>1
  <1>4. \A q \in DOMAIN new : new[q].bytes = IF q \in P THEN Old(q).bytes + len ELSE tree[q].bytes
    BY <1>1
  <1>. QED BY <1>2, <1>3, <1>4 DEF Grown, new, P

TreeTyped(tree) ==
  IsFiniteSet(DOMAIN tree) /\ \A q \in DOMAIN tree : IsPath(q) /\ Len(q) <= 4 /\ tree[q].bytes \in Nat

\* The hierarchy's bytes can be summed.
LEMMA TreeSummable ==
  ASSUME NEW tree, TreeTyped(tree), NEW S \in SUBSET DOMAIN tree
  PROVE  Summable(BytesOf(tree), S) /\ \A q \in DOMAIN tree : BytesOf(tree)[q] = tree[q].bytes
  <1>1. IsFiniteSet(S)
    BY FS_Subset DEF TreeTyped
  <1>2. \A q \in DOMAIN tree : BytesOf(tree)[q] = tree[q].bytes
    BY DEF BytesOf
  <1>. QED BY <1>1, <1>2 DEF Summable, TreeTyped

\* The prefixes of a path are its SubSeqs, and those of a prefix are among them.
LEMMA PrefixesAre ==
  ASSUME NEW path, IsPath(path)
  PROVE  /\ Len(path) \in Nat /\ IsFiniteSet(Ancestry(path)) /\ path \in Ancestry(path)
         /\ \A r \in Ancestry(path) : /\ IsPath(r) /\ Len(r) \in Nat /\ Len(r) <= Len(path) /\ r = SubSeq(path, 1, Len(r))
                                      /\ \A k \in 0..Len(r) : SubSeq(r, 1, k) = SubSeq(path, 1, k) /\ SubSeq(r, 1, k) \in Ancestry(path)
         /\ \A k \in 0..Len(path) : SubSeq(path, 1, k) \in Ancestry(path) /\ Len(SubSeq(path, 1, k)) = k
  <1>1. Len(path) \in Nat
    BY DEF IsPath
  <1>2. IsFiniteSet(Ancestry(path))
    <2>. DEFINE g == [n \in 0..Len(path) |-> SubSeq(path, 1, n)]
    <2>1. IsFiniteSet(0..Len(path))
      BY <1>1, FS_Interval
    <2>2. g \in [0..Len(path) -> Ancestry(path)] /\ \A x \in Ancestry(path) : \E n \in 0..Len(path) : g[n] = x
      BY DEF Ancestry
    <2>. HIDE DEF g
    <2>3. g \in Surjection(0..Len(path), Ancestry(path))
      BY <2>2 DEF Surjection
    <2>. QED BY <2>1, <2>3, FS_Surjection
  <1>3. \A k \in 0..Len(path) : SubSeq(path, 1, k) \in Ancestry(path) /\ Len(SubSeq(path, 1, k)) = k
    BY PrefixFacts DEF Ancestry
  <1>4. path \in Ancestry(path)
    <2>1. Len(path) \in 0..Len(path)
      BY <1>1
    <2>. QED BY <1>3, <2>1, PrefixFacts
  <1>5. ASSUME NEW r \in Ancestry(path)
        PROVE  /\ IsPath(r) /\ Len(r) \in Nat /\ Len(r) <= Len(path) /\ r = SubSeq(path, 1, Len(r))
               /\ \A k \in 0..Len(r) : SubSeq(r, 1, k) = SubSeq(path, 1, k) /\ SubSeq(r, 1, k) \in Ancestry(path)
    <2>1. PICK n \in 0..Len(path) : r = SubSeq(path, 1, n)
      BY DEF Ancestry
    <2>2. IsPath(r) /\ Len(r) = n /\ \A k \in 0..n : SubSeq(r, 1, k) = SubSeq(path, 1, k)
      BY <2>1, PrefixFacts
    <2>3. \A k \in 0..n : k \in 0..Len(path)
      BY <1>1
    <2>4. n \in Nat /\ n <= Len(path)
      BY <1>1
    <2>5. \A k \in 0..n : SubSeq(r, 1, k) = SubSeq(path, 1, k) /\ SubSeq(r, 1, k) \in Ancestry(path)
      BY <1>3, <2>2, <2>3
    <2>6. r = SubSeq(path, 1, Len(r))
      BY <2>1, <2>2
    <2>. QED BY <2>2, <2>4, <2>5, <2>6
  <1>. QED BY <1>1, <1>2, <1>3, <1>4, <1>5

\* A hierarchy stays one.
LEMMA GrownTyped ==
  ASSUME NEW tree, TreeTyped(tree), NEW path, IsPath(path), Len(path) <= 4, NEW len \in Nat, NEW new, Grown(tree, new, path, len)
  PROVE  TreeTyped(new)
  <1>. DEFINE P == Ancestry(path)
  <1>1. DOMAIN new = DOMAIN tree \cup P
    BY DEF Grown
  <1>2. IsFiniteSet(P) /\ IsFiniteSet(DOMAIN tree)
    BY PrefixesAre DEF TreeTyped
  <1>3. IsFiniteSet(DOMAIN new)
    BY <1>1, <1>2, FS_Union
  <1>4. ASSUME NEW q \in DOMAIN new PROVE IsPath(q) /\ Len(q) <= 4
    <2>1. CASE q \in P
      <3>1. Len(path) \in Nat /\ IsPath(q) /\ Len(q) \in Nat /\ Len(q) <= Len(path)
        BY <2>1, PrefixesAre
      <3>. QED BY <3>1
    <2>2. CASE q \in DOMAIN tree
      BY <2>2 DEF TreeTyped
    <2>. QED BY <1>1, <2>1, <2>2
  <1>5. ASSUME NEW q \in DOMAIN new PROVE new[q].bytes \in Nat
    <2>1. q \in DOMAIN tree => tree[q].bytes \in Nat
      BY DEF TreeTyped
    <2>2. new[q].bytes = IF q \in P THEN (IF q \in DOMAIN tree THEN tree[q].bytes ELSE 0) + len ELSE tree[q].bytes
      BY DEF Grown
    <2>. QED BY <1>1, <2>1, <2>2
  <1>. QED BY <1>3, <1>4, <1>5 DEF TreeTyped

\* A set of nodes of which one is on the path, ...
LEMMA ClassGrows ==
  ASSUME NEW tree, TreeTyped(tree), NEW new, TreeTyped(new), NEW path, NEW len \in Nat, Grown(tree, new, path, len),
         NEW S \in SUBSET DOMAIN tree, NEW c \in Ancestry(path), c \in S \/ c \notin DOMAIN tree,
         \A r \in S : r \in Ancestry(path) => r = c
  PROVE  Total(BytesOf(new), S \cup {c}) = Total(BytesOf(tree), S) + len
  <1>. DEFINE w == BytesOf(tree)
              v == BytesOf(new)
              P == Ancestry(path)
  <1>1. Summable(w, S) /\ \A q \in DOMAIN tree : w[q] = tree[q].bytes
    BY TreeSummable
  <1>2. \A q \in DOMAIN new : v[q] = new[q].bytes
    BY DEF BytesOf
  <1>3. /\ DOMAIN new = DOMAIN tree \cup P
        /\ \A q \in DOMAIN new : new[q].bytes = IF q \in P THEN (IF q \in DOMAIN tree THEN tree[q].bytes ELSE 0) + len
                                                ELSE tree[q].bytes
    BY DEF Grown
  <1>. HIDE DEF w, v, P
  <1>4. c \in DOMAIN new /\ S \subseteq DOMAIN new /\ \A q \in S \ {c} : v[q] = w[q]
    BY <1>1, <1>2, <1>3 DEF P
  <1>5. v[c] = (IF c \in DOMAIN tree THEN w[c] ELSE 0) + len
    BY <1>1, <1>2, <1>3, <1>4 DEF P
  <1>6. CASE c \in S
    <2>1. S \cup {c} = S /\ v[c] = w[c] + len
      BY <1>5, <1>6
    <2>2. Total(v, S) = Total(w, S) + len
      BY <1>1, <1>4, <1>6, <2>1, TotalChanged
    <2>. QED BY <2>1, <2>2 DEF v, w
  <1>7. CASE c \notin DOMAIN tree
    <2>1. c \notin S /\ v[c] = 0 + len
      BY <1>5, <1>7
    <2>2. v[c] = len /\ v[c] \in Int
      BY <2>1
    <2>3. Same(w, v, S)
      BY <1>4, <2>1 DEF Same
    <2>4. Total(v, S \cup {c}) = Total(w, S) + v[c]
      BY <1>1, <2>1, <2>2, <2>3, TotalAdded
    <2>. QED BY <2>2, <2>4 DEF v, w
  <1>. QED BY <1>6, <1>7

\* ... and one that is off it.
LEMMA ClassStays ==
  ASSUME NEW tree, TreeTyped(tree), NEW new, NEW path, NEW len, Grown(tree, new, path, len),
         NEW S \in SUBSET DOMAIN tree, S \cap Ancestry(path) = {}
  PROVE  Total(BytesOf(new), S) = Total(BytesOf(tree), S)
  <1>1. Summable(BytesOf(tree), S) /\ \A q \in DOMAIN tree : BytesOf(tree)[q] = tree[q].bytes
    BY TreeSummable
  <1>2. \A q \in S : q \in DOMAIN new /\ new[q].bytes = tree[q].bytes
    BY DEF Grown
  <1>3. \A q \in S : BytesOf(new)[q] = new[q].bytes
    BY <1>2 DEF BytesOf
  <1>4. Same(BytesOf(tree), BytesOf(new), S)
    BY <1>1, <1>2, <1>3 DEF Same
  <1>. QED BY <1>1, <1>4, TotalSame

Icmp == <<"Ethernet", "IP", "ICMP">>
Fragmented == <<"Ethernet", "IP", "Other">>

\* The nodes of packets without ports, which have no application.
Portless(q) == q = Icmp \/ q = Fragmented

ChildrenOf(tree, q) == {r \in DOMAIN tree : Len(r) = Len(q) + 1 /\ SubSeq(r, 1, Len(q)) = q}

AppsOf(tree) == {q \in DOMAIN tree : Len(q) = 4}

\* Every node but the last of a path counts what its children do.
TreeSound(tree) ==
  /\ TreeTyped(tree) /\ <<>> \in DOMAIN tree
  /\ \A q \in DOMAIN tree : Len(q) > 0 => SubSeq(q, 1, Len(q) - 1) \in DOMAIN tree
  /\ \A q \in DOMAIN tree : Len(q) = 4 => ~Portless(SubSeq(q, 1, 3))
  /\ \A q \in DOMAIN tree : Len(q) < 4 /\ ~Portless(q) => tree[q].bytes = Total(BytesOf(tree), ChildrenOf(tree, q))

\* A path that is counted: to an application, or to a node without.
Counts(path) ==
  /\ IsPath(path)
  /\ \/ Len(path) = 4 /\ ~Portless(SubSeq(path, 1, 3))
     \/ Len(path) = 3 /\ Portless(path)

\* What a node of the hierarchy is.
LEMMA TreeNodes ==
  ASSUME NEW tree, TreeTyped(tree), NEW q \in DOMAIN tree
  PROVE  IsPath(q) /\ Len(q) \in Nat /\ Len(q) <= 4 /\ tree[q].bytes \in Nat
  BY DEF TreeTyped, IsPath

\* The children of a node off the path are the ones it had, ...
LEMMA ChildrenOff ==
  ASSUME NEW tree, TreeTyped(tree), NEW new, NEW path, IsPath(path), NEW len, Grown(tree, new, path, len),
         NEW q \in DOMAIN tree, q \notin Ancestry(path)
  PROVE  ChildrenOf(new, q) = ChildrenOf(tree, q) /\ ChildrenOf(tree, q) \cap Ancestry(path) = {}
  <1>. DEFINE P == Ancestry(path)
  <1>1. DOMAIN new = DOMAIN tree \cup P
    BY DEF Grown
  <1>2. Len(q) \in Nat
    BY TreeNodes
  <1>3. ASSUME NEW r \in P, Len(r) = Len(q) + 1, SubSeq(r, 1, Len(q)) = q PROVE FALSE
    <2>1. Len(q) \in 0..Len(r)
      BY <1>2, <1>3
    <2>2. SubSeq(r, 1, Len(q)) \in P
      BY <2>1, PrefixesAre
    <2>. QED BY <1>3, <2>2
  <1>. HIDE DEF P
  <1>4. ChildrenOf(tree, q) \cap P = {}
    BY <1>3 DEF ChildrenOf
  <1>5. ChildrenOf(new, q) = ChildrenOf(tree, q)
    BY <1>1, <1>3 DEF ChildrenOf
  <1>. QED BY <1>4, <1>5 DEF P

\* ... and those of a node on it the ones it had and the next one on it.
LEMMA ChildrenOn ==
  ASSUME NEW tree, TreeTyped(tree), NEW new, NEW path, IsPath(path), NEW len, Grown(tree, new, path, len),
         NEW n \in 0..Len(path) - 1
  PROVE  LET q == SubSeq(path, 1, n)
             c == SubSeq(path, 1, n + 1)
         IN /\ c \in Ancestry(path)
            /\ ChildrenOf(new, q) = ChildrenOf(tree, q) \cup {c}
            /\ c \in ChildrenOf(tree, q) \/ c \notin DOMAIN tree
            /\ \A r \in ChildrenOf(tree, q) : r \in Ancestry(path) => r = c
  <1>. DEFINE P == Ancestry(path)
              q == SubSeq(path, 1, n)
              c == SubSeq(path, 1, n + 1)
  <1>1. DOMAIN new = DOMAIN tree \cup P
    BY DEF Grown
  <1>2. Len(path) \in Nat /\ n \in 0..Len(path) /\ n + 1 \in 0..Len(path) /\ n \in Nat
    BY PrefixesAre
  <1>3. q \in P /\ c \in P /\ Len(q) = n /\ Len(c) = n + 1
    BY <1>2, PrefixesAre
  <1>4. SubSeq(c, 1, n) = q
    <2>1. n \in 0..Len(c)
      BY <1>2, <1>3
    <2>. QED BY <1>3, <2>1, PrefixesAre
  <1>5. ASSUME NEW r \in P, Len(r) = n + 1 PROVE r = c
    <2>1. r = SubSeq(path, 1, Len(r))
      BY PrefixesAre
    <2>. QED BY <1>5, <2>1
  <1>. HIDE DEF P, q, c
  <1>6. ChildrenOf(new, q) = ChildrenOf(tree, q) \cup {c}
    BY <1>1, <1>3, <1>4, <1>5 DEF ChildrenOf
  <1>7. c \in ChildrenOf(tree, q) \/ c \notin DOMAIN tree
    BY <1>3, <1>4 DEF ChildrenOf
  <1>8. \A r \in ChildrenOf(tree, q) : r \in P => r = c
    BY <1>3, <1>5 DEF ChildrenOf
  <1>. QED BY <1>3, <1>6, <1>7, <1>8 DEF P, q, c

\* A packet keeps every inner node the sum of its children, and adds its bytes to the applications'.
LEMMA GrownSound ==
  ASSUME NEW tree, TreeSound(tree), NEW path, Counts(path), NEW len \in Nat, NEW new, Grown(tree, new, path, len)
  PROVE  /\ TreeSound(new)
         /\ Total(BytesOf(new), AppsOf(new)) = Total(BytesOf(tree), AppsOf(tree)) + (IF Len(path) = 4 THEN len ELSE 0)
         /\ tree[<<>>].bytes \in Nat /\ new[<<>>].bytes = tree[<<>>].bytes + len
  <1>. DEFINE P == Ancestry(path)
  <1>0. Len(path) \in Nat /\ (Len(path) = 3 \/ Len(path) = 4)
    BY DEF Counts, IsPath
  <1>1. TreeTyped(tree) /\ IsPath(path)
    BY DEF TreeSound, Counts
  <1>2. TreeTyped(new)
    <2>. DEFINE l == Len(path)
    <2>0. l = 3 \/ l = 4
      BY <1>0
    <2>. HIDE DEF l
    <2>1. l <= 4
      BY <2>0
    <2>. QED BY <1>1, <2>1, GrownTyped DEF l
  <1>3. DOMAIN new = DOMAIN tree \cup P
    BY DEF Grown
  <1>4. /\ path \in P
        /\ \A r \in P : /\ Len(r) \in Nat /\ Len(r) <= Len(path) /\ r = SubSeq(path, 1, Len(r))
                        /\ \A k \in 0..Len(r) : SubSeq(r, 1, k) = SubSeq(path, 1, k) /\ SubSeq(r, 1, k) \in P
        /\ \A k \in 0..Len(path) : SubSeq(path, 1, k) \in P /\ Len(SubSeq(path, 1, k)) = k
    BY <1>1, PrefixesAre
  <1>4a. path = SubSeq(path, 1, Len(path))
    BY <1>4
  <1>4b. \A r \in P : Len(r) \in Nat /\ Len(r) <= Len(path)
    BY <1>4
  <1>. HIDE DEF P
  <1>5. ASSUME NEW q \in DOMAIN new, Len(q) > 0 PROVE SubSeq(q, 1, Len(q) - 1) \in DOMAIN new
    <2>1. CASE q \in P
      <3>1. Len(q) - 1 \in 0..Len(q)
        BY <1>4b, <1>5, <2>1
      <3>. QED BY <1>3, <1>4, <2>1, <3>1
    <2>2. CASE q \in DOMAIN tree
      BY <1>3, <1>5, <2>2 DEF TreeSound
    <2>. QED BY <1>3, <2>1, <2>2
  <1>6. ASSUME NEW q \in DOMAIN new, Len(q) = 4 PROVE ~Portless(SubSeq(q, 1, 3))
    <2>1. CASE q \in P
      <3>1. Len(path) = 4 /\ 3 \in 0..Len(q)
        <4>. DEFINE l == Len(path)
                    k == Len(q)
        <4>1. (l = 3 \/ l = 4) /\ k <= l /\ k = 4 /\ k \in Nat
          BY <1>0, <1>4b, <1>6, <2>1
        <4>. HIDE DEF l, k
        <4>2. l = 4 /\ 3 \in 0..k
          BY <4>1
        <4>. QED BY <4>2 DEF l, k
      <3>. DEFINE head == SubSeq(q, 1, 3)
                  front == SubSeq(path, 1, 3)
      <3>2. head = front
        BY <1>4, <2>1, <3>1
      <3>3. ~Portless(front)
        <4>. DEFINE l == Len(path)
        <4>1. l = 4 /\ ((l = 4 /\ ~Portless(front)) \/ l = 3)
          BY <3>1 DEF Counts
        <4>. HIDE DEF l
        <4>. QED BY <4>1
      <3>. HIDE DEF head, front
      <3>4. ~Portless(head)
        BY <3>2, <3>3
      <3>. QED BY <3>4 DEF head
    <2>2. CASE q \in DOMAIN tree
      BY <1>6, <2>2 DEF TreeSound
    <2>. QED BY <1>3, <2>1, <2>2
  <1>7. ASSUME NEW q \in DOMAIN new, Len(q) < 4, ~Portless(q)
        PROVE  new[q].bytes = Total(BytesOf(new), ChildrenOf(new, q))
    <2>1. CASE q \notin P
      <3>1. q \in DOMAIN tree /\ new[q].bytes = tree[q].bytes
        BY <1>3, <2>1 DEF Grown, P
      <3>2. tree[q].bytes = Total(BytesOf(tree), ChildrenOf(tree, q))
        BY <1>7, <3>1 DEF TreeSound
      <3>3. ChildrenOf(new, q) = ChildrenOf(tree, q) /\ ChildrenOf(tree, q) \cap Ancestry(path) = {}
        BY <1>1, <2>1, <3>1, ChildrenOff DEF P
      <3>4. ChildrenOf(tree, q) \in SUBSET DOMAIN tree
        BY DEF ChildrenOf
      <3>5. Total(BytesOf(new), ChildrenOf(tree, q)) = Total(BytesOf(tree), ChildrenOf(tree, q))
        BY <1>1, <3>3, <3>4, ClassStays
      <3>. QED BY <3>1, <3>2, <3>3, <3>5
    <2>2. CASE q \in P
      <3>. DEFINE n == Len(q)
                  c == SubSeq(path, 1, n + 1)
                  S == ChildrenOf(tree, q)
      <3>1. n \in Nat /\ n <= Len(path) /\ q = SubSeq(path, 1, n)
        BY <1>4, <2>2
      <3>2. n # Len(path)
        <4>1. CASE Len(path) = 4
          BY <1>7, <4>1
        <4>2. CASE Len(path) = 3
          <5>1. Portless(path)
            BY <4>2 DEF Counts
          <5>2. n = Len(path) => q = path
            BY <1>4a, <3>1
          <5>. QED BY <1>7, <5>1, <5>2
        <4>. QED BY <1>0, <4>1, <4>2
      <3>3. n \in 0..Len(path) - 1
        BY <1>0, <3>1, <3>2
      <3>4. /\ c \in Ancestry(path) /\ ChildrenOf(new, q) = S \cup {c}
            /\ c \in S \/ c \notin DOMAIN tree
            /\ \A r \in S : r \in Ancestry(path) => r = c
        <4>. DEFINE b == SubSeq(path, 1, n)
        <4>1. /\ c \in Ancestry(path)
              /\ ChildrenOf(new, b) = ChildrenOf(tree, b) \cup {c}
              /\ c \in ChildrenOf(tree, b) \/ c \notin DOMAIN tree
              /\ \A r \in ChildrenOf(tree, b) : r \in Ancestry(path) => r = c
          <5>. HIDE DEF n
          <5>. QED BY <1>1, <3>3, ChildrenOn
        <4>2. b = q
          BY <3>1
        <4>. HIDE DEF b, n, c
        <4>. QED BY <4>1, <4>2
      <3>5. S \in SUBSET DOMAIN tree
        BY DEF ChildrenOf
      <3>. HIDE DEF S, c, n
      <3>6. Total(BytesOf(new), S \cup {c}) = Total(BytesOf(tree), S) + len
        BY <1>1, <1>2, <3>4, <3>5, ClassGrows
      <3>7. new[q].bytes = (IF q \in DOMAIN tree THEN tree[q].bytes ELSE 0) + len
        BY <2>2 DEF Grown, P
      <3>8. (IF q \in DOMAIN tree THEN tree[q].bytes ELSE 0) = Total(BytesOf(tree), S)
        <4>1. CASE q \in DOMAIN tree
          BY <1>7, <4>1 DEF TreeSound, S
        <4>2. CASE q \notin DOMAIN tree
          <5>1. ASSUME NEW r \in S PROVE FALSE
            <6>1. r \in DOMAIN tree /\ Len(r) = Len(q) + 1 /\ SubSeq(r, 1, Len(q)) = q
              BY DEF S, ChildrenOf
            <6>2. Len(r) > 0 /\ Len(r) - 1 = Len(q)
              BY <3>1, <6>1 DEF n
            <6>3. SubSeq(r, 1, Len(r) - 1) \in DOMAIN tree
              BY <6>1, <6>2 DEF TreeSound
            <6>. QED BY <4>2, <6>1, <6>2, <6>3
          <5>2. S = {}
            BY <5>1
          <5>. QED BY <4>2, <5>2, TotalEmpty
        <4>. QED BY <4>1, <4>2
      <3>. QED BY <3>4, <3>6, <3>7, <3>8
    <2>. QED BY <2>1, <2>2
  <1>8. Total(BytesOf(new), AppsOf(new)) = Total(BytesOf(tree), AppsOf(tree)) + (IF Len(path) = 4 THEN len ELSE 0)
    <2>. DEFINE S == AppsOf(tree)
    <2>1. S \in SUBSET DOMAIN tree
      BY DEF AppsOf
    <2>2. Total(BytesOf(tree), S) \in Int
      BY <1>1, <2>1, TreeSummable, TotalType
    <2>3. CASE Len(path) = 4
      <3>1. \A r \in P : Len(r) = 4 => r = path
        BY <1>4, <1>4a, <2>3
      <3>2. AppsOf(new) = S \cup {path} /\ (path \in S \/ path \notin DOMAIN tree) /\ \A r \in S : r \in P => r = path
        BY <1>3, <1>4, <2>3, <3>1 DEF AppsOf
      <3>. HIDE DEF S
      <3>3. Total(BytesOf(new), S \cup {path}) = Total(BytesOf(tree), S) + len
        <4>1. path \in Ancestry(path) /\ \A r \in S : r \in Ancestry(path) => r = path
          BY <1>4, <3>2 DEF P
        <4>. QED BY <1>1, <1>2, <2>1, <3>2, <4>1, ClassGrows
      <3>. QED BY <2>3, <3>2, <3>3 DEF S
    <2>4. CASE Len(path) = 3
      <3>1. \A r \in P : Len(r) # 4
        <4>. DEFINE l == Len(path)
        <4>1. l = 3
          BY <2>4
        <4>2. \A r \in P : Len(r) \in Nat /\ Len(r) <= l
          BY <1>4b
        <4>. HIDE DEF l
        <4>. QED BY <4>1, <4>2
      <3>2. AppsOf(new) = S /\ S \cap P = {}
        BY <1>3, <3>1 DEF AppsOf
      <3>. HIDE DEF S
      <3>3. Total(BytesOf(new), S) = Total(BytesOf(tree), S)
        BY <1>1, <2>1, <3>2, ClassStays DEF P
      <3>. QED BY <2>2, <2>4, <3>2, <3>3 DEF S
    <2>. QED BY <1>0, <2>3, <2>4
  <1>9. <<>> \in DOMAIN new /\ tree[<<>>].bytes \in Nat /\ new[<<>>].bytes = tree[<<>>].bytes + len
    <2>. DEFINE root == <<>>
    <2>1. root \in P
      <3>1. SubSeq(path, 1, 0) = root
        BY <1>1 DEF IsPath
      <3>2. 0 \in 0..Len(path)
        BY <1>0
      <3>. QED BY <1>4, <3>1, <3>2
    <2>2. root \in DOMAIN tree
      BY DEF TreeSound
    <2>. HIDE DEF root
    <2>3. tree[root].bytes \in Nat
      BY <1>1, <2>2, TreeNodes
    <2>4. root \in DOMAIN new /\ new[root].bytes = tree[root].bytes + len
      BY <1>3, <2>1, <2>2 DEF Grown, P
    <2>. QED BY <2>3, <2>4 DEF root
  <1>. QED BY <1>2, <1>5, <1>6, <1>7, <1>8, <1>9 DEF TreeSound

PairSet == {<<Host[f], Peer[f]>> : f \in Flows}

PeersOf(a) == {q \in PairSet : q[2] = a}

IsRollup(r) == "bytes" \in DOMAIN r /\ r.bytes \in [BOOLEAN -> Nat]

BothBytes(r) == r.bytes[TRUE] + r.bytes[FALSE]

\* There are finitely many pairs of hosts.
LEMMA PairsFinite == IsFiniteSet(PairSet)
  <1>. DEFINE g == [f \in Flows |-> <<Host[f], Peer[f]>>]
  <1>1. g \in [Flows -> PairSet] /\ \A x \in PairSet : \E f \in Flows : g[f] = x
    BY DEF PairSet
  <1>. HIDE DEF g
  <1>2. g \in Surjection(Flows, PairSet)
    BY <1>1 DEF Surjection
  <1>. QED BY <1>2, FS_Surjection, PipelineAssumption

\* A rollup counts a number of bytes.
LEMMA RollupNat ==
  ASSUME NEW r, IsRollup(r)
  PROVE  BothBytes(r) \in Nat
  <1>. DEFINE x == r.bytes[TRUE]
              y == r.bytes[FALSE]
  <1>1. x \in Nat /\ y \in Nat
    BY DEF IsRollup
  <1>2. BothBytes(r) = x + y
    BY DEF BothBytes
  <1>. HIDE DEF x, y
  <1>. QED BY <1>1, <1>2

\* RollupState::record adds the packet's bytes.
LEMMA RecordedSum ==
  ASSUME NEW r, IsRollup(r), NEW out \in BOOLEAN, NEW len \in Nat, NEW isNew
  PROVE  LET u == Recorded(r, out, len, isNew) IN IsRollup(u) /\ BothBytes(u) = BothBytes(r) + len
  <1>. DEFINE u == Recorded(r, out, len, isNew)
              b == [r.bytes EXCEPT ![out] = @ + len]
  <1>1. u.bytes = b /\ "bytes" \in DOMAIN u
    BY DEF Recorded
  <1>2. r.bytes \in [BOOLEAN -> Nat]
    BY DEF IsRollup
  <1>3. b \in [BOOLEAN -> Nat] /\ \A d \in BOOLEAN : b[d] = IF d = out THEN r.bytes[d] + len ELSE r.bytes[d]
    BY <1>2
  <1>4. out = TRUE \/ out = FALSE
    OBVIOUS
  <1>. HIDE DEF u, b
  <1>. DEFINE x == r.bytes[TRUE]
              y == r.bytes[FALSE]
              x2 == b[TRUE]
              y2 == b[FALSE]
  <1>5. x \in Nat /\ y \in Nat
    BY <1>2
  <1>6. x2 + y2 = x + y + len
    <2>1. CASE out = TRUE
      <3>1. x2 = x + len /\ y2 = y
        BY <1>3, <2>1
      <3>. HIDE DEF x, y, x2, y2
      <3>. QED BY <1>5, <3>1
    <2>2. CASE out = FALSE
      <3>1. x2 = x /\ y2 = y + len
        BY <1>3, <2>2
      <3>. HIDE DEF x, y, x2, y2
      <3>. QED BY <1>5, <3>1
    <2>. QED BY <1>4, <2>1, <2>2
  <1>. QED BY <1>1, <1>3, <1>6 DEF IsRollup, BothBytes, u

\* A snapshot leaves the totals alone.
LEMMA DrainedSum ==
  ASSUME NEW r, IsRollup(r)
  PROVE  IsRollup(Drained(r)) /\ BothBytes(Drained(r)) = BothBytes(r)
  <1>. DEFINE u == Drained(r)
  <1>1. "bytes" \in DOMAIN r
    BY DEF IsRollup
  <1>2. u.bytes = r.bytes /\ DOMAIN u = DOMAIN r
    BY <1>1 DEF Drained
  <1>. HIDE DEF u
  <1>3. IsRollup(u) /\ BothBytes(u) = BothBytes(r)
    BY <1>2 DEF IsRollup, BothBytes
  <1>. QED BY <1>3 DEF u

\* Rollups over a set of keys.
Rolls(rolls, D) == DOMAIN rolls = D /\ \A k \in D : IsRollup(rolls[k])

\* Hosts and pairs count the same bytes, those of the applications and the rebuilt
\* datagrams; the hierarchy counts what was captured.
RollsSound(hosts, pairs, tree, rebuilt, captured) ==
  /\ Rolls(hosts, Addrs) /\ Rolls(pairs, PairSet) /\ TreeSound(tree)
  /\ \A a \in Addrs : BothBytes(hosts[a]) = Total(BothOf(pairs, PairSet), PeersOf(a))
  /\ rebuilt \in Nat /\ Total(BothOf(pairs, PairSet), PairSet) = Total(BytesOf(tree), AppsOf(tree)) + rebuilt
  /\ tree[<<>>].bytes = captured

\* The pairs' bytes can be summed.
LEMMA PairsSummable ==
  ASSUME NEW pairs, Rolls(pairs, PairSet), NEW S \in SUBSET PairSet
  PROVE  Summable(BothOf(pairs, PairSet), S) /\ \A q \in PairSet : BothOf(pairs, PairSet)[q] = BothBytes(pairs[q])
  <1>1. IsFiniteSet(S)
    BY PairsFinite, FS_Subset
  <1>2. \A q \in PairSet : BothOf(pairs, PairSet)[q] = BothBytes(pairs[q])
    BY DEF BothOf, BothBytes
  <1>3. \A q \in PairSet : BothBytes(pairs[q]) \in Nat
    BY RollupNat DEF Rolls
  <1>. QED BY <1>1, <1>2, <1>3 DEF Summable

\* A packet recorded in one of the rollups.
LEMMA RolledUp ==
  ASSUME NEW rolls, NEW D, Rolls(rolls, D), NEW key \in D, NEW out \in BOOLEAN, NEW len \in Nat, NEW isNew
  PROVE  LET new == [rolls EXCEPT ![key] = Recorded(rolls[key], out, len, isNew)]
         IN /\ Rolls(new, D) /\ BothBytes(new[key]) = BothBytes(rolls[key]) + len
            /\ \A k \in D \ {key} : new[k] = rolls[k]
  <1>. DEFINE r == Recorded(rolls[key], out, len, isNew)
              new == [rolls EXCEPT ![key] = r]
  <1>1. IsRollup(rolls[key]) /\ DOMAIN rolls = D
    BY DEF Rolls
  <1>2. IsRollup(r) /\ BothBytes(r) = BothBytes(rolls[key]) + len
    BY <1>1, RecordedSum
  <1>. HIDE DEF r
  <1>3. DOMAIN new = D /\ new[key] = r /\ \A k \in D \ {key} : new[k] = rolls[k]
    BY <1>1
  <1>. HIDE DEF new
  <1>4. Rolls(new, D)
    BY <1>2, <1>3 DEF Rolls
  <1>. QED BY <1>2, <1>3, <1>4 DEF new, r

\* A packet of a flow.
LEMMA RollsObserved ==
  ASSUME NEW hosts, NEW pairs, NEW tree, NEW rebuilt, NEW captured, RollsSound(hosts, pairs, tree, rebuilt, captured),
         NEW f \in Flows, NEW out \in BOOLEAN, NEW len \in Nat, NEW isNew, NEW path, Counts(path),
         NEW wire \in Nat, NEW more \in Nat,
         IF Len(path) = 4 THEN wire = len /\ more = 0 ELSE more = len
  PROVE  RollsSound([hosts EXCEPT ![Peer[f]] = Recorded(hosts[Peer[f]], out, len, isNew)],
                    [pairs EXCEPT ![<<Host[f], Peer[f]>>] = Recorded(pairs[<<Host[f], Peer[f]>>], out, len, isNew)],
                    TreeAdded(tree, path, wire), rebuilt + more, captured + wire)
  <1>. DEFINE h == Peer[f]
              p == <<Host[f], Peer[f]>>
              hosts2 == [hosts EXCEPT ![h] = Recorded(hosts[h], out, len, isNew)]
              pairs2 == [pairs EXCEPT ![p] = Recorded(pairs[p], out, len, isNew)]
              tree2 == TreeAdded(tree, path, wire)
              w == BothOf(pairs, PairSet)
              v == BothOf(pairs2, PairSet)
  <1>1. h \in Addrs /\ p \in PairSet /\ p[2] = h
    BY PipelineAssumption DEF PairSet
  <1>2. /\ Rolls(hosts, Addrs) /\ Rolls(pairs, PairSet) /\ TreeSound(tree)
        /\ \A a \in Addrs : BothBytes(hosts[a]) = Total(w, PeersOf(a))
        /\ rebuilt \in Nat /\ Total(w, PairSet) = Total(BytesOf(tree), AppsOf(tree)) + rebuilt
        /\ tree[<<>>].bytes = captured
    BY DEF RollsSound
  <1>. HIDE DEF h, p, w
  <1>3. /\ Rolls(hosts2, Addrs) /\ BothBytes(hosts2[h]) = BothBytes(hosts[h]) + len
        /\ \A a \in Addrs \ {h} : hosts2[a] = hosts[a]
    BY <1>1, <1>2, RolledUp
  <1>4. /\ Rolls(pairs2, PairSet) /\ BothBytes(pairs2[p]) = BothBytes(pairs[p]) + len
        /\ \A q \in PairSet \ {p} : pairs2[q] = pairs[q]
    BY <1>1, <1>2, RolledUp
  <1>5. /\ TreeSound(tree2)
        /\ Total(BytesOf(tree2), AppsOf(tree2)) = Total(BytesOf(tree), AppsOf(tree)) + (IF Len(path) = 4 THEN wire ELSE 0)
        /\ tree2[<<>>].bytes = captured + wire
    <2>1. Grown(tree, tree2, path, wire)
      BY AddedGrown
    <2>. HIDE DEF tree2
    <2>. QED BY <1>2, <2>1, GrownSound
  <1>. HIDE DEF hosts2, pairs2, tree2, v
  <1>6. /\ v[p] = w[p] + len /\ \A q \in PairSet \ {p} : v[q] = w[q]
    <2>1. \A q \in PairSet : w[q] = BothBytes(pairs[q]) /\ v[q] = BothBytes(pairs2[q])
      BY <1>2, <1>4, PairsSummable DEF w, v
    <2>. QED BY <1>1, <1>4, <2>1
  <1>7. ASSUME NEW S \in SUBSET PairSet, p \in S PROVE Total(v, S) = Total(w, S) + len
    <2>1. Summable(w, S) /\ len \in Int
      BY <1>2, PairsSummable DEF w
    <2>2. \A q \in S \ {p} : v[q] = w[q]
      BY <1>6
    <2>. QED BY <1>6, <1>7, <2>1, <2>2, TotalChanged
  <1>8. ASSUME NEW S \in SUBSET PairSet, p \notin S PROVE Total(v, S) = Total(w, S)
    <2>1. Summable(w, S)
      BY <1>2, PairsSummable DEF w
    <2>2. Same(w, v, S)
      BY <1>6, <1>8 DEF Same
    <2>. QED BY <2>1, <2>2, TotalSame
  <1>9. ASSUME NEW a \in Addrs PROVE BothBytes(hosts2[a]) = Total(v, PeersOf(a))
    <2>1. PeersOf(a) \in SUBSET PairSet
      BY DEF PeersOf
    <2>2. CASE a = h
      <3>1. p \in PeersOf(a)
        BY <1>1, <2>2 DEF PeersOf
      <3>. QED BY <1>2, <1>3, <1>7, <2>1, <2>2, <3>1
    <2>3. CASE a # h
      <3>1. p \notin PeersOf(a)
        BY <1>1, <2>3 DEF PeersOf
      <3>. QED BY <1>2, <1>3, <1>8, <2>1, <2>3, <3>1
    <2>. QED BY <2>2, <2>3
  <1>10. rebuilt + more \in Nat /\ Total(v, PairSet) = Total(BytesOf(tree2), AppsOf(tree2)) + (rebuilt + more)
    <2>. DEFINE x == Total(BytesOf(tree), AppsOf(tree))
                x2 == Total(BytesOf(tree2), AppsOf(tree2))
                y == Total(w, PairSet)
                y2 == Total(v, PairSet)
                l == Len(path)
    <2>1. PairSet \in SUBSET PairSet
      OBVIOUS
    <2>2. x \in Int
      <3>1. TreeTyped(tree) /\ AppsOf(tree) \in SUBSET DOMAIN tree
        BY <1>2 DEF TreeSound, AppsOf
      <3>. QED BY <3>1, TreeSummable, TotalType
    <2>3. /\ rebuilt \in Nat /\ y = x + rebuilt /\ x2 = x + (IF l = 4 THEN wire ELSE 0) /\ y2 = y + len
          /\ IF l = 4 THEN wire = len /\ more = 0 ELSE more = len
      BY <1>1, <1>2, <1>5, <1>7, <2>1
    <2>. HIDE DEF x, x2, y, y2, l
    <2>4. rebuilt + more \in Nat /\ y2 = x2 + (rebuilt + more)
      BY <2>2, <2>3
    <2>. QED BY <2>4 DEF x2, y2
  <1>11. RollsSound(hosts2, pairs2, tree2, rebuilt + more, captured + wire)
    BY <1>3, <1>4, <1>5, <1>9, <1>10 DEF RollsSound, v
  <1>. QED BY <1>11 DEF hosts2, pairs2, tree2, h, p

\* A packet of none.
LEMMA RollsPortless ==
  ASSUME NEW hosts, NEW pairs, NEW tree, NEW rebuilt, NEW captured, RollsSound(hosts, pairs, tree, rebuilt, captured),
         NEW wire \in Nat, NEW path, Counts(path), Len(path) = 3
  PROVE  RollsSound(hosts, pairs, TreeAdded(tree, path, wire), rebuilt, captured + wire)
  <1>. DEFINE tree2 == TreeAdded(tree, path, wire)
  <1>2. Grown(tree, tree2, path, wire)
    BY AddedGrown
  <1>. HIDE DEF tree2
  <1>3. /\ TreeSound(tree2) /\ tree2[<<>>].bytes = captured + wire
        /\ Total(BytesOf(tree2), AppsOf(tree2)) = Total(BytesOf(tree), AppsOf(tree)) + (IF Len(path) = 4 THEN wire ELSE 0)
    BY <1>2, GrownSound DEF RollsSound
  <1>4. Total(BytesOf(tree), AppsOf(tree)) \in Int
    <2>1. TreeTyped(tree) /\ AppsOf(tree) \in SUBSET DOMAIN tree
      BY DEF RollsSound, TreeSound, AppsOf
    <2>. QED BY <2>1, TreeSummable, TotalType
  <1>5. Total(BytesOf(tree2), AppsOf(tree2)) = Total(BytesOf(tree), AppsOf(tree))
    BY <1>3, <1>4
  <1>. QED BY <1>3, <1>5 DEF RollsSound, tree2

\* A snapshot.
LEMMA RollsDrained ==
  ASSUME NEW hosts, NEW pairs, NEW tree, NEW rebuilt, NEW captured, RollsSound(hosts, pairs, tree, rebuilt, captured)
  PROVE  RollsSound([a \in DOMAIN hosts |-> Drained(hosts[a])], [q \in DOMAIN pairs |-> Drained(pairs[q])], tree,
                    rebuilt, captured)
  <1>. DEFINE hosts2 == [a \in DOMAIN hosts |-> Drained(hosts[a])]
              pairs2 == [q \in DOMAIN pairs |-> Drained(pairs[q])]
              w == BothOf(pairs, PairSet)
              v == BothOf(pairs2, PairSet)
  <1>1. /\ Rolls(hosts, Addrs) /\ Rolls(pairs, PairSet) /\ TreeSound(tree)
        /\ \A a \in Addrs : BothBytes(hosts[a]) = Total(w, PeersOf(a))
        /\ rebuilt \in Nat /\ Total(w, PairSet) = Total(BytesOf(tree), AppsOf(tree)) + rebuilt
        /\ tree[<<>>].bytes = captured
    BY DEF RollsSound
  <1>2. ASSUME NEW rolls, NEW D, Rolls(rolls, D)
        PROVE  LET new == [k \in DOMAIN rolls |-> Drained(rolls[k])]
               IN Rolls(new, D) /\ \A k \in D : BothBytes(new[k]) = BothBytes(rolls[k])
    <2>. DEFINE new == [k \in DOMAIN rolls |-> Drained(rolls[k])]
    <2>1. DOMAIN rolls = D /\ \A k \in D : IsRollup(rolls[k])
      BY <1>2 DEF Rolls
    <2>2. DOMAIN new = D /\ \A k \in D : new[k] = Drained(rolls[k])
      BY <2>1
    <2>. HIDE DEF new
    <2>3. Rolls(new, D) /\ \A k \in D : BothBytes(new[k]) = BothBytes(rolls[k])
      BY <2>1, <2>2, DrainedSum DEF Rolls
    <2>. QED BY <2>3 DEF new
  <1>3. Rolls(hosts2, Addrs) /\ \A a \in Addrs : BothBytes(hosts2[a]) = BothBytes(hosts[a])
    BY <1>1, <1>2
  <1>4. Rolls(pairs2, PairSet) /\ \A q \in PairSet : BothBytes(pairs2[q]) = BothBytes(pairs[q])
    BY <1>1, <1>2
  <1>. HIDE DEF hosts2, pairs2, w, v
  <1>5. \A q \in PairSet : v[q] = w[q]
    <2>1. \A q \in PairSet : w[q] = BothBytes(pairs[q]) /\ v[q] = BothBytes(pairs2[q])
      BY <1>1, <1>4, PairsSummable DEF w, v
    <2>. QED BY <1>4, <2>1
  <1>6. ASSUME NEW S \in SUBSET PairSet PROVE Total(v, S) = Total(w, S)
    <2>1. Summable(w, S)
      BY <1>1, PairsSummable DEF w
    <2>2. Same(w, v, S)
      BY <1>5 DEF Same
    <2>. QED BY <2>1, <2>2, TotalSame
  <1>7. \A a \in Addrs : PeersOf(a) \in SUBSET PairSet
    BY DEF PeersOf
  <1>8. PairSet \in SUBSET PairSet
    OBVIOUS
  <1>9. RollsSound(hosts2, pairs2, tree, rebuilt, captured)
    BY <1>1, <1>3, <1>4, <1>6, <1>7, <1>8 DEF RollsSound, v
  <1>. QED BY <1>9 DEF hosts2, pairs2

\* A flow and its positions agree while there is a flow.
FlowSound(flow, p) == p \in Positions /\ (flow # Hole => FlowAgrees(flow, p))

\* The inductive invariant.
MetricsInv ==
  /\ DOMAIN pFlows = Flows /\ DOMAIN pPositions = Flows
  /\ \A f \in Flows : FlowSound(pFlows[f], pPositions[f])
  /\ RollsSound(pHosts, pPairs, pTree, pCounted.rebuilt, pCounted.captured)

\* The rollups and the hierarchy of an empty table.
LEMMA RollsInitially ==
  RollsSound([a \in Addrs |-> NewRollup], [q \in PairSet |-> NewRollup],
             [q \in {<<>>} |-> [bytes |-> 0, packets |-> 0]], 0, 0)
  <1>. DEFINE hosts == [a \in Addrs |-> NewRollup]
              pairs == [q \in PairSet |-> NewRollup]
              tree == [q \in {<<>>} |-> [bytes |-> 0, packets |-> 0]]
              w == BothOf(pairs, PairSet)
  <1>1. IsRollup(NewRollup) /\ BothBytes(NewRollup) = 0
    <2>. DEFINE b == PerDirection(0, 0)
                x == b[TRUE]
                y == b[FALSE]
    <2>1. b \in [BOOLEAN -> Nat] /\ x = 0 /\ y = 0
      BY DEF PerDirection
    <2>2. NewRollup.bytes = b /\ "bytes" \in DOMAIN NewRollup
      BY DEF NewRollup
    <2>3. BothBytes(NewRollup) = x + y
      BY <2>2 DEF BothBytes
    <2>. HIDE DEF b, x, y
    <2>. QED BY <2>1, <2>2, <2>3 DEF IsRollup
  <1>2. Rolls(hosts, Addrs) /\ Rolls(pairs, PairSet)
    BY <1>1 DEF Rolls
  <1>3. (\A a \in Addrs : hosts[a] = NewRollup) /\ \A q \in PairSet : pairs[q] = NewRollup
    OBVIOUS
  <1>. DEFINE root == <<>>
              n == Len(root)
  <1>4. DOMAIN tree = {root} /\ tree[root].bytes = 0
    OBVIOUS
  <1>5. IsPath(root) /\ n = 0
    <2>1. <<>> \in Seq({}) /\ Len(<<>>) = 0
      OBVIOUS
    <2>. QED BY <2>1 DEF IsPath
  <1>. HIDE DEF hosts, pairs, tree, w, root
  <1>6. \A q \in PairSet : w[q] = 0
    BY <1>1, <1>2, <1>3, PairsSummable DEF w
  <1>7. ASSUME NEW S \in SUBSET PairSet PROVE Total(w, S) = 0
    BY <1>6, PairsFinite, FS_Subset, TotalZero
  <1>8. AppsOf(tree) = {} /\ ChildrenOf(tree, root) = {}
    <2>1. \A q \in DOMAIN tree : q = root /\ Len(q) = n
      BY <1>4
    <2>. HIDE DEF n
    <2>2. AppsOf(tree) = {}
      BY <1>5, <2>1 DEF AppsOf
    <2>3. \A q \in DOMAIN tree : Len(q) # Len(root) + 1
      BY <1>5, <2>1 DEF n
    <2>. QED BY <2>2, <2>3 DEF ChildrenOf
  <1>9. TreeTyped(tree)
    <2>1. IsFiniteSet(DOMAIN tree)
      BY <1>4, FS_Singleton
    <2>2. \A q \in DOMAIN tree : q = root
      BY <1>4
    <2>. QED BY <1>4, <1>5, <2>1, <2>2 DEF TreeTyped
  <1>10. TreeSound(tree) /\ Total(BytesOf(tree), AppsOf(tree)) = 0
    <2>1. \A q \in DOMAIN tree : q = root
      BY <1>4
    <2>2. tree[root].bytes = Total(BytesOf(tree), ChildrenOf(tree, root))
      BY <1>4, <1>8, TotalEmpty
    <2>. HIDE DEF n
    <2>3. ASSUME NEW q \in DOMAIN tree
          PROVE  /\ ~(Len(q) > 0) /\ Len(q) # 4
                 /\ tree[q].bytes = Total(BytesOf(tree), ChildrenOf(tree, q))
      <3>1. q = root /\ Len(q) = n
        BY <2>1 DEF n
      <3>. QED BY <1>5, <2>2, <3>1
    <2>4. <<>> \in DOMAIN tree
      BY <1>4 DEF root
    <2>. QED BY <1>8, <1>9, <2>3, <2>4, TotalEmpty DEF TreeSound
  <1>11. \A a \in Addrs : PeersOf(a) \in SUBSET PairSet
    BY DEF PeersOf
  <1>12. PairSet \in SUBSET PairSet
    OBVIOUS
  <1>13. tree[<<>>].bytes = 0
    BY <1>4 DEF root
  <1>14. RollsSound(hosts, pairs, tree, 0, 0)
    BY <1>1, <1>2, <1>3, <1>7, <1>10, <1>11, <1>12, <1>13 DEF RollsSound, w
  <1>. QED BY <1>14 DEF hosts, pairs, tree

\* It holds of empty tables.
LEMMA MetricsInitially ==
  ASSUME PipeInit
  PROVE  MetricsInv
  <1>1. /\ pFlows = [f \in Flows |-> Hole] /\ pPositions = [f \in Flows |-> NoPositions]
        /\ pHosts = [a \in Addrs |-> NewRollup] /\ pPairs = [q \in PairSet |-> NewRollup]
        /\ pTree = [q \in {<<>>} |-> [bytes |-> 0, packets |-> 0]] /\ pCounted = [captured |-> 0, rebuilt |-> 0]
    BY DEF PipeInit, PairSet, NoPositions
  <1>2. \A f \in Flows : pFlows[f] = Hole /\ pPositions[f] = NoPositions
    BY <1>1
  <1>0. pCounted.rebuilt = 0 /\ pCounted.captured = 0
    BY <1>1
  <1>3. RollsSound(pHosts, pPairs, pTree, pCounted.rebuilt, pCounted.captured)
    BY <1>0, <1>1, RollsInitially
  <1>. QED BY <1>1, <1>2, <1>3, NewFlowSound DEF MetricsInv, FlowSound

\* The path a packet of a flow is counted along.
LEMMA FlowPath ==
  ASSUME NEW tcp, NEW app
  PROVE  LET path == <<"Ethernet", "IP", IF tcp THEN "TCP" ELSE "UDP", app>> IN Counts(path) /\ Len(path) = 4
  <1>. DEFINE l4 == IF tcp THEN "TCP" ELSE "UDP"
              path == <<"Ethernet", "IP", l4, app>>
              S == {"Ethernet", "IP", "TCP", "UDP", app}
  <1>1. l4 \in {"TCP", "UDP"}
    OBVIOUS
  <1>. HIDE DEF l4
  <1>2. path \in Seq(S) /\ Len(path) = 4 /\ path[3] = l4
    BY <1>1
  <1>. HIDE DEF path
  <1>3. SubSeq(path, 1, 3)[3] = path[3]
    BY <1>2
  <1>4. Icmp[3] = "ICMP" /\ Fragmented[3] = "Other"
    BY DEF Icmp, Fragmented
  <1>5. ~Portless(SubSeq(path, 1, 3))
    BY <1>1, <1>2, <1>3, <1>4 DEF Portless
  <1>6. IsPath(path)
    BY <1>2 DEF IsPath
  <1>7. Counts(path) /\ Len(path) = 4
    BY <1>2, <1>5, <1>6 DEF Counts
  <1>. QED BY <1>7 DEF path, l4

\* The path of one that is counted without.
LEMMA PortlessPath == ASSUME NEW path, Portless(path) PROVE Counts(path) /\ Len(path) = 3
  <1>1. CASE path = Icmp
    <2>1. Icmp \in Seq({"Ethernet", "IP", "ICMP"}) /\ Len(Icmp) = 3
      BY DEF Icmp
    <2>. QED BY <1>1, <2>1 DEF Counts, IsPath
  <1>2. CASE path = Fragmented
    <2>1. Fragmented \in Seq({"Ethernet", "IP", "Other"}) /\ Len(Fragmented) = 3
      BY DEF Fragmented
    <2>. QED BY <1>2, <2>1 DEF Counts, IsPath
  <1>. QED BY <1>1, <1>2 DEF Portless

\* A packet of a flow keeps it, the flow being new or not.
LEMMA MetricsObserved ==
  ASSUME MetricsInv, NEW m, IsFrame(m), m.parse \in {"ok", "rebuilt", "control"},
         NEW now, InWindow(m, now), Observed(m, now), pCounted' = CountedAfter(m)
  PROVE  MetricsInv'
  <1>. DEFINE f == m.flow
              isNew == pFlows[f] = Hole \/ IdleOnArrival(f, now)
              old == IF isNew THEN NewFlowState ELSE pFlows[f]
              was == IF isNew THEN NoPositions ELSE pPositions[f]
              new == FlowUpdated(old, m, KnownPort[f], now)
              after == PositionAfter(was, m)
              path == HierarchyPath(m, new.app)
              rebuilt == pCounted.rebuilt
              captured == pCounted.captured
              wire == m.wire
              more == IF m.parse = "rebuilt" THEN m.len ELSE 0
  <1>1. f \in Flows /\ m.out \in BOOLEAN /\ m.pos \in Nat /\ m.len \in Nat /\ m.tcp \in BOOLEAN /\ m.payload \in BOOLEAN
    BY DEF IsFrame, Frame
  <1>2. /\ DOMAIN pFlows = Flows /\ DOMAIN pPositions = Flows /\ FlowSound(pFlows[f], pPositions[f])
        /\ RollsSound(pHosts, pPairs, pTree, rebuilt, captured)
    BY <1>1 DEF MetricsInv
  <1>3. was \in Positions /\ FlowAgrees(old, was)
    BY <1>2, NewFlowSound DEF FlowSound
  <1>4. m.tcp /\ m.payload /\ was.high[m.out] # Hole =>
          m.pos - was.high[m.out] \in -(WireMod \div 2)..(WireMod \div 2)-1
    <2>1. CASE isNew
      <3>1. was.high[m.out] = Hole
        BY <1>1, <2>1 DEF NoPositions, PerDirection
      <3>. QED BY <3>1
    <2>2. CASE ~isNew
      <3>1. was = pPositions[m.flow] /\ ~IdleOnArrival(m.flow, now)
        BY <2>2
      <3>. QED BY <3>1 DEF InWindow
    <2>. QED BY <2>1, <2>2
  <1>. HIDE DEF was, old
  <1>5. after \in Positions /\ FlowAgrees(new, after)
    BY <1>1, <1>3, <1>4, FlowObserved
  <1>6. /\ pFlows' = [pFlows EXCEPT ![f] = new]
        /\ pPositions' = [pPositions EXCEPT ![f] = after]
    BY <1>1, <1>2 DEF Observed, PositionAfter, NoPositions, was, old
  <1>7. /\ pHosts' = [pHosts EXCEPT ![Peer[f]] = Recorded(pHosts[Peer[f]], m.out, m.len, isNew)]
        /\ pPairs' = [pPairs EXCEPT ![<<Host[f], Peer[f]>>] = Recorded(pPairs[<<Host[f], Peer[f]>>], m.out, m.len, isNew)]
        /\ pTree' = TreeAdded(pTree, path, wire)
    BY DEF Observed, HierarchyAfter, old
  <1>8. Counts(path) /\ (IF Len(path) = 4 THEN wire = m.len /\ more = 0 ELSE more = m.len)
        /\ wire \in Nat /\ more \in Nat
    <2>0. m.wire \in Nat /\ m.len \in Nat /\ (m.parse # "rebuilt" => m.wire = m.len)
      BY DEF IsFrame, Frame
    <2>1. CASE m.parse = "rebuilt"
      <3>1. path = Fragmented
        BY <2>1 DEF HierarchyPath, Fragmented
      <3>2. Counts(path) /\ Len(path) = 3
        BY <3>1, PortlessPath DEF Portless
      <3>. HIDE DEF path
      <3>. QED BY <2>0, <2>1, <3>2
    <2>2. CASE m.parse \in {"ok", "control"}
      <3>1. path = <<"Ethernet", "IP", IF m.tcp THEN "TCP" ELSE "UDP", new.app>>
        BY <2>2 DEF HierarchyPath
      <3>2. Counts(path) /\ Len(path) = 4
        BY <3>1, FlowPath
      <3>. HIDE DEF path
      <3>. QED BY <2>0, <2>2, <3>2
    <2>. QED BY <2>1, <2>2
  <1>12. pCounted'.rebuilt = rebuilt + more /\ pCounted'.captured = captured + wire
    BY DEF CountedAfter
  <1>. HIDE DEF f, isNew, new, after, path, rebuilt, captured, wire, more
  <1>9. RollsSound(pHosts', pPairs', pTree', rebuilt + more, captured + wire)
    BY <1>1, <1>2, <1>7, <1>8, RollsObserved
  <1>10. DOMAIN pFlows' = Flows /\ DOMAIN pPositions' = Flows
    BY <1>2, <1>6
  <1>11. ASSUME NEW g \in Flows PROVE FlowSound(pFlows'[g], pPositions'[g])
    <2>1. CASE g = f
      BY <1>1, <1>2, <1>5, <1>6, <2>1 DEF FlowSound
    <2>2. CASE g # f
      BY <1>1, <1>2, <1>6, <2>2 DEF MetricsInv
    <2>. QED BY <2>1, <2>2
  <1>. QED BY <1>9, <1>10, <1>11, <1>12 DEF MetricsInv

\* So does a snapshot, which evicts idle flows and drains the tick counters.
LEMMA MetricsSnapshot ==
  ASSUME MetricsInv, Snapshot
  PROVE  MetricsInv'
  <1>. DEFINE Kept(f) == pFlows[f] # Hole /\ SatSub(EmitterNow, pFlows[f].seen) <= FlowIdle
  <1>1. /\ pFlows' = [f \in Flows |-> IF Kept(f) THEN Drained(pFlows[f]) ELSE Hole]
        /\ pPositions' = [f \in Flows |-> IF Kept(f) THEN pPositions[f] ELSE NoPositions]
        /\ pHosts' = [a \in DOMAIN pHosts |-> Drained(pHosts[a])]
        /\ pPairs' = [q \in DOMAIN pPairs |-> Drained(pPairs[q])]
        /\ pTree' = pTree /\ pCounted' = pCounted
    BY DEF Snapshot, NoPositions
  <1>2. RollsSound(pHosts, pPairs, pTree, pCounted.rebuilt, pCounted.captured)
    BY DEF MetricsInv
  <1>3. RollsSound(pHosts', pPairs', pTree', pCounted'.rebuilt, pCounted'.captured)
    BY <1>1, <1>2, RollsDrained
  <1>4. ASSUME NEW f \in Flows PROVE FlowSound(pFlows'[f], pPositions'[f])
    <2>1. FlowSound(pFlows[f], pPositions[f])
      BY DEF MetricsInv
    <2>2. CASE Kept(f)
      <3>1. pFlows'[f] = Drained(pFlows[f]) /\ pPositions'[f] = pPositions[f] /\ pFlows[f] # Hole
        BY <1>1, <2>2
      <3>. QED BY <2>1, <3>1, DrainedSound DEF FlowSound
    <2>3. CASE ~Kept(f)
      <3>1. pFlows'[f] = Hole /\ pPositions'[f] = NoPositions
        BY <1>1, <2>3
      <3>. QED BY <3>1, NewFlowSound DEF FlowSound
    <2>. QED BY <2>2, <2>3
  <1>5. DOMAIN pFlows' = Flows /\ DOMAIN pPositions' = Flows
    BY <1>1
  <1>. QED BY <1>3, <1>4, <1>5 DEF MetricsInv

\* A packet without a flow.
LEMMA MetricsBare ==
  ASSUME MetricsInv, NEW m, IsFrame(m), m.parse \in {"part", "icmp", "foreign"}, pTree' = HierarchyAfter(m, Hole),
         pCounted' = CountedAfter(m), UNCHANGED <<pFlows, pHosts, pPairs, pPositions>>
  PROVE  MetricsInv'
  <1>. DEFINE rebuilt == pCounted.rebuilt
              captured == pCounted.captured
              path == HierarchyPath(m, Hole)
  <1>1. m.wire \in Nat
    BY DEF IsFrame, Frame
  <1>2. RollsSound(pHosts, pPairs, pTree, rebuilt, captured) /\ rebuilt \in Nat
    BY DEF MetricsInv, RollsSound
  <1>3. captured \in Nat
    <2>1. TreeSound(pTree) /\ pTree[<<>>].bytes = captured
      BY <1>2 DEF RollsSound
    <2>. QED BY <2>1, TreeNodes DEF TreeSound
  <1>4. CASE m.parse = "foreign"
    <2>1. pTree' = pTree /\ pCounted'.rebuilt = rebuilt + 0 /\ pCounted'.captured = captured + 0
      BY <1>4 DEF HierarchyAfter, CountedAfter
    <2>2. pCounted'.rebuilt = rebuilt /\ pCounted'.captured = captured
      BY <1>2, <1>3, <2>1
    <2>. QED BY <1>2, <2>1, <2>2 DEF MetricsInv
  <1>5. CASE m.parse \in {"part", "icmp"}
    <2>1. /\ pTree' = TreeAdded(pTree, path, m.wire)
          /\ pCounted'.rebuilt = rebuilt + 0 /\ pCounted'.captured = captured + m.wire
      BY <1>5 DEF HierarchyAfter, CountedAfter
    <2>2. Portless(path)
      BY <1>5 DEF HierarchyPath, Portless, Icmp, Fragmented
    <2>. HIDE DEF path, rebuilt, captured
    <2>3. RollsSound(pHosts, pPairs, TreeAdded(pTree, path, m.wire), rebuilt, captured + m.wire)
      BY <1>1, <1>2, <2>2, PortlessPath, RollsPortless
    <2>4. pCounted'.rebuilt = rebuilt
      BY <1>2, <2>1
    <2>. QED BY <2>1, <2>3, <2>4 DEF MetricsInv
  <1>. QED BY <1>4, <1>5

\* The inductive step.
LEMMA MetricsStep ==
  ASSUME ClockInv, MetricsInv, [PipeNext]_pVars
  PROVE  MetricsInv'
  <1>1. ASSUME NEW m, NEW ts, NEW tick, IsFrame(m), NextFrame(m, ts, tick) PROVE MetricsInv'
    <2>. DEFINE now == FlowNow(ClockAfter(pClock, ts).elapsed, pNow + tick)
    <2>1. CASE /\ m.parse \in {"ok", "rebuilt", "control"} /\ InWindow(m, now) /\ Observed(m, now)
               /\ pCounted' = CountedAfter(m)
      <3>. HIDE DEF now
      <3>. QED BY <1>1, <2>1, MetricsObserved
    <2>2. CASE /\ m.parse \in {"part", "icmp", "foreign"} /\ pTree' = HierarchyAfter(m, Hole)
               /\ pCounted' = CountedAfter(m) /\ UNCHANGED <<pFlows, pHosts, pPairs, pPositions>>
      BY <1>1, <2>2, MetricsBare
    <2>3. CASE UNCHANGED <<pFlows, pHosts, pPairs, pTree, pPositions, pCounted>>
      BY <2>3 DEF MetricsInv
    <2>. QED BY <1>1, <2>1, <2>2, <2>3 DEF NextFrame
  <1>2. ASSUME NEW ts, NEW tick, QuietSource(ts, tick) PROVE MetricsInv'
    BY <1>2 DEF QuietSource, MetricsInv
  <1>3. ASSUME NEW request, NEW fault, InterfaceSwitched(request, fault) PROVE MetricsInv'
    <2>1. /\ pFlows' = [f \in Flows |-> Hole] /\ pPositions' = [f \in Flows |-> NoPositions]
          /\ UNCHANGED <<pHosts, pPairs, pTree, pCounted>>
      BY <1>3 DEF InterfaceSwitched, NoPositions
    <2>2. \A f \in Flows : pFlows'[f] = Hole /\ pPositions'[f] = NoPositions
      BY <2>1
    <2>3. \A f \in Flows : FlowSound(pFlows'[f], pPositions'[f])
      BY <2>2, NewFlowSound DEF FlowSound
    <2>. QED BY <2>1, <2>3 DEF MetricsInv
  <1>4. CASE Snapshot
    BY <1>4, MetricsSnapshot
  <1>5. CASE UNCHANGED fVars
    BY <1>5 DEF fVars, MetricsInv
  <1>. QED BY <1>1, <1>2, <1>3, <1>4, <1>5, StepCases

\* It implies what is claimed.
LEMMA MetricsHold ==
  ASSUME MetricsInv
  PROVE  MetricsExact
  <1>. DEFINE apps == {q \in DOMAIN pTree : Len(q) = 4}
              Children(q) == {r \in DOMAIN pTree : Len(r) = Len(q) + 1 /\ SubSeq(r, 1, Len(q)) = q}
              Peers(a) == {q \in DOMAIN pPairs : q[2] = a}
              w == BothOf(pPairs, PairSet)
  <1>1. /\ Rolls(pHosts, Addrs) /\ Rolls(pPairs, PairSet) /\ TreeSound(pTree)
        /\ \A a \in Addrs : BothBytes(pHosts[a]) = Total(w, PeersOf(a))
        /\ Total(w, PairSet) = Total(BytesOf(pTree), AppsOf(pTree)) + pCounted.rebuilt
        /\ pTree[<<>>].bytes = pCounted.captured
    BY DEF MetricsInv, RollsSound
  <1>2. DOMAIN pPairs = PairSet /\ apps = AppsOf(pTree) /\ TreeTyped(pTree)
    BY <1>1 DEF Rolls, AppsOf, TreeSound
  <1>3. (\A q \in DOMAIN pTree : Children(q) = ChildrenOf(pTree, q)) /\ \A a \in Addrs : Peers(a) = PeersOf(a)
    BY <1>2 DEF ChildrenOf, PeersOf
  <1>4. ASSUME NEW f \in Flows, pFlows[f] # Hole
        PROVE  /\ pFlows[f].retransmits = pPositions[f].again
               /\ \A o \in BOOLEAN : pPositions[f].high[o] # Hole =>
                    pFlows[f].maxSeq[o] = pPositions[f].high[o] % WireMod
    <2>1. FlowAgrees(pFlows[f], pPositions[f])
      BY <1>4 DEF MetricsInv, FlowSound
    <2>. QED BY <2>1 DEF FlowAgrees
  <1>5. ASSUME NEW S \in SUBSET PairSet
        PROVE  MapThenSumSet(LAMBDA q : pPairs[q].bytes[TRUE] + pPairs[q].bytes[FALSE], S) = Total(w, S)
    <2>1. Summable(BothOf(pPairs, PairSet), S)
      BY <1>1, PairsSummable
    <2>. QED BY <2>1, PairSum
  <1>6. ASSUME NEW S \in SUBSET DOMAIN pTree
        PROVE  MapThenSumSet(LAMBDA q : pTree[q].bytes, S) = Total(BytesOf(pTree), S)
    <2>1. Summable(BytesOf(pTree), S)
      BY <1>2, TreeSummable
    <2>. QED BY <2>1, TreeSum
  <1>7. ASSUME NEW a \in Addrs
        PROVE  pHosts[a].bytes[TRUE] + pHosts[a].bytes[FALSE]
                 = MapThenSumSet(LAMBDA q : pPairs[q].bytes[TRUE] + pPairs[q].bytes[FALSE], Peers(a))
    <2>1. Peers(a) \in SUBSET PairSet /\ Peers(a) = PeersOf(a)
      BY <1>2, <1>3
    <2>2. BothBytes(pHosts[a]) = Total(w, Peers(a))
      BY <1>1, <2>1
    <2>. HIDE DEF Peers, w
    <2>. QED BY <1>5, <2>1, <2>2 DEF BothBytes
  <1>8. MapThenSumSet(LAMBDA q : pPairs[q].bytes[TRUE] + pPairs[q].bytes[FALSE], DOMAIN pPairs)
          = MapThenSumSet(LAMBDA q : pTree[q].bytes, apps) + pCounted.rebuilt
    <2>1. PairSet \in SUBSET PairSet /\ apps \in SUBSET DOMAIN pTree
      OBVIOUS
    <2>. HIDE DEF apps, w
    <2>2. MapThenSumSet(LAMBDA q : pPairs[q].bytes[TRUE] + pPairs[q].bytes[FALSE], PairSet) = Total(w, PairSet)
      BY <1>5, <2>1
    <2>3. MapThenSumSet(LAMBDA q : pTree[q].bytes, apps) = Total(BytesOf(pTree), apps)
      BY <1>6, <2>1
    <2>. QED BY <1>1, <1>2, <2>2, <2>3
  <1>9. ASSUME NEW q \in DOMAIN pTree, Children(q) # {}
        PROVE  pTree[q].bytes = MapThenSumSet(LAMBDA r : pTree[r].bytes, Children(q))
    <2>1. PICK r \in DOMAIN pTree : Len(r) = Len(q) + 1 /\ SubSeq(r, 1, Len(q)) = q
      BY <1>9
    <2>2. Len(q) \in Nat /\ Len(q) <= 4 /\ Len(r) \in Nat /\ Len(r) <= 4
      BY <1>2, TreeNodes
    <2>3. Len(q) < 4
      BY <2>1, <2>2
    <2>4. ~Portless(q)
      <3>1. SUFFICES ASSUME Portless(q) PROVE FALSE
        OBVIOUS
      <3>2. Len(q) = 3
        BY <3>1, PortlessPath
      <3>. DEFINE head == SubSeq(r, 1, 3)
      <3>3. Len(r) = 4 /\ head = q
        BY <2>1, <3>2
      <3>. HIDE DEF head
      <3>4. Portless(head)
        BY <3>1, <3>3
      <3>. QED BY <1>1, <3>3, <3>4 DEF TreeSound, head
    <2>5. pTree[q].bytes = Total(BytesOf(pTree), ChildrenOf(pTree, q))
      BY <1>1, <2>3, <2>4 DEF TreeSound
    <2>6. Children(q) \in SUBSET DOMAIN pTree /\ Children(q) = ChildrenOf(pTree, q)
      BY <1>3
    <2>. HIDE DEF Children
    <2>7. MapThenSumSet(LAMBDA x : pTree[x].bytes, Children(q)) = Total(BytesOf(pTree), Children(q))
      BY <1>6, <2>6
    <2>. QED BY <2>5, <2>6, <2>7
  <1>. QED BY <1>1, <1>4, <1>7, <1>8, <1>9 DEF MetricsExact

\* MetricsExact, for flow.rs, observe_inner, RollupState::record and ProtocolNode::add:
\* whatever wraps, a data segment counts as retransmitted exactly when its direction's
\* data reached that position before, as long as TCP's window keeps it within half the
\* sequence space; a host counts what its pairs do, the pairs together what the
\* applications of the hierarchy and the datagrams rebuilt from fragments do, each once,
\* every node what its children do, and the root every captured frame once, a fragment
\* included and its datagram not again, although flows come and go. For any flows,
\* addresses, frames, fragments and times.
THEOREM MetricsAlwaysExact == PipeSpec => []MetricsExact
  <1>1. PipeInit => ClockInv /\ MetricsInv
    BY ClockInitially, MetricsInitially
  <1>2. ClockInv /\ MetricsInv /\ [PipeNext]_pVars => ClockInv' /\ MetricsInv'
    BY ClockStep, MetricsStep
  <1>3. MetricsInv => MetricsExact
    BY MetricsHold
  <1>. QED BY <1>1, <1>2, <1>3, PTL DEF PipeSpec

-----------------------------------------------------------------------------
(* What a capture file replays *)

\* What the properties of PcapReader say of a block, for a file F.
Sec(F, p) == {s \in 1..p-1 : F[s].kind = "section" /\ \A q \in s+1..p-1 : F[q].kind # "section"}
Ifs(F, p) == {q \in 1..p-1 : F[q].kind = "interface" /\ \A s \in Sec(F, p) : q > s}
Und(F, p) == \A s \in Sec(F, p) : Supported(F[s].version)
Rank(F, q) == Cardinality(Ifs(F, q))
Des(F, p) == {q \in Ifs(F, p) : Rank(F, q) = F[p].iface}
NamesOf(F) == [q \in DOMAIN F |-> F[q].name]
IfaceOf(F, q) == [link |-> F[q].link, unit |-> F[q].unit]

SoundAt(F, p) ==
  LET b == F[p]
      understood == IF b.kind = "section" THEN Supported(b.version) ELSE Und(F, p)
  IN /\ b.framed /\ (b.kind = "section" \/ \E s \in Sec(F, p) : F[s].order = b.order)
     /\ understood =>
          /\ b.kind # "simple" /\ (b.kind = "other" \/ b.body)
          /\ b.kind = "interface" =>
               /\ Cardinality(Ifs(F, p)) < MaxInterfaces
               /\ Total(NamesOf(F), Ifs(F, p) \cup {p}) <= MaxNameBytes
          /\ b.kind = "packet" =>
               \E q \in Des(F, p) : F[q].link # Hole /\ F[q].unit # Hole /\ Nanos(F[p].count, F[q].unit) <= MaxTime

\* The section after one more block.
LEMMA SecNext ==
  ASSUME NEW F, NEW p \in Nat \ {0}
  PROVE  /\ F[p].kind = "section" => Sec(F, p + 1) = {p}
         /\ F[p].kind # "section" => Sec(F, p + 1) = Sec(F, p)
  <1>1. (p + 1) - 1 = p
    OBVIOUS
  <1>2. ASSUME F[p].kind = "section" PROVE Sec(F, p + 1) = {p}
    <2>1. ASSUME NEW s \in Sec(F, p + 1) PROVE s = p
      <3>1. s \in 1..p /\ \A q \in s+1..p : F[q].kind # "section"
        BY <1>1 DEF Sec
      <3>. QED BY <1>2, <3>1
    <2>2. p \in Sec(F, p + 1)
      BY <1>1, <1>2 DEF Sec
    <2>. QED BY <2>1, <2>2
  <1>3. ASSUME F[p].kind # "section" PROVE Sec(F, p + 1) = Sec(F, p)
    <2>1. ASSUME NEW s \in Sec(F, p + 1) PROVE s \in Sec(F, p)
      <3>1. s \in 1..p /\ F[s].kind = "section" /\ \A q \in s+1..p : F[q].kind # "section"
        BY <1>1 DEF Sec
      <3>2. s \in 1..p-1 /\ \A q \in s+1..p-1 : q \in s+1..p
        BY <1>3, <3>1
      <3>. QED BY <3>1, <3>2 DEF Sec
    <2>2. ASSUME NEW s \in Sec(F, p) PROVE s \in Sec(F, p + 1)
      <3>1. s \in 1..p-1 /\ F[s].kind = "section" /\ \A q \in s+1..p-1 : F[q].kind # "section"
        BY DEF Sec
      <3>2. s \in 1..p /\ \A q \in s+1..p : q = p \/ q \in s+1..p-1
        BY <3>1
      <3>. QED BY <1>1, <1>3, <3>1, <3>2 DEF Sec
    <2>. QED BY <2>1, <2>2
  <1>. QED BY <1>2, <1>3

\* A block belongs to one section at most, which starts before it.
LEMMA SecType ==
  ASSUME NEW F, NEW p \in Nat \ {0}
  PROVE  /\ Sec(F, p) \subseteq 1..p-1
         /\ \A s, t \in Sec(F, p) : s = t
  <1>1. Sec(F, p) \subseteq 1..p-1
    BY DEF Sec
  <1>2. ASSUME NEW s \in Sec(F, p), NEW t \in Sec(F, p), s < t PROVE FALSE
    <2>1. t \in s+1..p-1 /\ F[t].kind = "section"
      BY <1>1, <1>2 DEF Sec
    <2>. QED BY <1>2, <2>1 DEF Sec
  <1>3. \A s, t \in Sec(F, p) : s \in Int /\ t \in Int
    BY <1>1
  <1>. QED BY <1>1, <1>2, <1>3

\* The interfaces of the section after one more block.
LEMMA IfsNext ==
  ASSUME NEW F, NEW p \in Nat \ {0}
  PROVE  /\ F[p].kind = "section" => Ifs(F, p + 1) = {}
         /\ F[p].kind = "interface" => Ifs(F, p + 1) = Ifs(F, p) \cup {p}
         /\ F[p].kind \notin {"section", "interface"} => Ifs(F, p + 1) = Ifs(F, p)
  <1>1. (p + 1) - 1 = p
    OBVIOUS
  <1>2. ASSUME F[p].kind = "section" PROVE Ifs(F, p + 1) = {}
    <2>1. Sec(F, p + 1) = {p}
      BY <1>2, SecNext
    <2>2. \A q \in 1..p : ~(q > p)
      OBVIOUS
    <2>. QED BY <1>1, <2>1, <2>2 DEF Ifs
  <1>3. ASSUME F[p].kind # "section"
        PROVE  Ifs(F, p + 1) = Ifs(F, p) \cup (IF F[p].kind = "interface" THEN {p} ELSE {})
    <2>1. Sec(F, p + 1) = Sec(F, p) /\ \A s \in Sec(F, p) : p > s
      BY <1>3, SecNext, SecType
    <2>2. 1..p = (1..p-1) \cup {p}
      OBVIOUS
    <2>3. Ifs(F, p + 1) = {q \in 1..p : F[q].kind = "interface" /\ \A s \in Sec(F, p) : q > s}
      BY <1>1, <2>1 DEF Ifs
    <2>4. Ifs(F, p) = {q \in 1..p-1 : F[q].kind = "interface" /\ \A s \in Sec(F, p) : q > s}
      BY DEF Ifs
    <2>. QED BY <2>1, <2>2, <2>3, <2>4
  <1>4. ASSUME F[p].kind = "interface" PROVE Ifs(F, p + 1) = Ifs(F, p) \cup {p}
    BY <1>3, <1>4
  <1>5. ASSUME F[p].kind \notin {"section", "interface"} PROVE Ifs(F, p + 1) = Ifs(F, p)
    BY <1>3, <1>5
  <1>. QED BY <1>2, <1>4, <1>5

\* The interfaces of a section are finitely many blocks before the one that asks.
LEMMA IfsType ==
  ASSUME NEW F, NEW p \in Nat \ {0}
  PROVE  Ifs(F, p) \subseteq 1..p-1 /\ IsFiniteSet(Ifs(F, p)) /\ Rank(F, p) \in Nat
  <1>1. Ifs(F, p) \subseteq 1..p-1
    BY DEF Ifs
  <1>2. IsFiniteSet(1..p-1)
    BY FS_Interval
  <1>3. IsFiniteSet(Ifs(F, p))
    BY <1>1, <1>2, FS_Subset
  <1>. QED BY <1>1, <1>3, FS_CardinalityType DEF Rank

\* The reader's interfaces are those of the section, by their rank in it.
Lists(F, ifs, S) ==
  /\ Len(ifs) = Cardinality(S)
  /\ \A q \in S : Rank(F, q) + 1 \in 1..Len(ifs) /\ ifs[Rank(F, q) + 1] = IfaceOf(F, q)
  /\ \A j \in 1..Len(ifs) : \E q \in S : Rank(F, q) + 1 = j
  /\ \A q, r \in S : Rank(F, q) = Rank(F, r) => q = r

\* A new section lists no interface.
LEMMA ListsNone == ASSUME NEW F PROVE Lists(F, <<>>, {})
  <1>1. Len(<<>>) = 0 /\ Cardinality({}) = 0
    BY FS_EmptySet
  <1>. QED BY <1>1 DEF Lists

\* An interface that is added gets the next number of its section.
LEMMA ListsMore ==
  ASSUME NEW F, NEW p \in Nat \ {0}, NEW V, NEW ifs \in Seq(V), Lists(F, ifs, Ifs(F, p)), IfaceOf(F, p) \in V
  PROVE  Lists(F, Append(ifs, IfaceOf(F, p)), Ifs(F, p) \cup {p})
  <1>. DEFINE S == Ifs(F, p)
              x == IfaceOf(F, p)
              new == Append(ifs, x)
              n == Len(ifs)
  <1>1. S \subseteq 1..p-1 /\ IsFiniteSet(S) /\ p \notin S
    BY IfsType
  <1>2. Cardinality(S \cup {p}) = Cardinality(S) + 1
    BY <1>1, FS_AddElement
  <1>3. /\ n \in Nat /\ Len(new) = n + 1 /\ new[n + 1] = x
        /\ \A j \in 1..n : new[j] = ifs[j]
    OBVIOUS
  <1>4. n = Cardinality(S) /\ Rank(F, p) = n
    BY DEF Lists, Rank
  <1>5. /\ \A q \in S : Rank(F, q) + 1 \in 1..n /\ ifs[Rank(F, q) + 1] = IfaceOf(F, q)
        /\ \A j \in 1..n : \E q \in S : Rank(F, q) + 1 = j
        /\ \A q, r \in S : Rank(F, q) = Rank(F, r) => q = r
    BY DEF Lists
  <1>6. \A q \in S : Rank(F, q) \in Nat
    <2>1. \A q \in S : q \in Nat \ {0}
      BY <1>1
    <2>. QED BY <2>1, IfsType
  <1>. HIDE DEF S, x, new, n
  <1>7. ASSUME NEW q \in S \cup {p} PROVE Rank(F, q) + 1 \in 1..Len(new) /\ new[Rank(F, q) + 1] = IfaceOf(F, q)
    <2>1. CASE q = p
      BY <1>3, <1>4, <2>1 DEF x
    <2>2. CASE q \in S
      <3>1. Rank(F, q) + 1 \in 1..n /\ ifs[Rank(F, q) + 1] = IfaceOf(F, q)
        BY <1>5, <2>2
      <3>. QED BY <1>3, <3>1
    <2>. QED BY <2>1, <2>2
  <1>8. ASSUME NEW j \in 1..Len(new) PROVE \E q \in S \cup {p} : Rank(F, q) + 1 = j
    <2>1. CASE j = n + 1
      BY <1>4, <2>1
    <2>2. CASE j # n + 1
      <3>1. j \in 1..n
        BY <1>3, <2>2
      <3>. QED BY <1>5, <3>1
    <2>. QED BY <2>1, <2>2
  <1>9. ASSUME NEW q \in S \cup {p}, NEW r \in S \cup {p}, Rank(F, q) = Rank(F, r) PROVE q = r
    <2>1. \A t \in S : Rank(F, t) # n
      BY <1>3, <1>5, <1>6
    <2>. QED BY <1>4, <1>5, <1>9, <2>1
  <1>10. Len(new) = Cardinality(S \cup {p})
    BY <1>2, <1>3, <1>4
  <1>11. Lists(F, new, S \cup {p})
    BY <1>7, <1>8, <1>9, <1>10 DEF Lists
  <1>. QED BY <1>11 DEF new, x, S

\* The interface of a packet's number.
LEMMA DescribedIs ==
  ASSUME NEW F, NEW p, NEW ifs, Len(ifs) \in Nat, Lists(F, ifs, Ifs(F, p)), F[p].iface \in Nat
  PROVE  /\ F[p].iface < Len(ifs) => \E q \in Ifs(F, p) : Des(F, p) = {q} /\ ifs[F[p].iface + 1] = IfaceOf(F, q)
         /\ ~(F[p].iface < Len(ifs)) => Des(F, p) = {}
  <1>. DEFINE S == Ifs(F, p)
              i == F[p].iface
              n == Len(ifs)
  <1>1. /\ \A q \in S : Rank(F, q) + 1 \in 1..n /\ ifs[Rank(F, q) + 1] = IfaceOf(F, q)
        /\ \A j \in 1..n : \E q \in S : Rank(F, q) + 1 = j
        /\ \A q, r \in S : Rank(F, q) = Rank(F, r) => q = r
    BY DEF Lists
  <1>2. Des(F, p) = {q \in S : Rank(F, q) = i} /\ i \in Nat /\ n \in Nat
    BY DEF Des
  <1>3. \A q \in S : Rank(F, q) \in Nat
    <2>1. \A q \in S : q \in Nat \ {0}
      BY DEF Ifs
    <2>. QED BY <2>1, IfsType
  <1>. HIDE DEF S, i, n
  <1>4. CASE i < n
    <2>1. i + 1 \in 1..n
      BY <1>2, <1>4
    <2>2. PICK q \in S : Rank(F, q) + 1 = i + 1
      BY <1>1, <2>1
    <2>3. Rank(F, q) = i
      BY <1>2, <1>3, <2>2
    <2>4. Des(F, p) = {q}
      BY <1>1, <1>2, <2>3
    <2>5. ifs[i + 1] = IfaceOf(F, q)
      BY <1>1, <2>2
    <2>. QED BY <1>4, <2>4, <2>5 DEF S, i, n
  <1>5. CASE ~(i < n)
    <2>1. \A q \in S : Rank(F, q) # i
      BY <1>1, <1>2, <1>3, <1>5
    <2>. QED BY <1>2, <1>5, <2>1 DEF i, n
  <1>. QED BY <1>4, <1>5

\* The reader after k blocks of F that are sound.
At(F, r, k) ==
  /\ r \in Readers /\ r.at = k
  /\ Sec(F, k + 1) = {} => r.order = Hole /\ ~r.supported
  /\ \A s \in Sec(F, k + 1) : r.order = F[s].order /\ (r.supported <=> Supported(F[s].version))
  /\ r.supported => /\ Lists(F, r.interfaces, Ifs(F, k + 1))
                    /\ r.names = Total(NamesOf(F), Ifs(F, k + 1))

NoneParsable(r) == \A j \in 1..Len(r.interfaces) : ~Parsable(r.interfaces[j])

FrameOf(F, p) ==
  LET i == F[CHOOSE q \in Des(F, p) : TRUE] IN [link |-> i.link, time |-> Nanos(F[p].count, i.unit)]

IsPacket(F, p) == F[p].kind = "packet" /\ Und(F, p)

IsOpener(F, p) == F[p].kind = "interface" /\ Und(F, p) /\ F[p].link # Hole

Files == Seq(FileBlock)

\* The sizes of the names of some blocks add up.
LEMMA NamesSummable ==
  ASSUME NEW F \in Files, NEW S \in SUBSET (1..Len(F))
  PROVE  /\ IsFiniteSet(S) /\ Summable(NamesOf(F), S) /\ Total(NamesOf(F), S) \in Nat
         /\ \A q \in 1..Len(F) : NamesOf(F)[q] = F[q].name /\ F[q].name \in Nat
  <1>1. Len(F) \in Nat /\ DOMAIN F = 1..Len(F) /\ \A q \in 1..Len(F) : F[q] \in FileBlock
    BY DEF Files
  <1>2. IsFiniteSet(S)
    <2>. DEFINE n == Len(F)
    <2>1. n \in Nat /\ S \subseteq 1..n
      BY <1>1
    <2>. HIDE DEF n
    <2>2. IsFiniteSet(1..n)
      BY <2>1, FS_Interval
    <2>. QED BY <2>1, <2>2, FS_Subset
  <1>3. \A q \in 1..Len(F) : NamesOf(F)[q] = F[q].name /\ F[q].name \in Nat
    <2>. SUFFICES ASSUME NEW q \in 1..Len(F) PROVE NamesOf(F)[q] = F[q].name /\ F[q].name \in Nat
      OBVIOUS
    <2>. DEFINE b == F[q]
    <2>1. q \in DOMAIN F /\ b \in FileBlock
      BY <1>1
    <2>2. NamesOf(F)[q] = b.name
      BY <2>1 DEF NamesOf
    <2>. HIDE DEF b
    <2>3. b.name \in Nat
      BY <2>1 DEF FileBlock
    <2>. QED BY <2>2, <2>3 DEF b
  <1>4. \A q \in S : NamesOf(F)[q] \in Nat
    BY <1>3
  <1>5. Total(NamesOf(F), S) \in Nat
    BY <1>2, <1>4, TotalNat
  <1>6. Summable(NamesOf(F), S)
    BY <1>2, <1>4 DEF Summable
  <1>. QED BY <1>2, <1>3, <1>5, <1>6

\* One more name adds its size.
LEMMA NamesMore ==
  ASSUME NEW F \in Files, NEW p \in 1..Len(F)
  PROVE  /\ Total(NamesOf(F), Ifs(F, p)) \in Nat
         /\ Total(NamesOf(F), Ifs(F, p) \cup {p}) = Total(NamesOf(F), Ifs(F, p)) + F[p].name
  <1>. DEFINE S == Ifs(F, p)
              w == NamesOf(F)
  <1>1. Len(F) \in Nat /\ p \in Nat \ {0}
    BY DEF Files
  <1>2. S \subseteq 1..p-1
    BY <1>1, IfsType
  <1>3. S \in SUBSET (1..Len(F)) /\ S \cup {p} \in SUBSET (1..Len(F)) /\ p \notin S
    BY <1>1, <1>2
  <1>4. Total(w, S) \in Nat /\ Summable(w, S \cup {p}) /\ w[p] = F[p].name /\ F[p].name \in Nat
    BY <1>3, NamesSummable
  <1>5. (S \cup {p}) \ {p} = S /\ p \in S \cup {p}
    BY <1>3
  <1>. HIDE DEF S, w
  <1>6. Total(w, S \cup {p}) = w[p] + Total(w, S)
    BY <1>4, <1>5, TotalWithout
  <1>7. Total(w, S \cup {p}) = Total(w, S) + F[p].name
    BY <1>4, <1>6
  <1>. QED BY <1>4, <1>7 DEF S, w

\* A block that is looked at: in a section this agent understands.
LEMMA SectionKnown ==
  ASSUME NEW F \in Files, NEW p \in 1..Len(F), NEW r, At(F, r, p - 1), F[p].kind # "section"
  PROVE  /\ Framed([r EXCEPT !.at = @ + 1], F[p]) <=> F[p].framed /\ \E s \in Sec(F, p) : F[s].order = F[p].order
         /\ Sec(F, p) # {} => (r.supported <=> Und(F, p))
  <1>. DEFINE u == [r EXCEPT !.at = @ + 1]
  <1>1. (p - 1) + 1 = p /\ p \in Nat \ {0} /\ Len(F) \in Nat
    BY DEF Files
  <1>2. /\ r \in Readers
        /\ Sec(F, p) = {} => r.order = Hole /\ ~r.supported
        /\ \A s \in Sec(F, p) : r.order = F[s].order /\ (r.supported <=> Supported(F[s].version))
    BY <1>1 DEF At
  <1>3. u.order = r.order
    BY <1>2 DEF Readers
  <1>. HIDE DEF u
  <1>4. \A s, t \in Sec(F, p) : s = t
    BY <1>1, SecType
  <1>7. \A s \in Sec(F, p) : F[s].order # Hole
    <2>1. \A s \in Sec(F, p) : s \in 1..Len(F)
      BY <1>1, SecType
    <2>2. \A s \in 1..Len(F) : F[s] \in FileBlock
      BY DEF Files
    <2>3. \A b \in FileBlock : b.order \in STRING
      BY DEF FileBlock
    <2>. QED BY <2>1, <2>2, <2>3, PipelineAssumption
  <1>5. Framed(u, F[p]) <=> F[p].framed /\ \E s \in Sec(F, p) : F[s].order = F[p].order
    <2>1. CASE Sec(F, p) = {}
      BY <1>2, <1>3, <2>1 DEF Framed
    <2>2. CASE Sec(F, p) # {}
      <3>1. PICK s \in Sec(F, p) : Sec(F, p) = {s}
        BY <1>4, <2>2
      <3>. QED BY <1>2, <1>3, <1>7, <3>1 DEF Framed
    <2>. QED BY <2>1, <2>2
  <1>6. Sec(F, p) # {} => (r.supported <=> Und(F, p))
    BY <1>2, <1>4 DEF Und
  <1>. QED BY <1>5, <1>6 DEF u

\* None of the outcomes of a turn is Hole.
LEMMA HoleNoOutcome == Hole # "error" /\ Hole # "open" /\ Hole # "frame" /\ Hole # "eof"
  BY ReaderAssumption

\* decode_packet decodes exactly the packets that are sound.
LEMMA DecodableIs ==
  ASSUME NEW F \in Files, NEW p \in 1..Len(F), NEW r \in Readers, Lists(F, r.interfaces, Ifs(F, p))
  PROVE  /\ Decodable(r, F[p]) <=>
              F[p].body /\ \E q \in Des(F, p) : F[q].link # Hole /\ F[q].unit # Hole /\ Nanos(F[p].count, F[q].unit) <= MaxTime
         /\ Decodable(r, F[p]) => DecodePacket(r, F[p]) = FrameOf(F, p)
         /\ Decodable(r, F[p]) => ~NoneParsable(r)
  <1>. DEFINE b == F[p]
              ifs == r.interfaces
              n == Len(ifs)
              j == b.iface
              i == ifs[j + 1]
  <1>1. b \in FileBlock /\ ifs \in Seq(Interfaces) /\ n \in Nat /\ Len(F) \in Nat
    BY DEF Files, Readers
  <1>2. j \in Nat /\ b.count \in Nat
    BY <1>1 DEF FileBlock
  <1>3. Decodable(r, b) <=> b.body /\ j < n /\ i.link # Hole /\ TimeOf(i, b) # Hole
    BY DEF Decodable, WellFormed, Parsable
  <1>4. /\ j < n => \E q \in Ifs(F, p) : Des(F, p) = {q} /\ i = IfaceOf(F, q)
        /\ ~(j < n) => Des(F, p) = {}
    BY <1>1, <1>2, DescribedIs
  <1>5. CASE ~(j < n)
    <2>. HIDE DEF j, n, i
    <2>. QED BY <1>3, <1>4, <1>5
  <1>6. CASE j < n
    <2>1. PICK q \in Ifs(F, p) : Des(F, p) = {q} /\ i = IfaceOf(F, q)
      BY <1>4, <1>6
    <2>. DEFINE l == F[q].link
                u == F[q].unit
                c == b.count
    <2>2. i.link = l /\ i.unit = u
      BY <2>1 DEF IfaceOf
    <2>3. q \in 1..Len(F)
      BY <1>1, IfsType
    <2>4. u \in (Nat \ {0}) \cup {Hole} /\ c \in Nat
      <3>1. F[q] \in FileBlock
        BY <2>3 DEF Files
      <3>. QED BY <1>2, <3>1 DEF FileBlock
    <2>5. TimeOf(i, b) = IF u = Hole THEN Hole ELSE IF Nanos(c, u) > MaxTime THEN Hole ELSE Nanos(c, u)
      BY <2>2 DEF TimeOf
    <2>6. DecodePacket(r, b) = [link |-> l, time |-> TimeOf(i, b)]
      BY <2>2 DEF DecodePacket
    <2>7. FrameOf(F, p) = [link |-> l, time |-> Nanos(c, u)]
      <3>1. (CHOOSE x \in Des(F, p) : TRUE) = q
        BY <2>1
      <3>. QED BY <3>1 DEF FrameOf
    <2>8. (\E x \in Des(F, p) : F[x].link # Hole /\ F[x].unit # Hole /\ Nanos(F[p].count, F[x].unit) <= MaxTime)
            <=> l # Hole /\ u # Hole /\ Nanos(c, u) <= MaxTime
      BY <2>1
    <2>9. j + 1 \in 1..n
      BY <1>1, <1>2, <1>6
    <2>10. i.link # Hole => ~NoneParsable(r)
      BY <2>9 DEF NoneParsable, Parsable
    <2>. HIDE DEF i, l, u, c, b, n
    <2>11. TimeOf(i, b) # Hole <=> u # Hole /\ Nanos(c, u) <= MaxTime
      <3>1. CASE u = Hole
        BY <2>5, <3>1
      <3>2. CASE u # Hole
        <4>. DEFINE x == Nanos(c, u)
        <4>1. x \in Nat /\ MaxTime \in Nat /\ x # Hole
          <5>1. u \in Nat \ {0}
            BY <2>4, <3>2
          <5>2. x \in Nat
            BY <2>4, <5>1, NanosType
          <5>. QED BY <5>2, ReaderAssumption, CaptureClockAssumption
        <4>2. TimeOf(i, b) = IF x > MaxTime THEN Hole ELSE x
          BY <2>5, <3>2
        <4>. HIDE DEF x
        <4>3. TimeOf(i, b) # Hole <=> x <= MaxTime
          BY <4>1, <4>2
        <4>. QED BY <3>2, <4>3 DEF x
      <3>. QED BY <3>1, <3>2
    <2>12. TimeOf(i, b) # Hole => TimeOf(i, b) = Nanos(c, u)
      BY <2>5, <2>11
    <2>. QED BY <1>3, <1>6, <2>2, <2>6, <2>7, <2>8, <2>10, <2>11, <2>12 DEF b
  <1>. QED BY <1>5, <1>6

\* A turn of the loop: p is the block that is read.
TurnsRight(F, p, r, t, opening) ==
  /\ t.out \in {Hole, "error", "open", "frame"} /\ t.reader.at = p
  /\ t.out = "error" <=> ~SoundAt(F, p)
  /\ t.out # "error" => At(F, t.reader, p)
  /\ t.out = "frame" => ~opening /\ IsPacket(F, p) /\ DecodePacket(t.reader, F[p]) = FrameOf(F, p)
  /\ t.out = "open" => opening /\ IsOpener(F, p)
  /\ t.out = Hole => IF opening THEN ~IsOpener(F, p) ELSE ~IsPacket(F, p)
  /\ opening /\ NoneParsable(r) => /\ ~(t.out # "error" /\ IsPacket(F, p))
                                   /\ t.out = Hole => NoneParsable(t.reader)

\* A section header starts a section, unless it is cut short.
LEMMA TurnSection ==
  ASSUME NEW F \in Files, NEW p \in 1..Len(F), NEW r, At(F, r, p - 1), NEW opening \in BOOLEAN,
         F[p].kind = "section"
  PROVE  TurnsRight(F, p, r, Turn(r, F[p], opening), opening)
  <1>. DEFINE b == F[p]
              u == [r EXCEPT !.at = @ + 1]
              t == Turn(r, b, opening)
              v == StartSection(u, b)
  <1>1. b \in FileBlock /\ p \in Nat \ {0} /\ r \in Readers /\ r.at = p - 1
    BY DEF Files, At
  <1>2. u.at = p /\ u \in Readers
    BY <1>1 DEF Readers
  <1>. HIDE DEF u
  <1>3. /\ v \in Readers /\ v.at = p /\ v.order = b.order /\ v.supported = Supported(b.version)
        /\ v.interfaces = <<>> /\ v.names = 0
    <2>1. <<>> \in Seq(Interfaces) /\ b.order \in STRING /\ Supported(b.version) \in BOOLEAN
      BY <1>1 DEF FileBlock, Supported
    <2>. HIDE DEF b
    <2>. QED BY <1>2, <2>1 DEF StartSection, Readers
  <1>4. t = IF ~b.framed \/ (Supported(b.version) /\ ~b.body) THEN [reader |-> u, out |-> "error"]
            ELSE [reader |-> v, out |-> Hole]
    BY Zenon DEF Turn, Framed, WellFormed, u
  <1>5. SoundAt(F, p) <=> b.framed /\ (Supported(b.version) => b.body)
    BY DEF SoundAt
  <1>6. Sec(F, p + 1) = {p} /\ Ifs(F, p + 1) = {}
    BY <1>1, SecNext, IfsNext
  <1>7. At(F, v, p)
    <2>1. Total(NamesOf(F), {}) = 0 /\ Lists(F, <<>>, {})
      BY TotalEmpty, ListsNone
    <2>2. /\ v.order = F[p].order /\ v.supported = Supported(F[p].version)
          /\ Lists(F, v.interfaces, Ifs(F, p + 1)) /\ v.names = Total(NamesOf(F), Ifs(F, p + 1))
      BY <1>3, <1>6, <2>1
    <2>. HIDE DEF v
    <2>. QED BY <1>3, <1>6, <2>2 DEF At
  <1>8. NoneParsable(v)
    <2>1. Len(<<>>) = 0
      OBVIOUS
    <2>. QED BY <1>3, <2>1 DEF NoneParsable
  <1>9. ~IsPacket(F, p) /\ ~IsOpener(F, p)
    BY DEF IsPacket, IsOpener
  <1>. HIDE DEF t, v, b
  <1>10. CASE ~b.framed \/ (Supported(b.version) /\ ~b.body)
    <2>1. t.reader = u /\ t.out = "error" /\ ~SoundAt(F, p)
      BY <1>4, <1>5, <1>10
    <2>. QED BY <1>2, <1>9, <2>1, HoleNoOutcome DEF TurnsRight, t, b
  <1>11. CASE ~(~b.framed \/ (Supported(b.version) /\ ~b.body))
    <2>1. t.reader = v /\ t.out = Hole /\ SoundAt(F, p)
      BY <1>4, <1>5, <1>11
    <2>. QED BY <1>3, <1>7, <1>8, <1>9, <2>1, HoleNoOutcome DEF TurnsRight, t, b
  <1>. QED BY <1>10, <1>11

\* A block that changes nothing but the place.
LEMMA AtNext ==
  ASSUME NEW F, NEW p \in Nat \ {0}, NEW r, At(F, r, p - 1), F[p].kind # "section",
         F[p].kind # "interface" \/ ~r.supported
  PROVE  LET u == [r EXCEPT !.at = @ + 1]
         IN At(F, u, p) /\ (NoneParsable(r) => NoneParsable(u))
  <1>. DEFINE u == [r EXCEPT !.at = @ + 1]
  <1>1. (p - 1) + 1 = p /\ r \in Readers /\ r.at = p - 1
    BY DEF At
  <1>2. /\ u \in Readers /\ u.at = p /\ u.order = r.order /\ u.supported = r.supported
        /\ u.interfaces = r.interfaces /\ u.names = r.names
    BY <1>1 DEF Readers
  <1>3. Sec(F, p + 1) = Sec(F, p)
    BY SecNext
  <1>4. r.supported => Ifs(F, p + 1) = Ifs(F, p)
    BY IfsNext
  <1>5. /\ Sec(F, p) = {} => r.order = Hole /\ ~r.supported
        /\ \A s \in Sec(F, p) : r.order = F[s].order /\ (r.supported <=> Supported(F[s].version))
        /\ r.supported => /\ Lists(F, r.interfaces, Ifs(F, p)) /\ r.names = Total(NamesOf(F), Ifs(F, p))
    BY <1>1 DEF At
  <1>. HIDE DEF u
  <1>6. At(F, u, p)
    BY <1>2, <1>3, <1>4, <1>5 DEF At
  <1>7. NoneParsable(r) => NoneParsable(u)
    BY <1>2 DEF NoneParsable
  <1>. QED BY <1>6, <1>7 DEF u

\* An interface description.
LEMMA AtInterface ==
  ASSUME NEW F \in Files, NEW p \in 1..Len(F), NEW r, At(F, r, p - 1), F[p].kind = "interface", r.supported
  PROVE  LET u == [r EXCEPT !.at = @ + 1]
             v == AddInterface(u, F[p])
         IN /\ Addable(u, F[p]) <=> /\ F[p].body /\ Cardinality(Ifs(F, p)) < MaxInterfaces
                                    /\ Total(NamesOf(F), Ifs(F, p) \cup {p}) <= MaxNameBytes
            /\ At(F, v, p)
            /\ NoneParsable(r) /\ F[p].link = Hole => NoneParsable(v)
  <1>. DEFINE b == F[p]
              u == [r EXCEPT !.at = @ + 1]
              v == AddInterface(u, b)
              x == IfaceOf(F, p)
              sum == Total(NamesOf(F), Ifs(F, p))
  <1>1. (p - 1) + 1 = p /\ r \in Readers /\ r.at = p - 1 /\ p \in Nat \ {0} /\ Len(F) \in Nat /\ b \in FileBlock
    BY DEF At, Files
  <1>2. /\ u \in Readers /\ u.at = p /\ u.order = r.order /\ u.supported = r.supported
        /\ u.interfaces = r.interfaces /\ u.names = r.names
    BY <1>1 DEF Readers
  <1>3. /\ \A s \in Sec(F, p) : r.order = F[s].order /\ (r.supported <=> Supported(F[s].version))
        /\ Sec(F, p) # {} /\ Lists(F, r.interfaces, Ifs(F, p)) /\ r.names = sum
    BY <1>1 DEF At
  <1>4. /\ r.interfaces \in Seq(Interfaces) /\ Len(r.interfaces) \in Nat /\ r.names \in Nat
        /\ x \in Interfaces /\ b.name \in Nat /\ x = [link |-> b.link, unit |-> b.unit] /\ x.link = b.link
    BY <1>1 DEF Readers, FileBlock, Interfaces, IfaceOf
  <1>5. sum \in Nat /\ Total(NamesOf(F), Ifs(F, p) \cup {p}) = sum + b.name
    BY NamesMore
  <1>6. Sec(F, p + 1) = Sec(F, p) /\ Ifs(F, p + 1) = Ifs(F, p) \cup {p}
    BY <1>1, SecNext, IfsNext
  <1>. HIDE DEF u
  <1>7. Addable(u, b) <=> /\ b.body /\ Cardinality(Ifs(F, p)) < MaxInterfaces
                          /\ Total(NamesOf(F), Ifs(F, p) \cup {p}) <= MaxNameBytes
    <2>. DEFINE c == Cardinality(Ifs(F, p))
                m == b.name
                all == Total(NamesOf(F), Ifs(F, p) \cup {p})
    <2>1. Len(u.interfaces) = c
      BY <1>2, <1>3 DEF Lists
    <2>2. Addable(u, b) <=> c < MaxInterfaces /\ b.body /\ m <= MaxNameBytes - u.names
      BY <2>1 DEF Addable, WellFormed
    <2>3. u.names = sum
      BY <1>2, <1>3
    <2>4. MaxNameBytes \in Nat /\ sum \in Nat /\ m \in Nat /\ all = sum + m
      BY <1>4, <1>5, ReaderAssumption
    <2>. HIDE DEF c, m, all, sum, b
    <2>5. m <= MaxNameBytes - sum <=> all <= MaxNameBytes
      BY <2>4
    <2>. QED BY <2>2, <2>3, <2>5 DEF c, all
  <1>8. /\ v \in Readers /\ v.at = p /\ v.order = r.order /\ v.supported = r.supported
        /\ v.interfaces = Append(r.interfaces, x) /\ v.names = sum + b.name
    <2>1. Append(u.interfaces, [link |-> b.link, unit |-> b.unit]) = Append(r.interfaces, x)
      BY <1>2, <1>4
    <2>2. Append(r.interfaces, x) \in Seq(Interfaces) /\ u.names + b.name = sum + b.name /\ sum + b.name \in Nat
      BY <1>2, <1>3, <1>4, <1>5
    <2>3. v = [u EXCEPT !.interfaces = Append(r.interfaces, x), !.names = sum + b.name]
      BY <1>2, <2>1, <2>2 DEF AddInterface
    <2>. HIDE DEF v, b, x, sum
    <2>. QED BY <1>2, <2>2, <2>3 DEF Readers
  <1>9. Lists(F, Append(r.interfaces, x), Ifs(F, p) \cup {p})
    BY <1>1, <1>3, <1>4, ListsMore
  <1>. HIDE DEF v, x, sum
  <1>10. At(F, v, p)
    BY <1>3, <1>5, <1>6, <1>8, <1>9 DEF At
  <1>11. ASSUME NoneParsable(r), b.link = Hole PROVE NoneParsable(v)
    <2>. DEFINE ifs == r.interfaces
                n == Len(ifs)
    <2>1. n \in Nat /\ Len(v.interfaces) = n + 1 /\ v.interfaces[n + 1] = x /\ \A j \in 1..n : v.interfaces[j] = ifs[j]
      BY <1>4, <1>8
    <2>2. \A j \in 1..n : ifs[j].link = Hole
      BY <1>11 DEF NoneParsable, Parsable
    <2>. HIDE DEF ifs, n, b
    <2>3. ASSUME NEW j \in 1..Len(v.interfaces) PROVE ~Parsable(v.interfaces[j])
      <3>1. CASE j = n + 1
        BY <1>4, <1>11, <2>1, <3>1 DEF Parsable
      <3>2. CASE j # n + 1
        <4>1. j \in 1..n
          BY <2>1, <3>2
        <4>. QED BY <2>1, <2>2, <4>1 DEF Parsable
      <3>. QED BY <3>1, <3>2
    <2>. QED BY <2>3 DEF NoneParsable
  <1>. QED BY <1>7, <1>10, <1>11 DEF u, v, b

\* Any other block is refused, or does to the reader what its section makes of it.
LEMMA TurnOther ==
  ASSUME NEW F \in Files, NEW p \in 1..Len(F), NEW r, At(F, r, p - 1), NEW opening \in BOOLEAN,
         F[p].kind # "section"
  PROVE  TurnsRight(F, p, r, Turn(r, F[p], opening), opening)
  <1>. DEFINE b == F[p]
              u == [r EXCEPT !.at = @ + 1]
              t == Turn(r, b, opening)
              v == AddInterface(u, b)
  <1>1. b \in FileBlock /\ p \in Nat \ {0} /\ r \in Readers /\ r.at = p - 1 /\ Len(F) \in Nat /\ (p - 1) + 1 = p
    BY DEF Files, At
  <1>2. u.at = p /\ u \in Readers /\ u.supported = r.supported /\ u.interfaces = r.interfaces
    BY <1>1 DEF Readers
  <1>3. b.kind \in {"interface", "packet", "simple", "other"}
    BY <1>1 DEF FileBlock
  <1>4. /\ Framed(u, b) <=> b.framed /\ \E s \in Sec(F, p) : F[s].order = b.order
        /\ Sec(F, p) # {} => (r.supported <=> Und(F, p))
    BY SectionKnown
  <1>5. SoundAt(F, p) <=>
          /\ Framed(u, b)
          /\ Und(F, p) =>
               /\ b.kind # "simple" /\ (b.kind = "other" \/ b.body)
               /\ b.kind = "interface" => /\ Cardinality(Ifs(F, p)) < MaxInterfaces
                                          /\ Total(NamesOf(F), Ifs(F, p) \cup {p}) <= MaxNameBytes
               /\ b.kind = "packet" =>
                    \E q \in Des(F, p) : F[q].link # Hole /\ F[q].unit # Hole /\ Nanos(F[p].count, F[q].unit) <= MaxTime
    BY <1>4 DEF SoundAt
  <1>6. Framed(u, b) => (r.supported <=> Und(F, p))
    BY <1>4
  <1>7. ASSUME b.kind # "interface" \/ ~r.supported
        PROVE  At(F, u, p) /\ (NoneParsable(r) => NoneParsable(u))
    BY <1>1, <1>7, AtNext
  <1>. HIDE DEF u, t, b
  <1>8. CASE ~Framed(u, b)
    <2>1. t = [reader |-> u, out |-> "error"]
      BY <1>8, Zenon DEF Turn, t, u, b
    <2>2. t.reader = u /\ t.out = "error" /\ ~SoundAt(F, p)
      BY <1>5, <1>8, <2>1
    <2>. QED BY <1>2, <2>2, HoleNoOutcome DEF TurnsRight, t, b
  <1>9. CASE Framed(u, b) /\ ~r.supported
    <2>1. t = [reader |-> u, out |-> Hole]
      BY <1>2, <1>9, Zenon DEF Turn, t, u, b
    <2>2. t.reader = u /\ t.out = Hole /\ SoundAt(F, p) /\ ~IsPacket(F, p) /\ ~IsOpener(F, p)
      BY <1>5, <1>6, <1>9, <2>1 DEF IsPacket, IsOpener
    <2>. QED BY <1>2, <1>7, <1>9, <2>2, HoleNoOutcome DEF TurnsRight, t, b
  <1>10. CASE Framed(u, b) /\ r.supported /\ b.kind = "interface"
    <2>1. /\ Addable(u, b) <=> /\ b.body /\ Cardinality(Ifs(F, p)) < MaxInterfaces
                               /\ Total(NamesOf(F), Ifs(F, p) \cup {p}) <= MaxNameBytes
          /\ At(F, v, p)
          /\ NoneParsable(r) /\ b.link = Hole => NoneParsable(v)
      BY <1>10, AtInterface DEF b, u
    <2>2. SoundAt(F, p) <=> Addable(u, b)
      BY <1>5, <1>6, <1>10, <2>1
    <2>3. t = IF ~Addable(u, b) THEN [reader |-> u, out |-> "error"]
              ELSE [reader |-> v, out |-> IF opening /\ Parsable(b) THEN "open" ELSE Hole]
      BY <1>2, <1>10, Zenon DEF Turn, t, u, b
    <2>4. ~IsPacket(F, p) /\ (IsOpener(F, p) <=> Parsable(b))
      BY <1>6, <1>10 DEF IsPacket, IsOpener, Parsable, b
    <2>5. v.at = p
      BY <2>1 DEF At
    <2>. HIDE DEF v
    <2>6. CASE ~Addable(u, b)
      <3>1. t.reader = u /\ t.out = "error" /\ ~SoundAt(F, p)
        BY <2>2, <2>3, <2>6
      <3>. QED BY <1>2, <3>1, HoleNoOutcome DEF TurnsRight, t, b
    <2>7. CASE Addable(u, b) /\ opening /\ Parsable(b)
      <3>1. t.reader = v /\ t.out = "open" /\ SoundAt(F, p)
        BY <2>2, <2>3, <2>7
      <3>. QED BY <2>1, <2>4, <2>5, <2>7, <3>1, HoleNoOutcome DEF TurnsRight, t, b
    <2>8. CASE Addable(u, b) /\ ~(opening /\ Parsable(b))
      <3>1. t.reader = v /\ t.out = Hole /\ SoundAt(F, p)
        BY <2>2, <2>3, <2>8
      <3>2. opening => b.link = Hole
        BY <2>8 DEF Parsable
      <3>. QED BY <2>1, <2>4, <2>5, <2>8, <3>1, <3>2, HoleNoOutcome DEF TurnsRight, t, b
    <2>. QED BY <2>6, <2>7, <2>8
  <1>11. CASE Framed(u, b) /\ r.supported /\ b.kind = "packet"
    <2>1. Lists(F, u.interfaces, Ifs(F, p))
      BY <1>1, <1>2, <1>11 DEF At
    <2>2. /\ Decodable(u, b) <=>
               b.body /\ \E q \in Des(F, p) : F[q].link # Hole /\ F[q].unit # Hole /\ Nanos(F[p].count, F[q].unit) <= MaxTime
          /\ Decodable(u, b) => DecodePacket(u, b) = FrameOf(F, p)
          /\ Decodable(u, b) => ~NoneParsable(u)
      BY <1>2, <2>1, DecodableIs DEF b
    <2>3. SoundAt(F, p) <=> Decodable(u, b)
      BY <1>5, <1>6, <1>11, <2>2
    <2>4. t = IF ~Decodable(u, b) THEN [reader |-> u, out |-> "error"]
              ELSE IF opening THEN [reader |-> u, out |-> Hole] ELSE [reader |-> u, out |-> "frame"]
      BY <1>2, <1>11, Zenon DEF Turn, t, u, b
    <2>5. IsPacket(F, p) /\ ~IsOpener(F, p)
      BY <1>6, <1>11 DEF IsPacket, IsOpener, b
    <2>6. NoneParsable(r) => ~Decodable(u, b)
      BY <1>2, <2>2 DEF NoneParsable
    <2>7. CASE ~Decodable(u, b)
      <3>1. t.reader = u /\ t.out = "error" /\ ~SoundAt(F, p)
        BY <2>3, <2>4, <2>7
      <3>. QED BY <1>2, <3>1, HoleNoOutcome DEF TurnsRight, t, b
    <2>8. CASE Decodable(u, b) /\ opening
      <3>1. t.reader = u /\ t.out = Hole /\ SoundAt(F, p) /\ ~NoneParsable(r)
        BY <2>3, <2>4, <2>6, <2>8
      <3>. QED BY <1>2, <1>7, <1>11, <2>5, <2>8, <3>1, HoleNoOutcome DEF TurnsRight, t, b
    <2>9. CASE Decodable(u, b) /\ ~opening
      <3>1. t.reader = u /\ t.out = "frame" /\ SoundAt(F, p) /\ DecodePacket(u, b) = FrameOf(F, p)
        BY <2>2, <2>3, <2>4, <2>9
      <3>. QED BY <1>2, <1>7, <1>11, <2>5, <2>9, <3>1, HoleNoOutcome DEF TurnsRight, t, b
    <2>. QED BY <2>7, <2>8, <2>9
  <1>12. CASE Framed(u, b) /\ r.supported /\ b.kind = "simple"
    <2>1. t = [reader |-> u, out |-> "error"]
      BY <1>2, <1>12, Zenon DEF Turn, t, u, b
    <2>2. t.reader = u /\ t.out = "error" /\ ~SoundAt(F, p)
      BY <1>5, <1>6, <1>12, <2>1
    <2>. QED BY <1>2, <2>2, HoleNoOutcome DEF TurnsRight, t, b
  <1>13. CASE Framed(u, b) /\ r.supported /\ b.kind = "other"
    <2>1. t = [reader |-> u, out |-> Hole]
      BY <1>2, <1>13, Zenon DEF Turn, t, u, b
    <2>2. t.reader = u /\ t.out = Hole /\ SoundAt(F, p) /\ ~IsPacket(F, p) /\ ~IsOpener(F, p)
      BY <1>5, <1>6, <1>13, <2>1 DEF IsPacket, IsOpener, b
    <2>. QED BY <1>2, <1>7, <1>13, <2>2, HoleNoOutcome DEF TurnsRight, t, b
  <1>. QED BY <1>3, <1>8, <1>9, <1>10, <1>11, <1>12, <1>13

\* A block that neither loop ends at.
Passed(F, p, opening) == SoundAt(F, p) /\ ~IsPacket(F, p) /\ (opening => ~IsOpener(F, p))

\* The loop goes on after block q, or ended at a block after a.
Going(F, a, q, t, opening) ==
  /\ t.out = Hole /\ At(F, t.reader, q)
  /\ \A p \in a+1..q : Passed(F, p, opening)
  /\ opening => NoneParsable(t.reader)

Ended(F, a, t, opening) ==
  LET at == t.reader.at
  IN /\ at \in a+1..Len(F) /\ t.out \in {"error", "open", "frame"}
     /\ \A p \in a+1..at-1 : Passed(F, p, opening)
     /\ t.out = "error" <=> ~SoundAt(F, at)
     /\ t.out # "error" => At(F, t.reader, at)
     /\ t.out = "frame" => ~opening /\ IsPacket(F, at) /\ DecodePacket(t.reader, F[at]) = FrameOf(F, at)
     /\ t.out = "open" => opening /\ IsOpener(F, at) /\ ~IsPacket(F, at)

\* A turn of the loop is right for every block.
LEMMA TurnRight ==
  ASSUME NEW F \in Files, NEW p \in 1..Len(F), NEW r, At(F, r, p - 1), NEW opening \in BOOLEAN
  PROVE  TurnsRight(F, p, r, Turn(r, F[p], opening), opening)
  BY TurnSection, TurnOther

\* One more turn of a loop that goes on.
LEMMA GoingOn ==
  ASSUME NEW F \in Files, NEW a \in Nat, NEW p \in a+1..Len(F), NEW t, NEW opening \in BOOLEAN,
         Going(F, a, p - 1, t, opening)
  PROVE  LET u == Turn(t.reader, F[p], opening) IN Going(F, a, p, u, opening) \/ Ended(F, a, u, opening)
  <1>. DEFINE r == t.reader
              u == Turn(r, F[p], opening)
  <1>1. p \in 1..Len(F) /\ Len(F) \in Nat /\ p \in Nat
    BY DEF Files
  <1>2. At(F, r, p - 1) /\ (opening => NoneParsable(r)) /\ \A q \in a+1..p-1 : Passed(F, q, opening)
    BY DEF Going
  <1>3. TurnsRight(F, p, r, u, opening)
    BY <1>1, <1>2, TurnRight
  <1>. HIDE DEF r, u
  <1>4. /\ u.out \in {Hole, "error", "open", "frame"} /\ u.reader.at = p
        /\ u.out = "error" <=> ~SoundAt(F, p)
        /\ u.out # "error" => At(F, u.reader, p)
        /\ u.out = "frame" => ~opening /\ IsPacket(F, p) /\ DecodePacket(u.reader, F[p]) = FrameOf(F, p)
        /\ u.out = "open" => opening /\ IsOpener(F, p)
        /\ u.out = Hole => IF opening THEN ~IsOpener(F, p) ELSE ~IsPacket(F, p)
        /\ opening => /\ ~(u.out # "error" /\ IsPacket(F, p))
                      /\ u.out = Hole => NoneParsable(u.reader)
    BY <1>2, <1>3 DEF TurnsRight
  <1>5. CASE u.out = Hole
    <2>1. Passed(F, p, opening)
      BY <1>4, <1>5, HoleNoOutcome DEF Passed
    <2>2. \A q \in a+1..p : q = p \/ q \in a+1..p-1
      BY <1>1
    <2>3. \A q \in a+1..p : Passed(F, q, opening)
      BY <1>2, <2>1, <2>2
    <2>4. Going(F, a, p, u, opening)
      BY <1>4, <1>5, <2>3, HoleNoOutcome DEF Going
    <2>. QED BY <2>4 DEF u, r
  <1>6. CASE u.out # Hole
    <2>1. u.out \in {"error", "open", "frame"}
      BY <1>4, <1>6
    <2>2. u.out = "open" => ~IsPacket(F, p)
      BY <1>4
    <2>3. Ended(F, a, u, opening)
      BY <1>2, <1>4, <2>1, <2>2 DEF Ended
    <2>. QED BY <2>3 DEF u, r
  <1>. QED BY <1>5, <1>6


\* Both loops, from a reader that is right: over sound blocks up to the one that ends them, or all.
LEMMA ReadExact ==
  ASSUME gFile \in Files, NEW reader, NEW a \in 0..Len(gFile), At(gFile, reader, a), NEW opening \in BOOLEAN,
         opening => NoneParsable(reader)
  PROVE  LET t == Read(reader, opening)
         IN /\ t.out \in {"error", "open", "frame", "eof"} /\ t.reader \in Readers
            /\ t.out = "eof" => /\ t.reader.at = Len(gFile) /\ At(gFile, t.reader, Len(gFile))
                                /\ \A p \in a+1..Len(gFile) : Passed(gFile, p, opening)
            /\ t.out # "eof" => Ended(gFile, a, t, opening)
  <1>. DEFINE F == gFile
              n == Len(F) - a
              t == Read(reader, opening)
  <1>1. a \in Nat /\ Len(F) \in Nat /\ n \in Nat /\ a + n = Len(F)
    BY DEF Files
  <1>2. reader \in Readers /\ reader.at = a /\ reader.at <= Len(F) /\ F \in Seq(FileBlock)
    BY <1>1 DEF At, Files
  <1>3. PICK h : Reads(h, reader, opening)
    BY <1>2, ReadRuns
  <1>4. /\ h \in [0..n -> Turned] /\ h[0] = [reader |-> reader, out |-> Hole]
        /\ \A k \in 1..n : h[k] = IF h[k-1].out = Hole THEN Turn(h[k-1].reader, F[a + k], opening) ELSE h[k-1]
        /\ t = IF h[n].out = Hole THEN [h[n] EXCEPT !.out = "eof"] ELSE h[n]
    BY <1>2, <1>3 DEF Reads
  <1>. HIDE DEF n, t
  <1>. DEFINE Ok(k) == IF h[k].out = Hole THEN Going(F, a, a + k, h[k], opening) ELSE Ended(F, a, h[k], opening)
              T == {k \in Nat : k <= n => Ok(k)}
  <1>5. 0 \in T
    <2>1. h[0].reader = reader /\ h[0].out = Hole /\ a + 0 = a
      BY <1>1, <1>4
    <2>2. \A p \in a+1..a+0 : FALSE
      BY <1>1
    <2>3. At(F, h[0].reader, a + 0)
      BY <2>1
    <2>. QED BY <2>1, <2>2, <2>3 DEF Going
  <1>6. ASSUME NEW k \in Nat, k \in T PROVE k + 1 \in T
    <2>. SUFFICES ASSUME k + 1 <= n PROVE Ok(k + 1)
      OBVIOUS
    <2>. DEFINE p == a + (k + 1)
    <2>1. k + 1 \in 1..n /\ (k + 1) - 1 = k /\ Ok(k) /\ p \in a+1..Len(F) /\ p - 1 = a + k
      BY <1>1, <1>6
    <2>2. h[k+1] = IF h[k].out = Hole THEN Turn(h[k].reader, F[p], opening) ELSE h[k]
      BY <1>4, <2>1
    <2>. HIDE DEF p
    <2>3. CASE h[k].out = Hole
      <3>. DEFINE u == Turn(h[k].reader, F[p], opening)
      <3>1. Going(F, a, p - 1, h[k], opening) /\ h[k+1] = u
        BY <2>1, <2>2, <2>3
      <3>2. Going(F, a, p, u, opening) \/ Ended(F, a, u, opening)
        BY <1>1, <2>1, <3>1, GoingOn
      <3>3. Going(F, a, p, u, opening) => u.out = Hole
        BY DEF Going
      <3>4. Ended(F, a, u, opening) => u.out # Hole
        BY HoleNoOutcome DEF Ended
      <3>. HIDE DEF u
      <3>. QED BY <3>1, <3>2, <3>3, <3>4 DEF p
    <2>4. CASE h[k].out # Hole
      BY <2>1, <2>2, <2>4
    <2>. QED BY <2>3, <2>4
  <1>7. Ok(n)
    <2>. HIDE DEF T, Ok
    <2>1. Nat \subseteq T
      BY <1>5, <1>6, NatSetInduction
    <2>. QED BY <1>1, <2>1 DEF T
  <1>. DEFINE e == h[n]
  <1>8. e \in Turned
    BY <1>1, <1>4
  <1>9. CASE e.out = Hole
    <2>1. t.reader = e.reader /\ t.out = "eof"
      BY <1>4, <1>8, <1>9 DEF Turned
    <2>2. /\ At(F, e.reader, Len(F)) /\ \A p \in a+1..Len(F) : Passed(F, p, opening)
      BY <1>1, <1>7, <1>9 DEF Going
    <2>3. e.reader \in Readers /\ e.reader.at = Len(F)
      BY <2>2 DEF At
    <2>. QED BY <2>1, <2>2, <2>3 DEF t
  <1>10. CASE e.out # Hole
    <2>1. t = e /\ Ended(F, a, t, opening)
      BY <1>4, <1>7, <1>10
    <2>2. t.out \in {"error", "open", "frame"} /\ t.reader \in Readers
      BY <1>8, <2>1 DEF Ended, Turned
    <2>. QED BY <2>1, <2>2 DEF t
  <1>. QED BY <1>9, <1>10

\* The packets of the first k blocks, and the frames that hold them.
Stored(F, k) == {p \in 1..k : IsPacket(F, p) /\ SoundAt(F, p)}

UpTo(S, p) == {q \in S : q <= p}

Handed(F, k, frames) ==
  /\ Len(frames) = Cardinality(Stored(F, k))
  /\ \A p \in Stored(F, k) : frames[Cardinality(UpTo(Stored(F, k), p))] = FrameOf(F, p)

AllSound(F, k) == \A p \in 1..k : SoundAt(F, p)

\* Blocks that are no sound packets store nothing.
LEMMA StoredSame ==
  ASSUME NEW F, NEW a \in Nat, NEW k \in Nat, a <= k, \A p \in a+1..k : ~(IsPacket(F, p) /\ SoundAt(F, p))
  PROVE  Stored(F, k) = Stored(F, a)
  <1>1. \A p \in 1..k : p \in 1..a \/ p \in a+1..k
    OBVIOUS
  <1>2. \A p \in 1..a : p \in 1..k
    OBVIOUS
  <1>. QED BY <1>1, <1>2 DEF Stored

\* The packets stored are finitely many blocks.
LEMMA StoredType ==
  ASSUME NEW F, NEW k \in Nat
  PROVE  Stored(F, k) \subseteq 1..k /\ IsFiniteSet(Stored(F, k)) /\ Cardinality(Stored(F, k)) \in Nat
  <1>1. Stored(F, k) \subseteq 1..k
    BY DEF Stored
  <1>2. IsFiniteSet(1..k)
    BY FS_Interval
  <1>3. IsFiniteSet(Stored(F, k))
    BY <1>1, <1>2, FS_Subset
  <1>. QED BY <1>1, <1>3, FS_CardinalityType

\* A frame more for the next packet, in its place.
LEMMA HandedMore ==
  ASSUME NEW F, NEW a \in Nat, NEW k \in Nat, a < k, \A p \in a+1..k-1 : ~IsPacket(F, p),
         IsPacket(F, k), SoundAt(F, k), NEW V, NEW frames \in Seq(V), Handed(F, a, frames), FrameOf(F, k) \in V
  PROVE  Handed(F, k, Append(frames, FrameOf(F, k)))
  <1>. DEFINE S == Stored(F, a)
              U == Stored(F, k)
              n == Len(frames)
              x == FrameOf(F, k)
              new == Append(frames, x)
  <1>1. U = S \cup {k} /\ k \notin S
    <2>1. \A p \in 1..k : p \in 1..a \/ p = k \/ p \in a+1..k-1
      OBVIOUS
    <2>2. k \in 1..k /\ k \notin 1..a /\ \A p \in 1..a : p \in 1..k
      OBVIOUS
    <2>. QED BY <2>1, <2>2 DEF Stored
  <1>2. S \subseteq 1..a /\ IsFiniteSet(S) /\ Cardinality(S) \in Nat
    BY StoredType
  <1>3. Cardinality(U) = Cardinality(S) + 1
    BY <1>1, <1>2, FS_AddElement
  <1>4. n \in Nat /\ Len(new) = n + 1 /\ new[n + 1] = x /\ \A j \in 1..n : new[j] = frames[j]
    OBVIOUS
  <1>5. n = Cardinality(S) /\ \A p \in S : frames[Cardinality(UpTo(S, p))] = FrameOf(F, p)
    BY DEF Handed
  <1>. HIDE DEF S, U, n, x, new
  <1>6. ASSUME NEW p \in S
        PROVE  UpTo(U, p) = UpTo(S, p) /\ Cardinality(UpTo(S, p)) \in 1..n
    <2>1. p \in Nat /\ p <= a /\ \A q \in S : q \in Nat
      BY <1>2
    <2>2. UpTo(U, p) = UpTo(S, p)
      BY <1>1, <2>1 DEF UpTo
    <2>3. UpTo(S, p) \subseteq S /\ p \in UpTo(S, p)
      BY <2>1 DEF UpTo
    <2>4. IsFiniteSet(UpTo(S, p)) /\ Cardinality(UpTo(S, p)) <= Cardinality(S)
      BY <1>2, <2>3, FS_Subset
    <2>5. Cardinality(UpTo(S, p)) \in Nat /\ Cardinality(UpTo(S, p)) # 0
      BY <2>3, <2>4, FS_CardinalityType, FS_EmptySet
    <2>. QED BY <1>2, <1>5, <2>2, <2>4, <2>5
  <1>7. UpTo(U, k) = U
    <2>1. \A q \in U : q <= k
      BY <1>1, <1>2
    <2>. QED BY <2>1 DEF UpTo
  <1>8. ASSUME NEW p \in U PROVE new[Cardinality(UpTo(U, p))] = FrameOf(F, p)
    <2>1. CASE p = k
      BY <1>3, <1>4, <1>5, <1>7, <2>1 DEF x
    <2>2. CASE p \in S
      <3>1. UpTo(U, p) = UpTo(S, p) /\ Cardinality(UpTo(S, p)) \in 1..n
        BY <1>6, <2>2
      <3>. QED BY <1>4, <1>5, <2>2, <3>1
    <2>. QED BY <1>1, <2>1, <2>2
  <1>9. Len(new) = Cardinality(U)
    BY <1>3, <1>4, <1>5
  <1>. QED BY <1>8, <1>9 DEF Handed, U, new, x

\* A file that is replayed.
Replayed(F, r, source, frames) ==
  /\ F \in Files /\ r \in Readers /\ r.at \in 0..Len(F) /\ frames \in Seq(Decoded)
  /\ source \in {"closed", "open", "refused", "classic", "eof", "error"}
  /\ IF source = "closed" THEN r = NewReader /\ frames = <<>> ELSE Handed(F, r.at, frames)
  /\ source = "open" => At(F, r, r.at) /\ AllSound(F, r.at)
  /\ source = "eof" => r.at = Len(F) /\ AllSound(F, r.at)
  /\ source = "error" => r.at >= 1 /\ ~SoundAt(F, r.at) /\ AllSound(F, r.at - 1)
  /\ source \in {"refused", "classic"} => ~AllSound(F, r.at) \/ \A p \in 1..Len(F) : ~IsOpener(F, p)

\* A new reader is right before the first block.
LEMMA FreshAt ==
  ASSUME NEW F
  PROVE  At(F, NewReader, 0) /\ NoneParsable(NewReader) /\ NewReader \in Readers /\ NewReader.at = 0
  <1>1. /\ NewReader \in Readers /\ NewReader.at = 0 /\ NewReader.order = Hole /\ NewReader.supported = FALSE
        /\ Len(NewReader.interfaces) = 0
    BY DEF NewReader, Readers
  <1>2. Sec(F, 0 + 1) = {}
    BY DEF Sec
  <1>. QED BY <1>1, <1>2 DEF At, NoneParsable

\* No frames are those of no packets.
LEMMA HandedNone == ASSUME NEW F, NEW k \in Nat, Stored(F, k) = {} PROVE Handed(F, k, <<>>)
  <1>1. Len(<<>>) = 0 /\ Cardinality({}) = 0
    BY FS_EmptySet
  <1>. QED BY <1>1 DEF Handed

\* Opening the file reads over no packet and refuses only what it may.
LEMMA OpensRight ==
  ASSUME Replayed(gFile, gReader, gSource, gFrames), OpenFile
  PROVE  Replayed(gFile', gReader', gSource', gFrames')
  <1>. DEFINE F == gFile
              t == Read(NewReader, TRUE)
              r == t.reader
  <1>1. /\ gSource = "closed" /\ gReader' = r /\ gFile' = F /\ gFrames' = gFrames
        /\ \/ t.out = "open" /\ gSource' = "open"
           \/ t.out # "open" /\ gSource' \in {"refused", "classic"}
    BY DEF OpenFile
  <1>2. F \in Files /\ Len(F) \in Nat /\ gFrames = <<>> /\ gFrames \in Seq(Decoded)
    BY <1>1 DEF Replayed, Files
  <1>3. /\ t.out \in {"error", "open", "frame", "eof"} /\ t.reader \in Readers
        /\ t.out = "eof" => /\ t.reader.at = Len(F) /\ At(F, t.reader, Len(F))
                            /\ \A p \in 0+1..Len(F) : Passed(F, p, TRUE)
        /\ t.out # "eof" => Ended(F, 0, t, TRUE)
    <2>1. 0 \in 0..Len(F) /\ At(F, NewReader, 0) /\ NoneParsable(NewReader)
      BY <1>2, FreshAt
    <2>. QED BY <1>2, <2>1, ReadExact
  <1>. HIDE DEF t
  <1>4. CASE t.out = "eof"
    <2>0. 0 + 1 = 1
      OBVIOUS
    <2>1. r.at = Len(F) /\ \A p \in 1..Len(F) : Passed(F, p, TRUE)
      BY <1>3, <1>4, <2>0, Zenon
    <2>2. Stored(F, r.at) = {} /\ \A p \in 1..Len(F) : ~IsOpener(F, p)
      BY <2>1 DEF Passed, Stored
    <2>3. Handed(F, r.at, <<>>) /\ r.at \in 0..Len(F)
      BY <1>2, <2>1, <2>2, HandedNone
    <2>4. gSource' \in {"refused", "classic"}
      BY <1>1, <1>4
    <2>. QED BY <1>1, <1>2, <1>3, <2>2, <2>3, <2>4 DEF Replayed
  <1>5. CASE t.out # "eof"
    <2>. DEFINE k == r.at
    <2>1. /\ k \in 0+1..Len(F) /\ t.out \in {"error", "open", "frame"}
          /\ \A p \in 0+1..k-1 : Passed(F, p, TRUE)
          /\ t.out = "error" <=> ~SoundAt(F, k)
          /\ t.out # "error" => At(F, r, k)
          /\ t.out # "frame"
          /\ t.out = "open" => ~IsPacket(F, k)
      BY <1>3, <1>5 DEF Ended
    <2>. HIDE DEF r, k
    <2>2. /\ k \in Nat /\ k \in 0..Len(F) /\ k \in 1..k /\ \A p \in 1..k : p = k \/ p \in 0+1..k-1
      BY <1>2, <2>1
    <2>3. Stored(F, k) = {}
      BY <2>1, <2>2 DEF Passed, Stored
    <2>4. Handed(F, k, <<>>)
      BY <2>2, <2>3, HandedNone
    <2>5. t.out = "open" => AllSound(F, k)
      BY <2>1, <2>2 DEF Passed, AllSound
    <2>6. t.out = "error" => ~AllSound(F, k)
      BY <2>1, <2>2 DEF AllSound
    <2>7. t.out = "error" \/ t.out = "open"
      BY <2>1
    <2>. QED BY <1>1, <1>2, <1>3, <2>1, <2>2, <2>4, <2>5, <2>6, <2>7 DEF Replayed, k, r
  <1>. QED BY <1>4, <1>5

\* What the next read of an open file comes to.
LEMMA ReadsOn ==
  ASSUME Replayed(gFile, gReader, gSource, gFrames), gSource = "open"
  PROVE  LET t == Read(gReader, FALSE)
             a == gReader.at
         IN /\ gFile \in Files /\ Len(gFile) \in Nat /\ a \in Nat /\ a <= Len(gFile) /\ AllSound(gFile, a)
            /\ Handed(gFile, a, gFrames)
            /\ t.out \in {"error", "frame", "eof"} /\ t.reader \in Readers /\ t.reader.at \in 0..Len(gFile)
            /\ t.out = "eof" => /\ t.reader.at = Len(gFile)
                                /\ \A p \in a+1..Len(gFile) : Passed(gFile, p, FALSE)
            /\ t.out # "eof" => Ended(gFile, a, t, FALSE)
  <1>. DEFINE t == Read(gReader, FALSE)
              a == gReader.at
  <1>1. /\ gFile \in Files /\ Len(gFile) \in Nat /\ a \in 0..Len(gFile) /\ At(gFile, gReader, a)
        /\ AllSound(gFile, a) /\ Handed(gFile, a, gFrames)
    BY DEF Replayed, Files
  <1>2. /\ t.out \in {"error", "open", "frame", "eof"} /\ t.reader \in Readers
        /\ t.out = "eof" => /\ t.reader.at = Len(gFile) /\ At(gFile, t.reader, Len(gFile))
                            /\ \A p \in a+1..Len(gFile) : Passed(gFile, p, FALSE)
        /\ t.out # "eof" => Ended(gFile, a, t, FALSE)
    BY <1>1, ReadExact
  <1>. HIDE DEF t
  <1>3. t.out # "open"
    BY <1>2 DEF Ended
  <1>4. t.reader.at \in 0..Len(gFile)
    <2>1. CASE t.out = "eof"
      BY <1>1, <1>2, <2>1
    <2>2. CASE t.out # "eof"
      <3>1. t.reader.at \in a+1..Len(gFile)
        BY <1>2, <2>2 DEF Ended
      <3>. QED BY <1>1, <3>1
    <2>. QED BY <2>1, <2>2
  <1>5. t.out \in {"error", "frame", "eof"}
    BY <1>2, <1>3
  <1>6. a \in Nat /\ a <= Len(gFile)
    BY <1>1
  <1>. QED BY <1>1, <1>2, <1>4, <1>5, <1>6 DEF t

\* The frame handed out is that of the next packet.
LEMMA FrameRight ==
  ASSUME Replayed(gFile, gReader, gSource, gFrames), FileFrame, gFrames' \in Seq(Decoded)
  PROVE  Replayed(gFile', gReader', gSource', gFrames')
  <1>. DEFINE F == gFile
              t == Read(gReader, FALSE)
              r == t.reader
              k == r.at
              a == gReader.at
              x == DecodePacket(r, F[k])
  <1>1. /\ gSource = "open" /\ t.out = "frame" /\ gReader' = r /\ gFrames' = Append(gFrames, x)
        /\ gFile' = F /\ gSource' = "open"
    BY DEF FileFrame
  <1>2. /\ F \in Files /\ Len(F) \in Nat /\ a \in Nat /\ a <= Len(F) /\ AllSound(F, a) /\ Handed(F, a, gFrames)
        /\ r \in Readers /\ k \in 0..Len(F) /\ Ended(F, a, t, FALSE) /\ gFrames \in Seq(Decoded)
    BY <1>1, ReadsOn DEF Replayed
  <1>. HIDE DEF t
  <1>3. /\ k \in a+1..Len(F) /\ \A p \in a+1..k-1 : Passed(F, p, FALSE)
        /\ SoundAt(F, k) /\ At(F, r, k) /\ IsPacket(F, k) /\ x = FrameOf(F, k)
    BY <1>1, <1>2 DEF Ended
  <1>. HIDE DEF r, k, a, x
  <1>4. k \in Nat /\ a < k /\ \A p \in 1..k : p = k \/ p \in 1..a \/ p \in a+1..k-1
    BY <1>2, <1>3
  <1>5. AllSound(F, k)
    BY <1>2, <1>3, <1>4 DEF AllSound, Passed
  <1>6. x \in Decoded
    <2>1. Len(gFrames') \in Nat /\ Len(gFrames') \in 1..Len(gFrames') /\ gFrames'[Len(gFrames')] = x
      BY <1>1, <1>2
    <2>. QED BY <2>1
  <1>7. Handed(F, k, Append(gFrames, x))
    <2>1. \A p \in a+1..k-1 : ~IsPacket(F, p)
      BY <1>3 DEF Passed
    <2>2. FrameOf(F, k) \in Decoded
      BY <1>3, <1>6
    <2>3. Handed(F, k, Append(gFrames, FrameOf(F, k)))
      BY <1>2, <1>3, <1>4, <2>1, <2>2, HandedMore
    <2>. QED BY <1>3, <2>3
  <1>. QED BY <1>1, <1>2, <1>3, <1>5, <1>7 DEF Replayed, k

\* The replay ends with the file, or at its first block that is not sound.
LEMMA EndRight ==
  ASSUME Replayed(gFile, gReader, gSource, gFrames), FileEnd
  PROVE  Replayed(gFile', gReader', gSource', gFrames')
  <1>. DEFINE F == gFile
              t == Read(gReader, FALSE)
              r == t.reader
              k == r.at
              a == gReader.at
  <1>1. /\ gSource = "open" /\ t.out # "frame" /\ gReader' = r /\ gFrames' = gFrames
        /\ gFile' = F /\ gSource' = t.out
    BY DEF FileEnd
  <1>2. /\ F \in Files /\ Len(F) \in Nat /\ a \in Nat /\ a <= Len(F) /\ AllSound(F, a) /\ Handed(F, a, gFrames)
        /\ r \in Readers /\ k \in 0..Len(F) /\ gFrames \in Seq(Decoded) /\ t.out \in {"error", "frame", "eof"}
        /\ t.out = "eof" => k = Len(F) /\ \A p \in a+1..Len(F) : Passed(F, p, FALSE)
        /\ t.out # "eof" => Ended(F, a, t, FALSE)
    BY <1>1, ReadsOn DEF Replayed
  <1>. HIDE DEF t
  <1>3. CASE t.out = "eof"
    <2>1. k = Len(F) /\ \A p \in a+1..k : Passed(F, p, FALSE)
      BY <1>2, <1>3
    <2>. HIDE DEF r, k, a
    <2>2. Stored(F, k) = Stored(F, a)
      BY <1>2, <2>1, StoredSame DEF Passed
    <2>3. Handed(F, k, gFrames)
      BY <1>2, <2>2 DEF Handed
    <2>4. \A p \in 1..k : p \in 1..a \/ p \in a+1..k
      BY <1>2, <2>1
    <2>5. AllSound(F, k)
      BY <1>2, <2>1, <2>4 DEF AllSound, Passed
    <2>. QED BY <1>1, <1>2, <1>3, <2>1, <2>3, <2>5 DEF Replayed, k
  <1>4. CASE t.out = "error"
    <2>1. /\ k \in a+1..Len(F) /\ \A p \in a+1..k-1 : Passed(F, p, FALSE)
          /\ ~SoundAt(F, k)
      BY <1>2, <1>4 DEF Ended
    <2>. HIDE DEF r, k, a
    <2>2. k \in Nat /\ a <= k /\ k >= 1 /\ (\A p \in a+1..k : p = k \/ p \in a+1..k-1)
          /\ \A p \in 1..k-1 : p \in 1..a \/ p \in a+1..k-1
      BY <1>2, <2>1
    <2>3. \A p \in a+1..k : ~(IsPacket(F, p) /\ SoundAt(F, p))
      BY <2>1, <2>2 DEF Passed
    <2>4. Stored(F, k) = Stored(F, a)
      BY <1>2, <2>2, <2>3, StoredSame
    <2>5. Handed(F, k, gFrames)
      BY <1>2, <2>4 DEF Handed
    <2>6. AllSound(F, k - 1)
      BY <1>2, <2>1, <2>2 DEF AllSound, Passed
    <2>. QED BY <1>1, <1>2, <1>4, <2>1, <2>2, <2>5, <2>6 DEF Replayed, k
  <1>. QED BY <1>1, <1>2, <1>3, <1>4

Writes == [link : STRING, times : Seq(0..MaxTime)]

\* What the agent's own writer leaves, block by block.
Own(F, w) ==
  LET m == Len(w.times)
  IN /\ Len(F) = m + 3
     /\ F[1].kind = "section" /\ F[2].kind = "interface" /\ F[m + 3].kind = "other"
     /\ \A p \in 3..m+2 : F[p].kind = "packet" /\ F[p].count = w.times[p - 2]
     /\ \A p \in 1..m+3 : /\ F[p].framed = TRUE /\ F[p].order = "little" /\ F[p].body = TRUE
                          /\ F[p].version = "1.0" /\ F[p].link = w.link /\ F[p].unit = Second
                          /\ F[p].name = 1 /\ F[p].iface = 0

\* The places of two sequences one after the other.
LEMMA Joined ==
  ASSUME NEW V, NEW s \in Seq(V), NEW t \in Seq(V)
  PROVE  /\ s \o t \in Seq(V) /\ Len(s \o t) = Len(s) + Len(t)
         /\ \A i \in 1..Len(s)+Len(t) : (s \o t)[i] = IF i <= Len(s) THEN s[i] ELSE t[i - Len(s)]
  OBVIOUS

\* OwnFile, block by block.
LEMMA OwnIs ==
  ASSUME NEW w \in Writes
  PROVE  Own(OwnFile(w), w)
  <1>. DEFINE b == [kind |-> "section", framed |-> TRUE, order |-> "little", body |-> TRUE, version |-> "1.0",
                    link |-> w.link, unit |-> Second, name |-> 1, iface |-> 0, count |-> 0]
              Packet(i) == [b EXCEPT !.kind = "packet", !.count = w.times[i]]
              D == [b EXCEPT !.kind = "interface"]
              E == [b EXCEPT !.kind = "other"]
              m == Len(w.times)
              ps == [i \in DOMAIN w.times |-> Packet(i)]
              F == OwnFile(w)
              As(x, kind) == /\ x.kind = kind
                             /\ x.framed = TRUE /\ x.order = "little" /\ x.body = TRUE
                             /\ x.version = "1.0" /\ x.link = w.link /\ x.unit = Second
                             /\ x.name = 1 /\ x.iface = 0
  <1>1. w.times \in Seq(0..MaxTime) /\ m \in Nat /\ DOMAIN w.times = 1..m
    BY DEF Writes
  <1>2. F = <<b, D>> \o ps \o <<E>>
    BY DEF OwnFile
  <1>3. As(b, "section") /\ As(D, "interface") /\ As(E, "other")
    OBVIOUS
  <1>4. \A i \in 1..m : As(Packet(i), "packet") /\ Packet(i).count = w.times[i]
    OBVIOUS
  <1>. HIDE DEF b, D, E, Packet, m, F
  <1>. DEFINE V == {b, D, E} \cup {Packet(i) : i \in 1..m}
              a == <<b, D>>
              c == a \o ps
  <1>5. ps \in Seq(V) /\ Len(ps) = m /\ \A i \in 1..m : ps[i] = Packet(i)
    BY <1>1
  <1>6. a \in Seq(V) /\ Len(a) = 2 /\ a[1] = b /\ a[2] = D /\ <<E>> \in Seq(V) /\ Len(<<E>>) = 1 /\ <<E>>[1] = E
    OBVIOUS
  <1>. HIDE DEF ps, V, a
  <1>7. /\ c \in Seq(V) /\ Len(c) = 2 + m /\ \A i \in 1..2 : c[i] = a[i]
        /\ \A i \in 1..m : c[2 + i] = ps[i]
    <2>1. /\ c \in Seq(V) /\ Len(c) = Len(a) + Len(ps)
          /\ \A i \in 1..Len(a)+Len(ps) : c[i] = IF i <= Len(a) THEN a[i] ELSE ps[i - Len(a)]
      BY <1>5, <1>6, Joined
    <2>. HIDE DEF c
    <2>2. /\ \A i \in 1..2 : i \in 1..2+m /\ i <= 2
          /\ \A i \in 1..m : 2 + i \in 1..2+m /\ ~(2 + i <= 2) /\ (2 + i) - 2 = i
      BY <1>1
    <2>. QED BY <1>5, <1>6, <2>1, <2>2
  <1>8. F = c \o <<E>>
    BY <1>2 DEF a
  <1>. HIDE DEF c
  <1>9. Len(F) = m + 3 /\ F[m + 3] = E /\ \A i \in 1..m+2 : F[i] = c[i]
    BY <1>1, <1>6, <1>7, <1>8
  <1>10. F[1] = b /\ F[2] = D
    BY <1>1, <1>6, <1>7, <1>9
  <1>11. \A p \in 3..m+2 : F[p] = Packet(p - 2) /\ p - 2 \in 1..m
    <2>. SUFFICES ASSUME NEW p \in 3..m+2 PROVE F[p] = Packet(p - 2) /\ p - 2 \in 1..m
      OBVIOUS
    <2>1. p - 2 \in 1..m /\ 2 + (p - 2) = p /\ p \in 1..m+2
      BY <1>1
    <2>. QED BY <1>5, <1>7, <1>9, <2>1
  <1>12. \A p \in 1..m+3 : p = 1 \/ p = 2 \/ p = m + 3 \/ p \in 3..m+2
    BY <1>1
  <1>. HIDE DEF As
  <1>13. As(F[1], "section") /\ As(F[2], "interface") /\ As(F[m+3], "other")
         /\ \A p \in 3..m+2 : As(F[p], "packet") /\ F[p].count = w.times[p - 2]
    BY <1>3, <1>4, <1>9, <1>10, <1>11
  <1>14. ASSUME NEW p \in 1..m+3
         PROVE  /\ F[p].framed = TRUE /\ F[p].order = "little" /\ F[p].body = TRUE
                /\ F[p].version = "1.0" /\ F[p].link = w.link /\ F[p].unit = Second
                /\ F[p].name = 1 /\ F[p].iface = 0
    <2>1. PICK kind : As(F[p], kind)
      BY <1>12, <1>13
    <2>. QED BY <2>1 DEF As
  <1>15. F[1].kind = "section" /\ F[2].kind = "interface" /\ F[m+3].kind = "other"
         /\ \A p \in 3..m+2 : F[p].kind = "packet"
    BY <1>13 DEF As
  <1>16. Own(F, w)
    BY <1>9, <1>13, <1>14, <1>15 DEF Own, m
  <1>. QED BY <1>16 DEF F

\* All of it is sound: one interface, and packets on it.
LEMMA OwnSound ==
  ASSUME NEW w \in Writes, NEW F \in Files, Own(F, w)
  PROVE  LET m == Len(w.times)
         IN /\ m \in Nat /\ Len(F) = m + 3
            /\ AllSound(F, m + 3) /\ IsOpener(F, 2)
            /\ \A p \in 1..m+3 : IsPacket(F, p) <=> p \in 3..m+2
            /\ \A p \in 3..m+2 : FrameOf(F, p) = [link |-> w.link, time |-> w.times[p - 2]]
  <1>. DEFINE m == Len(w.times)
  <1>1. w.times \in Seq(0..MaxTime) /\ m \in Nat /\ DOMAIN w.times = 1..m /\ w.link \in STRING
    BY DEF Writes
  <1>2. /\ Len(F) = m + 3
        /\ F[1].kind = "section" /\ F[2].kind = "interface" /\ F[m + 3].kind = "other"
        /\ \A p \in 3..m+2 : F[p].kind = "packet" /\ F[p].count = w.times[p - 2]
        /\ \A p \in 1..m+3 : /\ F[p].framed = TRUE /\ F[p].order = "little" /\ F[p].body = TRUE
                             /\ F[p].version = "1.0" /\ F[p].link = w.link /\ F[p].unit = Second
                             /\ F[p].name = 1 /\ F[p].iface = 0
    BY DEF Own
  <1>. HIDE DEF m
  <1>3. \A p \in 1..m+3 : p = 1 \/ p = 2 \/ p = m + 3 \/ p \in 3..m+2
    BY <1>1
  <1>4. \A p \in 1..m+3 : (F[p].kind = "section" <=> p = 1) /\ (F[p].kind = "interface" <=> p = 2)
                          /\ (F[p].kind = "packet" <=> p \in 3..m+2) /\ F[p].kind # "simple"
    <2>. SUFFICES ASSUME NEW p \in 1..m+3
                  PROVE  /\ (F[p].kind = "section" <=> p = 1) /\ (F[p].kind = "interface" <=> p = 2)
                         /\ (F[p].kind = "packet" <=> p \in 3..m+2) /\ F[p].kind # "simple"
      OBVIOUS
    <2>1. CASE p \in 3..m+2
      BY <1>1, <1>2, <2>1
    <2>2. CASE p \notin 3..m+2
      BY <1>1, <1>2, <1>3, <2>2
    <2>. QED BY <2>1, <2>2
  <1>5. ASSUME NEW p \in 2..m+3 PROVE Sec(F, p) = {1}
    <2>1. \A q \in 1..p-1 : q \in 1..m+3
      BY <1>1
    <2>2. \A q \in 1+1..p-1 : q \in 1..p-1 /\ q # 1
      BY <1>1
    <2>3. 1 \in 1..p-1
      BY <1>1
    <2>. QED BY <1>4, <2>1, <2>2, <2>3 DEF Sec
  <1>6. Ifs(F, 2) = {} /\ Rank(F, 2) = 0
    <2>1. \A q \in 1..2-1 : q = 1
      OBVIOUS
    <2>2. Ifs(F, 2) = {}
      BY <1>2, <2>1 DEF Ifs
    <2>. QED BY <2>2, FS_EmptySet DEF Rank
  <1>7. ASSUME NEW p \in 3..m+3 PROVE Ifs(F, p) = {2}
    <2>1. \A q \in 1..p-1 : q \in 1..m+3
      BY <1>1
    <2>2. 2 \in 1..p-1 /\ p \in 2..m+3 /\ 2 > 1
      BY <1>1
    <2>3. Sec(F, p) = {1}
      BY <1>5, <2>2
    <2>. QED BY <1>4, <2>1, <2>2, <2>3 DEF Ifs
  <1>8. Supported("1.0")
    BY DEF Supported
  <1>9. 1 \in 1..m+3 /\ 2 \in 1..m+3 /\ 2 \in 2..m+3 /\ m + 3 \in Nat
    BY <1>1
  <1>10. \A p \in 2..m+3 : Und(F, p)
    BY <1>2, <1>5, <1>8, <1>9 DEF Und
  <1>11. w.link # Hole
    BY <1>1, PipelineAssumption
  <1>12. ASSUME NEW p \in 3..m+2
         PROVE  /\ Des(F, p) = {2} /\ w.times[p - 2] \in 0..MaxTime /\ Nanos(F[p].count, F[2].unit) = w.times[p - 2]
                /\ Nanos(F[p].count, F[2].unit) <= MaxTime
    <2>. DEFINE c == w.times[p - 2]
    <2>1. p \in 3..m+3 /\ p \in 1..m+3 /\ p - 2 \in 1..m
      BY <1>1
    <2>2. c \in 0..MaxTime
      <3>. DEFINE ts == w.times
      <3>0. ts \in Seq(0..MaxTime) /\ Len(ts) = m
        BY <1>1 DEF m
      <3>. HIDE DEF ts
      <3>1. p - 2 \in 1..Len(ts)
        BY <2>1, <3>0
      <3>. DEFINE V == 0..MaxTime
                  i == p - 2
      <3>3. ts \in Seq(V) /\ i \in 1..Len(ts)
        BY <3>0, <3>1
      <3>. HIDE DEF V, i
      <3>4. ts[i] \in V
        BY <3>3
      <3>2. ts[p - 2] \in 0..MaxTime
        BY <3>4 DEF V, i
      <3>. QED BY <3>2 DEF ts
    <2>3. F[p].count = c /\ F[2].unit = Second /\ F[p].iface = 0
      BY <1>2, <1>9, <2>1
    <2>4. Des(F, p) = {2}
      BY <1>6, <1>7, <2>1, <2>3 DEF Des
    <2>. HIDE DEF c
    <2>5. Nanos(c, Second) = c /\ c <= MaxTime
      <3>1. c \in Nat /\ c <= MaxTime
        BY <2>2, ReaderAssumption
      <3>. QED BY <3>1, NanosOwn
    <2>. QED BY <2>2, <2>3, <2>4, <2>5 DEF c
  <1>13. ASSUME NEW p \in 1..m+3 PROVE SoundAt(F, p)
    <2>1. CASE p = 1
      <3>1. F[1].framed /\ F[1].body /\ F[1].kind = "section"
        BY <1>2, <1>9
      <3>2. SoundAt(F, 1)
        BY <3>1 DEF SoundAt
      <3>. QED BY <2>1, <3>2
    <2>2. CASE p = 2
      <3>. DEFINE S == Ifs(F, 2)
                  sum == Total(NamesOf(F), S)
      <3>1. Cardinality(S) = 0 /\ sum = 0
        BY <1>6, FS_EmptySet, TotalEmpty
      <3>2. Total(NamesOf(F), S \cup {2}) = sum + F[2].name
        <4>1. 2 \in 1..Len(F)
          BY <1>2, <1>9
        <4>. QED BY <4>1, NamesMore
      <3>3. F[2].name = 1
        BY <1>2, <1>9
      <3>. DEFINE all == Total(NamesOf(F), S \cup {2})
                  card == Cardinality(S)
      <3>4. all = 1 /\ card = 0
        BY <3>1, <3>2, <3>3
      <3>. HIDE DEF S, sum, all, card
      <3>5. card < MaxInterfaces /\ all <= MaxNameBytes
        BY <3>4, ReaderAssumption
      <3>6. Sec(F, 2) = {1}
        BY <1>5, <1>9
      <3>. QED BY <1>2, <1>9, <2>2, <3>5, <3>6 DEF SoundAt, all, card, S
    <2>3. CASE p \in 3..m+2
      <3>1. Sec(F, p) = {1}
        BY <1>1, <1>5, <2>3
      <3>2. F[1].order = F[p].order
        BY <1>2, <1>9
      <3>3. F[2].link # Hole /\ F[2].unit # Hole
        BY <1>2, <1>9, <1>11, ReaderAssumption, CaptureClockAssumption
      <3>. QED BY <1>2, <1>12, <2>3, <3>1, <3>2, <3>3 DEF SoundAt
    <2>4. CASE p = m + 3
      <3>1. Sec(F, p) = {1}
        BY <1>1, <1>5, <2>4
      <3>2. F[1].order = F[p].order
        BY <1>2, <1>9
      <3>. QED BY <1>2, <2>4, <3>1, <3>2 DEF SoundAt
    <2>. QED BY <1>3, <2>1, <2>2, <2>3, <2>4
  <1>14. \A p \in 1..m+3 : IsPacket(F, p) <=> p \in 3..m+2
    <2>1. \A p \in 3..m+2 : p \in 2..m+3
      BY <1>1
    <2>. QED BY <1>4, <1>10, <2>1 DEF IsPacket
  <1>15. IsOpener(F, 2)
    BY <1>2, <1>9, <1>10, <1>11 DEF IsOpener
  <1>16. ASSUME NEW p \in 3..m+2 PROVE FrameOf(F, p) = [link |-> w.link, time |-> w.times[p - 2]]
    <2>1. Des(F, p) = {2} /\ Nanos(F[p].count, F[2].unit) = w.times[p - 2] /\ F[2].link = w.link
      BY <1>2, <1>9, <1>12
    <2>2. (CHOOSE q \in Des(F, p) : TRUE) = 2
      BY <2>1
    <2>. QED BY <2>1, <2>2 DEF FrameOf
  <1>. QED BY <1>1, <1>2, <1>13, <1>14, <1>15, <1>16 DEF AllSound, m

ReplayInv == gFile # Hole => Shows[pTopic] = "file" /\ Replayed(gFile, gReader, gSource, gFrames)

\* A step of the pipeline is one of the reader, or leaves it alone.
LEMMA FileStep ==
  ASSUME [PipeNext]_pVars
  PROVE  /\ pTopic' = pTopic
         /\ \/ OpenFile \/ FileFrame \/ FileEnd
            \/ Shows[pTopic] = "config" /\ OtherEnd
            \/ UNCHANGED gVars
  <1>1. ASSUME NEW request, NEW fault, InterfaceSwitched(request, fault) \/ OtherRequest(request, fault)
        PROVE  UNCHANGED <<pTopic, gVars>>
    BY <1>1 DEF InterfaceSwitched, OtherRequest, fVars
  <1>2. ASSUME NEW m, NEW ts, NEW tick, CapturedFrame(m, ts, tick)
        PROVE  UNCHANGED <<pTopic, gVars>>
    BY <1>2 DEF CapturedFrame, NextFrame
  <1>3. ASSUME NEW m, NEW tick, ReplayedFrame(m, tick)
        PROVE  UNCHANGED pTopic /\ FileFrame
    BY <1>3 DEF ReplayedFrame, NextFrame
  <1>4. ASSUME NEW ts, NEW tick, QuietSource(ts, tick)
        PROVE  UNCHANGED <<pTopic, gVars>>
    BY <1>4 DEF QuietSource
  <1>5. CASE StartReplay
    BY <1>5 DEF StartReplay, fVars
  <1>6. CASE SourceEnds
    BY <1>6 DEF SourceEnds, fVars
  <1>7. CASE Snapshot
    BY <1>7 DEF Snapshot
  <1>8. CASE ConfigTold
    BY <1>8 DEF ConfigTold, fVars
  <1>9. CASE UNCHANGED pVars
    BY <1>9 DEF pVars, fVars
  <1>. QED BY <1>1, <1>2, <1>3, <1>4, <1>5, <1>6, <1>7, <1>8, <1>9 DEF PipeNext

\* Every step keeps the replay right.
LEMMA ReplayStep ==
  ASSUME ClockInv, ReplayInv, [PipeNext]_pVars
  PROVE  ReplayInv'
  <1>1. /\ pTopic' = pTopic
        /\ \/ OpenFile \/ FileFrame \/ FileEnd
           \/ Shows[pTopic] = "config" /\ OtherEnd
           \/ UNCHANGED gVars
    BY FileStep
  <1>2. ReaderInv'
    BY ReaderStep, ReaderSteps DEF ClockInv
  <1>3. gFile' = gFile
    BY <1>1 DEF OpenFile, FileFrame, FileEnd, OtherEnd, gVars
  <1>. SUFFICES ASSUME gFile # Hole
                PROVE  Shows[pTopic] = "file" /\ Replayed(gFile', gReader', gSource', gFrames')
    BY <1>1, <1>3 DEF ReplayInv
  <1>4. Shows[pTopic] = "file" /\ Replayed(gFile, gReader, gSource, gFrames)
    BY DEF ReplayInv
  <1>5. CASE OpenFile
    BY <1>4, <1>5, OpensRight
  <1>6. CASE FileFrame
    <2>1. gFrames' \in Seq(Decoded)
      BY <1>2 DEF ReaderInv
    <2>. QED BY <1>4, <1>6, <2>1, FrameRight
  <1>7. CASE FileEnd
    BY <1>4, <1>7, EndRight
  <1>8. CASE UNCHANGED gVars
    BY <1>4, <1>8 DEF gVars
  <1>. QED BY <1>1, <1>4, <1>5, <1>6, <1>7, <1>8

\* The replay starts with a file that is closed.
LEMMA ReplayInitially ==
  ASSUME PipeInit
  PROVE  ReplayInv
  <1>. SUFFICES ASSUME gFile # Hole
                PROVE  Shows[pTopic] = "file" /\ Replayed(gFile, gReader, gSource, gFrames)
    BY DEF ReplayInv
  <1>1. CASE Shows[pTopic] # "file"
    BY <1>1 DEF PipeInit, ReaderInit
  <1>2. CASE Shows[pTopic] = "file"
    <2>1. PICK file \in CaptureFiles : ReaderInit(file, "closed")
      BY <1>2 DEF PipeInit
    <2>2. gFile = file /\ gReader = NewReader /\ gSource = "closed" /\ gFrames = <<>>
      BY <2>1 DEF ReaderInit
    <2>3. gFile \in Files /\ Len(gFile) \in Nat
      BY <2>2, ReaderAssumption DEF Files
    <2>4. gReader \in Readers /\ gReader.at \in 0..Len(gFile) /\ gFrames \in Seq(Decoded)
      BY <2>2, <2>3, FreshAt
    <2>. QED BY <1>2, <2>2, <2>3, <2>4 DEF Replayed
  <1>. QED BY <1>1, <1>2

\* The sum the property takes of the names.
LEMMA NameSum ==
  ASSUME NEW F, NEW S \in SUBSET DOMAIN F, Summable(NamesOf(F), S)
  PROVE  MapThenSumSet(LAMBDA q : F[q].name, S) = Total(NamesOf(F), S)
  <1>. DEFINE Step(f, s) == IF s = {} THEN 0
                            ELSE F[CHOOSE x \in s : TRUE].name + f[s \ {CHOOSE x \in s : TRUE}]
              Solves(f) == f = [s \in SUBSET S |-> Step(f, s)]
              w == NamesOf(F)
              iter == CHOOSE f : Solves(f)
  <1>1. MapThenSumSet(LAMBDA q : F[q].name, S) = iter[S]
    BY DEF MapThenSumSet, MapThenFoldSet
  <1>3. ASSUME NEW f, NEW s \in SUBSET S
        PROVE  Step(f, s) = IF s = {} THEN 0 ELSE w[AnyOf(s)] + f[s \ {AnyOf(s)}]
    <2>1. s # {} => AnyOf(s) \in DOMAIN F
      BY DEF AnyOf
    <2>2. s # {} => w[AnyOf(s)] = F[AnyOf(s)].name
      BY <2>1 DEF NamesOf
    <2>. QED BY <2>2 DEF AnyOf
  <1>. HIDE DEF w, Step
  <1>2. Summable(w, S)
    BY DEF w
  <1>4. PICK f : SumsUp(f, w, S)
    BY <1>2, SumExists
  <1>5. Solves(f)
    BY <1>3, <1>4 DEF SumsUp
  <1>6. Solves(iter)
    BY <1>5
  <1>. HIDE DEF iter
  <1>7. SolvesSum(iter, w, S)
    BY <1>3, <1>6 DEF SolvesSum
  <1>8. iter[S] = Total(w, S)
    BY <1>2, <1>7, SolutionSums
  <1>. QED BY <1>1, <1>8 DEF w

\* What the property says of a block is what the lemmas say of it.
LEMMA SameWords ==
  ASSUME NEW p
  PROVE  /\ SectionOf(p) = Sec(gFile, p) /\ InSection(p, "interface") = Ifs(gFile, p)
         /\ Understood(p) <=> Und(gFile, p)
         /\ Described(p) = Des(gFile, p)
  <1>1. \A q : SectionOf(q) = Sec(gFile, q)
    BY DEF SectionOf, Sec
  <1>2. \A q : InSection(q, "interface") = Ifs(gFile, q)
    BY <1>1 DEF InSection, Ifs
  <1>3. Understood(p) <=> Und(gFile, p)
    BY <1>1 DEF Understood, Und
  <1>4. Described(p) = Des(gFile, p)
    BY <1>2 DEF Described, Des, Rank
  <1>. QED BY <1>1, <1>2, <1>3, <1>4

\* Sound is SoundAt of the file replayed.
LEMMA SoundIs ==
  ASSUME gFile \in Files, NEW p \in 1..Len(gFile)
  PROVE  Sound(p) <=> SoundAt(gFile, p)
  <1>. DEFINE F == gFile
              S == Ifs(F, p) \cup {p}
  <1>1. Len(F) \in Nat /\ p \in Nat \ {0} /\ DOMAIN F = 1..Len(F)
    BY DEF Files
  <1>2. S \in SUBSET (1..Len(F))
    BY <1>1, IfsType
  <1>3. Summable(NamesOf(F), S)
    BY <1>2, NamesSummable
  <1>4. MapThenSumSet(LAMBDA q : F[q].name, S) = Total(NamesOf(F), S)
    BY <1>1, <1>2, <1>3, NameSum
  <1>5. /\ SectionOf(p) = Sec(F, p) /\ InSection(p, "interface") = Ifs(F, p)
        /\ Understood(p) <=> Und(F, p)
        /\ Described(p) = Des(F, p)
    BY SameWords
  <1>6. Sound(p) <=>
          LET b == F[p]
              understood == IF b.kind = "section" THEN Supported(b.version) ELSE Und(F, p)
          IN /\ b.framed /\ (b.kind = "section" \/ \E s \in Sec(F, p) : F[s].order = b.order)
             /\ understood =>
                  /\ b.kind # "simple" /\ (b.kind = "other" \/ b.body)
                  /\ b.kind = "interface" =>
                       /\ Cardinality(Ifs(F, p)) < MaxInterfaces
                       /\ MapThenSumSet(LAMBDA q : F[q].name, S) <= MaxNameBytes
                  /\ b.kind = "packet" =>
                       \E q \in Des(F, p) : F[q].link # Hole /\ F[q].unit # Hole /\ Nanos(b.count, F[q].unit) <= MaxTime
    BY <1>5, Zenon DEF Sound
  <1>. HIDE DEF F
  <1>7. Sound(p) <=> SoundAt(F, p)
    BY <1>4, <1>6, Zenon DEF SoundAt, S
  <1>. QED BY <1>7 DEF F

\* What the agent wrote itself.
LEMMA OwnReplayed ==
  ASSUME NEW F, NEW r, NEW source, NEW frames, Replayed(F, r, source, frames), source # "closed",
         NEW w \in OwnWrites, F = OwnFile(w)
  PROVE  /\ source \in {"open", "eof"}
         /\ source = "eof" => frames = [i \in DOMAIN w.times |-> [link |-> w.link, time |-> w.times[i]]]
  <1>. DEFINE m == Len(w.times)
              k == r.at
  <1>1. w \in Writes
    BY ReaderAssumption DEF Writes
  <1>2. Own(F, w)
    BY <1>1, OwnIs
  <1>3. /\ F \in Files /\ k \in 0..Len(F) /\ frames \in Seq(Decoded) /\ Handed(F, k, frames)
        /\ source \in {"open", "refused", "classic", "eof", "error"}
        /\ source = "eof" => k = Len(F)
        /\ source = "error" => k >= 1 /\ ~SoundAt(F, k)
        /\ source \in {"refused", "classic"} => ~AllSound(F, k) \/ \A p \in 1..Len(F) : ~IsOpener(F, p)
    BY DEF Replayed
  <1>4. /\ m \in Nat /\ Len(F) = m + 3
        /\ AllSound(F, m + 3) /\ IsOpener(F, 2)
        /\ \A p \in 1..m+3 : IsPacket(F, p) <=> p \in 3..m+2
        /\ \A p \in 3..m+2 : FrameOf(F, p) = [link |-> w.link, time |-> w.times[p - 2]]
    BY <1>1, <1>2, <1>3, OwnSound
  <1>. HIDE DEF k
  <1>5. AllSound(F, k) /\ (k >= 1 => SoundAt(F, k)) /\ 2 \in 1..Len(F)
    <2>1. (\A p \in 1..k : p \in 1..m+3) /\ (k >= 1 => k \in 1..m+3) /\ 2 \in 1..m+3
      BY <1>3, <1>4
    <2>. QED BY <1>4, <2>1 DEF AllSound
  <1>6. source \in {"open", "eof"}
    BY <1>3, <1>4, <1>5
  <1>7. ASSUME source = "eof"
        PROVE  frames = [i \in DOMAIN w.times |-> [link |-> w.link, time |-> w.times[i]]]
    <2>. DEFINE S == Stored(F, k)
    <2>1. k = m + 3
      BY <1>3, <1>4, <1>7
    <2>2. S = 3..m+2
      <3>1. \A p \in 3..m+2 : p \in 1..m+3
        BY <1>4
      <3>. QED BY <1>4, <2>1, <3>1 DEF Stored, AllSound
    <2>3. Len(frames) = Cardinality(S) /\ \A p \in S : frames[Cardinality(UpTo(S, p))] = FrameOf(F, p)
      BY <1>3 DEF Handed
    <2>4. Cardinality(S) = m
      <3>. DEFINE j == m + 2
      <3>0. j \in Int /\ 3 \in Int
        BY <1>4
      <3>. HIDE DEF j
      <3>1. Cardinality(3..j) = IF 3 > j THEN 0 ELSE j - 3 + 1
        BY <3>0, FS_Interval
      <3>. HIDE DEF m, S
      <3>2. (IF 3 > j THEN 0 ELSE j - 3 + 1) = m
        BY <1>4 DEF j
      <3>. QED BY <2>2, <3>1, <3>2 DEF j
    <2>. HIDE DEF S
    <2>5. ASSUME NEW i \in 1..m PROVE frames[i] = [link |-> w.link, time |-> w.times[i]]
      <3>. DEFINE p == i + 2
      <3>1. p \in 3..m+2 /\ p - 2 = i /\ p \in Int
        BY <1>4
      <3>. HIDE DEF p
      <3>2. UpTo(S, p) = 3..p
        BY <1>4, <2>2, <3>1 DEF UpTo
      <3>3. Cardinality(3..p) = i
        <4>1. Cardinality(3..p) = IF 3 > p THEN 0 ELSE p - 3 + 1
          BY <3>1, FS_Interval
        <4>. QED BY <1>4, <3>1, <4>1
      <3>4. frames[i] = FrameOf(F, p)
        BY <2>2, <2>3, <3>1, <3>2, <3>3
      <3>. QED BY <1>4, <3>1, <3>4
    <2>6. DOMAIN frames = 1..m
      BY <1>3, <2>3, <2>4
    <2>7. DOMAIN w.times = 1..m
      BY <1>1 DEF Writes
    <2>. DEFINE new == [i \in DOMAIN w.times |-> [link |-> w.link, time |-> w.times[i]]]
    <2>8. DOMAIN new = 1..m /\ \A i \in 1..m : new[i] = [link |-> w.link, time |-> w.times[i]]
      BY <2>7
    <2>9. frames = [i \in DOMAIN frames |-> frames[i]]
      BY <1>3
    <2>10. frames = [i \in 1..m |-> [link |-> w.link, time |-> w.times[i]]]
      BY <2>5, <2>6, <2>9, Zenon
    <2>. QED BY <2>7, <2>10
  <1>. QED BY <1>6, <1>7

\* The invariant implies the property.
LEMMA ReplayShown ==
  ASSUME Replayed(gFile, gReader, gSource, gFrames), gSource # "closed"
  PROVE  ReplayExact
  <1>. DEFINE k == gReader.at
              stored == {p \in 1..gReader.at : gFile[p].kind = "packet" /\ Understood(p) /\ Sound(p)}
              Place(p) == Cardinality({q \in stored : q <= p})
              FrameAt(p) == LET i == gFile[CHOOSE q \in Described(p) : TRUE]
                            IN [link |-> i.link, time |-> Nanos(gFile[p].count, i.unit)]
              sound == \A p \in 1..gReader.at : Sound(p)
  <1>1. /\ gFile \in Files /\ k \in 0..Len(gFile) /\ Handed(gFile, k, gFrames)
        /\ gSource \in {"open", "refused", "classic", "eof", "error"}
        /\ gSource = "open" => AllSound(gFile, k)
        /\ gSource = "eof" => k = Len(gFile) /\ AllSound(gFile, k)
        /\ gSource = "error" => k >= 1 /\ ~SoundAt(gFile, k) /\ AllSound(gFile, k - 1)
        /\ gSource \in {"refused", "classic"} => ~AllSound(gFile, k) \/ \A p \in 1..Len(gFile) : ~IsOpener(gFile, p)
    BY DEF Replayed
  <1>2. Len(gFile) \in Nat
    BY <1>1 DEF Files
  <1>3. (\A p \in 1..k : p \in 1..Len(gFile)) /\ k \in Nat /\ (k >= 1 => k \in 1..k)
        /\ \A p \in 1..k-1 : p \in 1..Len(gFile)
    BY <1>1, <1>2
  <1>4. \A p \in 1..Len(gFile) : Sound(p) <=> SoundAt(gFile, p)
    BY <1>1, SoundIs
  <1>5. \A p : (Understood(p) <=> Und(gFile, p)) /\ Described(p) = Des(gFile, p)
    BY SameWords
  <1>6. stored = Stored(gFile, k)
    BY <1>3, <1>4, <1>5 DEF Stored, IsPacket
  <1>7. \A p : Place(p) = Cardinality(UpTo(Stored(gFile, k), p))
    BY <1>6 DEF UpTo
  <1>8. \A p : FrameAt(p) = FrameOf(gFile, p)
    BY <1>5, Zenon DEF FrameOf
  <1>9. sound <=> AllSound(gFile, k)
    BY <1>3, <1>4 DEF AllSound
  <1>. HIDE DEF stored, Place, FrameAt, sound
  <1>10. Len(gFrames) = Cardinality(stored) /\ \A p \in stored : gFrames[Place(p)] = FrameAt(p)
    BY <1>1, <1>6, <1>7, <1>8 DEF Handed
  <1>11. gSource \in {"open", "eof"} => sound
    BY <1>1, <1>9
  <1>12. gSource \in {"refused", "classic"} /\ sound =>
           ~\E p \in 1..Len(gFile) : gFile[p].kind = "interface" /\ Understood(p) /\ gFile[p].link # Hole
    BY <1>1, <1>5, <1>9 DEF IsOpener
  <1>13. gSource = "error" => ~Sound(k) /\ \A p \in 1..k-1 : Sound(p)
    BY <1>1, <1>3, <1>4 DEF AllSound
  <1>14. ASSUME NEW w \in OwnWrites, gFile = OwnFile(w)
         PROVE  /\ gSource \in {"open", "eof"}
                /\ gSource = "eof" => gFrames = [i \in DOMAIN w.times |-> [link |-> w.link, time |-> w.times[i]]]
    BY <1>14, OwnReplayed
  <1>. USE DEF stored, Place, FrameAt, sound
  <1>. QED BY <1>1, <1>10, <1>11, <1>12, <1>13, <1>14, Zenon DEF ReplayExact

\* ReplayExact, for pcapng.rs, Reader::new and next_packet: of any file the frames
\* handed out are exactly the packets of the sections this agent understands, each
\* once, in order, with the link type and time of its own section's interface; an
\* error is at the first block that is not sound, a sound file with an interface
\* this agent parses is not refused, and what its own writer left comes back.
THEOREM ReplayAlwaysExact == PipeSpec => []ReplayExact
  <1>1. PipeInit => ClockInv /\ ReplayInv
    BY ClockInitially, ReplayInitially
  <1>2. ClockInv /\ ReplayInv /\ [PipeNext]_pVars => ClockInv' /\ ReplayInv'
    BY ClockStep, ReplayStep
  <1>3. ReplayInv => ReplayExact
    <2>. SUFFICES ASSUME ReplayInv PROVE ReplayExact
      OBVIOUS
    <2>1. CASE gFile = Hole \/ gSource = "closed"
      BY <2>1 DEF ReplayExact
    <2>2. CASE gFile # Hole /\ gSource # "closed"
      BY <2>2, ReplayShown DEF ReplayInv
    <2>. QED BY <2>1, <2>2
  <1>. QED BY <1>1, <1>2, <1>3, PTL DEF PipeSpec

=============================================================================
