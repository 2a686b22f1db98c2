---------------------------- MODULE CaptureConfig ----------------------------
(***************************************************************************)
(* The capture handle of main.rs and what is known of it elsewhere: the     *)
(* requests of the control channel that change it on the capture thread     *)
(* (apply_capture_config_request, apply_interface_switch_request), the      *)
(* shared copies of its configuration, and the emitter that tells it.       *)
(*                                                                         *)
(* The queue between the control task and the capture thread is unbounded   *)
(* and in order, and nothing else looks at it: a request is taken from it   *)
(* at any turn of the loop. Every step of a request that needs the system   *)
(* may fail (fault).                                                        *)
(***************************************************************************)
EXTENDS Coverage

CONSTANTS
  Devices,        \* names pcap::Device::list may hold
  WithAddress,    \* those with an address
  LinkOf,         \* link type of each, Hole when the agent cannot parse it
  DefaultSnap,    \* DEFAULT_SNAPLEN
  MaxSnap,        \* i32::MAX
  ShortFilters,   \* filters of at most MAX_CAPTURE_FILTER_LEN bytes; Hole is the empty one
  Compiles,       \* those libpcap compiles on a link type
  Requests,       \* bounds, by topic: the requests there may be,
  Faults,         \* what may fail,
  StartOn         \* and the devices it may start on

ASSUME ConfigAssumption ==
  /\ WithAddress \subseteq Devices /\ {DefaultSnap, MaxSnap} \subseteq Nat \ {0} /\ DefaultSnap <= MaxSnap
  /\ Hole \in ShortFilters /\ \A d \in Devices : <<Hole, LinkOf[d]>> \in Compiles
  /\ Hole \notin [device : Devices, snap : Nat, filter : ShortFilters]

VARIABLES
  cHandle,     \* the open handle: device, snap length, installed filter; Hole in a replay
  cReopen,     \* device_for_reopen
  cLink,       \* the capture thread's link_type
  cShared,     \* current_interface, current_link_type and capture_config_state
  cRead,       \* what the emitter has read and not sent yet
  cTurn,       \* what it reads next, the interface or the configuration
  cShown,      \* what a viewer shows: interface, config, error
  cFresh       \* history: whether a viewer was told since it changed last

cVars == <<cHandle, cReopen, cLink, cShared, cRead, cTurn, cShown, cFresh>>

Opened(device, snap) == [device |-> device, snap |-> snap, filter |-> Hole]
DefaultConfig == [filter |-> Hole, snap |-> DefaultSnap]

Installs(filter, device, fault) == fault # "filter" /\ <<filter, LinkOf[device]>> \in Compiles

\* A rejected request leaves everything as it was, and says so.
Rejected(kind) ==
  /\ cShown' = [cShown EXCEPT !.error = kind]
  /\ UNCHANGED <<cHandle, cReopen, cLink, cShared, cRead, cTurn, cFresh>>

\* What the emitter has read is outdated; what a viewer was told is, unless the
\* capture thread tells it and the emitter does not tell the old one after it.
Outdated(what, told) ==
  LET Of(w) == w \in what
      reading == cRead # Hole /\ Of(cRead.of)
  IN /\ cRead' = IF reading THEN [cRead EXCEPT !.fresh = FALSE] ELSE cRead
     /\ cFresh' = [w \in DOMAIN cFresh |-> IF Of(w) THEN told /\ ~reading ELSE cFresh[w]]

\* The capture thread stores a configuration and broadcasts it.
ConfigStored(config) ==
  /\ cShared' = [cShared EXCEPT !.config = config]
  /\ cShown' = [cShown EXCEPT !.config = config]
  /\ Outdated({"config"}, TRUE)
  /\ UNCHANGED <<cReopen, cLink, cTurn>>

SetFilter(filter, fault) ==
  IF filter \in ShortFilters /\ Installs(filter, cHandle.device, fault)
  THEN /\ cHandle' = [cHandle EXCEPT !.filter = filter]
       /\ ConfigStored([cShared.config EXCEPT !.filter = filter])
  ELSE Rejected("config")

ValidSnap(bytes) == bytes \in 1..MaxSnap

\* A mutant of SetSnaplen: a filter that does not install is left out.
SetSnaplenWidens(bytes, fault) ==
  LET filter == IF Installs(cShared.config.filter, cReopen, fault) THEN cShared.config.filter ELSE Hole
  IN IF ValidSnap(bytes) /\ fault # "open"
     THEN /\ cHandle' = [Opened(cReopen, bytes) EXCEPT !.filter = filter]
          /\ ConfigStored([cShared.config EXCEPT !.snap = bytes])
     ELSE Rejected("config")

\* A new handle on the same device, with the filter of the old one or not at all.
SetSnaplen(bytes, fault) ==
  LET filter == cShared.config.filter
  IN IF /\ ValidSnap(bytes) /\ fault # "open"
        /\ filter # Hole => Installs(filter, cReopen, fault)
     THEN /\ cHandle' = [Opened(cReopen, bytes) EXCEPT !.filter = filter]
          /\ ConfigStored([cShared.config EXCEPT !.snap = bytes])
     ELSE Rejected("config")

\* find_device_by_name and is_capturable
Capturable(name) == name \in WithAddress

\* apply_interface_switch_request, up to the new handle's link type.
Switchable(name, fault) ==
  /\ fault \notin {"list", "open"}
  /\ Capturable(name) /\ LinkOf[name] # Hole

\* Its capture state; Pipeline has the tables it resets.
Switched(name) ==
  /\ cHandle' = Opened(name, DefaultSnap)
  /\ cReopen' = name
  /\ cLink' = LinkOf[name]
  /\ cShared' = [interface |-> name, link |-> LinkOf[name], config |-> DefaultConfig]
  /\ cShown' = [cShown EXCEPT !.error = IF @ = "interface" THEN Hole ELSE @]
  /\ Outdated({"interface", "config"}, FALSE)
  /\ UNCHANGED cTurn

\* The drain loop of the capture thread, on a request other than a switch; a replay
\* has no handle to change.
ConfigRequest(request, fault) ==
  /\ request.kind # "switch"
  /\ IF cHandle = Hole THEN Rejected("config")
     ELSE IF request.kind = "filter" THEN SetFilter(request.value, fault)
     ELSE SetSnaplen(request.value, fault)

SwitchRejected(request, fault) ==
  /\ request.kind = "switch"
  /\ cHandle = Hole \/ ~Switchable(request.value, fault)
  /\ Rejected("interface")

\* The emitter reads one of the two under its lock and sends it afterwards.
EmitterReads ==
  /\ cRead = Hole
  /\ cRead' = [of |-> cTurn, value |-> cShared[cTurn], fresh |-> TRUE]
  /\ UNCHANGED <<cHandle, cReopen, cLink, cShared, cTurn, cShown, cFresh>>

EmitterTells ==
  /\ cRead # Hole
  /\ cShown' = [cShown EXCEPT ![cRead.of] = cRead.value]
  /\ cFresh' = [cFresh EXCEPT ![cRead.of] = cRead.fresh]
  /\ cTurn' = IF cRead.of = "interface" THEN "config" ELSE "interface"
  /\ cRead' = Hole
  /\ UNCHANGED <<cHandle, cReopen, cLink, cShared>>

\* detect_interface and resolve_link_type: startup panics on a link type it cannot
\* parse; a device without an address is refused only if it was asked for.
Startable(d) == LinkOf[d] # Hole

\* The initial values of the shared state.
ConfigInit(live, devices) ==
  /\ \E d \in devices :
       /\ Startable(d)
       /\ cHandle = IF live THEN Opened(d, DefaultSnap) ELSE Hole
       /\ cReopen = IF live THEN d ELSE Hole
       /\ cLink = LinkOf[d]
       /\ cShared = [interface |-> d, link |-> LinkOf[d], config |-> DefaultConfig]
  /\ cRead = Hole
  /\ cTurn = "interface"
  /\ cShown = [interface |-> Hole, config |-> Hole, error |-> Hole]
  /\ cFresh = [w \in {"interface", "config"} |-> FALSE]

-----------------------------------------------------------------------------
(* Properties *)

\* "a rejected change must never leave the agent in a half-applied state": whatever
\* step of whatever request failed, the handle that captures, the device a reopen
\* uses, the link type frames are parsed with and the shared copies agree, and so
\* no change of the snap length widens what is captured; and what a viewer was told
\* last is true, once it was told after the last change.
ConfigMatchesHandle ==
  /\ cShared.link = cLink
  /\ IF cHandle = Hole THEN cShared.config = DefaultConfig
     ELSE /\ cShared.config = [filter |-> cHandle.filter, snap |-> cHandle.snap]
          /\ cHandle.device = cReopen /\ cHandle.device = cShared.interface
          /\ cLink = LinkOf[cHandle.device] /\ cLink # Hole
  /\ \A w \in DOMAIN cFresh : cFresh[w] => cShown[w] = cShared[w]
=============================================================================
