------------------------------ MODULE MCPipeline ------------------------------
(* Small instances of Pipeline, by topic: timestamps that jump; DNS queries,   *)
(* their answers and the names these teach; pipelined HTTP requests; TCP       *)
(* segments whose sequence numbers wrap; datagrams in fragments; files with    *)
(* sections, interfaces and damage; requests that change the capture, some of  *)
(* whose steps fail; and, with the capture idle, traceroutes.                  *)
EXTENDS Pipeline, Traceroute

CONSTANTS f1, f2, h, a1, a2, a3, en0, lo0, tun

MCFlows == {f1, f2}
MCHost == [f \in MCFlows |-> h]
MCPeer == [f \in MCFlows |-> IF f = f1 THEN a1 ELSE a2]
MCAddrs == {h, a1, a2, a3}
MCKnownPort == [f \in MCFlows |-> IF f = f1 THEN "DNS" ELSE Hole]
MCDnsServer == [f \in MCFlows |-> IF f = f1 THEN {TRUE} ELSE {}]

Msg(l7, f, out, id, name) ==
  [parse |-> "ok", l7 |-> l7, flow |-> f, out |-> out, id |-> id, name |-> name, rcode |-> 0,
   answers |-> <<>>, status |-> "final", tcp |-> FALSE, syn |-> FALSE, ack |-> FALSE, rst |-> FALSE,
   payload |-> TRUE, pos |-> 0, len |-> 0, wire |-> 0]
Rec(rtype, name, data, ttl) == [rtype |-> rtype, name |-> name, data |-> data, ttl |-> ttl]
Sized(m, len, wire) == [m EXCEPT !.len = len, !.wire = wire]
Tcp(m, pos) ==
  LET len == IF m.l7 = "none" THEN 1 ELSE 0
  IN Sized([m EXCEPT !.tcp = TRUE, !.ack = TRUE, !.pos = pos], len, len)
Final == Tcp(Msg("reply", f2, FALSE, Hole, Hole), 6)
Noise(parse) == [Msg("none", f1, TRUE, Hole, Hole) EXCEPT !.parse = parse]

\* The answers with CNAMEs come in reverse order, and with an address that the
\* question does not reach; the others are one more than the table has room for.
MCTopics ==
  [clock |-> {Noise("nonIp")},
   dns |-> {Msg("query", f1, TRUE, 1, "n1"), Msg("query", f1, TRUE, 2, "n2"),
            Msg("response", f1, FALSE, 2, "n1"),
            [Msg("response", f1, FALSE, 1, "n1") EXCEPT !.answers =
               <<Rec("A", "n4", a1, 0), Rec("CNAME", "n3", "n4", 0), Rec("CNAME", "n1", "n3", 0),
                 Rec("A", "n5", a3, 0)>>],
            [Msg("response", f1, FALSE, 2, "n2") EXCEPT !.answers =
               <<Rec("A", "n2", a1, 3), Rec("A", "n2", a2, 9), Rec("A", "n2", a3, 0)>>]},
   http |-> {Tcp(Msg("http", f2, TRUE, Hole, "n1"), p) : p \in 6..8} \cup {Final},
   mixed |-> {Tcp(Msg("http", f2, TRUE, Hole, "n1"), 6), Msg("query", f1, TRUE, 1, "n1"), Final,
              [Tcp(Msg("reply", f2, FALSE, Hole, Hole), 7) EXCEPT !.status = "interim"]},
   tcp |-> {Tcp(Msg("none", f2, TRUE, Hole, Hole), p) : p \in 7..9} \cup
           {[Tcp(Msg("none", f2, TRUE, Hole, Hole), 5) EXCEPT !.syn = TRUE, !.ack = FALSE, !.payload = FALSE],
            [Tcp(Msg("none", f2, FALSE, Hole, Hole), 3) EXCEPT !.syn = TRUE, !.payload = FALSE]},
   odd |-> {Tcp(Msg("none", f2, TRUE, Hole, Hole), 7),
            [Tcp(Msg("none", f2, FALSE, Hole, Hole), 4) EXCEPT !.rst = TRUE],
            Noise("malformed"), Noise("control")},
   parts |-> {Sized(Noise("part"), 2, 2), Sized(Noise("icmp"), 1, 1), Sized(Noise("foreign"), 1, 1),
              Tcp(Msg("none", f2, TRUE, Hole, Hole), 7), Sized(Tcp(Msg("hello", f2, TRUE, Hole, Hole), 8), 1, 1),
              Sized([Tcp(Msg("http", f2, TRUE, Hole, "n1"), 7) EXCEPT !.parse = "rebuilt"], 3, 2)},
   file |-> {Noise("nonIp")},
   config |-> {}, trace |-> {}]

MCStamps == [clock |-> {0, 1, 2, 5, 6, 7, 9, 10}, dns |-> {0, 1, 4}, http |-> {0, 1, 4}, mixed |-> {0, 1, 4},
             tcp |-> {0, 3}, odd |-> {0, 3}, parts |-> {0, 3}, file |-> {}, config |-> {}, trace |-> {}]
MCTicks == [clock |-> {0}, dns |-> {2}, http |-> {1}, mixed |-> {1}, tcp |-> {1}, odd |-> {1}, parts |-> {1}, file |-> {0},
            config |-> {0}, trace |-> {}]
MCMaxFrames == [clock |-> 6, dns |-> 4, http |-> 4, mixed |-> 4, tcp |-> 4, odd |-> 3, parts |-> 3, file |-> 3, config |-> 0,
                trace |-> 0]
MCReplays == [t \in DOMAIN MCTopics |-> IF t \in {"clock", "file"} THEN {TRUE} ELSE IF t = "trace" THEN {FALSE} ELSE BOOLEAN]
MCShows == [t \in DOMAIN MCTopics |-> t]

\* en0 and lo0 have different link types, tun one that cannot be parsed; "wlan" is
\* no device; the filter "ether" compiles on en0 only.
MCLinkOf == [d \in {en0, lo0, tun} |-> IF d = en0 THEN "Ethernet" ELSE IF d = lo0 THEN "NullLoopback" ELSE Hole]
MCCompiles == {<<Hole, l>> : l \in {"Ethernet", "NullLoopback", Hole}} \cup
              {<<"ip", l>> : l \in {"Ethernet", "NullLoopback"}} \cup {<<"ether", "Ethernet">>}
Ask(kind, values) == {[kind |-> kind, value |-> v] : v \in values}
MCRequests ==
  [t \in DOMAIN MCTopics |->
     IF t = "config"
     THEN Ask("filter", {Hole, "ip", "ether", "long"}) \cup Ask("snap", {0, 1, 3, 5})
          \cup Ask("switch", {en0, lo0, tun, "wlan"})
     ELSE IF t \in {"file", "trace"} THEN {} ELSE Ask("switch", {en0})]
MCFaults == [t \in DOMAIN MCTopics |-> IF t = "config" THEN {"none", "list", "open", "filter"} ELSE {"none"}]
MCStartOn == [t \in DOMAIN MCTopics |-> IF t = "config" THEN {en0, lo0, tun} ELSE {en0}]

Block(kind, order) == [kind |-> kind, framed |-> TRUE, order |-> order, body |-> TRUE, version |-> "1.0",
                       link |-> "Ethernet", unit |-> Second, name |-> 1, iface |-> 0, count |-> 1]
\* What may follow a section header, in its byte order.
Blocks(order) ==
  {Block("interface", order), [Block("interface", order) EXCEPT !.link = "Raw", !.unit = 1, !.name = 2],
   [Block("interface", order) EXCEPT !.link = Hole], [Block("interface", order) EXCEPT !.unit = Hole],
   [Block("interface", order) EXCEPT !.unit = 3],
   Block("packet", order), [Block("packet", order) EXCEPT !.iface = 1, !.count = 2],
   [Block("packet", order) EXCEPT !.body = FALSE], Block("simple", order), Block("other", order),
   [Block("other", order) EXCEPT !.framed = FALSE]}
Headers(order) == {[Block("section", order) EXCEPT !.version = v] : v \in {"1.0", "2.0"}} \cup
                  {[Block("section", order) EXCEPT !.body = FALSE]}
Section(order, first, n) == {<<first>> \o rest : rest \in UNION {[1..k -> Blocks(order)] : k \in 0..n}}
Little == Block("section", "little")
Eth == Block("interface", "little")
Raw == [Eth EXCEPT !.link = "Raw", !.unit = 1, !.name = 2]
TwoSections ==
  {<<Little, Eth, b>> \o second : b \in {Block("packet", "little"), Eth},
                                 second \in UNION {Section("big", first, 2) : first \in Headers("big")}}
MCOwnWrites == [link : {"Ethernet", "NullLoopback", "Raw"}, times : {<<>>, <<2, 3>>, <<3, 1>>}]
MCFiles ==
  {OwnFile(w) : w \in MCOwnWrites} \cup
  Section("little", Little, 3) \cup {<<Little, Eth, Raw>> \o rest : rest \in [1..3 -> Blocks("little")]}
  \cup TwoSections \cup Section("big", [Little EXCEPT !.order = "big"], 1)
  \cup {<<>>, <<Block("packet", "little")>>}

\* One target within reach, one beyond the ceiling.
MCTarget == [r1 |-> "x", r2 |-> "y"]
MCRoute == [x |-> <<"g", "x">>, y |-> <<"g", "m", "y">>]

\* The traces are tasks beside the capture, which they do not touch.
AgentInit == PipeInit /\ TraceInit

AgentNext ==
  \/ pTopic # "trace" /\ PipeNext /\ UNCHANGED hVars
  \/ pTopic = "trace" /\ TraceNext /\ UNCHANGED pVars

AgentSpec == AgentInit /\ [][AgentNext]_<<pVars, hVars>>
=============================================================================
