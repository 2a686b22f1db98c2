-------------------------------- MODULE MCTls --------------------------------
(* Small instances of Tls: a connection that is read to its key update, one    *)
(* with early data, a crowd of three under the ceilings, two key logs, a       *)
(* server that refuses the handshake in clear and a client that ends it.       *)
EXTENDS Tls

CONSTANTS one, early, c2, c3, c4, l5, l6, deny, bye

MCConns == {one, early, c2, c3, c4, l5, l6, deny, bye}
MCPids == 1..8
MCPidOf == [id \in MCConns |-> IF id = one THEN 1 ELSE IF id = early THEN 4 ELSE IF id = c4 THEN 3
                              ELSE IF id = l5 THEN 5 ELSE IF id = l6 THEN 6
                              ELSE IF id = deny THEN 7 ELSE IF id = bye THEN 8 ELSE 2]
MCRandom == [id \in MCConns |-> id]
MCClientOut == [id \in MCConns |-> id # early]
\* Two connections each: what the limits on directions need.
MCRoomScenes == [crowd |-> {c2, c3}, pair |-> {c3, c4}]
MCScenes ==
  [one |-> {one}, early |-> {early}, log |-> {l5, l6}, deny |-> {deny}, bye |-> {bye}] @@ MCRoomScenes
MCTlsFaults ==
  [one |-> {"forge"}, early |-> {}, crowd |-> {"cut"}, pair |-> {"cut"}, log |-> {}, deny |-> {}, bye |-> {}]
MCMaxTlsPackets == [one |-> 5, early |-> 5, crowd |-> 4, pair |-> 3, log |-> 0, deny |-> 4, bye |-> 4]

Plain(type, units) == [type |-> type, units |-> units, seal |-> Hole, inner |-> "none"]
Sealed(inner, units, random, label, gen, seq) ==
  [type |-> "app", units |-> units, inner |-> inner,
   seal |-> [secret |-> [random |-> random, label |-> label, gen |-> gen], seq |-> seq]]

\* ch..: records of the client, s..: of the server; messages and frames are items too.
MCItemLen ==
  [ch |-> 2, cf |-> 1, cd |-> 1, sh |-> 1, sf |-> 1, sd1 |-> 1, sk |-> 1, sd2 |-> 1,
   che |-> 1, ed |-> 1, ecf |-> 1, ecd |-> 1, esh |-> 1, tiny |-> 2,
   dch |-> 1, da |-> 1, bch |-> 1, bsh |-> 1, ba |-> 1, warning |-> 1,
   hello |-> 1, earlyHello |-> 1, server |-> 1, finished |-> 1, update |-> 1, f1 |-> 2, f2 |-> 1, f3 |-> 1]

MCRecord ==
  [ch |-> Plain("handshake", Units("hello")),
   cf |-> Sealed("handshake", Units("finished"), one, "clientHandshake", 0, 0),
   cd |-> Sealed("app", Units("f3"), one, "client", 0, 0),
   sh |-> Plain("handshake", Units("server")),
   sf |-> Sealed("handshake", Units("finished"), one, "serverHandshake", 0, 0),
   sd1 |-> Sealed("app", <<<<"f1", 1>>>>, one, "server", 0, 0),
   sk |-> Sealed("handshake", Units("update"), one, "server", 0, 1),
   sd2 |-> Sealed("app", <<<<"f1", 2>>>> \o Units("f2"), one, "server", 1, 0),
   che |-> Plain("handshake", Units("earlyHello")),
   ed |-> Sealed("app", Units("f2"), early, "earlyData", 0, 0),
   ecf |-> Sealed("handshake", Units("finished"), early, "clientHandshake", 0, 0),
   ecd |-> Sealed("app", Units("f3"), early, "client", 0, 0),
   esh |-> Plain("handshake", Units("server")),
   dch |-> Plain("handshake", Units("hello")),
   da |-> Plain("alert", Units("warning")),
   bch |-> Plain("handshake", Units("hello")),
   bsh |-> Plain("handshake", Units("server")),
   ba |-> Sealed("alert", Units("warning"), bye, "clientHandshake", 0, 0),
   tiny |-> Sealed("app", Units("f3"), c2, "client", 0, 0)]

MCSent ==
  [id \in MCConns |->
     IF id = one THEN [o \in BOOLEAN |-> IF o THEN <<"ch", "cf", "cd">> ELSE <<"sh", "sf", "sd1", "sk", "sd2">>]
     ELSE IF id = early THEN [o \in BOOLEAN |-> IF o THEN <<"esh">> ELSE <<"che", "ed", "ecf", "ecd">>]
     ELSE IF id = deny THEN [o \in BOOLEAN |-> IF o THEN <<"dch">> ELSE <<"da">>]
     ELSE IF id = bye THEN [o \in BOOLEAN |-> IF o THEN <<"bch", "ba">> ELSE <<"bsh">>]
     ELSE [o \in BOOLEAN |-> <<"tiny">>]]
MCTlsEdges ==
  [id \in MCConns |->
     IF id = one THEN [o \in BOOLEAN |-> IF o THEN {0, 4} ELSE {0, 2, 5}]
     ELSE IF id = early THEN [o \in BOOLEAN |-> IF o THEN {0, 1} ELSE {0, 1, 4}]
     ELSE IF id = deny THEN [o \in BOOLEAN |-> {0, 1}]
     ELSE IF id = bye THEN [o \in BOOLEAN |-> IF o THEN {0, 1, 2} ELSE {0, 1}]
     ELSE [o \in BOOLEAN |-> IF o THEN {0, 2} ELSE {0}]]
MCSynSeq == [id \in MCConns |-> [o \in BOOLEAN |-> 14]]
MCSuites == [server |-> 1]

\* ka is cut by writes and reads, kb is too long, kc comes right after it.
MCKeyText ==
  << <<"k1", "k2", "k3", "k4">>, <<>>, <<>>, <<"k5", "k6">>, <<"ka", "kb", "kc">>, <<"kd">>, <<>>, <<"k7">> >>
MCKeyEdges == << {8}, {}, {}, {4}, {1, 4, 5, 6, 8, 9, 11}, {1, 2}, {}, {2} >>
MCLineLen ==
  [k1 |-> 1, k2 |-> 1, k3 |-> 1, k4 |-> 1, k5 |-> 1, k6 |-> 1, k7 |-> 1, ka |-> 2, kb |-> 5, kc |-> 1, kd |-> 1]
MCLineSecret ==
  [k1 |-> <<one, "serverHandshake">>, k2 |-> <<one, "server">>, k3 |-> <<one, "clientHandshake">>,
   k4 |-> <<one, "client">>, k5 |-> <<early, "clientHandshake">>, k6 |-> <<early, "client">>,
   k7 |-> <<bye, "clientHandshake">>,
   ka |-> <<l5, "client">>, kb |-> <<l5, "server">>, kc |-> <<c2, "client">>, kd |-> <<l6, "client">>]
=============================================================================
