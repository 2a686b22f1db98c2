----------------------------- MODULE MCReassembly -----------------------------
(* Small instances of Reassembly: DNS messages over TCP, the second of which is *)
(* longer than a buffer, captured in order, with losses and reordering, among   *)
(* forged segments, or in fragments of two datagrams that share their keys.     *)
EXTENDS Reassembly, TLC

CONSTANTS f1, d1, d2, k1, k2

MCSymmetry == Permutations({k1, k2})

MCDatagramLen == (d1 :> 2) @@ (d2 :> 3)
MCCarries ==
  (d1 :> [key |-> <<f1, TRUE>>, from |-> 0]) @@ (d2 :> [key |-> <<f1, TRUE>>, from |-> 1])
MCContent ==
  [k \in StreamKeys |-> IF k[2] THEN <<0, 2, 1, 5, 1, 4, 0, 2, 1, 5, 1, 5, 1, 5, 0, 2, 1, 5>> ELSE <<0, 2, 4, 5>>]
MCEdges == [k \in StreamKeys |-> IF k[2] THEN {0, 4, 5, 8, 12, 14, 18} ELSE {0, 4}]
MCClass == [k \in StreamKeys |-> IF k[2] THEN "toDns" ELSE "fromDns"]
MCFirstSeq == [k \in StreamKeys |-> 28]
MCMaxPackets == [ordered |-> 6, lossy |-> 3, forged |-> 3, fragmented |-> 3]
=============================================================================
