------------------------------ MODULE Coverage ------------------------------
(***************************************************************************)
(* What the two reassemblers of reassembly.rs share: a coverage buffer that *)
(* keeps the bytes it saw first, the capacity its vectors account for, and *)
(* the oldest-first eviction that brings a table back under its ceilings.  *)
(*                                                                         *)
(* A buffer (data, filled) is one sequence in which Hole marks the bytes   *)
(* that are not filled.                                                    *)
(***************************************************************************)
EXTENDS Integers, Sequences, FiniteSets, FiniteSetsExt

CONSTANT Hole   \* no byte, no length, no entry

Smaller(a, b) == IF a <= b THEN a ELSE b
Larger(a, b) == IF a >= b THEN a ELSE b

\* a.saturating_sub(b)
SatSub(a, b) == IF a >= b THEN a - b ELSE 0

-----------------------------------------------------------------------------
(* write_first_seen_wins: offsets count from 0, the sequence from 1. *)

HitsCap(offset, bytes, cap) == offset + Len(bytes) > cap

UsableEnd(offset, bytes, cap) == Smaller(offset + Len(bytes), cap)

Held(data, i) == i \in 1..Len(data) /\ data[i] # Hole

WriteFirstSeen(data, offset, bytes, cap) ==
  LET end == UsableEnd(offset, bytes, cap)
  IN IF offset >= end
     THEN data
     ELSE [i \in 1..Larger(Len(data), end) |->
             IF Held(data, i) THEN data[i]
             ELSE IF i \in offset+1..end THEN bytes[i - offset] ELSE Hole]

\* Positions the piece covers that hold another byte already.
Conflicts(data, offset, bytes, cap) ==
  {i \in offset+1..UsableEnd(offset, bytes, cap) :
     Held(data, i) /\ data[i] # bytes[i - offset]}

NewlyWritten(data, offset, bytes, cap) ==
  {i \in offset+1..UsableEnd(offset, bytes, cap) : ~Held(data, i)}

\* contiguous_len_from: the held run from the start, resumed from known.
ContiguousFrom(data, known) ==
  LET start == Smaller(known, Len(data))
  IN Max({n \in start..Len(data) : \A i \in start+1..n : Held(data, i)})

\* Capacity after a resize to need: Vec grows to twice its capacity at least.
VecGrow(cap, need) == IF need <= cap THEN cap ELSE Larger(2 * cap, need)

-----------------------------------------------------------------------------
(* evict_oldest_until *)

SizeOf(table, keys) == MapThenSumSet(LAMBDA k : table[k].accounted, keys)

Fits(table, live, bytes, gone, maxCount, maxBytes) ==
  /\ Cardinality(live \ gone) <= maxCount
  /\ SatSub(bytes, SizeOf(table, gone)) <= maxBytes

\* The sets of keys it may remove: the least recently seen ones, one by one,
\* and no more than needed. Entries of equal age come in the map's order.
Evictions(table, live, bytes, maxCount, maxBytes) ==
  IF Fits(table, live, bytes, {}, maxCount, maxBytes)
  THEN {{}}
  ELSE {gone \in SUBSET live \ {{}} :
          /\ Fits(table, live, bytes, gone, maxCount, maxBytes) \/ gone = live
          /\ \A g \in gone, k \in live \ gone : table[g].last <= table[k].last
          /\ \E g \in gone :
               /\ \A h \in gone : table[h].last <= table[g].last
               /\ ~Fits(table, live, bytes, gone \ {g}, maxCount, maxBytes)}
=============================================================================
