--------------------------- MODULE ReassemblyProofs ---------------------------
(***************************************************************************)
(* What holds of the reassembly whatever its ceilings, its timeouts, the   *)
(* number of fragments, datagrams and directions, and the bytes they carry. *)
(***************************************************************************)
EXTENDS Reassembly, FoldFacts

-----------------------------------------------------------------------------
(* What a table of groups or buffers accounts for *)

Weights(table, keys) == [k \in keys |-> table[k].accounted]

\* A finite set of entries that account for natural numbers.
Weighed(table, keys) == IsFiniteSet(keys) /\ \A k \in keys : table[k].accounted \in Nat

LEMMA WeighedPart ==
  ASSUME NEW table, NEW keys, Weighed(table, keys), NEW part \in SUBSET keys
  PROVE  Weighed(table, part)
  BY FS_Subset DEF Weighed

LEMMA SizeIsTotal ==
  ASSUME NEW table, NEW keys, Weighed(table, keys)
  PROVE  SizeOf(table, keys) = Total(Weights(table, keys), keys)
  <1>. DEFINE Step(f, s) == IF s = {} THEN 0
                            ELSE table[CHOOSE x \in s : TRUE].accounted + f[s \ {CHOOSE x \in s : TRUE}]
              Solves(f) == f = [s \in SUBSET keys |-> Step(f, s)]
              w == Weights(table, keys)
              iter == CHOOSE f : Solves(f)
  <1>1. SizeOf(table, keys) = iter[keys]
    BY DEF SizeOf, MapThenSumSet, MapThenFoldSet
  <1>2. Summable(w, keys)
    BY DEF Summable, Weighed, Weights
  <1>3. ASSUME NEW f, NEW s \in SUBSET keys
        PROVE  Step(f, s) = IF s = {} THEN 0 ELSE w[AnyOf(s)] + f[s \ {AnyOf(s)}]
    <2>1. s # {} => AnyOf(s) \in keys
      BY DEF AnyOf
    <2>2. s # {} => w[AnyOf(s)] = table[AnyOf(s)].accounted
      BY <2>1 DEF Weights
    <2>. QED BY <2>2 DEF AnyOf
  <1>. HIDE DEF w, Step
  <1>4. PICK f : SumsUp(f, w, keys)
    BY <1>2, SumExists
  <1>5. Solves(f)
    BY <1>3, <1>4 DEF SumsUp
  <1>6. Solves(iter)
    BY <1>5
  <1>. HIDE DEF iter
  <1>7. SolvesSum(iter, w, keys)
    BY <1>3, <1>6 DEF SolvesSum
  <1>8. iter[keys] = Total(w, keys)
    BY <1>2, <1>7, SolutionSums
  <1>. QED BY <1>1, <1>8 DEF w

LEMMA SizeNat ==
  ASSUME NEW table, NEW keys, Weighed(table, keys)
  PROVE  SizeOf(table, keys) \in Nat
  <1>1. IsFiniteSet(keys) /\ \A k \in keys : Weights(table, keys)[k] \in Nat
    BY DEF Weighed, Weights
  <1>2. Total(Weights(table, keys), keys) \in Nat
    BY <1>1, TotalNat
  <1>. QED BY <1>2, SizeIsTotal

LEMMA SizeEmpty ==
  ASSUME NEW table
  PROVE  SizeOf(table, {}) = 0
  <1>1. Weighed(table, {})
    BY FS_EmptySet DEF Weighed
  <1>. QED BY <1>1, SizeIsTotal, TotalEmpty

\* Two tables agree on what the entries of keys account for.
SameWeights(table, other, keys) == \A k \in keys : table[k].accounted = other[k].accounted

LEMMA SizeSame ==
  ASSUME NEW table, NEW other, NEW keys, Weighed(table, keys), SameWeights(table, other, keys)
  PROVE  SizeOf(other, keys) = SizeOf(table, keys)
  <1>1. Weights(table, keys) = Weights(other, keys) /\ Weighed(other, keys)
    BY DEF Weights, SameWeights, Weighed
  <1>. QED BY <1>1, SizeIsTotal

LEMMA SizeSplit ==
  ASSUME NEW table, NEW keys, Weighed(table, keys), NEW part \in SUBSET keys
  PROVE  SizeOf(table, keys) = SizeOf(table, part) + SizeOf(table, keys \ part)
  <1>. DEFINE w == Weights(table, keys)
  <1>1. Summable(w, keys)
    BY DEF Summable, Weighed, Weights
  <1>2. Weighed(table, part) /\ Weighed(table, keys \ part)
    BY WeighedPart
  <1>3. Same(w, Weights(table, part), part) /\ Same(w, Weights(table, keys \ part), keys \ part)
    BY DEF Same, Weights
  <1>4. Summable(w, part) /\ Summable(w, keys \ part)
    BY <1>1, SummablePart
  <1>. HIDE DEF w
  <1>5. Total(w, part) = SizeOf(table, part) /\ Total(w, keys \ part) = SizeOf(table, keys \ part)
    BY <1>2, <1>3, <1>4, TotalSame, SizeIsTotal
  <1>6. Total(w, keys) = SizeOf(table, keys)
    BY SizeIsTotal DEF w
  <1>. QED BY <1>1, <1>5, <1>6, TotalSplit

LEMMA SizeOne ==
  ASSUME NEW table, NEW k, table[k].accounted \in Nat
  PROVE  SizeOf(table, {k}) = table[k].accounted
  <1>. DEFINE w == Weights(table, {k})
  <1>1. Weighed(table, {k})
    BY FS_Singleton DEF Weighed
  <1>4. Summable(w, {k}) /\ w[k] = table[k].accounted /\ k \in {k}
    BY <1>1 DEF Weighed, Summable, Weights
  <1>. HIDE DEF w
  <1>2. Total(w, {k}) = w[k] + Total(w, {k} \ {k})
    BY <1>4, TotalWithout
  <1>3. {k} \ {k} = {}
    OBVIOUS
  <1>. QED BY <1>1, <1>2, <1>3, <1>4, TotalEmpty, SizeIsTotal DEF w

LEMMA SizeWithout ==
  ASSUME NEW table, NEW keys, Weighed(table, keys), NEW k \in keys
  PROVE  SizeOf(table, keys) = table[k].accounted + SizeOf(table, keys \ {k})
  <1>. DEFINE one == {k}
  <1>1. one \in SUBSET keys /\ table[k].accounted \in Nat
    BY DEF Weighed
  <1>2. SizeOf(table, one) = table[k].accounted
    BY <1>1, SizeOne
  <1>. HIDE DEF one
  <1>3. SizeOf(table, keys) = SizeOf(table, one) + SizeOf(table, keys \ one)
    BY <1>1, SizeSplit
  <1>. QED BY <1>2, <1>3 DEF one

\* evict_oldest_until brings a table under both ceilings, and what it takes off the
\* account is what it takes out of the table.
LEMMA EvictionsFit ==
  ASSUME NEW table, NEW live, Weighed(table, live), NEW bytes, bytes = SizeOf(table, live),
         NEW maxCount \in Nat, NEW maxBytes \in Nat,
         NEW gone \in Evictions(table, live, bytes, maxCount, maxBytes)
  PROVE  /\ gone \in SUBSET live
         /\ Cardinality(live \ gone) <= maxCount
         /\ SizeOf(table, live \ gone) <= maxBytes
  <1>1. gone \in SUBSET live
    BY DEF Evictions
  <1>2. /\ Weighed(table, gone) /\ Weighed(table, live \ gone)
        /\ SizeOf(table, gone) \in Nat /\ SizeOf(table, live \ gone) \in Nat
    BY <1>1, WeighedPart, SizeNat
  <1>3. SizeOf(table, live \ gone) = SatSub(bytes, SizeOf(table, gone))
    BY <1>1, <1>2, SizeSplit DEF SatSub
  <1>4. CASE Fits(table, live, bytes, gone, maxCount, maxBytes)
    BY <1>1, <1>3, <1>4 DEF Fits
  <1>5. CASE gone = live
    <2>1. live \ gone = {}
      BY <1>5
    <2>. QED BY <1>1, <2>1, SizeEmpty, FS_EmptySet
  <1>. QED BY <1>4, <1>5 DEF Evictions

-----------------------------------------------------------------------------
(* The buffer that keeps the bytes it saw first *)

Writes(w, data, offset, bytes, cap) ==
  /\ Len(w) >= Len(data) /\ Len(w) <= Larger(Len(data), cap)
  /\ \A i \in 1..Len(data) : Held(data, i) => Held(w, i) /\ w[i] = data[i]
  /\ \A i \in 1..Len(w) : Held(w, i) /\ ~Held(data, i) =>
       i \in offset+1..offset+Len(bytes) /\ w[i] = bytes[i - offset]

\* What writing a piece does: no byte held is replaced, what is new is the piece's,
\* and the buffer grows to the cap at most.
LEMMA WriteKeeps ==
  ASSUME NEW S, NEW data \in Seq(S \cup {Hole}), NEW offset \in Nat, NEW bytes \in Seq(S),
         NEW cap \in Nat, NEW w, w = WriteFirstSeen(data, offset, bytes, cap)
  PROVE  w \in Seq(S \cup {Hole}) /\ Writes(w, data, offset, bytes, cap)
  <1>. DEFINE end == UsableEnd(offset, bytes, cap)
              n == Larger(Len(data), end)
              v == [i \in 1..n |-> IF Held(data, i) THEN data[i]
                                   ELSE IF i \in offset+1..end THEN bytes[i - offset] ELSE Hole]
  <1>1. Len(data) \in Nat /\ Len(bytes) \in Nat /\ end \in Nat /\ end <= cap /\ end <= offset + Len(bytes)
    BY DEF UsableEnd, Smaller
  <1>2. n \in Nat /\ n >= Len(data) /\ n >= end /\ (n = Len(data) \/ n = end)
    BY <1>1 DEF Larger
  <1>3. CASE offset >= end
    <2>1. w = data
      BY <1>3 DEF WriteFirstSeen
    <2>. QED BY <1>1, <2>1 DEF Held, Larger, Writes
  <1>4. CASE ~(offset >= end)
    <2>1. w = v
      BY <1>4 DEF WriteFirstSeen
    <2>. HIDE DEF n, end
    <2>2. \A i \in 1..n : v[i] \in S \cup {Hole}
      <3>. SUFFICES ASSUME NEW i \in 1..n PROVE v[i] \in S \cup {Hole}
        OBVIOUS
      <3>1. CASE Held(data, i)
        BY <3>1 DEF Held
      <3>2. CASE ~Held(data, i) /\ i \in offset+1..end
        <4>1. i - offset \in 1..Len(bytes) /\ v[i] = bytes[i - offset]
          BY <1>1, <3>2
        <4>. QED BY <4>1
      <3>3. CASE ~Held(data, i) /\ i \notin offset+1..end
        BY <3>3
      <3>. QED BY <3>1, <3>2, <3>3
    <2>3. v \in Seq(S \cup {Hole}) /\ Len(v) = n
      BY <1>2, <2>2
    <2>4. \A i \in 1..Len(data) : Held(data, i) => Held(v, i) /\ v[i] = data[i]
      BY <1>2, <2>3 DEF Held
    <2>5. \A i \in 1..n : Held(v, i) /\ ~Held(data, i) => i \in offset+1..end /\ v[i] = bytes[i - offset]
      BY <2>3 DEF Held
    <2>6. n <= Larger(Len(data), cap)
      BY <1>1, <1>2 DEF Larger
    <2>. HIDE DEF v
    <2>. QED BY <1>1, <1>2, <2>1, <2>3, <2>4, <2>5, <2>6 DEF Writes
  <1>. QED BY <1>3, <1>4

\* contiguous_len_from, resumed from a length up to which everything is held, finds
\* the whole run from the start.
LEMMA ContiguousIsRun ==
  ASSUME NEW S, NEW data \in Seq(S), NEW known \in Nat, known <= Len(data),
         \A i \in 1..known : Held(data, i), NEW n, n = ContiguousFrom(data, known)
  PROVE  /\ n \in Nat /\ known <= n /\ n <= Len(data) /\ \A i \in 1..n : Held(data, i)
         /\ n < Len(data) => ~Held(data, n + 1)
  <1>. DEFINE R == {m \in known..Len(data) : \A i \in known+1..m : Held(data, i)}
  <1>1. Smaller(known, Len(data)) = known /\ Len(data) \in Nat
    BY DEF Smaller
  <1>2. n = Max(R)
    BY <1>1 DEF ContiguousFrom
  <1>3. R \in SUBSET (0..Len(data)) /\ known \in R
    BY <1>1
  <1>4. n \in R /\ \A y \in R : n >= y
    <2>. HIDE DEF R
    <2>. QED BY <1>1, <1>2, <1>3, MaxExists
  <1>5. n \in Nat /\ known <= n /\ n <= Len(data) /\ \A i \in known+1..n : Held(data, i)
    BY <1>1, <1>4
  <1>6. \A i \in 1..n : Held(data, i)
    BY <1>5
  <1>7. ASSUME n < Len(data), Held(data, n + 1) PROVE FALSE
    <2>1. \A i \in known+1..n+1 : Held(data, i)
      BY <1>5, <1>7
    <2>2. n + 1 \in R
      BY <1>1, <1>5, <1>7, <2>1
    <2>. QED BY <1>4, <1>5, <2>2
  <1>. QED BY <1>5, <1>6, <1>7

-----------------------------------------------------------------------------
(* Groups of fragments *)

FragOuts ==
  {Hole} \cup [status : {"completed", "truncated", "missing"}, header : Datagrams,
               bytes : Seq(Datagrams \cup {Hole})]

FragStates ==
  [groups : [FragKeys -> FragGroups \cup {Hole}], bytes : Nat, count : [FragKinds -> Nat],
   out : FragOuts]

HeardSince(heard, d, t) == d \in Datagrams /\ heard[d] \in Nat /\ heard[d] >= t

\* What holds of a group: its known prefix is held, what it holds was captured since
\* the group began and is where its datagram has it, and it was seen last in the past.
GroupGood(g, heard, now) ==
  /\ g.prefix <= Len(g.data) /\ \A i \in 1..g.prefix : Held(g.data, i)
  /\ \A i \in 1..Len(g.data) :
       Held(g.data, i) => HeardSince(heard, g.data[i], g.first) /\ i <= DatagramLen[g.data[i]]
  /\ g.header # Hole => HeardSince(heard, g.header, g.first)
  /\ g.first <= g.last /\ g.last <= now

OutGood(out, heard, now) ==
  out # Hole =>
    /\ HeardSince(heard, out.header, now - FragTimeout)
    /\ \A i \in 1..Len(out.bytes) :
         HeardSince(heard, out.bytes[i], now - FragTimeout) /\ i <= DatagramLen[out.bytes[i]]

GroupsGood(groups, heard, now) ==
  \A k \in LiveGroups(groups) : GroupGood(groups[k], heard, now)

\* bytes_held is what the groups account for.
Balanced(st) == st.bytes = SizeOf(st.groups, LiveGroups(st.groups))

FragGood(st, heard, now) ==
  st \in FragStates /\ Balanced(st) /\ GroupsGood(st.groups, heard, now) /\ OutGood(st.out, heard, now)

\* Groups that are live or were counted in an outcome.
Ever(st) ==
  Cardinality(LiveGroups(st.groups)) + st.count["completed"] + st.count["truncated"]
  + st.count["missing"] + st.count["abandoned"] + st.count["capacity"]

LEMMA FragConstants ==
  /\ MaxGroupBytes \in Nat /\ MaxGroups \in Nat /\ MaxGroups > 0 /\ MaxFragBytes \in Nat /\ FragTimeout \in Nat
  /\ DatagramLen \in [Datagrams -> Nat] /\ Hole \notin Datagrams /\ Hole \notin FragGroups /\ IsFiniteSet(FragKeys)
  BY FragAssumption

LEMMA LiveWeighed ==
  ASSUME NEW groups \in [FragKeys -> FragGroups \cup {Hole}], NEW keys \in SUBSET LiveGroups(groups)
  PROVE  /\ Weighed(groups, keys) /\ IsFiniteSet(keys) /\ Cardinality(keys) \in Nat
         /\ SizeOf(groups, keys) \in Nat
  <1>1. IsFiniteSet(keys) /\ Cardinality(keys) \in Nat
    <2>1. keys \in SUBSET FragKeys
      BY DEF LiveGroups
    <2>. QED BY <2>1, FragConstants, FS_Subset, FS_CardinalityType
  <1>2. \A k \in keys : groups[k] \in FragGroups
    BY DEF LiveGroups
  <1>3. \A k \in keys : groups[k].accounted \in Nat
    BY <1>2 DEF FragGroups
  <1>4. Weighed(groups, keys)
    BY <1>1, <1>3 DEF Weighed
  <1>. QED BY <1>1, <1>4, SizeNat

\* new is st without the groups of keys.
Without(new, st, keys) ==
  /\ new.groups = [k \in FragKeys |-> IF k \in keys THEN Hole ELSE st.groups[k]]
  /\ LiveGroups(new.groups) = LiveGroups(st.groups) \ keys
  /\ Cardinality(LiveGroups(new.groups)) = Cardinality(LiveGroups(st.groups)) - Cardinality(keys)
  /\ new.bytes = SizeOf(st.groups, LiveGroups(st.groups) \ keys) /\ new.bytes <= st.bytes
  /\ new.count = st.count /\ new.out = st.out

\* Groups that are given up take with them what they account for.
LEMMA ReleasedGood ==
  ASSUME NEW st, NEW heard, NEW now, FragGood(st, heard, now),
         NEW keys \in SUBSET LiveGroups(st.groups), NEW new, new = Released(st, keys)
  PROVE  FragGood(new, heard, now) /\ Without(new, st, keys)
  <1>. DEFINE old == st.groups
              live == LiveGroups(old)
              rest == [k \in FragKeys |-> IF k \in keys THEN Hole ELSE old[k]]
  <1>1. /\ st \in FragStates /\ old \in [FragKeys -> FragGroups \cup {Hole}] /\ st.bytes \in Nat
        /\ st.bytes = SizeOf(old, live)
    BY DEF FragGood, FragStates, Balanced
  <1>2. new.groups = rest /\ new.bytes = SatSub(st.bytes, SizeOf(old, keys)) /\ new.count = st.count /\ new.out = st.out
    BY <1>1 DEF Released, FragStates
  <1>3. rest \in [FragKeys -> FragGroups \cup {Hole}]
    BY <1>1
  <1>4. LiveGroups(rest) = live \ keys
    BY DEF LiveGroups
  <1>5. live \in SUBSET live /\ live \ keys \in SUBSET live
    OBVIOUS
  <1>6. /\ Weighed(old, live) /\ Weighed(old, keys) /\ Weighed(old, live \ keys)
        /\ SizeOf(old, keys) \in Nat /\ SizeOf(old, live \ keys) \in Nat
        /\ IsFiniteSet(live) /\ IsFiniteSet(keys)
    BY <1>1, <1>5, LiveWeighed
  <1>7. SizeOf(old, live) = SizeOf(old, keys) + SizeOf(old, live \ keys)
    <2>1. keys \in SUBSET live
      OBVIOUS
    <2>. HIDE DEF live, old
    <2>. QED BY <1>6, <2>1, SizeSplit
  <1>8. SatSub(st.bytes, SizeOf(old, keys)) = SizeOf(old, live \ keys)
    BY <1>1, <1>6, <1>7 DEF SatSub
  <1>9. SizeOf(rest, live \ keys) = SizeOf(old, live \ keys)
    <2>1. SameWeights(old, rest, live \ keys)
      BY DEF SameWeights, LiveGroups
    <2>. HIDE DEF rest, live, old
    <2>. QED BY <1>6, <2>1, SizeSame
  <1>10. Cardinality(live \ keys) = Cardinality(live) - Cardinality(keys)
    <2>1. live \cap keys = keys
      OBVIOUS
    <2>. QED BY <1>6, <2>1, FS_Difference
  <1>11. GroupsGood(rest, heard, now)
    <2>1. \A k \in live \ keys : rest[k] = old[k] /\ GroupGood(old[k], heard, now)
      BY DEF FragGood, GroupsGood, LiveGroups
    <2>. HIDE DEF rest, live, old
    <2>. QED BY <1>4, <2>1 DEF GroupsGood
  <1>12. new \in FragStates
    <2>1. SatSub(st.bytes, SizeOf(old, keys)) \in Nat
      BY <1>6, <1>8
    <2>. HIDE DEF rest
    <2>2. [st EXCEPT !.groups = rest, !.bytes = SatSub(st.bytes, SizeOf(old, keys))] \in FragStates
      BY <1>1, <1>3, <2>1 DEF FragStates
    <2>3. new = [st EXCEPT !.groups = rest, !.bytes = SatSub(st.bytes, SizeOf(old, keys))]
      BY DEF Released, rest
    <2>. QED BY <2>2, <2>3
  <1>13. FragGood(new, heard, now)
    <2>1. Balanced(new)
      BY <1>2, <1>4, <1>8, <1>9 DEF Balanced
    <2>2. OutGood(new.out, heard, now)
      BY <1>2 DEF FragGood
    <2>. QED BY <1>2, <1>11, <1>12, <2>1, <2>2 DEF FragGood
  <1>14. new.bytes = SizeOf(old, live \ keys) /\ new.bytes <= st.bytes
    <2>. HIDE DEF live, old, rest
    <2>. QED BY <1>1, <1>2, <1>6, <1>7, <1>8
  <1>15. Cardinality(LiveGroups(new.groups)) = Cardinality(live) - Cardinality(keys)
    BY <1>2, <1>4, <1>10
  <1>. QED BY <1>2, <1>4, <1>13, <1>14, <1>15, Zenon DEF Without

Outcomes(count) ==
  count["completed"] + count["truncated"] + count["missing"] + count["abandoned"] + count["capacity"]

LEMMA Bumped ==
  ASSUME NEW count \in [FragKinds -> Nat], NEW kind \in FragKinds, NEW n \in Nat
  PROVE  /\ Bump(count, kind, n) \in [FragKinds -> Nat] /\ Outcomes(count) \in Nat
         /\ Outcomes(Bump(count, kind, n)) =
              Outcomes(count) + IF kind \in {"completed", "truncated", "missing", "abandoned", "capacity"}
                                THEN n ELSE 0
  BY DEF Bump, Outcomes, FragKinds

\* A count of something else leaves the outcomes alone.
LEMMA BumpedOther ==
  ASSUME NEW count \in [FragKinds -> Nat], NEW n \in Nat,
         NEW kind \in FragKinds \ {"completed", "truncated", "missing", "abandoned", "capacity"}
  PROVE  Bump(count, kind, n) \in [FragKinds -> Nat] /\ Outcomes(Bump(count, kind, n)) = Outcomes(count)
  BY Bumped

LEMMA EverIs ==
  ASSUME NEW st, NEW heard, NEW now, FragGood(st, heard, now)
  PROVE  /\ Cardinality(LiveGroups(st.groups)) \in Nat /\ Outcomes(st.count) \in Nat
         /\ Ever(st) = Cardinality(LiveGroups(st.groups)) + Outcomes(st.count)
         /\ st.bytes \in Nat /\ st.count \in [FragKinds -> Nat]
         /\ st.groups \in [FragKeys -> FragGroups \cup {Hole}]
  <1>1. st.groups \in [FragKeys -> FragGroups \cup {Hole}] /\ st.count \in [FragKinds -> Nat] /\ st.bytes \in Nat
    BY DEF FragGood, FragStates
  <1>2. Cardinality(LiveGroups(st.groups)) \in Nat
    BY <1>1, LiveWeighed
  <1>3. \A k \in FragKinds : st.count[k] \in Nat
    BY <1>1
  <1>. QED BY <1>1, <1>2, <1>3 DEF Ever, Outcomes, FragKinds

LEMMA RecountedGood ==
  ASSUME NEW st, NEW heard, NEW now, FragGood(st, heard, now), NEW c \in [FragKinds -> Nat],
         NEW new, new = [st EXCEPT !.count = c]
  PROVE  /\ FragGood(new, heard, now) /\ new.count = c
         /\ new.groups = st.groups /\ new.bytes = st.bytes /\ new.out = st.out
  <1>1. st \in FragStates
    BY DEF FragGood
  <1>2. /\ new \in FragStates /\ new.count = c
        /\ new.groups = st.groups /\ new.bytes = st.bytes /\ new.out = st.out
    BY <1>1 DEF FragStates
  <1>. QED BY <1>2 DEF FragGood, Balanced

Answered(st, c, out) == [st EXCEPT !.count = c, !.out = out]

LEMMA AnsweredGood ==
  ASSUME NEW st, NEW heard, NEW now, FragGood(st, heard, now), NEW c \in [FragKinds -> Nat],
         NEW out \in FragOuts, OutGood(out, heard, now),
         NEW new, new = Answered(st, c, out)
  PROVE  /\ FragGood(new, heard, now) /\ new.count = c
         /\ new.groups = st.groups /\ new.bytes = st.bytes /\ new.out = out
  <1>1. st \in FragStates
    BY DEF FragGood
  <1>2. /\ new \in FragStates /\ new.count = c
        /\ new.groups = st.groups /\ new.bytes = st.bytes /\ new.out = out
    BY <1>1 DEF FragStates, Answered
  <1>. QED BY <1>2 DEF FragGood, Balanced

\* Groups of the one table are those of the other, some of which are gone.
Fewer(groups, others) == \A k \in FragKeys : groups[k] \in {Hole, others[k]}

\* Evictions bring the table under the ceilings and count every group they remove.
LEMMA EvictedGood ==
  ASSUME NEW st, NEW heard, NEW now, FragGood(st, heard, now),
         NEW maxGroups \in Nat, NEW maxBytes \in Nat,
         NEW new \in EvictedUntil(st, maxGroups, maxBytes)
  PROVE  /\ FragGood(new, heard, now) /\ Ever(new) = Ever(st)
         /\ Cardinality(LiveGroups(new.groups)) <= maxGroups /\ new.bytes <= maxBytes
         /\ new.out = st.out /\ Fewer(new.groups, st.groups)
  <1>. DEFINE live == LiveGroups(st.groups)
  <1>1. PICK gone \in Evictions(st.groups, live, st.bytes, maxGroups, maxBytes) :
          new = [Released(st, gone) EXCEPT !.count = Bump(@, "capacity", Cardinality(gone))]
    BY DEF EvictedUntil
  <1>2. Weighed(st.groups, live) /\ st.bytes = SizeOf(st.groups, live)
    BY EverIs, LiveWeighed DEF FragGood, Balanced
  <1>. HIDE DEF live
  <1>3. /\ gone \in SUBSET live /\ Cardinality(live \ gone) <= maxGroups
        /\ SizeOf(st.groups, live \ gone) <= maxBytes
    BY <1>2, EvictionsFit
  <1>. USE DEF live
  <1>4. Cardinality(gone) \in Nat
    BY <1>3, EverIs, LiveWeighed
  <1>. DEFINE mid == Released(st, gone)
              c == Bump(mid.count, "capacity", Cardinality(gone))
  <1>5. /\ FragGood(mid, heard, now)
        /\ mid.groups = [k \in FragKeys |-> IF k \in gone THEN Hole ELSE st.groups[k]]
        /\ LiveGroups(mid.groups) = live \ gone
        /\ Cardinality(LiveGroups(mid.groups)) = Cardinality(live) - Cardinality(gone)
        /\ mid.bytes = SizeOf(st.groups, live \ gone)
        /\ mid.count = st.count /\ mid.out = st.out
    <2>1. FragGood(mid, heard, now) /\ Without(mid, st, gone)
      BY <1>3, ReleasedGood
    <2>. HIDE DEF mid
    <2>. QED BY <2>1, Zenon DEF Without
  <1>6. new = [mid EXCEPT !.count = c]
    BY <1>1
  <1>. HIDE DEF mid
  <1>7. c \in [FragKinds -> Nat] /\ Outcomes(c) = Outcomes(st.count) + Cardinality(gone)
    BY <1>4, <1>5, EverIs, Bumped DEF FragKinds
  <1>. HIDE DEF c, live
  <1>8. /\ FragGood(new, heard, now) /\ new.count = c
        /\ new.groups = mid.groups /\ new.bytes = mid.bytes /\ new.out = mid.out
    BY <1>5, <1>6, <1>7, RecountedGood
  <1>9. Ever(new) = Ever(st)
    BY <1>4, <1>5, <1>7, <1>8, EverIs DEF live
  <1>10. Fewer(new.groups, st.groups)
    BY <1>5, <1>8 DEF Fewer
  <1>. QED BY <1>3, <1>5, <1>8, <1>9, <1>10

\* Under both ceilings.
Bounded(st) == Cardinality(LiveGroups(st.groups)) <= MaxGroups /\ st.bytes <= MaxFragBytes

LEMMA RoomGood ==
  ASSUME NEW st, NEW heard, NEW now, FragGood(st, heard, now), Bounded(st), NEW key \in FragKeys,
         NEW room \in RoomFor(st, key)
  PROVE  /\ FragGood(room, heard, now) /\ Bounded(room) /\ Ever(room) = Ever(st)
         /\ room.groups[key] = st.groups[key] /\ room.out = st.out /\ Fewer(room.groups, st.groups)
         /\ room.groups[key] = Hole => Cardinality(LiveGroups(room.groups)) < MaxGroups
  <1>1. CASE st.groups[key] = Hole /\ Cardinality(LiveGroups(st.groups)) >= MaxGroups
    <2>1. room \in EvictedUntil(st, MaxGroups - 1, MaxFragBytes) /\ MaxGroups - 1 \in Nat /\ MaxFragBytes \in Nat
      BY <1>1, FragConstants DEF RoomFor, SatSub
    <2>2. /\ FragGood(room, heard, now) /\ Ever(room) = Ever(st)
          /\ Cardinality(LiveGroups(room.groups)) <= MaxGroups - 1 /\ room.bytes <= MaxFragBytes
          /\ room.out = st.out /\ Fewer(room.groups, st.groups)
      BY <2>1, EvictedGood
    <2>3. Cardinality(LiveGroups(room.groups)) \in Nat
      BY <2>2, EverIs
    <2>4. room.groups[key] = Hole
      BY <1>1, <2>2 DEF Fewer
    <2>. QED BY <1>1, <2>2, <2>3, <2>4, FragConstants DEF Bounded
  <1>2. CASE ~(st.groups[key] = Hole /\ Cardinality(LiveGroups(st.groups)) >= MaxGroups)
    <2>1. room = st
      BY <1>2 DEF RoomFor
    <2>. QED BY <1>2, <2>1, FragConstants, EverIs DEF Fewer
  <1>. QED BY <1>1, <1>2

LEMMA LiveGroup ==
  ASSUME NEW st, NEW heard, NEW now, FragGood(st, heard, now), NEW key \in FragKeys, st.groups[key] # Hole
  PROVE  /\ st.groups[key] \in FragGroups /\ GroupGood(st.groups[key], heard, now)
         /\ key \in LiveGroups(st.groups)
  BY EverIs DEF FragGood, GroupsGood, LiveGroups

\* What a group holds when it is taken was captured within the timeout if the group
\* began within it.
LEMMA TakenOut ==
  ASSUME NEW g \in FragGroups, NEW heard, NEW now \in Nat, GroupGood(g, heard, now),
         now - g.first <= FragTimeout, NEW status \in {"completed", "truncated", "missing"},
         NEW out, out = TakenDatagram(g, status)
  PROVE  out \in FragOuts /\ OutGood(out, heard, now)
  <1>1. CASE g.header = Hole
    BY <1>1 DEF TakenDatagram, FragOuts, OutGood
  <1>2. CASE g.header # Hole
    <2>. DEFINE m == IF g.total = Hole THEN g.prefix ELSE Smaller(g.prefix, g.total)
    <2>1. /\ g.data \in Seq(Datagrams \cup {Hole}) /\ g.prefix \in Nat /\ g.first \in Nat
          /\ g.header \in Datagrams /\ g.total \in Nat \cup {Hole} /\ FragTimeout \in Nat
      BY <1>2, FragConstants DEF FragGroups
    <2>2. m \in Nat /\ m <= g.prefix
      BY <2>1 DEF Smaller
    <2>. HIDE DEF m
    <2>3. g.prefix <= Len(g.data) /\ Len(g.data) \in Nat
      BY <2>1 DEF GroupGood
    <2>4. out = [status |-> status, header |-> g.header, bytes |-> SubSeq(g.data, 1, m)]
      BY <1>2 DEF TakenDatagram, m
    <2>5. /\ SubSeq(g.data, 1, m) \in Seq(Datagrams \cup {Hole}) /\ Len(SubSeq(g.data, 1, m)) = m
          /\ \A i \in 1..m : SubSeq(g.data, 1, m)[i] = g.data[i]
      BY <2>1, <2>2, <2>3
    <2>6. out \in FragOuts
      BY <2>1, <2>4, <2>5 DEF FragOuts
    <2>7. \A i \in 1..m : HeardSince(heard, g.data[i], g.first) /\ i <= DatagramLen[g.data[i]]
      <3>1. \A i \in 1..m : i \in 1..g.prefix /\ i \in 1..Len(g.data)
        BY <2>1, <2>2, <2>3
      <3>2. \A i \in 1..m : Held(g.data, i)
        BY <3>1 DEF GroupGood
      <3>. QED BY <3>1, <3>2 DEF GroupGood
    <2>8. HeardSince(heard, g.header, g.first)
      BY <1>2 DEF GroupGood
    <2>9. ASSUME NEW d, HeardSince(heard, d, g.first) PROVE HeardSince(heard, d, now - FragTimeout)
      BY <2>1, <2>9 DEF HeardSince
    <2>. DEFINE h == g.header
                bytes == SubSeq(g.data, 1, m)
    <2>10. out.header = h /\ out.bytes = bytes
      <3>1. out = [status |-> status, header |-> h, bytes |-> bytes]
        BY <2>4
      <3>. HIDE DEF h, bytes
      <3>. QED BY <3>1
    <2>. QED BY <2>5, <2>6, <2>7, <2>8, <2>9, <2>10 DEF OutGood
  <1>. QED BY <1>1, <1>2

LEMMA StatusIs ==
  ASSUME NEW g
  PROVE  GroupStatus(g) \in {"completed", "truncated", "missing"}
  BY DEF GroupStatus

OneMore(c, count) == c \in [FragKinds -> Nat] /\ Outcomes(c) = Outcomes(count) + 1

OutFits(out, heard, now) == out \in FragOuts /\ OutGood(out, heard, now)

OneLess(new, st, key) ==
  /\ Ever(new) = Ever(st)
  /\ new.groups[key] = Hole /\ \A k \in FragKeys \ {key} : new.groups[k] = st.groups[k]
  /\ LiveGroups(new.groups) = LiveGroups(st.groups) \ {key}
  /\ new.bytes <= st.bytes
  /\ Cardinality(LiveGroups(new.groups)) = Cardinality(LiveGroups(st.groups)) - 1

\* One group less, and one outcome more.
LEMMA EndedGood ==
  ASSUME NEW st, NEW heard, NEW now, FragGood(st, heard, now), NEW key \in LiveGroups(st.groups),
         NEW c, OneMore(c, st.count), NEW out, OutFits(out, heard, now),
         NEW new, new = Answered(Released(st, {key}), c, out)
  PROVE  FragGood(new, heard, now) /\ OneLess(new, st, key) /\ new.out = out
  <1>. DEFINE mid == Released(st, {key})
  <1>1. FragGood(mid, heard, now) /\ Without(mid, st, {key})
    BY ReleasedGood
  <1>2. new = Answered(mid, c, out)
    OBVIOUS
  <1>. HIDE DEF mid
  <1>3. /\ FragGood(new, heard, now) /\ new.count = c
        /\ new.groups = mid.groups /\ new.bytes = mid.bytes /\ new.out = out
    BY <1>1, <1>2, AnsweredGood DEF OneMore, OutFits
  <1>4. Cardinality({key}) = 1
    BY FS_Singleton
  <1>5. /\ LiveGroups(new.groups) = LiveGroups(st.groups) \ {key} /\ new.bytes <= st.bytes
        /\ Cardinality(LiveGroups(new.groups)) = Cardinality(LiveGroups(st.groups)) - 1
    <2>1. LiveGroups(mid.groups) = LiveGroups(st.groups) \ {key} /\ mid.bytes <= st.bytes
      BY <1>1, Zenon DEF Without
    <2>2. Cardinality(LiveGroups(mid.groups)) = Cardinality(LiveGroups(st.groups)) - Cardinality({key})
      BY <1>1, Zenon DEF Without
    <2>. QED BY <1>3, <1>4, <2>1, <2>2
  <1>6. Ever(new) = Ever(st)
    <2>1. /\ Ever(new) = Cardinality(LiveGroups(new.groups)) + Outcomes(c)
          /\ Ever(st) = Cardinality(LiveGroups(st.groups)) + Outcomes(st.count)
          /\ Cardinality(LiveGroups(st.groups)) \in Nat /\ Outcomes(st.count) \in Nat
      BY <1>3, EverIs
    <2>. QED BY <1>5, <2>1 DEF OneMore
  <1>7. new.groups[key] = Hole /\ \A k \in FragKeys \ {key} : new.groups[k] = st.groups[k]
    BY <1>1, <1>3 DEF Without, LiveGroups
  <1>. QED BY <1>3, <1>5, <1>6, <1>7 DEF OneLess

LEMMA ExpiredGood ==
  ASSUME NEW st, NEW heard, NEW now, FragGood(st, heard, now), NEW key \in LiveGroups(st.groups),
         NEW new, new = Expired(st, key)
  PROVE  FragGood(new, heard, now) /\ OneLess(new, st, key) /\ new.out = Hole
  <1>. DEFINE status == GroupStatus(st.groups[key])
              mid == Released(st, {key})
              c == Bump(Bump(st.count, status, 1), "idle", 1)
  <1>1. FragGood(mid, heard, now) /\ Without(mid, st, {key})
    BY ReleasedGood
  <1>2. mid \in FragStates /\ mid.count = st.count
    BY <1>1 DEF FragGood, Without
  <1>3. c \in [FragKinds -> Nat] /\ Outcomes(c) = Outcomes(st.count) + 1
    <2>. HIDE DEF mid
    <2>1. status \in {"completed", "truncated", "missing"}
      BY StatusIs
    <2>. HIDE DEF status
    <2>2. /\ Bump(st.count, status, 1) \in [FragKinds -> Nat]
          /\ Outcomes(Bump(st.count, status, 1)) = Outcomes(st.count) + 1 /\ Outcomes(st.count) \in Nat
      <3>1. status \in FragKinds /\ status \in {"completed", "truncated", "missing", "abandoned", "capacity"}
        BY <2>1 DEF FragKinds
      <3>2. st.count \in [FragKinds -> Nat] /\ Outcomes(st.count) \in Nat /\ 1 \in Nat
        BY EverIs
      <3>. QED BY <3>1, <3>2, Bumped
    <2>. DEFINE b == Bump(st.count, status, 1)
    <2>. HIDE DEF b
    <2>3. b \in [FragKinds -> Nat] /\ Outcomes(b) = Outcomes(st.count) + 1
      BY <2>2 DEF b
    <2>4. Bump(b, "idle", 1) \in [FragKinds -> Nat] /\ Outcomes(Bump(b, "idle", 1)) = Outcomes(b) + 0
      BY <2>3, Bumped DEF FragKinds
    <2>. QED BY <2>2, <2>3, <2>4 DEF b
  <1>4. new = Answered(mid, c, Hole)
    <2>1. new = [[mid EXCEPT !.count = Bump(@, status, 1), !.out = TakenDatagram(st.groups[key], status)]
                   EXCEPT !.count = Bump(@, "idle", 1), !.out = Hole]
      BY DEF Expired, Taken
    <2>. DEFINE o == TakenDatagram(st.groups[key], status)
                b == Bump(st.count, status, 1)
                taken == [mid EXCEPT !.count = b, !.out = o]
    <2>2. taken = [mid EXCEPT !.count = Bump(@, status, 1), !.out = TakenDatagram(st.groups[key], status)]
      BY <1>2
    <2>. HIDE DEF o, b, mid
    <2>3. taken.count = b
      BY <1>2 DEF FragStates
    <2>4. new = [taken EXCEPT !.count = Bump(taken.count, "idle", 1), !.out = Hole]
      BY <2>1, <2>2 DEF taken, o, b, mid
    <2>5. new = [taken EXCEPT !.count = Bump(b, "idle", 1), !.out = Hole]
      BY <2>3, <2>4
    <2>6. c = Bump(b, "idle", 1)
      BY DEF b
    <2>. HIDE DEF c
    <2>. QED BY <1>2, <2>5, <2>6 DEF Answered, FragStates
  <1>5. Hole \in FragOuts /\ OutGood(Hole, heard, now)
    BY DEF FragOuts, OutGood
  <1>6. new = Answered(Released(st, {key}), c, Hole)
    BY <1>4
  <1>7. OneMore(c, st.count) /\ OutFits(Hole, heard, now)
    BY <1>3, <1>5, Zenon DEF OneMore, OutFits
  <1>. HIDE DEF c, mid
  <1>. QED BY <1>6, <1>7, EndedGood

\* A group put in the place of another, or of none.
LEMMA PutSize ==
  ASSUME NEW groups \in [FragKeys -> FragGroups \cup {Hole}], NEW key \in FragKeys, NEW h \in FragGroups,
         NEW new, new = [groups EXCEPT ![key] = h]
  PROVE  /\ new \in [FragKeys -> FragGroups \cup {Hole}] /\ new[key] = h
         /\ \A k \in FragKeys \ {key} : new[k] = groups[k]
         /\ LiveGroups(new) = LiveGroups(groups) \cup {key}
         /\ h.accounted \in Nat
         /\ groups[key] = Hole =>
              /\ SizeOf(new, LiveGroups(new)) = SizeOf(groups, LiveGroups(groups)) + h.accounted
              /\ Cardinality(LiveGroups(new)) = Cardinality(LiveGroups(groups)) + 1
         /\ groups[key] # Hole =>
              /\ groups[key].accounted \in Nat /\ SizeOf(groups, LiveGroups(groups)) >= groups[key].accounted
              /\ SizeOf(new, LiveGroups(new)) =
                   SizeOf(groups, LiveGroups(groups)) - groups[key].accounted + h.accounted
              /\ Cardinality(LiveGroups(new)) = Cardinality(LiveGroups(groups))
  <1>. DEFINE live == LiveGroups(groups)
              rest == live \ {key}
  <1>1. /\ new \in [FragKeys -> FragGroups \cup {Hole}] /\ new[key] = h
        /\ \A k \in FragKeys \ {key} : new[k] = groups[k]
    OBVIOUS
  <1>2. LiveGroups(new) = live \cup {key} /\ LiveGroups(new) \ {key} = rest /\ h # Hole
    BY <1>1, FragConstants DEF LiveGroups
  <1>3. h.accounted \in Nat
    BY DEF FragGroups
  <1>4. live \in SUBSET live /\ rest \in SUBSET live /\ LiveGroups(new) \in SUBSET LiveGroups(new)
    BY <1>2
  <1>5. /\ Weighed(groups, live) /\ Weighed(groups, rest) /\ SizeOf(groups, rest) \in Nat
        /\ IsFiniteSet(live) /\ Cardinality(live) \in Nat /\ SizeOf(groups, live) \in Nat
    BY <1>4, LiveWeighed
  <1>6. Weighed(new, LiveGroups(new))
    BY <1>1, <1>4, LiveWeighed
  <1>7. SizeOf(new, LiveGroups(new)) = h.accounted + SizeOf(new, rest)
    <2>. DEFINE all == LiveGroups(new)
    <2>1. key \in all /\ Weighed(new, all)
      BY <1>2, <1>6
    <2>2. SizeOf(new, all) = new[key].accounted + SizeOf(new, all \ {key})
      <3>. HIDE DEF all
      <3>. QED BY <2>1, SizeWithout
    <2>. HIDE DEF rest, live
    <2>. QED BY <1>1, <1>2, <2>2
  <1>9. SizeOf(new, rest) = SizeOf(groups, rest)
    <2>1. SameWeights(groups, new, rest)
      BY <1>1 DEF SameWeights, LiveGroups
    <2>. HIDE DEF rest
    <2>. QED BY <1>5, <2>1, SizeSame
  <1>10. SizeOf(new, LiveGroups(new)) = h.accounted + SizeOf(groups, rest)
    BY <1>7, <1>9
  <1>11. Cardinality(LiveGroups(new)) = IF key \in live THEN Cardinality(live) ELSE Cardinality(live) + 1
    <2>. HIDE DEF live
    <2>. QED BY <1>2, <1>5, FS_AddElement
  <1>12. CASE groups[key] = Hole
    <2>1. key \notin live /\ rest = live
      BY <1>12 DEF LiveGroups
    <2>. HIDE DEF live, rest
    <2>2. SizeOf(new, LiveGroups(new)) = SizeOf(groups, live) + h.accounted
      BY <1>3, <1>5, <1>10, <2>1
    <2>. QED BY <1>1, <1>2, <1>3, <1>11, <1>12, <2>1, <2>2 DEF live
  <1>13. CASE groups[key] # Hole
    <2>1. key \in live /\ groups[key] \in FragGroups
      BY <1>13 DEF LiveGroups
    <2>2. groups[key].accounted \in Nat
      BY <2>1 DEF FragGroups
    <2>3. SizeOf(groups, live) = groups[key].accounted + SizeOf(groups, rest)
      <3>. HIDE DEF live
      <3>. QED BY <1>5, <2>1, SizeWithout
    <2>. HIDE DEF live, rest
    <2>5. /\ SizeOf(new, LiveGroups(new)) = SizeOf(groups, live) - groups[key].accounted + h.accounted
          /\ SizeOf(groups, live) >= groups[key].accounted
      BY <1>3, <1>5, <1>10, <2>2, <2>3
    <2>. QED BY <1>1, <1>2, <1>3, <1>11, <1>13, <2>1, <2>2, <2>5 DEF live
  <1>. QED BY <1>12, <1>13

\* A good group put in its place leaves a good table, if the account is kept.
LEMMA PutGood ==
  ASSUME NEW st, NEW heard, NEW now, FragGood(st, heard, now), NEW key \in FragKeys, NEW h \in FragGroups,
         GroupGood(h, heard, now), NEW new, new.groups = [st.groups EXCEPT ![key] = h],
         new \in FragStates, Balanced(new), new.out = st.out
  PROVE  FragGood(new, heard, now)
  <1>1. st.groups \in [FragKeys -> FragGroups \cup {Hole}]
    BY EverIs
  <1>2. /\ \A k \in FragKeys \ {key} : new.groups[k] = st.groups[k]
        /\ new.groups[key] = h /\ LiveGroups(new.groups) = LiveGroups(st.groups) \cup {key}
    BY <1>1, PutSize
  <1>3. ASSUME NEW k \in LiveGroups(new.groups) PROVE GroupGood(new.groups[k], heard, now)
    <2>1. CASE k = key
      BY <1>2, <2>1
    <2>2. CASE k # key
      <3>1. k \in LiveGroups(st.groups) /\ k \in FragKeys
        BY <1>2, <2>2 DEF LiveGroups
      <3>. QED BY <1>2, <2>2, <3>1 DEF FragGood, GroupsGood
    <2>. QED BY <2>1, <2>2
  <1>. QED BY <1>3 DEF FragGood, GroupsGood

LEMMA NewGroupGood ==
  ASSUME NEW now \in Nat, NEW heard
  PROVE  /\ NewGroup(now) \in FragGroups /\ GroupGood(NewGroup(now), heard, now)
         /\ NewGroup(now).accounted = 0 /\ NewGroup(now).first = now
  <1>1. <<>> \in Seq(Datagrams \cup {Hole}) /\ Len(<<>>) = 0
    OBVIOUS
  <1>2. NewGroup(now) \in FragGroups
    BY <1>1 DEF NewGroup, FragGroups
  <1>3. /\ NewGroup(now).data = <<>> /\ NewGroup(now).prefix = 0 /\ NewGroup(now).header = Hole
        /\ NewGroup(now).accounted = 0 /\ NewGroup(now).first = now /\ NewGroup(now).last = now
    BY DEF NewGroup
  <1>. QED BY <1>1, <1>2, <1>3 DEF GroupGood

SeenNow(g, now) == [g EXCEPT !.last = now]

LEMMA SeenGood ==
  ASSUME NEW g \in FragGroups, NEW now \in Nat, NEW heard, GroupGood(g, heard, now)
  PROVE  /\ SeenNow(g, now) \in FragGroups /\ GroupGood(SeenNow(g, now), heard, now)
         /\ SeenNow(g, now).accounted = g.accounted /\ SeenNow(g, now).first = g.first
         /\ SeenNow(g, now).data = g.data /\ SeenNow(g, now).header = g.header
         /\ SeenNow(g, now).total = g.total /\ SeenNow(g, now).last = now
  <1>. DEFINE h == SeenNow(g, now)
  <1>1. h \in FragGroups
    BY DEF FragGroups, SeenNow
  <1>2. /\ h.data = g.data /\ h.prefix = g.prefix /\ h.header = g.header /\ h.accounted = g.accounted
        /\ h.first = g.first /\ h.last = now /\ h.total = g.total
    BY DEF FragGroups, SeenNow
  <1>3. g.first \in Nat /\ g.last \in Nat
    BY DEF FragGroups
  <1>. HIDE DEF h
  <1>4. GroupGood(h, heard, now)
    BY <1>2, <1>3 DEF GroupGood
  <1>. QED BY <1>1, <1>2, <1>4 DEF h

\* Whether the fragment begins a group.
Begins(st, key, now) == st.groups[key] = Hole \/ GroupExpired(st.groups[key], now)

\* The entry a fragment is put in: it began within the timeout, and it is the one that
\* was there unless that had expired.
LEMMA EnteredGood ==
  ASSUME NEW st, NEW heard, NEW now \in Nat, FragGood(st, heard, now), Bounded(st), st.out = Hole,
         NEW key \in FragKeys, st.groups[key] = Hole => Cardinality(LiveGroups(st.groups)) < MaxGroups,
         NEW new, new = Entered(st, key, now)
  PROVE  /\ FragGood(new, heard, now) /\ Bounded(new) /\ new.out = Hole
         /\ Ever(new) = Ever(st) + (IF Begins(st, key, now) THEN 1 ELSE 0)
         /\ new.groups[key] # Hole /\ now - new.groups[key].first <= FragTimeout
         /\ \A k \in FragKeys \ {key} : new.groups[k] = st.groups[k]
         /\ ~Begins(st, key, now) => new.groups[key] = SeenNow(st.groups[key], now)
  <1>. DEFINE old == IF st.groups[key] # Hole /\ GroupExpired(st.groups[key], now)
                     THEN Expired(st, key) ELSE st
              g == IF old.groups[key] = Hole THEN NewGroup(now) ELSE old.groups[key]
              h == SeenNow(g, now)
  <1>1. new = [old EXCEPT !.groups = [@ EXCEPT ![key] = h]]
    BY DEF Entered, SeenNow
  <1>2. /\ FragGood(old, heard, now) /\ Bounded(old) /\ old.out = Hole /\ Ever(old) = Ever(st)
        /\ old.groups[key] = Hole => Cardinality(LiveGroups(old.groups)) < MaxGroups
        /\ \A k \in FragKeys \ {key} : old.groups[k] = st.groups[k]
        /\ old.groups[key] = IF Begins(st, key, now) THEN Hole ELSE st.groups[key]
    <2>1. CASE st.groups[key] # Hole /\ GroupExpired(st.groups[key], now)
      <3>1. old = Expired(st, key) /\ key \in LiveGroups(st.groups)
        BY <2>1, LiveGroup
      <3>. HIDE DEF old
      <3>2. FragGood(old, heard, now) /\ OneLess(old, st, key) /\ old.out = Hole
        BY <3>1, ExpiredGood
      <3>3. /\ Ever(old) = Ever(st) /\ old.groups[key] = Hole
            /\ \A k \in FragKeys \ {key} : old.groups[k] = st.groups[k]
            /\ old.bytes <= st.bytes
            /\ Cardinality(LiveGroups(old.groups)) = Cardinality(LiveGroups(st.groups)) - 1
        BY <3>2 DEF OneLess
      <3>4. /\ Cardinality(LiveGroups(st.groups)) \in Nat /\ st.bytes \in Nat /\ old.bytes \in Nat
            /\ Cardinality(LiveGroups(st.groups)) <= MaxGroups /\ st.bytes <= MaxFragBytes
        BY <3>2, EverIs DEF Bounded
      <3>5. Bounded(old) /\ Cardinality(LiveGroups(old.groups)) < MaxGroups
        BY <3>3, <3>4, FragConstants DEF Bounded
      <3>. QED BY <2>1, <3>2, <3>3, <3>5 DEF Begins
    <2>2. CASE ~(st.groups[key] # Hole /\ GroupExpired(st.groups[key], now))
      <3>1. old = st
        BY <2>2
      <3>. HIDE DEF old
      <3>. QED BY <2>2, <3>1 DEF Begins
    <2>. QED BY <2>1, <2>2
  <1>. HIDE DEF old
  <1>3. g \in FragGroups /\ GroupGood(g, heard, now)
    <2>1. CASE old.groups[key] = Hole
      BY <2>1, NewGroupGood
    <2>2. CASE old.groups[key] # Hole
      BY <1>2, <2>2, LiveGroup
    <2>. QED BY <2>1, <2>2
  <1>4. now - g.first <= FragTimeout
    <2>1. CASE old.groups[key] = Hole
      BY <2>1, NewGroupGood, FragConstants
    <2>2. CASE old.groups[key] # Hole
      <3>1. g = st.groups[key] /\ ~GroupExpired(st.groups[key], now)
        BY <1>2, <2>2 DEF Begins
      <3>2. g.first \in Nat
        BY <1>3 DEF FragGroups
      <3>. HIDE DEF g
      <3>. QED BY <3>1, <3>2, FragConstants DEF GroupExpired, SatSub
    <2>. QED BY <2>1, <2>2
  <1>5. g.accounted = IF old.groups[key] = Hole THEN 0 ELSE old.groups[key].accounted
    BY NewGroupGood
  <1>6. ~Begins(st, key, now) => g = st.groups[key]
    BY <1>2 DEF Begins
  <1>. HIDE DEF g
  <1>7. h \in FragGroups /\ GroupGood(h, heard, now) /\ h.accounted = g.accounted /\ h.first = g.first
    BY <1>3, SeenGood
  <1>8. ~Begins(st, key, now) => h = SeenNow(st.groups[key], now)
    BY <1>6
  <1>. HIDE DEF h
  <1>9. /\ old \in FragStates /\ old.groups \in [FragKeys -> FragGroups \cup {Hole}] /\ old.bytes \in Nat
        /\ old.bytes = SizeOf(old.groups, LiveGroups(old.groups))
    BY <1>2, EverIs DEF FragGood, Balanced
  <1>10. /\ new.groups = [old.groups EXCEPT ![key] = h] /\ new.bytes = old.bytes
         /\ new.count = old.count /\ new.out = old.out
    BY <1>1, <1>9 DEF FragStates
  <1>11. new \in FragStates
    <2>. DEFINE p == [old.groups EXCEPT ![key] = h]
    <2>1. new = [old EXCEPT !.groups = p] /\ p \in [FragKeys -> FragGroups \cup {Hole}]
      BY <1>1, <1>7, <1>9
    <2>. HIDE DEF p
    <2>. QED BY <1>9, <2>1 DEF FragStates
  <1>12. /\ new.groups[key] = h /\ \A k \in FragKeys \ {key} : new.groups[k] = old.groups[k]
         /\ SizeOf(new.groups, LiveGroups(new.groups)) = SizeOf(old.groups, LiveGroups(old.groups))
         /\ Cardinality(LiveGroups(new.groups)) =
              Cardinality(LiveGroups(old.groups)) + (IF Begins(st, key, now) THEN 1 ELSE 0)
    <2>1. old.groups[key] = Hole <=> Begins(st, key, now)
      BY <1>2 DEF Begins
    <2>2. /\ SizeOf(old.groups, LiveGroups(old.groups)) \in Nat
          /\ Cardinality(LiveGroups(old.groups)) \in Nat
      BY <1>2, <1>9, EverIs
    <2>. QED BY <1>5, <1>7, <1>9, <1>10, <2>1, <2>2, PutSize
  <1>13. Balanced(new)
    BY <1>9, <1>10, <1>12 DEF Balanced
  <1>14. FragGood(new, heard, now)
    BY <1>2, <1>7, <1>10, <1>11, <1>13, PutGood
  <1>15. Ever(new) = Ever(st) + (IF Begins(st, key, now) THEN 1 ELSE 0)
    BY <1>2, <1>10, <1>12, <1>14, EverIs
  <1>16. Bounded(new)
    <2>1. Cardinality(LiveGroups(old.groups)) \in Nat
      BY <1>2, EverIs
    <2>2. old.groups[key] = Hole <=> Begins(st, key, now)
      BY <1>2 DEF Begins
    <2>. QED BY <1>2, <1>10, <1>12, <2>1, <2>2, FragConstants DEF Bounded
  <1>. QED BY <1>2, <1>4, <1>7, <1>8, <1>10, <1>12, <1>14, <1>15, <1>16, FragConstants

\* What a group keeps of what it held.
Keeps(g, h) ==
  /\ \A i \in 1..Len(g.data) : Held(g.data, i) => Held(h.data, i) /\ h.data[i] = g.data[i]
  /\ g.header # Hole => h.header = g.header
  /\ g.total # Hole => h.total = g.total

IsFragment(f, d, offset, n, cut) ==
  /\ f.from = d /\ f.offset = offset /\ f.declared = n /\ f.payload \in Seq(Datagrams)
  /\ Len(f.payload) = n - cut /\ \A i \in 1..n - cut : f.payload[i] = d

LEMMA FragmentIs ==
  ASSUME NEW d \in Datagrams, NEW offset \in Nat, NEW n \in Nat, NEW cut \in Nat, cut < n,
         NEW f, f = Fragment(d, offset, n, cut)
  PROVE  IsFragment(f, d, offset, n, cut)
  <1>. DEFINE p == [i \in 1..n - cut |-> d]
              more == offset + n < DatagramLen[d]
  <1>1. n - cut \in Nat /\ p \in [1..n - cut -> Datagrams]
    OBVIOUS
  <1>2. p \in Seq(Datagrams) /\ Len(p) = n - cut /\ \A i \in 1..n - cut : p[i] = d
    BY <1>1
  <1>4. f = [from |-> d, offset |-> offset, declared |-> n, payload |-> p, more |-> more]
    BY DEF Fragment
  <1>. HIDE DEF p, more
  <1>5. f.from = d /\ f.offset = offset /\ f.declared = n /\ f.payload = p
    BY <1>4
  <1>. QED BY <1>2, <1>5 DEF IsFragment

\* A fragment of a datagram heard now joins the group.
LEMMA JoinedGood ==
  ASSUME NEW g \in FragGroups, NEW heard, NEW now \in Nat, GroupGood(g, heard, now),
         NEW d \in Datagrams, heard[d] = now, NEW offset \in Nat, NEW n \in Nat, NEW cut \in Nat, cut < n,
         offset + n <= DatagramLen[d], NEW f, IsFragment(f, d, offset, n, cut), NEW j, j = Joined(g, f)
  PROVE  /\ j \in FragGroups /\ GroupGood(j, heard, now) /\ j.first = g.first
         /\ ~EndConflicts(g, f) => Keeps(g, j)
  <1>. DEFINE data == WriteFirstSeen(g.data, f.offset, f.payload, MaxGroupBytes)
              cap == VecGrow(g.cap, Len(data))
              hole == f.offset + Len(f.payload)
              prefix == ContiguousFrom(data, g.prefix)
              header == IF f.offset = 0 /\ g.header = Hole THEN f.from ELSE g.header
              short == IF Len(f.payload) >= f.declared THEN g.short
                       ELSE IF g.short = Hole THEN hole ELSE Smaller(g.short, hole)
              total == IF f.more THEN g.total ELSE f.offset + f.declared
              twice == 2 * cap
  <1>1. /\ f.from = d /\ f.offset = offset /\ f.declared = n /\ f.payload \in Seq(Datagrams)
        /\ Len(f.payload) = n - cut /\ \A i \in 1..n - cut : f.payload[i] = d
    BY DEF IsFragment
  <1>2. /\ g.data \in Seq(Datagrams \cup {Hole}) /\ g.cap \in Nat /\ g.prefix \in Nat
        /\ g.total \in Nat \cup {Hole} /\ g.header \in Datagrams \cup {Hole} /\ g.short \in Nat \cup {Hole}
        /\ g.first \in Nat /\ g.last \in Nat
    BY DEF FragGroups
  <1>3. MaxGroupBytes \in Nat
    BY FragConstants
  <1>4. /\ data \in Seq(Datagrams \cup {Hole}) /\ Len(data) >= Len(g.data)
        /\ \A i \in 1..Len(g.data) : Held(g.data, i) => Held(data, i) /\ data[i] = g.data[i]
        /\ \A i \in 1..Len(data) : Held(data, i) /\ ~Held(g.data, i) =>
             i \in offset+1..offset+Len(f.payload) /\ data[i] = f.payload[i - offset]
    <2>. HIDE DEF data
    <2>1. data = WriteFirstSeen(g.data, offset, f.payload, MaxGroupBytes)
      BY <1>1 DEF data
    <2>2. data \in Seq(Datagrams \cup {Hole}) /\ Writes(data, g.data, offset, f.payload, MaxGroupBytes)
      BY <1>1, <1>2, <1>3, <2>1, WriteKeeps
    <2>. QED BY <2>2 DEF Writes
  <1>. HIDE DEF data
  <1>5. Len(data) \in Nat /\ Len(g.data) \in Nat /\ Len(f.payload) \in Nat
    BY <1>1, <1>2, <1>4
  <1>6. cap \in Nat /\ twice \in Nat
    <2>1. cap \in Nat
      BY <1>2, <1>5 DEF VecGrow, Larger
    <2>. HIDE DEF cap
    <2>. QED BY <2>1
  <1>7. g.prefix <= Len(data) /\ \A i \in 1..g.prefix : Held(data, i)
    BY <1>2, <1>4, <1>5 DEF GroupGood
  <1>8. prefix \in Nat /\ prefix <= Len(data) /\ \A i \in 1..prefix : Held(data, i)
    BY <1>2, <1>4, <1>7, ContiguousIsRun
  <1>9. header \in Datagrams \cup {Hole}
    BY <1>1, <1>2
  <1>10. short \in Nat \cup {Hole}
    BY <1>1, <1>2, <1>5 DEF Smaller
  <1>11. total \in Nat \cup {Hole}
    BY <1>1, <1>2
  <1>12. j = [g EXCEPT !.data = data, !.cap = cap, !.accounted = twice, !.prefix = prefix,
                       !.header = header, !.short = short, !.total = total]
    BY DEF Joined, data
  <1>13. ~EndConflicts(g, f) /\ g.total # Hole => total = g.total
    BY <1>1 DEF EndConflicts
  <1>14. g.header # Hole => header = g.header
    OBVIOUS
  <1>15. header # Hole => header = g.header \/ header = d
    BY <1>1
  <1>. HIDE DEF cap, prefix, header, short, total, twice
  <1>16. /\ j.data = data /\ j.prefix = prefix /\ j.header = header /\ j.total = total
         /\ j.first = g.first /\ j.last = g.last
    BY <1>12 DEF FragGroups
  <1>17. j \in FragGroups
    BY <1>4, <1>6, <1>8, <1>9, <1>10, <1>11, <1>12 DEF FragGroups
  <1>18. HeardSince(heard, d, g.first)
    BY <1>2 DEF HeardSince, GroupGood
  <1>19. ASSUME NEW i \in 1..Len(data), Held(data, i)
         PROVE  HeardSince(heard, data[i], g.first) /\ i <= DatagramLen[data[i]]
    <2>1. CASE Held(g.data, i)
      <3>1. i \in 1..Len(g.data) /\ data[i] = g.data[i]
        BY <1>4, <2>1 DEF Held
      <3>. QED BY <2>1, <3>1 DEF GroupGood
    <2>2. CASE ~Held(g.data, i)
      <3>1. i \in offset+1..offset+Len(f.payload) /\ data[i] = f.payload[i - offset]
        BY <1>4, <1>19, <2>2
      <3>2. i - offset \in 1..n - cut /\ i <= offset + n
        BY <1>1, <3>1
      <3>3. data[i] = d /\ DatagramLen[d] \in Nat
        BY <1>1, <3>1, <3>2, FragConstants
      <3>. QED BY <1>18, <3>2, <3>3
    <2>. QED BY <2>1, <2>2
  <1>20. header # Hole => HeardSince(heard, header, g.first)
    BY <1>15, <1>18 DEF GroupGood
  <1>21. g.first <= g.last /\ g.last <= now
    BY DEF GroupGood
  <1>22. GroupGood(j, heard, now)
    BY <1>8, <1>16, <1>19, <1>20, <1>21 DEF GroupGood
  <1>23. ~EndConflicts(g, f) => Keeps(g, j)
    BY <1>4, <1>13, <1>14, <1>16 DEF Keeps
  <1>. QED BY <1>16, <1>17, <1>22, <1>23

\* f is a fragment of a datagram that is heard now.
Feeds(f, heard, now) ==
  \E d \in Datagrams, offset \in Nat, n \in Nat, cut \in Nat :
    /\ cut < n /\ offset + n <= DatagramLen[d] /\ heard[d] = now
    /\ f = Fragment(d, offset, n, cut)

LEMMA JoinedFeed ==
  ASSUME NEW g \in FragGroups, NEW heard, NEW now \in Nat, GroupGood(g, heard, now),
         NEW f, Feeds(f, heard, now), NEW j, j = Joined(g, f)
  PROVE  /\ j \in FragGroups /\ GroupGood(j, heard, now) /\ j.first = g.first
         /\ ~EndConflicts(g, f) => Keeps(g, j)
         /\ f.offset \in Nat /\ f.payload \in Seq(Datagrams)
  <1>1. PICK d \in Datagrams, offset \in Nat, n \in Nat, cut \in Nat :
          /\ cut < n /\ offset + n <= DatagramLen[d] /\ heard[d] = now
          /\ f = Fragment(d, offset, n, cut)
    BY DEF Feeds
  <1>2. IsFragment(f, d, offset, n, cut)
    BY <1>1, FragmentIs
  <1>3. f.offset \in Nat /\ f.payload \in Seq(Datagrams)
    BY <1>2 DEF IsFragment
  <1>. QED BY <1>1, <1>2, <1>3, JoinedGood

LEMMA ConflictsCounted ==
  ASSUME NEW S, NEW data, NEW offset \in Nat, NEW bytes \in Seq(S), NEW cap \in Nat
  PROVE  Cardinality(Conflicts(data, offset, bytes, cap)) \in Nat
  <1>1. UsableEnd(offset, bytes, cap) \in Nat
    BY DEF UsableEnd, Smaller
  <1>. DEFINE I == offset+1..UsableEnd(offset, bytes, cap)
  <1>2. IsFiniteSet(I)
    BY <1>1, FS_Interval
  <1>3. Conflicts(data, offset, bytes, cap) \in SUBSET I
    BY DEF Conflicts
  <1>. HIDE DEF I
  <1>. QED BY <1>2, <1>3, FS_Subset, FS_CardinalityType

LEMMA WrittenGood ==
  ASSUME NEW st, NEW heard, NEW now \in Nat, FragGood(st, heard, now), NEW key \in FragKeys,
         st.groups[key] # Hole, NEW f, Feeds(f, heard, now), NEW new, new = Written(st, key, f)
  PROVE  /\ FragGood(new, heard, now) /\ Ever(new) = Ever(st) /\ new.out = st.out
         /\ new.groups[key] = Joined(st.groups[key], f)
         /\ \A k \in FragKeys \ {key} : new.groups[k] = st.groups[k]
  <1>. DEFINE g == st.groups[key]
              j == Joined(g, f)
              p == [st.groups EXCEPT ![key] = j]
              b == SatSub(st.bytes + j.accounted, g.accounted)
              c == Bump(st.count, "conflictingBytes",
                        Cardinality(Conflicts(g.data, f.offset, f.payload, MaxGroupBytes)))
  <1>1. g \in FragGroups /\ GroupGood(g, heard, now)
    BY LiveGroup
  <1>. HIDE DEF g
  <1>2. j \in FragGroups /\ GroupGood(j, heard, now) /\ f.offset \in Nat /\ f.payload \in Seq(Datagrams)
    BY <1>1, JoinedFeed
  <1>. HIDE DEF j
  <1>3. /\ st \in FragStates /\ st.groups \in [FragKeys -> FragGroups \cup {Hole}] /\ st.bytes \in Nat
        /\ st.count \in [FragKinds -> Nat] /\ st.bytes = SizeOf(st.groups, LiveGroups(st.groups))
    BY EverIs DEF FragGood, Balanced
  <1>4. /\ p \in [FragKeys -> FragGroups \cup {Hole}] /\ p[key] = j
        /\ \A k \in FragKeys \ {key} : p[k] = st.groups[k] /\ j.accounted \in Nat
        /\ g.accounted \in Nat /\ st.bytes >= g.accounted
        /\ SizeOf(p, LiveGroups(p)) = st.bytes - g.accounted + j.accounted
        /\ Cardinality(LiveGroups(p)) = Cardinality(LiveGroups(st.groups))
    <2>. HIDE DEF p
    <2>1. p = [st.groups EXCEPT ![key] = j]
      BY DEF p
    <2>. QED BY <1>2, <1>3, <2>1, PutSize DEF g
  <1>5. j.accounted \in Nat
    BY <1>2 DEF FragGroups
  <1>6. b = SizeOf(p, LiveGroups(p)) /\ b \in Nat
    BY <1>3, <1>4, <1>5 DEF SatSub
  <1>7. c \in [FragKinds -> Nat] /\ Outcomes(c) = Outcomes(st.count)
    <2>. DEFINE m == Cardinality(Conflicts(g.data, f.offset, f.payload, MaxGroupBytes))
                kind == "conflictingBytes"
    <2>1. m \in Nat
      BY <1>2, FragConstants, ConflictsCounted
    <2>2. kind \in FragKinds \ {"completed", "truncated", "missing", "abandoned", "capacity"}
      BY DEF FragKinds
    <2>3. c = Bump(st.count, kind, m) /\ st.count \in [FragKinds -> Nat]
      BY <1>3
    <2>. HIDE DEF m, kind, c
    <2>4. Bump(st.count, kind, m) \in [FragKinds -> Nat] /\ Outcomes(Bump(st.count, kind, m)) = Outcomes(st.count)
      BY <2>1, <2>2, <2>3, BumpedOther
    <2>. QED BY <2>3, <2>4
  <1>8. new = [st EXCEPT !.groups = p, !.bytes = b, !.count = c]
    BY <1>3 DEF Written, g, j
  <1>9. p = [st.groups EXCEPT ![key] = j]
    OBVIOUS
  <1>. HIDE DEF p, b, c
  <1>10. new.groups = p /\ new.bytes = b /\ new.count = c /\ new.out = st.out
    BY <1>3, <1>8 DEF FragStates
  <1>11. new \in FragStates
    BY <1>3, <1>4, <1>6, <1>7, <1>8 DEF FragStates
  <1>12. Balanced(new)
    BY <1>6, <1>10 DEF Balanced
  <1>13. FragGood(new, heard, now)
    BY <1>2, <1>9, <1>10, <1>11, <1>12, PutGood
  <1>14. Ever(new) = Ever(st)
    BY <1>4, <1>7, <1>10, <1>13, EverIs
  <1>. QED BY <1>4, <1>10, <1>13, <1>14 DEF g, j

LEMMA SettledGood ==
  ASSUME NEW st, NEW heard, NEW now \in Nat, FragGood(st, heard, now), NEW key \in FragKeys,
         st.groups[key] # Hole, now - st.groups[key].first <= FragTimeout, NEW f,
         NEW new, new = Settled(st, key, f)
  PROVE  FragGood(new, heard, now) /\ Ever(new) = Ever(st) /\ Fewer(new.groups, st.groups)
  <1>. DEFINE status == GroupStatus(st.groups[key])
              mid == Released(st, {key})
  <1>1. /\ st.groups[key] \in FragGroups /\ GroupGood(st.groups[key], heard, now)
        /\ key \in LiveGroups(st.groups) /\ st.count \in [FragKinds -> Nat] /\ Outcomes(st.count) \in Nat
    BY LiveGroup, EverIs
  <1>2. mid \in FragStates /\ mid.count = st.count /\ FragGood(mid, heard, now) /\ mid.out = st.out
    <2>1. FragGood(mid, heard, now) /\ Without(mid, st, {key})
      BY <1>1, ReleasedGood
    <2>. HIDE DEF mid
    <2>. QED BY <2>1, Zenon DEF FragGood, Without
  <1>3. status \in {"completed", "truncated", "missing"}
    BY StatusIs
  <1>4. CASE status # "missing"
    <2>. DEFINE out == TakenDatagram(st.groups[key], status)
                c == Bump(st.count, status, 1)
    <2>1. OutFits(out, heard, now)
      <3>. HIDE DEF status
      <3>. QED BY <1>1, <1>3, TakenOut DEF OutFits
    <2>2. OneMore(c, st.count)
      <3>. HIDE DEF status
      <3>1. status \in FragKinds /\ status \in {"completed", "truncated", "missing", "abandoned", "capacity"}
        BY <1>3 DEF FragKinds
      <3>. QED BY <1>1, <3>1, Bumped DEF OneMore
    <2>3. new = Answered(mid, c, out)
      BY <1>2, <1>4 DEF Settled, Taken, Answered
    <2>4. new = Answered(Released(st, {key}), c, out)
      BY <2>3
    <2>. HIDE DEF c, out, status, mid
    <2>5. FragGood(new, heard, now) /\ OneLess(new, st, key)
      BY <1>1, <2>1, <2>2, <2>4, EndedGood
    <2>. QED BY <2>5 DEF OneLess, Fewer
  <1>5. CASE status = "missing" /\ HitsCap(f.offset, f.payload, MaxGroupBytes)
    <2>. DEFINE c == Bump(st.count, "abandoned", 1)
    <2>1. OneMore(c, st.count)
      <3>1. "abandoned" \in FragKinds
        BY DEF FragKinds
      <3>. QED BY <1>1, <3>1, Bumped DEF OneMore
    <2>2. new = [mid EXCEPT !.count = c]
      BY <1>2, <1>5 DEF Settled
    <2>. HIDE DEF mid, c, status
    <2>3. new = Answered(mid, c, st.out)
      BY <1>2, <2>2 DEF Answered, FragStates
    <2>4. new = Answered(Released(st, {key}), c, st.out)
      BY <2>3 DEF mid
    <2>5. OutFits(st.out, heard, now)
      BY DEF FragGood, FragStates, OutFits
    <2>6. FragGood(new, heard, now) /\ OneLess(new, st, key)
      BY <1>1, <2>1, <2>4, <2>5, EndedGood
    <2>. QED BY <2>6 DEF OneLess, Fewer
  <1>6. CASE status = "missing" /\ ~HitsCap(f.offset, f.payload, MaxGroupBytes)
    <2>1. new = st
      BY <1>6 DEF Settled
    <2>. QED BY <2>1 DEF Fewer
  <1>. QED BY <1>4, <1>5, <1>6

\* What a step keeps of the groups that are not expired.
KeepsGroups(groups, new, now) ==
  \A k \in FragKeys :
    groups[k] # Hole /\ new[k] # Hole /\ ~GroupExpired(groups[k], now) => Keeps(groups[k], new[k])

LEMMA FewerKeeps ==
  ASSUME NEW groups, NEW mid, NEW new, NEW now, KeepsGroups(groups, mid, now), Fewer(new, mid)
  PROVE  KeepsGroups(groups, new, now)
  <1>. SUFFICES ASSUME NEW k \in FragKeys, groups[k] # Hole, new[k] # Hole, ~GroupExpired(groups[k], now)
                PROVE  Keeps(groups[k], new[k])
    BY DEF KeepsGroups
  <1>1. new[k] = mid[k]
    BY DEF Fewer
  <1>. QED BY <1>1 DEF KeepsGroups

\* feed: every path leaves a good table under its ceilings, keeps what was seen first,
\* and counts the group it begins.
LEMMA FedGood ==
  ASSUME NEW heard, NEW now \in Nat, FragGood(FragState, heard, now), Bounded(FragState),
         NEW key \in FragKeys, NEW f, Feeds(f, heard, now), NEW new \in Fed(key, f, now)
  PROVE  /\ FragGood(new, heard, now) /\ Bounded(new)
         /\ Ever(new) = Ever(FragState) + (IF Begins(FragState, key, now) THEN 1 ELSE 0)
         /\ KeepsGroups(FragState.groups, new.groups, now)
  <1>. DEFINE st0 == FragState
  <1>1. st0.out = Hole
    BY DEF FragState
  <1>2. FragGood(st0, heard, now) /\ Bounded(st0)
    OBVIOUS
  <1>3. PICK room \in RoomFor(st0, key) :
          new \in LET st == Entered(room, key, now)
                  IN IF EndConflicts(st.groups[key], f)
                     THEN {[st EXCEPT !.count = Bump(@, "conflictingEnds", 1)]}
                     ELSE EvictedUntil(Settled(Written(st, key, f), key, f), MaxGroups, MaxFragBytes)
    BY DEF Fed
  <1>. HIDE DEF st0
  <1>4. /\ FragGood(room, heard, now) /\ Bounded(room) /\ Ever(room) = Ever(st0)
        /\ room.groups[key] = st0.groups[key] /\ room.out = Hole /\ Fewer(room.groups, st0.groups)
        /\ room.groups[key] = Hole => Cardinality(LiveGroups(room.groups)) < MaxGroups
    BY <1>1, <1>2, RoomGood
  <1>. DEFINE st == Entered(room, key, now)
              g == st.groups[key]
  <1>5. /\ FragGood(st, heard, now) /\ Bounded(st)
        /\ Ever(st) = Ever(room) + (IF Begins(room, key, now) THEN 1 ELSE 0)
        /\ g # Hole /\ now - g.first <= FragTimeout
        /\ \A k \in FragKeys \ {key} : st.groups[k] = room.groups[k]
        /\ ~Begins(room, key, now) => g = SeenNow(room.groups[key], now)
    BY <1>4, EnteredGood
  <1>6. IF EndConflicts(g, f) THEN new = [st EXCEPT !.count = Bump(@, "conflictingEnds", 1)]
        ELSE new \in EvictedUntil(Settled(Written(st, key, f), key, f), MaxGroups, MaxFragBytes)
    BY <1>3
  <1>. HIDE DEF st
  <1>7. g \in FragGroups /\ GroupGood(g, heard, now)
    BY <1>5, LiveGroup
  <1>8. Begins(room, key, now) = Begins(st0, key, now)
    BY <1>4 DEF Begins
  <1>9. Ever(st) = Ever(st0) + (IF Begins(st0, key, now) THEN 1 ELSE 0)
    BY <1>4, <1>5, <1>8
  <1>10. ~Begins(st0, key, now) => st0.groups[key] \in FragGroups /\ GroupGood(st0.groups[key], heard, now)
    BY <1>2, LiveGroup DEF Begins
  <1>11. ~Begins(st0, key, now) => g.data = st0.groups[key].data /\ g.header = st0.groups[key].header
                                   /\ g.total = st0.groups[key].total
    BY <1>4, <1>5, <1>8, <1>10, SeenGood
  <1>12. \A k \in FragKeys \ {key} : st.groups[k] \in {Hole, st0.groups[k]}
    BY <1>4, <1>5 DEF Fewer
  <1>13. ASSUME NEW groups, \A k \in FragKeys \ {key} : groups[k] \in {Hole, st0.groups[k]},
                ~Begins(st0, key, now) => Keeps(g, groups[key])
         PROVE  KeepsGroups(st0.groups, groups, now)
    <2>. SUFFICES ASSUME NEW k \in FragKeys, st0.groups[k] # Hole, groups[k] # Hole,
                         ~GroupExpired(st0.groups[k], now)
                  PROVE  Keeps(st0.groups[k], groups[k])
      BY DEF KeepsGroups
    <2>1. CASE k # key
      <3>1. groups[k] = st0.groups[k]
        BY <1>13, <2>1
      <3>. QED BY <3>1 DEF Keeps
    <2>2. CASE k = key
      <3>1. ~Begins(st0, key, now)
        BY <2>2 DEF Begins
      <3>2. Keeps(g, groups[key])
        BY <1>13, <3>1
      <3>. QED BY <1>11, <2>2, <3>1, <3>2 DEF Keeps
    <2>. QED BY <2>1, <2>2
  <1>14. CASE EndConflicts(g, f)
    <2>. DEFINE kind == "conflictingEnds"
                c == Bump(st.count, kind, 1)
    <2>1. new = [st EXCEPT !.count = c]
      BY <1>6, <1>14
    <2>2. kind \in FragKinds /\ kind \notin {"completed", "truncated", "missing", "abandoned", "capacity"}
      BY DEF FragKinds
    <2>. HIDE DEF kind
    <2>3. st.count \in [FragKinds -> Nat]
      BY <1>5, EverIs
    <2>4. c \in [FragKinds -> Nat] /\ Outcomes(c) = Outcomes(st.count)
      BY <2>2, <2>3, Bumped
    <2>. HIDE DEF c
    <2>5. /\ FragGood(new, heard, now) /\ new.count = c
          /\ new.groups = st.groups /\ new.bytes = st.bytes /\ new.out = st.out
      BY <1>5, <2>1, <2>4, RecountedGood
    <2>6. Bounded(new)
      BY <1>5, <2>5 DEF Bounded
    <2>7. Ever(new) = Ever(st)
      BY <1>5, <2>4, <2>5, EverIs
    <2>8. Keeps(g, new.groups[key])
      BY <2>5 DEF Keeps
    <2>9. \A k \in FragKeys \ {key} : new.groups[k] \in {Hole, st0.groups[k]}
      BY <1>12, <2>5
    <2>10. KeepsGroups(st0.groups, new.groups, now)
      BY <1>13, <2>8, <2>9
    <2>. QED BY <1>9, <2>5, <2>6, <2>7, <2>10 DEF st0
  <1>15. CASE ~EndConflicts(g, f)
    <2>. DEFINE w == Written(st, key, f)
                s == Settled(w, key, f)
    <2>1. /\ FragGood(w, heard, now) /\ Ever(w) = Ever(st)
          /\ w.groups[key] = Joined(g, f)
          /\ \A k \in FragKeys \ {key} : w.groups[k] = st.groups[k]
      BY <1>5, WrittenGood
    <2>2. Joined(g, f) \in FragGroups /\ Joined(g, f).first = g.first /\ Keeps(g, Joined(g, f))
      BY <1>7, <1>15, JoinedFeed
    <2>3. w.groups[key] # Hole /\ now - w.groups[key].first <= FragTimeout
      BY <1>5, <2>1, <2>2, FragConstants
    <2>4. new \in EvictedUntil(s, MaxGroups, MaxFragBytes)
      BY <1>6, <1>15
    <2>. HIDE DEF w
    <2>5. FragGood(s, heard, now) /\ Ever(s) = Ever(w) /\ Fewer(s.groups, w.groups)
      BY <2>1, <2>3, SettledGood
    <2>. HIDE DEF s
    <2>6. /\ FragGood(new, heard, now) /\ Ever(new) = Ever(s)
          /\ Cardinality(LiveGroups(new.groups)) <= MaxGroups /\ new.bytes <= MaxFragBytes
          /\ Fewer(new.groups, s.groups)
      BY <2>4, <2>5, FragConstants, EvictedGood
    <2>7. \A k \in FragKeys \ {key} : w.groups[k] \in {Hole, st0.groups[k]}
      BY <1>12, <2>1
    <2>8. KeepsGroups(st0.groups, w.groups, now)
      BY <1>13, <2>1, <2>2, <2>7
    <2>9. KeepsGroups(st0.groups, s.groups, now)
      BY <2>5, <2>8, FewerKeeps
    <2>10. KeepsGroups(st0.groups, new.groups, now)
      BY <2>6, <2>9, FewerKeeps
    <2>. QED BY <1>9, <2>1, <2>5, <2>6, <2>10 DEF st0, Bounded
  <1>. QED BY <1>14, <1>15

LEMMA DisjointUnion ==
  ASSUME NEW A, NEW B, IsFiniteSet(A), IsFiniteSet(B), A \cap B = {}
  PROVE  IsFiniteSet(A \cup B) /\ Cardinality(A \cup B) = Cardinality(A) + Cardinality(B)
  <1>1. IsFiniteSet(A \cup B) /\ Cardinality(A \cup B) = Cardinality(A) + Cardinality(B) - Cardinality(A \cap B)
    BY FS_Union
  <1>2. Cardinality(A \cap B) = 0
    BY FS_EmptySet
  <1>3. Cardinality(A) \in Nat /\ Cardinality(B) \in Nat
    BY FS_CardinalityType
  <1>. QED BY <1>1, <1>2, <1>3

\* evict_stale: every group it expires is counted in one outcome.
LEMMA SweptGood ==
  ASSUME NEW st, NEW heard, FragGood(st, heard, fNow), NEW new \in FragSwept(st)
  PROVE  /\ FragGood(new, heard, fNow) /\ Bounded(new) /\ Ever(new) = Ever(st)
         /\ Fewer(new.groups, st.groups)
  <1>. DEFINE old == {k \in LiveGroups(st.groups) : GroupExpired(st.groups[k], fNow)}
              At(status) == {k \in old : GroupStatus(st.groups[k]) = status}
              mid == Released(st, old)
              c == [k \in FragKinds |->
                      st.count[k] + (IF k = "idle" THEN Cardinality(old)
                                     ELSE IF k \in {"completed", "truncated", "missing"}
                                     THEN Cardinality(At(k)) ELSE 0)]
              swept == [mid EXCEPT !.count = c]
  <1>1. old \in SUBSET LiveGroups(st.groups)
    OBVIOUS
  <1>2. FragGood(mid, heard, fNow) /\ Without(mid, st, old)
    <2>. HIDE DEF old
    <2>. QED BY <1>1, ReleasedGood
  <1>3. mid \in FragStates /\ mid.count = st.count
    <2>. HIDE DEF mid
    <2>. QED BY <1>2, Zenon DEF FragGood, Without
  <1>4. new \in EvictedUntil(swept, MaxGroups, MaxFragBytes)
    BY <1>3, Zenon DEF FragSwept
  <1>5. \A status : At(status) \in SUBSET LiveGroups(st.groups)
    OBVIOUS
  <1>6. /\ Cardinality(old) \in Nat /\ IsFiniteSet(old)
        /\ \A status : Cardinality(At(status)) \in Nat /\ IsFiniteSet(At(status))
    <2>. HIDE DEF old, At
    <2>. QED BY <1>1, <1>5, EverIs, LiveWeighed
  <1>7. Cardinality(old) = Cardinality(At("completed")) + Cardinality(At("truncated")) + Cardinality(At("missing"))
    <2>. DEFINE A == At("completed")
                B == At("truncated")
                C == At("missing")
    <2>1. old = (A \cup B) \cup C /\ A \cap B = {} /\ (A \cup B) \cap C = {}
      BY StatusIs
    <2>2. /\ IsFiniteSet(A) /\ IsFiniteSet(B) /\ IsFiniteSet(C)
          /\ Cardinality(A) \in Nat /\ Cardinality(B) \in Nat /\ Cardinality(C) \in Nat
      BY <1>6
    <2>. HIDE DEF A, B, C, old
    <2>. DEFINE AB == A \cup B
    <2>3. IsFiniteSet(AB) /\ Cardinality(AB) = Cardinality(A) + Cardinality(B)
      BY <2>1, <2>2, DisjointUnion
    <2>. HIDE DEF AB
    <2>4. Cardinality(AB \cup C) = Cardinality(AB) + Cardinality(C)
      BY <2>1, <2>2, <2>3, DisjointUnion DEF AB
    <2>. QED BY <2>1, <2>3, <2>4 DEF A, B, C, AB
  <1>8. st.count \in [FragKinds -> Nat]
    BY EverIs
  <1>9. c \in [FragKinds -> Nat] /\ Outcomes(c) = Outcomes(st.count) + Cardinality(old)
    <2>. HIDE DEF old, At
    <2>1. c \in [FragKinds -> Nat]
      BY <1>6, <1>8
    <2>2. /\ c["completed"] = st.count["completed"] + Cardinality(At("completed"))
          /\ c["truncated"] = st.count["truncated"] + Cardinality(At("truncated"))
          /\ c["missing"] = st.count["missing"] + Cardinality(At("missing"))
          /\ c["abandoned"] = st.count["abandoned"] + 0 /\ c["capacity"] = st.count["capacity"] + 0
      BY DEF FragKinds
    <2>3. /\ st.count["completed"] \in Nat /\ st.count["truncated"] \in Nat /\ st.count["missing"] \in Nat
          /\ st.count["abandoned"] \in Nat /\ st.count["capacity"] \in Nat
      BY <1>8 DEF FragKinds
    <2>. HIDE DEF c
    <2>. QED BY <1>6, <1>7, <2>1, <2>2, <2>3 DEF Outcomes
  <1>. HIDE DEF c, mid, old
  <1>10. /\ FragGood(swept, heard, fNow) /\ swept.count = c
         /\ swept.groups = mid.groups /\ swept.bytes = mid.bytes /\ swept.out = mid.out
    BY <1>2, <1>9, RecountedGood
  <1>. HIDE DEF swept
  <1>11. /\ LiveGroups(mid.groups) = LiveGroups(st.groups) \ old
         /\ Cardinality(LiveGroups(mid.groups)) = Cardinality(LiveGroups(st.groups)) - Cardinality(old)
         /\ mid.out = st.out
    BY <1>2, Zenon DEF Without
  <1>12. Ever(swept) = Ever(st)
    <2>1. /\ Ever(swept) = Cardinality(LiveGroups(mid.groups)) + Outcomes(c)
          /\ Ever(st) = Cardinality(LiveGroups(st.groups)) + Outcomes(st.count)
          /\ Cardinality(LiveGroups(st.groups)) \in Nat /\ Outcomes(st.count) \in Nat
      BY <1>10, EverIs
    <2>2. Cardinality(old) \in Nat
      BY <1>6
    <2>. QED BY <1>9, <1>11, <2>1, <2>2
  <1>13. Fewer(swept.groups, st.groups)
    <2>1. mid.groups = [k \in FragKeys |-> IF k \in old THEN Hole ELSE st.groups[k]]
      BY <1>2, Zenon DEF Without
    <2>. QED BY <1>10, <2>1 DEF Fewer
  <1>14. /\ FragGood(new, heard, fNow) /\ Ever(new) = Ever(swept)
         /\ Cardinality(LiveGroups(new.groups)) <= MaxGroups /\ new.bytes <= MaxFragBytes
         /\ Fewer(new.groups, swept.groups)
    BY <1>4, <1>10, FragConstants, EvictedGood
  <1>15. Fewer(new.groups, st.groups)
    BY <1>13, <1>14 DEF Fewer
  <1>. QED BY <1>12, <1>14, <1>15 DEF Bounded

\* What a call leaves, with the sweep when it is due.
LEMMA AfterGood ==
  ASSUME NEW st, NEW heard, FragGood(st, heard, fNow), Bounded(st), NEW due, FragAfter(st, due)
  PROVE  \E end : /\ FragGood(end, heard, fNow) /\ Bounded(end) /\ Ever(end) = Ever(st)
                  /\ Fewer(end.groups, st.groups) /\ FragApply(end)
  <1>1. CASE due
    BY <1>1, SweptGood DEF FragAfter
  <1>2. CASE ~due
    <2>1. FragApply(st)
      BY <1>2 DEF FragAfter
    <2>2. Fewer(st.groups, st.groups)
      BY DEF Fewer
    <2>. QED BY <2>1, <2>2
  <1>. QED BY <1>1, <1>2

-----------------------------------------------------------------------------
(* The invariant of the fragment reassembler *)

FragNowState == [groups |-> fGroups, bytes |-> fBytes, count |-> fCount, out |-> fOut]

FragInv ==
  /\ FragGood(FragNowState, fHeard, fNow) /\ Bounded(FragNowState) /\ fCreated = Ever(FragNowState)
  /\ fNow \in Nat /\ fHeard \in [Datagrams -> Nat \cup {Hole}]

LEMMA FragFields ==
  /\ FragNowState.groups = fGroups /\ FragNowState.bytes = fBytes /\ FragNowState.count = fCount
  /\ FragNowState.out = fOut
  /\ FragState.groups = fGroups /\ FragState.bytes = fBytes /\ FragState.count = fCount
  /\ FragState.out = Hole
  BY DEF FragNowState, FragState

\* The state a call begins with: what it returned before is gone.
LEMMA FragStateGood ==
  ASSUME FragInv
  PROVE  FragGood(FragState, fHeard, fNow) /\ Bounded(FragState) /\ fCreated = Ever(FragState)
  <1>1. FragNowState \in FragStates
    BY DEF FragInv, FragGood
  <1>2. FragState \in FragStates
    <2>1. fGroups \in [FragKeys -> FragGroups \cup {Hole}] /\ fBytes \in Nat /\ fCount \in [FragKinds -> Nat]
      BY <1>1 DEF FragStates, FragNowState
    <2>2. Hole \in FragOuts
      BY DEF FragOuts
    <2>. QED BY <2>1, <2>2 DEF FragStates, FragState
  <1>3. Balanced(FragState) /\ GroupsGood(FragState.groups, fHeard, fNow) /\ OutGood(FragState.out, fHeard, fNow)
    BY FragFields DEF FragInv, FragGood, Balanced, OutGood
  <1>. QED BY <1>2, <1>3, FragFields DEF FragInv, FragGood, Bounded, Ever

\* Hearing of a datagram again, or time passing, takes nothing from a group.
LEMMA LaterGood ==
  ASSUME NEW g \in FragGroups, NEW heard \in [Datagrams -> Nat \cup {Hole}], NEW now \in Nat,
         GroupGood(g, heard, now), NEW d \in Datagrams
  PROVE  GroupGood(g, [heard EXCEPT ![d] = now], now) /\ GroupGood(g, heard, now + 1)
  <1>. DEFINE later == [heard EXCEPT ![d] = now]
  <1>1. g.first \in Nat /\ g.last \in Nat /\ g.first <= g.last /\ g.last <= now
    BY DEF FragGroups, GroupGood
  <1>2. ASSUME NEW x, HeardSince(heard, x, g.first) PROVE HeardSince(later, x, g.first)
    BY <1>1, <1>2 DEF HeardSince
  <1>. HIDE DEF later
  <1>3. GroupGood(g, later, now)
    BY <1>2 DEF GroupGood
  <1>4. GroupGood(g, heard, now + 1)
    BY <1>1 DEF GroupGood
  <1>. QED BY <1>3, <1>4 DEF later

\* What a call applies becomes the state.
LEMMA AppliedGood ==
  ASSUME NEW end, FragGood(end, fHeard', fNow'), Bounded(end), FragApply(end), fCreated' = Ever(end),
         fNow' \in Nat, fHeard' \in [Datagrams -> Nat \cup {Hole}]
  PROVE  FragInv'
  <1>1. end \in FragStates
    BY DEF FragGood
  <1>2. FragNowState' = end
    BY <1>1 DEF FragNowState, FragApply, FragStates
  <1>. QED BY <1>2 DEF FragInv

LEMMA FragInitInv == FragInit => FragInv
  <1>. SUFFICES ASSUME FragInit PROVE FragInv
    OBVIOUS
  <1>1. LiveGroups(fGroups) = {}
    BY DEF FragInit, LiveGroups
  <1>2. FragNowState \in FragStates
    <2>1. /\ fGroups \in [FragKeys -> FragGroups \cup {Hole}] /\ fCount \in [FragKinds -> Nat]
          /\ fBytes \in Nat /\ fOut \in FragOuts
      BY DEF FragInit, FragOuts
    <2>. QED BY <2>1 DEF FragStates, FragNowState
  <1>3. FragGood(FragNowState, fHeard, fNow)
    BY <1>1, <1>2, FragFields, SizeEmpty DEF FragGood, Balanced, GroupsGood, OutGood, FragInit
  <1>4. Bounded(FragNowState)
    BY <1>1, FragFields, FragConstants, FS_EmptySet DEF Bounded, FragInit
  <1>5. Ever(FragNowState) = 0
    <2>1. \A k \in FragKinds : fCount[k] = 0
      BY DEF FragInit
    <2>. QED BY <1>1, <2>1, FragFields, FS_EmptySet DEF Ever, FragKinds
  <1>. QED BY <1>3, <1>4, <1>5 DEF FragInv, FragInit

\* The groups that a step keeps, in the words of the property.
LEMMA KeepsIsFirstSeen ==
  ASSUME KeepsGroups(fGroups, fGroups', fNow)
  PROVE  FragFirstSeen
  BY DEF KeepsGroups, FragFirstSeen, Keeps

LEMMA FeedStep ==
  ASSUME FragInv, NEW key \in FragKeys, NEW d \in Datagrams, NEW cut \in Cuts, NEW due \in BOOLEAN,
         NEW offset \in 0..DatagramLen[d]-1, NEW n \in 1..DatagramLen[d] - offset,
         FragFeed(key, d, offset, n, cut, due)
  PROVE  FragInv' /\ FragFirstSeen
  <1>. DEFINE f == Fragment(d, offset, n, cut)
              heard == [fHeard EXCEPT ![d] = fNow]
  <1>1. /\ fNow \in Nat /\ fHeard \in [Datagrams -> Nat \cup {Hole}] /\ DatagramLen[d] \in Nat
        /\ offset \in Nat /\ n \in Nat /\ cut \in Nat /\ cut < n /\ offset + n <= DatagramLen[d]
        /\ fHeard' = heard /\ fNow' = fNow
        /\ fCreated' = fCreated + (IF fGroups[key] = Hole \/ GroupExpired(fGroups[key], fNow) THEN 1 ELSE 0)
    <2>1. fNow \in Nat /\ fHeard \in [Datagrams -> Nat \cup {Hole}]
      BY DEF FragInv
    <2>2. DatagramLen[d] \in Nat /\ cut \in Nat
      BY FragAssumption
    <2>3. offset \in Nat /\ n \in Nat
      BY <2>2
    <2>4. /\ cut < n /\ offset + n <= DatagramLen[d] /\ fHeard' = heard /\ fNow' = fNow
          /\ fCreated' = fCreated + (IF fGroups[key] = Hole \/ GroupExpired(fGroups[key], fNow) THEN 1 ELSE 0)
      BY DEF FragFeed
    <2>. QED BY <2>1, <2>2, <2>3, <2>4
  <1>2. PICK st \in Fed(key, f, fNow) : FragAfter(st, due)
    BY DEF FragFeed
  <1>3. heard \in [Datagrams -> Nat \cup {Hole}] /\ heard[d] = fNow
    BY <1>1
  <1>4. Feeds(f, heard, fNow)
    <2>. HIDE DEF heard
    <2>. QED BY <1>1, <1>3 DEF Feeds
  <1>5. FragGood(FragState, heard, fNow) /\ Bounded(FragState) /\ fCreated = Ever(FragState)
    <2>1. FragGood(FragState, fHeard, fNow) /\ Bounded(FragState) /\ fCreated = Ever(FragState)
      BY FragStateGood
    <2>2. ASSUME NEW k \in LiveGroups(FragState.groups) PROVE GroupGood(FragState.groups[k], heard, fNow)
      <3>1. FragState.groups[k] \in FragGroups /\ GroupGood(FragState.groups[k], fHeard, fNow)
        BY <2>1, LiveGroup DEF LiveGroups
      <3>. QED BY <1>1, <3>1, LaterGood
    <2>3. OutGood(FragState.out, heard, fNow)
      BY FragFields DEF OutGood
    <2>. HIDE DEF heard
    <2>. QED BY <2>1, <2>2, <2>3 DEF FragGood, GroupsGood
  <1>. HIDE DEF heard, f
  <1>6. /\ FragGood(st, heard, fNow) /\ Bounded(st)
        /\ Ever(st) = Ever(FragState) + (IF Begins(FragState, key, fNow) THEN 1 ELSE 0)
        /\ KeepsGroups(FragState.groups, st.groups, fNow)
    BY <1>1, <1>2, <1>4, <1>5, FedGood
  <1>7. PICK end : /\ FragGood(end, heard, fNow) /\ Bounded(end) /\ Ever(end) = Ever(st)
                   /\ Fewer(end.groups, st.groups) /\ FragApply(end)
    BY <1>2, <1>6, AfterGood
  <1>8. fCreated' = Ever(end)
    BY <1>1, <1>5, <1>6, <1>7, FragFields DEF Begins
  <1>9. FragInv'
    BY <1>1, <1>3, <1>7, <1>8, AppliedGood
  <1>10. KeepsGroups(fGroups, fGroups', fNow)
    <2>1. KeepsGroups(fGroups, end.groups, fNow)
      BY <1>6, <1>7, FragFields, FewerKeeps
    <2>. QED BY <1>7, <2>1 DEF FragApply
  <1>. QED BY <1>9, <1>10, KeepsIsFirstSeen

LEMMA OtherStep ==
  ASSUME FragInv, NEW due \in BOOLEAN, FragOther(due)
  PROVE  FragInv' /\ FragFirstSeen
  <1>1. /\ FragAfter(FragState, due) /\ fNow' = fNow /\ fHeard' = fHeard /\ fCreated' = fCreated
        /\ fNow \in Nat /\ fHeard \in [Datagrams -> Nat \cup {Hole}]
    BY DEF FragOther, FragInv
  <1>2. FragGood(FragState, fHeard, fNow) /\ Bounded(FragState) /\ fCreated = Ever(FragState)
    BY FragStateGood
  <1>3. PICK end : /\ FragGood(end, fHeard, fNow) /\ Bounded(end) /\ Ever(end) = Ever(FragState)
                   /\ Fewer(end.groups, FragState.groups) /\ FragApply(end)
    BY <1>1, <1>2, AfterGood
  <1>4. FragInv'
    BY <1>1, <1>2, <1>3, AppliedGood
  <1>5. KeepsGroups(fGroups, fGroups', fNow)
    <2>1. KeepsGroups(fGroups, fGroups, fNow)
      BY DEF KeepsGroups, Keeps
    <2>2. Fewer(fGroups', fGroups)
      BY <1>3, FragFields DEF FragApply
    <2>. QED BY <2>1, <2>2, FewerKeeps
  <1>. QED BY <1>4, <1>5, KeepsIsFirstSeen

LEMMA ClearStep ==
  ASSUME FragInv, FragClear
  PROVE  FragInv' /\ FragFirstSeen
  <1>1. FragGood(FragState, fHeard, fNow) /\ Bounded(FragState) /\ fCreated = Ever(FragState)
    BY FragStateGood
  <1>. DEFINE none == [k \in FragKeys |-> Hole]
  <1>2. /\ fGroups' = none /\ fBytes' = 0 /\ fOut' = Hole /\ fCount' = fCount /\ fNow' = fNow /\ fHeard' = fHeard
        /\ fCreated' = fCreated - Cardinality(LiveGroups(fGroups))
        /\ fNow \in Nat /\ fHeard \in [Datagrams -> Nat \cup {Hole}]
    BY DEF FragClear, FragInv
  <1>. DEFINE end == [groups |-> none, bytes |-> 0, count |-> fCount, out |-> Hole]
  <1>3. LiveGroups(none) = {} /\ none \in [FragKeys -> FragGroups \cup {Hole}]
    BY DEF LiveGroups
  <1>. HIDE DEF none
  <1>4. end.groups = none /\ end.bytes = 0 /\ end.count = fCount /\ end.out = Hole
    OBVIOUS
  <1>5. fCount \in [FragKinds -> Nat] /\ Cardinality(LiveGroups(fGroups)) \in Nat /\ Outcomes(fCount) \in Nat
        /\ Ever(FragState) = Cardinality(LiveGroups(fGroups)) + Outcomes(fCount)
    BY <1>1, EverIs, FragFields
  <1>6. end \in FragStates
    <2>1. Hole \in FragOuts
      BY DEF FragOuts
    <2>. QED BY <1>3, <1>5, <2>1 DEF FragStates
  <1>. HIDE DEF end
  <1>7. FragGood(end, fHeard, fNow)
    BY <1>3, <1>4, <1>6, SizeEmpty DEF FragGood, Balanced, GroupsGood, OutGood
  <1>8. Bounded(end)
    BY <1>3, <1>4, FragConstants, FS_EmptySet DEF Bounded
  <1>9. Ever(end) = fCreated'
    <2>1. Ever(end) = Cardinality(LiveGroups(none)) + Outcomes(fCount)
      BY <1>4, <1>7, EverIs
    <2>. QED BY <1>1, <1>2, <1>3, <1>5, <2>1, FS_EmptySet
  <1>10. FragApply(end)
    BY <1>2, <1>4 DEF FragApply
  <1>11. FragInv'
    BY <1>2, <1>7, <1>8, <1>9, <1>10, AppliedGood
  <1>12. KeepsGroups(fGroups, fGroups', fNow)
    BY <1>2 DEF KeepsGroups, none
  <1>. QED BY <1>11, <1>12, KeepsIsFirstSeen

LEMMA TickStep ==
  ASSUME FragInv, FragTick
  PROVE  FragInv' /\ FragFirstSeen
  <1>1. FragGood(FragState, fHeard, fNow) /\ Bounded(FragState) /\ fCreated = Ever(FragState)
    BY FragStateGood
  <1>2. /\ fGroups' = fGroups /\ fBytes' = fBytes /\ fOut' = Hole /\ fCount' = fCount /\ fNow' = fNow + 1
        /\ fHeard' = fHeard /\ fCreated' = fCreated
        /\ fNow \in Nat /\ fHeard \in [Datagrams -> Nat \cup {Hole}]
    BY DEF FragTick, FragInv
  <1>3. ASSUME NEW k \in LiveGroups(FragState.groups) PROVE GroupGood(FragState.groups[k], fHeard, fNow + 1)
    <2>1. FragState.groups[k] \in FragGroups /\ GroupGood(FragState.groups[k], fHeard, fNow)
      BY <1>1, LiveGroup DEF LiveGroups
    <2>2. FragState.groups[k].last \in Nat
      BY <2>1 DEF FragGroups
    <2>. QED BY <1>2, <2>1, <2>2 DEF GroupGood
  <1>4. FragGood(FragState, fHeard, fNow + 1)
    BY <1>1, <1>3, FragFields DEF FragGood, GroupsGood, OutGood
  <1>5. FragApply(FragState)
    BY <1>2, FragFields DEF FragApply
  <1>6. FragInv'
    BY <1>1, <1>2, <1>4, <1>5, AppliedGood
  <1>7. KeepsGroups(fGroups, fGroups', fNow)
    BY <1>2 DEF KeepsGroups, Keeps
  <1>. QED BY <1>6, <1>7, KeepsIsFirstSeen

LEMMA FragStep ==
  ASSUME FragInv, [FragNext]_fVars
  PROVE  FragInv' /\ FragFirstSeen
  <1>1. CASE FragNext
    <2>1. ASSUME NEW key \in FragKeys, NEW d \in Datagrams, NEW cut \in Cuts, NEW due \in BOOLEAN,
                 NEW offset \in 0..DatagramLen[d]-1, NEW n \in 1..DatagramLen[d] - offset,
                 FragFeed(key, d, offset, n, cut, due)
          PROVE  FragInv' /\ FragFirstSeen
      BY <2>1, FeedStep
    <2>2. ASSUME NEW due \in BOOLEAN, FragOther(due) PROVE FragInv' /\ FragFirstSeen
      BY <2>2, OtherStep
    <2>. QED BY <1>1, <2>1, <2>2, ClearStep, TickStep DEF FragNext
  <1>2. CASE UNCHANGED fVars
    <2>1. FragInv'
      BY <1>2 DEF fVars, FragInv, FragNowState
    <2>2. KeepsGroups(fGroups, fGroups', fNow)
      BY <1>2 DEF fVars, KeepsGroups, Keeps
    <2>. QED BY <2>1, <2>2, KeepsIsFirstSeen
  <1>. QED BY <1>1, <1>2

LEMMA FragInvGives == FragInv => OneDatagramPerTimeout /\ FragAccounted
  <1>. SUFFICES ASSUME FragInv PROVE OneDatagramPerTimeout /\ FragAccounted
    OBVIOUS
  <1>1. FragAccounted
    BY FragFields DEF FragInv, FragGood, Balanced, Bounded, Ever, FragAccounted
  <1>2. OneDatagramPerTimeout
    <2>. SUFFICES ASSUME fOut # Hole,
                         NEW d \in {fOut.header} \cup {fOut.bytes[i] : i \in 1..Len(fOut.bytes)}
                  PROVE  d \in Datagrams /\ fNow - fHeard[d] <= FragTimeout
      BY DEF OneDatagramPerTimeout
    <2>1. OutGood(fOut, fHeard, fNow)
      BY FragFields DEF FragInv, FragGood
    <2>2. HeardSince(fHeard, d, fNow - FragTimeout)
      BY <2>1 DEF OutGood
    <2>3. fNow \in Nat /\ FragTimeout \in Nat
      BY FragConstants DEF FragInv
    <2>. QED BY <2>2, <2>3 DEF HeardSince
  <1>. QED BY <1>1, <1>2

\* Every step of the reassembly is one of the fragment reassembler, or none of it.
LEMMA ReassemblyIsFrag == [ReassemblyNext]_rVars => [FragNext]_fVars
  <1>. SUFFICES ASSUME [ReassemblyNext]_rVars PROVE [FragNext]_fVars
    OBVIOUS
  <1>1. EvictDue \in BOOLEAN
    BY DEF EvictDue
  <1>2. ASSUME NEW key \in FragKeys, NEW d \in Datagrams, NEW cut \in Cuts,
               NEW offset \in 0..DatagramLen[d]-1, NEW n \in 1..DatagramLen[d] - offset,
               FragmentPacket(key, d, offset, n, cut)
        PROVE  FragNext
    <2>1. FragFeed(key, d, offset, n, cut, EvictDue)
      BY <1>2 DEF FragmentPacket
    <2>. QED BY <1>1, <2>1 DEF FragNext
  <1>3. ASSUME FragOther(EvictDue) PROVE FragNext
    BY <1>1, <1>3 DEF FragNext
  <1>4. ASSUME FragClear PROVE FragNext
    BY <1>4 DEF FragNext
  <1>5. ASSUME FragTick PROVE FragNext
    BY <1>5 DEF FragNext
  <1>6. ASSUME UNCHANGED rVars PROVE UNCHANGED fVars
    BY <1>6 DEF rVars
  <1>. QED BY <1>2, <1>3, <1>4, <1>5, <1>6 DEF ReassemblyNext

\* In every run of the reassembly, with any number of fragments of any datagrams that
\* share their keys, a datagram handed out has no hole and no byte of a datagram last
\* heard of longer ago than the timeout: take_group only sees groups that began within
\* it, because a group that is older ends before another fragment gets in.
THEOREM DatagramsOfOneTimeout == ReassemblySpec => []OneDatagramPerTimeout
  <1>1. ReassemblyInit => FragInv
    BY FragInitInv DEF ReassemblyInit
  <1>2. FragInv /\ [ReassemblyNext]_rVars => FragInv'
    BY ReassemblyIsFrag, FragStep
  <1>3. FragInv => OneDatagramPerTimeout
    BY FragInvGives
  <1>. QED BY <1>1, <1>2, <1>3, PTL DEF ReassemblySpec

-----------------------------------------------------------------------------
(* Buffers of segments *)

SegStates ==
  [streams : [StreamKeys -> SegStreams \cup {Hole}], bytes : Nat, count : [SegKinds -> Nat],
   out : {Hole, "completed", "truncated", "missing"}]

\* What holds of a buffer whose run may be longer than its known prefix, ...
StreamSound(s) ==
  /\ Len(s.data) <= MaxStreamBytes /\ s.prefix <= Len(s.data)
  /\ \A i \in 1..s.prefix : Held(s.data, i)

\* ... and between calls, when the prefix is the whole run.
StreamGood(s) == StreamSound(s) /\ (s.prefix < Len(s.data) => ~Held(s.data, s.prefix + 1))

SegBalanced(st) == st.bytes = SizeOf(st.streams, LiveStreams(st.streams))

StreamsGood(streams) == \A k \in LiveStreams(streams) : StreamGood(streams[k])

SegGood(st) == st \in SegStates /\ SegBalanced(st) /\ StreamsGood(st.streams)

SegBounded(st) == Cardinality(LiveStreams(st.streams)) <= MaxStreams /\ st.bytes <= MaxSegBytes

SegFewer(streams, others) == \A k \in StreamKeys : streams[k] \in {Hole, others[k]}

LEMMA SegConstants ==
  /\ MaxStreamBytes \in Nat /\ MaxStreamBytes > 0 /\ MaxStreams \in Nat /\ MaxStreams > 0
  /\ MaxSegBytes \in Nat /\ StreamIdle \in Nat /\ DecisionWindow \in Nat
  /\ SeqMod \in Nat /\ SeqMod > 2 * MaxStreamBytes /\ SeqMod % 2 = 0
  /\ IsFiniteSet(StreamKeys) /\ Hole \notin SegStreams
  <1>1. IsFiniteSet(StreamKeys)
    <2>1. IsFiniteSet(BOOLEAN)
      <3>1. BOOLEAN = {TRUE, FALSE}
        OBVIOUS
      <3>2. IsFiniteSet({TRUE} \cup {FALSE})
        BY FS_Singleton, FS_Union
      <3>3. {TRUE} \cup {FALSE} = {TRUE, FALSE}
        OBVIOUS
      <3>. QED BY <3>1, <3>2, <3>3
    <2>2. IsFiniteSet(Flows)
      BY SegAssumption
    <2>. QED BY <2>1, <2>2, FS_Product DEF StreamKeys
  <1>. QED BY <1>1, SegAssumption, SniffAssumption

LEMMA StreamsWeighed ==
  ASSUME NEW streams \in [StreamKeys -> SegStreams \cup {Hole}], NEW keys \in SUBSET LiveStreams(streams)
  PROVE  /\ Weighed(streams, keys) /\ IsFiniteSet(keys) /\ Cardinality(keys) \in Nat
         /\ SizeOf(streams, keys) \in Nat
  <1>1. IsFiniteSet(keys) /\ Cardinality(keys) \in Nat
    <2>1. keys \in SUBSET StreamKeys
      BY DEF LiveStreams
    <2>. QED BY <2>1, SegConstants, FS_Subset, FS_CardinalityType
  <1>2. \A k \in keys : streams[k] \in SegStreams
    BY DEF LiveStreams
  <1>3. \A k \in keys : streams[k].accounted \in Nat
    BY <1>2 DEF SegStreams
  <1>4. Weighed(streams, keys)
    BY <1>1, <1>3 DEF Weighed
  <1>. QED BY <1>1, <1>4, SizeNat

LEMMA SegTyped ==
  ASSUME NEW st, SegGood(st)
  PROVE  /\ st.streams \in [StreamKeys -> SegStreams \cup {Hole}] /\ st.bytes \in Nat
         /\ st.count \in [SegKinds -> Nat] /\ st.out \in {Hole, "completed", "truncated", "missing"}
         /\ Cardinality(LiveStreams(st.streams)) \in Nat /\ Weighed(st.streams, LiveStreams(st.streams))
         /\ st.bytes = SizeOf(st.streams, LiveStreams(st.streams))
  <1>1. /\ st.streams \in [StreamKeys -> SegStreams \cup {Hole}] /\ st.bytes \in Nat
        /\ st.count \in [SegKinds -> Nat] /\ st.out \in {Hole, "completed", "truncated", "missing"}
    BY DEF SegGood, SegStates
  <1>2. LiveStreams(st.streams) \in SUBSET LiveStreams(st.streams)
    OBVIOUS
  <1>. QED BY <1>1, <1>2, StreamsWeighed DEF SegGood, SegBalanced

LEMMA LiveStream ==
  ASSUME NEW st, SegGood(st), NEW key \in StreamKeys, st.streams[key] # Hole
  PROVE  st.streams[key] \in SegStreams /\ StreamGood(st.streams[key]) /\ key \in LiveStreams(st.streams)
  BY SegTyped DEF SegGood, StreamsGood, LiveStreams

\* new is st without the buffers of keys.
SegWithout(new, st, keys) ==
  /\ new.streams = [k \in StreamKeys |-> IF k \in keys THEN Hole ELSE st.streams[k]]
  /\ LiveStreams(new.streams) = LiveStreams(st.streams) \ keys
  /\ new.bytes = SizeOf(st.streams, LiveStreams(st.streams) \ keys) /\ new.bytes <= st.bytes
  /\ new.count = st.count /\ new.out = st.out

LEMMA DroppedGood ==
  ASSUME NEW st, SegGood(st), NEW keys \in SUBSET LiveStreams(st.streams),
         NEW new, new = DroppedStreams(st, keys)
  PROVE  SegGood(new) /\ SegWithout(new, st, keys)
  <1>. DEFINE old == st.streams
              live == LiveStreams(old)
              rest == [k \in StreamKeys |-> IF k \in keys THEN Hole ELSE old[k]]
  <1>1. /\ st \in SegStates /\ old \in [StreamKeys -> SegStreams \cup {Hole}] /\ st.bytes \in Nat
        /\ st.bytes = SizeOf(old, live) /\ Weighed(old, live)
    BY SegTyped DEF SegGood
  <1>2. new.streams = rest /\ new.bytes = SatSub(st.bytes, SizeOf(old, keys)) /\ new.count = st.count /\ new.out = st.out
    BY <1>1 DEF DroppedStreams, SegStates
  <1>3. rest \in [StreamKeys -> SegStreams \cup {Hole}]
    BY <1>1
  <1>4. LiveStreams(rest) = live \ keys
    BY DEF LiveStreams
  <1>5. live \ keys \in SUBSET live
    OBVIOUS
  <1>6. /\ Weighed(old, keys) /\ Weighed(old, live \ keys)
        /\ SizeOf(old, keys) \in Nat /\ SizeOf(old, live \ keys) \in Nat
    BY <1>1, <1>5, StreamsWeighed
  <1>7. SizeOf(old, live) = SizeOf(old, keys) + SizeOf(old, live \ keys)
    <2>1. keys \in SUBSET live
      OBVIOUS
    <2>. HIDE DEF live, old
    <2>. QED BY <1>1, <2>1, SizeSplit
  <1>8. SatSub(st.bytes, SizeOf(old, keys)) = SizeOf(old, live \ keys)
    BY <1>1, <1>6, <1>7 DEF SatSub
  <1>9. SizeOf(rest, live \ keys) = SizeOf(old, live \ keys)
    <2>1. SameWeights(old, rest, live \ keys)
      BY DEF SameWeights, LiveStreams
    <2>. HIDE DEF rest, live, old
    <2>. QED BY <1>6, <2>1, SizeSame
  <1>11. StreamsGood(rest)
    <2>1. \A k \in live \ keys : rest[k] = old[k] /\ StreamGood(old[k])
      BY DEF SegGood, StreamsGood, LiveStreams
    <2>. HIDE DEF rest, live, old
    <2>. QED BY <1>4, <2>1 DEF StreamsGood
  <1>12. new \in SegStates
    <2>1. SatSub(st.bytes, SizeOf(old, keys)) \in Nat
      BY <1>6, <1>8
    <2>. HIDE DEF rest
    <2>2. [st EXCEPT !.streams = rest, !.bytes = SatSub(st.bytes, SizeOf(old, keys))] \in SegStates
      BY <1>1, <1>3, <2>1 DEF SegStates
    <2>3. new = [st EXCEPT !.streams = rest, !.bytes = SatSub(st.bytes, SizeOf(old, keys))]
      BY DEF DroppedStreams, rest
    <2>. QED BY <2>2, <2>3
  <1>13. SegGood(new)
    <2>1. SegBalanced(new)
      BY <1>2, <1>4, <1>8, <1>9 DEF SegBalanced
    <2>. QED BY <1>2, <1>11, <1>12, <2>1 DEF SegGood
  <1>14. new.bytes = SizeOf(old, live \ keys) /\ new.bytes <= st.bytes
    <2>. HIDE DEF live, old, rest
    <2>. QED BY <1>1, <1>2, <1>6, <1>7, <1>8
  <1>. QED BY <1>2, <1>4, <1>13, <1>14, Zenon DEF SegWithout

\* What giving up buffers leaves is under the ceilings if it was before.
LEMMA DroppedBounded ==
  ASSUME NEW st, SegGood(st), SegBounded(st), NEW keys \in SUBSET LiveStreams(st.streams),
         NEW new, SegGood(new), SegWithout(new, st, keys)
  PROVE  SegBounded(new) /\ SegFewer(new.streams, st.streams)
  <1>1. /\ LiveStreams(new.streams) = LiveStreams(st.streams) \ keys /\ new.bytes <= st.bytes
        /\ new.streams = [k \in StreamKeys |-> IF k \in keys THEN Hole ELSE st.streams[k]]
    BY Zenon DEF SegWithout
  <1>2. LiveStreams(st.streams) \in SUBSET LiveStreams(st.streams)
    OBVIOUS
  <1>3. IsFiniteSet(LiveStreams(st.streams))
    BY <1>2, SegTyped, StreamsWeighed
  <1>4. Cardinality(LiveStreams(new.streams)) <= Cardinality(LiveStreams(st.streams))
    BY <1>1, <1>3, FS_Subset
  <1>5. SegBounded(new)
    <2>1. /\ Cardinality(LiveStreams(new.streams)) \in Nat /\ Cardinality(LiveStreams(st.streams)) \in Nat
          /\ new.bytes \in Nat /\ st.bytes \in Nat /\ MaxStreams \in Nat /\ MaxSegBytes \in Nat
      BY SegTyped, SegConstants
    <2>2. Cardinality(LiveStreams(st.streams)) <= MaxStreams /\ st.bytes <= MaxSegBytes
      BY DEF SegBounded
    <2>3. new.bytes <= st.bytes
      BY <1>1
    <2>. QED BY <1>4, <2>1, <2>2, <2>3 DEF SegBounded
  <1>6. SegFewer(new.streams, st.streams)
    BY <1>1 DEF SegFewer
  <1>. QED BY <1>5, <1>6

LEMMA SegBumpGood ==
  ASSUME NEW st, SegGood(st), NEW kind \in SegKinds, NEW n \in Nat, NEW new, new = SegBump(st, kind, n)
  PROVE  SegGood(new) /\ new.streams = st.streams /\ new.bytes = st.bytes /\ new.out = st.out
  <1>. DEFINE c == [st.count EXCEPT ![kind] = @ + n]
  <1>1. st \in SegStates /\ st.count \in [SegKinds -> Nat]
    BY SegTyped DEF SegGood
  <1>2. c \in [SegKinds -> Nat]
    BY <1>1
  <1>3. new = [st EXCEPT !.count = c]
    BY <1>1 DEF SegBump
  <1>. HIDE DEF c
  <1>4. new \in SegStates /\ new.streams = st.streams /\ new.bytes = st.bytes /\ new.out = st.out
    BY <1>1, <1>2, <1>3 DEF SegStates
  <1>. QED BY <1>4 DEF SegGood, SegBalanced

LEMMA SegEvictedGood ==
  ASSUME NEW st, SegGood(st), NEW maxStreams \in Nat, NEW maxBytes \in Nat,
         NEW new \in SegEvictedUntil(st, maxStreams, maxBytes)
  PROVE  /\ SegGood(new) /\ Cardinality(LiveStreams(new.streams)) <= maxStreams /\ new.bytes <= maxBytes
         /\ new.out = st.out /\ SegFewer(new.streams, st.streams)
  <1>. DEFINE live == LiveStreams(st.streams)
  <1>1. PICK gone \in Evictions(st.streams, live, st.bytes, maxStreams, maxBytes) :
          new = SegBump(DroppedStreams(st, gone), "capacity", Cardinality(gone))
    BY DEF SegEvictedUntil
  <1>2. Weighed(st.streams, live) /\ st.bytes = SizeOf(st.streams, live)
    BY SegTyped
  <1>. HIDE DEF live
  <1>3. /\ gone \in SUBSET live /\ Cardinality(live \ gone) <= maxStreams
        /\ SizeOf(st.streams, live \ gone) <= maxBytes
    BY <1>2, EvictionsFit
  <1>. USE DEF live
  <1>4. Cardinality(gone) \in Nat
    BY <1>3, SegTyped, StreamsWeighed
  <1>. DEFINE mid == DroppedStreams(st, gone)
  <1>5. SegGood(mid) /\ SegWithout(mid, st, gone)
    BY <1>3, DroppedGood
  <1>. HIDE DEF mid
  <1>6. /\ mid.streams = [k \in StreamKeys |-> IF k \in gone THEN Hole ELSE st.streams[k]]
        /\ LiveStreams(mid.streams) = live \ gone
        /\ mid.bytes = SizeOf(st.streams, live \ gone) /\ mid.out = st.out
    BY <1>5, Zenon DEF SegWithout
  <1>7. SegGood(new) /\ new.streams = mid.streams /\ new.bytes = mid.bytes /\ new.out = mid.out
    <2>1. "capacity" \in SegKinds
      BY DEF SegKinds
    <2>. QED BY <1>1, <1>4, <1>5, <2>1, SegBumpGood DEF mid
  <1>8. SegFewer(new.streams, st.streams)
    BY <1>6, <1>7 DEF SegFewer
  <1>. HIDE DEF live
  <1>. QED BY <1>3, <1>6, <1>7, <1>8

LEMMA SegRoomGood ==
  ASSUME NEW st, SegGood(st), SegBounded(st), NEW key \in StreamKeys, NEW room \in SegRoomFor(st, key)
  PROVE  /\ SegGood(room) /\ SegBounded(room) /\ room.streams[key] = st.streams[key]
         /\ room.out = st.out /\ SegFewer(room.streams, st.streams)
         /\ room.streams[key] = Hole => Cardinality(LiveStreams(room.streams)) < MaxStreams
  <1>1. CASE ~HasBuffer(st, key) /\ Cardinality(LiveStreams(st.streams)) >= MaxStreams
    <2>1. room \in SegEvictedUntil(st, MaxStreams - 1, MaxSegBytes) /\ MaxStreams - 1 \in Nat /\ MaxSegBytes \in Nat
      BY <1>1, SegConstants DEF SegRoomFor, SatSub
    <2>2. /\ SegGood(room) /\ Cardinality(LiveStreams(room.streams)) <= MaxStreams - 1
          /\ room.bytes <= MaxSegBytes /\ room.out = st.out /\ SegFewer(room.streams, st.streams)
      BY <2>1, SegEvictedGood
    <2>3. Cardinality(LiveStreams(room.streams)) \in Nat
      BY <2>2, SegTyped
    <2>4. st.streams[key] = Hole /\ room.streams[key] = Hole
      BY <1>1, <2>2 DEF SegFewer, HasBuffer
    <2>. QED BY <2>2, <2>3, <2>4, SegConstants DEF SegBounded
  <1>2. CASE ~(~HasBuffer(st, key) /\ Cardinality(LiveStreams(st.streams)) >= MaxStreams)
    <2>1. room = st
      BY <1>2 DEF SegRoomFor
    <2>. QED BY <1>2, <2>1, SegConstants, SegTyped DEF SegFewer, HasBuffer
  <1>. QED BY <1>1, <1>2

\* A buffer put in the place of another, or of none.
LEMMA PutStreamSize ==
  ASSUME NEW streams \in [StreamKeys -> SegStreams \cup {Hole}], NEW key \in StreamKeys, NEW h \in SegStreams,
         NEW new, new = [streams EXCEPT ![key] = h]
  PROVE  /\ new \in [StreamKeys -> SegStreams \cup {Hole}] /\ new[key] = h
         /\ \A k \in StreamKeys \ {key} : new[k] = streams[k]
         /\ LiveStreams(new) = LiveStreams(streams) \cup {key}
         /\ h.accounted \in Nat
         /\ streams[key] = Hole =>
              /\ SizeOf(new, LiveStreams(new)) = SizeOf(streams, LiveStreams(streams)) + h.accounted
              /\ Cardinality(LiveStreams(new)) = Cardinality(LiveStreams(streams)) + 1
         /\ streams[key] # Hole =>
              /\ streams[key].accounted \in Nat /\ SizeOf(streams, LiveStreams(streams)) >= streams[key].accounted
              /\ SizeOf(new, LiveStreams(new)) =
                   SizeOf(streams, LiveStreams(streams)) - streams[key].accounted + h.accounted
              /\ Cardinality(LiveStreams(new)) = Cardinality(LiveStreams(streams))
  <1>. DEFINE live == LiveStreams(streams)
              rest == live \ {key}
  <1>1. /\ new \in [StreamKeys -> SegStreams \cup {Hole}] /\ new[key] = h
        /\ \A k \in StreamKeys \ {key} : new[k] = streams[k]
    OBVIOUS
  <1>2. LiveStreams(new) = live \cup {key} /\ LiveStreams(new) \ {key} = rest /\ h # Hole
    BY <1>1, SegConstants DEF LiveStreams
  <1>3. h.accounted \in Nat
    BY DEF SegStreams
  <1>4. live \in SUBSET live /\ rest \in SUBSET live /\ LiveStreams(new) \in SUBSET LiveStreams(new)
    BY <1>2
  <1>5. /\ Weighed(streams, live) /\ Weighed(streams, rest) /\ SizeOf(streams, rest) \in Nat
        /\ IsFiniteSet(live) /\ Cardinality(live) \in Nat /\ SizeOf(streams, live) \in Nat
    BY <1>4, StreamsWeighed
  <1>6. Weighed(new, LiveStreams(new))
    BY <1>1, <1>4, StreamsWeighed
  <1>7. SizeOf(new, LiveStreams(new)) = h.accounted + SizeOf(new, rest)
    <2>. DEFINE all == LiveStreams(new)
    <2>1. key \in all /\ Weighed(new, all)
      BY <1>2, <1>6
    <2>2. SizeOf(new, all) = new[key].accounted + SizeOf(new, all \ {key})
      <3>. HIDE DEF all
      <3>. QED BY <2>1, SizeWithout
    <2>. HIDE DEF rest, live
    <2>. QED BY <1>1, <1>2, <2>2
  <1>9. SizeOf(new, rest) = SizeOf(streams, rest)
    <2>1. SameWeights(streams, new, rest)
      BY <1>1 DEF SameWeights, LiveStreams
    <2>. HIDE DEF rest
    <2>. QED BY <1>5, <2>1, SizeSame
  <1>10. SizeOf(new, LiveStreams(new)) = h.accounted + SizeOf(streams, rest)
    BY <1>7, <1>9
  <1>11. Cardinality(LiveStreams(new)) = IF key \in live THEN Cardinality(live) ELSE Cardinality(live) + 1
    <2>. HIDE DEF live
    <2>. QED BY <1>2, <1>5, FS_AddElement
  <1>12. CASE streams[key] = Hole
    <2>1. key \notin live /\ rest = live
      BY <1>12 DEF LiveStreams
    <2>. HIDE DEF live, rest
    <2>2. SizeOf(new, LiveStreams(new)) = SizeOf(streams, live) + h.accounted
      BY <1>3, <1>5, <1>10, <2>1
    <2>. QED BY <1>1, <1>2, <1>3, <1>11, <1>12, <2>1, <2>2 DEF live
  <1>13. CASE streams[key] # Hole
    <2>1. key \in live /\ streams[key] \in SegStreams
      BY <1>13 DEF LiveStreams
    <2>2. streams[key].accounted \in Nat
      BY <2>1 DEF SegStreams
    <2>3. SizeOf(streams, live) = streams[key].accounted + SizeOf(streams, rest)
      <3>. HIDE DEF live
      <3>. QED BY <1>5, <2>1, SizeWithout
    <2>. HIDE DEF live, rest
    <2>5. /\ SizeOf(new, LiveStreams(new)) = SizeOf(streams, live) - streams[key].accounted + h.accounted
          /\ SizeOf(streams, live) >= streams[key].accounted
      BY <1>3, <1>5, <1>10, <2>2, <2>3
    <2>. QED BY <1>1, <1>2, <1>3, <1>11, <1>13, <2>1, <2>2, <2>5 DEF live
  <1>. QED BY <1>12, <1>13

\* st with another buffer for key, another size and another answer, ...
Exchanged(st, key, h, b, out) ==
  [st EXCEPT !.streams = [@ EXCEPT ![key] = h], !.bytes = b, !.out = out]

\* ... and the size it has to be: what the buffer accounts for is added, in exchange
\* for what the one in its place did.
SizeWith(st, key, h) ==
  st.bytes - (IF st.streams[key] = Hole THEN 0 ELSE st.streams[key].accounted) + h.accounted

StreamIn(new, st, key, h, b, out) ==
  /\ new.out = out /\ new.bytes = b /\ b \in Nat
  /\ new.streams[key] = h /\ \A k \in StreamKeys \ {key} : new.streams[k] = st.streams[k]
  /\ Cardinality(LiveStreams(new.streams)) =
       Cardinality(LiveStreams(st.streams)) + (IF st.streams[key] = Hole THEN 1 ELSE 0)

LEMMA PutStreamGood ==
  ASSUME NEW st, SegGood(st), NEW key \in StreamKeys, NEW h \in SegStreams, StreamGood(h),
         NEW out \in {Hole, "completed", "truncated", "missing"}, NEW b,
         b = SizeWith(st, key, h), NEW new, new = Exchanged(st, key, h, b, out)
  PROVE  SegGood(new) /\ StreamIn(new, st, key, h, b, out)
  <1>. DEFINE p == [st.streams EXCEPT ![key] = h]
  <1>1. /\ st \in SegStates /\ st.streams \in [StreamKeys -> SegStreams \cup {Hole}] /\ st.bytes \in Nat
        /\ st.bytes = SizeOf(st.streams, LiveStreams(st.streams))
        /\ Cardinality(LiveStreams(st.streams)) \in Nat
    BY SegTyped DEF SegGood
  <1>2. p = [st.streams EXCEPT ![key] = h]
    OBVIOUS
  <1>3. new = [st EXCEPT !.streams = p, !.bytes = b, !.out = out]
    BY DEF Exchanged
  <1>. HIDE DEF p
  <1>4. /\ p \in [StreamKeys -> SegStreams \cup {Hole}] /\ p[key] = h
        /\ \A k \in StreamKeys \ {key} : p[k] = st.streams[k]
        /\ LiveStreams(p) = LiveStreams(st.streams) \cup {key}
    BY <1>1, <1>2, PutStreamSize
  <1>5. /\ b \in Nat /\ b = SizeOf(p, LiveStreams(p))
        /\ Cardinality(LiveStreams(p)) =
             Cardinality(LiveStreams(st.streams)) + (IF st.streams[key] = Hole THEN 1 ELSE 0)
    <2>1. CASE st.streams[key] = Hole
      BY <1>1, <1>2, <2>1, PutStreamSize DEF SizeWith
    <2>2. CASE st.streams[key] # Hole
      BY <1>1, <1>2, <2>2, PutStreamSize DEF SizeWith
    <2>. QED BY <2>1, <2>2
  <1>6. new \in SegStates /\ new.streams = p /\ new.bytes = b /\ new.out = out
    BY <1>1, <1>3, <1>4, <1>5 DEF SegStates
  <1>7. StreamsGood(p)
    <2>. SUFFICES ASSUME NEW k \in LiveStreams(p) PROVE StreamGood(p[k])
      BY DEF StreamsGood
    <2>1. CASE k = key
      BY <1>4, <2>1
    <2>2. CASE k # key
      <3>1. k \in LiveStreams(st.streams) /\ k \in StreamKeys
        BY <1>4, <2>2 DEF LiveStreams
      <3>. QED BY <1>4, <2>2, <3>1 DEF SegGood, StreamsGood
    <2>. QED BY <2>1, <2>2
  <1>8. SegGood(new)
    BY <1>5, <1>6, <1>7 DEF SegGood, SegBalanced
  <1>. QED BY <1>4, <1>5, <1>6, <1>8 DEF StreamIn

LEMMA NewStreamGood ==
  ASSUME NEW now \in Nat, NEW seq \in 0..SeqMod-1
  PROVE  /\ NewStream(seq, now) \in SegStreams /\ StreamGood(NewStream(seq, now))
         /\ NewStream(seq, now).accounted = 0
  <1>1. <<>> \in Seq(Byte \cup {Hole}) /\ Len(<<>>) = 0 /\ FALSE \in BOOLEAN
    OBVIOUS
  <1>. DEFINE no == FALSE
  <1>2. no \in BOOLEAN
    OBVIOUS
  <1>3. NewStream(seq, now) =
          [base |-> seq, data |-> <<>>, cap |-> 0, accounted |-> 0, prefix |-> 0,
           short |-> Hole, finished |-> no, first |-> now, last |-> now]
    BY DEF NewStream
  <1>. HIDE DEF no
  <1>4. NewStream(seq, now) \in SegStreams
    BY <1>1, <1>2, <1>3 DEF SegStreams
  <1>5. NewStream(seq, now).data = <<>> /\ NewStream(seq, now).prefix = 0 /\ NewStream(seq, now).accounted = 0
    BY <1>3
  <1>. QED BY <1>1, <1>4, <1>5, SegConstants DEF StreamGood, StreamSound

SeenStream(s, now) == [s EXCEPT !.last = now]

LEMMA SeenStreamGood ==
  ASSUME NEW s \in SegStreams, NEW now \in Nat, StreamGood(s)
  PROVE  /\ SeenStream(s, now) \in SegStreams /\ StreamGood(SeenStream(s, now))
         /\ SeenStream(s, now).accounted = s.accounted
         /\ SeenStream(s, now).data = s.data /\ SeenStream(s, now).base = s.base
  <1>. DEFINE h == SeenStream(s, now)
  <1>1. h \in SegStreams
    BY DEF SegStreams, SeenStream
  <1>2. h.data = s.data /\ h.prefix = s.prefix /\ h.base = s.base /\ h.accounted = s.accounted
    BY DEF SegStreams, SeenStream
  <1>. HIDE DEF h
  <1>3. StreamGood(h)
    BY <1>2 DEF StreamGood, StreamSound
  <1>. QED BY <1>1, <1>2, <1>3 DEF h

LEMMA PutIs ==
  ASSUME NEW st, SegGood(st), NEW key \in StreamKeys, NEW h
  PROVE  Put(st, key, h) = Exchanged(st, key, h, st.bytes, st.out)
  <1>. DEFINE p == [st.streams EXCEPT ![key] = h]
  <1>1. st \in SegStates
    BY DEF SegGood
  <1>2. Put(st, key, h) = [st EXCEPT !.streams = p]
    BY DEF Put
  <1>. HIDE DEF p
  <1>3. [st EXCEPT !.streams = p] = [st EXCEPT !.streams = p, !.bytes = st.bytes, !.out = st.out]
    BY <1>1 DEF SegStates
  <1>. QED BY <1>2, <1>3 DEF p, Exchanged

\* Whether the segment begins a buffer.
SegBegins(st, key, now) == st.streams[key] = Hole \/ StreamIsIdle(st.streams[key], now)

\* The buffer a segment is put in: the one that was there unless that was idle.
LEMMA SegEnteredGood ==
  ASSUME NEW st, SegGood(st), SegBounded(st), NEW now \in Nat, NEW key \in StreamKeys,
         NEW seq \in 0..SeqMod-1,
         st.streams[key] = Hole => Cardinality(LiveStreams(st.streams)) < MaxStreams,
         NEW new, new = SegEntered(st, key, seq, now)
  PROVE  /\ SegGood(new) /\ SegBounded(new) /\ new.out = st.out /\ new.streams[key] # Hole
         /\ \A k \in StreamKeys \ {key} : new.streams[k] = st.streams[k]
         /\ ~SegBegins(st, key, now) => new.streams[key] = SeenStream(st.streams[key], now)
  <1>. DEFINE mid == DroppedStreams(st, {key})
              old == IF HasBuffer(st, key) /\ StreamIsIdle(st.streams[key], now)
                     THEN SegBump(mid, "idle", 1) ELSE st
              s == IF HasBuffer(old, key) THEN old.streams[key] ELSE NewStream(seq, now)
              h == SeenStream(s, now)
  <1>1. new = Put(old, key, h)
    BY DEF SegEntered, SeenStream
  <1>2. /\ SegGood(old) /\ SegBounded(old) /\ old.out = st.out
        /\ old.streams[key] = Hole => Cardinality(LiveStreams(old.streams)) < MaxStreams
        /\ \A k \in StreamKeys \ {key} : old.streams[k] = st.streams[k]
        /\ old.streams[key] = IF SegBegins(st, key, now) THEN Hole ELSE st.streams[key]
    <2>1. CASE HasBuffer(st, key) /\ StreamIsIdle(st.streams[key], now)
      <3>1. old = SegBump(mid, "idle", 1) /\ key \in LiveStreams(st.streams) /\ {key} \in SUBSET LiveStreams(st.streams)
        BY <2>1 DEF HasBuffer, LiveStreams
      <3>2. SegGood(mid) /\ SegWithout(mid, st, {key})
        BY <3>1, DroppedGood
      <3>3. SegBounded(mid)
        BY <3>1, <3>2, DroppedBounded
      <3>4. /\ mid.streams = [k \in StreamKeys |-> IF k \in {key} THEN Hole ELSE st.streams[k]]
            /\ LiveStreams(mid.streams) = LiveStreams(st.streams) \ {key} /\ mid.out = st.out
        BY <3>2, Zenon DEF SegWithout
      <3>. HIDE DEF mid, old
      <3>5. SegGood(old) /\ old.streams = mid.streams /\ old.bytes = mid.bytes /\ old.out = mid.out
        <4>1. "idle" \in SegKinds /\ 1 \in Nat
          BY DEF SegKinds
        <4>. QED BY <3>1, <3>2, <4>1, SegBumpGood
      <3>6. mid.streams[key] = Hole /\ \A k \in StreamKeys \ {key} : mid.streams[k] = st.streams[k]
        BY <3>4
      <3>7. Cardinality(LiveStreams(mid.streams)) < MaxStreams
        <4>1. LiveStreams(st.streams) \in SUBSET LiveStreams(st.streams)
          OBVIOUS
        <4>2. IsFiniteSet(LiveStreams(st.streams)) /\ Cardinality(LiveStreams(st.streams)) \in Nat
          BY <4>1, SegTyped, StreamsWeighed
        <4>3. Cardinality(LiveStreams(st.streams) \ {key}) = Cardinality(LiveStreams(st.streams)) - 1
          BY <3>1, <4>2, FS_RemoveElement
        <4>. QED BY <3>4, <4>2, <4>3, SegConstants DEF SegBounded
      <3>8. SegBegins(st, key, now)
        BY <2>1 DEF SegBegins
      <3>9. SegBounded(old)
        BY <3>3, <3>5 DEF SegBounded
      <3>. QED BY <3>4, <3>5, <3>6, <3>7, <3>8, <3>9
    <2>2. CASE ~(HasBuffer(st, key) /\ StreamIsIdle(st.streams[key], now))
      <3>1. old = st
        BY <2>2
      <3>. HIDE DEF old
      <3>. QED BY <2>2, <3>1 DEF SegBegins, HasBuffer
    <2>. QED BY <2>1, <2>2
  <1>. HIDE DEF old
  <1>3. s \in SegStreams /\ StreamGood(s)
    <2>1. CASE HasBuffer(old, key)
      BY <1>2, <2>1, LiveStream DEF HasBuffer
    <2>2. CASE ~HasBuffer(old, key)
      BY <2>2, NewStreamGood
    <2>. QED BY <2>1, <2>2
  <1>4. s.accounted = IF old.streams[key] = Hole THEN 0 ELSE old.streams[key].accounted
    BY NewStreamGood DEF HasBuffer
  <1>5. ~SegBegins(st, key, now) => s = st.streams[key]
    BY <1>2 DEF SegBegins, HasBuffer
  <1>6. old.streams[key] = Hole \/ old.streams[key].accounted \in Nat
    <2>1. old.streams[key] # Hole => old.streams[key] \in SegStreams
      BY <1>2, LiveStream
    <2>. QED BY <2>1 DEF SegStreams
  <1>. HIDE DEF s
  <1>7. h \in SegStreams /\ StreamGood(h) /\ h.accounted = s.accounted
    BY <1>3, SeenStreamGood
  <1>8. ~SegBegins(st, key, now) => h = SeenStream(st.streams[key], now)
    BY <1>5
  <1>. HIDE DEF h
  <1>9. new = Exchanged(old, key, h, old.bytes, old.out)
    BY <1>1, <1>2, PutIs
  <1>10. old.bytes \in Nat /\ old.out \in {Hole, "completed", "truncated", "missing"}
         /\ Cardinality(LiveStreams(old.streams)) \in Nat
    BY <1>2, SegTyped
  <1>11. old.bytes = SizeWith(old, key, h)
    BY <1>4, <1>6, <1>7, <1>10 DEF SizeWith
  <1>12. /\ SegGood(new) /\ new.out = old.out /\ new.bytes = old.bytes
         /\ new.streams[key] = h /\ \A k \in StreamKeys \ {key} : new.streams[k] = old.streams[k]
         /\ Cardinality(LiveStreams(new.streams)) =
              Cardinality(LiveStreams(old.streams)) + (IF old.streams[key] = Hole THEN 1 ELSE 0)
    <2>1. SegGood(new) /\ StreamIn(new, old, key, h, old.bytes, old.out)
      BY <1>2, <1>7, <1>9, <1>10, <1>11, PutStreamGood
    <2>. QED BY <2>1, Zenon DEF StreamIn
  <1>13. SegBounded(new)
    BY <1>2, <1>10, <1>12, SegConstants DEF SegBounded
  <1>. QED BY <1>2, <1>7, <1>8, <1>12, <1>13, SegConstants

-----------------------------------------------------------------------------
(* Sequence numbers *)

\* a and b are x apart, up to the wrap of the sequence numbers.
Apart(a, b, x) == \E q \in Int : a - b = SeqMod * q + x

Half == SeqMod \div 2

LEMMA HalfIs == Half \in Nat /\ Half + Half = SeqMod /\ Half > MaxStreamBytes
  <1>1. SeqMod \in Nat /\ SeqMod % 2 = 0 /\ SeqMod > 2 * MaxStreamBytes /\ MaxStreamBytes \in Nat
    BY SegConstants
  <1>2. Half \in Nat /\ Half + Half = SeqMod
    BY <1>1 DEF Half
  <1>. QED BY <1>1, <1>2

\* The distance the code computes is the one there is, ...
LEMMA DeltaApart ==
  ASSUME NEW a \in Int, NEW b \in Int
  PROVE  SeqDelta(a, b) \in Int /\ SeqDelta(a, b) < Half /\ SeqDelta(a, b) >= -Half /\ Apart(a, b, SeqDelta(a, b))
  <1>. DEFINE d == (a - b) % SeqMod
  <1>1. SeqMod \in Nat /\ SeqMod > 0
    BY SegConstants
  <1>2. PICK q \in Int : a - b = SeqMod * q + d /\ d \in 0..SeqMod-1
    <2>1. a - b \in Int
      OBVIOUS
    <2>. QED BY <1>1, <2>1, Division
  <1>3. SeqDelta(a, b) = IF d < Half THEN d ELSE d - SeqMod
    BY DEF SeqDelta, Half
  <1>. HIDE DEF d
  <1>4. CASE d < Half
    BY <1>1, <1>2, <1>3, <1>4, HalfIs DEF Apart
  <1>5. CASE ~(d < Half)
    <2>1. SeqDelta(a, b) = d - SeqMod
      BY <1>3, <1>5
    <2>2. q + 1 \in Int /\ a - b = SeqMod * (q + 1) + (d - SeqMod)
      BY <1>1, <1>2
    <2>. QED BY <1>1, <1>2, <1>5, <2>1, <2>2, HalfIs DEF Apart
  <1>. QED BY <1>4, <1>5

\* ... and a distance under half of the range is the one it computes.
LEMMA ApartDelta ==
  ASSUME NEW a \in Int, NEW b \in Int, NEW x \in Nat, x < Half, Apart(a, b, x)
  PROVE  SeqDelta(a, b) = x
  <1>1. PICK q \in Int : a - b = SeqMod * q + x
    BY DEF Apart
  <1>2. SeqMod \in Nat /\ SeqMod > 0 /\ x \in 0..SeqMod-1
    BY HalfIs, SegConstants
  <1>3. (a - b) % SeqMod = x
    BY <1>1, <1>2, Remainder
  <1>. QED BY <1>3 DEF SeqDelta, Half

-----------------------------------------------------------------------------
(* A segment lands in a buffer *)

\* t holds what s does, d places further on: its first byte is d numbers earlier.
Moved(s, t, d) ==
  /\ Apart(s.base, t.base, d) /\ d + Len(s.data) <= Len(t.data)
  /\ \A i \in 1..Len(s.data) : Held(s.data, i) => Held(t.data, d + i) /\ t.data[d + i] = s.data[i]

Shifted(s, t) == \E d \in Nat : Moved(s, t, d)

LEMMA SameShifted ==
  ASSUME NEW s \in SegStreams, NEW t, t.base = s.base, t.data = s.data
  PROVE  Shifted(s, t)
  <1>1. s.base \in Int /\ s.data \in Seq(Byte \cup {Hole}) /\ SeqMod \in Nat
    BY SegConstants DEF SegStreams
  <1>2. Apart(s.base, t.base, 0)
    <2>1. 0 \in Int /\ s.base - t.base = SeqMod * 0 + 0
      BY <1>1
    <2>. QED BY <2>1 DEF Apart
  <1>3. Moved(s, t, 0)
    BY <1>1, <1>2 DEF Moved
  <1>. QED BY <1>3 DEF Shifted

LEMMA StreamTyped ==
  ASSUME NEW s \in SegStreams
  PROVE  /\ s.base \in 0..SeqMod-1 /\ s.base \in Int /\ s.data \in Seq(Byte \cup {Hole}) /\ s.cap \in Nat
         /\ s.accounted \in Nat /\ s.prefix \in Nat /\ s.short \in Nat \cup {Hole} /\ s.finished \in BOOLEAN
         /\ s.first \in Nat /\ s.last \in Nat /\ Len(s.data) \in Nat
  BY SegConstants DEF SegStreams

\* rebase cuts nothing off when there is room for the shift.
LEMMA RebasedGood ==
  ASSUME NEW s \in SegStreams, StreamGood(s), NEW shift \in Nat, shift + Len(s.data) <= MaxStreamBytes,
         NEW seq \in 0..SeqMod-1, Apart(s.base, seq, shift), NEW t, t = Rebased(s, shift, seq)
  PROVE  t \in SegStreams /\ StreamSound(t) /\ Moved(s, t, shift) /\ t.finished = s.finished
  <1>. DEFINE cap == VecGrow(shift, shift + Len(s.data))
              gap == [i \in 1..shift |-> Hole]
              data == gap \o s.data
              whole == SubSeq(data, 1, Smaller(Len(data), MaxStreamBytes))
              short == IF s.short = Hole THEN Hole ELSE s.short + shift
              twice == 2 * cap
  <1>1. /\ s.data \in Seq(Byte \cup {Hole}) /\ s.cap \in Nat /\ s.short \in Nat \cup {Hole}
        /\ Len(s.data) \in Nat
    BY StreamTyped
  <1>2. gap \in Seq(Byte \cup {Hole}) /\ Len(gap) = shift
    OBVIOUS
  <1>3. /\ data \in Seq(Byte \cup {Hole}) /\ Len(data) = shift + Len(s.data)
        /\ \A i \in 1..Len(s.data) : data[shift + i] = s.data[i]
    <2>. HIDE DEF gap
    <2>. QED BY <1>1, <1>2
  <1>. HIDE DEF data
  <1>4. whole = data
    <2>1. Smaller(Len(data), MaxStreamBytes) = Len(data)
      BY <1>3 DEF Smaller
    <2>2. SubSeq(data, 1, Len(data)) = data
      BY <1>3
    <2>. QED BY <2>1, <2>2
  <1>5. cap \in Nat /\ twice \in Nat
    <2>1. cap \in Nat
      BY <1>1 DEF VecGrow, Larger
    <2>. HIDE DEF cap
    <2>. QED BY <2>1
  <1>6. short \in Nat \cup {Hole}
    BY <1>1
  <1>7. t = [s EXCEPT !.data = whole, !.cap = cap, !.accounted = twice, !.base = seq, !.prefix = 0, !.short = short]
    BY DEF Rebased, data
  <1>. HIDE DEF whole, cap, twice, short
  <1>8. t \in SegStreams
    <2>1. whole \in Seq(Byte \cup {Hole}) /\ 0 \in Nat
      BY <1>3, <1>4
    <2>. QED BY <1>5, <1>6, <1>7, <2>1 DEF SegStreams
  <1>9. t.data = data /\ t.base = seq /\ t.prefix = 0 /\ t.finished = s.finished
    BY <1>4, <1>7 DEF SegStreams
  <1>10. StreamSound(t)
    <2>1. Len(t.data) <= MaxStreamBytes /\ t.prefix <= Len(t.data)
      BY <1>1, <1>3, <1>9, SegConstants
    <2>2. \A i \in 1..t.prefix : Held(t.data, i)
      BY <1>9
    <2>. QED BY <2>1, <2>2 DEF StreamSound
  <1>11. Moved(s, t, shift)
    BY <1>1, <1>3, <1>9 DEF Moved, Held
  <1>. QED BY <1>8, <1>9, <1>10, <1>11

LEMMA ApartBack ==
  ASSUME NEW a \in Int, NEW b \in Int, NEW x \in Int, Apart(a, b, x)
  PROVE  Apart(b, a, -x)
  <1>1. PICK q \in Int : a - b = SeqMod * q + x
    BY DEF Apart
  <1>2. -q \in Int /\ b - a = SeqMod * (-q) + (-x)
    BY <1>1, SegConstants
  <1>. QED BY <1>2 DEF Apart

LEMMA LandingGood ==
  ASSUME NEW s \in SegStreams, StreamGood(s), NEW seq \in 0..SeqMod-1, NEW land, land = Landing(s, seq), land # Hole
  PROVE  /\ land.stream \in SegStreams /\ StreamSound(land.stream) /\ Shifted(s, land.stream)
         /\ land.stream.finished = s.finished /\ land.offset \in Nat
         /\ Apart(seq, land.stream.base, land.offset)
  <1>. DEFINE rel == SeqDelta(seq, s.base)
  <1>1. s.base \in Int /\ Len(s.data) \in Nat /\ seq \in Int /\ MaxStreamBytes \in Nat /\ SeqMod \in Nat
    BY StreamTyped, SegConstants
  <1>2. rel \in Int /\ Apart(seq, s.base, rel)
    BY <1>1, DeltaApart
  <1>3. land = IF rel < 0
               THEN IF Len(s.data) - rel > MaxStreamBytes THEN Hole
                    ELSE [stream |-> Rebased(s, -rel, seq), offset |-> 0]
               ELSE IF rel > MaxStreamBytes THEN Hole ELSE [stream |-> s, offset |-> rel]
    BY DEF Landing
  <1>. HIDE DEF rel
  <1>4. CASE rel < 0
    <2>1. /\ -rel \in Nat /\ -rel + Len(s.data) <= MaxStreamBytes
          /\ land = [stream |-> Rebased(s, -rel, seq), offset |-> 0]
      BY <1>1, <1>2, <1>3, <1>4
    <2>2. Apart(s.base, seq, -rel)
      BY <1>1, <1>2, ApartBack
    <2>. DEFINE t == Rebased(s, -rel, seq)
                d == -rel
    <2>3. d \in Nat /\ d + Len(s.data) <= MaxStreamBytes /\ Apart(s.base, seq, d) /\ t = Rebased(s, d, seq)
      BY <2>1, <2>2
    <2>. HIDE DEF t, d
    <2>4. t \in SegStreams /\ StreamSound(t) /\ Moved(s, t, d) /\ t.finished = s.finished
      BY <2>3, RebasedGood
    <2>5. land.stream = t /\ land.offset = 0
      BY <2>1 DEF t
    <2>6. t.base = seq
      BY <1>1, <2>3 DEF Rebased, SegStreams
    <2>7. Apart(seq, t.base, 0)
      <3>1. 0 \in Int /\ seq - t.base = SeqMod * 0 + 0
        BY <1>1, <2>6
      <3>. QED BY <3>1 DEF Apart
    <2>. QED BY <2>3, <2>4, <2>5, <2>7 DEF Shifted
  <1>5. CASE ~(rel < 0)
    <2>1. land = [stream |-> s, offset |-> rel] /\ rel \in Nat
      BY <1>2, <1>3, <1>5
    <2>2. land.stream = s /\ land.offset = rel
      BY <2>1
    <2>3. Shifted(s, s)
      BY SameShifted
    <2>. QED BY <1>2, <2>1, <2>2, <2>3 DEF StreamGood
  <1>. QED BY <1>4, <1>5

\* The bytes of a segment are written behind those that are there.
LEMMA ExtendedGood ==
  ASSUME NEW t \in SegStreams, StreamSound(t), NEW offset \in Nat, NEW payload \in Seq(Byte),
         NEW declared \in Nat, NEW e, e = Extended(t, offset, payload, declared)
  PROVE  e \in SegStreams /\ StreamGood(e) /\ Moved(t, e, 0) /\ e.base = t.base
  <1>. DEFINE data == WriteFirstSeen(t.data, offset, payload, MaxStreamBytes)
              cap == VecGrow(t.cap, Len(data))
              twice == 2 * cap
              hole == offset + Len(payload)
              prefix == ContiguousFrom(data, t.prefix)
              short == IF Len(payload) >= declared THEN t.short
                       ELSE IF t.short = Hole THEN hole ELSE Smaller(t.short, hole)
              fin == t.finished \/ HitsCap(offset, payload, MaxStreamBytes)
  <1>1. /\ t.base \in 0..SeqMod-1 /\ t.base \in Int /\ t.data \in Seq(Byte \cup {Hole}) /\ t.cap \in Nat
        /\ t.prefix \in Nat /\ t.short \in Nat \cup {Hole} /\ Len(t.data) \in Nat /\ Len(payload) \in Nat
    BY StreamTyped
  <1>2. MaxStreamBytes \in Nat
    BY SegConstants
  <1>3. /\ data \in Seq(Byte \cup {Hole}) /\ Len(data) >= Len(t.data)
        /\ Len(data) <= Larger(Len(t.data), MaxStreamBytes)
        /\ \A i \in 1..Len(t.data) : Held(t.data, i) => Held(data, i) /\ data[i] = t.data[i]
    <2>. HIDE DEF data
    <2>1. data \in Seq(Byte \cup {Hole}) /\ Writes(data, t.data, offset, payload, MaxStreamBytes)
      BY <1>1, <1>2, WriteKeeps DEF data
    <2>. QED BY <2>1 DEF Writes
  <1>. HIDE DEF data
  <1>4. Len(data) \in Nat /\ Len(data) <= MaxStreamBytes
    BY <1>1, <1>2, <1>3 DEF StreamSound, Larger
  <1>5. cap \in Nat /\ twice \in Nat
    <2>1. cap \in Nat
      BY <1>1, <1>4 DEF VecGrow, Larger
    <2>. HIDE DEF cap
    <2>. QED BY <2>1
  <1>6. t.prefix <= Len(data) /\ \A i \in 1..t.prefix : Held(data, i)
    <2>1. t.prefix <= Len(t.data) /\ \A i \in 1..t.prefix : Held(t.data, i)
      BY DEF StreamSound
    <2>2. \A i \in 1..t.prefix : i \in 1..Len(t.data)
      BY <1>1, <2>1
    <2>3. t.prefix <= Len(data)
      <3>1. Len(data) >= Len(t.data)
        BY <1>3
      <3>. QED BY <1>1, <1>4, <2>1, <3>1
    <2>4. \A i \in 1..Len(t.data) : Held(t.data, i) => Held(data, i)
      BY <1>3
    <2>5. \A i \in 1..t.prefix : Held(data, i)
      BY <2>1, <2>2, <2>4, Zenon
    <2>. QED BY <2>3, <2>5
  <1>7. /\ prefix \in Nat /\ prefix <= Len(data) /\ \A i \in 1..prefix : Held(data, i)
        /\ prefix < Len(data) => ~Held(data, prefix + 1)
    BY <1>1, <1>3, <1>6, ContiguousIsRun
  <1>8. short \in Nat \cup {Hole}
    BY <1>1 DEF Smaller
  <1>9. fin \in BOOLEAN
    OBVIOUS
  <1>10. e = [t EXCEPT !.data = data, !.cap = cap, !.accounted = twice, !.prefix = prefix, !.short = short,
                       !.finished = fin]
    BY DEF Extended, data
  <1>. HIDE DEF cap, twice, prefix, short, fin
  <1>11. e \in SegStreams
    BY <1>3, <1>5, <1>7, <1>8, <1>9, <1>10 DEF SegStreams
  <1>12. e.data = data /\ e.prefix = prefix /\ e.base = t.base
    BY <1>10 DEF SegStreams
  <1>13. StreamGood(e)
    BY <1>4, <1>7, <1>12 DEF StreamGood, StreamSound
  <1>14. Apart(t.base, e.base, 0)
    <2>1. 0 \in Int /\ t.base - e.base = SeqMod * 0 + 0
      BY <1>1, <1>12, SegConstants
    <2>. QED BY <2>1 DEF Apart
  <1>15. Moved(t, e, 0)
    BY <1>1, <1>3, <1>4, <1>12, <1>14 DEF Moved
  <1>. QED BY <1>11, <1>12, <1>13, <1>15

LEMMA ShiftedOn ==
  ASSUME NEW s \in SegStreams, NEW t \in SegStreams, NEW e \in SegStreams, Shifted(s, t), Moved(t, e, 0),
         e.base = t.base
  PROVE  Shifted(s, e)
  <1>1. PICK d \in Nat : Moved(s, t, d)
    BY DEF Shifted
  <1>2. Len(s.data) \in Nat /\ Len(t.data) \in Nat /\ Len(e.data) \in Nat
    BY StreamTyped
  <1>3. Apart(s.base, e.base, d)
    BY <1>1 DEF Moved
  <1>4. d + Len(s.data) <= Len(t.data) /\ Len(t.data) <= Len(e.data)
    BY <1>1, <1>2 DEF Moved
  <1>5. ASSUME NEW i \in 1..Len(s.data), Held(s.data, i)
        PROVE  Held(e.data, d + i) /\ e.data[d + i] = s.data[i]
    <2>1. Held(t.data, d + i) /\ t.data[d + i] = s.data[i] /\ d + i \in 1..Len(t.data)
      BY <1>1, <1>2, <1>4, <1>5 DEF Moved
    <2>2. \A j \in 1..Len(t.data) : Held(t.data, j) => Held(e.data, 0 + j) /\ e.data[0 + j] = t.data[j]
      BY DEF Moved
    <2>3. Held(e.data, 0 + (d + i)) /\ e.data[0 + (d + i)] = t.data[d + i] /\ 0 + (d + i) = d + i
      BY <2>1, <2>2
    <2>. QED BY <2>1, <2>3
  <1>6. Moved(s, e, d)
    BY <1>2, <1>3, <1>4, <1>5 DEF Moved
  <1>. QED BY <1>6 DEF Shifted

LEMMA StatusOf ==
  ASSUME NEW s
  PROVE  StreamStatus(s) \in {Hole, "completed", "truncated", "missing"}
  BY DEF StreamStatus

\* What writing leaves: the buffer extended, unless it or others made room.
LEMMA SegWrittenGood ==
  ASSUME NEW st, SegGood(st), NEW key \in StreamKeys, st.streams[key] # Hole,
         NEW land, land.stream \in SegStreams, StreamSound(land.stream), land.offset \in Nat,
         NEW payload \in Seq(Byte), NEW declared \in Nat,
         NEW new \in SegWritten(st, key, land, payload, declared)
  PROVE  /\ SegGood(new) /\ SegBounded(new)
         /\ \A k \in StreamKeys \ {key} : new.streams[k] \in {Hole, st.streams[k]}
         /\ new.streams[key] # Hole =>
              new.streams[key] = Extended(land.stream, land.offset, payload, declared)
  <1>. DEFINE old == st.streams[key]
              s == Extended(land.stream, land.offset, payload, declared)
              hitCap == HitsCap(land.offset, payload, MaxStreamBytes)
              changed == hitCap \/ NewlyWritten(land.stream.data, land.offset, payload, MaxStreamBytes) # {}
              b == SatSub(st.bytes + s.accounted, old.accounted)
              out == IF changed THEN StreamStatus(s) ELSE Hole
              put == Exchanged(st, key, s, b, out)
              n == Cardinality(Conflicts(land.stream.data, land.offset, payload, MaxStreamBytes))
              m == IF hitCap THEN 1 ELSE 0
              one == SegBump(put, "conflictingBytes", n)
              two == SegBump(one, "abandoned", m)
  <1>1. s \in SegStreams /\ StreamGood(s)
    BY ExtendedGood
  <1>2. out \in {Hole, "completed", "truncated", "missing"}
    BY StatusOf
  <1>3. n \in Nat
    BY ConflictsCounted, SegConstants
  <1>4. m \in Nat
    OBVIOUS
  <1>5. st.bytes \in Nat /\ old.accounted \in Nat /\ s.accounted \in Nat /\ st.bytes >= old.accounted
    <2>1. st.streams \in [StreamKeys -> SegStreams \cup {Hole}] /\ st.bytes \in Nat
          /\ st.bytes = SizeOf(st.streams, LiveStreams(st.streams))
      BY SegTyped
    <2>. HIDE DEF s
    <2>. DEFINE p == [st.streams EXCEPT ![key] = s]
    <2>2. p = [st.streams EXCEPT ![key] = s]
      OBVIOUS
    <2>. HIDE DEF p
    <2>. QED BY <1>1, <2>1, <2>2, PutStreamSize
  <1>6. new \in SegEvictedUntil(two, MaxStreams, MaxSegBytes)
    <2>1. [Put(st, key, s) EXCEPT !.bytes = SatSub(@ + s.accounted, old.accounted), !.out = out] = put
      <3>. HIDE DEF s, out
      <3>. DEFINE p == [st.streams EXCEPT ![key] = s]
      <3>1. st \in SegStates
        BY DEF SegGood
      <3>2. Put(st, key, s) = [st EXCEPT !.streams = p] /\ put = [st EXCEPT !.streams = p, !.bytes = b, !.out = out]
        BY DEF Put, Exchanged
      <3>. HIDE DEF p
      <3>3. [[st EXCEPT !.streams = p] EXCEPT !.bytes = SatSub(@ + s.accounted, old.accounted), !.out = out]
            = [st EXCEPT !.streams = p, !.bytes = b, !.out = out]
        BY <3>1 DEF SegStates
      <3>. QED BY <3>2, <3>3
    <2>. HIDE DEF put
    <2>. QED BY <2>1 DEF SegWritten
  <1>7. b = SizeWith(st, key, s)
    <2>. HIDE DEF s
    <2>. QED BY <1>5 DEF SizeWith, SatSub
  <1>. HIDE DEF out, s, b
  <1>8. SegGood(put) /\ StreamIn(put, st, key, s, b, out)
    <2>. HIDE DEF put
    <2>. QED BY <1>1, <1>2, <1>7, PutStreamGood DEF put
  <1>9. put.streams[key] = s /\ \A k \in StreamKeys \ {key} : put.streams[k] = st.streams[k]
    BY <1>8, Zenon DEF StreamIn
  <1>. HIDE DEF put, n, m
  <1>10. SegGood(one) /\ one.streams = put.streams
    <2>1. "conflictingBytes" \in SegKinds
      BY DEF SegKinds
    <2>. QED BY <1>3, <1>8, <2>1, SegBumpGood
  <1>. HIDE DEF one
  <1>11. SegGood(two) /\ two.streams = put.streams
    <2>1. "abandoned" \in SegKinds
      BY DEF SegKinds
    <2>. QED BY <1>4, <1>10, <2>1, SegBumpGood
  <1>. HIDE DEF two
  <1>12. /\ SegGood(new) /\ Cardinality(LiveStreams(new.streams)) <= MaxStreams /\ new.bytes <= MaxSegBytes
         /\ SegFewer(new.streams, two.streams)
    BY <1>6, <1>11, SegConstants, SegEvictedGood
  <1>13. \A k \in StreamKeys : new.streams[k] \in {Hole, put.streams[k]}
    BY <1>11, <1>12 DEF SegFewer
  <1>. QED BY <1>9, <1>12, <1>13 DEF SegBounded, s

AbandonedStream(s) == [ReleasedStream(s) EXCEPT !.finished = TRUE]

LEMMA ReleasedStreamGood ==
  ASSUME NEW s \in SegStreams, NEW h, h = AbandonedStream(s)
  PROVE  h \in SegStreams /\ StreamGood(h) /\ h.accounted = 0 /\ h.finished
  <1>. DEFINE yes == TRUE
  <1>1. yes \in BOOLEAN /\ <<>> \in Seq(Byte \cup {Hole}) /\ Len(<<>>) = 0 /\ 0 \in Nat
    OBVIOUS
  <1>2. h = [s EXCEPT !.data = <<>>, !.cap = 0, !.accounted = 0, !.prefix = 0, !.finished = yes]
    BY DEF AbandonedStream, ReleasedStream, SegStreams
  <1>. HIDE DEF yes
  <1>3. h \in SegStreams
    BY <1>1, <1>2 DEF SegStreams
  <1>4. h.data = <<>> /\ h.prefix = 0 /\ h.accounted = 0 /\ h.finished = yes
    BY <1>2 DEF SegStreams
  <1>5. StreamGood(h)
    BY <1>1, <1>4, SegConstants DEF StreamGood, StreamSound
  <1>. QED BY <1>3, <1>4, <1>5 DEF yes

\* A direction that did not decide in time gives its bytes up and stays finished.
GivenUp(st, key, h) == [Put(st, key, h) EXCEPT !.bytes = SatSub(@, st.streams[key].accounted)]

LEMMA GivenUpGood ==
  ASSUME NEW st, SegGood(st), SegBounded(st), st.out = Hole, NEW key \in StreamKeys, st.streams[key] # Hole,
         NEW h, h = AbandonedStream(st.streams[key]),
         NEW put, put = GivenUp(st, key, h),
         NEW new, new = SegBump(put, "abandoned", 1)
  PROVE  /\ SegGood(new) /\ SegBounded(new) /\ new.out = Hole
         /\ \A k \in StreamKeys \ {key} : new.streams[k] = st.streams[k]
         /\ new.streams[key] \in SegStreams /\ new.streams[key].finished
  <1>. DEFINE s == st.streams[key]
              b == SatSub(st.bytes, s.accounted)
  <1>1. s \in SegStreams /\ StreamGood(s)
    BY LiveStream
  <1>2. h \in SegStreams /\ StreamGood(h) /\ h.accounted = 0 /\ h.finished
    BY <1>1, ReleasedStreamGood
  <1>3. put = Exchanged(st, key, h, b, Hole)
    <2>. DEFINE p == [st.streams EXCEPT ![key] = h]
    <2>1. st \in SegStates
      BY DEF SegGood
    <2>2. Put(st, key, h) = [st EXCEPT !.streams = p]
          /\ Exchanged(st, key, h, b, Hole) = [st EXCEPT !.streams = p, !.bytes = b, !.out = Hole]
      BY DEF Put, Exchanged
    <2>. HIDE DEF p
    <2>3. [[st EXCEPT !.streams = p] EXCEPT !.bytes = SatSub(@, s.accounted)]
          = [st EXCEPT !.streams = p, !.bytes = b, !.out = Hole]
      BY <2>1 DEF SegStates
    <2>. QED BY <2>2, <2>3 DEF GivenUp
  <1>4. /\ st.bytes \in Nat /\ s.accounted \in Nat /\ st.bytes >= s.accounted
        /\ Cardinality(LiveStreams(st.streams)) \in Nat
    <2>1. /\ st.streams \in [StreamKeys -> SegStreams \cup {Hole}] /\ st.bytes \in Nat
          /\ st.bytes = SizeOf(st.streams, LiveStreams(st.streams))
          /\ Cardinality(LiveStreams(st.streams)) \in Nat
      BY SegTyped
    <2>. DEFINE p == [st.streams EXCEPT ![key] = h]
    <2>2. p = [st.streams EXCEPT ![key] = h]
      OBVIOUS
    <2>. HIDE DEF p
    <2>. QED BY <1>1, <1>2, <2>1, <2>2, PutStreamSize
  <1>5. b = SizeWith(st, key, h) /\ b <= st.bytes
    BY <1>2, <1>4 DEF SizeWith, SatSub
  <1>. HIDE DEF b
  <1>6. SegGood(put) /\ StreamIn(put, st, key, h, b, Hole)
    BY <1>2, <1>3, <1>5, PutStreamGood
  <1>7. /\ put.streams[key] = h /\ \A k \in StreamKeys \ {key} : put.streams[k] = st.streams[k]
        /\ put.bytes = b /\ b \in Nat /\ put.out = Hole
        /\ Cardinality(LiveStreams(put.streams)) =
             Cardinality(LiveStreams(st.streams)) + (IF st.streams[key] = Hole THEN 1 ELSE 0)
    BY <1>6, Zenon DEF StreamIn
  <1>8. SegGood(new) /\ new.streams = put.streams /\ new.bytes = put.bytes /\ new.out = put.out
    <2>. DEFINE kind == "abandoned"
                one == 1
    <2>1. kind \in SegKinds /\ one \in Nat /\ new = SegBump(put, kind, one)
      BY DEF SegKinds
    <2>. HIDE DEF kind, one
    <2>. QED BY <1>6, <2>1, SegBumpGood
  <1>9. SegBounded(new)
    <2>1. Cardinality(LiveStreams(put.streams)) = Cardinality(LiveStreams(st.streams))
      BY <1>4, <1>7
    <2>. QED BY <1>4, <1>5, <1>7, <1>8, <2>1, SegConstants DEF SegBounded
  <1>. QED BY <1>2, <1>7, <1>8, <1>9

\* What a call may make of the buffer s: none, one given up, or one that holds all s did.
After(s, t, answered) == t # Hole => t \in SegStreams /\ ((t.finished /\ ~answered) \/ Shifted(s, t))

LEMMA SegAbsorbedGood ==
  ASSUME NEW st, SegGood(st), SegBounded(st), st.out = Hole, NEW key \in StreamKeys, st.streams[key] # Hole,
         NEW seq \in 0..SeqMod-1, NEW payload \in Seq(Byte), NEW declared \in Nat, NEW now \in Nat,
         NEW new \in SegAbsorbed(st, key, seq, payload, declared, now)
  PROVE  /\ SegGood(new) /\ SegBounded(new)
         /\ \A k \in StreamKeys \ {key} : new.streams[k] \in {Hole, st.streams[k]}
         /\ After(st.streams[key], new.streams[key], new.out # Hole)
  <1>. DEFINE s == st.streams[key]
              land == Landing(s, seq)
              h == AbandonedStream(s)
              put == GivenUp(st, key, h)
  <1>1. s \in SegStreams /\ StreamGood(s) /\ key \in LiveStreams(st.streams) /\ {key} \in SUBSET LiveStreams(st.streams)
    BY LiveStream
  <1>2. new \in IF s.finished THEN {DroppedStreams(st, {key})}
                ELSE IF SatSub(now, s.first) > DecisionWindow THEN {SegBump(put, "abandoned", 1)}
                ELSE IF land = Hole THEN {st}
                ELSE SegWritten(st, key, land, payload, declared)
    BY DEF SegAbsorbed, GivenUp, AbandonedStream
  <1>3. CASE s.finished
    <2>1. new = DroppedStreams(st, {key})
      BY <1>2, <1>3
    <2>2. SegGood(new) /\ SegWithout(new, st, {key})
      BY <1>1, <2>1, DroppedGood
    <2>3. SegBounded(new)
      BY <1>1, <2>2, DroppedBounded
    <2>4. new.streams = [k \in StreamKeys |-> IF k \in {key} THEN Hole ELSE st.streams[k]]
      BY <2>2, Zenon DEF SegWithout
    <2>. QED BY <2>2, <2>3, <2>4 DEF After
  <1>4. CASE ~s.finished /\ SatSub(now, s.first) > DecisionWindow
    <2>1. new = SegBump(put, "abandoned", 1)
      BY <1>2, <1>4
    <2>2. /\ SegGood(new) /\ SegBounded(new) /\ new.out = Hole
          /\ \A k \in StreamKeys \ {key} : new.streams[k] = st.streams[k]
          /\ new.streams[key] \in SegStreams /\ new.streams[key].finished
      <3>. HIDE DEF put
      <3>1. put = GivenUp(st, key, h)
        BY DEF put
      <3>. QED BY <2>1, <3>1, GivenUpGood
    <2>. QED BY <2>2 DEF After
  <1>5. CASE ~s.finished /\ ~(SatSub(now, s.first) > DecisionWindow) /\ land = Hole
    <2>1. new = st
      BY <1>2, <1>5
    <2>2. Shifted(s, s)
      BY <1>1, SameShifted
    <2>. QED BY <1>1, <2>1, <2>2 DEF After
  <1>6. CASE ~s.finished /\ ~(SatSub(now, s.first) > DecisionWindow) /\ land # Hole
    <2>1. new \in SegWritten(st, key, land, payload, declared)
      BY <1>2, <1>6
    <2>2. /\ land.stream \in SegStreams /\ StreamSound(land.stream) /\ Shifted(s, land.stream)
          /\ land.offset \in Nat
      <3>. HIDE DEF s
      <3>. QED BY <1>1, <1>6, LandingGood
    <2>. DEFINE e == Extended(land.stream, land.offset, payload, declared)
    <2>. HIDE DEF land
    <2>3. e \in SegStreams /\ Moved(land.stream, e, 0) /\ e.base = land.stream.base
      BY <2>2, ExtendedGood
    <2>4. /\ SegGood(new) /\ SegBounded(new)
          /\ \A k \in StreamKeys \ {key} : new.streams[k] \in {Hole, st.streams[k]}
          /\ new.streams[key] # Hole => new.streams[key] = e
      BY <2>1, <2>2, SegWrittenGood
    <2>. HIDE DEF e, s
    <2>5. Shifted(s, e)
      BY <1>1, <2>2, <2>3, ShiftedOn
    <2>. QED BY <2>3, <2>4, <2>5 DEF After, s
  <1>. QED BY <1>3, <1>4, <1>5, <1>6

\* feed: what it returns, and what it makes of every buffer that was not idle.
LEMMA SegFedGood ==
  ASSUME NEW st0, SegGood(st0), SegBounded(st0), NEW key \in StreamKeys, NEW seq \in 0..SeqMod-1,
         NEW payload \in Seq(Byte), NEW declared \in Nat, NEW now \in Nat,
         NEW new \in SegFed(st0, key, seq, payload, declared, now)
  PROVE  /\ SegGood(new) /\ SegBounded(new)
         /\ \A k \in StreamKeys \ {key} : new.streams[k] \in {Hole, st0.streams[k]}
         /\ ~SegBegins(st0, key, now) => After(st0.streams[key], new.streams[key], new.out # Hole)
         /\ new.out # Hole => payload # <<>>
  <1>. DEFINE st == [st0 EXCEPT !.out = Hole]
  <1>1. st0 \in SegStates /\ st0.streams \in [StreamKeys -> SegStreams \cup {Hole}]
    BY SegTyped DEF SegGood
  <1>2. st \in SegStates /\ st.streams = st0.streams /\ st.bytes = st0.bytes /\ st.out = Hole
    BY <1>1 DEF SegStates
  <1>3. SegGood(st) /\ SegBounded(st)
    <2>. HIDE DEF st
    <2>. QED BY <1>2 DEF SegGood, SegBalanced, SegBounded
  <1>4. CASE payload = <<>>
    <2>1. new = st
      BY <1>4 DEF SegFed
    <2>2. ~SegBegins(st0, key, now) => st0.streams[key] \in SegStreams /\ Shifted(st0.streams[key], st0.streams[key])
      BY LiveStream, SameShifted DEF SegBegins
    <2>. HIDE DEF st
    <2>. QED BY <1>2, <1>3, <2>1, <2>2 DEF After
  <1>5. CASE payload # <<>>
    <2>1. PICK room \in SegRoomFor(st, key) :
            new \in SegAbsorbed(SegEntered(room, key, seq, now), key, seq, payload, declared, now)
      BY <1>5 DEF SegFed
    <2>. HIDE DEF st
    <2>2. /\ SegGood(room) /\ SegBounded(room) /\ room.streams[key] = st.streams[key]
          /\ room.out = Hole /\ SegFewer(room.streams, st.streams)
          /\ room.streams[key] = Hole => Cardinality(LiveStreams(room.streams)) < MaxStreams
      BY <1>2, <1>3, SegRoomGood
    <2>. DEFINE in == SegEntered(room, key, seq, now)
    <2>3. /\ SegGood(in) /\ SegBounded(in) /\ in.out = Hole /\ in.streams[key] # Hole
          /\ \A k \in StreamKeys \ {key} : in.streams[k] = room.streams[k]
          /\ ~SegBegins(room, key, now) => in.streams[key] = SeenStream(room.streams[key], now)
      BY <2>2, SegEnteredGood
    <2>4. new \in SegAbsorbed(in, key, seq, payload, declared, now)
      BY <2>1
    <2>. HIDE DEF in
    <2>5. /\ SegGood(new) /\ SegBounded(new)
          /\ \A k \in StreamKeys \ {key} : new.streams[k] \in {Hole, in.streams[k]}
          /\ After(in.streams[key], new.streams[key], new.out # Hole)
      BY <2>3, <2>4, SegAbsorbedGood
    <2>6. ASSUME NEW k \in StreamKeys \ {key} PROVE new.streams[k] \in {Hole, st0.streams[k]}
      <3>1. room.streams[k] \in {Hole, st.streams[k]}
        BY <2>2 DEF SegFewer
      <3>2. new.streams[k] \in {Hole, in.streams[k]} /\ in.streams[k] = room.streams[k]
        BY <2>3, <2>5
      <3>. QED BY <1>2, <3>1, <3>2
    <2>7. ASSUME ~SegBegins(st0, key, now)
          PROVE  After(st0.streams[key], new.streams[key], new.out # Hole)
      <3>. DEFINE s == st0.streams[key]
                  t == SeenStream(s, now)
      <3>1. s = room.streams[key] /\ ~SegBegins(room, key, now)
        BY <1>2, <2>2, <2>7 DEF SegBegins
      <3>2. s \in SegStreams /\ StreamGood(s)
        BY <2>7, LiveStream DEF SegBegins
      <3>3. in.streams[key] = t
        BY <2>3, <3>1
      <3>. HIDE DEF s
      <3>4. t.data = s.data /\ t.base = s.base /\ t \in SegStreams
        BY <3>2, SeenStreamGood
      <3>. HIDE DEF t
      <3>5. ASSUME NEW e, Shifted(t, e) PROVE Shifted(s, e)
        BY <3>4, <3>5 DEF Shifted, Moved
      <3>. QED BY <2>5, <3>3, <3>5 DEF After, s
    <2>. QED BY <1>5, <2>5, <2>6, <2>7
  <1>. QED BY <1>4, <1>5

SameElsewhere(streams, others, key) == \A k \in StreamKeys \ {key} : streams[k] = others[k]

LEMMA SegFinishedGood ==
  ASSUME NEW st, SegGood(st), SegBounded(st), NEW key \in StreamKeys,
         NEW status \in {"completed", "truncated", "missing"}, NEW new, new = SegFinished(st, key, status)
  PROVE  /\ SegGood(new) /\ SegBounded(new) /\ new.streams[key] = Hole
         /\ SameElsewhere(new.streams, st.streams, key)
  <1>. USE DEF SameElsewhere
  <1>1. CASE HasBuffer(st, key)
    <2>. DEFINE mid == DroppedStreams(st, {key})
                one == 1
    <2>1. new = SegBump(mid, status, one) /\ one \in Nat /\ status \in SegKinds
      BY <1>1 DEF SegFinished, SegKinds
    <2>2. key \in LiveStreams(st.streams) /\ {key} \in SUBSET LiveStreams(st.streams)
      BY <1>1 DEF HasBuffer, LiveStreams
    <2>3. SegGood(mid) /\ SegWithout(mid, st, {key})
      BY <2>2, DroppedGood
    <2>4. SegBounded(mid)
      BY <2>2, <2>3, DroppedBounded
    <2>5. mid.streams = [k \in StreamKeys |-> IF k \in {key} THEN Hole ELSE st.streams[k]]
      BY <2>3, Zenon DEF SegWithout
    <2>. HIDE DEF mid, one
    <2>6. SegGood(new) /\ new.streams = mid.streams /\ new.bytes = mid.bytes
      BY <2>1, <2>3, SegBumpGood
    <2>7. SegBounded(new)
      BY <2>4, <2>6 DEF SegBounded
    <2>. QED BY <2>5, <2>6, <2>7
  <1>2. CASE ~HasBuffer(st, key)
    BY <1>2 DEF SegFinished, HasBuffer
  <1>. QED BY <1>1, <1>2

LEMMA SegEvictStaleGood ==
  ASSUME NEW st, SegGood(st), NEW now \in Nat, NEW new \in SegEvictStale(st, now)
  PROVE  /\ SegGood(new) /\ SegBounded(new) /\ SegFewer(new.streams, st.streams)
  <1>. DEFINE idle == {k \in LiveStreams(st.streams) : StreamIsIdle(st.streams[k], now)}
              mid == DroppedStreams(st, idle)
              n == Cardinality(idle)
              kind == "idle"
              bumped == SegBump(mid, kind, n)
  <1>1. idle \in SUBSET LiveStreams(st.streams) /\ kind \in SegKinds
    BY DEF SegKinds
  <1>2. new \in SegEvictedUntil(bumped, MaxStreams, MaxSegBytes)
    BY DEF SegEvictStale
  <1>. HIDE DEF idle, kind
  <1>3. n \in Nat
    BY <1>1, SegTyped, StreamsWeighed
  <1>4. SegGood(mid) /\ SegWithout(mid, st, idle)
    BY <1>1, DroppedGood
  <1>5. mid.streams = [k \in StreamKeys |-> IF k \in idle THEN Hole ELSE st.streams[k]]
    BY <1>4, Zenon DEF SegWithout
  <1>. HIDE DEF mid, n
  <1>6. SegGood(bumped) /\ bumped.streams = mid.streams
    BY <1>1, <1>3, <1>4, SegBumpGood
  <1>. HIDE DEF bumped
  <1>7. /\ SegGood(new) /\ Cardinality(LiveStreams(new.streams)) <= MaxStreams /\ new.bytes <= MaxSegBytes
        /\ SegFewer(new.streams, bumped.streams)
    BY <1>2, <1>6, SegConstants, SegEvictedGood
  <1>. QED BY <1>5, <1>6, <1>7 DEF SegBounded, SegFewer

\* The known prefix of a buffer is its whole run.
LEMMA PrefixIsRun ==
  ASSUME NEW s \in SegStreams, StreamGood(s)
  PROVE  s.prefix = ContiguousFrom(s.data, 0)
  <1>. DEFINE n == ContiguousFrom(s.data, 0)
  <1>1. s.data \in Seq(Byte \cup {Hole}) /\ s.prefix \in Nat /\ Len(s.data) \in Nat
    BY StreamTyped
  <1>2. 0 \in Nat /\ 0 <= Len(s.data) /\ \A i \in 1..0 : Held(s.data, i)
    BY <1>1
  <1>3. /\ n \in Nat /\ n <= Len(s.data) /\ \A i \in 1..n : Held(s.data, i)
        /\ n < Len(s.data) => ~Held(s.data, n + 1)
    BY <1>1, <1>2, ContiguousIsRun
  <1>. HIDE DEF n
  <1>4. /\ s.prefix <= Len(s.data) /\ \A i \in 1..s.prefix : Held(s.data, i)
        /\ s.prefix < Len(s.data) => ~Held(s.data, s.prefix + 1)
    BY DEF StreamGood, StreamSound
  <1>5. ~(n < s.prefix)
    <2>. SUFFICES ASSUME n < s.prefix PROVE FALSE
      OBVIOUS
    <2>1. n + 1 \in 1..s.prefix /\ n < Len(s.data)
      BY <1>1, <1>3, <1>4
    <2>. QED BY <1>3, <1>4, <2>1
  <1>6. ~(s.prefix < n)
    <2>. SUFFICES ASSUME s.prefix < n PROVE FALSE
      OBVIOUS
    <2>1. s.prefix + 1 \in 1..n /\ s.prefix < Len(s.data)
      BY <1>1, <1>3, <1>4
    <2>. QED BY <1>3, <1>4, <2>1
  <1>7. s.prefix = n
    BY <1>1, <1>3, <1>5, <1>6
  <1>. QED BY <1>7 DEF n

-----------------------------------------------------------------------------
(* The boundaries of DNS messages: never more of them than buffers may be *)

FramesGood(frames) ==
  frames = [k \in StreamKeys |-> frames[k]] /\ Cardinality(Framed(frames)) <= MaxStreams

LEMMA FramedFinite ==
  ASSUME NEW frames
  PROVE  IsFiniteSet(Framed(frames)) /\ Cardinality(Framed(frames)) \in Nat
  <1>1. Framed(frames) \in SUBSET StreamKeys
    BY DEF Framed
  <1>. QED BY <1>1, SegConstants, FS_Subset, FS_CardinalityType

LEMMA FewerFramed ==
  ASSUME NEW frames, FramesGood(frames), NEW new, new = [k \in StreamKeys |-> new[k]],
         Framed(new) \subseteq Framed(frames)
  PROVE  FramesGood(new)
  <1>1. Cardinality(Framed(new)) <= Cardinality(Framed(frames))
    BY FramedFinite, FS_Subset
  <1>2. Cardinality(Framed(frames)) <= MaxStreams
    BY DEF FramesGood
  <1>. QED BY <1>1, <1>2, FramedFinite, SegConstants DEF FramesGood

LEMMA ForgetGood ==
  ASSUME NEW frames, FramesGood(frames), NEW key \in StreamKeys, NEW new, new = Forget(frames, key)
  PROVE  FramesGood(new) /\ Framed(new) = Framed(frames) \ {key}
  <1>1. frames = [k \in StreamKeys |-> frames[k]]
    BY DEF FramesGood
  <1>2. new = [k \in StreamKeys |-> IF k = key THEN Hole ELSE frames[k]]
    BY <1>1 DEF Forget
  <1>3. Framed(new) = Framed(frames) \ {key}
    BY <1>2 DEF Framed
  <1>4. new = [k \in StreamKeys |-> new[k]]
    BY <1>2
  <1>. QED BY <1>3, <1>4, FewerFramed

LEMMA LapseGood ==
  ASSUME NEW frames, FramesGood(frames), NEW key \in StreamKeys, NEW now
  PROVE  FramesGood(Lapse(frames, key, now))
  BY ForgetGood DEF Lapse

\* A boundary set where there is one already, or where there is room.
LEMMA SetFrame ==
  ASSUME NEW f, FramesGood(f), NEW key \in StreamKeys, NEW boundary,
         f[key] # Hole \/ Cardinality(Framed(f)) < MaxStreams
  PROVE  FramesGood([f EXCEPT ![key] = boundary])
  <1>. DEFINE new == [f EXCEPT ![key] = boundary]
  <1>1. f = [k \in StreamKeys |-> f[k]]
    BY DEF FramesGood
  <1>2. new = [k \in StreamKeys |-> IF k = key THEN boundary ELSE f[k]]
    BY <1>1
  <1>3. new = [k \in StreamKeys |-> new[k]] /\ Framed(new) \subseteq Framed(f) \cup {key}
    BY <1>2 DEF Framed
  <1>. HIDE DEF new
  <1>4. CASE f[key] # Hole
    <2>1. Framed(new) \subseteq Framed(f)
      BY <1>3, <1>4 DEF Framed
    <2>. QED BY <1>3, <2>1, FewerFramed DEF new
  <1>5. CASE f[key] = Hole
    <2>1. key \notin Framed(f)
      BY <1>5 DEF Framed
    <2>2. IsFiniteSet(Framed(f) \cup {key}) /\ Cardinality(Framed(f) \cup {key}) = Cardinality(Framed(f)) + 1
      BY <2>1, FramedFinite, FS_AddElement
    <2>3. Cardinality(Framed(new)) <= Cardinality(Framed(f) \cup {key})
      BY <1>3, <2>2, FS_Subset
    <2>4. Cardinality(Framed(new)) <= MaxStreams
      BY <1>5, <2>2, <2>3, FramedFinite, SegConstants
    <2>. QED BY <1>3, <2>4 DEF FramesGood, new
  <1>. QED BY <1>4, <1>5

LEMMA RecordGood ==
  ASSUME NEW frames, FramesGood(frames), NEW key \in StreamKeys, NEW boundary,
         NEW new \in Record(frames, key, boundary)
  PROVE  FramesGood(new)
  <1>. DEFINE full == frames[key] = Hole /\ Cardinality(Framed(frames)) >= MaxStreams
              oldest == {k \in Framed(frames) : \A j \in Framed(frames) : frames[k].last <= frames[j].last}
              room == IF full THEN {Forget(frames, k) : k \in oldest} ELSE {frames}
  <1>1. PICK f \in room : new = [f EXCEPT ![key] = boundary]
    BY DEF Record
  <1>2. FramesGood(f) /\ (f[key] # Hole \/ Cardinality(Framed(f)) < MaxStreams)
    <2>1. CASE full
      <3>1. PICK k \in oldest : f = Forget(frames, k)
        BY <1>1, <2>1
      <3>2. k \in Framed(frames) /\ k \in StreamKeys
        BY DEF Framed
      <3>3. FramesGood(f) /\ Framed(f) = Framed(frames) \ {k}
        BY <3>1, <3>2, ForgetGood
      <3>4. Cardinality(Framed(frames) \ {k}) = Cardinality(Framed(frames)) - 1
        BY <3>2, FramedFinite, FS_RemoveElement
      <3>5. Cardinality(Framed(frames)) <= MaxStreams
        BY DEF FramesGood
      <3>. QED BY <3>3, <3>4, <3>5, FramedFinite, SegConstants
    <2>2. CASE ~full
      <3>1. f = frames
        BY <1>1, <2>2
      <3>. QED BY <2>2, <3>1, FramedFinite, SegConstants
    <2>. QED BY <2>1, <2>2
  <1>. QED BY <1>1, <1>2, SetFrame

LEMMA WalkAndRecordGood ==
  ASSUME NEW frames, FramesGood(frames), NEW key \in StreamKeys, NEW base, NEW carry, NEW bytes, NEW now,
         NEW new \in WalkAndRecord(frames, key, base, carry, bytes, now)
  PROVE  FramesGood(new)
  <1>. DEFINE end == Walk(bytes, base, carry, ResponseOnly(key), frames[key] # Hole)
              boundary == [next |-> end.next, pending |-> end.pending, last |-> now]
  <1>1. new \in IF end = Hole THEN {Forget(frames, key)} ELSE Record(frames, key, boundary)
    BY Zenon DEF WalkAndRecord
  <1>. HIDE DEF end, boundary
  <1>. QED BY <1>1, ForgetGood, RecordGood

LEMMA SkipInsideGood ==
  ASSUME NEW frames, FramesGood(frames), NEW key \in StreamKeys, NEW seq, NEW payload, NEW now,
         NEW new \in SkipInside(frames, key, seq, payload, now)
  PROVE  FramesGood(new)
  BY WalkAndRecordGood DEF SkipInside

LEMMA NoteConsumedGood ==
  ASSUME NEW frames, FramesGood(frames), NEW key \in StreamKeys, NEW seq, NEW payload, NEW now,
         NEW new \in NoteConsumed(frames, key, seq, payload, now)
  PROVE  FramesGood(new)
  <1>. DEFINE f == Lapse(frames, key, now)
              starts == IF f[key] = Hole THEN LooksLikeStart(payload) ELSE f[key].next = seq
  <1>1. FramesGood(f)
    BY LapseGood
  <1>2. new \in IF payload = <<>> THEN {frames}
                ELSE IF Inside(frames, key, seq, now) THEN SkipInside(frames, key, seq, payload, now)
                ELSE IF starts THEN WalkAndRecord(f, key, seq, Hole, payload, now) ELSE {f}
    BY DEF NoteConsumed
  <1>. HIDE DEF f, starts
  <1>. QED BY <1>1, <1>2, SkipInsideGood, WalkAndRecordGood

LEMMA RecordMessageGood ==
  ASSUME NEW frames, FramesGood(frames), NEW key \in StreamKeys, NEW base, NEW bytes, NEW other, NEW now,
         NEW new \in RecordMessage(frames, key, base, bytes, other, now)
  PROVE  FramesGood(new)
  BY ForgetGood, WalkAndRecordGood DEF RecordMessage

LEMMA LapsedGood ==
  ASSUME NEW frames, FramesGood(frames), NEW now, NEW new,
         new = [k \in StreamKeys |-> Lapse(frames, k, now)[k]]
  PROVE  FramesGood(new)
  <1>1. new = [k \in StreamKeys |-> new[k]]
    OBVIOUS
  <1>2. ASSUME NEW k \in StreamKeys, frames[k] = Hole PROVE new[k] = Hole
    BY <1>2 DEF Lapse
  <1>3. Framed(new) \subseteq Framed(frames)
    BY <1>2 DEF Framed
  <1>. QED BY <1>1, <1>3, FewerFramed

-----------------------------------------------------------------------------
(* What is shown of a message: bytes of the buffer it was found in *)

LEMMA FirstLineExists ==
  ASSUME NEW payload \in Seq(Byte), HasLine(payload)
  PROVE  \E i \in 1..Len(payload) : payload[i] = LineFeed /\ \A j \in 1..i-1 : payload[j] # LineFeed
  <1>. DEFINE T == {n \in Nat : \A i \in 1..n : i <= Len(payload) => payload[i] # LineFeed}
  <1>1. Len(payload) \in Nat
    OBVIOUS
  <1>. SUFFICES ASSUME \A i \in 1..Len(payload) :
                         payload[i] = LineFeed => \E j \in 1..i-1 : payload[j] = LineFeed
                PROVE  FALSE
    OBVIOUS
  <1>2. 0 \in T
    OBVIOUS
  <1>3. ASSUME NEW n \in Nat, n \in T PROVE n + 1 \in T
    <2>1. \A i \in 1..n : i <= Len(payload) => payload[i] # LineFeed
      BY <1>3
    <2>2. ASSUME n + 1 <= Len(payload), payload[n + 1] = LineFeed PROVE FALSE
      <3>1. PICK j \in 1..(n+1)-1 : payload[j] = LineFeed
        BY <1>1, <2>2
      <3>2. j \in 1..n /\ j <= Len(payload)
        BY <1>1, <2>2
      <3>. QED BY <2>1, <3>1, <3>2
    <2>3. \A i \in 1..n+1 : i \in 1..n \/ i = n + 1
      OBVIOUS
    <2>. QED BY <1>1, <2>1, <2>2, <2>3
  <1>4. Len(payload) \in T
    <2>. HIDE DEF T
    <2>1. T \in SUBSET Nat
      BY DEF T
    <2>. QED BY <1>1, <1>2, <1>3, <2>1, NatSetInduction
  <1>5. PICK i \in 1..Len(payload) : payload[i] = LineFeed
    BY DEF HasLine
  <1>. QED BY <1>1, <1>4, <1>5

\* text is what payload holds from at on.
TextOf(text, at, payload) ==
  /\ at \in Nat /\ Len(text) \in Nat /\ at + Len(text) <= Len(payload)
  /\ \A i \in 1..Len(text) : text[i] = payload[at + i]

LEMMA PieceText ==
  ASSUME NEW payload \in Seq(Byte), NEW n \in Nat, n <= Len(payload)
  PROVE  TextOf(SubSeq(payload, 1, n), 0, payload)
  <1>. DEFINE text == SubSeq(payload, 1, n)
  <1>1. Len(text) = n /\ \A i \in 1..n : text[i] = payload[i]
    OBVIOUS
  <1>. HIDE DEF text
  <1>2. \A i \in 1..Len(text) : text[i] = payload[0 + i]
    BY <1>1
  <1>3. 0 \in Nat /\ Len(text) \in Nat /\ 0 + Len(text) <= Len(payload)
    BY <1>1
  <1>4. TextOf(text, 0, payload)
    BY <1>2, <1>3 DEF TextOf
  <1>. QED BY <1>4 DEF text

LEMMA LineText ==
  ASSUME NEW payload \in Seq(Byte), HasLine(payload)
  PROVE  TextOf(FirstLine(payload), 0, payload)
  <1>. DEFINE IsFirst(i) == payload[i] = LineFeed /\ \A j \in 1..i-1 : payload[j] # LineFeed
              newline == CHOOSE i \in 1..Len(payload) : IsFirst(i)
  <1>1. \E i \in 1..Len(payload) : IsFirst(i)
    BY FirstLineExists
  <1>2. newline \in 1..Len(payload)
    <2>. HIDE DEF IsFirst
    <2>. QED BY <1>1, Zenon
  <1>3. FirstLine(payload) = SubSeq(payload, 1, newline - 1)
    BY DEF FirstLine
  <1>. HIDE DEF newline
  <1>. DEFINE n == newline - 1
  <1>4. n \in Nat /\ n <= Len(payload)
    BY <1>2
  <1>5. FirstLine(payload) = SubSeq(payload, 1, n)
    BY <1>3
  <1>. HIDE DEF n
  <1>. QED BY <1>4, <1>5, PieceText

\* A decision a detector may reach on payload.
DecidedOn(sniff, payload) == sniff.out = "decided" => TextOf(sniff.text, sniff.at, payload)

LEMMA DecidedText ==
  ASSUME NEW payload, NEW kind, NEW at, NEW text, TextOf(text, at, payload)
  PROVE  DecidedOn(Decided(kind, at, text), payload)
  BY DEF DecidedOn, Decided

LEMMA OtherText ==
  ASSUME NEW payload
  PROVE  DecidedOn(Undecided, payload) /\ DecidedOn(OrMissing(payload), payload)
         /\ \A n : DecidedOn(NeedMoreBytes(n), payload)
  BY DEF DecidedOn, Undecided, OrMissing, NeedMoreBytes

LEMMA HelloText ==
  ASSUME NEW payload \in Seq(Byte), IsClientHello(payload)
  PROVE  TextOf(SubSeq(payload, 1, HelloLen), 0, payload)
  <1>1. HelloLen \in Nat /\ HelloLen <= Len(payload)
    BY L7Assumption DEF IsClientHello
  <1>. QED BY <1>1, PieceText

LEMMA DnsTcpText ==
  ASSUME NEW stream \in Seq(Byte)
  PROVE  DecidedOn(SniffDnsTcp(stream), stream)
  <1>. DEFINE declared == DeclaredLen(stream)
              end == 2 + declared
              message == SubSeq(stream, 3, end)
  <1>1. CASE declared \in DnsHeaderLen..MaxDnsTcp /\ Len(stream) >= end
    <2>1. declared \in Nat /\ end \in Nat /\ end <= Len(stream) /\ end = 2 + declared
      BY <1>1, L7Assumption
    <2>. HIDE DEF end, declared
    <2>2. Len(message) = declared /\ \A i \in 1..declared : message[i] = stream[2 + i]
      BY <2>1
    <2>. HIDE DEF message
    <2>3. TextOf(message, 2, stream)
      BY <2>1, <2>2 DEF TextOf
    <2>4. SniffDnsTcp(stream) \in {Undecided, NeedMoreBytes(1), Decided(DnsKind(message), 2, message)}
      BY <1>1, <2>1 DEF SniffDnsTcp, declared, end, message
    <2>. QED BY <2>3, <2>4, OtherText, DecidedText
  <1>2. CASE ~(declared \in DnsHeaderLen..MaxDnsTcp /\ Len(stream) >= end)
    <2>1. CASE declared \notin DnsHeaderLen..MaxDnsTcp
      <3>1. SniffDnsTcp(stream) \in {Undecided, NeedMoreBytes(1)}
        BY <2>1 DEF SniffDnsTcp
      <3>. QED BY <3>1, OtherText
    <2>2. CASE declared \in DnsHeaderLen..MaxDnsTcp
      <3>1. Len(stream) < 2 + declared
        BY <1>2, <2>2, L7Assumption
      <3>2. SniffDnsTcp(stream) \in {Undecided, NeedMoreBytes(1), NeedMoreBytes(2 + declared - Len(stream))}
        BY <2>2, <3>1 DEF SniffDnsTcp
      <3>. QED BY <3>2, OtherText
    <2>. QED BY <2>1, <2>2
  <1>. QED BY <1>1, <1>2

LEMMA SniffedText ==
  ASSUME NEW payload \in Seq(Byte), NEW key \in StreamKeys
  PROVE  DecidedOn(SniffForTransport(payload, Class[key]), payload)
  <1>. DEFINE class == Class[key]
              line == FirstLine(payload)
              hello == SubSeq(payload, 1, HelloLen)
              http == Decided("http", 0, line)
              response == Decided("httpResponse", 0, line)
              dns == Decided(DnsKind(payload), 0, payload)
              tls == Decided("tls", 0, hello)
  <1>1. class \in {"toDns", "fromDns", "tls", "other"}
    BY SniffAssumption
  <1>2. HasLine(payload) => DecidedOn(http, payload) /\ DecidedOn(response, payload)
    BY LineText, DecidedText
  <1>3. IsClientHello(payload) => DecidedOn(tls, payload)
    BY HelloText, DecidedText
  <1>4. DecidedOn(dns, payload)
    <2>1. TextOf(payload, 0, payload)
      BY DEF TextOf
    <2>. QED BY <2>1, DecidedText
  <1>5. CASE class \in {"other", "tls"}
    <2>. DEFINE r == SniffL7(payload, class)
    <2>1. SniffForTransport(payload, class) = r
      BY <1>5 DEF SniffForTransport
    <2>2. \/ IsHttp(payload) /\ r = http
          \/ IsHttpResponse(payload) /\ r = response
          \/ r = dns
          \/ IsClientHello(payload) /\ r = tls
          \/ r = OrMissing(payload)
      BY <1>5 DEF SniffL7
    <2>. HIDE DEF http, response, dns, tls, r, class
    <2>. QED BY <1>2, <1>3, <1>4, <2>1, <2>2, OtherText DEF IsHttp, IsHttpResponse, class
  <1>6. CASE class = "toDns"
    <2>1. SniffForTransport(payload, class) = SniffDnsTcp(payload)
      BY <1>6 DEF SniffForTransport
    <2>. QED BY <2>1, DnsTcpText
  <1>7. CASE class = "fromDns"
    <2>. DEFINE r == SniffForTransport(payload, class)
    <2>1. \/ IsHttp(payload) /\ r = http
          \/ IsHttpResponse(payload) /\ r = response
          \/ IsClientHello(payload) /\ r = tls
          \/ r = OrMissing(payload)
          \/ r = SniffDnsTcp(payload)
      BY <1>7 DEF SniffForTransport
    <2>. HIDE DEF http, response, dns, tls, r
    <2>2. DecidedOn(r, payload)
      BY <1>2, <1>3, <2>1, OtherText, DnsTcpText DEF IsHttp, IsHttpResponse
    <2>. QED BY <2>2 DEF r
  <1>. QED BY <1>1, <1>5, <1>6, <1>7

LEMMA ApartAdd ==
  ASSUME NEW a \in Int, NEW b \in Int, NEW c \in Int, NEW x \in Int, NEW y \in Int,
         Apart(a, b, x), Apart(b, c, y), NEW z, z = x + y
  PROVE  Apart(a, c, z)
  <1>1. PICK q \in Int : a - b = SeqMod * q + x
    BY DEF Apart
  <1>2. PICK r \in Int : b - c = SeqMod * r + y
    BY DEF Apart
  <1>3. q + r \in Int /\ a - c = SeqMod * (q + r) + z
    BY <1>1, <1>2, SegConstants
  <1>. QED BY <1>3 DEF Apart

LEMMA ApartSelf ==
  ASSUME NEW a \in Int, NEW x \in Int, NEW c, c = a + x
  PROVE  Apart(c, a, x)
  <1>1. 0 \in Int /\ c - a = SeqMod * 0 + x
    BY SegConstants
  <1>. QED BY <1>1 DEF Apart

LEMMA ApartWrapped ==
  ASSUME NEW a \in Int
  PROVE  a % SeqMod \in 0..SeqMod-1 /\ a % SeqMod \in Int /\ Apart(a % SeqMod, a, 0)
  <1>1. SeqMod \in Nat /\ SeqMod > 0
    BY SegConstants
  <1>2. PICK q \in Int : a = SeqMod * q + (a % SeqMod) /\ a % SeqMod \in 0..SeqMod-1
    BY <1>1, Division
  <1>. DEFINE m == a % SeqMod
  <1>. HIDE DEF m
  <1>3. m \in Int /\ a = SeqMod * q + m
    BY <1>1, <1>2 DEF m
  <1>4. -q \in Int /\ m - a = SeqMod * (-q) + 0
    BY <1>1, <1>3
  <1>. QED BY <1>2, <1>3, <1>4 DEF Apart, m

\* A buffer that holds all that s did shows it under the same sequence numbers.
LEMMA ShiftedHolds ==
  ASSUME NEW s \in SegStreams, NEW t \in SegStreams, StreamGood(t), Shifted(s, t),
         NEW i \in 1..Len(s.data), Held(s.data, i)
  PROVE  HeldAt(t, s.base + i - 1) = s.data[i]
  <1>1. PICK d \in Nat : Moved(s, t, d)
    BY DEF Shifted
  <1>2. s.base \in Int /\ t.base \in Int /\ Len(s.data) \in Nat /\ Len(t.data) \in Nat
    BY StreamTyped
  <1>3. /\ Apart(s.base, t.base, d) /\ d + Len(s.data) <= Len(t.data)
        /\ Held(t.data, d + i) /\ t.data[d + i] = s.data[i]
    BY <1>1 DEF Moved
  <1>. DEFINE j == i - 1
              a == s.base + j
              x == j + d
  <1>4. j \in Int /\ x \in Nat /\ a \in Int /\ s.base + i - 1 = a /\ a = s.base + j /\ x = j + d /\ d \in Int
    BY <1>2
  <1>5. Apart(a, s.base, j)
    BY <1>2, <1>4, ApartSelf
  <1>6. Apart(a, t.base, x)
    <2>. HIDE DEF a, j, x
    <2>. QED BY <1>2, <1>3, <1>4, <1>5, ApartAdd
  <1>7. Len(t.data) <= MaxStreamBytes
    BY DEF StreamGood, StreamSound
  <1>8. x < Half
    BY <1>2, <1>3, <1>7, HalfIs, SegConstants
  <1>9. SeqDelta(a, t.base) = x
    <2>. HIDE DEF a, x
    <2>. QED BY <1>2, <1>4, <1>6, <1>8, ApartDelta
  <1>10. SeqDelta(s.base + i - 1, t.base) + 1 = d + i
    <2>1. x + 1 = d + i
      OBVIOUS
    <2>. HIDE DEF x
    <2>. QED BY <1>4, <1>9, <2>1
  <1>. QED BY <1>3, <1>10 DEF HeldAt

\* What is shown of the buffer s: its bytes where it has any.
Shows(s, info) ==
  \A i \in 1..Len(info.text) :
    HeldAt(s, info.from + i - 1) # Hole => info.text[i] = HeldAt(s, info.from + i - 1)

LEMMA ShiftedShows ==
  ASSUME NEW s \in SegStreams, StreamGood(s), NEW t \in SegStreams, StreamGood(t), Shifted(s, t),
         NEW text, NEW at \in Nat, Len(text) \in Nat, at + Len(text) <= t.prefix,
         \A i \in 1..Len(text) : text[i] = t.data[at + i],
         NEW info, info.text = text, info.from = (t.base + at) % SeqMod
  PROVE  Shows(s, info)
  <1>. SUFFICES ASSUME NEW i \in 1..Len(text), HeldAt(s, info.from + i - 1) # Hole
                PROVE  text[i] = HeldAt(s, info.from + i - 1)
    BY DEF Shows
  <1>1. PICK d \in Nat : Moved(s, t, d)
    BY DEF Shifted
  <1>2. /\ s.base \in Int /\ t.base \in Int /\ Len(s.data) \in Nat /\ Len(t.data) \in Nat
        /\ t.prefix \in Nat
    BY StreamTyped
  <1>. DEFINE b == t.base + at
              j == i - 1
              a == info.from + j
              p == SeqDelta(a, s.base)
  <1>3. b \in Int /\ j \in Nat /\ info.from \in Int /\ a \in Int /\ Apart(info.from, b, 0) /\ Apart(b, t.base, at)
    <2>1. b \in Int /\ j \in Nat
      BY <1>2
    <2>2. Apart(b, t.base, at)
      <3>1. b = t.base + at /\ at \in Int
        OBVIOUS
      <3>. HIDE DEF b
      <3>. QED BY <1>2, <3>1, ApartSelf
    <2>3. info.from \in Int /\ Apart(info.from, b, 0)
      <3>. HIDE DEF b
      <3>1. info.from = b % SeqMod
        BY DEF b
      <3>. QED BY <2>1, <3>1, ApartWrapped
    <2>. QED BY <2>1, <2>2, <2>3
  <1>4. Apart(a, info.from, j)
    <2>1. a = info.from + j /\ j \in Int
      BY <1>3
    <2>. HIDE DEF a, j
    <2>. QED BY <1>3, <2>1, ApartSelf
  <1>5. info.from + i - 1 = a
    BY <1>3
  <1>. HIDE DEF a, b
  <1>6. Apart(a, t.base, j + at)
    <2>. DEFINE x == j + at
    <2>1. j \in Int /\ at \in Int /\ 0 \in Int /\ j = j + 0 /\ x = j + at
      BY <1>3
    <2>. HIDE DEF j, x
    <2>2. Apart(a, b, j)
      BY <1>3, <1>4, <2>1, ApartAdd
    <2>3. Apart(a, t.base, x)
      BY <1>2, <1>3, <2>1, <2>2, ApartAdd
    <2>. QED BY <2>3 DEF x
  <1>7. p \in Int /\ Apart(a, s.base, p)
    BY <1>2, <1>3, DeltaApart
  <1>8. Held(s.data, p + 1) /\ HeldAt(s, a) = s.data[p + 1]
    BY <1>5 DEF HeldAt
  <1>. HIDE DEF p
  <1>9. p + 1 \in 1..Len(s.data) /\ p \in Nat
    BY <1>2, <1>7, <1>8 DEF Held
  <1>10. /\ Apart(s.base, t.base, d) /\ d + Len(s.data) <= Len(t.data)
         /\ Held(t.data, d + (p + 1)) /\ t.data[d + (p + 1)] = s.data[p + 1]
    BY <1>1, <1>8, <1>9 DEF Moved
  <1>11. Apart(a, t.base, p + d)
    <2>. DEFINE y == p + d
    <2>1. y = p + d /\ d \in Int
      OBVIOUS
    <2>. HIDE DEF y
    <2>2. Apart(a, t.base, y)
      BY <1>2, <1>3, <1>7, <1>10, <2>1, ApartAdd
    <2>. QED BY <2>2 DEF y
  <1>12. Len(t.data) <= MaxStreamBytes /\ t.prefix <= Len(t.data)
    BY DEF StreamGood, StreamSound
  <1>. DEFINE x == j + at
              y == p + d
  <1>13. x \in Nat /\ y \in Nat /\ x < Half /\ y < Half
    <2>1. x \in Nat /\ x < t.prefix
      BY <1>2, <1>3
    <2>2. y \in Nat /\ y < Len(t.data)
      BY <1>2, <1>9, <1>10
    <2>3. MaxStreamBytes \in Nat /\ Half \in Nat /\ MaxStreamBytes < Half
      BY HalfIs, SegConstants
    <2>. HIDE DEF x, y
    <2>. QED BY <1>2, <1>12, <2>1, <2>2, <2>3
  <1>14. SeqDelta(a, t.base) = x /\ SeqDelta(a, t.base) = y
    <2>1. Apart(a, t.base, x) /\ Apart(a, t.base, y)
      BY <1>6, <1>11
    <2>. HIDE DEF x, y
    <2>. QED BY <1>2, <1>3, <1>13, <2>1, ApartDelta
  <1>15. at + i = d + (p + 1)
    <2>1. x = y
      BY <1>14
    <2>. QED BY <1>3, <1>9, <2>1
  <1>. QED BY <1>5, <1>8, <1>10, <1>15

-----------------------------------------------------------------------------
(* Packets *)

\* The outcome of a packet: at most one message, of a direction.
IsOutcome(out) == \E i, s, n : out = [info |-> i, status |-> s, need |-> n]

IsResult(r) == \E a, b, c : r = [segs |-> a, frames |-> b, out |-> c]

\* What a packet of the direction key may leave.
Leaves(r, key) ==
  /\ IsResult(r)
  /\ SegGood(r.segs) /\ SegBounded(r.segs) /\ FramesGood(r.frames) /\ IsOutcome(r.out)
  /\ r.out.info # NoInfo => r.out.info.of = key
  /\ \A k \in StreamKeys : ~SegBegins(nSegs, k, nNow) =>
       /\ After(nSegs.streams[k], r.segs.streams[k], FALSE)
       /\ k = key /\ r.out.info # NoInfo => Shows(nSegs.streams[k], r.out.info)

SniffInv ==
  /\ SegGood(nSegs) /\ SegBounded(nSegs) /\ FramesGood(nFrames) /\ nNow \in Nat

LEMMA NothingIs == IsOutcome(Nothing) /\ Nothing.info = NoInfo
  <1>1. Nothing = [info |-> NoInfo, status |-> Hole, need |-> 0]
    BY DEF Nothing
  <1>2. Nothing.info = NoInfo
    BY <1>1
  <1>. HIDE DEF NoInfo
  <1>. QED BY <1>1, <1>2, Zenon DEF IsOutcome

LEMMA FoundIs ==
  ASSUME NEW sniff, NEW key, NEW base, NEW status, NEW out, out = Found(sniff, key, base, status)
  PROVE  /\ IsOutcome(out) /\ out.info.of = key /\ out.info.text = sniff.text
         /\ out.info.from = (base + sniff.at) % SeqMod
  <1>. DEFINE i == [of |-> key, kind |-> sniff.kind, text |-> sniff.text, from |-> (base + sniff.at) % SeqMod]
  <1>1. out = [info |-> i, status |-> status, need |-> 0]
    BY DEF Found
  <1>2. i.of = key /\ i.text = sniff.text /\ i.from = (base + sniff.at) % SeqMod
    OBVIOUS
  <1>. HIDE DEF i
  <1>3. out.info = i
    BY <1>1
  <1>. QED BY <1>1, <1>2, <1>3, Zenon DEF IsOutcome

\* A buffer that was not touched.
LEMMA UntouchedAfter ==
  ASSUME NEW st, SegGood(st), NEW k \in StreamKeys, NEW now, ~SegBegins(st, k, now),
         NEW t \in {Hole, st.streams[k]}, NEW answered
  PROVE  After(st.streams[k], t, answered)
  <1>1. st.streams[k] # Hole /\ st.streams[k] \in SegStreams
    BY LiveStream DEF SegBegins
  <1>2. Shifted(st.streams[k], st.streams[k])
    BY <1>1, SameShifted
  <1>. QED BY <1>1, <1>2 DEF After

LEMMA UntouchedLeaves ==
  ASSUME SniffInv, NEW key, NEW frames, FramesGood(frames),
         NEW r, r = [segs |-> nSegs, frames |-> frames, out |-> Nothing]
  PROVE  Leaves(r, key)
  <1>0. IsResult(r)
    BY Zenon DEF IsResult
  <1>1. r.segs = nSegs /\ r.frames = frames /\ r.out = Nothing
    OBVIOUS
  <1>2. SegGood(nSegs) /\ SegBounded(nSegs)
    BY DEF SniffInv
  <1>3. \A k \in StreamKeys : ~SegBegins(nSegs, k, nNow) => After(nSegs.streams[k], nSegs.streams[k], FALSE)
    BY <1>2, UntouchedAfter
  <1>. QED BY <1>0, <1>1, <1>2, <1>3, NothingIs DEF Leaves

LEMMA PieceType ==
  ASSUME NEW T, NEW n, NEW p, p = [i \in 1..n |-> p[i]], \A i \in 1..n : p[i] \in T
  PROVE  p \in [1..n -> T]
  OBVIOUS

LEMMA PieceIs ==
  ASSUME NEW S, NEW T, NEW data \in Seq(S), NEW n \in Nat, n <= Len(data), \A i \in 1..n : data[i] \in T,
         NEW p, p = SubSeq(data, 1, n)
  PROVE  p \in Seq(T) /\ Len(p) = n /\ \A i \in 1..Len(p) : p[i] = data[i]
  <1>1. Len(p) = n /\ p \in Seq(S)
    OBVIOUS
  <1>2. \A i \in 1..n : p[i] = data[i]
    OBVIOUS
  <1>3. p = [i \in 1..n |-> p[i]]
    BY <1>1
  <1>4. \A i \in 1..n : p[i] \in T
    BY <1>2
  <1>5. p \in [1..n -> T]
    BY <1>3, <1>4, PieceType, Zenon
  <1>. QED BY <1>1, <1>2, <1>5

LEMMA PrefixIs ==
  ASSUME NEW t \in SegStreams, StreamGood(t), NEW p, p = SubSeq(t.data, 1, t.prefix)
  PROVE  p \in Seq(Byte) /\ Len(p) = t.prefix /\ \A i \in 1..Len(p) : p[i] = t.data[i]
  <1>1. t.data \in Seq(Byte \cup {Hole}) /\ t.prefix \in Nat /\ Len(t.data) \in Nat
    BY StreamTyped
  <1>2. t.prefix <= Len(t.data) /\ \A i \in 1..t.prefix : Held(t.data, i)
    BY DEF StreamGood, StreamSound
  <1>3. \A i \in 1..t.prefix : t.data[i] \in Byte
    BY <1>1, <1>2 DEF Held
  <1>. QED BY <1>1, <1>2, <1>3, PieceIs

\* info tells what the detector decided on bytes that begin at base.
Tells(info, sniff, base) ==
  sniff.out = "decided" /\ info.text = sniff.text /\ info.from = (base + sniff.at) % SeqMod

BaseIs(base, st, key) == HasBuffer(st, key) => base = st.streams[key].base

\* A message found in a buffer shows what the buffer held before the packet.
LEMMA BufferShows ==
  ASSUME NEW s \in SegStreams, StreamGood(s), NEW st, SegGood(st), NEW key \in StreamKeys,
         After(s, st.streams[key], TRUE), NEW sniff, sniff = SniffForTransport(Prefix(st, key), Class[key]),
         NEW base, BaseIs(base, st, key), NEW info, Tells(info, sniff, base)
  PROVE  Shows(s, info)
  <1>0. /\ sniff.out = "decided" /\ info.text = sniff.text /\ info.from = (base + sniff.at) % SeqMod
        /\ HasBuffer(st, key) => base = st.streams[key].base
    BY DEF Tells, BaseIs
  <1>. DEFINE t == st.streams[key]
              p == SubSeq(t.data, 1, t.prefix)
  <1>1. CASE t = Hole
    <2>1. Prefix(st, key) = <<>> /\ <<>> \in Seq(Byte) /\ Len(<<>>) = 0
      BY <1>1 DEF Prefix
    <2>2. TextOf(sniff.text, sniff.at, <<>>)
      BY <1>0, <2>1, SniffedText DEF DecidedOn
    <2>3. Len(info.text) \in Nat /\ Len(info.text) <= 0
      BY <1>0, <2>1, <2>2 DEF TextOf
    <2>. QED BY <2>3 DEF Shows
  <1>2. CASE t # Hole
    <2>1. t \in SegStreams /\ StreamGood(t)
      BY <1>2, LiveStream
    <2>2. Shifted(s, t)
      BY <1>2 DEF After
    <2>3. Prefix(st, key) = p /\ base = t.base
      BY <1>0, <1>2 DEF Prefix, HasBuffer
    <2>. HIDE DEF t
    <2>4. p \in Seq(Byte) /\ Len(p) = t.prefix /\ \A i \in 1..Len(p) : p[i] = t.data[i]
      BY <2>1, PrefixIs
    <2>. HIDE DEF p
    <2>5. TextOf(sniff.text, sniff.at, p)
      BY <1>0, <2>3, <2>4, SniffedText DEF DecidedOn
    <2>. DEFINE text == sniff.text
                at == sniff.at
    <2>6. at \in Nat /\ Len(text) \in Nat /\ at + Len(text) <= Len(p) /\ \A i \in 1..Len(text) : text[i] = p[at + i]
      BY <2>5 DEF TextOf
    <2>7. info.text = text /\ info.from = (t.base + at) % SeqMod
      BY <1>0, <2>3
    <2>. HIDE DEF text, at
    <2>8. at + Len(text) <= t.prefix /\ \A i \in 1..Len(text) : text[i] = t.data[at + i]
      <3>1. Len(p) \in Nat
        BY <2>4
      <3>2. \A i \in 1..Len(text) : at + i \in 1..Len(p)
        BY <2>6, <3>1
      <3>. QED BY <2>4, <2>6, <3>2
    <2>. QED BY <2>1, <2>2, <2>6, <2>7, <2>8, ShiftedShows
  <1>. QED BY <1>1, <1>2

LEMMA SniffBufferGood ==
  ASSUME SniffInv, NEW key \in StreamKeys, NEW segs, SegGood(segs), SegBounded(segs), segs.out # Hole,
         \A k \in StreamKeys \ {key} : segs.streams[k] \in {Hole, nSegs.streams[k]},
         ~SegBegins(nSegs, key, nNow) => After(nSegs.streams[key], segs.streams[key], TRUE),
         NEW frames, FramesGood(frames), NEW seq, NEW payload, NEW cutAt,
         NEW r \in SniffBuffer(segs, frames, key, seq, payload, cutAt, nNow)
  PROVE  Leaves(r, key)
  <1>. DEFINE now == nNow
              status == Attribute(segs.out, cutAt, now)
              prefix == Prefix(segs, key)
              sniff == SniffForTransport(prefix, Class[key])
              base == IF HasBuffer(segs, key) THEN segs.streams[key].base ELSE seq
              outcome == IF sniff.out = "decided" THEN Found(sniff, key, base, status)
                         ELSE [Nothing EXCEPT !.status = status,
                                 !.need = IF sniff.out = "need" THEN sniff.atLeast ELSE 0]
              recorded == RecordMessage(frames, key, base, prefix, IsOther(sniff), now)
              past == UNION {IF Inside(f, key, seq, now) THEN SkipInside(f, key, seq, payload, now)
                             ELSE {Lapse(f, key, now)} : f \in recorded}
              moved == IF ~OverDns(key) \/ ~HasBuffer(segs, key) THEN {frames}
                       ELSE IF Len(prefix) >= MaxStreamBytes THEN past ELSE recorded
              Done(f) == \/ sniff.out = "decided"
                         \/ /\ OverDns(key) /\ HasBuffer(segs, key) /\ sniff.out = "undecided"
                            /\ CoversFirstMessage(f, key, base, prefix)
  <1>1. PICK f \in moved : r = [segs |-> IF Done(f) THEN SegFinished(segs, key, status) ELSE segs,
                                frames |-> f, out |-> outcome]
    BY Zenon DEF SniffBuffer
  <1>2. status \in {"completed", "truncated", "missing"}
    <2>1. segs.out \in {"completed", "truncated", "missing"}
      BY SegTyped
    <2>. QED BY <2>1 DEF Attribute
  <1>3. FramesGood(f)
    <2>. HIDE DEF prefix, base, sniff
    <2>1. \A g \in recorded : FramesGood(g)
      BY RecordMessageGood
    <2>. HIDE DEF recorded
    <2>2. \A g \in past : FramesGood(g)
      BY <2>1, SkipInsideGood, LapseGood
    <2>. HIDE DEF past
    <2>. QED BY <2>1, <2>2
  <1>4. IsOutcome(outcome) /\ (outcome.info # NoInfo => sniff.out = "decided")
        /\ (sniff.out = "decided" =>
              /\ outcome.info.of = key /\ outcome.info.text = sniff.text
              /\ outcome.info.from = (base + sniff.at) % SeqMod)
    <2>. HIDE DEF sniff, base, status
    <2>1. CASE sniff.out = "decided"
      BY <2>1, FoundIs
    <2>2. CASE sniff.out # "decided"
      <3>. DEFINE n == IF sniff.out = "need" THEN sniff.atLeast ELSE 0
      <3>0. outcome = [Nothing EXCEPT !.status = status, !.need = n]
        BY <2>2
      <3>. HIDE DEF n, outcome
      <3>1. outcome = [info |-> NoInfo, status |-> status, need |-> n]
        BY <3>0 DEF Nothing
      <3>2. outcome.info = NoInfo
        BY <3>1
      <3>. QED BY <2>2, <3>1, <3>2, Zenon DEF IsOutcome
    <2>. QED BY <2>1, <2>2
  <1>5. BaseIs(base, segs, key)
    BY DEF BaseIs
  <1>6. ASSUME ~SegBegins(nSegs, key, nNow), outcome.info # NoInfo
        PROVE  Shows(nSegs.streams[key], outcome.info)
    <2>1. nSegs.streams[key] \in SegStreams /\ StreamGood(nSegs.streams[key])
      BY <1>6, LiveStream DEF SegBegins, SniffInv
    <2>2. After(nSegs.streams[key], segs.streams[key], TRUE)
      BY <1>6
    <2>3. sniff = SniffForTransport(Prefix(segs, key), Class[key])
      OBVIOUS
    <2>. DEFINE info == outcome.info
    <2>4. Tells(info, sniff, base)
      <3>1. sniff.out = "decided" /\ info.text = sniff.text /\ info.from = (base + sniff.at) % SeqMod
        BY <1>4, <1>6
      <3>. QED BY <3>1 DEF Tells
    <2>. HIDE DEF info, outcome, sniff, base
    <2>5. Shows(nSegs.streams[key], info)
      BY <1>5, <2>1, <2>2, <2>3, <2>4, BufferShows
    <2>. QED BY <2>5 DEF info
  <1>. DEFINE end == IF Done(f) THEN SegFinished(segs, key, status) ELSE segs
  <1>7. /\ SegGood(end) /\ SegBounded(end) /\ end.streams[key] \in {Hole, segs.streams[key]}
        /\ \A k \in StreamKeys \ {key} : end.streams[k] = segs.streams[k]
    <2>. HIDE DEF status, Done
    <2>1. CASE Done(f)
      <3>. HIDE DEF end
      <3>1. end = SegFinished(segs, key, status)
        BY <2>1 DEF end
      <3>2. SegGood(end) /\ SegBounded(end) /\ end.streams[key] = Hole
        BY <1>2, <3>1, SegFinishedGood
      <3>3. \A k \in StreamKeys \ {key} : end.streams[k] = segs.streams[k]
        <4>1. SameElsewhere(end.streams, segs.streams, key)
          BY <1>2, <3>1, SegFinishedGood
        <4>. QED BY <4>1 DEF SameElsewhere
      <3>. QED BY <3>2, <3>3
    <2>2. CASE ~Done(f)
      BY <2>2
    <2>. QED BY <2>1, <2>2
  <1>8. r = [segs |-> end, frames |-> f, out |-> outcome]
    BY <1>1
  <1>. HIDE DEF end, outcome, Done, moved, sniff, base, status, prefix
  <1>9. r.segs = end /\ r.frames = f /\ r.out = outcome
    BY <1>8
  <1>11. IsResult(r)
    BY <1>8, Zenon DEF IsResult
  <1>10. ASSUME NEW k \in StreamKeys, ~SegBegins(nSegs, k, nNow)
         PROVE  After(nSegs.streams[k], end.streams[k], FALSE)
    <2>1. CASE k = key
      <3>1. After(nSegs.streams[k], segs.streams[k], TRUE) /\ end.streams[k] \in {Hole, segs.streams[k]}
        BY <1>7, <1>10, <2>1
      <3>. QED BY <3>1 DEF After
    <2>2. CASE k # key
      <3>1. end.streams[k] \in {Hole, nSegs.streams[k]}
        BY <1>7, <2>2
      <3>2. SegGood(nSegs)
        BY DEF SniffInv
      <3>. QED BY <1>10, <3>1, <3>2, UntouchedAfter
    <2>. QED BY <2>1, <2>2
  <1>. QED BY <1>3, <1>4, <1>6, <1>7, <1>9, <1>10, <1>11 DEF Leaves

\* SegFirstSeen for one direction.
SeenFirst(k) ==
  /\ nSegs'.streams[k] # Hole /\ ~nSegs'.streams[k].finished =>
       \A i \in 1..Len(nSegs.streams[k].data) :
         Held(nSegs.streams[k].data, i) =>
           HeldAt(nSegs'.streams[k], nSegs.streams[k].base + i - 1) = nSegs.streams[k].data[i]
  /\ nOut'.info # NoInfo /\ nOut'.info.of = k => Shows(nSegs.streams[k], nOut'.info)

LEMMA SeenFirstAll ==
  ASSUME \A k \in StreamKeys :
           nSegs.streams[k] # Hole /\ ~StreamIsIdle(nSegs.streams[k], nNow) => SeenFirst(k)
  PROVE  SegFirstSeen
  BY DEF SegFirstSeen, SeenFirst, Shows

LEMMA AfterSeen ==
  ASSUME SegGood(nSegs), SegGood(nSegs'), NEW k \in StreamKeys, nSegs.streams[k] # Hole,
         After(nSegs.streams[k], nSegs'.streams[k], FALSE),
         nOut'.info # NoInfo /\ nOut'.info.of = k => Shows(nSegs.streams[k], nOut'.info)
  PROVE  SeenFirst(k)
  <1>1. ASSUME nSegs'.streams[k] # Hole, ~nSegs'.streams[k].finished,
               NEW i \in 1..Len(nSegs.streams[k].data), Held(nSegs.streams[k].data, i)
        PROVE  HeldAt(nSegs'.streams[k], nSegs.streams[k].base + i - 1) = nSegs.streams[k].data[i]
    <2>1. nSegs.streams[k] \in SegStreams
      BY LiveStream
    <2>2. nSegs'.streams[k] \in SegStreams /\ StreamGood(nSegs'.streams[k])
      BY <1>1, LiveStream
    <2>3. Shifted(nSegs.streams[k], nSegs'.streams[k])
      BY <1>1 DEF After
    <2>. QED BY <1>1, <2>1, <2>2, <2>3, ShiftedHolds
  <1>. QED BY <1>1 DEF SeenFirst

LEMMA SniffSegmentGood ==
  ASSUME SniffInv, NEW key \in StreamKeys, NEW frames, FramesGood(frames), NEW seq \in 0..SeqMod-1,
         NEW payload \in Seq(Byte), NEW declared \in Nat, NEW cutAt,
         NEW r \in SniffSegment(frames, key, seq, payload, declared, cutAt, nNow)
  PROVE  Leaves(r, key)
  <1>1. PICK segs \in SegFed(nSegs, key, seq, payload, declared, nNow) :
          r \in IF segs.out # Hole THEN SniffBuffer(segs, frames, key, seq, payload, cutAt, nNow)
                ELSE {[segs |-> segs, frames |-> f, out |-> Nothing] :
                        f \in IF OverDns(key) THEN NoteConsumed(frames, key, seq, payload, nNow) ELSE {frames}}
    BY DEF SniffSegment
  <1>2. SegGood(nSegs) /\ SegBounded(nSegs) /\ nNow \in Nat
    BY DEF SniffInv
  <1>3. /\ SegGood(segs) /\ SegBounded(segs)
        /\ \A k \in StreamKeys \ {key} : segs.streams[k] \in {Hole, nSegs.streams[k]}
        /\ ~SegBegins(nSegs, key, nNow) => After(nSegs.streams[key], segs.streams[key], segs.out # Hole)
    BY <1>2, SegFedGood
  <1>4. CASE segs.out # Hole
    <2>1. ~SegBegins(nSegs, key, nNow) => After(nSegs.streams[key], segs.streams[key], TRUE)
      BY <1>3, <1>4 DEF After
    <2>2. r \in SniffBuffer(segs, frames, key, seq, payload, cutAt, nNow)
      BY <1>1, <1>4
    <2>. QED BY <1>3, <1>4, <2>1, <2>2, SniffBufferGood
  <1>5. CASE segs.out = Hole
    <2>1. PICK f \in IF OverDns(key) THEN NoteConsumed(frames, key, seq, payload, nNow) ELSE {frames} :
            r = [segs |-> segs, frames |-> f, out |-> Nothing]
      BY <1>1, <1>5
    <2>2. FramesGood(f)
      BY NoteConsumedGood
    <2>3. r.segs = segs /\ r.frames = f /\ r.out = Nothing
      BY <2>1
    <2>4. IsResult(r)
      BY <2>1, Zenon DEF IsResult
    <2>5. ASSUME NEW k \in StreamKeys, ~SegBegins(nSegs, k, nNow)
          PROVE  After(nSegs.streams[k], segs.streams[k], FALSE)
      <3>1. CASE k = key
        BY <1>3, <1>5, <2>5, <3>1 DEF After
      <3>2. CASE k # key
        BY <1>2, <1>3, <2>5, <3>2, UntouchedAfter
      <3>. QED BY <3>1, <3>2
    <2>. QED BY <1>3, <2>2, <2>3, <2>4, <2>5, NothingIs DEF Leaves
  <1>. QED BY <1>4, <1>5

LEMMA SniffInnerGood ==
  ASSUME SniffInv, NEW key \in StreamKeys, NEW seq \in 0..SeqMod-1, NEW payload \in Seq(Byte),
         NEW declared \in Nat, NEW syn, NEW cutAt,
         NEW r \in SniffInner(key, seq, payload, declared, syn, cutAt, nNow)
  PROVE  Leaves(r, key)
  <1>. DEFINE skips == OverDns(key) /\ ~syn /\ ~HasBuffer(nSegs, key) /\ Inside(nFrames, key, seq, nNow)
              frames == IF ~OverDns(key) THEN nFrames
                        ELSE IF syn THEN Forget(nFrames, key)
                        ELSE IF HasBuffer(nSegs, key) THEN nFrames ELSE Lapse(nFrames, key, nNow)
              own == SniffForTransport(payload, Class[key])
              told == Found(own, key, seq, Hole)
              after == IF OverDns(key) THEN RecordMessage(frames, key, seq, payload, IsOther(own), nNow)
                       ELSE {frames}
  <1>1. r \in IF skips
              THEN {[segs |-> nSegs, frames |-> f, out |-> Nothing] :
                      f \in SkipInside(nFrames, key, seq, payload, nNow)}
              ELSE IF own.out = "decided" /\ ~HasBuffer(nSegs, key)
              THEN {[segs |-> nSegs, frames |-> f, out |-> told] : f \in after}
              ELSE SniffSegment(frames, key, seq, payload, declared, cutAt, nNow)
    BY Zenon DEF SniffInner
  <1>2. SegGood(nSegs) /\ SegBounded(nSegs) /\ FramesGood(nFrames) /\ nNow \in Nat
    BY DEF SniffInv
  <1>3. FramesGood(frames)
    BY <1>2, ForgetGood, LapseGood
  <1>. HIDE DEF frames, own, skips
  <1>4. CASE skips
    <2>1. PICK f \in SkipInside(nFrames, key, seq, payload, nNow) :
            r = [segs |-> nSegs, frames |-> f, out |-> Nothing]
      BY <1>1, <1>4
    <2>2. FramesGood(f)
      BY <1>2, SkipInsideGood
    <2>. QED BY <2>1, <2>2, UntouchedLeaves
  <1>5. CASE ~skips /\ own.out = "decided" /\ ~HasBuffer(nSegs, key)
    <2>1. PICK f \in after : r = [segs |-> nSegs, frames |-> f, out |-> told]
      BY <1>1, <1>5
    <2>2. FramesGood(f)
      BY <1>3, RecordMessageGood
    <2>3. IsOutcome(told) /\ told.info.of = key
      BY FoundIs
    <2>. HIDE DEF told, after
    <2>4. r.segs = nSegs /\ r.frames = f /\ r.out = told
      BY <2>1
    <2>5. IsResult(r)
      BY <2>1, Zenon DEF IsResult
    <2>6. SegBegins(nSegs, key, nNow)
      BY <1>5 DEF SegBegins, HasBuffer
    <2>7. \A k \in StreamKeys : ~SegBegins(nSegs, k, nNow) => After(nSegs.streams[k], nSegs.streams[k], FALSE)
      BY <1>2, UntouchedAfter
    <2>. QED BY <1>2, <2>2, <2>3, <2>4, <2>5, <2>6, <2>7 DEF Leaves
  <1>6. CASE ~skips /\ ~(own.out = "decided" /\ ~HasBuffer(nSegs, key))
    <2>1. r \in SniffSegment(frames, key, seq, payload, declared, cutAt, nNow)
      BY <1>1, <1>6
    <2>. QED BY <1>3, <2>1, SniffSegmentGood
  <1>. QED BY <1>4, <1>5, <1>6

\* The packet's outcome and a sweep become the state.
LEMMA SniffedGood ==
  ASSUME SniffInv, NEW results, NEW key, \A r \in results : Leaves(r, key), Sniffed(results)
  PROVE  SniffInv' /\ SegFirstSeen
  <1>1. PICK r \in results : \E end \in IF EvictDue THEN Evicted(r) ELSE {r} :
          nSegs' = [end.segs EXCEPT !.out = Hole] /\ nFrames' = end.frames /\ nOut' = r.out
    BY DEF Sniffed
  <1>2. PICK end \in IF EvictDue THEN Evicted(r) ELSE {r} :
          nSegs' = [end.segs EXCEPT !.out = Hole] /\ nFrames' = end.frames /\ nOut' = r.out
    BY <1>1
  <1>3. nNow' = nNow /\ nNow \in Nat
    BY DEF Sniffed, SniffInv
  <1>4. /\ SegGood(r.segs) /\ SegBounded(r.segs) /\ FramesGood(r.frames) /\ IsResult(r)
        /\ r.out.info # NoInfo => r.out.info.of = key
        /\ \A k \in StreamKeys : ~SegBegins(nSegs, k, nNow) =>
             /\ After(nSegs.streams[k], r.segs.streams[k], FALSE)
             /\ k = key /\ r.out.info # NoInfo => Shows(nSegs.streams[k], r.out.info)
    BY <1>1 DEF Leaves
  <1>5. /\ SegGood(end.segs) /\ SegBounded(end.segs) /\ FramesGood(end.frames)
        /\ SegFewer(end.segs.streams, r.segs.streams)
    <2>1. CASE EvictDue
      <3>1. PICK segs \in SegEvictStale(r.segs, nNow) :
              end = [r EXCEPT !.segs = segs, !.frames = [k \in StreamKeys |-> Lapse(r.frames, k, nNow)[k]]]
        BY <1>2, <2>1 DEF Evicted
      <3>. DEFINE frames == [k \in StreamKeys |-> Lapse(r.frames, k, nNow)[k]]
      <3>2. FramesGood(frames)
        BY <1>4, LapsedGood
      <3>3. end = [r EXCEPT !.segs = segs, !.frames = frames]
        BY <3>1
      <3>. HIDE DEF frames
      <3>4. end.segs = segs /\ end.frames = frames
        BY <1>4, <3>3 DEF IsResult
      <3>5. SegGood(segs) /\ SegBounded(segs) /\ SegFewer(segs.streams, r.segs.streams)
        BY <1>3, <1>4, <3>1, SegEvictStaleGood
      <3>. QED BY <3>2, <3>4, <3>5
    <2>2. CASE ~EvictDue
      <3>1. end = r
        BY <1>2, <2>2
      <3>. QED BY <1>4, <3>1 DEF SegFewer
    <2>. QED BY <2>1, <2>2
  <1>6. nSegs' \in SegStates /\ nSegs'.streams = end.segs.streams /\ nSegs'.bytes = end.segs.bytes
    <2>. DEFINE segs == end.segs
    <2>1. segs \in SegStates /\ nSegs' = [segs EXCEPT !.out = Hole]
      BY <1>2, <1>5 DEF SegGood
    <2>. HIDE DEF segs
    <2>2. nSegs' \in SegStates /\ nSegs'.streams = segs.streams /\ nSegs'.bytes = segs.bytes
      BY <2>1 DEF SegStates
    <2>. QED BY <2>2 DEF segs
  <1>7. SniffInv'
    <2>1. SegGood(nSegs') /\ SegBounded(nSegs')
      BY <1>5, <1>6 DEF SegGood, SegBalanced, SegBounded
    <2>2. FramesGood(nFrames')
      BY <1>2, <1>5
    <2>. QED BY <1>3, <2>1, <2>2 DEF SniffInv
  <1>8. SegFirstSeen
    <2>1. ASSUME NEW k \in StreamKeys, nSegs.streams[k] # Hole, ~StreamIsIdle(nSegs.streams[k], nNow)
          PROVE  SeenFirst(k)
      <3>1. ~SegBegins(nSegs, k, nNow)
        BY <2>1 DEF SegBegins
      <3>2. After(nSegs.streams[k], r.segs.streams[k], FALSE)
        BY <1>4, <3>1
      <3>3. nSegs'.streams[k] \in {Hole, r.segs.streams[k]}
        BY <1>5, <1>6 DEF SegFewer
      <3>4. After(nSegs.streams[k], nSegs'.streams[k], FALSE)
        BY <3>2, <3>3 DEF After
      <3>5. nOut'.info # NoInfo /\ nOut'.info.of = k => Shows(nSegs.streams[k], nOut'.info)
        BY <1>2, <1>4, <3>1
      <3>6. SegGood(nSegs)
        BY DEF SniffInv
      <3>7. SegGood(nSegs')
        BY <1>7 DEF SniffInv
      <3>. QED BY <2>1, <3>4, <3>5, <3>6, <3>7, AfterSeen
    <2>. QED BY <2>1, SeenFirstAll
  <1>. QED BY <1>7, <1>8

-----------------------------------------------------------------------------
(* Rejoined datagrams *)

LEMMA ToldLeaves ==
  ASSUME NEW r, NEW key, Leaves(r, key), NEW x, NEW out, out = [r.out EXCEPT !.status = x],
         NEW new, new = [r EXCEPT !.out = out]
  PROVE  Leaves(new, key)
  <1>1. PICK a, b, c : r = [segs |-> a, frames |-> b, out |-> c]
    BY Zenon DEF Leaves, IsResult
  <1>2. r.segs = a /\ r.frames = b /\ r.out = c
    BY <1>1
  <1>3. PICK i, s, n : c = [info |-> i, status |-> s, need |-> n]
    BY <1>2, Zenon DEF Leaves, IsOutcome
  <1>4. out = [info |-> i, status |-> x, need |-> n] /\ out.info = i /\ c.info = i
    BY <1>2, <1>3
  <1>5. IsOutcome(out)
    BY <1>4, Zenon DEF IsOutcome
  <1>6. new = [segs |-> a, frames |-> b, out |-> out]
    <2>1. ASSUME NEW o PROVE [r EXCEPT !.out = o] = [segs |-> a, frames |-> b, out |-> o]
      BY <1>1
    <2>. QED BY <2>1, Zenon
  <1>7. IsResult(new)
    BY <1>6, Zenon DEF IsResult
  <1>8. new.segs = r.segs /\ new.frames = r.frames /\ new.out = out /\ out.info = r.out.info
    BY <1>2, <1>4, <1>6
  <1>. QED BY <1>5, <1>7, <1>8 DEF Leaves

\* A datagram whose bytes are where their datagrams have them holds bytes of a sender.
LEMMA RejoinedBytes ==
  ASSUME NEW datagram, datagram \in FragOuts, datagram # Hole,
         \A i \in 1..Len(datagram.bytes) :
           datagram.bytes[i] \in Datagrams /\ i <= DatagramLen[datagram.bytes[i]]
  PROVE  RejoinedPayload(datagram) \in Seq(Byte)
  <1>1. datagram.bytes \in Seq(Datagrams \cup {Hole})
    BY DEF FragOuts
  <1>. DEFINE bytes == datagram.bytes
              n == Len(bytes)
              Of(i) == Content[Carries[bytes[i]].key][Carries[bytes[i]].from + i]
  <1>2. n \in Nat
    BY <1>1
  <1>3. \A i \in 1..n : bytes[i] \in Datagrams /\ i <= DatagramLen[bytes[i]]
    OBVIOUS
  <1>4. RejoinedPayload(datagram) = [i \in 1..n |-> Of(i)]
    BY DEF RejoinedPayload
  <1>. HIDE DEF bytes, n
  <1>5. ASSUME NEW i \in 1..n PROVE Of(i) \in Byte
    <2>. DEFINE d == bytes[i]
                key == Carries[d].key
                from == Carries[d].from
    <2>1. d \in Datagrams /\ i <= DatagramLen[d] /\ DatagramLen[d] \in Nat /\ i \in Nat /\ i > 0
      BY <1>2, <1>3, FragConstants
    <2>2. key \in StreamKeys /\ from \in Nat /\ from + DatagramLen[d] <= Len(Content[key])
      BY <2>1, ReassemblyAssumption
    <2>3. Content[key] \in Seq(Byte) /\ Of(i) = Content[key][from + i]
      BY <2>2, SniffAssumption
    <2>. HIDE DEF d, key, from, Of
    <2>4. from + i \in 1..Len(Content[key])
      BY <2>1, <2>2, <2>3
    <2>. QED BY <2>3, <2>4
  <1>. HIDE DEF Of
  <1>6. [i \in 1..n |-> Of(i)] \in Seq(Byte)
    BY <1>2, <1>5
  <1>. QED BY <1>4, <1>6

LEMMA SeqIn ==
  ASSUME NEW a \in Int
  PROVE  a % SeqMod \in 0..SeqMod-1
  BY ApartWrapped

LEMMA FragmentResultsGood ==
  ASSUME SniffInv, FragInv', NEW cutAt
  PROVE  \E key : \A r \in FragmentResults(fOut', cutAt) : Leaves(r, key)
  <1>1. CASE fOut' = Hole
    <2>1. FragmentResults(fOut', cutAt) = {[segs |-> nSegs, frames |-> nFrames, out |-> Nothing]}
      BY <1>1 DEF FragmentResults
    <2>2. FramesGood(nFrames)
      BY DEF SniffInv
    <2>3. \A r \in FragmentResults(fOut', cutAt) : Leaves(r, Hole)
      BY <2>1, <2>2, UntouchedLeaves
    <2>. QED BY <2>3
  <1>2. CASE fOut' # Hole
    <2>. DEFINE g == fOut'
                c == Carries[g.header]
                key == c.key
                payload == RejoinedPayload(g)
                seq == (FirstSeq[key] + c.from) % SeqMod
                inner == SniffInner(key, seq, payload, Len(payload), FALSE, cutAt, nNow)
    <2>1. /\ g \in FragOuts /\ g.header \in Datagrams
          /\ \A i \in 1..Len(g.bytes) : g.bytes[i] \in Datagrams /\ i <= DatagramLen[g.bytes[i]]
      <3>. DEFINE st == FragNowState'
      <3>1. FragGood(st, fHeard', fNow') /\ st.out = fOut'
        <4>1. FragGood(FragNowState', fHeard', fNow')
          BY DEF FragInv
        <4>2. (FragNowState.out = fOut)'
          BY DEF FragNowState
        <4>. QED BY <4>1, <4>2
      <3>. HIDE DEF st
      <3>2. fOut' \in FragOuts /\ OutGood(fOut', fHeard', fNow')
        BY <3>1 DEF FragGood, FragStates
      <3>. QED BY <1>2, <3>2 DEF OutGood, HeardSince
    <2>2. payload \in Seq(Byte) /\ Len(payload) \in Nat
      <3>. HIDE DEF g
      <3>1. payload \in Seq(Byte)
        BY <1>2, <2>1, RejoinedBytes DEF g
      <3>. HIDE DEF payload
      <3>. QED BY <3>1
    <2>3. key \in StreamKeys /\ seq \in 0..SeqMod-1
      <3>. HIDE DEF g
      <3>1. key \in StreamKeys /\ c.from \in Nat
        BY <2>1, ReassemblyAssumption
      <3>. HIDE DEF key, c
      <3>2. FirstSeq[key] \in 0..SeqMod-1
        BY <3>1, SniffAssumption
      <3>3. FirstSeq[key] + c.from \in Int
        BY <3>1, <3>2, SegConstants
      <3>. QED BY <3>1, <3>3, SeqIn
    <2>. HIDE DEF payload, seq, key
    <2>4. \A r \in inner : Leaves(r, key)
      BY <2>2, <2>3, SniffInnerGood
    <2>5. FragmentResults(fOut', cutAt) = WithDatagramStatus(inner, g, cutAt)
      BY <1>2 DEF FragmentResults, payload, seq, key
    <2>. HIDE DEF inner, g
    <2>6. ASSUME NEW new \in WithDatagramStatus(inner, g, cutAt) PROVE Leaves(new, key)
      <3>. DEFINE status == Attribute(g.status, cutAt, nNow)
                  Told(out) == [out EXCEPT !.status = IF status # "completed" \/ @ = Hole THEN status ELSE @]
      <3>1. PICK r \in inner : new = [r EXCEPT !.out = Told(r.out)]
        BY DEF WithDatagramStatus
      <3>. DEFINE x == IF status # "completed" \/ r.out.status = Hole THEN status ELSE r.out.status
                  out == [r.out EXCEPT !.status = x]
      <3>2. Told(r.out) = out
        OBVIOUS
      <3>3. new = [r EXCEPT !.out = out]
        BY <3>1, <3>2
      <3>. HIDE DEF status, x
      <3>4. out = [r.out EXCEPT !.status = x]
        OBVIOUS
      <3>. HIDE DEF out
      <3>. QED BY <2>4, <3>1, <3>3, <3>4, ToldLeaves
    <2>. QED BY <2>5, <2>6
  <1>. QED BY <1>1, <1>2

-----------------------------------------------------------------------------
(* The reassembly as a whole *)

LEMMA SniffInitInv == SniffInit => SniffInv
  <1>. SUFFICES ASSUME SniffInit PROVE SniffInv
    OBVIOUS
  <1>. DEFINE streams == [k \in StreamKeys |-> Hole]
              count == [k \in SegKinds |-> 0]
  <1>1. nSegs = [streams |-> streams, bytes |-> 0, count |-> count, out |-> Hole] /\ nFrames = streams /\ nNow = 0
    BY DEF SniffInit
  <1>2. /\ streams \in [StreamKeys -> SegStreams \cup {Hole}] /\ count \in [SegKinds -> Nat]
        /\ LiveStreams(streams) = {} /\ Framed(streams) = {} /\ streams = [k \in StreamKeys |-> streams[k]]
    BY DEF LiveStreams, Framed
  <1>. HIDE DEF streams, count
  <1>3. nSegs \in SegStates /\ nSegs.streams = streams /\ nSegs.bytes = 0
    BY <1>1, <1>2 DEF SegStates
  <1>4. SegGood(nSegs)
    BY <1>2, <1>3, SizeEmpty DEF SegGood, SegBalanced, StreamsGood
  <1>5. SegBounded(nSegs)
    <2>1. Cardinality(LiveStreams(nSegs.streams)) = 0 /\ nSegs.bytes = 0
      BY <1>2, <1>3, FS_EmptySet
    <2>. QED BY <2>1, SegConstants DEF SegBounded
  <1>6. FramesGood(nFrames)
    BY <1>1, <1>2, SegConstants, FS_EmptySet DEF FramesGood
  <1>. QED BY <1>1, <1>4, <1>5, <1>6 DEF SniffInv

LEMMA SegmentStep ==
  ASSUME SniffInv, NEW key \in StreamKeys, NEW i \in Edges[key], NEW j \in Edges[key], NEW cut \in 0..1,
         j - i \in 1..MaxPayload, Segment(key, i, j - i, cut)
  PROVE  SniffInv' /\ SegFirstSeen
  <1>. DEFINE n == j - i
              seq == (FirstSeq[key] + i) % SeqMod
              payload == SubSeq(Content[key], i + 1, i + n - cut)
              cutAt == CutAt(cut > 0)
              results == SniffInner(key, seq, payload, n, FALSE, cutAt, nNow)
  <1>1. /\ Content[key] \in Seq(Byte) /\ FirstSeq[key] \in 0..SeqMod-1 /\ MaxPayload \in Nat
        /\ Edges[key] \subseteq 0..Len(Content[key])
    BY SniffAssumption
  <1>2. i \in 0..Len(Content[key]) /\ j \in 0..Len(Content[key]) /\ n \in Nat /\ n > 0
    BY <1>1
  <1>3. seq \in 0..SeqMod-1
    <2>1. FirstSeq[key] + i \in Int
      BY <1>1, <1>2, SegConstants
    <2>. QED BY <2>1, SeqIn
  <1>4. payload \in Seq(Byte)
    <2>. DEFINE all == Content[key]
                m == i + n - cut
    <2>1. all \in Seq(Byte) /\ i + 1 \in Nat /\ i + 1 > 0 /\ m \in Int /\ m <= Len(all) /\ payload = SubSeq(all, i + 1, m)
      BY <1>1, <1>2
    <2>. HIDE DEF all, m, payload
    <2>. QED BY <2>1
  <1>5. Sniffed(results)
    BY DEF Segment
  <1>. HIDE DEF n, seq, payload, cutAt
  <1>6. \A r \in results : Leaves(r, key)
    BY <1>2, <1>3, <1>4, SniffInnerGood
  <1>. HIDE DEF results
  <1>. QED BY <1>5, <1>6, SniffedGood

LEMMA InjectStep ==
  ASSUME SniffInv, NEW key \in StreamKeys, NEW i \in Edges[key], Inject(key, i, 2)
  PROVE  SniffInv' /\ SegFirstSeen
  <1>. DEFINE seq == (FirstSeq[key] + i) % SeqMod
              payload == [k \in 1..2 |-> ForgedByte]
              n == 2
              results == SniffInner(key, seq, payload, n, FALSE, nCut, nNow)
  <1>1. /\ FirstSeq[key] \in 0..SeqMod-1 /\ ForgedByte \in Byte /\ Content[key] \in Seq(Byte)
        /\ Edges[key] \subseteq 0..Len(Content[key])
    BY SniffAssumption
  <1>2. seq \in 0..SeqMod-1
    <2>1. FirstSeq[key] + i \in Int
      BY <1>1, SegConstants
    <2>. QED BY <2>1, SeqIn
  <1>3. payload \in Seq(Byte) /\ n \in Nat
    BY <1>1
  <1>4. Sniffed(results)
    BY DEF Inject
  <1>. HIDE DEF seq, payload, n
  <1>5. \A r \in results : Leaves(r, key)
    BY <1>2, <1>3, SniffInnerGood
  <1>. HIDE DEF results
  <1>. QED BY <1>4, <1>5, SniffedGood

LEMMA SynStep ==
  ASSUME SniffInv, NEW key \in StreamKeys, Syn(key)
  PROVE  SniffInv' /\ SegFirstSeen
  <1>. DEFINE seq == (FirstSeq[key] - 1) % SeqMod
              payload == <<>>
              n == 0
              results == SniffInner(key, seq, payload, n, TRUE, nCut, nNow)
  <1>1. FirstSeq[key] \in 0..SeqMod-1
    BY SniffAssumption
  <1>2. seq \in 0..SeqMod-1
    <2>1. FirstSeq[key] - 1 \in Int
      BY <1>1, SegConstants
    <2>. QED BY <2>1, SeqIn
  <1>3. payload \in Seq(Byte) /\ n \in Nat
    OBVIOUS
  <1>4. Sniffed(results)
    BY DEF Syn
  <1>. HIDE DEF seq, payload, n
  <1>5. \A r \in results : Leaves(r, key)
    BY <1>2, <1>3, SniffInnerGood
  <1>. HIDE DEF results
  <1>. QED BY <1>4, <1>5, SniffedGood

LEMMA OtherPacketStep ==
  ASSUME SniffInv, OtherPacket
  PROVE  SniffInv' /\ SegFirstSeen
  <1>. DEFINE results == {[segs |-> nSegs, frames |-> nFrames, out |-> Nothing]}
  <1>1. FramesGood(nFrames)
    BY DEF SniffInv
  <1>2. \A r \in results : Leaves(r, Hole)
    BY <1>1, UntouchedLeaves
  <1>3. Sniffed(results)
    BY DEF OtherPacket
  <1>. HIDE DEF results
  <1>. QED BY <1>2, <1>3, SniffedGood

\* A step that leaves the buffers alone keeps what they hold.
LEMMA QuietSeen ==
  ASSUME SniffInv, nSegs' = nSegs, nOut' = Nothing
  PROVE  SegFirstSeen
  <1>1. SegGood(nSegs) /\ SegGood(nSegs')
    BY DEF SniffInv
  <1>2. ASSUME NEW k \in StreamKeys, nSegs.streams[k] # Hole, ~StreamIsIdle(nSegs.streams[k], nNow)
        PROVE  SeenFirst(k)
    <2>1. ~SegBegins(nSegs, k, nNow)
      BY <1>2 DEF SegBegins
    <2>2. After(nSegs.streams[k], nSegs'.streams[k], FALSE)
      BY <1>1, <2>1, UntouchedAfter
    <2>3. nOut'.info = NoInfo
      BY NothingIs
    <2>. QED BY <1>1, <1>2, <2>2, <2>3, AfterSeen
  <1>. QED BY <1>2, SeenFirstAll

LEMMA QuietStep ==
  ASSUME SniffInv, CutFrame \/ SniffTick
  PROVE  SniffInv' /\ SegFirstSeen
  <1>1. nSegs' = nSegs /\ nFrames' = nFrames /\ nOut' = Nothing /\ (nNow' = nNow \/ nNow' = nNow + 1)
    BY DEF CutFrame, SniffTick
  <1>2. SniffInv'
    BY <1>1 DEF SniffInv
  <1>. QED BY <1>1, <1>2, QuietSeen

LEMMA ResetStep ==
  ASSUME SniffInv, SniffReset
  PROVE  SniffInv' /\ SegFirstSeen
  <1>. DEFINE live == LiveStreams(nSegs.streams)
  <1>1. SegGood(nSegs) /\ SegBounded(nSegs) /\ nNow \in Nat /\ live \in SUBSET live
    BY DEF SniffInv
  <1>2. nSegs' = DroppedStreams(nSegs, live) /\ nFrames' = [k \in StreamKeys |-> Hole] /\ nNow' = nNow /\ nOut' = Nothing
    BY DEF SniffReset
  <1>3. SegGood(nSegs') /\ SegWithout(nSegs', nSegs, live)
    BY <1>1, <1>2, DroppedGood
  <1>4. SegBounded(nSegs')
    BY <1>1, <1>3, DroppedBounded
  <1>5. nSegs'.streams = [k \in StreamKeys |-> IF k \in live THEN Hole ELSE nSegs.streams[k]]
    BY <1>3, Zenon DEF SegWithout
  <1>6. FramesGood(nFrames')
    <2>1. Framed(nFrames') = {} /\ nFrames' = [k \in StreamKeys |-> nFrames'[k]]
      BY <1>2 DEF Framed
    <2>. QED BY <2>1, SegConstants, FS_EmptySet DEF FramesGood
  <1>7. SniffInv'
    BY <1>1, <1>2, <1>3, <1>4, <1>6 DEF SniffInv
  <1>8. ASSUME NEW k \in StreamKeys, nSegs.streams[k] # Hole PROVE SeenFirst(k)
    <2>1. nSegs'.streams[k] = Hole
      BY <1>5, <1>8 DEF LiveStreams
    <2>2. nOut'.info = NoInfo
      BY <1>2, NothingIs
    <2>. QED BY <2>1, <2>2 DEF SeenFirst
  <1>9. SegFirstSeen
    BY <1>8, SeenFirstAll
  <1>. QED BY <1>7, <1>9

LEMMA FragmentPacketStep ==
  ASSUME SniffInv, FragInv', NEW key, NEW d, NEW offset, NEW n, NEW cut, FragmentPacket(key, d, offset, n, cut)
  PROVE  SniffInv' /\ SegFirstSeen
  <1>. DEFINE cutAt == CutAt(cut > 0)
              results == FragmentResults(fOut', cutAt)
  <1>1. Sniffed(results)
    BY DEF FragmentPacket
  <1>2. PICK k : \A r \in results : Leaves(r, k)
    BY FragmentResultsGood
  <1>. HIDE DEF results
  <1>. QED BY <1>1, <1>2, SniffedGood

ReassemblyInv == FragInv /\ SniffInv

LEMMA ReassemblyStep ==
  ASSUME ReassemblyInv, [ReassemblyNext]_rVars
  PROVE  ReassemblyInv' /\ FragFirstSeen /\ (ReassemblyNext => SegFirstSeen)
  <1>1. FragInv /\ SniffInv
    BY DEF ReassemblyInv
  <1>2. FragInv' /\ FragFirstSeen
    BY <1>1, ReassemblyIsFrag, FragStep
  <1>3. CASE ReassemblyNext
    <2>1. ASSUME NEW key \in FragKeys, NEW d \in Datagrams, NEW cut \in Cuts,
                 NEW offset \in 0..DatagramLen[d]-1, NEW n \in 1..DatagramLen[d] - offset,
                 FragmentPacket(key, d, offset, n, cut)
          PROVE  SniffInv' /\ SegFirstSeen
      BY <1>1, <1>2, <2>1, FragmentPacketStep
    <2>2. ASSUME NEW key \in StreamKeys, NEW i \in Edges[key], NEW j \in Edges[key], NEW cut \in 0..1,
                 j - i \in 1..MaxPayload, Segment(key, i, j - i, cut)
          PROVE  SniffInv' /\ SegFirstSeen
      BY <1>1, <2>2, SegmentStep
    <2>3. ASSUME NEW key \in StreamKeys, NEW i \in Edges[key], Inject(key, i, 2)
          PROVE  SniffInv' /\ SegFirstSeen
      BY <1>1, <2>3, InjectStep
    <2>4. ASSUME NEW key \in StreamKeys, Syn(key) PROVE SniffInv' /\ SegFirstSeen
      BY <1>1, <2>4, SynStep
    <2>5. ASSUME OtherPacket PROVE SniffInv' /\ SegFirstSeen
      BY <1>1, <2>5, OtherPacketStep
    <2>6. ASSUME CutFrame \/ SniffTick PROVE SniffInv' /\ SegFirstSeen
      BY <1>1, <2>6, QuietStep
    <2>7. ASSUME SniffReset PROVE SniffInv' /\ SegFirstSeen
      BY <1>1, <2>7, ResetStep
    <2>8. SniffInv' /\ SegFirstSeen
      BY <1>3, <2>1, <2>2, <2>3, <2>4, <2>5, <2>6, <2>7 DEF ReassemblyNext
    <2>. QED BY <1>2, <2>8 DEF ReassemblyInv
  <1>4. CASE UNCHANGED rVars /\ ~ReassemblyNext
    <2>1. SniffInv'
      BY <1>1, <1>4 DEF rVars, nVars, SniffInv
    <2>. QED BY <1>2, <1>4, <2>1 DEF ReassemblyInv
  <1>. QED BY <1>3, <1>4

LEMMA SniffInvGives == SniffInv => SegAccounted
  <1>. SUFFICES ASSUME SniffInv PROVE SegAccounted
    OBVIOUS
  <1>1. SegGood(nSegs) /\ SegBounded(nSegs) /\ FramesGood(nFrames)
    BY DEF SniffInv
  <1>2. ASSUME NEW k \in LiveStreams(nSegs.streams)
        PROVE  /\ Len(nSegs.streams[k].data) <= MaxStreamBytes
               /\ nSegs.streams[k].prefix = ContiguousFrom(nSegs.streams[k].data, 0)
    <2>1. k \in StreamKeys /\ nSegs.streams[k] # Hole
      BY DEF LiveStreams
    <2>2. nSegs.streams[k] \in SegStreams /\ StreamGood(nSegs.streams[k])
      BY <1>1, <2>1, LiveStream
    <2>. QED BY <2>2, PrefixIsRun DEF StreamGood, StreamSound
  <1>. QED BY <1>1, <1>2 DEF SegGood, SegBalanced, SegBounded, FramesGood, SegAccounted

\* The two reassemblers' books balance in every run, for any ceilings: bytes_held is
\* the sum of what the fragment groups and the segment buffers account for, it and
\* their numbers never pass the limits that evict_oldest_until restores, every group
\* that began ended in one outcome or is live, and a buffer's known prefix, resumed by
\* contiguous_len_from and reset by rebase and release, is its whole contiguous run.
THEOREM ReassemblyAlwaysAccounted == ReassemblySpec => []ReassemblyAccounted
  <1>1. ReassemblyInit => ReassemblyInv
    BY FragInitInv, SniffInitInv DEF ReassemblyInit, ReassemblyInv
  <1>2. ReassemblyInv /\ [ReassemblyNext]_rVars => ReassemblyInv'
    BY ReassemblyStep
  <1>3. ReassemblyInv => ReassemblyAccounted
    BY FragInvGives, SniffInvGives DEF ReassemblyInv, ReassemblyAccounted
  <1>. QED BY <1>1, <1>2, <1>3, PTL DEF ReassemblySpec

\* write_first_seen_wins, for any segments in any order, any sequence numbers and any
\* wrap of them: a byte a live buffer or group holds is never replaced, and what a
\* decision shows at a sequence number is the byte that was held there first.
THEOREM FirstSeenAlwaysWins == ReassemblySpec => FirstSeenWins
  <1>1. ReassemblyInit => ReassemblyInv
    BY FragInitInv, SniffInitInv DEF ReassemblyInit, ReassemblyInv
  <1>2. ReassemblyInv /\ [ReassemblyNext]_rVars => ReassemblyInv'
    BY ReassemblyStep
  <1>3. ReassemblyInv /\ [ReassemblyNext]_rVars => [FragFirstSeen /\ SegFirstSeen]_rVars
    <2>. SUFFICES ASSUME ReassemblyInv, [ReassemblyNext]_rVars
                  PROVE  (FragFirstSeen /\ SegFirstSeen) \/ UNCHANGED rVars
      OBVIOUS
    <2>. QED BY ReassemblyStep
  <1>. QED BY <1>1, <1>2, <1>3, PTL DEF ReassemblySpec, FirstSeenWins
=============================================================================
