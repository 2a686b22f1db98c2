------------------------------ MODULE Fragments ------------------------------
(***************************************************************************)
(* IpFragmentReassembler of reassembly.rs: groups of IPv4 fragments that   *)
(* share source, destination, identification and protocol, rejoined under  *)
(* a byte cap per group, a ceiling on groups and bytes, and a timeout.     *)
(*                                                                         *)
(* A byte is the datagram it was sent in, so that mixing two datagrams     *)
(* that use the same key shows. fOut is what the last call returned.       *)
(***************************************************************************)
EXTENDS Coverage

CONSTANTS
  FragKeys,        \* RFC 791 keys
  Datagrams,       \* datagrams, which may share a key
  DatagramLen,     \* their payload lengths
  Cuts,            \* bytes the snap length may cut off a fragment
  MaxGroupBytes,   \* MAX_FRAGMENT_GROUP_BYTES
  MaxGroups,       \* MAX_FRAGMENT_GROUPS
  MaxFragBytes,    \* MAX_FRAGMENT_BYTES_TOTAL
  FragTimeout,     \* FRAGMENT_TIMEOUT_MS
  MaxFragTime,     \* bound of the clock
  MaxFragFeeds     \* bound on the fragments captured

\* What a FragmentGroup can hold.
FragGroups ==
  [data : Seq(Datagrams \cup {Hole}), cap : Nat, accounted : Nat, prefix : Nat,
   total : Nat \cup {Hole}, header : Datagrams \cup {Hole}, short : Nat \cup {Hole},
   first : Nat, last : Nat]

ASSUME FragAssumption ==
  /\ DatagramLen \in [Datagrams -> Nat \ {0}] /\ Hole \notin Datagrams
  /\ Hole \notin FragGroups /\ IsFiniteSet(FragKeys)
  /\ {MaxGroupBytes, MaxGroups, MaxFragBytes, FragTimeout} \subseteq Nat \ {0}
  /\ Cuts \subseteq Nat /\ MaxFragTime \in Nat /\ MaxFragFeeds \in Nat

VARIABLES
  fGroups,     \* groups: FragKeys -> a group or Hole
  fBytes,      \* bytes_held
  fCount,      \* ReassemblyCounters
  fOut,        \* the datagram the last call returned, or Hole
  fNow,        \* the reassembly clock
  fHeard,      \* when a fragment of each datagram was last captured
  fFed,        \* fragments captured
  fCreated     \* groups ever created

fVars == <<fGroups, fBytes, fCount, fOut, fNow, fHeard, fFed, fCreated>>

FragKinds == {"completed", "truncated", "missing", "abandoned", "idle", "capacity",
              "conflictingBytes", "conflictingEnds"}

\* A fragment of d: declared payload of n bytes at offset, of which the last
\* cut ones were not captured.
Fragment(d, offset, n, cut) ==
  [from |-> d, offset |-> offset, declared |-> n,
   payload |-> [i \in 1..n - cut |-> d],
   more |-> offset + n < DatagramLen[d]]

NewGroup(now) ==
  [data |-> <<>>, cap |-> 0, accounted |-> 0, prefix |-> 0, total |-> Hole,
   header |-> Hole, short |-> Hole, first |-> now, last |-> now]

LiveGroups(g) == {k \in FragKeys : g[k] # Hole}

\* A mutant of GroupExpired: every fragment keeps the group alive.
GroupExpiredIdleOnly(g, now) == SatSub(now, g.last) > FragTimeout

GroupExpired(g, now) ==
  \/ SatSub(now, g.last) > FragTimeout
  \/ SatSub(now, g.first) > FragTimeout

\* FragmentGroup::status; truncation takes precedence over a missing frame.
GroupStatus(g) ==
  IF g.total # Hole /\ g.prefix >= g.total THEN "completed"
  ELSE IF g.short # Hole /\ g.short <= g.prefix THEN "truncated" ELSE "missing"

\* take_group: without the first fragment's header nothing can be rebuilt.
TakenDatagram(g, status) ==
  IF g.header = Hole THEN Hole
  ELSE [status |-> status, header |-> g.header,
        bytes |-> SubSeq(g.data, 1, IF g.total = Hole THEN g.prefix
                                    ELSE Smaller(g.prefix, g.total))]

Bump(count, kind, n) == [count EXCEPT ![kind] = @ + n]

\* A state of the reassembler, as feed passes it from step to step.
FragState == [groups |-> fGroups, bytes |-> fBytes, count |-> fCount, out |-> Hole]

Released(st, keys) ==
  [st EXCEPT !.groups = [k \in FragKeys |-> IF k \in keys THEN Hole ELSE @[k]],
             !.bytes = SatSub(@, SizeOf(st.groups, keys))]

Taken(st, key, status) ==
  [Released(st, {key}) EXCEPT
     !.count = Bump(@, status, 1), !.out = TakenDatagram(st.groups[key], status)]

\* expire: counted as evicted; what it had is rebuilt and dropped.
Expired(st, key) ==
  [Taken(st, key, GroupStatus(st.groups[key])) EXCEPT
     !.count = Bump(@, "idle", 1), !.out = Hole]

\* The states evict_oldest_until may leave.
EvictedUntil(st, maxGroups, maxBytes) ==
  {[Released(st, gone) EXCEPT !.count = Bump(@, "capacity", Cardinality(gone))] :
     gone \in Evictions(st.groups, LiveGroups(st.groups), st.bytes, maxGroups, maxBytes)}

-----------------------------------------------------------------------------
(* feed *)

RoomFor(st, key) ==
  IF st.groups[key] = Hole /\ Cardinality(LiveGroups(st.groups)) >= MaxGroups
  THEN EvictedUntil(st, SatSub(MaxGroups, 1), MaxFragBytes)
  ELSE {st}

\* Expire on arrival, then the group's entry, seen now.
Entered(st, key, now) ==
  LET old == IF st.groups[key] # Hole /\ GroupExpired(st.groups[key], now)
             THEN Expired(st, key) ELSE st
      g == IF old.groups[key] = Hole THEN NewGroup(now) ELSE old.groups[key]
  IN [old EXCEPT !.groups = [@ EXCEPT ![key] = [g EXCEPT !.last = now]]]

\* A mutant of EndConflicts: only bytes that are held are in the way.
EndConflictsHeldOnly(g, f) ==
  ~f.more /\ \E i \in f.offset + f.declared + 1..Len(g.data) : Held(g.data, i)

\* A last fragment that would move a known end, or cut off bytes held.
EndConflicts(g, f) ==
  LET end == f.offset + f.declared
  IN /\ ~f.more
     /\ IF g.total # Hole THEN g.total # end
        ELSE \E i \in end+1..Len(g.data) : Held(g.data, i)

Joined(g, f) ==
  LET data == WriteFirstSeen(g.data, f.offset, f.payload, MaxGroupBytes)
      cap == VecGrow(g.cap, Len(data))
      hole == f.offset + Len(f.payload)
  IN [g EXCEPT
        !.data = data, !.cap = cap, !.accounted = 2 * cap,
        !.prefix = ContiguousFrom(data, @),
        !.header = IF f.offset = 0 /\ @ = Hole THEN f.from ELSE @,
        !.short = IF Len(f.payload) >= f.declared THEN @
                  ELSE IF @ = Hole THEN hole ELSE Smaller(@, hole),
        !.total = IF f.more THEN @ ELSE f.offset + f.declared]

Written(st, key, f) ==
  LET g == st.groups[key]
      joined == Joined(g, f)
  IN [st EXCEPT
        !.groups = [@ EXCEPT ![key] = joined],
        !.bytes = SatSub(@ + joined.accounted, g.accounted),
        !.count = Bump(@, "conflictingBytes",
                       Cardinality(Conflicts(g.data, f.offset, f.payload, MaxGroupBytes)))]

Settled(st, key, f) ==
  LET status == GroupStatus(st.groups[key])
  IN IF status # "missing" THEN Taken(st, key, status)
     ELSE IF HitsCap(f.offset, f.payload, MaxGroupBytes)
     THEN [Released(st, {key}) EXCEPT !.count = Bump(@, "abandoned", 1)]
     ELSE st

Fed(key, f, now) ==
  UNION {LET st == Entered(room, key, now)
         IN IF EndConflicts(st.groups[key], f)
            THEN {[st EXCEPT !.count = Bump(@, "conflictingEnds", 1)]}
            ELSE EvictedUntil(Settled(Written(st, key, f), key, f), MaxGroups, MaxFragBytes) :
         room \in RoomFor(FragState, key)}

FragApply(st) ==
  /\ fGroups' = st.groups
  /\ fBytes' = st.bytes
  /\ fCount' = st.count
  /\ fOut' = st.out

\* evict_stale: expired groups end as incomplete, then the ceilings. The states
\* it may leave; what it returns is dropped.
FragSwept(st) ==
  LET old == {k \in LiveGroups(st.groups) : GroupExpired(st.groups[k], fNow)}
      Ended(status) == Cardinality({k \in old : GroupStatus(st.groups[k]) = status})
      swept == [Released(st, old) EXCEPT
                  !.count = [k \in FragKinds |->
                               @[k] + (IF k = "idle" THEN Cardinality(old)
                                       ELSE IF k \in {"completed", "truncated", "missing"}
                                       THEN Ended(k) ELSE 0)]]
  IN EvictedUntil(swept, MaxGroups, MaxFragBytes)

-----------------------------------------------------------------------------
(* Actions; due says whether the capture loop's sweep is due after the frame *)

FragAfter(st, due) == \E end \in IF due THEN FragSwept(st) ELSE {st} : FragApply(end)

\* A fragment is captured. A new group is one that was not there, or that
\* expired on arrival.
FragFeed(key, d, offset, n, cut, due) ==
  /\ cut < n /\ n < DatagramLen[d] /\ offset + n <= DatagramLen[d] /\ fFed < MaxFragFeeds
  /\ \E st \in Fed(key, Fragment(d, offset, n, cut), fNow) : FragAfter(st, due)
  /\ fHeard' = [fHeard EXCEPT ![d] = fNow]
  /\ fFed' = fFed + 1
  /\ fCreated' = fCreated + (IF fGroups[key] = Hole \/ GroupExpired(fGroups[key], fNow)
                             THEN 1 ELSE 0)
  /\ UNCHANGED fNow

\* Any other packet.
FragOther(due) == FragAfter(FragState, due) /\ UNCHANGED <<fNow, fHeard, fFed, fCreated>>

\* clear, on an interface switch: lifetime counters stay.
FragClear ==
  /\ fGroups' = [k \in FragKeys |-> Hole]
  /\ fBytes' = 0
  /\ fOut' = Hole
  /\ fCreated' = fCreated - Cardinality(LiveGroups(fGroups))
  /\ UNCHANGED <<fCount, fNow, fHeard, fFed>>

FragTick == fNow < MaxFragTime /\ fNow' = fNow + 1 /\ fOut' = Hole
            /\ UNCHANGED <<fGroups, fBytes, fCount, fHeard, fFed, fCreated>>

FragInit ==
  /\ fGroups = [k \in FragKeys |-> Hole]
  /\ fBytes = 0
  /\ fCount = [k \in FragKinds |-> 0]
  /\ fOut = Hole
  /\ fNow = 0
  /\ fHeard = [d \in Datagrams |-> Hole]
  /\ fFed = 0
  /\ fCreated = 0

FragNext ==
  \/ \E key \in FragKeys, d \in Datagrams, cut \in Cuts, due \in BOOLEAN :
       \E offset \in 0..DatagramLen[d]-1 : \E n \in 1..DatagramLen[d] - offset :
         FragFeed(key, d, offset, n, cut, due)
  \/ \E due \in BOOLEAN : FragOther(due)
  \/ FragClear
  \/ FragTick

FragSpec == FragInit /\ [][FragNext]_fVars

-----------------------------------------------------------------------------
(* Properties *)

\* reassembly.rs, take_group and JAM-182: a datagram handed out as reassembled
\* has no hole, and no byte or header of a datagram whose last fragment was
\* captured longer ago than the timeout, although identifications are reused
\* and the sweep runs at most once a second.
OneDatagramPerTimeout ==
  fOut # Hole =>
    \A d \in {fOut.header} \cup {fOut.bytes[i] : i \in 1..Len(fOut.bytes)} :
      d \in Datagrams /\ fNow - fHeard[d] <= FragTimeout

\* A step that keeps what live groups hold: neither a byte, nor the header, nor
\* the end changes of a group that is not expired when a fragment comes.
FragFirstSeen ==
  \A k \in FragKeys :
    LET g == fGroups[k]
        h == fGroups'[k]
    IN g # Hole /\ h # Hole /\ ~GroupExpired(g, fNow) =>
         /\ \A i \in 1..Len(g.data) : Held(g.data, i) => Held(h.data, i) /\ h.data[i] = g.data[i]
         /\ g.header # Hole => h.header = g.header
         /\ g.total # Hole => h.total = g.total

\* bytes_held is what the groups account for, under the ceiling after every
\* call, and every group created is live or counted in exactly one outcome.
FragAccounted ==
  /\ fBytes = SizeOf(fGroups, LiveGroups(fGroups)) /\ fBytes <= MaxFragBytes
  /\ Cardinality(LiveGroups(fGroups)) <= MaxGroups
  /\ fCreated = Cardinality(LiveGroups(fGroups)) + fCount["completed"] + fCount["truncated"]
                + fCount["missing"] + fCount["abandoned"] + fCount["capacity"]
=============================================================================
