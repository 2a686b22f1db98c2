------------------------------- MODULE DnsNames -------------------------------
(***************************************************************************)
(* ObservedDnsNames of dns_names.rs: the name last learned for an address, *)
(* in a map and in an index by expiry that purging and eviction take from. *)
(***************************************************************************)
EXTENDS Coverage, SequencesExt

CONSTANTS
  Addrs,              \* addresses
  NameCapacity,       \* MAX_OBSERVED_DNS_NAMES
  MinKeep, MaxKeep,   \* MIN_NAME_RETENTION_MS, MAX_NAME_RETENTION_MS
  Unlearnable         \* names is_learnable_name refuses

NameEntries == [name : STRING, expires : Nat, seq : Nat]

ASSUME DnsNamesAssumption ==
  /\ NameCapacity \in Nat \ {0} /\ MinKeep \in Nat /\ MaxKeep \in Nat /\ MinKeep <= MaxKeep
  /\ IsFiniteSet(Addrs) /\ Hole \notin Addrs /\ Hole \notin NameEntries

NewNames == [entries |-> [a \in Addrs |-> Hole], index |-> {}, seq |-> 0, evictions |-> 0]

NamesHeld(t) == {a \in Addrs : t.entries[a] # Hole}

\* The order of the index: by expiry, then by sequence number.
Sooner(i, j) == i[1] < j[1] \/ (i[1] = j[1] /\ i[2] <= j[2])

FirstOf(index) == CHOOSE i \in index : \A j \in index : Sooner(i, j)

\* purge_expired takes from the front while it is at or past expiry.
Purged(t, now) ==
  LET due == {i \in t.index : i[1] <= now}
  IN [t EXCEPT !.index = @ \ due,
        !.entries = [a \in Addrs |-> IF \E i \in due : i[3] = a THEN Hole ELSE t.entries[a]]]

\* A mutant of NameInserted: the index keeps the entry that is replaced.
NameInsertedKeepsIndex(t, addr, name, expires) ==
  [t EXCEPT !.entries = [@ EXCEPT ![addr] = [name |-> name, expires |-> expires, seq |-> t.seq]],
            !.index = @ \cup {<<expires, t.seq, addr>>}, !.seq = @ + 1]

\* insert: replace, or evict the entry that expires soonest when it is full.
NameInserted(t, addr, name, expires) ==
  LET old == t.entries[addr]
      full == old = Hole /\ Cardinality(NamesHeld(t)) >= NameCapacity /\ t.index # {}
      gone == IF old # Hole THEN {<<old.expires, old.seq, addr>>}
              ELSE IF full THEN {FirstOf(t.index)} ELSE {}
      kept == [a \in Addrs |-> IF \E i \in gone : i[3] = a THEN Hole ELSE t.entries[a]]
  IN [entries |-> [kept EXCEPT ![addr] = [name |-> name, expires |-> expires, seq |-> t.seq]],
      index |-> (t.index \ gone) \cup {<<expires, t.seq, addr>>},
      seq |-> t.seq + 1,
      evictions |-> t.evictions + (IF full THEN 1 ELSE 0)]

\* The names the question reaches: as many passes over the records as there are
\* records, each adding the targets of CNAMEs whose owner is already reached.
Reachable(name, answers) ==
  LET Pass(reached) ==
        FoldLeft(LAMBDA r, a : IF a.rtype = "CNAME" /\ a.name \in r THEN r \cup {a.data} ELSE r,
                 reached, answers)
      after[k \in 0..Len(answers)] == IF k = 0 THEN {name} ELSE Pass(after[k - 1])
  IN after[Len(answers)]

Retention(ttl) == Smaller(Larger(ttl, MinKeep), MaxKeep)

\* learn_response
Learned(t, name, answers, now) ==
  LET reached == Reachable(name, answers)
      Learn(u, a) == IF a.rtype = "A" /\ a.data # Hole /\ a.name \in reached
                     THEN NameInserted(u, a.data, name, now + Retention(a.ttl)) ELSE u
  IN IF name \in Unlearnable THEN t ELSE FoldLeft(Learn, Purged(t, now), answers)

NameLookup(t, addr, now) ==
  IF t.entries[addr] # Hole /\ t.entries[addr].expires > now THEN t.entries[addr].name ELSE Hole

NamesCleared(t) == [t EXCEPT !.entries = [a \in Addrs |-> Hole], !.index = {}]
=============================================================================
