-------------------------------- MODULE KeyLog --------------------------------
(***************************************************************************)
(* KeyLogWatcher of keylog.rs: the key-log files of the processes that     *)
(* opted in, read in pieces as they grow, and the secrets found in them.   *)
(*                                                                         *)
(* A process writes KeyText, a sequence of lines, in pieces of any size; a *)
(* line is LineLen units and a line feed. The unit <<l, i>> is the i-th of *)
(* line l, <<l, 0>> its line feed.                                         *)
(***************************************************************************)
EXTENDS Coverage, SequencesExt

CONSTANTS
  Pids,            \* process ids, natural numbers
  KeyText,         \* the lines each process writes, in order
  LineLen,         \* their lengths
  LineSecret,      \* <<random, label>> of a line, Hole for comments and junk
  SecretLen,       \* bytes of a secret
  MaxLineBytes,    \* MAX_KEYLOG_LINE_BYTES
  ReadBudget,      \* MAX_KEYLOG_READ_BYTES_PER_POLL
  MaxSessions,     \* MAX_KEYLOG_SESSIONS_PER_PID
  MaxSecretBytes,  \* MAX_KEYLOG_SECRET_BYTES
  SecretTtl,       \* UNUSED_SECRET_TTL
  MaxKeyTime,      \* bounds: the clock, and secrets found before a file is
  MaxFinds         \* registered anew

\* A unit of a file, and a WatchedFile.
KeyUnit == (DOMAIN LineLen) \X Nat
WatchedFile == [offset : Nat, pending : Seq(KeyUnit), discarding : BOOLEAN]

ASSUME KeyLogAssumption ==
  /\ Pids \subseteq Nat \ {0} /\ IsFiniteSet(Pids)
  /\ KeyText \in [Pids -> Seq(DOMAIN LineLen)] /\ LineLen \in [DOMAIN LineLen -> Nat]
  /\ DOMAIN LineSecret = DOMAIN LineLen /\ \A l \in DOMAIN LineLen : LineLen[l] = 0 => LineSecret[l] = Hole
  /\ Hole \notin WatchedFile
  /\ {MaxLineBytes, ReadBudget, MaxSessions, MaxSecretBytes, SecretTtl, SecretLen} \subseteq Nat \ {0}
  /\ MaxKeyTime \in Nat /\ MaxFinds \in Nat

VARIABLES
  kWatcher,   \* the KeyLogWatcher
  kWritten,   \* units each process has written so far
  kGone,      \* keys of secrets that were stored and are not any more
  kNow        \* the clock of secrets

kVars == <<kWatcher, kWritten, kGone, kNow>>

\* What a proper part of a line parses to: fields that are too short.
Half == <<"half", "half">>

LineUnits(l) == [i \in 1..LineLen[l] |-> <<l, i>>]

\* The whole text of a process, line feeds included.
FileText(pid) ==
  FoldLeft(LAMBDA text, l : text \o LineUnits(l) \o <<<<l, 0>>>>, <<>>, KeyText[pid])

\* parse_keylog_line
ParsedLine(units) ==
  IF units = <<>> THEN Hole
  ELSE IF units = LineUnits(units[1][1]) THEN LineSecret[units[1][1]]
  ELSE Half

NewFile == [offset |-> 0, pending |-> <<>>, discarding |-> FALSE]

NewWatcher == [files |-> [p \in Pids |-> Hole], secrets |-> {}, order |-> 0, polled |-> 0]

IsEligible(w, pid) == w.files[pid] # Hole

\* register_eligible_pid; a second registration reads the file again.
Registered(w, pid) == [w EXCEPT !.files = [@ EXCEPT ![pid] = NewFile]]

\* A mutant of Unregistered: the file is closed, its secrets stay.
UnregisteredKeepsSecrets(w, pid) == [w EXCEPT !.files = [@ EXCEPT ![pid] = Hole]]

Unregistered(w, pid) ==
  [w EXCEPT !.files = [@ EXCEPT ![pid] = Hole], !.secrets = {s \in @ : s.key[1] # pid}]

-----------------------------------------------------------------------------
(* poll *)

\* A mutant of ScanUnit: the rest of an oversized line is read as a line.
ScanUnitResumes(f, u) ==
  IF u[2] = 0
  THEN [file |-> [f.file EXCEPT !.pending = <<>>],
        found |-> IF ParsedLine(f.file.pending) = Hole THEN f.found
                  ELSE Append(f.found, ParsedLine(f.file.pending))]
  ELSE IF Len(f.file.pending) < MaxLineBytes
  THEN [f EXCEPT !.file.pending = Append(@, u)]
  ELSE [f EXCEPT !.file = [@ EXCEPT !.pending = <<>>]]

\* One byte of a file.
ScanUnit(f, u) ==
  IF f.file.discarding
  THEN [f EXCEPT !.file = [@ EXCEPT !.discarding = u[2] # 0]]
  ELSE IF u[2] = 0
  THEN [file |-> [f.file EXCEPT !.pending = <<>>],
        found |-> IF ParsedLine(f.file.pending) = Hole THEN f.found
                  ELSE Append(f.found, ParsedLine(f.file.pending))]
  ELSE IF Len(f.file.pending) < MaxLineBytes
  THEN [f EXCEPT !.file.pending = Append(@, u)]
  ELSE [f EXCEPT !.file = [@ EXCEPT !.pending = <<>>, !.discarding = TRUE]]

Scanned(file, units) == FoldLeft(ScanUnit, [file |-> file, found |-> <<>>], units)

\* One process's file: at most the rest of the budget is read.
PollFile(s, pid) ==
  LET file == s.w.files[pid]
      n == Smaller(s.budget, SatSub(kWritten[pid], file.offset))
      units == SubSeq(FileText(pid), file.offset + 1, file.offset + n)
      scanned == Scanned([file EXCEPT !.offset = @ + n], units)
  IN IF s.budget = 0 THEN s
     ELSE [w |-> [s.w EXCEPT !.files = [@ EXCEPT ![pid] = scanned.file], !.polled = pid],
           budget |-> s.budget - n,
           found |-> s.found \o [i \in 1..Len(scanned.found) |-> <<pid, scanned.found[i]>>]]

Ascending(S) ==
  CHOOSE s \in [1..Cardinality(S) -> S] : \A i, j \in DOMAIN s : i < j => s[i] < s[j]

\* The processes in the order of their ids, starting after the one polled last.
PollOrder(w) ==
  LET pids == {p \in Pids : IsEligible(w, p)}
  IN Ascending({p \in pids : p > w.polled}) \o Ascending({p \in pids : p <= w.polled})

\* A secret replaces one of the same process, session and label.
Stored(w, f, now) ==
  LET key == <<f[1], f[2]>>
  IN [w EXCEPT !.order = @ + 1,
        !.secrets = {s \in @ : s.key # key} \cup
                    {[key |-> key, at |-> now, order |-> w.order + 1, seen |-> FALSE]}]

SessionOf(s) == <<s.key[1], s.key[2][1]>>

\* enforce_caps: unused secrets lapse, then a process's oldest sessions go, then
\* the oldest secrets of all.
Capped(w, now) ==
  LET fresh == {s \in w.secrets : s.seen \/ SatSub(now, s.at) <= SecretTtl}
      First(s) == \A t \in fresh : SessionOf(t) = SessionOf(s) => s.order <= t.order
      began == {s \in fresh : First(s)}
      Newer(s) == {t \in began : /\ t.key[1] = s.key[1]
                                 /\ \E u \in began : SessionOf(u) = SessionOf(s) /\ u.order < t.order}
      recent == {s \in fresh : ~IsEligible(w, s.key[1]) \/ Cardinality(Newer(s)) < MaxSessions}
  IN [w EXCEPT !.secrets =
        {s \in recent : SecretLen * Cardinality({t \in recent : t.order >= s.order})
                          <= MaxSecretBytes}]

FilesPolled(w) == FoldLeft(PollFile, [w |-> w, budget |-> ReadBudget, found |-> <<>>], PollOrder(w))

AllStored(w, found, now) == FoldLeft(LAMBDA v, f : Stored(v, f, now), w, found)

FilesRead(w, now) == AllStored(FilesPolled(w).w, FilesPolled(w).found, now)

-----------------------------------------------------------------------------
(* What the capture thread and the emitter ask *)

MarkedSeen(w, pid, random) ==
  [w EXCEPT !.secrets = {IF SessionOf(s) = <<pid, random>> THEN [s EXCEPT !.seen = TRUE] ELSE s : s \in @}]

HasSecret(w, pid, random, label) == \E s \in w.secrets : s.key = <<pid, <<random, label>>>>

\* take_secret: the secret is handed over and no longer kept here.
SecretTaken(w, pid, random, label) ==
  [w EXCEPT !.secrets = {s \in @ : s.key # <<pid, <<random, label>>>>}]

FlowSecretsRemoved(w, pid, random) ==
  [w EXCEPT !.secrets = {s \in @ : SessionOf(s) # <<pid, random>>}]

Keys(w) == {s.key : s \in w.secrets}

\* The watcher becomes w; read is what it was before any of it was let go.
KeyApply(w, read) ==
  /\ kWatcher' = w
  /\ kGone' = (kGone \cup Keys(kWatcher) \cup Keys(read)) \ Keys(w)

-----------------------------------------------------------------------------
(* The process, and the control task *)

KeyWrite(pid, n) ==
  /\ kWritten[pid] + n <= Len(FileText(pid))
  /\ kWritten' = [kWritten EXCEPT ![pid] = @ + n]
  /\ UNCHANGED <<kWatcher, kGone, kNow>>

KeyRegister(pid) ==
  /\ kWatcher.order < MaxFinds
  /\ KeyApply(Registered(kWatcher, pid), kWatcher)
  /\ UNCHANGED <<kWritten, kNow>>

KeyUnregister(pid) ==
  /\ IsEligible(kWatcher, pid)
  /\ KeyApply(Unregistered(kWatcher, pid), kWatcher)
  /\ UNCHANGED <<kWritten, kNow>>

KeyInit ==
  /\ kWatcher = NewWatcher
  /\ kWritten = [p \in Pids |-> 0]
  /\ kGone = {}
  /\ kNow = 0

-----------------------------------------------------------------------------
(* Properties *)

\* The units of the first k lines.
LineEnd(pid, k) == FoldLeft(LAMBDA n, l : n + LineLen[l] + 1, 0, SubSeq(KeyText[pid], 1, k))

\* keylog.rs, poll_at: however the writes and the reads cut a line, and whatever
\* an oversized line before it does, the secret of every whole line that was read
\* is kept (or was kept and let go), and no secret is kept that no line has.
KeyLogExact ==
  \A pid \in Pids :
    LET readable == {k \in 1..Len(KeyText[pid]) :
                       LET l == KeyText[pid][k] IN LineLen[l] <= MaxLineBytes /\ LineSecret[l] # Hole}
    IN /\ \A k \in readable :
            IsEligible(kWatcher, pid) /\ LineEnd(pid, k) <= kWatcher.files[pid].offset =>
              <<pid, LineSecret[KeyText[pid][k]]>> \in Keys(kWatcher) \cup kGone
       /\ \A s \in kWatcher.secrets :
            s.key[1] = pid => \E k \in readable : s.key[2] = LineSecret[KeyText[pid][k]]
=============================================================================
