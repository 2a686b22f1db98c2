------------------------------ MODULE TlsProofs ------------------------------
(***************************************************************************)
(* Proofs about Tls and KeyLog.                                            *)
(*                                                                         *)
(* The loops of the code are folds here, so most lemmas say what a loop    *)
(* keeps: scanning a file, polling the files, storing what was found,      *)
(* evicting until there is room, handing late keys to the connections.     *)
(***************************************************************************)
EXTENDS Tls, FoldFacts, SequenceTheorems

SecretName == {LineSecret[l] : l \in DOMAIN LineSecret} \cup {Half}

KeySecret == [key : Pids \X SecretName, at : Nat, order : Nat, seen : BOOLEAN]

Watcher ==
  [files : [Pids -> WatchedFile \cup {Hole}], secrets : SUBSET KeySecret, order : Nat, polled : Nat]
-----------------------------------------------------------------------------
(* The text of a file, line by line *)

\* h holds the text of the first k lines.
TextOf(h, pid) ==
  /\ h \in [0..Len(KeyText[pid]) -> Seq(KeyUnit)]
  /\ h[0] = <<>>
  /\ \A k \in 1..Len(KeyText[pid]) :
       h[k] = h[k-1] \o LineUnits(KeyText[pid][k]) \o <<<<KeyText[pid][k], 0>>>>
  /\ FileText(pid) = h[Len(KeyText[pid])]

LEMMA LineUnitsType ==
  ASSUME NEW l \in DOMAIN LineLen
  PROVE  LineUnits(l) \in Seq(KeyUnit) /\ Len(LineUnits(l)) = LineLen[l]
  <1>1. LineLen[l] \in Nat
    BY KeyLogAssumption
  <1>2. \A i \in 1..LineLen[l] : <<l, i>> \in KeyUnit
    BY <1>1 DEF KeyUnit
  <1>. QED BY <1>1, <1>2 DEF LineUnits

LEMMA TextRuns ==
  ASSUME NEW pid \in Pids
  PROVE  \E h : TextOf(h, pid)
  <1>. DEFINE lines == KeyText[pid]
              n == Len(lines)
              V == Seq(KeyUnit)
              base == <<>>
              Step(text, l) == text \o LineUnits(l) \o <<<<l, 0>>>>
              G == [p \in (1..n) \X V |-> Step(p[2], lines[p[1]])]
              Solves(f) == f = [s \in SUBSET DOMAIN lines |->
                                  IF s = {} THEN base ELSE Step(f[s \ {Max(s)}], lines[Max(s)])]
              iter == CHOOSE f : Solves(f)
  <1>1. lines \in Seq(DOMAIN LineLen) /\ n \in Nat /\ DOMAIN lines = 1..n
    BY KeyLogAssumption
  <1>2. base \in V
    OBVIOUS
  <1>3. ASSUME NEW k \in 1..n, NEW acc \in V
        PROVE  Step(acc, lines[k]) \in V /\ G[<<k, acc>>] = Step(acc, lines[k])
    <2>. DEFINE l == lines[k]
                u == <<<<l, 0>>>>
    <2>1. l \in DOMAIN LineLen
      BY <1>1
    <2>. HIDE DEF l
    <2>2. LineUnits(l) \in Seq(KeyUnit) /\ u \in Seq(KeyUnit)
      BY <2>1, LineUnitsType DEF KeyUnit
    <2>. HIDE DEF u
    <2>3. (acc \o LineUnits(l)) \o u \in Seq(KeyUnit)
      BY <2>2
    <2>4. <<k, acc>> \in (1..n) \X V
      OBVIOUS
    <2>. QED BY <2>3, <2>4 DEF u, l
  <1>4. FileText(pid) = iter[DOMAIN lines]
    BY DEF FileText, FoldLeft, MapThenFoldSet
  <1>. HIDE DEF lines, n, base, Step, V
  <1>5. G \in [(1..n) \X V -> V]
    <2>. SUFFICES ASSUME NEW p \in (1..n) \X V PROVE Step(p[2], lines[p[1]]) \in V
      OBVIOUS
    <2>. QED BY <1>3
  <1>. HIDE DEF G
  <1>6. PICK f \in [SUBSET (1..n) -> V] : LeftFolds(f, n, G, base)
    BY <1>1, <1>2, <1>5, LeftFoldExists
  <1>7. \A s \in SUBSET (1..n) : f[s] = IF s = {} THEN base ELSE Step(f[s \ {Max(s)}], lines[Max(s)])
    BY <1>1, <1>3, <1>6, MaxOfIndices DEF LeftFolds
  <1>8. Solves(f)
    BY <1>1, <1>6, <1>7
  <1>9. Solves(iter)
    BY <1>8
  <1>. HIDE DEF iter
  <1>10. \A s \in SUBSET (1..n) : iter[s] = IF s = {} THEN base ELSE Step(iter[s \ {Max(s)}], lines[Max(s)])
    BY <1>1, <1>9, Zenon
  <1>11. FoldsOver(iter, n, V, G, base)
    <2>. SUFFICES ASSUME NEW s \in SUBSET (1..n)
                  PROVE  /\ s = {} => iter[s] = base
                         /\ s # {} /\ iter[s \ {Max(s)}] \in V => iter[s] = G[<<Max(s), iter[s \ {Max(s)}]>>]
      BY DEF FoldsOver
    <2>1. s # {} => Max(s) \in 1..n
      BY <1>1, MaxOfIndices
    <2>. QED BY <1>3, <1>10, <2>1
  <1>12. PICK h \in [0..n -> V] : Running(h, n, G, base) /\ iter[1..n] = h[n]
    <2>1. RunsTo(iter[1..n], n, V, G, base)
      BY <1>1, <1>2, <1>5, <1>11, LeftFoldSteps
    <2>. QED BY <2>1 DEF RunsTo
  <1>13. ASSUME NEW k \in 1..n PROVE h[k] = Step(h[k-1], lines[k])
    <2>1. k - 1 \in 0..n
      BY <1>1
    <2>. QED BY <1>3, <1>12, <2>1 DEF Running
  <1>. QED BY <1>1, <1>4, <1>12, <1>13 DEF TextOf, lines, n, base, Step, V, Running
-----------------------------------------------------------------------------
(* Scanning what was read of a file *)

Scans == [file : WatchedFile, found : Seq(SecretName)]

LEMMA ParsedType ==
  ASSUME NEW units \in Seq(KeyUnit)
  PROVE  ParsedLine(units) # Hole => ParsedLine(units) \in SecretName
  <1>1. CASE units = <<>>
    BY <1>1 DEF ParsedLine
  <1>2. CASE units # <<>>
    <2>1. units[1] \in KeyUnit
      BY <1>2
    <2>2. units[1][1] \in DOMAIN LineSecret
      BY <2>1, KeyLogAssumption DEF KeyUnit
    <2>. QED BY <1>2, <2>2 DEF ParsedLine, SecretName
  <1>. QED BY <1>1, <1>2

LEMMA ScanUnitType ==
  ASSUME NEW f \in Scans, NEW u \in KeyUnit
  PROVE  ScanUnit(f, u) \in Scans /\ ScanUnit(f, u).file.offset = f.file.offset
  <1>1. /\ f.file \in WatchedFile /\ f.found \in Seq(SecretName) /\ f.file.pending \in Seq(KeyUnit)
        /\ f = [file |-> f.file, found |-> f.found]
    BY DEF Scans, WatchedFile
  <1>2. CASE f.file.discarding
    <2>. DEFINE on == u[2] # 0
                file == [f.file EXCEPT !.discarding = on]
    <2>1. ScanUnit(f, u) = [f EXCEPT !.file = file]
      BY <1>2 DEF ScanUnit
    <2>2. on \in BOOLEAN
      OBVIOUS
    <2>. HIDE DEF on
    <2>3. file \in WatchedFile /\ file.offset = f.file.offset
      BY <1>1, <2>2 DEF WatchedFile
    <2>. HIDE DEF file
    <2>. QED BY <1>1, <2>1, <2>3 DEF Scans
  <1>3. CASE ~f.file.discarding /\ u[2] = 0
    <2>. DEFINE parsed == ParsedLine(f.file.pending)
                found == IF parsed = Hole THEN f.found ELSE Append(f.found, parsed)
                none == <<>>
                file == [f.file EXCEPT !.pending = none]
    <2>1. parsed # Hole => parsed \in SecretName
      BY <1>1, ParsedType
    <2>2. ScanUnit(f, u) = [file |-> file, found |-> found]
      BY <1>3 DEF ScanUnit
    <2>. HIDE DEF parsed
    <2>3. found \in Seq(SecretName)
      <3>1. CASE parsed = Hole
        BY <1>1, <3>1
      <3>2. CASE parsed # Hole
        <4>1. Append(f.found, parsed) \in Seq(SecretName)
          BY <1>1, <2>1, <3>2
        <4>. QED BY <3>2, <4>1
      <3>. QED BY <3>1, <3>2
    <2>. HIDE DEF found
    <2>5. none \in Seq(KeyUnit)
      OBVIOUS
    <2>. HIDE DEF none
    <2>4. file \in WatchedFile /\ file.offset = f.file.offset
      BY <1>1, <2>5 DEF WatchedFile
    <2>. HIDE DEF file
    <2>. QED BY <2>2, <2>3, <2>4 DEF Scans
  <1>4. CASE ~f.file.discarding /\ u[2] # 0 /\ Len(f.file.pending) < MaxLineBytes
    <2>. DEFINE more == Append(f.file.pending, u)
                file == [f.file EXCEPT !.pending = more]
    <2>1. ScanUnit(f, u) = [f EXCEPT !.file = file]
      BY <1>1, <1>4 DEF ScanUnit
    <2>2. more \in Seq(KeyUnit)
      BY <1>1
    <2>. HIDE DEF more
    <2>3. file \in WatchedFile /\ file.offset = f.file.offset
      BY <1>1, <2>2 DEF WatchedFile
    <2>. HIDE DEF file
    <2>. QED BY <1>1, <2>1, <2>3 DEF Scans
  <1>5. CASE ~f.file.discarding /\ u[2] # 0 /\ ~(Len(f.file.pending) < MaxLineBytes)
    <2>. DEFINE none == <<>>
                file == [f.file EXCEPT !.pending = none, !.discarding = TRUE]
    <2>1. ScanUnit(f, u) = [f EXCEPT !.file = file]
      BY <1>5 DEF ScanUnit
    <2>3. none \in Seq(KeyUnit)
      OBVIOUS
    <2>. HIDE DEF none
    <2>2. file \in WatchedFile /\ file.offset = f.file.offset
      BY <1>1, <2>3 DEF WatchedFile
    <2>. HIDE DEF file
    <2>. QED BY <1>1, <2>1, <2>2 DEF Scans
  <1>. QED BY <1>2, <1>3, <1>4, <1>5

\* h holds what has become of the file and what was found after k units.
ScanOf(h, file, units) ==
  /\ h \in [0..Len(units) -> Scans]
  /\ h[0] = [file |-> file, found |-> <<>>]
  /\ \A k \in 1..Len(units) : h[k] = ScanUnit(h[k-1], units[k])
  /\ Scanned(file, units) = h[Len(units)]

LEMMA ScanRuns ==
  ASSUME NEW file \in WatchedFile, NEW units \in Seq(KeyUnit)
  PROVE  \E h : ScanOf(h, file, units)
  <1>. DEFINE n == Len(units)
              V == Scans
              base == [file |-> file, found |-> <<>>]
              Step(acc, u) == ScanUnit(acc, u)
              G == [p \in (1..n) \X V |-> Step(p[2], units[p[1]])]
              Solves(f) == f = [s \in SUBSET DOMAIN units |->
                                  IF s = {} THEN base ELSE Step(f[s \ {Max(s)}], units[Max(s)])]
              iter == CHOOSE f : Solves(f)
  <1>1. n \in Nat /\ DOMAIN units = 1..n
    OBVIOUS
  <1>2. base \in V
    BY DEF Scans
  <1>3. ASSUME NEW k \in 1..n, NEW acc \in V
        PROVE  Step(acc, units[k]) \in V /\ G[<<k, acc>>] = Step(acc, units[k])
    <2>1. units[k] \in KeyUnit
      OBVIOUS
    <2>2. Step(acc, units[k]) \in V
      BY <2>1, ScanUnitType
    <2>3. <<k, acc>> \in (1..n) \X V
      OBVIOUS
    <2>. QED BY <2>2, <2>3
  <1>4. Scanned(file, units) = iter[DOMAIN units]
    BY DEF Scanned, FoldLeft, MapThenFoldSet
  <1>. HIDE DEF n, base, Step, V
  <1>5. G \in [(1..n) \X V -> V]
    <2>. SUFFICES ASSUME NEW p \in (1..n) \X V PROVE Step(p[2], units[p[1]]) \in V
      OBVIOUS
    <2>. QED BY <1>3
  <1>. HIDE DEF G
  <1>6. PICK f \in [SUBSET (1..n) -> V] : LeftFolds(f, n, G, base)
    BY <1>1, <1>2, <1>5, LeftFoldExists
  <1>7. \A s \in SUBSET (1..n) : f[s] = IF s = {} THEN base ELSE Step(f[s \ {Max(s)}], units[Max(s)])
    BY <1>1, <1>3, <1>6, MaxOfIndices DEF LeftFolds
  <1>8. Solves(f)
    BY <1>1, <1>6, <1>7
  <1>9. Solves(iter)
    BY <1>8
  <1>. HIDE DEF iter
  <1>10. \A s \in SUBSET (1..n) : iter[s] = IF s = {} THEN base ELSE Step(iter[s \ {Max(s)}], units[Max(s)])
    BY <1>1, <1>9, Zenon
  <1>11. FoldsOver(iter, n, V, G, base)
    <2>. SUFFICES ASSUME NEW s \in SUBSET (1..n)
                  PROVE  /\ s = {} => iter[s] = base
                         /\ s # {} /\ iter[s \ {Max(s)}] \in V => iter[s] = G[<<Max(s), iter[s \ {Max(s)}]>>]
      BY DEF FoldsOver
    <2>1. s # {} => Max(s) \in 1..n
      BY <1>1, MaxOfIndices
    <2>. QED BY <1>3, <1>10, <2>1
  <1>12. PICK h \in [0..n -> V] : Running(h, n, G, base) /\ iter[1..n] = h[n]
    <2>1. RunsTo(iter[1..n], n, V, G, base)
      BY <1>1, <1>2, <1>5, <1>11, LeftFoldSteps
    <2>. QED BY <2>1 DEF RunsTo
  <1>13. ASSUME NEW k \in 1..n PROVE h[k] = Step(h[k-1], units[k])
    <2>1. k - 1 \in 0..n
      BY <1>1
    <2>. QED BY <1>3, <1>12, <2>1 DEF Running
  <1>14. /\ h \in [0..n -> V] /\ h[0] = base /\ \A k \in 1..n : h[k] = Step(h[k-1], units[k])
         /\ Scanned(file, units) = h[n]
    BY <1>1, <1>4, <1>12, <1>13 DEF Running
  <1>. QED BY <1>14, Zenon DEF ScanOf, n, base, Step, V

\* Scanning leaves the offset alone.
LEMMA ScanKeepsOffset ==
  ASSUME NEW file \in WatchedFile, NEW units \in Seq(KeyUnit), NEW h, ScanOf(h, file, units)
  PROVE  \A k \in 0..Len(units) : h[k] \in Scans /\ h[k].file.offset = file.offset
  <1>. DEFINE n == Len(units)
              T == {k \in Nat : k <= n => h[k].file.offset = file.offset}
  <1>1. n \in Nat /\ h \in [0..n -> Scans]
    BY DEF ScanOf
  <1>2. 0 \in T
    BY DEF ScanOf
  <1>3. ASSUME NEW k \in Nat, k \in T PROVE k + 1 \in T
    <2>. SUFFICES ASSUME k + 1 <= n PROVE h[k+1].file.offset = file.offset
      OBVIOUS
    <2>1. k \in 0..n /\ k + 1 \in 1..n /\ (k + 1) - 1 = k
      BY <1>1
    <2>2. h[k] \in Scans /\ units[k+1] \in KeyUnit /\ h[k+1] = ScanUnit(h[k], units[k+1])
      BY <1>1, <2>1 DEF ScanOf
    <2>3. h[k].file.offset = file.offset
      BY <1>3, <2>1
    <2>. QED BY <2>2, <2>3, ScanUnitType
  <1>. HIDE DEF T
  <1>4. Nat \subseteq T
    BY <1>2, <1>3, NatSetInduction
  <1>. QED BY <1>1, <1>4 DEF T
-----------------------------------------------------------------------------
(* Where in the text a file has been read to *)

Lines(pid) == Len(KeyText[pid])
Text(pid) == CHOOSE h : TextOf(h, pid)
Ends(pid, k) == Len(Text(pid)[k])
NameOn(pid, k) == LineSecret[KeyText[pid][k]]

\* The lines that hold a secret and are not too long.
Readable(pid) ==
  {k \in 1..Lines(pid) : LineLen[KeyText[pid][k]] <= MaxLineBytes /\ NameOn(pid, k) # Hole}

LEMMA TextFacts ==
  ASSUME NEW pid \in Pids
  PROVE  TextOf(Text(pid), pid) /\ Lines(pid) \in Nat /\ KeyText[pid] \in Seq(DOMAIN LineLen)
  BY TextRuns, KeyLogAssumption DEF Text, Lines

\* Two sequences after each other.
LEMMA Joined ==
  ASSUME NEW S, NEW a \in Seq(S), NEW b \in Seq(S)
  PROVE  /\ a \o b \in Seq(S) /\ Len(a \o b) = Len(a) + Len(b)
         /\ Len(a) \in Nat /\ Len(b) \in Nat
         /\ \A i \in 1..Len(a) : (a \o b)[i] = a[i]
         /\ \A i \in 1..Len(b) : (a \o b)[Len(a) + i] = b[i]
  <1>1. /\ a \o b \in Seq(S) /\ Len(a \o b) = Len(a) + Len(b) /\ Len(a) \in Nat /\ Len(b) \in Nat
        /\ \A i \in 1..Len(a) + Len(b) : (a \o b)[i] = IF i <= Len(a) THEN a[i] ELSE b[i - Len(a)]
    BY ConcatProperties
  <1>. DEFINE c == a \o b
              la == Len(a)
              lb == Len(b)
  <1>2. la \in Nat /\ lb \in Nat /\ \A i \in 1..la + lb : c[i] = IF i <= la THEN a[i] ELSE b[i - la]
    BY <1>1
  <1>. HIDE DEF c, la, lb
  <1>3. ASSUME NEW i \in 1..la PROVE c[i] = a[i]
    <2>1. i \in 1..la + lb /\ i <= la
      BY <1>2
    <2>. QED BY <1>2, <2>1
  <1>4. ASSUME NEW i \in 1..lb PROVE c[la + i] = b[i]
    <2>1. la + i \in 1..la + lb /\ ~(la + i <= la) /\ (la + i) - la = i
      BY <1>2
    <2>. QED BY <1>2, <2>1
  <1>. QED BY <1>1, <1>3, <1>4 DEF c, la, lb

\* One line more: its units and a line feed.
LEMMA TextGrows ==
  ASSUME NEW pid \in Pids, NEW k \in 1..Lines(pid)
  PROVE  LET l == KeyText[pid][k]
             m == Ends(pid, k-1)
         IN /\ l \in DOMAIN LineLen /\ LineLen[l] \in Nat /\ m \in Nat
            /\ Text(pid)[k] \in Seq(KeyUnit)
            /\ Ends(pid, k) = m + LineLen[l] + 1
            /\ \A i \in 1..m : Text(pid)[k][i] = Text(pid)[k-1][i]
            /\ \A i \in 1..LineLen[l] : Text(pid)[k][m + i] = <<l, i>>
            /\ Text(pid)[k][m + LineLen[l] + 1] = <<l, 0>>
  <1>. DEFINE l == KeyText[pid][k]
              t == Text(pid)[k-1]
              u == LineUnits(l)
              e == <<<<l, 0>>>>
              m == Len(t)
              r == Text(pid)[k]
  <1>1. l \in DOMAIN LineLen /\ LineLen[l] \in Nat
    BY TextFacts, KeyLogAssumption DEF Lines
  <1>2. k - 1 \in 0..Lines(pid) /\ k \in 0..Lines(pid)
    BY TextFacts
  <1>3. t \in Seq(KeyUnit) /\ r \in Seq(KeyUnit) /\ r = t \o u \o e
    BY <1>2, TextFacts DEF TextOf, Lines
  <1>4. u \in Seq(KeyUnit) /\ Len(u) = LineLen[l] /\ e \in Seq(KeyUnit) /\ Len(e) = 1 /\ e[1] = <<l, 0>>
    BY <1>1, LineUnitsType DEF KeyUnit
  <1>5. \A i \in 1..LineLen[l] : u[i] = <<l, i>>
    BY DEF LineUnits
  <1>. HIDE DEF l, t, u, e, r
  <1>. DEFINE v == t \o u
  <1>6. v \in Seq(KeyUnit) /\ Len(v) = m + LineLen[l] /\ m \in Nat
    <2>1. t \in Seq(KeyUnit) /\ u \in Seq(KeyUnit) /\ Len(u) = LineLen[l]
      BY <1>3, <1>4
    <2>2. v \in Seq(KeyUnit) /\ Len(v) = Len(t) + Len(u) /\ Len(t) \in Nat
      BY <2>1, Joined, Zenon
    <2>. QED BY <2>1, <2>2
  <1>7. (\A i \in 1..m : v[i] = t[i]) /\ (\A i \in 1..LineLen[l] : v[m + i] = u[i])
    <2>1. (\A i \in 1..Len(t) : v[i] = t[i]) /\ (\A i \in 1..Len(u) : v[Len(t) + i] = u[i])
      BY <1>3, <1>4, Joined
    <2>. QED BY <1>4, <2>1
  <1>. HIDE DEF v, m
  <1>8. Len(v \o e) = m + LineLen[l] + 1 /\ (\A i \in 1..Len(v) : (v \o e)[i] = v[i]) /\ (v \o e)[Len(v) + 1] = e[1]
    <2>1. Len(v \o e) = Len(v) + Len(e) /\ (\A i \in 1..Len(v) : (v \o e)[i] = v[i])
          /\ \A i \in 1..Len(e) : (v \o e)[Len(v) + i] = e[i]
      <3>1. v \in Seq(KeyUnit) /\ e \in Seq(KeyUnit)
        BY <1>4, <1>6
      <3>2. Len(v \o e) = Len(v) + Len(e)
        BY <3>1, Joined
      <3>3. \A i \in 1..Len(v) : (v \o e)[i] = v[i]
        BY <3>1, Joined
      <3>4. \A i \in 1..Len(e) : (v \o e)[Len(v) + i] = e[i]
        BY <3>1, Joined
      <3>. QED BY <3>2, <3>3, <3>4
    <2>2. 1 \in 1..Len(e)
      BY <1>4
    <2>. QED BY <1>4, <1>6, <2>1, <2>2
  <1>9. r = v \o e
    BY <1>3 DEF v
  <1>10. \A i \in 1..m : r[i] = t[i]
    BY <1>1, <1>6, <1>7, <1>8, <1>9
  <1>11. ASSUME NEW i \in 1..LineLen[l] PROVE r[m + i] = <<l, i>>
    <2>1. m + i \in 1..Len(v)
      BY <1>1, <1>6
    <2>2. r[m + i] = v[m + i]
      BY <1>8, <1>9, <2>1
    <2>. QED BY <1>5, <1>7, <2>2
  <1>12. r[m + LineLen[l] + 1] = <<l, 0>> /\ Len(r) = m + LineLen[l] + 1
    BY <1>4, <1>6, <1>8, <1>9
  <1>. QED BY <1>1, <1>3, <1>6, <1>10, <1>11, <1>12 DEF Ends, l, t, r, m

LEMMA EndsType ==
  ASSUME NEW pid \in Pids, NEW k \in 0..Lines(pid)
  PROVE  Ends(pid, k) \in Nat /\ Text(pid)[k] \in Seq(KeyUnit)
  <1>1. Text(pid) \in [0..Lines(pid) -> Seq(KeyUnit)]
    BY TextFacts DEF TextOf, Lines
  <1>2. Text(pid)[k] \in Seq(KeyUnit)
    BY <1>1
  <1>. QED BY <1>2 DEF Ends

\* The text of more lines starts with that of fewer.
LEMMA TextIsPrefix ==
  ASSUME NEW pid \in Pids, NEW j \in 0..Lines(pid)
  PROVE  \A k \in j..Lines(pid) : /\ Ends(pid, j) + (k - j) <= Ends(pid, k)
                                  /\ \A i \in 1..Ends(pid, j) : Text(pid)[k][i] = Text(pid)[j][i]
  <1>. DEFINE Ok(k) == /\ Ends(pid, j) + (k - j) <= Ends(pid, k)
                       /\ \A i \in 1..Ends(pid, j) : Text(pid)[k][i] = Text(pid)[j][i]
              T == {d \in Nat : j + d <= Lines(pid) => Ok(j + d)}
  <1>1. Lines(pid) \in Nat /\ j \in Nat /\ Ends(pid, j) \in Nat
    BY TextFacts, EndsType
  <1>2. 0 \in T
    BY <1>1
  <1>3. ASSUME NEW d \in Nat, d \in T PROVE d + 1 \in T
    <2>. SUFFICES ASSUME j + (d + 1) <= Lines(pid) PROVE Ok(j + (d + 1))
      OBVIOUS
    <2>. DEFINE k == j + (d + 1)
    <2>1. k \in 1..Lines(pid) /\ k - 1 = j + d /\ Ok(k - 1) /\ k - 1 \in 0..Lines(pid)
      BY <1>1, <1>3
    <2>2. Ends(pid, k-1) \in Nat
      BY <2>1, EndsType
    <2>3. /\ LineLen[KeyText[pid][k]] \in Nat /\ Ends(pid, k) = Ends(pid, k-1) + LineLen[KeyText[pid][k]] + 1
          /\ \A i \in 1..Ends(pid, k-1) : Text(pid)[k][i] = Text(pid)[k-1][i]
      BY <2>1, TextGrows
    <2>4. Ends(pid, j) + ((k - 1) - j) <= Ends(pid, k-1)
      BY <2>1
    <2>5. \A i \in 1..Ends(pid, j) : Text(pid)[k-1][i] = Text(pid)[j][i]
      BY <2>1
    <2>6. Ends(pid, j) + (k - j) <= Ends(pid, k) /\ Ends(pid, j) <= Ends(pid, k-1)
      <3>1. k \in Nat
        BY <1>1
      <3>. HIDE DEF k
      <3>. QED BY <1>1, <2>1, <2>2, <2>3, <2>4, <3>1
    <2>. HIDE DEF k
    <2>7. \A i \in 1..Ends(pid, j) : Text(pid)[k][i] = Text(pid)[j][i]
      BY <1>1, <2>2, <2>3, <2>5, <2>6
    <2>. QED BY <2>6, <2>7 DEF k
  <1>4. Nat \subseteq T
    <2>. HIDE DEF T
    <2>. QED BY <1>2, <1>3, NatSetInduction
  <1>. SUFFICES ASSUME NEW k \in j..Lines(pid) PROVE Ok(k)
    OBVIOUS
  <1>5. k - j \in Nat /\ j + (k - j) = k /\ k <= Lines(pid)
    BY <1>1
  <1>. HIDE DEF Ok
  <1>. QED BY <1>4, <1>5

\* The whole text, at the units of line k.
LEMMA UnitsOfLine ==
  ASSUME NEW pid \in Pids, NEW k \in 1..Lines(pid)
  PROVE  LET l == KeyText[pid][k]
             m == Ends(pid, k-1)
         IN /\ l \in DOMAIN LineLen /\ LineLen[l] \in Nat /\ m \in Nat
            /\ FileText(pid) \in Seq(KeyUnit)
            /\ Ends(pid, k) = m + LineLen[l] + 1 /\ Ends(pid, k) <= Len(FileText(pid))
            /\ \A i \in 1..LineLen[l] : FileText(pid)[m + i] = <<l, i>>
            /\ FileText(pid)[m + LineLen[l] + 1] = <<l, 0>>
  <1>. DEFINE l == KeyText[pid][k]
              m == Ends(pid, k-1)
              n == Lines(pid)
  <1>1. /\ l \in DOMAIN LineLen /\ LineLen[l] \in Nat /\ m \in Nat /\ Ends(pid, k) = m + LineLen[l] + 1
        /\ \A i \in 1..LineLen[l] : Text(pid)[k][m + i] = <<l, i>>
        /\ Text(pid)[k][m + LineLen[l] + 1] = <<l, 0>>
    BY TextGrows
  <1>2. n \in Nat /\ k \in 0..n /\ n \in k..n /\ FileText(pid) = Text(pid)[n]
    <2>1. n \in Nat
      BY TextFacts
    <2>2. FileText(pid) = Text(pid)[n]
      BY TextFacts DEF TextOf, Lines
    <2>. QED BY <2>1, <2>2
  <1>. HIDE DEF n
  <1>3. FileText(pid) \in Seq(KeyUnit) /\ Len(FileText(pid)) = Ends(pid, n) /\ Ends(pid, n) \in Nat
    BY <1>2, EndsType DEF Ends, n
  <1>4. Ends(pid, k) + (n - k) <= Ends(pid, n) /\ \A i \in 1..Ends(pid, k) : Text(pid)[n][i] = Text(pid)[k][i]
    BY <1>2, TextIsPrefix DEF n
  <1>. HIDE DEF l, m
  <1>5. Ends(pid, k) <= Len(FileText(pid))
    BY <1>1, <1>2, <1>3, <1>4
  <1>6. \A i \in 1..LineLen[l] : FileText(pid)[m + i] = <<l, i>>
    BY <1>1, <1>2, <1>4
  <1>7. FileText(pid)[m + LineLen[l] + 1] = <<l, 0>>
    BY <1>1, <1>2, <1>4
  <1>. QED BY <1>1, <1>3, <1>5, <1>6, <1>7 DEF l, m
-----------------------------------------------------------------------------
(* The scan follows the lines *)

\* After o units, file is i units into line k: they are pending, unless they are
\* too many, and then the rest of the line is discarded.
IntoLine(pid, file, k, i) ==
  /\ IF k <= Lines(pid) THEN i <= LineLen[KeyText[pid][k]] ELSE i = 0
  /\ i <= MaxLineBytes => /\ ~file.discarding
                          /\ file.pending = [j \in 1..i |-> <<KeyText[pid][k], j>>]
  /\ i > MaxLineBytes => file.discarding /\ file.pending = <<>>

AtLine(pid, o, file, k) ==
  k \in 1..Lines(pid) + 1 /\ \E i \in Nat : o = Ends(pid, k-1) + i /\ IntoLine(pid, file, k, i)

\* All that was found is on readable lines, and the lines from first to k are found.
FoundUpTo(pid, first, k, found) ==
  /\ \A r \in Readable(pid) : first <= r /\ r < k => \E i \in 1..Len(found) : found[i] = NameOn(pid, r)
  /\ \A i \in 1..Len(found) : \E r \in Readable(pid) : found[i] = NameOn(pid, r)

ScanInv(pid, first, o, s) ==
  \E k \in 1..Lines(pid) + 1 :
    first <= k /\ AtLine(pid, o, s.file, k) /\ FoundUpTo(pid, first, k, s.found)

\* A unit within a line.
LEMMA ScanWithin ==
  ASSUME NEW pid \in Pids, NEW s \in Scans, NEW k \in 1..Lines(pid), NEW i \in Nat,
         i < LineLen[KeyText[pid][k]], IntoLine(pid, s.file, k, i),
         NEW u, u = <<KeyText[pid][k], i + 1>>
  PROVE  LET t == ScanUnit(s, u)
         IN IntoLine(pid, t.file, k, i + 1) /\ t.found = s.found
  <1>. DEFINE l == KeyText[pid][k]
              t == ScanUnit(s, u)
              p == s.file.pending
  <1>. SUFFICES IntoLine(pid, t.file, k, i + 1) /\ t.found = s.found
    OBVIOUS
  <1>1. u[2] # 0 /\ u[2] = i + 1 /\ LineLen[l] \in Nat /\ MaxLineBytes \in Nat /\ MaxLineBytes > 0
    <2>1. LineLen[l] \in Nat
      BY UnitsOfLine
    <2>2. MaxLineBytes \in Nat /\ MaxLineBytes > 0
      BY KeyLogAssumption
    <2>. QED BY <2>1, <2>2
  <1>2. s.file \in WatchedFile /\ s = [file |-> s.file, found |-> s.found]
    BY DEF Scans
  <1>3. IF k <= Lines(pid) THEN i + 1 <= LineLen[l] ELSE i + 1 = 0
    BY <1>1, TextFacts
  <1>4. CASE i > MaxLineBytes
    <2>1. s.file.discarding /\ t = [s EXCEPT !.file = [s.file EXCEPT !.discarding = u[2] # 0]]
      BY <1>4 DEF IntoLine, ScanUnit
    <2>2. t.file.discarding /\ t.found = s.found /\ t.file.pending = s.file.pending
      BY <1>1, <1>2, <2>1 DEF WatchedFile
    <2>3. i + 1 > MaxLineBytes /\ ~(i + 1 <= MaxLineBytes)
      BY <1>1, <1>4
    <2>4. s.file.pending = <<>>
      BY <1>4 DEF IntoLine
    <2>. HIDE DEF t
    <2>. QED BY <1>3, <2>2, <2>3, <2>4, Zenon DEF IntoLine, l
  <1>5. CASE i <= MaxLineBytes
    <2>1. ~s.file.discarding /\ p = [j \in 1..i |-> <<l, j>>]
      BY <1>5 DEF IntoLine
    <2>. HIDE DEF l
    <2>2. Len(p) = i /\ \A j \in 1..i : p[j] = <<l, j>>
      BY <2>1
    <2>3. CASE i < MaxLineBytes
      <3>. DEFINE more == Append(p, u)
      <3>1. t = [s EXCEPT !.file.pending = more]
        BY <1>1, <2>1, <2>2, <2>3 DEF ScanUnit
      <3>2. more = [j \in 1..(i + 1) |-> <<l, j>>]
        <4>1. p \in Seq(KeyUnit)
          BY <1>2 DEF WatchedFile
        <4>2. more = [j \in 1..(i + 1) |-> IF j <= i THEN p[j] ELSE u]
          BY <2>2, <4>1
        <4>3. \A j \in 1..(i + 1) : (IF j <= i THEN p[j] ELSE u) = <<l, j>>
          BY <2>2 DEF l
        <4>. QED BY <4>2, <4>3
      <3>. HIDE DEF more
      <3>3. ~t.file.discarding /\ t.file.pending = more /\ t.found = s.found
        BY <1>2, <2>1, <3>1 DEF WatchedFile
      <3>. HIDE DEF t
      <3>4. i + 1 <= MaxLineBytes /\ ~(i + 1 > MaxLineBytes)
        BY <1>1, <2>3
      <3>. QED BY <1>3, <3>2, <3>3, <3>4, Zenon DEF IntoLine, l
    <2>4. CASE ~(i < MaxLineBytes)
      <3>1. t = [s EXCEPT !.file = [s.file EXCEPT !.pending = <<>>, !.discarding = TRUE]]
        BY <1>1, <2>1, <2>2, <2>4 DEF ScanUnit
      <3>2. t.file.discarding /\ t.found = s.found /\ t.file.pending = <<>>
        BY <1>2, <3>1 DEF WatchedFile
      <3>. HIDE DEF t
      <3>3. ~(i + 1 <= MaxLineBytes)
        BY <1>1, <2>4
      <3>. QED BY <1>3, <3>2, <3>3, Zenon DEF IntoLine, l
    <2>. QED BY <2>3, <2>4
  <1>. QED BY <1>1, <1>4, <1>5

\* The line feed: the next line begins, and the secret of a readable line is found.
LEMMA ScanLineFeed ==
  ASSUME NEW pid \in Pids, NEW s \in Scans, NEW k \in 1..Lines(pid),
         IntoLine(pid, s.file, k, LineLen[KeyText[pid][k]]),
         NEW u, u = <<KeyText[pid][k], 0>>
  PROVE  LET t == ScanUnit(s, u)
         IN /\ IntoLine(pid, t.file, k + 1, 0)
            /\ k \in Readable(pid) => t.found = Append(s.found, NameOn(pid, k))
            /\ k \notin Readable(pid) => t.found = s.found
  <1>. DEFINE l == KeyText[pid][k]
              t == ScanUnit(s, u)
              p == s.file.pending
              n == LineLen[l]
  <1>. SUFFICES /\ IntoLine(pid, t.file, k + 1, 0)
                /\ k \in Readable(pid) => t.found = Append(s.found, NameOn(pid, k))
                /\ k \notin Readable(pid) => t.found = s.found
    OBVIOUS
  <1>1. /\ u[2] = 0 /\ l \in DOMAIN LineLen /\ n \in Nat /\ MaxLineBytes \in Nat /\ MaxLineBytes > 0
        /\ Lines(pid) \in Nat
    <2>1. l \in DOMAIN LineLen /\ n \in Nat
      BY UnitsOfLine
    <2>2. MaxLineBytes \in Nat /\ MaxLineBytes > 0
      BY KeyLogAssumption
    <2>3. Lines(pid) \in Nat
      BY TextFacts
    <2>. QED BY <2>1, <2>2, <2>3
  <1>2. s.file \in WatchedFile /\ s = [file |-> s.file, found |-> s.found] /\ p \in Seq(KeyUnit)
    BY DEF Scans, WatchedFile
  <1>3. ASSUME t.file.pending = <<>>, ~t.file.discarding PROVE IntoLine(pid, t.file, k + 1, 0)
    <2>1. [j \in 1..0 |-> <<KeyText[pid][k+1], j>>] = <<>>
      OBVIOUS
    <2>2. k + 1 <= Lines(pid) => 0 <= LineLen[KeyText[pid][k+1]]
      <3>. SUFFICES ASSUME k + 1 <= Lines(pid) PROVE 0 <= LineLen[KeyText[pid][k+1]]
        OBVIOUS
      <3>1. k + 1 \in 1..Lines(pid)
        BY <1>1
      <3>2. LineLen[KeyText[pid][k+1]] \in Nat
        BY <3>1, UnitsOfLine
      <3>. QED BY <3>2
    <2>3. 0 <= MaxLineBytes /\ ~(0 > MaxLineBytes)
      BY <1>1
    <2>. HIDE DEF t
    <2>4. IF k + 1 <= Lines(pid) THEN 0 <= LineLen[KeyText[pid][k+1]] ELSE 0 = 0
      BY <2>2
    <2>. QED BY <1>3, <2>1, <2>3, <2>4, Zenon DEF IntoLine
  <1>4. CASE n > MaxLineBytes
    <2>. DEFINE on == u[2] # 0
    <2>1. s.file.discarding /\ t = [s EXCEPT !.file = [s.file EXCEPT !.discarding = on]]
      BY <1>4 DEF IntoLine, ScanUnit
    <2>5. on = FALSE
      BY <1>1
    <2>. HIDE DEF on, t
    <2>2. ~t.file.discarding /\ t.found = s.found /\ t.file.pending = p
      BY <1>2, <2>1, <2>5 DEF WatchedFile
    <2>3. k \notin Readable(pid)
      BY <1>1, <1>4 DEF Readable
    <2>4. p = <<>>
      BY <1>4 DEF IntoLine
    <2>. QED BY <1>3, <2>2, <2>3, <2>4
  <1>5. CASE n <= MaxLineBytes
    <2>1. ~s.file.discarding /\ p = LineUnits(l)
      BY <1>5 DEF IntoLine, LineUnits
    <2>. DEFINE x == ParsedLine(p)
    <2>2. x = LineSecret[l]
      <3>1. CASE n = 0
        <4>1. p = <<>>
          BY <2>1, <3>1 DEF LineUnits
        <4>. QED BY <1>1, <3>1, <4>1, KeyLogAssumption DEF ParsedLine
      <3>2. CASE n # 0
        <4>1. 1 \in 1..n
          BY <1>1, <3>2
        <4>2. p[1] = <<l, 1>> /\ p # <<>>
          <5>1. p[1] = <<l, 1>>
            BY <2>1, <4>1 DEF LineUnits
          <5>2. Len(p) = n
            BY <1>1, <2>1, LineUnitsType
          <5>. HIDE DEF p
          <5>3. p # <<>>
            BY <3>2, <5>2
          <5>. QED BY <5>1, <5>3
        <4>3. p[1][1] = l
          BY <4>2
        <4>. QED BY <2>1, <4>2, <4>3 DEF ParsedLine
      <3>. QED BY <3>1, <3>2
    <2>3. t = [file |-> [s.file EXCEPT !.pending = <<>>],
               found |-> IF x = Hole THEN s.found ELSE Append(s.found, x)]
      BY <1>1, <2>1 DEF ScanUnit
    <2>. HIDE DEF x, t
    <2>4. t.file.pending = <<>> /\ ~t.file.discarding /\ t.found = IF x = Hole THEN s.found ELSE Append(s.found, x)
      BY <1>2, <2>1, <2>3 DEF WatchedFile
    <2>5. k \in Readable(pid) <=> x # Hole
      BY <1>5, <2>2 DEF Readable, NameOn
    <2>6. x = NameOn(pid, k)
      BY <2>2 DEF NameOn
    <2>. QED BY <1>3, <2>4, <2>5, <2>6
  <1>6. n > MaxLineBytes \/ n <= MaxLineBytes
    BY <1>1
  <1>. HIDE DEF t, n
  <1>. QED BY <1>4, <1>5, <1>6
LEMMA TextLength ==
  ASSUME NEW pid \in Pids
  PROVE  FileText(pid) \in Seq(KeyUnit) /\ Len(FileText(pid)) = Ends(pid, Lines(pid)) /\ Ends(pid, 0) = 0
  <1>. DEFINE n == Lines(pid)
  <1>1. n \in Nat /\ FileText(pid) = Text(pid)[n] /\ Text(pid)[0] = <<>>
    BY TextFacts DEF TextOf, Lines
  <1>2. n \in 0..n
    BY <1>1
  <1>. HIDE DEF n
  <1>3. Text(pid)[n] \in Seq(KeyUnit)
    BY <1>2, EndsType DEF n
  <1>. QED BY <1>1, <1>3 DEF Ends, n

LEMMA FoundOneMore ==
  ASSUME NEW pid \in Pids, NEW first \in Nat, NEW k \in 1..Lines(pid), NEW found \in Seq(SecretName),
         FoundUpTo(pid, first, k, found), NEW more,
         k \in Readable(pid) => more = Append(found, NameOn(pid, k)),
         k \notin Readable(pid) => more = found
  PROVE  FoundUpTo(pid, first, k + 1, more)
  <1>1. Readable(pid) \subseteq Nat /\ k \in Nat /\ Len(found) \in Nat
    BY TextFacts DEF Readable
  <1>2. ASSUME NEW r \in Readable(pid), r < k + 1 PROVE r < k \/ r = k
    BY <1>1, <1>2
  <1>3. CASE k \notin Readable(pid)
    <2>1. ASSUME NEW r \in Readable(pid), first <= r, r < k + 1
          PROVE  \E i \in 1..Len(more) : more[i] = NameOn(pid, r)
      BY <1>2, <1>3, <2>1 DEF FoundUpTo
    <2>. QED BY <1>3, <2>1 DEF FoundUpTo
  <1>4. CASE k \in Readable(pid)
    <2>. DEFINE x == NameOn(pid, k)
                m == Len(found)
    <2>1. more = Append(found, x)
      BY <1>4
    <2>. HIDE DEF x
    <2>2. Len(more) = m + 1 /\ more[m + 1] = x /\ \A i \in 1..m : more[i] = found[i]
      BY <2>1
    <2>3. m + 1 \in 1..Len(more) /\ \A i \in 1..m : i \in 1..Len(more)
      BY <1>1, <2>2
    <2>. HIDE DEF m
    <2>4. ASSUME NEW r \in Readable(pid), first <= r, r < k + 1
          PROVE  \E i \in 1..Len(more) : more[i] = NameOn(pid, r)
      <3>1. CASE r = k
        BY <2>2, <2>3, <3>1 DEF x
      <3>2. CASE r < k
        <4>1. PICK i \in 1..m : found[i] = NameOn(pid, r)
          BY <2>4, <3>2 DEF FoundUpTo, m
        <4>. QED BY <2>2, <2>3, <4>1
      <3>. QED BY <1>2, <2>4, <3>1, <3>2
    <2>5. ASSUME NEW i \in 1..Len(more)
          PROVE  \E r \in Readable(pid) : more[i] = NameOn(pid, r)
      <3>1. m \in Nat
        BY <1>1 DEF m
      <3>2. i \in 1..m \/ i = m + 1
        BY <2>2, <3>1
      <3>3. CASE i = m + 1
        BY <1>4, <2>2, <3>3 DEF x
      <3>4. CASE i \in 1..m
        <4>1. found[i] = more[i]
          BY <2>2, <3>4
        <4>. QED BY <3>4, <4>1 DEF FoundUpTo, m
      <3>. QED BY <3>2, <3>3, <3>4
    <2>. QED BY <2>4, <2>5 DEF FoundUpTo
  <1>. QED BY <1>3, <1>4

LEMMA ScanStep ==
  ASSUME NEW pid \in Pids, NEW s \in Scans, NEW first \in Nat, NEW o \in Nat,
         o < Len(FileText(pid)), ScanInv(pid, first, o, s)
  PROVE  ScanInv(pid, first, o + 1, ScanUnit(s, FileText(pid)[o + 1]))
  <1>. DEFINE u == FileText(pid)[o + 1]
              t == ScanUnit(s, u)
  <1>1. PICK k \in 1..Lines(pid) + 1 :
          first <= k /\ AtLine(pid, o, s.file, k) /\ FoundUpTo(pid, first, k, s.found)
    BY DEF ScanInv
  <1>2. PICK i \in Nat : o = Ends(pid, k-1) + i /\ IntoLine(pid, s.file, k, i)
    BY <1>1 DEF AtLine
  <1>3. Lines(pid) \in Nat
    BY TextFacts
  <1>4. k \in 1..Lines(pid)
    <2>. SUFFICES ASSUME k = Lines(pid) + 1 PROVE FALSE
      BY <1>3
    <2>1. ~(k <= Lines(pid)) /\ k - 1 = Lines(pid)
      BY <1>3
    <2>2. i = 0
      BY <1>2, <2>1 DEF IntoLine
    <2>3. o = Len(FileText(pid)) + 0
      BY <1>2, <2>1, <2>2, TextLength
    <2>4. Len(FileText(pid)) \in Nat
      BY TextLength
    <2>. QED BY <2>3, <2>4
  <1>. DEFINE l == KeyText[pid][k]
              m == Ends(pid, k-1)
              n == LineLen[l]
  <1>5. /\ n \in Nat /\ m \in Nat /\ Ends(pid, k) = m + n + 1 /\ FileText(pid)[m + n + 1] = <<l, 0>>
        /\ \A j \in 1..n : FileText(pid)[m + j] = <<l, j>>
    BY <1>4, UnitsOfLine
  <1>6. i <= n /\ o = m + i
    BY <1>2, <1>3, <1>4 DEF IntoLine
  <1>7. s.found \in Seq(SecretName)
    BY DEF Scans
  <1>. HIDE DEF m, n
  <1>8. CASE i < n
    <2>1. i + 1 \in 1..n /\ o + 1 = m + (i + 1)
      BY <1>5, <1>6, <1>8
    <2>2. u = <<l, i + 1>>
      BY <1>5, <2>1
    <2>. HIDE DEF u
    <2>3. IntoLine(pid, t.file, k, i + 1) /\ t.found = s.found
      BY <1>2, <1>4, <1>8, <2>2, ScanWithin DEF n
    <2>4. AtLine(pid, o + 1, t.file, k)
      BY <2>1, <2>3 DEF AtLine, m
    <2>. QED BY <1>1, <2>3, <2>4 DEF ScanInv, u
  <1>9. CASE ~(i < n)
    <2>1. i = n /\ o + 1 = m + n + 1 /\ o + 1 = Ends(pid, k) + 0
      BY <1>5, <1>6, <1>9
    <2>2. u = <<l, 0>>
      BY <1>5, <2>1
    <2>3. IntoLine(pid, s.file, k, LineLen[KeyText[pid][k]])
      BY <1>2, <2>1 DEF n
    <2>. HIDE DEF u
    <2>4. /\ IntoLine(pid, t.file, k + 1, 0)
          /\ k \in Readable(pid) => t.found = Append(s.found, NameOn(pid, k))
          /\ k \notin Readable(pid) => t.found = s.found
      BY <1>4, <2>2, <2>3, ScanLineFeed
    <2>5. k + 1 \in 1..Lines(pid) + 1 /\ (k + 1) - 1 = k /\ first <= k + 1
      BY <1>1, <1>3, <1>4
    <2>6. AtLine(pid, o + 1, t.file, k + 1)
      BY <2>1, <2>4, <2>5 DEF AtLine
    <2>. HIDE DEF t
    <2>7. FoundUpTo(pid, first, k + 1, t.found)
      BY <1>1, <1>4, <1>7, <2>4, FoundOneMore
    <2>8. ScanInv(pid, first, o + 1, t)
      BY <2>5, <2>6, <2>7 DEF ScanInv
    <2>. QED BY <2>8 DEF t, u
  <1>. QED BY <1>8, <1>9

\* What a scan of the next n units of a process's text leaves.
LEMMA ScanFollows ==
  ASSUME NEW pid \in Pids, NEW file \in WatchedFile, NEW o \in Nat, NEW n \in Nat,
         o + n <= Len(FileText(pid)), NEW first \in 1..Lines(pid) + 1, AtLine(pid, o, file, first)
  PROVE  LET units == SubSeq(FileText(pid), o + 1, o + n)
             sc == Scanned(file, units)
         IN /\ sc \in Scans /\ sc.file.offset = file.offset
            /\ ScanInv(pid, first, o + n, sc)
  <1>. DEFINE text == FileText(pid)
              units == SubSeq(text, o + 1, o + n)
              sc == Scanned(file, units)
  <1>1. text \in Seq(KeyUnit) /\ Len(text) \in Nat /\ Lines(pid) \in Nat /\ first \in Nat
    BY TextLength, TextFacts
  <1>. HIDE DEF text
  <1>2. units \in Seq(KeyUnit) /\ Len(units) = n /\ \A j \in 1..n : units[j] = text[o + j]
    <2>1. o + n <= Len(text)
      BY DEF text
    <2>. QED BY <1>1, <2>1
  <1>. HIDE DEF units
  <1>3. PICK h : ScanOf(h, file, units)
    BY <1>2, ScanRuns
  <1>4. \A k \in 0..n : h[k] \in Scans /\ h[k].file.offset = file.offset
    BY <1>2, <1>3, ScanKeepsOffset
  <1>5. h[0] = [file |-> file, found |-> <<>>] /\ sc = h[n] /\ \A k \in 1..n : h[k] = ScanUnit(h[k-1], units[k])
    BY <1>2, <1>3 DEF ScanOf
  <1>. DEFINE T == {k \in Nat : k <= n => ScanInv(pid, first, o + k, h[k])}
  <1>6. 0 \in T
    <2>1. h[0].file = file /\ h[0].found = <<>> /\ o + 0 = o
      BY <1>5
    <2>2. FoundUpTo(pid, first, first, <<>>)
      <3>1. Readable(pid) \subseteq Nat
        BY <1>1 DEF Readable
      <3>2. \A r \in Readable(pid) : ~(first <= r /\ r < first)
        BY <1>1, <3>1
      <3>3. \A j \in 1..Len(<<>>) : FALSE
        OBVIOUS
      <3>. QED BY <3>2, <3>3 DEF FoundUpTo
    <2>3. first <= first
      BY <1>1
    <2>. QED BY <2>1, <2>2, <2>3 DEF ScanInv
  <1>7. ASSUME NEW k \in Nat, k \in T PROVE k + 1 \in T
    <2>. SUFFICES ASSUME k + 1 <= n PROVE ScanInv(pid, first, o + (k + 1), h[k + 1])
      OBVIOUS
    <2>1. k \in 0..n /\ k + 1 \in 1..n /\ (k + 1) - 1 = k /\ o + (k + 1) = (o + k) + 1 /\ o + k \in Nat
      OBVIOUS
    <2>2. h[k + 1] = ScanUnit(h[k], text[(o + k) + 1]) /\ h[k] \in Scans /\ ScanInv(pid, first, o + k, h[k])
      <3>1. h[k + 1] = ScanUnit(h[k], units[k + 1])
        BY <1>5, <2>1
      <3>2. units[k + 1] = text[(o + k) + 1]
        BY <1>2, <2>1
      <3>. QED BY <1>4, <1>7, <2>1, <3>1, <3>2
    <2>3. o + k < Len(FileText(pid))
      BY <1>1, <2>1 DEF text
    <2>. QED BY <1>1, <2>1, <2>2, <2>3, ScanStep DEF text
  <1>8. Nat \subseteq T
    <2>. HIDE DEF T
    <2>. QED BY <1>6, <1>7, NatSetInduction
  <1>9. ScanInv(pid, first, o + n, h[n])
    BY <1>8
  <1>10. n \in 0..n
    OBVIOUS
  <1>. QED BY <1>4, <1>5, <1>9, <1>10 DEF units, text
-----------------------------------------------------------------------------
(* The order in which files are polled *)

Rises(s) == \A i, j \in DOMAIN s : i < j => s[i] < s[j]

LEMMA GreatestOf ==
  ASSUME NEW S \in SUBSET Nat, IsFiniteSet(S), S # {}
  PROVE  \E m \in S : \A y \in S : y <= m
  <1>. DEFINE T == {s \in SUBSET S : s = {} \/ \E m \in s : \A y \in s : y <= m}
  <1>1. {} \in T
    OBVIOUS
  <1>2. ASSUME NEW s \in T, NEW x \in S \ s PROVE s \cup {x} \in T
    <2>1. CASE s = {}
      BY <2>1
    <2>2. CASE s # {}
      <3>1. PICK m \in s : \A y \in s : y <= m
        BY <2>2
      <3>2. m \in Nat /\ x \in Nat /\ s \in SUBSET Nat
        OBVIOUS
      <3>3. CASE x <= m
        <4>1. \A y \in s \cup {x} : y <= m
          BY <3>1, <3>3
        <4>. QED BY <4>1
      <3>4. CASE ~(x <= m)
        <4>1. \A y \in s \cup {x} : y <= x
          BY <3>1, <3>2, <3>4
        <4>. QED BY <4>1
      <3>. QED BY <3>3, <3>4
    <2>. QED BY <2>1, <2>2
  <1>3. T \in SUBSET (SUBSET S)
    OBVIOUS
  <1>. HIDE DEF T
  <1>4. S \in T
    <2>1. \A s \in T : \A x \in S \ s : s \cup {x} \in T
      BY <1>2
    <2>2. T = SUBSET S
      BY <1>1, <1>3, <2>1, SetInduction
    <2>. QED BY <2>2
  <1>. QED BY <1>4 DEF T

LEMMA RisingExists ==
  ASSUME NEW S \in SUBSET Pids
  PROVE  /\ IsFiniteSet(S) /\ Cardinality(S) \in Nat
         /\ \E s \in [1..Cardinality(S) -> S] : Rises(s)
  <1>. DEFINE T == {n \in Nat : \A R \in SUBSET Pids : Cardinality(R) = n => \E s \in [1..n -> R] : Rises(s)}
  <1>1. \A R \in SUBSET Pids : IsFiniteSet(R) /\ R \in SUBSET Nat /\ Cardinality(R) \in Nat
    BY KeyLogAssumption, FS_Subset, FS_CardinalityType
  <1>2. 0 \in T
    <2>. SUFFICES ASSUME NEW R \in SUBSET Pids PROVE \E s \in [1..0 -> R] : Rises(s)
      OBVIOUS
    <2>. DEFINE e == [i \in 1..0 |-> CHOOSE x \in R : TRUE]
    <2>1. e \in [1..0 -> R] /\ Rises(e)
      BY DEF Rises
    <2>. QED BY <2>1
  <1>3. ASSUME NEW n \in Nat, n \in T PROVE n + 1 \in T
    <2>. SUFFICES ASSUME NEW R \in SUBSET Pids, Cardinality(R) = n + 1
                  PROVE  \E s \in [1..(n + 1) -> R] : Rises(s)
      OBVIOUS
    <2>1. R # {} /\ IsFiniteSet(R) /\ R \in SUBSET Nat
      BY <1>1, FS_EmptySet
    <2>2. PICK m \in R : \A y \in R : y <= m
      BY <2>1, GreatestOf
    <2>3. Cardinality(R \ {m}) = n /\ R \ {m} \in SUBSET Pids
      <3>1. Cardinality(R \ {m}) = IF m \in R THEN Cardinality(R) - 1 ELSE Cardinality(R)
        BY <2>1, FS_RemoveElement
      <3>. QED BY <2>2, <3>1
    <2>4. PICK s \in [1..n -> R \ {m}] : Rises(s)
      BY <1>3, <2>3
    <2>. DEFINE t == [i \in 1..(n + 1) |-> IF i <= n THEN s[i] ELSE m]
    <2>5. t \in [1..(n + 1) -> R]
      OBVIOUS
    <2>6. ASSUME NEW i \in 1..(n + 1), NEW j \in 1..(n + 1), i < j PROVE t[i] < t[j]
      <3>1. i \in 1..n /\ t[i] = s[i] /\ s[i] \in R \ {m}
        BY <2>6
      <3>2. CASE j <= n
        <4>1. j \in 1..n /\ t[j] = s[j]
          BY <3>2
        <4>. QED BY <2>4, <2>6, <3>1, <4>1 DEF Rises
      <3>3. CASE ~(j <= n)
        <4>1. t[j] = m
          BY <3>3
        <4>2. s[i] <= m /\ s[i] # m /\ s[i] \in Nat /\ m \in Nat
          BY <2>1, <2>2, <3>1
        <4>. QED BY <3>1, <4>1, <4>2
      <3>. QED BY <3>2, <3>3
    <2>. HIDE DEF t
    <2>7. Rises(t)
      BY <2>5, <2>6 DEF Rises
    <2>. QED BY <2>5, <2>7
  <1>4. Nat \subseteq T
    <2>. HIDE DEF T
    <2>. QED BY <1>2, <1>3, NatSetInduction
  <1>. QED BY <1>1, <1>4

LEMMA AscendingType ==
  ASSUME NEW S \in SUBSET Pids
  PROVE  Ascending(S) \in Seq(S)
  <1>1. Cardinality(S) \in Nat /\ \E s \in [1..Cardinality(S) -> S] : Rises(s)
    BY RisingExists
  <1>2. Ascending(S) \in [1..Cardinality(S) -> S]
    BY <1>1 DEF Ascending, Rises
  <1>. QED BY <1>1, <1>2

LEMMA PollOrderType ==
  ASSUME NEW w
  PROVE  PollOrder(w) \in Seq({p \in Pids : IsEligible(w, p)})
  <1>. DEFINE E == {p \in Pids : IsEligible(w, p)}
              A == {p \in E : p > w.polled}
              B == {p \in E : p <= w.polled}
  <1>1. A \in SUBSET Pids /\ B \in SUBSET Pids /\ A \in SUBSET E /\ B \in SUBSET E
    OBVIOUS
  <1>2. PollOrder(w) = Ascending(A) \o Ascending(B)
    BY DEF PollOrder
  <1>. HIDE DEF A, B, E
  <1>3. Ascending(A) \in Seq(A) /\ Ascending(B) \in Seq(B)
    BY <1>1, AscendingType
  <1>4. Ascending(A) \in Seq(E) /\ Ascending(B) \in Seq(E)
    BY <1>1, <1>3
  <1>5. Ascending(A) \o Ascending(B) \in Seq(E)
    BY <1>4
  <1>. QED BY <1>2, <1>5 DEF E
-----------------------------------------------------------------------------
(* Polling the files *)

\* The key is on a readable line of its process.
Real(key) == \E r \in Readable(key[1]) : key[2] = NameOn(key[1], r)

\* The file has been read up to some line, and the keys of the lines before are in K.
ReadUpTo(pid, file, written, K) ==
  /\ file \in WatchedFile /\ file.offset <= written
  /\ \E k \in 1..Lines(pid) + 1 :
       /\ AtLine(pid, file.offset, file, k)
       /\ \A r \in Readable(pid) : r < k => <<pid, NameOn(pid, r)>> \in K

\* What the processes have written is a part of their texts.
WrittenOk == kWritten \in [Pids -> Nat] /\ \A pid \in Pids : kWritten[pid] <= Len(FileText(pid))

AllReadUpTo(w, K) == \A pid \in Pids : IsEligible(w, pid) => ReadUpTo(pid, w.files[pid], kWritten[pid], K)

SameEligible(w, v) == \A pid \in Pids : IsEligible(w, pid) <=> IsEligible(v, pid)

\* Every secret is of a process that opted in, and on a line of its file.
SecretsOk(w) == \A s \in w.secrets : IsEligible(w, s.key[1]) /\ Real(s.key)

FoundKeys(found) == {found[i] : i \in 1..Len(found)}

Polls == [w : Watcher, budget : Nat, found : Seq(Pids \X SecretName)]

\* Polling started with w and keys K.
PollInv(s, w, K) ==
  /\ s.w.secrets = w.secrets /\ SameEligible(s.w, w)
  /\ \A key \in FoundKeys(s.found) : IsEligible(w, key[1]) /\ Real(key)
  /\ AllReadUpTo(s.w, K \cup FoundKeys(s.found))

LEMMA ReadUpToMore ==
  ASSUME NEW pid, NEW file, NEW written, NEW K, NEW L, K \subseteq L, ReadUpTo(pid, file, written, K)
  PROVE  ReadUpTo(pid, file, written, L)
  BY DEF ReadUpTo

Keyed(pid, names) == [i \in 1..Len(names) |-> <<pid, names[i]>>]
KeySet(pid, names) == {<<pid, names[i]>> : i \in 1..Len(names)}

\* The keys found in one file come after those found before.
LEMMA FoundInFile ==
  ASSUME NEW pid \in Pids, NEW found \in Seq(Pids \X SecretName), NEW names \in Seq(SecretName)
  PROVE  /\ found \o Keyed(pid, names) \in Seq(Pids \X SecretName)
         /\ FoundKeys(found \o Keyed(pid, names)) = FoundKeys(found) \cup KeySet(pid, names)
  <1>. DEFINE S == Pids \X SecretName
              more == Keyed(pid, names)
              both == found \o more
              a == Len(found)
              b == Len(names)
  <1>1. b \in Nat /\ \A i \in 1..b : <<pid, names[i]>> \in S
    OBVIOUS
  <1>2. more \in Seq(S) /\ Len(more) = b /\ \A i \in 1..b : more[i] = <<pid, names[i]>>
    <2>. HIDE DEF S
    <2>. QED BY <1>1 DEF Keyed
  <1>3. found \in Seq(S)
    OBVIOUS
  <1>. HIDE DEF S, more
  <1>4. /\ both \in Seq(S) /\ Len(both) = Len(found) + Len(more) /\ Len(found) \in Nat
        /\ \A i \in 1..Len(found) : both[i] = found[i]
        /\ \A i \in 1..Len(more) : both[Len(found) + i] = more[i]
    <2>1. more \in Seq(S) /\ found \in Seq(S)
      BY <1>2, <1>3
    <2>2. both \in Seq(S) /\ Len(both) = Len(found) + Len(more) /\ Len(found) \in Nat
      BY <2>1, Joined
    <2>3. \A i \in 1..Len(found) : both[i] = found[i]
      BY <2>1, Joined
    <2>4. \A i \in 1..Len(more) : both[Len(found) + i] = more[i]
      BY <2>1, Joined
    <2>. QED BY <2>2, <2>3, <2>4
  <1>5. a \in Nat /\ Len(both) = a + b /\ (\A i \in 1..a : both[i] = found[i]) /\ \A i \in 1..b : both[a + i] = <<pid, names[i]>>
    BY <1>2, <1>4
  <1>6. both \in Seq(S)
    BY <1>4
  <1>. HIDE DEF both, a, b
  <1>7. FoundKeys(found) \cup {<<pid, names[i]>> : i \in 1..b} \subseteq FoundKeys(both)
    <2>1. ASSUME NEW i \in 1..a PROVE found[i] \in FoundKeys(both)
      <3>1. i \in 1..Len(both) /\ both[i] = found[i]
        BY <1>1, <1>5
      <3>. QED BY <3>1 DEF FoundKeys
    <2>2. ASSUME NEW i \in 1..b PROVE <<pid, names[i]>> \in FoundKeys(both)
      <3>1. a + i \in 1..Len(both) /\ both[a + i] = <<pid, names[i]>>
        BY <1>1, <1>5
      <3>. QED BY <3>1 DEF FoundKeys
    <2>. QED BY <2>1, <2>2 DEF FoundKeys, a
  <1>8. ASSUME NEW i \in 1..Len(both) PROVE both[i] \in FoundKeys(found) \cup {<<pid, names[j]>> : j \in 1..b}
    <2>1. i \in Nat /\ i >= 1 /\ i <= a + b
      BY <1>1, <1>5
    <2>2. CASE i <= a
      <3>1. i \in 1..a
        BY <1>5, <2>1, <2>2
      <3>. QED BY <1>5, <3>1 DEF FoundKeys, a
    <2>3. CASE ~(i <= a)
      <3>1. i - a \in 1..b /\ a + (i - a) = i
        BY <1>1, <1>5, <2>1, <2>3
      <3>2. both[i] = <<pid, names[i - a]>>
        BY <1>5, <3>1
      <3>. QED BY <3>1, <3>2
    <2>. QED BY <2>2, <2>3
  <1>9. FoundKeys(both) \subseteq FoundKeys(found) \cup {<<pid, names[i]>> : i \in 1..b}
    BY <1>8 DEF FoundKeys
  <1>. QED BY <1>6, <1>7, <1>9 DEF both, b, S, more, KeySet

LEMMA PollStep ==
  ASSUME NEW w \in Watcher, NEW K, NEW s \in Polls, PollInv(s, w, K), WrittenOk,
         NEW pid \in Pids, IsEligible(w, pid)
  PROVE  PollFile(s, pid) \in Polls /\ PollInv(PollFile(s, pid), w, K)
  <1>. DEFINE file == s.w.files[pid]
              n == Smaller(s.budget, SatSub(kWritten[pid], file.offset))
              o == file.offset
              ahead == [file EXCEPT !.offset = o + n]
              units == SubSeq(FileText(pid), o + 1, o + n)
              sc == Scanned(ahead, units)
              more == Keyed(pid, sc.found)
              v == [s.w EXCEPT !.files = [s.w.files EXCEPT ![pid] = sc.file], !.polled = pid]
              t == [w |-> v, budget |-> s.budget - n, found |-> s.found \o more]
  <1>1. s.w \in Watcher /\ s.budget \in Nat /\ s.found \in Seq(Pids \X SecretName)
    BY DEF Polls
  <1>2. s.w.files \in [Pids -> WatchedFile \cup {Hole}] /\ s.w = [files |-> s.w.files, secrets |-> s.w.secrets, order |-> s.w.order, polled |-> s.w.polled]
    BY <1>1 DEF Watcher
  <1>3. IsEligible(s.w, pid) /\ ReadUpTo(pid, file, kWritten[pid], K \cup FoundKeys(s.found))
    BY DEF PollInv, SameEligible, AllReadUpTo
  <1>4. file \in WatchedFile /\ o \in Nat /\ o <= kWritten[pid] /\ kWritten[pid] \in Nat
    BY <1>3 DEF ReadUpTo, WatchedFile, WrittenOk
  <1>5. PICK k \in 1..Lines(pid) + 1 :
          /\ AtLine(pid, o, file, k)
          /\ \A r \in Readable(pid) : r < k => <<pid, NameOn(pid, r)>> \in K \cup FoundKeys(s.found)
    BY <1>3 DEF ReadUpTo
  <1>6. CASE s.budget = 0
    <2>1. PollFile(s, pid) = s
      BY <1>6 DEF PollFile
    <2>. QED BY <2>1
  <1>7. CASE s.budget # 0
    <2>1. PollFile(s, pid) = t
      BY <1>7 DEF PollFile, Keyed
    <2>2. n \in Nat /\ n <= s.budget /\ n <= kWritten[pid] - o
      BY <1>1, <1>4 DEF Smaller, SatSub
    <2>. HIDE DEF n
    <2>3. s.budget - n \in Nat /\ o + n \in Nat /\ o + n <= kWritten[pid]
      BY <1>1, <1>4, <2>2
    <2>. HIDE DEF o, file
    <2>4. /\ ahead \in WatchedFile /\ ahead.offset = o + n
          /\ ahead.pending = file.pending /\ ahead.discarding = file.discarding
      BY <1>4, <2>3 DEF WatchedFile
    <2>. HIDE DEF ahead
    <2>5. AtLine(pid, o, ahead, k)
      BY <1>5, <2>4, Zenon DEF AtLine, IntoLine
    <2>6. o + n <= Len(FileText(pid))
      <3>1. kWritten[pid] <= Len(FileText(pid)) /\ Len(FileText(pid)) \in Nat
        BY TextLength DEF WrittenOk
      <3>. QED BY <1>4, <2>3, <3>1
    <2>7. sc \in Scans /\ sc.file.offset = o + n /\ ScanInv(pid, k, o + n, sc)
      BY <1>4, <2>2, <2>4, <2>5, <2>6, ScanFollows
    <2>. HIDE DEF sc
    <2>8. sc.file \in WatchedFile /\ sc.found \in Seq(SecretName)
      BY <2>7 DEF Scans
    <2>. DEFINE names == sc.found
                both == s.found \o more
    <2>9. both \in Seq(Pids \X SecretName) /\ FoundKeys(both) = FoundKeys(s.found) \cup KeySet(pid, names)
      BY <1>1, <2>8, FoundInFile
    <2>10. PICK e \in 1..Lines(pid) + 1 : AtLine(pid, o + n, sc.file, e) /\ FoundUpTo(pid, k, e, names)
      BY <2>7 DEF ScanInv
    <2>. HIDE DEF more, both
    <2>11. \A r \in Readable(pid) : r < e => <<pid, NameOn(pid, r)>> \in K \cup FoundKeys(both)
      <3>. SUFFICES ASSUME NEW r \in Readable(pid), r < e PROVE <<pid, NameOn(pid, r)>> \in K \cup FoundKeys(both)
        OBVIOUS
      <3>1. r \in Nat /\ k \in Nat
        BY TextFacts DEF Readable
      <3>2. CASE r < k
        BY <1>5, <2>9, <3>2
      <3>3. CASE k <= r
        <4>1. PICK i \in 1..Len(names) : names[i] = NameOn(pid, r)
          BY <2>10, <3>3 DEF FoundUpTo
        <4>2. <<pid, names[i]>> \in FoundKeys(both)
          BY <2>9 DEF KeySet
        <4>. QED BY <4>1, <4>2
      <3>. QED BY <3>1, <3>2, <3>3
    <2>12. ReadUpTo(pid, sc.file, kWritten[pid], K \cup FoundKeys(both))
      BY <2>3, <2>7, <2>8, <2>10, <2>11 DEF ReadUpTo
    <2>13. v \in Watcher
      BY <1>1, <1>2, <2>8, KeyLogAssumption DEF Watcher
    <2>14. /\ v.secrets = s.w.secrets /\ v.files[pid] = sc.file
           /\ \A p \in Pids : p # pid => v.files[p] = s.w.files[p]
      BY <1>2
    <2>. HIDE DEF v
    <2>15. t \in Polls /\ t.w = v /\ t.found = both
      BY <2>3, <2>9, <2>13 DEF Polls, both
    <2>16. \A p \in Pids : IsEligible(v, p) <=> IsEligible(s.w, p)
      <3>1. sc.file # Hole
        BY <2>8, KeyLogAssumption
      <3>. QED BY <1>3, <2>14, <3>1 DEF IsEligible
    <2>17. SameEligible(v, w) /\ v.secrets = w.secrets
      BY <2>14, <2>16 DEF SameEligible, PollInv
    <2>18. \A key \in FoundKeys(both) : IsEligible(w, key[1]) /\ Real(key)
      <3>1. ASSUME NEW i \in 1..Len(names) PROVE Real(<<pid, names[i]>>)
        BY <2>10 DEF FoundUpTo, Real
      <3>2. ASSUME NEW key \in FoundKeys(both) PROVE IsEligible(w, key[1]) /\ Real(key)
        <4>1. CASE key \in FoundKeys(s.found)
          BY <4>1 DEF PollInv
        <4>2. CASE key \notin FoundKeys(s.found)
          <5>1. PICK i \in 1..Len(names) : key = <<pid, names[i]>>
            BY <2>9, <4>2 DEF KeySet
          <5>. QED BY <3>1, <5>1
        <4>. QED BY <4>1, <4>2
      <3>. QED BY <3>2
    <2>19. AllReadUpTo(v, K \cup FoundKeys(both))
      <3>. SUFFICES ASSUME NEW p \in Pids, IsEligible(v, p)
                    PROVE  ReadUpTo(p, v.files[p], kWritten[p], K \cup FoundKeys(both))
        BY DEF AllReadUpTo
      <3>1. CASE p = pid
        BY <2>12, <2>14, <3>1
      <3>2. CASE p # pid
        <4>1. IsEligible(s.w, p) /\ v.files[p] = s.w.files[p]
          BY <2>14, <2>16, <3>2
        <4>2. ReadUpTo(p, v.files[p], kWritten[p], K \cup FoundKeys(s.found))
          BY <4>1 DEF PollInv, AllReadUpTo
        <4>3. K \cup FoundKeys(s.found) \subseteq K \cup FoundKeys(both)
          BY <2>9
        <4>. QED BY <4>2, <4>3, ReadUpToMore
      <3>. QED BY <3>1, <3>2
    <2>. HIDE DEF t
    <2>20. PollInv(t, w, K)
      BY <2>15, <2>17, <2>18, <2>19 DEF PollInv
    <2>. QED BY <2>1, <2>15, <2>20
  <1>. QED BY <1>6, <1>7
PolledFrom(w, K) == {s \in Polls : PollInv(s, w, K)}

LEMMA PollRuns ==
  ASSUME NEW w \in Watcher, NEW K, WrittenOk, AllReadUpTo(w, K)
  PROVE  FilesPolled(w) \in Polls /\ PollInv(FilesPolled(w), w, K)
  <1>. DEFINE pids == PollOrder(w)
              n == Len(pids)
              V == PolledFrom(w, K)
              base == [w |-> w, budget |-> ReadBudget, found |-> <<>>]
              Step(acc, p) == PollFile(acc, p)
              G == [p \in (1..n) \X V |-> Step(p[2], pids[p[1]])]
              Solves(f) == f = [s \in SUBSET DOMAIN pids |->
                                  IF s = {} THEN base ELSE Step(f[s \ {Max(s)}], pids[Max(s)])]
              iter == CHOOSE f : Solves(f)
  <1>0. FilesPolled(w) = iter[DOMAIN pids]
    BY DEF FilesPolled, FoldLeft, MapThenFoldSet
  <1>1. pids \in Seq({p \in Pids : IsEligible(w, p)}) /\ n \in Nat /\ DOMAIN pids = 1..n
    BY PollOrderType
  <1>. HIDE DEF pids
  <1>2. base \in V
    <2>. DEFINE none == <<>>
    <2>1. none \in Seq(Pids \X SecretName) /\ FoundKeys(none) = {} /\ ReadBudget \in Nat
      BY KeyLogAssumption DEF FoundKeys
    <2>2. base.w = w /\ base.found = none
      OBVIOUS
    <2>. HIDE DEF none
    <2>3. [w |-> w, budget |-> ReadBudget, found |-> none] \in Polls
      BY <2>1 DEF Polls
    <2>4. K \cup FoundKeys(none) = K
      BY <2>1
    <2>5. base \in Polls
      BY <2>3 DEF none
    <2>. HIDE DEF base
    <2>6. PollInv(base, w, K)
      BY <2>1, <2>2, <2>4 DEF PollInv, SameEligible
    <2>. QED BY <2>5, <2>6 DEF PolledFrom
  <1>3. ASSUME NEW k \in 1..n, NEW acc \in V
        PROVE  Step(acc, pids[k]) \in V /\ G[<<k, acc>>] = Step(acc, pids[k])
    <2>1. pids[k] \in Pids /\ IsEligible(w, pids[k])
      BY <1>1
    <2>2. Step(acc, pids[k]) \in V
      BY <2>1, PollStep DEF PolledFrom
    <2>3. <<k, acc>> \in (1..n) \X V
      OBVIOUS
    <2>. HIDE DEF V
    <2>. QED BY <2>2, <2>3
  <1>. HIDE DEF n, base, Step, V
  <1>5. G \in [(1..n) \X V -> V]
    <2>. SUFFICES ASSUME NEW p \in (1..n) \X V PROVE Step(p[2], pids[p[1]]) \in V
      OBVIOUS
    <2>. QED BY <1>3
  <1>. HIDE DEF G
  <1>6. PICK f \in [SUBSET (1..n) -> V] : LeftFolds(f, n, G, base)
    BY <1>1, <1>2, <1>5, LeftFoldExists
  <1>7. \A s \in SUBSET (1..n) : f[s] = IF s = {} THEN base ELSE Step(f[s \ {Max(s)}], pids[Max(s)])
    BY <1>1, <1>3, <1>6, MaxOfIndices DEF LeftFolds
  <1>8. Solves(f)
    BY <1>1, <1>6, <1>7
  <1>9. Solves(iter)
    BY <1>8
  <1>. HIDE DEF iter
  <1>10. \A s \in SUBSET (1..n) : iter[s] = IF s = {} THEN base ELSE Step(iter[s \ {Max(s)}], pids[Max(s)])
    BY <1>1, <1>9, Zenon
  <1>11. FoldsOver(iter, n, V, G, base)
    <2>. SUFFICES ASSUME NEW s \in SUBSET (1..n)
                  PROVE  /\ s = {} => iter[s] = base
                         /\ s # {} /\ iter[s \ {Max(s)}] \in V => iter[s] = G[<<Max(s), iter[s \ {Max(s)}]>>]
      BY DEF FoldsOver
    <2>1. s # {} => Max(s) \in 1..n
      BY <1>1, MaxOfIndices
    <2>. QED BY <1>3, <1>10, <2>1
  <1>12. PICK h \in [0..n -> V] : Running(h, n, G, base) /\ iter[1..n] = h[n]
    <2>1. RunsTo(iter[1..n], n, V, G, base)
      BY <1>1, <1>2, <1>5, <1>11, LeftFoldSteps
    <2>. QED BY <2>1 DEF RunsTo
  <1>13. iter[1..n] \in V
    BY <1>1, <1>12
  <1>. QED BY <1>0, <1>1, <1>13 DEF V, PolledFrom
-----------------------------------------------------------------------------
(* Storing what was found *)

\* What stays of a watcher when secrets are stored.
StoredOver(w) == {v \in Watcher : v.files = w.files /\ SecretsOk(v)}

LEMMA StoredStep ==
  ASSUME NEW w \in Watcher, NEW v \in StoredOver(w), NEW key \in Pids \X SecretName, NEW now \in Nat,
         IsEligible(w, key[1]), Real(key)
  PROVE  Stored(v, key, now) \in StoredOver(w) /\ Keys(Stored(v, key, now)) = Keys(v) \cup {key}
  <1>. DEFINE new == [key |-> key, at |-> now, order |-> v.order + 1, seen |-> FALSE]
              secrets == {s \in v.secrets : s.key # key} \cup {new}
              order == v.order + 1
              t == [v EXCEPT !.order = order, !.secrets = secrets]
  <1>1. /\ v \in Watcher /\ v.files = w.files /\ SecretsOk(v) /\ v.order \in Nat /\ v.secrets \in SUBSET KeySecret
        /\ v.files \in [Pids -> WatchedFile \cup {Hole}] /\ v.polled \in Nat
        /\ v = [files |-> v.files, secrets |-> v.secrets, order |-> v.order, polled |-> v.polled]
    BY DEF StoredOver, Watcher
  <1>2. key = <<key[1], key[2]>>
    OBVIOUS
  <1>3. Stored(v, key, now) = t
    BY <1>2, Zenon DEF Stored
  <1>4. new \in KeySecret /\ new.key = key /\ order \in Nat
    BY <1>1 DEF KeySecret
  <1>. HIDE DEF new, order
  <1>5. secrets \in SUBSET KeySecret
    BY <1>1, <1>4
  <1>6. {s.key : s \in secrets} = {s.key : s \in v.secrets} \cup {key}
    BY <1>4
  <1>7. \A s \in secrets : IsEligible(v, s.key[1]) /\ Real(s.key)
    <2>1. IsEligible(v, key[1])
      BY <1>1 DEF IsEligible
    <2>. QED BY <1>1, <1>4, <2>1 DEF SecretsOk
  <1>. HIDE DEF secrets
  <1>8. t \in Watcher /\ t.files = v.files /\ t.secrets = secrets
    BY <1>1, <1>4, <1>5 DEF Watcher
  <1>. HIDE DEF t
  <1>9. SecretsOk(t)
    BY <1>7, <1>8 DEF SecretsOk, IsEligible
  <1>10. t \in StoredOver(w)
    BY <1>1, <1>8, <1>9 DEF StoredOver
  <1>11. Keys(t) = Keys(v) \cup {key}
    BY <1>6, <1>8 DEF Keys
  <1>. QED BY <1>3, <1>10, <1>11

LEMMA StoreRuns ==
  ASSUME NEW w \in Watcher, SecretsOk(w), NEW found \in Seq(Pids \X SecretName), NEW now \in Nat,
         \A key \in FoundKeys(found) : IsEligible(w, key[1]) /\ Real(key)
  PROVE  LET end == AllStored(w, found, now)
         IN end \in StoredOver(w) /\ Keys(end) = Keys(w) \cup FoundKeys(found)
  <1>. DEFINE n == Len(found)
              V == StoredOver(w)
              Step(acc, key) == Stored(acc, key, now)
              G == [p \in (1..n) \X V |-> Step(p[2], found[p[1]])]
              Solves(f) == f = [s \in SUBSET DOMAIN found |->
                                  IF s = {} THEN w ELSE Step(f[s \ {Max(s)}], found[Max(s)])]
              iter == CHOOSE f : Solves(f)
  <1>0. AllStored(w, found, now) = iter[DOMAIN found]
    BY DEF AllStored, FoldLeft, MapThenFoldSet
  <1>1. n \in Nat /\ DOMAIN found = 1..n
    OBVIOUS
  <1>2. w \in V
    BY DEF StoredOver
  <1>3. ASSUME NEW k \in 1..n, NEW acc \in V
        PROVE  /\ Step(acc, found[k]) \in V /\ G[<<k, acc>>] = Step(acc, found[k])
               /\ Keys(Step(acc, found[k])) = Keys(acc) \cup {found[k]}
    <2>1. found[k] \in Pids \X SecretName /\ found[k] \in FoundKeys(found)
      BY DEF FoundKeys
    <2>2. IsEligible(w, found[k][1]) /\ Real(found[k])
      BY <2>1
    <2>3. Step(acc, found[k]) \in V /\ Keys(Step(acc, found[k])) = Keys(acc) \cup {found[k]}
      BY <2>1, <2>2, StoredStep
    <2>4. <<k, acc>> \in (1..n) \X V
      OBVIOUS
    <2>. HIDE DEF V, Step
    <2>. QED BY <2>3, <2>4
  <1>. HIDE DEF n, Step, V
  <1>5. G \in [(1..n) \X V -> V]
    <2>. SUFFICES ASSUME NEW p \in (1..n) \X V PROVE Step(p[2], found[p[1]]) \in V
      OBVIOUS
    <2>. QED BY <1>3
  <1>. HIDE DEF G
  <1>6. PICK f \in [SUBSET (1..n) -> V] : LeftFolds(f, n, G, w)
    BY <1>1, <1>2, <1>5, LeftFoldExists
  <1>7. \A s \in SUBSET (1..n) : f[s] = IF s = {} THEN w ELSE Step(f[s \ {Max(s)}], found[Max(s)])
    BY <1>1, <1>3, <1>6, MaxOfIndices DEF LeftFolds
  <1>8. Solves(f)
    BY <1>1, <1>6, <1>7
  <1>9. Solves(iter)
    BY <1>8
  <1>. HIDE DEF iter
  <1>10. \A s \in SUBSET (1..n) : iter[s] = IF s = {} THEN w ELSE Step(iter[s \ {Max(s)}], found[Max(s)])
    BY <1>1, <1>9, Zenon
  <1>11. FoldsOver(iter, n, V, G, w)
    <2>. SUFFICES ASSUME NEW s \in SUBSET (1..n)
                  PROVE  /\ s = {} => iter[s] = w
                         /\ s # {} /\ iter[s \ {Max(s)}] \in V => iter[s] = G[<<Max(s), iter[s \ {Max(s)}]>>]
      BY DEF FoldsOver
    <2>1. s # {} => Max(s) \in 1..n
      BY <1>1, MaxOfIndices
    <2>. QED BY <1>3, <1>10, <2>1
  <1>12. PICK h \in [0..n -> V] : Running(h, n, G, w) /\ iter[1..n] = h[n]
    <2>1. RunsTo(iter[1..n], n, V, G, w)
      BY <1>1, <1>2, <1>5, <1>11, LeftFoldSteps
    <2>. QED BY <2>1 DEF RunsTo
  <1>. DEFINE Part(k) == {found[i] : i \in 1..k}
              T == {k \in Nat : k <= n => Keys(h[k]) = Keys(w) \cup Part(k)}
  <1>13. 0 \in T
    BY <1>12 DEF Running
  <1>14. ASSUME NEW k \in Nat, k \in T PROVE k + 1 \in T
    <2>. SUFFICES ASSUME k + 1 <= n PROVE Keys(h[k + 1]) = Keys(w) \cup Part(k + 1)
      OBVIOUS
    <2>1. k + 1 \in 1..n /\ k \in 0..n /\ (k + 1) - 1 = k
      BY <1>1
    <2>2. h[k] \in V /\ h[k + 1] = Step(h[k], found[k + 1])
      BY <1>3, <1>12, <2>1 DEF Running
    <2>3. Keys(h[k + 1]) = Keys(h[k]) \cup {found[k + 1]}
      BY <1>3, <2>1, <2>2
    <2>4. 1..(k + 1) = (1..k) \cup {k + 1}
      BY <2>1
    <2>5. Part(k + 1) = Part(k) \cup {found[k + 1]}
      BY <2>4
    <2>6. Keys(h[k]) = Keys(w) \cup Part(k)
      BY <1>1, <1>14, <2>1
    <2>. QED BY <2>3, <2>5, <2>6
  <1>15. Nat \subseteq T
    <2>. HIDE DEF T
    <2>. QED BY <1>13, <1>14, NatSetInduction
  <1>16. Keys(h[n]) = Keys(w) \cup FoundKeys(found) /\ h[n] \in V
    <2>1. n <= n /\ n \in T /\ n \in 0..n
      <3>. HIDE DEF T
      <3>1. n \in T
        BY <1>1, <1>15
      <3>. QED BY <1>1, <3>1
    <2>2. Part(n) = FoundKeys(found)
      BY DEF FoundKeys, n
    <2>. HIDE DEF Part
    <2>. QED BY <1>12, <2>1, <2>2
  <1>. QED BY <1>0, <1>1, <1>12, <1>16 DEF V

\* A poll: the same processes, and whatever has been read of their files is known.
LEMMA FilesReadOk ==
  ASSUME NEW w \in Watcher, SecretsOk(w), NEW K, Keys(w) \subseteq K, WrittenOk, AllReadUpTo(w, K), NEW now \in Nat
  PROVE  LET read == FilesRead(w, now)
         IN /\ read \in Watcher /\ SecretsOk(read) /\ SameEligible(read, w)
            /\ AllReadUpTo(read, K \cup Keys(read))
  <1>. DEFINE p == FilesPolled(w)
              read == AllStored(p.w, p.found, now)
  <1>1. FilesRead(w, now) = read
    BY DEF FilesRead
  <1>2. p \in Polls /\ PollInv(p, w, K)
    BY PollRuns
  <1>. HIDE DEF p
  <1>3. p.w \in Watcher /\ p.found \in Seq(Pids \X SecretName) /\ p.w.secrets = w.secrets /\ SameEligible(p.w, w)
    BY <1>2 DEF Polls, PollInv
  <1>4. \A key \in Pids \X SecretName : IsEligible(w, key[1]) => IsEligible(p.w, key[1])
    BY <1>3 DEF SameEligible
  <1>5. \A s \in w.secrets : s.key \in Pids \X SecretName
    BY DEF Watcher, KeySecret
  <1>6. SecretsOk(p.w)
    BY <1>3, <1>4, <1>5 DEF SecretsOk
  <1>7. FoundKeys(p.found) \subseteq Pids \X SecretName
    BY <1>3 DEF FoundKeys
  <1>8. \A key \in FoundKeys(p.found) : IsEligible(p.w, key[1]) /\ Real(key)
    BY <1>2, <1>4, <1>7 DEF PollInv
  <1>9. read \in StoredOver(p.w) /\ Keys(read) = Keys(p.w) \cup FoundKeys(p.found)
    BY <1>3, <1>6, <1>8, StoreRuns
  <1>. HIDE DEF read
  <1>10. read \in Watcher /\ read.files = p.w.files /\ SecretsOk(read)
    BY <1>9 DEF StoredOver
  <1>11. SameEligible(read, w)
    BY <1>3, <1>10 DEF SameEligible, IsEligible
  <1>12. AllReadUpTo(read, K \cup Keys(read))
    <2>. SUFFICES ASSUME NEW pid \in Pids, IsEligible(read, pid)
                  PROVE  ReadUpTo(pid, read.files[pid], kWritten[pid], K \cup Keys(read))
      BY DEF AllReadUpTo
    <2>1. ReadUpTo(pid, read.files[pid], kWritten[pid], K \cup FoundKeys(p.found))
      BY <1>2, <1>10 DEF PollInv, AllReadUpTo, IsEligible
    <2>2. K \cup FoundKeys(p.found) \subseteq K \cup Keys(read)
      BY <1>9
    <2>. QED BY <2>1, <2>2, ReadUpToMore
  <1>. QED BY <1>1, <1>10, <1>11, <1>12
-----------------------------------------------------------------------------
(* A watcher after secrets were let go, handed over or seen *)

Thinned(w, v) == w \in Watcher /\ w.files = v.files /\ Keys(w) \subseteq Keys(v)

LEMMA WatcherFields ==
  ASSUME NEW w \in Watcher
  PROVE  /\ w.files \in [Pids -> WatchedFile \cup {Hole}] /\ w.secrets \in SUBSET KeySecret
         /\ w.order \in Nat /\ w.polled \in Nat
         /\ w = [files |-> w.files, secrets |-> w.secrets, order |-> w.order, polled |-> w.polled]
  BY DEF Watcher

LEMMA ThinnedTo ==
  ASSUME NEW v, NEW w, Thinned(w, v), NEW S \in SUBSET KeySecret,
         \A s \in S : s.key \in Keys(w), NEW t, t = [w EXCEPT !.secrets = S]
  PROVE  Thinned(t, v)
  <1>1. w \in Watcher /\ w.files = v.files /\ Keys(w) \subseteq Keys(v)
    BY DEF Thinned
  <1>2. t.secrets = S /\ t.files = w.files /\ t \in Watcher
    BY <1>1, WatcherFields DEF Watcher
  <1>. HIDE DEF Thinned
  <1>3. Keys(t) \subseteq Keys(v)
    BY <1>1, <1>2 DEF Keys
  <1>. QED BY <1>1, <1>2, <1>3 DEF Thinned

\* A part of the secrets is kept.
LEMMA ThinnedPart ==
  ASSUME NEW v, NEW w, Thinned(w, v), NEW S, S \subseteq w.secrets
  PROVE  Thinned([w EXCEPT !.secrets = S], v)
  <1>1. w.secrets \in SUBSET KeySecret
    BY WatcherFields DEF Thinned
  <1>2. \A s \in S : s.key \in Keys(w)
    BY DEF Keys
  <1>3. S \in SUBSET KeySecret
    BY <1>1
  <1>. QED BY <1>2, <1>3, ThinnedTo

LEMMA ThinnedByAll ==
  ASSUME NEW v, NEW w, Thinned(w, v), NEW pid, NEW random, NEW label, NEW now
  PROVE  /\ Thinned(Capped(w, now), v) /\ Thinned(MarkedSeen(w, pid, random), v)
         /\ Thinned(SecretTaken(w, pid, random, label), v)
         /\ Thinned(FlowSecretsRemoved(w, pid, random), v)
  <1>1. Thinned(Capped(w, now), v)
    <2>1. PICK S : S \subseteq w.secrets /\ Capped(w, now) = [w EXCEPT !.secrets = S]
      BY DEF Capped
    <2>. QED BY <2>1, ThinnedPart
  <1>2. Thinned(MarkedSeen(w, pid, random), v)
    <2>. DEFINE Seen(s) == IF SessionOf(s) = <<pid, random>> THEN [s EXCEPT !.seen = TRUE] ELSE s
                S == {Seen(s) : s \in w.secrets}
    <2>1. w.secrets \in SUBSET KeySecret
      BY WatcherFields DEF Thinned
    <2>2. ASSUME NEW s \in w.secrets PROVE Seen(s) \in KeySecret /\ Seen(s).key = s.key
      BY <2>1 DEF KeySecret
    <2>3. MarkedSeen(w, pid, random) = [w EXCEPT !.secrets = S]
      BY DEF MarkedSeen
    <2>. HIDE DEF Seen
    <2>4. S \in SUBSET KeySecret
      BY <2>2
    <2>5. \A s \in S : s.key \in Keys(w)
      BY <2>2 DEF Keys
    <2>. HIDE DEF S
    <2>. QED BY <2>3, <2>4, <2>5, ThinnedTo
  <1>3. Thinned(SecretTaken(w, pid, random, label), v)
    <2>1. PICK S : S \subseteq w.secrets /\ SecretTaken(w, pid, random, label) = [w EXCEPT !.secrets = S]
      BY DEF SecretTaken
    <2>. QED BY <2>1, ThinnedPart
  <1>4. Thinned(FlowSecretsRemoved(w, pid, random), v)
    <2>1. PICK S : S \subseteq w.secrets /\ FlowSecretsRemoved(w, pid, random) = [w EXCEPT !.secrets = S]
      BY DEF FlowSecretsRemoved
    <2>. QED BY <2>1, ThinnedPart
  <1>. QED BY <1>1, <1>2, <1>3, <1>4

LEMMA ThinnedSelf ==
  ASSUME NEW w \in Watcher
  PROVE  Thinned(w, w)
  BY DEF Thinned

LEMMA ThinnedWithout ==
  ASSUME NEW v, NEW w, Thinned(w, v), NEW id, NEW out, NEW flow
  PROVE  Thinned(WithoutSecrets(w, id, out, flow), v)
  <1>. DEFINE pid == PidOf[id]
              seen == MarkedSeen(w, pid, Random[id])
              a == Label(ClientOut[id], out, FALSE)
              b == Label(ClientOut[id], out, TRUE)
              one == SecretTaken(seen, pid, Random[id], a)
              two == SecretTaken(one, pid, Random[id], b)
  <1>1. WithoutSecrets(w, id, out, flow) = IF id \in flow.hello THEN two ELSE w
    BY DEF WithoutSecrets
  <1>2. Thinned(seen, v)
    BY ThinnedByAll
  <1>. HIDE DEF seen, a, b, pid
  <1>3. Thinned(one, v)
    BY <1>2, ThinnedByAll
  <1>. HIDE DEF one
  <1>4. Thinned(two, v)
    BY <1>3, ThinnedByAll
  <1>. HIDE DEF two
  <1>. QED BY <1>1, <1>4
-----------------------------------------------------------------------------
(* Connections belong to processes *)

HasPid(c, pid) == "pid" \in DOMAIN c /\ c.pid = pid

\* Every connection is of its process, which is one of P.
Belongs(conns, P) ==
  /\ DOMAIN conns = Conns
  /\ \A id \in Conns : conns[id] # Hole => PidOf[id] \in P /\ HasPid(conns[id], PidOf[id])

LEMMA PutBelongs ==
  ASSUME NEW conns, NEW P, Belongs(conns, P), NEW id \in Conns, PidOf[id] \in P,
         NEW c, HasPid(c, PidOf[id])
  PROVE  Belongs([conns EXCEPT ![id] = c], P)
  BY DEF Belongs

LEMMA DirHasPid ==
  ASSUME NEW c, NEW pid, HasPid(c, pid), NEW d, NEW r
  PROVE  /\ HasPid([c EXCEPT !.dir = d], pid) /\ HasPid([c EXCEPT !.ring = r], pid)
         /\ HasPid([c EXCEPT !.ring = r, !.dir = d], pid)
         /\ HasPid([c EXCEPT !.dir = d, !.ring = r], pid)
  BY DEF HasPid

LEMMA EvictedBelongs ==
  ASSUME NEW conns, NEW P, Belongs(conns, P), NEW pids, NEW v \in ActiveDirections(conns, pids)
  PROVE  Belongs(DirectionEvicted(conns, v[1], v[2]), P)
  <1>. DEFINE id == v[1]
              c == conns[id]
              d == [c.dir EXCEPT ![v[2]] = Terminated(c.dir[v[2]], "evictedBudget", Named(c))]
              r == <<>>
  <1>1. id \in Conns /\ conns[id] # Hole
    BY DEF ActiveDirections, Known
  <1>2. PidOf[id] \in P /\ HasPid(c, PidOf[id])
    BY <1>1 DEF Belongs
  <1>3. DirectionEvicted(conns, v[1], v[2]) = [conns EXCEPT ![id] = [c EXCEPT !.ring = r, !.dir = d]]
    BY Zenon DEF DirectionEvicted
  <1>. HIDE DEF c, d, r, id
  <1>4. HasPid([c EXCEPT !.ring = r, !.dir = d], PidOf[id])
    BY <1>2, DirHasPid
  <1>. QED BY <1>1, <1>2, <1>3, <1>4, PutBelongs

LEMMA RoomRoundBelongs ==
  ASSUME NEW conns, NEW P, Belongs(conns, P), NEW pids, NEW limit, NEW id,
         NEW c \in RoomRound(conns, pids, limit, id)
  PROVE  Belongs(c, P)
  <1>1. CASE ~NeedsRoom(conns, pids, limit, id)
    BY <1>1 DEF RoomRound
  <1>2. CASE NeedsRoom(conns, pids, limit, id)
    <2>1. PICK v \in LeastRecent(conns, Victims(conns, pids, id)) : c = DirectionEvicted(conns, v[1], v[2])
      BY <1>2 DEF RoomRound
    <2>2. v \in ActiveDirections(conns, pids)
      BY DEF LeastRecent, Victims
    <2>. QED BY <2>1, <2>2, EvictedBelongs
  <1>. QED BY <1>1, <1>2

LEMMA BudgetRoundBelongs ==
  ASSUME NEW conns, NEW P, Belongs(conns, P), NEW c \in BudgetRound(conns)
  PROVE  Belongs(c, P)
  <1>. DEFINE active == ActiveDirections(conns, Pids)
              oldest == {id \in Rings(conns) : \A j \in Rings(conns) : LastActive(conns[id]) <= LastActive(conns[j])}
  <1>0. BudgetRound(conns) = IF ~OverBudget(conns) THEN {conns}
          ELSE IF active # {} THEN {DirectionEvicted(conns, v[1], v[2]) : v \in LeastRecent(conns, active)}
          ELSE {[conns EXCEPT ![id] = [conns[id] EXCEPT !.ring = <<>>]] : id \in oldest}
    <2>1. \A id \in oldest : id \in DOMAIN conns
      BY DEF Rings, Known, Belongs
    <2>. QED BY <2>1 DEF BudgetRound
  <1>. HIDE DEF active, oldest
  <1>1. CASE ~OverBudget(conns)
    BY <1>0, <1>1
  <1>2. CASE OverBudget(conns) /\ active # {}
    <2>1. PICK v \in LeastRecent(conns, active) : c = DirectionEvicted(conns, v[1], v[2])
      BY <1>0, <1>2
    <2>2. v \in ActiveDirections(conns, Pids)
      BY DEF LeastRecent, active
    <2>. QED BY <2>1, <2>2, EvictedBelongs
  <1>3. CASE OverBudget(conns) /\ ~(active # {})
    <2>1. PICK id \in oldest : c = [conns EXCEPT ![id] = [conns[id] EXCEPT !.ring = <<>>]]
      BY <1>0, <1>3
    <2>. DEFINE r == <<>>
                b == conns[id]
    <2>2. id \in Conns /\ conns[id] # Hole
      BY DEF oldest, Rings, Known
    <2>3. PidOf[id] \in P /\ HasPid(b, PidOf[id])
      BY <2>2 DEF Belongs
    <2>. HIDE DEF r, b
    <2>4. HasPid([b EXCEPT !.ring = r], PidOf[id])
      BY <2>3, DirHasPid
    <2>5. c = [conns EXCEPT ![id] = [b EXCEPT !.ring = r]]
      BY <2>1 DEF r, b
    <2>. QED BY <2>2, <2>3, <2>4, <2>5, PutBelongs
  <1>. QED BY <1>1, <1>2, <1>3
LEMMA EnoughType ==
  ASSUME NEW conns
  PROVE  Enough(conns) \in Nat
  <1>1. IsFiniteSet(Conns) /\ IsFiniteSet(BOOLEAN)
    <2>1. BOOLEAN = {TRUE} \cup {FALSE}
      OBVIOUS
    <2>2. IsFiniteSet({TRUE} \cup {FALSE})
      <3>. DEFINE a == {TRUE}
                  b == {FALSE}
      <3>1. IsFiniteSet(a) /\ IsFiniteSet(b)
        BY FS_Singleton
      <3>. HIDE DEF a, b
      <3>2. IsFiniteSet(a \cup b)
        BY <3>1, FS_Union
      <3>. QED BY <3>2 DEF a, b
    <2>. QED BY <2>1, <2>2, TlsAssumption
  <1>2. IsFiniteSet(Conns \X BOOLEAN)
    BY <1>1, FS_Product
  <1>3. ActiveDirections(conns, Pids) \in SUBSET (Conns \X BOOLEAN) /\ Rings(conns) \in SUBSET Conns
    BY DEF ActiveDirections, Rings, Known
  <1>4. Cardinality(ActiveDirections(conns, Pids)) \in Nat
    BY <1>2, <1>3, FS_Subset, FS_CardinalityType
  <1>5. Cardinality(Rings(conns)) \in Nat
    BY <1>1, <1>3, FS_Subset, FS_CardinalityType
  <1>. QED BY <1>4, <1>5 DEF Enough

\* h has the states after each round of a loop that makes room.
RoomRounds(h, conns, pids, limit, id) ==
  /\ h[0] = {conns} /\ RoomIn(conns, pids, limit, id) = h[Enough(conns)]
  /\ \A k \in 1..Enough(conns) : h[k] = UNION {RoomRound(b, pids, limit, id) : b \in h[k - 1]}

\* The recursion of the loop has a solution.
LEMMA RoomRoundsExist ==
  ASSUME NEW conns, NEW pids, NEW limit, NEW id
  PROVE  \E h : RoomRounds(h, conns, pids, limit, id)
  <1>. DEFINE N == Enough(conns)
              Round(S) == UNION {RoomRound(b, pids, limit, id) : b \in S}
              Solves(f) == f = [k \in 0..N |-> IF k = 0 THEN {conns} ELSE Round(f[k - 1])]
              after == CHOOSE f : Solves(f)
              Starts(f, n) == f[0] = {conns} /\ \A k \in 1..n : f[k] = Round(f[k - 1])
  <1>1. RoomIn(conns, pids, limit, id) = after[N]
    BY DEF RoomIn
  <1>2. N \in Nat
    BY EnoughType
  <1>. HIDE DEF N, Round
  <1>. DEFINE T == {n \in Nat : \E f : Starts(f, n)}
  <1>4. 0 \in T
    <2>. DEFINE g == [k \in {0} |-> {conns}]
    <2>1. Starts(g, 0)
      OBVIOUS
    <2>. QED BY <2>1
  <1>5. ASSUME NEW n \in Nat, n \in T PROVE n + 1 \in T
    <2>1. PICK f : Starts(f, n)
      BY <1>5
    <2>. DEFINE g == [k \in 0..(n + 1) |-> IF k <= n THEN f[k] ELSE Round(f[n])]
    <2>2. g[0] = {conns}
      BY <2>1
    <2>3. ASSUME NEW k \in 1..(n + 1) PROVE g[k] = Round(g[k - 1])
      <3>1. k - 1 \in 0..n /\ g[k - 1] = f[k - 1]
        OBVIOUS
      <3>2. CASE k <= n
        <4>1. g[k] = f[k] /\ k \in 1..n
          BY <3>2
        <4>. QED BY <2>1, <3>1, <4>1
      <3>3. CASE ~(k <= n)
        <4>1. g[k] = Round(f[n]) /\ k - 1 = n
          BY <3>3
        <4>. QED BY <3>1, <4>1
      <3>. QED BY <3>2, <3>3
    <2>. HIDE DEF g
    <2>4. Starts(g, n + 1)
      BY <2>2, <2>3
    <2>. QED BY <2>4
  <1>6. N \in T
    <2>. HIDE DEF T
    <2>1. Nat \subseteq T
      BY <1>4, <1>5, NatSetInduction
    <2>. QED BY <1>2, <2>1
  <1>7. PICK f : Starts(f, N)
    BY <1>6
  <1>. DEFINE g == [k \in 0..N |-> f[k]]
  <1>8. Solves(g)
    <2>1. ASSUME NEW k \in 0..N PROVE g[k] = IF k = 0 THEN {conns} ELSE Round(g[k - 1])
      <3>1. CASE k = 0
        BY <1>7, <3>1
      <3>2. CASE k # 0
        <4>1. k \in 1..N /\ k - 1 \in 0..N
          BY <1>2, <3>2
        <4>. QED BY <1>7, <3>2, <4>1
      <3>. QED BY <3>1, <3>2
    <2>. QED BY <2>1
  <1>9. Solves(after)
    <2>. HIDE DEF g
    <2>. QED BY <1>8
  <1>. HIDE DEF after
  <1>10. \A k \in 0..N : after[k] = IF k = 0 THEN {conns} ELSE Round(after[k - 1])
    BY <1>9, Zenon
  <1>11. after[0] = {conns}
    BY <1>2, <1>10
  <1>12. \A k \in 1..N : after[k] = Round(after[k - 1])
    BY <1>2, <1>10
  <1>. QED BY <1>1, <1>11, <1>12 DEF RoomRounds, N, Round

\* Making room only takes from connections.
LEMMA RoomInBelongs ==
  ASSUME NEW conns, NEW P, Belongs(conns, P), NEW pids, NEW limit, NEW id,
         NEW c \in RoomIn(conns, pids, limit, id)
  PROVE  Belongs(c, P)
  <1>. DEFINE N == Enough(conns)
              Round(S) == UNION {RoomRound(b, pids, limit, id) : b \in S}
  <1>1. PICK after : /\ after[0] = {conns} /\ RoomIn(conns, pids, limit, id) = after[N]
                     /\ \A k \in 1..N : after[k] = Round(after[k - 1])
    BY RoomRoundsExist DEF RoomRounds
  <1>2. N \in Nat
    BY EnoughType
  <1>3. ASSUME NEW S, \A b \in S : Belongs(b, P) PROVE \A b \in Round(S) : Belongs(b, P)
    BY <1>3, RoomRoundBelongs
  <1>. HIDE DEF N, Round
  <1>. DEFINE U == {k \in Nat : k <= N => \A b \in after[k] : Belongs(b, P)}
  <1>4. 0 \in U
    BY <1>1
  <1>5. ASSUME NEW k \in Nat, k \in U PROVE k + 1 \in U
    <2>. SUFFICES ASSUME k + 1 <= N PROVE \A b \in after[k + 1] : Belongs(b, P)
      OBVIOUS
    <2>1. k + 1 \in 1..N /\ (k + 1) - 1 = k /\ k <= N
      BY <1>2
    <2>2. after[k + 1] = Round(after[k])
      BY <1>1, <2>1
    <2>3. \A b \in after[k] : Belongs(b, P)
      BY <1>5, <2>1
    <2>. QED BY <1>3, <2>2, <2>3
  <1>6. N \in U
    <2>. HIDE DEF U
    <2>1. Nat \subseteq U
      BY <1>4, <1>5, NatSetInduction
    <2>. QED BY <1>2, <2>1
  <1>. QED BY <1>1, <1>2, <1>6

\* h has the states after each round of the loop that keeps within the budget.
BudgetRounds(h, conns) ==
  /\ h[0] = {conns}
  /\ Budgeted(conns) = {[conns |-> c, stuck |-> OverBudget(c)] : c \in h[Enough(conns)]}
  /\ \A k \in 1..Enough(conns) : h[k] = UNION {BudgetRound(b) : b \in h[k - 1]}

\* So has the recursion of this one.
LEMMA BudgetRoundsExist ==
  ASSUME NEW conns
  PROVE  \E h : BudgetRounds(h, conns)
  <1>. DEFINE N == Enough(conns)
              Round(S) == UNION {BudgetRound(b) : b \in S}
              Solves(f) == f = [k \in 0..N |-> IF k = 0 THEN {conns} ELSE Round(f[k - 1])]
              after == CHOOSE f : Solves(f)
              Starts(f, n) == f[0] = {conns} /\ \A k \in 1..n : f[k] = Round(f[k - 1])
  <1>1. Budgeted(conns) = {[conns |-> c, stuck |-> OverBudget(c)] : c \in after[N]}
    BY DEF Budgeted
  <1>2. N \in Nat
    BY EnoughType
  <1>. HIDE DEF N, Round
  <1>. DEFINE T == {n \in Nat : \E f : Starts(f, n)}
  <1>4. 0 \in T
    <2>. DEFINE g == [k \in {0} |-> {conns}]
    <2>1. Starts(g, 0)
      OBVIOUS
    <2>. QED BY <2>1
  <1>5. ASSUME NEW n \in Nat, n \in T PROVE n + 1 \in T
    <2>1. PICK f : Starts(f, n)
      BY <1>5
    <2>. DEFINE g == [k \in 0..(n + 1) |-> IF k <= n THEN f[k] ELSE Round(f[n])]
    <2>2. g[0] = {conns}
      BY <2>1
    <2>3. ASSUME NEW k \in 1..(n + 1) PROVE g[k] = Round(g[k - 1])
      <3>1. k - 1 \in 0..n /\ g[k - 1] = f[k - 1]
        OBVIOUS
      <3>2. CASE k <= n
        <4>1. g[k] = f[k] /\ k \in 1..n
          BY <3>2
        <4>. QED BY <2>1, <3>1, <4>1
      <3>3. CASE ~(k <= n)
        <4>1. g[k] = Round(f[n]) /\ k - 1 = n
          BY <3>3
        <4>. QED BY <3>1, <4>1
      <3>. QED BY <3>2, <3>3
    <2>. HIDE DEF g
    <2>4. Starts(g, n + 1)
      BY <2>2, <2>3
    <2>. QED BY <2>4
  <1>6. N \in T
    <2>. HIDE DEF T
    <2>1. Nat \subseteq T
      BY <1>4, <1>5, NatSetInduction
    <2>. QED BY <1>2, <2>1
  <1>7. PICK f : Starts(f, N)
    BY <1>6
  <1>. DEFINE g == [k \in 0..N |-> f[k]]
  <1>8. Solves(g)
    <2>1. ASSUME NEW k \in 0..N PROVE g[k] = IF k = 0 THEN {conns} ELSE Round(g[k - 1])
      <3>1. CASE k = 0
        BY <1>7, <3>1
      <3>2. CASE k # 0
        <4>1. k \in 1..N /\ k - 1 \in 0..N
          BY <1>2, <3>2
        <4>. QED BY <1>7, <3>2, <4>1
      <3>. QED BY <3>1, <3>2
    <2>. QED BY <2>1
  <1>9. Solves(after)
    <2>. HIDE DEF g
    <2>. QED BY <1>8
  <1>. HIDE DEF after
  <1>10. \A k \in 0..N : after[k] = IF k = 0 THEN {conns} ELSE Round(after[k - 1])
    BY <1>9, Zenon
  <1>11. after[0] = {conns}
    BY <1>2, <1>10
  <1>12. \A k \in 1..N : after[k] = Round(after[k - 1])
    BY <1>2, <1>10
  <1>. QED BY <1>1, <1>11, <1>12 DEF BudgetRounds, N, Round

\* So does keeping within the budget.
LEMMA BudgetedBelongs ==
  ASSUME NEW conns, NEW P, Belongs(conns, P), NEW e \in Budgeted(conns)
  PROVE  Belongs(e.conns, P)
  <1>. DEFINE N == Enough(conns)
              Round(S) == UNION {BudgetRound(b) : b \in S}
  <1>1. PICK after : /\ after[0] = {conns}
                     /\ Budgeted(conns) = {[conns |-> c, stuck |-> OverBudget(c)] : c \in after[N]}
                     /\ \A k \in 1..N : after[k] = Round(after[k - 1])
    BY BudgetRoundsExist DEF BudgetRounds
  <1>2. N \in Nat
    BY EnoughType
  <1>3. ASSUME NEW S, \A b \in S : Belongs(b, P) PROVE \A b \in Round(S) : Belongs(b, P)
    BY <1>3, BudgetRoundBelongs
  <1>. HIDE DEF N, Round
  <1>. DEFINE U == {k \in Nat : k <= N => \A b \in after[k] : Belongs(b, P)}
  <1>4. 0 \in U
    BY <1>1
  <1>5. ASSUME NEW k \in Nat, k \in U PROVE k + 1 \in U
    <2>. SUFFICES ASSUME k + 1 <= N PROVE \A b \in after[k + 1] : Belongs(b, P)
      OBVIOUS
    <2>1. k + 1 \in 1..N /\ (k + 1) - 1 = k /\ k <= N
      BY <1>2
    <2>2. after[k + 1] = Round(after[k])
      BY <1>1, <2>1
    <2>3. \A b \in after[k] : Belongs(b, P)
      BY <1>5, <2>1
    <2>. QED BY <1>3, <2>2, <2>3
  <1>6. N \in U
    <2>. HIDE DEF U
    <2>1. Nat \subseteq U
      BY <1>4, <1>5, NatSetInduction
    <2>. QED BY <1>2, <2>1
  <1>7. PICK c \in after[N] : e = [conns |-> c, stuck |-> OverBudget(c)]
    BY <1>1
  <1>8. e.conns = c /\ Belongs(c, P)
    BY <1>2, <1>6, <1>7
  <1>. QED BY <1>8
-----------------------------------------------------------------------------
(* A packet *)

LEMMA LeftBelongs ==
  ASSUME NEW conns, NEW P, Belongs(conns, P), NEW id \in Conns, PidOf[id] \in P, NEW c, HasPid(c, PidOf[id]),
         NEW out, NEW d, NEW decoded, NEW done \in Left(conns, id, c, out, d, decoded)
  PROVE  Belongs(done.conns, P)
  <1>. DEFINE dir == [c.dir EXCEPT ![out] = d]
  <1>1. done.conns = [conns EXCEPT ![id] = [c EXCEPT !.dir = dir]]
    BY DEF Left
  <1>. HIDE DEF dir
  <1>2. HasPid([c EXCEPT !.dir = dir], PidOf[id])
    BY DirHasPid
  <1>. QED BY <1>1, <1>2, PutBelongs

LEMMA ProcessedHasPid ==
  ASSUME NEW c, NEW pid, HasPid(c, pid), NEW out, NEW records, NEW suite, NEW now, NEW decoded
  PROVE  HasPid(Processed(c, out, records, suite, now, decoded).conn, pid)
  <1>1. PICK end : Processed(c, out, records, suite, now, decoded) = WaitsAgain(c, out, end)
    BY Zenon DEF Processed
  <1>2. PICK d, r : WaitsAgain(c, out, end).conn = [c EXCEPT !.dir = d, !.ring = r]
    BY DEF WaitsAgain
  <1>3. HasPid([c EXCEPT !.dir = d, !.ring = r], pid)
    BY DirHasPid
  <1>. QED BY <1>1, <1>2, <1>3, Zenon

LEMMA WithinBudgetBelongs ==
  ASSUME NEW conns, NEW P, Belongs(conns, P), NEW id \in Conns, PidOf[id] \in P,
         NEW done, HasPid(done.conn, PidOf[id]), NEW e \in WithinBudget(conns, id, done)
  PROVE  Belongs(e.conns, P)
  <1>. DEFINE put == [conns EXCEPT ![id] = done.conn]
  <1>1. PICK b \in Budgeted(put) : e = [conns |-> b.conns, stuck |-> b.stuck, decoded |-> done.decoded]
    BY DEF WithinBudget
  <1>2. Belongs(put, P)
    BY PutBelongs
  <1>. HIDE DEF put
  <1>3. Belongs(b.conns, P)
    BY <1>2, BudgetedBelongs
  <1>4. e.conns = b.conns
    BY <1>1
  <1>. QED BY <1>3, <1>4

LEMMA RecordsHandledBelongs ==
  ASSUME NEW conns, NEW P, Belongs(conns, P), NEW id \in Conns, PidOf[id] \in P, NEW c, HasPid(c, PidOf[id]),
         NEW out, NEW fed, NEW decoded, NEW e \in RecordsHandled(conns, id, c, out, fed, decoded)
  PROVE  Belongs(e.conns, P)
  <1>1. CASE ~fed.go
    <2>1. e \in Left(conns, id, c, out, fed.d, decoded)
      BY <1>1 DEF RecordsHandled
    <2>. QED BY <2>1, LeftBelongs
  <1>2. CASE fed.go
    <2>. DEFINE dir == [c.dir EXCEPT ![out] = fed.d]
                b == [c EXCEPT !.dir = dir]
                done == Processed(b, out, fed.d.wait \o fed.records, SuiteOf(c), tNow, decoded)
    <2>1. e \in WithinBudget(conns, id, done)
      BY <1>2, Zenon DEF RecordsHandled
    <2>. HIDE DEF dir
    <2>2. HasPid(b, PidOf[id])
      BY DirHasPid
    <2>. HIDE DEF b
    <2>3. HasPid(done.conn, PidOf[id])
      BY <2>2, ProcessedHasPid
    <2>. HIDE DEF done
    <2>. QED BY <2>1, <2>3, WithinBudgetBelongs
  <1>. QED BY <1>1, <1>2

LEMMA PayloadHandledBelongs ==
  ASSUME NEW conns, NEW P, Belongs(conns, P), NEW id \in Conns, PidOf[id] \in P, NEW c, HasPid(c, PidOf[id]),
         NEW out, NEW d, NEW p, NEW decoded, NEW e \in PayloadHandled(conns, id, c, out, d, p, decoded)
  PROVE  Belongs(e.conns, P)
  <1>1. \/ \E b : e \in Left(conns, id, c, out, b, decoded)
        \/ \E fed : e \in RecordsHandled(conns, id, c, out, fed, decoded)
    BY Zenon DEF PayloadHandled
  <1>. QED BY <1>1, LeftBelongs, RecordsHandledBelongs

LEMMA OpenedHasPid ==
  ASSUME NEW c, NEW id \in Conns, HasPid(c, PidOf[id]), NEW flow
  PROVE  HasPid(Opened(c, id, flow), PidOf[id])
  <1>1. PICK r, o, d : Opened(c, id, flow) = [c EXCEPT !.random = r, !.clientOut = o, !.dir = d]
    BY DEF Opened
  <1>2. HasPid([c EXCEPT !.random = r, !.clientOut = o, !.dir = d], PidOf[id])
    BY DEF HasPid
  <1>. QED BY <1>1, <1>2

LEMMA PacketHandledBelongs ==
  ASSUME NEW conns, NEW P, Belongs(conns, P), NEW id \in Conns, PidOf[id] \in P, NEW out, NEW w, NEW flow,
         NEW p, NEW decoded, NEW e \in PacketHandled(conns, id, out, w, flow, p, decoded)
  PROVE  Belongs(e.conns, P)
  <1>. DEFINE b == IF conns[id] = Hole THEN NewConnection(PidOf[id]) ELSE conns[id]
              c == Opened(b, id, flow)
              d == Prepared(c.dir[out], c, id, out, w, flow, p.cut)
  <1>1. HasPid(NewConnection(PidOf[id]), PidOf[id])
    BY DEF HasPid, NewConnection
  <1>2. HasPid(b, PidOf[id])
    BY <1>1 DEF Belongs
  <1>3. e \in PayloadHandled(conns, id, c, out, d, p, decoded)
    BY Zenon DEF PacketHandled, DirectionHandled
  <1>. HIDE DEF b, d
  <1>4. HasPid(c, PidOf[id])
    BY <1>2, OpenedHasPid
  <1>. HIDE DEF c
  <1>. QED BY <1>3, <1>4, PayloadHandledBelongs

LEMMA RoomMadeBelongs ==
  ASSUME NEW conns, NEW P, Belongs(conns, P), NEW id, NEW room \in RoomMade(conns, id)
  PROVE  Belongs(room.conns, P)
  <1>. DEFINE Made(own) == IF NeedsRoom(own, {PidOf[id]}, MaxPidDirections, id)
                           THEN {[conns |-> own, stuck |-> TRUE]}
                           ELSE {[conns |-> c, stuck |-> NeedsRoom(c, Pids, MaxDirections, id)] :
                                   c \in RoomIn(own, Pids, MaxDirections, id)}
  <1>1. PICK own \in RoomIn(conns, {PidOf[id]}, MaxPidDirections, id) : room \in Made(own)
    BY DEF RoomMade
  <1>2. Belongs(own, P)
    BY RoomInBelongs
  <1>3. CASE NeedsRoom(own, {PidOf[id]}, MaxPidDirections, id)
    <2>1. room.conns = own
      BY <1>1, <1>3
    <2>. QED BY <1>2, <2>1
  <1>4. CASE ~NeedsRoom(own, {PidOf[id]}, MaxPidDirections, id)
    <2>1. PICK c \in RoomIn(own, Pids, MaxDirections, id) :
            room = [conns |-> c, stuck |-> NeedsRoom(c, Pids, MaxDirections, id)]
      BY <1>1, <1>4
    <2>2. room.conns = c
      BY <2>1
    <2>3. Belongs(c, P)
      BY <1>2, RoomInBelongs
    <2>. QED BY <2>2, <2>3
  <1>. QED BY <1>3, <1>4
-----------------------------------------------------------------------------
(* Late keys are handed to the connections *)

ReplayInv(s, P, v) ==
  /\ s = [conns |-> s.conns, w |-> s.w, decoded |-> s.decoded]
  /\ Belongs(s.conns, P) /\ Thinned(s.w, v)

LEMMA ReplayPut ==
  ASSUME NEW s, NEW P, NEW v, ReplayInv(s, P, v), NEW id \in Conns, PidOf[id] \in P,
         NEW w, Thinned(w, v), NEW b, HasPid(b, PidOf[id]), NEW decoded
  PROVE  LET t == [conns |-> [s.conns EXCEPT ![id] = b], w |-> w, decoded |-> decoded]
         IN ReplayInv(t, P, v) /\ HasPid(t.conns[id], PidOf[id])
  <1>. DEFINE put == [s.conns EXCEPT ![id] = b]
              t == [conns |-> put, w |-> w, decoded |-> decoded]
  <1>1. Belongs(s.conns, P)
    BY DEF ReplayInv
  <1>2. Belongs(put, P)
    BY <1>1, PutBelongs
  <1>3. put[id] = b
    BY <1>1 DEF Belongs
  <1>. HIDE DEF put
  <1>4. t.conns = put /\ t.w = w /\ t.decoded = decoded /\ t = [conns |-> t.conns, w |-> t.w, decoded |-> t.decoded]
    OBVIOUS
  <1>. HIDE DEF t
  <1>5. ReplayInv(t, P, v) /\ HasPid(t.conns[id], PidOf[id])
    BY <1>2, <1>3, <1>4 DEF ReplayInv
  <1>. QED BY <1>5 DEF t, put

LEMMA ResumedOk ==
  ASSUME NEW s, NEW P, NEW v, ReplayInv(s, P, v), NEW id \in Conns, PidOf[id] \in P, NEW out,
         NEW c, HasPid(c, PidOf[id]), NEW keyed, NEW w, Thinned(w, v)
  PROVE  LET t == Resumed(s, id, out, c, keyed, w)
         IN ReplayInv(t, P, v) /\ HasPid(t.conns[id], PidOf[id])
  <1>. DEFINE t == Resumed(s, id, out, c, keyed, w)
              going == keyed.wait # <<>> /\ (keyed.appSecret # Hole \/ keyed.hsSecret # Hole)
              late == [c.dir EXCEPT ![out] = [keyed EXCEPT !.last = tNow]]
              dir == [c.dir EXCEPT ![out] = keyed]
              done == Processed([c EXCEPT !.dir = late], out, keyed.wait, SuiteOf(c), tNow, s.decoded[id][out])
  <1>. DEFINE yes == [conns |-> [s.conns EXCEPT ![id] = done.conn], w |-> w,
                      decoded |-> [s.decoded EXCEPT ![id] = [@ EXCEPT ![out] = done.decoded]]]
              no == [conns |-> [s.conns EXCEPT ![id] = [c EXCEPT !.dir = dir]], w |-> w, decoded |-> s.decoded]
  <1>1. t = IF going THEN yes ELSE no
    BY Zenon DEF Resumed
  <1>. HIDE DEF going, t
  <1>2. CASE going
    <2>1. HasPid(done.conn, PidOf[id])
      <3>. HIDE DEF late
      <3>1. HasPid([c EXCEPT !.dir = late], PidOf[id])
        BY DirHasPid
      <3>. QED BY <3>1, ProcessedHasPid
    <2>. HIDE DEF done
    <2>. DEFINE b == done.conn
                told == [s.decoded EXCEPT ![id] = [@ EXCEPT ![out] = done.decoded]]
    <2>2. yes = [conns |-> [s.conns EXCEPT ![id] = b], w |-> w, decoded |-> told]
      BY Zenon
    <2>3. HasPid(b, PidOf[id])
      BY <2>1
    <2>. HIDE DEF b, told, yes
    <2>4. t = [conns |-> [s.conns EXCEPT ![id] = b], w |-> w, decoded |-> told]
      BY <1>1, <1>2, <2>2
    <2>5. ReplayInv(t, P, v) /\ HasPid(t.conns[id], PidOf[id])
      BY <2>3, <2>4, ReplayPut
    <2>. QED BY <2>5 DEF t
  <1>3. CASE ~going
    <2>. HIDE DEF dir
    <2>. DEFINE b == [c EXCEPT !.dir = dir]
                told == s.decoded
    <2>1. HasPid(b, PidOf[id])
      BY DirHasPid
    <2>2. no = [conns |-> [s.conns EXCEPT ![id] = b], w |-> w, decoded |-> told]
      BY Zenon
    <2>. HIDE DEF b, no, told
    <2>3. t = [conns |-> [s.conns EXCEPT ![id] = b], w |-> w, decoded |-> told]
      BY <1>1, <1>3, <2>2
    <2>4. ReplayInv(t, P, v) /\ HasPid(t.conns[id], PidOf[id])
      BY <2>1, <2>3, ReplayPut
    <2>. QED BY <2>4 DEF t
  <1>. QED BY <1>2, <1>3

LEMMA ReplayedOk ==
  ASSUME NEW s, NEW P, NEW v, ReplayInv(s, P, v), NEW id \in Conns, PidOf[id] \in P,
         HasPid(s.conns[id], PidOf[id]), NEW out
  PROVE  LET t == Replayed(s, id, out)
         IN ReplayInv(t, P, v) /\ HasPid(t.conns[id], PidOf[id])
  <1>. DEFINE c == s.conns[id]
              d == c.dir[out]
              app == Label(c.clientOut, out, FALSE)
              hs == Label(c.clientOut, out, TRUE)
              takesApp == d.appSecret = Hole
              takesHs == ~d.complete /\ d.hsSecret = Hole
              w1 == IF takesApp THEN SecretTaken(s.w, c.pid, c.random, app) ELSE s.w
              w2 == IF takesHs THEN SecretTaken(w1, c.pid, c.random, hs) ELSE w1
  <1>1. \/ Replayed(s, id, out) = s
        \/ \E keyed : Replayed(s, id, out) = Resumed(s, id, out, c, keyed, w2)
    BY Zenon DEF Replayed
  <1>2. Thinned(s.w, v)
    BY DEF ReplayInv
  <1>. HIDE DEF app, hs, d, takesApp, takesHs
  <1>3. Thinned(w1, v)
    BY <1>2, ThinnedByAll
  <1>. HIDE DEF w1
  <1>4. Thinned(w2, v)
    BY <1>3, ThinnedByAll
  <1>. HIDE DEF w2
  <1>5. ASSUME NEW keyed
        PROVE  LET t == Resumed(s, id, out, c, keyed, w2)
               IN ReplayInv(t, P, v) /\ HasPid(t.conns[id], PidOf[id])
    BY <1>4, ResumedOk
  <1>. HIDE DEF c
  <1>. QED BY <1>1, <1>5 DEF c

LEMMA ReplayedConnectionOk ==
  ASSUME NEW s, NEW P, NEW v, ReplayInv(s, P, v), NEW id \in Conns
  PROVE  ReplayInv(ReplayedConnection(s, id), P, v)
  <1>. DEFINE c == s.conns[id]
              w == MarkedSeen(s.w, c.pid, c.random)
              seen == [s EXCEPT !.w = w]
              t == Replayed(seen, id, TRUE)
  <1>1. CASE c = Hole \/ c.random = Hole \/ ~IsEligible(s.w, c.pid)
    <2>1. ReplayedConnection(s, id) = s
      BY <1>1 DEF ReplayedConnection
    <2>. QED BY <2>1
  <1>2. CASE ~(c = Hole \/ c.random = Hole \/ ~IsEligible(s.w, c.pid))
    <2>1. ReplayedConnection(s, id) = Replayed(t, id, FALSE)
      BY <1>2 DEF ReplayedConnection
    <2>2. PidOf[id] \in P /\ HasPid(c, PidOf[id])
      BY <1>2 DEF ReplayInv, Belongs
    <2>3. Thinned(w, v)
      BY ThinnedByAll DEF ReplayInv
    <2>. HIDE DEF w
    <2>4. seen.conns = s.conns /\ seen.w = w /\ seen.decoded = s.decoded /\ seen = [conns |-> seen.conns, w |-> seen.w, decoded |-> seen.decoded]
      BY DEF ReplayInv
    <2>. HIDE DEF seen
    <2>5. ReplayInv(seen, P, v) /\ HasPid(seen.conns[id], PidOf[id])
      BY <2>2, <2>3, <2>4 DEF ReplayInv
    <2>6. ReplayInv(t, P, v) /\ HasPid(t.conns[id], PidOf[id])
      BY <2>2, <2>5, ReplayedOk
    <2>. HIDE DEF t
    <2>7. ReplayInv(Replayed(t, id, FALSE), P, v)
      BY <2>2, <2>6, ReplayedOk
    <2>. QED BY <2>1, <2>7
  <1>. QED BY <1>1, <1>2

\* f has what each set of connections leaves.
ReplayRuns(f, read) ==
  /\ Replays(read) = f[Conns] /\ f[{}] = [conns |-> tConns, w |-> Capped(read, kNow), decoded |-> tDecoded]
  /\ \A s \in SUBSET Conns : s # {} => f[s] = ReplayedConnection(f[s \ {AnyOf(s)}], AnyOf(s))

\* Every connection in turn: the fold has a solution, built for one size of the sets
\* after the other.
LEMMA ReplayRunsExist ==
  ASSUME NEW read
  PROVE  \E f : ReplayRuns(f, read)
  <1>. DEFINE base == [conns |-> tConns, w |-> Capped(read, kNow), decoded |-> tDecoded]
              Step(f, s) == IF s = {} THEN base
                            ELSE ReplayedConnection(f[s \ {CHOOSE x \in s : TRUE}], CHOOSE x \in s : TRUE)
              Solves(f) == f = [s \in SUBSET Conns |-> Step(f, s)]
              iter == CHOOSE f : Solves(f)
              Upto(n) == {s \in SUBSET Conns : Cardinality(s) <= n}
              Ok(f, n) == \A s \in Upto(n) : f[s] = Step(f, s)
              T == {n \in Nat : \E f : Ok(f, n)}
  <1>1. Replays(read) = iter[Conns]
    BY DEF Replays, FoldSet, MapThenFoldSet
  <1>. HIDE DEF base
  <1>3. IsFiniteSet(Conns)
    BY TlsAssumption
  <1>4. \A s \in SUBSET Conns : IsFiniteSet(s) /\ Cardinality(s) \in Nat
    BY <1>3, FS_Subset, FS_CardinalityType
  <1>5. ASSUME NEW s \in SUBSET Conns, s # {}
        PROVE  /\ AnyOf(s) \in s /\ s \ {AnyOf(s)} \in SUBSET Conns
               /\ Cardinality(s \ {AnyOf(s)}) = Cardinality(s) - 1
    <2>1. IsFiniteSet(s) /\ AnyOf(s) \in s
      BY <1>4, <1>5 DEF AnyOf
    <2>2. Cardinality(s \ {AnyOf(s)}) = Cardinality(s) - 1
      BY <2>1, FS_RemoveElement
    <2>. QED BY <2>1, <2>2
  <1>6. ASSUME NEW f, NEW s
        PROVE  Step(f, s) = IF s = {} THEN base ELSE ReplayedConnection(f[s \ {AnyOf(s)}], AnyOf(s))
    BY DEF AnyOf
  <1>. HIDE DEF Step
  <1>7. ASSUME NEW f, NEW g, NEW s \in SUBSET Conns, s # {} => f[s \ {AnyOf(s)}] = g[s \ {AnyOf(s)}]
        PROVE  Step(f, s) = Step(g, s)
    <2>1. CASE s = {}
      BY <1>6, <2>1
    <2>2. CASE s # {}
      <3>1. f[s \ {AnyOf(s)}] = g[s \ {AnyOf(s)}]
        BY <1>7, <2>2
      <3>. QED BY <1>6, <2>2, <3>1
    <2>. QED BY <2>1, <2>2
  <1>8. 0 \in T
    <2>. DEFINE f == [s \in SUBSET Conns |-> base]
    <2>1. \A s \in Upto(0) : s = {} /\ s \in SUBSET Conns
      BY <1>4, FS_EmptySet
    <2>2. Ok(f, 0)
      BY <1>6, <2>1
    <2>. HIDE DEF f, Ok
    <2>3. 0 \in Nat /\ \E g : Ok(g, 0)
      BY <2>2
    <2>. QED BY <2>3
  <1>9. ASSUME NEW n \in Nat, n \in T PROVE n + 1 \in T
    <2>1. PICK f : Ok(f, n)
      BY <1>9
    <2>. DEFINE g == [s \in SUBSET Conns |-> Step(f, s)]
    <2>2. ASSUME NEW s \in Upto(n) PROVE g[s] = f[s]
      BY <2>1
    <2>3. ASSUME NEW s \in Upto(n + 1) PROVE g[s] = Step(g, s)
      <3>1. s \in SUBSET Conns /\ Cardinality(s) <= n + 1 /\ Cardinality(s) \in Nat
        BY <1>4
      <3>2. s # {} => s \ {AnyOf(s)} \in Upto(n)
        BY <1>5, <3>1
      <3>3. s # {} => g[s \ {AnyOf(s)}] = f[s \ {AnyOf(s)}]
        BY <2>2, <3>2
      <3>4. g[s] = Step(f, s)
        BY <3>1
      <3>. HIDE DEF g
      <3>5. Step(g, s) = Step(f, s)
        BY <1>7, <3>1, <3>3
      <3>. QED BY <3>4, <3>5
    <2>. HIDE DEF g
    <2>4. Ok(g, n + 1)
      BY <2>3
    <2>. HIDE DEF Ok
    <2>5. n + 1 \in Nat /\ \E h : Ok(h, n + 1)
      BY <2>4
    <2>. QED BY <2>5
  <1>10. Nat \subseteq T
    <2>. HIDE DEF T
    <2>. QED BY <1>8, <1>9, NatSetInduction
  <1>11. PICK f : Ok(f, Cardinality(Conns))
    BY <1>4, <1>10
  <1>12. Upto(Cardinality(Conns)) = SUBSET Conns
    <2>1. \A s \in SUBSET Conns : Cardinality(s) <= Cardinality(Conns)
      BY <1>3, FS_Subset
    <2>. QED BY <2>1
  <1>13. \E g : Solves(g)
    <2>. DEFINE g == [s \in SUBSET Conns |-> f[s]]
    <2>1. ASSUME NEW s \in SUBSET Conns PROVE g[s] = Step(g, s)
      <3>1. g[s] = f[s] /\ f[s] = Step(f, s)
        BY <1>11, <1>12
      <3>2. s # {} => g[s \ {AnyOf(s)}] = f[s \ {AnyOf(s)}]
        BY <1>5
      <3>. HIDE DEF g
      <3>3. Step(g, s) = Step(f, s)
        BY <1>7, <3>2
      <3>. QED BY <3>1, <3>3
    <2>2. DOMAIN g = SUBSET Conns /\ g = [s \in SUBSET Conns |-> g[s]]
      OBVIOUS
    <2>. HIDE DEF g
    <2>3. Solves(g)
      BY <2>1, <2>2
    <2>. QED BY <2>3
  <1>14. Solves(iter)
    <2>. HIDE DEF Solves
    <2>. QED BY <1>13, Zenon
  <1>. HIDE DEF iter
  <1>15. \A s \in SUBSET Conns : iter[s] = Step(iter, s)
    BY <1>14
  <1>16. iter[{}] = base
    BY <1>6, <1>15
  <1>17. \A s \in SUBSET Conns : s # {} => iter[s] = ReplayedConnection(iter[s \ {AnyOf(s)}], AnyOf(s))
    BY <1>6, <1>15
  <1>. QED BY <1>1, <1>16, <1>17 DEF ReplayRuns, base

\* Each connection keeps the invariant, so all do.
LEMMA ReplaysOk ==
  ASSUME NEW P, Belongs(tConns, P), NEW read \in Watcher
  PROVE  ReplayInv(Replays(read), P, read)
  <1>. DEFINE base == [conns |-> tConns, w |-> Capped(read, kNow), decoded |-> tDecoded]
  <1>1. PICK iter : /\ Replays(read) = iter[Conns] /\ iter[{}] = base
                    /\ \A s \in SUBSET Conns : s # {} => iter[s] = ReplayedConnection(iter[s \ {AnyOf(s)}], AnyOf(s))
    BY ReplayRunsExist DEF ReplayRuns
  <1>2. ReplayInv(base, P, read)
    <2>1. Thinned(Capped(read, kNow), read)
      BY ThinnedSelf, ThinnedByAll
    <2>. QED BY <2>1 DEF ReplayInv
  <1>. HIDE DEF base
  <1>3. IsFiniteSet(Conns)
    BY TlsAssumption
  <1>. DEFINE B == {s \in SUBSET Conns : ~ReplayInv(iter[s], P, read)}
  <1>4. B = {}
    <2>. SUFFICES ASSUME B # {} PROVE FALSE
      OBVIOUS
    <2>1. PICK b \in B : \A y \in B : ~(y \subseteq b /\ y # b)
      <3>1. B \subseteq SUBSET Conns
        OBVIOUS
      <3>. HIDE DEF B
      <3>. QED BY <1>3, <3>1, FiniteMinimal
    <2>2. b \in SUBSET Conns /\ ~ReplayInv(iter[b], P, read)
      BY <2>1
    <2>3. b # {}
      BY <1>1, <1>2, <2>2
    <2>4. AnyOf(b) \in b /\ b \ {AnyOf(b)} \in SUBSET Conns /\ AnyOf(b) \in Conns
      BY <2>2, <2>3 DEF AnyOf
    <2>5. ReplayInv(iter[b \ {AnyOf(b)}], P, read)
      <3>1. b \ {AnyOf(b)} \subseteq b /\ b \ {AnyOf(b)} # b
        BY <2>4
      <3>. QED BY <2>1, <2>4, <3>1
    <2>6. iter[b] = ReplayedConnection(iter[b \ {AnyOf(b)}], AnyOf(b))
      BY <1>1, <2>2, <2>3
    <2>7. ReplayInv(ReplayedConnection(iter[b \ {AnyOf(b)}], AnyOf(b)), P, read)
      BY <2>4, <2>5, ReplayedConnectionOk
    <2>. QED BY <2>2, <2>6, <2>7
  <1>. QED BY <1>1, <1>4

LEMMA AllExpiredBelongs ==
  ASSUME NEW conns, NEW P, Belongs(conns, P)
  PROVE  Belongs(AllExpired(conns), P)
  <1>. DEFINE Dir(c) == [c.dir EXCEPT ![TRUE] = TimersExpired(@, tNow, Named(c)), ![FALSE] = TimersExpired(@, tNow, Named(c))]
              Expired(c) == [c EXCEPT !.dir = Dir(c)]
  <1>1. AllExpired(conns) = [id \in Conns |-> IF conns[id] = Hole THEN Hole ELSE Expired(conns[id])]
    BY DEF AllExpired
  <1>2. ASSUME NEW id \in Conns, conns[id] # Hole
        PROVE  PidOf[id] \in P /\ HasPid(conns[id], PidOf[id])
    BY <1>2 DEF Belongs
  <1>. HIDE DEF Dir
  <1>3. ASSUME NEW id \in Conns, conns[id] # Hole
        PROVE  HasPid(Expired(conns[id]), PidOf[id])
    BY <1>2, <1>3 DEF HasPid
  <1>. HIDE DEF Expired
  <1>. QED BY <1>1, <1>2, <1>3 DEF Belongs
-----------------------------------------------------------------------------
(* The inductive invariant *)

KeyLogInv ==
  /\ kWatcher \in Watcher /\ kNow \in Nat /\ WrittenOk
  /\ SecretsOk(kWatcher) /\ AllReadUpTo(kWatcher, Keys(kWatcher) \cup kGone)

\* The processes whose connections may be held.
HeldPids == {p \in Pids : IsEligible(kWatcher, p)} \cup tLeaving

TlsInv ==
  /\ KeyLogInv
  /\ tScene \in DOMAIN Scenes
  /\ Belongs(tConns, HeldPids)

\* read is the watcher with what the files gave it.
ReadFrom(read) ==
  /\ read \in Watcher /\ SecretsOk(read) /\ SameEligible(read, kWatcher)
  /\ AllReadUpTo(read, Keys(kWatcher) \cup kGone \cup Keys(read))

LEMMA ReadItself ==
  ASSUME KeyLogInv
  PROVE  ReadFrom(kWatcher)
  <1>1. Keys(kWatcher) \cup kGone \cup Keys(kWatcher) = Keys(kWatcher) \cup kGone
    OBVIOUS
  <1>. QED BY <1>1 DEF KeyLogInv, ReadFrom, SameEligible

LEMMA ReadFiles ==
  ASSUME KeyLogInv
  PROVE  ReadFrom(FilesRead(kWatcher, kNow))
  <1>. DEFINE K == Keys(kWatcher) \cup kGone
  <1>1. Keys(kWatcher) \subseteq K
    OBVIOUS
  <1>2. /\ kWatcher \in Watcher /\ kNow \in Nat /\ WrittenOk
        /\ SecretsOk(kWatcher) /\ AllReadUpTo(kWatcher, K)
    BY DEF KeyLogInv
  <1>. HIDE DEF K
  <1>. QED BY <1>1, <1>2, FilesReadOk DEF ReadFrom, K

\* Whatever is let go of what was read, the invariant stays.
LEMMA KeyStep ==
  ASSUME KeyLogInv, NEW read, ReadFrom(read), NEW w, Thinned(w, read), KeyApply(w, read),
         UNCHANGED <<kWritten, kNow>>
  PROVE  KeyLogInv' /\ \A p \in Pids : IsEligible(kWatcher', p) <=> IsEligible(kWatcher, p)
  <1>. DEFINE K == Keys(kWatcher) \cup kGone \cup Keys(read)
              L == Keys(w) \cup kGone'
  <1>1. /\ w \in Watcher /\ w.files = read.files /\ Keys(w) \subseteq Keys(read)
        /\ read \in Watcher /\ SecretsOk(read) /\ SameEligible(read, kWatcher) /\ AllReadUpTo(read, K)
    BY DEF Thinned, ReadFrom
  <1>2. kWatcher' = w /\ kWritten' = kWritten /\ kNow' = kNow
    BY DEF KeyApply
  <1>3. K \subseteq L
    BY DEF KeyApply
  <1>. HIDE DEF K, L
  <1>4. SecretsOk(w)
    <2>. SUFFICES ASSUME NEW s \in w.secrets PROVE IsEligible(w, s.key[1]) /\ Real(s.key)
      BY DEF SecretsOk
    <2>1. PICK t \in read.secrets : t.key = s.key
      BY <1>1 DEF Keys
    <2>. QED BY <1>1, <2>1 DEF SecretsOk, IsEligible
  <1>5. \A pid \in Pids : IsEligible(w, pid) => ReadUpTo(pid, w.files[pid], kWritten[pid], L)
    BY <1>1, <1>3, ReadUpToMore DEF AllReadUpTo, IsEligible
  <1>6. AllReadUpTo(kWatcher, Keys(kWatcher) \cup kGone)'
    BY <1>2, <1>5 DEF AllReadUpTo, L
  <1>7. WrittenOk'
    BY <1>2 DEF WrittenOk, KeyLogInv
  <1>8. SecretsOk(kWatcher)' /\ (kWatcher \in Watcher)' /\ (kNow \in Nat)'
    BY <1>1, <1>2, <1>4 DEF KeyLogInv
  <1>9. \A p \in Pids : IsEligible(kWatcher', p) <=> IsEligible(kWatcher, p)
    BY <1>1, <1>2 DEF SameEligible, IsEligible
  <1>. QED BY <1>6, <1>7, <1>8, <1>9 DEF KeyLogInv

LEMMA HeldSame ==
  ASSUME \A p \in Pids : IsEligible(kWatcher', p) <=> IsEligible(kWatcher, p), tLeaving' = tLeaving
  PROVE  HeldPids' = HeldPids
  BY DEF HeldPids

LEMMA NewFileAtStart ==
  ASSUME NEW pid \in Pids, NEW written \in Nat, NEW K
  PROVE  ReadUpTo(pid, NewFile, written, K)
  <1>1. NewFile \in WatchedFile /\ NewFile.offset = 0 /\ NewFile.pending = <<>> /\ ~NewFile.discarding
    BY DEF NewFile, WatchedFile
  <1>2. Ends(pid, 0) = 0 /\ Lines(pid) \in Nat
    <2>1. Text(pid)[0] = <<>> /\ Lines(pid) \in Nat
      BY TextFacts DEF TextOf
    <2>. QED BY <2>1 DEF Ends
  <1>3. ASSUME 1 <= Lines(pid) PROVE 0 <= LineLen[KeyText[pid][1]]
    <2>1. 1 \in 1..Lines(pid)
      BY <1>2, <1>3
    <2>2. LineLen[KeyText[pid][1]] \in Nat
      BY <2>1, TextGrows
    <2>. QED BY <2>2
  <1>4. IntoLine(pid, NewFile, 1, 0)
    <2>1. NewFile.pending = [j \in 1..0 |-> <<KeyText[pid][1], j>>]
      BY <1>1
    <2>2. 0 <= MaxLineBytes /\ ~(0 > MaxLineBytes)
      BY KeyLogAssumption
    <2>. QED BY <1>1, <1>2, <1>3, <2>1, <2>2 DEF IntoLine
  <1>. HIDE DEF NewFile
  <1>5. AtLine(pid, 0, NewFile, 1)
    <2>1. 1 \in 1..Lines(pid) + 1 /\ 1 - 1 = 0 /\ 0 \in Nat /\ 0 = Ends(pid, 1 - 1) + 0
      BY <1>2
    <2>. QED BY <1>4, <2>1 DEF AtLine
  <1>6. 1 \in 1..Lines(pid) + 1 /\ \A r \in Readable(pid) : ~(r < 1)
    BY <1>2 DEF Readable
  <1>. QED BY <1>1, <1>5, <1>6 DEF ReadUpTo
-----------------------------------------------------------------------------
(* The control task and the process *)

LEMMA BelongsMore ==
  ASSUME NEW conns, NEW P, NEW Q, Belongs(conns, P), P \subseteq Q
  PROVE  Belongs(conns, Q)
  BY DEF Belongs

\* Files and secrets may change while all that was found stays known.
LEMMA WatcherStep ==
  ASSUME KeyLogInv, NEW w \in Watcher, KeyApply(w, kWatcher), UNCHANGED <<kWritten, kNow>>,
         Keys(w) \subseteq Keys(kWatcher),
         \A s \in w.secrets : s \in kWatcher.secrets /\ IsEligible(w, s.key[1]),
         \A p \in Pids : IsEligible(w, p) => w.files[p] = NewFile \/ w.files[p] = kWatcher.files[p]
  PROVE  KeyLogInv'
  <1>. DEFINE K == Keys(kWatcher) \cup kGone
              L == Keys(w) \cup kGone'
  <1>1. kWatcher' = w /\ kWritten' = kWritten /\ kNow' = kNow
    BY DEF KeyApply
  <1>2. K \subseteq L
    BY DEF KeyApply
  <1>3. AllReadUpTo(kWatcher, K)
    BY DEF KeyLogInv
  <1>. HIDE DEF K, L
  <1>4. ASSUME NEW pid \in Pids, IsEligible(w, pid)
        PROVE  ReadUpTo(pid, w.files[pid], kWritten[pid], L)
    <2>1. CASE w.files[pid] = NewFile
      <3>1. kWritten[pid] \in Nat
        BY DEF KeyLogInv, WrittenOk
      <3>. HIDE DEF NewFile
      <3>. QED BY <2>1, <3>1, NewFileAtStart
    <2>2. CASE w.files[pid] = kWatcher.files[pid]
      <3>1. IsEligible(kWatcher, pid)
        BY <1>4, <2>2 DEF IsEligible
      <3>2. ReadUpTo(pid, kWatcher.files[pid], kWritten[pid], K)
        BY <1>3, <3>1 DEF AllReadUpTo
      <3>. QED BY <1>2, <2>2, <3>2, ReadUpToMore
    <2>. QED BY <1>4, <2>1, <2>2
  <1>5. AllReadUpTo(kWatcher, Keys(kWatcher) \cup kGone)'
    BY <1>1, <1>4 DEF AllReadUpTo, L
  <1>6. SecretsOk(w)
    BY DEF SecretsOk, KeyLogInv
  <1>7. WrittenOk'
    BY <1>1 DEF WrittenOk, KeyLogInv
  <1>8. SecretsOk(kWatcher)' /\ (kWatcher \in Watcher)' /\ (kNow \in Nat)'
    BY <1>1, <1>6 DEF KeyLogInv
  <1>. QED BY <1>5, <1>7, <1>8 DEF KeyLogInv

LEMMA OptInOk ==
  ASSUME TlsInv, NEW pid \in Pids, OptIn(pid)
  PROVE  TlsInv'
  <1>. DEFINE w == Registered(kWatcher, pid)
  <1>1. kWatcher \in Watcher /\ KeyLogInv /\ Belongs(tConns, HeldPids) /\ tScene \in DOMAIN Scenes
    BY DEF TlsInv, KeyLogInv
  <1>2. KeyApply(w, kWatcher) /\ UNCHANGED <<kWritten, kNow>> /\ tConns' = tConns /\ tScene' = tScene /\ tLeaving' = tLeaving
    BY DEF OptIn, KeyRegister, tVars
  <1>3. NewFile \in WatchedFile /\ NewFile # Hole
    <2>1. NewFile \in WatchedFile
      BY DEF NewFile, WatchedFile
    <2>2. Hole \notin WatchedFile
      BY KeyLogAssumption
    <2>. QED BY <2>1, <2>2, Zenon
  <1>4. /\ w \in Watcher /\ w.secrets = kWatcher.secrets
        /\ w.files = [kWatcher.files EXCEPT ![pid] = NewFile]
    <2>. HIDE DEF NewFile
    <2>. QED BY <1>1, <1>3, WatcherFields DEF Watcher, Registered
  <1>5. kWatcher.files \in [Pids -> WatchedFile \cup {Hole}]
    BY <1>1, WatcherFields
  <1>. HIDE DEF w, NewFile
  <1>6. \A p \in Pids : IsEligible(w, p) => w.files[p] = NewFile \/ w.files[p] = kWatcher.files[p]
    BY <1>4, <1>5
  <1>7. \A p \in Pids : IsEligible(kWatcher, p) => IsEligible(w, p)
    BY <1>3, <1>4, <1>5 DEF IsEligible
  <1>8. \A s \in w.secrets : s \in kWatcher.secrets /\ IsEligible(w, s.key[1])
    <2>1. ASSUME NEW s \in kWatcher.secrets PROVE s.key[1] \in Pids
      BY <1>1, WatcherFields DEF KeySecret
    <2>. QED BY <1>1, <1>4, <1>7, <2>1 DEF KeyLogInv, SecretsOk
  <1>9. Keys(w) \subseteq Keys(kWatcher)
    BY <1>4 DEF Keys
  <1>10. KeyLogInv'
    BY <1>1, <1>2, <1>4, <1>6, <1>8, <1>9, WatcherStep
  <1>11. HeldPids \subseteq HeldPids'
    BY <1>2, <1>7 DEF HeldPids, KeyApply
  <1>12. Belongs(tConns, HeldPids)'
    BY <1>1, <1>2, <1>11, BelongsMore
  <1>. QED BY <1>1, <1>2, <1>10, <1>12 DEF TlsInv

LEMMA OptOutOk ==
  ASSUME TlsInv, NEW pid \in Pids, OptOut(pid)
  PROVE  TlsInv'
  <1>. DEFINE w == Unregistered(kWatcher, pid)
  <1>1. kWatcher \in Watcher /\ KeyLogInv /\ Belongs(tConns, HeldPids) /\ tScene \in DOMAIN Scenes
    BY DEF TlsInv, KeyLogInv
  <1>2. /\ KeyApply(w, kWatcher) /\ UNCHANGED <<kWritten, kNow>> /\ tConns' = tConns /\ tScene' = tScene
        /\ tLeaving' = tLeaving \cup {pid}
    BY DEF OptOut, KeyUnregister
  <1>3. kWatcher.files \in [Pids -> WatchedFile \cup {Hole}]
    BY <1>1, WatcherFields
  <1>4. /\ w \in Watcher /\ w.secrets = {s \in kWatcher.secrets : s.key[1] # pid}
        /\ w.files = [kWatcher.files EXCEPT ![pid] = Hole]
    <2>. DEFINE S == {s \in kWatcher.secrets : s.key[1] # pid}
                F == [kWatcher.files EXCEPT ![pid] = Hole]
    <2>1. w = [kWatcher EXCEPT !.files = F, !.secrets = S]
      BY DEF Unregistered
    <2>2. S \in SUBSET KeySecret /\ F \in [Pids -> WatchedFile \cup {Hole}]
      BY <1>1, <1>3, WatcherFields
    <2>. HIDE DEF S, F, w
    <2>3. w \in Watcher /\ w.secrets = S /\ w.files = F
      BY <1>1, <2>1, <2>2, WatcherFields DEF Watcher
    <2>. QED BY <2>3 DEF S, F
  <1>. HIDE DEF w
  <1>5. \A p \in Pids : IsEligible(w, p) => w.files[p] = kWatcher.files[p]
    BY <1>3, <1>4 DEF IsEligible
  <1>6. \A p \in Pids \ {pid} : IsEligible(kWatcher, p) => IsEligible(w, p)
    BY <1>3, <1>4 DEF IsEligible
  <1>7. \A s \in w.secrets : s \in kWatcher.secrets /\ IsEligible(w, s.key[1])
    <2>1. ASSUME NEW s \in kWatcher.secrets PROVE s.key[1] \in Pids
      BY <1>1, WatcherFields DEF KeySecret
    <2>. QED BY <1>1, <1>4, <1>6, <2>1 DEF KeyLogInv, SecretsOk
  <1>8. Keys(w) \subseteq Keys(kWatcher)
    BY <1>4 DEF Keys
  <1>9. KeyLogInv'
    BY <1>1, <1>2, <1>4, <1>5, <1>7, <1>8, WatcherStep
  <1>10. HeldPids \subseteq HeldPids'
    BY <1>2, <1>6 DEF HeldPids, KeyApply
  <1>11. Belongs(tConns, HeldPids)'
    BY <1>1, <1>2, <1>10, BelongsMore
  <1>. QED BY <1>1, <1>2, <1>9, <1>11 DEF TlsInv

LEMMA KeyLogSame ==
  ASSUME KeyLogInv, UNCHANGED kVars
  PROVE  KeyLogInv'
  BY DEF KeyLogInv, kVars, WrittenOk, AllReadUpTo

LEMMA OptOutConnectionsOk ==
  ASSUME TlsInv, NEW pid \in Pids, OptOutConnections(pid)
  PROVE  TlsInv'
  <1>1. KeyLogInv /\ Belongs(tConns, HeldPids) /\ tScene \in DOMAIN Scenes
    BY DEF TlsInv
  <1>2. /\ UNCHANGED kVars /\ tScene' = tScene /\ tLeaving' = tLeaving \ {pid}
        /\ tConns' = [id \in Conns |-> IF tConns[id] # Hole /\ tConns[id].pid = pid THEN Hole ELSE tConns[id]]
    BY DEF OptOutConnections
  <1>3. KeyLogInv'
    BY <1>1, <1>2, KeyLogSame
  <1>4. HeldPids \subseteq HeldPids' \cup {pid}
    BY <1>2 DEF HeldPids, kVars
  <1>5. Belongs(tConns', HeldPids')
    <2>. SUFFICES ASSUME NEW id \in Conns, tConns'[id] # Hole
                  PROVE  PidOf[id] \in HeldPids' /\ HasPid(tConns'[id], PidOf[id])
      BY <1>2 DEF Belongs
    <2>1. tConns'[id] = tConns[id] /\ tConns[id] # Hole /\ tConns[id].pid # pid
      BY <1>2
    <2>2. PidOf[id] \in HeldPids /\ HasPid(tConns[id], PidOf[id])
      BY <1>1, <2>1 DEF Belongs
    <2>3. PidOf[id] # pid
      BY <2>1, <2>2 DEF HasPid
    <2>. QED BY <1>4, <2>1, <2>2, <2>3
  <1>. QED BY <1>1, <1>2, <1>3, <1>5 DEF TlsInv

LEMMA ProcessWritesOk ==
  ASSUME TlsInv, NEW pid \in Pids, NEW n \in Nat, ProcessWrites(pid, n)
  PROVE  TlsInv'
  <1>1. KeyLogInv /\ Belongs(tConns, HeldPids) /\ tScene \in DOMAIN Scenes
    BY DEF TlsInv
  <1>2. /\ kWritten[pid] + n <= Len(FileText(pid)) /\ kWritten' = [kWritten EXCEPT ![pid] = @ + n]
        /\ UNCHANGED <<kWatcher, kGone, kNow>> /\ tConns' = tConns /\ tScene' = tScene /\ tLeaving' = tLeaving
    BY DEF ProcessWrites, KeyWrite, tVars
  <1>3. /\ kWritten \in [Pids -> Nat] /\ \A p \in Pids : kWritten[p] <= Len(FileText(p))
        /\ kWatcher \in Watcher /\ kNow \in Nat /\ SecretsOk(kWatcher)
        /\ AllReadUpTo(kWatcher, Keys(kWatcher) \cup kGone)
    BY <1>1 DEF KeyLogInv, WrittenOk
  <1>4. kWritten' \in [Pids -> Nat] /\ \A p \in Pids : kWritten[p] \in Nat /\ kWritten'[p] \in Nat /\ kWritten[p] <= kWritten'[p]
    BY <1>2, <1>3
  <1>5. WrittenOk'
    <2>. SUFFICES ASSUME NEW p \in Pids PROVE kWritten'[p] <= Len(FileText(p))
      BY <1>4 DEF WrittenOk
    <2>1. CASE p = pid
      BY <1>2, <1>3, <2>1
    <2>2. CASE p # pid
      BY <1>2, <1>3, <2>2
    <2>. QED BY <2>1, <2>2
  <1>6. AllReadUpTo(kWatcher, Keys(kWatcher) \cup kGone)'
    <2>. DEFINE K == Keys(kWatcher) \cup kGone
    <2>1. ASSUME NEW p \in Pids, IsEligible(kWatcher, p)
          PROVE  ReadUpTo(p, kWatcher.files[p], kWritten'[p], K)
      <3>1. ReadUpTo(p, kWatcher.files[p], kWritten[p], K)
        BY <1>3, <2>1 DEF AllReadUpTo
      <3>. HIDE DEF K
      <3>2. kWatcher.files[p].offset \in Nat
        BY <3>1 DEF ReadUpTo, WatchedFile
      <3>. QED BY <1>4, <3>1, <3>2 DEF ReadUpTo
    <2>. QED BY <1>2, <2>1 DEF AllReadUpTo
  <1>7. KeyLogInv'
    BY <1>2, <1>3, <1>5, <1>6 DEF KeyLogInv
  <1>8. HeldPids' = HeldPids
    BY <1>2 DEF HeldPids
  <1>. QED BY <1>1, <1>2, <1>7, <1>8 DEF TlsInv

LEMMA TlsTickOk ==
  ASSUME TlsInv, TlsTick
  PROVE  TlsInv'
  <1>1. KeyLogInv /\ Belongs(tConns, HeldPids) /\ tScene \in DOMAIN Scenes
    BY DEF TlsInv
  <1>2. /\ kNow' = kNow + 1 /\ kWatcher' = kWatcher /\ kWritten' = kWritten /\ kGone' = kGone
        /\ tConns' = tConns /\ tScene' = tScene /\ tLeaving' = tLeaving
    BY DEF TlsTick
  <1>3. KeyLogInv'
    <2>1. (kNow \in Nat)'
      BY <1>1, <1>2 DEF KeyLogInv
    <2>. QED BY <1>1, <1>2, <2>1, Zenon DEF KeyLogInv, WrittenOk, AllReadUpTo
  <1>4. HeldPids' = HeldPids
    BY <1>2 DEF HeldPids
  <1>. QED BY <1>1, <1>2, <1>3, <1>4 DEF TlsInv
-----------------------------------------------------------------------------
(* The flow table, the capture thread and the emitter *)

LEMMA FlowGoesOk ==
  ASSUME TlsInv, NEW id \in Conns, FlowGoes(id)
  PROVE  TlsInv'
  <1>. DEFINE c == tConns[id]
              w == IF c = Hole \/ c.random = Hole THEN kWatcher ELSE FlowSecretsRemoved(kWatcher, c.pid, c.random)
  <1>1. KeyLogInv /\ Belongs(tConns, HeldPids) /\ tScene \in DOMAIN Scenes /\ kWatcher \in Watcher
    BY DEF TlsInv, KeyLogInv
  <1>2. /\ KeyApply(w, kWatcher) /\ UNCHANGED <<kWritten, kNow>> /\ tScene' = tScene /\ tLeaving' = tLeaving
        /\ tConns' = [tConns EXCEPT ![id] = Hole]
    BY DEF FlowGoes
  <1>. HIDE DEF c
  <1>3. Thinned(w, kWatcher)
    BY <1>1, ThinnedSelf, ThinnedByAll
  <1>. HIDE DEF w
  <1>4. ReadFrom(kWatcher)
    BY <1>1, ReadItself
  <1>5. KeyLogInv' /\ \A p \in Pids : IsEligible(kWatcher', p) <=> IsEligible(kWatcher, p)
    BY <1>1, <1>2, <1>3, <1>4, KeyStep
  <1>6. HeldPids' = HeldPids
    BY <1>2, <1>5, HeldSame
  <1>7. Belongs(tConns', HeldPids)
    BY <1>1, <1>2 DEF Belongs
  <1>. QED BY <1>1, <1>2, <1>5, <1>6, <1>7 DEF TlsInv

LEMMA TryDecryptOk ==
  ASSUME TlsInv, NEW id \in Conns, NEW out, NEW flow, NEW p, TryDecrypt(id, out, flow, p),
         UNCHANGED <<tScene, tLeaving, kWritten, kNow>>
  PROVE  TlsInv'
  <1>. DEFINE read == FilesRead(kWatcher, kNow)
              polled == Capped(read, kNow)
              given == WithoutSecrets(polled, id, out, flow)
              rooms == IF NeedsSlot(id, flow) THEN RoomMade(tConns, id) ELSE {[conns |-> tConns, stuck |-> FALSE]}
              decoded == tDecoded[id][out]
              After(room) == IF room.stuck THEN {[conns |-> room.conns, stuck |-> TRUE, decoded |-> decoded]}
                             ELSE PacketHandled(room.conns, id, out, polled, flow, p, decoded)
  <1>1. KeyLogInv /\ Belongs(tConns, HeldPids) /\ tScene \in DOMAIN Scenes /\ PidOf[id] \in Pids
    BY TlsAssumption DEF TlsInv
  <1>2. ReadFrom(read)
    BY <1>1, ReadFiles
  <1>3. \/ ~IsEligible(polled, PidOf[id]) /\ KeyApply(polled, read) /\ tConns' = tConns
        \/ /\ IsEligible(polled, PidOf[id]) /\ KeyApply(given, read)
           /\ \E room \in rooms : \E done \in After(room) : tConns' = done.conns
    BY DEF TryDecrypt
  <1>. HIDE DEF read, decoded
  <1>4. Thinned(polled, read)
    BY <1>2, ThinnedSelf, ThinnedByAll DEF ReadFrom
  <1>. HIDE DEF polled
  <1>5. Thinned(given, read)
    BY <1>4, ThinnedWithout
  <1>. HIDE DEF given, rooms, After
  <1>6. ASSUME NEW w, Thinned(w, read), KeyApply(w, read)
        PROVE  KeyLogInv' /\ HeldPids' = HeldPids
    <2>1. KeyLogInv' /\ \A q \in Pids : IsEligible(kWatcher', q) <=> IsEligible(kWatcher, q)
      BY <1>1, <1>2, <1>6, KeyStep
    <2>2. HeldPids' = HeldPids
      BY <2>1, HeldSame
    <2>. QED BY <2>1, <2>2
  <1>7. CASE ~IsEligible(polled, PidOf[id]) /\ KeyApply(polled, read) /\ tConns' = tConns
    BY <1>1, <1>4, <1>6, <1>7 DEF TlsInv
  <1>8. CASE /\ IsEligible(polled, PidOf[id]) /\ KeyApply(given, read)
             /\ \E room \in rooms : \E done \in After(room) : tConns' = done.conns
    <2>1. KeyLogInv' /\ HeldPids' = HeldPids
      BY <1>5, <1>6, <1>8
    <2>2. PidOf[id] \in HeldPids
      <3>1. IsEligible(kWatcher, PidOf[id])
        BY <1>1, <1>2, <1>4, <1>8 DEF Thinned, ReadFrom, SameEligible, IsEligible
      <3>. QED BY <1>1, <3>1 DEF HeldPids
    <2>3. PICK room \in rooms : \E done \in After(room) : tConns' = done.conns
      BY <1>8
    <2>4. PICK done \in After(room) : tConns' = done.conns
      BY <2>3
    <2>5. Belongs(room.conns, HeldPids)
      <3>1. CASE NeedsSlot(id, flow)
        <4>1. room \in RoomMade(tConns, id)
          BY <3>1 DEF rooms
        <4>. QED BY <1>1, <4>1, RoomMadeBelongs
      <3>2. CASE ~NeedsSlot(id, flow)
        <4>1. room.conns = tConns
          BY <3>2 DEF rooms
        <4>. QED BY <1>1, <4>1
      <3>. QED BY <3>1, <3>2
    <2>6. Belongs(done.conns, HeldPids)
      <3>1. CASE room.stuck
        <4>1. done.conns = room.conns
          BY <3>1 DEF After
        <4>. QED BY <2>5, <4>1
      <3>2. CASE ~room.stuck
        <4>1. done \in PacketHandled(room.conns, id, out, polled, flow, p, decoded)
          BY <3>2 DEF After
        <4>. QED BY <2>2, <2>5, <4>1, PacketHandledBelongs
      <3>. QED BY <3>1, <3>2
    <2>. QED BY <1>1, <2>1, <2>4, <2>6 DEF TlsInv
  <1>. QED BY <1>3, <1>7, <1>8

LEMMA CapturedOk ==
  ASSUME TlsInv, NEW id \in Conns, NEW out, NEW p, NEW syn, NEW hello, Captured(id, out, p, syn, hello)
  PROVE  TlsInv'
  <1>1. PICK flow : TryDecrypt(id, out, flow, p)
    BY Zenon DEF Captured
  <1>2. UNCHANGED <<tScene, tLeaving, kWritten, kNow>>
    BY DEF Captured
  <1>. QED BY <1>1, <1>2, TryDecryptOk

LEMMA TlsPollOk ==
  ASSUME TlsInv, TlsPoll
  PROVE  TlsInv'
  <1>. DEFINE read == FilesRead(kWatcher, kNow)
              replayed == Replays(read)
  <1>1. KeyLogInv /\ Belongs(tConns, HeldPids) /\ tScene \in DOMAIN Scenes
    BY DEF TlsInv
  <1>2. ReadFrom(read)
    BY <1>1, ReadFiles
  <1>3. /\ KeyApply(replayed.w, read) /\ \E b \in Budgeted(AllExpired(replayed.conns)) : tConns' = b.conns
        /\ UNCHANGED <<tScene, tLeaving, kWritten, kNow>>
    BY DEF TlsPoll
  <1>. HIDE DEF read
  <1>4. ReplayInv(replayed, HeldPids, read)
    BY <1>1, <1>2, ReplaysOk DEF ReadFrom
  <1>. HIDE DEF replayed
  <1>5. Belongs(replayed.conns, HeldPids) /\ Thinned(replayed.w, read)
    BY <1>4 DEF ReplayInv
  <1>6. KeyLogInv' /\ \A q \in Pids : IsEligible(kWatcher', q) <=> IsEligible(kWatcher, q)
    BY <1>1, <1>2, <1>3, <1>5, KeyStep
  <1>7. HeldPids' = HeldPids
    BY <1>3, <1>6, HeldSame
  <1>8. PICK b \in Budgeted(AllExpired(replayed.conns)) : tConns' = b.conns
    BY <1>3
  <1>9. Belongs(b.conns, HeldPids)
    <2>1. Belongs(AllExpired(replayed.conns), HeldPids)
      BY <1>5, AllExpiredBelongs
    <2>. QED BY <2>1, BudgetedBelongs
  <1>. QED BY <1>1, <1>3, <1>6, <1>7, <1>8, <1>9 DEF TlsInv
-----------------------------------------------------------------------------
(* The theorems *)

LEMMA TlsInitOk ==
  ASSUME TlsInit
  PROVE  TlsInv
  <1>1. /\ kWatcher = NewWatcher /\ kWritten = [p \in Pids |-> 0] /\ kNow = 0
        /\ tScene \in DOMAIN Scenes /\ tConns = [id \in Conns |-> Hole]
    BY DEF TlsInit, KeyInit
  <1>2. kWatcher \in Watcher /\ kWatcher.secrets = {} /\ \A p \in Pids : ~IsEligible(kWatcher, p)
    BY <1>1 DEF NewWatcher, Watcher, IsEligible
  <1>3. WrittenOk
    <2>1. ASSUME NEW pid \in Pids PROVE 0 <= Len(FileText(pid))
      <3>1. FileText(pid) \in Seq(KeyUnit)
        <4>1. TextOf(Text(pid), pid) /\ Lines(pid) \in Nat /\ Lines(pid) \in 0..Lines(pid)
          BY TextFacts
        <4>. QED BY <4>1 DEF TextOf, Lines
      <3>2. Len(FileText(pid)) \in Nat
        BY <3>1, LenProperties
      <3>. QED BY <3>2
    <2>. QED BY <1>1, <2>1 DEF WrittenOk
  <1>4. KeyLogInv
    BY <1>1, <1>2, <1>3 DEF KeyLogInv, SecretsOk, AllReadUpTo
  <1>5. Belongs(tConns, HeldPids)
    BY <1>1 DEF Belongs
  <1>. QED BY <1>1, <1>4, <1>5 DEF TlsInv

LEMMA TlsNextOk ==
  ASSUME TlsInv, [TlsNext]_<<tVars, kVars>>
  PROVE  TlsInv'
  <1>1. Scenes[tScene] \subseteq Conns /\ ScenePids \subseteq Pids
    BY TlsAssumption DEF TlsInv, ScenePids
  <1>2. ASSUME NEW id \in Scenes[tScene], NEW out \in BOOLEAN, SynPacket(id, out) PROVE TlsInv'
    <2>1. id \in Conns /\ \E p, syn, hello : Captured(id, out, p, syn, hello)
      BY <1>1, <1>2, Zenon DEF SynPacket
    <2>. QED BY <2>1, CapturedOk
  <1>3. ASSUME NEW id \in Scenes[tScene], NEW out \in BOOLEAN, NEW i, NEW j, NEW cut, DataPacket(id, out, i, j, cut)
        PROVE  TlsInv'
    <2>1. id \in Conns /\ \E p, syn, hello : Captured(id, out, p, syn, hello)
      BY <1>1, <1>3, Zenon DEF DataPacket
    <2>. QED BY <2>1, CapturedOk
  <1>4. ASSUME NEW id \in Scenes[tScene], NEW out \in BOOLEAN, NEW i, ForgedPacket(id, out, i) PROVE TlsInv'
    <2>1. id \in Conns /\ \E p, syn, hello : Captured(id, out, p, syn, hello)
      BY <1>1, <1>4, Zenon DEF ForgedPacket
    <2>. QED BY <2>1, CapturedOk
  <1>5. CASE TlsPoll
    BY <1>5, TlsPollOk
  <1>6. ASSUME NEW id \in Scenes[tScene], FlowGoes(id) PROVE TlsInv'
    BY <1>1, <1>6, FlowGoesOk
  <1>7. ASSUME NEW pid \in ScenePids, OptIn(pid) \/ OptOut(pid) \/ OptOutConnections(pid) PROVE TlsInv'
    BY <1>1, <1>7, OptInOk, OptOutOk, OptOutConnectionsOk
  <1>8. ASSUME NEW pid \in ScenePids, NEW edge \in KeyEdges[pid], edge > kWritten[pid],
               ProcessWrites(pid, edge - kWritten[pid])
        PROVE  TlsInv'
    <2>1. pid \in Pids /\ edge \in Nat /\ kWritten[pid] \in Nat
      BY <1>1, TlsAssumption DEF TlsInv, KeyLogInv, WrittenOk
    <2>2. edge - kWritten[pid] \in Nat
      BY <1>8, <2>1
    <2>. QED BY <1>8, <2>1, <2>2, ProcessWritesOk
  <1>9. CASE TlsTick
    BY <1>9, TlsTickOk
  <1>10. CASE UNCHANGED <<tVars, kVars>>
    <2>1. KeyLogInv'
      BY <1>10, KeyLogSame DEF TlsInv
    <2>. QED BY <1>10, <2>1 DEF TlsInv, tVars, kVars, HeldPids
  <1>. QED BY <1>2, <1>3, <1>4, <1>5, <1>6, <1>7, <1>8, <1>9, <1>10, Zenon DEF TlsNext

LEMMA TlsInvForgets ==
  ASSUME TlsInv
  PROVE  OptOutForgets
  <1>. SUFFICES ASSUME NEW pid \in Pids \ tLeaving, ~IsEligible(kWatcher, pid)
                PROVE  /\ \A s \in kWatcher.secrets : s.key[1] # pid
                       /\ \A id \in Known(tConns) : tConns[id].pid # pid
    BY DEF OptOutForgets
  <1>1. SecretsOk(kWatcher) /\ Belongs(tConns, HeldPids)
    BY DEF TlsInv, KeyLogInv
  <1>2. \A s \in kWatcher.secrets : s.key[1] # pid
    BY <1>1 DEF SecretsOk
  <1>3. ASSUME NEW id \in Known(tConns) PROVE tConns[id].pid # pid
    <2>1. PidOf[id] \in HeldPids /\ tConns[id].pid = PidOf[id]
      BY <1>1 DEF Belongs, Known, HasPid
    <2>. QED BY <2>1 DEF HeldPids
  <1>. QED BY <1>2, <1>3

\* main.rs, the control task's opt-out between its two locks, and the packets, polls and
\* replays that run in between: for any processes, connections, files and limits, once an
\* opt-out is over nothing of the process is held, until it opts in again.
THEOREM OptOutAlwaysForgets == TlsSpec => []OptOutForgets
  <1>1. TlsInit => TlsInv
    BY TlsInitOk
  <1>2. TlsInv /\ [TlsNext]_<<tVars, kVars>> => TlsInv'
    BY TlsNextOk
  <1>3. TlsInv => OptOutForgets
    BY TlsInvForgets
  <1>. QED BY <1>1, <1>2, <1>3, PTL DEF TlsSpec
-----------------------------------------------------------------------------
(* Where a line ends *)

LEMMA LineEndIs ==
  ASSUME NEW pid \in Pids, NEW m \in 0..Lines(pid)
  PROVE  LineEnd(pid, m) = Ends(pid, m)
  <1>. DEFINE lines == SubSeq(KeyText[pid], 1, m)
              n == Len(lines)
              V == Nat
              base == 0
              Step(sum, l) == sum + LineLen[l] + 1
              G == [p \in (1..n) \X V |-> Step(p[2], lines[p[1]])]
              Solves(f) == f = [s \in SUBSET DOMAIN lines |->
                                  IF s = {} THEN base ELSE Step(f[s \ {Max(s)}], lines[Max(s)])]
              iter == CHOOSE f : Solves(f)
  <1>0. KeyText[pid] \in Seq(DOMAIN LineLen) /\ Lines(pid) \in Nat /\ Lines(pid) = Len(KeyText[pid])
    BY TextFacts DEF Lines
  <1>1. /\ lines \in Seq(DOMAIN LineLen) /\ n = m /\ n \in Nat /\ DOMAIN lines = 1..n
        /\ \A k \in 1..n : lines[k] = KeyText[pid][k]
    BY <1>0, SubSeqProperties
  <1>2. base \in V
    OBVIOUS
  <1>3. ASSUME NEW k \in 1..n, NEW acc \in V
        PROVE  Step(acc, lines[k]) \in V /\ G[<<k, acc>>] = Step(acc, lines[k])
    <2>. DEFINE l == lines[k]
    <2>1. l \in DOMAIN LineLen
      BY <1>1
    <2>. HIDE DEF l
    <2>2. LineLen[l] \in Nat
      BY <2>1, KeyLogAssumption
    <2>3. <<k, acc>> \in (1..n) \X V
      OBVIOUS
    <2>. QED BY <2>2, <2>3 DEF l
  <1>4. LineEnd(pid, m) = iter[DOMAIN lines]
    BY DEF LineEnd, FoldLeft, MapThenFoldSet
  <1>. HIDE DEF lines, n, base, Step, V
  <1>5. G \in [(1..n) \X V -> V]
    <2>. SUFFICES ASSUME NEW p \in (1..n) \X V PROVE Step(p[2], lines[p[1]]) \in V
      OBVIOUS
    <2>. QED BY <1>3
  <1>. HIDE DEF G
  <1>6. PICK f \in [SUBSET (1..n) -> V] : LeftFolds(f, n, G, base)
    BY <1>1, <1>2, <1>5, LeftFoldExists
  <1>7. \A s \in SUBSET (1..n) : f[s] = IF s = {} THEN base ELSE Step(f[s \ {Max(s)}], lines[Max(s)])
    BY <1>1, <1>3, <1>6, MaxOfIndices DEF LeftFolds
  <1>8. Solves(f)
    BY <1>1, <1>6, <1>7
  <1>9. Solves(iter)
    BY <1>8
  <1>. HIDE DEF iter
  <1>10. \A s \in SUBSET (1..n) : iter[s] = IF s = {} THEN base ELSE Step(iter[s \ {Max(s)}], lines[Max(s)])
    BY <1>1, <1>9, Zenon
  <1>11. FoldsOver(iter, n, V, G, base)
    <2>. SUFFICES ASSUME NEW s \in SUBSET (1..n)
                  PROVE  /\ s = {} => iter[s] = base
                         /\ s # {} /\ iter[s \ {Max(s)}] \in V => iter[s] = G[<<Max(s), iter[s \ {Max(s)}]>>]
      BY DEF FoldsOver
    <2>1. s # {} => Max(s) \in 1..n
      BY <1>1, MaxOfIndices
    <2>. QED BY <1>3, <1>10, <2>1
  <1>12. PICK h \in [0..n -> V] : Running(h, n, G, base) /\ iter[1..n] = h[n]
    <2>1. RunsTo(iter[1..n], n, V, G, base)
      BY <1>1, <1>2, <1>5, <1>11, LeftFoldSteps
    <2>. QED BY <2>1 DEF RunsTo
  <1>13. ASSUME NEW k \in 1..n PROVE h[k] = Step(h[k-1], lines[k])
    <2>1. k - 1 \in 0..n
      BY <1>1
    <2>. QED BY <1>3, <1>12, <2>1 DEF Running
  <1>. DEFINE T == {k \in Nat : k <= n => h[k] = Ends(pid, k)}
  <1>14. 0 \in T
    <2>1. Text(pid)[0] = <<>>
      BY TextFacts DEF TextOf
    <2>2. Ends(pid, 0) = 0
      BY <2>1 DEF Ends
    <2>. QED BY <1>12, <2>2 DEF Running, base
  <1>15. ASSUME NEW k \in Nat, k \in T PROVE k + 1 \in T
    <2>. SUFFICES ASSUME k + 1 <= n PROVE h[k+1] = Ends(pid, k+1)
      OBVIOUS
    <2>1. k + 1 \in 1..n /\ k + 1 \in 1..Lines(pid) /\ (k + 1) - 1 = k /\ k <= n
      BY <1>0, <1>1
    <2>2. h[k+1] = h[k] + LineLen[KeyText[pid][k+1]] + 1
      BY <1>1, <1>13, <2>1 DEF Step
    <2>3. Ends(pid, k+1) = Ends(pid, k) + LineLen[KeyText[pid][k+1]] + 1
      BY <2>1, TextGrows
    <2>. QED BY <1>15, <2>1, <2>2, <2>3
  <1>16. Nat \subseteq T
    <2>. HIDE DEF T
    <2>. QED BY <1>14, <1>15, NatSetInduction
  <1>17. h[n] = Ends(pid, n)
    BY <1>1, <1>16
  <1>. QED BY <1>1, <1>4, <1>12, <1>17

LEMMA TlsInvExact ==
  ASSUME TlsInv
  PROVE  KeyLogExact
  <1>. SUFFICES ASSUME NEW pid \in Pids
                PROVE  /\ \A k \in Readable(pid) :
                            IsEligible(kWatcher, pid) /\ LineEnd(pid, k) <= kWatcher.files[pid].offset =>
                              <<pid, NameOn(pid, k)>> \in Keys(kWatcher) \cup kGone
                       /\ \A s \in kWatcher.secrets :
                            s.key[1] = pid => \E k \in Readable(pid) : s.key[2] = NameOn(pid, k)
    BY Zenon DEF KeyLogExact, Readable, NameOn, Lines
  <1>1. SecretsOk(kWatcher) /\ AllReadUpTo(kWatcher, Keys(kWatcher) \cup kGone)
    BY DEF TlsInv, KeyLogInv
  <1>2. ASSUME NEW s \in kWatcher.secrets, s.key[1] = pid
        PROVE  \E k \in Readable(pid) : s.key[2] = NameOn(pid, k)
    BY <1>1, <1>2 DEF SecretsOk, Real
  <1>3. ASSUME NEW k \in Readable(pid), IsEligible(kWatcher, pid),
               LineEnd(pid, k) <= kWatcher.files[pid].offset
        PROVE  <<pid, NameOn(pid, k)>> \in Keys(kWatcher) \cup kGone
    <2>. DEFINE file == kWatcher.files[pid]
                K == Keys(kWatcher) \cup kGone
    <2>1. ReadUpTo(pid, file, kWritten[pid], K)
      BY <1>1, <1>3 DEF AllReadUpTo
    <2>2. k \in 1..Lines(pid) /\ Lines(pid) \in Nat
      BY TextFacts DEF Readable
    <2>3. Ends(pid, k) <= file.offset
      <3>1. LineEnd(pid, k) = Ends(pid, k)
        BY <2>2, LineEndIs
      <3>. QED BY <1>3, <3>1
    <2>. HIDE DEF file, K
    <2>4. PICK at \in 1..Lines(pid) + 1 :
            AtLine(pid, file.offset, file, at) /\ \A r \in Readable(pid) : r < at => <<pid, NameOn(pid, r)>> \in K
      BY <2>1 DEF ReadUpTo
    <2>5. PICK i \in Nat : file.offset = Ends(pid, at-1) + i /\ IntoLine(pid, file, at, i)
      BY <2>4 DEF AtLine
    <2>6. ASSUME ~(k < at) PROVE FALSE
      <3>1. at \in 1..Lines(pid) /\ at <= k
        BY <2>2, <2>6
      <3>2. i <= LineLen[KeyText[pid][at]]
        BY <2>5, <3>1 DEF IntoLine
      <3>3. /\ Ends(pid, at) = Ends(pid, at-1) + LineLen[KeyText[pid][at]] + 1
            /\ LineLen[KeyText[pid][at]] \in Nat /\ Ends(pid, at-1) \in Nat
        BY <3>1, TextGrows
      <3>4. Ends(pid, at) <= Ends(pid, k) /\ Ends(pid, k) \in Nat
        <4>1. at \in 0..Lines(pid) /\ k \in at..Lines(pid) /\ k \in 0..Lines(pid) /\ k - at \in Nat
          BY <2>2, <3>1
        <4>2. Ends(pid, at) + (k - at) <= Ends(pid, k)
          BY <4>1, TextIsPrefix
        <4>3. Ends(pid, at) \in Nat /\ Ends(pid, k) \in Nat
          BY <4>1, EndsType
        <4>. QED BY <4>1, <4>2, <4>3
      <3>. QED BY <2>3, <2>5, <3>2, <3>3, <3>4
    <2>. QED BY <2>2, <2>4, <2>6 DEF K
  <1>. QED BY <1>2, <1>3

\* keylog.rs, poll_at and the scanning of a file, with the registrations, take_secret,
\* the caps and the opt-outs around them: for any key logs, line lengths and limits, the
\* secret of every whole line that was read is kept or was kept and let go, and no secret
\* is kept that no line of its process has.
THEOREM KeyLogAlwaysExact == TlsSpec => []KeyLogExact
  <1>1. TlsInit => TlsInv
    BY TlsInitOk
  <1>2. TlsInv /\ [TlsNext]_<<tVars, kVars>> => TlsInv'
    BY TlsNextOk
  <1>3. TlsInv => KeyLogExact
    BY TlsInvExact
  <1>. QED BY <1>1, <1>2, <1>3, PTL DEF TlsSpec
-----------------------------------------------------------------------------
(* The bounds: what the stream, the handshake parser and the HTTP/2 reader return *)

\* Items of I that are cut from a buffer, and what is left of it.
Cuts(I) == [items : Seq(I), rest : Seq(I \X Nat)]

\* A buffer of units of items in I.
IsBuffer(buf, I) == I \subseteq DOMAIN ItemLen /\ buf \in Seq(I \X Nat)

ItemAt(buf, pos) == buf[pos + 1][1]

\* What WholeItems makes of the buffer from pos, f being what it makes of later ones.
CutAt(f, buf, pos) ==
  IF pos < Len(buf) /\ pos + ItemLen[ItemAt(buf, pos)] <= Len(buf)
  THEN [f[pos + ItemLen[ItemAt(buf, pos)]] EXCEPT !.items = <<ItemAt(buf, pos)>> \o @]
  ELSE [items |-> <<>>, rest |-> SubSeq(buf, pos + 1, Len(buf))]

SameBeyond(f, g, buf, pos) == \A q \in pos+1..Len(buf) : f[q] = g[q]

\* The item a buffer begins with is one of the items sent.
LEMMA ItemAtType ==
  ASSUME NEW I, NEW buf, IsBuffer(buf, I), NEW pos \in Nat, pos < Len(buf)
  PROVE  ItemAt(buf, pos) \in I /\ ItemLen[ItemAt(buf, pos)] \in Nat \ {0}
  <1>1. pos + 1 \in 1..Len(buf) /\ buf \in Seq(I \X Nat) /\ I \subseteq DOMAIN ItemLen
    BY DEF IsBuffer
  <1>2. buf[pos + 1] \in I \X Nat
    BY <1>1
  <1>3. ItemAt(buf, pos) \in I
    BY <1>2 DEF ItemAt
  <1>. QED BY <1>1, <1>3, TlsStreamAssumption

\* From any position, it is whole items and the rest of the buffer.
LEMMA CutAtType ==
  ASSUME NEW I, NEW buf, IsBuffer(buf, I), NEW pos \in 0..Len(buf), NEW f,
         \A q \in pos+1..Len(buf) : f[q] \in Cuts(I)
  PROVE  CutAt(f, buf, pos) \in Cuts(I)
  <1>. DEFINE n == Len(buf)
              i == ItemAt(buf, pos)
  <1>1. n \in Nat /\ pos \in Nat
    BY DEF IsBuffer
  <1>2. CASE pos < n /\ pos + ItemLen[i] <= n
    <2>1. i \in I /\ ItemLen[i] \in Nat \ {0}
      BY <1>1, <1>2, ItemAtType
    <2>. DEFINE q == pos + ItemLen[i]
                c == f[q]
    <2>2. q \in pos+1..n
      BY <1>1, <1>2, <2>1
    <2>3. c \in Cuts(I)
      BY <2>2
    <2>. HIDE DEF c
    <2>4. c.items \in Seq(I) /\ c.rest \in Seq(I \X Nat) /\ <<i>> \in Seq(I)
      BY <2>1, <2>3 DEF Cuts
    <2>. DEFINE s == <<i>> \o c.items
    <2>5. s \in Seq(I)
      BY <2>4, ConcatProperties
    <2>. HIDE DEF s
    <2>6. [c EXCEPT !.items = s] \in Cuts(I)
      BY <2>3, <2>5 DEF Cuts
    <2>7. CutAt(f, buf, pos) = [c EXCEPT !.items = s]
      BY <1>2 DEF CutAt, c, s
    <2>. QED BY <2>6, <2>7
  <1>3. CASE ~(pos < n /\ pos + ItemLen[i] <= n)
    <2>1. SubSeq(buf, pos + 1, n) \in Seq(I \X Nat)
      BY <1>1 DEF IsBuffer
    <2>2. <<>> \in Seq(I)
      OBVIOUS
    <2>3. CutAt(f, buf, pos) = [items |-> <<>>, rest |-> SubSeq(buf, pos + 1, n)]
      BY <1>3 DEF CutAt
    <2>. QED BY <2>1, <2>2, <2>3 DEF Cuts
  <1>. QED BY <1>2, <1>3

\* It depends on what f makes of later positions only.
LEMMA CutAtSame ==
  ASSUME NEW I, NEW buf, IsBuffer(buf, I), NEW pos \in 0..Len(buf), NEW f, NEW g, SameBeyond(f, g, buf, pos)
  PROVE  CutAt(f, buf, pos) = CutAt(g, buf, pos)
  <1>. DEFINE n == Len(buf)
              i == ItemAt(buf, pos)
  <1>1. n \in Nat /\ pos \in Nat
    BY DEF IsBuffer
  <1>2. CASE pos < n /\ pos + ItemLen[i] <= n
    <2>1. ItemLen[i] \in Nat \ {0}
      BY <1>1, <1>2, ItemAtType
    <2>2. pos + ItemLen[i] \in pos+1..n
      BY <1>1, <1>2, <2>1
    <2>3. f[pos + ItemLen[i]] = g[pos + ItemLen[i]]
      BY <2>2 DEF SameBeyond
    <2>. QED BY <1>2, <2>3 DEF CutAt
  <1>3. CASE ~(pos < n /\ pos + ItemLen[i] <= n)
    BY <1>3 DEF CutAt
  <1>. QED BY <1>2, <1>3

\* f is what WholeItems makes of the buffer from each of the last k positions.
CutsFrom(f, buf, k) == \A q \in Len(buf)-k..Len(buf) : f[q] = CutAt(f, buf, q)

\* There is such a function for any number of last positions.
LEMMA CutsExist ==
  ASSUME NEW I, NEW buf, IsBuffer(buf, I), NEW k \in Nat, k <= Len(buf)
  PROVE  \E f : CutsFrom(f, buf, k)
  <1>. DEFINE n == Len(buf)
              T == {j \in Nat : j <= n => \E f : CutsFrom(f, buf, j)}
              Later(f, p) == \A q \in p+1..n : f[q] = CutAt(f, buf, q)
  <1>1. n \in Nat
    BY DEF IsBuffer
  <1>2. ASSUME NEW j \in Nat, j <= n, NEW f, Later(f, n - j)
        PROVE  \E g : CutsFrom(g, buf, j)
    <2>. DEFINE p == n - j
                g == [q \in p..n |-> IF q = p THEN CutAt(f, buf, p) ELSE f[q]]
    <2>1. p \in 0..n
      BY <1>1, <1>2
    <2>2. ASSUME NEW q \in p..n PROVE g[q] = CutAt(g, buf, q)
      <3>1. q \in 0..n /\ SameBeyond(f, g, buf, q)
        BY <2>1 DEF SameBeyond
      <3>2. CutAt(f, buf, q) = CutAt(g, buf, q)
        <4>. HIDE DEF g
        <4>. QED BY <3>1, CutAtSame
      <3>3. g[q] = CutAt(f, buf, q)
        <4>1. CASE q = p
          BY <4>1
        <4>2. CASE q # p
          <5>1. q \in p+1..n
            BY <1>1, <2>1, <4>2
          <5>2. g[q] = f[q]
            BY <4>2
          <5>3. f[q] = CutAt(f, buf, q)
            BY <1>2, <5>1
          <5>. QED BY <5>2, <5>3
        <4>. QED BY <4>1, <4>2
      <3>. QED BY <3>2, <3>3
    <2>. HIDE DEF g
    <2>. QED BY <2>2 DEF CutsFrom
  <1>3. 0 \in T
    <2>. DEFINE f == [q \in {} |-> 0]
    <2>1. Later(f, n - 0) /\ 0 <= n
      BY <1>1
    <2>. HIDE DEF f, Later
    <2>2. \E g : CutsFrom(g, buf, 0)
      BY <1>2, <2>1
    <2>. QED BY <2>2
  <1>4. ASSUME NEW j \in Nat, j \in T PROVE j + 1 \in T
    <2>. SUFFICES ASSUME j + 1 <= n PROVE \E f : CutsFrom(f, buf, j + 1)
      OBVIOUS
    <2>1. PICK f : CutsFrom(f, buf, j)
      BY <1>1, <1>4
    <2>2. (n - (j + 1)) + 1 = n - j
      BY <1>1
    <2>3. Later(f, n - (j + 1))
      BY <2>1, <2>2 DEF CutsFrom
    <2>. HIDE DEF Later
    <2>4. j + 1 \in Nat
      OBVIOUS
    <2>. QED BY <1>2, <2>3, <2>4
  <1>5. Nat \subseteq T
    <2>. HIDE DEF T
    <2>. QED BY <1>3, <1>4, NatSetInduction
  <1>. QED BY <1>5

\* What WholeItems returns: whole items, and the rest of the buffer.
LEMMA WholeItemsType ==
  ASSUME NEW I, NEW buf, IsBuffer(buf, I)
  PROVE  WholeItems(buf) \in Cuts(I)
  <1>. DEFINE n == Len(buf)
              Solves(f) == f = [q \in 0..n |-> CutAt(f, buf, q)]
              from == CHOOSE f : Solves(f)
  <1>1. n \in Nat /\ n <= Len(buf)
    BY DEF IsBuffer
  <1>2. WholeItems(buf) = from[0]
    BY DEF WholeItems, CutAt, ItemAt
  <1>3. PICK f : CutsFrom(f, buf, n)
    BY <1>1, CutsExist
  <1>. DEFINE g == [q \in 0..n |-> f[q]]
  <1>4. Solves(g)
    <2>1. ASSUME NEW q \in 0..n PROVE g[q] = CutAt(g, buf, q)
      <3>1. SameBeyond(f, g, buf, q)
        BY DEF SameBeyond
      <3>2. g[q] = f[q]
        OBVIOUS
      <3>4. q \in n-n..n
        BY <1>1
      <3>. HIDE DEF g
      <3>3. CutAt(f, buf, q) = CutAt(g, buf, q)
        BY <3>1, CutAtSame
      <3>. QED BY <1>3, <3>2, <3>3, <3>4 DEF CutsFrom
    <2>. QED BY <2>1
  <1>5. Solves(from)
    <2>. HIDE DEF g
    <2>. QED BY <1>4
  <1>. HIDE DEF from
  <1>6. \A q \in 0..n : from[q] = CutAt(from, buf, q)
    BY <1>5, Zenon
  <1>. DEFINE Typed(p) == \A q \in p..n : from[q] \in Cuts(I)
              U == {k \in Nat : k <= n => Typed(n - k)}
  <1>7. ASSUME NEW k \in Nat, k <= n, Typed((n - k) + 1)
        PROVE  Typed(n - k)
    <2>. DEFINE p == n - k
    <2>1. p \in 0..n
      BY <1>1, <1>7
    <2>2. CutAt(from, buf, p) \in Cuts(I)
      BY <1>7, <2>1, CutAtType
    <2>3. from[p] \in Cuts(I)
      BY <1>6, <2>1, <2>2
    <2>4. ASSUME NEW q \in n-k..n PROVE from[q] \in Cuts(I)
      <3>1. q = p \/ q \in p+1..n
        BY <1>1
      <3>. QED BY <1>7, <2>3, <3>1
    <2>. QED BY <2>4
  <1>8. 0 \in U
    <2>1. Typed((n - 0) + 1) /\ 0 <= n
      BY <1>1
    <2>. HIDE DEF Typed
    <2>. QED BY <1>7, <2>1
  <1>9. ASSUME NEW k \in Nat, k \in U PROVE k + 1 \in U
    <2>. SUFFICES ASSUME k + 1 <= n PROVE Typed(n - (k + 1))
      OBVIOUS
    <2>. HIDE DEF Typed
    <2>1. Typed(n - k)
      BY <1>1, <1>9
    <2>2. (n - (k + 1)) + 1 = n - k /\ k + 1 \in Nat
      BY <1>1
    <2>3. Typed((n - (k + 1)) + 1)
      BY <2>1, <2>2
    <2>. QED BY <1>7, <2>2, <2>3
  <1>10. Nat \subseteq U
    <2>. HIDE DEF U
    <2>. QED BY <1>8, <1>9, NatSetInduction
  <1>11. from[0] \in Cuts(I)
    <2>. HIDE DEF U
    <2>1. n \in U
      BY <1>1, <1>10
    <2>3. 0 \in n-n..n
      BY <1>1
    <2>2. Typed(n - n)
      BY <1>1, <2>1 DEF U
    <2>. QED BY <2>2, <2>3
  <1>. QED BY <1>2, <1>11

Recs == DOMAIN Record
RecordUnits == Recs \X Nat

TcpResults ==
  [err : Reasons \cup {Hole}, stream : TlsStreams(Recs), bytes : Seq(RecordUnits)]

SegmentResults ==
  [err : Reasons \cup {Hole}, stream : TlsStreams(Recs), records : Seq(Recs)]

\* Writing units at an offset leaves a window of units.
LEMMA WrittenType ==
  ASSUME NEW U, NEW data \in Seq(U \cup {Hole}), NEW offset \in Nat, NEW bytes \in Seq(U), NEW cap \in Nat
  PROVE  WriteFirstSeen(data, offset, bytes, cap) \in Seq(U \cup {Hole})
  <1>. DEFINE end == UsableEnd(offset, bytes, cap)
              n == Larger(Len(data), end)
              B == U \cup {Hole}
              Cell(i) == IF Held(data, i) THEN data[i]
                         ELSE IF i \in offset+1..end THEN bytes[i - offset] ELSE Hole
  <1>1. end \in Nat /\ end <= offset + Len(bytes) /\ Len(bytes) \in Nat /\ Len(data) \in Nat
    BY DEF UsableEnd, Smaller
  <1>2. n \in Nat
    BY <1>1 DEF Larger
  <1>. HIDE DEF end, n
  <1>3. ASSUME NEW i \in 1..n PROVE Cell(i) \in B
    <2>1. Held(data, i) => data[i] \in B
      BY DEF Held
    <2>2. i \in offset+1..end => bytes[i - offset] \in U
      <3>. SUFFICES ASSUME i \in offset+1..end PROVE bytes[i - offset] \in U
        OBVIOUS
      <3>1. i - offset \in 1..Len(bytes)
        BY <1>1
      <3>. QED BY <3>1
    <2>. QED BY <2>1, <2>2
  <1>. DEFINE w == [i \in 1..n |-> Cell(i)]
  <1>4. w \in Seq(B)
    <2>1. w \in [1..n -> B]
      BY <1>3
    <2>. HIDE DEF w
    <2>. QED BY <1>2, <2>1
  <1>5. WriteFirstSeen(data, offset, bytes, cap) = IF offset >= end THEN data ELSE w
    BY DEF WriteFirstSeen, end, n
  <1>. QED BY <1>4, <1>5

\* The units up to the first gap are units.
LEMMA ContiguousRun ==
  ASSUME NEW U, NEW data \in Seq(U \cup {Hole})
  PROVE  /\ ContiguousFrom(data, 0) \in 0..Len(data)
         /\ SubSeq(data, 1, ContiguousFrom(data, 0)) \in Seq(U)
         /\ SubSeq(data, ContiguousFrom(data, 0) + 1, Len(data)) \in Seq(U \cup {Hole})
  <1>. DEFINE m == Len(data)
              S == {n \in 0..m : \A i \in 1..n : Held(data, i)}
              n == ContiguousFrom(data, 0)
  <1>1. m \in Nat /\ Smaller(0, m) = 0
    BY DEF Smaller
  <1>2. n = Max(S)
    <2>. DEFINE At(k) == {j \in k..m : \A i \in k+1..j : Held(data, i)}
    <2>1. n = Max(At(Smaller(0, m)))
      BY DEF ContiguousFrom
    <2>2. At(0) = S
      OBVIOUS
    <2>. HIDE DEF At, S
    <2>. QED BY <1>1, <2>1, <2>2
  <1>3. S \in SUBSET (0..m) /\ 0 \in S
    BY <1>1
  <1>4. Max(S) \in S
    BY <1>1, <1>3, MaxExists
  <1>5. n \in 0..m /\ \A i \in 1..n : Held(data, i)
    BY <1>2, <1>4
  <1>. HIDE DEF n, S
  <1>6. ASSUME NEW i \in 1..n PROVE data[i] \in U
    <2>1. data[i] # Hole /\ i \in 1..m
      BY <1>5 DEF Held
    <2>2. data[i] \in U \cup {Hole}
      BY <2>1
    <2>. QED BY <2>1, <2>2
  <1>7. SubSeq(data, 1, n) \in Seq(U)
    <2>1. SubSeq(data, 1, n) = [i \in 1..n |-> data[i]]
      BY <1>1, <1>5
    <2>2. [i \in 1..n |-> data[i]] \in [1..n -> U]
      BY <1>6
    <2>3. n \in Nat
      BY <1>1, <1>5
    <2>. QED BY <2>1, <2>2, <2>3
  <1>8. SubSeq(data, n + 1, m) \in Seq(U \cup {Hole})
    BY <1>1, <1>5
  <1>. QED BY <1>5, <1>7, <1>8 DEF n

\* The distance of two sequence numbers is an integer.
LEMMA TlsDeltaType ==
  ASSUME NEW a \in Nat, NEW b \in Nat
  PROVE  TlsDelta(a, b) \in Int
  <1>1. TlsSeqMod \in Nat /\ TlsSeqMod > 0
    BY TlsStreamAssumption
  <1>. DEFINE d == (a - b) % TlsSeqMod
  <1>2. d \in Int
    BY <1>1
  <1>. HIDE DEF d
  <1>3. TlsDelta(a, b) = IF d < TlsSeqMod \div 2 THEN d ELSE d - TlsSeqMod
    BY DEF TlsDelta, d
  <1>. QED BY <1>1, <1>2, <1>3

\* The fields of a stream have their types.
LEMMA StreamFields ==
  ASSUME NEW s \in TlsStreams(Recs)
  PROVE  s.next \in Nat /\ s.data \in Seq(RecordUnits \cup {Hole}) /\ s.partial \in Seq(RecordUnits)
  BY DEF TlsStreams, RecordUnits

\* A segment leaves a stream of the same kind, and the units that are in order.
LEMMA TcpFedType ==
  ASSUME NEW s \in TlsStreams(Recs), NEW seq \in Nat, NEW payload \in Seq(RecordUnits)
  PROVE  TcpFed(s, seq, payload) \in TcpResults
  <1>. DEFINE rel == TlsDelta(seq, s.next)
              piece == IF rel < 0 THEN SubSeq(payload, 1 - rel, Len(payload)) ELSE payload
              offset == Larger(rel, 0)
              data == WriteFirstSeen(s.data, offset, piece, ReorderWindow)
              n == ContiguousFrom(data, 0)
              over == offset + Len(piece) > ReorderWindow
              first == offset = 0 /\ s.data = <<>>
              clash == Conflicts(s.data, offset, piece, ReorderWindow) # {}
              next1 == (s.next + Len(piece)) % TlsSeqMod
              next2 == (s.next + n) % TlsSeqMod
              rest == SubSeq(data, n + 1, Len(data))
              read == SubSeq(data, 1, n)
              r1 == [err |-> Hole, stream |-> s, bytes |-> <<>>]
              r2 == [err |-> Hole, stream |-> [s EXCEPT !.next = next1], bytes |-> piece]
              r3 == [err |-> "tcpGap", stream |-> s, bytes |-> <<>>]
              r4 == [err |-> "overlapConflict", stream |-> s, bytes |-> <<>>]
              r5 == [err |-> Hole, stream |-> [s EXCEPT !.next = next2, !.data = rest], bytes |-> read]
  <1>1. /\ s.next \in Nat /\ s.data \in Seq(RecordUnits \cup {Hole})
        /\ TlsSeqMod \in Nat /\ TlsSeqMod > 0 /\ ReorderWindow \in Nat
    BY StreamFields, TlsStreamAssumption
  <1>2. rel \in Int
    BY <1>1, TlsDeltaType
  <1>3. TcpFed(s, seq, payload) =
          IF piece = <<>> THEN r1 ELSE IF over THEN IF first THEN r2 ELSE r3 ELSE IF clash THEN r4 ELSE r5
    BY DEF TcpFed
  <1>. HIDE DEF rel
  <1>4. piece \in Seq(RecordUnits) /\ offset \in Nat
    <2>1. offset \in Nat
      BY <1>2 DEF Larger
    <2>2. CASE rel < 0
      <3>1. SubSeq(payload, 1 - rel, Len(payload)) \in Seq(RecordUnits)
        <4>. DEFINE m == Len(payload)
                    k == 1 - rel
        <4>1. m \in Nat /\ k \in Nat /\ k >= 1
          BY <1>2, <2>2
        <4>. HIDE DEF m, k
        <4>2. SubSeq(payload, k, m) \in Seq(RecordUnits)
          BY <4>1 DEF m
        <4>. QED BY <4>2 DEF m, k
      <3>. QED BY <2>1, <2>2, <3>1
    <2>3. CASE ~(rel < 0)
      BY <2>1, <2>3
    <2>. QED BY <2>2, <2>3
  <1>. HIDE DEF piece, offset
  <1>5. data \in Seq(RecordUnits \cup {Hole})
    BY <1>1, <1>4, WrittenType
  <1>. HIDE DEF data
  <1>6. n \in 0..Len(data) /\ read \in Seq(RecordUnits) /\ rest \in Seq(RecordUnits \cup {Hole})
    BY <1>5, ContiguousRun
  <1>7. n \in Nat /\ Len(piece) \in Nat
    BY <1>4, <1>5, <1>6
  <1>8. next1 \in Nat /\ next2 \in Nat
    BY <1>1, <1>7
  <1>. HIDE DEF n, next1, next2, rest, read
  <1>9. [s EXCEPT !.next = next1] \in TlsStreams(Recs) /\ [s EXCEPT !.next = next2, !.data = rest] \in TlsStreams(Recs)
    BY <1>6, <1>8 DEF TlsStreams, RecordUnits
  <1>10. <<>> \in Seq(RecordUnits)
    OBVIOUS
  <1>12. ASSUME NEW e \in Reasons \cup {Hole}, NEW t \in TlsStreams(Recs), NEW b \in Seq(RecordUnits)
         PROVE  [err |-> e, stream |-> t, bytes |-> b] \in TcpResults
    BY DEF TcpResults
  <1>13. r1 \in TcpResults /\ r3 \in TcpResults /\ r4 \in TcpResults
    <2>1. Hole \in Reasons \cup {Hole} /\ "tcpGap" \in Reasons \cup {Hole} /\ "overlapConflict" \in Reasons \cup {Hole}
      BY DEF Reasons
    <2>2. r1 \in TcpResults
      BY ONLY s \in TlsStreams(Recs), <1>10, <1>12, <2>1
    <2>3. r3 \in TcpResults
      BY ONLY s \in TlsStreams(Recs), <1>10, <1>12, <2>1
    <2>4. r4 \in TcpResults
      BY ONLY s \in TlsStreams(Recs), <1>10, <1>12, <2>1
    <2>. QED BY <2>2, <2>3, <2>4
  <1>14. r2 \in TcpResults
    BY <1>4, <1>9, <1>12
  <1>15. r5 \in TcpResults
    BY <1>6, <1>9, <1>12
  <1>11. r1 \in TcpResults /\ r2 \in TcpResults /\ r3 \in TcpResults /\ r4 \in TcpResults /\ r5 \in TcpResults
    BY <1>13, <1>14, <1>15
  <1>. HIDE DEF r1, r2, r3, r4, r5, over, first, clash
  <1>. QED BY <1>3, <1>11

\* Records are items.
LEMMA RecsAreItems == Recs \subseteq DOMAIN ItemLen
  BY TlsAssumption DEF Recs

\* What a segment gives: records, and the stream after it.
LEMMA SegmentFedType ==
  ASSUME NEW s \in TlsStreams(Recs), NEW seq \in Nat, NEW payload \in Seq(RecordUnits)
  PROVE  SegmentFed(s, seq, payload) \in SegmentResults
  <1>. DEFINE tcp == TcpFed(s, seq, payload)
              buf == tcp.stream.partial \o tcp.bytes
              whole == WholeItems(buf)
  <1>1. tcp \in TcpResults
    BY TcpFedType
  <1>2. SegmentFed(s, seq, payload) =
          IF tcp.err # Hole THEN [err |-> tcp.err, stream |-> s, records |-> <<>>]
          ELSE IF TooLong(whole, MaxRecord) THEN [err |-> "recordOverflow", stream |-> s, records |-> <<>>]
          ELSE [err |-> Hole, stream |-> [tcp.stream EXCEPT !.partial = whole.rest], records |-> whole.items]
    BY DEF SegmentFed, Framed
  <1>. HIDE DEF tcp
  <1>3. tcp.err \in Reasons \cup {Hole} /\ tcp.stream \in TlsStreams(Recs) /\ tcp.bytes \in Seq(RecordUnits)
    BY <1>1 DEF TcpResults
  <1>. DEFINE t == tcp.stream
  <1>4. t.partial \in Seq(RecordUnits)
    BY <1>3, StreamFields
  <1>5. buf \in Seq(RecordUnits)
    BY <1>3, <1>4, ConcatProperties
  <1>. HIDE DEF buf
  <1>6. IsBuffer(buf, Recs)
    BY <1>5, RecsAreItems DEF IsBuffer, RecordUnits
  <1>7. whole \in Cuts(Recs)
    BY <1>6, WholeItemsType
  <1>. HIDE DEF whole, t
  <1>8. whole.items \in Seq(Recs) /\ whole.rest \in Seq(RecordUnits)
    BY <1>7 DEF Cuts, RecordUnits
  <1>9. [t EXCEPT !.partial = whole.rest] \in TlsStreams(Recs)
    BY <1>3, <1>8 DEF TlsStreams, RecordUnits, t
  <1>. DEFINE r1 == [err |-> tcp.err, stream |-> s, records |-> <<>>]
              r2 == [err |-> "recordOverflow", stream |-> s, records |-> <<>>]
              r3 == [err |-> Hole, stream |-> [t EXCEPT !.partial = whole.rest], records |-> whole.items]
  <1>10. <<>> \in Seq(Recs)
    OBVIOUS
  <1>13. ASSUME NEW e \in Reasons \cup {Hole}, NEW u \in TlsStreams(Recs), NEW b \in Seq(Recs)
         PROVE  [err |-> e, stream |-> u, records |-> b] \in SegmentResults
    BY DEF SegmentResults
  <1>14. r1 \in SegmentResults /\ r2 \in SegmentResults
    <2>1. "recordOverflow" \in Reasons \cup {Hole}
      BY DEF Reasons
    <2>2. r1 \in SegmentResults
      BY ONLY s \in TlsStreams(Recs), <1>3, <1>10, <1>13
    <2>3. r2 \in SegmentResults
      BY ONLY s \in TlsStreams(Recs), <1>10, <1>13, <2>1
    <2>. QED BY <2>2, <2>3
  <1>15. r3 \in SegmentResults
    BY <1>8, <1>9, <1>13
  <1>11. r1 \in SegmentResults /\ r2 \in SegmentResults /\ r3 \in SegmentResults
    BY <1>14, <1>15
  <1>12. SegmentFed(s, seq, payload) = IF tcp.err # Hole THEN r1 ELSE IF TooLong(whole, MaxRecord) THEN r2 ELSE r3
    BY <1>2 DEF t
  <1>. HIDE DEF r1, r2, r3
  <1>. QED BY <1>11, <1>12

Items == DOMAIN ItemLen
ItemUnits == Items \X Nat
Entries == [out : BOOLEAN, item : Items]

\* An item is at least one unit long.
LEMMA ItemLenType == ASSUME NEW i \in Items PROVE ItemLen[i] \in Nat \ {0}
  BY TlsStreamAssumption DEF Items

\* What a ring takes is a number.
LEMMA RingUsedType ==
  ASSUME NEW ring \in Seq(Entries)
  PROVE  RingUsed(ring) \in Nat
  <1>. DEFINE row == ring
              n == Len(row)
              V == Nat
              base == 0
              Step(acc, u) == acc + ItemLen[u.item]
              G == [p \in (1..n) \X V |-> Step(p[2], row[p[1]])]
              Solves(f) == f = [s \in SUBSET DOMAIN row |->
                                  IF s = {} THEN base ELSE Step(f[s \ {Max(s)}], row[Max(s)])]
              iter == CHOOSE f : Solves(f)
  <1>1. row \in Seq(Entries)
    OBVIOUS
  <1>2. RingUsed(ring) = iter[DOMAIN row]
    BY DEF RingUsed, FoldLeft, MapThenFoldSet
  <1>3. base \in V
    OBVIOUS
  <1>4. ASSUME NEW acc \in V, NEW u \in Entries PROVE Step(acc, u) \in V
    <2>1. u.item \in Items
      BY DEF Entries
    <2>2. ItemLen[u.item] \in Nat
      BY <2>1, ItemLenType
    <2>. QED BY <2>2
  <1>. HIDE DEF row, base, Step, V
  <1>5. n \in Nat /\ DOMAIN row = 1..n
    BY <1>1
  <1>. HIDE DEF n
  <1>6. ASSUME NEW k \in 1..n, NEW acc \in V
        PROVE  Step(acc, row[k]) \in V /\ G[<<k, acc>>] = Step(acc, row[k])
    <2>1. row[k] \in Entries
      BY <1>1, <1>5
    <2>2. <<k, acc>> \in (1..n) \X V
      OBVIOUS
    <2>. QED BY <1>4, <2>1, <2>2
  <1>7. G \in [(1..n) \X V -> V]
    <2>. SUFFICES ASSUME NEW p \in (1..n) \X V PROVE Step(p[2], row[p[1]]) \in V
      OBVIOUS
    <2>. QED BY <1>6
  <1>. HIDE DEF G
  <1>8. PICK f \in [SUBSET (1..n) -> V] : LeftFolds(f, n, G, base)
    BY <1>3, <1>5, <1>7, LeftFoldExists
  <1>9. \A s \in SUBSET (1..n) : f[s] = IF s = {} THEN base ELSE Step(f[s \ {Max(s)}], row[Max(s)])
    BY <1>5, <1>6, <1>8, MaxOfIndices DEF LeftFolds
  <1>10. Solves(f)
    BY <1>5, <1>8, <1>9
  <1>11. Solves(iter)
    BY <1>10
  <1>. HIDE DEF iter
  <1>12. \A s \in SUBSET (1..n) : iter[s] = IF s = {} THEN base ELSE Step(iter[s \ {Max(s)}], row[Max(s)])
    BY <1>5, <1>11, Zenon
  <1>13. FoldsOver(iter, n, V, G, base)
    <2>. SUFFICES ASSUME NEW s \in SUBSET (1..n)
                  PROVE  /\ s = {} => iter[s] = base
                         /\ s # {} /\ iter[s \ {Max(s)}] \in V => iter[s] = G[<<Max(s), iter[s \ {Max(s)}]>>]
      BY DEF FoldsOver
    <2>1. s # {} => Max(s) \in 1..n
      BY <1>5, MaxOfIndices
    <2>. QED BY <1>6, <1>12, <2>1
  <1>14. PICK h \in [0..n -> V] : Running(h, n, G, base) /\ iter[1..n] = h[n]
    <2>1. RunsTo(iter[1..n], n, V, G, base)
      BY <1>3, <1>5, <1>7, <1>13, LeftFoldSteps
    <2>. QED BY <2>1 DEF RunsTo
  <1>15. h[n] \in V
    BY <1>5
  <1>. QED BY <1>2, <1>5, <1>14, <1>15 DEF V

\* The units of records that wait.
WaitHeld(wait) == FoldLeft(LAMBDA n, r : n + ItemLen[r], 0, wait)

\* So are records that wait.
LEMMA WaitHeldType ==
  ASSUME NEW wait \in Seq(Items)
  PROVE  WaitHeld(wait) \in Nat
  <1>. DEFINE row == wait
              n == Len(row)
              V == Nat
              base == 0
              Step(acc, u) == acc + ItemLen[u]
              G == [p \in (1..n) \X V |-> Step(p[2], row[p[1]])]
              Solves(f) == f = [s \in SUBSET DOMAIN row |->
                                  IF s = {} THEN base ELSE Step(f[s \ {Max(s)}], row[Max(s)])]
              iter == CHOOSE f : Solves(f)
  <1>1. row \in Seq(Items)
    OBVIOUS
  <1>2. WaitHeld(wait) = iter[DOMAIN row]
    BY DEF WaitHeld, FoldLeft, MapThenFoldSet
  <1>3. base \in V
    OBVIOUS
  <1>4. ASSUME NEW acc \in V, NEW u \in Items PROVE Step(acc, u) \in V
    BY ItemLenType
  <1>. HIDE DEF row, base, Step, V
  <1>5. n \in Nat /\ DOMAIN row = 1..n
    BY <1>1
  <1>. HIDE DEF n
  <1>6. ASSUME NEW k \in 1..n, NEW acc \in V
        PROVE  Step(acc, row[k]) \in V /\ G[<<k, acc>>] = Step(acc, row[k])
    <2>1. row[k] \in Items
      BY <1>1, <1>5
    <2>2. <<k, acc>> \in (1..n) \X V
      OBVIOUS
    <2>. QED BY <1>4, <2>1, <2>2
  <1>7. G \in [(1..n) \X V -> V]
    <2>. SUFFICES ASSUME NEW p \in (1..n) \X V PROVE Step(p[2], row[p[1]]) \in V
      OBVIOUS
    <2>. QED BY <1>6
  <1>. HIDE DEF G
  <1>8. PICK f \in [SUBSET (1..n) -> V] : LeftFolds(f, n, G, base)
    BY <1>3, <1>5, <1>7, LeftFoldExists
  <1>9. \A s \in SUBSET (1..n) : f[s] = IF s = {} THEN base ELSE Step(f[s \ {Max(s)}], row[Max(s)])
    BY <1>5, <1>6, <1>8, MaxOfIndices DEF LeftFolds
  <1>10. Solves(f)
    BY <1>5, <1>8, <1>9
  <1>11. Solves(iter)
    BY <1>10
  <1>. HIDE DEF iter
  <1>12. \A s \in SUBSET (1..n) : iter[s] = IF s = {} THEN base ELSE Step(iter[s \ {Max(s)}], row[Max(s)])
    BY <1>5, <1>11, Zenon
  <1>13. FoldsOver(iter, n, V, G, base)
    <2>. SUFFICES ASSUME NEW s \in SUBSET (1..n)
                  PROVE  /\ s = {} => iter[s] = base
                         /\ s # {} /\ iter[s \ {Max(s)}] \in V => iter[s] = G[<<Max(s), iter[s \ {Max(s)}]>>]
      BY DEF FoldsOver
    <2>1. s # {} => Max(s) \in 1..n
      BY <1>5, MaxOfIndices
    <2>. QED BY <1>6, <1>12, <2>1
  <1>14. PICK h \in [0..n -> V] : Running(h, n, G, base) /\ iter[1..n] = h[n]
    <2>1. RunsTo(iter[1..n], n, V, G, base)
      BY <1>3, <1>5, <1>7, <1>13, LeftFoldSteps
    <2>. QED BY <2>1 DEF RunsTo
  <1>15. h[n] \in V
    BY <1>5
  <1>. QED BY <1>2, <1>5, <1>14, <1>15 DEF V

FramesOf(items) ==
  FoldLeft(LAMBDA all, f : IF f \in ShownFrames THEN Append(all, f) ELSE all, <<>>, items)

\* Frames are items.
LEMMA FramesOfType ==
  ASSUME NEW items \in Seq(Items)
  PROVE  FramesOf(items) \in Seq(Items)
  <1>. DEFINE row == items
              n == Len(row)
              V == Seq(Items)
              base == <<>>
              Step(acc, u) == IF u \in ShownFrames THEN Append(acc, u) ELSE acc
              G == [p \in (1..n) \X V |-> Step(p[2], row[p[1]])]
              Solves(f) == f = [s \in SUBSET DOMAIN row |->
                                  IF s = {} THEN base ELSE Step(f[s \ {Max(s)}], row[Max(s)])]
              iter == CHOOSE f : Solves(f)
  <1>1. row \in Seq(Items)
    OBVIOUS
  <1>2. FramesOf(items) = iter[DOMAIN row]
    BY DEF FramesOf, FoldLeft, MapThenFoldSet
  <1>3. base \in V
    OBVIOUS
  <1>4. ASSUME NEW acc \in V, NEW u \in Items PROVE Step(acc, u) \in V
    OBVIOUS
  <1>. HIDE DEF row, base, Step, V
  <1>5. n \in Nat /\ DOMAIN row = 1..n
    BY <1>1
  <1>. HIDE DEF n
  <1>6. ASSUME NEW k \in 1..n, NEW acc \in V
        PROVE  Step(acc, row[k]) \in V /\ G[<<k, acc>>] = Step(acc, row[k])
    <2>1. row[k] \in Items
      BY <1>1, <1>5
    <2>2. <<k, acc>> \in (1..n) \X V
      OBVIOUS
    <2>. QED BY <1>4, <2>1, <2>2
  <1>7. G \in [(1..n) \X V -> V]
    <2>. SUFFICES ASSUME NEW p \in (1..n) \X V PROVE Step(p[2], row[p[1]]) \in V
      OBVIOUS
    <2>. QED BY <1>6
  <1>. HIDE DEF G
  <1>8. PICK f \in [SUBSET (1..n) -> V] : LeftFolds(f, n, G, base)
    BY <1>3, <1>5, <1>7, LeftFoldExists
  <1>9. \A s \in SUBSET (1..n) : f[s] = IF s = {} THEN base ELSE Step(f[s \ {Max(s)}], row[Max(s)])
    BY <1>5, <1>6, <1>8, MaxOfIndices DEF LeftFolds
  <1>10. Solves(f)
    BY <1>5, <1>8, <1>9
  <1>11. Solves(iter)
    BY <1>10
  <1>. HIDE DEF iter
  <1>12. \A s \in SUBSET (1..n) : iter[s] = IF s = {} THEN base ELSE Step(iter[s \ {Max(s)}], row[Max(s)])
    BY <1>5, <1>11, Zenon
  <1>13. FoldsOver(iter, n, V, G, base)
    <2>. SUFFICES ASSUME NEW s \in SUBSET (1..n)
                  PROVE  /\ s = {} => iter[s] = base
                         /\ s # {} /\ iter[s \ {Max(s)}] \in V => iter[s] = G[<<Max(s), iter[s \ {Max(s)}]>>]
      BY DEF FoldsOver
    <2>1. s # {} => Max(s) \in 1..n
      BY <1>5, MaxOfIndices
    <2>. QED BY <1>6, <1>12, <2>1
  <1>14. PICK h \in [0..n -> V] : Running(h, n, G, base) /\ iter[1..n] = h[n]
    <2>1. RunsTo(iter[1..n], n, V, G, base)
      BY <1>3, <1>5, <1>7, <1>13, LeftFoldSteps
    <2>. QED BY <2>1 DEF RunsTo
  <1>15. h[n] \in V
    BY <1>5
  <1>. QED BY <1>2, <1>5, <1>14, <1>15 DEF V

\* Nothing takes no room.
LEMMA EmptyUsed == RingUsed(<<>>) = 0 /\ WaitHeld(<<>>) = 0
  <1>. DEFINE Solves(f) == f = [s \in SUBSET {} |-> IF s = {} THEN 0 ELSE f[s \ {Max(s)}] + ItemLen[<<>>[Max(s)].item]]
              Waits(f) == f = [s \in SUBSET {} |-> IF s = {} THEN 0 ELSE f[s \ {Max(s)}] + ItemLen[<<>>[Max(s)]]]
              g == [s \in SUBSET {} |-> 0]
              a == CHOOSE f : Solves(f)
              b == CHOOSE f : Waits(f)
  <1>1. DOMAIN <<>> = {}
    OBVIOUS
  <1>2. RingUsed(<<>>) = a[{}] /\ WaitHeld(<<>>) = b[{}]
    BY <1>1 DEF RingUsed, WaitHeld, FoldLeft, MapThenFoldSet
  <1>3. SUBSET {} = {{}}
    OBVIOUS
  <1>4. Solves(g) /\ Waits(g)
    BY <1>3
  <1>. HIDE DEF g
  <1>5. Solves(a) /\ Waits(b)
    BY <1>4
  <1>. HIDE DEF a, b
  <1>6. a[{}] = 0 /\ b[{}] = 0
    BY <1>3, <1>5, Zenon
  <1>. QED BY <1>2, <1>6

\* Pushing drops the oldest entries and keeps the rest.
LEMMA RingPushedType ==
  ASSUME NEW ring \in Seq(Entries), NEW e \in Entries
  PROVE  RingPushed(ring, e) \in Seq(Entries)
  <1>. DEFINE all == Append(ring, e)
              m == Len(all)
              fits == {n \in 0..m : RingUsed(SubSeq(all, n + 1, m)) <= RingCap}
              k == Min(fits)
  <1>1. all \in Seq(Entries) /\ m \in Nat
    OBVIOUS
  <1>2. RingPushed(ring, e) = SubSeq(all, k + 1, m)
    BY DEF RingPushed
  <1>. HIDE DEF all, m
  <1>3. m \in fits
    <2>1. SubSeq(all, m + 1, m) = <<>>
      BY <1>1
    <2>2. RingUsed(<<>>) = 0
      BY EmptyUsed
    <2>3. RingCap \in Nat
      BY TlsStreamAssumption
    <2>4. RingUsed(SubSeq(all, m + 1, m)) <= RingCap
      <3>. DEFINE x == RingUsed(SubSeq(all, m + 1, m))
      <3>1. x = 0
        BY <2>1, <2>2, Zenon
      <3>. HIDE DEF x
      <3>2. x <= RingCap
        BY <2>3, <3>1
      <3>. QED BY <3>2 DEF x
    <2>5. m \in 0..m
      BY <1>1
    <2>. QED BY <2>4, <2>5
  <1>4. fits \in SUBSET Nat
    BY <1>1
  <1>5. k \in fits
    BY <1>3, <1>4, MinExists
  <1>6. k \in 0..m
    BY <1>5
  <1>. HIDE DEF k
  <1>7. k + 1 \in Nat /\ k + 1 >= 1
    BY <1>1, <1>6
  <1>8. SubSeq(all, k + 1, m) \in Seq(Entries)
    BY <1>1, <1>6, <1>7 DEF m
  <1>. QED BY <1>2, <1>8

PushedAll(ring, frames, out) ==
  FoldLeft(LAMBDA r, f : RingPushed(r, [out |-> out, item |-> f]), ring, frames)

\* The ring stays one while frames are pushed.
LEMMA PushedAllType ==
  ASSUME NEW ring \in Seq(Entries), NEW frames \in Seq(Items), NEW out \in BOOLEAN
  PROVE  PushedAll(ring, frames, out) \in Seq(Entries)
  <1>. DEFINE row == frames
              n == Len(row)
              V == Seq(Entries)
              base == ring
              Step(acc, u) == RingPushed(acc, [out |-> out, item |-> u])
              G == [p \in (1..n) \X V |-> Step(p[2], row[p[1]])]
              Solves(f) == f = [s \in SUBSET DOMAIN row |->
                                  IF s = {} THEN base ELSE Step(f[s \ {Max(s)}], row[Max(s)])]
              iter == CHOOSE f : Solves(f)
  <1>1. row \in Seq(Items)
    OBVIOUS
  <1>2. PushedAll(ring, frames, out) = iter[DOMAIN row]
    BY DEF PushedAll, FoldLeft, MapThenFoldSet
  <1>3. base \in V
    OBVIOUS
  <1>4. ASSUME NEW acc \in V, NEW u \in Items PROVE Step(acc, u) \in V
    <2>1. [out |-> out, item |-> u] \in Entries
      BY DEF Entries
    <2>. QED BY <2>1, RingPushedType
  <1>. HIDE DEF row, base, Step, V
  <1>5. n \in Nat /\ DOMAIN row = 1..n
    BY <1>1
  <1>. HIDE DEF n
  <1>6. ASSUME NEW k \in 1..n, NEW acc \in V
        PROVE  Step(acc, row[k]) \in V /\ G[<<k, acc>>] = Step(acc, row[k])
    <2>1. row[k] \in Items
      BY <1>1, <1>5
    <2>2. <<k, acc>> \in (1..n) \X V
      OBVIOUS
    <2>. QED BY <1>4, <2>1, <2>2
  <1>7. G \in [(1..n) \X V -> V]
    <2>. SUFFICES ASSUME NEW p \in (1..n) \X V PROVE Step(p[2], row[p[1]]) \in V
      OBVIOUS
    <2>. QED BY <1>6
  <1>. HIDE DEF G
  <1>8. PICK f \in [SUBSET (1..n) -> V] : LeftFolds(f, n, G, base)
    BY <1>3, <1>5, <1>7, LeftFoldExists
  <1>9. \A s \in SUBSET (1..n) : f[s] = IF s = {} THEN base ELSE Step(f[s \ {Max(s)}], row[Max(s)])
    BY <1>5, <1>6, <1>8, MaxOfIndices DEF LeftFolds
  <1>10. Solves(f)
    BY <1>5, <1>8, <1>9
  <1>11. Solves(iter)
    BY <1>10
  <1>. HIDE DEF iter
  <1>12. \A s \in SUBSET (1..n) : iter[s] = IF s = {} THEN base ELSE Step(iter[s \ {Max(s)}], row[Max(s)])
    BY <1>5, <1>11, Zenon
  <1>13. FoldsOver(iter, n, V, G, base)
    <2>. SUFFICES ASSUME NEW s \in SUBSET (1..n)
                  PROVE  /\ s = {} => iter[s] = base
                         /\ s # {} /\ iter[s \ {Max(s)}] \in V => iter[s] = G[<<Max(s), iter[s \ {Max(s)}]>>]
      BY DEF FoldsOver
    <2>1. s # {} => Max(s) \in 1..n
      BY <1>5, MaxOfIndices
    <2>. QED BY <1>6, <1>12, <2>1
  <1>14. PICK h \in [0..n -> V] : Running(h, n, G, base) /\ iter[1..n] = h[n]
    <2>1. RunsTo(iter[1..n], n, V, G, base)
      BY <1>3, <1>5, <1>7, <1>13, LeftFoldSteps
    <2>. QED BY <2>1 DEF RunsTo
  <1>15. h[n] \in V
    BY <1>5
  <1>. QED BY <1>2, <1>5, <1>14, <1>15 DEF V

HandshakeResults == [ok : BOOLEAN, parser : Seq(ItemUnits), messages : Seq(Items)]

\* The handshake parser returns messages and a buffer of units.
LEMMA HandshakeFedType ==
  ASSUME NEW parser \in Seq(ItemUnits), NEW units \in Seq(ItemUnits)
  PROVE  HandshakeFed(parser, units) \in HandshakeResults
  <1>. DEFINE buf == parser \o units
              whole == WholeItems(buf)
              bad == \/ Len(parser) + Len(units) > MaxHandshake
                     \/ TooLong(whole, MaxHandshake)
                     \/ \E i \in 1..Len(whole.items) : whole.items[i] \in BadItems
              no == [ok |-> FALSE, parser |-> <<>>, messages |-> <<>>]
              yes == [ok |-> TRUE, parser |-> whole.rest, messages |-> whole.items]
  <1>1. HandshakeFed(parser, units) = IF bad THEN no ELSE yes
    BY DEF HandshakeFed
  <1>2. buf \in Seq(ItemUnits)
    BY ConcatProperties
  <1>. HIDE DEF buf, bad
  <1>3. IsBuffer(buf, Items)
    BY <1>2 DEF IsBuffer, ItemUnits, Items
  <1>4. whole \in Cuts(Items)
    BY <1>3, WholeItemsType
  <1>. HIDE DEF whole
  <1>5. whole.items \in Seq(Items) /\ whole.rest \in Seq(ItemUnits)
    BY <1>4 DEF Cuts, ItemUnits
  <1>6. no \in HandshakeResults
    BY DEF HandshakeResults
  <1>7. yes \in HandshakeResults
    BY <1>5 DEF HandshakeResults
  <1>. QED BY <1>1, <1>6, <1>7

Http2States == [buf : Seq(ItemUnits), next : Nat \cup {Hole}, desynced : BOOLEAN]
Http2Results == [http2 : Http2States, frames : Seq(Items)]

\* The HTTP/2 reader returns frames and a state of its own kind.
LEMMA Http2FedType ==
  ASSUME NEW h \in Http2States, NEW seq \in Nat, NEW units \in Seq(ItemUnits)
  PROVE  Http2Fed(h, seq, units) \in Http2Results
  <1>. DEFINE buf == h.buf \o units
              whole == WholeItems(buf)
              items == whole.items
              m == Len(items)
              Stops(i) == items[i] \in BadItems \/ ItemLen[items[i]] > MaxFrame
              stops == {i - 1 : i \in {j \in 1..m : Stops(j)}}
              ends == {m} \cup stops
              read == Min(ends)
              frames == FramesOf(SubSeq(items, 1, read))
              next == seq + Len(units)
              gone == h.desynced \/ (h.next # Hole /\ seq # h.next)
              cut == read < m \/ TooLong(whole, MaxFrame)
              h1 == [h EXCEPT !.buf = <<>>, !.desynced = TRUE]
              h2 == [h EXCEPT !.next = next]
              h3 == [h2 EXCEPT !.buf = <<>>, !.desynced = TRUE]
              h4 == [buf |-> whole.rest, next |-> next, desynced |-> FALSE]
  <1>1. Http2Fed(h, seq, units) = IF gone THEN [http2 |-> h1, frames |-> <<>>]
                                  ELSE IF cut THEN [http2 |-> h3, frames |-> frames]
                                  ELSE [http2 |-> h4, frames |-> frames]
    BY DEF Http2Fed, Desynced, FramesOf
  <1>2. h.buf \in Seq(ItemUnits) /\ Len(units) \in Nat
    BY DEF Http2States
  <1>3. buf \in Seq(ItemUnits)
    BY <1>2, ConcatProperties
  <1>. HIDE DEF buf, gone, cut
  <1>4. IsBuffer(buf, Items)
    BY <1>3 DEF IsBuffer, ItemUnits, Items
  <1>5. whole \in Cuts(Items)
    BY <1>4, WholeItemsType
  <1>. HIDE DEF whole
  <1>6. items \in Seq(Items) /\ whole.rest \in Seq(ItemUnits)
    BY <1>5 DEF Cuts, ItemUnits
  <1>. HIDE DEF items
  <1>7. m \in Nat
    BY <1>6
  <1>. HIDE DEF m
  <1>8. ends \in SUBSET (0..m) /\ m \in ends
    BY <1>7
  <1>. HIDE DEF ends
  <1>9. read \in ends
    <2>1. ends \in SUBSET Nat /\ ends # {}
      BY <1>8
    <2>. QED BY <2>1, MinExists
  <1>10. read \in 0..m
    BY <1>8, <1>9
  <1>. HIDE DEF read
  <1>11. SubSeq(items, 1, read) \in Seq(Items)
    <2>1. read \in Nat /\ read <= Len(items)
      BY <1>7, <1>10 DEF m
    <2>. QED BY <1>6, <2>1
  <1>12. frames \in Seq(Items)
    BY <1>11, FramesOfType
  <1>13. next \in Nat
    BY <1>2
  <1>. HIDE DEF frames, next
  <1>19. <<>> \in Seq(ItemUnits)
    OBVIOUS
  <1>14. h1 \in Http2States /\ h2 \in Http2States
    <2>1. h1 \in Http2States
      BY <1>19 DEF Http2States
    <2>2. h2 \in Http2States
      BY <1>13 DEF Http2States
    <2>. QED BY <2>1, <2>2
  <1>15. h3 \in Http2States
    <2>. HIDE DEF h2
    <2>. QED BY <1>14, <1>19 DEF Http2States
  <1>16. h4 \in Http2States
    BY <1>6, <1>13 DEF Http2States
  <1>. HIDE DEF h1, h2, h3, h4
  <1>17. ASSUME NEW x \in Http2States, NEW y \in Seq(Items) PROVE [http2 |-> x, frames |-> y] \in Http2Results
    BY DEF Http2Results
  <1>18. <<>> \in Seq(Items)
    OBVIOUS
  <1>. QED BY <1>1, <1>12, <1>14, <1>15, <1>16, <1>17, <1>18

\* What a direction sends, in units.
LEMMA UnitsType ==
  ASSUME NEW r \in Recs
  PROVE  Units(r) \in Seq(RecordUnits)
  <1>1. ItemLen[r] \in Nat
    BY RecsAreItems, TlsStreamAssumption
  <1>2. Units(r) \in [1..ItemLen[r] -> RecordUnits]
    BY <1>1 DEF Units, RecordUnits
  <1>. HIDE DEF Units
  <1>. QED BY <1>1, <1>2

\* So is all it sends.
LEMMA AllUnitsType ==
  ASSUME NEW items \in Seq(Recs)
  PROVE  AllUnits(items) \in Seq(RecordUnits)
  <1>. DEFINE row == items
              n == Len(row)
              V == Seq(RecordUnits)
              base == <<>>
              Step(acc, u) == acc \o Units(u)
              G == [p \in (1..n) \X V |-> Step(p[2], row[p[1]])]
              Solves(f) == f = [s \in SUBSET DOMAIN row |->
                                  IF s = {} THEN base ELSE Step(f[s \ {Max(s)}], row[Max(s)])]
              iter == CHOOSE f : Solves(f)
  <1>1. row \in Seq(Recs)
    OBVIOUS
  <1>2. AllUnits(items) = iter[DOMAIN row]
    BY DEF AllUnits, FoldLeft, MapThenFoldSet
  <1>3. base \in V
    OBVIOUS
  <1>4. ASSUME NEW acc \in V, NEW u \in Recs PROVE Step(acc, u) \in V
    <2>1. Units(u) \in Seq(RecordUnits)
      BY UnitsType
    <2>. QED BY <2>1, ConcatProperties
  <1>. HIDE DEF row, base, Step, V
  <1>5. n \in Nat /\ DOMAIN row = 1..n
    BY <1>1
  <1>. HIDE DEF n
  <1>6. ASSUME NEW k \in 1..n, NEW acc \in V
        PROVE  Step(acc, row[k]) \in V /\ G[<<k, acc>>] = Step(acc, row[k])
    <2>1. row[k] \in Recs
      BY <1>1, <1>5
    <2>2. <<k, acc>> \in (1..n) \X V
      OBVIOUS
    <2>. QED BY <1>4, <2>1, <2>2
  <1>7. G \in [(1..n) \X V -> V]
    <2>. SUFFICES ASSUME NEW p \in (1..n) \X V PROVE Step(p[2], row[p[1]]) \in V
      OBVIOUS
    <2>. QED BY <1>6
  <1>. HIDE DEF G
  <1>8. PICK f \in [SUBSET (1..n) -> V] : LeftFolds(f, n, G, base)
    BY <1>3, <1>5, <1>7, LeftFoldExists
  <1>9. \A s \in SUBSET (1..n) : f[s] = IF s = {} THEN base ELSE Step(f[s \ {Max(s)}], row[Max(s)])
    BY <1>5, <1>6, <1>8, MaxOfIndices DEF LeftFolds
  <1>10. Solves(f)
    BY <1>5, <1>8, <1>9
  <1>11. Solves(iter)
    BY <1>10
  <1>. HIDE DEF iter
  <1>12. \A s \in SUBSET (1..n) : iter[s] = IF s = {} THEN base ELSE Step(iter[s \ {Max(s)}], row[Max(s)])
    BY <1>5, <1>11, Zenon
  <1>13. FoldsOver(iter, n, V, G, base)
    <2>. SUFFICES ASSUME NEW s \in SUBSET (1..n)
                  PROVE  /\ s = {} => iter[s] = base
                         /\ s # {} /\ iter[s \ {Max(s)}] \in V => iter[s] = G[<<Max(s), iter[s \ {Max(s)}]>>]
      BY DEF FoldsOver
    <2>1. s # {} => Max(s) \in 1..n
      BY <1>5, MaxOfIndices
    <2>. QED BY <1>6, <1>12, <2>1
  <1>14. PICK h \in [0..n -> V] : Running(h, n, G, base) /\ iter[1..n] = h[n]
    <2>1. RunsTo(iter[1..n], n, V, G, base)
      BY <1>3, <1>5, <1>7, <1>13, LeftFoldSteps
    <2>. QED BY <2>1 DEF RunsTo
  <1>15. h[n] \in V
    BY <1>5
  <1>. QED BY <1>2, <1>5, <1>14, <1>15 DEF V

Labels == {"clientHandshake", "client", "serverHandshake", "server"}
-----------------------------------------------------------------------------
(* A direction: it holds nothing without a stream *)

SecretSet == [random : {Random[id] : id \in Conns} \cup {Hole}, label : Labels, gen : Nat]
SecretOrNone == SecretSet \cup {Hole}
StreamOrNone == TlsStreams(Recs) \cup {Hole}
SuiteSet == {Suites[m] : m \in DOMAIN Suites} \cup {Hole}
TimeOrNone == Nat \cup {Hole}
ReasonOrNone == Reasons \cup {Hole}
UnitBuffers == Seq(ItemUnits)
RecordRows == Seq(Recs)

Directions ==
  [stream : StreamOrNone, hsSecret : SecretOrNone, hsSeq : Nat, parser : UnitBuffers, started : BOOLEAN,
   complete : BOOLEAN, suite : SuiteSet, early : BOOLEAN, earlyRecords : Nat, earlyBytes : Nat,
   appSecret : SecretOrNone, appSeq : Nat, plain : Nat, http2 : Http2States, wait : RecordRows,
   waitBytes : Nat, waitSince : TimeOrNone, gapSince : TimeOrNone, last : Nat, terminal : ReasonOrNone,
   reported : BOOLEAN, closed : BOOLEAN]

\* Nothing is buffered.
Vacant(d) == d.parser = <<>> /\ d.http2.buf = <<>> /\ d.wait = <<>>

HasKey(d) == d.hsSecret # Hole \/ d.appSecret # Hole

\* A direction without a stream holds nothing.
DirSound(d) == d \in Directions /\ (d.stream = Hole => Vacant(d))

SameHeld(e, d) ==
  /\ e.stream = d.stream /\ e.parser = d.parser /\ e.http2 = d.http2 /\ e.wait = d.wait
  /\ e.hsSecret = d.hsSecret /\ e.appSecret = d.appSecret

\* Hole is no value, and belongs to each kind that may be missing.
LEMMA NoHole ==
  /\ Hole \notin BOOLEAN /\ Hole \notin Reasons /\ Hole \notin TlsStreams(Recs)
  /\ Hole \in StreamOrNone /\ Hole \in SecretOrNone /\ Hole \in TimeOrNone /\ Hole \in ReasonOrNone /\ Hole \in SuiteSet
  /\ <<>> \in UnitBuffers /\ <<>> \in RecordRows
  BY TlsAssumption DEF Recs, StreamOrNone, SecretOrNone, TimeOrNone, ReasonOrNone, SuiteSet, UnitBuffers, RecordRows

\* A new HTTP/2 reader holds nothing.
LEMMA NewHttp2Type == NewHttp2 \in Http2States /\ NewHttp2.buf = <<>>
  <1>1. <<>> \in Seq(ItemUnits)
    OBVIOUS
  <1>. QED BY <1>1 DEF NewHttp2, Http2States

\* emit_pending_decryption_status changes nothing that is held.
LEMMA ReportedSound ==
  ASSUME NEW d \in Directions, NEW named \in BOOLEAN
  PROVE  /\ Reported(d, named) \in Directions /\ SameHeld(Reported(d, named), d)
         /\ Reported(d, named).terminal = d.terminal
  <1>. DEFINE b == d.reported \/ (named /\ d.terminal # Hole)
  <1>1. b \in BOOLEAN
    BY DEF Directions
  <1>2. Reported(d, named) = [d EXCEPT !.reported = b]
    BY DEF Reported
  <1>. HIDE DEF b
  <1>. QED BY <1>1, <1>2 DEF Directions, SameHeld

\* A direction that is given up.
Fallen(t, d) ==
  /\ DirSound(t) /\ t.terminal # Hole
  /\ IF d.terminal = Hole THEN t.stream = Hole /\ Vacant(t) /\ ~HasKey(t) ELSE SameHeld(t, d)

\* terminate_decryption_direction drops the stream, the keys and all that is buffered, once.
LEMMA TerminatedSound ==
  ASSUME NEW d, DirSound(d), NEW reason \in Reasons, NEW named \in BOOLEAN
  PROVE  Fallen(Terminated(d, reason, named), d)
  <1>. DEFINE e == [d EXCEPT !.terminal = reason, !.stream = Hole, !.hsSecret = Hole, !.appSecret = Hole,
                             !.hsSeq = 0, !.appSeq = 0, !.wait = <<>>, !.waitBytes = 0, !.waitSince = Hole,
                             !.gapSince = Hole, !.parser = <<>>, !.http2 = NewHttp2]
              f == IF d.terminal # Hole THEN d ELSE e
              t == Terminated(d, reason, named)
  <1>1. t = Reported(f, named)
    BY DEF Terminated
  <1>2. d \in Directions
    BY DEF DirSound
  <1>3. reason \in ReasonOrNone /\ 0 \in Nat /\ reason # Hole
    BY NoHole DEF ReasonOrNone
  <1>4. e \in Directions
    BY <1>2, <1>3, NoHole, NewHttp2Type DEF Directions
  <1>5. /\ e.terminal = reason /\ e.stream = Hole /\ e.hsSecret = Hole /\ e.appSecret = Hole
        /\ e.wait = <<>> /\ e.parser = <<>> /\ e.http2 = NewHttp2
    BY <1>2 DEF Directions
  <1>. HIDE DEF e
  <1>6. f \in Directions /\ f.terminal # Hole
    BY <1>2, <1>3, <1>4, <1>5
  <1>. HIDE DEF f, t
  <1>7. t \in Directions /\ SameHeld(t, f) /\ t.terminal = f.terminal
    BY <1>1, <1>6, ReportedSound
  <1>8. CASE d.terminal = Hole
    <2>1. f = e
      BY <1>8 DEF f
    <2>2. t.stream = Hole /\ Vacant(t) /\ ~HasKey(t)
      BY <1>5, <1>7, <2>1, NewHttp2Type DEF SameHeld, Vacant, HasKey
    <2>. QED BY <1>6, <1>7, <1>8, <2>2 DEF Fallen, DirSound, t
  <1>9. CASE d.terminal # Hole
    <2>1. f = d
      BY <1>9 DEF f
    <2>2. t.stream = Hole => Vacant(t)
      BY <1>7, <2>1 DEF SameHeld, Vacant, DirSound
    <2>. QED BY <1>6, <1>7, <1>9, <2>1, <2>2 DEF Fallen, DirSound, t
  <1>. QED BY <1>8, <1>9

\* A direction without a stream holds no bytes.
LEMMA DirectionHeldType ==
  ASSUME NEW d, DirSound(d)
  PROVE  DirectionHeld(d) \in Nat /\ (d.stream = Hole => DirectionHeld(d) = 0)
  <1>. DEFINE a == IF d.stream = Hole THEN 0 ELSE StreamHeld(d.stream)
              b == WaitHeld(d.wait)
              c == Len(d.parser)
              e == Len(d.http2.buf)
  <1>1. DirectionHeld(d) = a + b + c + e
    BY DEF DirectionHeld, WaitHeld
  <1>2. /\ d.stream \in TlsStreams(Recs) \cup {Hole} /\ d.wait \in Seq(Recs) /\ d.parser \in Seq(ItemUnits)
        /\ d.http2 \in Http2States
    BY DEF DirSound, Directions, StreamOrNone, RecordRows, UnitBuffers
  <1>3. d.http2.buf \in Seq(ItemUnits)
    BY <1>2 DEF Http2States
  <1>4. d.wait \in Seq(Items)
    <2>1. Recs \subseteq Items
      BY RecsAreItems DEF Items
    <2>. QED BY <1>2, <2>1
  <1>5. b \in Nat
    BY <1>4, WaitHeldType
  <1>6. c \in Nat /\ e \in Nat
    BY <1>2, <1>3
  <1>7. a \in Nat
    <2>1. CASE d.stream = Hole
      BY <2>1
    <2>2. CASE d.stream # Hole
      <3>. DEFINE s == d.stream
      <3>1. s.data \in Seq(RecordUnits \cup {Hole}) /\ s.partial \in Seq(RecordUnits)
        BY <1>2, <2>2, StreamFields
      <3>. HIDE DEF s
      <3>. DEFINE x == Len(s.data)
                  y == Len(s.partial)
      <3>2. x \in Nat /\ y \in Nat
        BY <3>1
      <3>3. StreamHeld(s) = 2 * x + y
        BY DEF StreamHeld
      <3>. HIDE DEF x, y
      <3>4. StreamHeld(s) \in Nat
        BY <3>2, <3>3
      <3>. QED BY <2>2, <3>4 DEF s
    <2>. QED BY <2>1, <2>2
  <1>8. d.stream = Hole => a = 0 /\ b = 0 /\ c = 0 /\ e = 0
    <2>. SUFFICES ASSUME d.stream = Hole PROVE a = 0 /\ b = 0 /\ c = 0 /\ e = 0
      OBVIOUS
    <2>1. d.parser = <<>> /\ d.http2.buf = <<>> /\ d.wait = <<>>
      BY DEF DirSound, Vacant
    <2>. QED BY <2>1, EmptyUsed
  <1>. HIDE DEF a, b, c, e
  <1>. QED BY <1>1, <1>5, <1>6, <1>7, <1>8

\* t holds no more than d, has no stream and no key where d has none.
Lessened(t, d) ==
  /\ DirSound(t) /\ DirectionHeld(t) <= DirectionHeld(d)
  /\ (d.stream = Hole => t.stream = Hole) /\ (HasKey(t) => HasKey(d))

\* The same fields hold the same number of bytes.
LEMMA SameHeldLess ==
  ASSUME NEW d, DirSound(d), NEW t, t \in Directions, SameHeld(t, d)
  PROVE  Lessened(t, d)
  <1>1. DirSound(t)
    BY DEF SameHeld, DirSound, Vacant
  <1>2. DirectionHeld(t) = DirectionHeld(d)
    BY DEF DirectionHeld, SameHeld
  <1>3. DirectionHeld(d) \in Nat
    BY DirectionHeldType
  <1>. QED BY <1>1, <1>2, <1>3 DEF Lessened, SameHeld, HasKey

\* A direction that ended holds no more than before.
LEMMA FallenLess ==
  ASSUME NEW d, DirSound(d), NEW t, Fallen(t, d)
  PROVE  Lessened(t, d)
  <1>1. CASE d.terminal = Hole
    <2>1. DirSound(t) /\ t.stream = Hole /\ ~HasKey(t)
      BY <1>1 DEF Fallen
    <2>2. DirectionHeld(t) = 0 /\ DirectionHeld(d) \in Nat
      BY <2>1, DirectionHeldType
    <2>. QED BY <2>1, <2>2 DEF Lessened
  <1>2. CASE d.terminal # Hole
    BY <1>2, SameHeldLess DEF Fallen, DirSound
  <1>. QED BY <1>1, <1>2

\* expire_tls_direction_timers leaves a direction alone or ends it.
LEMMA TimersExpiredSound ==
  ASSUME NEW d, DirSound(d), NEW now, NEW named \in BOOLEAN
  PROVE  /\ TimersExpired(d, now, named) = d \/ Fallen(TimersExpired(d, now, named), d)
         /\ Lessened(TimersExpired(d, now, named), d)
  <1>1. "noKey" \in Reasons /\ "tcpGap" \in Reasons
    BY DEF Reasons
  <1>. DEFINE a == Terminated(d, "noKey", named)
              b == Terminated(d, "tcpGap", named)
  <1>2. Fallen(a, d) /\ Fallen(b, d)
    BY <1>1, TerminatedSound
  <1>. HIDE DEF a, b
  <1>3. TimersExpired(d, now, named) \in {d, a, b}
    <2>1. \/ TimersExpired(d, now, named) = d \/ TimersExpired(d, now, named) = a
          \/ TimersExpired(d, now, named) = b
      BY DEF TimersExpired, a, b
    <2>. QED BY <2>1
  <1>4. Lessened(a, d) /\ Lessened(b, d)
    BY <1>2, FallenLess
  <1>5. Lessened(d, d)
    BY SameHeldLess DEF SameHeld, DirSound
  <1>. QED BY <1>2, <1>3, <1>4, <1>5

EntryRows == Seq(Entries)
ItemRows == Seq(Items)
-----------------------------------------------------------------------------
(* The loop of process_tls_records *)

\* What the loop over the records carries.
Loops == [d : Directions, suite : SuiteSet, ring : EntryRows, deferred : RecordRows, decoded : ItemRows, over : BOOLEAN]

\* The loop goes on with a stream or is over with nothing held; keys are those of a
\* client that is known.
LoopSound(s, named) ==
  /\ s \in Loops /\ (HasKey(s.d) => named)
  /\ IF s.d.terminal = Hole THEN s.d.stream # Hole
     ELSE s.over /\ s.d.stream = Hole /\ Vacant(s.d) /\ ~HasKey(s.d)

\* e is d after a record that did not end it.
GoesOn(e, d, named) ==
  /\ e \in Directions /\ e.stream = d.stream /\ e.terminal = d.terminal /\ (HasKey(e) => named)

Underway(s, named) == LoopSound(s, named) /\ s.d.terminal = Hole

\* A loop that is underway has a live direction with a stream.
LEMMA StartedHeld ==
  ASSUME NEW s, NEW named, Underway(s, named)
  PROVE  /\ s \in Loops /\ s.d \in Directions /\ s.d.stream # Hole /\ s.d.terminal = Hole /\ DirSound(s.d)
         /\ GoesOn(s.d, s.d, named)
  BY DEF Underway, LoopSound, Loops, DirSound, GoesOn

\* What happens to a loop when its direction changes.
LEMMA WentOn ==
  ASSUME NEW s, NEW named, Underway(s, named), NEW e, GoesOn(e, s.d, named)
  PROVE  Underway([s EXCEPT !.d = e], named)
  <1>. DEFINE t == [s EXCEPT !.d = e]
  <1>1. s \in Loops /\ s.d.stream # Hole /\ s.d.terminal = Hole
    BY StartedHeld
  <1>2. e \in Directions /\ e.stream = s.d.stream /\ e.terminal = s.d.terminal /\ (HasKey(e) => named)
    BY DEF GoesOn
  <1>3. t \in Loops /\ t.d = e
    BY <1>1, <1>2 DEF Loops
  <1>. HIDE DEF t
  <1>. QED BY <1>1, <1>2, <1>3 DEF Underway, LoopSound, t

\* A loop that ends its direction leaves nothing held.
LEMMA EndedSound ==
  ASSUME NEW s, NEW named \in BOOLEAN, Underway(s, named), NEW reason \in Reasons
  PROVE  LoopSound(Ended(s, reason, named), named)
  <1>. DEFINE e == Terminated(s.d, reason, named)
              t == Ended(s, reason, named)
  <1>1. s \in Loops /\ DirSound(s.d) /\ s.d.terminal = Hole
    BY StartedHeld
  <1>2. Fallen(e, s.d)
    BY <1>1, TerminatedSound
  <1>3. e \in Directions /\ e.terminal # Hole /\ e.stream = Hole /\ Vacant(e) /\ ~HasKey(e)
    BY <1>1, <1>2 DEF Fallen, DirSound
  <1>4. t = [s EXCEPT !.d = e, !.over = TRUE]
    BY DEF Ended
  <1>. HIDE DEF e, t
  <1>5. t \in Loops /\ t.d = e /\ t.over = TRUE
    BY <1>1, <1>3, <1>4 DEF Loops
  <1>. QED BY <1>3, <1>5 DEF LoopSound, t

\* The suite read is one of the hellos' or none.
LEMMA SuiteInType ==
  ASSUME NEW messages \in Seq(Items)
  PROVE  SuiteIn(messages) \in SuiteSet
  <1>. DEFINE n == Len(messages)
              hellos == {i \in 1..n : messages[i] \in DOMAIN Suites}
              k == Max(hellos)
  <1>1. n \in Nat /\ hellos \in SUBSET (1..n)
    OBVIOUS
  <1>2. SuiteIn(messages) = IF hellos = {} THEN Hole ELSE Suites[messages[k]]
    BY DEF SuiteIn
  <1>3. CASE hellos = {}
    BY <1>2, <1>3, NoHole
  <1>4. CASE hellos # {}
    <2>. HIDE DEF hellos
    <2>1. k \in hellos
      BY <1>1, <1>4, MaxOfIndices
    <2>. HIDE DEF k
    <2>2. messages[k] \in DOMAIN Suites
      BY <2>1 DEF hellos
    <2>. QED BY <1>2, <1>4, <2>2 DEF SuiteSet
  <1>. QED BY <1>3, <1>4

\* The reasons the loop gives are among DecryptionReason.
LEMMA ReasonNames ==
  /\ "recordInvalid" \in Reasons /\ "noKey" \in Reasons /\ "earlyDataUnresolved" \in Reasons
  /\ "unsupportedCipher" \in Reasons /\ "handshakeNotObserved" \in Reasons /\ "captureTruncated" \in Reasons
  /\ "tcpGap" \in Reasons /\ "evictedBudget" \in Reasons
  BY DEF Reasons

\* apply_plaintext_handshake_events keeps the loop sound.
LEMMA HellosReadSound ==
  ASSUME NEW s, NEW named \in BOOLEAN, Underway(s, named), NEW fed \in HandshakeResults
  PROVE  LoopSound(HellosRead(s, fed, named), named)
  <1>. DEFINE suite == SuiteIn(fed.messages)
              b == s.d.early \/ OffersEarlyData(fed.messages)
              x == IF suite = Hole THEN s.d.suite ELSE suite
              y == IF suite = Hole THEN s.suite ELSE suite
              d == [s.d EXCEPT !.parser = fed.parser, !.early = b, !.suite = x]
              t == [s EXCEPT !.d = d]
              u == [s EXCEPT !.d = d, !.suite = y]
              z == Ended(s, "recordInvalid", named)
  <1>1. HellosRead(s, fed, named) = IF fed.ok THEN u ELSE z
    BY DEF HellosRead
  <1>2. LoopSound(z, named)
    BY EndedSound, ReasonNames
  <1>3. fed.parser \in UnitBuffers /\ fed.messages \in Seq(Items)
    BY DEF HandshakeResults, UnitBuffers
  <1>4. suite \in SuiteSet
    BY <1>3, SuiteInType
  <1>5. s \in Loops /\ s.d \in Directions
    BY StartedHeld
  <1>6. b \in BOOLEAN
    BY <1>5 DEF Directions, OffersEarlyData
  <1>. HIDE DEF suite, b, z
  <1>7. x \in SuiteSet /\ y \in SuiteSet
    BY <1>4, <1>5 DEF Directions, Loops
  <1>. HIDE DEF x, y
  <1>8. /\ d \in Directions /\ d.stream = s.d.stream /\ d.terminal = s.d.terminal /\ d.hsSecret = s.d.hsSecret
        /\ d.appSecret = s.d.appSecret
    BY <1>3, <1>5, <1>6, <1>7 DEF Directions
  <1>. HIDE DEF d
  <1>9. GoesOn(d, s.d, named)
    BY <1>8 DEF GoesOn, HasKey, Underway, LoopSound
  <1>10. Underway(t, named) /\ t \in Loops /\ t.d = d
    BY <1>5, <1>8, <1>9, WentOn DEF Loops
  <1>11. u \in Loops /\ u.d = t.d /\ u.over = t.over
    BY <1>5, <1>7, <1>8 DEF Loops
  <1>. HIDE DEF t, u
  <1>12. LoopSound(u, named)
    BY <1>10, <1>11 DEF Underway, LoopSound
  <1>. QED BY <1>1, <1>2, <1>12

\* The plaintext of a record is a row of units.
LEMMA RecordUnitsRead ==
  ASSUME NEW r \in Recs
  PROVE  Record[r].units \in Seq(ItemUnits) /\ r \in Items /\ ItemLen[r] \in Nat
  <1>1. Record[r].units \in Seq(ItemUnits)
    BY TlsAssumption DEF Recs, ItemUnits, Items
  <1>2. r \in Items
    BY RecsAreItems DEF Items
  <1>. QED BY <1>1, <1>2, ItemLenType

\* A cleartext handshake record keeps the loop sound.
LEMMA PlainHandshakeSound ==
  ASSUME NEW s, NEW named \in BOOLEAN, Underway(s, named), NEW r \in Recs
  PROVE  LoopSound(PlainHandshake(s, r, named), named)
  <1>1. s.d.parser \in Seq(ItemUnits)
    BY StartedHeld DEF Directions, UnitBuffers
  <1>2. HandshakeFed(s.d.parser, Record[r].units) \in HandshakeResults
    BY <1>1, RecordUnitsRead, HandshakeFedType
  <1>. QED BY <1>2, HellosReadSound DEF PlainHandshake

\* defer_tls_record keeps the loop sound.
LEMMA DeferredSound ==
  ASSUME NEW s, NEW named \in BOOLEAN, Underway(s, named), NEW r \in Recs, NEW now \in Nat
  PROVE  LoopSound(Deferred(s, r, now, named), named)
  <1>. DEFINE x == IF s.d.waitSince = Hole THEN now ELSE s.d.waitSince
              d == [s.d EXCEPT !.waitSince = x]
              y == d.waitBytes + ItemLen[r]
              e == [d EXCEPT !.waitBytes = y]
              q == Append(s.deferred, r)
              t == [s EXCEPT !.d = d]
              u == [s EXCEPT !.d = e]
              v == [s EXCEPT !.d = e, !.deferred = q]
              z == Ended(t, "noKey", named)
  <1>1. s \in Loops /\ s.d \in Directions
    BY StartedHeld
  <1>2. Deferred(s, r, now, named) = IF d.waitBytes + ItemLen[r] > MaxKeyWait THEN z ELSE v
    BY <1>1 DEF Deferred, Loops, Directions
  <1>3. x \in TimeOrNone
    BY <1>1 DEF TimeOrNone, Directions
  <1>4. q \in RecordRows
    BY <1>1 DEF RecordRows, Loops
  <1>. HIDE DEF x, q
  <1>5. /\ d \in Directions /\ d.stream = s.d.stream /\ d.terminal = s.d.terminal /\ d.hsSecret = s.d.hsSecret
        /\ d.appSecret = s.d.appSecret
    BY <1>1, <1>3 DEF Directions
  <1>. HIDE DEF d
  <1>6. y \in Nat
    <2>1. d.waitBytes \in Nat /\ ItemLen[r] \in Nat
      BY <1>5, RecordUnitsRead DEF Directions
    <2>. QED BY <2>1
  <1>. HIDE DEF y
  <1>7. /\ e \in Directions /\ e.stream = d.stream /\ e.terminal = d.terminal /\ e.hsSecret = d.hsSecret
        /\ e.appSecret = d.appSecret
    BY <1>5, <1>6 DEF Directions
  <1>. HIDE DEF e
  <1>8. GoesOn(d, s.d, named) /\ GoesOn(e, s.d, named)
    BY <1>5, <1>7 DEF GoesOn, HasKey, Underway, LoopSound
  <1>9. Underway(t, named) /\ Underway(u, named)
    BY <1>8, WentOn
  <1>10. v \in Loops /\ v.d = e /\ u.d = e
    BY <1>1, <1>4, <1>7 DEF Loops
  <1>11. LoopSound(z, named)
    BY <1>9, EndedSound, ReasonNames
  <1>. HIDE DEF t, u, v, z
  <1>12. LoopSound(v, named)
    BY <1>9, <1>10 DEF Underway, LoopSound
  <1>. QED BY <1>2, <1>11, <1>12

\* Counting a record that opened keeps the direction sound, and its keys.
LEMMA AdvancedSound ==
  ASSUME NEW d, NEW named, d \in Directions, HasKey(d) => named
  PROVE  GoesOn(Advanced(d), d, named) /\ Advanced(d).complete = d.complete
  <1>. DEFINE e == [d EXCEPT !.waitSince = Hole]
              a == e.appSeq + 1
              h == e.hsSeq + 1
              f == [e EXCEPT !.appSeq = a]
              g == [e EXCEPT !.hsSeq = h]
  <1>1. Advanced(d) = IF d.complete THEN f ELSE g
    BY DEF Advanced
  <1>2. /\ e \in Directions /\ e.stream = d.stream /\ e.terminal = d.terminal /\ e.hsSecret = d.hsSecret
        /\ e.appSecret = d.appSecret /\ e.complete = d.complete
    BY NoHole DEF Directions
  <1>. HIDE DEF e
  <1>3. a \in Nat /\ h \in Nat
    <2>1. e.appSeq \in Nat /\ e.hsSeq \in Nat
      BY <1>2 DEF Directions
    <2>. QED BY <2>1
  <1>. HIDE DEF a, h
  <1>4. /\ f \in Directions /\ f.stream = e.stream /\ f.terminal = e.terminal /\ f.hsSecret = e.hsSecret
        /\ f.appSecret = e.appSecret /\ f.complete = e.complete
    BY <1>2, <1>3 DEF Directions
  <1>5. /\ g \in Directions /\ g.stream = e.stream /\ g.terminal = e.terminal /\ g.hsSecret = e.hsSecret
        /\ g.appSecret = e.appSecret /\ g.complete = e.complete
    BY <1>2, <1>3 DEF Directions
  <1>. HIDE DEF f, g
  <1>. QED BY <1>1, <1>2, <1>4, <1>5 DEF GoesOn, HasKey

\* Finished and KeyUpdate take keys away or renew them.
LEMMA MessageReadSound ==
  ASSUME NEW d, NEW named, GoesOn(d, d, named), NEW msg, NEW handshake
  PROVE  GoesOn(MessageRead(d, msg, handshake), d, named)
  <1>. DEFINE e == [d EXCEPT !.complete = TRUE, !.hsSecret = Hole, !.hsSeq = 0]
              n == d.appSecret.gen + 1
              a == [d.appSecret EXCEPT !.gen = n]
              f == [d EXCEPT !.appSecret = a, !.appSeq = 0]
  <1>1. d \in Directions /\ (HasKey(d) => named)
    BY DEF GoesOn
  <1>2. /\ e \in Directions /\ e.stream = d.stream /\ e.terminal = d.terminal /\ e.hsSecret = Hole
        /\ e.appSecret = d.appSecret
    BY <1>1, NoHole DEF Directions
  <1>3. GoesOn(e, d, named)
    BY <1>1, <1>2 DEF GoesOn, HasKey
  <1>4. ASSUME d.appSecret # Hole PROVE GoesOn(f, d, named)
    <2>1. d.appSecret \in SecretSet
      BY <1>1, <1>4 DEF Directions, SecretOrNone
    <2>2. n \in Nat
      BY <2>1 DEF SecretSet
    <2>. HIDE DEF n
    <2>3. a \in SecretSet
      BY <2>1, <2>2 DEF SecretSet
    <2>. HIDE DEF a
    <2>4. a \in SecretOrNone
      BY <2>3 DEF SecretOrNone
    <2>5. f \in Directions /\ f.stream = d.stream /\ f.terminal = d.terminal
      BY <1>1, <2>4 DEF Directions
    <2>. QED BY <1>1, <1>4, <2>5 DEF GoesOn, HasKey
  <1>5. \/ MessageRead(d, msg, handshake) = e
        \/ MessageRead(d, msg, handshake) = f /\ d.appSecret # Hole
        \/ MessageRead(d, msg, handshake) = d
    BY DEF MessageRead
  <1>. QED BY <1>3, <1>4, <1>5

\* The messages of a record, one after the other.
MessagesRead(d, messages, handshake) ==
  FoldLeft(LAMBDA e, msg : MessageRead(e, msg, handshake), d, messages)

\* Directions to which messages may take d.
Onward(d, named) == {e \in Directions : GoesOn(e, d, named)}

\* Messages change the epoch and the secrets.
LEMMA MessagesReadSound ==
  ASSUME NEW d, NEW named, GoesOn(d, d, named), NEW messages \in Seq(Items), NEW handshake
  PROVE  MessagesRead(d, messages, handshake) \in Onward(d, named)
  <1>. DEFINE row == messages
              n == Len(row)
              V == Onward(d, named)
              base == d
              Step(acc, u) == MessageRead(acc, u, handshake)
              G == [p \in (1..n) \X V |-> Step(p[2], row[p[1]])]
              Solves(f) == f = [s \in SUBSET DOMAIN row |->
                                  IF s = {} THEN base ELSE Step(f[s \ {Max(s)}], row[Max(s)])]
              iter == CHOOSE f : Solves(f)
  <1>1. row \in Seq(Items)
    OBVIOUS
  <1>2. MessagesRead(d, messages, handshake) = iter[DOMAIN row]
    BY DEF MessagesRead, FoldLeft, MapThenFoldSet
  <1>3. base \in V
    BY DEF Onward, GoesOn
  <1>4. ASSUME NEW acc \in V, NEW u \in Items PROVE Step(acc, u) \in V
    <2>1. GoesOn(acc, d, named)
      BY DEF Onward
    <2>2. GoesOn(acc, acc, named)
      BY <2>1 DEF GoesOn
    <2>3. GoesOn(MessageRead(acc, u, handshake), acc, named)
      BY <2>2, MessageReadSound
    <2>. QED BY <2>1, <2>3 DEF GoesOn, Onward
  <1>. HIDE DEF row, base, Step, V
  <1>5. n \in Nat /\ DOMAIN row = 1..n
    BY <1>1
  <1>. HIDE DEF n
  <1>6. ASSUME NEW k \in 1..n, NEW acc \in V
        PROVE  Step(acc, row[k]) \in V /\ G[<<k, acc>>] = Step(acc, row[k])
    <2>1. row[k] \in Items
      BY <1>1, <1>5
    <2>2. <<k, acc>> \in (1..n) \X V
      OBVIOUS
    <2>. QED BY <1>4, <2>1, <2>2
  <1>7. G \in [(1..n) \X V -> V]
    <2>. SUFFICES ASSUME NEW p \in (1..n) \X V PROVE Step(p[2], row[p[1]]) \in V
      OBVIOUS
    <2>. QED BY <1>6
  <1>. HIDE DEF G
  <1>8. PICK f \in [SUBSET (1..n) -> V] : LeftFolds(f, n, G, base)
    BY <1>3, <1>5, <1>7, LeftFoldExists
  <1>9. \A s \in SUBSET (1..n) : f[s] = IF s = {} THEN base ELSE Step(f[s \ {Max(s)}], row[Max(s)])
    BY <1>5, <1>6, <1>8, MaxOfIndices DEF LeftFolds
  <1>10. Solves(f)
    BY <1>5, <1>8, <1>9
  <1>11. Solves(iter)
    BY <1>10
  <1>. HIDE DEF iter
  <1>12. \A s \in SUBSET (1..n) : iter[s] = IF s = {} THEN base ELSE Step(iter[s \ {Max(s)}], row[Max(s)])
    BY <1>5, <1>11, Zenon
  <1>13. FoldsOver(iter, n, V, G, base)
    <2>. SUFFICES ASSUME NEW s \in SUBSET (1..n)
                  PROVE  /\ s = {} => iter[s] = base
                         /\ s # {} /\ iter[s \ {Max(s)}] \in V => iter[s] = G[<<Max(s), iter[s \ {Max(s)}]>>]
      BY DEF FoldsOver
    <2>1. s # {} => Max(s) \in 1..n
      BY <1>5, MaxOfIndices
    <2>. QED BY <1>6, <1>12, <2>1
  <1>14. PICK h \in [0..n -> V] : Running(h, n, G, base) /\ iter[1..n] = h[n]
    <2>1. RunsTo(iter[1..n], n, V, G, base)
      BY <1>3, <1>5, <1>7, <1>13, LeftFoldSteps
    <2>. QED BY <2>1 DEF RunsTo
  <1>15. h[n] \in V
    BY <1>5
  <1>. QED BY <1>2, <1>5, <1>14, <1>15 DEF V

\* The loop goes on after a record that opened.
LEMMA AdvancedGoesOn ==
  ASSUME NEW s, NEW named, Underway(s, named)
  PROVE  GoesOn(Advanced(s.d), s.d, named)
  BY StartedHeld, AdvancedSound DEF GoesOn

\* An encrypted handshake record keeps the loop sound.
LEMMA SealedHandshakeSound ==
  ASSUME NEW s, NEW named \in BOOLEAN, Underway(s, named), NEW r \in Recs
  PROVE  LoopSound(SealedHandshake(s, r, named), named)
  <1>. DEFINE handshake == ~s.d.complete
              a == Advanced(s.d)
              b == a.started \/ handshake
              d == [a EXCEPT !.started = b]
              fed == HandshakeFed(d.parser, Record[r].units)
              e == [d EXCEPT !.parser = fed.parser]
              f == MessagesRead(e, fed.messages, handshake)
              t == [s EXCEPT !.d = d]
              u == [s EXCEPT !.d = f]
              z == Ended(t, "recordInvalid", named)
  <1>1. SealedHandshake(s, r, named) = IF fed.ok THEN u ELSE z
    BY DEF SealedHandshake, MessagesRead
  <1>2. GoesOn(a, s.d, named)
    BY AdvancedGoesOn
  <1>3. b \in BOOLEAN
    BY <1>2 DEF GoesOn, Directions
  <1>. HIDE DEF a, b
  <1>4. /\ d \in Directions /\ d.stream = a.stream /\ d.terminal = a.terminal /\ d.hsSecret = a.hsSecret
        /\ d.appSecret = a.appSecret
    BY <1>2, <1>3 DEF GoesOn, Directions
  <1>5. d.parser \in Seq(ItemUnits)
    BY <1>4 DEF Directions, UnitBuffers
  <1>6. GoesOn(d, s.d, named)
    BY <1>2, <1>4 DEF GoesOn, HasKey
  <1>. HIDE DEF d
  <1>7. fed \in HandshakeResults
    BY <1>5, RecordUnitsRead, HandshakeFedType
  <1>. HIDE DEF fed
  <1>8. fed.parser \in UnitBuffers /\ fed.messages \in Seq(Items)
    BY <1>7 DEF HandshakeResults, UnitBuffers
  <1>9. /\ e \in Directions /\ e.stream = d.stream /\ e.terminal = d.terminal /\ e.hsSecret = d.hsSecret
        /\ e.appSecret = d.appSecret
    BY <1>4, <1>8 DEF Directions
  <1>. HIDE DEF e
  <1>10. GoesOn(e, s.d, named) /\ GoesOn(e, e, named)
    BY <1>6, <1>9 DEF GoesOn, HasKey
  <1>11. f \in Onward(e, named)
    BY <1>8, <1>10, MessagesReadSound
  <1>. HIDE DEF f
  <1>12. GoesOn(f, s.d, named)
    BY <1>10, <1>11 DEF GoesOn, Onward
  <1>13. Underway(t, named) /\ Underway(u, named)
    BY <1>6, <1>12, WentOn
  <1>14. LoopSound(z, named)
    BY <1>13, EndedSound, ReasonNames
  <1>. HIDE DEF t, u, z
  <1>. QED BY <1>1, <1>13, <1>14 DEF Underway

\* Showing frames keeps the loop sound.
LEMMA FramesShownSound ==
  ASSUME NEW s, Underway(s, TRUE), NEW fed \in Http2Results, NEW n \in Nat, NEW out \in BOOLEAN
  PROVE  LoopSound(FramesDecoded(s, fed, n, out, TRUE), TRUE)
  <1>. DEFINE a == Advanced(s.d)
              p == a.plain + n
              d == [a EXCEPT !.http2 = fed.http2, !.plain = p]
              x == s.decoded \o fed.frames
              y == PushedAll(s.ring, fed.frames, out)
              t == [s EXCEPT !.d = d]
              u == [s EXCEPT !.d = d, !.decoded = x, !.ring = y]
  <1>1. s \in Loops
    BY StartedHeld
  <1>2. FramesDecoded(s, fed, n, out, TRUE) = u
    BY <1>1 DEF FramesDecoded, PushedAll, Loops
  <1>3. GoesOn(a, s.d, TRUE)
    BY AdvancedGoesOn
  <1>4. p \in Nat /\ fed.http2 \in Http2States /\ fed.frames \in Seq(Items)
    BY <1>3 DEF GoesOn, Directions, Http2Results
  <1>. HIDE DEF a, p
  <1>5. d \in Directions /\ d.stream = a.stream /\ d.terminal = a.terminal
    BY <1>3, <1>4 DEF GoesOn, Directions
  <1>6. x \in ItemRows
    BY <1>1, <1>4 DEF Loops, ItemRows
  <1>7. y \in EntryRows
    BY <1>1, <1>4, PushedAllType DEF Loops, EntryRows
  <1>. HIDE DEF d, x, y
  <1>8. GoesOn(d, s.d, TRUE)
    BY <1>3, <1>5 DEF GoesOn
  <1>9. Underway(t, TRUE)
    BY <1>8, WentOn
  <1>10. u \in Loops /\ u.d = d /\ t.d = d
    BY <1>1, <1>5, <1>6, <1>7 DEF Loops
  <1>. HIDE DEF t, u
  <1>. QED BY <1>2, <1>9, <1>10 DEF Underway, LoopSound

\* feed_plaintext_to_http2 keeps the loop sound.
LEMMA AppDataSound ==
  ASSUME NEW s, Underway(s, TRUE), NEW r \in Recs, NEW out \in BOOLEAN
  PROVE  LoopSound(AppData(s, r, out, TRUE), TRUE)
  <1>. DEFINE fed == Http2Fed(s.d.http2, s.d.plain, Record[r].units)
              n == Len(Record[r].units)
  <1>1. s.d.http2 \in Http2States /\ s.d.plain \in Nat
    BY StartedHeld DEF Directions
  <1>2. fed \in Http2Results
    BY <1>1, RecordUnitsRead, Http2FedType
  <1>3. n \in Nat
    BY RecordUnitsRead
  <1>. HIDE DEF fed, n
  <1>4. LoopSound(FramesDecoded(s, fed, n, out, TRUE), TRUE)
    BY <1>2, <1>3, FramesShownSound
  <1>. QED BY <1>4 DEF AppData, fed, n

\* count_early_data_trial keeps the loop sound.
LEMMA EarlyTrialSound ==
  ASSUME NEW s, NEW named \in BOOLEAN, Underway(s, named), NEW r \in Recs
  PROVE  LoopSound(EarlyTrial(s, r, named), named)
  <1>. DEFINE x == s.d.earlyRecords + 1
              y == s.d.earlyBytes + ItemLen[r]
              d == [s.d EXCEPT !.earlyRecords = x, !.earlyBytes = y]
              t == [s EXCEPT !.d = d]
              z == Ended(t, "earlyDataUnresolved", named)
  <1>1. s.d \in Directions
    BY StartedHeld
  <1>2. EarlyTrial(s, r, named) \in {t, z}
    BY DEF EarlyTrial
  <1>3. x \in Nat /\ y \in Nat
    <2>1. s.d.earlyRecords \in Nat /\ s.d.earlyBytes \in Nat /\ ItemLen[r] \in Nat
      BY <1>1, RecordUnitsRead DEF Directions
    <2>. QED BY <2>1
  <1>. HIDE DEF x, y
  <1>4. /\ d \in Directions /\ d.stream = s.d.stream /\ d.terminal = s.d.terminal /\ d.hsSecret = s.d.hsSecret
        /\ d.appSecret = s.d.appSecret
    BY <1>1, <1>3 DEF Directions
  <1>. HIDE DEF d
  <1>5. GoesOn(d, s.d, named)
    BY <1>4 DEF GoesOn, HasKey, Underway, LoopSound
  <1>6. Underway(t, named)
    BY <1>5, WentOn
  <1>7. LoopSound(z, named)
    BY <1>6, EndedSound, ReasonNames
  <1>. HIDE DEF t, z
  <1>. QED BY <1>2, <1>6, <1>7 DEF Underway

\* A close alert leaves the stream and forgets the secrets.
AlertRead(s) ==
  [s EXCEPT !.over = TRUE,
            !.d = [@ EXCEPT !.closed = TRUE, !.appSecret = Hole, !.hsSecret = Hole, !.wait = <<>>, !.waitBytes = 0]]

\* An alert ends the loop without keys.
LEMMA AlertReadSound ==
  ASSUME NEW s, NEW named, Underway(s, named)
  PROVE  LoopSound(AlertRead(s), named)
  <1>. DEFINE d == [s.d EXCEPT !.closed = TRUE, !.appSecret = Hole, !.hsSecret = Hole, !.wait = <<>>, !.waitBytes = 0]
              t == [s EXCEPT !.d = d]
              u == AlertRead(s)
  <1>1. s \in Loops /\ s.d \in Directions
    BY StartedHeld
  <1>2. u = [s EXCEPT !.over = TRUE, !.d = d]
    BY <1>1 DEF AlertRead, Loops
  <1>3. /\ d \in Directions /\ d.stream = s.d.stream /\ d.terminal = s.d.terminal /\ d.hsSecret = Hole
        /\ d.appSecret = Hole
    BY <1>1, NoHole DEF Directions
  <1>. HIDE DEF d, u
  <1>4. GoesOn(d, s.d, named)
    BY <1>3 DEF GoesOn, HasKey
  <1>5. Underway(t, named)
    BY <1>4, WentOn
  <1>6. u \in Loops /\ u.d = d /\ t.d = d
    BY <1>1, <1>2, <1>3 DEF Loops
  <1>. HIDE DEF t
  <1>. QED BY <1>5, <1>6 DEF Underway, LoopSound, u

\* A record that opened and has no frames keeps the loop sound.
LEMMA StartedSound ==
  ASSUME NEW s, NEW named, Underway(s, named)
  PROVE  /\ LoopSound([s EXCEPT !.d = [Advanced(s.d) EXCEPT !.started = TRUE]], named)
         /\ LoopSound([s EXCEPT !.d = Advanced(s.d)], named)
  <1>. DEFINE a == Advanced(s.d)
              d == [a EXCEPT !.started = TRUE]
  <1>1. GoesOn(a, s.d, named)
    BY AdvancedGoesOn
  <1>. HIDE DEF a
  <1>2. /\ d \in Directions /\ d.stream = a.stream /\ d.terminal = a.terminal /\ d.hsSecret = a.hsSecret
        /\ d.appSecret = a.appSecret
    BY <1>1 DEF GoesOn, Directions
  <1>. HIDE DEF d
  <1>3. GoesOn(d, s.d, named)
    BY <1>1, <1>2 DEF GoesOn, HasKey
  <1>4. Underway([s EXCEPT !.d = d], named) /\ Underway([s EXCEPT !.d = a], named)
    BY <1>1, <1>3, WentOn
  <1>. QED BY <1>4 DEF Underway, a, d

\* decrypt_record, whatever is inside, keeps the loop sound.
LEMMA DecryptedSound ==
  ASSUME NEW s, NEW named \in BOOLEAN, Underway(s, named), NEW r \in Recs, NEW out \in BOOLEAN, NEW client,
         CurrentSecret(s.d) # Hole
  PROVE  LoopSound(Decrypted(s, r, out, client, named), named)
  <1>1. named = TRUE
    BY DEF CurrentSecret, Underway, LoopSound, HasKey
  <1>. DEFINE e == EarlyTrial(s, r, named)
              z == Ended(s, "recordInvalid", named)
              a == AlertRead(s)
              h == SealedHandshake(s, r, named)
              b == [s EXCEPT !.d = [Advanced(s.d) EXCEPT !.started = TRUE]]
              p == AppData(s, r, out, named)
              x == [s EXCEPT !.d = Advanced(s.d)]
              D == Decrypted(s, r, out, client, named)
  <1>2. D = e \/ D = z \/ D = a \/ D = h \/ D = b \/ D = p \/ D = x
    BY DEF Decrypted, AlertRead
  <1>3. LoopSound(e, named)
    BY EarlyTrialSound
  <1>4. LoopSound(z, named)
    BY EndedSound, ReasonNames
  <1>5. LoopSound(a, named)
    BY AlertReadSound
  <1>6. LoopSound(h, named)
    BY SealedHandshakeSound
  <1>7. LoopSound(b, named) /\ LoopSound(x, named)
    BY StartedSound
  <1>8. LoopSound(p, named)
    BY <1>1, AppDataSound
  <1>. HIDE DEF e, z, a, h, b, p, x
  <1>. QED BY <1>2, <1>3, <1>4, <1>5, <1>6, <1>7, <1>8

\* One round of process_tls_records keeps the loop sound.
LEMMA OneRecordSound ==
  ASSUME NEW s, NEW named \in BOOLEAN, LoopSound(s, named), NEW r \in Recs, NEW out \in BOOLEAN, NEW client,
         NEW now \in Nat
  PROVE  LoopSound(OneRecord(s, r, out, client, now, named), named)
  <1>. DEFINE D == OneRecord(s, r, out, client, now, named)
              h == PlainHandshake(s, r, named)
              c == Ended(s, "unsupportedCipher", named)
              w == Deferred(s, r, now, named)
              p == Decrypted(s, r, out, client, named)
              z == Ended(s, "recordInvalid", named)
  <1>1. CASE s.over
    BY <1>1 DEF OneRecord
  <1>2. CASE ~s.over
    <2>1. Underway(s, named)
      BY <1>2 DEF Underway, LoopSound
    <2>2. D = s \/ D = h \/ D = c \/ D = w \/ (D = p /\ CurrentSecret(s.d) # Hole) \/ D = z
      BY DEF OneRecord
    <2>3. LoopSound(h, named)
      BY <2>1, PlainHandshakeSound
    <2>4. LoopSound(c, named) /\ LoopSound(z, named)
      BY <2>1, EndedSound, ReasonNames
    <2>5. LoopSound(w, named)
      BY <2>1, DeferredSound
    <2>6. CurrentSecret(s.d) # Hole => LoopSound(p, named)
      BY <2>1, DecryptedSound
    <2>. HIDE DEF h, c, w, p, z
    <2>. QED BY <2>2, <2>3, <2>4, <2>5, <2>6
  <1>. QED BY <1>1, <1>2

\* The states in which the loop may be.
SoundLoops(named) == {s \in Loops : LoopSound(s, named)}

\* The loop keeps what it carries sound.
LEMMA AllRecordsSound ==
  ASSUME NEW start, NEW named \in BOOLEAN, LoopSound(start, named), NEW records \in Seq(Recs), NEW out \in BOOLEAN, NEW client,
         NEW now \in Nat
  PROVE  AllRecords(start, records, out, client, now, named) \in SoundLoops(named)
  <1>. DEFINE row == records
              n == Len(row)
              V == SoundLoops(named)
              base == start
              Step(acc, u) == OneRecord(acc, u, out, client, now, named)
              G == [p \in (1..n) \X V |-> Step(p[2], row[p[1]])]
              Solves(f) == f = [s \in SUBSET DOMAIN row |->
                                  IF s = {} THEN base ELSE Step(f[s \ {Max(s)}], row[Max(s)])]
              iter == CHOOSE f : Solves(f)
  <1>1. row \in Seq(Recs)
    OBVIOUS
  <1>2. AllRecords(start, records, out, client, now, named) = iter[DOMAIN row]
    BY DEF AllRecords, FoldLeft, MapThenFoldSet
  <1>3. base \in V
    BY DEF SoundLoops, LoopSound
  <1>4. ASSUME NEW acc \in V, NEW u \in Recs PROVE Step(acc, u) \in V
    <2>1. LoopSound(acc, named)
      BY DEF SoundLoops
    <2>2. LoopSound(OneRecord(acc, u, out, client, now, named), named)
      BY <2>1, OneRecordSound
    <2>. QED BY <2>2 DEF LoopSound, SoundLoops
  <1>. HIDE DEF row, base, Step, V
  <1>5. n \in Nat /\ DOMAIN row = 1..n
    BY <1>1
  <1>. HIDE DEF n
  <1>6. ASSUME NEW k \in 1..n, NEW acc \in V
        PROVE  Step(acc, row[k]) \in V /\ G[<<k, acc>>] = Step(acc, row[k])
    <2>1. row[k] \in Recs
      BY <1>1, <1>5
    <2>2. <<k, acc>> \in (1..n) \X V
      OBVIOUS
    <2>. QED BY <1>4, <2>1, <2>2
  <1>7. G \in [(1..n) \X V -> V]
    <2>. SUFFICES ASSUME NEW p \in (1..n) \X V PROVE Step(p[2], row[p[1]]) \in V
      OBVIOUS
    <2>. QED BY <1>6
  <1>. HIDE DEF G
  <1>8. PICK f \in [SUBSET (1..n) -> V] : LeftFolds(f, n, G, base)
    BY <1>3, <1>5, <1>7, LeftFoldExists
  <1>9. \A s \in SUBSET (1..n) : f[s] = IF s = {} THEN base ELSE Step(f[s \ {Max(s)}], row[Max(s)])
    BY <1>5, <1>6, <1>8, MaxOfIndices DEF LeftFolds
  <1>10. Solves(f)
    BY <1>5, <1>8, <1>9
  <1>11. Solves(iter)
    BY <1>10
  <1>. HIDE DEF iter
  <1>12. \A s \in SUBSET (1..n) : iter[s] = IF s = {} THEN base ELSE Step(iter[s \ {Max(s)}], row[Max(s)])
    BY <1>5, <1>11, Zenon
  <1>13. FoldsOver(iter, n, V, G, base)
    <2>. SUFFICES ASSUME NEW s \in SUBSET (1..n)
                  PROVE  /\ s = {} => iter[s] = base
                         /\ s # {} /\ iter[s \ {Max(s)}] \in V => iter[s] = G[<<Max(s), iter[s \ {Max(s)}]>>]
      BY DEF FoldsOver
    <2>1. s # {} => Max(s) \in 1..n
      BY <1>5, MaxOfIndices
    <2>. QED BY <1>6, <1>12, <2>1
  <1>14. PICK h \in [0..n -> V] : Running(h, n, G, base) /\ iter[1..n] = h[n]
    <2>1. RunsTo(iter[1..n], n, V, G, base)
      BY <1>3, <1>5, <1>7, <1>13, LeftFoldSteps
    <2>. QED BY <2>1 DEF RunsTo
  <1>15. h[n] \in V
    BY <1>5
  <1>. QED BY <1>2, <1>5, <1>14, <1>15 DEF V
-----------------------------------------------------------------------------
(* All connections: what takes and never adds *)

Randoms == {Random[id] : id \in Conns} \cup {Hole}
DirPairs == [BOOLEAN -> Directions]
SideOrNone == BOOLEAN \cup {Hole}

Connections == [pid : Pids, random : Randoms, clientOut : SideOrNone, dir : DirPairs, ring : EntryRows]

\* A connection whose directions are sound, and which has keys only when it can be named.
ConnSound(c) ==
  /\ c \in Connections /\ (c.random # Hole => Named(c))
  /\ \A o \in BOOLEAN : DirSound(c.dir[o]) /\ (HasKey(c.dir[o]) => Named(c))

ConnsSound(conns) ==
  /\ conns \in [Conns -> Connections \cup {Hole}]
  /\ \A id \in Conns : conns[id] # Hole => ConnSound(conns[id]) /\ conns[id].pid = PidOf[id]

\* A connection holds what its directions and its ring hold.
LEMMA ConnectionHeldType ==
  ASSUME NEW c, ConnSound(c)
  PROVE  /\ ConnectionHeld(c) \in Nat /\ DirectionHeld(c.dir[TRUE]) \in Nat /\ DirectionHeld(c.dir[FALSE]) \in Nat
         /\ RingUsed(c.ring) \in Nat
         /\ ConnectionHeld(c) = DirectionHeld(c.dir[TRUE]) + DirectionHeld(c.dir[FALSE]) + RingUsed(c.ring)
  <1>. DEFINE a == DirectionHeld(c.dir[TRUE])
              b == DirectionHeld(c.dir[FALSE])
              r == RingUsed(c.ring)
  <1>1. DirSound(c.dir[TRUE]) /\ DirSound(c.dir[FALSE]) /\ c.ring \in Seq(Entries)
    BY DEF ConnSound, Connections, EntryRows
  <1>2. a \in Nat /\ b \in Nat
    BY <1>1, DirectionHeldType
  <1>3. r \in Nat
    BY <1>1, RingUsedType
  <1>4. ConnectionHeld(c) = a + b + r
    BY DEF ConnectionHeld
  <1>. HIDE DEF a, b, r
  <1>5. ConnectionHeld(c) \in Nat
    BY <1>2, <1>3, <1>4
  <1>. QED BY <1>2, <1>3, <1>4, <1>5 DEF a, b, r

\* The smaller the summands the smaller the sum.
LEMMA TotalLess ==
  ASSUME NEW D, IsFiniteSet(D), NEW w, NEW v, \A x \in D : w[x] \in Nat /\ v[x] \in Nat /\ v[x] <= w[x]
  PROVE  Total(v, D) <= Total(w, D)
  <1>. DEFINE T == {s \in SUBSET D : Total(v, s) <= Total(w, s)}
  <1>1. {} \in T
    BY TotalEmpty
  <1>2. ASSUME NEW s \in T, NEW x \in D \ s PROVE s \cup {x} \in T
    <2>. DEFINE u == s \cup {x}
    <2>1. u \ {x} = s /\ x \in u /\ u \in SUBSET D /\ s \in SUBSET D
      BY <1>2
    <2>. HIDE DEF u
    <2>2. IsFiniteSet(u) /\ IsFiniteSet(s)
      BY <2>1, FS_Subset
    <2>3. Summable(v, u) /\ Summable(w, u) /\ Summable(v, s) /\ Summable(w, s)
      BY <2>1, <2>2 DEF Summable
    <2>4. Total(v, u) = v[x] + Total(v, s) /\ Total(w, u) = w[x] + Total(w, s)
      BY <2>1, <2>3, TotalWithout
    <2>5. Total(v, s) \in Int /\ Total(w, s) \in Int
      BY <2>3, TotalType
    <2>6. Total(v, u) <= Total(w, u)
      BY <1>2, <2>4, <2>5
    <2>. QED BY <2>1, <2>6 DEF u
  <1>3. T = SUBSET D
    <2>1. T \in SUBSET (SUBSET D)
      OBVIOUS
    <2>. HIDE DEF T
    <2>. QED BY <1>1, <1>2, <2>1, SetInduction
  <1>. QED BY <1>3

HeldOf(conns) == [id \in Conns |-> IF conns[id] = Hole THEN 0 ELSE ConnectionHeld(conns[id])]

\* Each connection holds a natural number of bytes.
LEMMA HeldOfType ==
  ASSUME NEW conns, ConnsSound(conns)
  PROVE  \A id \in Conns : HeldOf(conns)[id] \in Nat
  BY ConnectionHeldType DEF HeldOf, ConnsSound

\* The bytes held in all are the sum over the connections.
LEMMA TotalHeldIs ==
  ASSUME NEW conns, ConnsSound(conns)
  PROVE  TotalHeld(conns) = Total(HeldOf(conns), Conns) /\ TotalHeld(conns) \in Nat
  <1>. DEFINE keys == Known(conns)
              Step(f, s) == IF s = {} THEN 0
                            ELSE ConnectionHeld(conns[CHOOSE x \in s : TRUE]) + f[s \ {CHOOSE x \in s : TRUE}]
              Solves(f) == f = [s \in SUBSET keys |-> Step(f, s)]
              w == HeldOf(conns)
              iter == CHOOSE f : Solves(f)
  <1>1. TotalHeld(conns) = iter[keys]
    BY DEF TotalHeld, MapThenSumSet, MapThenFoldSet
  <1>2. keys \in SUBSET Conns /\ IsFiniteSet(Conns) /\ \A id \in Conns : w[id] \in Nat
    BY HeldOfType, TlsAssumption DEF Known
  <1>3. Summable(w, Conns) /\ Summable(w, keys)
    <2>1. Summable(w, Conns)
      <3>. HIDE DEF w
      <3>. QED BY <1>2 DEF Summable
    <2>. HIDE DEF w, keys
    <2>. QED BY <1>2, <2>1, SummablePart
  <1>4. ASSUME NEW f, NEW s \in SUBSET keys
        PROVE  Step(f, s) = IF s = {} THEN 0 ELSE w[AnyOf(s)] + f[s \ {AnyOf(s)}]
    <2>1. s # {} => AnyOf(s) \in keys
      BY DEF AnyOf
    <2>2. s # {} => w[AnyOf(s)] = ConnectionHeld(conns[AnyOf(s)])
      BY <2>1 DEF HeldOf, Known
    <2>. QED BY <2>2 DEF AnyOf
  <1>5. \A id \in Conns \ keys : w[id] = 0
    BY DEF HeldOf, Known
  <1>. HIDE DEF w, Step, keys
  <1>6. PICK f : SumsUp(f, w, keys)
    BY <1>3, SumExists
  <1>7. Solves(f)
    BY <1>4, <1>6 DEF SumsUp
  <1>8. Solves(iter)
    BY <1>7
  <1>. HIDE DEF iter
  <1>9. SolvesSum(iter, w, keys)
    BY <1>4, <1>8 DEF SolvesSum
  <1>10. iter[keys] = Total(w, keys)
    BY <1>3, <1>9, SolutionSums
  <1>11. Total(w, Conns) = Total(w, keys) + Total(w, Conns \ keys)
    BY <1>2, <1>3, TotalSplit
  <1>12. Total(w, Conns \ keys) = 0
    <2>1. IsFiniteSet(Conns \ keys)
      BY <1>2, FS_Subset
    <2>. QED BY <1>5, <2>1, TotalZero
  <1>13. Total(w, Conns) \in Nat /\ Total(w, keys) \in Int
    BY <1>2, <1>3, TotalNat, TotalType
  <1>. QED BY <1>1, <1>10, <1>11, <1>12, <1>13 DEF w

\* c holds no more than b and has no stream that b has not.
ConnLess(c, b) ==
  /\ ConnSound(c) /\ c.pid = b.pid /\ ConnectionHeld(c) <= ConnectionHeld(b)
  /\ \A o \in BOOLEAN : b.dir[o].stream = Hole => c.dir[o].stream = Hole

\* The same of all connections.
Shrunk(conns, before) ==
  /\ ConnsSound(conns)
  /\ \A id \in Conns : conns[id] # Hole => before[id] # Hole /\ ConnLess(conns[id], before[id])

\* Connections hold no more than themselves.
LEMMA ShrunkSelf ==
  ASSUME NEW conns, ConnsSound(conns)
  PROVE  Shrunk(conns, conns)
  <1>. SUFFICES ASSUME NEW id \in Conns, conns[id] # Hole PROVE ConnLess(conns[id], conns[id])
    BY DEF Shrunk
  <1>1. ConnSound(conns[id])
    BY DEF ConnsSound
  <1>. HIDE DEF ConnSound
  <1>2. ConnectionHeld(conns[id]) \in Nat
    BY <1>1, ConnectionHeldType
  <1>. QED BY <1>1, <1>2 DEF ConnLess

\* ConnLess is transitive.
LEMMA ConnLessTrans ==
  ASSUME NEW a, NEW b, NEW c, ConnSound(a), ConnLess(b, a), ConnLess(c, b)
  PROVE  ConnLess(c, a)
  <1>1. ConnSound(b) /\ ConnSound(c)
    BY DEF ConnLess
  <1>2. ConnectionHeld(a) \in Nat /\ ConnectionHeld(b) \in Nat /\ ConnectionHeld(c) \in Nat
    BY <1>1, ConnectionHeldType
  <1>. QED BY <1>1, <1>2 DEF ConnLess

\* Shrunk is transitive.
LEMMA ShrunkTrans ==
  ASSUME NEW a, NEW b, NEW c, ConnsSound(a), Shrunk(b, a), Shrunk(c, b)
  PROVE  Shrunk(c, a)
  <1>. SUFFICES ASSUME NEW id \in Conns
                PROVE  c[id] # Hole => a[id] # Hole /\ ConnLess(c[id], a[id])
    BY DEF Shrunk
  <1>1. ASSUME c[id] # Hole PROVE a[id] # Hole /\ ConnLess(c[id], a[id])
    <2>1. a[id] # Hole /\ ConnSound(a[id]) /\ ConnLess(b[id], a[id]) /\ ConnLess(c[id], b[id])
      BY <1>1 DEF Shrunk, ConnsSound
    <2>. QED BY <2>1, ConnLessTrans
  <1>. QED BY <1>1

\* One connection that holds less makes all hold less.
LEMMA PutShrunk ==
  ASSUME NEW conns, ConnsSound(conns), NEW id \in Conns, conns[id] # Hole, NEW c, ConnLess(c, conns[id])
  PROVE  Shrunk([conns EXCEPT ![id] = c], conns)
  <1>. DEFINE put == [conns EXCEPT ![id] = c]
  <1>1. conns \in [Conns -> Connections \cup {Hole}] /\ ConnSound(conns[id]) /\ conns[id].pid = PidOf[id]
    BY DEF ConnsSound
  <1>2. ConnSound(c) /\ c.pid = PidOf[id] /\ c \in Connections
    BY <1>1 DEF ConnLess, ConnSound
  <1>3. put \in [Conns -> Connections \cup {Hole}] /\ put[id] = c /\ \A j \in Conns : j # id => put[j] = conns[j]
    BY <1>1, <1>2
  <1>. HIDE DEF put
  <1>4. ConnsSound(put)
    BY <1>2, <1>3 DEF ConnsSound
  <1>5. \A j \in Conns : j # id => put[j] = conns[j] /\ (conns[j] # Hole => ConnLess(conns[j], conns[j]))
    BY <1>3, ShrunkSelf DEF Shrunk
  <1>. QED BY <1>3, <1>4, <1>5 DEF Shrunk, put

\* Then there are no more bytes and no more directions, of a process or of all.
LEMMA ShrunkTotals ==
  ASSUME NEW conns, NEW before, ConnsSound(before), Shrunk(conns, before)
  PROVE  /\ TotalHeld(conns) <= TotalHeld(before)
         /\ \A pids : ActiveDirections(conns, pids) \subseteq ActiveDirections(before, pids)
  <1>1. ConnsSound(conns)
    BY DEF Shrunk
  <1>2. ASSUME NEW id \in Conns PROVE HeldOf(conns)[id] <= HeldOf(before)[id]
    <2>1. HeldOf(before)[id] \in Nat
      BY HeldOfType
    <2>2. CASE conns[id] = Hole
      <3>1. HeldOf(conns)[id] = 0
        BY <2>2 DEF HeldOf
      <3>. QED BY <2>1, <3>1
    <2>3. CASE conns[id] # Hole
      <3>1. before[id] # Hole /\ ConnectionHeld(conns[id]) <= ConnectionHeld(before[id])
        BY <2>3 DEF Shrunk, ConnLess
      <3>. QED BY <2>3, <3>1 DEF HeldOf
    <2>. QED BY <2>2, <2>3
  <1>. DEFINE w == HeldOf(before)
              v == HeldOf(conns)
  <1>3. \A id \in Conns : w[id] \in Nat /\ v[id] \in Nat /\ v[id] <= w[id]
    BY <1>1, <1>2, HeldOfType
  <1>. HIDE DEF w, v
  <1>4. Total(v, Conns) <= Total(w, Conns)
    BY <1>3, TotalLess, TlsAssumption
  <1>5. TotalHeld(conns) = Total(v, Conns) /\ TotalHeld(before) = Total(w, Conns)
    BY <1>1, TotalHeldIs DEF v, w
  <1>6. ASSUME NEW pids, NEW a \in ActiveDirections(conns, pids) PROVE a \in ActiveDirections(before, pids)
    <2>1. a \in Conns \X BOOLEAN /\ conns[a[1]] # Hole /\ conns[a[1]].pid \in pids /\ conns[a[1]].dir[a[2]].stream # Hole
      BY DEF ActiveDirections, Known
    <2>2. before[a[1]] # Hole /\ ConnLess(conns[a[1]], before[a[1]])
      BY <2>1 DEF Shrunk
    <2>3. conns[a[1]].pid = before[a[1]].pid /\ before[a[1]].dir[a[2]].stream # Hole
      BY <2>1, <2>2 DEF ConnLess
    <2>. QED BY <2>1, <2>2, <2>3 DEF ActiveDirections, Known
  <1>. QED BY <1>4, <1>5, <1>6

\* t holds no more than d, and has keys only when the connection can be named.
DirLess(t, d, named) ==
  /\ DirSound(t) /\ DirectionHeld(t) <= DirectionHeld(d) /\ (d.stream = Hole => t.stream = Hole)
  /\ (HasKey(t) => named)

\* One direction of a connection holds less.
LEMMA DirPut ==
  ASSUME NEW c, ConnSound(c), NEW o \in BOOLEAN, NEW d, DirLess(d, c.dir[o], Named(c))
  PROVE  ConnLess([c EXCEPT !.dir = [c.dir EXCEPT ![o] = d]], c)
  <1>. DEFINE p == [c.dir EXCEPT ![o] = d]
              e == [c EXCEPT !.dir = p]
  <1>1. c \in Connections /\ DirSound(d) /\ d \in Directions /\ c.dir \in [BOOLEAN -> Directions]
    BY DEF ConnSound, Connections, DirPairs, DirLess, DirSound
  <1>2. p \in [BOOLEAN -> Directions] /\ p[o] = d /\ \A x \in BOOLEAN : x # o => p[x] = c.dir[x]
    BY <1>1
  <1>. HIDE DEF p
  <1>3. /\ e \in Connections /\ e.dir = p /\ e.pid = c.pid /\ e.ring = c.ring /\ e.random = c.random
        /\ e.clientOut = c.clientOut
    BY <1>1, <1>2 DEF Connections, DirPairs
  <1>. HIDE DEF e
  <1>4. \A x \in BOOLEAN : DirSound(p[x]) /\ (HasKey(p[x]) => Named(c)) /\ (c.dir[x].stream = Hole => p[x].stream = Hole)
    BY <1>1, <1>2 DEF ConnSound, DirLess
  <1>5. ConnSound(e)
    BY <1>3, <1>4 DEF ConnSound, Named
  <1>6. \A x \in BOOLEAN : DirectionHeld(c.dir[x]) \in Nat /\ DirectionHeld(p[x]) \in Nat
    BY <1>4, DirectionHeldType DEF ConnSound
  <1>7. \A x \in BOOLEAN : DirectionHeld(p[x]) <= DirectionHeld(c.dir[x])
    BY <1>2, <1>6 DEF DirLess
  <1>8. RingUsed(c.ring) \in Nat
    BY ConnectionHeldType
  <1>9. /\ ConnectionHeld(e) = DirectionHeld(p[TRUE]) + DirectionHeld(p[FALSE]) + RingUsed(c.ring)
        /\ ConnectionHeld(c) = DirectionHeld(c.dir[TRUE]) + DirectionHeld(c.dir[FALSE]) + RingUsed(c.ring)
    BY <1>3 DEF ConnectionHeld
  <1>10. ConnectionHeld(e) <= ConnectionHeld(c)
    <2>. DEFINE a == DirectionHeld(p[TRUE])
                b == DirectionHeld(p[FALSE])
                f == DirectionHeld(c.dir[TRUE])
                g == DirectionHeld(c.dir[FALSE])
                r == RingUsed(c.ring)
    <2>1. a \in Nat /\ b \in Nat /\ f \in Nat /\ g \in Nat /\ r \in Nat /\ a <= f /\ b <= g
      BY <1>6, <1>7, <1>8
    <2>2. ConnectionHeld(e) = a + b + r /\ ConnectionHeld(c) = f + g + r
      BY <1>9
    <2>. HIDE DEF a, b, f, g, r
    <2>. QED BY <2>1, <2>2
  <1>. QED BY <1>3, <1>4, <1>5, <1>10 DEF ConnLess, e, p

\* The ring is emptied.
LEMMA RingCleared ==
  ASSUME NEW c, ConnSound(c)
  PROVE  ConnLess([c EXCEPT !.ring = <<>>], c)
  <1>. DEFINE e == [c EXCEPT !.ring = <<>>]
  <1>1. <<>> \in EntryRows
    BY DEF EntryRows
  <1>2. c \in Connections
    BY DEF ConnSound
  <1>3. /\ e \in Connections /\ e.ring = <<>> /\ e.dir = c.dir /\ e.pid = c.pid /\ e.random = c.random
        /\ e.clientOut = c.clientOut
    BY <1>1, <1>2 DEF Connections
  <1>. HIDE DEF e
  <1>4. ConnSound(e)
    BY <1>3 DEF ConnSound, Named
  <1>5. ConnectionHeld(e) <= ConnectionHeld(c)
    <2>. DEFINE a == DirectionHeld(c.dir[TRUE])
                b == DirectionHeld(c.dir[FALSE])
                r == RingUsed(c.ring)
    <2>1. a \in Nat /\ b \in Nat /\ r \in Nat /\ ConnectionHeld(c) = a + b + r
      BY ConnectionHeldType
    <2>2. ConnectionHeld(e) = a + b + 0
      BY <1>3, EmptyUsed DEF ConnectionHeld
    <2>. HIDE DEF a, b, r
    <2>. QED BY <2>1, <2>2
  <1>. QED BY <1>3, <1>4, <1>5 DEF ConnLess, e
-----------------------------------------------------------------------------
(* Evictions *)

\* mark_tls_direction_evicted takes and never adds.
LEMMA EvictedShrunk ==
  ASSUME NEW conns, ConnsSound(conns), NEW id \in Conns, conns[id] # Hole, NEW o \in BOOLEAN
  PROVE  Shrunk(DirectionEvicted(conns, id, o), conns)
  <1>. DEFINE c == conns[id]
              e == [c EXCEPT !.ring = <<>>]
              d == Terminated(c.dir[o], "evictedBudget", Named(c))
              p == [c.dir EXCEPT ![o] = d]
              f == [e EXCEPT !.dir = p]
  <1>1. ConnSound(c) /\ c \in Connections /\ DirSound(c.dir[o]) /\ (HasKey(c.dir[o]) => Named(c))
    BY DEF ConnsSound, ConnSound
  <1>. HIDE DEF c
  <1>2. DirLess(d, c.dir[o], Named(c))
    <2>1. Named(c) \in BOOLEAN
      BY DEF Named
    <2>2. Fallen(d, c.dir[o])
      BY <1>1, <2>1, TerminatedSound, ReasonNames
    <2>3. Lessened(d, c.dir[o])
      BY <1>1, <2>2, FallenLess
    <2>. QED BY <1>1, <2>3 DEF Lessened, DirLess
  <1>3. ConnLess(e, c) /\ e.dir = c.dir /\ e.clientOut = c.clientOut
    BY <1>1, RingCleared DEF Connections
  <1>4. ConnSound(e)
    BY <1>3 DEF ConnLess
  <1>. HIDE DEF d, e
  <1>5. ConnLess([e EXCEPT !.dir = [e.dir EXCEPT ![o] = d]], e)
    <2>1. DirLess(d, e.dir[o], Named(e))
      BY <1>2, <1>3 DEF Named
    <2>. QED BY <1>4, <2>1, DirPut
  <1>6. ConnLess(f, c)
    BY <1>1, <1>3, <1>5, ConnLessTrans
  <1>7. f = [c EXCEPT !.ring = <<>>, !.dir = p]
    <2>. HIDE DEF p
    <2>. QED BY <1>1 DEF e, Connections
  <1>8. DirectionEvicted(conns, id, o) = [conns EXCEPT ![id] = f]
    <2>. HIDE DEF f
    <2>. QED BY <1>7, Zenon DEF DirectionEvicted, c, p, d
  <1>. HIDE DEF f
  <1>9. Shrunk([conns EXCEPT ![id] = f], conns)
    BY <1>6, PutShrunk DEF c
  <1>. QED BY <1>8, <1>9

\* A round of make_tls_direction_room takes and never adds.
LEMMA RoomRoundShrunk ==
  ASSUME NEW conns, ConnsSound(conns), NEW pids, NEW limit, NEW id, NEW c \in RoomRound(conns, pids, limit, id)
  PROVE  Shrunk(c, conns)
  <1>1. CASE ~NeedsRoom(conns, pids, limit, id)
    <2>1. c = conns
      BY <1>1 DEF RoomRound
    <2>. QED BY <2>1, ShrunkSelf
  <1>2. CASE NeedsRoom(conns, pids, limit, id)
    <2>1. PICK v \in LeastRecent(conns, Victims(conns, pids, id)) : c = DirectionEvicted(conns, v[1], v[2])
      BY <1>2 DEF RoomRound
    <2>2. v[1] \in Conns /\ v[2] \in BOOLEAN /\ conns[v[1]] # Hole
      BY DEF LeastRecent, Victims, ActiveDirections, Known
    <2>. QED BY <2>1, <2>2, EvictedShrunk
  <1>. QED BY <1>1, <1>2

\* A round of enforce_tls_buffer_budget takes and never adds.
LEMMA BudgetRoundShrunk ==
  ASSUME NEW conns, ConnsSound(conns), NEW c \in BudgetRound(conns)
  PROVE  Shrunk(c, conns)
  <1>. DEFINE active == ActiveDirections(conns, Pids)
              oldest == {id \in Rings(conns) : \A j \in Rings(conns) : LastActive(conns[id]) <= LastActive(conns[j])}
  <1>1. \/ c = conns
        \/ \E v \in LeastRecent(conns, active) : c = DirectionEvicted(conns, v[1], v[2])
        \/ \E id \in oldest : c = [conns EXCEPT ![id] = [@ EXCEPT !.ring = <<>>]]
    BY DEF BudgetRound
  <1>2. CASE c = conns
    BY <1>2, ShrunkSelf
  <1>3. CASE \E v \in LeastRecent(conns, active) : c = DirectionEvicted(conns, v[1], v[2])
    <2>1. PICK v \in LeastRecent(conns, active) : c = DirectionEvicted(conns, v[1], v[2])
      BY <1>3
    <2>2. v[1] \in Conns /\ v[2] \in BOOLEAN /\ conns[v[1]] # Hole
      BY DEF LeastRecent, ActiveDirections, Known
    <2>. QED BY <2>1, <2>2, EvictedShrunk
  <1>4. CASE \E id \in oldest : c = [conns EXCEPT ![id] = [@ EXCEPT !.ring = <<>>]]
    <2>1. PICK id \in oldest : c = [conns EXCEPT ![id] = [@ EXCEPT !.ring = <<>>]]
      BY <1>4
    <2>2. id \in Conns /\ conns[id] # Hole
      BY DEF Rings, Known
    <2>. DEFINE b == conns[id]
                e == [b EXCEPT !.ring = <<>>]
    <2>3. c = [conns EXCEPT ![id] = e]
      BY <2>1, <2>2 DEF ConnsSound
    <2>4. ConnSound(b)
      BY <2>2 DEF ConnsSound
    <2>5. ConnLess(e, b)
      BY <2>4, RingCleared
    <2>. HIDE DEF e
    <2>. QED BY <2>2, <2>3, <2>5, PutShrunk
  <1>. QED BY <1>1, <1>2, <1>3, <1>4

\* All rounds for one scope take and never add.
LEMMA RoomInShrunk ==
  ASSUME NEW conns, ConnsSound(conns), NEW pids, NEW limit, NEW id, NEW c \in RoomIn(conns, pids, limit, id)
  PROVE  Shrunk(c, conns)
  <1>. DEFINE N == Enough(conns)
              Round(S) == UNION {RoomRound(b, pids, limit, id) : b \in S}
  <1>1. PICK after : /\ after[0] = {conns} /\ RoomIn(conns, pids, limit, id) = after[N]
                     /\ \A k \in 1..N : after[k] = Round(after[k - 1])
    BY RoomRoundsExist DEF RoomRounds
  <1>2. N \in Nat
    BY EnoughType
  <1>3. ASSUME NEW S, \A b \in S : Shrunk(b, conns) PROVE \A b \in Round(S) : Shrunk(b, conns)
    <2>. SUFFICES ASSUME NEW b \in Round(S) PROVE Shrunk(b, conns)
      OBVIOUS
    <2>1. PICK a \in S : b \in RoomRound(a, pids, limit, id)
      OBVIOUS
    <2>2. Shrunk(a, conns) /\ ConnsSound(a)
      BY <1>3 DEF Shrunk
    <2>3. Shrunk(b, a)
      BY <2>1, <2>2, RoomRoundShrunk
    <2>. QED BY <2>2, <2>3, ShrunkTrans
  <1>. HIDE DEF N, Round
  <1>. DEFINE U == {k \in Nat : k <= N => \A b \in after[k] : Shrunk(b, conns)}
  <1>4. 0 \in U
    BY <1>1, ShrunkSelf
  <1>5. ASSUME NEW k \in Nat, k \in U PROVE k + 1 \in U
    <2>. SUFFICES ASSUME k + 1 <= N PROVE \A b \in after[k + 1] : Shrunk(b, conns)
      OBVIOUS
    <2>1. k + 1 \in 1..N /\ (k + 1) - 1 = k /\ k <= N
      BY <1>2
    <2>2. after[k + 1] = Round(after[k])
      BY <1>1, <2>1
    <2>3. \A b \in after[k] : Shrunk(b, conns)
      BY <1>5, <2>1
    <2>. QED BY <1>3, <2>2, <2>3
  <1>6. N \in U
    <2>. HIDE DEF U
    <2>1. Nat \subseteq U
      BY <1>4, <1>5, NatSetInduction
    <2>. QED BY <1>2, <2>1
  <1>. QED BY <1>1, <1>2, <1>6

\* Without streams and rings no byte is held: the budget loop has nothing to miss.
LEMMA NothingHeld ==
  ASSUME NEW conns, ConnsSound(conns), ActiveDirections(conns, Pids) = {}, Rings(conns) = {}
  PROVE  TotalHeld(conns) = 0
  <1>1. ASSUME NEW id \in Conns PROVE HeldOf(conns)[id] = 0
    <2>1. CASE conns[id] = Hole
      BY <2>1 DEF HeldOf
    <2>2. CASE conns[id] # Hole
      <3>. DEFINE c == conns[id]
      <3>1. ConnSound(c) /\ c.pid \in Pids
        BY <2>2 DEF ConnsSound, ConnSound, Connections
      <3>2. ASSUME NEW o \in BOOLEAN PROVE c.dir[o].stream = Hole
        <4>1. <<id, o>> \in Known(conns) \X BOOLEAN
          BY <2>2 DEF Known
        <4>2. <<id, o>>[1] = id /\ <<id, o>>[2] = o
          OBVIOUS
        <4>. QED BY <3>1, <4>1, <4>2 DEF ActiveDirections
      <3>3. c.ring = <<>>
        BY <2>2 DEF Rings, Known
      <3>. HIDE DEF c
      <3>4. DirectionHeld(c.dir[TRUE]) = 0 /\ DirectionHeld(c.dir[FALSE]) = 0
        BY <3>1, <3>2, DirectionHeldType DEF ConnSound
      <3>5. RingUsed(c.ring) = 0
        BY <3>3, EmptyUsed
      <3>6. ConnectionHeld(c) = 0
        BY <3>4, <3>5 DEF ConnectionHeld
      <3>. QED BY <2>2, <3>6 DEF HeldOf, c
    <2>. QED BY <2>1, <2>2
  <1>. DEFINE w == HeldOf(conns)
  <1>2. \A id \in Conns : w[id] = 0
    BY <1>1
  <1>. HIDE DEF w
  <1>3. Total(w, Conns) = 0
    BY <1>2, TotalZero, TlsAssumption
  <1>. QED BY <1>3, TotalHeldIs DEF w

\* enforce_tls_buffer_budget takes, and when it ends the bytes are within the budget.
LEMMA BudgetedShrunk ==
  ASSUME NEW conns, ConnsSound(conns), NEW e \in Budgeted(conns)
  PROVE  Shrunk(e.conns, conns) /\ (~e.stuck => TotalHeld(e.conns) <= MaxTlsBytes)
  <1>. DEFINE N == Enough(conns)
              Round(S) == UNION {BudgetRound(b) : b \in S}
  <1>1. PICK after : /\ after[0] = {conns}
                     /\ Budgeted(conns) = {[conns |-> c, stuck |-> OverBudget(c)] : c \in after[N]}
                     /\ \A k \in 1..N : after[k] = Round(after[k - 1])
    BY BudgetRoundsExist DEF BudgetRounds
  <1>2. N \in Nat
    BY EnoughType
  <1>3. ASSUME NEW S, \A b \in S : Shrunk(b, conns) PROVE \A b \in Round(S) : Shrunk(b, conns)
    <2>. SUFFICES ASSUME NEW b \in Round(S) PROVE Shrunk(b, conns)
      OBVIOUS
    <2>1. PICK a \in S : b \in BudgetRound(a)
      OBVIOUS
    <2>2. Shrunk(a, conns) /\ ConnsSound(a)
      BY <1>3 DEF Shrunk
    <2>3. Shrunk(b, a)
      BY <2>1, <2>2, BudgetRoundShrunk
    <2>. QED BY <2>2, <2>3, ShrunkTrans
  <1>. HIDE DEF N, Round
  <1>. DEFINE U == {k \in Nat : k <= N => \A b \in after[k] : Shrunk(b, conns)}
  <1>4. 0 \in U
    BY <1>1, ShrunkSelf
  <1>5. ASSUME NEW k \in Nat, k \in U PROVE k + 1 \in U
    <2>. SUFFICES ASSUME k + 1 <= N PROVE \A b \in after[k + 1] : Shrunk(b, conns)
      OBVIOUS
    <2>1. k + 1 \in 1..N /\ (k + 1) - 1 = k /\ k <= N
      BY <1>2
    <2>2. after[k + 1] = Round(after[k])
      BY <1>1, <2>1
    <2>3. \A b \in after[k] : Shrunk(b, conns)
      BY <1>5, <2>1
    <2>. QED BY <1>3, <2>2, <2>3
  <1>6. N \in U
    <2>. HIDE DEF U
    <2>1. Nat \subseteq U
      BY <1>4, <1>5, NatSetInduction
    <2>. QED BY <1>2, <2>1
  <1>7. PICK c \in after[N] : e = [conns |-> c, stuck |-> OverBudget(c)]
    BY <1>1
  <1>8. Shrunk(c, conns)
    BY <1>2, <1>6
  <1>9. e.conns = c /\ e.stuck = OverBudget(c)
    BY <1>7
  <1>10. ~OverBudget(c) => TotalHeld(c) <= MaxTlsBytes
    <2>. SUFFICES ASSUME ~OverBudget(c) PROVE TotalHeld(c) <= MaxTlsBytes
      OBVIOUS
    <2>1. ConnsSound(c)
      BY <1>8 DEF Shrunk
    <2>2. TotalHeld(c) \in Nat /\ MaxTlsBytes \in Nat
      BY <2>1, TotalHeldIs, TlsAssumption
    <2>3. CASE TotalHeld(c) > MaxTlsBytes
      <3>1. ActiveDirections(c, Pids) = {} /\ Rings(c) = {}
        BY <2>3 DEF OverBudget
      <3>2. TotalHeld(c) = 0
        BY <2>1, <3>1, NothingHeld
      <3>. QED BY <2>2, <2>3, <3>2
    <2>. QED BY <2>2, <2>3
  <1>. QED BY <1>8, <1>9, <1>10

\* make_tls_direction_room takes, and when it ends there is room, or nobody else to evict.
LEMMA RoomMadeShrunk ==
  ASSUME NEW conns, ConnsSound(conns), NEW id \in Conns, NEW room \in RoomMade(conns, id)
  PROVE  /\ Shrunk(room.conns, conns)
         /\ room.stuck \/ (/\ ~NeedsRoom(room.conns, Pids, MaxDirections, id)
                           /\ \E own : /\ ConnsSound(own) /\ Shrunk(room.conns, own)
                                       /\ ~NeedsRoom(own, {PidOf[id]}, MaxPidDirections, id))
  <1>1. PICK own \in RoomIn(conns, {PidOf[id]}, MaxPidDirections, id) :
          room \in IF NeedsRoom(own, {PidOf[id]}, MaxPidDirections, id)
                   THEN {[conns |-> own, stuck |-> TRUE]}
                   ELSE {[conns |-> c, stuck |-> NeedsRoom(c, Pids, MaxDirections, id)] :
                           c \in RoomIn(own, Pids, MaxDirections, id)}
    BY DEF RoomMade
  <1>2. Shrunk(own, conns) /\ ConnsSound(own)
    BY RoomInShrunk DEF Shrunk
  <1>3. CASE NeedsRoom(own, {PidOf[id]}, MaxPidDirections, id)
    <2>1. room.conns = own /\ room.stuck = TRUE
      BY <1>1, <1>3
    <2>. QED BY <1>2, <2>1
  <1>4. CASE ~NeedsRoom(own, {PidOf[id]}, MaxPidDirections, id)
    <2>1. PICK c \in RoomIn(own, Pids, MaxDirections, id) :
            room = [conns |-> c, stuck |-> NeedsRoom(c, Pids, MaxDirections, id)]
      BY <1>1, <1>4
    <2>2. room.conns = c /\ room.stuck = NeedsRoom(c, Pids, MaxDirections, id)
      BY <2>1
    <2>3. Shrunk(c, own)
      BY <1>2, RoomInShrunk
    <2>4. Shrunk(c, conns)
      BY <1>2, <2>3, ShrunkTrans
    <2>. QED BY <1>2, <1>4, <2>2, <2>3, <2>4
  <1>. QED BY <1>3, <1>4
-----------------------------------------------------------------------------
(* A packet *)

\* The first byte after a SYN has a sequence number.
LEMMA FirstDataType ==
  ASSUME NEW seq \in Nat, NEW syn
  PROVE  FirstData(seq, syn) \in Nat
  <1>. DEFINE x == seq + (IF syn THEN 1 ELSE 0)
  <1>1. x \in Nat
    OBVIOUS
  <1>2. TlsSeqMod \in Nat /\ TlsSeqMod > 0
    BY TlsStreamAssumption
  <1>. HIDE DEF x
  <1>3. x % TlsSeqMod \in Nat
    BY <1>1, <1>2
  <1>. QED BY <1>3 DEF FirstData, x

\* A new stream holds nothing.
LEMMA NewTlsStreamSound ==
  ASSUME NEW seq \in Nat
  PROVE  NewTlsStream(seq) \in TlsStreams(Recs) /\ StreamHeld(NewTlsStream(seq)) = 0
  <1>. DEFINE n == NewTlsStream(seq)
              A == Seq((Recs \X Nat) \cup {Hole})
              B == Seq(Recs \X Nat)
  <1>1. <<>> \in A /\ <<>> \in B
    OBVIOUS
  <1>. HIDE DEF A, B
  <1>2. n \in [next : Nat, data : A, partial : B]
    BY <1>1 DEF NewTlsStream
  <1>3. n.data = <<>> /\ n.partial = <<>>
    BY DEF NewTlsStream
  <1>4. StreamHeld(n) = 2 * Len(<<>>) + Len(<<>>)
    BY <1>3 DEF StreamHeld
  <1>5. Len(<<>>) = 0
    OBVIOUS
  <1>6. StreamHeld(n) = 0
    BY <1>4, <1>5
  <1>. QED BY <1>2, <1>6 DEF TlsStreams, A, B

\* d with a stream in which nothing has arrived.
LEMMA StreamAdded ==
  ASSUME NEW d, DirSound(d), d.stream = Hole, NEW n, n \in TlsStreams(Recs), StreamHeld(n) = 0
  PROVE  LET t == [d EXCEPT !.stream = n]
         IN DirSound(t) /\ DirectionHeld(t) = DirectionHeld(d) /\ (HasKey(t) <=> HasKey(d))
  <1>. DEFINE t == [d EXCEPT !.stream = n]
  <1>1. d \in Directions
    BY DEF DirSound
  <1>2. n \in StreamOrNone /\ n # Hole
    BY NoHole DEF StreamOrNone
  <1>3. /\ t \in Directions /\ t.stream = n /\ t.parser = d.parser /\ t.http2 = d.http2 /\ t.wait = d.wait
        /\ t.hsSecret = d.hsSecret /\ t.appSecret = d.appSecret
    BY <1>1, <1>2 DEF Directions
  <1>. HIDE DEF t
  <1>4. DirSound(t)
    BY <1>2, <1>3 DEF DirSound
  <1>5. DirectionHeld(t) = DirectionHeld(d)
    BY <1>2, <1>3 DEF DirectionHeld
  <1>6. HasKey(t) <=> HasKey(d)
    BY <1>3 DEF HasKey
  <1>. QED BY <1>4, <1>5, <1>6 DEF t

\* A connection gets streams, which hold nothing, only where a SYN was seen.
LEMMA OpenedSound ==
  ASSUME NEW c, ConnSound(c), NEW id \in Conns, NEW flow
  PROVE  LET e == Opened(c, id, flow)
         IN /\ ConnSound(e) /\ e.pid = c.pid /\ ConnectionHeld(e) = ConnectionHeld(c)
            /\ (id \in flow.hello => Named(e))
            /\ \A o \in BOOLEAN : e.dir[o].stream # Hole => c.dir[o].stream # Hole \/ <<id, o>> \in flow.syn
  <1>. DEFINE e == Opened(c, id, flow)
              Streamed(o) == IF c.dir[o].stream = Hole /\ <<id, o>> \in flow.syn
                             THEN [c.dir[o] EXCEPT !.stream = NewTlsStream(FirstData(SynSeq[id][o], TRUE))]
                             ELSE c.dir[o]
              p == [c.dir EXCEPT ![TRUE] = Streamed(TRUE), ![FALSE] = Streamed(FALSE)]
              r == IF c.random = Hole /\ id \in flow.hello THEN Random[id] ELSE c.random
              k == IF c.clientOut = Hole /\ id \in flow.hello THEN ClientOut[id] ELSE c.clientOut
  <1>1. c \in Connections /\ c.dir \in [BOOLEAN -> Directions]
    BY DEF ConnSound, Connections, DirPairs
  <1>2. e = [c EXCEPT !.random = r, !.clientOut = k, !.dir = p]
    BY <1>1 DEF Opened, Connections
  <1>3. ASSUME NEW o \in BOOLEAN
        PROVE  /\ DirSound(Streamed(o)) /\ DirectionHeld(Streamed(o)) = DirectionHeld(c.dir[o])
               /\ (HasKey(Streamed(o)) <=> HasKey(c.dir[o])) /\ Streamed(o) \in Directions
               /\ (Streamed(o).stream # Hole => c.dir[o].stream # Hole \/ <<id, o>> \in flow.syn)
    <2>. DEFINE d == c.dir[o]
                n == NewTlsStream(FirstData(SynSeq[id][o], TRUE))
                t == [d EXCEPT !.stream = n]
    <2>1. DirSound(d)
      BY DEF ConnSound
    <2>2. n \in TlsStreams(Recs) /\ StreamHeld(n) = 0
      <3>1. SynSeq[id][o] \in Nat
        BY TlsAssumption
      <3>. QED BY <3>1, FirstDataType, NewTlsStreamSound
    <2>3. Streamed(o) = IF d.stream = Hole /\ <<id, o>> \in flow.syn THEN t ELSE d
      OBVIOUS
    <2>. HIDE DEF d, n
    <2>4. d.stream = Hole => DirSound(t) /\ DirectionHeld(t) = DirectionHeld(d) /\ (HasKey(t) <=> HasKey(d))
      BY <2>1, <2>2, StreamAdded
    <2>. HIDE DEF t, Streamed
    <2>5. /\ DirSound(Streamed(o)) /\ DirectionHeld(Streamed(o)) = DirectionHeld(d)
          /\ (HasKey(Streamed(o)) <=> HasKey(d))
          /\ (Streamed(o).stream # Hole => d.stream # Hole \/ <<id, o>> \in flow.syn)
      BY <2>1, <2>3, <2>4
    <2>. QED BY <2>5 DEF d, DirSound
  <1>. HIDE DEF Streamed
  <1>4. p \in DirPairs /\ \A o \in BOOLEAN : p[o] = Streamed(o)
    BY <1>1, <1>3 DEF DirPairs
  <1>5. r \in Randoms
    BY <1>1 DEF Randoms, Connections
  <1>6. k \in SideOrNone /\ (id \in flow.hello => k # Hole) /\ (c.clientOut # Hole => k # Hole)
    <2>1. ClientOut[id] \in BOOLEAN /\ ClientOut[id] # Hole
      BY TlsAssumption
    <2>. QED BY <1>1, <2>1 DEF SideOrNone, Connections
  <1>7. r # Hole => k # Hole
    <2>1. c.random # Hole => c.clientOut # Hole
      BY DEF ConnSound, Named
    <2>. QED BY <1>6, <2>1
  <1>. HIDE DEF p, r, k
  <1>8. /\ e \in Connections /\ e.random = r /\ e.clientOut = k /\ e.dir = p /\ e.pid = c.pid /\ e.ring = c.ring
    BY <1>1, <1>2, <1>4, <1>5, <1>6 DEF Connections
  <1>. HIDE DEF e
  <1>9. ConnSound(e)
    BY <1>3, <1>4, <1>6, <1>7, <1>8 DEF ConnSound, Named
  <1>10. ConnectionHeld(e) = ConnectionHeld(c)
    <2>1. DirectionHeld(p[TRUE]) = DirectionHeld(c.dir[TRUE]) /\ DirectionHeld(p[FALSE]) = DirectionHeld(c.dir[FALSE])
      BY <1>3, <1>4
    <2>. QED BY <1>8, <2>1 DEF ConnectionHeld
  <1>11. id \in flow.hello => Named(e)
    BY <1>6, <1>8 DEF Named
  <1>12. \A o \in BOOLEAN : e.dir[o].stream # Hole => c.dir[o].stream # Hole \/ <<id, o>> \in flow.syn
    BY <1>3, <1>4, <1>8
  <1>. QED BY <1>8, <1>9, <1>10, <1>11, <1>12 DEF e

\* A new direction has no stream and no keys.
LEMMA NewDirectionSound ==
  DirSound(NewDirection) /\ ~HasKey(NewDirection) /\ NewDirection.stream = Hole
  <1>1. NewDirection \in Directions
    BY NoHole, NewHttp2Type DEF NewDirection, Directions
  <1>2. /\ NewDirection.stream = Hole /\ NewDirection.parser = <<>> /\ NewDirection.wait = <<>>
        /\ NewDirection.http2 = NewHttp2 /\ NewDirection.hsSecret = Hole /\ NewDirection.appSecret = Hole
    BY DEF NewDirection
  <1>. QED BY <1>1, <1>2, NewHttp2Type DEF DirSound, Vacant, HasKey

\* A new connection holds nothing.
LEMMA NewConnectionSound ==
  ASSUME NEW pid \in Pids
  PROVE  LET c == NewConnection(pid)
         IN /\ ConnSound(c) /\ c.pid = pid /\ ConnectionHeld(c) = 0
            /\ \A o \in BOOLEAN : c.dir[o].stream = Hole
  <1>. DEFINE c == NewConnection(pid)
  <1>1. NewDirections \in DirPairs /\ \A o \in BOOLEAN : NewDirections[o] = NewDirection
    BY NewDirectionSound DEF NewDirections, DirPairs, DirSound
  <1>2. Hole \in Randoms /\ Hole \in SideOrNone /\ <<>> \in EntryRows
    BY DEF Randoms, SideOrNone, EntryRows
  <1>3. c \in Connections /\ c.pid = pid /\ c.random = Hole /\ c.dir = NewDirections /\ c.ring = <<>>
    BY <1>1, <1>2 DEF NewConnection, Connections
  <1>. HIDE DEF c
  <1>4. ConnSound(c)
    BY <1>1, <1>3, NewDirectionSound DEF ConnSound
  <1>5. \A o \in BOOLEAN : c.dir[o].stream = Hole
    BY <1>1, <1>3, NewDirectionSound
  <1>6. ConnectionHeld(c) = 0
    <2>1. DirectionHeld(c.dir[TRUE]) = 0 /\ DirectionHeld(c.dir[FALSE]) = 0
      BY <1>4, <1>5, DirectionHeldType DEF ConnSound
    <2>2. RingUsed(c.ring) = 0
      BY <1>3, EmptyUsed
    <2>. QED BY <2>1, <2>2 DEF ConnectionHeld
  <1>. QED BY <1>3, <1>4, <1>5, <1>6 DEF c

\* What the watcher hands over is a secret or none.
LEMMA SecretType ==
  ASSUME NEW w, NEW pid, NEW random \in Randoms, NEW label \in Labels
  PROVE  Secret(w, pid, random, label) \in SecretOrNone
  <1>. DEFINE s == [random |-> random, label |-> label, gen |-> 0]
  <1>1. s \in [random : Randoms, label : Labels, gen : Nat]
    OBVIOUS
  <1>2. s \in SecretSet
    BY <1>1 DEF SecretSet, Randoms
  <1>. HIDE DEF s
  <1>3. Secret(w, pid, random, label) \in {s, Hole}
    BY DEF Secret, s
  <1>. QED BY <1>2, <1>3 DEF SecretOrNone

\* secret_label_for_direction returns one of the four labels.
LEMMA LabelType ==
  ASSUME NEW a, NEW b, NEW c
  PROVE  Label(a, b, c) \in Labels
  BY DEF Label, Labels

\* Secrets are given to a direction.
LEMMA KeyedSound ==
  ASSUME NEW d, DirSound(d), NEW named, NEW a \in SecretOrNone, NEW h \in SecretOrNone,
         a # Hole \/ h # Hole => named
  PROVE  LET t == [d EXCEPT !.appSecret = a, !.hsSecret = h]
         IN /\ DirLess(t, d, named) /\ t.terminal = d.terminal /\ t.stream = d.stream /\ t.wait = d.wait
            /\ t.appSecret = a /\ t.hsSecret = h
  <1>. DEFINE t == [d EXCEPT !.appSecret = a, !.hsSecret = h]
  <1>1. d \in Directions
    BY DEF DirSound
  <1>2. /\ t \in Directions /\ t.appSecret = a /\ t.hsSecret = h /\ t.stream = d.stream /\ t.parser = d.parser
        /\ t.http2 = d.http2 /\ t.wait = d.wait /\ t.terminal = d.terminal
    BY <1>1 DEF Directions
  <1>. HIDE DEF t
  <1>3. DirSound(t)
    BY <1>2 DEF DirSound, Vacant
  <1>4. DirectionHeld(t) = DirectionHeld(d) /\ DirectionHeld(d) \in Nat
    BY <1>2, DirectionHeldType DEF DirectionHeld
  <1>5. DirectionHeld(t) <= DirectionHeld(d)
    BY <1>4
  <1>6. DirLess(t, d, named)
    BY <1>2, <1>3, <1>5 DEF DirLess, HasKey
  <1>. QED BY <1>2, <1>6 DEF t

\* DirLess is transitive.
LEMMA DirLessTrans ==
  ASSUME NEW a, DirSound(a), NEW b, NEW c, NEW m, NEW n, DirLess(b, a, m), DirLess(c, b, n)
  PROVE  DirLess(c, a, n)
  <1>1. DirSound(b) /\ DirSound(c)
    BY DEF DirLess
  <1>2. DirectionHeld(a) \in Nat /\ DirectionHeld(b) \in Nat /\ DirectionHeld(c) \in Nat
    BY <1>1, DirectionHeldType
  <1>. QED BY <1>1, <1>2 DEF DirLess

\* A direction that only lost something has keys only if it can be named.
LEMMA LessenedNamed ==
  ASSUME NEW d, NEW t, Lessened(t, d), NEW named, HasKey(d) => named
  PROVE  DirLess(t, d, named)
  BY DEF Lessened, DirLess

\* Timers and secrets, before the stream is fed, add no bytes.
LEMMA PreparedSound ==
  ASSUME NEW d, DirSound(d), NEW c, HasKey(d) => Named(c), NEW id \in Conns, NEW out \in BOOLEAN, NEW w, NEW flow,
         id \in flow.hello => Named(c), NEW cut \in BOOLEAN, tNow \in Nat
  PROVE  DirLess(Prepared(d, c, id, out, w, flow, cut), d, Named(c))
  <1>. DEFINE named == Named(c)
              late == [d EXCEPT !.last = tNow]
              told == Reported(late, named)
              dead == Terminated(told, "captureTruncated", named)
              live == IF cut THEN dead ELSE TimersExpired(told, tNow, named)
              Offered(label) == IF id \in flow.hello THEN Secret(w, PidOf[id], Random[id], label) ELSE Hole
              a == IF live.appSecret = Hole THEN Offered(Label(ClientOut[id], out, FALSE)) ELSE live.appSecret
              h == IF live.hsSecret = Hole THEN Offered(Label(ClientOut[id], out, TRUE)) ELSE live.hsSecret
              keyed == [live EXCEPT !.appSecret = a, !.hsSecret = h]
  <1>1. d \in Directions /\ named \in BOOLEAN
    BY DEF DirSound, Named
  <1>2. Prepared(d, c, id, out, w, flow, cut) = IF cut \/ live.terminal # Hole THEN live ELSE keyed
    BY DEF Prepared
  <1>. HIDE DEF named
  <1>3. late \in Directions /\ SameHeld(late, d)
    BY <1>1 DEF Directions, SameHeld
  <1>. HIDE DEF late
  <1>4. told \in Directions /\ SameHeld(told, late)
    BY <1>1, <1>3, ReportedSound
  <1>. HIDE DEF told
  <1>5. SameHeld(told, d)
    BY <1>3, <1>4 DEF SameHeld
  <1>6. DirLess(told, d, named)
    BY <1>4, <1>5, SameHeldLess, LessenedNamed DEF named
  <1>7. DirSound(told) /\ (HasKey(told) => named)
    BY <1>6 DEF DirLess
  <1>8. Lessened(dead, told)
    BY <1>1, <1>7, TerminatedSound, FallenLess, ReasonNames
  <1>9. Lessened(TimersExpired(told, tNow, named), told)
    BY <1>1, <1>7, TimersExpiredSound
  <1>. HIDE DEF dead
  <1>10. Lessened(live, told)
    BY <1>8, <1>9
  <1>. HIDE DEF live
  <1>11. DirLess(live, told, named)
    BY <1>7, <1>10, LessenedNamed
  <1>12. DirLess(live, d, named)
    BY <1>6, <1>11, DirLessTrans
  <1>13. DirSound(live) /\ live \in Directions /\ (HasKey(live) => named)
    BY <1>12 DEF DirLess, DirSound
  <1>14. \A label \in Labels : Offered(label) \in SecretOrNone /\ (Offered(label) # Hole => named)
    <2>1. Random[id] \in Randoms
      BY DEF Randoms
    <2>. QED BY <2>1, SecretType, NoHole DEF named
  <1>. HIDE DEF Offered
  <1>15. a \in SecretOrNone /\ h \in SecretOrNone /\ (a # Hole \/ h # Hole => named)
    <2>1. live.appSecret \in SecretOrNone /\ live.hsSecret \in SecretOrNone
      BY <1>13 DEF Directions
    <2>. QED BY <1>13, <1>14, <2>1, LabelType DEF HasKey
  <1>. HIDE DEF a, h
  <1>16. DirLess(keyed, live, named)
    BY <1>13, <1>15, KeyedSound
  <1>. HIDE DEF keyed
  <1>17. DirLess(keyed, d, named)
    BY <1>12, <1>16, DirLessTrans
  <1>. QED BY <1>2, <1>12, <1>17 DEF named

\* What the records of a payload go on with, or what is left of the direction.
PayloadOk(g, d, named) ==
  IF g.go
  THEN /\ g.d \in Directions /\ g.d.stream # Hole /\ g.d.terminal = Hole /\ (HasKey(g.d) => named)
       /\ g.records \in Seq(Recs)
  ELSE DirLess(g.d, d, named)

\* The stream goes on with what was fed, or the direction ends.
LEMMA GapCheckedSound ==
  ASSUME NEW d, DirSound(d), d.stream # Hole, d.terminal = Hole, NEW named \in BOOLEAN, HasKey(d) => named,
         NEW fed \in SegmentResults, tNow \in Nat
  PROVE  PayloadOk(GapChecked(d, fed, named), d, named)
  <1>. DEFINE since == IF d.gapSince = Hole THEN tNow ELSE d.gapSince
              gap == IF HasGap(fed.stream) THEN since ELSE Hole
              fine == [d EXCEPT !.stream = fed.stream, !.gapSince = gap]
              x == Terminated(d, fed.err, named)
              y == Terminated(fine, "tcpGap", named)
              f1 == [d |-> x, records |-> <<>>, go |-> FALSE]
              f2 == [d |-> y, records |-> <<>>, go |-> FALSE]
              f3 == [d |-> fine, records |-> fed.records, go |-> TRUE]
  <1>1. d \in Directions
    BY DEF DirSound
  <1>2. \/ GapChecked(d, fed, named) = f1 /\ fed.err # Hole
        \/ GapChecked(d, fed, named) = f2
        \/ GapChecked(d, fed, named) = f3
    BY DEF GapChecked
  <1>3. fed.err \in Reasons \cup {Hole} /\ fed.stream \in TlsStreams(Recs) /\ fed.records \in Seq(Recs)
    BY DEF SegmentResults
  <1>4. gap \in TimeOrNone
    BY <1>1 DEF TimeOrNone, Directions
  <1>. HIDE DEF gap
  <1>5. fed.stream \in StreamOrNone /\ fed.stream # Hole
    BY <1>3, NoHole DEF StreamOrNone
  <1>6. /\ fine \in Directions /\ fine.stream = fed.stream /\ fine.terminal = d.terminal
        /\ fine.hsSecret = d.hsSecret /\ fine.appSecret = d.appSecret
    BY <1>1, <1>4, <1>5 DEF Directions
  <1>. HIDE DEF fine
  <1>7. DirSound(fine) /\ (HasKey(fine) => named)
    BY <1>5, <1>6 DEF DirSound, HasKey
  <1>8. ASSUME fed.err # Hole PROVE PayloadOk(f1, d, named)
    <2>1. fed.err \in Reasons
      BY <1>3, <1>8
    <2>2. DirLess(x, d, named)
      BY <2>1, TerminatedSound, FallenLess, LessenedNamed
    <2>. HIDE DEF x
    <2>. QED BY <2>2 DEF PayloadOk
  <1>9. PayloadOk(f2, d, named)
    <2>1. Fallen(y, fine)
      BY <1>7, TerminatedSound, ReasonNames
    <2>2. DirSound(y) /\ y.stream = Hole /\ ~HasKey(y)
      BY <1>6, <2>1 DEF Fallen
    <2>. HIDE DEF y
    <2>3. DirectionHeld(y) = 0 /\ DirectionHeld(d) \in Nat
      BY <2>2, DirectionHeldType
    <2>4. DirectionHeld(y) <= DirectionHeld(d)
      BY <2>3
    <2>5. DirLess(y, d, named)
      BY <2>2, <2>4 DEF DirLess
    <2>. QED BY <2>5 DEF PayloadOk
  <1>10. PayloadOk(f3, d, named)
    BY <1>3, <1>5, <1>6, <1>7 DEF PayloadOk
  <1>. HIDE DEF f1, f2, f3
  <1>. QED BY <1>2, <1>8, <1>9, <1>10

\* The suite of a connection is one of the hellos' or none.
LEMMA SuiteOfType ==
  ASSUME NEW c, ConnSound(c)
  PROVE  SuiteOf(c) \in SuiteSet
  <1>1. c.dir[TRUE] \in Directions /\ c.dir[FALSE] \in Directions
    BY DEF ConnSound, DirSound
  <1>2. c.dir[TRUE].suite \in SuiteSet /\ c.dir[FALSE].suite \in SuiteSet
    BY <1>1 DEF Directions
  <1>. QED BY <1>2 DEF SuiteOf

\* A connection after its records: as sound as before, with no stream more.
ProcessedOk(done, c) ==
  /\ ConnSound(done.conn) /\ done.conn.pid = c.pid /\ done.conn.clientOut = c.clientOut /\ done.decoded \in ItemRows
  /\ \A o \in BOOLEAN : c.dir[o].stream = Hole => done.conn.dir[o].stream = Hole

\* The records still without a key wait again, in a direction that has a stream.
LEMMA WaitsAgainSound ==
  ASSUME NEW c, ConnSound(c), NEW out \in BOOLEAN, c.dir[out].stream # Hole, NEW end, LoopSound(end, Named(c))
  PROVE  ProcessedOk(WaitsAgain(c, out, end), c)
  <1>. DEFINE e == [end.d EXCEPT !.wait = end.deferred]
              d == IF end.d.terminal = Hole THEN e ELSE end.d
              p == [c.dir EXCEPT ![out] = d]
              b == [c EXCEPT !.dir = p, !.ring = end.ring]
              done == WaitsAgain(c, out, end)
  <1>1. done = [conn |-> b, decoded |-> end.decoded, suite |-> end.suite]
    BY Zenon DEF WaitsAgain
  <1>2. end \in Loops /\ (HasKey(end.d) => Named(c))
    BY DEF LoopSound
  <1>3. end.d \in Directions /\ end.deferred \in RecordRows /\ end.ring \in EntryRows /\ end.decoded \in ItemRows
    BY <1>2 DEF Loops
  <1>4. /\ e \in Directions /\ e.stream = end.d.stream /\ e.hsSecret = end.d.hsSecret
        /\ e.appSecret = end.d.appSecret
    BY <1>3 DEF Directions
  <1>. HIDE DEF e
  <1>5. DirSound(d) /\ (HasKey(d) => Named(c)) /\ d \in Directions
    <2>1. CASE end.d.terminal = Hole
      <3>1. d = e /\ end.d.stream # Hole
        BY <2>1 DEF LoopSound
      <3>. HIDE DEF d
      <3>. QED BY <1>2, <1>4, <3>1 DEF DirSound, HasKey
    <2>2. CASE end.d.terminal # Hole
      <3>1. d = end.d /\ Vacant(end.d)
        BY <2>2 DEF LoopSound
      <3>. HIDE DEF d
      <3>. QED BY <1>2, <1>3, <3>1 DEF DirSound
    <2>. QED BY <2>1, <2>2
  <1>. HIDE DEF d
  <1>6. c \in Connections /\ c.dir \in [BOOLEAN -> Directions]
    BY DEF ConnSound, Connections, DirPairs
  <1>7. p \in DirPairs /\ p[out] = d /\ \A o \in BOOLEAN : o # out => p[o] = c.dir[o]
    BY <1>5, <1>6 DEF DirPairs
  <1>. HIDE DEF p
  <1>8. /\ b \in Connections /\ b.dir = p /\ b.pid = c.pid /\ b.random = c.random /\ b.clientOut = c.clientOut
    BY <1>3, <1>6, <1>7 DEF Connections
  <1>. HIDE DEF b
  <1>9. ConnSound(b)
    BY <1>5, <1>7, <1>8 DEF ConnSound, Named
  <1>10. done.conn = b /\ done.decoded = end.decoded
    BY <1>1
  <1>. HIDE DEF done
  <1>11. \A o \in BOOLEAN : c.dir[o].stream = Hole => b.dir[o].stream = Hole
    BY <1>7, <1>8
  <1>12. ProcessedOk(done, c)
    BY <1>3, <1>8, <1>9, <1>10, <1>11 DEF ProcessedOk
  <1>. QED BY <1>12 DEF done

\* process_tls_records opens no stream and gives no keys to what cannot be named.
LEMMA ProcessedSound ==
  ASSUME NEW c, ConnSound(c), NEW out \in BOOLEAN, c.dir[out].stream # Hole, c.dir[out].terminal = Hole,
         NEW records \in Seq(Recs), NEW suite \in SuiteSet, NEW now \in Nat, NEW decoded \in ItemRows
  PROVE  ProcessedOk(Processed(c, out, records, suite, now, decoded), c)
  <1>. DEFINE d == c.dir[out]
              e == [d EXCEPT !.wait = <<>>, !.waitBytes = 0]
              start == [d |-> e, suite |-> suite, ring |-> c.ring, deferred |-> <<>>, decoded |-> decoded, over |-> FALSE]
              named == Named(c)
              client == c.clientOut = out
              end == AllRecords(start, records, out, client, now, named)
  <1>1. Processed(c, out, records, suite, now, decoded) = WaitsAgain(c, out, end)
    BY DEF Processed
  <1>2. d \in Directions /\ (HasKey(d) => named) /\ c.ring \in EntryRows /\ named \in BOOLEAN
    BY DEF ConnSound, DirSound, Connections, Named
  <1>3. d.stream # Hole /\ d.terminal = Hole
    OBVIOUS
  <1>. HIDE DEF d, named, client
  <1>4. /\ e \in Directions /\ e.stream = d.stream /\ e.terminal = d.terminal /\ e.hsSecret = d.hsSecret
        /\ e.appSecret = d.appSecret
    BY <1>2, NoHole DEF Directions
  <1>. HIDE DEF e
  <1>5. start \in Loops /\ start.d = e
    BY <1>2, <1>4, NoHole DEF Loops
  <1>. HIDE DEF start
  <1>6. LoopSound(start, named)
    BY <1>2, <1>3, <1>4, <1>5 DEF LoopSound, HasKey
  <1>7. end \in SoundLoops(named)
    BY <1>2, <1>6, AllRecordsSound
  <1>. HIDE DEF end
  <1>8. LoopSound(end, Named(c))
    BY <1>7 DEF SoundLoops, named
  <1>9. ProcessedOk(WaitsAgain(c, out, end), c)
    BY <1>8, WaitsAgainSound
  <1>. QED BY <1>1, <1>9

\* A direction of a connection is replaced.
LEMMA DirSet ==
  ASSUME NEW c, ConnSound(c), NEW o \in BOOLEAN, NEW d, DirSound(d), HasKey(d) => Named(c)
  PROVE  LET e == [c EXCEPT !.dir = [c.dir EXCEPT ![o] = d]]
         IN /\ ConnSound(e) /\ e.pid = c.pid /\ e.clientOut = c.clientOut /\ e.dir[o] = d
            /\ \A x \in BOOLEAN : x # o => e.dir[x] = c.dir[x]
  <1>. DEFINE p == [c.dir EXCEPT ![o] = d]
              e == [c EXCEPT !.dir = p]
  <1>1. c \in Connections /\ d \in Directions /\ c.dir \in [BOOLEAN -> Directions]
    BY DEF ConnSound, Connections, DirPairs, DirSound
  <1>2. p \in DirPairs /\ p[o] = d /\ \A x \in BOOLEAN : x # o => p[x] = c.dir[x]
    BY <1>1 DEF DirPairs
  <1>. HIDE DEF p
  <1>3. /\ e \in Connections /\ e.dir = p /\ e.pid = c.pid /\ e.random = c.random /\ e.clientOut = c.clientOut
    BY <1>1, <1>2 DEF Connections
  <1>. HIDE DEF e
  <1>4. ConnSound(e)
    BY <1>2, <1>3 DEF ConnSound, Named
  <1>. QED BY <1>2, <1>3, <1>4 DEF e, p

\* A connection is replaced.
LEMMA ConnSet ==
  ASSUME NEW conns, ConnsSound(conns), NEW id \in Conns, NEW b, ConnSound(b), b.pid = PidOf[id]
  PROVE  LET put == [conns EXCEPT ![id] = b]
         IN ConnsSound(put) /\ put[id] = b /\ \A j \in Conns : j # id => put[j] = conns[j]
  <1>. DEFINE put == [conns EXCEPT ![id] = b]
  <1>1. conns \in [Conns -> Connections \cup {Hole}] /\ b \in Connections
    BY DEF ConnsSound, ConnSound
  <1>2. put \in [Conns -> Connections \cup {Hole}] /\ put[id] = b /\ \A j \in Conns : j # id => put[j] = conns[j]
    BY <1>1
  <1>. HIDE DEF put
  <1>3. ConnsSound(put)
    BY <1>2 DEF ConnsSound
  <1>. QED BY <1>2, <1>3 DEF put

\* A connection that holds no more than its entry adds nothing to the total.
LEMMA PutHeld ==
  ASSUME NEW conns, ConnsSound(conns), NEW id \in Conns, NEW b, ConnSound(b), b.pid = PidOf[id],
         ConnectionHeld(b) <= HeldOf(conns)[id]
  PROVE  TotalHeld([conns EXCEPT ![id] = b]) <= TotalHeld(conns)
  <1>. DEFINE put == [conns EXCEPT ![id] = b]
              w == HeldOf(conns)
              v == HeldOf(put)
  <1>1. ConnsSound(put) /\ put[id] = b /\ \A j \in Conns : j # id => put[j] = conns[j]
    BY ConnSet
  <1>. HIDE DEF put
  <1>2. \A j \in Conns : w[j] \in Nat /\ v[j] \in Nat
    BY <1>1, HeldOfType
  <1>3. \A j \in Conns : v[j] <= w[j]
    <2>1. \A j \in Conns : j # id => v[j] = w[j]
      BY <1>1 DEF HeldOf
    <2>2. v[id] = 0 \/ v[id] = ConnectionHeld(b)
      BY <1>1 DEF HeldOf
    <2>. HIDE DEF w, v
    <2>3. v[id] <= w[id]
      BY <1>2, <2>2 DEF w
    <2>. QED BY <1>2, <2>1, <2>3
  <1>. HIDE DEF w, v
  <1>4. Total(v, Conns) <= Total(w, Conns)
    BY <1>2, <1>3, TotalLess, TlsAssumption
  <1>5. TotalHeld(put) = Total(v, Conns) /\ TotalHeld(conns) = Total(w, Conns)
    BY <1>1, TotalHeldIs DEF v, w
  <1>. QED BY <1>4, <1>5 DEF put

\* Every stream of after is one of e, for connection id, or one of conns.
FewerStreams(after, conns, id, e) ==
  \A j \in Conns, o \in BOOLEAN :
    after[j] # Hole /\ after[j].dir[o].stream # Hole =>
      IF j = id THEN e.dir[o].stream # Hole ELSE conns[j] # Hole /\ conns[j].dir[o].stream # Hole

\* What handling a packet leaves.
HandledOk(done, conns, id, e) ==
  /\ ConnsSound(done.conns) /\ done.decoded \in ItemRows /\ done.stuck \in BOOLEAN
  /\ done.stuck \/ TotalHeld(done.conns) <= MaxTlsBytes
  /\ FewerStreams(done.conns, conns, id, e)

\* The packet finds connection e, which holds no more than the entry in conns.
Arrives(conns, id, e) ==
  /\ ConnsSound(conns) /\ TotalHeld(conns) <= MaxTlsBytes
  /\ ConnSound(e) /\ e.pid = PidOf[id] /\ ConnectionHeld(e) <= HeldOf(conns)[id]

\* A packet that returns early adds no bytes.
LEMMA LeftSound ==
  ASSUME NEW conns, NEW id \in Conns, NEW e, Arrives(conns, id, e), NEW out \in BOOLEAN,
         NEW d, DirLess(d, e.dir[out], Named(e)), NEW decoded \in ItemRows, NEW done \in Left(conns, id, e, out, d, decoded)
  PROVE  HandledOk(done, conns, id, e)
  <1>. DEFINE b == [e EXCEPT !.dir = [e.dir EXCEPT ![out] = d]]
              put == [conns EXCEPT ![id] = b]
  <1>1. /\ ConnsSound(conns) /\ TotalHeld(conns) <= MaxTlsBytes /\ ConnSound(e) /\ e.pid = PidOf[id]
        /\ ConnectionHeld(e) <= HeldOf(conns)[id]
    BY DEF Arrives
  <1>2. done.conns = put /\ done.stuck = FALSE /\ done.decoded = decoded
    BY DEF Left
  <1>3. ConnLess(b, e)
    BY <1>1, DirPut
  <1>. HIDE DEF b
  <1>4. ConnSound(b) /\ b.pid = PidOf[id] /\ ConnectionHeld(b) <= ConnectionHeld(e)
    BY <1>1, <1>3 DEF ConnLess
  <1>5. ConnectionHeld(b) \in Nat /\ ConnectionHeld(e) \in Nat /\ HeldOf(conns)[id] \in Nat
    BY <1>1, <1>4, ConnectionHeldType, HeldOfType
  <1>6. ConnectionHeld(b) <= HeldOf(conns)[id]
    BY <1>1, <1>4, <1>5
  <1>7. TotalHeld(put) <= TotalHeld(conns)
    BY <1>1, <1>4, <1>6, PutHeld
  <1>8. ConnsSound(put) /\ put[id] = b /\ \A j \in Conns : j # id => put[j] = conns[j]
    BY <1>1, <1>4, ConnSet
  <1>. HIDE DEF put
  <1>9. TotalHeld(put) \in Nat /\ TotalHeld(conns) \in Nat /\ MaxTlsBytes \in Nat
    BY <1>1, <1>8, TotalHeldIs, TlsAssumption
  <1>10. TotalHeld(put) <= MaxTlsBytes
    BY <1>1, <1>7, <1>9
  <1>11. FewerStreams(put, conns, id, e)
    BY <1>3, <1>8 DEF FewerStreams, ConnLess
  <1>. QED BY <1>2, <1>8, <1>10, <1>11 DEF HandledOk

\* A packet read to its end leaves the bytes within the budget.
LEMMA WithinBudgetSound ==
  ASSUME NEW conns, NEW id \in Conns, NEW e, Arrives(conns, id, e), NEW ready, ConnSound(ready.conn),
         ready.conn.pid = PidOf[id], ready.decoded \in ItemRows,
         \A o \in BOOLEAN : e.dir[o].stream = Hole => ready.conn.dir[o].stream = Hole,
         NEW done \in WithinBudget(conns, id, ready)
  PROVE  HandledOk(done, conns, id, e)
  <1>. DEFINE b == ready.conn
              put == [conns EXCEPT ![id] = b]
  <1>1. ConnsSound(conns)
    BY DEF Arrives
  <1>2. ConnsSound(put) /\ put[id] = b /\ \A j \in Conns : j # id => put[j] = conns[j]
    BY <1>1, ConnSet
  <1>3. PICK x \in Budgeted(put) : done = [conns |-> x.conns, stuck |-> x.stuck, decoded |-> ready.decoded]
    BY DEF WithinBudget
  <1>. HIDE DEF put
  <1>4. Shrunk(x.conns, put) /\ (~x.stuck => TotalHeld(x.conns) <= MaxTlsBytes)
    BY <1>2, BudgetedShrunk
  <1>5. done.conns = x.conns /\ done.stuck = x.stuck /\ done.decoded = ready.decoded
    BY <1>3
  <1>6. x.stuck \in BOOLEAN
    <2>1. \E c : x.stuck = OverBudget(c)
      BY DEF Budgeted
    <2>. QED BY <2>1 DEF OverBudget
  <1>7. FewerStreams(x.conns, conns, id, e)
    <2>. SUFFICES ASSUME NEW j \in Conns, NEW o \in BOOLEAN, x.conns[j] # Hole, x.conns[j].dir[o].stream # Hole
                  PROVE  IF j = id THEN e.dir[o].stream # Hole ELSE conns[j] # Hole /\ conns[j].dir[o].stream # Hole
      BY DEF FewerStreams
    <2>1. put[j] # Hole /\ put[j].dir[o].stream # Hole
      BY <1>4 DEF Shrunk, ConnLess
    <2>. QED BY <1>2, <2>1
  <1>. QED BY <1>4, <1>5, <1>6, <1>7 DEF HandledOk, Shrunk

\* Either way, of the records of a payload.
LEMMA RecordsHandledSound ==
  ASSUME NEW conns, NEW id \in Conns, NEW e, Arrives(conns, id, e), NEW out \in BOOLEAN, e.dir[out].stream # Hole,
         NEW fed, PayloadOk(fed, e.dir[out], Named(e)), tNow \in Nat, NEW decoded \in ItemRows,
         NEW done \in RecordsHandled(conns, id, e, out, fed, decoded)
  PROVE  HandledOk(done, conns, id, e)
  <1>1. ConnSound(e) /\ e.pid = PidOf[id]
    BY DEF Arrives
  <1>2. CASE ~fed.go
    <2>1. done \in Left(conns, id, e, out, fed.d, decoded)
      BY <1>2 DEF RecordsHandled
    <2>2. DirLess(fed.d, e.dir[out], Named(e))
      BY <1>2 DEF PayloadOk
    <2>. QED BY <2>1, <2>2, LeftSound
  <1>3. CASE fed.go
    <2>. DEFINE c == [e EXCEPT !.dir = [e.dir EXCEPT ![out] = fed.d]]
                records == fed.d.wait \o fed.records
                ready == Processed(c, out, records, SuiteOf(e), tNow, decoded)
    <2>1. done \in WithinBudget(conns, id, ready)
      BY <1>3 DEF RecordsHandled
    <2>2. /\ fed.d \in Directions /\ fed.d.stream # Hole /\ fed.d.terminal = Hole /\ (HasKey(fed.d) => Named(e))
          /\ fed.records \in Seq(Recs)
      BY <1>3 DEF PayloadOk
    <2>3. DirSound(fed.d)
      BY <2>2 DEF DirSound
    <2>4. ConnSound(c) /\ c.pid = PidOf[id] /\ c.dir[out] = fed.d /\ \A x \in BOOLEAN : x # out => c.dir[x] = e.dir[x]
      BY <1>1, <2>2, <2>3, DirSet
    <2>5. records \in Seq(Recs)
      <3>1. fed.d.wait \in Seq(Recs)
        BY <2>2 DEF Directions, RecordRows
      <3>. QED BY <2>2, <3>1, ConcatProperties
    <2>. HIDE DEF c, records
    <2>6. ProcessedOk(ready, c)
      BY <1>1, <2>2, <2>4, <2>5, SuiteOfType, ProcessedSound
    <2>. HIDE DEF ready
    <2>7. /\ ConnSound(ready.conn) /\ ready.conn.pid = PidOf[id] /\ ready.decoded \in ItemRows
          /\ \A o \in BOOLEAN : e.dir[o].stream = Hole => ready.conn.dir[o].stream = Hole
      BY <2>4, <2>6 DEF ProcessedOk
    <2>. QED BY <2>1, <2>7, WithinBudgetSound
  <1>. QED BY <1>2, <1>3

\* A packet of what a direction sends, or of what was forged.
Packets == [seq : Nat, payload : Seq(RecordUnits), cut : BOOLEAN]

\* The same of a payload.
LEMMA PayloadHandledSound ==
  ASSUME NEW conns, NEW id \in Conns, NEW e, Arrives(conns, id, e), NEW out \in BOOLEAN,
         NEW d, DirLess(d, e.dir[out], Named(e)), NEW p \in Packets, tNow \in Nat, NEW decoded \in ItemRows,
         NEW done \in PayloadHandled(conns, id, e, out, d, p, decoded)
  PROVE  HandledOk(done, conns, id, e)
  <1>. DEFINE t == Terminated(d, "handshakeNotObserved", Named(e))
              fed == PayloadFed(d, p.seq, p.payload, Named(e))
  <1>1. ConnSound(e) /\ DirSound(d) /\ (HasKey(d) => Named(e)) /\ Named(e) \in BOOLEAN /\ DirSound(e.dir[out])
    BY DEF Arrives, DirLess, Named, ConnSound
  <1>2. \/ done \in Left(conns, id, e, out, t, decoded)
        \/ done \in Left(conns, id, e, out, d, decoded)
        \/ d.terminal = Hole /\ d.stream # Hole /\ done \in RecordsHandled(conns, id, e, out, fed, decoded)
    BY DEF PayloadHandled
  <1>3. CASE done \in Left(conns, id, e, out, t, decoded)
    <2>1. DirLess(t, d, Named(e))
      BY <1>1, TerminatedSound, FallenLess, LessenedNamed, ReasonNames
    <2>2. DirLess(t, e.dir[out], Named(e))
      BY <1>1, <2>1, DirLessTrans
    <2>. HIDE DEF t
    <2>. QED BY <1>3, <2>2, LeftSound
  <1>4. CASE done \in Left(conns, id, e, out, d, decoded)
    BY <1>4, LeftSound
  <1>5. CASE d.terminal = Hole /\ d.stream # Hole /\ done \in RecordsHandled(conns, id, e, out, fed, decoded)
    <2>. DEFINE seg == SegmentFed(d.stream, p.seq, p.payload)
    <2>1. d.stream \in TlsStreams(Recs) /\ p.seq \in Nat /\ p.payload \in Seq(RecordUnits)
      BY <1>1, <1>5 DEF DirSound, Directions, StreamOrNone, Packets
    <2>2. seg \in SegmentResults
      BY <2>1, SegmentFedType
    <2>. HIDE DEF seg
    <2>3. fed = GapChecked(d, seg, Named(e))
      BY DEF PayloadFed, seg
    <2>4. PayloadOk(fed, d, Named(e))
      BY <1>1, <1>5, <2>2, <2>3, GapCheckedSound
    <2>. HIDE DEF fed
    <2>5. PayloadOk(fed, e.dir[out], Named(e))
      <3>1. CASE fed.go
        BY <2>4, <3>1 DEF PayloadOk
      <3>2. CASE ~fed.go
        <4>1. DirLess(fed.d, d, Named(e))
          BY <2>4, <3>2 DEF PayloadOk
        <4>2. DirLess(fed.d, e.dir[out], Named(e))
          BY <1>1, <4>1, DirLessTrans
        <4>. QED BY <3>2, <4>2 DEF PayloadOk
      <3>. QED BY <3>1, <3>2
    <2>6. e.dir[out].stream # Hole
      BY <1>5 DEF DirLess
    <2>. QED BY <1>5, <2>5, <2>6, RecordsHandledSound
  <1>. QED BY <1>2, <1>3, <1>4, <1>5

\* The connection a packet finds: the entry, or a new one.
Found(conns, id) == IF conns[id] = Hole THEN NewConnection(PidOf[id]) ELSE conns[id]

\* try_decrypt_and_emit, once room is made.
LEMMA PacketHandledSound ==
  ASSUME NEW conns, ConnsSound(conns), TotalHeld(conns) <= MaxTlsBytes, NEW id \in Conns, NEW out \in BOOLEAN,
         NEW w, NEW flow, NEW p \in Packets, tNow \in Nat, NEW decoded \in ItemRows,
         NEW done \in PacketHandled(conns, id, out, w, flow, p, decoded)
  PROVE  HandledOk(done, conns, id, Opened(Found(conns, id), id, flow))
  <1>. DEFINE c == Found(conns, id)
              e == Opened(c, id, flow)
              d == Prepared(e.dir[out], e, id, out, w, flow, p.cut)
  <1>1. done \in PayloadHandled(conns, id, e, out, d, p, decoded)
    BY DEF PacketHandled, DirectionHandled, Found
  <1>2. ConnSound(c) /\ c.pid = PidOf[id] /\ ConnectionHeld(c) <= HeldOf(conns)[id]
    <2>1. CASE conns[id] = Hole
      <3>1. PidOf[id] \in Pids
        BY TlsAssumption
      <3>2. c = NewConnection(PidOf[id]) /\ HeldOf(conns)[id] = 0
        BY <2>1 DEF Found, HeldOf
      <3>. HIDE DEF c
      <3>. QED BY <3>1, <3>2, NewConnectionSound
    <2>2. CASE conns[id] # Hole
      <3>1. c = conns[id] /\ HeldOf(conns)[id] = ConnectionHeld(conns[id])
        BY <2>2 DEF Found, HeldOf
      <3>2. ConnSound(conns[id]) /\ conns[id].pid = PidOf[id]
        BY <2>2 DEF ConnsSound
      <3>3. ConnectionHeld(conns[id]) \in Nat
        BY <3>2, ConnectionHeldType
      <3>. HIDE DEF c
      <3>. QED BY <3>1, <3>2, <3>3
    <2>. QED BY <2>1, <2>2
  <1>. HIDE DEF c
  <1>3. ConnSound(e) /\ e.pid = c.pid /\ ConnectionHeld(e) = ConnectionHeld(c) /\ (id \in flow.hello => Named(e))
    BY <1>2, OpenedSound
  <1>. HIDE DEF e
  <1>4. Arrives(conns, id, e)
    BY <1>2, <1>3 DEF Arrives
  <1>5. DirSound(e.dir[out]) /\ (HasKey(e.dir[out]) => Named(e)) /\ p.cut \in BOOLEAN
    BY <1>3 DEF ConnSound, Packets
  <1>6. DirLess(d, e.dir[out], Named(e))
    BY <1>3, <1>5, PreparedSound
  <1>. HIDE DEF d
  <1>7. HandledOk(done, conns, id, e)
    BY <1>1, <1>4, <1>6, PayloadHandledSound
  <1>. QED BY <1>7 DEF e, c
-----------------------------------------------------------------------------
(* Counting directions *)

\* There are finitely many directions.
LEMMA ActiveFinite ==
  ASSUME NEW conns, NEW pids
  PROVE  IsFiniteSet(ActiveDirections(conns, pids)) /\ Cardinality(ActiveDirections(conns, pids)) \in Nat
  <1>1. IsFiniteSet(Conns) /\ IsFiniteSet(BOOLEAN)
    <2>1. BOOLEAN = {TRUE} \cup {FALSE}
      OBVIOUS
    <2>. DEFINE a == {TRUE}
                b == {FALSE}
    <2>2. IsFiniteSet(a) /\ IsFiniteSet(b)
      BY FS_Singleton
    <2>3. BOOLEAN = a \cup b
      BY <2>1
    <2>. HIDE DEF a, b
    <2>4. IsFiniteSet(a \cup b)
      BY <2>2, FS_Union
    <2>. QED BY <2>3, <2>4, TlsAssumption
  <1>2. IsFiniteSet(Conns \X BOOLEAN)
    BY <1>1, FS_Product
  <1>3. ActiveDirections(conns, pids) \in SUBSET (Conns \X BOOLEAN)
    BY DEF ActiveDirections, Known
  <1>. QED BY <1>2, <1>3, FS_Subset, FS_CardinalityType

\* Fewer directions, a smaller count.
LEMMA CountLess ==
  ASSUME NEW a, NEW b, NEW pids, ActiveDirections(a, pids) \subseteq ActiveDirections(b, pids)
  PROVE  Cardinality(ActiveDirections(a, pids)) <= Cardinality(ActiveDirections(b, pids))
  BY ActiveFinite, FS_Subset

\* The two directions of a connection.
BothOf(id) == {<<id, TRUE>>} \cup {<<id, FALSE>>}

\* A direction of a connection is one of its two.
LEMMA OneOfBoth ==
  ASSUME NEW id, NEW v \in Conns \X BOOLEAN, v[1] = id
  PROVE  v \in BothOf(id)
  <1>1. v = <<v[1], v[2]>> /\ v[2] \in BOOLEAN
    OBVIOUS
  <1>2. CASE v[2] = TRUE
    <2>1. v = <<id, TRUE>>
      BY <1>1, <1>2, Zenon
    <2>. QED BY <2>1 DEF BothOf
  <1>3. CASE v[2] = FALSE
    <2>1. v = <<id, FALSE>>
      BY <1>1, <1>3, Zenon
    <2>. QED BY <2>1 DEF BothOf
  <1>4. v[2] = TRUE \/ v[2] = FALSE
    BY <1>1, Zenon
  <1>. QED BY <1>2, <1>3, <1>4

\* There are at most two of them.
LEMMA BothOfSize ==
  ASSUME NEW id
  PROVE  IsFiniteSet(BothOf(id)) /\ Cardinality(BothOf(id)) \in Nat /\ Cardinality(BothOf(id)) <= 2
  <1>. DEFINE a == {<<id, TRUE>>}
              b == {<<id, FALSE>>}
  <1>1. IsFiniteSet(a) /\ IsFiniteSet(b) /\ Cardinality(a) = 1 /\ Cardinality(b) = 1
    BY FS_Singleton
  <1>. HIDE DEF a, b
  <1>2. IsFiniteSet(a \cup b) /\ Cardinality(a \cup b) = Cardinality(a) + Cardinality(b) - Cardinality(a \cap b)
    BY <1>1, FS_Union
  <1>3. Cardinality(a \cap b) \in Nat /\ Cardinality(a \cup b) \in Nat
    <2>1. IsFiniteSet(a \cap b)
      BY <1>1, FS_Intersection
    <2>. QED BY <1>2, <2>1, FS_CardinalityType
  <1>. QED BY <1>1, <1>2, <1>3 DEF BothOf, a, b

\* Where no room is needed two more directions of the connection are one too many at most.
LEMMA RoomCount ==
  ASSUME NEW conns, NEW pids, NEW limit \in Nat \ {0}, NEW id, ~NeedsRoom(conns, pids, limit, id),
         NEW after, ActiveDirections(after, pids) \subseteq ActiveDirections(conns, pids) \cup BothOf(id)
  PROVE  Cardinality(ActiveDirections(after, pids)) <= limit + 1
  <1>. DEFINE D == ActiveDirections(conns, pids)
              P == BothOf(id)
              A == ActiveDirections(after, pids)
              n == Cardinality(D)
              m == Cardinality(P)
  <1>1. IsFiniteSet(D) /\ n \in Nat /\ IsFiniteSet(P) /\ m \in Nat /\ m <= 2 /\ IsFiniteSet(A) /\ Cardinality(A) \in Nat
    BY ActiveFinite, BothOfSize
  <1>2. n < limit \/ Victims(conns, pids, id) = {}
    BY <1>1 DEF NeedsRoom
  <1>3. CASE n < limit
    <2>. HIDE DEF D, P, A
    <2>1. IsFiniteSet(D \cup P) /\ Cardinality(D \cup P) = n + m - Cardinality(D \cap P)
      BY <1>1, FS_Union
    <2>2. Cardinality(D \cap P) \in Nat
      <3>1. IsFiniteSet(D \cap P)
        BY <1>1, FS_Intersection
      <3>. QED BY <3>1, FS_CardinalityType
    <2>3. Cardinality(A) <= Cardinality(D \cup P)
      BY <2>1, FS_Subset DEF D, P, A
    <2>. HIDE DEF n, m
    <2>. QED BY <1>1, <1>3, <2>1, <2>2, <2>3 DEF A
  <1>4. CASE Victims(conns, pids, id) = {}
    <2>1. D \subseteq P
      <3>. SUFFICES ASSUME NEW v \in D PROVE v \in P
        OBVIOUS
      <3>1. v[1] = id
        BY <1>4 DEF Victims
      <3>2. v \in Conns \X BOOLEAN
        BY DEF ActiveDirections, Known
      <3>. QED BY <3>1, <3>2, OneOfBoth
    <2>2. A \subseteq P
      BY <2>1
    <2>. HIDE DEF A, P
    <2>3. Cardinality(A) <= m
      BY <1>1, <2>2, FS_Subset
    <2>. HIDE DEF m
    <2>. QED BY <1>1, <2>3 DEF A
  <1>. QED BY <1>2, <1>3, <1>4

\* Only the packet's own connection may have more streams than before.
LEMMA FewerActive ==
  ASSUME NEW after, NEW conns, ConnsSound(after), ConnsSound(conns), NEW id \in Conns, NEW e,
         FewerStreams(after, conns, id, e), NEW pids
  PROVE  /\ ActiveDirections(after, pids) \subseteq ActiveDirections(conns, pids) \cup BothOf(id)
         /\ PidOf[id] \notin pids => ActiveDirections(after, pids) \subseteq ActiveDirections(conns, pids)
  <1>1. ASSUME NEW v \in ActiveDirections(after, pids)
        PROVE  IF v[1] = id THEN v \in BothOf(id) /\ PidOf[id] \in pids ELSE v \in ActiveDirections(conns, pids)
    <2>1. /\ v \in Conns \X BOOLEAN /\ after[v[1]] # Hole /\ after[v[1]].pid \in pids
          /\ after[v[1]].dir[v[2]].stream # Hole
      BY DEF ActiveDirections, Known
    <2>2. after[v[1]].pid = PidOf[v[1]]
      BY <2>1 DEF ConnsSound
    <2>3. CASE v[1] = id
      <3>1. v \in BothOf(id)
        BY <2>1, <2>3, OneOfBoth
      <3>. QED BY <2>1, <2>2, <2>3, <3>1
    <2>4. CASE v[1] # id
      <3>1. conns[v[1]] # Hole /\ conns[v[1]].dir[v[2]].stream # Hole
        BY <2>1, <2>4 DEF FewerStreams
      <3>2. conns[v[1]].pid = PidOf[v[1]]
        BY <2>1, <3>1 DEF ConnsSound
      <3>3. v \in ActiveDirections(conns, pids)
        BY <2>1, <2>2, <3>1, <3>2 DEF ActiveDirections, Known
      <3>. QED BY <2>4, <3>3
    <2>. QED BY <2>3, <2>4
  <1>. QED BY <1>1

\* The bounds, of any connections.
Bounded(conns) ==
  /\ TotalHeld(conns) <= MaxTlsBytes
  /\ Cardinality(ActiveDirections(conns, Pids)) <= MaxDirections + 1
  /\ \A pid \in Pids : Cardinality(ActiveDirections(conns, {pid})) <= MaxPidDirections + 1

\* The limits are numbers.
LEMMA Limits ==
  MaxTlsBytes \in Nat /\ MaxDirections \in Nat \ {0} /\ MaxPidDirections \in Nat \ {0}
  BY TlsAssumption

\* Where there is no stream more, the counts stay within their bounds.
LEMMA CountsKept ==
  ASSUME NEW after, NEW conns, Bounded(conns),
         \A pids : ActiveDirections(after, pids) \subseteq ActiveDirections(conns, pids)
  PROVE  /\ Cardinality(ActiveDirections(after, Pids)) <= MaxDirections + 1
         /\ \A pid \in Pids : Cardinality(ActiveDirections(after, {pid})) <= MaxPidDirections + 1
  <1>1. ASSUME NEW pids, NEW n \in Nat, Cardinality(ActiveDirections(conns, pids)) <= n
        PROVE  Cardinality(ActiveDirections(after, pids)) <= n
    <2>1. Cardinality(ActiveDirections(after, pids)) <= Cardinality(ActiveDirections(conns, pids))
      BY CountLess
    <2>2. Cardinality(ActiveDirections(after, pids)) \in Nat /\ Cardinality(ActiveDirections(conns, pids)) \in Nat
      BY ActiveFinite
    <2>. QED BY <1>1, <2>1, <2>2
  <1>2. MaxDirections + 1 \in Nat /\ MaxPidDirections + 1 \in Nat
    BY Limits
  <1>. QED BY <1>1, <1>2 DEF Bounded

\* What takes and never adds keeps the bounds.
LEMMA ShrunkBounded ==
  ASSUME NEW after, NEW conns, ConnsSound(conns), Bounded(conns), Shrunk(after, conns)
  PROVE  Bounded(after)
  <1>1. /\ TotalHeld(after) <= TotalHeld(conns)
        /\ \A pids : ActiveDirections(after, pids) \subseteq ActiveDirections(conns, pids)
    BY ShrunkTotals
  <1>2. TotalHeld(after) \in Nat /\ TotalHeld(conns) \in Nat
    BY TotalHeldIs DEF Shrunk
  <1>3. TotalHeld(after) <= MaxTlsBytes
    BY <1>1, <1>2, Limits DEF Bounded
  <1>. QED BY <1>1, <1>3, CountsKept DEF Bounded

\* A packet for which no slot is needed brings no stream.
LEMMA NoSlot ==
  ASSUME ConnsSound(tConns), NEW id \in Conns, NEW flow, ~NeedsSlot(id, flow), NEW after, ConnsSound(after),
         FewerStreams(after, tConns, id, Opened(Found(tConns, id), id, flow))
  PROVE  \A pids : ActiveDirections(after, pids) \subseteq ActiveDirections(tConns, pids)
  <1>. DEFINE c == Found(tConns, id)
              e == Opened(c, id, flow)
  <1>1. ConnSound(c)
    <2>1. CASE tConns[id] = Hole
      <3>1. PidOf[id] \in Pids
        BY TlsAssumption
      <3>. QED BY <2>1, <3>1, NewConnectionSound DEF Found
    <2>2. CASE tConns[id] # Hole
      BY <2>2 DEF Found, ConnsSound
    <2>. QED BY <2>1, <2>2
  <1>2. ASSUME NEW o \in BOOLEAN, e.dir[o].stream # Hole
        PROVE  tConns[id] # Hole /\ tConns[id].dir[o].stream # Hole
    <2>. HIDE DEF c
    <2>1. c.dir[o].stream # Hole \/ <<id, o>> \in flow.syn
      BY <1>1, <1>2, OpenedSound
    <2>2. CASE tConns[id] = Hole
      <3>1. c = NewConnection(PidOf[id]) /\ PidOf[id] \in Pids
        BY <2>2, TlsAssumption DEF Found, c
      <3>2. c.dir[o].stream = Hole
        BY <3>1, NewConnectionSound
      <3>. QED BY <2>1, <2>2, <3>2 DEF NeedsSlot
    <2>3. CASE tConns[id] # Hole
      <3>1. c = tConns[id]
        BY <2>3 DEF Found, c
      <3>. QED BY <2>1, <2>3, <3>1 DEF NeedsSlot
    <2>. QED BY <2>2, <2>3
  <1>. HIDE DEF e
  <1>3. FewerStreams(after, tConns, id, e)
    BY DEF e
  <1>4. ASSUME NEW pids, NEW v \in ActiveDirections(after, pids) PROVE v \in ActiveDirections(tConns, pids)
    <2>1. /\ v \in Conns \X BOOLEAN /\ after[v[1]] # Hole /\ after[v[1]].pid \in pids
          /\ after[v[1]].dir[v[2]].stream # Hole
      BY DEF ActiveDirections, Known
    <2>2. IF v[1] = id THEN e.dir[v[2]].stream # Hole ELSE tConns[v[1]] # Hole /\ tConns[v[1]].dir[v[2]].stream # Hole
      BY <1>3, <2>1 DEF FewerStreams
    <2>3. tConns[v[1]] # Hole /\ tConns[v[1]].dir[v[2]].stream # Hole
      BY <1>2, <2>1, <2>2
    <2>4. after[v[1]].pid = PidOf[v[1]] /\ tConns[v[1]].pid = PidOf[v[1]]
      BY <2>1, <2>3 DEF ConnsSound
    <2>. QED BY <2>1, <2>3, <2>4 DEF ActiveDirections, Known
  <1>. QED BY <1>4
-----------------------------------------------------------------------------
(* The invariant of the bounds, and packets *)

DecodedRows == [Conns -> [BOOLEAN -> ItemRows]]

\* The inductive invariant of the bounds.
TlsSafe ==
  /\ ConnsSound(tConns) /\ tNow \in Nat /\ tDecoded \in DecodedRows /\ tScene \in DOMAIN Scenes
  /\ (~tStuck => Bounded(tConns))

\* Frames of a direction keep the type of what is decoded.
LEMMA DecodedSet ==
  ASSUME tDecoded \in DecodedRows, NEW id \in Conns, NEW out \in BOOLEAN, NEW rows \in ItemRows
  PROVE  [tDecoded EXCEPT ![id] = [@ EXCEPT ![out] = rows]] \in DecodedRows
  BY DEF DecodedRows

\* A packet keeps the invariant: room was made for one stream where two may come.
LEMMA TryDecryptSafe ==
  ASSUME TlsSafe, ~tStuck, NEW id \in Conns, NEW out \in BOOLEAN, NEW flow, NEW p \in Packets,
         TryDecrypt(id, out, flow, p), UNCHANGED <<tScene, tNow>>
  PROVE  TlsSafe'
  <1>. DEFINE read == FilesRead(kWatcher, kNow)
              polled == Capped(read, kNow)
              rooms == IF NeedsSlot(id, flow) THEN RoomMade(tConns, id) ELSE {[conns |-> tConns, stuck |-> FALSE]}
              decoded == tDecoded[id][out]
              After(room) == IF room.stuck THEN {[conns |-> room.conns, stuck |-> TRUE, decoded |-> decoded]}
                             ELSE PacketHandled(room.conns, id, out, polled, flow, p, decoded)
  <1>1. ConnsSound(tConns) /\ tNow \in Nat /\ tDecoded \in DecodedRows /\ tScene \in DOMAIN Scenes /\ Bounded(tConns)
    BY DEF TlsSafe
  <1>2. \/ UNCHANGED <<tConns, tStuck, tDecoded>>
        \/ \E room \in rooms : \E done \in After(room) :
             /\ tConns' = done.conns /\ tStuck' = done.stuck
             /\ tDecoded' = [tDecoded EXCEPT ![id] = [@ EXCEPT ![out] = done.decoded]]
    BY DEF TryDecrypt
  <1>3. CASE UNCHANGED <<tConns, tStuck, tDecoded>>
    BY <1>1, <1>3 DEF TlsSafe
  <1>4. CASE \E room \in rooms : \E done \in After(room) :
               /\ tConns' = done.conns /\ tStuck' = done.stuck
               /\ tDecoded' = [tDecoded EXCEPT ![id] = [@ EXCEPT ![out] = done.decoded]]
    <2>a. PICK room \in rooms : \E done \in After(room) :
            /\ tConns' = done.conns /\ tStuck' = done.stuck
            /\ tDecoded' = [tDecoded EXCEPT ![id] = [@ EXCEPT ![out] = done.decoded]]
      BY <1>4
    <2>1. PICK done \in After(room) :
            /\ tConns' = done.conns /\ tStuck' = done.stuck
            /\ tDecoded' = [tDecoded EXCEPT ![id] = [@ EXCEPT ![out] = done.decoded]]
      BY <2>a
    <2>2. decoded \in ItemRows
      BY <1>1 DEF DecodedRows
    <2>. HIDE DEF polled, decoded
    <2>3. Shrunk(room.conns, tConns)
      <3>1. CASE NeedsSlot(id, flow)
        BY <1>1, <3>1, RoomMadeShrunk
      <3>2. CASE ~NeedsSlot(id, flow)
        <4>1. room.conns = tConns
          BY <3>2
        <4>. QED BY <1>1, <4>1, ShrunkSelf
      <3>. QED BY <3>1, <3>2
    <2>4. ConnsSound(room.conns) /\ Bounded(room.conns)
      BY <1>1, <2>3, ShrunkBounded DEF Shrunk
    <2>5. CASE room.stuck
      <3>1. done.conns = room.conns /\ done.stuck = TRUE /\ done.decoded = decoded
        BY <2>5
      <3>2. tDecoded' \in DecodedRows
        BY <1>1, <2>1, <2>2, <3>1, DecodedSet
      <3>. QED BY <1>1, <2>1, <2>4, <3>1, <3>2 DEF TlsSafe
    <2>6. CASE ~room.stuck
      <3>. DEFINE e == Opened(Found(room.conns, id), id, flow)
      <3>1. done \in PacketHandled(room.conns, id, out, polled, flow, p, decoded)
        BY <2>6
      <3>2. HandledOk(done, room.conns, id, e)
        BY <1>1, <2>2, <2>4, <3>1, PacketHandledSound DEF Bounded
      <3>3. /\ ConnsSound(done.conns) /\ done.decoded \in ItemRows
            /\ (done.stuck \/ TotalHeld(done.conns) <= MaxTlsBytes) /\ FewerStreams(done.conns, room.conns, id, e)
        BY <3>2 DEF HandledOk
      <3>4. tDecoded' \in DecodedRows
        BY <1>1, <2>1, <3>3, DecodedSet
      <3>5. /\ Cardinality(ActiveDirections(done.conns, Pids)) <= MaxDirections + 1
            /\ \A pid \in Pids : Cardinality(ActiveDirections(done.conns, {pid})) <= MaxPidDirections + 1
        <4>1. CASE ~NeedsSlot(id, flow)
          <5>1. room.conns = tConns
            BY <4>1
          <5>2. \A pids : ActiveDirections(done.conns, pids) \subseteq ActiveDirections(tConns, pids)
            BY <1>1, <3>3, <4>1, <5>1, NoSlot
          <5>. QED BY <1>1, <5>2, CountsKept
        <4>2. CASE NeedsSlot(id, flow)
          <5>. HIDE DEF e
          <5>1. room \in RoomMade(tConns, id)
            BY <4>2
          <5>2. /\ ~NeedsRoom(room.conns, Pids, MaxDirections, id)
                /\ \E own : /\ ConnsSound(own) /\ Shrunk(room.conns, own)
                            /\ ~NeedsRoom(own, {PidOf[id]}, MaxPidDirections, id)
            BY <1>1, <2>6, <5>1, RoomMadeShrunk
          <5>3. PICK own : /\ ConnsSound(own) /\ Shrunk(room.conns, own)
                           /\ ~NeedsRoom(own, {PidOf[id]}, MaxPidDirections, id)
            BY <5>2
          <5>4. \A pids : ActiveDirections(room.conns, pids) \subseteq ActiveDirections(own, pids)
            BY <5>3, ShrunkTotals
          <5>5. \A pids : /\ ActiveDirections(done.conns, pids) \subseteq ActiveDirections(room.conns, pids) \cup BothOf(id)
                          /\ PidOf[id] \notin pids => ActiveDirections(done.conns, pids) \subseteq ActiveDirections(room.conns, pids)
            BY <2>4, <3>3, FewerActive
          <5>6. Cardinality(ActiveDirections(done.conns, Pids)) <= MaxDirections + 1
            BY <5>2, <5>5, Limits, RoomCount
          <5>7. ASSUME NEW pid \in Pids
                PROVE  Cardinality(ActiveDirections(done.conns, {pid})) <= MaxPidDirections + 1
            <6>1. CASE pid = PidOf[id]
              <7>1. ActiveDirections(done.conns, {pid}) \subseteq ActiveDirections(own, {pid}) \cup BothOf(id)
                BY <5>4, <5>5
              <7>. QED BY <5>3, <6>1, <7>1, Limits, RoomCount
            <6>2. CASE pid # PidOf[id]
              <7>1. ActiveDirections(done.conns, {pid}) \subseteq ActiveDirections(room.conns, {pid})
                BY <5>5, <6>2
              <7>2. Cardinality(ActiveDirections(done.conns, {pid})) <= Cardinality(ActiveDirections(room.conns, {pid}))
                BY <7>1, CountLess
              <7>3. Cardinality(ActiveDirections(room.conns, {pid})) <= MaxPidDirections + 1
                BY <2>4 DEF Bounded
              <7>4. /\ Cardinality(ActiveDirections(done.conns, {pid})) \in Nat
                    /\ Cardinality(ActiveDirections(room.conns, {pid})) \in Nat /\ MaxPidDirections + 1 \in Nat
                BY ActiveFinite, Limits
              <7>. QED BY <7>2, <7>3, <7>4
            <6>. QED BY <6>1, <6>2
          <5>. QED BY <5>6, <5>7
        <4>. QED BY <4>1, <4>2
      <3>6. ~done.stuck => Bounded(done.conns)
        BY <3>3, <3>5 DEF Bounded
      <3>. QED BY <1>1, <2>1, <3>3, <3>4, <3>6 DEF TlsSafe
    <2>. QED BY <2>5, <2>6
  <1>. QED BY <1>2, <1>3, <1>4

\* A captured packet keeps the invariant.
LEMMA CapturedSafe ==
  ASSUME TlsSafe, NEW id \in Conns, NEW out \in BOOLEAN, NEW p \in Packets, NEW syn, NEW hello,
         Captured(id, out, p, syn, hello)
  PROVE  TlsSafe'
  <1>1. PICK flow : TryDecrypt(id, out, flow, p)
    BY Zenon DEF Captured
  <1>2. UNCHANGED <<tScene, tNow>> /\ ~tStuck
    BY DEF Captured
  <1>. QED BY <1>1, <1>2, TryDecryptSafe

\* Sequence numbers are natural numbers.
LEMMA SeqType ==
  ASSUME NEW n \in Nat
  PROVE  n % TlsSeqMod \in Nat
  <1>1. TlsSeqMod \in Nat /\ TlsSeqMod > 0
    BY TlsStreamAssumption
  <1>. QED BY <1>1

\* Packets carry units of records.
LEMMA PacketType ==
  ASSUME NEW seq \in Nat, NEW payload \in Seq(RecordUnits), NEW cut \in BOOLEAN
  PROVE  [seq |-> seq, payload |-> payload, cut |-> cut] \in Packets
  BY DEF Packets

\* A SYN keeps the invariant.
LEMMA SynPacketSafe ==
  ASSUME TlsSafe, NEW id \in Conns, NEW out \in BOOLEAN, SynPacket(id, out)
  PROVE  TlsSafe'
  <1>. DEFINE seq == FirstData(SynSeq[id][out], TRUE)
              p == [seq |-> seq, payload |-> <<>>, cut |-> FALSE]
  <1>1. seq \in Nat
    <2>1. SynSeq[id][out] \in Nat
      BY TlsAssumption
    <2>. QED BY <2>1, FirstDataType
  <1>2. Captured(id, out, p, TRUE, FALSE)
    BY DEF SynPacket
  <1>. HIDE DEF seq
  <1>3. p \in Packets
    <2>1. <<>> \in Seq(RecordUnits)
      OBVIOUS
    <2>. QED BY <1>1, <2>1, PacketType
  <1>. HIDE DEF p
  <1>. QED BY <1>2, <1>3, CapturedSafe

\* What a direction sends is made of records.
LEMMA SentType ==
  ASSUME NEW id \in Conns, NEW out \in BOOLEAN
  PROVE  Sent[id][out] \in Seq(Recs) /\ Sent[id][out][1] \in Recs /\ AllUnits(Sent[id][out]) \in Seq(RecordUnits)
  <1>1. Sent[id][out] \in Seq(Recs) /\ Sent[id][out] # <<>>
    BY TlsAssumption DEF Recs
  <1>2. Sent[id][out][1] \in Recs
    BY <1>1
  <1>. QED BY <1>1, <1>2, AllUnitsType

\* A packet with data keeps the invariant.
LEMMA DataPacketSafe ==
  ASSUME TlsSafe, NEW id \in Conns, NEW out \in BOOLEAN, NEW i \in TlsEdges[id][out], NEW j \in TlsEdges[id][out],
         NEW cut \in BOOLEAN, DataPacket(id, out, i, j, cut)
  PROVE  TlsSafe'
  <1>. DEFINE all == AllUnits(Sent[id][out])
              payload == SubSeq(all, i + 1, j)
              seq == (SynSeq[id][out] + 1 + i) % TlsSeqMod
              p == [seq |-> seq, payload |-> payload, cut |-> cut]
  <1>1. PICK hello : Captured(id, out, p, FALSE, hello)
    BY DEF DataPacket
  <1>2. all \in Seq(RecordUnits)
    BY SentType
  <1>3. i \in 0..Len(all) /\ j \in 0..Len(all) /\ i < j
    BY TlsAssumption DEF DataPacket
  <1>. HIDE DEF all
  <1>4. payload \in Seq(RecordUnits)
    <2>. DEFINE n == Len(all)
    <2>1. n \in Nat /\ i \in 0..n /\ j \in 0..n /\ \A k \in 1..n : all[k] \in RecordUnits
      BY <1>2, <1>3
    <2>. HIDE DEF n
    <2>2. \A k \in (i + 1)..j : all[k] \in RecordUnits
      BY <2>1
    <2>3. i + 1 \in Int /\ j \in Int
      BY <2>1
    <2>. QED BY <2>1, <2>2, <2>3, SubSeqProperties
  <1>5. seq \in Nat
    <2>1. SynSeq[id][out] \in Nat /\ i \in Nat
      BY <1>3, TlsAssumption
    <2>2. SynSeq[id][out] + 1 + i \in Nat
      BY <2>1
    <2>. QED BY <2>2, SeqType
  <1>. HIDE DEF payload, seq
  <1>6. p \in Packets
    BY <1>4, <1>5, PacketType
  <1>. HIDE DEF p
  <1>. QED BY <1>1, <1>6, CapturedSafe

\* A forged packet keeps the invariant.
LEMMA ForgedPacketSafe ==
  ASSUME TlsSafe, NEW id \in Conns, NEW out \in BOOLEAN, NEW i \in TlsEdges[id][out], ForgedPacket(id, out, i)
  PROVE  TlsSafe'
  <1>. DEFINE u == <<Sent[id][out][1], 0>>
              payload == <<u>>
              seq == (SynSeq[id][out] + i) % TlsSeqMod
              p == [seq |-> seq, payload |-> payload, cut |-> FALSE]
  <1>1. Captured(id, out, p, FALSE, FALSE)
    BY DEF ForgedPacket
  <1>2. u \in RecordUnits
    BY SentType DEF RecordUnits
  <1>. HIDE DEF u
  <1>3. payload \in Seq(RecordUnits)
    BY <1>2
  <1>4. seq \in Nat
    <2>1. AllUnits(Sent[id][out]) \in Seq(RecordUnits)
      BY SentType
    <2>2. SynSeq[id][out] \in Nat /\ i \in Nat
      BY <2>1, TlsAssumption
    <2>3. SynSeq[id][out] + i \in Nat
      BY <2>2
    <2>. QED BY <2>3, SeqType
  <1>. HIDE DEF payload, seq
  <1>5. p \in Packets
    BY <1>3, <1>4, PacketType
  <1>. HIDE DEF p
  <1>. QED BY <1>1, <1>5, CapturedSafe
-----------------------------------------------------------------------------
(* Late keys *)

\* A connection that replaying may put for id: it has no stream the entry had not.
Replaces(c, id) ==
  /\ ConnSound(c) /\ c.pid = PidOf[id] /\ Named(c)
  /\ \A o \in BOOLEAN : c.dir[o].stream # Hole => tConns[id] # Hole /\ tConns[id].dir[o].stream # Hole

\* The same of all connections.
StreamsKept(conns) ==
  \A j \in Conns, o \in BOOLEAN :
    conns[j] # Hole /\ conns[j].dir[o].stream # Hole => tConns[j] # Hole /\ tConns[j].dir[o].stream # Hole

ReplaySound(s) ==
  /\ s = [conns |-> s.conns, w |-> s.w, decoded |-> s.decoded]
  /\ ConnsSound(s.conns) /\ s.decoded \in DecodedRows /\ StreamsKept(s.conns)

ReplayAt(s, id) == ReplaySound(s) /\ Replaces(s.conns[id], id)

\* Putting a connection that fits keeps the replay sound.
LEMMA ReplaySet ==
  ASSUME NEW s, ReplaySound(s), NEW id \in Conns, NEW b, Replaces(b, id), NEW w, NEW decoded \in DecodedRows
  PROVE  ReplayAt([conns |-> [s.conns EXCEPT ![id] = b], w |-> w, decoded |-> decoded], id)
  <1>. DEFINE put == [s.conns EXCEPT ![id] = b]
              t == [conns |-> put, w |-> w, decoded |-> decoded]
  <1>1. ConnsSound(s.conns) /\ StreamsKept(s.conns)
    BY DEF ReplaySound
  <1>2. ConnSound(b) /\ b.pid = PidOf[id]
    BY DEF Replaces
  <1>3. ConnsSound(put) /\ put[id] = b /\ \A j \in Conns : j # id => put[j] = s.conns[j]
    BY <1>1, <1>2, ConnSet
  <1>. HIDE DEF put
  <1>4. StreamsKept(put)
    BY <1>1, <1>3 DEF StreamsKept, Replaces
  <1>5. t.conns = put /\ t.w = w /\ t.decoded = decoded /\ t = [conns |-> t.conns, w |-> t.w, decoded |-> t.decoded]
    OBVIOUS
  <1>. HIDE DEF t
  <1>6. ReplayAt(t, id)
    BY <1>3, <1>4, <1>5 DEF ReplayAt, ReplaySound
  <1>. QED BY <1>6 DEF t, put

\* A direction that is replayed counts as active now.
LEMMA LateSound ==
  ASSUME NEW d, DirSound(d), tNow \in Nat
  PROVE  LET t == [d EXCEPT !.last = tNow]
         IN DirSound(t) /\ t.stream = d.stream /\ t.terminal = d.terminal /\ (HasKey(t) <=> HasKey(d))
  <1>. DEFINE t == [d EXCEPT !.last = tNow]
  <1>1. d \in Directions
    BY DEF DirSound
  <1>2. t \in Directions
    BY <1>1 DEF Directions
  <1>3. SameHeld(t, d) /\ t.terminal = d.terminal
    BY <1>1 DEF Directions, SameHeld
  <1>. HIDE DEF t
  <1>4. DirSound(t) /\ t.stream = d.stream /\ t.terminal = d.terminal /\ (HasKey(t) <=> HasKey(d))
    BY <1>2, <1>3 DEF DirSound, SameHeld, Vacant, HasKey
  <1>. QED BY <1>4 DEF t

\* Another direction in a connection that fits, with the stream it had.
LEMMA ReplacesWith ==
  ASSUME NEW c, NEW id, Replaces(c, id), NEW out \in BOOLEAN, NEW d, DirSound(d), d.stream = c.dir[out].stream
  PROVE  LET e == [c EXCEPT !.dir = [c.dir EXCEPT ![out] = d]]
         IN Replaces(e, id) /\ e.dir[out] = d
  <1>. DEFINE e == [c EXCEPT !.dir = [c.dir EXCEPT ![out] = d]]
  <1>1. ConnSound(c) /\ Named(c) /\ c.pid = PidOf[id]
    BY DEF Replaces
  <1>2. /\ ConnSound(e) /\ e.pid = c.pid /\ e.clientOut = c.clientOut /\ e.dir[out] = d
        /\ \A x \in BOOLEAN : x # out => e.dir[x] = c.dir[x]
    BY <1>1, DirSet
  <1>. HIDE DEF e
  <1>3. Named(e)
    BY <1>1, <1>2 DEF Named
  <1>4. \A o \in BOOLEAN : e.dir[o].stream = c.dir[o].stream
    BY <1>2
  <1>5. Replaces(e, id)
    BY <1>1, <1>2, <1>3, <1>4 DEF Replaces
  <1>. QED BY <1>2, <1>5 DEF e

\* The records that waited, which only wait beside a stream, are read.
LEMMA ResumedSafe ==
  ASSUME NEW s, ReplaySound(s), NEW id \in Conns, NEW out \in BOOLEAN, NEW c, Replaces(c, id), tNow \in Nat,
         NEW keyed, DirSound(keyed), keyed.stream = c.dir[out].stream, keyed.terminal = Hole, NEW w
  PROVE  ReplayAt(Resumed(s, id, out, c, keyed, w), id)
  <1>. DEFINE t == Resumed(s, id, out, c, keyed, w)
              going == keyed.wait # <<>> /\ (keyed.appSecret # Hole \/ keyed.hsSecret # Hole)
              late == [keyed EXCEPT !.last = tNow]
              e == [c EXCEPT !.dir = [c.dir EXCEPT ![out] = late]]
              k == [c EXCEPT !.dir = [c.dir EXCEPT ![out] = keyed]]
              done == Processed(e, out, keyed.wait, SuiteOf(c), tNow, s.decoded[id][out])
  <1>. DEFINE yes == [conns |-> [s.conns EXCEPT ![id] = done.conn], w |-> w,
                      decoded |-> [s.decoded EXCEPT ![id] = [@ EXCEPT ![out] = done.decoded]]]
              no == [conns |-> [s.conns EXCEPT ![id] = k], w |-> w, decoded |-> s.decoded]
  <1>1. t = IF going THEN yes ELSE no
    BY Zenon DEF Resumed
  <1>2. s.decoded \in DecodedRows /\ ConnSound(c)
    BY DEF ReplaySound, Replaces
  <1>. HIDE DEF t
  <1>3. CASE going
    <2>1. DirSound(late) /\ late.stream = keyed.stream /\ late.terminal = Hole
      BY LateSound
    <2>2. keyed.stream # Hole
      BY <1>3 DEF DirSound, Vacant
    <2>3. keyed.wait \in Seq(Recs)
      BY DEF DirSound, Directions, RecordRows
    <2>. HIDE DEF late
    <2>4. Replaces(e, id) /\ e.dir[out] = late
      BY <2>1, ReplacesWith
    <2>. HIDE DEF e
    <2>5. SuiteOf(c) \in SuiteSet
      BY <1>2, SuiteOfType
    <2>6. s.decoded[id][out] \in ItemRows
      BY <1>2 DEF DecodedRows
    <2>7. ConnSound(e) /\ e.pid = PidOf[id] /\ Named(e)
      BY <2>4 DEF Replaces
    <2>8. ProcessedOk(done, e)
      BY <2>1, <2>2, <2>3, <2>4, <2>5, <2>6, <2>7, ProcessedSound
    <2>. HIDE DEF done, going
    <2>. DEFINE b == done.conn
                told == [s.decoded EXCEPT ![id] = [@ EXCEPT ![out] = done.decoded]]
    <2>9. Replaces(b, id)
      <3>1. ConnSound(b) /\ b.pid = e.pid /\ b.clientOut = e.clientOut
        BY <2>8 DEF ProcessedOk
      <3>2. \A o \in BOOLEAN : b.dir[o].stream # Hole => e.dir[o].stream # Hole
        BY <2>8 DEF ProcessedOk
      <3>. HIDE DEF b
      <3>3. Named(b)
        BY <2>7, <3>1 DEF Named
      <3>. QED BY <2>4, <2>7, <3>1, <3>2, <3>3 DEF Replaces
    <2>10. told \in DecodedRows
      <3>1. done.decoded \in ItemRows
        BY <2>8 DEF ProcessedOk
      <3>. QED BY <1>2, <3>1 DEF DecodedRows
    <2>11. yes = [conns |-> [s.conns EXCEPT ![id] = b], w |-> w, decoded |-> told]
      BY Zenon
    <2>. HIDE DEF b, told, yes
    <2>12. t = [conns |-> [s.conns EXCEPT ![id] = b], w |-> w, decoded |-> told]
      BY <1>1, <1>3, <2>11
    <2>13. ReplayAt(t, id)
      BY <2>9, <2>10, <2>12, ReplaySet
    <2>. QED BY <2>13 DEF t
  <1>4. CASE ~going
    <2>. DEFINE told == s.decoded
    <2>1. Replaces(k, id)
      BY ReplacesWith
    <2>2. no = [conns |-> [s.conns EXCEPT ![id] = k], w |-> w, decoded |-> told]
      BY Zenon
    <2>3. told \in DecodedRows
      BY <1>2
    <2>. HIDE DEF k, no, told, going
    <2>4. t = [conns |-> [s.conns EXCEPT ![id] = k], w |-> w, decoded |-> told]
      BY <1>1, <1>4, <2>2
    <2>5. ReplayAt(t, id)
      BY <2>1, <2>3, <2>4, ReplaySet
    <2>. QED BY <2>5 DEF t
  <1>. QED BY <1>3, <1>4

\* replay_pending_tls_keys on one direction opens no stream.
LEMMA ReplayedSafe ==
  ASSUME NEW s, NEW id \in Conns, ReplayAt(s, id), NEW out \in BOOLEAN, tNow \in Nat
  PROVE  ReplayAt(Replayed(s, id, out), id)
  <1>. DEFINE c == s.conns[id]
              d == c.dir[out]
              app == Label(c.clientOut, out, FALSE)
              hs == Label(c.clientOut, out, TRUE)
              takesApp == d.appSecret = Hole
              takesHs == ~d.complete /\ d.hsSecret = Hole
              w1 == IF takesApp THEN SecretTaken(s.w, c.pid, c.random, app) ELSE s.w
              w2 == IF takesHs THEN SecretTaken(w1, c.pid, c.random, hs) ELSE w1
              a == IF takesApp THEN Secret(s.w, c.pid, c.random, app) ELSE d.appSecret
              h == IF takesHs THEN Secret(s.w, c.pid, c.random, hs) ELSE d.hsSecret
              keyed == [d EXCEPT !.appSecret = a, !.hsSecret = h]
  <1>1. CASE d.terminal # Hole \/ d.closed
    <2>1. Replayed(s, id, out) = s
      BY <1>1 DEF Replayed
    <2>. QED BY <2>1
  <1>2. CASE ~(d.terminal # Hole \/ d.closed)
    <2>1. ReplaySound(s) /\ Replaces(c, id)
      BY DEF ReplayAt
    <2>2. ConnSound(c) /\ Named(c)
      BY <2>1 DEF Replaces
    <2>3. DirSound(d) /\ d \in Directions /\ c.random \in Randoms
      BY <2>2 DEF ConnSound, DirSound, Connections
    <2>4. Replayed(s, id, out) = Resumed(s, id, out, c, keyed, w2)
      <3>1. keyed = [d EXCEPT !.appSecret = IF takesApp THEN Secret(s.w, c.pid, c.random, app) ELSE @,
                              !.hsSecret = IF takesHs THEN Secret(s.w, c.pid, c.random, hs) ELSE @]
        BY <2>3 DEF Directions
      <3>. HIDE DEF keyed
      <3>. QED BY <1>2, <3>1, Zenon DEF Replayed
    <2>. HIDE DEF w1, w2, c
    <2>5. a \in SecretOrNone /\ h \in SecretOrNone
      <3>1. app \in Labels /\ hs \in Labels
        BY LabelType
      <3>2. d.appSecret \in SecretOrNone /\ d.hsSecret \in SecretOrNone
        BY <2>3 DEF Directions
      <3>. HIDE DEF app, hs, d
      <3>3. Secret(s.w, c.pid, c.random, app) \in SecretOrNone /\ Secret(s.w, c.pid, c.random, hs) \in SecretOrNone
        BY <2>3, <3>1, SecretType
      <3>. QED BY <3>2, <3>3
    <2>. HIDE DEF a, h
    <2>6. DirSound(keyed) /\ keyed.stream = d.stream /\ keyed.terminal = d.terminal
      <3>. DEFINE n == Named(c)
      <3>1. n
        BY <2>2
      <3>. HIDE DEF d, n
      <3>2. DirLess(keyed, d, n)
        BY <2>3, <2>5, <3>1, KeyedSound
      <3>3. keyed.terminal = d.terminal /\ keyed.stream = d.stream
        BY <2>3 DEF Directions
      <3>. QED BY <3>2, <3>3 DEF DirLess
    <2>. HIDE DEF keyed
    <2>7. ReplayAt(Resumed(s, id, out, c, keyed, w2), id)
      BY <1>2, <2>1, <2>6, ResumedSafe
    <2>. QED BY <2>4, <2>7
  <1>. QED BY <1>1, <1>2

\* The same of one connection.
LEMMA ReplayedConnectionSafe ==
  ASSUME NEW s, ReplaySound(s), NEW id \in Conns, tNow \in Nat
  PROVE  ReplaySound(ReplayedConnection(s, id))
  <1>. DEFINE c == s.conns[id]
              w == MarkedSeen(s.w, c.pid, c.random)
              seen == [s EXCEPT !.w = w]
              t == Replayed(seen, id, TRUE)
  <1>1. CASE c = Hole \/ c.random = Hole \/ ~IsEligible(s.w, c.pid)
    <2>1. ReplayedConnection(s, id) = s
      BY <1>1 DEF ReplayedConnection
    <2>. QED BY <2>1
  <1>2. CASE ~(c = Hole \/ c.random = Hole \/ ~IsEligible(s.w, c.pid))
    <2>1. ReplayedConnection(s, id) = Replayed(t, id, FALSE)
      BY <1>2 DEF ReplayedConnection
    <2>2. Replaces(c, id)
      <3>1. ConnSound(c) /\ c.pid = PidOf[id]
        BY <1>2 DEF ReplaySound, ConnsSound
      <3>2. Named(c)
        BY <1>2, <3>1 DEF ConnSound
      <3>3. \A o \in BOOLEAN : c.dir[o].stream # Hole => tConns[id] # Hole /\ tConns[id].dir[o].stream # Hole
        BY <1>2 DEF ReplaySound, StreamsKept
      <3>. QED BY <3>1, <3>2, <3>3 DEF Replaces
    <2>. HIDE DEF w
    <2>3. seen.conns = s.conns /\ seen.w = w /\ seen.decoded = s.decoded /\ seen = [conns |-> seen.conns, w |-> seen.w, decoded |-> seen.decoded]
      BY DEF ReplaySound
    <2>. HIDE DEF seen
    <2>4. ReplayAt(seen, id)
      BY <2>2, <2>3 DEF ReplayAt, ReplaySound
    <2>5. ReplayAt(t, id)
      BY <2>4, ReplayedSafe
    <2>. HIDE DEF t
    <2>6. ReplayAt(Replayed(t, id, FALSE), id)
      BY <2>5, ReplayedSafe
    <2>. QED BY <2>1, <2>6 DEF ReplayAt
  <1>. QED BY <1>1, <1>2

\* Each connection keeps the invariant, so all do.
LEMMA ReplaysSafe ==
  ASSUME ConnsSound(tConns), tDecoded \in DecodedRows, tNow \in Nat, NEW read
  PROVE  ReplaySound(Replays(read))
  <1>. DEFINE base == [conns |-> tConns, w |-> Capped(read, kNow), decoded |-> tDecoded]
  <1>1. PICK iter : /\ Replays(read) = iter[Conns] /\ iter[{}] = base
                    /\ \A s \in SUBSET Conns : s # {} => iter[s] = ReplayedConnection(iter[s \ {AnyOf(s)}], AnyOf(s))
    BY ReplayRunsExist DEF ReplayRuns
  <1>2. ReplaySound(base)
    BY DEF ReplaySound, StreamsKept
  <1>. HIDE DEF base
  <1>3. IsFiniteSet(Conns)
    BY TlsAssumption
  <1>. DEFINE B == {s \in SUBSET Conns : ~ReplaySound(iter[s])}
  <1>4. B = {}
    <2>. SUFFICES ASSUME B # {} PROVE FALSE
      OBVIOUS
    <2>1. PICK b \in B : \A y \in B : ~(y \subseteq b /\ y # b)
      <3>1. B \subseteq SUBSET Conns
        OBVIOUS
      <3>. HIDE DEF B
      <3>. QED BY <1>3, <3>1, FiniteMinimal
    <2>2. b \in SUBSET Conns /\ ~ReplaySound(iter[b])
      BY <2>1
    <2>3. b # {}
      BY <1>1, <1>2, <2>2
    <2>4. AnyOf(b) \in b /\ b \ {AnyOf(b)} \in SUBSET Conns /\ AnyOf(b) \in Conns
      BY <2>2, <2>3 DEF AnyOf
    <2>5. ReplaySound(iter[b \ {AnyOf(b)}])
      <3>1. b \ {AnyOf(b)} \subseteq b /\ b \ {AnyOf(b)} # b
        BY <2>4
      <3>. QED BY <2>1, <2>4, <3>1
    <2>6. iter[b] = ReplayedConnection(iter[b \ {AnyOf(b)}], AnyOf(b))
      BY <1>1, <2>2, <2>3
    <2>7. ReplaySound(ReplayedConnection(iter[b \ {AnyOf(b)}], AnyOf(b)))
      BY <2>4, <2>5, ReplayedConnectionSafe
    <2>. QED BY <2>2, <2>6, <2>7
  <1>. QED BY <1>1, <1>4
-----------------------------------------------------------------------------
(* Timers, the poll and the other actions *)

\* expire_tls_state_timers on one connection adds nothing.
LEMMA ExpiredLess ==
  ASSUME NEW c, ConnSound(c), NEW now
  PROVE  ConnLess([c EXCEPT !.dir = [c.dir EXCEPT ![TRUE] = TimersExpired(@, now, Named(c)),
                                                  ![FALSE] = TimersExpired(@, now, Named(c))]], c)
  <1>. DEFINE n == Named(c)
              x == TimersExpired(c.dir[TRUE], now, n)
              y == TimersExpired(c.dir[FALSE], now, n)
              one == [c.dir EXCEPT ![TRUE] = x]
              b == [c EXCEPT !.dir = one]
              two == [b.dir EXCEPT ![FALSE] = y]
              e == [b EXCEPT !.dir = two]
              whole == [c EXCEPT !.dir = [c.dir EXCEPT ![TRUE] = TimersExpired(@, now, n),
                                                       ![FALSE] = TimersExpired(@, now, n)]]
  <1>1. /\ c \in Connections /\ DirSound(c.dir[TRUE]) /\ DirSound(c.dir[FALSE])
        /\ (HasKey(c.dir[TRUE]) => n) /\ (HasKey(c.dir[FALSE]) => n)
    BY DEF ConnSound
  <1>2. n \in BOOLEAN
    BY DEF Named
  <1>3. c.dir \in DirPairs
    BY <1>1 DEF Connections
  <1>. HIDE DEF n
  <1>4. Lessened(x, c.dir[TRUE]) /\ Lessened(y, c.dir[FALSE])
    BY <1>1, <1>2, TimersExpiredSound
  <1>5. DirLess(x, c.dir[TRUE], n) /\ DirLess(y, c.dir[FALSE], n)
    BY <1>1, <1>4, LessenedNamed
  <1>6. whole = [c EXCEPT !.dir = [c.dir EXCEPT ![TRUE] = x, ![FALSE] = y]]
    BY <1>3 DEF DirPairs
  <1>. HIDE DEF x, y, whole
  <1>7. ConnLess(b, c)
    BY <1>5, DirPut DEF n
  <1>8. b.dir = one /\ b.clientOut = c.clientOut /\ b.dir[FALSE] = c.dir[FALSE]
    BY <1>1, <1>3 DEF Connections, DirPairs
  <1>9. whole = e
    BY <1>1, <1>3, <1>6, <1>8 DEF Connections, DirPairs
  <1>. HIDE DEF one, b
  <1>10. ConnSound(b)
    BY <1>7 DEF ConnLess
  <1>11. n = Named(b)
    BY <1>8 DEF n, Named
  <1>12. ConnLess(e, b)
    <2>1. DirLess(y, b.dir[FALSE], Named(b))
      BY <1>5, <1>8, <1>11
    <2>. QED BY <1>10, <2>1, DirPut
  <1>. HIDE DEF e
  <1>13. ConnLess(whole, c)
    BY <1>7, <1>9, <1>12, ConnLessTrans
  <1>. QED BY <1>13 DEF whole, n

\* The same of all.
LEMMA AllExpiredShrunk ==
  ASSUME NEW conns, ConnsSound(conns)
  PROVE  Shrunk(AllExpired(conns), conns)
  <1>. DEFINE E(c) == [c EXCEPT !.dir = [c.dir EXCEPT ![TRUE] = TimersExpired(@, tNow, Named(c)),
                                                      ![FALSE] = TimersExpired(@, tNow, Named(c))]]
              all == AllExpired(conns)
  <1>1. all = [id \in Conns |-> IF conns[id] = Hole THEN Hole ELSE E(conns[id])]
    BY DEF AllExpired
  <1>2. ASSUME NEW id \in Conns, conns[id] # Hole
        PROVE  ConnLess(E(conns[id]), conns[id])
    <2>1. ConnSound(conns[id])
      BY <1>2 DEF ConnsSound
    <2>. QED BY <2>1, ExpiredLess
  <1>. HIDE DEF E
  <1>3. ASSUME NEW id \in Conns, conns[id] # Hole
        PROVE  ConnSound(E(conns[id])) /\ E(conns[id]).pid = PidOf[id] /\ E(conns[id]) \in Connections
    BY <1>2, <1>3 DEF ConnLess, ConnsSound, ConnSound
  <1>4. all \in [Conns -> Connections \cup {Hole}]
    BY <1>1, <1>3
  <1>5. ConnsSound(all)
    BY <1>1, <1>3, <1>4 DEF ConnsSound
  <1>. HIDE DEF all
  <1>6. \A id \in Conns : all[id] # Hole => conns[id] # Hole /\ ConnLess(all[id], conns[id])
    BY <1>1, <1>2
  <1>7. Shrunk(all, conns)
    BY <1>5, <1>6 DEF Shrunk
  <1>. QED BY <1>7 DEF all

\* Connections whose streams are among the present ones have no more directions.
LEMMA KeptActive ==
  ASSUME ConnsSound(tConns), NEW conns, ConnsSound(conns), StreamsKept(conns)
  PROVE  \A pids : ActiveDirections(conns, pids) \subseteq ActiveDirections(tConns, pids)
  <1>. SUFFICES ASSUME NEW pids, NEW v \in ActiveDirections(conns, pids)
                PROVE  v \in ActiveDirections(tConns, pids)
    OBVIOUS
  <1>1. /\ v \in Conns \X BOOLEAN /\ conns[v[1]] # Hole
        /\ conns[v[1]].pid \in pids /\ conns[v[1]].dir[v[2]].stream # Hole
    BY DEF ActiveDirections, Known
  <1>2. v[1] \in Conns /\ v[2] \in BOOLEAN
    BY <1>1
  <1>3. tConns[v[1]] # Hole /\ tConns[v[1]].dir[v[2]].stream # Hole
    BY <1>1, <1>2 DEF StreamsKept
  <1>4. conns[v[1]].pid = PidOf[v[1]] /\ tConns[v[1]].pid = PidOf[v[1]]
    BY <1>1, <1>2, <1>3 DEF ConnsSound
  <1>5. v \in Known(tConns) \X BOOLEAN
    BY <1>1, <1>2, <1>3 DEF Known
  <1>. QED BY <1>1, <1>3, <1>4, <1>5 DEF ActiveDirections

\* A poll of the emitter keeps the invariant.
LEMMA TlsPollSafe ==
  ASSUME TlsSafe, TlsPoll
  PROVE  TlsSafe'
  <1>. DEFINE r == Replays(FilesRead(kWatcher, kNow))
  <1>1. ConnsSound(tConns) /\ tNow \in Nat /\ tDecoded \in DecodedRows /\ tScene \in DOMAIN Scenes
    BY DEF TlsSafe
  <1>2. /\ ~tStuck /\ tDecoded' = r.decoded /\ UNCHANGED <<tScene, tNow>>
        /\ \E b \in Budgeted(AllExpired(r.conns)) : tConns' = b.conns /\ tStuck' = b.stuck
    BY DEF TlsPoll
  <1>3. Bounded(tConns)
    BY <1>2 DEF TlsSafe
  <1>4. ReplaySound(r)
    BY <1>1, ReplaysSafe
  <1>. HIDE DEF r
  <1>5. ConnsSound(r.conns) /\ r.decoded \in DecodedRows /\ StreamsKept(r.conns)
    BY <1>4 DEF ReplaySound
  <1>6. PICK b \in Budgeted(AllExpired(r.conns)) : tConns' = b.conns /\ tStuck' = b.stuck
    BY <1>2
  <1>7. Shrunk(AllExpired(r.conns), r.conns)
    BY <1>5, AllExpiredShrunk
  <1>8. ConnsSound(AllExpired(r.conns))
    BY <1>7 DEF Shrunk
  <1>9. Shrunk(b.conns, AllExpired(r.conns)) /\ (~b.stuck => TotalHeld(b.conns) <= MaxTlsBytes)
    BY <1>8, BudgetedShrunk
  <1>10. Shrunk(b.conns, r.conns)
    BY <1>5, <1>7, <1>9, ShrunkTrans
  <1>11. ConnsSound(b.conns)
    BY <1>10 DEF Shrunk
  <1>12. \A pids : ActiveDirections(b.conns, pids) \subseteq ActiveDirections(tConns, pids)
    <2>1. \A pids : ActiveDirections(b.conns, pids) \subseteq ActiveDirections(r.conns, pids)
      BY <1>5, <1>10, ShrunkTotals
    <2>2. \A pids : ActiveDirections(r.conns, pids) \subseteq ActiveDirections(tConns, pids)
      BY <1>1, <1>5, KeptActive
    <2>. QED BY <2>1, <2>2
  <1>13. /\ Cardinality(ActiveDirections(b.conns, Pids)) <= MaxDirections + 1
         /\ \A pid \in Pids : Cardinality(ActiveDirections(b.conns, {pid})) <= MaxPidDirections + 1
    BY <1>3, <1>12, CountsKept
  <1>14. ~b.stuck => Bounded(b.conns)
    BY <1>9, <1>13 DEF Bounded
  <1>. QED BY <1>1, <1>2, <1>5, <1>6, <1>11, <1>14 DEF TlsSafe

\* Forgetting connections takes and never adds.
LEMMA FewerConnections ==
  ASSUME NEW conns, ConnsSound(conns), NEW after, after \in [Conns -> Connections \cup {Hole}],
         \A id \in Conns : after[id] = Hole \/ after[id] = conns[id]
  PROVE  Shrunk(after, conns)
  <1>1. ConnsSound(after)
    BY DEF ConnsSound
  <1>2. Shrunk(conns, conns)
    BY ShrunkSelf
  <1>. QED BY <1>1, <1>2 DEF Shrunk

\* At first nothing is decoded.
LEMMA NoneShownType == NoneDecoded \in [BOOLEAN -> ItemRows]
  <1>1. <<>> \in ItemRows
    BY DEF ItemRows
  <1>. QED BY <1>1 DEF NoneDecoded

\* remove_decrypt_connection keeps the invariant.
LEMMA FlowGoesSafe ==
  ASSUME TlsSafe, NEW id \in Conns, FlowGoes(id)
  PROVE  TlsSafe'
  <1>. DEFINE after == [tConns EXCEPT ![id] = Hole]
  <1>1. /\ ~tStuck /\ tConns' = after /\ tDecoded' = [tDecoded EXCEPT ![id] = NoneDecoded]
        /\ UNCHANGED <<tScene, tNow, tStuck>>
    BY DEF FlowGoes
  <1>2. ConnsSound(tConns) /\ tNow \in Nat /\ tDecoded \in DecodedRows /\ tScene \in DOMAIN Scenes /\ Bounded(tConns)
    BY <1>1 DEF TlsSafe
  <1>3. after \in [Conns -> Connections \cup {Hole}] /\ \A j \in Conns : after[j] = Hole \/ after[j] = tConns[j]
    BY <1>2 DEF ConnsSound
  <1>. HIDE DEF after
  <1>4. Shrunk(after, tConns)
    BY <1>2, <1>3, FewerConnections
  <1>5. Bounded(after) /\ ConnsSound(after)
    BY <1>2, <1>4, ShrunkBounded DEF Shrunk
  <1>6. tDecoded' \in DecodedRows
    BY <1>1, <1>2, NoneShownType DEF DecodedRows
  <1>. QED BY <1>1, <1>2, <1>5, <1>6 DEF TlsSafe

\* Dropping a process's connections keeps the invariant.
LEMMA OptOutConnectionsSafe ==
  ASSUME TlsSafe, NEW pid, OptOutConnections(pid)
  PROVE  TlsSafe'
  <1>. DEFINE after == [id \in Conns |-> IF tConns[id] # Hole /\ tConns[id].pid = pid THEN Hole ELSE tConns[id]]
  <1>1. ~tStuck /\ tConns' = after /\ UNCHANGED <<tScene, tNow, tStuck, tDecoded>>
    BY DEF OptOutConnections
  <1>2. ConnsSound(tConns) /\ tNow \in Nat /\ tDecoded \in DecodedRows /\ tScene \in DOMAIN Scenes /\ Bounded(tConns)
    BY <1>1 DEF TlsSafe
  <1>3. after \in [Conns -> Connections \cup {Hole}] /\ \A j \in Conns : after[j] = Hole \/ after[j] = tConns[j]
    BY <1>2 DEF ConnsSound
  <1>. HIDE DEF after
  <1>4. Shrunk(after, tConns)
    BY <1>2, <1>3, FewerConnections
  <1>5. Bounded(after) /\ ConnsSound(after)
    BY <1>2, <1>4, ShrunkBounded DEF Shrunk
  <1>. QED BY <1>1, <1>2, <1>5 DEF TlsSafe

\* A step that leaves the connections alone keeps the invariant.
LEMMA SafeKept ==
  ASSUME TlsSafe, UNCHANGED <<tScene, tConns, tStuck, tDecoded>>, tNow' \in Nat
  PROVE  TlsSafe'
  BY DEF TlsSafe

\* The invariant holds at first.
LEMMA TlsInitSafe ==
  ASSUME TlsInit
  PROVE  TlsSafe
  <1>1. /\ tScene \in DOMAIN Scenes /\ tConns = [id \in Conns |-> Hole] /\ tNow = 0
        /\ tDecoded = [id \in Conns |-> NoneDecoded]
    BY DEF TlsInit
  <1>2. ConnsSound(tConns) /\ tDecoded \in DecodedRows /\ Known(tConns) = {}
    BY <1>1, NoneShownType DEF ConnsSound, DecodedRows, Known
  <1>3. Rings(tConns) = {} /\ \A pids : ActiveDirections(tConns, pids) = {}
    BY <1>2 DEF Rings, ActiveDirections
  <1>4. TotalHeld(tConns) = 0
    BY <1>2, <1>3, NothingHeld
  <1>5. \A pids : Cardinality(ActiveDirections(tConns, pids)) = 0
    BY <1>3, FS_EmptySet
  <1>6. Bounded(tConns)
    BY <1>4, <1>5, Limits DEF Bounded
  <1>. QED BY <1>1, <1>2, <1>6 DEF TlsSafe

\* Every step keeps it.
LEMMA TlsNextSafe ==
  ASSUME TlsSafe, [TlsNext]_<<tVars, kVars>>
  PROVE  TlsSafe'
  <1>1. Scenes[tScene] \subseteq Conns /\ tNow \in Nat
    BY TlsAssumption DEF TlsSafe
  <1>2. ASSUME NEW id \in Scenes[tScene], NEW out \in BOOLEAN, SynPacket(id, out) PROVE TlsSafe'
    BY <1>1, <1>2, SynPacketSafe
  <1>3. ASSUME NEW id \in Scenes[tScene], NEW out \in BOOLEAN, NEW i \in TlsEdges[id][out], NEW j \in TlsEdges[id][out],
               NEW cut \in {FALSE, "cut" \in TlsFaults[tScene]}, DataPacket(id, out, i, j, cut)
        PROVE  TlsSafe'
    <2>. DEFINE cuts == "cut" \in TlsFaults[tScene]
    <2>0. cuts = TRUE \/ cuts = FALSE
      BY SMT
    <2>2. cut = FALSE \/ cut = cuts
      BY Zenon
    <2>. HIDE DEF cuts
    <2>1. cut \in BOOLEAN
      BY <2>0, <2>2, Zenon
    <2>. QED BY <1>1, <1>3, <2>1, DataPacketSafe
  <1>4. ASSUME NEW id \in Scenes[tScene], NEW out \in BOOLEAN, NEW i \in TlsEdges[id][out] \ {0}, ForgedPacket(id, out, i)
        PROVE  TlsSafe'
    BY <1>1, <1>4, ForgedPacketSafe
  <1>5. CASE TlsPoll
    BY <1>5, TlsPollSafe
  <1>6. ASSUME NEW id \in Scenes[tScene], FlowGoes(id) PROVE TlsSafe'
    BY <1>1, <1>6, FlowGoesSafe
  <1>7. ASSUME NEW pid, OptIn(pid) \/ OptOut(pid) \/ OptOutConnections(pid) PROVE TlsSafe'
    <2>1. CASE OptIn(pid)
      BY <1>1, <2>1, SafeKept DEF OptIn, tVars
    <2>2. CASE OptOut(pid)
      BY <1>1, <2>2, SafeKept DEF OptOut
    <2>3. CASE OptOutConnections(pid)
      BY <2>3, OptOutConnectionsSafe
    <2>. QED BY <1>7, <2>1, <2>2, <2>3
  <1>8. ASSUME NEW pid, NEW n, ProcessWrites(pid, n) PROVE TlsSafe'
    BY <1>1, <1>8, SafeKept DEF ProcessWrites, tVars
  <1>9. CASE TlsTick
    BY <1>1, <1>9, SafeKept DEF TlsTick
  <1>10. CASE UNCHANGED <<tVars, kVars>>
    BY <1>1, <1>10, SafeKept DEF tVars
  <1>. QED BY <1>2, <1>3, <1>4, <1>5, <1>6, <1>7, <1>8, <1>9, <1>10, Zenon DEF TlsNext

\* main.rs, make_tls_direction_room, enforce_tls_buffer_budget and what both rest on: for
\* any connections, records, cuts of them into packets, files, limits and orders of packets,
\* polls and opt-outs, the bytes held between packets are within the budget, and there are
\* never more directions than the limits say, and one.
THEOREM TlsAlwaysBounded == TlsSpec => []TlsBounded
  <1>1. TlsInit => TlsSafe
    BY TlsInitSafe
  <1>2. TlsSafe /\ [TlsNext]_<<tVars, kVars>> => TlsSafe'
    BY TlsNextSafe
  <1>3. TlsSafe => TlsBounded
    BY DEF TlsSafe, Bounded, TlsBounded
  <1>. QED BY <1>1, <1>2, <1>3, PTL DEF TlsSpec

=============================================================================
