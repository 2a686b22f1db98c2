--------------------------- MODULE TracerouteProofs ---------------------------
(***************************************************************************)
(* What holds of every traceroute, however many rows, traces, routers and  *)
(* replies there are.                                                      *)
(***************************************************************************)
EXTENDS Traceroute, TLAPS

Hops == {Hole} \cup {RouterAt(x, k) : x \in Targets, k \in Nat \ {0}}

Traces == [row : Rows, state : {"asked", "running", "over"}, ttl : Nat \ {0}, attempt : Nat, sequence : Nat,
           waits : Nat \cup {Hole}, since : Nat, began : Nat, hops : Seq(Hops)]

Replies == [trace : Nat, number : Nat, from : Hops]

HopEvents == [target : Targets, number : Nat, ip : Hops]

TraceTypes ==
  /\ hTraces \in Seq(Traces)
  /\ hAir \subseteq Replies /\ \A r \in hAir : r.trace \in DOMAIN hTraces
  /\ hEvents \in Seq(HopEvents)
  /\ hTab \in [lists : [Rows -> Seq(HopEvents)], inFlight : [Rows -> BOOLEAN],
               asker : [Targets -> Rows \cup {Hole}]]
  /\ hNow \in Nat

\* What holds of one trace: it has shown one hop for every hop limit it is done with,
\* with the router there or none; it has used no number twice, so that the number it
\* waits for comes back from the router its probe got to; and it sent no probe after
\* its deadline.
TraceGood(t, trace, air, now) ==
  LET target == Target[trace.row]
  IN /\ Len(trace.hops) = trace.ttl - 1
     /\ trace.attempt <= Retries /\ trace.ttl <= HopCeiling + 1
     /\ trace.ttl > HopCeiling => trace.attempt = 0
     /\ trace.sequence <= 1 + (trace.ttl - 1) * Retries + trace.attempt
     /\ trace.state = "asked" => trace.attempt = 0
     /\ trace.waits # Hole =>
          /\ trace.state = "running" /\ trace.ttl <= HopCeiling /\ trace.attempt > 0
          /\ trace.since < trace.began + TraceTimeout /\ now <= trace.since + HopTimeout
     /\ trace.state = "running" => now <= trace.began + TraceTimeout + HopTimeout
     /\ \A i \in 1..Len(trace.hops) : trace.hops[i] \in {Hole, RouterAt(target, i)}
     /\ \A i \in 1..Len(trace.hops) :
          trace.hops[i] = target => i = Len(trace.hops) /\ trace.state = "over"
     /\ \A r \in air : r.trace = t =>
          /\ r.number < trace.sequence
          /\ trace.waits # Hole /\ r.number = trace.waits => r.from = RouterAt(target, trace.ttl)

TracesGood == \A t \in DOMAIN hTraces : TraceGood(t, hTraces[t], hAir, hNow)

TraceInv == TraceTypes /\ TracesGood

-----------------------------------------------------------------------------
(* The traces *)

LEMMA TraceConstants ==
  /\ HopCeiling \in Nat /\ HopCeiling > 0 /\ Retries \in Nat /\ Retries > 0
  /\ HopTimeout \in Nat /\ HopTimeout > 0 /\ TraceTimeout \in Nat /\ TraceTimeout > 0
  /\ ProbeMod \in Nat /\ HopCeiling * Retries + 1 < ProbeMod
  BY TracerouteAssumption

\* The router a probe gets to is one a hop may show.
LEMMA RouterIsHop ==
  ASSUME NEW row \in Rows, NEW k \in Nat \ {0}
  PROVE  Target[row] \in Targets /\ RouterAt(Target[row], k) \in Hops
  BY DEF Targets, Hops

\* One trace changes and the others are as they were.
LEMMA BecomeOne ==
  ASSUME TraceTypes, NEW t \in DOMAIN hTraces, NEW trace \in Traces, Become(t, trace)
  PROVE  /\ hTraces' \in Seq(Traces) /\ DOMAIN hTraces' = DOMAIN hTraces
         /\ hTraces'[t] = trace
         /\ \A u \in DOMAIN hTraces : u # t => hTraces'[u] = hTraces[u]
  BY DEF TraceTypes, Become

\* It keeps every trace good when the new one is and no reply is of another one.
LEMMA BecomeGood ==
  ASSUME TraceInv, NEW t \in DOMAIN hTraces, NEW trace \in Traces, Become(t, trace),
         hNow' = hNow, TraceGood(t, trace, hAir', hNow'), \A r \in hAir' : r \in hAir \/ r.trace = t
  PROVE  TracesGood'
  <1>. SUFFICES ASSUME NEW u \in DOMAIN hTraces' PROVE TraceGood(u, hTraces'[u], hAir', hNow')
    BY DEF TracesGood
  <1>1. u \in DOMAIN hTraces /\ (u = t => hTraces'[u] = trace) /\ (u # t => hTraces'[u] = hTraces[u])
    BY BecomeOne DEF TraceInv
  <1>2. CASE u = t
    BY <1>1, <1>2
  <1>3. CASE u # t
    <2>1. TraceGood(u, hTraces[u], hAir, hNow)
      BY <1>1 DEF TraceInv, TracesGood
    <2>. QED BY <1>1, <1>3, <2>1 DEF TraceGood
  <1>. QED BY <1>2, <1>3

\* Numbers stay below the modulus, so that they ascend.
LEMMA NumbersAscend ==
  ASSUME NEW trace \in Traces, trace.attempt < Retries, trace.ttl <= HopCeiling,
         trace.sequence <= 1 + (trace.ttl - 1) * Retries + trace.attempt
  PROVE  NextSeq(trace.sequence) = trace.sequence + 1
  <1>. DEFINE s == trace.sequence
              k == trace.ttl
              R == Retries
              H == HopCeiling
  <1>1. s \in Nat /\ k \in Nat /\ k > 0 /\ trace.attempt \in Nat /\ R \in Nat /\ H \in Nat
    BY TraceConstants DEF Traces
  <1>2. (k - 1) * R + R = k * R
    BY <1>1
  <1>3. k * R <= H * R
    BY <1>1
  <1>4. s + 1 <= H * R + 1 /\ H * R \in Nat
    <2>1. (k - 1) * R \in Nat /\ k * R \in Nat /\ H * R \in Nat
      BY <1>1
    <2>. QED BY <1>1, <1>2, <1>3, <2>1
  <1>5. s + 1 < ProbeMod /\ ProbeMod \in Nat
    BY <1>1, <1>4, TraceConstants
  <1>. HIDE DEF s, k, R, H
  <1>6. (s + 1) % ProbeMod = s + 1
    BY <1>1, <1>5
  <1>. QED BY <1>6 DEF NextSeq, s

\* A hop is added to a trace that waits or has no attempt left.
LEMMA HopAdded ==
  ASSUME TraceInv, NEW t \in DOMAIN hTraces, NEW ip \in Hops,
         HopReported(t, hTraces[t], ip), hNow' = hNow, hAir' \subseteq hAir,
         hTraces[t].state = "running", hTraces[t].ttl <= HopCeiling,
         ip \in {Hole, RouterAt(Target[hTraces[t].row], hTraces[t].ttl)}
  PROVE  hTraces' \in Seq(Traces) /\ hEvents' \in Seq(HopEvents) /\ TracesGood'
  <1>. DEFINE old == hTraces[t]
              target == Target[old.row]
              new == [old EXCEPT !.hops = Append(@, ip), !.waits = Hole, !.attempt = 0, !.ttl = @ + 1,
                                 !.state = IF ip = target THEN "over" ELSE @]
              e == [target |-> target, number |-> old.ttl, ip |-> ip]
  <1>1. old \in Traces
    BY DEF TraceInv, TraceTypes
  <1>2. new \in Traces
    <2>1. Append(old.hops, ip) \in Seq(Hops) /\ old.ttl + 1 \in Nat \ {0} /\ 0 \in Nat
      BY <1>1 DEF Traces
    <2>2. (IF ip = target THEN "over" ELSE old.state) \in {"asked", "running", "over"}
      BY <1>1 DEF Traces
    <2>. QED BY <1>1, <2>1, <2>2 DEF Traces
  <1>3. e \in HopEvents
    BY <1>1 DEF HopEvents, Traces, Targets
  <1>4. Become(t, new) /\ hEvents' = Append(hEvents, e)
    BY DEF HopReported
  <1>5. TraceGood(t, old, hAir, hNow)
    BY DEF TraceInv, TracesGood
  <1>6. TraceGood(t, new, hAir', hNow')
    <2>1. /\ new.row = old.row /\ new.ttl = old.ttl + 1 /\ new.attempt = 0 /\ new.waits = Hole
          /\ new.sequence = old.sequence /\ new.since = old.since /\ new.began = old.began
          /\ new.hops = Append(old.hops, ip) /\ new.state = (IF ip = target THEN "over" ELSE "running")
      BY <1>1 DEF Traces
    <2>2. old.hops \in Seq(Hops) /\ old.ttl \in Nat /\ old.attempt \in Nat /\ old.sequence \in Nat
      BY <1>1 DEF Traces
    <2>3. Len(new.hops) = new.ttl - 1 /\ Len(new.hops) = Len(old.hops) + 1
      BY <1>5, <2>1, <2>2 DEF TraceGood
    <2>4. new.sequence <= 1 + (new.ttl - 1) * Retries + new.attempt
      <3>. DEFINE a == (old.ttl - 1) * Retries
                  b == (new.ttl - 1) * Retries
      <3>1. old.sequence <= 1 + a + old.attempt /\ old.attempt <= Retries
        BY <1>5 DEF TraceGood
      <3>2. new.ttl - 1 = old.ttl
        BY <2>1, <2>2
      <3>3. a \in Int /\ b \in Int /\ b = a + Retries
        <4>1. ASSUME NEW x \in Nat, NEW y \in Int, y - 1 = x
              PROVE  /\ (x - 1) * Retries \in Int /\ (y - 1) * Retries \in Int
                     /\ (y - 1) * Retries = (x - 1) * Retries + Retries
          BY <4>1, TraceConstants
        <4>2. new.ttl \in Int /\ old.ttl \in Nat
          BY <2>1, <2>2
        <4>. HIDE DEF new, old
        <4>. QED BY <3>2, <4>1, <4>2
      <3>4. new.sequence = old.sequence /\ new.attempt = 0
        BY <2>1
      <3>. HIDE DEF a, b, new, old
      <3>5. new.sequence <= 1 + b + new.attempt
        BY <2>2, <3>1, <3>3, <3>4, TraceConstants
      <3>. QED BY <3>5 DEF b
    <2>5. \A i \in 1..Len(new.hops) : new.hops[i] \in {Hole, RouterAt(target, i)}
      BY <1>5, <2>1, <2>2, <2>3 DEF TraceGood
    <2>6. \A i \in 1..Len(new.hops) : new.hops[i] = target => i = Len(new.hops) /\ new.state = "over"
      BY <1>5, <2>1, <2>2, <2>3 DEF TraceGood
    <2>7. \A r \in hAir' : r.trace = t => r.number < new.sequence
      BY <1>5, <2>1 DEF TraceGood
    <2>8. new.state = "running" => hNow' <= new.began + TraceTimeout + HopTimeout
      BY <1>5, <2>1 DEF TraceGood
    <2>9. new.attempt <= Retries /\ new.ttl <= HopCeiling + 1 /\ (new.state = "asked" => new.attempt = 0)
      BY <2>1, <2>2, TraceConstants
    <2>. HIDE DEF new, old
    <2>. QED BY <2>1, <2>3, <2>4, <2>5, <2>6, <2>7, <2>8, <2>9 DEF TraceGood
  <1>. HIDE DEF new, old, e
  <1>7. hEvents' \in Seq(HopEvents)
    BY <1>3, <1>4 DEF TraceInv, TraceTypes
  <1>. QED BY <1>2, <1>4, <1>6, <1>7, BecomeOne, BecomeGood DEF TraceInv

\* A new trace is good, and no reply is of it: those on their way are of the others.
LEMMA AskTraceStep ==
  ASSUME TraceInv, NEW row \in Rows, NEW heard \in BOOLEAN, AskTrace(row, heard)
  PROVE  TraceInv'
  <1>. DEFINE new == [NewTrace(row) EXCEPT !.state = IF heard THEN "asked" ELSE "over"]
              n == Len(hTraces)
  <1>1. new = [row |-> row, state |-> IF heard THEN "asked" ELSE "over", ttl |-> 1, attempt |-> 0,
               sequence |-> 1, waits |-> Hole, since |-> 0, began |-> 0, hops |-> <<>>]
    BY DEF NewTrace
  <1>2. new \in Traces
    <2>1. <<>> \in Seq(Hops)
      OBVIOUS
    <2>. HIDE DEF new
    <2>. QED BY <1>1, <2>1 DEF Traces
  <1>3. hTraces' = Append(hTraces, new) /\ UNCHANGED <<hAir, hEvents, hNow>>
    BY DEF AskTrace
  <1>4. hTab' \in [lists : [Rows -> Seq(HopEvents)], inFlight : [Rows -> BOOLEAN],
                   asker : [Targets -> Rows \cup {Hole}]]
    <2>1. hTab' = [lists |-> [hTab.lists EXCEPT ![row] = <<>>],
                   inFlight |-> [hTab.inFlight EXCEPT ![row] = TRUE],
                   asker |-> [hTab.asker EXCEPT ![Target[row]] = row]]
      BY DEF AskTrace
    <2>2. [hTab.lists EXCEPT ![row] = <<>>] \in [Rows -> Seq(HopEvents)]
      BY DEF TraceInv, TraceTypes
    <2>3. [hTab.inFlight EXCEPT ![row] = TRUE] \in [Rows -> BOOLEAN]
      BY DEF TraceInv, TraceTypes
    <2>4. [hTab.asker EXCEPT ![Target[row]] = row] \in [Targets -> Rows \cup {Hole}]
      BY DEF TraceInv, TraceTypes
    <2>. QED BY <2>1, <2>2, <2>3, <2>4
  <1>. HIDE DEF new
  <1>5. n \in Nat /\ DOMAIN hTraces = 1..n /\ DOMAIN hTraces' = 1..(n + 1) /\ hTraces'[n + 1] = new
        /\ \A t \in 1..n : hTraces'[t] = hTraces[t]
    BY <1>2, <1>3 DEF TraceInv, TraceTypes
  <1>6. \A r \in hAir : r.trace \in 1..n
    BY <1>5 DEF TraceInv, TraceTypes
  <1>7. TraceTypes'
    BY <1>2, <1>3, <1>4, <1>5, <1>6 DEF TraceInv, TraceTypes
  <1>8. TraceGood(n + 1, new, hAir, hNow)
    <2>1. \A r \in hAir : r.trace # n + 1
      BY <1>5, <1>6
    <2>. QED BY <1>1, <2>1, TraceConstants DEF TraceGood
  <1>9. TracesGood'
    <2>. SUFFICES ASSUME NEW t \in DOMAIN hTraces' PROVE TraceGood(t, hTraces'[t], hAir, hNow)
      BY <1>3 DEF TracesGood
    <2>. QED BY <1>5, <1>8 DEF TraceInv, TracesGood
  <1>. QED BY <1>7, <1>9 DEF TraceInv

\* Nothing but what the tab shows changes.
LEMMA ShowHopStep ==
  ASSUME TraceInv, ShowHop
  PROVE  TraceInv'
  <1>. DEFINE hop == Head(hEvents)
              row == hTab.asker[hop.target]
  <1>1. hEvents # <<>> /\ hop \in HopEvents /\ hEvents' = Tail(hEvents) /\ hEvents' \in Seq(HopEvents)
    BY DEF ShowHop, TraceInv, TraceTypes
  <1>2. UNCHANGED <<hTraces, hAir, hNow>>
    BY DEF ShowHop
  <1>3. row \in Rows \cup {Hole}
    BY <1>1 DEF TraceInv, TraceTypes, HopEvents
  <1>4. hTab' \in [lists : [Rows -> Seq(HopEvents)], inFlight : [Rows -> BOOLEAN],
                   asker : [Targets -> Rows \cup {Hole}]]
    <2>1. CASE row = Hole
      BY <2>1 DEF ShowHop, TraceInv, TraceTypes
    <2>2. CASE row # Hole
      <3>1. row \in Rows
        BY <1>3, <2>2
      <3>2. hTab' = [hTab EXCEPT !.lists[row] = Append(@, hop), !.inFlight[row] = @ /\ ~IsTraceComplete(hop)]
        BY <2>2 DEF ShowHop
      <3>3. hTab' = [lists |-> [hTab.lists EXCEPT ![row] = Append(hTab.lists[row], hop)],
                     inFlight |-> [hTab.inFlight EXCEPT ![row] = hTab.inFlight[row] /\ ~IsTraceComplete(hop)],
                     asker |-> hTab.asker]
        <4>. HIDE DEF hop, row
        <4>. QED BY <3>1, <3>2 DEF TraceInv, TraceTypes
      <3>4. [hTab.lists EXCEPT ![row] = Append(hTab.lists[row], hop)] \in [Rows -> Seq(HopEvents)]
        <4>. HIDE DEF hop, row
        <4>. QED BY <1>1, <3>1 DEF TraceInv, TraceTypes
      <3>5. [hTab.inFlight EXCEPT ![row] = hTab.inFlight[row] /\ ~IsTraceComplete(hop)] \in [Rows -> BOOLEAN]
        <4>. HIDE DEF hop, row
        <4>. QED BY <3>1 DEF TraceInv, TraceTypes
      <3>. HIDE DEF hop, row
      <3>. QED BY <3>3, <3>4, <3>5 DEF TraceInv, TraceTypes
    <2>. QED BY <2>1, <2>2
  <1>5. TracesGood'
    BY <1>2 DEF TraceInv, TracesGood
  <1>. QED BY <1>1, <1>2, <1>4, <1>5 DEF TraceInv, TraceTypes

\* A probe: its number is one that no reply on its way has.
LEMMA SendProbeStep ==
  ASSUME TraceInv, NEW t \in DOMAIN hTraces, NEW replies \in {{}, {Reply(t, hTraces[t])}}, SendProbe(t, replies)
  PROVE  TraceInv'
  <1>. DEFINE old == hTraces[t]
              new == [old EXCEPT !.attempt = @ + 1, !.waits = old.sequence, !.since = hNow, !.sequence = NextSeq(@)]
              target == Target[old.row]
  <1>1. /\ AtLoop(old) /\ old.attempt < Retries /\ old.ttl <= HopCeiling /\ ~Late(old)
        /\ Become(t, new) /\ hAir' = hAir \cup replies /\ UNCHANGED <<hEvents, hTab, hNow>>
    BY DEF SendProbe
  <1>2. old \in Traces /\ TraceGood(t, old, hAir, hNow)
    BY DEF TraceInv, TraceTypes, TracesGood
  <1>3. NextSeq(old.sequence) = old.sequence + 1
    BY <1>1, <1>2, NumbersAscend DEF TraceGood
  <1>4. /\ new.row = old.row /\ new.ttl = old.ttl /\ new.attempt = old.attempt + 1
        /\ new.waits = old.sequence /\ new.sequence = old.sequence + 1 /\ new.since = hNow
        /\ new.began = old.began /\ new.hops = old.hops /\ new.state = "running"
    BY <1>1, <1>2, <1>3 DEF Traces, AtLoop
  <1>5. new \in Traces
    <2>1. old.attempt + 1 \in Nat /\ old.sequence \in Nat \cup {Hole} /\ old.sequence + 1 \in Nat
      BY <1>2 DEF Traces
    <2>2. hNow \in Nat
      BY DEF TraceInv, TraceTypes
    <2>. QED BY <1>2, <1>3, <2>1, <2>2 DEF Traces
  <1>6. Reply(t, old) = [trace |-> t, number |-> old.sequence, from |-> RouterAt(target, old.ttl)]
    BY DEF Reply
  <1>7. Reply(t, old) \in Replies
    <2>1. old.sequence \in Nat /\ old.row \in Rows /\ old.ttl \in Nat \ {0}
      BY <1>2 DEF Traces
    <2>2. t \in Nat /\ RouterAt(target, old.ttl) \in Hops
      BY <2>1, RouterIsHop DEF TraceInv, TraceTypes
    <2>. HIDE DEF old, target
    <2>. QED BY <1>6, <2>1, <2>2 DEF Replies
  <1>8. \A r \in hAir' : r \in hAir \/ r = Reply(t, old)
    BY <1>1
  <1>9. TraceGood(t, new, hAir', hNow')
    <2>1. old.ttl \in Nat /\ old.attempt \in Nat /\ old.sequence \in Nat /\ old.began \in Nat /\ hNow \in Nat
      BY <1>2 DEF Traces, TraceInv, TraceTypes
    <2>2. new.sequence <= 1 + (new.ttl - 1) * Retries + new.attempt
      <3>. DEFINE a == (old.ttl - 1) * Retries
      <3>1. old.sequence <= 1 + a + old.attempt
        BY <1>2 DEF TraceGood
      <3>2. a \in Int
        BY <2>1, TraceConstants
      <3>. HIDE DEF a, new, old
      <3>3. new.sequence <= 1 + a + new.attempt
        BY <1>4, <2>1, <3>1, <3>2
      <3>. QED BY <1>4, <3>3 DEF a
    <2>3. \A r \in hAir' : r.trace = t =>
            /\ r.number < new.sequence
            /\ new.waits # Hole /\ r.number = new.waits => r.from = RouterAt(target, new.ttl)
      <3>. SUFFICES ASSUME NEW r \in hAir', r.trace = t
                    PROVE  /\ r.number < new.sequence
                           /\ r.number = new.waits => r.from = RouterAt(target, new.ttl)
        OBVIOUS
      <3>1. CASE r \in hAir
        <4>1. r.number < old.sequence /\ r.number \in Nat
          BY <1>2, <3>1 DEF TraceGood, TraceInv, TraceTypes, Replies
        <4>. HIDE DEF new, old
        <4>. QED BY <1>4, <2>1, <4>1
      <3>2. CASE r = Reply(t, old)
        <4>. HIDE DEF new, old, target
        <4>. QED BY <1>4, <1>6, <2>1, <3>2
      <3>. QED BY <1>8, <3>1, <3>2
    <2>4. hNow < old.began + TraceTimeout
      BY <1>1, <2>1, TraceConstants DEF Late
    <2>5. /\ new.attempt <= Retries /\ new.attempt > 0 /\ new.ttl <= HopCeiling
          /\ new.since < new.began + TraceTimeout /\ hNow' <= new.since + HopTimeout
          /\ hNow' <= new.began + TraceTimeout + HopTimeout
      <3>. HIDE DEF new, old
      <3>. QED BY <1>1, <1>4, <2>1, <2>4, TraceConstants
    <2>6. /\ Len(new.hops) = new.ttl - 1
          /\ \A i \in 1..Len(new.hops) : new.hops[i] \in {Hole, RouterAt(target, i)}
          /\ \A i \in 1..Len(new.hops) : new.hops[i] # target
      <3>1. old.state = "running"
        BY <1>1 DEF AtLoop
      <3>. HIDE DEF new, old
      <3>. QED BY <1>2, <1>4, <3>1 DEF TraceGood, target
    <2>7. new.ttl <= HopCeiling + 1 /\ ~(new.ttl > HopCeiling)
      <3>. HIDE DEF new, old
      <3>. QED BY <1>4, <2>1, <2>5, TraceConstants
    <2>. HIDE DEF new, old
    <2>. QED BY <1>4, <2>2, <2>3, <2>5, <2>6, <2>7 DEF TraceGood, target
  <1>. HIDE DEF new, old
  <1>10. \A r \in hAir' : r \in hAir \/ r.trace = t
    BY <1>6, <1>8
  <1>11. TracesGood' /\ hTraces' \in Seq(Traces) /\ DOMAIN hTraces' = DOMAIN hTraces
    BY <1>1, <1>5, <1>9, <1>10, BecomeOne, BecomeGood DEF TraceInv
  <1>12. hAir' \subseteq Replies /\ \A r \in hAir' : r.trace \in DOMAIN hTraces'
    BY <1>7, <1>8, <1>10, <1>11 DEF TraceInv, TraceTypes
  <1>. QED BY <1>1, <1>11, <1>12 DEF TraceInv, TraceTypes

\* One trace changes, nothing is sent and nothing is told.
LEMMA QuietStep ==
  ASSUME TraceInv, NEW t \in DOMAIN hTraces, NEW new \in Traces, Become(t, new),
         TraceGood(t, new, hAir, hNow), hAir' \subseteq hAir, UNCHANGED <<hEvents, hTab, hNow>>
  PROVE  TraceInv'
  <1>1. TraceGood(t, new, hAir', hNow')
    BY DEF TraceGood
  <1>2. TracesGood' /\ hTraces' \in Seq(Traces) /\ DOMAIN hTraces' = DOMAIN hTraces
    BY <1>1, BecomeOne, BecomeGood DEF TraceInv
  <1>. QED BY <1>2 DEF TraceInv, TraceTypes

LEMMA OpenSessionStep ==
  ASSUME TraceInv, NEW t \in DOMAIN hTraces, NEW opens \in BOOLEAN, OpenSession(t, opens)
  PROVE  TraceInv'
  <1>. DEFINE old == hTraces[t]
              new == [old EXCEPT !.state = IF opens THEN "running" ELSE "over", !.began = hNow]
  <1>1. old.state = "asked" /\ Become(t, new) /\ UNCHANGED <<hAir, hEvents, hTab, hNow>>
    BY DEF OpenSession
  <1>2. old \in Traces /\ TraceGood(t, old, hAir, hNow) /\ hNow \in Nat
    BY DEF TraceInv, TraceTypes, TracesGood
  <1>3. new \in Traces
    BY <1>2 DEF Traces
  <1>4. TraceGood(t, new, hAir, hNow)
    <2>1. /\ new.row = old.row /\ new.ttl = old.ttl /\ new.attempt = old.attempt /\ new.waits = old.waits
          /\ new.sequence = old.sequence /\ new.hops = old.hops /\ new.began = hNow
          /\ new.state \in {"running", "over"}
      BY <1>2 DEF Traces
    <2>2. hNow <= new.began + TraceTimeout + HopTimeout
      BY <1>2, <2>1, TraceConstants
    <2>. HIDE DEF new, old
    <2>. QED BY <1>1, <1>2, <2>1, <2>2 DEF TraceGood
  <1>. HIDE DEF new
  <1>. QED BY <1>1, <1>3, <1>4, QuietStep

LEMMA ProbeRefusedStep ==
  ASSUME TraceInv, NEW t \in DOMAIN hTraces, NEW numbered \in BOOLEAN, ProbeRefused(t, numbered)
  PROVE  TraceInv'
  <1>. DEFINE old == hTraces[t]
              new == [old EXCEPT !.attempt = @ + 1, !.sequence = IF numbered THEN NextSeq(@) ELSE @]
  <1>1. /\ AtLoop(old) /\ old.attempt < Retries /\ old.ttl <= HopCeiling
        /\ Become(t, new) /\ UNCHANGED <<hAir, hEvents, hTab, hNow>>
    BY DEF ProbeRefused
  <1>2. old \in Traces /\ TraceGood(t, old, hAir, hNow)
    BY DEF TraceInv, TraceTypes, TracesGood
  <1>3. NextSeq(old.sequence) = old.sequence + 1
    BY <1>1, <1>2, NumbersAscend DEF TraceGood
  <1>4. new \in Traces
    <2>1. old.attempt + 1 \in Nat /\ (IF numbered THEN NextSeq(old.sequence) ELSE old.sequence) \in Nat
      BY <1>2, <1>3 DEF Traces
    <2>. QED BY <1>2, <2>1 DEF Traces
  <1>5. TraceGood(t, new, hAir, hNow)
    <2>1. /\ new.row = old.row /\ new.ttl = old.ttl /\ new.attempt = old.attempt + 1 /\ new.waits = Hole
          /\ new.hops = old.hops /\ new.began = old.began /\ new.state = "running"
      BY <1>1, <1>2 DEF Traces, AtLoop
    <2>2. new.sequence \in {old.sequence, old.sequence + 1}
      BY <1>2, <1>3 DEF Traces
    <2>3. old.ttl \in Nat /\ old.attempt \in Nat /\ old.sequence \in Nat
      BY <1>2 DEF Traces
    <2>4. new.sequence <= 1 + (new.ttl - 1) * Retries + new.attempt
      <3>. DEFINE a == (old.ttl - 1) * Retries
      <3>1. old.sequence <= 1 + a + old.attempt
        BY <1>2 DEF TraceGood
      <3>2. a \in Int
        BY <2>3, TraceConstants
      <3>. HIDE DEF a, new, old
      <3>3. new.sequence <= 1 + a + new.attempt
        BY <2>1, <2>2, <2>3, <3>1, <3>2
      <3>. QED BY <2>1, <3>3 DEF a
    <2>5. \A r \in hAir : r.trace = t => r.number < new.sequence
      <3>1. \A r \in hAir : r.trace = t => r.number \in Nat /\ r.number < old.sequence
        BY <1>2 DEF TraceGood, TraceInv, TraceTypes, Replies
      <3>. HIDE DEF new, old
      <3>. QED BY <2>2, <2>3, <3>1
    <2>6. new.attempt <= Retries /\ ~(new.ttl > HopCeiling) /\ new.ttl <= HopCeiling + 1
      <3>. HIDE DEF new, old
      <3>. QED BY <1>1, <2>1, <2>3, TraceConstants
    <2>7. old.state = "running" /\ old.waits = Hole
      BY <1>1 DEF AtLoop
    <2>. HIDE DEF new, old
    <2>. QED BY <1>2, <2>1, <2>4, <2>5, <2>6, <2>7 DEF TraceGood
  <1>. HIDE DEF new
  <1>. QED BY <1>1, <1>4, <1>5, QuietStep

LEMMA AttemptOverStep ==
  ASSUME TraceInv, NEW t \in DOMAIN hTraces, NEW fault \in BOOLEAN, AttemptOver(t, fault)
  PROVE  TraceInv'
  <1>. DEFINE old == hTraces[t]
              new == [old EXCEPT !.waits = Hole]
  <1>1. Become(t, new) /\ UNCHANGED <<hAir, hEvents, hTab, hNow>>
    BY DEF AttemptOver
  <1>2. old \in Traces /\ TraceGood(t, old, hAir, hNow)
    BY DEF TraceInv, TraceTypes, TracesGood
  <1>3. new \in Traces
    BY <1>2 DEF Traces
  <1>4. TraceGood(t, new, hAir, hNow)
    <2>1. /\ new.row = old.row /\ new.ttl = old.ttl /\ new.attempt = old.attempt /\ new.waits = Hole
          /\ new.sequence = old.sequence /\ new.hops = old.hops /\ new.began = old.began
          /\ new.state = old.state
      BY <1>2 DEF Traces
    <2>. HIDE DEF new, old
    <2>. QED BY <1>2, <2>1 DEF TraceGood
  <1>. HIDE DEF new
  <1>. QED BY <1>1, <1>3, <1>4, QuietStep

LEMMA TraceEndsStep ==
  ASSUME TraceInv, NEW t \in DOMAIN hTraces, TraceEnds(t)
  PROVE  TraceInv'
  <1>. DEFINE old == hTraces[t]
              new == [old EXCEPT !.state = "over"]
  <1>1. AtLoop(old) /\ Become(t, new) /\ hAir' \subseteq hAir /\ UNCHANGED <<hEvents, hTab, hNow>>
    BY DEF TraceEnds, WithoutSocket
  <1>2. old \in Traces /\ TraceGood(t, old, hAir, hNow)
    BY DEF TraceInv, TraceTypes, TracesGood
  <1>3. new \in Traces
    BY <1>2 DEF Traces
  <1>4. TraceGood(t, new, hAir, hNow)
    <2>1. /\ new.row = old.row /\ new.ttl = old.ttl /\ new.attempt = old.attempt /\ new.waits = Hole
          /\ new.sequence = old.sequence /\ new.hops = old.hops /\ new.state = "over"
      BY <1>1, <1>2 DEF Traces, AtLoop
    <2>. HIDE DEF new, old
    <2>. QED BY <1>2, <2>1 DEF TraceGood
  <1>. HIDE DEF new
  <1>. QED BY <1>1, <1>3, <1>4, QuietStep

\* Either way a hop is over: with the reply it waited for, or without.
LEMMA HopOver ==
  ASSUME TraceInv, NEW t \in DOMAIN hTraces,
         \/ HopUnanswered(t)
         \/ \E reply \in hAir, again \in BOOLEAN : ReceiveReply(t, reply, again) /\ Answers(reply, hTraces[t])
  PROVE  /\ TraceInv' /\ UNCHANGED <<hTab, hNow>>
         /\ hTraces[t].state = "running" /\ hTraces[t].ttl <= HopCeiling
         /\ \E ip \in Hops : HopReported(t, hTraces[t], ip)
  <1>. DEFINE old == hTraces[t]
  <1>1. old \in Traces /\ TraceGood(t, old, hAir, hNow)
    BY DEF TraceInv, TraceTypes, TracesGood
  <1>2. PICK ip \in Hops : /\ HopReported(t, old, ip)
                          /\ ip \in {Hole, RouterAt(Target[old.row], old.ttl)}
                          /\ old.state = "running" /\ old.ttl <= HopCeiling
                          /\ hAir' \subseteq hAir /\ UNCHANGED <<hTab, hNow>>
    <2>1. CASE HopUnanswered(t)
      <3>1. AtLoop(old) /\ old.attempt > 0 /\ HopReported(t, old, Hole) /\ UNCHANGED <<hAir, hTab, hNow>>
        BY <2>1 DEF HopUnanswered
      <3>2. old.ttl <= HopCeiling
        <4>1. old.ttl \in Nat /\ old.attempt \in Nat
          BY <1>1 DEF Traces
        <4>. QED BY <1>1, <3>1, <4>1, TraceConstants DEF TraceGood
      <3>. QED BY <3>1, <3>2 DEF AtLoop, Hops
    <2>2. ASSUME NEW reply \in hAir, NEW again \in BOOLEAN, ReceiveReply(t, reply, again), Answers(reply, old)
          PROVE  /\ reply.from \in Hops /\ HopReported(t, old, reply.from)
                 /\ reply.from \in {Hole, RouterAt(Target[old.row], old.ttl)}
                 /\ old.state = "running" /\ old.ttl <= HopCeiling
                 /\ hAir' \subseteq hAir /\ UNCHANGED <<hTab, hNow>>
      <3>1. reply.trace = t /\ old.waits # Hole /\ HopReported(t, old, reply.from)
        BY <2>2 DEF ReceiveReply
      <3>2. hAir' \subseteq hAir /\ UNCHANGED <<hTab, hNow>>
        BY <2>2 DEF ReceiveReply, WithoutSocket
      <3>3. reply.number = old.waits
        BY <2>2 DEF Answers
      <3>4. reply.from = RouterAt(Target[old.row], old.ttl) /\ old.state = "running" /\ old.ttl <= HopCeiling
        BY <1>1, <3>1, <3>3 DEF TraceGood
      <3>5. reply.from \in Hops
        BY DEF TraceInv, TraceTypes, Replies
      <3>. QED BY <3>1, <3>2, <3>4, <3>5
    <2>. QED BY <2>1, <2>2
  <1>3. hTraces' \in Seq(Traces) /\ hEvents' \in Seq(HopEvents) /\ TracesGood'
    BY <1>2, HopAdded
  <1>4. DOMAIN hTraces' = DOMAIN hTraces
    BY <1>2 DEF HopReported, Become, TraceInv, TraceTypes
  <1>5. TraceInv'
    BY <1>2, <1>3, <1>4 DEF TraceInv, TraceTypes
  <1>. QED BY <1>2, <1>5

\* A reply that is not the one waited for is passed over.
LEMMA PassedOver ==
  ASSUME TraceInv, NEW t \in DOMAIN hTraces, NEW reply \in hAir, NEW again \in BOOLEAN,
         ReceiveReply(t, reply, again), ~Answers(reply, hTraces[t])
  PROVE  TraceInv' /\ UNCHANGED <<hTraces, hEvents, hTab, hNow>>
  <1>1. hAir' \subseteq hAir /\ UNCHANGED <<hTraces, hEvents, hTab, hNow>>
    BY DEF ReceiveReply
  <1>2. TracesGood'
    BY <1>1 DEF TraceInv, TracesGood, TraceGood
  <1>. QED BY <1>1, <1>2 DEF TraceInv, TraceTypes

LEMMA HopTickStep ==
  ASSUME TraceInv, HopTick
  PROVE  TraceInv'
  <1>1. hNow \in Nat /\ hNow' = hNow + 1 /\ UNCHANGED <<hTraces, hAir, hEvents, hTab>>
    BY DEF HopTick, TraceInv, TraceTypes
  <1>2. ASSUME NEW t \in DOMAIN hTraces
        PROVE  TraceGood(t, hTraces[t], hAir, hNow')
    <2>. DEFINE trace == hTraces[t]
    <2>1. trace \in Traces /\ TraceGood(t, trace, hAir, hNow)
      BY DEF TraceInv, TraceTypes, TracesGood
    <2>2. ~AtLoop(trace) /\ (trace.waits # Hole => hNow < trace.since + HopTimeout)
      BY DEF HopTick
    <2>3. trace.since \in Nat /\ trace.began \in Nat
      BY <2>1 DEF Traces
    <2>. HIDE DEF trace
    <2>4. trace.waits # Hole => /\ hNow' <= trace.since + HopTimeout
                                /\ hNow' <= trace.began + TraceTimeout + HopTimeout
      BY <1>1, <2>1, <2>2, <2>3, TraceConstants DEF TraceGood
    <2>5. trace.state = "running" => trace.waits # Hole
      BY <2>2 DEF AtLoop
    <2>6. TraceGood(t, trace, hAir, hNow')
      BY <2>1, <2>4, <2>5 DEF TraceGood
    <2>. QED BY <2>6 DEF trace
  <1>3. TracesGood'
    BY <1>1, <1>2 DEF TracesGood
  <1>. QED BY <1>1, <1>3 DEF TraceInv, TraceTypes

-----------------------------------------------------------------------------
(* The tab *)

Mine(row) == {t \in DOMAIN hTraces : hTraces[t].row = row}
Latest(S) == CHOOSE t \in S : \A u \in S : u <= t
HasLatest(S) == S # {} => \E t \in S : \A u \in S : u <= t
Alone(row) == \A t \in DOMAIN hTraces : Target[hTraces[t].row] = Target[row] => t \in Mine(row)

\* No hop of it is told any more.
Done(trace) == trace.state = "over" \/ Len(trace.hops) >= HopCeiling

\* The list and then the events for it are the hops of a trace, each once and in order.
ListsAll(row, hops, list, events) ==
  LET Of(j) == events[j].target = Target[row]
  IN /\ Len(list) <= Len(hops)
     /\ \A i \in 1..Len(list) : list[i].number = i /\ list[i].ip = hops[i]
     /\ \A j \in 1..Len(events) : Of(j) =>
          events[j].number \in Len(list)+1..Len(hops) /\ events[j].ip = hops[events[j].number]
     /\ \A i, j \in 1..Len(events) : i < j /\ Of(i) /\ Of(j) => events[i].number < events[j].number
     /\ \A k \in Len(list)+1..Len(hops) : \E j \in 1..Len(events) : Of(j) /\ events[j].number = k

\* What holds of a row whose target no other row asked for: its earlier traces are
\* done, and so is the last one when the row may ask again.
TabGood(row) ==
  LET last == hTraces[Latest(Mine(row))]
  IN Mine(row) # {} /\ Alone(row) =>
       /\ hTab.asker[Target[row]] = row
       /\ ListsAll(row, last.hops, hTab.lists[row], hEvents)
       /\ \A t \in Mine(row) : t # Latest(Mine(row)) => Done(hTraces[t])
       /\ ~hTab.inFlight[row] => Done(last) /\ Len(hTab.lists[row]) = Len(last.hops)

Askers == \A x \in Targets : hTab.asker[x] # Hole => Target[hTab.asker[x]] = x
EventsOfTraces == \A j \in 1..Len(hEvents) : \E t \in DOMAIN hTraces : Target[hTraces[t].row] = hEvents[j].target

TabInv ==
  /\ \A row \in Rows : HasLatest(Mine(row))
  /\ \A row \in Rows : TabGood(row)
  /\ Askers
  /\ EventsOfTraces

\* A hop and its event.
LEMMA ListsHop ==
  ASSUME NEW row, NEW hops \in Seq(Hops), NEW list \in Seq(HopEvents), NEW events \in Seq(HopEvents),
         ListsAll(row, hops, list, events), NEW ip \in Hops, NEW e \in HopEvents,
         e.target = Target[row], e.number = Len(hops) + 1, e.ip = ip
  PROVE  ListsAll(row, Append(hops, ip), list, Append(events, e))
  <1>. DEFINE h == Append(hops, ip)
              v == Append(events, e)
  <1>1. Len(h) = Len(hops) + 1 /\ h[Len(hops) + 1] = ip /\ \A i \in 1..Len(hops) : h[i] = hops[i]
    OBVIOUS
  <1>2. Len(v) = Len(events) + 1 /\ v[Len(events) + 1] = e /\ \A i \in 1..Len(events) : v[i] = events[i]
    OBVIOUS
  <1>3. Len(list) \in Nat /\ Len(hops) \in Nat /\ Len(events) \in Nat
    OBVIOUS
  <1>. HIDE DEF h, v
  <1>4. Len(list) <= Len(h) /\ \A i \in 1..Len(list) : list[i].number = i /\ list[i].ip = h[i]
    BY <1>1, <1>3 DEF ListsAll
  <1>5. \A j \in 1..Len(v) : v[j].target = Target[row] =>
          v[j].number \in Len(list)+1..Len(h) /\ v[j].ip = h[v[j].number]
    BY <1>1, <1>2, <1>3 DEF ListsAll
  <1>6. ASSUME NEW i \in 1..Len(v), NEW j \in 1..Len(v), i < j, v[i].target = Target[row], v[j].target = Target[row]
        PROVE  v[i].number < v[j].number
    <2>1. i \in 1..Len(events) /\ v[i] = events[i]
      BY <1>2, <1>3, <1>6
    <2>2. v[i].number \in Len(list)+1..Len(hops)
      BY <1>6, <2>1 DEF ListsAll
    <2>3. CASE j = Len(events) + 1
      BY <1>2, <1>3, <2>2, <2>3
    <2>4. CASE j # Len(events) + 1
      <3>1. j \in 1..Len(events) /\ v[j] = events[j]
        BY <1>2, <1>3, <2>4
      <3>. QED BY <1>6, <2>1, <3>1 DEF ListsAll
    <2>. QED BY <2>3, <2>4
  <1>7. ASSUME NEW k \in Len(list)+1..Len(h)
        PROVE  \E j \in 1..Len(v) : v[j].target = Target[row] /\ v[j].number = k
    <2>1. CASE k = Len(h)
      BY <1>1, <1>2, <1>3, <2>1
    <2>2. CASE k # Len(h)
      <3>1. k \in Len(list)+1..Len(hops)
        BY <1>1, <1>3, <2>2
      <3>2. PICK j \in 1..Len(events) : events[j].target = Target[row] /\ events[j].number = k
        BY <3>1 DEF ListsAll
      <3>. QED BY <1>2, <1>3, <3>2
    <2>. QED BY <2>1, <2>2
  <1>8. ListsAll(row, h, list, v)
    BY <1>4, <1>5, <1>6, <1>7 DEF ListsAll
  <1>. QED BY <1>8 DEF h, v

\* An event for another target.
LEMMA ListsOther ==
  ASSUME NEW row, NEW hops \in Seq(Hops), NEW list \in Seq(HopEvents), NEW events \in Seq(HopEvents),
         ListsAll(row, hops, list, events), NEW e \in HopEvents, e.target # Target[row]
  PROVE  ListsAll(row, hops, list, Append(events, e))
  <1>. DEFINE v == Append(events, e)
  <1>1. Len(v) = Len(events) + 1 /\ v[Len(events) + 1] = e /\ \A i \in 1..Len(events) : v[i] = events[i]
    OBVIOUS
  <1>2. Len(list) \in Nat /\ Len(hops) \in Nat /\ Len(events) \in Nat
    OBVIOUS
  <1>. HIDE DEF v
  <1>3. ASSUME NEW j \in 1..Len(v), v[j].target = Target[row]
        PROVE  j \in 1..Len(events) /\ v[j] = events[j]
    BY <1>1, <1>2, <1>3
  <1>4. ASSUME NEW k \in Len(list)+1..Len(hops)
        PROVE  \E j \in 1..Len(v) : v[j].target = Target[row] /\ v[j].number = k
    <2>1. PICK j \in 1..Len(events) : events[j].target = Target[row] /\ events[j].number = k
      BY DEF ListsAll
    <2>. QED BY <1>1, <1>2, <2>1
  <1>5. \A j \in 1..Len(v) : v[j].target = Target[row] =>
          v[j].number \in Len(list)+1..Len(hops) /\ v[j].ip = hops[v[j].number]
    <2>1. \A j \in 1..Len(events) : events[j].target = Target[row] =>
            events[j].number \in Len(list)+1..Len(hops) /\ events[j].ip = hops[events[j].number]
      BY DEF ListsAll
    <2>. QED BY <1>3, <2>1
  <1>6. ASSUME NEW i \in 1..Len(v), NEW j \in 1..Len(v), i < j, v[i].target = Target[row], v[j].target = Target[row]
        PROVE  v[i].number < v[j].number
    <2>1. i \in 1..Len(events) /\ j \in 1..Len(events) /\ v[i] = events[i] /\ v[j] = events[j]
      BY <1>3, <1>6
    <2>. QED BY <1>6, <2>1 DEF ListsAll
  <1>7. Len(list) <= Len(hops) /\ \A i \in 1..Len(list) : list[i].number = i /\ list[i].ip = hops[i]
    BY DEF ListsAll
  <1>8. ListsAll(row, hops, list, v)
    BY <1>4, <1>5, <1>6, <1>7 DEF ListsAll
  <1>. QED BY <1>8 DEF v

\* The first event: for the row it is the next hop of the list.
LEMMA ListsNext ==
  ASSUME NEW row, NEW hops \in Seq(Hops), NEW list \in Seq(HopEvents), NEW events \in Seq(HopEvents),
         ListsAll(row, hops, list, events), events # <<>>
  PROVE  /\ Head(events).target = Target[row] =>
              /\ Head(events).number = Len(list) + 1 /\ Len(list) < Len(hops)
              /\ Head(events).ip = hops[Len(list) + 1]
              /\ ListsAll(row, hops, Append(list, Head(events)), Tail(events))
         /\ Head(events).target # Target[row] => ListsAll(row, hops, list, Tail(events))
  <1>. DEFINE e == Head(events)
              v == Tail(events)
              n == Len(list)
  <1>1. /\ Len(events) \in Nat /\ Len(events) > 0 /\ Len(v) = Len(events) - 1 /\ e = events[1]
        /\ \A i \in 1..Len(v) : v[i] = events[i + 1]
    OBVIOUS
  <1>2. n \in Nat /\ Len(hops) \in Nat
    OBVIOUS
  <1>3. e \in HopEvents
    OBVIOUS
  <1>6. \A i, j \in 1..Len(events) :
            i < j /\ events[i].target = Target[row] /\ events[j].target = Target[row]
            => events[i].number < events[j].number
    BY DEF ListsAll
  <1>. HIDE DEF e, v, n
  <1>4. CASE e.target = Target[row]
    <2>1. e.number \in n+1..Len(hops) /\ e.ip = hops[e.number]
      BY <1>1, <1>4 DEF ListsAll, n
    <2>2. e.number = n + 1
      <3>1. n + 1 \in n+1..Len(hops)
        BY <1>2, <2>1
      <3>2. PICK j \in 1..Len(events) : events[j].target = Target[row] /\ events[j].number = n + 1
        BY <3>1 DEF ListsAll, n
      <3>3. CASE j = 1
        BY <1>1, <3>2, <3>3
      <3>4. CASE j # 1
        <4>1. e.number < n + 1
          <5>1. 1 \in 1..Len(events) /\ 1 < j
            BY <1>1, <3>4
          <5>. QED BY <1>1, <1>4, <3>2, <5>1 DEF ListsAll
        <4>. QED BY <1>2, <2>1, <4>1
      <3>. QED BY <3>3, <3>4
    <2>. DEFINE l == Append(list, e)
    <2>3. Len(l) = n + 1 /\ l[n + 1] = e /\ \A i \in 1..n : l[i] = list[i]
      BY <1>3 DEF n
    <2>. HIDE DEF l
    <2>4. Len(l) <= Len(hops) /\ \A i \in 1..Len(l) : l[i].number = i /\ l[i].ip = hops[i]
      <3>1. Len(l) <= Len(hops)
        BY <1>2, <2>1, <2>2, <2>3
      <3>2. l[n + 1].number = n + 1 /\ l[n + 1].ip = hops[n + 1]
        BY <2>1, <2>2, <2>3
      <3>3. \A i \in 1..n : l[i].number = i /\ l[i].ip = hops[i]
        BY <2>3 DEF ListsAll, n
      <3>4. \A i \in 1..Len(l) : i \in 1..n \/ i = n + 1
        BY <1>2, <2>3
      <3>. QED BY <3>1, <3>2, <3>3, <3>4
    <2>5. ASSUME NEW j \in 1..Len(v), v[j].target = Target[row]
          PROVE  v[j].number \in Len(l)+1..Len(hops) /\ v[j].ip = hops[v[j].number]
      <3>1. j + 1 \in 1..Len(events) /\ v[j] = events[j + 1] /\ 1 \in 1..Len(events) /\ 1 < j + 1
        BY <1>1
      <3>2. events[j + 1].number \in n+1..Len(hops) /\ events[j + 1].ip = hops[events[j + 1].number]
        BY <2>5, <3>1 DEF ListsAll, n
      <3>3. n + 1 < events[j + 1].number
        <4>1. events[1] = e /\ events[1].target = Target[row] /\ events[j + 1].target = Target[row]
          BY <1>1, <1>4, <2>5, <3>1
        <4>2. events[1].number < events[j + 1].number
          BY <1>6, <3>1, <4>1
        <4>. QED BY <2>2, <4>1, <4>2
      <3>. QED BY <1>2, <2>3, <3>1, <3>2, <3>3
    <2>6. ASSUME NEW i \in 1..Len(v), NEW j \in 1..Len(v), i < j, v[i].target = Target[row], v[j].target = Target[row]
          PROVE  v[i].number < v[j].number
      <3>1. i + 1 \in 1..Len(events) /\ j + 1 \in 1..Len(events) /\ i + 1 < j + 1
            /\ v[i] = events[i + 1] /\ v[j] = events[j + 1]
        BY <1>1, <2>6
      <3>. QED BY <1>6, <2>6, <3>1
    <2>7. ASSUME NEW k \in Len(l)+1..Len(hops)
          PROVE  \E j \in 1..Len(v) : v[j].target = Target[row] /\ v[j].number = k
      <3>1. k \in n+1..Len(hops) /\ k # n + 1
        BY <1>2, <2>3
      <3>2. PICK j \in 1..Len(events) : events[j].target = Target[row] /\ events[j].number = k
        BY <3>1 DEF ListsAll, n
      <3>3. j # 1
        BY <1>1, <2>2, <3>1, <3>2
      <3>4. j - 1 \in 1..Len(v) /\ v[j - 1] = events[j]
        BY <1>1, <3>3
      <3>. QED BY <3>2, <3>4
    <2>8. ListsAll(row, hops, l, v)
      BY <2>4, <2>5, <2>6, <2>7 DEF ListsAll
    <2>9. n < Len(hops) /\ e.ip = hops[n + 1]
      BY <1>2, <2>1, <2>2
    <2>. QED BY <1>4, <2>2, <2>8, <2>9 DEF l, e, v, n
  <1>5. CASE e.target # Target[row]
    <2>1. ASSUME NEW j \in 1..Len(v)
          PROVE  j + 1 \in 1..Len(events) /\ v[j] = events[j + 1]
      BY <1>1
    <2>2. ASSUME NEW i \in 1..Len(v), NEW j \in 1..Len(v), i < j, v[i].target = Target[row], v[j].target = Target[row]
          PROVE  v[i].number < v[j].number
      <3>1. i + 1 < j + 1
        BY <1>1, <2>2
      <3>. QED BY <1>6, <2>1, <2>2, <3>1
    <2>3. ASSUME NEW k \in Len(list)+1..Len(hops)
          PROVE  \E j \in 1..Len(v) : v[j].target = Target[row] /\ v[j].number = k
      <3>1. PICK j \in 1..Len(events) : events[j].target = Target[row] /\ events[j].number = k
        BY DEF ListsAll
      <3>2. j - 1 \in 1..Len(v) /\ v[j - 1] = events[j]
        BY <1>1, <1>5, <3>1
      <3>. QED BY <3>1, <3>2
    <2>4. ASSUME NEW j \in 1..Len(v), v[j].target = Target[row]
          PROVE  v[j].number \in Len(list)+1..Len(hops) /\ v[j].ip = hops[v[j].number]
      <3>1. \A i \in 1..Len(events) : events[i].target = Target[row] =>
              events[i].number \in Len(list)+1..Len(hops) /\ events[i].ip = hops[events[i].number]
        BY DEF ListsAll
      <3>2. j + 1 \in 1..Len(events) /\ v[j] = events[j + 1]
        BY <2>1
      <3>3. events[j + 1].target = Target[row]
        BY <2>4, <3>2
      <3>4. events[j + 1].number \in Len(list)+1..Len(hops) /\ events[j + 1].ip = hops[events[j + 1].number]
        BY <3>1, <3>2, <3>3
      <3>. QED BY <3>2, <3>4
    <2>5. Len(list) <= Len(hops) /\ \A i \in 1..Len(list) : list[i].number = i /\ list[i].ip = hops[i]
      BY DEF ListsAll
    <2>6. ListsAll(row, hops, list, v)
      BY <2>2, <2>3, <2>4, <2>5 DEF ListsAll
    <2>. QED BY <1>5, <2>6 DEF e, v
  <1>. QED BY <1>4, <1>5 DEF e, v

\* The latest trace of a row is one of its traces.
LEMMA LatestIsMine ==
  ASSUME NEW row \in Rows, HasLatest(Mine(row)), Mine(row) # {}
  PROVE  /\ Latest(Mine(row)) \in Mine(row) /\ Latest(Mine(row)) \in DOMAIN hTraces
         /\ hTraces[Latest(Mine(row))].row = row
  BY DEF HasLatest, Latest, Mine

\* Rows are not given other traces.
LEMMA RowsKept ==
  ASSUME DOMAIN hTraces' = DOMAIN hTraces, \A t \in DOMAIN hTraces : hTraces'[t].row = hTraces[t].row,
         NEW row
  PROVE  Mine(row)' = Mine(row) /\ Latest(Mine(row))' = Latest(Mine(row)) /\ (Alone(row)' <=> Alone(row))
  <1>1. Mine(row)' = Mine(row)
    BY DEF Mine
  <1>2. Latest(Mine(row))' = Latest(Mine(row))
    BY <1>1 DEF Latest
  <1>3. Alone(row)' <=> Alone(row)
    BY <1>1 DEF Alone
  <1>. QED BY <1>1, <1>2, <1>3

\* The steps that tell nothing keep the tab.
LEMMA TabQuiet ==
  ASSUME TraceInv, TabInv, DOMAIN hTraces' = DOMAIN hTraces, UNCHANGED <<hEvents, hTab>>,
         \A t \in DOMAIN hTraces : hTraces'[t].row = hTraces[t].row,
         \A t \in DOMAIN hTraces : hTraces'[t].hops = hTraces[t].hops,
         \A t \in DOMAIN hTraces : Done(hTraces[t]) => Done(hTraces'[t])
  PROVE  TabInv'
  <1>1. \A row : Mine(row)' = Mine(row) /\ Latest(Mine(row))' = Latest(Mine(row)) /\ (Alone(row)' <=> Alone(row))
    BY RowsKept
  <1>2. \A row \in Rows : HasLatest(Mine(row))'
    BY <1>1 DEF TabInv, HasLatest
  <1>3. ASSUME NEW row \in Rows PROVE TabGood(row)'
    <2>1. TabGood(row) /\ HasLatest(Mine(row))
      BY DEF TabInv
    <2>. SUFFICES ASSUME Mine(row) # {}, Alone(row)
                  PROVE  LET last == hTraces'[Latest(Mine(row))]
                         IN /\ hTab.asker[Target[row]] = row
                            /\ ListsAll(row, last.hops, hTab.lists[row], hEvents)
                            /\ \A t \in Mine(row) : t # Latest(Mine(row)) => Done(hTraces'[t])
                            /\ ~hTab.inFlight[row] => Done(last) /\ Len(hTab.lists[row]) = Len(last.hops)
      BY <1>1 DEF TabGood
    <2>2. Latest(Mine(row)) \in DOMAIN hTraces
      BY <2>1, LatestIsMine
    <2>3. \A t \in Mine(row) : t \in DOMAIN hTraces
      BY DEF Mine
    <2>4. /\ hTab.asker[Target[row]] = row
          /\ ListsAll(row, hTraces[Latest(Mine(row))].hops, hTab.lists[row], hEvents)
          /\ \A t \in Mine(row) : t # Latest(Mine(row)) => Done(hTraces[t])
          /\ ~hTab.inFlight[row] => /\ Done(hTraces[Latest(Mine(row))])
                                    /\ Len(hTab.lists[row]) = Len(hTraces[Latest(Mine(row))].hops)
      BY <2>1 DEF TabGood
    <2>5. hTraces'[Latest(Mine(row))].hops = hTraces[Latest(Mine(row))].hops
      BY <2>2
    <2>6. \A t \in Mine(row) : Done(hTraces[t]) => Done(hTraces'[t])
      BY <2>3
    <2>7. Done(hTraces[Latest(Mine(row))]) => Done(hTraces'[Latest(Mine(row))])
      BY <2>2
    <2>. QED BY <2>4, <2>5, <2>6, <2>7
  <1>4. Askers' /\ EventsOfTraces'
    <2>1. Askers'
      BY DEF TabInv, Askers
    <2>2. \A j \in 1..Len(hEvents) : \E t \in DOMAIN hTraces : Target[hTraces[t].row] = hEvents[j].target
      BY DEF TabInv, EventsOfTraces
    <2>3. EventsOfTraces'
      BY <2>2 DEF EventsOfTraces
    <2>. QED BY <2>1, <2>3
  <1>. QED BY <1>2, <1>3, <1>4 DEF TabInv

\* A hop is told of a trace that is not done, which is the latest of its row.
LEMMA TabHop ==
  ASSUME TraceInv, TabInv, NEW t \in DOMAIN hTraces, NEW ip \in Hops, HopReported(t, hTraces[t], ip),
         hTraces[t].state = "running", hTraces[t].ttl <= HopCeiling, UNCHANGED hTab
  PROVE  TabInv'
  <1>. DEFINE old == hTraces[t]
              target == Target[old.row]
              new == [old EXCEPT !.hops = Append(@, ip), !.waits = Hole, !.attempt = 0, !.ttl = @ + 1,
                                 !.state = IF ip = target THEN "over" ELSE @]
              e == [target |-> target, number |-> old.ttl, ip |-> ip]
  <1>1. old \in Traces /\ TraceGood(t, old, hAir, hNow) /\ hTraces \in Seq(Traces) /\ hEvents \in Seq(HopEvents)
    BY DEF TraceInv, TraceTypes, TracesGood
  <1>2. /\ old.row \in Rows /\ old.ttl \in Nat /\ old.hops \in Seq(Hops) /\ Len(old.hops) = old.ttl - 1
        /\ e \in HopEvents /\ new.row = old.row /\ new.hops = Append(old.hops, ip)
    BY <1>1 DEF Traces, TraceGood, HopEvents, Targets
  <1>3. hTraces' = [hTraces EXCEPT ![t] = new] /\ hEvents' = Append(hEvents, e)
    BY DEF HopReported, Become
  <1>4. ~Done(old)
    BY <1>2, TraceConstants DEF Done
  <1>5. e.target = target /\ e.number = Len(old.hops) + 1 /\ e.ip = ip
    BY <1>2
  <1>. HIDE DEF new, e
  <1>6. DOMAIN hTraces' = DOMAIN hTraces /\ hTraces'[t] = new
        /\ \A u \in DOMAIN hTraces : u # t => hTraces'[u] = hTraces[u]
    BY <1>1, <1>3
  <1>7. \A u \in DOMAIN hTraces : hTraces'[u].row = hTraces[u].row
    BY <1>2, <1>6
  <1>8. \A row : Mine(row)' = Mine(row) /\ Latest(Mine(row))' = Latest(Mine(row)) /\ (Alone(row)' <=> Alone(row))
    BY <1>6, <1>7, RowsKept
  <1>9. \A row \in Rows : HasLatest(Mine(row))'
    BY <1>8 DEF TabInv, HasLatest
  <1>10. ASSUME NEW row \in Rows PROVE TabGood(row)'
    <2>. DEFINE l == Latest(Mine(row))
    <2>1. TabGood(row) /\ HasLatest(Mine(row))
      BY DEF TabInv
    <2>. SUFFICES ASSUME Mine(row) # {}, Alone(row)
                  PROVE  LET last == hTraces'[l]
                         IN /\ hTab.asker[Target[row]] = row
                            /\ ListsAll(row, last.hops, hTab.lists[row], hEvents')
                            /\ \A u \in Mine(row) : u # l => Done(hTraces'[u])
                            /\ ~hTab.inFlight[row] => Done(last) /\ Len(hTab.lists[row]) = Len(last.hops)
      BY <1>8 DEF TabGood
    <2>2. /\ hTab.asker[Target[row]] = row
          /\ ListsAll(row, hTraces[l].hops, hTab.lists[row], hEvents)
          /\ \A u \in Mine(row) : u # l => Done(hTraces[u])
          /\ ~hTab.inFlight[row] => Done(hTraces[l]) /\ Len(hTab.lists[row]) = Len(hTraces[l].hops)
      BY <2>1 DEF TabGood
    <2>3. l \in Mine(row) /\ l \in DOMAIN hTraces /\ hTraces[l].row = row /\ Mine(row) \subseteq DOMAIN hTraces
      BY <2>1, LatestIsMine DEF Mine
    <2>4. hTraces[l].hops \in Seq(Hops) /\ hTab.lists[row] \in Seq(HopEvents)
      <3>1. hTraces[l] \in Traces
        BY <1>1, <2>3
      <3>2. hTab.lists \in [Rows -> Seq(HopEvents)]
        BY DEF TraceInv, TraceTypes
      <3>. QED BY <3>1, <3>2 DEF Traces
    <2>. HIDE DEF l
    <2>5. CASE target = Target[row]
      <3>1. t \in Mine(row)
        BY <2>5 DEF Alone
      <3>2. t = l
        BY <1>4, <2>2, <3>1
      <3>3. ListsAll(row, Append(hTraces[l].hops, ip), hTab.lists[row], hEvents')
        BY <1>1, <1>2, <1>3, <1>5, <2>2, <2>4, <2>5, <3>2, ListsHop
      <3>4. hTraces'[l].hops = Append(hTraces[l].hops, ip)
        BY <1>2, <1>6, <3>2
      <3>5. hTab.inFlight[row]
        BY <1>4, <2>2, <3>2
      <3>6. \A u \in Mine(row) : u # l => Done(hTraces'[u])
        BY <1>6, <2>2, <2>3, <3>2
      <3>. QED BY <2>2, <3>3, <3>4, <3>5, <3>6
    <2>6. CASE target # Target[row]
      <3>1. t \notin Mine(row)
        BY <2>6 DEF Mine
      <3>2. \A u \in Mine(row) : hTraces'[u] = hTraces[u]
        BY <1>6, <2>3, <3>1
      <3>3. ListsAll(row, hTraces[l].hops, hTab.lists[row], hEvents')
        BY <1>1, <1>2, <1>3, <1>5, <2>2, <2>4, <2>6, ListsOther
      <3>. QED BY <2>2, <2>3, <3>2, <3>3
    <2>. QED BY <2>5, <2>6
  <1>11. Askers'
    BY DEF TabInv, Askers
  <1>12. EventsOfTraces'
    <2>1. Len(hEvents') = Len(hEvents) + 1 /\ hEvents'[Len(hEvents) + 1] = e
          /\ \A j \in 1..Len(hEvents) : hEvents'[j] = hEvents[j]
      BY <1>1, <1>2, <1>3
    <2>2. \A j \in 1..Len(hEvents') : j \in 1..Len(hEvents) \/ j = Len(hEvents) + 1
      BY <1>1, <2>1
    <2>3. ASSUME NEW j \in 1..Len(hEvents')
          PROVE  \E u \in DOMAIN hTraces' : Target[hTraces'[u].row] = hEvents'[j].target
      <3>1. CASE j = Len(hEvents) + 1
        BY <1>5, <1>6, <1>7, <2>1, <3>1
      <3>2. CASE j \in 1..Len(hEvents)
        BY <1>6, <1>7, <2>1, <3>2 DEF TabInv, EventsOfTraces
      <3>. QED BY <2>2, <3>1, <3>2
    <2>. QED BY <2>3 DEF EventsOfTraces
  <1>. QED BY <1>9, <1>10, <1>11, <1>12 DEF TabInv

\* The tab shows an event: for the row that asked for its target, and no other.
LEMMA TabShow ==
  ASSUME TraceInv, TabInv, ShowHop
  PROVE  TabInv'
  <1>. DEFINE hop == Head(hEvents)
              asker == hTab.asker[hop.target]
  <1>1. /\ hEvents # <<>> /\ hEvents \in Seq(HopEvents) /\ hop \in HopEvents /\ hEvents' = Tail(hEvents)
        /\ hTraces \in Seq(Traces) /\ UNCHANGED <<hTraces>>
    BY DEF ShowHop, TraceInv, TraceTypes
  <1>2. /\ hTab.lists \in [Rows -> Seq(HopEvents)] /\ hTab.inFlight \in [Rows -> BOOLEAN]
        /\ hTab.asker \in [Targets -> Rows \cup {Hole}] /\ hop.target \in Targets
    BY <1>1 DEF TraceInv, TraceTypes, HopEvents
  <1>3. asker = Hole => hTab' = hTab
    BY DEF ShowHop
  <1>4. asker # Hole => asker \in Rows /\ Target[asker] = hop.target
    BY <1>2 DEF TabInv, Askers
  <1>5. asker # Hole =>
          /\ hTab'.asker = hTab.asker
          /\ hTab'.lists = [hTab.lists EXCEPT ![asker] = Append(hTab.lists[asker], hop)]
          /\ hTab'.inFlight = [hTab.inFlight EXCEPT ![asker] = hTab.inFlight[asker] /\ ~IsTraceComplete(hop)]
    <2>. SUFFICES ASSUME asker # Hole
                  PROVE  /\ hTab'.asker = hTab.asker
                         /\ hTab'.lists = [hTab.lists EXCEPT ![asker] = Append(hTab.lists[asker], hop)]
                         /\ hTab'.inFlight = [hTab.inFlight EXCEPT ![asker] = hTab.inFlight[asker] /\ ~IsTraceComplete(hop)]
      OBVIOUS
    <2>1. hTab' = [hTab EXCEPT !.lists[asker] = Append(@, hop), !.inFlight[asker] = @ /\ ~IsTraceComplete(hop)]
      BY DEF ShowHop
    <2>2. hTab \in [lists : [Rows -> Seq(HopEvents)], inFlight : [Rows -> BOOLEAN],
                    asker : [Targets -> Rows \cup {Hole}]]
      BY DEF TraceInv, TraceTypes
    <2>. HIDE DEF hop, asker
    <2>. QED BY <1>4, <2>1, <2>2
  <1>. HIDE DEF hop, asker
  <1>6. \A row : Mine(row)' = Mine(row) /\ Latest(Mine(row))' = Latest(Mine(row)) /\ (Alone(row)' <=> Alone(row))
    BY <1>1, RowsKept
  <1>7. ASSUME NEW row \in Rows PROVE TabGood(row)'
    <2>. DEFINE l == Latest(Mine(row))
                hops == hTraces[l].hops
                list == hTab.lists[row]
    <2>1. TabGood(row) /\ HasLatest(Mine(row))
      BY DEF TabInv
    <2>. SUFFICES ASSUME Mine(row) # {}, Alone(row)
                  PROVE  /\ hTab'.asker[Target[row]] = row
                         /\ ListsAll(row, hops, hTab'.lists[row], hEvents')
                         /\ \A u \in Mine(row) : u # l => Done(hTraces[u])
                         /\ ~hTab'.inFlight[row] => Done(hTraces[l]) /\ Len(hTab'.lists[row]) = Len(hops)
      BY <1>1, <1>6 DEF TabGood
    <2>2. /\ hTab.asker[Target[row]] = row
          /\ ListsAll(row, hops, list, hEvents)
          /\ \A u \in Mine(row) : u # l => Done(hTraces[u])
          /\ ~hTab.inFlight[row] => Done(hTraces[l]) /\ Len(list) = Len(hops)
      BY <2>1 DEF TabGood
    <2>3. l \in DOMAIN hTraces /\ hTraces[l].row = row /\ hTraces[l] \in Traces
      BY <1>1, <2>1, LatestIsMine
    <2>4. hops \in Seq(Hops) /\ list \in Seq(HopEvents)
      BY <1>2, <2>3 DEF Traces
    <2>5. TraceGood(l, hTraces[l], hAir, hNow)
      BY <2>3 DEF TraceInv, TracesGood
    <2>6. /\ hop.target = Target[row] =>
                /\ hop.number = Len(list) + 1 /\ Len(list) < Len(hops) /\ hop.ip = hops[Len(list) + 1]
                /\ ListsAll(row, hops, Append(list, hop), hEvents')
          /\ hop.target # Target[row] => ListsAll(row, hops, list, hEvents')
      <3>. HIDE DEF l, hops, list
      <3>. QED BY <1>1, <2>2, <2>4, ListsNext DEF hop
    <2>7. CASE hop.target # Target[row]
      <3>1. asker # Hole => asker # row
        BY <1>4, <2>7
      <3>2. hTab'.asker = hTab.asker /\ hTab'.lists[row] = list /\ hTab'.inFlight[row] = hTab.inFlight[row]
        BY <1>2, <1>3, <1>4, <1>5, <3>1
      <3>. HIDE DEF l, hops, list
      <3>. QED BY <2>2, <2>6, <2>7, <3>2
    <2>8. CASE hop.target = Target[row]
      <3>1. asker = row /\ asker # Hole
        BY <2>2, <2>8, TracerouteAssumption DEF asker
      <3>2. hTab'.asker = hTab.asker /\ hTab'.lists[row] = Append(list, hop)
        BY <1>2, <1>5, <3>1
      <3>3. hTab'.inFlight[row] = (hTab.inFlight[row] /\ ~IsTraceComplete(hop))
        BY <1>2, <1>5, <3>1
      <3>4. Len(Append(list, hop)) = Len(list) + 1 /\ Len(list) \in Nat /\ Len(hops) \in Nat
        <4>. HIDE DEF list, hops
        <4>. QED BY <1>1, <2>4
      <3>5. hTab.inFlight[row]
        BY <1>2, <2>2, <2>6, <2>8, <3>4
      <3>6. ASSUME IsTraceComplete(hop)
            PROVE  Done(hTraces[l]) /\ Len(Append(list, hop)) = Len(hops)
        <4>1. CASE hop.ip = hop.target
          <5>1. hops[Len(list) + 1] = Target[hTraces[l].row] /\ Len(list) + 1 \in 1..Len(hops)
            BY <2>3, <2>6, <2>8, <3>4, <4>1
          <5>2. Len(list) + 1 = Len(hops) /\ hTraces[l].state = "over"
            BY <2>5, <5>1 DEF TraceGood
          <5>. QED BY <3>4, <5>2 DEF Done
        <4>2. CASE hop.number >= HopCeiling
          <5>1. Len(hops) <= HopCeiling
            <6>1. Len(hops) = hTraces[l].ttl - 1 /\ hTraces[l].ttl <= HopCeiling + 1 /\ hTraces[l].ttl \in Nat
              BY <2>3, <2>5 DEF TraceGood, Traces
            <6>. QED BY <3>4, <6>1, TraceConstants
          <5>2. Len(list) + 1 = Len(hops) /\ Len(hops) >= HopCeiling
            <6>. HIDE DEF hops, list
            <6>. QED BY <2>6, <2>8, <3>4, <4>2, <5>1, TraceConstants
          <5>. QED BY <3>4, <5>2 DEF Done
        <4>. QED BY <3>6, <4>1, <4>2 DEF IsTraceComplete
      <3>. HIDE DEF l, hops, list
      <3>7. ~hTab'.inFlight[row] => IsTraceComplete(hop)
        BY <3>3, <3>5
      <3>. QED BY <2>2, <2>6, <2>8, <3>2, <3>6, <3>7
    <2>. QED BY <2>7, <2>8
  <1>8. \A row \in Rows : HasLatest(Mine(row))'
    BY <1>6 DEF TabInv, HasLatest
  <1>9. Askers'
    BY <1>3, <1>5 DEF TabInv, Askers
  <1>10. EventsOfTraces'
    <2>1. \A j \in 1..Len(hEvents') : j + 1 \in 1..Len(hEvents) /\ hEvents'[j] = hEvents[j + 1]
      BY <1>1
    <2>. QED BY <1>1, <2>1 DEF TabInv, EventsOfTraces
  <1>. QED BY <1>7, <1>8, <1>9, <1>10 DEF TabInv

\* A row asks again only after the last hop of its last trace was shown.
LEMMA TabAsk ==
  ASSUME TraceInv, TabInv, NEW row \in Rows, NEW heard \in BOOLEAN, AskTrace(row, heard)
  PROVE  TabInv'
  <1>. DEFINE new == [NewTrace(row) EXCEPT !.state = IF heard THEN "asked" ELSE "over"]
              n == Len(hTraces)
  <1>1. new.row = row /\ new.hops = <<>>
    BY DEF NewTrace
  <1>2. /\ hTraces' = Append(hTraces, new) /\ ~hTab.inFlight[row] /\ hEvents' = hEvents
        /\ hTab' = [lists |-> [hTab.lists EXCEPT ![row] = <<>>],
                    inFlight |-> [hTab.inFlight EXCEPT ![row] = TRUE],
                    asker |-> [hTab.asker EXCEPT ![Target[row]] = row]]
    BY DEF AskTrace
  <1>3. /\ hTab.lists \in [Rows -> Seq(HopEvents)] /\ hTab.inFlight \in [Rows -> BOOLEAN]
        /\ hTab.asker \in [Targets -> Rows \cup {Hole}] /\ hTraces \in Seq(Traces) /\ hEvents \in Seq(HopEvents)
    BY DEF TraceInv, TraceTypes
  <1>. HIDE DEF new
  <1>4. /\ n \in Nat /\ DOMAIN hTraces = 1..n /\ DOMAIN hTraces' = 1..(n + 1) /\ hTraces'[n + 1] = new
        /\ \A t \in 1..n : hTraces'[t] = hTraces[t]
    BY <1>2, <1>3
  <1>6. Mine(row)' = Mine(row) \cup {n + 1} /\ \A r \in Rows : r # row => Mine(r)' = Mine(r)
    BY <1>1, <1>4 DEF Mine
  <1>7. \A r \in Rows : Mine(r) \subseteq 1..n
    BY <1>4 DEF Mine
  <1>8. Latest(Mine(row)') = n + 1 /\ \A u \in Mine(row)' : u <= n + 1
    <2>1. \A u \in Mine(row)' : u <= n + 1 /\ u \in Nat
      BY <1>4, <1>6, <1>7
    <2>2. n + 1 \in Mine(row)'
      BY <1>6
    <2>3. \A t \in Mine(row)' : (\A u \in Mine(row)' : u <= t) => t = n + 1
      BY <1>4, <2>1, <2>2
    <2>. QED BY <2>1, <2>2, <2>3 DEF Latest
  <1>9. \A r \in Rows : HasLatest(Mine(r))'
    <2>1. HasLatest(Mine(row)')
      BY <1>6, <1>8 DEF HasLatest
    <2>. QED BY <1>6, <2>1 DEF TabInv, HasLatest
  <1>10. \A r \in Rows : Alone(r)' => Alone(r)
    <2>. SUFFICES ASSUME NEW r \in Rows, Alone(r)', NEW t \in DOMAIN hTraces, Target[hTraces[t].row] = Target[r]
                  PROVE  t \in Mine(r)
      BY DEF Alone
    <2>1. t \in DOMAIN hTraces' /\ hTraces'[t] = hTraces[t]
      BY <1>4
    <2>2. t \in Mine(r)'
      BY <2>1 DEF Alone
    <2>. QED BY <2>1, <2>2 DEF Mine
  <1>11. ASSUME NEW r \in Rows, r # row PROVE TabGood(r)'
    <2>. SUFFICES ASSUME Mine(r)' # {}, Alone(r)' PROVE TabGood(r)'
      BY DEF TabGood
    <2>. DEFINE l == Latest(Mine(r))
    <2>1. TabGood(r) /\ HasLatest(Mine(r)) /\ Mine(r)' = Mine(r) /\ Mine(r) # {} /\ Alone(r)
      BY <1>6, <1>10, <1>11 DEF TabInv
    <2>2. l \in DOMAIN hTraces /\ Latest(Mine(r))' = l /\ Mine(r) \subseteq DOMAIN hTraces
      BY <2>1, LatestIsMine DEF Mine
    <2>3. \A t \in DOMAIN hTraces : hTraces'[t] = hTraces[t]
      BY <1>4
    <2>4. Target[r] # Target[row]
      <3>1. n + 1 \in DOMAIN hTraces' /\ hTraces'[n + 1].row = row
        BY <1>1, <1>4
      <3>2. n + 1 \notin Mine(r)'
        BY <1>1, <1>4, <1>11 DEF Mine
      <3>. QED BY <3>1, <3>2 DEF Alone
    <2>5. Target[r] \in Targets /\ Target[row] \in Targets
      BY DEF Targets
    <2>6. /\ hTab'.asker[Target[r]] = hTab.asker[Target[r]] /\ hTab'.lists[r] = hTab.lists[r]
          /\ hTab'.inFlight[r] = hTab.inFlight[r]
      BY <1>2, <1>3, <1>11, <2>4, <2>5
    <2>7. /\ hTab.asker[Target[r]] = r
          /\ ListsAll(r, hTraces[l].hops, hTab.lists[r], hEvents)
          /\ \A u \in Mine(r) : u # l => Done(hTraces[u])
          /\ ~hTab.inFlight[r] => Done(hTraces[l]) /\ Len(hTab.lists[r]) = Len(hTraces[l].hops)
      BY <2>1 DEF TabGood
    <2>. HIDE DEF l
    <2>8. /\ hTab'.asker[Target[r]] = r
          /\ ListsAll(r, hTraces'[l].hops, hTab'.lists[r], hEvents')
          /\ \A u \in Mine(r) : u # l => Done(hTraces'[u])
          /\ ~hTab'.inFlight[r] => Done(hTraces'[l]) /\ Len(hTab'.lists[r]) = Len(hTraces'[l].hops)
      BY <1>2, <2>2, <2>3, <2>6, <2>7
    <2>. QED BY <2>1, <2>2, <2>8 DEF TabGood
  <1>12. TabGood(row)'
    <2>. SUFFICES ASSUME Alone(row)' PROVE TabGood(row)'
      BY DEF TabGood
    <2>. DEFINE l == Latest(Mine(row))
    <2>1. TabGood(row) /\ HasLatest(Mine(row)) /\ Alone(row)
      BY <1>10 DEF TabInv
    <2>2. \A j \in 1..Len(hEvents) : hEvents[j].target # Target[row]
      <3>. SUFFICES ASSUME NEW j \in 1..Len(hEvents), hEvents[j].target = Target[row] PROVE FALSE
        OBVIOUS
      <3>1. PICK t \in DOMAIN hTraces : Target[hTraces[t].row] = Target[row]
        BY DEF TabInv, EventsOfTraces
      <3>2. Mine(row) # {}
        BY <2>1, <3>1 DEF Alone
      <3>3. ListsAll(row, hTraces[l].hops, hTab.lists[row], hEvents) /\ Len(hTab.lists[row]) = Len(hTraces[l].hops)
        BY <1>2, <2>1, <3>2 DEF TabGood
      <3>4. hEvents[j].number \in Len(hTab.lists[row])+1..Len(hTraces[l].hops)
        BY <3>3 DEF ListsAll
      <3>5. Len(hTab.lists[row]) \in Nat
        <4>1. hTab.lists[row] \in Seq(HopEvents)
          BY <1>3
        <4>. QED BY <4>1
      <3>. QED BY <3>3, <3>4, <3>5
    <2>3. ListsAll(row, <<>>, <<>>, hEvents)
      BY <2>2 DEF ListsAll
    <2>4. \A u \in Mine(row) : Done(hTraces[u])
      <3>. SUFFICES ASSUME NEW u \in Mine(row) PROVE Done(hTraces[u])
        OBVIOUS
      <3>. QED BY <1>2, <2>1 DEF TabGood
    <2>5. \A u \in Mine(row)' : u # n + 1 => Done(hTraces'[u])
      BY <1>4, <1>6, <1>7, <2>4
    <2>6. Target[row] \in Targets
      BY DEF Targets
    <2>7. hTab'.asker[Target[row]] = row /\ hTab'.lists[row] = <<>> /\ hTab'.inFlight[row]
      BY <1>2, <1>3, <2>6
    <2>8. Latest(Mine(row))' = n + 1 /\ hTraces'[n + 1].hops = <<>>
      BY <1>1, <1>4, <1>8
    <2>. QED BY <1>2, <2>3, <2>5, <2>7, <2>8 DEF TabGood
  <1>13. Askers'
    BY <1>2, <1>3 DEF TabInv, Askers
  <1>14. EventsOfTraces'
    <2>1. \A t \in DOMAIN hTraces : t \in DOMAIN hTraces' /\ hTraces'[t] = hTraces[t]
      BY <1>4
    <2>. QED BY <1>2, <2>1 DEF TabInv, EventsOfTraces
  <1>. QED BY <1>9, <1>11, <1>12, <1>13, <1>14 DEF TabInv

\* A step of a trace that tells nothing keeps its row and its hops, and leaves it done.
LEMMA QuietActions ==
  ASSUME TraceInv, TabInv, NEW t \in DOMAIN hTraces, NEW b \in BOOLEAN,
         \/ OpenSession(t, b) \/ ProbeRefused(t, b) \/ AttemptOver(t, b) \/ TraceEnds(t)
         \/ \E replies \in {{}, {Reply(t, hTraces[t])}} : SendProbe(t, replies)
  PROVE  TabInv'
  <1>. DEFINE old == hTraces[t]
  <1>1. old \in Traces /\ hTraces \in Seq(Traces)
    BY DEF TraceInv, TraceTypes
  <1>2. ASSUME NEW new, hTraces' = [hTraces EXCEPT ![t] = new], new.row = old.row, new.hops = old.hops,
               new.state = "over" \/ old.state # "over", UNCHANGED <<hEvents, hTab>>
        PROVE  TabInv'
    <2>1. DOMAIN hTraces' = DOMAIN hTraces /\ hTraces'[t] = new
          /\ \A u \in DOMAIN hTraces : u # t => hTraces'[u] = hTraces[u]
      BY <1>1, <1>2
    <2>2. Done(old) => Done(new)
      BY <1>2 DEF Done
    <2>3. /\ \A u \in DOMAIN hTraces : hTraces'[u].row = hTraces[u].row
          /\ \A u \in DOMAIN hTraces : hTraces'[u].hops = hTraces[u].hops
      BY <1>2, <2>1
    <2>4. \A u \in DOMAIN hTraces : Done(hTraces[u]) => Done(hTraces'[u])
      BY <2>1, <2>2
    <2>. QED BY <1>2, <2>1, <2>3, <2>4, TabQuiet
  <1>3. CASE OpenSession(t, b)
    <2>. DEFINE new == [old EXCEPT !.state = IF b THEN "running" ELSE "over", !.began = hNow]
    <2>1. hTraces' = [hTraces EXCEPT ![t] = new] /\ old.state = "asked" /\ UNCHANGED <<hEvents, hTab>>
      BY <1>3 DEF OpenSession, Become
    <2>2. new.row = old.row /\ new.hops = old.hops
      BY <1>1 DEF Traces
    <2>. HIDE DEF new
    <2>. QED BY <1>2, <2>1, <2>2
  <1>4. CASE ProbeRefused(t, b)
    <2>. DEFINE new == [old EXCEPT !.attempt = @ + 1, !.sequence = IF b THEN NextSeq(@) ELSE @]
    <2>1. hTraces' = [hTraces EXCEPT ![t] = new] /\ old.state = "running" /\ UNCHANGED <<hEvents, hTab>>
      BY <1>4 DEF ProbeRefused, Become, AtLoop
    <2>2. new.row = old.row /\ new.hops = old.hops
      BY <1>1 DEF Traces
    <2>. HIDE DEF new
    <2>. QED BY <1>2, <2>1, <2>2
  <1>5. CASE AttemptOver(t, b)
    <2>. DEFINE new == [old EXCEPT !.waits = Hole]
    <2>1. hTraces' = [hTraces EXCEPT ![t] = new] /\ old.waits # Hole /\ UNCHANGED <<hEvents, hTab>>
      BY <1>5 DEF AttemptOver, Become
    <2>2. new.row = old.row /\ new.hops = old.hops
      BY <1>1 DEF Traces
    <2>3. old.state = "running"
      BY <2>1 DEF TraceInv, TracesGood, TraceGood
    <2>. HIDE DEF new
    <2>. QED BY <1>2, <2>1, <2>2, <2>3
  <1>6. CASE TraceEnds(t)
    <2>. DEFINE new == [old EXCEPT !.state = "over"]
    <2>1. hTraces' = [hTraces EXCEPT ![t] = new] /\ old.state = "running" /\ UNCHANGED <<hEvents, hTab>>
      BY <1>6 DEF TraceEnds, Become, AtLoop
    <2>2. new.row = old.row /\ new.hops = old.hops
      BY <1>1 DEF Traces
    <2>. HIDE DEF new
    <2>. QED BY <1>2, <2>1, <2>2
  <1>7. ASSUME NEW replies, SendProbe(t, replies)
        PROVE  TabInv'
    <2>. DEFINE new == [old EXCEPT !.attempt = @ + 1, !.waits = old.sequence, !.since = hNow, !.sequence = NextSeq(@)]
    <2>1. hTraces' = [hTraces EXCEPT ![t] = new] /\ old.state = "running" /\ UNCHANGED <<hEvents, hTab>>
      BY <1>7 DEF SendProbe, Become, AtLoop
    <2>2. new.row = old.row /\ new.hops = old.hops
      BY <1>1 DEF Traces
    <2>. HIDE DEF new
    <2>. QED BY <1>2, <2>1, <2>2
  <1>. QED BY <1>3, <1>4, <1>5, <1>6, <1>7

-----------------------------------------------------------------------------
(* All steps *)

LEMMA TraceInitially ==
  ASSUME TraceInit
  PROVE  TraceInv /\ TabInv
  <1>1. hTraces = <<>> /\ hAir = {} /\ hEvents = <<>> /\ hNow = 0
    BY DEF TraceInit
  <1>2. /\ hTab = [lists |-> [r \in Rows |-> <<>>], inFlight |-> [r \in Rows |-> FALSE],
                   asker |-> [x \in Targets |-> Hole]]
    BY DEF TraceInit
  <1>3. TraceTypes
    <2>1. [r \in Rows |-> <<>>] \in [Rows -> Seq(HopEvents)]
      OBVIOUS
    <2>. QED BY <1>1, <1>2, <2>1 DEF TraceTypes
  <1>4. TracesGood
    BY <1>1 DEF TracesGood
  <1>5. \A row \in Rows : Mine(row) = {}
    BY <1>1 DEF Mine
  <1>6. TabInv
    BY <1>1, <1>2, <1>5 DEF TabInv, HasLatest, TabGood, Askers, EventsOfTraces
  <1>. QED BY <1>3, <1>4, <1>6 DEF TraceInv

LEMMA TraceStep ==
  ASSUME TraceInv, TabInv, [TraceNext]_hVars
  PROVE  TraceInv' /\ TabInv'
  <1>1. ASSUME NEW row \in Rows, NEW heard \in BOOLEAN, AskTrace(row, heard)
        PROVE  TraceInv' /\ TabInv'
    BY <1>1, AskTraceStep, TabAsk
  <1>2. CASE ShowHop
    BY <1>2, ShowHopStep, TabShow
  <1>3. ASSUME NEW t \in DOMAIN hTraces, NEW b \in BOOLEAN,
               OpenSession(t, b) \/ ProbeRefused(t, b) \/ AttemptOver(t, b)
        PROVE  TraceInv' /\ TabInv'
    BY <1>3, OpenSessionStep, ProbeRefusedStep, AttemptOverStep, QuietActions
  <1>4. ASSUME NEW t \in DOMAIN hTraces, NEW replies \in {{}, {Reply(t, hTraces[t])}}, SendProbe(t, replies)
        PROVE  TraceInv' /\ TabInv'
    <2>1. TraceInv'
      BY <1>4, SendProbeStep
    <2>2. TRUE \in BOOLEAN
      OBVIOUS
    <2>3. TabInv'
      BY <1>4, <2>2, QuietActions
    <2>. QED BY <2>1, <2>3
  <1>5. ASSUME NEW t \in DOMAIN hTraces,
               \/ HopUnanswered(t)
               \/ \E reply \in hAir, again \in BOOLEAN : ReceiveReply(t, reply, again) /\ Answers(reply, hTraces[t])
        PROVE  TraceInv' /\ TabInv'
    <2>1. TraceInv' /\ hTab' = hTab /\ hTraces[t].state = "running" /\ hTraces[t].ttl <= HopCeiling
      BY <1>5, HopOver
    <2>2. PICK ip \in Hops : HopReported(t, hTraces[t], ip)
      BY <1>5, HopOver
    <2>. QED BY <2>1, <2>2, TabHop
  <1>6. ASSUME NEW t \in DOMAIN hTraces, NEW reply \in hAir, NEW again \in BOOLEAN,
               ReceiveReply(t, reply, again), ~Answers(reply, hTraces[t])
        PROVE  TraceInv' /\ TabInv'
    <2>1. TraceInv' /\ UNCHANGED <<hTraces, hEvents, hTab, hNow>>
      BY <1>6, PassedOver
    <2>. QED BY <2>1, TabQuiet
  <1>7. ASSUME NEW t \in DOMAIN hTraces, TraceEnds(t)
        PROVE  TraceInv' /\ TabInv'
    <2>1. TRUE \in BOOLEAN
      OBVIOUS
    <2>. QED BY <1>7, <2>1, TraceEndsStep, QuietActions
  <1>8. CASE HopTick
    <2>1. UNCHANGED <<hTraces, hEvents, hTab>>
      BY <1>8 DEF HopTick
    <2>. QED BY <1>8, <2>1, HopTickStep, TabQuiet
  <1>9. CASE UNCHANGED hVars
    <2>1. UNCHANGED <<hTraces, hAir, hEvents, hTab, hNow>>
      BY <1>9 DEF hVars
    <2>2. TraceInv'
      BY <2>1 DEF TraceInv, TraceTypes, TracesGood
    <2>. QED BY <2>1, <2>2, TabQuiet
  <1>. QED BY <1>1, <1>2, <1>3, <1>4, <1>5, <1>6, <1>7, <1>8, <1>9 DEF TraceNext

\* traceroute.rs, run_traceroute_loop, and page.tsx: for any number of rows, traces,
\* routers and replies, and however late, often or out of order the replies come, a hop
\* is shown with the router that is there or with none, nothing follows the target, a
\* trace is over one attempt after its deadline, and a row whose target no other row
\* asked for lists the hops of its last trace, each once and in order.
THEOREM HopsAlwaysExact == TraceSpec => []HopsExact
  <1>1. TraceInit => TraceInv /\ TabInv
    BY TraceInitially
  <1>2. TraceInv /\ TabInv /\ [TraceNext]_hVars => (TraceInv /\ TabInv)'
    BY TraceStep
  <1>3. TraceInv /\ TabInv => HopsExact
    <2>. SUFFICES ASSUME TraceInv, TabInv PROVE HopsExact
      OBVIOUS
    <2>1. ASSUME NEW t \in DOMAIN hTraces
          PROVE  LET trace == hTraces[t]
                     n == Len(trace.hops)
                 IN /\ n <= HopCeiling
                    /\ \A i \in 1..n : trace.hops[i] \in {Hole, RouterAt(Target[trace.row], i)}
                    /\ \A i \in 1..n : trace.hops[i] = Target[trace.row] => i = n /\ trace.state = "over"
                    /\ trace.state = "running" => hNow <= trace.began + TraceTimeout + HopTimeout
      <3>1. hTraces[t] \in Traces /\ TraceGood(t, hTraces[t], hAir, hNow)
        BY DEF TraceInv, TraceTypes, TracesGood
      <3>2. Len(hTraces[t].hops) <= HopCeiling
        <4>1. hTraces[t].ttl \in Nat
          BY <3>1 DEF Traces
        <4>. QED BY <3>1, <4>1, TraceConstants DEF TraceGood
      <3>. QED BY <3>1, <3>2 DEF TraceGood
    <2>2. ASSUME NEW row \in Rows, Mine(row) # {}, Alone(row)
          PROVE  LET list == hTab.lists[row]
                     last == hTraces[Latest(Mine(row))]
                 IN /\ Len(list) <= Len(last.hops)
                    /\ \A i \in 1..Len(list) : list[i].number = i /\ list[i].ip = last.hops[i]
      BY <2>2 DEF TabInv, TabGood, ListsAll
    <2>. QED BY <2>1, <2>2 DEF HopsExact, Mine, Latest, Alone
  <1>. QED BY <1>1, <1>2, <1>3, PTL DEF TraceSpec
=============================================================================
