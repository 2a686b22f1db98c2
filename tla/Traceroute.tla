------------------------------ MODULE Traceroute ------------------------------
(***************************************************************************)
(* A traceroute from the button to the table: the tab (page.tsx,           *)
(* traceroute-state.ts) asks for it, the agent runs each trace as a task   *)
(* of its own (main.rs, traceroute.rs), and the hops come back as events   *)
(* that carry the target, not the trace.                                   *)
(*                                                                         *)
(* The network may lose, delay, repeat and reorder replies; one that       *)
(* cannot be parsed, or quotes too little of its probe, is passed over and *)
(* is like a lost one. A reply reaches the socket that sent the probe, as  *)
(* long as that is open. Timers of the agent are punctual.                 *)
(***************************************************************************)
EXTENDS Coverage

CONSTANTS
  Rows,            \* connections in the tab's list
  Target,          \* the remote address of each
  Route,           \* the routers on the way to each target, the target last
  HopCeiling,      \* HOP_CEILING, TRACEROUTE_HOP_CEILING
  Retries,         \* PER_HOP_RETRIES
  HopTimeout,      \* PER_HOP_TIMEOUT
  TraceTimeout,    \* TOTAL_TRACE_TIMEOUT
  ProbeMod,        \* sequence numbers are 16 bits: 2^16
  MaxTraces,       \* bounds: traces,
  MaxRunning,      \* those that are not over,
  MaxHopTime,      \* the clock,
  MaxProbeFaults   \* and probes that fail at once

ASSUME TracerouteAssumption ==
  /\ {HopCeiling, Retries, HopTimeout, TraceTimeout, ProbeMod} \subseteq Nat \ {0}
  /\ {MaxTraces, MaxRunning, MaxHopTime, MaxProbeFaults} \subseteq Nat
  /\ HopCeiling * Retries + 1 < ProbeMod   \* a trace uses no number twice: 30 * 3, of 2^16
  /\ Hole \notin Rows
  /\ \A r \in Rows : Target[r] \in DOMAIN Route

VARIABLES
  hTraces,   \* the traces that were asked for, in order
  hAir,      \* replies on their way
  hEvents,   \* traceroute_hop events on their way, in order
  hTab,      \* the tab: the list of each row, what is in flight, who asked for a target
  hNow,
  hFaults

hVars == <<hTraces, hAir, hEvents, hTab, hNow, hFaults>>

Targets == {Target[r] : r \in Rows}

-----------------------------------------------------------------------------
(* The tab *)

NewTrace(row) ==
  [row |-> row, state |-> "asked", ttl |-> 1, attempt |-> 0, sequence |-> 1, waits |-> Hole,
   since |-> 0, began |-> 0, hops |-> <<>>]

\* handleTraceRoute; the POST may be refused, or the control message lost.
AskTrace(row, heard) ==
  /\ Len(hTraces) < MaxTraces
  /\ Cardinality({t \in DOMAIN hTraces : hTraces[t].state # "over"}) < MaxRunning
  /\ ~hTab.inFlight[row]
  /\ hTab' = [lists |-> [hTab.lists EXCEPT ![row] = <<>>],
              inFlight |-> [hTab.inFlight EXCEPT ![row] = TRUE],
              asker |-> [hTab.asker EXCEPT ![Target[row]] = row]]
  /\ hTraces' = Append(hTraces, [NewTrace(row) EXCEPT !.state = IF heard THEN "asked" ELSE "over"])
  /\ UNCHANGED <<hAir, hEvents, hNow, hFaults>>

\* isTraceComplete
IsTraceComplete(hop) == hop.ip = hop.target \/ hop.number >= HopCeiling

\* The handler of traceroute_hop, with mergeTracerouteHop.
ShowHop ==
  LET hop == Head(hEvents)
      row == hTab.asker[hop.target]
  IN /\ hEvents # <<>>
     /\ hEvents' = Tail(hEvents)
     /\ hTab' = IF row = Hole THEN hTab
                ELSE [hTab EXCEPT !.lists[row] = Append(@, hop),
                                  !.inFlight[row] = @ /\ ~IsTraceComplete(hop)]
     /\ UNCHANGED <<hTraces, hAir, hNow, hFaults>>

-----------------------------------------------------------------------------
(* The agent's task *)

Become(t, trace) == hTraces' = [hTraces EXCEPT ![t] = trace]

Late(trace) == hNow >= trace.began + TraceTimeout

\* Between two awaits of run_traceroute_loop.
AtLoop(trace) == trace.state = "running" /\ trace.waits = Hole

\* ProbeSession::open; without a socket the trace ends and nothing is told.
OpenSession(t, opens) ==
  /\ hTraces[t].state = "asked"
  /\ Become(t, [hTraces[t] EXCEPT !.state = IF opens THEN "running" ELSE "over", !.began = hNow])
  /\ UNCHANGED <<hAir, hEvents, hTab, hNow, hFaults>>

\* The router that a probe with this hop limit gets to.
RouterAt(target, ttl) ==
  IF ttl <= Len(Route[target]) THEN Route[target][ttl] ELSE target

\* What may come back of a probe.
Reply(t, trace) ==
  [trace |-> t, number |-> trace.sequence, from |-> RouterAt(Target[trace.row], trace.ttl)]

\* ProbeSession::next_seq
NextSeq(n) == (n + 1) % ProbeMod

\* send_probe_and_await_reply, until it waits.
SendProbe(t, replies) ==
  LET trace == hTraces[t]
  IN /\ AtLoop(trace) /\ trace.attempt < Retries /\ trace.ttl <= HopCeiling /\ ~Late(trace)
     /\ Become(t, [trace EXCEPT !.attempt = @ + 1, !.waits = trace.sequence, !.since = hNow,
                                !.sequence = NextSeq(@)])
     /\ hAir' = hAir \cup replies
     /\ UNCHANGED <<hEvents, hTab, hNow, hFaults>>

\* The same when the address, the hop limit or the send is refused: the attempt
\* is over at once, and a number is used up or not.
ProbeRefused(t, numbered) ==
  LET trace == hTraces[t]
  IN /\ AtLoop(trace) /\ trace.attempt < Retries /\ trace.ttl <= HopCeiling /\ ~Late(trace)
     /\ hFaults < MaxProbeFaults /\ hFaults' = hFaults + 1
     /\ Become(t, [trace EXCEPT !.attempt = @ + 1,
                                !.sequence = IF numbered THEN NextSeq(@) ELSE @])
     /\ UNCHANGED <<hAir, hEvents, hTab, hNow>>

\* A mutant of Answers: the identifier of the process is enough.
AnswersAny(reply, trace) == TRUE

\* parse_icmp_reply and the match on identifier and sequence.
Answers(reply, trace) == reply.number = trace.waits

\* The replies that reach the other sockets, once this one is closed.
WithoutSocket(t) == {r \in hAir : r.trace # t}

\* on_hop: the hop is told, and the loop ends when it is the target.
HopReported(t, trace, ip) ==
  LET target == Target[trace.row]
  IN /\ Become(t, [trace EXCEPT !.hops = Append(@, ip), !.waits = Hole, !.attempt = 0, !.ttl = @ + 1,
                                !.state = IF ip = target THEN "over" ELSE @])
     /\ hEvents' = Append(hEvents, [target |-> target, number |-> trace.ttl, ip |-> ip])

\* recv_from: a reply, which may come again, ends the wait or is passed over.
ReceiveReply(t, reply, again) ==
  LET trace == hTraces[t]
  IN /\ reply.trace = t /\ trace.waits # Hole
     /\ \/ /\ Answers(reply, trace) /\ HopReported(t, trace, reply.from)
           /\ hAir' = IF reply.from = Target[trace.row] THEN WithoutSocket(t)
                      ELSE IF again THEN hAir ELSE hAir \ {reply}
        \/ /\ ~Answers(reply, trace) /\ ~again
           /\ hAir' = hAir \ {reply} /\ UNCHANGED <<hTraces, hEvents>>
     /\ UNCHANGED <<hTab, hNow, hFaults>>

\* The timeout of an attempt, or an error of recv_from before it.
AttemptOver(t, fault) ==
  LET trace == hTraces[t]
  IN /\ trace.waits # Hole
     /\ \/ ~fault /\ hNow >= trace.since + HopTimeout /\ UNCHANGED hFaults
        \/ fault /\ hFaults < MaxProbeFaults /\ hFaults' = hFaults + 1
     /\ Become(t, [trace EXCEPT !.waits = Hole])
     /\ UNCHANGED <<hAir, hEvents, hTab, hNow>>

\* No attempt is left, or no time for one.
HopUnanswered(t) ==
  LET trace == hTraces[t]
  IN /\ AtLoop(trace) /\ trace.attempt > 0 /\ (trace.attempt = Retries \/ Late(trace))
     /\ HopReported(t, trace, Hole)
     /\ UNCHANGED <<hAir, hTab, hNow, hFaults>>

\* The ceiling or the deadline, before a hop's first attempt.
TraceEnds(t) ==
  LET trace == hTraces[t]
  IN /\ AtLoop(trace) /\ trace.attempt = 0 /\ (trace.ttl > HopCeiling \/ Late(trace))
     /\ Become(t, [trace EXCEPT !.state = "over"])
     /\ hAir' = WithoutSocket(t)
     /\ UNCHANGED <<hEvents, hTab, hNow, hFaults>>

\* Time does not pass a timer that is due, nor a loop between two awaits.
HopTick ==
  /\ hNow < MaxHopTime
  /\ \A t \in DOMAIN hTraces :
       /\ ~AtLoop(hTraces[t])
       /\ hTraces[t].waits # Hole => hNow < hTraces[t].since + HopTimeout
  /\ hNow' = hNow + 1
  /\ UNCHANGED <<hTraces, hAir, hEvents, hTab, hFaults>>

TraceInit ==
  /\ hTraces = <<>> /\ hAir = {} /\ hEvents = <<>> /\ hNow = 0 /\ hFaults = 0
  /\ hTab = [lists |-> [r \in Rows |-> <<>>], inFlight |-> [r \in Rows |-> FALSE],
             asker |-> [x \in Targets |-> Hole]]

TraceNext ==
  \/ \E row \in Rows, heard \in BOOLEAN : AskTrace(row, heard)
  \/ ShowHop
  \/ \E t \in DOMAIN hTraces :
       \/ \E b \in BOOLEAN : OpenSession(t, b) \/ ProbeRefused(t, b) \/ AttemptOver(t, b)
       \/ \E replies \in {{}, {Reply(t, hTraces[t])}} : SendProbe(t, replies)
       \/ \E reply \in hAir, again \in BOOLEAN : ReceiveReply(t, reply, again)
       \/ HopUnanswered(t)
       \/ TraceEnds(t)
  \/ HopTick

TraceSpec == TraceInit /\ [][TraceNext]_hVars

-----------------------------------------------------------------------------
(* Properties *)

\* traceroute.rs, run_traceroute_loop and send_probe_and_await_reply: however late,
\* repeated or reordered the replies come, a hop is shown with the router that is
\* there or with none, nothing follows the target, and the trace is over one
\* attempt after its deadline at the latest. page.tsx: a row whose target no other
\* row asked for lists the hops of its last trace, each once and in order.
HopsExact ==
  /\ \A t \in DOMAIN hTraces :
       LET trace == hTraces[t]
           n == Len(trace.hops)
       IN /\ n <= HopCeiling
          /\ \A i \in 1..n : trace.hops[i] \in {Hole, RouterAt(Target[trace.row], i)}
          /\ \A i \in 1..n : trace.hops[i] = Target[trace.row] => i = n /\ trace.state = "over"
          /\ trace.state = "running" => hNow <= trace.began + TraceTimeout + HopTimeout
  /\ \A row \in Rows :
       LET mine == {t \in DOMAIN hTraces : hTraces[t].row = row}
           last == CHOOSE t \in mine : \A u \in mine : u <= t
           list == hTab.lists[row]
       IN mine # {} /\ (\A t \in DOMAIN hTraces : Target[hTraces[t].row] = Target[row] => t \in mine) =>
            /\ Len(list) <= Len(hTraces[last].hops)
            /\ \A i \in 1..Len(list) : list[i].number = i /\ list[i].ip = hTraces[last].hops[i]
=============================================================================
