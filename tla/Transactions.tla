----------------------------- MODULE Transactions -----------------------------
(***************************************************************************)
(* TransactionTracker of transaction.rs: DNS queries by flow and id, HTTP  *)
(* requests in order of their flow, matched to responses on the capture    *)
(* timestamps, reported once when they time out, within a ceiling.         *)
(*                                                                         *)
(* A request is [flow, id, out, sent, name, frame, seq]; id is Hole for    *)
(* HTTP. An event is [kind, proto, request].                               *)
(***************************************************************************)
EXTENDS Coverage, SequencesExt

CONSTANTS
  Flows,             \* flow keys
  DnsServer,         \* sides of a UDP flow that have port 53, TRUE for the remote
  DnsTimeout,        \* DNS_TIMEOUT_US
  HttpTimeout,       \* HTTP_TIMEOUT_US
  SweepInterval,     \* SWEEP_INTERVAL_US
  MaxPending,        \* MAX_PENDING
  MaxPipeline,       \* MAX_HTTP_PIPELINE
  RecentSamples      \* RECENT_SAMPLES

ASSUME TransactionsAssumption ==
  {DnsTimeout, HttpTimeout, SweepInterval, MaxPending, MaxPipeline, RecentSamples} \subseteq Nat \ {0}

Protocols == {"dns", "http"}

NewStats == [answered |-> 0, unanswered |-> 0, untracked |-> 0, min |-> Hole, max |-> Hole, recent |-> <<>>]

NewTracker ==
  [dns |-> {}, http |-> [f \in Flows |-> <<>>], answered |-> {}, total |-> 0, seq |-> 0,
   sweep |-> Hole, stats |-> [p \in Protocols |-> NewStats]]

\* reset: everything pending is forgotten, the statistics stay.
TrackerReset(t) ==
  [t EXCEPT !.dns = {}, !.http = [f \in Flows |-> <<>>], !.answered = {}, !.total = 0, !.sweep = Hole]

NoEvent == [kind |-> "none", proto |-> "none", request |-> Hole]

Outcome(t, kind, proto, request) == [t |-> t, event |-> [kind |-> kind, proto |-> proto, request |-> request]]

Nothing(t) == [t |-> t, event |-> NoEvent]

-----------------------------------------------------------------------------
(* Service times *)

\* ProtocolStats::record
StatsRecorded(s, time) ==
  [s EXCEPT !.answered = @ + 1,
            !.min = IF @ = Hole THEN time ELSE Smaller(@, time),
            !.max = IF @ = Hole THEN time ELSE Larger(@, time),
            !.recent = IF Len(@) = RecentSamples THEN Append(Tail(@), time) ELSE Append(@, time)]

\* nearest_rank, in percent: what is at that rank when the samples are sorted, the
\* least of them that so many are not above.
NearestRank(samples, percent) ==
  LET rank == Larger((percent * Len(samples) + 99) \div 100, 1)
  IN IF samples = <<>> THEN Hole
     ELSE Min({v \in Range(samples) : Cardinality({i \in DOMAIN samples : samples[i] <= v}) >= rank})

\* ProtocolStats::summary: the median and the 95th percentile
Percentiles(s) == [median |-> NearestRank(s.recent, 50), p95 |-> NearestRank(s.recent, 95)]

-----------------------------------------------------------------------------
(* Requests and responses *)

Untracked(t, proto) ==
  Outcome([t EXCEPT !.stats[proto].untracked = @ + 1], "untracked", proto, Hole)

\* answered: a response stamped before its request took no time.
Answered(t, proto, request, ts) ==
  Outcome([t EXCEPT !.total = @ - 1,
                    !.stats = [@ EXCEPT ![proto] = StatsRecorded(t.stats[proto], SatSub(ts, request.sent))]],
          "answered", proto, request)

NewRequest(m, ts, seq) ==
  [flow |-> m.flow, id |-> m.id, out |-> m.out, sent |-> ts, name |-> m.name, frame |-> Hole, seq |-> seq]

PendingDns(t, m) == {r \in t.dns : r.flow = m.flow /\ r.id = m.id}

\* is_dns_service for a message to (or from) the side that is asked.
IsDnsService(flow, serverIsRemote) == serverIsRemote \in DnsServer[flow]

DnsQuery(t, m, ts) ==
  LET r == NewRequest(m, ts, 0)
  IN IF ~IsDnsService(m.flow, m.out) THEN Nothing(t)
     ELSE IF PendingDns(t, m) # {} THEN Outcome(t, "retransmitted", "dns", Hole)
     ELSE IF t.total >= MaxPending THEN Untracked(t, "dns")
     ELSE Outcome([t EXCEPT !.answered = {a \in @ : a.flow # m.flow \/ a.id # m.id},
                            !.dns = @ \cup {r}, !.total = @ + 1],
                  "request", "dns", r)

DnsResponse(t, m, ts) ==
  LET matches == {r \in PendingDns(t, m) : r.out # m.out /\ r.name = m.name}
      r == CHOOSE r \in matches : TRUE
      told == [flow |-> m.flow, id |-> m.id, at |-> ts]
      open == {a \in t.answered : a.flow = m.flow /\ a.id = m.id}
  IN IF ~IsDnsService(m.flow, ~m.out) THEN Nothing(t)
     ELSE IF matches # {}
     THEN Answered([t EXCEPT !.dns = @ \ {r},
                             !.answered = IF Cardinality(@) < MaxPending THEN (@ \ open) \cup {told} ELSE @],
                   "dns", r, ts)
     ELSE IF PendingDns(t, m) = {} /\ open # {} THEN Outcome(t, "duplicate", "dns", Hole)
     ELSE Outcome(t, "unmatched", "dns", Hole)

HttpRequest(t, m, ts) ==
  LET r == NewRequest(m, ts, t.seq)
  IN IF t.total >= MaxPending \/ Len(t.http[m.flow]) >= MaxPipeline THEN Untracked(t, "http")
     ELSE Outcome([t EXCEPT !.seq = @ + 1, !.http[m.flow] = Append(@, r), !.total = @ + 1],
                  "request", "http", r)

\* A final response answers the oldest request of its flow.
HttpResponse(t, m, ts) ==
  LET queue == t.http[m.flow]
  IN IF queue = <<>> \/ queue[1].out = m.out THEN Outcome(t, "unmatched", "http", Hole)
     ELSE IF m.status = "interim" THEN Outcome(t, "informational", "http", Hole)
     ELSE Answered([t EXCEPT !.http[m.flow] = Tail(@)], "http", queue[1], ts)

\* observe_frame
TrackerObserved(t, m, ts, retransmit) ==
  CASE retransmit -> Nothing(t)
    [] ~retransmit /\ m.l7 = "query" -> DnsQuery(t, m, ts)
    [] ~retransmit /\ m.l7 = "response" -> DnsResponse(t, m, ts)
    [] ~retransmit /\ m.l7 = "http" -> HttpRequest(t, m, ts)
    [] ~retransmit /\ m.l7 = "reply" -> HttpResponse(t, m, ts)
    [] OTHER -> Nothing(t)

\* attach_frame_id
FrameAttached(t, event, id) ==
  LET r == event.request
      Attach(q) == IF q.flow = r.flow /\ q.id = r.id /\ q.seq = r.seq THEN [q EXCEPT !.frame = id] ELSE q
  IN IF event.kind # "request" THEN t
     ELSE IF event.proto = "dns" THEN [t EXCEPT !.dns = {Attach(q) : q \in @}]
     ELSE [t EXCEPT !.http[r.flow] = [i \in DOMAIN @ |-> Attach(t.http[r.flow][i])]]

-----------------------------------------------------------------------------
(* expire *)

Overdue(r, now, timeout) == SatSub(now, r.sent) >= timeout

\* The requests at the front of a queue that are overdue.
OverduePrefix(queue, now) ==
  Max({n \in 0..Len(queue) : \A i \in 1..n : Overdue(queue[i], now, HttpTimeout)})

\* A mutant of Expired: the interval between sweeps starts again at every frame.
ExpiredRearms(t, now) ==
  LET dns == {r \in t.dns : Overdue(r, now, DnsTimeout)}
  IN IF t.sweep # Hole /\ SatSub(now, t.sweep) < SweepInterval
     THEN [t |-> [t EXCEPT !.sweep = now], gone |-> {}]
     ELSE [t |-> [t EXCEPT !.sweep = now, !.dns = @ \ dns, !.total = @ - Cardinality(dns),
                           !.stats["dns"].unanswered = @ + Cardinality(dns)],
           gone |-> dns]

\* expire: the tracker after a sweep, and the requests it gives up.
Expired(t, now) ==
  LET dns == {r \in t.dns : Overdue(r, now, DnsTimeout)}
      Prefix(f) == OverduePrefix(t.http[f], now)
      http == UNION {{t.http[f][i] : i \in 1..Prefix(f)} : f \in Flows}
      gone == Cardinality(dns) + Cardinality(http)
  IN IF t.sweep # Hole /\ SatSub(now, t.sweep) < SweepInterval THEN [t |-> t, gone |-> {}]
     ELSE [t |-> [t EXCEPT !.sweep = now,
                    !.dns = @ \ dns,
                    !.http = [f \in Flows |-> SubSeq(t.http[f], Prefix(f) + 1, Len(t.http[f]))],
                    !.answered = {a \in @ : SatSub(now, a.at) < DnsTimeout},
                    !.total = @ - gone,
                    !.stats = [p \in Protocols |-> [t.stats[p] EXCEPT !.unanswered =
                                 @ + Cardinality(IF p = "dns" THEN dns ELSE http)]]],
           gone |-> dns \cup http]

PendingRequests(t) == t.dns \cup UNION {{t.http[f][i] : i \in 1..Len(t.http[f])} : f \in Flows}
=============================================================================
