----------------------------- MODULE CaptureClock -----------------------------
(***************************************************************************)
(* The clocks of the capture thread: ReplayClock (reassembly.rs), which    *)
(* turns the timestamps of a file into elapsed time, and the limiter of    *)
(* packet events and findings (rate_limit.rs).                             *)
(***************************************************************************)
EXTENDS Coverage

CONSTANTS
  Tolerance,     \* REPLAY_REORDER_TOLERANCE
  MinInterval    \* window_ms / max_per_window

ASSUME CaptureClockAssumption == Tolerance \in Nat /\ MinInterval \in Nat /\ Hole \notin Nat

NewClock == [latest |-> Hole, reset |-> Hole, elapsed |-> 0]

\* A mutant of ClockAfter: a reset is never accepted.
ClockAfterFrozen(c, ts) ==
  IF c.latest = Hole THEN [c EXCEPT !.latest = ts]
  ELSE IF ts >= c.latest
  THEN [latest |-> ts, reset |-> Hole, elapsed |-> c.elapsed + (ts - c.latest)]
  ELSE c

\* ReplayClock::now_ms: forward advances, a little behind holds, far behind is a
\* reset once the next frame confirms it.
ClockAfter(c, ts) ==
  IF c.latest = Hole THEN [c EXCEPT !.latest = ts]
  ELSE IF ts >= c.latest
  THEN [latest |-> ts, reset |-> Hole, elapsed |-> c.elapsed + (ts - c.latest)]
  ELSE IF c.latest - ts <= Tolerance THEN [c EXCEPT !.reset = Hole]
  ELSE IF c.reset = Hole THEN [c EXCEPT !.reset = ts]
  ELSE [latest |-> ts, reset |-> Hole, elapsed |-> c.elapsed + SatSub(ts, c.reset)]

\* PacketEventLimiter::allow, with a budget above zero; last is when it last did.
LimiterAllows(last, now) == last = Hole \/ SatSub(now, last) >= MinInterval
=============================================================================
