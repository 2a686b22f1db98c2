-------------------------- MODULE ReconnectingLink --------------------------
(***************************************************************************)
(* What lib/agent-client.ts promises the relay, without sockets, timers or *)
(* handshakes: a link that is up, trying, or waiting to try, until it is   *)
(* stopped.                                                                *)
(***************************************************************************)
VARIABLE phase   \* "idle", "waiting", "trying", "up" or "stopped"

Init == phase = "idle"

\* start(): an attempt at once, or after the retry delay.
Begin == phase \in {"idle", "stopped"} /\ phase' \in {"trying", "waiting"}

Retry == phase = "waiting" /\ phase' = "trying"

Succeed == phase = "trying" /\ phase' = "up"

\* A lost link or a failed attempt always waits before the next one.
Fail == phase \in {"trying", "up"} /\ phase' = "waiting"

Halt == phase \notin {"idle", "stopped"} /\ phase' = "stopped"

Next == Begin \/ Retry \/ Succeed \/ Fail \/ Halt

Spec == Init /\ [][Next]_phase
=============================================================================
