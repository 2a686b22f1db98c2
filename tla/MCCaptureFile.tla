---------------------------- MODULE MCCaptureFile ----------------------------
(* CaptureFile on small instances: the properties only TLC checks, and the  *)
(* claims of the repository's documents that the code does not keep.        *)
EXTENDS CaptureFile, TLC

\* Paths are alike.
Alike == Permutations(Paths)

\* Once an operator's stop is queued, the run open at that time is closed:
\* frames still queued before it, or a full channel, only delay it.
StopCloses ==
  (\E i \in 1..Len(queue) : queue[i].kind = "stop") ~> (cur = NoRun)

\* A run with a duration autostop ends by itself as long as the capture thread
\* is alive and not paused for ever, whatever the disk does.
Timed == cur # NoRun /\ cur.autostop = "duration"

TimedRunEnds == []<>(cap # "ended" /\ ~paused) => (Timed ~> ~Timed)

-----------------------------------------------------------------------------
(* Claims of the documents. *)

\* ring.rs, start: the caller guarantees that only one run is ever active. So
\* without kills and I/O errors, a .partial on disk is the open file.
NoOrphanedPartial ==
  crashes = 0 /\ faults = 0 =>
    \A m \in Member : partial[m] # Absent =>
      cur # NoRun /\ m \in {MemberPath(cur), NextMember(cur)}
=============================================================================
