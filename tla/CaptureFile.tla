----------------------------- MODULE CaptureFile -----------------------------
(***************************************************************************)
(* Capture-to-file: the control tasks that accept start_capture_file and   *)
(* stop_capture_file, the capture thread that offers every parsed frame,   *)
(* the bounded writer channel between them and the dedicated writer thread *)
(* that owns the only ring::RingState, down to the .partial and final      *)
(* files it leaves on disk (capture-agent/src/main.rs, ring.rs, pcapng.rs).*)
(*                                                                         *)
(* A step is one atomic access to state that another thread, or the disk   *)
(* after a kill, can observe: the check of writer_active and the send that *)
(* follows it are two steps, and so are opening the next ring member and   *)
(* renaming the previous one.                                              *)
(***************************************************************************)
EXTENDS Integers, Sequences, FiniteSets, FiniteSetsExt

CONSTANTS
  Clients,          \* authenticated control connections (one task each)
  Paths,            \* base paths that validate_capture_file_path accepts
  RingModes,        \* ring option of a request: "none" or a ring mode
  AutostopModes,    \* autostop option: "none" or an autostop mode
  Threshold,        \* the threshold of both options (> 0, validated)
  Links,            \* link types: the interface a frame came from
  Sizes,            \* sizes of the blocks a frame becomes, in abstract bytes
  Modes,            \* modes the agent may have been launched in
  QueueCapacity,    \* WRITER_QUEUE_CAPACITY
  MaxFrames,        \* bound: frames captured in a behaviour
  MaxIndex,         \* bound: ring members that can be opened
  MaxRequests,      \* bound: control requests in a behaviour
  MaxCrashes,       \* bound: kills of the agent in a behaviour
  MaxFaults,        \* bound: I/O errors in a behaviour
  MaxTicks,         \* bound: capture_file_status events in a behaviour
  FaultKinds        \* which I/O calls may fail: "create", "write", "finish"

ASSUME CaptureFileAssumption ==
  /\ Threshold \in Nat \ {0}
  /\ QueueCapacity \in Nat \ {0}
  /\ MaxFrames \in Nat /\ MaxIndex \in Nat \ {0} /\ MaxRequests \in Nat
  /\ MaxCrashes \in Nat /\ MaxFaults \in Nat /\ MaxTicks \in Nat
  /\ Sizes \subseteq Nat \ {0}
  /\ RingModes \subseteq {"none", "size", "duration", "count"}
  /\ AutostopModes \subseteq {"none", "duration", "totalSize"}
  /\ Modes \subseteq {"live", "replay"}
  /\ FaultKinds \subseteq {"create", "write", "finish"}

VARIABLES
  mode,      \* "live" or "replay", fixed at launch
  link,      \* current_link_type, and the link type of the open source
  paused,    \* the pause flag
  cap,       \* capture thread: "loop", "offer" (a frame in hand), "ended"
  frame,     \* the frame the capture thread is about to offer
  frames,    \* how many frames were captured so far
  ctl,       \* per control task: "idle" or the request it is about to send
  requests,  \* how many control requests were accepted so far
  queue,     \* the sync_channel between them and the writer thread
  drops,     \* writer_backpressure_drops
  active,    \* writer_active
  status,    \* writer_path, writer_bytes_written, writer_ring_file, reason
  emitter,   \* emitter task: Idle, or what it has read of the shared fields
  emitted,   \* the last capture_file_status event sent, and how many were
  cur,       \* the writer thread's Option<RingState>
  wpc,       \* writer thread: "recv", or the file work it is in the middle of
  recorded,  \* history: the frames written in the current run
  partial,   \* files on disk under their .partial name
  final,     \* files on disk under their final name
  crashes,   \* kills so far
  faults     \* I/O errors so far

capVars  == <<cap, frame, frames>>
ctlVars  == <<ctl, requests>>
statVars == <<active, status>>
emitVars == <<emitter, emitted>>
fsVars   == <<partial, final>>
vars == <<mode, link, paused, capVars, ctlVars, queue, drops, statVars, emitVars,
          cur, wpc, recorded, fsVars, crashes, faults>>

-----------------------------------------------------------------------------
(* Data. *)

Frame == [id : 1..MaxFrames, link : Links, size : Sizes]

NoFrame == [id |-> 0]

\* A member of a run: index 0 is a plain capture's unmodified base path.
Member == Paths \X (0..MaxIndex)

\* A pcapng file: the link type of its Interface Description Block, the
\* frames of its Enhanced Packet Blocks, and whether a block was cut short.
File == [link : Links, pkts : Seq(Frame), torn : BOOLEAN]

Absent == [torn |-> "absent"]

Request == [path : Paths, ring : RingModes, autostop : AutostopModes]

Idle == [kind |-> "idle"]

StartCmd == [kind : {"start"}, req : Request, link : Links]

Cmd == StartCmd \cup [kind : {"stop"}] \cup [kind : {"stats"}]
         \cup [kind : {"packet"}, pkt : Frame]

NoPath == <<"none", 0>>

Status == [path : Member \cup {NoPath}, bytes : Nat, ring : 0..MaxIndex,
           reason : {"none", "duration", "totalSize", "lowDisk"}]

NoStatus == [path |-> NoPath, bytes |-> 0, ring |-> 0, reason |-> "none"]

Run == [path : Paths, ring : RingModes, autostop : AutostopModes, link : Links,
        index : 1..MaxIndex, age : 0..Threshold, fileAge : 0..Threshold,
        pkts : Nat, bytes : Nat, before : Nat]

NoRun == [index |-> 0]

\* ring.rs member_path: only a ring capture numbers its files.
MemberPath(run) == <<run.path, IF run.ring = "none" THEN 0 ELSE run.index>>

NextMember(run) == <<run.path, run.index + 1>>

\* The header blocks Writer::create writes before the first frame.
NewFile(l) == [link |-> l, pkts |-> <<>>, torn |-> FALSE]

Min2(a, b) == IF a <= b THEN a ELSE b

Fault(kind) ==
  /\ kind \in FaultKinds
  /\ faults < MaxFaults
  /\ faults' = faults + 1

-----------------------------------------------------------------------------
(* The capture thread. *)

\* next_frame: a parsed frame reached the capture-to-file check and found
\* writer_active set. A pcapng replay carries a link type per frame.
CaptureFrame ==
  /\ cap = "loop" /\ ~paused /\ frames < MaxFrames
  /\ \E l \in Links, s \in Sizes :
       /\ mode = "live" => l = link
       /\ frame' = IF active THEN [id |-> frames + 1, link |-> l, size |-> s]
                             ELSE NoFrame
  /\ cap' = IF active THEN "offer" ELSE "loop"
  /\ frames' = frames + 1
  /\ UNCHANGED <<mode, link, paused, ctlVars, queue, drops, statVars, emitVars,
                 cur, wpc, recorded, fsVars, crashes, faults>>

\* Mutant: an unbounded channel.
OfferFrameUnbounded ==
  /\ cap = "offer"
  /\ queue' = Append(queue, [kind |-> "packet", pkt |-> frame])
  /\ cap' = "loop" /\ frame' = NoFrame
  /\ UNCHANGED <<mode, link, paused, frames, ctlVars, drops, statVars, emitVars,
                 cur, wpc, recorded, fsVars, crashes, faults>>

\* try_send: never blocks; a full channel is counted.
OfferFrame ==
  /\ cap = "offer"
  /\ IF Len(queue) < QueueCapacity
       THEN queue' = Append(queue, [kind |-> "packet", pkt |-> frame]) /\ UNCHANGED drops
       ELSE drops' = drops + 1 /\ UNCHANGED queue
  /\ cap' = "loop" /\ frame' = NoFrame
  /\ UNCHANGED <<mode, link, paused, frames, ctlVars, statVars, emitVars,
                 cur, wpc, recorded, fsVars, crashes, faults>>

\* The once-a-second cap.stats() poll of a live capture; the tick is lost
\* without a trace when the channel is full.
PollStats ==
  /\ cap = "loop" /\ ~paused /\ mode = "live" /\ active
  /\ Len(queue) < QueueCapacity
  /\ queue' = Append(queue, [kind |-> "stats"])
  /\ UNCHANGED <<mode, link, paused, capVars, ctlVars, drops, statVars, emitVars,
                 cur, wpc, recorded, fsVars, crashes, faults>>

\* Eof or a read error: the thread ends, the rest of the agent runs on.
CaptureEnds ==
  /\ cap = "loop" /\ ~paused
  /\ cap' = "ended"
  /\ UNCHANGED <<mode, link, paused, frame, frames, ctlVars, queue, drops, statVars,
                 emitVars, cur, wpc, recorded, fsVars, crashes, faults>>

\* apply_interface_switch_request, as far as this component sees it.
SwitchInterface(l) ==
  /\ cap = "loop" /\ mode = "live" /\ l # link
  /\ requests < MaxRequests
  /\ link' = l
  /\ requests' = requests + 1
  /\ UNCHANGED <<mode, paused, capVars, ctl, queue, drops, statVars, emitVars,
                 cur, wpc, recorded, fsVars, crashes, faults>>

-----------------------------------------------------------------------------
(* The control tasks. *)

\* StartCaptureFile, first half: the request passed validation and found
\* writer_active clear, and the Interface Description Block is built from the
\* current link type. (A request that fails validation or finds the flag set
\* is answered with capture_file_error and changes nothing.)
StartCheck(c, req) ==
  /\ ctl[c] = Idle /\ requests < MaxRequests
  /\ ~active
  /\ ctl' = [ctl EXCEPT ![c] = [kind |-> "start", req |-> req, link |-> link]]
  /\ requests' = requests + 1
  /\ UNCHANGED <<mode, link, paused, capVars, queue, drops, statVars, emitVars,
                 cur, wpc, recorded, fsVars, crashes, faults>>

\* StartCaptureFile, second half: the command is sent, waiting for room.
StartSend(c) ==
  /\ ctl[c] # Idle
  /\ Len(queue) < QueueCapacity
  /\ queue' = Append(queue, ctl[c])
  /\ ctl' = [ctl EXCEPT ![c] = Idle]
  /\ UNCHANGED <<mode, link, paused, capVars, requests, drops, statVars, emitVars,
                 cur, wpc, recorded, fsVars, crashes, faults>>

StopSend(c) ==
  /\ ctl[c] = Idle /\ requests < MaxRequests
  /\ Len(queue) < QueueCapacity
  /\ queue' = Append(queue, [kind |-> "stop"])
  /\ requests' = requests + 1
  /\ UNCHANGED <<mode, link, paused, capVars, ctl, drops, statVars, emitVars,
                 cur, wpc, recorded, fsVars, crashes, faults>>

\* Pause and Resume.
SetPaused ==
  /\ requests < MaxRequests
  /\ paused' = ~paused
  /\ requests' = requests + 1
  /\ UNCHANGED <<mode, link, capVars, ctl, queue, drops, statVars, emitVars,
                 cur, wpc, recorded, fsVars, crashes, faults>>
-----------------------------------------------------------------------------
(* The writer thread: one command at a time, in queue order. *)

\* What the writer thread leaves alone whatever it does.
WriterFrame == UNCHANGED <<mode, link, paused, capVars, ctlVars, drops, emitVars, crashes>>

Receive(kind) ==
  /\ wpc = "recv" /\ queue # <<>>
  /\ Head(queue).kind = kind
  /\ queue' = Tail(queue)
  /\ WriterFrame

\* The RingState of a new run.
NewRun(cmd) ==
  [path |-> cmd.req.path, ring |-> cmd.req.ring, autostop |-> cmd.req.autostop,
   link |-> cmd.link, index |-> 1, age |-> 0, fileAge |-> 0, pkts |-> 0,
   bytes |-> 0, before |-> 0]

\* Mutants: opening with create + truncate, and with create + append.
WriterStartTruncates ==
  /\ Receive("start")
  /\ LET cmd == Head(queue)
     IN /\ partial' = [partial EXCEPT ![MemberPath(NewRun(cmd))] = NewFile(cmd.link)]
        /\ cur' = NewRun(cmd)
        /\ status' = [NoStatus EXCEPT !.path = <<cmd.req.path, 0>>]
  /\ active' = TRUE
  /\ recorded' = {}
  /\ UNCHANGED <<wpc, final, faults>>

WriterStartAppends ==
  /\ Receive("start")
  /\ LET cmd == Head(queue)
     IN /\ partial' = [partial EXCEPT ![MemberPath(NewRun(cmd))] =
                         IF @ = Absent THEN NewFile(cmd.link) ELSE @]
        /\ cur' = NewRun(cmd)
        /\ status' = [NoStatus EXCEPT !.path = <<cmd.req.path, 0>>]
  /\ active' = TRUE
  /\ recorded' = {}
  /\ UNCHANGED <<wpc, final, faults>>

\* ring::start succeeds: create_new opens the first member's .partial, which
\* must not exist. A RingState already there is dropped, its file never
\* finished.
WriterStart ==
  /\ Receive("start")
  /\ LET cmd == Head(queue)
         run == NewRun(cmd)
     IN /\ partial[MemberPath(run)] = Absent
        /\ partial' = [partial EXCEPT ![MemberPath(run)] = NewFile(cmd.link)]
        /\ cur' = run
        /\ status' = [NoStatus EXCEPT !.path = <<cmd.req.path, 0>>]
  /\ active' = TRUE
  /\ recorded' = {}
  /\ UNCHANGED <<wpc, final, faults>>

\* Mutant: the error arm clears writer_active.
WriterStartRefusedClears ==
  /\ Receive("start")
  /\ active' = FALSE
  /\ UNCHANGED <<status, cur, wpc, recorded, fsVars, faults>>

\* ring::start refuses: too little free space, or the .partial exists.
WriterStartRefused ==
  /\ Receive("start")
  /\ UNCHANGED <<statVars, cur, wpc, recorded, fsVars, faults>>

\* Writer::create opened the file and failed on a header block: ring::start
\* returns the error and the .partial stays.
WriterStartFails ==
  /\ Receive("start")
  /\ Fault("create")
  /\ LET cmd == Head(queue)
         first == <<cmd.req.path, IF cmd.req.ring = "none" THEN 0 ELSE 1>>
     IN /\ partial[first] = Absent
        /\ partial' = [partial EXCEPT ![first] = [NewFile(cmd.link) EXCEPT !.torn = TRUE]]
  /\ UNCHANGED <<statVars, cur, wpc, recorded, final>>

\* Mutant: the stop only clears the flag and leaves the RingState.
WriterStopFlagOnly ==
  /\ Receive("stop")
  /\ active' = FALSE
  /\ status' = [status EXCEPT !.reason = "none"]
  /\ UNCHANGED <<cur, wpc, recorded, fsVars, faults>>

\* The flag is cleared before ring::stop begins to finish the file.
WriterStop ==
  /\ Receive("stop")
  /\ active' = FALSE
  /\ status' = [status EXCEPT !.reason = "none"]
  /\ wpc' = IF cur = NoRun THEN "recv" ELSE "stopping"
  /\ UNCHANGED <<cur, recorded, fsVars, faults>>

\* A frame for no run is discarded.
WriterDiscard ==
  /\ Receive("packet")
  /\ cur = NoRun
  /\ UNCHANGED <<statVars, cur, wpc, recorded, fsVars, faults>>

WriterPacket ==
  /\ Receive("packet")
  /\ cur # NoRun
  /\ LET pkt == Head(queue).pkt
     IN /\ partial' = [partial EXCEPT ![MemberPath(cur)].pkts = Append(@, pkt)]
        /\ cur' = [cur EXCEPT !.pkts = @ + 1, !.bytes = @ + pkt.size]
        /\ status' = [status EXCEPT !.bytes = cur.before + cur.bytes + pkt.size]
        /\ recorded' = recorded \cup {pkt}
  /\ UNCHANGED <<active, wpc, final, faults>>

\* write_block writes in pieces: an error can leave part of a block behind.
WriterPacketFails ==
  /\ Receive("packet")
  /\ cur # NoRun
  /\ Fault("write")
  /\ \E cut \in BOOLEAN :
       partial' = [partial EXCEPT ![MemberPath(cur)].torn = @ \/ cut]
  /\ UNCHANGED <<statVars, cur, wpc, recorded, final>>

\* write_interface_stats fails at the start of a tick; its error is ignored
\* and the tick goes on.
WriterStatsBlockFails ==
  /\ wpc = "recv" /\ queue # <<>>
  /\ Head(queue).kind = "stats"
  /\ cur # NoRun
  /\ Fault("write")
  /\ partial' = [partial EXCEPT ![MemberPath(cur)].torn = TRUE]
  /\ UNCHANGED <<queue, statVars, cur, wpc, recorded, final>>
  /\ WriterFrame

\* Mutant: a duration autostop overlooked in a ring capture.
AutostopReasonPlainOnly ==
  CASE cur.autostop = "duration" /\ cur.ring = "none" /\ cur.age >= Threshold -> "duration"
    [] cur.autostop = "totalSize" /\ cur.before + cur.bytes >= Threshold -> "totalSize"
    [] OTHER -> "none"

AutostopReason ==
  CASE cur.autostop = "duration" /\ cur.age >= Threshold -> "duration"
    [] cur.autostop = "totalSize" /\ cur.before + cur.bytes >= Threshold -> "totalSize"
    [] OTHER -> "none"

ShouldRotate ==
  \/ cur.ring = "size" /\ cur.bytes >= Threshold
  \/ cur.ring = "duration" /\ cur.fileAge >= Threshold
  \/ cur.ring = "count" /\ cur.pkts >= Threshold

\* create_new would succeed on the next member's .partial.
NextIsFree == cur.index < MaxIndex /\ partial[NextMember(cur)] = Absent

\* The status on_tick returns for a run that goes on, applied by apply_status.
TickStatus(run) ==
  [path |-> MemberPath(run), bytes |-> run.before + run.bytes,
   ring |-> IF run.ring = "none" THEN 0 ELSE run.index, reason |-> "none"]

WriterIdleTick ==
  /\ Receive("stats")
  /\ cur = NoRun
  /\ UNCHANGED <<statVars, cur, wpc, recorded, fsVars, faults>>

\* Mutant: the stop is published before the file is finished.
WriterTickStopsEarly ==
  /\ Receive("stats")
  /\ cur # NoRun
  /\ wpc' = IF AutostopReason # "none" THEN AutostopReason ELSE "lowDisk"
  /\ active' = FALSE
  /\ status' = [path |-> MemberPath(cur), bytes |-> cur.before + cur.bytes,
                ring |-> 0, reason |-> wpc']
  /\ UNCHANGED <<cur, recorded, fsVars, faults>>

\* on_tick finds an autostop condition or, whatever the options, that free
\* space fell below the floor.
WriterTickStops ==
  /\ Receive("stats")
  /\ cur # NoRun
  /\ wpc' = IF AutostopReason # "none" THEN AutostopReason ELSE "lowDisk"
  /\ UNCHANGED <<statVars, cur, recorded, fsVars, faults>>

\* on_tick goes on with the same file: nothing to rotate, or open_next failed.
WriterTick ==
  /\ Receive("stats")
  /\ cur # NoRun
  /\ AutostopReason = "none"
  /\ ~(ShouldRotate /\ NextIsFree)
  /\ active' = TRUE
  /\ status' = TickStatus(cur)
  /\ UNCHANGED <<cur, wpc, recorded, fsVars, faults>>

\* open_next failed, possibly after creating the file.
WriterTickOpenFails ==
  /\ Receive("stats")
  /\ cur # NoRun
  /\ AutostopReason = "none" /\ ShouldRotate /\ NextIsFree
  /\ Fault("create")
  /\ \/ UNCHANGED partial
     \/ partial' = [partial EXCEPT ![NextMember(cur)] = [NewFile(cur.link) EXCEPT !.torn = TRUE]]
  /\ active' = TRUE
  /\ status' = TickStatus(cur)
  /\ UNCHANGED <<cur, wpc, recorded, final>>

\* open_next succeeded; the previous member is finished in the next step.
WriterTickRotates ==
  /\ Receive("stats")
  /\ cur # NoRun
  /\ AutostopReason = "none" /\ ShouldRotate /\ NextIsFree
  /\ partial' = [partial EXCEPT ![NextMember(cur)] = NewFile(cur.link)]
  /\ wpc' = "rotating"
  /\ UNCHANGED <<statVars, cur, recorded, final, faults>>

\* Mutant: a .partial that could not be finished is deleted.
FinishOrDelete(m) ==
  \/ /\ final' = [final EXCEPT ![m] = partial[m]]
     /\ partial' = [partial EXCEPT ![m] = Absent]
     /\ UNCHANGED faults
  \/ /\ Fault("finish")
     /\ partial' = [partial EXCEPT ![m] = Absent]
     /\ UNCHANGED final

\* finish_and_rename: fsync, then rename .partial onto the final name.
FinishAndRename(m) ==
  \/ /\ final' = [final EXCEPT ![m] = partial[m]]
     /\ partial' = [partial EXCEPT ![m] = Absent]
     /\ UNCHANGED faults
  \/ /\ Fault("finish")
     /\ UNCHANGED fsVars

\* Mutant: the finished member's bytes are not added to the run's.
WriterFinishRotatedForgets ==
  /\ wpc = "rotating"
  /\ FinishAndRename(MemberPath(cur))
  /\ cur' = [cur EXCEPT !.index = @ + 1, !.bytes = 0, !.pkts = 0, !.fileAge = 0]
  /\ active' = TRUE
  /\ status' = TickStatus(cur')
  /\ wpc' = "recv"
  /\ UNCHANGED <<queue, recorded>>
  /\ WriterFrame

WriterFinishRotated ==
  /\ wpc = "rotating"
  /\ FinishAndRename(MemberPath(cur))
  /\ cur' = [cur EXCEPT !.index = @ + 1, !.before = @ + cur.bytes, !.bytes = 0,
                        !.pkts = 0, !.fileAge = 0]
  /\ active' = TRUE
  /\ status' = TickStatus(cur')
  /\ wpc' = "recv"
  /\ UNCHANGED <<queue, recorded>>
  /\ WriterFrame

WriterFinishRun ==
  /\ wpc \in {"stopping", "duration", "totalSize", "lowDisk"}
  /\ FinishAndRename(MemberPath(cur))
  /\ cur' = NoRun
  /\ active' = FALSE
  /\ status' = IF wpc = "stopping" THEN status
               ELSE [path |-> MemberPath(cur), bytes |-> cur.before + cur.bytes,
                     ring |-> 0, reason |-> wpc]
  /\ wpc' = "recv"
  /\ UNCHANGED <<queue, recorded>>
  /\ WriterFrame

-----------------------------------------------------------------------------
(* The clock, the periodic emitter, and the process going away. *)

\* Instant::elapsed of the run and of its current file, saturating; only the
\* duration options look at it.
Elapse ==
  /\ cur # NoRun
  /\ "duration" \in {cur.ring, cur.autostop}
  /\ cur.fileAge < Threshold
  /\ cur' = [cur EXCEPT !.age = Min2(@ + 1, Threshold), !.fileAge = @ + 1]
  /\ UNCHANGED <<mode, link, paused, capVars, ctlVars, queue, drops, statVars, emitVars,
                 wpc, recorded, fsVars, crashes, faults>>

\* The emitter begins to build capture_file_status: it reads writer_active and
\* then, one lock at a time, the other shared fields.
EmitBegin ==
  /\ emitter = Idle /\ emitted.n < MaxTicks
  /\ emitter' = [kind |-> "read", writing |-> active, status |-> status]
  /\ UNCHANGED <<mode, link, paused, capVars, ctlVars, queue, drops, statVars, emitted,
                 cur, wpc, recorded, fsVars, crashes, faults>>

\* It sends the event: of the fields path, bytes, ring, reason the first k
\* were read before whatever the writer thread stored since, the others after.
EmitStatus ==
  /\ emitter # Idle
  /\ \E k \in 0..3 :
       LET early(i) == IF i <= k THEN emitter.status ELSE status
       IN emitted' = [n |-> emitted.n + 1, writing |-> emitter.writing,
                      status |-> [path |-> early(1).path, bytes |-> early(2).bytes,
                                  ring |-> early(3).ring, reason |-> early(4).reason]]
  /\ emitter' = Idle
  /\ UNCHANGED <<mode, link, paused, capVars, ctlVars, queue, drops, statVars,
                 cur, wpc, recorded, fsVars, crashes, faults>>

\* The agent is killed and launched again: only the disk survives. A block
\* being written is cut short. (A kill while Writer::create writes the headers
\* leaves what WriterStartFails and WriterTickOpenFails leave.)
Crash ==
  /\ crashes < MaxCrashes
  /\ crashes' = crashes + 1
  /\ paused' = FALSE /\ cap' = "loop" /\ frame' = NoFrame
  /\ ctl' = [c \in Clients |-> Idle]
  /\ queue' = <<>> /\ drops' = 0
  /\ active' = FALSE /\ status' = NoStatus
  /\ cur' = NoRun /\ wpc' = "recv" /\ recorded' = {}
  /\ mode' \in Modes /\ link' \in Links
  /\ emitter' = Idle
  /\ emitted' = [n |-> emitted.n, writing |-> FALSE, status |-> NoStatus]
  /\ \/ UNCHANGED partial
     \/ /\ cur # NoRun
        /\ partial' = [partial EXCEPT ![MemberPath(cur)].torn = TRUE]
  /\ UNCHANGED <<frames, requests, final, faults>>

Init ==
  /\ paused = FALSE /\ cap = "loop" /\ frame = NoFrame
  /\ ctl = [c \in Clients |-> Idle]
  /\ queue = <<>> /\ drops = 0
  /\ active = FALSE /\ status = NoStatus
  /\ cur = NoRun /\ wpc = "recv" /\ recorded = {}
  /\ mode \in Modes /\ link \in Links
  /\ frames = 0 /\ requests = 0 /\ crashes = 0 /\ faults = 0
  /\ emitter = Idle /\ emitted = [n |-> 0, writing |-> FALSE, status |-> NoStatus]
  /\ partial = [m \in Member |-> Absent]
  /\ final = [m \in Member |-> Absent]

Capture == CaptureFrame \/ OfferFrame \/ PollStats \/ CaptureEnds
             \/ \E l \in Links : SwitchInterface(l)

Control == \/ \E c \in Clients : StartSend(c) \/ StopSend(c)
           \/ \E c \in Clients, req \in Request : StartCheck(c, req)
           \/ SetPaused

Writer == \/ WriterStart \/ WriterStartRefused \/ WriterStartFails
          \/ WriterStop \/ WriterFinishRun
          \/ WriterDiscard \/ WriterPacket \/ WriterPacketFails \/ WriterStatsBlockFails
          \/ WriterIdleTick \/ WriterTick \/ WriterTickStops \/ WriterTickOpenFails
          \/ WriterTickRotates \/ WriterFinishRotated

Next == Capture \/ Control \/ Writer \/ Elapse \/ EmitBegin \/ EmitStatus \/ Crash

Spec == Init /\ [][Next]_vars

\* Every thread runs: the writer serves its queue, the capture loop offers the
\* frame in hand and polls once a second, a blocked send goes through once
\* there is room, and time passes. Nothing is assumed of operators, traffic,
\* crashes or the disk.
Fairness ==
  /\ WF_vars(Writer) /\ WF_vars(OfferFrame) /\ WF_vars(PollStats)
  /\ WF_vars(Elapse) /\ \A c \in Clients : WF_vars(StartSend(c))

FairSpec == Spec /\ Fairness

-----------------------------------------------------------------------------
(* Properties. *)

TypeOK ==
  /\ mode \in Modes /\ link \in Links /\ paused \in BOOLEAN
  /\ cap \in {"loop", "offer", "ended"}
  /\ frame \in Frame \cup {NoFrame} /\ frames \in 0..MaxFrames
  /\ cap = "offer" => frame \in Frame
  /\ ctl \in [Clients -> StartCmd \cup {Idle}] /\ requests \in 0..MaxRequests
  /\ queue \in Seq(Cmd) /\ Len(queue) <= QueueCapacity
  /\ drops \in Nat /\ active \in BOOLEAN /\ status \in Status
  /\ emitter \in [kind : {"read"}, writing : BOOLEAN, status : Status] \cup {Idle}
  /\ emitted \in [n : 0..MaxTicks, writing : BOOLEAN, status : Status]
  /\ emitter # Idle => emitted.n < MaxTicks
  /\ cur \in Run \cup {NoRun}
  /\ wpc \in {"recv", "stopping", "rotating", "duration", "totalSize", "lowDisk"}
  /\ recorded \subseteq Frame
  /\ partial \in [Member -> File \cup {Absent}] /\ final \in [Member -> File \cup {Absent}]
  /\ crashes \in 0..MaxCrashes /\ faults \in 0..MaxFaults

\* ring.rs, module comment: a file visible under its real name is complete.
\* No kill between any two steps, failed open or failed rename ever leaves a
\* cut-short block under a final name, and no member's file holds a frame
\* twice or out of capture order.
Ordered(file) == \A i, j \in 1..Len(file.pkts) : i < j => file.pkts[i].id < file.pkts[j].id

FinalFilesComplete ==
  \A m \in Member : final[m] # Absent => ~final[m].torn /\ Ordered(final[m])

\* WriterCommand: "no risk of a Stop racing a Packet queued just before it".
\* Rotation moves the cut between members, never a frame: every frame written
\* in the current run is in exactly one file of its members opened so far.
Holds(file, f) == file # Absent /\ \E i \in 1..Len(file.pkts) : file.pkts[i] = f

Members == {<<cur.path, k>> : k \in IF cur.ring = "none" THEN {0} ELSE 1..cur.index}

EveryFrameInOneMember ==
  cur # NoRun =>
    \A f \in recorded :
      Cardinality({m \in Members : Holds(partial[m], f)})
        + Cardinality({m \in Members : Holds(final[m], f)}) = 1

\* The capture thread's one check per frame: when the writer thread waits for
\* a command, writer_active tells whether a run is open. A refused, failed or
\* repeated start, a failed rotation or a failed finish never leaves the flag
\* set with no file behind it, or a file open that no frame will reach.
ActiveMeansOpen == wpc = "recv" => (active <=> cur # NoRun)

\* The writer thread never loses the file under its hands: while a run is open
\* its current member is on disk under its .partial name, file work only goes
\* on for an open run, and a rotation has both members.
OpenFile == cur # NoRun => partial[MemberPath(cur)] \in File

Busy == wpc # "recv" => cur # NoRun

Rotating ==
  wpc = "rotating" => /\ cur.ring # "none" /\ cur.index < MaxIndex
                      /\ partial[NextMember(cur)] \in File

WriterInv == TypeOK /\ OpenFile /\ Busy /\ Rotating /\ ActiveMeansOpen

\* File g is f, possibly longer, possibly cut short.
Extends(f, g) ==
  /\ g.link = f.link
  /\ Len(f.pkts) <= Len(g.pkts)
  /\ \A i \in 1..Len(f.pkts) : g.pkts[i] = f.pkts[i]
  /\ f.torn => g.torn

\* Writer::create opens with create_new: a .partial on disk, the open one or
\* one left by a crash, is only ever appended to, cut, or renamed away; no
\* start or rotation reuses its name.
PartialNeverClobbered ==
  [][\A m \in Member : partial[m] # Absent /\ partial'[m] # Absent
                        => Extends(partial[m], partial'[m])]_vars

\* ring.rs, bytes_before_current_file: what capture_file_status reports, and
\* what a totalSize autostop compares, is the whole run's volume. At every
\* command boundary the reported count is the sum of the blocks of all frames
\* written in the run, however many rotations, failed rotations or failed
\* finishes lie between.
BytesSpanRotations ==
  wpc = "recv" /\ cur # NoRun =>
    status.bytes = MapThenSumSet(LAMBDA f : f.size, recorded)

\* A .partial that no run has open: its run was displaced by another start,
\* killed, or could not finish it.
LeftBehind(m) ==
  /\ partial[m] # Absent
  /\ cur # NoRun => m # MemberPath(cur) /\ (wpc = "rotating" => m # NextMember(cur))

\* on_tick reports a run that stopped itself only after finish_and_rename. So
\* without I/O errors the file the shared status names with a reason is
\* complete under its final name. The emitter reads the fields one lock at a
\* time, so its event may name an earlier run (or a ring's base path) with the
\* reason of a later one; then a file of that run is complete under its final
\* name, or was left behind when a second start displaced the run.
SelfStopIsOnDisk ==
  faults = 0 =>
    /\ status.reason # "none" => final[status.path] # Absent
    /\ emitted.status.reason # "none" /\ emitted.status.path # NoPath =>
         \E m \in Member : /\ m[1] = emitted.status.path[1]
                           /\ final[m] # Absent \/ LeftBehind(m)
=============================================================================
