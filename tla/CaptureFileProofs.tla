------------------------- MODULE CaptureFileProofs -------------------------
(***************************************************************************)
(* Proofs about CaptureFile for every value of its constants: any number   *)
(* of clients, paths and frames, any queue capacity, any threshold and any *)
(* bound on kills and I/O errors.                                          *)
(***************************************************************************)
EXTENDS CaptureFile, FoldFacts

(***************************************************************************)
(* The data.                                                               *)
(***************************************************************************)

\* A new run is a run.
LEMMA NewRunType == ASSUME NEW cmd \in StartCmd PROVE NewRun(cmd) \in Run
  BY CaptureFileAssumption DEF NewRun, Run, StartCmd, Request

\* Every run has a current member, and a ring below its bound a next one.
LEMMA MemberType ==
  ASSUME NEW run \in Run
  PROVE  /\ MemberPath(run) \in Member
         /\ run.index < MaxIndex => NextMember(run) \in Member
  BY CaptureFileAssumption DEF MemberPath, NextMember, Run, Member

\* The next member of a ring is another file than the current one.
LEMMA NextMemberDiffers ==
  ASSUME NEW run \in Run, run.ring # "none"
  PROVE  NextMember(run) # MemberPath(run)
  BY CaptureFileAssumption DEF MemberPath, NextMember, Run

LEMMA NoRunNotRun == NoRun \notin Run
  BY CaptureFileAssumption DEF NoRun, Run

LEMMA AbsentNotFile == Absent \notin File
  BY DEF Absent, File

\* What Writer::create leaves, complete or cut short, is a file.
LEMMA NewFileType == ASSUME NEW l \in Links PROVE NewFile(l) \in File
  BY DEF NewFile, File

LEMMA TornType == ASSUME NEW f \in File PROVE [f EXCEPT !.torn = TRUE] \in File
  BY DEF File

LEMMA StatusTypes ==
  /\ NoStatus \in Status
  /\ \A run \in Run : TickStatus(run) \in Status
  <1>1. NoStatus \in Status
    BY CaptureFileAssumption DEF NoStatus, Status
  <1>2. ASSUME NEW run \in Run PROVE TickStatus(run) \in Status
    BY CaptureFileAssumption, MemberType DEF TickStatus, Status, Run
  <1>. QED BY <1>1, <1>2

\* A command taken from the channel is the kind of command Receive names.
LEMMA ReceiveType ==
  ASSUME TypeOK, NEW kind, Receive(kind)
  PROVE  /\ queue' \in Seq(Cmd) /\ Len(queue') <= QueueCapacity
         /\ Head(queue) \in Cmd
         /\ WriterFrame /\ wpc = "recv"
         /\ kind = "start" => Head(queue) \in StartCmd
         /\ kind = "packet" => Head(queue).pkt \in Frame
  <1>1. /\ queue' \in Seq(Cmd) /\ Len(queue') <= QueueCapacity
        /\ Head(queue) \in Cmd /\ Head(queue).kind = kind
    BY CaptureFileAssumption DEF TypeOK, Receive
  <1>2. /\ kind = "start" => Head(queue) \in StartCmd
        /\ kind = "packet" => Head(queue).pkt \in Frame
    BY <1>1 DEF Cmd, StartCmd
  <1>. QED BY <1>1, <1>2 DEF Receive

\* The writer thread disturbs no one else's variables.
LEMMA WriterTypes ==
  ASSUME TypeOK, WriterFrame,
         queue' \in Seq(Cmd), Len(queue') <= QueueCapacity,
         active' \in BOOLEAN, status' \in Status, cur' \in Run \cup {NoRun},
         wpc' \in {"recv", "stopping", "rotating", "duration", "totalSize", "lowDisk"},
         recorded' \subseteq Frame, faults' \in 0..MaxFaults,
         partial' \in [Member -> File \cup {Absent}],
         final' \in [Member -> File \cup {Absent}]
  PROVE  TypeOK'
  BY DEF TypeOK, WriterFrame, capVars, ctlVars, emitVars

LEMMA FaultType == ASSUME TypeOK, NEW kind, Fault(kind) PROVE faults' \in 0..MaxFaults
  BY CaptureFileAssumption DEF TypeOK, Fault

\* finish_and_rename touches one member only, and only moves a file.
LEMMA FinishType ==
  ASSUME TypeOK, NEW m \in Member, FinishAndRename(m)
  PROVE  /\ partial' \in [Member -> File \cup {Absent}]
         /\ final' \in [Member -> File \cup {Absent}]
         /\ faults' \in 0..MaxFaults
         /\ \A n \in Member : n # m => partial'[n] = partial[n]
  BY FaultType DEF TypeOK, FinishAndRename, fsVars

-----------------------------------------------------------------------------
(***************************************************************************)
(* The writer's invariant.                                                 *)
(***************************************************************************)

LEMMA InitInv == Init => WriterInv
  <1>. SUFFICES ASSUME Init PROVE WriterInv
    OBVIOUS
  <1>1. queue \in Seq(Cmd) /\ Len(queue) <= QueueCapacity
    BY CaptureFileAssumption DEF Init
  <1>2. status \in Status /\ emitted \in [n : 0..MaxTicks, writing : BOOLEAN, status : Status]
    BY CaptureFileAssumption, StatusTypes DEF Init
  <1>3. TypeOK
    <2>1. /\ ctl \in [Clients -> StartCmd \cup {Idle}]
          /\ partial \in [Member -> File \cup {Absent}]
          /\ final \in [Member -> File \cup {Absent}]
      BY DEF Init
    <2>2. /\ frames \in 0..MaxFrames /\ requests \in 0..MaxRequests /\ drops \in Nat
          /\ crashes \in 0..MaxCrashes /\ faults \in 0..MaxFaults
      BY CaptureFileAssumption DEF Init
    <2>3. /\ mode \in Modes /\ link \in Links /\ paused = FALSE /\ cap = "loop"
          /\ frame = NoFrame /\ active = FALSE /\ cur = NoRun /\ wpc = "recv"
          /\ recorded = {} /\ emitter = Idle
      BY DEF Init
    <2>. QED BY <1>1, <1>2, <2>1, <2>2, <2>3 DEF TypeOK
  <1>4. OpenFile /\ Busy /\ Rotating /\ ActiveMeansOpen
    BY DEF Init, OpenFile, Busy, Rotating, ActiveMeansOpen
  <1>. QED BY <1>3, <1>4 DEF WriterInv

\* The capture thread, the control tasks and the emitter leave the run and the
\* disk alone.
LEMMA OthersPreserve ==
  ASSUME WriterInv, Capture \/ Control \/ EmitBegin \/ EmitStatus
  PROVE  WriterInv'
  <1>. SUFFICES TypeOK' /\ UNCHANGED <<cur, wpc, partial, active>>
    BY DEF WriterInv, OpenFile, Busy, Rotating, ActiveMeansOpen
  <1>. USE DEF capVars, ctlVars, statVars, emitVars, fsVars
  <1>0. TypeOK
    BY DEF WriterInv
  <1>1. CASE CaptureFrame
    <2>1. /\ frame' \in Frame \cup {NoFrame}
          /\ cap' = "offer" => frame' \in Frame
          /\ frames' \in 0..MaxFrames /\ cap' \in {"loop", "offer"}
      BY <1>0, <1>1, CaptureFileAssumption DEF CaptureFrame, Frame, TypeOK
    <2>2. UNCHANGED <<mode, link, paused, ctlVars, queue, drops, statVars, emitVars,
                      cur, wpc, recorded, fsVars, crashes, faults>>
      BY <1>1 DEF CaptureFrame
    <2>. QED BY <1>0, <2>1, <2>2 DEF TypeOK
  <1>2. CASE OfferFrame
    <2>1. [kind |-> "packet", pkt |-> frame] \in Cmd
      BY <1>0, <1>2 DEF OfferFrame, TypeOK, Cmd
    <2>2. queue' \in Seq(Cmd) /\ Len(queue') <= QueueCapacity /\ drops' \in Nat
      <3>1. CASE Len(queue) < QueueCapacity
        <4>1. queue' = Append(queue, [kind |-> "packet", pkt |-> frame]) /\ drops' = drops
          BY <1>2, <3>1 DEF OfferFrame
        <4>. QED BY <1>0, <2>1, <3>1, <4>1, CaptureFileAssumption DEF TypeOK
      <3>2. CASE ~(Len(queue) < QueueCapacity)
        BY <1>0, <1>2, <3>2 DEF OfferFrame, TypeOK
      <3>. QED BY <3>1, <3>2
    <2>3. /\ cap' = "loop" /\ frame' = NoFrame
          /\ UNCHANGED <<mode, link, paused, frames, ctlVars, statVars, emitVars,
                         cur, wpc, recorded, fsVars, crashes, faults>>
      BY <1>2 DEF OfferFrame
    <2>. QED BY <1>0, <2>2, <2>3 DEF TypeOK
  <1>3. CASE PollStats
    BY <1>0, <1>3, CaptureFileAssumption DEF PollStats, Cmd, TypeOK
  <1>4. CASE CaptureEnds
    BY <1>0, <1>4 DEF CaptureEnds, TypeOK
  <1>5. ASSUME NEW l \in Links, SwitchInterface(l)
        PROVE  TypeOK' /\ UNCHANGED <<cur, wpc, partial, active>>
    BY <1>0, <1>5, CaptureFileAssumption DEF SwitchInterface, TypeOK
  <1>6. ASSUME NEW c \in Clients, NEW req \in Request, StartCheck(c, req)
        PROVE  TypeOK' /\ UNCHANGED <<cur, wpc, partial, active>>
    BY <1>0, <1>6, CaptureFileAssumption DEF StartCheck, StartCmd, TypeOK
  <1>7. ASSUME NEW c \in Clients, StartSend(c)
        PROVE  TypeOK' /\ UNCHANGED <<cur, wpc, partial, active>>
    BY <1>0, <1>7, CaptureFileAssumption DEF StartSend, Cmd, TypeOK
  <1>8. ASSUME NEW c \in Clients, StopSend(c)
        PROVE  TypeOK' /\ UNCHANGED <<cur, wpc, partial, active>>
    BY <1>0, <1>8, CaptureFileAssumption DEF StopSend, Cmd, TypeOK
  <1>9. CASE SetPaused
    BY <1>0, <1>9, CaptureFileAssumption DEF SetPaused, TypeOK
  <1>10. CASE EmitBegin
    BY <1>0, <1>10 DEF EmitBegin, TypeOK
  <1>11. CASE EmitStatus
    <2>1. /\ emitter \in [kind : {"read"}, writing : BOOLEAN, status : Status]
          /\ status \in Status /\ emitted.n + 1 \in 0..MaxTicks
      BY <1>0, <1>11, CaptureFileAssumption DEF EmitStatus, TypeOK
    <2>2. emitted' \in [n : 0..MaxTicks, writing : BOOLEAN, status : Status]
      BY <1>11, <2>1 DEF EmitStatus, Status
    <2>. QED BY <1>0, <1>11, <2>2 DEF EmitStatus, TypeOK
  <1>. QED BY <1>1, <1>2, <1>3, <1>4, <1>5, <1>6, <1>7, <1>8, <1>9, <1>10, <1>11
           DEF Capture, Control

\* Time only ages the open run.
LEMMA ElapsePreserves == ASSUME WriterInv, Elapse PROVE WriterInv'
  <1>1. cur \in Run
    BY DEF WriterInv, TypeOK, Elapse
  <1>2. cur.fileAge + 1 \in 0..Threshold /\ Min2(cur.age + 1, Threshold) \in 0..Threshold
    BY <1>1, CaptureFileAssumption DEF Elapse, Run, Min2
  <1>3. cur' \in Run /\ cur'.index = cur.index /\ cur'.ring = cur.ring /\ cur'.path = cur.path
    BY <1>1, <1>2 DEF Elapse, Run
  <1>4. MemberPath(cur') = MemberPath(cur) /\ NextMember(cur') = NextMember(cur)
    BY <1>3 DEF MemberPath, NextMember
  <1>5. cur' # NoRun
    BY <1>3, NoRunNotRun
  <1>. QED
    BY <1>1, <1>3, <1>4, <1>5
    DEF WriterInv, TypeOK, OpenFile, Busy, Rotating, ActiveMeansOpen, Elapse,
        capVars, ctlVars, statVars, emitVars, fsVars

\* A kill loses the run with its thread and cuts at most the open file.
LEMMA CrashPreserves == ASSUME WriterInv, Crash PROVE WriterInv'
  <1>1. /\ emitted' \in [n : 0..MaxTicks, writing : BOOLEAN, status : Status]
        /\ status' \in Status
    BY StatusTypes DEF WriterInv, TypeOK, Crash
  <1>2. partial' \in [Member -> File \cup {Absent}]
    <2>1. CASE UNCHANGED partial
      BY <2>1 DEF WriterInv, TypeOK
    <2>2. CASE cur # NoRun /\ partial' = [partial EXCEPT ![MemberPath(cur)].torn = TRUE]
      BY <2>2, TornType DEF WriterInv, TypeOK, OpenFile
    <2>. QED BY <2>1, <2>2 DEF Crash
  <1>3. queue' \in Seq(Cmd) /\ Len(queue') <= QueueCapacity
    BY CaptureFileAssumption DEF Crash
  <1>4. ctl' \in [Clients -> StartCmd \cup {Idle}]
    BY DEF Crash
  <1>5. crashes' \in 0..MaxCrashes
    BY CaptureFileAssumption DEF Crash, WriterInv, TypeOK
  <1>6. /\ cap' = "loop" /\ frame' = NoFrame /\ cur' = NoRun /\ wpc' = "recv"
        /\ recorded' = {} /\ drops' = 0 /\ active' = FALSE /\ paused' = FALSE
        /\ emitter' = Idle /\ mode' \in Modes /\ link' \in Links
        /\ UNCHANGED <<frames, requests, final, faults>>
    BY DEF Crash
  <1>7. TypeOK'
    BY <1>1, <1>2, <1>3, <1>4, <1>5, <1>6 DEF WriterInv, TypeOK
  <1>8. OpenFile' /\ Busy' /\ Rotating' /\ ActiveMeansOpen'
    BY <1>6 DEF OpenFile, Busy, Rotating, ActiveMeansOpen
  <1>. QED BY <1>7, <1>8 DEF WriterInv

\* Start, in its three outcomes.
LEMMA StartPreserves ==
  ASSUME WriterInv, WriterStart \/ WriterStartRefused \/ WriterStartFails
  PROVE  WriterInv'
  <1>1. CASE WriterStart
    <2>. DEFINE cmd == Head(queue)
                m == MemberPath(NewRun(cmd))
    <2>1. cmd \in StartCmd /\ cmd.req.path \in Paths /\ cmd.link \in Links
      BY <1>1, ReceiveType DEF WriterStart, WriterInv, StartCmd, Request
    <2>2. NewRun(cmd) \in Run /\ m \in Member /\ NewRun(cmd) # NoRun /\ NewFile(cmd.link) \in File
      BY <2>1, NewRunType, MemberType, NoRunNotRun, NewFileType
    <2>3. partial' = [partial EXCEPT ![m] = NewFile(cmd.link)] /\ cur' = NewRun(cmd)
      BY <1>1 DEF WriterStart
    <2>4. status' \in Status
      <3>1. <<cmd.req.path, 0>> \in Member
        BY <2>1, CaptureFileAssumption DEF Member
      <3>2. status' = [NoStatus EXCEPT !.path = <<cmd.req.path, 0>>]
        BY <1>1 DEF WriterStart
      <3>. QED BY <3>1, <3>2, StatusTypes DEF Status
    <2>5. /\ active' = TRUE /\ recorded' = {} /\ wpc' = "recv"
          /\ final' = final /\ faults' = faults
      BY <1>1 DEF WriterStart, Receive
    <2>6. partial' \in [Member -> File \cup {Absent}]
      BY <2>2, <2>3 DEF WriterInv, TypeOK
    <2>7. TypeOK'
      <3>1. /\ TypeOK /\ WriterFrame /\ queue' \in Seq(Cmd) /\ Len(queue') <= QueueCapacity
        BY <1>1, ReceiveType DEF WriterStart, WriterInv
      <3>2. final' \in [Member -> File \cup {Absent}] /\ faults' \in 0..MaxFaults
        BY <2>5, <3>1 DEF TypeOK
      <3>. QED BY <2>2, <2>3, <2>4, <2>5, <2>6, <3>1, <3>2, WriterTypes
    <2>8. partial'[MemberPath(cur')] \in File /\ cur' # NoRun
      BY <2>2, <2>3 DEF WriterInv, TypeOK
    <2>. QED BY <2>5, <2>7, <2>8 DEF WriterInv, OpenFile, Busy, Rotating, ActiveMeansOpen
  <1>2. CASE WriterStartRefused
    BY <1>2, CaptureFileAssumption
    DEF WriterInv, TypeOK, OpenFile, Busy, Rotating, ActiveMeansOpen, WriterStartRefused,
        Receive, WriterFrame, capVars, ctlVars, statVars, emitVars, fsVars
  <1>3. CASE WriterStartFails
    <2>. DEFINE cmd == Head(queue)
                first == <<cmd.req.path, IF cmd.req.ring = "none" THEN 0 ELSE 1>>
                f == [NewFile(cmd.link) EXCEPT !.torn = TRUE]
    <2>1. cmd \in StartCmd /\ cmd.req.path \in Paths /\ cmd.link \in Links
      BY <1>3, ReceiveType DEF WriterStartFails, WriterInv, StartCmd, Request
    <2>2. first \in Member /\ f \in File
      BY <2>1, CaptureFileAssumption, NewFileType, TornType DEF Member
    <2>3. /\ partial[first] = Absent /\ partial' = [partial EXCEPT ![first] = f]
          /\ UNCHANGED <<statVars, cur, wpc, recorded, final>>
      BY <1>3 DEF WriterStartFails
    <2>4. TypeOK /\ WriterFrame /\ queue' \in Seq(Cmd) /\ Len(queue') <= QueueCapacity /\ wpc = "recv"
      BY <1>3, ReceiveType DEF WriterStartFails, WriterInv
    <2>5. faults' \in 0..MaxFaults
      BY <1>3, <2>4, FaultType DEF WriterStartFails
    <2>6. partial' \in [Member -> File \cup {Absent}]
      BY <2>2, <2>3, <2>4 DEF TypeOK
    <2>7. TypeOK'
      <3>1. /\ active' \in BOOLEAN /\ status' \in Status /\ cur' \in Run \cup {NoRun}
            /\ recorded' \subseteq Frame /\ final' \in [Member -> File \cup {Absent}] /\ wpc' = "recv"
        BY <2>3, <2>4 DEF TypeOK, statVars
      <3>. QED BY <2>4, <2>5, <2>6, <3>1, WriterTypes
    <2>8. OpenFile'
      <3>1. SUFFICES ASSUME cur # NoRun PROVE partial'[MemberPath(cur)] \in File
        BY <2>3 DEF OpenFile
      <3>2. partial[MemberPath(cur)] \in File /\ MemberPath(cur) \in Member
        BY <3>1, <2>4, MemberType DEF WriterInv, OpenFile, TypeOK
      <3>3. MemberPath(cur) # first
        BY <3>2, <2>3, AbsentNotFile
      <3>. QED BY <2>3, <2>4, <3>2, <3>3 DEF TypeOK
    <2>. QED BY <2>3, <2>4, <2>7, <2>8 DEF WriterInv, Busy, Rotating, ActiveMeansOpen, statVars
  <1>. QED BY <1>1, <1>2, <1>3

\* Frames: discarded, written, or failed on.
LEMMA PacketPreserves ==
  ASSUME WriterInv, WriterDiscard \/ WriterPacket \/ WriterPacketFails \/ WriterStatsBlockFails
  PROVE  WriterInv'
  <1>0. TypeOK /\ OpenFile
    BY DEF WriterInv
  <1>1. CASE WriterDiscard
    BY <1>1, CaptureFileAssumption
    DEF WriterInv, TypeOK, OpenFile, Busy, Rotating, ActiveMeansOpen, WriterDiscard,
        Receive, WriterFrame, capVars, ctlVars, statVars, emitVars, fsVars
  <1>2. CASE WriterPacket
    <2>. DEFINE pkt == Head(queue).pkt
                m == MemberPath(cur)
    <2>1. /\ pkt \in Frame /\ queue' \in Seq(Cmd) /\ Len(queue') <= QueueCapacity
          /\ WriterFrame /\ wpc = "recv"
      BY <1>0, <1>2, ReceiveType DEF WriterPacket
    <2>2. cur \in Run /\ m \in Member /\ partial[m] \in File /\ pkt.size \in Nat
      BY <1>0, <1>2, <2>1, MemberType, CaptureFileAssumption
      DEF WriterPacket, TypeOK, OpenFile, Frame
    <2>3. [partial[m] EXCEPT !.pkts = Append(@, pkt)] \in File
      <3>1. Append(partial[m].pkts, pkt) \in Seq(Frame)
        BY <2>1, <2>2 DEF File
      <3>. QED BY <2>2, <3>1 DEF File
    <2>4. partial' = [partial EXCEPT ![m] = [partial[m] EXCEPT !.pkts = Append(@, pkt)]]
      BY <1>2 DEF WriterPacket
    <2>5. cur' \in Run /\ cur'.path = cur.path /\ cur'.ring = cur.ring /\ cur'.index = cur.index
      <3>1. cur' = [cur EXCEPT !.pkts = @ + 1, !.bytes = @ + pkt.size]
        BY <1>2 DEF WriterPacket
      <3>2. cur.pkts + 1 \in Nat /\ cur.bytes + pkt.size \in Nat
        BY <2>2 DEF Run
      <3>. HIDE DEF pkt
      <3>. QED BY <2>2, <3>1, <3>2 DEF Run
    <2>6. status' \in Status
      <3>1. cur.before + cur.bytes + pkt.size \in Nat
        BY <2>2 DEF Run
      <3>. QED BY <1>0, <1>2, <3>1 DEF WriterPacket, TypeOK, Status
    <2>7. /\ recorded' \subseteq Frame
          /\ active' = active /\ wpc' = "recv" /\ final' = final /\ faults' = faults
      BY <1>0, <1>2, <2>1 DEF WriterPacket, TypeOK
    <2>8. partial' \in [Member -> File \cup {Absent}] /\ partial'[m] \in File
      BY <1>0, <2>2, <2>3, <2>4 DEF TypeOK
    <2>9. TypeOK'
      <3>1. /\ active' \in BOOLEAN /\ faults' \in 0..MaxFaults
            /\ final' \in [Member -> File \cup {Absent}]
        BY <1>0, <2>7 DEF TypeOK
      <3>. QED BY <1>0, <2>1, <2>5, <2>6, <2>7, <2>8, <3>1, WriterTypes
    <2>10. MemberPath(cur') = m /\ cur' # NoRun /\ cur # NoRun
      BY <2>2, <2>5, NoRunNotRun DEF MemberPath
    <2>. QED BY <2>1, <2>7, <2>8, <2>9, <2>10
             DEF WriterInv, OpenFile, Busy, Rotating, ActiveMeansOpen
  <1>3. CASE WriterPacketFails \/ WriterStatsBlockFails
    <2>. DEFINE m == MemberPath(cur)
    <2>1. /\ queue' \in Seq(Cmd) /\ Len(queue') <= QueueCapacity
          /\ WriterFrame /\ wpc = "recv" /\ faults' \in 0..MaxFaults
          /\ cur # NoRun /\ UNCHANGED <<statVars, cur, wpc, recorded, final>>
      <3>1. CASE WriterPacketFails
        BY <1>0, <3>1, ReceiveType, FaultType DEF WriterPacketFails
      <3>2. CASE WriterStatsBlockFails
        BY <1>0, <3>2, FaultType DEF WriterStatsBlockFails, TypeOK
      <3>. QED BY <1>3, <3>1, <3>2
    <2>2. m \in Member /\ partial[m] \in File
      BY <1>0, <2>1, MemberType DEF TypeOK, OpenFile
    <2>3. \E f \in File : partial' = [partial EXCEPT ![m] = f]
      <3>1. CASE WriterPacketFails
        <4>1. PICK cut \in BOOLEAN : partial' = [partial EXCEPT ![m].torn = @ \/ cut]
          BY <3>1 DEF WriterPacketFails
        <4>2. (partial[m].torn \/ cut) \in BOOLEAN
          OBVIOUS
        <4>3. [partial[m] EXCEPT !.torn = (partial[m].torn \/ cut)] \in File
          BY <2>2, <4>2 DEF File
        <4>. QED BY <4>1, <4>3
      <3>2. CASE WriterStatsBlockFails
        BY <2>2, <3>2, TornType DEF WriterStatsBlockFails
      <3>. QED BY <1>3, <3>1, <3>2
    <2>4. partial' \in [Member -> File \cup {Absent}] /\ partial'[m] \in File
      BY <1>0, <2>2, <2>3 DEF TypeOK
    <2>5. TypeOK'
      <3>1. /\ active' \in BOOLEAN /\ status' \in Status /\ cur' \in Run \cup {NoRun}
            /\ recorded' \subseteq Frame /\ final' \in [Member -> File \cup {Absent}]
            /\ wpc' = "recv"
        BY <1>0, <2>1 DEF TypeOK, statVars
      <3>. QED BY <1>0, <2>1, <2>4, <3>1, WriterTypes
    <2>. QED BY <2>1, <2>4, <2>5
             DEF WriterInv, OpenFile, Busy, Rotating, ActiveMeansOpen, statVars
  <1>. QED BY <1>1, <1>2, <1>3


\* What a stop request and the ticks that keep the file decide.
LEMMA TickPreserves ==
  ASSUME WriterInv, WriterStop \/ WriterIdleTick \/ WriterTickStops \/ WriterTick
  PROVE  WriterInv'
  <1>0. TypeOK /\ OpenFile
    BY DEF WriterInv
  <1>1. CASE WriterStop
    <2>1. status' \in Status
      BY <1>0, <1>1 DEF TypeOK, WriterStop, Status
    <2>2. /\ wpc' = IF cur = NoRun THEN "recv" ELSE "stopping"
          /\ active' = FALSE /\ UNCHANGED <<cur, recorded, fsVars, faults>>
      BY <1>1 DEF WriterStop
    <2>3. WriterFrame /\ queue' \in Seq(Cmd) /\ Len(queue') <= QueueCapacity
      BY <1>0, <1>1, ReceiveType DEF WriterStop
    <2>4. TypeOK'
      BY <1>0, <2>1, <2>2, <2>3
      DEF TypeOK, WriterFrame, capVars, ctlVars, emitVars, fsVars
    <2>. QED BY <2>2, <2>4
             DEF WriterInv, OpenFile, Busy, Rotating, ActiveMeansOpen, fsVars
  <1>2. CASE WriterIdleTick
    BY <1>2, CaptureFileAssumption
    DEF WriterInv, TypeOK, OpenFile, Busy, Rotating, ActiveMeansOpen, WriterIdleTick,
        Receive, WriterFrame, capVars, ctlVars, statVars, emitVars, fsVars
  <1>3. CASE WriterTickStops
    <2>1. wpc' \in {"duration", "totalSize", "lowDisk"}
      BY <1>3 DEF WriterTickStops, AutostopReason
    <2>2. cur # NoRun /\ UNCHANGED <<statVars, cur, recorded, fsVars, faults>>
      BY <1>3 DEF WriterTickStops
    <2>3. WriterFrame /\ queue' \in Seq(Cmd) /\ Len(queue') <= QueueCapacity
      BY <1>0, <1>3, ReceiveType DEF WriterTickStops
    <2>4. TypeOK'
      BY <1>0, <2>1, <2>2, <2>3
      DEF TypeOK, WriterFrame, capVars, ctlVars, emitVars, fsVars, statVars
    <2>. QED BY <1>0, <2>1, <2>2, <2>4
             DEF WriterInv, OpenFile, Busy, Rotating, ActiveMeansOpen, fsVars
  <1>4. CASE WriterTick
    <2>1. /\ cur # NoRun /\ active' = TRUE /\ status' = TickStatus(cur)
          /\ UNCHANGED <<cur, wpc, recorded, fsVars, faults>>
      BY <1>4 DEF WriterTick
    <2>2. status' \in Status
      BY <1>0, <2>1, StatusTypes DEF TypeOK
    <2>3. WriterFrame /\ queue' \in Seq(Cmd) /\ Len(queue') <= QueueCapacity /\ wpc = "recv"
      BY <1>0, <1>4, ReceiveType DEF WriterTick
    <2>4. TypeOK'
      BY <1>0, <2>1, <2>2, <2>3
      DEF TypeOK, WriterFrame, capVars, ctlVars, emitVars, fsVars
    <2>. QED BY <1>0, <2>1, <2>3, <2>4
             DEF WriterInv, OpenFile, Busy, Rotating, ActiveMeansOpen, fsVars
  <1>. QED BY <1>1, <1>2, <1>3, <1>4

\* A tick that opens the next member, whole or cut short: the current one is
\* another file.
LEMMA OpenNextPreserves ==
  ASSUME WriterInv, WriterTickOpenFails \/ WriterTickRotates
  PROVE  WriterInv'
  <1>. DEFINE n == NextMember(cur)
  <1>0. TypeOK /\ OpenFile
    BY DEF WriterInv
  <1>1. /\ cur \in Run /\ cur # NoRun /\ wpc = "recv" /\ cur.index < MaxIndex /\ partial[n] = Absent
        /\ cur.ring # "none" /\ cur.link \in Links
    <2>1. /\ cur # NoRun /\ ShouldRotate /\ NextIsFree /\ wpc = "recv"
      BY DEF WriterTickOpenFails, WriterTickRotates, Receive
    <2>. QED BY <1>0, <2>1 DEF TypeOK, ShouldRotate, NextIsFree, Run
  <1>2. n \in Member /\ MemberPath(cur) \in Member /\ MemberPath(cur) # n
    BY <1>1, MemberType, NextMemberDiffers
  <1>3. WriterFrame /\ queue' \in Seq(Cmd) /\ Len(queue') <= QueueCapacity
    BY <1>0, ReceiveType DEF WriterTickOpenFails, WriterTickRotates
  <1>4. partial[MemberPath(cur)] \in File
    BY <1>0, <1>1 DEF OpenFile
  <1>5. CASE WriterTickOpenFails
    <2>1. /\ active' = TRUE /\ status' = TickStatus(cur) /\ UNCHANGED <<cur, wpc, recorded, final>>
          /\ \/ UNCHANGED partial
             \/ partial' = [partial EXCEPT ![n] = [NewFile(cur.link) EXCEPT !.torn = TRUE]]
      BY <1>5 DEF WriterTickOpenFails
    <2>2. faults' \in 0..MaxFaults
      BY <1>0, <1>5, FaultType DEF WriterTickOpenFails
    <2>3. [NewFile(cur.link) EXCEPT !.torn = TRUE] \in File
      BY <1>1, NewFileType, TornType
    <2>4. /\ partial' \in [Member -> File \cup {Absent}]
          /\ partial'[MemberPath(cur)] \in File
      BY <1>0, <1>2, <1>4, <2>1, <2>3 DEF TypeOK
    <2>5. status' \in Status
      BY <1>1, <2>1, StatusTypes
    <2>6. TypeOK'
      BY <1>0, <1>3, <2>1, <2>2, <2>4, <2>5
      DEF TypeOK, WriterFrame, capVars, ctlVars, emitVars
    <2>. QED BY <1>1, <2>1, <2>4, <2>6
             DEF WriterInv, OpenFile, Busy, Rotating, ActiveMeansOpen
  <1>6. CASE WriterTickRotates
    <2>1. /\ partial' = [partial EXCEPT ![n] = NewFile(cur.link)] /\ wpc' = "rotating"
          /\ UNCHANGED <<statVars, cur, recorded, final, faults>>
      BY <1>6 DEF WriterTickRotates
    <2>2. /\ partial' \in [Member -> File \cup {Absent}]
          /\ partial'[MemberPath(cur)] \in File /\ partial'[n] \in File
      BY <1>0, <1>1, <1>2, <1>4, <2>1, NewFileType DEF TypeOK
    <2>3. TypeOK'
      BY <1>0, <1>3, <2>1, <2>2 DEF TypeOK, WriterFrame, capVars, ctlVars, emitVars, statVars
    <2>. QED BY <1>1, <2>1, <2>2, <2>3
             DEF WriterInv, OpenFile, Busy, Rotating, ActiveMeansOpen
  <1>. QED BY <1>5, <1>6

\* finish_and_rename at the end of a rotation and at the end of a run.
LEMMA FinishPreserves ==
  ASSUME WriterInv, WriterFinishRotated \/ WriterFinishRun
  PROVE  WriterInv'
  <1>. DEFINE m == MemberPath(cur)
  <1>0. TypeOK /\ OpenFile /\ WriterFrame /\ queue' = queue /\ recorded' = recorded /\ wpc' = "recv"
    BY DEF WriterInv, WriterFinishRotated, WriterFinishRun
  <1>1. cur # NoRun /\ cur \in Run /\ m \in Member
    <2>1. cur # NoRun
      BY DEF WriterInv, Busy, WriterFinishRotated, WriterFinishRun
    <2>. QED BY <1>0, <2>1, MemberType DEF TypeOK
  <1>2. /\ partial' \in [Member -> File \cup {Absent}]
        /\ final' \in [Member -> File \cup {Absent}]
        /\ faults' \in 0..MaxFaults
        /\ \A k \in Member : k # m => partial'[k] = partial[k]
    BY <1>0, <1>1, FinishType DEF WriterFinishRotated, WriterFinishRun
  <1>3. CASE WriterFinishRotated
    <2>1. /\ cur.ring # "none" /\ cur.index < MaxIndex /\ partial[NextMember(cur)] \in File
      BY <1>3 DEF WriterInv, Rotating, WriterFinishRotated
    <2>2. /\ cur' = [cur EXCEPT !.index = @ + 1, !.before = @ + cur.bytes, !.bytes = 0,
                                !.pkts = 0, !.fileAge = 0]
          /\ active' = TRUE /\ status' = TickStatus(cur')
      BY <1>3 DEF WriterFinishRotated
    <2>3. cur.index + 1 \in 1..MaxIndex /\ cur.before + cur.bytes \in Nat /\ 0 \in 0..Threshold
      BY <1>1, <2>1, CaptureFileAssumption DEF Run
    <2>4. cur' \in Run /\ cur'.path = cur.path /\ cur'.ring = cur.ring /\ cur'.index = cur.index + 1
      BY <1>1, <2>2, <2>3 DEF Run
    <2>5. MemberPath(cur') = NextMember(cur) /\ NextMember(cur) # m /\ NextMember(cur) \in Member
      BY <1>1, <2>1, <2>4, MemberType, NextMemberDiffers DEF MemberPath, NextMember
    <2>6. status' \in Status /\ cur' # NoRun
      BY <2>2, <2>4, StatusTypes, NoRunNotRun
    <2>7. partial'[MemberPath(cur')] \in File
      BY <1>2, <2>1, <2>5
    <2>8. TypeOK'
      BY <1>0, <1>2, <2>2, <2>4, <2>6 DEF TypeOK, WriterFrame, capVars, ctlVars, emitVars
    <2>. QED BY <1>0, <2>2, <2>6, <2>7, <2>8
             DEF WriterInv, OpenFile, Busy, Rotating, ActiveMeansOpen
  <1>4. CASE WriterFinishRun
    <2>1. cur' = NoRun /\ active' = FALSE
      BY <1>4 DEF WriterFinishRun
    <2>2. status' \in Status
      <3>1. [path |-> m, bytes |-> cur.before + cur.bytes, ring |-> 0, reason |-> wpc] \in Status
            \/ wpc = "stopping"
        BY <1>1, <1>4, CaptureFileAssumption DEF WriterFinishRun, Status, Run
      <3>. QED BY <1>0, <1>4, <3>1 DEF WriterFinishRun, TypeOK
    <2>3. TypeOK'
      BY <1>0, <1>2, <2>1, <2>2 DEF TypeOK, WriterFrame, capVars, ctlVars, emitVars
    <2>. QED BY <1>0, <2>1, <2>3
             DEF WriterInv, OpenFile, Busy, Rotating, ActiveMeansOpen
  <1>. QED BY <1>3, <1>4

\* Every step of the agent preserves the writer's invariant.
LEMMA NextInv == WriterInv /\ [Next]_vars => WriterInv'
  <1>. SUFFICES ASSUME WriterInv, [Next]_vars PROVE WriterInv'
    OBVIOUS
  <1>1. CASE Writer
    BY <1>1, StartPreserves, PacketPreserves, TickPreserves, OpenNextPreserves, FinishPreserves
    DEF Writer
  <1>2. CASE UNCHANGED vars
    BY <1>2 DEF vars, capVars, ctlVars, statVars, emitVars, fsVars,
                WriterInv, TypeOK, OpenFile, Busy, Rotating, ActiveMeansOpen
  <1>. QED BY <1>1, <1>2, OthersPreserve, ElapsePreserves, CrashPreserves DEF Next

\* The capture agent's file writer keeps its types, its open file and the
\* meaning of its flag in every reachable state.
THEOREM WriterInvariant == Spec => []WriterInv
  BY InitInv, NextInv, PTL DEF Spec

\* The types of all shared and thread-local state.
THEOREM TypeCorrect == Spec => []TypeOK
  <1>1. WriterInv => TypeOK
    BY DEF WriterInv
  <1>. QED BY <1>1, WriterInvariant, PTL

\* writer_active, the one check the capture thread makes per frame, is set
\* between two commands exactly when the writer thread has a run open.
THEOREM FlagMeansOpen == Spec => []ActiveMeansOpen
  <1>1. WriterInv => ActiveMeansOpen
    BY DEF WriterInv
  <1>. QED BY <1>1, WriterInvariant, PTL


-----------------------------------------------------------------------------
(***************************************************************************)
(* What is under a final name is complete.                                 *)
(*                                                                         *)
(* The property speaks of finished files only; the argument needs the file *)
(* still open and everything on its way to it: frames in the channel, and  *)
(* the frame in the capture thread's hand, are newer than what is written  *)
(* and in order among themselves.                                          *)
(***************************************************************************)

InFlight(q) == {k \in 1..Len(q) : q[k].kind = "packet"}

\* The frame in the capture thread's hand, if any.
InHand == IF cap = "offer" THEN {frame.id} ELSE {}

QueueOrder(q, n, h) ==
  /\ \A i, j \in InFlight(q) : i < j => q[i].pkt.id < q[j].pkt.id
  /\ \A i \in InFlight(q) : q[i].pkt.id <= n /\ \A x \in h : q[i].pkt.id < x
  /\ \A x \in h : x <= n

\* File f is complete, in order and older than everything in flight.
Sound(f, q, n, h) ==
  /\ ~f.torn /\ Ordered(f)
  /\ \A i \in 1..Len(f.pkts) :
       /\ f.pkts[i].id <= n
       /\ \A x \in h : f.pkts[i].id < x
       /\ \A j \in InFlight(q) : f.pkts[i].id < q[j].pkt.id

OpenFileSound == cur # NoRun => Sound(partial[MemberPath(cur)], queue, frames, InHand)

NextFileNew == wpc = "rotating" => partial[NextMember(cur)] = NewFile(cur.link)

FileInv ==
  /\ WriterInv /\ QueueOrder(queue, frames, InHand)
  /\ OpenFileSound /\ NextFileNew /\ FinalFilesComplete

LEMMA PacketType ==
  ASSUME NEW q \in Seq(Cmd), NEW k \in InFlight(q)
  PROVE  q[k].pkt \in Frame /\ q[k].pkt.id \in Nat
  <1>1. q[k] \in Cmd /\ q[k].kind = "packet"
    BY DEF InFlight
  <1>2. q[k].pkt \in Frame
    BY <1>1 DEF Cmd, StartCmd
  <1>. QED BY <1>2, CaptureFileAssumption DEF Frame

LEMMA FramesOfFile ==
  ASSUME NEW f \in File
  PROVE  /\ f.pkts \in Seq(Frame)
         /\ \A i \in 1..Len(f.pkts) : f.pkts[i] \in Frame /\ f.pkts[i].id \in Nat
  <1>1. f.pkts \in Seq(Frame)
    BY DEF File
  <1>2. ASSUME NEW i \in 1..Len(f.pkts) PROVE f.pkts[i] \in Frame
    BY <1>1
  <1>3. \A fr \in Frame : fr.id \in Nat
    BY CaptureFileAssumption DEF Frame
  <1>. QED BY <1>1, <1>2, <1>3

\* The next frame captured is newer than everything before it.
LEMMA CaptureOrder ==
  ASSUME NEW q \in Seq(Cmd), NEW n \in Nat, NEW h \in {{}, {n + 1}}
  PROVE  /\ QueueOrder(q, n, {}) => QueueOrder(q, n + 1, h)
         /\ \A f \in File : Sound(f, q, n, {}) => Sound(f, q, n + 1, h)
  <1>1. QueueOrder(q, n, {}) => QueueOrder(q, n + 1, h)
    BY PacketType DEF QueueOrder
  <1>2. ASSUME NEW f \in File, Sound(f, q, n, {}) PROVE Sound(f, q, n + 1, h)
    <2>1. \A i \in 1..Len(f.pkts) : f.pkts[i].id \in Nat
      BY FramesOfFile
    <2>. QED BY <1>2, <2>1 DEF Sound
  <1>. QED BY <1>1, <1>2

\* Offering the frame in hand keeps the order, whether it is queued or not.
LEMMA OfferOrder ==
  ASSUME NEW q \in Seq(Cmd), NEW n \in Nat, NEW fr \in Frame,
         QueueOrder(q, n, {fr.id}),
         NEW r \in {q, Append(q, [kind |-> "packet", pkt |-> fr])}
  PROVE  /\ QueueOrder(r, n, {})
         /\ \A f \in File : Sound(f, q, n, {fr.id}) => Sound(f, r, n, {})
  <1>1. CASE r = q
    BY <1>1 DEF QueueOrder, Sound
  <1>2. CASE r = Append(q, [kind |-> "packet", pkt |-> fr])
    <2>1. /\ Len(r) = Len(q) + 1 /\ Len(q) \in Nat
          /\ \A k \in 1..Len(q) : r[k] = q[k]
          /\ r[Len(q) + 1] = [kind |-> "packet", pkt |-> fr]
      BY <1>2
    <2>2. ASSUME NEW k \in InFlight(r)
          PROVE  \/ k \in InFlight(q) /\ r[k] = q[k]
                 \/ k = Len(q) + 1 /\ r[k].pkt = fr
      BY <2>1 DEF InFlight
    <2>3. \A k \in InFlight(q) : k \in 1..Len(q)
      BY DEF InFlight
    <2>4. QueueOrder(r, n, {})
      BY <2>1, <2>2, <2>3 DEF QueueOrder
    <2>5. \A f \in File : Sound(f, q, n, {fr.id}) => Sound(f, r, n, {})
      BY <2>2 DEF Sound
    <2>. QED BY <2>4, <2>5
  <1>. QED BY <1>1, <1>2

\* Any other command queued behind the frames in flight changes nothing.
LEMMA AppendOrder ==
  ASSUME NEW q \in Seq(Cmd), NEW n \in Nat, NEW h \in SUBSET Nat,
         NEW cmd \in Cmd, cmd.kind # "packet"
  PROVE  /\ QueueOrder(q, n, h) => QueueOrder(Append(q, cmd), n, h)
         /\ \A f \in File : Sound(f, q, n, h) => Sound(f, Append(q, cmd), n, h)
  <1>. DEFINE r == Append(q, cmd)
  <1>1. /\ Len(r) = Len(q) + 1 /\ Len(q) \in Nat
        /\ \A k \in 1..Len(q) : r[k] = q[k]
        /\ r[Len(q) + 1] = cmd
    OBVIOUS
  <1>. HIDE DEF r
  <1>2. ASSUME NEW k \in InFlight(r) PROVE k \in InFlight(q) /\ r[k] = q[k]
    BY <1>1 DEF InFlight
  <1>3. QueueOrder(q, n, h) => QueueOrder(r, n, h)
    BY <1>2 DEF QueueOrder
  <1>4. \A f \in File : Sound(f, q, n, h) => Sound(f, r, n, h)
    BY <1>2 DEF Sound
  <1>. QED BY <1>3, <1>4 DEF r

\* Taking the head off the channel keeps the order of the rest.
LEMMA TailOrder ==
  ASSUME NEW q \in Seq(Cmd), q # <<>>, NEW n \in Nat, NEW h \in SUBSET Nat
  PROVE  /\ QueueOrder(q, n, h) => QueueOrder(Tail(q), n, h)
         /\ \A f \in File : Sound(f, q, n, h) => Sound(f, Tail(q), n, h)
         /\ Head(q).kind = "packet" => 1 \in InFlight(q) /\ q[1] = Head(q)
         /\ \A k \in InFlight(Tail(q)) :
              k + 1 \in InFlight(q) /\ Tail(q)[k] = q[k + 1] /\ k \in Nat \ {0}
  <1>. DEFINE r == Tail(q)
  <1>1. /\ Len(r) = Len(q) - 1 /\ Len(q) \in Nat \ {0}
        /\ \A k \in 1..Len(r) : r[k] = q[k + 1]
        /\ Head(q) = q[1]
    OBVIOUS
  <1>. HIDE DEF r
  <1>2. ASSUME NEW k \in InFlight(r)
        PROVE  k + 1 \in InFlight(q) /\ r[k] = q[k + 1] /\ k \in Nat \ {0}
    BY <1>1 DEF InFlight
  <1>3. QueueOrder(q, n, h) => QueueOrder(r, n, h)
    BY <1>2 DEF QueueOrder
  <1>4. \A f \in File : Sound(f, q, n, h) => Sound(f, r, n, h)
    BY <1>2 DEF Sound
  <1>5. Head(q).kind = "packet" => 1 \in InFlight(q)
    BY <1>1 DEF InFlight
  <1>. QED BY <1>1, <1>2, <1>3, <1>4, <1>5 DEF r

\* Writing the frame at the head of the channel.
LEMMA WriteOrder ==
  ASSUME NEW q \in Seq(Cmd), q # <<>>, Head(q).kind = "packet",
         NEW n \in Nat, NEW h \in SUBSET Nat, QueueOrder(q, n, h),
         NEW f \in File, Sound(f, q, n, h)
  PROVE  Sound([f EXCEPT !.pkts = Append(@, Head(q).pkt)], Tail(q), n, h)
  <1>. DEFINE p == Head(q).pkt
              g == [f EXCEPT !.pkts = Append(@, p)]
  <1>1. 1 \in InFlight(q) /\ p = q[1].pkt /\ p \in Frame /\ p.id \in Nat
    BY TailOrder, PacketType
  <1>2. /\ g.pkts = Append(f.pkts, p) /\ g.torn = f.torn /\ f.pkts \in Seq(Frame)
    BY DEF File
  <1>3. /\ Len(g.pkts) = Len(f.pkts) + 1 /\ Len(f.pkts) \in Nat
        /\ \A i \in 1..Len(f.pkts) : g.pkts[i] = f.pkts[i]
        /\ g.pkts[Len(f.pkts) + 1] = p
    BY <1>1, <1>2
  <1>. HIDE DEF p, g
  <1>4. \A i \in 1..Len(f.pkts) : f.pkts[i].id < p.id /\ f.pkts[i].id \in Nat
    BY <1>1, FramesOfFile DEF Sound
  <1>5. Ordered(g)
    <2>1. Ordered(f)
      BY DEF Sound
    <2>2. ASSUME NEW i \in 1..Len(g.pkts), NEW j \in 1..Len(g.pkts), i < j
          PROVE  g.pkts[i].id < g.pkts[j].id
      <3>1. i \in 1..Len(f.pkts) /\ (j \in 1..Len(f.pkts) \/ j = Len(f.pkts) + 1)
        BY <1>3, <2>2
      <3>. QED BY <1>3, <1>4, <2>1, <2>2, <3>1 DEF Ordered
    <2>. QED BY <2>2 DEF Ordered
  <1>6. p.id <= n /\ (\A x \in h : p.id < x)
    BY <1>1 DEF QueueOrder
  <1>7. \A j \in InFlight(Tail(q)) :
          j + 1 \in InFlight(q) /\ Tail(q)[j] = q[j + 1] /\ j \in Nat \ {0}
    BY TailOrder
  <1>8. \A j \in InFlight(Tail(q)) : p.id < Tail(q)[j].pkt.id
    <2>1. ASSUME NEW j \in InFlight(Tail(q)) PROVE q[1].pkt.id < q[j + 1].pkt.id
      <3>1. j + 1 \in InFlight(q) /\ 1 < j + 1
        BY <1>7
      <3>. QED BY <1>1, <3>1 DEF QueueOrder
    <2>. QED BY <1>1, <1>7, <2>1
  <1>9. \A j \in InFlight(Tail(q)) : \A i \in 1..Len(f.pkts) : f.pkts[i].id < Tail(q)[j].pkt.id
    BY <1>7 DEF Sound
  <1>10. \A i \in 1..Len(g.pkts) : i \in 1..Len(f.pkts) \/ i = Len(f.pkts) + 1
    BY <1>3
  <1>. QED BY <1>2, <1>3, <1>5, <1>6, <1>8, <1>9, <1>10 DEF Sound, g, p

LEMMA HandType == ASSUME TypeOK PROVE InHand \in SUBSET Nat
  BY CaptureFileAssumption DEF TypeOK, InHand, Frame

LEMMA FileInvInit == Init => FileInv
  <1>. SUFFICES ASSUME Init PROVE FileInv
    OBVIOUS
  <1>1. queue = <<>> /\ InHand = {} /\ cur = NoRun /\ wpc = "recv" /\ final = [m \in Member |-> Absent]
    BY DEF Init, InHand
  <1>2. QueueOrder(queue, frames, InHand)
    BY <1>1 DEF QueueOrder, InFlight
  <1>. QED BY <1>1, <1>2, InitInv DEF FileInv, OpenFileSound, NextFileNew, FinalFilesComplete

\* Steps that leave the run and the disk alone need only keep the order.
LEMMA OrderSuffices ==
  ASSUME FileInv, WriterInv', UNCHANGED <<cur, wpc, partial, final>>,
         QueueOrder(queue', frames', InHand'),
         \A f \in File : Sound(f, queue, frames, InHand) => Sound(f, queue', frames', InHand')
  PROVE  FileInv'
  <1>1. OpenFileSound'
    BY DEF FileInv, WriterInv, OpenFile, OpenFileSound
  <1>2. NextFileNew' /\ FinalFilesComplete'
    BY DEF FileInv, NextFileNew, FinalFilesComplete
  <1>. QED BY <1>1, <1>2 DEF FileInv

LEMMA OthersOrder ==
  ASSUME FileInv, WriterInv', Capture \/ Control \/ EmitBegin \/ EmitStatus
  PROVE  FileInv'
  <1>. USE DEF capVars, ctlVars, statVars, emitVars, fsVars
  <1>0. TypeOK /\ queue \in Seq(Cmd) /\ frames \in Nat /\ InHand \in SUBSET Nat
        /\ QueueOrder(queue, frames, InHand)
    BY HandType, CaptureFileAssumption DEF FileInv, WriterInv, TypeOK
  <1>1. CASE CaptureFrame
    <2>1. /\ InHand = {} /\ frames' = frames + 1 /\ InHand' \in {{}, {frames + 1}}
          /\ UNCHANGED <<cur, wpc, partial, final, queue>>
      BY <1>1 DEF CaptureFrame, InHand
    <2>. QED BY <1>0, <2>1, CaptureOrder, OrderSuffices
  <1>2. CASE OfferFrame
    <2>1. /\ InHand = {frame.id} /\ frames' = frames /\ InHand' = {} /\ frame \in Frame
          /\ queue' \in {queue, Append(queue, [kind |-> "packet", pkt |-> frame])}
          /\ UNCHANGED <<cur, wpc, partial, final>>
      BY <1>0, <1>2 DEF OfferFrame, InHand, TypeOK
    <2>. QED BY <1>0, <2>1, OfferOrder, OrderSuffices
  <1>3. ASSUME NEW cmd \in Cmd, cmd.kind # "packet", queue' = Append(queue, cmd),
               UNCHANGED <<capVars, cur, wpc, partial, final>>
        PROVE  FileInv'
    <2>1. InHand' = InHand /\ frames' = frames
      BY <1>3 DEF InHand
    <2>. QED BY <1>0, <1>3, <2>1, AppendOrder, OrderSuffices
  <1>4. CASE PollStats
    <2>1. [kind |-> "stats"] \in Cmd
      BY DEF Cmd
    <2>. QED BY <1>3, <1>4, <2>1 DEF PollStats
  <1>5. ASSUME NEW c \in Clients, StartSend(c) PROVE FileInv'
    <2>1. ctl[c] \in StartCmd
      BY <1>0, <1>5 DEF TypeOK, StartSend
    <2>2. ctl[c] \in Cmd /\ ctl[c].kind # "packet"
      BY <2>1 DEF Cmd, StartCmd
    <2>. QED BY <1>3, <1>5, <2>2 DEF StartSend
  <1>6. ASSUME NEW c \in Clients, StopSend(c) PROVE FileInv'
    <2>1. [kind |-> "stop"] \in Cmd
      BY DEF Cmd
    <2>. QED BY <1>3, <1>6, <2>1 DEF StopSend
  <1>7. ASSUME UNCHANGED <<queue, frames, frame, cur, wpc, partial, final>>,
               cap' = cap \/ (cap = "loop" /\ cap' = "ended")
        PROVE  FileInv'
    <2>1. InHand' = InHand
      BY <1>7 DEF InHand
    <2>. QED BY <1>0, <1>7, <2>1, OrderSuffices
  <1>8. CASE CaptureEnds
    BY <1>7, <1>8 DEF CaptureEnds
  <1>9. ASSUME NEW l \in Links, SwitchInterface(l) PROVE FileInv'
    BY <1>7, <1>9 DEF SwitchInterface
  <1>10. ASSUME NEW c \in Clients, NEW req \in Request, StartCheck(c, req) PROVE FileInv'
    BY <1>7, <1>10 DEF StartCheck
  <1>11. CASE SetPaused \/ EmitBegin \/ EmitStatus
    BY <1>7, <1>11 DEF SetPaused, EmitBegin, EmitStatus
  <1>. QED BY <1>1, <1>2, <1>4, <1>5, <1>6, <1>8, <1>9, <1>10, <1>11 DEF Capture, Control

\* Taking a command keeps the order of what remains.
LEMMA ReceiveOrder ==
  ASSUME FileInv, NEW kind, Receive(kind)
  PROVE  /\ queue \in Seq(Cmd) /\ queue # <<>> /\ queue' = Tail(queue)
         /\ frames \in Nat /\ InHand \in SUBSET Nat
         /\ frames' = frames /\ InHand' = InHand
         /\ QueueOrder(queue, frames, InHand) /\ QueueOrder(queue', frames', InHand')
         /\ \A f \in File : Sound(f, queue, frames, InHand) => Sound(f, queue', frames', InHand')
  <1>1. /\ queue \in Seq(Cmd) /\ queue # <<>> /\ queue' = Tail(queue)
        /\ frames \in Nat /\ InHand \in SUBSET Nat
        /\ frames' = frames /\ InHand' = InHand
        /\ QueueOrder(queue, frames, InHand)
    BY HandType, CaptureFileAssumption
    DEF FileInv, WriterInv, TypeOK, Receive, WriterFrame, capVars, InHand
  <1>. QED BY <1>1, TailOrder

\* A new file holds nothing, and so is sound whatever is in flight.
LEMMA NewFileSound ==
  ASSUME NEW l, NEW q, NEW n, NEW h PROVE Sound(NewFile(l), q, n, h)
  BY DEF Sound, NewFile, Ordered


LEMMA WriterOrder ==
  ASSUME FileInv, WriterInv', Writer, "write" \notin FaultKinds
  PROVE  FileInv'
  <1>. USE DEF statVars, fsVars
  <1>0. TypeOK /\ WriterInv
    BY DEF FileInv, WriterInv
  <1>1. CASE WriterStart
    <2>. DEFINE cmd == Head(queue)
                m == MemberPath(NewRun(cmd))
    <2>1. m \in Member
      BY <1>0, <1>1, ReceiveType, NewRunType, MemberType DEF WriterStart
    <2>2. /\ partial' = [partial EXCEPT ![m] = NewFile(cmd.link)] /\ cur' = NewRun(cmd)
          /\ wpc' = "recv" /\ final' = final
      BY <1>1 DEF WriterStart, Receive
    <2>3. partial'[MemberPath(cur')] = NewFile(cmd.link)
      BY <1>0, <2>1, <2>2 DEF TypeOK
    <2>4. OpenFileSound'
      BY <2>3, NewFileSound DEF OpenFileSound
    <2>5. QueueOrder(queue', frames', InHand')
      BY <1>1, ReceiveOrder DEF WriterStart
    <2>. QED BY <2>2, <2>4, <2>5 DEF FileInv, NextFileNew, FinalFilesComplete
  <1>2. CASE WriterStartFails \/ WriterTickOpenFails
    <2>1. /\ QueueOrder(queue', frames', InHand')
          /\ \A f \in File : Sound(f, queue, frames, InHand) => Sound(f, queue', frames', InHand')
      BY <1>2, ReceiveOrder DEF WriterStartFails, WriterTickOpenFails
    <2>2. cur' = cur /\ wpc' = "recv" /\ final' = final /\ wpc = "recv"
      BY <1>2 DEF WriterStartFails, WriterTickOpenFails, Receive
    <2>3. \A m \in Member : partial[m] # Absent => partial'[m] = partial[m]
      BY <1>0, <1>2 DEF TypeOK, WriterStartFails, WriterTickOpenFails, NextIsFree
    <2>4. OpenFileSound'
      <3>1. SUFFICES ASSUME cur # NoRun
                     PROVE  Sound(partial'[MemberPath(cur)], queue', frames', InHand')
        BY <2>2 DEF OpenFileSound
      <3>2. partial[MemberPath(cur)] \in File /\ MemberPath(cur) \in Member
        BY <1>0, <3>1, MemberType DEF WriterInv, OpenFile, TypeOK
      <3>3. partial'[MemberPath(cur)] = partial[MemberPath(cur)]
        BY <2>3, <3>2, AbsentNotFile
      <3>. QED BY <2>1, <3>1, <3>2, <3>3 DEF FileInv, OpenFileSound
    <2>. QED BY <2>1, <2>2, <2>4 DEF FileInv, NextFileNew, FinalFilesComplete
  <1>3. CASE WriterStartRefused \/ WriterDiscard \/ WriterIdleTick \/ WriterTick
    <2>1. /\ QueueOrder(queue', frames', InHand')
          /\ \A f \in File : Sound(f, queue, frames, InHand) => Sound(f, queue', frames', InHand')
      BY <1>3, ReceiveOrder DEF WriterStartRefused, WriterDiscard, WriterIdleTick, WriterTick
    <2>2. UNCHANGED <<cur, wpc, partial, final>>
      BY <1>3 DEF WriterStartRefused, WriterDiscard, WriterIdleTick, WriterTick
    <2>. QED BY <2>1, <2>2, OrderSuffices
  <1>4. CASE WriterStop \/ WriterTickStops
    <2>1. /\ QueueOrder(queue', frames', InHand')
          /\ \A f \in File : Sound(f, queue, frames, InHand) => Sound(f, queue', frames', InHand')
      BY <1>4, ReceiveOrder DEF WriterStop, WriterTickStops
    <2>2. UNCHANGED <<cur, partial, final>> /\ wpc' # "rotating"
      BY <1>4 DEF WriterStop, WriterTickStops, AutostopReason
    <2>3. OpenFileSound'
      BY <1>0, <2>1, <2>2 DEF FileInv, WriterInv, OpenFile, OpenFileSound
    <2>. QED BY <2>1, <2>2, <2>3 DEF FileInv, NextFileNew, FinalFilesComplete
  <1>5. CASE WriterPacket
    <2>. DEFINE m == MemberPath(cur)
                g == [partial[m] EXCEPT !.pkts = Append(@, Head(queue).pkt)]
    <2>1. /\ cur # NoRun /\ partial' = [partial EXCEPT ![m] = g]
          /\ wpc' = "recv" /\ final' = final
          /\ cur' = [cur EXCEPT !.pkts = @ + 1, !.bytes = @ + Head(queue).pkt.size]
          /\ Head(queue).kind = "packet"
      BY <1>5 DEF WriterPacket, Receive
    <2>2. cur \in Run /\ m \in Member /\ partial[m] \in File
      BY <1>0, <2>1, MemberType DEF WriterInv, OpenFile, TypeOK
    <2>3. MemberPath(cur') = m
      BY <2>1, <2>2 DEF MemberPath, Run
    <2>4. partial'[m] = g
      BY <1>0, <2>1, <2>2 DEF TypeOK
    <2>5. Sound(partial[m], queue, frames, InHand)
      BY <2>1 DEF FileInv, OpenFileSound
    <2>6. /\ queue \in Seq(Cmd) /\ queue # <<>> /\ queue' = Tail(queue)
          /\ frames \in Nat /\ InHand \in SUBSET Nat
          /\ frames' = frames /\ InHand' = InHand
          /\ QueueOrder(queue, frames, InHand) /\ QueueOrder(queue', frames', InHand')
      BY <1>5, ReceiveOrder DEF WriterPacket
    <2>7. Sound(g, queue', frames', InHand')
      BY <2>1, <2>2, <2>5, <2>6, WriteOrder
    <2>. QED BY <2>1, <2>3, <2>4, <2>6, <2>7
             DEF FileInv, OpenFileSound, NextFileNew, FinalFilesComplete
  <1>6. CASE WriterPacketFails \/ WriterStatsBlockFails
    BY <1>6 DEF WriterPacketFails, WriterStatsBlockFails, Fault
  <1>7. CASE WriterTickRotates
    <2>. DEFINE n == NextMember(cur)
    <2>1. /\ cur # NoRun /\ ShouldRotate /\ NextIsFree
          /\ partial' = [partial EXCEPT ![n] = NewFile(cur.link)]
          /\ UNCHANGED <<cur, final>>
      BY <1>7 DEF WriterTickRotates
    <2>2. /\ cur \in Run /\ cur.index < MaxIndex /\ cur.ring # "none"
          /\ MemberPath(cur) \in Member /\ n \in Member /\ n # MemberPath(cur)
      BY <1>0, <2>1, MemberType, NextMemberDiffers DEF TypeOK, ShouldRotate, NextIsFree
    <2>3. partial'[n] = NewFile(cur.link) /\ partial'[MemberPath(cur)] = partial[MemberPath(cur)]
      BY <1>0, <2>1, <2>2 DEF TypeOK
    <2>4. /\ QueueOrder(queue', frames', InHand')
          /\ \A f \in File : Sound(f, queue, frames, InHand) => Sound(f, queue', frames', InHand')
      BY <1>7, ReceiveOrder DEF WriterTickRotates
    <2>5. OpenFileSound'
      BY <1>0, <2>1, <2>3, <2>4 DEF FileInv, WriterInv, OpenFile, OpenFileSound
    <2>. QED BY <2>1, <2>3, <2>4, <2>5 DEF FileInv, NextFileNew, FinalFilesComplete
  <1>8. CASE WriterFinishRotated \/ WriterFinishRun
    <2>. DEFINE m == MemberPath(cur)
    <2>1. FinishAndRename(m) /\ WriterFrame /\ queue' = queue /\ wpc' = "recv"
      BY <1>8 DEF WriterFinishRotated, WriterFinishRun
    <2>2. cur # NoRun /\ cur \in Run /\ m \in Member
      <3>1. cur # NoRun
        BY <1>0, <1>8 DEF WriterInv, Busy, WriterFinishRotated, WriterFinishRun
      <3>. QED BY <1>0, <3>1, MemberType DEF TypeOK
    <2>3. Sound(partial[m], queue, frames, InHand)
      BY <2>2 DEF FileInv, OpenFileSound
    <2>4. FinalFilesComplete'
      <3>1. \A k \in Member : final'[k] = final[k] \/ final'[k] = partial[m]
        BY <1>0, <2>1, <2>2 DEF TypeOK, FinishAndRename
      <3>. QED BY <2>3, <3>1 DEF FileInv, FinalFilesComplete, Sound
    <2>5. frames' = frames /\ InHand' = InHand
      BY <2>1 DEF WriterFrame, capVars, InHand
    <2>6. OpenFileSound'
      <3>1. CASE WriterFinishRun
        BY <3>1 DEF WriterFinishRun, OpenFileSound
      <3>2. CASE WriterFinishRotated
        <4>1. /\ cur.ring # "none" /\ cur.index < MaxIndex
              /\ partial[NextMember(cur)] = NewFile(cur.link)
          BY <1>0, <3>2 DEF WriterInv, Rotating, FileInv, NextFileNew, WriterFinishRotated
        <4>2. cur' = [cur EXCEPT !.index = @ + 1, !.before = @ + cur.bytes, !.bytes = 0,
                                !.pkts = 0, !.fileAge = 0]
          BY <3>2 DEF WriterFinishRotated
        <4>3. cur'.path = cur.path /\ cur'.ring = cur.ring /\ cur'.index = cur.index + 1
          BY <2>2, <4>2 DEF Run
        <4>4. /\ MemberPath(cur') = NextMember(cur) /\ NextMember(cur) # m
              /\ NextMember(cur) \in Member
          BY <2>2, <4>1, <4>3, MemberType, NextMemberDiffers DEF MemberPath, NextMember
        <4>5. partial'[NextMember(cur)] = partial[NextMember(cur)]
          BY <1>0, <2>1, <2>2, <4>4, FinishType
        <4>. QED BY <4>1, <4>4, <4>5, NewFileSound DEF OpenFileSound
      <3>. QED BY <1>8, <3>1, <3>2
    <2>. QED BY <2>1, <2>4, <2>5, <2>6 DEF FileInv, NextFileNew
  <1>. QED BY <1>1, <1>2, <1>3, <1>4, <1>5, <1>6, <1>7, <1>8 DEF Writer

LEMMA ElapseOrder == ASSUME FileInv, WriterInv', Elapse PROVE FileInv'
  <1>1. cur \in Run /\ cur # NoRun
    BY DEF FileInv, WriterInv, TypeOK, Elapse
  <1>2. cur' = [cur EXCEPT !.age = Min2(@ + 1, Threshold), !.fileAge = @ + 1]
    BY DEF Elapse
  <1>3. /\ cur'.index = cur.index /\ cur'.ring = cur.ring /\ cur'.path = cur.path
        /\ cur'.link = cur.link
    BY <1>1, <1>2 DEF Run
  <1>4. MemberPath(cur') = MemberPath(cur) /\ NextMember(cur') = NextMember(cur)
    BY <1>3 DEF MemberPath, NextMember
  <1>5. UNCHANGED <<queue, frames, InHand, wpc, partial, final>>
    BY DEF Elapse, capVars, fsVars, InHand
  <1>. QED BY <1>1, <1>3, <1>4, <1>5
           DEF FileInv, OpenFileSound, NextFileNew, FinalFilesComplete

LEMMA CrashOrder == ASSUME FileInv, WriterInv', Crash PROVE FileInv'
  <1>1. queue' = <<>> /\ InHand' = {} /\ cur' = NoRun /\ wpc' = "recv" /\ final' = final
    BY DEF Crash, InHand
  <1>2. QueueOrder(queue', frames', InHand')
    BY <1>1 DEF QueueOrder, InFlight
  <1>. QED BY <1>1, <1>2 DEF FileInv, OpenFileSound, NextFileNew, FinalFilesComplete

\* As long as no write to an open file fails part of the way, a file under its
\* final name never ends in a cut-short block and holds its frames in capture
\* order, once each: whatever the interleaving of requests, frames and ticks,
\* and through any number of kills, failed opens and failed renames.
THEOREM FinalComplete ==
  ASSUME "write" \notin FaultKinds
  PROVE  Spec => []FinalFilesComplete
  <1>1. FileInv /\ [Next]_vars => FileInv'
    <2>. SUFFICES ASSUME FileInv, [Next]_vars PROVE FileInv'
      OBVIOUS
    <2>1. WriterInv'
      BY NextInv DEF FileInv
    <2>2. CASE UNCHANGED vars
      BY <2>1, <2>2 DEF vars, capVars, ctlVars, statVars, emitVars, fsVars, InHand,
                  FileInv, OpenFileSound, NextFileNew, FinalFilesComplete
    <2>. QED BY <2>1, <2>2, WriterOrder, OthersOrder, ElapseOrder, CrashOrder DEF Next
  <1>2. FileInv => FinalFilesComplete
    BY DEF FileInv
  <1>. QED BY <1>1, <1>2, FileInvInit, PTL DEF Spec


-----------------------------------------------------------------------------
(***************************************************************************)
(* No start or rotation reuses the name of a file on disk.                 *)
(***************************************************************************)

LEMMA ExtendsItself == ASSUME NEW f \in File PROVE Extends(f, f)
  <1>1. Len(f.pkts) \in Nat
    BY FramesOfFile
  <1>. QED BY <1>1 DEF Extends

LEMMA ExtendsTorn ==
  ASSUME NEW f \in File, NEW t \in BOOLEAN, f.torn => t
  PROVE  Extends(f, [f EXCEPT !.torn = t])
  <1>1. Len(f.pkts) \in Nat
    BY FramesOfFile
  <1>2. LET g == [f EXCEPT !.torn = t] IN g.link = f.link /\ g.pkts = f.pkts /\ g.torn = t
    BY DEF File
  <1>. QED BY <1>1, <1>2 DEF Extends

LEMMA ExtendsAppend ==
  ASSUME NEW f \in File, NEW p \in Frame
  PROVE  Extends(f, [f EXCEPT !.pkts = Append(@, p)])
  <1>1. f.pkts \in Seq(Frame)
    BY FramesOfFile
  <1>2. /\ Len(Append(f.pkts, p)) = Len(f.pkts) + 1 /\ Len(f.pkts) \in Nat
        /\ \A i \in 1..Len(f.pkts) : Append(f.pkts, p)[i] = f.pkts[i]
    BY <1>1
  <1>3. LET g == [f EXCEPT !.pkts = Append(@, p)]
        IN g.link = f.link /\ g.pkts = Append(f.pkts, p) /\ g.torn = f.torn
    BY DEF File
  <1>. QED BY <1>2, <1>3 DEF Extends

\* Writer::create opens with create_new and nothing but the open file is ever
\* written: a .partial left behind by a kill, a failed open, a failed rename or
\* a run that another start displaced keeps every block it holds.
THEOREM PartialKept == Spec => PartialNeverClobbered
  <1>. DEFINE Kept(m) == partial[m] # Absent /\ partial'[m] # Absent
                           => Extends(partial[m], partial'[m])
  <1>1. ASSUME WriterInv, [Next]_vars PROVE \A m \in Member : Kept(m)
    <2>0. TypeOK /\ OpenFile /\ partial \in [Member -> File \cup {Absent}]
      BY <1>1 DEF WriterInv, TypeOK
    <2>1. ASSUME NEW m \in Member, partial'[m] = partial[m] \/ partial[m] = Absent \/ partial'[m] = Absent
          PROVE  Kept(m)
      BY <2>0, <2>1, ExtendsItself
    <2>2. ASSUME partial' = partial PROVE \A m \in Member : Kept(m)
      BY <2>1, <2>2
    <2>3. ASSUME NEW n, NEW g, partial[n] = Absent, partial' = [partial EXCEPT ![n] = g]
          PROVE  \A m \in Member : Kept(m)
      BY <2>0, <2>1, <2>3
    <2>4. ASSUME cur # NoRun, NEW g, partial' = [partial EXCEPT ![MemberPath(cur)] = g],
                 Extends(partial[MemberPath(cur)], g)
          PROVE  \A m \in Member : Kept(m)
      BY <2>0, <2>1, <2>4
    <2>5. cur # NoRun => partial[MemberPath(cur)] \in File
      BY <2>0 DEF OpenFile
    <2>6. CASE WriterStart \/ WriterStartFails
      BY <2>3, <2>6 DEF WriterStart, WriterStartFails
    <2>7. CASE WriterTickOpenFails \/ WriterTickRotates
      BY <2>2, <2>3, <2>7 DEF WriterTickOpenFails, WriterTickRotates, NextIsFree
    <2>8. CASE WriterPacket
      <3>1. Head(queue).pkt \in Frame
        BY <2>0, <2>8, ReceiveType DEF WriterPacket
      <3>2. /\ cur # NoRun
            /\ partial' = [partial EXCEPT ![MemberPath(cur)] =
                             [partial[MemberPath(cur)] EXCEPT !.pkts = Append(@, Head(queue).pkt)]]
        BY <2>8 DEF WriterPacket
      <3>. QED BY <2>4, <2>5, <3>1, <3>2, ExtendsAppend
    <2>9. CASE WriterPacketFails
      <3>1. PICK cut \in BOOLEAN : partial' = [partial EXCEPT ![MemberPath(cur)].torn = @ \/ cut]
        BY <2>9 DEF WriterPacketFails
      <3>2. cur # NoRun
        BY <2>9 DEF WriterPacketFails
      <3>3. (partial[MemberPath(cur)].torn \/ cut) \in BOOLEAN
        OBVIOUS
      <3>. QED BY <2>4, <2>5, <3>1, <3>2, <3>3, ExtendsTorn
    <2>10. CASE WriterStatsBlockFails \/ Crash
      <3>1. CASE UNCHANGED partial
        BY <2>2, <3>1
      <3>2. CASE cur # NoRun /\ partial' = [partial EXCEPT ![MemberPath(cur)].torn = TRUE]
        BY <2>4, <2>5, <3>2, ExtendsTorn
      <3>. QED BY <2>10, <3>1, <3>2 DEF WriterStatsBlockFails, Crash
    <2>11. CASE WriterFinishRotated \/ WriterFinishRun
      <3>1. MemberPath(cur) \in Member
        <4>1. cur # NoRun
          BY <1>1, <2>11 DEF WriterInv, Busy, WriterFinishRotated, WriterFinishRun
        <4>. QED BY <2>0, <4>1, MemberType DEF TypeOK
      <3>2. partial' = partial \/ partial' = [partial EXCEPT ![MemberPath(cur)] = Absent]
        BY <2>11 DEF WriterFinishRotated, WriterFinishRun, FinishAndRename, fsVars
      <3>. QED BY <2>0, <2>1, <3>1, <3>2
    <2>12. CASE WriterStartRefused \/ WriterStop \/ WriterDiscard \/ WriterIdleTick
                  \/ WriterTickStops \/ WriterTick
      BY <2>2, <2>12 DEF WriterStartRefused, WriterStop, WriterDiscard, WriterIdleTick,
                         WriterTickStops, WriterTick, fsVars
    <2>13. CASE Capture \/ Control
      BY <2>2, <2>13 DEF Capture, Control, CaptureFrame, OfferFrame, PollStats, CaptureEnds,
                         SwitchInterface, StartSend, StopSend, StartCheck, SetPaused, fsVars
    <2>14. CASE Elapse \/ EmitBegin \/ EmitStatus \/ UNCHANGED vars
      BY <2>2, <2>14 DEF Elapse, EmitBegin, EmitStatus, vars, fsVars
    <2>. QED BY <1>1, <2>6, <2>7, <2>8, <2>9, <2>10, <2>11, <2>12, <2>13, <2>14
             DEF Next, Writer
  <1>2. WriterInv /\ [Next]_vars
          => [\A m \in Member : partial[m] # Absent /\ partial'[m] # Absent
                                => Extends(partial[m], partial'[m])]_vars
    BY <1>1
  <1>. QED BY <1>2, WriterInvariant, PTL DEF Spec, PartialNeverClobbered

-----------------------------------------------------------------------------
(***************************************************************************)
(* What a step does to the files and to the open run: it leaves both       *)
(* alone, cuts the open file, creates an empty one, starts a run, writes a *)
(* frame, finishes the open file, or is a kill.                            *)
(***************************************************************************)

SameRun ==
  \/ cur = NoRun /\ cur' = NoRun
  \/ /\ cur \in Run /\ cur' \in Run
     /\ cur'.path = cur.path /\ cur'.ring = cur.ring /\ cur'.index = cur.index
     /\ cur'.before = cur.before /\ cur'.bytes = cur.bytes

Quiet ==
  /\ SameRun /\ (wpc' = "rotating" => wpc = "rotating")
  /\ UNCHANGED <<partial, final, recorded>>

Cuts ==
  /\ cur \in Run /\ wpc' = "recv"
  /\ \E t \in BOOLEAN :
       partial' = [partial EXCEPT ![MemberPath(cur)] = [partial[MemberPath(cur)] EXCEPT !.torn = t]]
  /\ UNCHANGED <<cur, final, recorded>>

Creates ==
  /\ wpc = "recv" /\ UNCHANGED <<cur, final, recorded>>
  /\ \E n \in Member, g \in File :
       /\ partial[n] = Absent /\ g.pkts = <<>> /\ partial' = [partial EXCEPT ![n] = g]
       /\ wpc' # "recv" => wpc' = "rotating" /\ n = NextMember(cur)

Finishes == WriterFinishRotated \/ WriterFinishRun

LEMMA StepKinds ==
  ASSUME WriterInv, WriterInv', [Next]_vars
  PROVE  Quiet \/ Cuts \/ Creates \/ WriterStart \/ WriterPacket \/ Finishes \/ Crash
  <1>. USE DEF capVars, ctlVars, statVars, emitVars, fsVars
  <1>0. TypeOK /\ (cur = NoRun \/ cur \in Run) /\ (cur' = NoRun \/ cur' \in Run) /\ OpenFile /\ Rotating'
    BY DEF WriterInv, TypeOK
  <1>1. ASSUME UNCHANGED <<cur, partial, final, recorded>>, wpc' = wpc \/ wpc' # "rotating" PROVE Quiet
    BY <1>0, <1>1 DEF Quiet, SameRun
  <1>2. CASE UNCHANGED vars
    BY <1>1, <1>2 DEF vars
  <1>3. CASE Capture \/ Control \/ EmitBegin \/ EmitStatus
    BY <1>1, <1>3 DEF Capture, Control, CaptureFrame, OfferFrame, PollStats, CaptureEnds,
                      SwitchInterface, StartSend, StopSend, StartCheck, SetPaused, EmitBegin, EmitStatus
  <1>4. CASE Elapse
    <2>1. cur \in Run /\ cur' = [cur EXCEPT !.age = Min2(@ + 1, Threshold), !.fileAge = @ + 1]
      BY <1>0, <1>4 DEF Elapse
    <2>2. cur' \in Run
      BY <1>0, <1>4, <2>1, NoRunNotRun DEF Elapse, Run, NoRun
    <2>3. SameRun
      BY <2>1, <2>2 DEF SameRun, Run
    <2>. QED BY <1>4, <2>3 DEF Elapse, Quiet
  <1>5. CASE WriterStartRefused \/ WriterStop \/ WriterDiscard \/ WriterIdleTick
               \/ WriterTickStops \/ WriterTick
    BY <1>1, <1>5 DEF WriterStartRefused, WriterStop, WriterDiscard, WriterIdleTick,
                      WriterTickStops, WriterTick, AutostopReason
  <1>6. CASE WriterPacketFails \/ WriterStatsBlockFails
    <2>. DEFINE m == MemberPath(cur)
    <2>1. cur \in Run /\ wpc' = "recv" /\ UNCHANGED <<cur, final, recorded>>
      BY <1>0, <1>6 DEF WriterPacketFails, WriterStatsBlockFails, Receive
    <2>2. \E t \in BOOLEAN : partial' = [partial EXCEPT ![m] = [partial[m] EXCEPT !.torn = t]]
      <3>1. CASE WriterPacketFails
        <4>1. PICK cut \in BOOLEAN : partial' = [partial EXCEPT ![m].torn = @ \/ cut]
          BY <3>1 DEF WriterPacketFails
        <4>2. (partial[m].torn \/ cut) \in BOOLEAN
          OBVIOUS
        <4>. QED BY <4>1, <4>2
      <3>2. CASE WriterStatsBlockFails
        BY <3>2 DEF WriterStatsBlockFails
      <3>. QED BY <1>6, <3>1, <3>2
    <2>. QED BY <2>1, <2>2 DEF Cuts
  <1>7. CASE WriterStartFails
    <2>. DEFINE cmd == Head(queue)
                n == <<cmd.req.path, IF cmd.req.ring = "none" THEN 0 ELSE 1>>
                g == [NewFile(cmd.link) EXCEPT !.torn = TRUE]
    <2>1. cmd \in StartCmd
      BY <1>0, <1>7, ReceiveType DEF WriterStartFails
    <2>2. n \in Member /\ NewFile(cmd.link) \in File
      BY <2>1, CaptureFileAssumption, NewFileType DEF StartCmd, Request, Member
    <2>3. g \in File /\ g.pkts = <<>>
      BY <2>2, TornType DEF NewFile
    <2>4. /\ partial[n] = Absent /\ partial' = [partial EXCEPT ![n] = g]
          /\ wpc = "recv" /\ wpc' = "recv" /\ UNCHANGED <<cur, final, recorded>>
      BY <1>7 DEF WriterStartFails, Receive
    <2>. QED BY <2>2, <2>3, <2>4, Zenon DEF Creates
  <1>8. CASE WriterTickOpenFails \/ WriterTickRotates
    <2>. DEFINE n == NextMember(cur)
                g == IF WriterTickRotates THEN NewFile(cur.link) ELSE [NewFile(cur.link) EXCEPT !.torn = TRUE]
    <2>1. /\ cur \in Run /\ cur.index < MaxIndex /\ partial[n] = Absent
          /\ wpc = "recv" /\ UNCHANGED <<cur, final, recorded>>
      BY <1>0, <1>8 DEF WriterTickOpenFails, WriterTickRotates, Receive, NextIsFree
    <2>2. n \in Member /\ NewFile(cur.link) \in File
      BY <2>1, MemberType, NewFileType DEF Run
    <2>3. g \in File /\ g.pkts = <<>>
      BY <2>2, TornType DEF NewFile
    <2>4. CASE UNCHANGED partial
      <3>1. partial'[n] = Absent
        BY <2>1, <2>4
      <3>2. ~WriterTickRotates
        <4>1. WriterTickRotates => partial' = [partial EXCEPT ![n] = NewFile(cur.link)]
          BY DEF WriterTickRotates
        <4>2. WriterTickRotates => partial'[n] = NewFile(cur.link)
          BY <1>0, <2>2, <4>1 DEF TypeOK
        <4>. QED BY <2>2, <3>1, <4>2, AbsentNotFile
      <3>3. wpc' = wpc
        BY <1>8, <3>2 DEF WriterTickOpenFails
      <3>. QED BY <1>1, <2>1, <2>4, <3>3
    <2>5. CASE ~ UNCHANGED partial
      <3>1. partial' = [partial EXCEPT ![n] = g]
        BY <1>8, <2>5 DEF WriterTickOpenFails, WriterTickRotates
      <3>2. wpc' # "recv" => wpc' = "rotating"
        BY <1>8, <2>1 DEF WriterTickOpenFails, WriterTickRotates
      <3>. HIDE DEF g, n
      <3>3. \E k \in Member, f \in File :
              /\ partial[k] = Absent /\ f.pkts = <<>> /\ partial' = [partial EXCEPT ![k] = f]
              /\ wpc' # "recv" => wpc' = "rotating" /\ k = n
        BY <2>1, <2>2, <2>3, <3>1, <3>2, Zenon
      <3>. QED BY <2>1, <3>3 DEF Creates, n
    <2>. QED BY <2>4, <2>5
  <1>. QED BY <1>2, <1>3, <1>4, <1>5, <1>6, <1>7, <1>8 DEF Next, Writer, Finishes

-----------------------------------------------------------------------------
(***************************************************************************)
(* A run that stopped itself is on disk.                                   *)
(*                                                                         *)
(* The emitter holds a path while the writer thread goes on, so the        *)
(* argument is about any path ever told: its run is open, or has a file    *)
(* that is finished or left behind, and no step takes that away.           *)
(***************************************************************************)

OnDisk(p) == \E m \in Member : m[1] = p[1] /\ (final[m] # Absent \/ LeftBehind(m))

Begun(p) == OnDisk(p) \/ (cur # NoRun /\ cur.path = p[1])

\* finish_and_rename moves the open file or leaves it where it is.
LEMMA FinishMoves ==
  ASSUME WriterInv, Finishes
  PROVE  /\ cur \in Run /\ MemberPath(cur) \in Member /\ partial[MemberPath(cur)] \in File
         /\ \A m \in Member \ {MemberPath(cur)} : partial'[m] = partial[m] /\ final'[m] = final[m]
         /\ \/ final'[MemberPath(cur)] = partial[MemberPath(cur)] /\ partial'[MemberPath(cur)] = Absent
               /\ faults' = faults
            \/ final'[MemberPath(cur)] = final[MemberPath(cur)] /\ faults' = faults + 1
               /\ partial'[MemberPath(cur)] = partial[MemberPath(cur)]
  <1>1. cur \in Run /\ partial[MemberPath(cur)] \in File
    BY DEF Finishes, WriterInv, Busy, OpenFile, TypeOK, WriterFinishRotated, WriterFinishRun
  <1>2. MemberPath(cur) \in Member
    BY <1>1, MemberType
  <1>3. FinishAndRename(MemberPath(cur))
    BY DEF Finishes, WriterFinishRotated, WriterFinishRun
  <1>4. partial \in [Member -> File \cup {Absent}] /\ final \in [Member -> File \cup {Absent}]
    BY DEF WriterInv, TypeOK
  <1>. HIDE DEF Finishes
  <1>. QED BY <1>1, <1>2, <1>3, <1>4 DEF FinishAndRename, Fault, fsVars

\* A rotation goes on with the member it opened.
LEMMA RotatedMember ==
  ASSUME WriterInv, WriterFinishRotated
  PROVE  /\ cur \in Run /\ cur' # NoRun /\ cur'.path = cur.path /\ cur'.ring = cur.ring /\ cur.ring # "none"
         /\ cur'.index = cur.index + 1 /\ MemberPath(cur') = NextMember(cur) /\ wpc' = "recv"
         /\ NextMember(cur) \in Member /\ NextMember(cur) # MemberPath(cur)
         /\ cur'.before = cur.before + cur.bytes /\ cur'.bytes = 0
  <1>1. cur \in Run /\ cur.ring # "none" /\ cur.index < MaxIndex /\ wpc' = "recv"
    BY DEF WriterInv, Busy, Rotating, TypeOK, WriterFinishRotated
  <1>2. cur' = [cur EXCEPT !.index = @ + 1, !.before = @ + cur.bytes, !.bytes = 0, !.pkts = 0, !.fileAge = 0]
    BY DEF WriterFinishRotated
  <1>3. /\ cur'.path = cur.path /\ cur'.ring = cur.ring /\ cur'.index = cur.index + 1
        /\ cur'.before = cur.before + cur.bytes /\ cur'.bytes = 0
    BY <1>1, <1>2 DEF Run
  <1>4. cur' # NoRun
    BY <1>1, <1>3, CaptureFileAssumption DEF NoRun, Run
  <1>. QED BY <1>1, <1>3, <1>4, MemberType, NextMemberDiffers DEF MemberPath, NextMember

\* The first file of a run is new.
LEMMA StartedMember ==
  ASSUME WriterInv, WriterStart
  PROVE  /\ cur' = NewRun(Head(queue)) /\ cur' \in Run /\ cur' # NoRun /\ MemberPath(cur') \in Member
         /\ cur'.path = Head(queue).req.path /\ cur'.before = 0 /\ cur'.bytes = 0
         /\ partial[MemberPath(cur')] = Absent
         /\ partial' = [partial EXCEPT ![MemberPath(cur')] = NewFile(Head(queue).link)]
         /\ NewFile(Head(queue).link) \in File
         /\ wpc' = "recv" /\ final' = final /\ recorded' = {}
  <1>1. Head(queue) \in StartCmd
    BY ReceiveType DEF WriterInv, WriterStart
  <1>2. cur' = NewRun(Head(queue)) /\ cur' \in Run
    BY <1>1, NewRunType DEF WriterStart
  <1>3. NewFile(Head(queue).link) \in File
    BY <1>1, NewFileType DEF StartCmd
  <1>4. cur'.path = Head(queue).req.path /\ cur'.before = 0 /\ cur'.bytes = 0
    BY <1>2 DEF NewRun
  <1>. QED BY <1>2, <1>3, <1>4, NoRunNotRun, MemberType DEF WriterStart, Receive

LEMMA WrittenFile ==
  ASSUME WriterInv, WriterPacket
  PROVE  /\ cur \in Run /\ MemberPath(cur) \in Member /\ partial[MemberPath(cur)] \in File
         /\ Head(queue).pkt \in Frame /\ Head(queue).kind = "packet"
         /\ \A m \in Member \ {MemberPath(cur)} : partial'[m] = partial[m]
         /\ partial'[MemberPath(cur)] =
              [partial[MemberPath(cur)] EXCEPT !.pkts = Append(partial[MemberPath(cur)].pkts, Head(queue).pkt)]
         /\ cur' # NoRun /\ cur'.path = cur.path /\ cur'.ring = cur.ring /\ cur'.index = cur.index
         /\ MemberPath(cur') = MemberPath(cur)
         /\ cur'.before = cur.before /\ cur'.bytes = cur.bytes + Head(queue).pkt.size
         /\ wpc = "recv" /\ wpc' = "recv" /\ final' = final /\ recorded' = recorded \cup {Head(queue).pkt}
  <1>1. cur \in Run /\ partial[MemberPath(cur)] \in File /\ partial \in [Member -> File \cup {Absent}]
    BY DEF WriterInv, OpenFile, TypeOK, WriterPacket
  <1>2. MemberPath(cur) \in Member /\ Head(queue).pkt \in Frame /\ Head(queue).kind = "packet"
    BY <1>1, MemberType, ReceiveType DEF WriterInv, WriterPacket, Receive
  <1>3. /\ partial' = [partial EXCEPT ![MemberPath(cur)].pkts = Append(@, Head(queue).pkt)]
        /\ cur' = [cur EXCEPT !.pkts = @ + 1, !.bytes = @ + Head(queue).pkt.size]
        /\ wpc = "recv" /\ wpc' = "recv" /\ final' = final /\ recorded' = recorded \cup {Head(queue).pkt}
    BY DEF WriterPacket, Receive
  <1>4. /\ cur'.path = cur.path /\ cur'.ring = cur.ring /\ cur'.index = cur.index
        /\ cur'.before = cur.before /\ cur'.bytes = cur.bytes + Head(queue).pkt.size
    BY <1>1, <1>3 DEF Run
  <1>5. cur' # NoRun /\ MemberPath(cur') = MemberPath(cur)
    BY <1>1, <1>4, CaptureFileAssumption DEF MemberPath, NoRun, Run
  <1>. QED BY <1>1, <1>2, <1>3, <1>4, <1>5

\* No step takes back a finished file or one that was left behind, and a run that
\* is over, or gave way to one with another path, leaves one of them.
LEMMA DiskKept ==
  ASSUME WriterInv, WriterInv', [Next]_vars
  PROVE  /\ \A m \in Member : final[m] # Absent => final'[m] # Absent
         /\ \A m \in Member : LeftBehind(m) => final'[m] # Absent \/ LeftBehind(m)'
         /\ cur # NoRun /\ (cur' = NoRun \/ cur'.path # cur.path) =>
              \A m \in Member : m = MemberPath(cur) => final'[m] # Absent \/ LeftBehind(m)'
  <1>0. /\ partial \in [Member -> File \cup {Absent}] /\ final \in [Member -> File \cup {Absent}]
        /\ (cur = NoRun \/ cur \in Run) /\ (cur # NoRun => partial[MemberPath(cur)] \in File)
        /\ (cur \in Run => MemberPath(cur) \in Member)
    BY MemberType DEF WriterInv, TypeOK, OpenFile
  <1>1. CASE Quiet
    <2>1. /\ cur' = NoRun <=> cur = NoRun
          /\ cur # NoRun => cur'.path = cur.path /\ MemberPath(cur') = MemberPath(cur) /\ NextMember(cur') = NextMember(cur)
      BY <1>0, <1>1, NoRunNotRun DEF Quiet, SameRun, MemberPath, NextMember
    <2>. QED BY <1>1, <2>1 DEF Quiet, LeftBehind
  <1>2. CASE Cuts
    <2>1. \A m \in Member : partial[m] # Absent => partial'[m] # Absent
      <3>1. PICK t \in BOOLEAN :
              partial' = [partial EXCEPT ![MemberPath(cur)] = [partial[MemberPath(cur)] EXCEPT !.torn = t]]
        BY <1>2 DEF Cuts
      <3>2. [partial[MemberPath(cur)] EXCEPT !.torn = t] \in File
        BY <1>0, <1>2, NoRunNotRun DEF Cuts, File
      <3>. QED BY <1>0, <3>1, <3>2, AbsentNotFile
    <2>2. cur' = cur /\ final' = final /\ wpc' # "rotating"
      BY <1>2 DEF Cuts
    <2>. QED BY <2>1, <2>2 DEF LeftBehind
  <1>3. CASE Creates
    <2>1. PICK n \in Member, g \in File :
            /\ partial[n] = Absent /\ partial' = [partial EXCEPT ![n] = g]
            /\ wpc' # "recv" => wpc' = "rotating" /\ n = NextMember(cur)
      BY <1>3 DEF Creates
    <2>2. \A m \in Member : partial[m] # Absent => partial'[m] = partial[m] /\ m # n
      BY <1>0, <2>1
    <2>3. cur' = cur /\ final' = final /\ wpc = "recv"
      BY <1>3 DEF Creates
    <2>. QED BY <2>1, <2>2, <2>3 DEF LeftBehind
  <1>4. CASE WriterStart
    <2>1. \A m \in Member : partial[m] # Absent => partial'[m] = partial[m] /\ m # MemberPath(cur')
      BY <1>0, <1>4, StartedMember
    <2>2. final' = final /\ wpc' = "recv"
      BY <1>4, StartedMember
    <2>3. \A m \in Member : partial[m] # Absent => LeftBehind(m)'
      BY <2>1, <2>2 DEF LeftBehind
    <2>. QED BY <1>0, <2>2, <2>3, AbsentNotFile DEF LeftBehind
  <1>5. CASE WriterPacket
    <2>1. \A m \in Member \ {MemberPath(cur)} : partial'[m] = partial[m]
      BY <1>5, WrittenFile
    <2>2. /\ cur # NoRun /\ cur' # NoRun /\ cur'.path = cur.path /\ MemberPath(cur') = MemberPath(cur)
          /\ wpc' = "recv" /\ final' = final
      BY <1>5, WrittenFile, NoRunNotRun
    <2>. QED BY <2>1, <2>2 DEF LeftBehind
  <1>6. CASE WriterFinishRotated
    <2>1. /\ \A m \in Member \ {MemberPath(cur)} : partial'[m] = partial[m] /\ final'[m] = final[m]
          /\ final'[MemberPath(cur)] \in {partial[MemberPath(cur)], final[MemberPath(cur)]}
          /\ partial[MemberPath(cur)] \in File
      BY <1>6, FinishMoves DEF Finishes
    <2>2. /\ cur # NoRun /\ cur' # NoRun /\ cur'.path = cur.path /\ MemberPath(cur') = NextMember(cur)
          /\ wpc = "rotating" /\ wpc' = "recv"
      BY <1>6, RotatedMember, NoRunNotRun DEF WriterFinishRotated
    <2>. QED BY <2>1, <2>2, AbsentNotFile DEF LeftBehind
  <1>7. CASE WriterFinishRun
    <2>1. /\ \A m \in Member \ {MemberPath(cur)} : partial'[m] = partial[m] /\ final'[m] = final[m]
          /\ \/ final'[MemberPath(cur)] = partial[MemberPath(cur)]
             \/ final'[MemberPath(cur)] = final[MemberPath(cur)] /\ partial'[MemberPath(cur)] = partial[MemberPath(cur)]
          /\ partial[MemberPath(cur)] \in File
      BY <1>7, FinishMoves DEF Finishes
    <2>2. cur' = NoRun
      BY <1>7 DEF WriterFinishRun
    <2>. QED BY <2>1, <2>2, AbsentNotFile DEF LeftBehind
  <1>8. CASE Crash
    <2>1. cur' = NoRun /\ final' = final
      BY <1>8 DEF Crash
    <2>2. \A m \in Member : partial[m] # Absent => partial'[m] # Absent
      <3>1. CASE UNCHANGED partial
        BY <3>1
      <3>2. CASE cur # NoRun /\ partial' = [partial EXCEPT ![MemberPath(cur)].torn = TRUE]
        <4>1. [partial[MemberPath(cur)] EXCEPT !.torn = TRUE] \in File
          BY <1>0, <3>2, TornType
        <4>. QED BY <1>0, <3>2, <4>1, AbsentNotFile
      <3>. QED BY <1>8, <3>1, <3>2 DEF Crash
    <2>3. \A m \in Member : partial[m] # Absent => LeftBehind(m)'
      BY <2>1, <2>2 DEF LeftBehind
    <2>. QED BY <1>0, <2>1, <2>3, AbsentNotFile DEF LeftBehind
  <1>. QED BY <1>1, <1>2, <1>3, <1>4, <1>5, <1>6, <1>7, <1>8, StepKinds DEF Finishes

\* What becomes of the shared status.
LEMMA StatusSteps ==
  ASSUME WriterInv, WriterInv', [Next]_vars
  PROVE  /\ faults' = 0 => faults = 0
         /\ \/ /\ status'.path = status.path
               /\ status'.reason # "none" => status'.reason = status.reason /\ (cur = NoRun => cur' = NoRun)
            \/ status'.reason = "none" /\ cur' # NoRun /\ status'.path[1] = cur'.path
            \/ WriterFinishRun /\ status'.path = MemberPath(cur)
            \/ status'.reason = "none" /\ status'.path = NoPath
  <1>. USE DEF capVars, ctlVars, statVars, emitVars, fsVars
  <1>0. /\ (cur = NoRun \/ cur \in Run) /\ (cur' = NoRun \/ cur' \in Run) /\ status \in Status /\ status' \in Status
        /\ faults \in Nat
    BY CaptureFileAssumption DEF WriterInv, TypeOK
  <1>1. ASSUME status' = status, cur = NoRun => cur' = NoRun, faults' = faults \/ faults' = faults + 1
        PROVE  /\ faults' = 0 => faults = 0
               /\ status'.path = status.path
               /\ status'.reason # "none" => status'.reason = status.reason /\ (cur = NoRun => cur' = NoRun)
    BY <1>0, <1>1
  <1>2. CASE UNCHANGED vars \/ Capture \/ Control \/ EmitBegin \/ EmitStatus \/ Elapse
    BY <1>1, <1>2 DEF vars, Capture, Control, CaptureFrame, OfferFrame, PollStats, CaptureEnds,
                      SwitchInterface, StartSend, StopSend, StartCheck, SetPaused, EmitBegin, EmitStatus, Elapse
  <1>3. CASE WriterStartRefused \/ WriterDiscard \/ WriterIdleTick \/ WriterTickStops \/ WriterTickRotates
    BY <1>1, <1>3 DEF WriterStartRefused, WriterDiscard, WriterIdleTick, WriterTickStops, WriterTickRotates
  <1>4. CASE WriterStartFails \/ WriterPacketFails \/ WriterStatsBlockFails
    BY <1>1, <1>4 DEF WriterStartFails, WriterPacketFails, WriterStatsBlockFails, Fault
  <1>5. CASE WriterStop
    <2>1. status' = [status EXCEPT !.reason = "none"] /\ cur' = cur /\ faults' = faults
      BY <1>5 DEF WriterStop
    <2>. QED BY <1>0, <2>1 DEF Status
  <1>6. CASE WriterPacket
    <2>1. status' = [status EXCEPT !.bytes = cur.before + cur.bytes + Head(queue).pkt.size] /\ cur # NoRun
          /\ faults' = faults
      BY <1>6 DEF WriterPacket
    <2>. QED BY <1>0, <2>1 DEF Status
  <1>7. CASE WriterStart
    <2>1. /\ status' = [NoStatus EXCEPT !.path = <<Head(queue).req.path, 0>>] /\ faults' = faults
          /\ cur' # NoRun /\ cur'.path = Head(queue).req.path
      BY <1>7, StartedMember DEF WriterStart
    <2>. QED BY <2>1 DEF NoStatus
  <1>8. CASE WriterTick \/ WriterTickOpenFails
    <2>1. /\ status' = TickStatus(cur) /\ cur' = cur /\ cur # NoRun
          /\ faults' = faults \/ faults' = faults + 1
      BY <1>8 DEF WriterTick, WriterTickOpenFails, Fault
    <2>. QED BY <1>0, <2>1 DEF TickStatus, MemberPath
  <1>9. CASE WriterFinishRotated
    <2>1. status' = TickStatus(cur') /\ cur' # NoRun
      BY <1>9, RotatedMember DEF WriterFinishRotated
    <2>2. faults' = faults \/ faults' = faults + 1
      BY <1>9, FinishMoves DEF Finishes
    <2>. QED BY <1>0, <2>1, <2>2 DEF TickStatus, MemberPath
  <1>10. CASE WriterFinishRun
    <2>1. faults' = faults \/ faults' = faults + 1
      BY <1>10, FinishMoves DEF Finishes
    <2>2. cur' = NoRun
      BY <1>10 DEF WriterFinishRun
    <2>3. CASE wpc = "stopping"
      BY <1>1, <1>10, <2>1, <2>2, <2>3 DEF WriterFinishRun
    <2>4. CASE wpc # "stopping"
      <3>1. status' = [path |-> MemberPath(cur), bytes |-> cur.before + cur.bytes, ring |-> 0, reason |-> wpc]
        BY <1>10, <2>4 DEF WriterFinishRun
      <3>2. status'.path = MemberPath(cur)
        BY <3>1
      <3>. QED BY <1>0, <1>10, <2>1, <3>2
    <2>. QED BY <2>3, <2>4
  <1>11. CASE Crash
    <2>1. status' = NoStatus /\ faults' = faults
      BY <1>11 DEF Crash
    <2>. QED BY <2>1 DEF NoStatus
  <1>. QED BY <1>2, <1>3, <1>4, <1>5, <1>6, <1>7, <1>8, <1>9, <1>10, <1>11 DEF Next, Writer

\* What the emitter has read, and what it told.
LEMMA EmitterSteps ==
  ASSUME WriterInv, [Next]_vars
  PROVE  /\ \/ emitter' = emitter
            \/ emitter' = Idle
            \/ emitter'.status = status /\ status' = status
         /\ \/ emitted' = emitted
            \/ emitted'.status = NoStatus
            \/ /\ emitter # Idle /\ status' = status /\ UNCHANGED <<cur, wpc, partial, final>>
               /\ emitted'.status.path \in {emitter.status.path, status.path}
               /\ emitted'.status.reason = status.reason
  <1>. USE DEF capVars, ctlVars, statVars, emitVars, fsVars
  <1>1. CASE EmitBegin
    BY <1>1 DEF EmitBegin
  <1>2. CASE EmitStatus
    <2>1. PICK k \in 0..3 :
            LET early(i) == IF i <= k THEN emitter.status ELSE status
            IN emitted' = [n |-> emitted.n + 1, writing |-> emitter.writing,
                           status |-> [path |-> early(1).path, bytes |-> early(2).bytes,
                                       ring |-> early(3).ring, reason |-> early(4).reason]]
      BY <1>2 DEF EmitStatus
    <2>2. emitted'.status.path \in {emitter.status.path, status.path} /\ emitted'.status.reason = status.reason
      BY <2>1
    <2>. QED BY <1>2, <2>2 DEF EmitStatus
  <1>3. CASE Crash
    BY <1>3 DEF Crash
  <1>4. CASE UNCHANGED vars \/ Capture \/ Control \/ Elapse
    BY <1>4 DEF vars, Capture, Control, CaptureFrame, OfferFrame, PollStats, CaptureEnds,
                SwitchInterface, StartSend, StopSend, StartCheck, SetPaused, Elapse
  <1>5. CASE Writer
    <2>1. WriterFrame
      BY <1>5 DEF Writer, Receive, WriterStart, WriterStartRefused, WriterStartFails, WriterStop, WriterFinishRun,
                  WriterDiscard, WriterPacket, WriterPacketFails, WriterStatsBlockFails, WriterIdleTick,
                  WriterTick, WriterTickStops, WriterTickOpenFails, WriterTickRotates, WriterFinishRotated
    <2>. QED BY <2>1 DEF WriterFrame
  <1>. QED BY <1>1, <1>2, <1>3, <1>4, <1>5 DEF Next

StopInv ==
  /\ WriterInv
  /\ status.reason # "none" =>
       cur = NoRun /\ status.path \in Member /\ (faults = 0 => final[status.path] # Absent)
  /\ status.path # NoPath => Begun(status.path)
  /\ emitter # Idle /\ emitter.status.path # NoPath => Begun(emitter.status.path)
  /\ emitted.status.reason # "none" /\ emitted.status.path # NoPath => OnDisk(emitted.status.path)

\* What is begun, or on disk, stays so.
LEMMA BegunKept ==
  ASSUME WriterInv, WriterInv', [Next]_vars, NEW p
  PROVE  (OnDisk(p) => OnDisk(p)') /\ (Begun(p) => Begun(p)')
  <1>1. OnDisk(p) => OnDisk(p)'
    BY DiskKept DEF OnDisk
  <1>2. ASSUME cur # NoRun, cur.path = p[1] PROVE Begun(p)'
    <2>1. CASE cur' # NoRun /\ cur'.path = cur.path
      BY <1>2, <2>1 DEF Begun
    <2>2. CASE cur' = NoRun \/ cur'.path # cur.path
      <3>1. PICK m \in Member : m = MemberPath(cur)
        BY <1>2, MemberType DEF WriterInv, TypeOK
      <3>2. m[1] = p[1] /\ (final'[m] # Absent \/ LeftBehind(m)')
        BY <1>2, <2>2, <3>1, DiskKept DEF MemberPath
      <3>. QED BY <3>2 DEF Begun, OnDisk
    <2>. QED BY <2>1, <2>2
  <1>. QED BY <1>1, <1>2 DEF Begun

\* A run that stopped itself is complete under its final name before anyone is
\* told, for any number of runs, rotations, kills and repeated starts; an event
\* that mixes two runs names one that is on disk too.
THEOREM SelfStopOnDisk == Spec => []SelfStopIsOnDisk
  <1>1. Init => StopInv
    <2>. SUFFICES ASSUME Init PROVE StopInv
      OBVIOUS
    <2>1. status.reason = "none" /\ status.path = NoPath /\ emitter = Idle /\ emitted.status.reason = "none"
      BY DEF Init, NoStatus
    <2>. QED BY <2>1, InitInv DEF StopInv
  <1>2. ASSUME StopInv, [Next]_vars PROVE StopInv'
    <2>0. WriterInv /\ WriterInv'
      BY <1>2, NextInv DEF StopInv
    <2>1. status'.path # NoPath => Begun(status.path)'
      <3>1. CASE status'.path = status.path
        <4>1. PICK p : p = status.path
          OBVIOUS
        <4>. QED BY <1>2, <2>0, <3>1, <4>1, BegunKept DEF StopInv, Begun, OnDisk
      <3>2. CASE cur' # NoRun /\ status'.path[1] = cur'.path
        BY <3>2 DEF Begun
      <3>3. CASE WriterFinishRun /\ status'.path = MemberPath(cur)
        <4>1. PICK m \in Member : m = MemberPath(cur) /\ cur # NoRun
          BY <2>0, <3>3, FinishMoves, NoRunNotRun DEF Finishes
        <4>2. final'[m] # Absent \/ LeftBehind(m)'
          BY <1>2, <2>0, <3>3, <4>1, DiskKept DEF WriterFinishRun
        <4>. QED BY <3>3, <4>1, <4>2 DEF Begun, OnDisk
      <3>. QED BY <1>2, <2>0, <3>1, <3>2, <3>3, StatusSteps
    <2>2. status'.reason # "none" =>
            cur' = NoRun /\ status'.path \in Member /\ (faults' = 0 => final'[status'.path] # Absent)
      <3>. SUFFICES ASSUME status'.reason # "none"
                    PROVE  cur' = NoRun /\ status'.path \in Member /\ (faults' = 0 => final'[status'.path] # Absent)
        OBVIOUS
      <3>0. faults' = 0 => faults = 0
        BY <1>2, <2>0, StatusSteps
      <3>1. CASE status'.path = status.path /\ status'.reason = status.reason /\ (cur = NoRun => cur' = NoRun)
        BY <1>2, <2>0, <3>0, <3>1, DiskKept DEF StopInv
      <3>2. CASE WriterFinishRun /\ status'.path = MemberPath(cur)
        <4>1. /\ MemberPath(cur) \in Member /\ partial[MemberPath(cur)] \in File
              /\ \/ final'[MemberPath(cur)] = partial[MemberPath(cur)]
                 \/ faults' = faults + 1
          BY <2>0, <3>2, FinishMoves DEF Finishes
        <4>2. faults' = 0 => final'[MemberPath(cur)] # Absent
          <5>1. faults \in Nat
            BY <2>0, CaptureFileAssumption DEF WriterInv, TypeOK
          <5>. QED BY <4>1, <5>1, AbsentNotFile
        <4>. QED BY <3>2, <4>1, <4>2 DEF WriterFinishRun
      <3>. QED BY <1>2, <2>0, <3>1, <3>2, StatusSteps
    <2>3. emitter' # Idle /\ emitter'.status.path # NoPath => Begun(emitter.status.path)'
      <3>1. CASE emitter' = emitter
        <4>1. PICK p : p = emitter.status.path
          OBVIOUS
        <4>. QED BY <1>2, <2>0, <3>1, <4>1, BegunKept DEF StopInv, Begun, OnDisk
      <3>2. CASE emitter'.status = status /\ status' = status
        BY <2>1, <3>2 DEF Begun, OnDisk
      <3>. QED BY <1>2, <2>0, <3>1, <3>2, EmitterSteps
    <2>4. emitted'.status.reason # "none" /\ emitted'.status.path # NoPath => OnDisk(emitted.status.path)'
      <3>1. CASE emitted' = emitted
        <4>1. PICK p : p = emitted.status.path
          OBVIOUS
        <4>. QED BY <1>2, <2>0, <3>1, <4>1, BegunKept DEF StopInv, OnDisk
      <3>2. CASE /\ emitter # Idle /\ status' = status /\ UNCHANGED <<cur, wpc, partial, final>>
                 /\ emitted'.status.path \in {emitter.status.path, status.path}
                 /\ emitted'.status.reason = status.reason
        <4>1. PICK p : p = emitted'.status.path
          OBVIOUS
        <4>2. SUFFICES ASSUME status.reason # "none", p # NoPath PROVE OnDisk(p)'
          BY <3>2, <4>1 DEF OnDisk
        <4>3. cur = NoRun /\ Begun(p)
          BY <1>2, <3>2, <4>1, <4>2 DEF StopInv
        <4>. QED BY <1>2, <2>0, <4>3, BegunKept DEF Begun
      <3>3. CASE emitted'.status = NoStatus
        BY <3>3 DEF NoStatus
      <3>. QED BY <1>2, <2>0, <3>1, <3>2, <3>3, EmitterSteps
    <2>. QED BY <2>0, <2>1, <2>2, <2>3, <2>4 DEF StopInv
  <1>3. StopInv => SelfStopIsOnDisk
    BY DEF StopInv, SelfStopIsOnDisk, OnDisk
  <1>. QED BY <1>1, <1>2, <1>3, PTL DEF Spec

-----------------------------------------------------------------------------
(***************************************************************************)
(* Every frame of a run is in one file of it, and counted once.            *)
(*                                                                         *)
(* Both rest on frames being new when they are written: whatever is in the *)
(* channel or in the capture thread's hand is newer than all that was ever *)
(* written, on whichever disk file it ended up, cut or not.                *)
(***************************************************************************)

\* No step disturbs the order of what is in flight, nor what is older than it.
LEMMA FlightSteps ==
  ASSUME WriterInv, WriterInv', QueueOrder(queue, frames, InHand), [Next]_vars
  PROVE  /\ QueueOrder(queue', frames', InHand')
         /\ \A f \in File : Sound(f, queue, frames, InHand) => Sound(f, queue', frames', InHand')
  <1>. USE DEF capVars, ctlVars, statVars, emitVars, fsVars
  <1>0. TypeOK /\ queue \in Seq(Cmd) /\ frames \in Nat /\ InHand \in SUBSET Nat
    BY HandType, CaptureFileAssumption DEF WriterInv, TypeOK
  <1>1. ASSUME queue' = queue, frames' = frames, InHand' = InHand
        PROVE  /\ QueueOrder(queue', frames', InHand')
               /\ \A f \in File : Sound(f, queue, frames, InHand) => Sound(f, queue', frames', InHand')
    BY <1>1
  <1>2. ASSUME NEW kind, Receive(kind)
        PROVE  /\ QueueOrder(queue', frames', InHand')
               /\ \A f \in File : Sound(f, queue, frames, InHand) => Sound(f, queue', frames', InHand')
    <2>1. queue # <<>> /\ queue' = Tail(queue) /\ frames' = frames /\ InHand' = InHand
      BY <1>2 DEF Receive, WriterFrame, InHand
    <2>. QED BY <1>0, <2>1, TailOrder
  <1>3. ASSUME NEW cmd \in Cmd, cmd.kind # "packet", queue' = Append(queue, cmd), UNCHANGED capVars
        PROVE  /\ QueueOrder(queue', frames', InHand')
               /\ \A f \in File : Sound(f, queue, frames, InHand) => Sound(f, queue', frames', InHand')
    <2>1. InHand' = InHand /\ frames' = frames
      BY <1>3 DEF InHand
    <2>. QED BY <1>0, <1>3, <2>1, AppendOrder
  <1>4. CASE UNCHANGED vars \/ Elapse \/ EmitBegin \/ EmitStatus
    <2>1. queue' = queue /\ frames' = frames /\ InHand' = InHand
      BY <1>4 DEF vars, Elapse, EmitBegin, EmitStatus, InHand
    <2>. QED BY <1>1, <2>1
  <1>5. CASE Capture
    <2>1. CASE CaptureFrame
      <3>1. InHand = {} /\ frames' = frames + 1 /\ InHand' \in {{}, {frames + 1}} /\ queue' = queue
        BY <2>1 DEF CaptureFrame, InHand
      <3>. QED BY <1>0, <3>1, CaptureOrder
    <2>2. CASE OfferFrame
      <3>1. /\ InHand = {frame.id} /\ frames' = frames /\ InHand' = {} /\ frame \in Frame
            /\ queue' \in {queue, Append(queue, [kind |-> "packet", pkt |-> frame])}
        BY <1>0, <2>2 DEF OfferFrame, InHand, TypeOK
      <3>. QED BY <1>0, <3>1, OfferOrder
    <2>3. CASE PollStats
      <3>1. [kind |-> "stats"] \in Cmd
        BY DEF Cmd
      <3>. QED BY <1>3, <2>3, <3>1 DEF PollStats
    <2>4. CASE CaptureEnds \/ \E l \in Links : SwitchInterface(l)
      <3>1. queue' = queue /\ frames' = frames /\ InHand' = InHand
        BY <2>4 DEF CaptureEnds, SwitchInterface, InHand
      <3>. QED BY <1>1, <3>1
    <2>. QED BY <1>5, <2>1, <2>2, <2>3, <2>4 DEF Capture
  <1>6. CASE Control
    <2>1. ASSUME NEW c \in Clients, StartSend(c)
          PROVE  ctl[c] \in Cmd /\ ctl[c].kind # "packet" /\ queue' = Append(queue, ctl[c]) /\ UNCHANGED capVars
      <3>1. ctl[c] \in StartCmd
        BY <1>0, <2>1 DEF TypeOK, StartSend
      <3>. QED BY <2>1, <3>1 DEF Cmd, StartCmd, StartSend
    <2>2. [kind |-> "stop"] \in Cmd
      BY DEF Cmd
    <2>3. CASE SetPaused \/ \E c \in Clients, req \in Request : StartCheck(c, req)
      <3>1. queue' = queue /\ frames' = frames /\ InHand' = InHand
        BY <2>3 DEF SetPaused, StartCheck, InHand
      <3>. QED BY <1>1, <3>1
    <2>4. CASE \E c \in Clients : StopSend(c)
      BY <1>3, <2>2, <2>4 DEF StopSend
    <2>5. CASE \E c \in Clients : StartSend(c)
      <3>1. PICK c \in Clients : StartSend(c)
        BY <2>5
      <3>. QED BY <1>3, <2>1, <3>1
    <2>. QED BY <1>6, <2>3, <2>4, <2>5 DEF Control
  <1>7. CASE Finishes \/ WriterStatsBlockFails
    <2>1. queue' = queue /\ frames' = frames /\ InHand' = InHand
      BY <1>7 DEF Finishes, WriterFinishRotated, WriterFinishRun, WriterStatsBlockFails, WriterFrame, InHand
    <2>. QED BY <1>1, <2>1
  <1>8. CASE Crash
    <2>1. queue' = <<>> /\ InHand' = {} /\ frames' = frames
      BY <1>8 DEF Crash, InHand
    <2>2. InFlight(queue') = {}
      BY <2>1 DEF InFlight
    <2>. QED BY <2>1, <2>2 DEF QueueOrder, Sound
  <1>9. CASE WriterStart \/ WriterStartRefused \/ WriterStartFails \/ WriterStop \/ WriterDiscard
               \/ WriterPacket \/ WriterPacketFails \/ WriterIdleTick \/ WriterTick \/ WriterTickStops
               \/ WriterTickOpenFails \/ WriterTickRotates
    BY <1>2, <1>9 DEF WriterStart, WriterStartRefused, WriterStartFails, WriterStop, WriterDiscard,
                      WriterPacket, WriterPacketFails, WriterIdleTick, WriterTick, WriterTickStops,
                      WriterTickOpenFails, WriterTickRotates
  <1>. QED BY <1>4, <1>5, <1>6, <1>7, <1>8, <1>9 DEF Next, Writer, Finishes

\* A frame as the only one of a file, to speak of its place in the order.
Alone(f) == [link |-> f.link, pkts |-> <<f>>, torn |-> FALSE]

Older(f, q, n, h) == Sound(Alone(f), q, n, h)

LEMMA OlderMeans ==
  ASSUME NEW f \in Frame, NEW q, NEW n, NEW h
  PROVE  /\ Alone(f) \in File
         /\ Older(f, q, n, h) <=>
              f.id <= n /\ (\A x \in h : f.id < x) /\ \A j \in InFlight(q) : f.id < q[j].pkt.id
  <1>1. Alone(f) \in File
    BY DEF Alone, File, Frame
  <1>2. Alone(f).pkts = <<f>> /\ Alone(f).torn = FALSE /\ Len(<<f>>) = 1 /\ <<f>>[1] = f
    BY DEF Alone
  <1>3. Ordered(Alone(f))
    BY <1>2 DEF Ordered
  <1>4. \A i \in 1..Len(Alone(f).pkts) : i = 1 /\ Alone(f).pkts[i] = f
    BY <1>2
  <1>5. 1 \in 1..Len(Alone(f).pkts)
    BY <1>2
  <1>. QED BY <1>1, <1>2, <1>3, <1>4, <1>5 DEF Older, Sound

\* The frame was written in this run, or is in a file on disk.
Past(f) == f \in recorded \/ \E m \in Member : Holds(partial[m], f) \/ Holds(final[m], f)

PastIsOlder == \A f \in Frame : Past(f) => Older(f, queue, frames, InHand)

LEMMA HoldsFacts ==
  ASSUME NEW f
  PROVE  /\ ~Holds(Absent, f)
         /\ \A g \in File : g.pkts = <<>> => ~Holds(g, f)
         /\ \A g \in File, t \in BOOLEAN : Holds([g EXCEPT !.torn = t], f) <=> Holds(g, f)
         /\ \A g \in File, p \in Frame :
              Holds([g EXCEPT !.pkts = Append(g.pkts, p)], f) <=> Holds(g, f) \/ f = p
  <1>1. \A g \in File : g.pkts = <<>> => ~Holds(g, f)
    BY DEF Holds
  <1>2. ASSUME NEW g \in File, NEW t \in BOOLEAN PROVE Holds([g EXCEPT !.torn = t], f) <=> Holds(g, f)
    <2>1. [g EXCEPT !.torn = t] \in File /\ [g EXCEPT !.torn = t].pkts = g.pkts
      BY DEF File
    <2>. QED BY <2>1, AbsentNotFile DEF Holds
  <1>3. ASSUME NEW g \in File, NEW p \in Frame
        PROVE  Holds([g EXCEPT !.pkts = Append(g.pkts, p)], f) <=> Holds(g, f) \/ f = p
    <2>. DEFINE h == [g EXCEPT !.pkts = Append(g.pkts, p)]
    <2>1. g.pkts \in Seq(Frame)
      BY DEF File
    <2>2. h \in File /\ h.pkts = Append(g.pkts, p)
      BY <2>1 DEF File
    <2>3. /\ Len(h.pkts) = Len(g.pkts) + 1 /\ Len(g.pkts) \in Nat
          /\ \A i \in 1..Len(g.pkts) : h.pkts[i] = g.pkts[i]
          /\ h.pkts[Len(g.pkts) + 1] = p
      BY <2>1, <2>2
    <2>. HIDE DEF h
    <2>4. \A i \in 1..Len(h.pkts) : i \in 1..Len(g.pkts) \/ i = Len(g.pkts) + 1
      BY <2>3
    <2>5. \A i \in 1..Len(g.pkts) : i \in 1..Len(h.pkts)
      BY <2>3
    <2>6. Len(g.pkts) + 1 \in 1..Len(h.pkts)
      BY <2>3
    <2>7. Holds(h, f) <=> Holds(g, f) \/ f = p
      BY <2>2, <2>3, <2>4, <2>5, <2>6, AbsentNotFile DEF Holds
    <2>. QED BY <2>7 DEF h
  <1>. QED BY <1>1, <1>2, <1>3 DEF Holds

\* Where a frame is: in the .partial of m and nowhere else, or in its final file.
AtPartial(f, m) == \A k \in Member : (Holds(partial[k], f) <=> k = m) /\ ~Holds(final[k], f)

AtFinal(f, m) == \A k \in Member : (Holds(final[k], f) <=> k = m) /\ ~Holds(partial[k], f)

Placed(f) ==
  \E m \in Members : m \in Member /\ (AtPartial(f, m) \/ (AtFinal(f, m) /\ m # MemberPath(cur)))

FrameInv ==
  /\ WriterInv /\ QueueOrder(queue, frames, InHand) /\ PastIsOlder
  /\ cur # NoRun => \A f \in recorded : Placed(f)

\* A frame is somewhere on disk after a step only if it was before, or is written.
LEMMA HoldsSteps ==
  ASSUME WriterInv, WriterInv', [Next]_vars, ~Finishes, NEW f, NEW m \in Member
  PROVE  /\ Holds(final'[m], f) <=> Holds(final[m], f)
         /\ Holds(partial'[m], f) <=>
              Holds(partial[m], f) \/ (WriterPacket /\ f = Head(queue).pkt /\ m = MemberPath(cur))
  <1>0. /\ partial \in [Member -> File \cup {Absent}]
        /\ (cur # NoRun => cur \in Run /\ partial[MemberPath(cur)] \in File)
        /\ (cur \in Run => MemberPath(cur) \in Member /\ cur # NoRun)
    BY MemberType, NoRunNotRun DEF WriterInv, TypeOK, OpenFile
  <1>1. CASE Quiet /\ ~WriterPacket
    BY <1>1 DEF Quiet
  <1>2. CASE Cuts /\ ~WriterPacket
    <2>1. PICK t \in BOOLEAN :
            partial' = [partial EXCEPT ![MemberPath(cur)] = [partial[MemberPath(cur)] EXCEPT !.torn = t]]
      BY <1>2 DEF Cuts
    <2>2. Holds([partial[MemberPath(cur)] EXCEPT !.torn = t], f) <=> Holds(partial[MemberPath(cur)], f)
      BY <1>0, <1>2, HoldsFacts DEF Cuts
    <2>3. final' = final
      BY <1>2 DEF Cuts
    <2>. QED BY <1>0, <1>2, <2>1, <2>2, <2>3
  <1>3. CASE Creates /\ ~WriterPacket
    <2>1. PICK n \in Member, g \in File : partial[n] = Absent /\ g.pkts = <<>> /\ partial' = [partial EXCEPT ![n] = g]
      BY <1>3 DEF Creates
    <2>2. ~Holds(partial[n], f) /\ ~Holds(g, f)
      BY <2>1, HoldsFacts
    <2>3. final' = final
      BY <1>3 DEF Creates
    <2>. QED BY <1>0, <1>3, <2>1, <2>2, <2>3
  <1>4. CASE WriterStart
    <2>1. PICK n \in Member, g \in File : partial[n] = Absent /\ g.pkts = <<>> /\ partial' = [partial EXCEPT ![n] = g]
      BY <1>4, StartedMember DEF NewFile
    <2>2. ~Holds(partial[n], f) /\ ~Holds(g, f)
      BY <2>1, HoldsFacts
    <2>3. final' = final /\ ~WriterPacket
      BY <1>4 DEF WriterStart, WriterPacket, Receive
    <2>. QED BY <1>0, <2>1, <2>2, <2>3
  <1>5. CASE WriterPacket
    <2>1. /\ partial[MemberPath(cur)] \in File /\ Head(queue).pkt \in Frame /\ final' = final
          /\ m # MemberPath(cur) => partial'[m] = partial[m]
          /\ partial'[MemberPath(cur)] =
               [partial[MemberPath(cur)] EXCEPT !.pkts = Append(partial[MemberPath(cur)].pkts, Head(queue).pkt)]
      BY <1>5, WrittenFile
    <2>. DEFINE g == partial[MemberPath(cur)]
                p == Head(queue).pkt
    <2>2. g \in File /\ p \in Frame
      BY <2>1
    <2>. HIDE DEF g, p
    <2>3. Holds([g EXCEPT !.pkts = Append(g.pkts, p)], f) <=> Holds(g, f) \/ f = p
      BY <2>2, HoldsFacts, Zenon
    <2>4. Holds(partial'[MemberPath(cur)], f) <=> Holds(partial[MemberPath(cur)], f) \/ f = Head(queue).pkt
      BY <2>1, <2>3, Zenon DEF g, p
    <2>. QED BY <1>5, <2>1, <2>4
  <1>6. CASE Crash /\ ~WriterPacket
    <2>1. CASE UNCHANGED partial
      BY <1>6, <2>1 DEF Crash
    <2>2. CASE cur # NoRun /\ partial' = [partial EXCEPT ![MemberPath(cur)].torn = TRUE]
      <3>1. Holds([partial[MemberPath(cur)] EXCEPT !.torn = TRUE], f) <=> Holds(partial[MemberPath(cur)], f)
        BY <1>0, <2>2, HoldsFacts
      <3>2. final' = final
        BY <1>6 DEF Crash
      <3>. QED BY <1>0, <1>6, <2>2, <3>1, <3>2
    <2>. QED BY <1>6, <2>1, <2>2 DEF Crash
  <1>. QED BY <1>1, <1>2, <1>3, <1>4, <1>5, <1>6, StepKinds

\* A finished file holds what the open one did.
LEMMA HoldsFinished ==
  ASSUME WriterInv, Finishes, NEW f
  PROVE  /\ \A m \in Member \ {MemberPath(cur)} :
              (Holds(partial'[m], f) <=> Holds(partial[m], f)) /\ (Holds(final'[m], f) <=> Holds(final[m], f))
         /\ \/ /\ Holds(final'[MemberPath(cur)], f) <=> Holds(partial[MemberPath(cur)], f)
               /\ ~Holds(partial'[MemberPath(cur)], f)
            \/ /\ Holds(final'[MemberPath(cur)], f) <=> Holds(final[MemberPath(cur)], f)
               /\ Holds(partial'[MemberPath(cur)], f) <=> Holds(partial[MemberPath(cur)], f)
  <1>. HIDE DEF Finishes
  <1>1. ~Holds(Absent, f)
    BY HoldsFacts
  <1>2. \A m \in Member \ {MemberPath(cur)} : partial'[m] = partial[m] /\ final'[m] = final[m]
    BY FinishMoves
  <1>3. \A m \in Member \ {MemberPath(cur)} :
          (Holds(partial'[m], f) <=> Holds(partial[m], f)) /\ (Holds(final'[m], f) <=> Holds(final[m], f))
    BY <1>2, Zenon
  <1>4. \/ final'[MemberPath(cur)] = partial[MemberPath(cur)] /\ partial'[MemberPath(cur)] = Absent
        \/ /\ final'[MemberPath(cur)] = final[MemberPath(cur)]
           /\ partial'[MemberPath(cur)] = partial[MemberPath(cur)]
    BY FinishMoves
  <1>5. \/ /\ Holds(final'[MemberPath(cur)], f) <=> Holds(partial[MemberPath(cur)], f)
           /\ ~Holds(partial'[MemberPath(cur)], f)
        \/ /\ Holds(final'[MemberPath(cur)], f) <=> Holds(final[MemberPath(cur)], f)
           /\ Holds(partial'[MemberPath(cur)], f) <=> Holds(partial[MemberPath(cur)], f)
    BY <1>1, <1>4
  <1>. QED BY <1>3, <1>5

\* What was written stays older than what is in flight, and the frame written now
\* is older than what is left.
LEMMA PastStaysOlder ==
  ASSUME WriterInv, WriterInv', QueueOrder(queue, frames, InHand), PastIsOlder, [Next]_vars
  PROVE  PastIsOlder'
  <1>. SUFFICES ASSUME NEW f \in Frame, Past(f)' PROVE Older(f, queue', frames', InHand')
    BY DEF PastIsOlder, Older
  <1>1. CASE Past(f)
    <2>1. Older(f, queue, frames, InHand) /\ Alone(f) \in File
      BY <1>1, OlderMeans DEF PastIsOlder
    <2>. QED BY <2>1, FlightSteps DEF Older
  <1>2. CASE ~Past(f)
    <2>1. WriterPacket /\ f = Head(queue).pkt
      <3>1. CASE Finishes
        <4>1. recorded' = recorded
          BY <3>1 DEF Finishes, WriterFinishRotated, WriterFinishRun
        <4>2. MemberPath(cur) \in Member
          BY <3>1, FinishMoves
        <4>3. \A m \in Member : Holds(partial'[m], f) \/ Holds(final'[m], f) =>
                \E k \in Member : Holds(partial[k], f) \/ Holds(final[k], f)
          BY <3>1, <4>2, HoldsFinished
        <4>. QED BY <1>2, <4>1, <4>3 DEF Past
      <3>2. CASE ~Finishes
        <4>1. recorded' \subseteq recorded \/ (WriterPacket /\ recorded' = recorded \cup {Head(queue).pkt})
          BY <3>2, StepKinds, StartedMember, WrittenFile DEF Quiet, Cuts, Creates, Crash
        <4>. QED BY <1>2, <3>2, <4>1, HoldsSteps DEF Past
      <3>. QED BY <3>1, <3>2
    <2>2. queue \in Seq(Cmd) /\ queue # <<>> /\ frames \in Nat /\ InHand \in SUBSET Nat /\ queue' = Tail(queue)
          /\ frames' = frames /\ InHand' = InHand /\ Head(queue).kind = "packet"
      BY <2>1, HandType, CaptureFileAssumption
      DEF WriterInv, TypeOK, WriterPacket, Receive, WriterFrame, capVars, InHand
    <2>3. 1 \in InFlight(queue) /\ queue[1].pkt = f
      BY <2>1, <2>2, TailOrder
    <2>4. \A k \in InFlight(queue') : k + 1 \in InFlight(queue) /\ queue'[k] = queue[k + 1] /\ k \in Nat \ {0}
      BY <2>2, TailOrder
    <2>5. f.id <= frames /\ \A x \in InHand : f.id < x
      BY <2>3 DEF QueueOrder
    <2>6. ASSUME NEW k \in InFlight(queue') PROVE f.id < queue'[k].pkt.id
      <3>1. k + 1 \in InFlight(queue) /\ 1 < k + 1 /\ queue'[k] = queue[k + 1]
        BY <2>4
      <3>. QED BY <2>3, <3>1 DEF QueueOrder
    <2>. QED BY <2>2, <2>5, <2>6, OlderMeans
  <1>. QED BY <1>1, <1>2

\* So a frame about to be written is nowhere yet.
LEMMA WrittenIsNew ==
  ASSUME WriterInv, PastIsOlder, WriterPacket
  PROVE  ~Past(Head(queue).pkt)
  <1>1. queue \in Seq(Cmd) /\ queue # <<>> /\ Head(queue).kind = "packet" /\ Head(queue).pkt \in Frame
    BY WrittenFile DEF WriterInv, TypeOK, WriterPacket, Receive
  <1>2. 1 \in InFlight(queue) /\ queue[1] = Head(queue)
    BY <1>1 DEF InFlight
  <1>3. Head(queue).pkt.id \in Nat
    BY <1>1, CaptureFileAssumption DEF Frame
  <1>4. ASSUME Past(Head(queue).pkt) PROVE FALSE
    <2>1. Older(Head(queue).pkt, queue, frames, InHand)
      BY <1>1, <1>4 DEF PastIsOlder
    <2>2. Head(queue).pkt.id < queue[1].pkt.id
      BY <1>1, <1>2, <2>1, OlderMeans
    <2>. QED BY <1>2, <1>3, <2>2
  <1>. QED BY <1>4

\* The files of a run stay its files until it rotates.
LEMMA MembersKept ==
  ASSUME WriterInv, WriterInv', [Next]_vars, cur # NoRun, cur' # NoRun, ~WriterStart, ~WriterFinishRotated
  PROVE  /\ cur \in Run /\ cur' \in Run /\ Members' = Members /\ MemberPath(cur') = MemberPath(cur)
         /\ ~Finishes /\ (recorded' = recorded \/ (WriterPacket /\ recorded' = recorded \cup {Head(queue).pkt}))
  <1>1. cur \in Run /\ cur' \in Run
    BY DEF WriterInv, TypeOK
  <1>2. ~Finishes /\ ~Crash
    BY DEF Finishes, WriterFinishRun, Crash
  <1>3. /\ cur'.path = cur.path /\ cur'.ring = cur.ring /\ cur'.index = cur.index
        /\ (recorded' = recorded \/ (WriterPacket /\ recorded' = recorded \cup {Head(queue).pkt}))
    <2>1. CASE Quiet
      BY <2>1 DEF Quiet, SameRun
    <2>2. CASE Cuts \/ Creates
      BY <2>2 DEF Cuts, Creates
    <2>3. CASE WriterPacket
      BY <2>3, WrittenFile
    <2>. QED BY <1>2, <2>1, <2>2, <2>3, StepKinds
  <1>. QED BY <1>1, <1>2, <1>3 DEF Members, MemberPath

LEMMA MembersOfRun ==
  ASSUME cur \in Run
  PROVE  /\ Members \subseteq Member /\ MemberPath(cur) \in Members
         /\ cur.ring # "none" => \A m \in Members : m # NextMember(cur)
  BY CaptureFileAssumption DEF Members, MemberPath, NextMember, Run, Member

\* Where a frame of the run is, it stays, or it moves from .partial to final.
LEMMA PlacedKept ==
  ASSUME FrameInv, WriterInv', [Next]_vars, cur # NoRun, cur' # NoRun, ~WriterStart,
         NEW f \in recorded'
  PROVE  Placed(f)'
  <1>0. WriterInv /\ cur \in Run /\ cur' \in Run
    BY DEF FrameInv, WriterInv, TypeOK
  <1>1. CASE ~WriterFinishRotated /\ f \in recorded
    <2>1. Members' = Members /\ MemberPath(cur') = MemberPath(cur) /\ ~Finishes
      BY <1>0, <1>1, MembersKept
    <2>2. ~(WriterPacket /\ f = Head(queue).pkt)
      BY <1>1, WrittenIsNew DEF FrameInv, Past
    <2>3. \A k \in Member : (Holds(partial'[k], f) <=> Holds(partial[k], f))
                              /\ (Holds(final'[k], f) <=> Holds(final[k], f))
      BY <1>0, <2>1, <2>2, HoldsSteps
    <2>4. PICK m \in Members : m \in Member /\ (AtPartial(f, m) \/ (AtFinal(f, m) /\ m # MemberPath(cur)))
      BY <1>1 DEF FrameInv, Placed
    <2>5. (AtPartial(f, m) => AtPartial(f, m)') /\ (AtFinal(f, m) => AtFinal(f, m)')
      BY <2>3 DEF AtPartial, AtFinal
    <2>. QED BY <2>1, <2>4, <2>5 DEF Placed
  <1>2. CASE ~WriterFinishRotated /\ f \notin recorded
    <2>1. Members' = Members /\ MemberPath(cur') = MemberPath(cur) /\ ~Finishes
          /\ WriterPacket /\ f = Head(queue).pkt
      BY <1>0, <1>2, MembersKept
    <2>2. \A k \in Member : ~Holds(partial[k], f) /\ ~Holds(final[k], f)
      BY <2>1, WrittenIsNew DEF FrameInv, Past
    <2>3. \A k \in Member : (Holds(partial'[k], f) <=> k = MemberPath(cur)) /\ ~Holds(final'[k], f)
      BY <1>0, <2>1, <2>2, HoldsSteps
    <2>4. PICK m \in Members : m = MemberPath(cur) /\ m \in Member
      BY <1>0, MembersOfRun
    <2>5. AtPartial(f, m)'
      BY <2>3, <2>4 DEF AtPartial
    <2>. QED BY <2>1, <2>4, <2>5 DEF Placed
  <1>3. CASE WriterFinishRotated
    <2>0. Finishes /\ recorded' = recorded
      BY <1>3 DEF Finishes, WriterFinishRotated
    <2>1. /\ cur.ring # "none" /\ cur'.ring = cur.ring /\ cur'.path = cur.path /\ cur'.index = cur.index + 1
          /\ MemberPath(cur') = NextMember(cur)
      BY <1>0, <1>3, RotatedMember
    <2>2. Members \subseteq Members' /\ \A m \in Members : m # MemberPath(cur')
      <3>1. Members \subseteq Members'
        BY <1>0, <2>1 DEF Members, Run
      <3>. QED BY <1>0, <2>1, <3>1, MembersOfRun
    <2>3. PICK m \in Members : m \in Member /\ (AtPartial(f, m) \/ (AtFinal(f, m) /\ m # MemberPath(cur)))
      BY <2>0 DEF FrameInv, Placed
    <2>4. PICK c : c = MemberPath(cur) /\ c \in Member
      BY <1>0, <2>0, FinishMoves
    <2>5. \A k \in Member \ {c} :
            (Holds(partial'[k], f) <=> Holds(partial[k], f)) /\ (Holds(final'[k], f) <=> Holds(final[k], f))
      BY <1>0, <2>0, <2>4, HoldsFinished
    <2>6. \/ (Holds(final'[c], f) <=> Holds(partial[c], f)) /\ ~Holds(partial'[c], f)
          \/ (Holds(final'[c], f) <=> Holds(final[c], f)) /\ (Holds(partial'[c], f) <=> Holds(partial[c], f))
      BY <1>0, <2>0, <2>4, HoldsFinished
    <2>7. AtPartial(f, m)' \/ AtFinal(f, m)'
      <3>1. CASE m = c
        BY <2>3, <2>4, <2>5, <2>6, <3>1 DEF AtPartial, AtFinal
      <3>2. CASE m # c
        BY <2>3, <2>4, <2>5, <2>6, <3>2 DEF AtPartial, AtFinal
      <3>. QED BY <3>1, <3>2
    <2>. QED BY <2>2, <2>3, <2>7 DEF Placed
  <1>. QED BY <1>1, <1>2, <1>3

\* A frame that is placed is in one file of the run.
LEMMA PlacedOnce ==
  ASSUME cur \in Run, NEW f, Placed(f)
  PROVE  Cardinality({m \in Members : Holds(partial[m], f)})
           + Cardinality({m \in Members : Holds(final[m], f)}) = 1
  <1>1. Members \subseteq Member
    BY MembersOfRun
  <1>2. PICK m \in Members : m \in Member /\ (AtPartial(f, m) \/ AtFinal(f, m))
    BY DEF Placed
  <1>3. Cardinality({}) = 0 /\ Cardinality({m}) = 1
    BY FS_EmptySet, FS_Singleton
  <1>4. CASE AtPartial(f, m)
    <2>1. {k \in Members : Holds(partial[k], f)} = {m} /\ {k \in Members : Holds(final[k], f)} = {}
      BY <1>1, <1>4 DEF AtPartial
    <2>. QED BY <1>3, <2>1
  <1>5. CASE AtFinal(f, m)
    <2>1. {k \in Members : Holds(partial[k], f)} = {} /\ {k \in Members : Holds(final[k], f)} = {m}
      BY <1>1, <1>5 DEF AtFinal
    <2>. QED BY <1>3, <2>1
  <1>. QED BY <1>2, <1>4, <1>5

LEMMA FrameInvInit == Init => FrameInv
  <1>. SUFFICES ASSUME Init PROVE FrameInv
    OBVIOUS
  <1>1. WriterInv /\ QueueOrder(queue, frames, InHand)
    BY InitInv, FileInvInit DEF FileInv
  <1>2. ASSUME NEW f \in Frame PROVE ~Past(f)
    <2>1. ~Holds(Absent, f)
      BY HoldsFacts
    <2>. QED BY <2>1 DEF Past, Init
  <1>. QED BY <1>1, <1>2 DEF FrameInv, PastIsOlder, Init

LEMMA FrameInvNext ==
  ASSUME FrameInv, WriterInv', [Next]_vars
  PROVE  FrameInv'
  <1>1. QueueOrder(queue, frames, InHand)' /\ PastIsOlder'
    BY FlightSteps, PastStaysOlder DEF FrameInv
  <1>2. ASSUME cur' # NoRun, NEW f \in recorded' PROVE Placed(f)'
    <2>1. ~WriterStart
      BY <1>2, StartedMember DEF FrameInv
    <2>2. cur # NoRun
      <3>1. ~Crash
        BY <1>2 DEF Crash
      <3>2. CASE Quiet
        BY <1>2, <3>2, NoRunNotRun DEF Quiet, SameRun
      <3>3. CASE Cuts \/ Creates
        BY <1>2, <3>3 DEF Cuts, Creates
      <3>4. CASE WriterPacket \/ Finishes
        BY <3>4, WrittenFile, FinishMoves, NoRunNotRun DEF FrameInv
      <3>. QED BY <2>1, <3>1, <3>2, <3>3, <3>4, StepKinds DEF FrameInv
    <2>. QED BY <1>2, <2>1, <2>2, PlacedKept
  <1>. QED BY <1>1, <1>2 DEF FrameInv

\* EveryFrameInOneMember: however often the writer thread rotates, fails to open
\* or to finish a member, or is displaced by a second start, every frame written
\* in the current run is in exactly one file of its members opened so far.
THEOREM FramesInOneMember == Spec => []EveryFrameInOneMember
  <1>1. FrameInv => EveryFrameInOneMember
    BY PlacedOnce DEF FrameInv, EveryFrameInOneMember, WriterInv, TypeOK
  <1>2. FrameInv /\ WriterInv' /\ [Next]_vars => FrameInv'
    BY FrameInvNext
  <1>. QED BY <1>1, <1>2, FrameInvInit, WriterInvariant, PTL DEF Spec

-----------------------------------------------------------------------------
(* The volume that is reported, and that an autostop compares. *)

FrameSize == [f \in Frame |-> f.size]

LEMMA SizeType == ASSUME NEW f \in Frame PROVE f.size \in Int /\ f.size \in Nat /\ FrameSize[f] = f.size
  <1>1. f.size \in Sizes /\ FrameSize[f] = f.size
    BY DEF Frame, FrameSize
  <1>2. f.size \in Nat
    BY <1>1, CaptureFileAssumption, Zenon
  <1>3. \A n \in Nat : n \in Int
    OBVIOUS
  <1>. QED BY <1>1, <1>2, <1>3, Zenon

LEMMA SizeIsTotal ==
  ASSUME NEW S \in SUBSET Frame, IsFiniteSet(S)
  PROVE  /\ Summable(FrameSize, S)
         /\ MapThenSumSet(LAMBDA f : f.size, S) = Total(FrameSize, S)
  <1>. DEFINE Step(f, s) == IF s = {} THEN 0
                            ELSE (CHOOSE x \in s : TRUE).size + f[s \ {CHOOSE x \in s : TRUE}]
              Solves(f) == f = [s \in SUBSET S |-> Step(f, s)]
              iter == CHOOSE f : Solves(f)
  <1>1. MapThenSumSet(LAMBDA f : f.size, S) = iter[S]
    BY DEF MapThenSumSet, MapThenFoldSet
  <1>2. Summable(FrameSize, S)
    <2>1. \A x \in S : FrameSize[x] \in Int
      BY SizeType
    <2>. QED BY <2>1 DEF Summable
  <1>3. ASSUME NEW f, NEW s \in SUBSET S
        PROVE  Step(f, s) = IF s = {} THEN 0 ELSE FrameSize[AnyOf(s)] + f[s \ {AnyOf(s)}]
    <2>1. s # {} => AnyOf(s) \in Frame
      BY DEF AnyOf
    <2>2. s # {} => FrameSize[AnyOf(s)] = AnyOf(s).size
      BY <2>1 DEF FrameSize
    <2>. QED BY <2>2 DEF AnyOf
  <1>. HIDE DEF Step
  <1>4. PICK f : SumsUp(f, FrameSize, S)
    BY <1>2, SumExists
  <1>5. Solves(f)
    BY <1>3, <1>4 DEF SumsUp
  <1>6. Solves(iter)
    BY <1>5
  <1>. HIDE DEF iter
  <1>7. SolvesSum(iter, FrameSize, S)
    BY <1>3, <1>6 DEF SolvesSum
  <1>8. iter[S] = Total(FrameSize, S)
    BY <1>2, <1>7, SolutionSums
  <1>. QED BY <1>1, <1>2, <1>8

\* What the RingState counts is what was written; what the shared status tells
\* between two commands is what the RingState counts.
RunCounts == cur # NoRun => cur.before + cur.bytes = Total(FrameSize, recorded)

StatusCounts == wpc = "recv" /\ cur # NoRun => status.bytes = cur.before + cur.bytes

ByteInv == FrameInv /\ IsFiniteSet(recorded) /\ RunCounts /\ StatusCounts

LEMMA RunStillCounts ==
  ASSUME ByteInv, WriterInv', [Next]_vars
  PROVE  IsFiniteSet(recorded)' /\ RunCounts'
  <1>0. WriterInv /\ PastIsOlder /\ (cur # NoRun => cur \in Run) /\ IsFiniteSet(recorded) /\ RunCounts
    BY DEF ByteInv, FrameInv, WriterInv, TypeOK
  <1>1. CASE Quiet
    BY <1>0, <1>1, NoRunNotRun DEF Quiet, SameRun, RunCounts
  <1>2. CASE Cuts \/ Creates
    BY <1>0, <1>2 DEF Cuts, Creates, RunCounts
  <1>3. CASE WriterStart
    <2>1. recorded' = {} /\ cur'.before = 0 /\ cur'.bytes = 0
      BY <1>0, <1>3, StartedMember
    <2>. QED BY <2>1, TotalEmpty, FS_EmptySet DEF RunCounts
  <1>4. CASE WriterPacket
    <2>. DEFINE p == Head(queue).pkt
                R == recorded \cup {p}
    <2>1. /\ p \in Frame /\ recorded' = R /\ cur \in Run /\ cur # NoRun
          /\ cur'.before = cur.before /\ cur'.bytes = cur.bytes + p.size
      BY <1>0, <1>4, WrittenFile DEF WriterPacket
    <2>2. p \notin recorded
      BY <1>0, <1>4, WrittenIsNew DEF Past
    <2>3. R \in SUBSET Frame /\ recorded \in SUBSET Frame /\ IsFiniteSet(R) /\ R \ {p} = recorded /\ p \in R
      <3>1. recorded \in SUBSET Frame
        BY <1>0 DEF WriterInv, TypeOK
      <3>2. IsFiniteSet(R)
        BY <1>0, FS_AddElement
      <3>. QED BY <2>1, <2>2, <3>1, <3>2
    <2>4. p.size \in Int /\ cur.before \in Int /\ cur.bytes \in Int /\ FrameSize[p] = p.size
      BY <2>1, SizeType DEF Run
    <2>. HIDE DEF p, R
    <2>5. Summable(FrameSize, R)
      BY <2>3, SizeIsTotal
    <2>6. Total(FrameSize, R) = FrameSize[p] + Total(FrameSize, recorded)
      BY <2>3, <2>5, TotalWithout
    <2>7. cur.before + cur.bytes = Total(FrameSize, recorded)
      BY <1>0, <2>1 DEF RunCounts
    <2>8. cur'.before + cur'.bytes = Total(FrameSize, R)
      BY <2>1, <2>4, <2>6, <2>7
    <2>. QED BY <2>1, <2>3, <2>8 DEF RunCounts
  <1>5. CASE WriterFinishRotated
    <2>1. /\ recorded' = recorded /\ cur \in Run /\ cur # NoRun
          /\ cur'.before = cur.before + cur.bytes /\ cur'.bytes = 0
      BY <1>0, <1>5, RotatedMember, NoRunNotRun DEF WriterFinishRotated
    <2>2. cur.before \in Int /\ cur.bytes \in Int
      BY <2>1 DEF Run
    <2>. QED BY <1>0, <2>1, <2>2 DEF RunCounts
  <1>6. CASE WriterFinishRun \/ Crash
    BY <1>0, <1>6, FS_EmptySet DEF WriterFinishRun, Crash, RunCounts
  <1>. QED BY <1>0, <1>1, <1>2, <1>3, <1>4, <1>5, <1>6, StepKinds DEF Finishes

LEMMA StatusStillCounts ==
  ASSUME WriterInv, WriterInv', StatusCounts, [Next]_vars
  PROVE  StatusCounts'
  <1>. USE DEF capVars, ctlVars, statVars, emitVars, fsVars
  <1>0. TypeOK /\ (cur = NoRun \/ cur \in Run) /\ (cur' = NoRun \/ cur' \in Run)
    BY DEF WriterInv, TypeOK
  <1>1. ASSUME UNCHANGED <<cur, status>>, wpc' = wpc \/ wpc' # "recv" PROVE StatusCounts'
    BY <1>1 DEF StatusCounts
  <1>2. CASE UNCHANGED vars
    BY <1>1, <1>2 DEF vars
  <1>3. CASE Capture \/ Control \/ EmitBegin \/ EmitStatus
    BY <1>1, <1>3 DEF Capture, Control, CaptureFrame, OfferFrame, PollStats, CaptureEnds,
                      SwitchInterface, StartSend, StopSend, StartCheck, SetPaused, EmitBegin, EmitStatus
  <1>4. CASE Elapse
    <2>1. cur \in Run /\ cur' = [cur EXCEPT !.age = Min2(@ + 1, Threshold), !.fileAge = @ + 1]
      BY <1>0, <1>4 DEF Elapse
    <2>2. cur # NoRun /\ cur'.before = cur.before /\ cur'.bytes = cur.bytes /\ status' = status /\ wpc' = wpc
      BY <1>4, <2>1, NoRunNotRun DEF Run, Elapse
    <2>. QED BY <2>2 DEF StatusCounts
  <1>5. CASE WriterStartRefused \/ WriterStartFails \/ WriterDiscard \/ WriterIdleTick
               \/ WriterTickStops \/ WriterPacketFails \/ WriterStatsBlockFails \/ WriterTickRotates
    BY <1>1, <1>5 DEF WriterStartRefused, WriterStartFails, WriterDiscard, WriterIdleTick,
                      WriterTickStops, WriterPacketFails, WriterStatsBlockFails, WriterTickRotates,
                      AutostopReason
  <1>6. CASE WriterStop
    BY <1>6 DEF WriterStop, StatusCounts
  <1>7. CASE WriterTick \/ WriterTickOpenFails
    <2>1. cur' = cur /\ status' = TickStatus(cur)
      BY <1>7 DEF WriterTick, WriterTickOpenFails
    <2>. QED BY <2>1 DEF TickStatus, StatusCounts
  <1>8. CASE WriterStart
    <2>1. cur'.before = 0 /\ cur'.bytes = 0
      BY <1>8, StartedMember
    <2>2. status'.bytes = 0
      BY <1>8 DEF WriterStart, NoStatus
    <2>. QED BY <2>1, <2>2 DEF StatusCounts
  <1>9. CASE WriterPacket
    <2>1. /\ Head(queue).pkt \in Frame /\ cur \in Run
          /\ cur'.before = cur.before /\ cur'.bytes = cur.bytes + Head(queue).pkt.size
      BY <1>9, WrittenFile
    <2>2. status' = [status EXCEPT !.bytes = cur.before + cur.bytes + Head(queue).pkt.size] /\ status \in Status
      BY <1>0, <1>9 DEF WriterPacket, TypeOK
    <2>3. status'.bytes = cur.before + cur.bytes + Head(queue).pkt.size
      BY <2>2 DEF Status
    <2>4. Head(queue).pkt.size \in Int /\ cur.before \in Int /\ cur.bytes \in Int
      BY <2>1, SizeType DEF Run
    <2>. QED BY <2>1, <2>3, <2>4 DEF StatusCounts
  <1>10. CASE WriterFinishRotated
    <2>1. status' = TickStatus(cur')
      BY <1>10 DEF WriterFinishRotated
    <2>. QED BY <2>1 DEF TickStatus, StatusCounts
  <1>11. CASE WriterFinishRun \/ Crash
    BY <1>11 DEF WriterFinishRun, Crash, StatusCounts
  <1>. QED BY <1>2, <1>3, <1>4, <1>5, <1>6, <1>7, <1>8, <1>9, <1>10, <1>11 DEF Next, Writer

\* BytesSpanRotations: between two commands the byte count that the status tells,
\* and that a totalSize autostop compares, is the sum of the blocks of all frames
\* written in the run, each counted once, however many rotations lie between.
THEOREM BytesOfTheWholeRun == Spec => []BytesSpanRotations
  <1>1. Init => ByteInv
    BY FrameInvInit, FS_EmptySet DEF Init, ByteInv, RunCounts, StatusCounts
  <1>2. ASSUME ByteInv, WriterInv', [Next]_vars PROVE ByteInv'
    BY <1>2, FrameInvNext, RunStillCounts, StatusStillCounts DEF ByteInv, FrameInv
  <1>3. ByteInv => BytesSpanRotations
    <2>. SUFFICES ASSUME ByteInv, wpc = "recv", cur # NoRun
                  PROVE  status.bytes = MapThenSumSet(LAMBDA f : f.size, recorded)
      BY DEF BytesSpanRotations
    <2>1. recorded \in SUBSET Frame /\ IsFiniteSet(recorded)
      BY DEF ByteInv, FrameInv, WriterInv, TypeOK
    <2>2. status.bytes = Total(FrameSize, recorded)
      BY DEF ByteInv, RunCounts, StatusCounts
    <2>. QED BY <2>1, <2>2, SizeIsTotal
  <1>4. ByteInv /\ WriterInv' /\ [Next]_vars => ByteInv'
    BY <1>2
  <1>. QED BY <1>1, <1>3, <1>4, WriterInvariant, PTL DEF Spec

=============================================================================
