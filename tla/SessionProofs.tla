--------------------------- MODULE SessionProofs ---------------------------
(***************************************************************************)
(* What holds of a session: of its turns, of its use of the model and of   *)
(* the streams of the voice activity worker, for every number of turns and *)
(* of streams; and of the protocol between its client and the server, for  *)
(* every size of the buffer and every number of events and failures.       *)
(*                                                                         *)
(* That a turn is counted is not inductive: a use is released by whoever   *)
(* ends something.  It follows from who may be at work when (RoomInv): a   *)
(* task that waits for a cancelled one finds every slot empty, so that     *)
(* what it releases is not what the next turn needs.                       *)
(***************************************************************************)
EXTENDS VadStreams, SessionProtocol, SequenceTheorems, TLAPS

\* The slots, and the tasks registered in them.
TaskInv ==
  /\ OneSlot
  /\ \A t \in Turns : task[t] = "running" => processing = t
  /\ processing # NoTurn => task[processing] \in {"running", "cancelled"}

\* The turn that is being cancelled.
Stopped == subject \in Turns /\ task[subject] \in {"cancelled", "done"}

Waiting == {"closing", "joining"}

\* Who is at work beside whom, and what the slots hold then.
RoomInv ==
  /\ loop # "idle" => link = "up" /\ leaving \in {"no", "rejecting"}
  /\ loop = "starting" => begun < MaxTurns
  /\ loop \in Waiting => Empty /\ Stopped /\ (task[subject] = "done" => ~held)
  /\ loop = "discarding" => processing = NoTurn /\ pending = NoTurn
  /\ loop = "rejecting" => Empty
  /\ leaving = "recording" => Empty
  /\ leaving \in Waiting =>
       active = NoTurn /\ pending = NoTurn /\ processing \in {NoTurn, subject} /\ Stopped
  /\ leaving = "gathering" => link = "leaving"

\* As long as no task has outlived its slot: a cancelled task is waited for,
\* and a rejection under way holds the use.
JoinInv ==
  ~strayed =>
    /\ \A t \in Turns : task[t] = "cancelled" =>
         processing = t \/ (subject = t /\ (loop \in Waiting \/ leaving \in Waiting))
    /\ leaving = "rejecting" => held /\ Empty /\ loop = "idle"
    /\ ~Empty => held

UseInv == UseIsOwned /\ (held => switch # "stopped")

UsageInv == TypeOK /\ TaskInv /\ RoomInv /\ JoinInv /\ UseInv

LEMMA SlotsAreTurns ==
  /\ NoTurn \in Slot
  /\ \A t \in Turns : t \in Slot /\ t # NoTurn
  /\ \A t \in Slot : t = NoTurn \/ t \in Turns
BY TurnsAssumption DEF Slot

LEMMA UsageStarts == Init => UsageInv
<1> SUFFICES ASSUME Init PROVE UsageInv
  OBVIOUS
<1> USE TurnsAssumption DEF Init
<1>1. TypeOK
  <2>1. task \in [Turns -> TaskStates] /\ begun \in 0..MaxTurns
    BY DEF TaskStates
  <2>2. NoTurn \in Slot
    BY DEF Slot
  <2> QED
    BY <2>1, <2>2 DEF TypeOK, LoopStates, LeaveStates
<1>2. TaskInv
  BY DEF TaskInv, OneSlot
<1>3. RoomInv /\ JoinInv /\ UseInv
  BY DEF RoomInv, JoinInv, UseInv, UseIsOwned, Empty, Waiting
<1> QED
  BY <1>1, <1>2, <1>3 DEF UsageInv

LEMMA UsageSuffices == UsageInv => UsageIsBalanced
<1> SUFFICES ASSUME UsageInv PROVE UsageIsBalanced
  OBVIOUS
<1>1. Needed => ~Empty
  BY TurnsAssumption DEF Needed, Empty, UsageInv, TaskInv
<1> QED
  BY <1>1 DEF UsageInv, UsageIsBalanced, TurnsAreCounted, TaskInv, JoinInv, UseInv

-----------------------------------------------------------------------------
(* The receive loop, its tasks, and cancellations. *)

\* A recording begins, goes on, fails or is dropped.
LEMMA RecordStep ==
  ASSUME UsageInv,
         Start \/ StartAdmitted \/ Chunk \/ ChunkDone \/ ChunkFails \/ Discard \/ Discarded
  PROVE  UsageInv'
<1> USE TurnsAssumption, SlotsAreTurns
    DEF UsageInv, TypeOK, TaskInv, RoomInv, JoinInv, UseInv, UseIsOwned, OneSlot, Empty,
        Stopped, Waiting, slots, jobs, leave, Release, Takes
<1>1. CASE Start
  BY <1>1 DEF Start, LoopStates, LeaveStates
<1>2. CASE StartAdmitted
  <2>0. begun + 1 \in Turns /\ begun + 1 \in 0..MaxTurns
    BY <1>2 DEF StartAdmitted, RoomInv, TypeOK, Turns
  <2>1. TypeOK'
    BY <1>2, <2>0 DEF StartAdmitted, LoopStates, LeaveStates
  <2>2. TaskInv'
    BY <1>2, <2>0 DEF StartAdmitted
  <2>3. RoomInv'
    BY <1>2, <2>0 DEF StartAdmitted
  <2>4. JoinInv'
    BY <1>2, <2>0 DEF StartAdmitted
  <2>5. UseInv'
    BY <1>2, <2>0 DEF StartAdmitted
  <2> QED
    BY <2>1, <2>2, <2>3, <2>4, <2>5
<1>3. CASE Chunk
  BY <1>3 DEF Chunk, LoopStates, LeaveStates
<1>4. CASE ChunkDone
  BY <1>4 DEF ChunkDone, LoopStates, LeaveStates
<1>5. CASE ChunkFails
  BY <1>5, ZenonT(30) DEF ChunkFails, LoopStates, LeaveStates
<1>6. CASE Discard
  BY <1>6 DEF Discard, LoopStates, LeaveStates
<1>7. CASE Discarded
  BY <1>7 DEF Discarded, LoopStates, LeaveStates
<1> QED
  BY <1>1, <1>2, <1>3, <1>4, <1>5, <1>6, <1>7

\* A response or an approval is cancelled by the client.
LEMMA CancelStep ==
  ASSUME UsageInv,
         CancelResponse \/ CancelClosed \/ CancelFails \/ CancelJoined \/ CancelApproval
           \/ Rejected
  PROVE  UsageInv'
<1> USE TurnsAssumption, SlotsAreTurns
    DEF UsageInv, TypeOK, TaskInv, RoomInv, JoinInv, UseInv, UseIsOwned, OneSlot, Empty,
        Stopped, Waiting, slots, jobs, leave, Release, Takes
<1>1. CASE CancelResponse
  <2>0. /\ processing \in Turns /\ task' \in [Turns -> TaskStates] /\ task'[processing] = "cancelled"
        /\ \A t \in Turns \ {processing} : task'[t] = task[t]
    BY <1>1 DEF CancelResponse, Stops, TypeOK, TaskInv, Slot, TaskStates
  <2>1. TypeOK'
    BY <1>1, <2>0 DEF CancelResponse, LoopStates, LeaveStates
  <2>2. TaskInv'
    BY <1>1, <2>0 DEF CancelResponse
  <2>3. RoomInv'
    BY <1>1, <2>0 DEF CancelResponse
  <2>4. JoinInv'
    BY <1>1, <2>0 DEF CancelResponse
  <2>5. UseInv'
    BY <1>1, <2>0 DEF CancelResponse
  <2> QED
    BY <2>1, <2>2, <2>3, <2>4, <2>5
<1>2. CASE CancelClosed
  BY <1>2 DEF CancelClosed, LoopStates, LeaveStates
<1>3. CASE CancelFails
  BY <1>3 DEF CancelFails, LoopStates, LeaveStates
<1>4. CASE CancelJoined
  BY <1>4 DEF CancelJoined, LoopStates, LeaveStates
<1>5. CASE CancelApproval
  BY <1>5 DEF CancelApproval, LoopStates, LeaveStates
<1>6. CASE Rejected
  BY <1>6 DEF Rejected, LoopStates, LeaveStates
<1> QED
  BY <1>1, <1>2, <1>3, <1>4, <1>5, <1>6

\* The tasks beside the receive loop begin and end.
LEMMA JobStep ==
  ASSUME UsageInv,
         End \/ Answer \/ EndBegins \/ AnswerBegins
           \/ \E t \in Turns : JobEnds(t) \/ JobAsks(t)
  PROVE  UsageInv'
<1> USE TurnsAssumption, SlotsAreTurns
    DEF UsageInv, TypeOK, TaskInv, RoomInv, JoinInv, UseInv, UseIsOwned, OneSlot, Empty,
        Stopped, Waiting, slots, jobs, leave, Release, Takes
<1>1. CASE End
  BY <1>1 DEF End, LoopStates, LeaveStates
<1>2. CASE Answer
  BY <1>2 DEF Answer, LoopStates, LeaveStates
<1>3. CASE EndBegins
  <2>0. /\ task' \in [Turns -> TaskStates] /\ processing' \in Slot
        /\ \/ UNCHANGED <<processing, task>>
           \/ /\ active \in Turns /\ processing' = active /\ task'[active] = "running"
              /\ \A t \in Turns \ {active} : task'[t] = task[t]
    BY <1>3 DEF EndBegins, Registers, Slot, TaskStates
  <2>1. TypeOK'
    <3>1. active' = NoTurn /\ ended' = FALSE /\ held' \in BOOLEAN
      BY <1>3 DEF EndBegins
    <3>2. UNCHANGED <<pending, subject, answered, due, strayed, loop, leaving, link, switch, begun>>
      BY <1>3 DEF EndBegins
    <3> HIDE DEF TaskInv, RoomInv, JoinInv, UseInv
    <3> QED
      BY <2>0, <3>1, <3>2
  <2>2. TaskInv'
    BY <1>3, <2>0 DEF EndBegins
  <2>3. RoomInv'
    BY <1>3, <2>0 DEF EndBegins
  <2>4. JoinInv'
    BY <1>3, <2>0 DEF EndBegins
  <2>5. UseInv'
    BY <1>3, <2>0 DEF EndBegins, Registers
  <2> QED
    BY <2>1, <2>2, <2>3, <2>4, <2>5
<1>4. CASE AnswerBegins
  <2>0. /\ task' \in [Turns -> TaskStates] /\ processing' \in Slot
        /\ \/ UNCHANGED <<processing, task>>
           \/ /\ pending \in Turns /\ processing' = pending /\ task'[pending] = "running"
              /\ \A t \in Turns \ {pending} : task'[t] = task[t]
    BY <1>4 DEF AnswerBegins, Registers, Slot, TaskStates
  <2>1. TypeOK'
    <3>1. pending' = NoTurn /\ answered' = FALSE
      BY <1>4 DEF AnswerBegins
    <3>2. UNCHANGED <<active, held, subject, ended, due, strayed, loop, leaving, link, switch, begun>>
      BY <1>4 DEF AnswerBegins
    <3> HIDE DEF TaskInv, RoomInv, JoinInv, UseInv
    <3> QED
      BY <2>0, <3>1, <3>2
  <2>2. TaskInv'
    BY <1>4, <2>0 DEF AnswerBegins
  <2>3. RoomInv'
    BY <1>4, <2>0 DEF AnswerBegins
  <2>4. JoinInv'
    BY <1>4, <2>0 DEF AnswerBegins
  <2>5. UseInv'
    BY <1>4, <2>0 DEF AnswerBegins, Registers
  <2> QED
    BY <2>1, <2>2, <2>3, <2>4, <2>5
<1>5. ASSUME NEW t \in Turns, JobEnds(t) PROVE UsageInv'
  <2>0. /\ task' \in [Turns -> TaskStates] /\ task'[t] = "done"
        /\ \A u \in Turns \ {t} : task'[u] = task[u]
    BY <1>5 DEF JobEnds, Ends, TaskStates
  <2>1. TypeOK'
    BY <1>5, <2>0 DEF JobEnds, Ends, Unregisters, LoopStates, LeaveStates
  <2>2. TaskInv'
    BY <1>5, <2>0 DEF JobEnds, Ends, Unregisters
  <2>3. RoomInv'
    BY <1>5, <2>0 DEF JobEnds, Ends, Unregisters
  <2>4. JoinInv'
    BY <1>5, <2>0 DEF JobEnds, Ends, Unregisters
  <2>5. UseInv'
    BY <1>5, <2>0 DEF JobEnds, Ends, Unregisters
  <2> QED
    BY <2>1, <2>2, <2>3, <2>4, <2>5
<1>6. ASSUME NEW t \in Turns, JobAsks(t) PROVE UsageInv'
  <2>0. /\ task' \in [Turns -> TaskStates] /\ task'[t] = "done"
        /\ \A u \in Turns \ {t} : task'[u] = task[u]
    BY <1>6 DEF JobAsks, Ends, TaskStates
  <2>1. TypeOK'
    BY <1>6, <2>0 DEF JobAsks, Unregisters, LoopStates, LeaveStates
  <2>2. TaskInv'
    BY <1>6, <2>0 DEF JobAsks, Unregisters
  <2>3. RoomInv'
    BY <1>6, <2>0 DEF JobAsks, Unregisters
  <2>4. JoinInv'
    BY <1>6, <2>0 DEF JobAsks, Unregisters
  <2>5. UseInv'
    BY <1>6, <2>0 DEF JobAsks, Unregisters
  <2> QED
    BY <2>1, <2>2, <2>3, <2>4, <2>5
<1> QED
  BY <1>1, <1>2, <1>3, <1>4, <1>5, <1>6

-----------------------------------------------------------------------------
(* The end of the connection, and the switch. *)

\* The connection is lost and the client returns.
LEMMA LossStep ==
  ASSUME UsageInv,
         Loss \/ LossUntidy \/ Sweep \/ Reconnect \/ Unwind
  PROVE  UsageInv'
<1> USE TurnsAssumption, SlotsAreTurns
    DEF UsageInv, TypeOK, TaskInv, RoomInv, JoinInv, UseInv, UseIsOwned, OneSlot, Empty,
        Stopped, Waiting, slots, jobs, leave, Release, Takes
<1>1. CASE Loss
  <2>0. /\ task' \in [Turns -> TaskStates]
        /\ \A t \in Turns : task'[t] = (IF task[t] = "running" THEN "cancelled" ELSE task[t])
        /\ processing # NoTurn => processing \in Turns
    BY <1>1 DEF Loss, TypeOK, TaskStates, Slot
  <2>1. TypeOK'
    BY <1>1, <2>0 DEF Loss, LoopStates, LeaveStates
  <2>2. TaskInv'
    BY <1>1, <2>0 DEF Loss
  <2>3. RoomInv'
    BY <1>1, <2>0 DEF Loss
  <2>4. JoinInv'
    BY <1>1, <2>0 DEF Loss
  <2>5. UseInv'
    BY <1>1, <2>0 DEF Loss
  <2> QED
    BY <2>1, <2>2, <2>3, <2>4, <2>5
<1>2. CASE LossUntidy
  BY <1>2 DEF LossUntidy, LoopStates, LeaveStates
<1>3. CASE Sweep
  <2>0. /\ task' \in [Turns -> TaskStates]
        /\ \A t \in Turns : task'[t] = (IF task[t] = "running" THEN "cancelled" ELSE task[t])
        /\ \/ active # NoTurn /\ leaving' = "recording" /\ UNCHANGED <<task, pending, subject>>
           \/ /\ active = NoTurn /\ processing \in Turns /\ subject' = processing /\ leaving' = "closing"
              /\ UNCHANGED pending
           \/ /\ active = NoTurn /\ processing = NoTurn /\ pending # NoTurn
              /\ pending' = NoTurn /\ leaving' = "rejecting" /\ UNCHANGED <<task, subject>>
           \/ Empty /\ pending' = NoTurn /\ leaving' = "no" /\ UNCHANGED <<task, subject>>
    BY <1>3 DEF Sweep, Disconnects, ToProcessing, ToPending, TypeOK, TaskStates, TaskInv, OneSlot, Slot, Empty
  <2>1. TypeOK'
    BY <1>3, <2>0 DEF Sweep, Disconnects, LoopStates, LeaveStates
  <2>2. TaskInv'
    BY <1>3, <2>0 DEF Sweep, Disconnects
  <2>3. RoomInv'
    BY <1>3, <2>0 DEF Sweep, Disconnects
  <2>4. JoinInv'
    BY <1>3, <2>0 DEF Sweep, Disconnects
  <2>5. UseInv'
    BY <1>3, <2>0 DEF Sweep, Disconnects
  <2> QED
    BY <2>1, <2>2, <2>3, <2>4, <2>5
<1>4. CASE Reconnect
  <2>1. TypeOK'
    BY <1>4 DEF Reconnect, LoopStates, LeaveStates
  <2>2. TaskInv'
    BY <1>4 DEF Reconnect
  <2>3. RoomInv'
    BY <1>4 DEF Reconnect
  <2>4. JoinInv'
    BY <1>4 DEF Reconnect
  <2>5. UseInv'
    BY <1>4 DEF Reconnect
  <2> QED
    BY <2>1, <2>2, <2>3, <2>4, <2>5
<1>5. CASE Unwind
  <2>0. ~strayed' => /\ ~strayed
                     /\ leaving \in Waiting => task[subject] = "done" /\ processing' = NoTurn
                     /\ leaving \notin Waiting => UNCHANGED processing
    BY <1>5 DEF Unwind, Waiting
  <2>1. TypeOK'
    BY <1>5, <2>0 DEF Unwind, LoopStates, LeaveStates
  <2>2. TaskInv'
    BY <1>5, <2>0 DEF Unwind
  <2>3. RoomInv'
    BY <1>5, <2>0 DEF Unwind
  <2>4. JoinInv'
    <3> SUFFICES ASSUME ~strayed' PROVE JoinInv'
      OBVIOUS
    <3>1. CASE leaving \in Waiting
      <4>1. task[subject] = "done" /\ ~strayed /\ processing' = NoTurn
        BY <3>1, <2>0
      <4> QED
        BY <3>1, <4>1, <1>5 DEF Unwind
    <3>2. CASE leaving \notin Waiting
      <4>1. ~strayed /\ UNCHANGED processing /\ leaving \in {"recording", "rejecting"}
        BY <3>2, <2>0, <1>5 DEF Unwind, LeaveStates
      <4>2. Empty /\ Empty'
        BY <4>1, <1>5 DEF Unwind
      <4> QED
        BY <3>2, <4>1, <4>2, <1>5 DEF Unwind
    <3> QED
      BY <3>1, <3>2
  <2>5. UseInv'
    BY <1>5, <2>0 DEF Unwind
  <2> QED
    BY <2>1, <2>2, <2>3, <2>4, <2>5
<1> QED
  BY <1>1, <1>2, <1>3, <1>4, <1>5

\* disconnect goes on.
LEMMA LeaveStep ==
  ASSUME UsageInv,
         LeftRecording \/ LeftClosing \/ LeftJoining \/ LeftRejecting \/ Gathered
  PROVE  UsageInv'
<1> USE TurnsAssumption, SlotsAreTurns
    DEF UsageInv, TypeOK, TaskInv, RoomInv, JoinInv, UseInv, UseIsOwned, OneSlot, Empty,
        Stopped, Waiting, slots, jobs, leave, Release, Takes
<1>1. CASE LeftRecording
  <2>0. UNCHANGED <<pending, task, subject>> /\ leaving' \in {"no", "gathering"}
        /\ (leaving' = "gathering" => link' = "leaving")
    BY <1>1 DEF LeftRecording, ToProcessing, ToPending, LeaveRaises, RoomInv, Empty
  <2>1. TypeOK'
    BY <1>1, <2>0 DEF LeftRecording, LeaveRaises, ToProcessing, LoopStates, LeaveStates
  <2>2. TaskInv'
    BY <1>1, <2>0 DEF LeftRecording, LeaveRaises, ToProcessing
  <2>3. RoomInv'
    BY <1>1, <2>0 DEF LeftRecording, LeaveRaises, ToProcessing
  <2>4. JoinInv'
    BY <1>1, <2>0 DEF LeftRecording, LeaveRaises, ToProcessing
  <2>5. UseInv'
    BY <1>1, <2>0 DEF LeftRecording, LeaveRaises, ToProcessing
  <2> QED
    BY <2>1, <2>2, <2>3, <2>4, <2>5
<1>2. CASE LeftClosing
  <2>0. ~strayed' => /\ ~strayed
                     /\ \/ leaving' = "joining" /\ UNCHANGED <<processing, held>>
                        \/ leaving' = "no" /\ task[subject] = "done" /\ processing' = NoTurn
    BY <1>2 DEF LeftClosing, LeaveRaises
  <2>1. TypeOK'
    BY <1>2, <2>0 DEF LeftClosing, LeaveRaises, LoopStates, LeaveStates
  <2>2. TaskInv'
    BY <1>2, <2>0 DEF LeftClosing, LeaveRaises
  <2>3. RoomInv'
    BY <1>2, <2>0 DEF LeftClosing, LeaveRaises
  <2>4. JoinInv'
    BY <1>2, <2>0 DEF LeftClosing, LeaveRaises
  <2>5. UseInv'
    BY <1>2, <2>0 DEF LeftClosing, LeaveRaises
  <2> QED
    BY <2>1, <2>2, <2>3, <2>4, <2>5
<1>3. CASE LeftJoining
  <2>1. TypeOK'
    BY <1>3 DEF LeftJoining, ToPending, LoopStates, LeaveStates
  <2>2. TaskInv'
    BY <1>3 DEF LeftJoining, ToPending
  <2>3. RoomInv'
    BY <1>3 DEF LeftJoining, ToPending
  <2>4. JoinInv'
    BY <1>3 DEF LeftJoining, ToPending
  <2>5. UseInv'
    BY <1>3 DEF LeftJoining, ToPending
  <2> QED
    BY <2>1, <2>2, <2>3, <2>4, <2>5
<1>4. CASE LeftRejecting
  BY <1>4 DEF LeftRejecting, LoopStates, LeaveStates
<1>5. CASE Gathered
  BY <1>5 DEF Gathered, LeaveRaises, LoopStates, LeaveStates
<1> QED
  BY <1>1, <1>2, <1>3, <1>4, <1>5

\* The model is switched beside all this.
LEMMA SwitchStep ==
  ASSUME UsageInv,
         BeginSwitch \/ Drained \/ DrainTimeout \/ EndSwitch
  PROVE  UsageInv'
<1> USE TurnsAssumption, SlotsAreTurns
    DEF UsageInv, TypeOK, TaskInv, RoomInv, JoinInv, UseInv, UseIsOwned, OneSlot, Empty,
        Stopped, Waiting, slots, jobs, leave, Release, Takes
<1>1. CASE BeginSwitch
  BY <1>1 DEF BeginSwitch, Switches, LoopStates, LeaveStates
<1>2. CASE Drained
  BY <1>2 DEF Drained, Switches, LoopStates, LeaveStates
<1>3. CASE DrainTimeout
  BY <1>3 DEF DrainTimeout, Switches, LoopStates, LeaveStates
<1>4. CASE EndSwitch
  BY <1>4 DEF EndSwitch, Switches, LoopStates, LeaveStates
<1> QED
  BY <1>1, <1>2, <1>3, <1>4

LEMMA UsageStep == UsageInv /\ [Next]_vars => UsageInv'
<1> SUFFICES ASSUME UsageInv, [Next]_vars PROVE UsageInv'
  OBVIOUS
<1>1. CASE Next
  BY <1>1, RecordStep, CancelStep, JobStep, LossStep, LeaveStep, SwitchStep
     DEF Next, Loop, Jobs, Leave
<1>2. CASE UNCHANGED vars
  BY <1>2 DEF vars, slots, jobs, leave, UsageInv, TypeOK, TaskInv, RoomInv, JoinInv, UseInv,
              UseIsOwned, OneSlot, Empty, Stopped, Waiting
<1> QED
  BY <1>1, <1>2

-----------------------------------------------------------------------------
(* The streams of the worker. *)

\* A chunk of the turn that records is on the way only while the receive loop
\* awaits its answer, and that turn is the one the answer is about.
ChunkInv ==
  /\ \A t \in Turns : <<"analyze", t>> \in sent /\ t = active =>
       loop = "chunk" /\ asked = t /\ heard = "wait"
  /\ loop = "chunk" => active \in {NoTurn, asked}

\* A turn that did not begin has nothing on the way.
FreshInv ==
  /\ \A t \in Turns : <<"analyze", t>> \in sent => t <= begun
  /\ active \in Turns => active <= begun

\* The stream of a recording that is being discarded is closed or given up.
DiscardInv ==
  loop = "discarding" /\ active \in streams => ~Closed(active) \/ active \in abandoned

WorkerInv == VadTypeOK /\ StreamsAreClosed /\ ChunkInv /\ FreshInv /\ DiscardInv

\* What a step sends, closes or gives up about a turn is of the types.
LEMMA SendingTyped ==
  ASSUME VadTypeOK,
         \/ Quiet \/ \E t \in Slot : GivesUp(t)
         \/ \E t \in Turns :
              \/ Closes(t)
              \/ Sends("close", t) /\ UNCHANGED <<streams, heard, asked, parting, abandoned>>
              \/ Abandons(t) /\ parting' = NoTurn /\ UNCHANGED <<streams, sent, heard, asked>>
  PROVE  VadTypeOK'
<1>1. CASE Quiet \/ \E t \in Slot : GivesUp(t)
  BY <1>1 DEF Quiet, vadVars, VadTypeOK, GivesUp, Abandons, Opened
<1>2. ASSUME NEW t \in Turns,
             \/ Closes(t)
             \/ Sends("close", t) /\ UNCHANGED <<streams, heard, asked, parting, abandoned>>
             \/ Abandons(t) /\ parting' = NoTurn /\ UNCHANGED <<streams, sent, heard, asked>>
      PROVE  VadTypeOK'
  <2>1. sent' \in {sent, sent \union {<<"close", t>>}}
    BY <1>2 DEF Closes, Sends
  <2>2. sent' \subseteq {"analyze", "close"} \X Turns
    BY <2>1 DEF VadTypeOK
  <2>3. abandoned' \subseteq Turns
    BY <1>2 DEF Closes, Abandons, VadTypeOK
  <2>4. parting' \in Slot /\ UNCHANGED <<streams, heard, asked>>
    BY <1>2, SlotsAreTurns DEF Closes, Abandons, VadTypeOK
  <2> QED
    BY <2>2, <2>3, <2>4 DEF VadTypeOK
<1> QED
  BY <1>1, <1>2

\* The worker serves a request, or dies.
LEMMA WorkerStep ==
  ASSUME UsageInv, WorkerInv, (\E t \in Turns : Analyze(t) \/ Close(t)) \/ WorkerRestarts
  PROVE  WorkerInv'
<1> USE TurnsAssumption, SlotsAreTurns
    DEF UsageInv, TypeOK, WorkerInv, VadTypeOK, StreamsAreClosed, ChunkInv, FreshInv, DiscardInv, Closed,
        vars, slots, jobs, leave
<1>1. ASSUME NEW t \in Turns, Analyze(t) PROVE WorkerInv'
  BY <1>1 DEF Analyze
<1>2. ASSUME NEW t \in Turns, Close(t) PROVE WorkerInv'
  BY <1>2 DEF Close
<1>3. CASE WorkerRestarts
  BY <1>3 DEF WorkerRestarts
<1> QED
  BY <1>1, <1>2, <1>3

\* The receive loop sends chunks and closes streams.
LEMMA RecordingStreams ==
  ASSUME UsageInv, WorkerInv,
         VadChunk \/ VadChunkDone \/ VadChunkFails \/ VadDiscard \/ VadDiscarded
           \/ ((Start \/ StartAdmitted) /\ Quiet)
  PROVE  WorkerInv'
<1> USE TurnsAssumption, SlotsAreTurns
    DEF UsageInv, TypeOK, WorkerInv, VadTypeOK, StreamsAreClosed, ChunkInv, FreshInv, DiscardInv, Closed,
        Sends, Quiet, Opened, Abandons, GivesUp, Finds, Closes, ClosedOrGivenUp, vadVars, slots, jobs, leave, Takes
<1>1. CASE VadChunk
  BY <1>1 DEF VadChunk, Chunk
<1>2. CASE VadChunkDone
  BY <1>2 DEF VadChunkDone, ChunkDone
<1>3. CASE VadChunkFails
  BY <1>3 DEF VadChunkFails, ChunkFails
<1>4. CASE VadDiscard
  <2>0. active \in Turns
    BY <1>4 DEF VadDiscard, Discard
  <2>1. VadTypeOK'
    <3> HIDE DEF VadTypeOK, Sends, GivesUp, Abandons, Closes, Quiet
    <3> QED
      BY <1>4, <2>0, SendingTyped DEF VadDiscard
  <2>2. StreamsAreClosed'
    BY <1>4, <2>0 DEF VadDiscard, Discard
  <2>3. ChunkInv' /\ FreshInv'
    BY <1>4, <2>0 DEF VadDiscard, Discard
  <2>4. DiscardInv'
    BY <1>4, <2>0 DEF VadDiscard, Discard
  <2> QED
    BY <2>1, <2>2, <2>3, <2>4
<1>5. CASE VadDiscarded
  BY <1>5 DEF VadDiscarded, Discarded
<1>6. CASE Start /\ Quiet
  BY <1>6 DEF Start
<1>7. CASE StartAdmitted /\ Quiet
  BY <1>7 DEF StartAdmitted, Empty, Turns
<1> QED
  BY <1>1, <1>2, <1>3, <1>4, <1>5, <1>6, <1>7

\* A recording is ended, and its response ends or is cancelled.
LEMMA ResponseStreams ==
  ASSUME UsageInv, WorkerInv,
         VadEndBegins \/ (\E t \in Turns : VadJobEnds(t) \/ VadJobAsks(t))
           \/ VadCancelResponse \/ VadCancelClosed \/ VadCancelFails
  PROVE  WorkerInv'
<1> USE TurnsAssumption, SlotsAreTurns
    DEF UsageInv, TypeOK, WorkerInv, VadTypeOK, StreamsAreClosed, ChunkInv, FreshInv, DiscardInv, Closed,
        Sends, Quiet, Opened, Abandons, GivesUp, Finds, Closes, ClosedOrGivenUp, vadVars, slots, jobs, leave, Takes
<1>1. CASE VadEndBegins
  <2>0. /\ active' = NoTurn /\ UNCHANGED <<loop, begun>>
        /\ \/ (active = NoTurn \/ loop = "discarding") /\ Quiet
           \/ /\ active \in Turns /\ Sends("close", active)
              /\ UNCHANGED <<streams, heard, asked, parting, abandoned>>
           \/ active \in Turns /\ GivesUp(active)
    BY <1>1 DEF VadEndBegins, EndBegins
  <2>1. VadTypeOK'
    <3> HIDE DEF VadTypeOK, Sends, GivesUp, Abandons, Closes, Quiet
    <3> QED
      BY <1>1, <2>0, SendingTyped DEF VadEndBegins
  <2>2. StreamsAreClosed'
    <3>1. CASE (active = NoTurn \/ loop = "discarding") /\ Quiet
      BY <2>0, <3>1
    <3>2. CASE /\ active \in Turns /\ Sends("close", active)
               /\ UNCHANGED <<streams, heard, asked, parting, abandoned>>
      BY <2>0, <3>2
    <3>3. CASE active \in Turns /\ GivesUp(active)
      BY <2>0, <3>3
    <3> QED
      BY <2>0, <3>1, <3>2, <3>3
  <2>3. ChunkInv' /\ FreshInv'
    BY <2>0
  <2>4. DiscardInv'
    BY <2>0
  <2> QED
    BY <2>1, <2>2, <2>3, <2>4
<1>2. ASSUME NEW t \in Turns, VadJobEnds(t) PROVE WorkerInv'
  BY <1>2 DEF VadJobEnds, JobEnds, Ends
<1>3. ASSUME NEW t \in Turns, VadJobAsks(t) PROVE WorkerInv'
  BY <1>3 DEF VadJobAsks, JobAsks
<1>4. CASE VadCancelResponse
  BY <1>4 DEF VadCancelResponse, CancelResponse
<1>5. CASE VadCancelClosed
  BY <1>5 DEF VadCancelClosed, CancelClosed
<1>6. CASE VadCancelFails
  BY <1>6 DEF VadCancelFails, CancelFails, RoomInv, Empty, Waiting
<1> QED
  BY <1>1, <1>2, <1>3, <1>4, <1>5, <1>6

\* The connection ends.
LEMMA LeavingStreams ==
  ASSUME UsageInv, WorkerInv,
         VadLoss \/ VadSweep \/ VadLeftRecording \/ VadLeftClosing \/ VadUnwind
  PROVE  WorkerInv'
<1> USE TurnsAssumption, SlotsAreTurns
    DEF UsageInv, TypeOK, WorkerInv, VadTypeOK, StreamsAreClosed, ChunkInv, FreshInv, DiscardInv, Closed,
        Sends, Quiet, Opened, Abandons, GivesUp, Finds, Closes, ClosedOrGivenUp, vadVars, slots, jobs, leave, Takes
<1>1. CASE VadLoss
  BY <1>1 DEF VadLoss, Loss, ClosesFirst
<1>2. CASE VadSweep
  BY <1>2 DEF VadSweep, Sweep, Disconnects, ClosesFirst
<1>3. CASE VadLeftRecording
  <2>0. parting \in Slot /\ (leaving' = "closing" => processing \in Turns)
    BY <1>3 DEF VadLeftRecording, LeftRecording, ToProcessing, ToPending, LeaveRaises
  <2>1. VadTypeOK'
    <3> HIDE DEF VadTypeOK, Sends, GivesUp, Abandons, Closes, Quiet
    <3> QED
      BY <1>3, <2>0, SendingTyped DEF VadLeftRecording
  <2>2. StreamsAreClosed'
    BY <1>3, <2>0 DEF VadLeftRecording, LeftRecording
  <2>3. ChunkInv' /\ FreshInv'
    BY <1>3, <2>0 DEF VadLeftRecording, LeftRecording
  <2>4. DiscardInv'
    BY <1>3, <2>0 DEF VadLeftRecording, LeftRecording
  <2> QED
    BY <2>1, <2>2, <2>3, <2>4
<1>4. CASE VadLeftClosing
  BY <1>4 DEF VadLeftClosing, LeftClosing
<1>5. CASE VadUnwind
  BY <1>5 DEF VadUnwind, Unwind
<1> QED
  BY <1>1, <1>2, <1>3, <1>4, <1>5

\* No other step is about a stream, or begins a recording.
LEMMA OtherStreams ==
  ASSUME UsageInv, WorkerInv, Quiet,
         \/ End \/ Answer \/ CancelApproval \/ CancelJoined \/ Rejected \/ AnswerBegins
         \/ LeftJoining \/ LeftRejecting \/ Gathered \/ LossUntidy \/ Reconnect
         \/ BeginSwitch \/ Drained \/ DrainTimeout \/ EndSwitch
         \/ UNCHANGED vars
  PROVE  WorkerInv'
<1>1. /\ UNCHANGED <<active, begun>>
      /\ loop = "chunk" => loop' = "chunk"
      /\ loop' \in {"chunk", "discarding"} => loop' = loop
  BY DEF End, Answer, CancelApproval, CancelJoined, Rejected, AnswerBegins, LeftJoining,
         LeftRejecting, Gathered, LossUntidy, Reconnect, BeginSwitch, Drained, DrainTimeout,
         EndSwitch, Switches, vars, slots, leave, Takes
<1> QED
  BY <1>1 DEF Quiet, vadVars, WorkerInv, VadTypeOK, StreamsAreClosed, ChunkInv, FreshInv,
              DiscardInv, Closed

-----------------------------------------------------------------------------
(* The theorem. *)

\* Whatever the client, the connection, the tasks, the worker and the switch do,
\* and in whatever order: the session's turn is in one slot and is counted by the
\* barrier, a use that is held has somebody to release it, and a stream of the
\* worker is the recording's, or is being closed, or was given up.
THEOREM VoiceBalance == VadSpec => []VoiceIsBalanced
<1>1. VadInit => UsageInv /\ WorkerInv
  BY UsageStarts, SlotsAreTurns DEF VadInit, Init, WorkerInv, VadTypeOK, StreamsAreClosed, ChunkInv,
     FreshInv, DiscardInv
<1>2. UsageInv /\ WorkerInv /\ [VadNext]_allVars => UsageInv' /\ WorkerInv'
  <2> SUFFICES ASSUME UsageInv, WorkerInv, [VadNext]_allVars PROVE UsageInv' /\ WorkerInv'
    OBVIOUS
  <2>1. [Next]_vars
    BY DEF VadNext, VadLoop, VadJobs, VadLeave, VadChunk, VadChunkDone, VadChunkFails, VadDiscard,
           VadDiscarded, VadEndBegins, VadJobEnds, VadJobAsks, VadCancelResponse, VadCancelClosed,
           VadCancelFails, VadLoss, VadSweep, VadLeftRecording, VadLeftClosing, VadUnwind,
           Analyze, Close, WorkerRestarts, allVars, Next, Loop, Jobs, Leave
  <2>2. WorkerInv'
    <3>1. CASE VadNext
      BY <3>1, WorkerStep, RecordingStreams, ResponseStreams, LeavingStreams, OtherStreams
         DEF VadNext, VadLoop, VadJobs, VadLeave
    <3>2. CASE UNCHANGED allVars
      BY <3>2, OtherStreams DEF allVars, Quiet
    <3> QED
      BY <3>1, <3>2
  <2> QED
    BY <2>1, <2>2, UsageStep
<1>3. UsageInv /\ WorkerInv => VoiceIsBalanced
  BY UsageSuffices DEF WorkerInv, VoiceIsBalanced
<1> QED
  BY <1>1, <1>2, <1>3, PTL DEF VadSpec

-----------------------------------------------------------------------------
(* The session protocol.

   That events arrive in order and once is not inductive: it rests on what
   the network and the handler still hold.  While the connection is up, every
   event that the client is owed is on the wire or waits to be replayed
   behind it (PipeInv); after it is lost, what is still on the wire comes
   before everything that is owed and is not on it (WireInv).  A connection
   begins with that because the buffer of the session holds every event above
   its floor that is kept (RecordInv), and no connection begins below the
   floor. *)

\* Sequences of numbers that grow, and what they hold.
InOrder(s) == \A i, j \in DOMAIN s : i < j => s[i] < s[j]
Among(k, s) == \E i \in DOMAIN s : s[i] = k

\* What the client is owed: the protocol does not let it miss this event.
Owed(k) == k \in 0..(Len(recorded) - 1) /\ ~Delivery!MayBeMissed(recorded[k + 1])

\* The record of a session and its buffer.
RecordInv ==
  exists =>
    /\ last = Len(recorded) - 1 /\ floor <= last
    /\ Len(buffer) <= Window /\ InOrder(buffer)
    /\ \A i \in DOMAIN buffer : buffer[i] <= last
    /\ \A n \in 0..last : Among(n, buffer) <=> n > floor /\ recorded[n + 1].kind = "kept"
    /\ \A n \in 0..last : recorded[n + 1].kind = "oversized" => n <= floor

\* Where the client and the handler are while their connection is up.
ConnectionInv ==
  /\ OneConnection /\ NothingIsLeftover
  /\ linkUp =>
       /\ client \in {"opening", "open"}
       /\ endpoint \in {"accepting", "replaying", "greeting", "serving"}
       /\ ~sendFailed
  /\ endpoint \in {"greeting", "serving", "closing"} => toReplay = <<>>

\* The client has seen nothing that was not recorded, and a first request
\* comes from a client that has seen nothing.
ClientInv ==
  /\ fault # "replay"
  /\ -1 <= position /\ position < Len(recorded)
  /\ first /\ client \in {"idle", "requesting"} => position = -1

Listens == client \in {"opening", "open"}

\* What may still reach the client.
WireInv ==
  Listens =>
    /\ InOrder(wire)
    /\ \A i \in DOMAIN wire : position < wire[i] /\ wire[i] < Len(recorded)
    /\ \A k \in Nat : Owed(k) /\ position < k =>
         Among(k, wire) \/ \A i \in DOMAIN wire : wire[i] < k

\* What the connection still has to deliver.
PipeInv ==
  linkUp =>
    /\ InOrder(toReplay)
    /\ \A j \in DOMAIN toReplay : position < toReplay[j] /\ toReplay[j] < Len(recorded)
    /\ \A i \in DOMAIN wire, j \in DOMAIN toReplay : wire[i] < toReplay[j]
    /\ \A k \in Nat : Owed(k) /\ position < k => Among(k, wire) \/ Among(k, toReplay)

\* Together, inductive.
SessionInv == SessionTypeOK /\ RecordInv /\ ConnectionInv /\ ClientInv /\ WireInv /\ PipeInv

\* Growing at the end, shrinking at the front, and the end of a sequence.
LEMMA Appended ==
  ASSUME NEW s \in Seq(Nat), NEW x \in Nat
  PROVE  /\ Append(s, x) \in Seq(Nat)
         /\ \A k : Among(k, Append(s, x)) <=> Among(k, s) \/ k = x
         /\ InOrder(s) /\ (\A i \in DOMAIN s : s[i] < x) => InOrder(Append(s, x))
         /\ \A i \in DOMAIN Append(s, x) :
              Append(s, x)[i] = x \/ \E j \in DOMAIN s : Append(s, x)[i] = s[j]
<1> DEFINE t == Append(s, x)
<1>1. t \in Seq(Nat) /\ Len(t) = Len(s) + 1 /\ DOMAIN t = 1..(Len(s) + 1) /\ DOMAIN s = 1..Len(s) /\ Len(s) \in Nat
  OBVIOUS
<1>2. t[Len(s) + 1] = x /\ \A i \in 1..Len(s) : t[i] = s[i]
  OBVIOUS
<1> HIDE DEF t
<1>3. \A k : Among(k, t) <=> Among(k, s) \/ k = x
  BY <1>1, <1>2 DEF Among
<1>4. ASSUME InOrder(s), \A i \in DOMAIN s : s[i] < x  PROVE InOrder(t)
  <2> SUFFICES ASSUME NEW i \in DOMAIN t, NEW j \in DOMAIN t, i < j  PROVE t[i] < t[j]
    BY DEF InOrder
  <2>1. CASE j = Len(s) + 1  BY <2>1, <1>1, <1>2, <1>4
  <2>2. CASE j # Len(s) + 1
    <3>1. i \in DOMAIN s /\ j \in DOMAIN s /\ t[i] = s[i] /\ t[j] = s[j]  BY <2>2, <1>1, <1>2
    <3> QED  BY <3>1, <1>4 DEF InOrder
  <2> QED  BY <2>1, <2>2
<1>5. \A i \in DOMAIN t : t[i] = x \/ \E j \in DOMAIN s : t[i] = s[j]
  <2> TAKE i \in DOMAIN t
  <2>1. i \in 1..Len(s) \/ i = Len(s) + 1  BY <1>1
  <2>2. CASE i \in 1..Len(s)
    <3>1. i \in DOMAIN s /\ t[i] = s[i]  BY <2>2, <1>1, <1>2
    <3> QED  BY <3>1
  <2>3. CASE i = Len(s) + 1
    BY <2>3, <1>2
  <2> QED  BY <2>1, <2>2, <2>3
<1> QED  BY <1>1, <1>3, <1>4, <1>5 DEF t

LEMMA Shortened ==
  ASSUME NEW s \in Seq(Nat), s # <<>>
  PROVE  /\ Tail(s) \in Seq(Nat) /\ Head(s) \in Nat /\ Head(s) = s[1] /\ 1 \in DOMAIN s
         /\ Len(Tail(s)) = Len(s) - 1
         /\ \A k : Among(k, s) <=> Among(k, Tail(s)) \/ k = Head(s)
         /\ InOrder(s) => InOrder(Tail(s)) /\ \A i \in DOMAIN Tail(s) : Head(s) < Tail(s)[i]
         /\ \A i \in DOMAIN Tail(s) : i + 1 \in DOMAIN s /\ Tail(s)[i] = s[i + 1]
<1> DEFINE t == Tail(s)
<1>1. t \in Seq(Nat) /\ Len(t) = Len(s) - 1 /\ DOMAIN t = 1..(Len(s) - 1) /\ DOMAIN s = 1..Len(s) /\ Len(s) \in Nat \ {0}
  OBVIOUS
<1>2. \A i \in 1..(Len(s) - 1) : t[i] = s[i + 1]
  OBVIOUS
<1>h. Head(s) \in Nat /\ Head(s) = s[1] /\ 1 \in DOMAIN s
  BY <1>1
<1> HIDE DEF t
<1>3. \A k : Among(k, s) <=> Among(k, t) \/ k = Head(s)
  <2> TAKE k
  <2>1. ASSUME NEW i \in DOMAIN s, s[i] = k  PROVE Among(k, t) \/ k = Head(s)
    <3>1. CASE i = 1  BY <3>1, <2>1, <1>h
    <3>2. CASE i # 1
      <4>0. i - 1 \in 1..(Len(s) - 1) /\ (i - 1) + 1 = i
        <5>1. i \in 1..Len(s) /\ Len(s) \in Nat  BY <1>1
        <5> QED  BY ONLY <5>1, <3>2
      <4>1. i - 1 \in DOMAIN t /\ t[i - 1] = k  BY <4>0, <2>1, <1>1, <1>2
      <4> QED  BY <4>1 DEF Among
    <3> QED  BY <3>1, <3>2
  <2>2. ASSUME NEW i \in DOMAIN t, t[i] = k PROVE Among(k, s)
    <3>1. i + 1 \in DOMAIN s /\ s[i + 1] = k  BY <2>2, <1>1, <1>2
    <3> QED  BY <3>1 DEF Among
  <2> QED  BY <2>1, <2>2, <1>h DEF Among
<1>5. \A i \in DOMAIN t : i + 1 \in DOMAIN s /\ t[i] = s[i + 1]
  BY <1>1, <1>2
<1>4. ASSUME InOrder(s)  PROVE InOrder(t) /\ \A i \in DOMAIN t : Head(s) < t[i]
  <2>1. ASSUME NEW i \in DOMAIN t  PROVE Head(s) < t[i]
    <3>1. i + 1 \in DOMAIN s /\ t[i] = s[i + 1] /\ 1 < i + 1  BY <1>1, <1>5
    <3> QED  BY <3>1, <1>h, <1>4 DEF InOrder
  <2>2. ASSUME NEW i \in DOMAIN t, NEW j \in DOMAIN t, i < j  PROVE t[i] < t[j]
    <3>1. i + 1 \in DOMAIN s /\ j + 1 \in DOMAIN s /\ i + 1 < j + 1
      BY <1>1, <1>5, <2>2
    <3>2. t[i] = s[i + 1] /\ t[j] = s[j + 1]
      BY <1>5, Zenon
    <3> QED  BY <3>1, <3>2, <1>4 DEF InOrder
  <2> QED  BY <2>1, <2>2 DEF InOrder
<1> QED  BY <1>1, <1>3, <1>4, <1>5, <1>h DEF t

LEMMA EndOf ==
  ASSUME NEW s \in Seq(Nat), NEW k \in 0..Len(s), InOrder(s)
  PROVE  LET t == SubSeq(s, k + 1, Len(s)) IN
         /\ t \in Seq(Nat) /\ InOrder(t)
         /\ \A i \in DOMAIN t : i + k \in DOMAIN s /\ i + k > k /\ t[i] = s[i + k]
         /\ \A i \in DOMAIN s : i > k => Among(s[i], t)
<1> DEFINE t == SubSeq(s, k + 1, Len(s))
<1>0. Len(s) \in Nat /\ DOMAIN s = 1..Len(s)
  OBVIOUS
<1>1. t \in Seq(Nat) /\ Len(t) = Len(s) - k
  <2>1. SubSeq(s, k + 1, Len(s)) \in Seq(Nat)  OBVIOUS
  <2>2. \A i \in (k + 1)..Len(s) : s[i] \in Nat  BY <1>0
  <2>3. k + 1 \in Int /\ Len(s) \in Int  BY <1>0
  <2>4. Len(SubSeq(s, k + 1, Len(s))) = IF k + 1 <= Len(s) THEN Len(s) - (k + 1) + 1 ELSE 0
    BY <2>2, <2>3, SubSeqProperties
  <2>5. ASSUME NEW n \in Nat, k \in 0..n
        PROVE (IF k + 1 <= n THEN n - (k + 1) + 1 ELSE 0) = n - k
    <3>1. k \in Int /\ n \in Int /\ k <= n  BY <2>5
    <3> HIDE DEF t
    <3>2. CASE k = n  BY <3>1, <3>2
    <3>3. CASE k + 1 <= n  BY <3>1, <3>3
    <3> QED  BY <3>1, <3>2, <3>3
  <2> QED  BY <1>0, <2>1, <2>4, <2>5
<1>2. \A i \in 1..(Len(s) - k) : t[i] = s[i + k]
  OBVIOUS
<1>3. DOMAIN t = 1..(Len(s) - k)
  BY <1>1
<1> HIDE DEF t
<1>5. \A i \in DOMAIN t : i + k \in DOMAIN s /\ i + k > k /\ t[i] = s[i + k]
  BY <1>0, <1>2, <1>3
<1>4. InOrder(t)
  <2> SUFFICES ASSUME NEW i \in DOMAIN t, NEW j \in DOMAIN t, i < j  PROVE t[i] < t[j]
    BY DEF InOrder
  <2>1. /\ i + k \in DOMAIN s /\ j + k \in DOMAIN s /\ i + k < j + k
        /\ t[i] = s[i + k] /\ t[j] = s[j + k]
    BY <1>3, <1>5
  <2> QED  BY <2>1 DEF InOrder
<1>6. ASSUME NEW i \in DOMAIN s, i > k  PROVE Among(s[i], t)
  <2>1. i - k \in DOMAIN t /\ t[i - k] = s[i]  BY <1>6, <1>0, <1>2, <1>3
  <2> QED  BY <2>1 DEF Among
<1> QED  BY <1>1, <1>4, <1>5, <1>6 DEF t

\* What a recorded event adds.
LEMMA OneMore ==
  ASSUME SessionTypeOK, NEW e \in Delivery!Events, recorded' = Append(recorded, e)
  PROVE  /\ recorded' \in Seq(Delivery!Events) /\ Len(recorded') = Len(recorded) + 1 /\ Len(recorded) \in Nat
         /\ recorded'[Len(recorded) + 1] = e
         /\ \A n \in 0..(Len(recorded) - 1) : recorded'[n + 1] = recorded[n + 1]
         /\ \A k \in Nat : Owed(k)' => Owed(k) \/ (k = Len(recorded) /\ ~Delivery!MayBeMissed(e))
<1>1. recorded \in Seq(Delivery!Events)
  BY DEF SessionTypeOK
<1>2. recorded' \in Seq(Delivery!Events) /\ Len(recorded') = Len(recorded) + 1 /\ Len(recorded) \in Nat
  BY <1>1
<1>3. recorded'[Len(recorded) + 1] = e /\ \A n \in 0..(Len(recorded) - 1) : recorded'[n + 1] = recorded[n + 1]
  BY <1>1
<1>4. \A k \in Nat : Owed(k)' => Owed(k) \/ (k = Len(recorded) /\ ~Delivery!MayBeMissed(e))
  BY <1>2, <1>3 DEF Owed, Delivery!MayBeMissed
<1> QED  BY <1>2, <1>3, <1>4

\* The type invariant in two parts.
Flags ==
  /\ exists \in BOOLEAN /\ connected \in BOOLEAN /\ leftBehind \in BOOLEAN
  /\ busy \in BOOLEAN /\ job \in BOOLEAN /\ sendFailed \in BOOLEAN /\ orphan \in BOOLEAN
  /\ linkUp \in BOOLEAN /\ first \in BOOLEAN /\ retrying \in BOOLEAN

Contents ==
  /\ last \in Int /\ last >= -1 /\ floor \in Int /\ floor >= -1 /\ buffer \in Seq(Nat)
  /\ endpoint \in Endpoints /\ toReplay \in Seq(Nat)
  /\ expiry \in {"none", "sleeping", "disposing"}
  /\ recorded \in Seq(Delivery!Events)
  /\ wire \in Seq(Nat) /\ failures \in 0..MaxFailures
  /\ client \in Clients /\ position \in Int
  /\ fault \in Faults

\* Each part survives what does not concern it.
LEMMA RecordKept ==
  ASSUME RecordInv, exists' => exists, UNCHANGED <<recorded, last, floor, buffer>>
  PROVE  RecordInv'
<1>1. CASE exists'
  <2>1. exists  BY <1>1
  <2> QED  BY <2>1 DEF RecordInv, InOrder, Among
<1>2. CASE ~exists'
  BY <1>2 DEF RecordInv
<1> QED  BY <1>1, <1>2

LEMMA WireKept ==
  ASSUME WireInv, UNCHANGED <<recorded, wire, position>>, Listens' => Listens
  PROVE  WireInv'
<1>1. \A k \in Nat : Owed(k)' <=> Owed(k)
  BY DEF Owed, Delivery!MayBeMissed
<1>2. CASE Listens'
  <2>1. Listens  BY <1>2
  <2> QED  BY <2>1, <1>1 DEF WireInv, InOrder, Among
<1>3. CASE ~Listens'
  BY <1>3 DEF WireInv
<1> QED  BY <1>2, <1>3

LEMMA PipeKept ==
  ASSUME PipeInv, UNCHANGED <<recorded, wire, toReplay, position>>, linkUp' => linkUp
  PROVE  PipeInv'
<1>1. \A k \in Nat : Owed(k)' <=> Owed(k)
  BY DEF Owed, Delivery!MayBeMissed
<1>2. CASE linkUp'
  <2>1. linkUp  BY <1>2
  <2> QED  BY <2>1, <1>1 DEF PipeInv, InOrder, Among
<1>3. CASE ~linkUp'
  BY <1>3 DEF PipeInv
<1> QED  BY <1>2, <1>3

\* An event is recorded, and the buffer still holds what is to be replayed.
LEMMA Noted ==
  ASSUME SessionInv, exists, NEW kind \in Delivery!Kinds, NEW by \in Delivery!Authors,
         recorded' = Append(recorded, [kind |-> kind, by |-> by]),
         last' = last + 1, exists' => exists, Keep(last + 1, kind)
  PROVE  /\ RecordInv'
         /\ last' \in Int /\ last' >= -1 /\ floor' \in Int /\ floor' >= -1 /\ buffer' \in Seq(Nat)
         /\ recorded' \in Seq(Delivery!Events) /\ last + 1 = Len(recorded) /\ last + 1 \in Nat
<1> DEFINE e == [kind |-> kind, by |-> by]  n == last + 1
<1>1. e \in Delivery!Events /\ e.kind = kind
  BY DEF Delivery!Events
<1>2. /\ recorded' \in Seq(Delivery!Events) /\ Len(recorded') = Len(recorded) + 1 /\ Len(recorded) \in Nat
      /\ recorded'[Len(recorded) + 1] = e
      /\ \A k \in 0..(Len(recorded) - 1) : recorded'[k + 1] = recorded[k + 1]
  BY <1>1, OneMore DEF SessionInv
<1>3. /\ last = Len(recorded) - 1 /\ floor <= last
      /\ Len(buffer) <= Window /\ InOrder(buffer)
      /\ \A i \in DOMAIN buffer : buffer[i] <= last
      /\ \A k \in 0..last : Among(k, buffer) <=> k > floor /\ recorded[k + 1].kind = "kept"
      /\ \A k \in 0..last : recorded[k + 1].kind = "oversized" => k <= floor
  BY DEF SessionInv, RecordInv
<1>4. last \in Int /\ last >= -1 /\ floor \in Int /\ floor >= -1 /\ buffer \in Seq(Nat) /\ Window \in Nat \ {0}
  BY BoundsAssumption DEF SessionInv, SessionTypeOK
<1>5. n = Len(recorded) /\ n \in Nat /\ last' = n /\ last' = Len(recorded') - 1
  BY <1>2, <1>3, <1>4
<1>6. recorded'[n + 1].kind = kind /\ \A k \in 0..last : recorded'[k + 1] = recorded[k + 1]
  <2>1. last = Len(recorded) - 1  BY <1>3
  <2>2. recorded'[n + 1] = e  BY <1>2, <1>5
  <2>3. \A k \in 0..last : recorded'[k + 1] = recorded[k + 1]  BY <1>2, <2>1
  <2> HIDE DEF e, n
  <2> QED  BY <1>1, <2>2, <2>3
<1>7. \A k \in 0..last' : k \in 0..last \/ k = n
  BY <1>4, <1>5
<1> HIDE DEF e, n
<1>8. n = last + 1
  BY DEF n
<1>t. CASE kind = "transient"
  <2>1. UNCHANGED <<buffer, floor>>  BY <1>t DEF Keep
  <2>2. ~Among(n, buffer)  BY <1>3, <1>4, <1>8 DEF Among
  <2>3. \A k \in 0..last' : Among(k, buffer') <=> k > floor' /\ recorded'[k + 1].kind = "kept"
    BY <2>1, <2>2, <1>t, <1>3, <1>6, <1>7 DEF Among
  <2>4. \A k \in 0..last' : recorded'[k + 1].kind = "oversized" => k <= floor'
    BY <2>1, <1>t, <1>3, <1>6, <1>7
  <2>5. \A i \in DOMAIN buffer' : buffer'[i] <= last'  BY <2>1, <1>3, <1>4, <1>5, <1>8
  <2>6. floor' <= last'  BY <2>1, <1>3, <1>4, <1>5, <1>8
  <2>7. InOrder(buffer') /\ Len(buffer') <= Window  BY <2>1, <1>3
  <2>8. RecordInv'  BY <2>3, <2>4, <2>5, <2>6, <2>7, <1>5 DEF RecordInv
  <2> QED  BY <2>1, <2>8, <1>2, <1>4, <1>5
<1>o. CASE kind = "oversized"
  <2>1. buffer' = <<>> /\ floor' = n  BY <1>o DEF Keep, n
  <2>2. ~\E k \in 0..last' : Among(k, buffer')  BY <2>1 DEF Among
  <2>3. \A k \in 0..last' : k <= floor'  BY <2>1, <1>5
  <2> QED  BY <2>1, <2>2, <2>3, <1>2, <1>4, <1>5 DEF RecordInv, InOrder
<1>k. CASE kind = "kept"
  <2> DEFINE all == Append(buffer, n)
  <2>1. /\ buffer' = (IF Len(all) > Window THEN Tail(all) ELSE all)
        /\ floor' = (IF Len(all) > Window THEN Head(all) ELSE floor)
    BY <1>k DEF Keep, n
  <2>2. \A i \in DOMAIN buffer : buffer[i] < n
    BY <1>3, <1>4, <1>8
  <2>3. /\ all \in Seq(Nat) /\ InOrder(all) /\ Len(all) = Len(buffer) + 1 /\ all # <<>>
        /\ \A k : Among(k, all) <=> Among(k, buffer) \/ k = n
        /\ \A i \in DOMAIN all : all[i] <= n
    <3>1. all \in Seq(Nat) /\ InOrder(all) /\ \A k : Among(k, all) <=> Among(k, buffer) \/ k = n
      BY <1>3, <1>4, <1>5, <2>2, Appended
    <3>2. \A i \in DOMAIN all : all[i] = n \/ \E j \in DOMAIN buffer : all[i] = buffer[j]
      BY <1>4, <1>5, Appended
    <3>3. Len(all) = Len(buffer) + 1 /\ all # <<>>  BY <1>4, <1>5
    <3>4. \A i \in DOMAIN all : all[i] <= n
      <4> TAKE i \in DOMAIN all
      <4>1. CASE all[i] = n  BY <4>1, <1>5
      <4>2. CASE \E j \in DOMAIN buffer : all[i] = buffer[j]
        <5>1. PICK j \in DOMAIN buffer : all[i] = buffer[j]  BY <4>2
        <5>2. buffer[j] < n  BY <2>2
        <5>3. buffer[j] \in Nat  BY <1>4
        <5> QED  BY <5>1, <5>2, <5>3, <1>5
      <4> QED  BY <4>1, <4>2, <3>2
    <3> QED  BY <3>1, <3>3, <3>4
  <2>4. \A k \in 0..last' : Among(k, all) <=> k > floor /\ recorded'[k + 1].kind = "kept"
    <3>1. ASSUME NEW k \in 0..last  PROVE Among(k, all) <=> k > floor /\ recorded'[k + 1].kind = "kept"
      <4>1. k # n  BY <1>4, <1>8
      <4> QED  BY <4>1, <2>3, <1>3, <1>6
    <3>2. Among(n, all) /\ n > floor /\ recorded'[n + 1].kind = "kept"
      BY <2>3, <1>k, <1>3, <1>4, <1>6, <1>8
    <3> HIDE DEF all
    <3> QED  BY <3>1, <3>2, <1>7
  <2>5. \A k \in 0..last' : recorded'[k + 1].kind = "oversized" => k <= floor
    BY <1>k, <1>3, <1>6, <1>7
  <2> HIDE DEF all
  <2>6. CASE Len(all) > Window
    <3>1. buffer' = Tail(all) /\ floor' = Head(all)  BY <2>1, <2>6
    <3>2. /\ Tail(all) \in Seq(Nat) /\ Head(all) \in Nat /\ Len(Tail(all)) = Len(all) - 1
          /\ Head(all) = all[1] /\ 1 \in DOMAIN all
      BY <2>3, Shortened
    <3>3. \A k : Among(k, all) <=> Among(k, Tail(all)) \/ k = Head(all)
      BY <2>3, Shortened
    <3>4. InOrder(Tail(all)) /\ \A i \in DOMAIN Tail(all) : Head(all) < Tail(all)[i]
      BY <2>3, Shortened
    <3>5. \A i \in DOMAIN Tail(all) : i + 1 \in DOMAIN all /\ Tail(all)[i] = all[i + 1]
      BY <2>3, Shortened
    <3>6. Head(all) <= n /\ Among(Head(all), all)  BY <3>2, <2>3 DEF Among
    <3>7. Head(all) > floor
      <4>1. Head(all) \in 0..last'  BY <3>2, <3>6, <1>5
      <4> QED  BY <4>1, <3>6, <2>4
    <3>8. \A k \in 0..last' : Among(k, Tail(all)) => k > Head(all)  BY <3>4 DEF Among
    <3>9. ASSUME NEW k \in 0..last', k > Head(all), recorded'[k + 1].kind = "kept"
          PROVE  Among(k, Tail(all))
      <4>1. k > floor /\ k # Head(all)  BY <3>9, <3>7, <3>2, <1>4
      <4> QED  BY <4>1, <3>9, <3>3, <2>4
    <3>10. \A k \in 0..last' : Among(k, buffer') <=> k > floor' /\ recorded'[k + 1].kind = "kept"
      BY <3>1, <3>3, <3>8, <3>9, <2>4
    <3>11. \A k \in 0..last' : recorded'[k + 1].kind = "oversized" => k <= floor'
      <4> SUFFICES ASSUME NEW k \in 0..last', recorded'[k + 1].kind = "oversized"  PROVE k <= Head(all)
        BY <3>1
      <4>1. k <= floor  BY <2>5
      <4> QED  BY <4>1, <3>2, <3>7, <1>4, <1>5
    <3>12. \A i \in DOMAIN buffer' : buffer'[i] <= last'  BY <3>1, <3>5, <2>3, <1>5
    <3>13. Len(buffer') <= Window  BY <3>1, <3>2, <2>3, <1>3, <1>4
    <3>14. floor' <= last' /\ InOrder(buffer')  BY <3>1, <3>4, <3>6, <1>5
    <3>15. RecordInv'  BY <3>10, <3>11, <3>12, <3>13, <3>14, <1>5 DEF RecordInv
    <3> QED  BY <3>1, <3>2, <3>15, <1>2, <1>4, <1>5
  <2>7. CASE ~(Len(all) > Window)
    <3>1. buffer' = all /\ floor' = floor  BY <2>1, <2>7
    <3>2. Len(buffer') <= Window  BY <3>1, <2>7, <2>3, <1>4
    <3>3. floor' <= last'  BY <3>1, <1>3, <1>4, <1>5, <1>8
    <3> QED  BY <3>1, <3>2, <3>3, <2>3, <2>4, <2>5, <1>2, <1>4, <1>5 DEF RecordInv
  <2> QED  BY <2>6, <2>7
<1> QED
  BY <1>t, <1>o, <1>k DEF Delivery!Kinds

\* What does not touch the record, the network or the positions.
LEMMA Untouched ==
  ASSUME SessionInv, UNCHANGED <<recorded, last, floor, buffer, wire, toReplay, position>>,
         exists' => exists, Listens' => Listens, linkUp' => linkUp
  PROVE  RecordInv' /\ WireInv' /\ PipeInv'
BY RecordKept, WireKept, PipeKept DEF SessionInv

\* What the invariant says of the network, with the types of its parts.
LEMMA Piped ==
  ASSUME SessionInv
  PROVE  /\ wire \in Seq(Nat) /\ toReplay \in Seq(Nat) /\ position \in Int
         /\ -1 <= position /\ position < Len(recorded) /\ Len(recorded) \in Nat
         /\ \A i \in DOMAIN wire : wire[i] \in Nat
         /\ \A k \in Nat : Owed(k) => k < Len(recorded)
<1>1. /\ wire \in Seq(Nat) /\ toReplay \in Seq(Nat) /\ position \in Int
      /\ -1 <= position /\ position < Len(recorded) /\ Len(recorded) \in Nat
  BY DEF SessionInv, SessionTypeOK, ClientInv
<1>2. \A i \in DOMAIN wire : wire[i] \in Nat
  BY <1>1
<1>3. \A k \in Nat : Owed(k) => k < Len(recorded)
  BY <1>1 DEF Owed
<1> QED  BY <1>1, <1>2, <1>3

\* An event is recorded and sent, or the link is gone, or it may be missed.
LEMMA SentOn ==
  ASSUME SessionInv, NEW e \in Delivery!Events, recorded' = Append(recorded, e),
         linkUp, toReplay = <<>>, UNCHANGED <<position, linkUp, toReplay>>,
         wire' = Append(wire, Len(recorded))
  PROVE  WireInv' /\ PipeInv' /\ wire' \in Seq(Nat)
<1> DEFINE n == Len(recorded)
<1>1. /\ Len(recorded') = n + 1
      /\ \A k \in Nat : Owed(k)' => Owed(k) \/ k = n
  BY OneMore DEF SessionInv
<1>2. /\ wire \in Seq(Nat) /\ position \in Int /\ position < n /\ n \in Nat
      /\ \A k \in Nat : Owed(k) => k < n
  BY Piped
<1>3. Listens /\ InOrder(wire) /\ \A i \in DOMAIN wire : position < wire[i] /\ wire[i] < n
  BY DEF SessionInv, ConnectionInv, Listens, WireInv
<1>4. \A k \in Nat : Owed(k) /\ position < k => Among(k, wire)
  BY DEF SessionInv, PipeInv, Among
<1>5. wire' = Append(wire, n)
  OBVIOUS
<1> HIDE DEF n
<1>6. /\ wire' \in Seq(Nat) /\ InOrder(wire')
      /\ \A k : Among(k, wire') <=> Among(k, wire) \/ k = n
      /\ \A i \in DOMAIN wire' : wire'[i] = n \/ \E j \in DOMAIN wire : wire'[i] = wire[j]
  BY <1>2, <1>3, <1>5, Appended
<1>7. \A i \in DOMAIN wire' : position' < wire'[i] /\ wire'[i] < n + 1
  <2> TAKE i \in DOMAIN wire'
  <2>1. CASE wire'[i] = n  BY <2>1, <1>2
  <2>2. CASE \E j \in DOMAIN wire : wire'[i] = wire[j]
    <3>1. PICK j \in DOMAIN wire : wire'[i] = wire[j]  BY <2>2
    <3>2. wire[j] \in Nat /\ position < wire[j] /\ wire[j] < n  BY <1>2, <1>3
    <3> QED  BY <3>1, <3>2, <1>2
  <2> QED  BY <2>1, <2>2, <1>6
<1>8. \A k \in Nat : Owed(k)' /\ position' < k => Among(k, wire')
  BY <1>1, <1>4, <1>6
<1>9. WireInv'
  BY <1>1, <1>6, <1>7, <1>8 DEF WireInv
<1>10. PipeInv'
  <2>1. DOMAIN toReplay' = {}  OBVIOUS
  <2> QED  BY <2>1, <1>8 DEF PipeInv, InOrder
<1> QED  BY <1>6, <1>9, <1>10

LEMMA SentInVain ==
  ASSUME SessionInv, NEW e \in Delivery!Events, recorded' = Append(recorded, e),
         UNCHANGED <<position, linkUp, wire>>, Listens' => Listens,
         ~linkUp \/ (Delivery!MayBeMissed(e) /\ UNCHANGED toReplay)
  PROVE  WireInv' /\ PipeInv'
<1> DEFINE n == Len(recorded)
<1>1. /\ Len(recorded') = n + 1
      /\ \A k \in Nat : Owed(k)' => Owed(k) \/ (k = n /\ ~Delivery!MayBeMissed(e))
  BY OneMore DEF SessionInv
<1>2. /\ wire \in Seq(Nat) /\ position \in Int /\ position < n /\ n \in Nat
      /\ \A i \in DOMAIN wire : wire[i] \in Nat
      /\ toReplay \in Seq(Nat)
  BY Piped
<1>3. CASE Listens
  <2>1. /\ InOrder(wire) /\ \A i \in DOMAIN wire : position < wire[i] /\ wire[i] < n
        /\ \A k \in Nat : Owed(k) /\ position < k =>
             Among(k, wire) \/ \A i \in DOMAIN wire : wire[i] < k
    BY <1>3 DEF SessionInv, WireInv
  <2> HIDE DEF n
  <2>2. \A i \in DOMAIN wire : wire[i] < n + 1
    BY <1>2, <2>1
  <2>3. \A k \in Nat : Owed(k)' /\ position < k =>
             Among(k, wire) \/ \A i \in DOMAIN wire : wire[i] < k
    BY <1>1, <2>1
  <2>4. WireInv'
    BY <1>1, <2>1, <2>2, <2>3 DEF WireInv, InOrder, Among
  <2> QED
    <3>1. CASE ~linkUp  BY <3>1, <2>4 DEF PipeInv
    <3>2. CASE linkUp /\ Delivery!MayBeMissed(e) /\ UNCHANGED toReplay
      <4>1. /\ InOrder(toReplay)
            /\ \A j \in DOMAIN toReplay : position < toReplay[j] /\ toReplay[j] < n
            /\ \A i \in DOMAIN wire, j \in DOMAIN toReplay : wire[i] < toReplay[j]
            /\ \A k \in Nat : Owed(k) /\ position < k => Among(k, wire) \/ Among(k, toReplay)
        BY <3>2 DEF SessionInv, PipeInv, n
      <4>2. \A j \in DOMAIN toReplay : toReplay[j] < n + 1
        <5> TAKE j \in DOMAIN toReplay
        <5>1. toReplay[j] \in Nat /\ toReplay[j] < n  BY <4>1, <1>2
        <5> QED  BY <5>1, <1>2
      <4>3. \A k \in Nat : Owed(k)' /\ position < k => Among(k, wire) \/ Among(k, toReplay)
        BY <4>1, <1>1, <3>2
      <4>4. PipeInv'
        BY <3>2, <1>1, <4>1, <4>2, <4>3 DEF PipeInv, InOrder, Among
      <4> QED  BY <2>4, <4>4
    <3> QED  BY <3>1, <3>2
<1>4. CASE ~Listens
  BY <1>4 DEF SessionInv, ConnectionInv, WireInv, PipeInv, Listens
<1> QED  BY <1>3, <1>4

\* The client accepts the first event on the wire: nothing it is owed is before it.
LEMMA DeliverKeeps ==
  ASSUME SessionInv, Deliver
  PROVE  SessionInv' /\ wire # <<>> /\ Head(wire) \in Nat /\ Head(wire) < Len(recorded)
         /\ position < Head(wire) /\ position' = Head(wire) /\ UNCHANGED recorded
         /\ \A k \in Nat : Owed(k) /\ position < k => Head(wire) <= k
<1>1. wire # <<>> /\ wire \in Seq(Nat) /\ Listens /\ UNCHANGED recorded
  BY DEF SessionInv, SessionTypeOK, Deliver, Listens
<1>2. /\ Tail(wire) \in Seq(Nat) /\ Head(wire) \in Nat /\ Head(wire) = wire[1] /\ 1 \in DOMAIN wire
      /\ \A k : Among(k, wire) <=> Among(k, Tail(wire)) \/ k = Head(wire)
      /\ InOrder(wire) => InOrder(Tail(wire)) /\ \A i \in DOMAIN Tail(wire) : Head(wire) < Tail(wire)[i]
      /\ \A i \in DOMAIN Tail(wire) : i + 1 \in DOMAIN wire /\ Tail(wire)[i] = wire[i + 1]
  BY <1>1, Shortened
<1>3. /\ InOrder(wire)
      /\ \A i \in DOMAIN wire : position < wire[i] /\ wire[i] < Len(recorded)
      /\ \A k \in Nat : Owed(k) /\ position < k =>
             Among(k, wire) \/ \A i \in DOMAIN wire : wire[i] < k
  BY <1>1 DEF SessionInv, WireInv
<1>4. position < Head(wire) /\ Head(wire) < Len(recorded)
  BY <1>2, <1>3
<1>5. /\ wire' = Tail(wire) /\ position' = Head(wire)
      /\ UNCHANGED <<client, linkUp, fault>>
  BY <1>2, <1>4 DEF SessionInv, SessionTypeOK, Deliver
<1>6. UNCHANGED <<recorded, state, handler, orphan, expiry, failures, first, retrying>>
  BY DEF Deliver
<1>7. \A k \in Nat : Owed(k) /\ position < k => Head(wire) <= k
  <2> SUFFICES ASSUME NEW k \in Nat, Owed(k), position < k  PROVE Head(wire) <= k
    OBVIOUS
  <2>1. CASE k = Head(wire)  BY <2>1, <1>2
  <2>2. CASE Among(k, Tail(wire))
    <3>1. PICK i \in DOMAIN Tail(wire) : Tail(wire)[i] = k  BY <2>2 DEF Among
    <3> QED  BY <3>1, <1>2, <1>3
  <2>3. CASE \A i \in DOMAIN wire : wire[i] < k  BY <2>3, <1>2
  <2> QED  BY <2>1, <2>2, <2>3, <1>2, <1>3
<1>8. SessionTypeOK'
  <2>1. Flags'
    BY <1>5, <1>6 DEF SessionInv, SessionTypeOK, Flags, state, handler
  <2>2. Contents'
    BY <1>2, <1>5, <1>6 DEF SessionInv, SessionTypeOK, Contents, state, handler
  <2> QED
    BY <2>1, <2>2 DEF SessionTypeOK, Flags, Contents
<1>9. RecordInv'
  BY <1>6, RecordKept DEF SessionInv, state
<1>10. ConnectionInv'
  BY <1>5, <1>6 DEF SessionInv, ConnectionInv, OneConnection, NothingIsLeftover, Leftover, state, handler
<1>11. ClientInv'
  BY <1>1, <1>2, <1>4, <1>5, <1>6 DEF SessionInv, ClientInv, Deliver
<1>12. position \in Int /\ Len(recorded) \in Nat
  BY Piped
<1>13. \A k \in Nat : Owed(k)' <=> Owed(k)
  BY <1>1 DEF Owed, Delivery!MayBeMissed
<1>14. \A i \in DOMAIN Tail(wire) : Head(wire) < Tail(wire)[i] /\ Tail(wire)[i] < Len(recorded)
  BY <1>2, <1>3
<1>15. \A k \in Nat : Head(wire) < k => position < k
  BY <1>2, <1>4, <1>12
<1>16. \A k \in Nat : Head(wire) < k /\ Among(k, wire) => Among(k, Tail(wire))
  BY <1>2
<1>17. WireInv'
  <2>1. ASSUME NEW k \in Nat, Owed(k), Head(wire) < k
        PROVE  Among(k, Tail(wire)) \/ \A i \in DOMAIN Tail(wire) : Tail(wire)[i] < k
    <3>1. CASE Among(k, wire)  BY <3>1, <2>1, <1>16
    <3>2. CASE \A i \in DOMAIN wire : wire[i] < k  BY <3>2, <1>2
    <3> QED  BY <3>1, <3>2, <2>1, <1>3, <1>15
  <2> QED  BY <1>1, <1>2, <1>3, <1>5, <1>13, <1>14, <2>1 DEF WireInv
<1>18. PipeInv'
  <2>1. CASE linkUp
    <3>1. /\ InOrder(toReplay)
          /\ \A j \in DOMAIN toReplay : position < toReplay[j] /\ toReplay[j] < Len(recorded)
          /\ \A i \in DOMAIN wire, j \in DOMAIN toReplay : wire[i] < toReplay[j]
          /\ \A k \in Nat : Owed(k) /\ position < k => Among(k, wire) \/ Among(k, toReplay)
      BY <2>1 DEF SessionInv, PipeInv
    <3>2. \A j \in DOMAIN toReplay : Head(wire) < toReplay[j]
      BY <3>1, <1>2
    <3>3. \A i \in DOMAIN Tail(wire), j \in DOMAIN toReplay : Tail(wire)[i] < toReplay[j]
      BY <3>1, <1>2
    <3>4. \A k \in Nat : Owed(k) /\ Head(wire) < k => Among(k, Tail(wire)) \/ Among(k, toReplay)
      BY <3>1, <1>15, <1>16
    <3>5. UNCHANGED toReplay  BY <1>6 DEF handler
    <3> QED  BY <3>1, <3>2, <3>3, <3>4, <3>5, <1>1, <1>5, <1>13 DEF PipeInv
  <2>2. CASE ~linkUp  BY <2>2, <1>5 DEF PipeInv
  <2> QED  BY <2>1, <2>2
<1> QED
  BY <1>1, <1>2, <1>4, <1>5, <1>7, <1>8, <1>9, <1>10, <1>11, <1>17, <1>18 DEF SessionInv

\* An event to be replayed moves to the end of the wire.
LEMMA ReplayKeeps ==
  ASSUME SessionInv, Replay
  PROVE  WireInv' /\ PipeInv'
<1>1. wire \in Seq(Nat) /\ toReplay \in Seq(Nat) /\ position \in Int
  BY Piped
<1>2. UNCHANGED <<recorded, position, linkUp>> /\ (Listens' <=> Listens)
  BY DEF Replay, network, gateway, Listens
<1>3. CASE toReplay = <<>>
  <2>1. UNCHANGED <<toReplay, wire>>  BY <1>3 DEF Replay
  <2> QED  BY <2>1, <1>2, WireKept, PipeKept DEF SessionInv
<1>4. CASE toReplay # <<>> /\ ~linkUp
  <2>1. wire' = wire  BY <1>4 DEF Replay
  <2>2. WireInv'  BY <2>1, <1>2, WireKept DEF SessionInv
  <2>3. PipeInv'  BY <1>4, <1>2 DEF PipeInv
  <2> QED  BY <2>2, <2>3
<1>5. CASE toReplay # <<>> /\ linkUp
  <2> DEFINE h == Head(toReplay)  t == Tail(toReplay)
  <2>1. toReplay' = t /\ wire' = Append(wire, h)  BY <1>5 DEF Replay
  <2>2. /\ t \in Seq(Nat) /\ h \in Nat /\ h = toReplay[1] /\ 1 \in DOMAIN toReplay
        /\ \A k : Among(k, toReplay) <=> Among(k, t) \/ k = h
        /\ InOrder(toReplay) => InOrder(t) /\ \A j \in DOMAIN t : h < t[j]
        /\ \A j \in DOMAIN t : j + 1 \in DOMAIN toReplay /\ t[j] = toReplay[j + 1]
    BY <1>1, <1>5, Shortened
  <2>3. Listens /\ InOrder(wire) /\ \A i \in DOMAIN wire : position < wire[i] /\ wire[i] < Len(recorded)
    BY <1>5 DEF SessionInv, ConnectionInv, Listens, WireInv
  <2>4. /\ InOrder(toReplay)
        /\ \A j \in DOMAIN toReplay : position < toReplay[j] /\ toReplay[j] < Len(recorded)
        /\ \A i \in DOMAIN wire, j \in DOMAIN toReplay : wire[i] < toReplay[j]
        /\ \A k \in Nat : Owed(k) /\ position < k => Among(k, wire) \/ Among(k, toReplay)
    BY <1>5 DEF SessionInv, PipeInv
  <2> HIDE DEF h, t
  <2>5. /\ wire' \in Seq(Nat) /\ InOrder(wire')
        /\ \A k : Among(k, wire') <=> Among(k, wire) \/ k = h
        /\ \A i \in DOMAIN wire' : wire'[i] = h \/ \E j \in DOMAIN wire : wire'[i] = wire[j]
    <3>1. wire \in Seq(Nat) /\ h \in Nat  BY <1>1, <2>2
    <3>2. \A i \in DOMAIN wire : wire[i] < h  BY <2>2, <2>4
    <3>3. /\ Append(wire, h) \in Seq(Nat)
          /\ \A k : Among(k, Append(wire, h)) <=> Among(k, wire) \/ k = h
          /\ InOrder(wire) /\ (\A i \in DOMAIN wire : wire[i] < h) => InOrder(Append(wire, h))
          /\ \A i \in DOMAIN Append(wire, h) :
               Append(wire, h)[i] = h \/ \E j \in DOMAIN wire : Append(wire, h)[i] = wire[j]
      BY <3>1, Appended
    <3>4. InOrder(Append(wire, h))  BY <2>3, <3>2, <3>3
    <3> QED  BY <2>1, <3>3, <3>4
  <2>6. \A i \in DOMAIN wire' : position < wire'[i] /\ wire'[i] < Len(recorded)
    <3> TAKE i \in DOMAIN wire'
    <3>1. CASE wire'[i] = h  BY <3>1, <2>2, <2>4
    <3>2. CASE \E j \in DOMAIN wire : wire'[i] = wire[j]  BY <3>2, <2>3
    <3> QED  BY <3>1, <3>2, <2>5
  <2>7. \A i \in DOMAIN wire', j \in DOMAIN t : wire'[i] < t[j]
    <3> TAKE i \in DOMAIN wire', j \in DOMAIN t
    <3>1. j + 1 \in DOMAIN toReplay /\ t[j] = toReplay[j + 1] /\ h < t[j]  BY <2>2, <2>4
    <3>2. CASE wire'[i] = h  BY <3>1, <3>2
    <3>3. CASE \E k \in DOMAIN wire : wire'[i] = wire[k]  BY <3>1, <3>3, <2>4
    <3> QED  BY <3>2, <3>3, <2>5
  <2>8. \A k \in Nat : Owed(k) /\ position < k => Among(k, wire') \/ Among(k, t)
    BY <2>2, <2>4, <2>5
  <2>9. \A k \in Nat : Owed(k)' <=> Owed(k)
    BY <1>2 DEF Owed, Delivery!MayBeMissed
  <2>10. \A k \in Nat : Among(k, t) => \A i \in DOMAIN wire' : wire'[i] < k
    BY <2>7 DEF Among
  <2>11. WireInv'
    BY <1>2, <2>5, <2>6, <2>8, <2>9, <2>10 DEF WireInv
  <2>12. PipeInv'
    BY <1>2, <2>1, <2>2, <2>4, <2>7, <2>8, <2>9 DEF PipeInv
  <2> QED  BY <2>11, <2>12
<1> QED  BY <1>3, <1>4, <1>5

\* The buffer above a position that is not below its floor holds what is owed.
LEMMA ResumeKeeps ==
  ASSUME SessionInv, AdmitResume
  PROVE  WireInv' /\ PipeInv' /\ toReplay' \in Seq(Nat)
<1>1. PICK replay \in Replays(position) : Connects(replay)
  BY DEF AdmitResume
<1>2. PICK k \in 0..Len(buffer) :
        /\ replay = SubSeq(buffer, k + 1, Len(buffer))
        /\ \A i \in DOMAIN buffer : buffer[i] > position <=> i > k
  BY <1>1 DEF Replays
<1>3. exists /\ floor <= position /\ UNCHANGED recorded
  BY DEF AdmitResume
<1>4. /\ last = Len(recorded) - 1 /\ InOrder(buffer)
      /\ \A i \in DOMAIN buffer : buffer[i] <= last
      /\ \A n \in 0..last : Among(n, buffer) <=> n > floor /\ recorded[n + 1].kind = "kept"
      /\ \A n \in 0..last : recorded[n + 1].kind = "oversized" => n <= floor
  BY <1>3 DEF SessionInv, RecordInv
<1>5. buffer \in Seq(Nat) /\ floor \in Int /\ last \in Int /\ recorded \in Seq(Delivery!Events)
  BY DEF SessionInv, SessionTypeOK
<1>6. position \in Int /\ Len(recorded) \in Nat
  BY Piped
<1>7. /\ replay \in Seq(Nat) /\ InOrder(replay)
      /\ \A i \in DOMAIN replay : i + k \in DOMAIN buffer /\ i + k > k /\ replay[i] = buffer[i + k]
      /\ \A i \in DOMAIN buffer : i > k => Among(buffer[i], replay)
  BY <1>2, <1>4, <1>5, EndOf
<1>8. toReplay' = replay /\ wire' = <<>> /\ UNCHANGED position
  BY <1>1 DEF Connects
<1>9. \A j \in DOMAIN replay : position < replay[j] /\ replay[j] < Len(recorded)
  <2> TAKE j \in DOMAIN replay
  <2>1. j + k \in DOMAIN buffer /\ j + k > k /\ replay[j] = buffer[j + k]  BY <1>7
  <2>2. buffer[j + k] > position /\ buffer[j + k] <= last  BY <2>1, <1>2, <1>4
  <2>3. buffer[j + k] \in Nat  BY <2>1, <1>5
  <2> QED  BY <2>1, <2>2, <2>3, <1>4, <1>6
<1>10. \A n \in Nat : Owed(n)' <=> Owed(n)
  BY <1>3 DEF Owed, Delivery!MayBeMissed
<1>11. ASSUME NEW n \in Nat, Owed(n), position < n  PROVE Among(n, replay)
  <2>1. n \in 0..last /\ recorded[n + 1] \in Delivery!Events /\ recorded[n + 1].kind # "transient"
    BY <1>11, <1>4, <1>5, <1>6 DEF Owed, Delivery!MayBeMissed
  <2>2. recorded[n + 1].kind \in {"kept", "oversized"}
    BY <2>1 DEF Delivery!Events, Delivery!Kinds
  <2>3. n > floor  BY <1>11, <1>3, <1>5, <1>6
  <2>4. ~(n <= floor)  BY <2>3, <1>5
  <2>5. recorded[n + 1].kind = "kept"  BY <2>1, <2>2, <2>4, <1>4
  <2>6. Among(n, buffer)  BY <2>1, <2>3, <2>5, <1>4
  <2>7. PICK i \in DOMAIN buffer : buffer[i] = n  BY <2>6 DEF Among
  <2>8. i > k  BY <2>7, <1>11, <1>2, <1>6
  <2> QED  BY <2>7, <2>8, <1>7
<1>12. DOMAIN wire' = {}
  BY <1>8
<1>13. WireInv'
  BY <1>12 DEF WireInv, InOrder
<1>14. PipeInv'
  BY <1>3, <1>7, <1>8, <1>9, <1>10, <1>11, <1>12 DEF PipeInv
<1> QED  BY <1>7, <1>8, <1>13, <1>14

\* The steps that do not touch the record, the network or the positions.
Aside ==
  \/ Open \/ RequestLost \/ Retry \/ RetryReturns
  \/ RefuseExpired \/ RefuseConnected \/ RefuseUnavailable
  \/ Accept \/ ReplayFails \/ Receive \/ DispatchEnds \/ SideJobEnds
  \/ ServerNotices \/ ConnectionEnds
  \/ OrphanEnds \/ GraceEnds \/ Expire \/ Evict \/ Drop \/ Restart

LEMMA AsideKeeps ==
  ASSUME SessionInv, Aside
  PROVE  SessionInv' /\ UNCHANGED <<recorded, position>>
<1>1. CASE Open
  <2> USE <1>1 DEF Open, state, handler, network, gateway
  <2>1. Flags'
    BY DEF SessionInv, SessionTypeOK, Flags
  <2>2. Contents'
    BY DEF SessionInv, SessionTypeOK, Endpoints, Clients, Faults, Contents
  <2>3. ConnectionInv'
    BY DEF SessionInv, ConnectionInv, OneConnection, NothingIsLeftover, Leftover, SessionTypeOK, Endpoints, Clients, Faults
  <2>4. ClientInv'
    BY DEF SessionInv, ClientInv
  <2>5. RecordInv' /\ WireInv' /\ PipeInv'
    BY Untouched DEF Listens
  <2> QED
    BY <2>1, <2>2, <2>3, <2>4, <2>5 DEF SessionInv, SessionTypeOK, Flags, Contents
<1>2. CASE RequestLost
  <2> USE <1>2 DEF RequestLost, Schedule, state, handler, network, gateway
  <2>1. Flags'
    BY DEF SessionInv, SessionTypeOK, Flags
  <2>2. Contents'
    BY BoundsAssumption DEF SessionInv, SessionTypeOK, Endpoints, Clients, Faults, Contents
  <2>3. ConnectionInv'
    BY DEF SessionInv, ConnectionInv, OneConnection, NothingIsLeftover, Leftover, SessionTypeOK, Endpoints, Clients, Faults
  <2>4. ClientInv'
    BY DEF SessionInv, ClientInv
  <2>5. RecordInv' /\ WireInv' /\ PipeInv'
    BY Untouched DEF Listens
  <2> QED
    BY <2>1, <2>2, <2>3, <2>4, <2>5 DEF SessionInv, SessionTypeOK, Flags, Contents
<1>3. CASE Retry
  <2> USE <1>3 DEF Retry, state, handler, network, gateway
  <2>1. Flags'
    BY DEF SessionInv, SessionTypeOK, Flags
  <2>2. Contents'
    BY DEF SessionInv, SessionTypeOK, Endpoints, Clients, Faults, Contents
  <2>3. ConnectionInv'
    BY DEF SessionInv, ConnectionInv, OneConnection, NothingIsLeftover, Leftover, SessionTypeOK, Endpoints, Clients, Faults
  <2>4. ClientInv'
    BY DEF SessionInv, ClientInv
  <2>5. RecordInv' /\ WireInv' /\ PipeInv'
    BY Untouched DEF Listens
  <2> QED
    BY <2>1, <2>2, <2>3, <2>4, <2>5 DEF SessionInv, SessionTypeOK, Flags, Contents
<1>4. CASE RetryReturns
  <2> USE <1>4 DEF RetryReturns, state, handler, network, gateway
  <2>1. Flags'
    BY DEF SessionInv, SessionTypeOK, Flags
  <2>2. Contents'
    BY DEF SessionInv, SessionTypeOK, Endpoints, Clients, Faults, Contents
  <2>3. ConnectionInv'
    BY DEF SessionInv, ConnectionInv, OneConnection, NothingIsLeftover, Leftover, SessionTypeOK, Endpoints, Clients, Faults
  <2>4. ClientInv'
    BY DEF SessionInv, ClientInv
  <2>5. RecordInv' /\ WireInv' /\ PipeInv'
    BY Untouched DEF Listens
  <2> QED
    BY <2>1, <2>2, <2>3, <2>4, <2>5 DEF SessionInv, SessionTypeOK, Flags, Contents
<1>5. CASE RefuseExpired
  <2> USE <1>5 DEF RefuseExpired, Refuse, state, handler, network, gateway
  <2>1. Flags'
    BY DEF SessionInv, SessionTypeOK, Flags
  <2>2. Contents'
    BY DEF SessionInv, SessionTypeOK, Endpoints, Clients, Faults, Contents
  <2>3. ConnectionInv'
    BY DEF SessionInv, ConnectionInv, OneConnection, NothingIsLeftover, Leftover, SessionTypeOK, Endpoints, Clients, Faults
  <2>4. ClientInv'
    BY DEF SessionInv, ClientInv
  <2>5. RecordInv' /\ WireInv' /\ PipeInv'
    BY Untouched DEF Listens
  <2> QED
    BY <2>1, <2>2, <2>3, <2>4, <2>5 DEF SessionInv, SessionTypeOK, Flags, Contents
<1>6. CASE RefuseConnected
  <2> USE <1>6 DEF RefuseConnected, Refuse, state, handler, network, gateway
  <2>1. Flags'
    BY DEF SessionInv, SessionTypeOK, Flags
  <2>2. Contents'
    BY DEF SessionInv, SessionTypeOK, Endpoints, Clients, Faults, Contents
  <2>3. ConnectionInv'
    BY DEF SessionInv, ConnectionInv, OneConnection, NothingIsLeftover, Leftover, SessionTypeOK, Endpoints, Clients, Faults
  <2>4. ClientInv'
    BY DEF SessionInv, ClientInv
  <2>5. RecordInv' /\ WireInv' /\ PipeInv'
    BY Untouched DEF Listens
  <2> QED
    BY <2>1, <2>2, <2>3, <2>4, <2>5 DEF SessionInv, SessionTypeOK, Flags, Contents
<1>7. CASE RefuseUnavailable
  <2> USE <1>7 DEF RefuseUnavailable, state, handler, network, gateway
  <2>1. Flags'
    BY DEF SessionInv, SessionTypeOK, Flags
  <2>2. Contents'
    BY BoundsAssumption DEF SessionInv, SessionTypeOK, Endpoints, Clients, Faults, Contents
  <2>3. ConnectionInv'
    BY DEF SessionInv, ConnectionInv, OneConnection, NothingIsLeftover, Leftover, SessionTypeOK, Endpoints, Clients, Faults
  <2>4. ClientInv'
    BY DEF SessionInv, ClientInv
  <2>5. RecordInv' /\ WireInv' /\ PipeInv'
    BY Untouched DEF Listens
  <2> QED
    BY <2>1, <2>2, <2>3, <2>4, <2>5 DEF SessionInv, SessionTypeOK, Flags, Contents
<1>8. CASE Accept
  <2> USE <1>8 DEF Accept, state, handler, network, gateway
  <2>1. Flags'
    BY DEF SessionInv, SessionTypeOK, Flags
  <2>2. Contents'
    BY DEF SessionInv, SessionTypeOK, Endpoints, Clients, Faults, Contents
  <2>3. ConnectionInv'
    BY DEF SessionInv, ConnectionInv, OneConnection, NothingIsLeftover, Leftover, SessionTypeOK, Endpoints, Clients, Faults
  <2>4. ClientInv'
    BY DEF SessionInv, ClientInv
  <2>5. RecordInv' /\ WireInv' /\ PipeInv'
    BY Untouched DEF SessionInv, ConnectionInv, OneConnection, NothingIsLeftover, Leftover, Listens
  <2> QED
    BY <2>1, <2>2, <2>3, <2>4, <2>5 DEF SessionInv, SessionTypeOK, Flags, Contents
<1>9. CASE ReplayFails
  <2> USE <1>9 DEF ReplayFails, Breaks, state, handler, network, gateway
  <2>1. Flags'
    BY DEF SessionInv, SessionTypeOK, Flags
  <2>2. Contents'
    BY DEF SessionInv, SessionTypeOK, Endpoints, Clients, Faults, Contents
  <2>3. ConnectionInv'
    BY DEF SessionInv, ConnectionInv, OneConnection, NothingIsLeftover, Leftover, SessionTypeOK, Endpoints, Clients, Faults
  <2>4. ClientInv'
    BY DEF SessionInv, ClientInv
  <2>5. RecordInv' /\ WireInv' /\ PipeInv'
    BY Untouched DEF Listens
  <2> QED
    BY <2>1, <2>2, <2>3, <2>4, <2>5 DEF SessionInv, SessionTypeOK, Flags, Contents
<1>10. CASE Receive
  <2> USE <1>10 DEF Receive, Serves, state, handler, network, gateway
  <2>1. Flags'
    BY DEF SessionInv, SessionTypeOK, Flags
  <2>2. Contents'
    BY DEF SessionInv, SessionTypeOK, Endpoints, Clients, Faults, Contents
  <2>3. ConnectionInv'
    BY DEF SessionInv, ConnectionInv, OneConnection, NothingIsLeftover, Leftover, SessionTypeOK, Endpoints, Clients, Faults
  <2>4. ClientInv'
    BY DEF SessionInv, ClientInv
  <2>5. RecordInv' /\ WireInv' /\ PipeInv'
    BY Untouched DEF Listens
  <2> QED
    BY <2>1, <2>2, <2>3, <2>4, <2>5 DEF SessionInv, SessionTypeOK, Flags, Contents
<1>11. CASE DispatchEnds
  <2> USE <1>11 DEF DispatchEnds, Serves, state, handler, network, gateway
  <2>1. Flags'
    BY DEF SessionInv, SessionTypeOK, Flags
  <2>2. Contents'
    BY DEF SessionInv, SessionTypeOK, Endpoints, Clients, Faults, Contents
  <2>3. ConnectionInv'
    BY DEF SessionInv, ConnectionInv, OneConnection, NothingIsLeftover, Leftover, SessionTypeOK, Endpoints, Clients, Faults
  <2>4. ClientInv'
    BY DEF SessionInv, ClientInv
  <2>5. RecordInv' /\ WireInv' /\ PipeInv'
    BY Untouched DEF Listens
  <2> QED
    BY <2>1, <2>2, <2>3, <2>4, <2>5 DEF SessionInv, SessionTypeOK, Flags, Contents
<1>12. CASE SideJobEnds
  <2> USE <1>12 DEF SideJobEnds, Serves, state, handler, network, gateway
  <2>1. Flags'
    BY DEF SessionInv, SessionTypeOK, Flags
  <2>2. Contents'
    BY DEF SessionInv, SessionTypeOK, Endpoints, Clients, Faults, Contents
  <2>3. ConnectionInv'
    BY DEF SessionInv, ConnectionInv, OneConnection, NothingIsLeftover, Leftover, SessionTypeOK, Endpoints, Clients, Faults
  <2>4. ClientInv'
    BY DEF SessionInv, ClientInv
  <2>5. RecordInv' /\ WireInv' /\ PipeInv'
    BY Untouched DEF Listens
  <2> QED
    BY <2>1, <2>2, <2>3, <2>4, <2>5 DEF SessionInv, SessionTypeOK, Flags, Contents
<1>13. CASE ServerNotices
  <2> USE <1>13 DEF ServerNotices, Serves, state, handler, network, gateway
  <2>1. Flags'
    BY DEF SessionInv, SessionTypeOK, Flags
  <2>2. Contents'
    BY DEF SessionInv, SessionTypeOK, Endpoints, Clients, Faults, Contents
  <2>3. ConnectionInv'
    BY DEF SessionInv, ConnectionInv, OneConnection, NothingIsLeftover, Leftover, SessionTypeOK, Endpoints, Clients, Faults
  <2>4. ClientInv'
    BY DEF SessionInv, ClientInv
  <2>5. RecordInv' /\ WireInv' /\ PipeInv'
    BY Untouched DEF Listens
  <2> QED
    BY <2>1, <2>2, <2>3, <2>4, <2>5 DEF SessionInv, SessionTypeOK, Flags, Contents
<1>14. CASE ConnectionEnds
  <2> USE <1>14 DEF ConnectionEnds, Finally, state, handler, network, gateway
  <2>1. Flags'
    BY DEF SessionInv, SessionTypeOK, Flags
  <2>2. Contents'
    BY DEF SessionInv, SessionTypeOK, Endpoints, Clients, Faults, Contents
  <2>3. ConnectionInv'
    BY DEF SessionInv, ConnectionInv, OneConnection, NothingIsLeftover, Leftover, SessionTypeOK, Endpoints, Clients, Faults
  <2>4. ClientInv'
    BY DEF SessionInv, ClientInv
  <2>5. RecordInv' /\ WireInv' /\ PipeInv'
    BY Untouched DEF Listens
  <2> QED
    BY <2>1, <2>2, <2>3, <2>4, <2>5 DEF SessionInv, SessionTypeOK, Flags, Contents
<1>15. CASE OrphanEnds
  <2> USE <1>15 DEF OrphanEnds, state, handler, network, gateway
  <2>1. Flags'
    BY DEF SessionInv, SessionTypeOK, Flags
  <2>2. Contents'
    BY DEF SessionInv, SessionTypeOK, Endpoints, Clients, Faults, Contents
  <2>3. ConnectionInv'
    BY DEF SessionInv, ConnectionInv, OneConnection, NothingIsLeftover, Leftover, SessionTypeOK, Endpoints, Clients, Faults
  <2>4. ClientInv'
    BY DEF SessionInv, ClientInv
  <2>5. RecordInv' /\ WireInv' /\ PipeInv'
    BY Untouched DEF Listens
  <2> QED
    BY <2>1, <2>2, <2>3, <2>4, <2>5 DEF SessionInv, SessionTypeOK, Flags, Contents
<1>16. CASE GraceEnds
  <2> USE <1>16 DEF GraceEnds, state, handler, network, gateway
  <2>1. Flags'
    BY DEF SessionInv, SessionTypeOK, Flags
  <2>2. Contents'
    BY DEF SessionInv, SessionTypeOK, Endpoints, Clients, Faults, Contents
  <2>3. ConnectionInv'
    BY DEF SessionInv, ConnectionInv, OneConnection, NothingIsLeftover, Leftover, SessionTypeOK, Endpoints, Clients, Faults
  <2>4. ClientInv'
    BY DEF SessionInv, ClientInv
  <2>5. RecordInv' /\ WireInv' /\ PipeInv'
    BY Untouched DEF Listens
  <2> QED
    BY <2>1, <2>2, <2>3, <2>4, <2>5 DEF SessionInv, SessionTypeOK, Flags, Contents
<1>17. CASE Expire
  <2> USE <1>17 DEF Expire, state, handler, network, gateway
  <2>1. Flags'
    BY DEF SessionInv, SessionTypeOK, Flags
  <2>2. Contents'
    BY DEF SessionInv, SessionTypeOK, Endpoints, Clients, Faults, Contents
  <2>3. ConnectionInv'
    BY DEF SessionInv, ConnectionInv, OneConnection, NothingIsLeftover, Leftover, SessionTypeOK, Endpoints, Clients, Faults
  <2>4. ClientInv'
    BY DEF SessionInv, ClientInv
  <2>5. RecordInv' /\ WireInv' /\ PipeInv'
    BY Untouched DEF SessionInv, ConnectionInv, OneConnection, NothingIsLeftover, Leftover, Listens
  <2> QED
    BY <2>1, <2>2, <2>3, <2>4, <2>5 DEF SessionInv, SessionTypeOK, Flags, Contents
<1>18. CASE Evict
  <2> USE <1>18 DEF Evict, state, handler, network, gateway
  <2>1. Flags'
    BY DEF SessionInv, SessionTypeOK, Flags
  <2>2. Contents'
    BY DEF SessionInv, SessionTypeOK, Endpoints, Clients, Faults, Contents
  <2>3. ConnectionInv'
    BY DEF SessionInv, ConnectionInv, OneConnection, NothingIsLeftover, Leftover, SessionTypeOK, Endpoints, Clients, Faults
  <2>4. ClientInv'
    BY DEF SessionInv, ClientInv
  <2>5. RecordInv' /\ WireInv' /\ PipeInv'
    BY Untouched DEF Listens
  <2> QED
    BY <2>1, <2>2, <2>3, <2>4, <2>5 DEF SessionInv, SessionTypeOK, Flags, Contents
<1>19. CASE Drop
  <2> USE <1>19 DEF Drop, state, handler, network, gateway
  <2>1. Flags'
    BY DEF SessionInv, SessionTypeOK, Flags
  <2>2. Contents'
    BY BoundsAssumption DEF SessionInv, SessionTypeOK, Endpoints, Clients, Faults, Contents
  <2>3. ConnectionInv'
    BY DEF SessionInv, ConnectionInv, OneConnection, NothingIsLeftover, Leftover, SessionTypeOK, Endpoints, Clients, Faults
  <2>4. ClientInv'
    BY DEF SessionInv, ClientInv
  <2>5. RecordInv' /\ WireInv' /\ PipeInv'
    BY Untouched DEF Listens
  <2> QED
    BY <2>1, <2>2, <2>3, <2>4, <2>5 DEF SessionInv, SessionTypeOK, Flags, Contents
<1>20. CASE Restart
  <2> USE <1>20 DEF Restart, state, handler, network, gateway
  <2>1. Flags'
    BY DEF SessionInv, SessionTypeOK, Flags
  <2>2. Contents'
    BY BoundsAssumption DEF SessionInv, SessionTypeOK, Endpoints, Clients, Faults, Contents
  <2>3. ConnectionInv'
    BY DEF SessionInv, ConnectionInv, OneConnection, NothingIsLeftover, Leftover, SessionTypeOK, Endpoints, Clients, Faults
  <2>4. ClientInv'
    BY DEF SessionInv, ClientInv
  <2>5. RecordInv' /\ WireInv' /\ PipeInv'
    BY Untouched DEF Listens
  <2> QED
    BY <2>1, <2>2, <2>3, <2>4, <2>5 DEF SessionInv, SessionTypeOK, Flags, Contents
<1> QED
  BY <1>1, <1>2, <1>3, <1>4, <1>5, <1>6, <1>7, <1>8, <1>9, <1>10, <1>11, <1>12, <1>13, <1>14, <1>15, <1>16, <1>17, <1>18, <1>19, <1>20 DEF Aside

\* The client lets go of the connection.
LEMMA CutKeeps ==
  ASSUME SessionInv, ClientNotices \/ HangUp
  PROVE  SessionInv' /\ UNCHANGED <<recorded, position>>
<1>1. /\ UNCHANGED <<recorded, position, state, handler, orphan, expiry, failures, first, fault>>
      /\ wire' = <<>> /\ client' \in {"waiting", "stalled", "ended"} /\ ~linkUp'
      /\ (UNCHANGED retrying \/ retrying' = FALSE) /\ (UNCHANGED linkUp \/ linkUp' = FALSE)
  <2>1. CASE ClientNotices  BY <2>1 DEF ClientNotices, Schedule
  <2>2. CASE HangUp  BY <2>2 DEF HangUp
  <2> QED  BY <2>1, <2>2
<1>2. Flags'
  BY <1>1 DEF SessionInv, SessionTypeOK, Flags, state, handler
<1>3. Contents'
  BY <1>1 DEF SessionInv, SessionTypeOK, Contents, Clients, state, handler
<1>4. ConnectionInv'
  BY <1>1 DEF SessionInv, ConnectionInv, OneConnection, NothingIsLeftover, Leftover, state, handler
<1>5. ClientInv'
  BY <1>1 DEF SessionInv, ClientInv
<1>6. RecordInv'
  BY <1>1, RecordKept DEF SessionInv, state
<1>7. WireInv' /\ PipeInv'
  BY <1>1 DEF WireInv, PipeInv, Listens
<1> QED
  BY <1>1, <1>2, <1>3, <1>4, <1>5, <1>6, <1>7 DEF SessionInv, SessionTypeOK, Flags, Contents

\* A session begins anew for a client that has seen nothing.
LEMMA AdmitNewKeeps ==
  ASSUME SessionInv, AdmitNew
  PROVE  SessionInv' /\ recorded' = <<>> /\ position = -1 /\ UNCHANGED position
<1> USE DEF AdmitNew, Connects
<1>1. Flags'
  BY DEF SessionInv, SessionTypeOK, Flags
<1>2. Contents'
  BY DEF SessionInv, SessionTypeOK, Contents, Endpoints, Clients
<1>3. ConnectionInv'
  BY DEF SessionInv, ConnectionInv, OneConnection, NothingIsLeftover, Leftover
<1>4. position = -1
  BY DEF SessionInv, ClientInv
<1>5. recorded' = <<>> /\ wire' = <<>> /\ toReplay' = <<>> /\ buffer' = <<>> /\ Len(recorded') = 0
  OBVIOUS
<1>6. ClientInv'
  BY <1>4, <1>5 DEF SessionInv, ClientInv
<1>7. RecordInv'
  BY <1>5, BoundsAssumption DEF RecordInv, InOrder, Among
<1>8. \A k \in Nat : ~Owed(k)'
  BY <1>5 DEF Owed
<1>9. WireInv' /\ PipeInv'
  BY <1>5, <1>8 DEF WireInv, PipeInv, InOrder
<1> QED
  BY <1>1, <1>2, <1>3, <1>4, <1>6, <1>7, <1>9 DEF SessionInv, SessionTypeOK, Flags, Contents

\* A session is resumed.
LEMMA AdmitResumeKeeps ==
  ASSUME SessionInv, AdmitResume
  PROVE  SessionInv' /\ UNCHANGED <<recorded, position>>
<1>1. WireInv' /\ PipeInv' /\ toReplay' \in Seq(Nat)
  BY ResumeKeeps
<1>2. PICK replay \in Replays(position) : Connects(replay)
  BY DEF AdmitResume
<1>3. UNCHANGED <<recorded, exists, last, floor, buffer, orphan>> /\ exists /\ ~connected /\ ~first
  BY DEF AdmitResume
<1> USE DEF Connects
<1>4. Flags'
  BY <1>2, <1>3 DEF SessionInv, SessionTypeOK, Flags
<1>5. Contents'
  BY <1>1, <1>2, <1>3 DEF SessionInv, SessionTypeOK, Contents, Endpoints, Clients
<1>6. ConnectionInv'
  BY <1>2, <1>3 DEF SessionInv, ConnectionInv, OneConnection, NothingIsLeftover, Leftover
<1>7. ClientInv'
  BY <1>2, <1>3 DEF SessionInv, ClientInv
<1>8. RecordInv'
  BY <1>3, RecordKept DEF SessionInv
<1> QED
  BY <1>1, <1>2, <1>3, <1>4, <1>5, <1>6, <1>7, <1>8 DEF SessionInv, SessionTypeOK, Flags, Contents

\* The rest of a step of the replay.
LEMMA ReplayStepKeeps ==
  ASSUME SessionInv, Replay
  PROVE  SessionInv' /\ UNCHANGED <<recorded, position>>
<1>1. WireInv' /\ PipeInv'
  BY ReplayKeeps
<1> USE DEF Replay, state, network, gateway
<1>2. Flags'
  BY DEF SessionInv, SessionTypeOK, Flags
<1>3. toReplay' \in Seq(Nat) /\ wire' \in Seq(Nat)
  <2>1. wire \in Seq(Nat) /\ toReplay \in Seq(Nat)  BY Piped
  <2>2. toReplay # <<>> => Tail(toReplay) \in Seq(Nat) /\ Head(toReplay) \in Nat
    BY <2>1, Shortened
  <2>3. CASE toReplay = <<>>  BY <2>1, <2>3
  <2>4. CASE toReplay # <<>>
    <3>1. toReplay' = Tail(toReplay) /\ wire' \in {wire, Append(wire, Head(toReplay))}  BY <2>4
    <3>2. Append(wire, Head(toReplay)) \in Seq(Nat)  BY <2>1, <2>2, <2>4
    <3> QED  BY <3>1, <3>2, <2>1, <2>2, <2>4
  <2> QED  BY <2>3, <2>4
<1>4. Contents'
  BY <1>3 DEF SessionInv, SessionTypeOK, Contents, Endpoints
<1>5. ConnectionInv'
  BY DEF SessionInv, ConnectionInv, OneConnection, NothingIsLeftover, Leftover
<1>6. ClientInv'
  BY DEF SessionInv, ClientInv
<1>7. RecordInv'
  BY RecordKept DEF SessionInv
<1> QED
  BY <1>1, <1>2, <1>4, <1>5, <1>6, <1>7 DEF SessionInv, SessionTypeOK, Flags, Contents

\* A step that records an event.
Records == \E e \in Delivery!Events : recorded' = Append(recorded, e)

\* The steps that record an event.
LEMMA GreetKeeps ==
  ASSUME SessionInv, Greet
  PROVE  SessionInv' /\ Records /\ UNCHANGED position
<1> DEFINE e == [kind |-> "kept", by |-> "connection"]
<1>1. e \in Delivery!Events /\ "kept" \in Delivery!Kinds /\ "connection" \in Delivery!Authors
  BY DEF Delivery!Events, Delivery!Kinds, Delivery!Authors
<1>2. exists /\ connected /\ toReplay = <<>> /\ endpoint = "greeting"
  BY DEF SessionInv, ConnectionInv, OneConnection, Greet
<1>3. /\ recorded' = Append(recorded, e) /\ last' = last + 1 /\ Keep(last + 1, "kept")
      /\ UNCHANGED <<exists, connected, leftBehind>>
      /\ UNCHANGED <<position, orphan, expiry, linkUp, failures, client, first, retrying, fault>>
  BY DEF Greet, Note, gateway
<1>4. /\ UNCHANGED <<toReplay, busy, job>>
      /\ \/ linkUp /\ wire' = Append(wire, last + 1)
         \/ ~linkUp /\ UNCHANGED wire
      /\ \/ endpoint' = "serving" /\ sendFailed' = FALSE
         \/ ~linkUp /\ endpoint' = "none" /\ UNCHANGED sendFailed
  BY DEF Greet, Send, Breaks
<1>5. /\ RecordInv' /\ last + 1 = Len(recorded)
      /\ last' \in Int /\ last' >= -1 /\ floor' \in Int /\ floor' >= -1 /\ buffer' \in Seq(Nat)
      /\ recorded' \in Seq(Delivery!Events)
  BY <1>1, <1>2, <1>3, Noted
<1> HIDE DEF e
<1>6. WireInv' /\ PipeInv' /\ wire' \in Seq(Nat)
  <2>1. CASE linkUp  BY <2>1, <1>1, <1>2, <1>3, <1>4, <1>5, SentOn
  <2>2. CASE ~linkUp
    <3>1. WireInv' /\ PipeInv'  BY <2>2, <1>1, <1>3, <1>4, SentInVain DEF Listens
    <3> QED  BY <3>1, <2>2, <1>4, Piped
  <2> QED  BY <2>1, <2>2
<1>7. Flags'
  BY <1>3, <1>4 DEF SessionInv, SessionTypeOK, Flags
<1>8. Contents'
  BY <1>3, <1>4, <1>5, <1>6 DEF SessionInv, SessionTypeOK, Contents, Endpoints
<1>9. ConnectionInv'
  BY <1>2, <1>3, <1>4 DEF SessionInv, ConnectionInv, OneConnection, NothingIsLeftover, Leftover
<1>10. ClientInv'
  <2>1. Len(recorded') = Len(recorded) + 1  BY <1>1, <1>3, OneMore DEF SessionInv
  <2> QED  BY <2>1, <1>3, Piped DEF SessionInv, ClientInv
<1> QED
  BY <1>1, <1>3, <1>5, <1>6, <1>7, <1>8, <1>9, <1>10 DEF SessionInv, SessionTypeOK, Flags, Contents, Records

LEMMA EmitKeeps ==
  ASSUME SessionInv, Emit
  PROVE  SessionInv' /\ Records /\ UNCHANGED position
<1>0. PICK kind \in Delivery!Kinds : Note(kind, "connection")
  BY DEF Emit
<1> DEFINE e == [kind |-> kind, by |-> "connection"]
<1>1. e \in Delivery!Events /\ "connection" \in Delivery!Authors
  BY DEF Delivery!Events, Delivery!Authors
<1>2. exists /\ connected /\ toReplay = <<>> /\ endpoint \in {"serving", "closing"}
  BY DEF SessionInv, ConnectionInv, OneConnection, Emit
<1>3. /\ recorded' = Append(recorded, e) /\ last' = last + 1 /\ Keep(last + 1, kind)
      /\ UNCHANGED <<exists, connected, leftBehind>>
      /\ UNCHANGED <<position, orphan, expiry, linkUp, failures, client, first, retrying, fault>>
  BY <1>0 DEF Emit, Note, Serves, gateway
<1>4. /\ UNCHANGED <<endpoint, toReplay, busy, job>>
      /\ \/ linkUp /\ wire' = Append(wire, last + 1) /\ UNCHANGED sendFailed
         \/ ~linkUp /\ UNCHANGED wire /\ sendFailed' \in {sendFailed, TRUE}
  BY DEF Emit, Send
<1>5. /\ RecordInv' /\ last + 1 = Len(recorded)
      /\ last' \in Int /\ last' >= -1 /\ floor' \in Int /\ floor' >= -1 /\ buffer' \in Seq(Nat)
      /\ recorded' \in Seq(Delivery!Events)
  BY <1>1, <1>2, <1>3, Noted
<1> HIDE DEF e
<1>6. WireInv' /\ PipeInv' /\ wire' \in Seq(Nat)
  <2>1. CASE linkUp  BY <2>1, <1>1, <1>2, <1>3, <1>4, <1>5, SentOn
  <2>2. CASE ~linkUp
    <3>1. WireInv' /\ PipeInv'  BY <2>2, <1>1, <1>3, <1>4, SentInVain DEF Listens
    <3> QED  BY <3>1, <2>2, <1>4, Piped
  <2> QED  BY <2>1, <2>2
<1>7. Flags'
  BY <1>3, <1>4 DEF SessionInv, SessionTypeOK, Flags
<1>8. Contents'
  BY <1>3, <1>4, <1>5, <1>6 DEF SessionInv, SessionTypeOK, Contents
<1>9. ConnectionInv'
  <2>1. linkUp' => client' \in {"opening", "open"} /\ endpoint' \in {"serving"} /\ ~sendFailed'
    BY <1>2, <1>3, <1>4 DEF SessionInv, ConnectionInv
  <2>2. OneConnection' /\ NothingIsLeftover'
    BY <1>2, <1>3, <1>4 DEF SessionInv, ConnectionInv, OneConnection, NothingIsLeftover, Leftover
  <2> QED  BY <2>1, <2>2, <1>2, <1>4 DEF ConnectionInv
<1>10. ClientInv'
  <2>1. Len(recorded') = Len(recorded) + 1  BY <1>1, <1>3, OneMore DEF SessionInv
  <2> QED  BY <2>1, <1>3, Piped DEF SessionInv, ClientInv
<1> QED
  BY <1>1, <1>3, <1>5, <1>6, <1>7, <1>8, <1>9, <1>10 DEF SessionInv, SessionTypeOK, Flags, Contents, Records

LEMMA DispatchFailsKeeps ==
  ASSUME SessionInv, DispatchFails
  PROVE  SessionInv' /\ Records /\ UNCHANGED position
<1> DEFINE e == [kind |-> "kept", by |-> "connection"]
<1>1. e \in Delivery!Events /\ "kept" \in Delivery!Kinds /\ "connection" \in Delivery!Authors
  BY DEF Delivery!Events, Delivery!Kinds, Delivery!Authors
<1>2. exists /\ connected /\ ~linkUp
  BY DEF SessionInv, ConnectionInv, OneConnection, DispatchFails
<1>3. /\ recorded' = Append(recorded, e) /\ last' = last + 1 /\ Keep(last + 1, "kept")
      /\ UNCHANGED <<exists, position, leftBehind, toReplay, sendFailed>>
      /\ UNCHANGED <<linkUp, wire, failures, client, first, retrying, fault>>
      /\ endpoint' = "none" /\ busy' = FALSE /\ job' = FALSE /\ connected' = FALSE
      /\ expiry' = "sleeping" /\ orphan' \in BOOLEAN
  BY DEF DispatchFails, Finally, network, gateway
<1>5. /\ RecordInv' /\ last + 1 = Len(recorded)
      /\ last' \in Int /\ last' >= -1 /\ floor' \in Int /\ floor' >= -1 /\ buffer' \in Seq(Nat)
      /\ recorded' \in Seq(Delivery!Events)
  BY <1>1, <1>2, <1>3, Noted
<1> HIDE DEF e
<1>6. WireInv' /\ PipeInv'
  BY <1>1, <1>2, <1>3, SentInVain DEF Listens
<1>7. Flags'
  BY <1>3 DEF SessionInv, SessionTypeOK, Flags
<1>8. Contents'
  BY <1>3, <1>5 DEF SessionInv, SessionTypeOK, Contents, Endpoints
<1>9. ConnectionInv'
  BY <1>2, <1>3 DEF SessionInv, ConnectionInv, OneConnection, NothingIsLeftover, Leftover
<1>10. ClientInv'
  <2>1. Len(recorded') = Len(recorded) + 1  BY <1>1, <1>3, OneMore DEF SessionInv
  <2> QED  BY <2>1, <1>3, Piped DEF SessionInv, ClientInv
<1> QED
  BY <1>1, <1>3, <1>5, <1>6, <1>7, <1>8, <1>9, <1>10 DEF SessionInv, SessionTypeOK, Flags, Contents, Records

LEMMA OrphanEmitsKeeps ==
  ASSUME SessionInv, OrphanEmits
  PROVE  SessionInv' /\ Records /\ UNCHANGED position
<1>0. PICK kind \in Delivery!Kinds : Note(kind, "orphan")
  BY DEF OrphanEmits
<1> DEFINE e == [kind |-> kind, by |-> "orphan"]
<1>1. e \in Delivery!Events /\ "orphan" \in Delivery!Authors /\ Delivery!MayBeMissed(e)
  BY DEF Delivery!Events, Delivery!Authors, Delivery!MayBeMissed
<1>3. /\ recorded' = Append(recorded, e) /\ last' = last + 1 /\ Keep(last + 1, kind)
      /\ UNCHANGED <<exists, connected, leftBehind, orphan, expiry, position>>
      /\ UNCHANGED <<endpoint, toReplay, busy, job, sendFailed>>
      /\ UNCHANGED <<linkUp, wire, failures, client, first, retrying, fault>>
  BY <1>0 DEF OrphanEmits, Note, handler, network, gateway
<1>5. /\ RecordInv' /\ last + 1 = Len(recorded)
      /\ last' \in Int /\ last' >= -1 /\ floor' \in Int /\ floor' >= -1 /\ buffer' \in Seq(Nat)
      /\ recorded' \in Seq(Delivery!Events)
  BY <1>1, <1>3, Noted DEF OrphanEmits
<1> HIDE DEF e
<1>6. WireInv' /\ PipeInv'
  BY <1>1, <1>3, SentInVain DEF Listens
<1>7. Flags'
  BY <1>3 DEF SessionInv, SessionTypeOK, Flags
<1>8. Contents'
  BY <1>3, <1>5 DEF SessionInv, SessionTypeOK, Contents
<1>9. ConnectionInv'
  BY <1>3 DEF SessionInv, ConnectionInv, OneConnection, NothingIsLeftover, Leftover
<1>10. ClientInv'
  <2>1. Len(recorded') = Len(recorded) + 1  BY <1>1, <1>3, OneMore DEF SessionInv
  <2> QED  BY <2>1, <1>3, Piped DEF SessionInv, ClientInv
<1> QED
  BY <1>1, <1>3, <1>5, <1>6, <1>7, <1>8, <1>9, <1>10 DEF SessionInv, SessionTypeOK, Flags, Contents, Records

\* Every step of the protocol keeps the invariant and is a step, or none, of
\* what the protocol promises.
LEMMA SessionStep ==
  ASSUME SessionInv, [SessionNext]_sessionVars
  PROVE  SessionInv' /\ [Delivery!Next]_<<recorded, position>>
<1>1. CASE Aside
  BY <1>1, AsideKeeps
<1>2. CASE ClientNotices \/ HangUp
  BY <1>2, CutKeeps
<1>3. CASE Deliver
  <2>1. /\ SessionInv' /\ Head(wire) \in Nat /\ Head(wire) < Len(recorded)
        /\ position < Head(wire) /\ position' = Head(wire) /\ UNCHANGED recorded
        /\ \A k \in Nat : Owed(k) /\ position < k => Head(wire) <= k
    BY <1>3, DeliverKeeps
  <2>2. position \in Int /\ -1 <= position /\ Len(recorded) \in Nat
    BY Piped
  <2> DEFINE n == Head(wire)
  <2>3. n \in (position + 1)..(Len(recorded) - 1)
    BY <2>1, <2>2
  <2>4. ASSUME NEW k \in (position + 1)..(n - 1)  PROVE Delivery!MayBeMissed(recorded[k + 1])
    <3>1. k \in Nat /\ position < k /\ ~(n <= k) /\ k \in 0..(Len(recorded) - 1)
      BY <2>1, <2>2
    <3>2. ~Owed(k)  BY <3>1, <2>1
    <3> QED  BY <3>1, <3>2 DEF Owed
  <2> HIDE DEF n
  <2>5. Delivery!Deliver(n)
    BY <2>1, <2>4 DEF Delivery!Deliver, n
  <2> QED  BY <2>1, <2>3, <2>5 DEF Delivery!Next
<1>4. CASE AdmitNew
  BY <1>4, AdmitNewKeeps DEF Delivery!Next, Delivery!Renew
<1>5. CASE AdmitResume
  BY <1>5, AdmitResumeKeeps
<1>6. CASE Replay
  BY <1>6, ReplayStepKeeps
<1>7. CASE Greet \/ Emit \/ DispatchFails \/ OrphanEmits
  <2>1. SessionInv' /\ Records /\ UNCHANGED position
    BY <1>7, GreetKeeps, EmitKeeps, DispatchFailsKeeps, OrphanEmitsKeeps
  <2> QED  BY <2>1 DEF Records, Delivery!Next, Delivery!Record
<1>8. CASE UNCHANGED sessionVars
  <2>1. UNCHANGED <<exists, last, floor, buffer, connected, leftBehind, endpoint, toReplay,
                    busy, job, sendFailed, orphan, expiry, recorded, linkUp, wire, failures,
                    client, position, first, retrying, fault>>
    BY <1>8 DEF sessionVars, state, handler, network, gateway
  <2>2. RecordInv' /\ WireInv' /\ PipeInv'  BY <2>1, Untouched DEF Listens
  <2>3. SessionTypeOK'  BY <2>1 DEF SessionInv, SessionTypeOK
  <2>4. ConnectionInv' /\ ClientInv'
    BY <2>1 DEF SessionInv, ConnectionInv, OneConnection, NothingIsLeftover, Leftover, ClientInv
  <2> QED  BY <2>1, <2>2, <2>3, <2>4 DEF SessionInv
<1> QED
  BY <1>1, <1>2, <1>3, <1>4, <1>5, <1>6, <1>7, <1>8 DEF SessionNext, Admission, Endpoint, Aside

\* The protocol begins as its promise does.
LEMMA SessionStarts ==
  ASSUME SessionInit
  PROVE  SessionInv /\ Delivery!Init
<1> USE DEF SessionInit
<1>1. Flags
  BY DEF Flags
<1>2. Contents
  BY BoundsAssumption DEF Contents, Endpoints, Clients, Faults
<1>3. RecordInv /\ ConnectionInv /\ ClientInv
  BY DEF RecordInv, ConnectionInv, OneConnection, NothingIsLeftover, Leftover, ClientInv
<1>4. WireInv /\ PipeInv
  BY DEF WireInv, PipeInv, Listens
<1> QED
  BY <1>1, <1>2, <1>3, <1>4 DEF SessionInv, SessionTypeOK, Flags, Contents, Delivery!Init

\* The invariant is stronger than what the run checks.
LEMMA SoundFromInvariant ==
  ASSUME SessionInv
  PROVE  SessionIsSound
<1>1. BufferIsWindow
  <2> SUFFICES ASSUME exists
        PROVE /\ last = Len(recorded) - 1 /\ Len(buffer) <= Window
              /\ \A i, j \in DOMAIN buffer : i < j => buffer[i] < buffer[j]
              /\ { buffer[i] : i \in DOMAIN buffer } =
                   { n \in 0..last : n > floor /\ recorded[n + 1].kind = "kept" }
    BY DEF BufferIsWindow
  <2>1. /\ last = Len(recorded) - 1 /\ Len(buffer) <= Window /\ InOrder(buffer)
        /\ \A i \in DOMAIN buffer : buffer[i] <= last
        /\ \A n \in 0..last : Among(n, buffer) <=> n > floor /\ recorded[n + 1].kind = "kept"
    BY DEF SessionInv, RecordInv
  <2>2. buffer \in Seq(Nat) /\ last \in Int
    BY DEF SessionInv, SessionTypeOK
  <2>3. \A i \in DOMAIN buffer : buffer[i] \in 0..last
    BY <2>1, <2>2
  <2> QED  BY <2>1, <2>3 DEF InOrder, Among
<1>2. ClientIsBehind
  BY Piped DEF ClientIsBehind, SessionInv, ClientInv, RecordInv
<1> QED
  BY <1>1, <1>2 DEF SessionIsSound, SessionInv, ConnectionInv

LEMMA SessionInvariant == SessionSpec => []SessionInv
<1>1. SessionInit => SessionInv
  BY SessionStarts
<1>2. SessionInv /\ [SessionNext]_sessionVars => SessionInv'
  BY SessionStep
<1> QED
  BY <1>1, <1>2, PTL DEF SessionSpec

\* The server's record of a session and its client's agree on what is to be
\* replayed: the buffer is exactly the window above the floor, a handler runs
\* only for the connection that owns the session, no session is left without a
\* task to remove it unless that task failed, and the client is never ahead.
THEOREM SessionSoundness == SessionSpec => []SessionIsSound
BY SessionInvariant, SoundFromInvariant, PTL

\* Admission, replay and serving keep the promise of SessionDelivery: events
\* reach the client in their order and once, and only those are missed that
\* the protocol does not replay.
THEOREM SessionRefinement == SessionSpec => ImplementsDelivery
<1>1. SessionInit => Delivery!Init
  BY SessionStarts
<1>2. SessionInv /\ [SessionNext]_sessionVars => [Delivery!Next]_<<recorded, position>>
  BY SessionStep
<1> QED
  BY <1>1, <1>2, SessionInvariant, PTL DEF SessionSpec, ImplementsDelivery, Delivery!Spec

=============================================================================
