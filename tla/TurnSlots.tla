----------------------------- MODULE TurnSlots -----------------------------
(***************************************************************************)
(* The slots in which VoiceSessionEventHandler keeps the turn of one       *)
(* session - recording, processing, waiting for an approval - and the use  *)
(* of the model that the session holds meanwhile, so that a model switch   *)
(* waits for it.  Five tasks touch them: the receive loop of the           *)
(* connection, the tasks of a recording's end and of an approval's answer, *)
(* the end of the connection, and the sweep after its grace period.        *)
(*                                                                         *)
(* What a turn says, and what the model and the speech workers answer, is  *)
(* left out; that their calls may fail is not.                             *)
(***************************************************************************)
EXTENDS Naturals

CONSTANTS
  MaxTurns,  \* bound: recordings begun
  NoTurn

Turns == 1..MaxTurns

ASSUME TurnsAssumption == MaxTurns \in Nat /\ NoTurn \notin Turns

VARIABLES
  \* The handler's tables, for this session.
  active,      \* the turn that records
  processing,  \* the turn whose task is registered
  pending,     \* the turn that waits for an approval
  held,        \* the session is in _usage_sessions, and counted by the barrier
  \* The tasks.
  task,        \* [Turns -> "none", "running", "cancelled", "done"]
  ended,       \* the task of a recording's end was created and has not begun
  answered,    \* the task of an approval's answer likewise
  loop,        \* what the receive loop awaits
  subject,     \* the turn that the receive loop or disconnect closes
  leaving,     \* what disconnect awaits
  link,        \* "up", "leaving" (disconnect runs, the session is taken), "down"
  due,         \* the grace period runs
  switch,      \* "none", "draining", "stopped": ModelActivityBarrier
  begun,       \* turns begun
  strayed      \* Observation only: a task outlived its slot, or a turn's use
               \* was released by the failure of another's chunk

slots == <<active, processing, pending>>
jobs == <<task, ended, answered>>
leave == <<leaving, link, due>>
vars == <<slots, held, jobs, loop, subject, leave, switch, begun, strayed>>

Slot == Turns \union {NoTurn}
TaskStates == {"none", "running", "cancelled", "done"}
LoopStates == {"idle", "starting", "chunk", "discarding", "closing", "joining", "rejecting"}
LeaveStates == {"no", "recording", "closing", "joining", "rejecting", "gathering"}

Empty == active = NoTurn /\ processing = NoTurn /\ pending = NoTurn

Init ==
  /\ active = NoTurn /\ processing = NoTurn /\ pending = NoTurn /\ held = FALSE
  /\ task = [t \in Turns |-> "none"] /\ ended = FALSE /\ answered = FALSE
  /\ loop = "idle" /\ subject = NoTurn
  /\ leaving = "no" /\ link = "up" /\ due = FALSE
  /\ switch = "none" /\ begun = 0 /\ strayed = FALSE

\* _release_usage, harmless when nothing is held.
Release == held' = FALSE

\* The receive loop takes the next event of the client.  A sweep that this
\* connection cancelled has run out before its greeting was sent, unless it
\* has a transaction of the store to roll back.
Takes == loop = "idle" /\ link = "up" /\ leaving \in {"no", "rejecting"}

-----------------------------------------------------------------------------
(* The receive loop: a recording. *)

\* audio.input.start: refused while a turn is under way, and by
\* _acquire_usage while one is still being disposed of.
Start ==
  /\ Takes /\ Empty /\ ~held /\ begun < MaxTurns
  /\ loop' = "starting"
  /\ UNCHANGED <<slots, held, jobs, subject, leave, switch, begun, strayed>>

\* acquire_usage returns when no switch is under way; the turn may refuse the
\* format of the stream, and then gives the use back.
StartAdmitted ==
  /\ loop = "starting" /\ switch = "none"
  /\ loop' = "idle"
  /\ \/ /\ Empty
        /\ active' = begun + 1 /\ begun' = begun + 1
        /\ held' = TRUE
     \/ UNCHANGED <<active, held, begun>>
  /\ UNCHANGED <<processing, pending, jobs, subject, leave, switch, strayed>>

\* A chunk goes to the voice activity worker.
Chunk ==
  /\ Takes /\ active # NoTurn
  /\ loop' = "chunk"
  /\ UNCHANGED <<slots, held, jobs, subject, leave, switch, begun, strayed>>

ChunkDone ==
  /\ loop = "chunk"
  /\ loop' = "idle"
  /\ UNCHANGED <<slots, held, jobs, subject, leave, switch, begun, strayed>>

\* VoiceDependencyUnavailable: whatever records now is dropped, and the use
\* of the session is released, whoever needs it.
ChunkFails ==
  /\ loop = "chunk"
  /\ loop' = "idle"
  /\ active' = NoTurn
  /\ Release
  /\ strayed' = (strayed \/ processing # NoTurn \/ pending # NoTurn)
  /\ UNCHANGED <<processing, pending, jobs, subject, leave, switch, begun>>

\* audio.input.end that discards the recording (barge_in, disconnect).
Discard ==
  /\ Takes /\ active # NoTurn
  /\ loop' = "discarding"
  /\ UNCHANGED <<slots, held, jobs, subject, leave, switch, begun, strayed>>

Discarded ==
  /\ loop = "discarding"
  /\ loop' = "idle"
  /\ active' = NoTurn
  /\ Release
  /\ UNCHANGED <<processing, pending, jobs, subject, leave, switch, begun, strayed>>

-----------------------------------------------------------------------------
(* The tasks beside the receive loop. *)

\* audio.input.end (vad_end, client_stop) and approval.response get a task.
End ==
  /\ Takes
  /\ ended' = TRUE
  /\ UNCHANGED <<slots, held, task, answered, loop, subject, leave, switch, begun, strayed>>

Answer ==
  /\ Takes
  /\ answered' = TRUE
  /\ UNCHANGED <<slots, held, task, ended, loop, subject, leave, switch, begun, strayed>>

Registers(t) ==
  /\ processing' = t
  /\ task' = [task EXCEPT ![t] = "running"]

\* The task of the end begins: nothing to end, a recording that is being
\* discarded - its stream refuses to finish -, or a response.
EndBegins ==
  /\ ended
  /\ ended' = FALSE
  /\ active' = NoTurn
  /\ \/ active = NoTurn /\ UNCHANGED <<processing, task, held>>
     \/ active # NoTurn /\ loop = "discarding" /\ Release /\ UNCHANGED <<processing, task>>
     \/ active # NoTurn /\ loop # "discarding" /\ Registers(active) /\ UNCHANGED held
  /\ UNCHANGED <<pending, answered, loop, subject, leave, switch, begun, strayed>>

\* _continue_after_approval, or its refusal.
AnswerBegins ==
  /\ answered
  /\ answered' = FALSE
  /\ pending' = NoTurn
  /\ \/ pending = NoTurn /\ UNCHANGED <<processing, task>>
     \/ pending # NoTurn /\ Registers(pending)
  /\ UNCHANGED <<active, held, ended, loop, subject, leave, switch, begun, strayed>>

Unregisters(t) == processing' = (IF processing = t THEN NoTurn ELSE processing)

\* The response is complete, or failed, or its cancellation has got through:
\* the use is released unless the session waits for an approval.
Ends(t) ==
  /\ Unregisters(t)
  /\ task' = [task EXCEPT ![t] = "done"]
  /\ held' = (held /\ pending # NoTurn)
  /\ UNCHANGED <<active, pending, ended, answered, loop, subject, leave, switch, begun, strayed>>

JobEnds(t) == task[t] \in {"running", "cancelled"} /\ Ends(t)

\* Broken variant: the use is released while the approval is awaited.
JobAsksReleasing(t) ==
  /\ task[t] = "running"
  /\ Unregisters(t)
  /\ pending' = t
  /\ task' = [task EXCEPT ![t] = "done"]
  /\ Release
  /\ UNCHANGED <<active, ended, answered, loop, subject, leave, switch, begun, strayed>>

\* It stopped at a tool that needs an approval.
JobAsks(t) ==
  /\ task[t] = "running"
  /\ Unregisters(t)
  /\ pending' = t
  /\ task' = [task EXCEPT ![t] = "done"]
  /\ UNCHANGED <<active, held, ended, answered, loop, subject, leave, switch, begun, strayed>>

-----------------------------------------------------------------------------
(* operation.cancel: _cancel_response. *)

Stops(t) == [task EXCEPT ![t] = IF @ = "running" THEN "cancelled" ELSE @]

CancelResponse ==
  /\ Takes /\ processing # NoTurn
  /\ processing' = NoTurn /\ subject' = processing
  /\ task' = Stops(processing)
  /\ loop' = "closing"
  /\ UNCHANGED <<active, pending, held, ended, answered, leave, switch, begun, strayed>>

\* close_vad returned: the task is joined.
CancelClosed ==
  /\ loop = "closing"
  /\ loop' = "joining"
  /\ UNCHANGED <<slots, held, jobs, subject, leave, switch, begun, strayed>>

\* It failed: the use is released, and nobody waits for the task.
CancelFails ==
  /\ loop = "closing"
  /\ loop' = "idle"
  /\ active' = NoTurn
  /\ Release
  /\ strayed' = (strayed \/ task[subject] # "done")
  /\ UNCHANGED <<processing, pending, jobs, subject, leave, switch, begun>>

CancelJoined ==
  /\ loop = "joining" /\ task[subject] = "done"
  /\ loop' = "idle"
  /\ UNCHANGED <<slots, held, jobs, subject, leave, switch, begun, strayed>>

CancelApproval ==
  /\ Takes /\ processing = NoTurn /\ pending # NoTurn
  /\ pending' = NoTurn
  /\ loop' = "rejecting"
  /\ UNCHANGED <<active, processing, held, jobs, subject, leave, switch, begun, strayed>>

\* The durable rejection succeeded or failed.
Rejected ==
  /\ loop = "rejecting"
  /\ loop' = "idle"
  /\ Release
  /\ UNCHANGED <<slots, jobs, subject, leave, switch, begun, strayed>>

-----------------------------------------------------------------------------
(* disconnect: the turn that records, the task, and - unless the client may
   come back to it - the approval, in this order. *)

\* What follows when the task is disposed of.
ToPending ==
  LET rejects == pending # NoTurn /\ link = "down"
  IN /\ pending' = (IF rejects THEN NoTurn ELSE pending)
     /\ leaving' = (CASE rejects -> "rejecting"
                      [] ~rejects /\ link = "leaving" -> "gathering"
                      [] OTHER -> "no")

\* What follows when the recording is.
ToProcessing(tasks) ==
  \/ /\ processing # NoTurn
     /\ task' = [tasks EXCEPT ![processing] = IF @ = "running" THEN "cancelled" ELSE @]
     /\ subject' = processing /\ leaving' = "closing"
     /\ UNCHANGED pending
  \/ processing = NoTurn /\ task' = tasks /\ ToPending /\ UNCHANGED subject

Disconnects(tasks) ==
  /\ active' = NoTurn
  /\ \/ active # NoTurn /\ leaving' = "recording" /\ task' = tasks /\ UNCHANGED <<pending, subject>>
     \/ active = NoTurn /\ ToProcessing(tasks)
  /\ UNCHANGED processing

\* WebSocketDisconnect: the tasks are cancelled, those that did not begin
\* never will; disconnect(preserve_pending_approval=True) begins.  A sweep that
\* the connection cancelled has long run out.
Loss ==
  /\ Takes /\ leaving = "no"
  /\ link' = "leaving" /\ due' = FALSE /\ ended' = FALSE /\ answered' = FALSE
  /\ \/ active # NoTurn /\ leaving' = "recording" /\ UNCHANGED subject
     \/ active = NoTurn /\ processing # NoTurn /\ leaving' = "closing" /\ subject' = processing
     \/ active = NoTurn /\ processing = NoTurn /\ leaving' = "gathering" /\ UNCHANGED subject
  /\ active' = NoTurn
  /\ task' = [t \in Turns |-> IF task[t] = "running" THEN "cancelled" ELSE task[t]]
  /\ UNCHANGED <<processing, pending, held, loop, switch, begun, strayed>>

\* A send failed in the receive loop: the connection ends and its tasks stay.
LossUntidy ==
  /\ Takes /\ leaving = "no"
  /\ link' = "down" /\ due' = TRUE
  /\ UNCHANGED <<slots, held, jobs, loop, subject, leaving, switch, begun, strayed>>

\* expire_session: the grace period is over.
Sweep ==
  /\ link = "down" /\ due /\ leaving = "no"
  /\ due' = FALSE
  /\ Disconnects(task)
  /\ UNCHANGED <<held, ended, answered, loop, link, switch, begun, strayed>>

\* disconnect raises: what it had not reached stays.
LeaveRaises ==
  /\ leaving' = "no"
  /\ link' = "down" /\ due' = (due \/ link = "leaving")

LeftRecording ==
  /\ leaving = "recording" /\ link # "up"
  /\ Release
  /\ \/ ToProcessing(task) /\ UNCHANGED <<link, due>>
     \/ LeaveRaises /\ UNCHANGED <<pending, task, subject>>
  /\ UNCHANGED <<active, processing, ended, answered, loop, switch, begun, strayed>>

LeftClosing ==
  /\ leaving = "closing" /\ link # "up"
  /\ \/ leaving' = "joining" /\ UNCHANGED <<processing, held, link, due, strayed>>
     \/ /\ LeaveRaises
        /\ processing' = NoTurn
        /\ Release
        /\ strayed' = (strayed \/ task[subject] # "done")
  /\ UNCHANGED <<active, pending, jobs, loop, subject, switch, begun>>

LeftJoining ==
  /\ leaving = "joining" /\ link # "up" /\ task[subject] = "done"
  /\ processing' = NoTurn
  /\ Release
  /\ ToPending
  /\ UNCHANGED <<active, jobs, loop, subject, link, due, switch, begun, strayed>>

\* Broken variant: a rejection that fails keeps the use.
LeftRejectingUnlessFailed ==
  /\ leaving = "rejecting" /\ link # "up"
  /\ leaving' = "no"
  /\ held' \in {FALSE, held}
  /\ UNCHANGED <<slots, jobs, loop, subject, link, due, switch, begun, strayed>>

\* The durable rejection succeeded or failed.
LeftRejecting ==
  /\ leaving = "rejecting" /\ link # "up"
  /\ leaving' = "no"
  /\ Release
  /\ UNCHANGED <<slots, jobs, loop, subject, link, due, switch, begun, strayed>>

\* The connection waits for its tasks, and the grace period begins.
Gathered ==
  /\ leaving = "gathering" /\ \A t \in Turns : task[t] # "cancelled"
  /\ LeaveRaises
  /\ UNCHANGED <<slots, held, jobs, loop, subject, switch, begun, strayed>>

\* The client is back; a sweep that is under way is cancelled.
Reconnect ==
  /\ link = "down"
  /\ link' = "up" /\ due' = FALSE
  /\ UNCHANGED <<slots, held, jobs, loop, subject, leaving, switch, begun, strayed>>

\* The cancelled sweep runs through its finally clauses.
Unwind ==
  /\ link = "up" /\ leaving # "no"
  /\ leaving' = "no"
  /\ Release
  /\ IF leaving \in {"closing", "joining"}
       THEN processing' = NoTurn /\ strayed' = (strayed \/ task[subject] # "done")
       ELSE UNCHANGED <<processing, strayed>>
  /\ UNCHANGED <<active, pending, jobs, loop, subject, link, due, switch, begun>>

-----------------------------------------------------------------------------
(* ModelActivityBarrier: no start is admitted while a switch drains or has
   stopped the model. *)

Switches(from, to) ==
  /\ switch = from /\ switch' = to
  /\ UNCHANGED <<slots, held, jobs, loop, subject, leave, begun, strayed>>

BeginSwitch == Switches("none", "draining")
Drained == ~held /\ Switches("draining", "stopped")
DrainTimeout == Switches("draining", "none")
EndSwitch == Switches("stopped", "none")

-----------------------------------------------------------------------------
Loop ==
  \/ StartAdmitted \/ ChunkDone \/ ChunkFails \/ Discarded
  \/ CancelClosed \/ CancelFails \/ CancelJoined \/ Rejected

Jobs ==
  \/ EndBegins \/ AnswerBegins
  \/ \E t \in Turns : JobEnds(t) \/ JobAsks(t)

Leave ==
  \/ LeftRecording \/ LeftClosing \/ LeftJoining \/ LeftRejecting \/ Gathered \/ Unwind

Next ==
  \/ Start \/ Chunk \/ Discard \/ End \/ Answer \/ CancelResponse \/ CancelApproval
  \/ Loop \/ Jobs \/ Leave
  \/ Loss \/ LossUntidy \/ Sweep \/ Reconnect
  \/ BeginSwitch \/ Drained \/ DrainTimeout \/ EndSwitch

Spec == Init /\ [][Next]_vars

\* Every call to a worker, the model and the store has a timeout, and the
\* grace period ends.  Nothing is assumed of the client or of switches.
FairSpec ==
  /\ Spec
  /\ WF_vars(Loop) /\ WF_vars(Jobs) /\ WF_vars(Leave) /\ WF_vars(Sweep)

-----------------------------------------------------------------------------
(* Properties. *)

TypeOK ==
  /\ active \in Slot /\ processing \in Slot /\ pending \in Slot /\ subject \in Slot
  /\ held \in BOOLEAN /\ ended \in BOOLEAN /\ answered \in BOOLEAN /\ due \in BOOLEAN
  /\ strayed \in BOOLEAN
  /\ task \in [Turns -> TaskStates]
  /\ loop \in LoopStates /\ leaving \in LeaveStates
  /\ link \in {"up", "leaving", "down"} /\ switch \in {"none", "draining", "stopped"}
  /\ begun \in 0..MaxTurns

\* The session has one turn at a time, in one slot.
OneSlot ==
  /\ active # NoTurn => processing = NoTurn /\ pending = NoTurn
  /\ processing # NoTurn => pending = NoTurn

Needed == ~Empty \/ \E t \in Turns : task[t] = "running"

\* A turn that records, answers or waits for its approval is counted by the
\* barrier, so that no switch stops the model under it - unless a task
\* outlived its slot: a failing voice worker or a returning client kept the
\* handler from joining it, and its end releases the use of the next turn.
TurnsAreCounted == ~strayed /\ Needed => held /\ switch # "stopped"

\* A use that is held has somebody who will release it.
UseIsOwned ==
  held => ~Empty \/ loop \in {"closing", "joining", "rejecting"}
                 \/ leaving \in {"recording", "closing", "joining", "rejecting"}

\* Starts, ends, cancellations, answers, losses, returns and sweeps, in any
\* order, leave the session's use of the model neither missing nor leaked.
UsageIsBalanced == TypeOK /\ OneSlot /\ TurnsAreCounted /\ UseIsOwned

\* A client that is gone does not keep the model from being switched: its
\* turn, and the approval it left open, give up their use of it.
GoneClientsFreeTheModel == link # "up" ~> ~held \/ link = "up"

=============================================================================
