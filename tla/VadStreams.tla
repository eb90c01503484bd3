----------------------------- MODULE VadStreams -----------------------------
(***************************************************************************)
(* The streams that the voice activity worker keeps for the turns of       *)
(* TurnSlots.  The worker is another process: it opens a stream with the   *)
(* first chunk of a recording, keeps it until it is told to close it, and  *)
(* has room for a few.  Each request has a connection of its own.  Whoever *)
(* waits for the answer may give up before the worker has begun, and the   *)
(* worker serves what it is sent, one request at a time, in any order.     *)
(***************************************************************************)
EXTENDS TurnSlots, FiniteSets

CONSTANT MaxStreams

ASSUME StreamsAssumption == MaxStreams \in Nat \ {0}

VARIABLES
  streams,  \* the turns whose streams the worker keeps
  sent,     \* requests sent and not served: <<"analyze", t>>, <<"close", t>>
  heard,    \* the answer to the chunk that the receive loop awaits
  asked,    \* the turn of that chunk
  parting,  \* the turn whose stream the receive loop or disconnect closes
  abandoned \* Observation only: of these, those whose stream nobody is left to close

vadVars == <<streams, sent, heard, asked, parting, abandoned>>
allVars == <<vars, vadVars>>

VadInit ==
  /\ Init
  /\ streams = {} /\ sent = {} /\ heard = "wait" /\ asked = NoTurn
  /\ parting = NoTurn /\ abandoned = {}

-----------------------------------------------------------------------------
(* UnixJsonWorkerClient: a request is sent, and answered, or given up. *)

\* Broken variant: a recording that is left is only dropped.
SendsUnlessLeaving(op, t) ==
  sent' = (IF leaving' = "recording" THEN sent ELSE sent \union {<<op, t>>})

Sends(op, t) == sent' = sent \union {<<op, t>>}

Quiet == UNCHANGED vadVars
Closed(t) == <<"close", t>> \notin sent

\* The turns that have a stream, or may get one yet.
Opened == streams \union {t \in Turns : <<"analyze", t>> \in sent}

\* What is given up may still be served; nobody sends it again.
Abandons(t) == abandoned' = abandoned \union ({t} \intersect Opened)

GivesUp(t) == Abandons(t) /\ UNCHANGED <<streams, sent, heard, asked, parting>>

Finds(t) == Closed(t) /\ Quiet

Closes(t) ==
  /\ Sends("close", t) /\ parting' = t
  /\ UNCHANGED <<streams, heard, asked, abandoned>>

ClosedOrGivenUp(t) == Finds(t) \/ GivesUp(t)

-----------------------------------------------------------------------------
VadChunk ==
  /\ Chunk
  /\ Sends("analyze", active) /\ heard' = "wait" /\ asked' = active
  /\ UNCHANGED <<streams, parting, abandoned>>

VadChunkDone ==
  /\ ChunkDone /\ heard = "ok"
  /\ heard' = "wait" /\ asked' = NoTurn
  /\ UNCHANGED <<streams, sent, parting, abandoned>>

\* The stream of a chunk that failed is not closed.
VadChunkFails ==
  /\ ChunkFails /\ heard # "ok"
  /\ heard' = "wait" /\ asked' = NoTurn
  /\ Abandons(asked)
  /\ UNCHANGED <<streams, sent, parting>>

\* An event whose stream identifier is not that of the recording drops the
\* recording, and closes nothing.
VadDiscard ==
  /\ Discard
  /\ \/ Closes(active)
     \/ Abandons(active) /\ parting' = NoTurn /\ UNCHANGED <<streams, sent, heard, asked>>
VadDiscarded == Discarded /\ ClosedOrGivenUp(parting)

\* finish closes the stream, then has the recording transcribed - unless the
\* identifier is another.
VadEndBegins ==
  /\ EndBegins
  /\ IF active # NoTurn /\ loop # "discarding"
     THEN \/ Sends("close", active) /\ UNCHANGED <<streams, heard, asked, parting, abandoned>>
          \/ GivesUp(active)
     ELSE Quiet

VadJobEnds(t) ==
  /\ JobEnds(t)
  /\ IF task[t] = "running" THEN ClosedOrGivenUp(t) ELSE Quiet

VadJobAsks(t) == JobAsks(t) /\ Finds(t)

VadCancelResponse == CancelResponse /\ Closes(processing)
VadCancelClosed == CancelClosed /\ Finds(subject)
VadCancelFails == CancelFails /\ GivesUp(subject)

\* disconnect closes the stream of the recording, then that of the response.
ClosesFirst ==
  CASE active # NoTurn -> Closes(active)
    [] active = NoTurn /\ processing # NoTurn -> Closes(processing)
    [] OTHER -> Quiet

VadLoss == Loss /\ ClosesFirst
VadSweep == Sweep /\ ClosesFirst

VadLeftRecording ==
  /\ LeftRecording
  /\ \/ Closed(parting) /\ leaving' = "closing" /\ Closes(processing)
     \/ Closed(parting) /\ leaving' # "closing" /\ Finds(parting)
     \/ leaving' = "no" /\ GivesUp(parting)

VadLeftClosing ==
  /\ LeftClosing
  /\ \/ leaving' = "joining" /\ Finds(subject)
     \/ leaving' = "no" /\ GivesUp(subject)

VadUnwind ==
  /\ Unwind
  /\ IF leaving \in {"recording", "closing"} THEN ClosedOrGivenUp(parting) ELSE Quiet

-----------------------------------------------------------------------------
(* The worker. *)

\* A stream is opened if there is room.  One that is opened, or opened again,
\* when its turn records no more has nobody left to close it.
Analyze(t) ==
  /\ <<"analyze", t>> \in sent
  /\ sent' = sent \ {<<"analyze", t>>}
  /\ LET room == t \in streams \/ Cardinality(streams) < MaxStreams
     IN /\ streams' = (IF room THEN streams \union {t} ELSE streams)
        /\ heard' = (IF loop = "chunk" /\ asked = t THEN (IF room THEN "ok" ELSE "error") ELSE heard)
  /\ abandoned' = (IF t # active /\ Closed(t) THEN abandoned \union {t} ELSE abandoned)
  /\ UNCHANGED <<vars, asked, parting>>

Close(t) ==
  /\ <<"close", t>> \in sent
  /\ sent' = sent \ {<<"close", t>>}
  /\ streams' = streams \ {t}
  /\ abandoned' = (IF <<"analyze", t>> \in sent THEN abandoned ELSE abandoned \ {t})
  /\ UNCHANGED <<vars, heard, asked, parting>>

\* The worker dies, with what it was sent, and is started again.
WorkerRestarts ==
  /\ streams # {} \/ sent # {}
  /\ streams' = {} /\ sent' = {} /\ abandoned' = {}
  /\ UNCHANGED <<vars, heard, asked, parting>>

-----------------------------------------------------------------------------
VadLoop ==
  \/ StartAdmitted /\ Quiet
  \/ VadChunkDone \/ VadChunkFails \/ VadDiscarded \/ VadCancelClosed \/ VadCancelFails
  \/ (CancelJoined \/ Rejected) /\ Quiet

VadJobs ==
  \/ VadEndBegins
  \/ AnswerBegins /\ Quiet
  \/ \E t \in Turns : VadJobEnds(t) \/ VadJobAsks(t)

VadLeave ==
  \/ VadLeftRecording \/ VadLeftClosing \/ VadUnwind
  \/ (LeftJoining \/ LeftRejecting \/ Gathered) /\ Quiet

VadNext ==
  \/ (Start \/ End \/ Answer \/ CancelApproval) /\ Quiet
  \/ VadChunk \/ VadDiscard \/ VadCancelResponse
  \/ VadLoop \/ VadJobs \/ VadLeave
  \/ VadLoss \/ VadSweep
  \/ (LossUntidy \/ Reconnect) /\ Quiet
  \/ (BeginSwitch \/ Drained \/ DrainTimeout \/ EndSwitch) /\ Quiet
  \/ \E t \in Turns : Analyze(t) \/ Close(t)
  \/ WorkerRestarts

\* As in TurnSlots; the worker need not serve anything, for every request has
\* a timeout.
VadSpec ==
  /\ VadInit /\ [][VadNext]_allVars
  /\ WF_allVars(VadLoop) /\ WF_allVars(VadJobs) /\ WF_allVars(VadLeave) /\ WF_allVars(VadSweep)

-----------------------------------------------------------------------------
(* Properties. *)

VadTypeOK ==
  /\ streams \subseteq Turns /\ abandoned \subseteq Turns
  /\ sent \subseteq {"analyze", "close"} \X Turns
  /\ heard \in {"wait", "ok", "error"} /\ asked \in Slot /\ parting \in Slot

\* A stream of the worker is that of the turn that records, or its close is on
\* the way - unless a request about it failed, was given up or was overtaken,
\* which keeps the stream, and its place, for good.
StreamsAreClosed == \A t \in streams : t = active \/ ~Closed(t) \/ t \in abandoned

\* The model's use and the worker's streams are given back, in whatever order
\* the client, the connection, the tasks and the worker act.
VoiceIsBalanced == UsageIsBalanced /\ VadTypeOK /\ StreamsAreClosed

=============================================================================
