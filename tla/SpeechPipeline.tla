--------------------------- MODULE SpeechPipeline ---------------------------
(***************************************************************************)
(* VoiceTurnService: from the recorded words to the spoken answer.         *)
(*                                                                         *)
(* Two tasks share one response.  The turn's own task reads the language   *)
(* model's stream, forwards its text and puts every complete speech unit   *)
(* into a queue of bounded length; a second task takes the units out, has  *)
(* them synthesized and sends the audio in numbered chunks.  The first     *)
(* joins the second and ends the audio stream; if anything fails, or the   *)
(* turn is cancelled, it stops the second task and ends the stream itself. *)
(*                                                                         *)
(* An answer that arrives whole (a turn with tools, or after an approval)  *)
(* is spoken by the turn's task alone.  That is the same as finding every  *)
(* unit of it in the queue, which is how it is modelled here.              *)
(*                                                                         *)
(* One action is one step between two awaits.  Sending takes two: the      *)
(* event is on the wire before the await of the transport returns.         *)
(***************************************************************************)
EXTENDS Naturals, Sequences

CONSTANTS
  QueueSize,  \* units the queue holds; 8 in the code
  MaxReady,   \* bound: units one delta of the model completes
  MaxDeltas,  \* deltas a stream may have before it is too large
  MaxPieces   \* bound: chunks of audio one unit has

ASSUME BoundsAssumption ==
  /\ QueueSize \in Nat \ {0} /\ MaxReady \in Nat
  /\ MaxDeltas \in Nat /\ MaxPieces \in Nat \ {0}

VARIABLES
  \* The turn's task.
  turn,       \* the await it stands at
  reason,     \* why it cleans up
  deltas,     \* deltas received
  made,       \* speech units completed
  ready,      \* units it still has to put into the queue
  \* The task that speaks.
  voice,      \* the await it stands at
  unit,       \* the unit it speaks
  pieces,     \* chunks it sent of that unit
  spoken,     \* units it has finished
  \* What they share.
  queue,      \* speech_queue
  started,    \* state.started: audio was announced
  index,      \* state.chunk_index
  \* The client.
  out,        \* audio events on the wire
  link,       \* the WebSocket takes events
  canceller   \* operation.cancel, or the end of the connection

turnVars  == <<turn, reason, deltas, made, ready>>
voiceVars == <<voice, unit, pieces, spoken>>
vars == <<turnVars, voiceVars, queue, started, index, out, link, canceller>>

\* None in the queue: no more units.
Stop == 0

Chunk(n, u) == [kind |-> "chunk", index |-> n, unit |-> u]
End(why)    == [kind |-> "end", reason |-> why]

\* In the response: a failure or a cancellation cleans up, unless Untried.
Responding == {"model", "text", "put", "final", "drain", "join", "tail", "tailSent",
               "end", "ended"}
Cleaning == {"cleanup", "close", "closing"}
Turns == {"recognize", "over"} \union Responding \union Cleaning

Finished == {"done", "failed", "cancelled"}
Voices == {"get", "speak", "announce", "send", "sent"} \union Finished

Smaller(a, b) == IF a < b THEN a ELSE b

-----------------------------------------------------------------------------
Init ==
  /\ turn = "recognize" /\ reason = "none"
  /\ deltas = 0 /\ made = 0 /\ ready = <<>>
  /\ voice = "get" /\ unit = Stop /\ pieces = 0 /\ spoken = 0
  /\ queue = <<>> /\ started = FALSE /\ index = 0
  /\ out = <<>> /\ link = TRUE /\ canceller = "none"

Goto(next) == turn' = next /\ UNCHANGED <<reason, deltas, made, ready>>

\* The last chunk and the end of a whole answer are outside its try block.
Untried == deltas = 0 /\ turn \in {"tail", "tailSent", "end", "ended"}

\* An exception or a cancellation in the try block: the other task is cancelled.
Fail(why) ==
  \/ ~Untried /\ turn' = "cleanup" /\ reason' = why /\ UNCHANGED <<deltas, made, ready>>
  \/ Untried /\ Goto("over")

\* emit of an event that is no audio: delivered, or the link is gone.
Tell(next) == IF link THEN Goto(next) ELSE Fail("error")

-----------------------------------------------------------------------------
(* The turn's task. *)

\* Speech recognition returns words, or nothing the turn could answer.
Recognize ==
  /\ turn = "recognize"
  /\ \/ link /\ Goto("model")
     \/ Goto("over")
  /\ UNCHANGED <<voiceVars, queue, started, index, out, link, canceller>>

\* The model's next delta completes n speech units.  A speaking task that has
\* ended is awaited, which raises what ended it.
Delta(n) ==
  /\ turn = "model"
  /\ \/ /\ voice \notin Finished /\ deltas < MaxDeltas
        /\ turn' = "text"
        /\ deltas' = deltas + 1
        /\ made' = made + n
        /\ ready' = [k \in 1..n |-> made + k]
        /\ UNCHANGED reason
     \/ (voice \in Finished \/ deltas = MaxDeltas) /\ Fail("error")
  /\ UNCHANGED <<voiceVars, queue, started, index, out, link, canceller>>

\* Delivers the delta and, once, that synthesis begins.
ForwardText ==
  /\ turn = "text"
  /\ Tell(IF ready = <<>> THEN "model" ELSE "put")
  /\ UNCHANGED <<voiceVars, queue, started, index, out, link, canceller>>

\* speech_queue.put of what is ready: without suspending while there is room.
Put(limit, next) ==
  LET n == Smaller(Len(ready), limit - Len(queue)) IN
  /\ n > 0
  /\ queue' = queue \o SubSeq(ready, 1, n)
  /\ ready' = SubSeq(ready, n + 1, Len(ready))
  /\ turn' = IF n = Len(ready) THEN next ELSE turn
  /\ UNCHANGED <<reason, deltas, made, voiceVars, started, index, out, link, canceller>>

PutUnits == turn = "put" /\ Put(QueueSize, "model")

\* The stream ends, with words left that complete no unit, or fails, or never
\* had any words.
StreamEnds(rest) ==
  /\ turn = "model"
  /\ \/ /\ deltas > 0 /\ (rest \/ made > 0)
        /\ turn' = "final"
        /\ made' = IF rest THEN made + 1 ELSE made
        /\ ready' = IF rest THEN <<made + 1, Stop>> ELSE <<Stop>>
        /\ UNCHANGED <<reason, deltas>>
     \/ Fail("error")
  /\ UNCHANGED <<voiceVars, queue, started, index, out, link, canceller>>

\* An answer of n units that comes whole: the conversation's respond, or
\* decide_approval; or none, because the turn waits for an approval.
WholeReply(n) ==
  /\ turn = "model" /\ deltas = 0
  /\ \/ /\ n > 0
        /\ turn' = "final"
        /\ made' = n
        /\ ready' = [k \in 1..(n + 1) |-> IF k > n THEN Stop ELSE k]
        /\ UNCHANGED <<reason, deltas>>
     \/ n = 0 /\ Goto("over")
  /\ UNCHANGED <<voiceVars, queue, started, index, out, link, canceller>>

\* Delivers assistant.text.final.
FinalText ==
  /\ turn = "final"
  /\ Tell("drain")
  /\ UNCHANGED <<voiceVars, queue, started, index, out, link, canceller>>

\* Puts the rest and the mark; a whole answer is not limited by the queue.
DrainUnits ==
  /\ turn = "drain"
  /\ Put(IF deltas = 0 THEN made + 1 ELSE QueueSize, "join")

\* Broken variant: waits for the queue to be worked off.
JoinQueue ==
  /\ turn = "join" /\ queue = <<>> /\ voice = "done"
  /\ \E next \in {"tail", "end"} : (next = "end" \/ started) /\ Goto(next)
  /\ UNCHANGED <<voiceVars, queue, started, index, out, link, canceller>>

\* Awaits the speaking task, and raises what ended it.
Join ==
  /\ turn = "join"
  /\ \/ voice = "done" /\ \E next \in {"tail", "end"} : (next = "end" \/ started) /\ Goto(next)
     \/ voice = "failed" /\ Fail("error")
  /\ UNCHANGED <<voiceVars, queue, started, index, out, link, canceller>>

\* _end_audio_output: a chunk of silence, if configured, then the end.
SendTail ==
  /\ \/ /\ turn = "tail" /\ link
        /\ out' = Append(out, Chunk(index, made)) /\ Goto("tailSent") /\ UNCHANGED index
     \/ turn = "tailSent" /\ link /\ index' = index + 1 /\ Goto("end") /\ UNCHANGED out
     \/ turn \in {"tail", "tailSent"} /\ ~link /\ Fail("error") /\ UNCHANGED <<index, out>>
  /\ UNCHANGED <<voiceVars, queue, started, link, canceller>>

SendEnd ==
  /\ \/ turn = "end" /\ link /\ out' = Append(out, End("completed")) /\ Goto("ended")
     \/ turn = "ended" /\ link /\ Goto("over") /\ UNCHANGED out
     \/ turn \in {"end", "ended"} /\ ~link /\ Fail("error") /\ UNCHANGED out
  /\ UNCHANGED <<voiceVars, queue, started, index, link, canceller>>

\* Broken variant: the stream is ended while the speaking task winds down.
StopVoiceUnjoined ==
  /\ turn = "cleanup"
  /\ Goto(IF started THEN "close" ELSE "over")
  /\ UNCHANGED <<voiceVars, queue, started, index, out, link, canceller>>

\* The speaking task has been cancelled and is awaited.
StopVoice ==
  /\ turn = "cleanup" /\ voice \in Finished
  /\ Goto(IF started THEN "close" ELSE "over")
  /\ UNCHANGED <<voiceVars, queue, started, index, out, link, canceller>>

\* _close_partial_output: an error while sending is swallowed.
CloseOutput ==
  /\ \/ turn = "close" /\ link /\ out' = Append(out, End(reason)) /\ Goto("closing")
     \/ turn = "close" /\ ~link /\ Goto("over") /\ UNCHANGED out
     \/ turn = "closing" /\ Goto("over") /\ UNCHANGED out
  /\ UNCHANGED <<voiceVars, queue, started, index, link, canceller>>

-----------------------------------------------------------------------------
(* The speaking task. *)

\* It goes on unless the turn's task has cancelled it.
Speaking(at) == voice = at /\ turn \notin Cleaning \union {"over"}

GetUnit ==
  /\ Speaking("get") /\ queue # <<>>
  /\ queue' = Tail(queue)
  /\ unit' = Head(queue) /\ pieces' = 0
  /\ voice' = IF Head(queue) = Stop THEN "done" ELSE "speak"
  /\ UNCHANGED <<turnVars, spoken, started, index, out, link, canceller>>

\* Synthesis returns more audio, or all of it, or fails (an error, a timeout, a
\* changed format, no audio at all).
Synthesize ==
  /\ Speaking("speak")
  /\ \/ /\ pieces < MaxPieces
        /\ voice' = (IF started THEN "send" ELSE "announce")
        /\ UNCHANGED spoken
     \/ pieces > 0 /\ voice' = "get" /\ spoken' = unit
     \/ voice' = "failed" /\ UNCHANGED spoken
  /\ UNCHANGED <<turnVars, unit, pieces, queue, started, index, out, link, canceller>>

\* Delivers assistant.state "speaking".
Announce ==
  /\ Speaking("announce")
  /\ voice' = IF link THEN "send" ELSE "failed"
  /\ started' = link
  /\ UNCHANGED <<turnVars, unit, pieces, spoken, queue, index, out, link, canceller>>

\* _emit_pcm_chunks: the number goes up when the chunk has been sent.
SendChunk ==
  /\ \/ /\ Speaking("send") /\ link
        /\ out' = Append(out, Chunk(index, unit))
        /\ voice' = "sent" /\ UNCHANGED <<pieces, index>>
     \/ /\ Speaking("sent") /\ link
        /\ voice' = "speak" /\ pieces' = pieces + 1 /\ index' = index + 1 /\ UNCHANGED out
     \/ /\ (Speaking("send") \/ Speaking("sent")) /\ ~link
        /\ voice' = "failed" /\ UNCHANGED <<pieces, index, out>>
  /\ UNCHANGED <<turnVars, unit, spoken, queue, started, link, canceller>>

\* CancelledError reaches the speaking task at its await; a chunk it waited to
\* send may have gone out.
VoiceCancelled ==
  /\ turn \in Cleaning \union {"over"} /\ voice \notin Finished
  /\ voice' = "cancelled"
  /\ \/ UNCHANGED out
     \/ voice = "send" /\ link /\ out' = Append(out, Chunk(index, unit))
  /\ UNCHANGED <<turnVars, unit, pieces, spoken, queue, started, index, link, canceller>>

-----------------------------------------------------------------------------
(* The session. *)

\* task.cancel(): CancelledError at the turn's await.  While it waits for the
\* speaking task to stop the error is suppressed, so that it goes on.
Cancel ==
  /\ canceller = "none"
  /\ canceller' = "asked"
  /\ \/ turn \in Responding /\ Fail("cancelled")
     \/ turn \in {"recognize", "close", "closing"} /\ Goto("over")
     \/ turn \in {"cleanup", "over"} /\ UNCHANGED turnVars
  /\ UNCHANGED <<voiceVars, queue, started, index, out, link>>

\* Broken variant: the answer does not wait for the task.
AnswerCancelEarly ==
  /\ canceller = "asked"
  /\ canceller' = "told"
  /\ UNCHANGED <<turnVars, voiceVars, queue, started, index, out, link>>

\* gather joins the task before operation.cancel.result is returned.
AnswerCancel ==
  /\ canceller = "asked" /\ turn = "over"
  /\ canceller' = "told"
  /\ UNCHANGED <<turnVars, voiceVars, queue, started, index, out, link>>

\* The WebSocket takes no more events.
LinkLost ==
  /\ link
  /\ link' = FALSE
  /\ UNCHANGED <<turnVars, voiceVars, queue, started, index, out, canceller>>

-----------------------------------------------------------------------------
TurnStep ==
  \/ Recognize
  \/ \E n \in 0..MaxReady : Delta(n) \/ WholeReply(n)
  \/ \E rest \in BOOLEAN : StreamEnds(rest)
  \/ ForwardText \/ PutUnits \/ FinalText \/ DrainUnits \/ Join
  \/ SendTail \/ SendEnd \/ StopVoice \/ CloseOutput

VoiceStep == GetUnit \/ Synthesize \/ Announce \/ SendChunk \/ VoiceCancelled

\* The response is over: its session goes on with the next one.
Rest ==
  /\ turn = "over" /\ voice \in Finished /\ canceller # "asked"
  /\ UNCHANGED vars

Next == TurnStep \/ VoiceStep \/ Cancel \/ AnswerCancel \/ LinkLost \/ Rest

Spec == Init /\ [][Next]_vars

\* The event loop runs every ready task; the model's stream, the synthesizer
\* and the transport have timeouts.  Nothing is assumed of the client.
FairSpec == Spec /\ WF_vars(TurnStep) /\ WF_vars(VoiceStep)

-----------------------------------------------------------------------------
(* Properties. *)

TypeOK ==
  /\ turn \in Turns /\ reason \in {"none", "error", "cancelled"}
  /\ deltas \in 0..MaxDeltas /\ made \in Nat
  /\ ready \in Seq(Nat) /\ queue \in Seq(Nat)
  /\ voice \in Voices /\ unit \in Nat /\ pieces \in 0..MaxPieces /\ spoken \in Nat
  /\ started \in BOOLEAN /\ index \in Nat
  /\ out \in Seq([kind : {"chunk"}, index : Nat, unit : Nat]
                   \union [kind : {"end"}, reason : {"completed", "error", "cancelled"}])
  /\ link \in BOOLEAN /\ canceller \in {"none", "asked", "told"}

\* docs/architecture.md: chunk indexes are monotonic across the single output
\* stream.  The chunks are numbered without a gap, carry the units in their
\* order with none left out, and nothing is heard after an end; a stream that
\* ends as completed has spoken every unit.
OutputIsOrdered ==
  TypeOK /\ \A n \in DOMAIN out :
    /\ out[n].kind = "chunk" => out[n].index = n - 1
    /\ n = 1 /\ out[n].kind = "chunk" => out[n].unit = 1
    /\ n > 1 /\ out[n].kind = "chunk" =>
         /\ out[n - 1].kind = "chunk"
         /\ out[n].unit - out[n - 1].unit \in {0, 1}
    /\ out[n] = End("completed") => spoken = made

\* Once operation.cancel has been answered, the cancelled response sends no
\* more audio: the handler has joined its task, and that task the other one.
CancelIsFinal == [][canceller = "told" => UNCHANGED out]_vars

\* The synthesizer has failed and nobody will make room for the turn's task.
Stuck == turn \in {"put", "drain"} /\ voice = "failed" /\ Len(queue) = QueueSize

\* Every response ends by itself, but for one: its synthesizer fails while its
\* task waits for room in the queue.
ResponsesEnd == []<>(turn = "over" \/ Stuck)

=============================================================================
