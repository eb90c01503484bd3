---------------------------- MODULE VoiceClient ----------------------------
(***************************************************************************)
(* The voice part of the Android app: MainViewModel on the main thread,    *)
(* the jobs of PcmRecorder and the worker of PcmPlayer on threads of their *)
(* own, and the server's session handler at the other end of a connection  *)
(* that stays up (SessionProtocol is about one that does not).             *)
(*                                                                         *)
(* The fields the threads share are those of "app".  A handler of the main *)
(* thread is an operator from the app before it to the app after it.       *)
(*                                                                         *)
(* A message is numbered first and sent next, and the server refuses one   *)
(* that comes after a later number: of the numbers, the model keeps        *)
(* whether a message is "late" in this sense.                              *)
(*                                                                         *)
(* A recording, its stream, its request and the response to it carry one   *)
(* number.                                                                 *)
(***************************************************************************)
EXTENDS Naturals, Sequences

CONSTANTS
  MaxStreams,   \* bound: recordings started
  MaxSent,      \* bound: chunks sent
  Limit,        \* chunks a stream may have; 8 MiB in the code
  MaxAudio,     \* bound: chunks of one response
  MaxTaps       \* bound: what the user does

ASSUME PhoneBounds == {MaxStreams, MaxSent, Limit, MaxAudio, MaxTaps} \subseteq Nat \ {0}

Streams == 1..MaxStreams
None == 0

VARIABLES
  app,      \* what MainViewModel, PcmRecorder and PcmPlayer keep
  job,      \* where the job of each recording stands
  held,     \* the chunk it is about to send
  worker,   \* the player's worker
  posted,   \* what other threads have posted to the main thread
  taps,
  \* The server: what it does for the session, what it has sent.
  slot, down,
  \* Observation only, as app.abandoned is: streams given up without a word.
  killed,     \* recordings that the end of an earlier job switched off
  overtaken,  \* messages refused because a later one came first
  rejected    \* open streams that had a chunk refused

server == <<slot, down>>
observed == <<killed, overtaken, rejected>>
phoneVars == <<app, job, held, worker, posted, taps, server, observed>>

Jobs == {"none", "loop", "read", "taken", "holding", "closing", "ended"}
Reasons == {"client_stop", "vad_end", "barge_in", "disconnect"}
NoTrack == [state |-> "none", gen |-> 0]
Free == [phase |-> "free", stream |-> None, count |-> 0]
NoChunk == [type |-> "chunk", stream |-> None, index |-> 0, late |-> FALSE]
Idle == [doing |-> "idle", gen |-> 0]

-----------------------------------------------------------------------------
(* PcmPlayer, as the main thread calls it. *)

Enqueue(a, op) == [a EXCEPT !.commands = Append(@, [op |-> op, gen |-> a.gen])]

\* Broken variant: the worker is not told to release the track.
PlayerStopQuietly(a) ==
  [a EXCEPT !.gen = @ + 1, !.track.state = IF @ = "none" THEN "none" ELSE "paused"]

\* stop: the generation advances; the track pauses and drops what it holds.
PlayerStop(a) ==
  [a EXCEPT !.gen = @ + 1,
            !.track.state = IF @ = "none" THEN "none" ELSE "paused",
            !.commands = Append(@, [op |-> "abort", gen |-> a.gen + 1])]

-----------------------------------------------------------------------------
(* MainViewModel. *)

\* PcGatewayClient.send.
SendNow(a, type, stream) ==
  [a EXCEPT !.up = Append(@, [type |-> type, stream |-> stream, index |-> 0, late |-> FALSE])]

StopListening(a, why, tell) ==
  LET b == IF tell /\ a.stream # None THEN SendNow(a, why, a.stream) ELSE a
  IN [b EXCEPT !.active = FALSE, !.stream = None,
               !.assistant = IF why = "client_stop" THEN "recognizing" ELSE @]

\* interrupt: silence first, then the recording, then the response.
Interrupt(a) ==
  LET quiet == PlayerStop(a)
      deaf == IF quiet.active THEN StopListening(quiet, "barge_in", TRUE) ELSE quiet
      told == IF a.target # None THEN SendNow(deaf, "cancel", a.target) ELSE deaf
  IN [told EXCEPT !.assistant = "interrupted"]

EndConversation(a) ==
  LET quiet == PlayerStop(StopListening(a, "disconnect", TRUE))
      told == IF /\ a.stream = None /\ a.target # None
                 /\ quiet.assistant \in {"thinking", "executing", "speaking"}
              THEN SendNow(quiet, "cancel", a.target) ELSE quiet
  IN [told EXCEPT !.conversation = FALSE, !.assistant = "idle"]

\* startListening announces the stream, and then asks for the foreground
\* service - a refusal forgets the stream - and for the microphone - a refusal
\* ends it.  A stream whose recorder has failed is overwritten.
StartListening(a, how) ==
  IF a.active \/ a.opened = MaxStreams THEN a
  ELSE LET b == IF a.assistant = "speaking" THEN Interrupt(a) ELSE PlayerStop(a)
           s == a.opened + 1
           c == [SendNow(b, "start", s) EXCEPT !.opened = s,
                   !.abandoned = @ \union ({b.stream} \ {None})]
       IN CASE how = "no_service" -> [c EXCEPT !.stream = None, !.abandoned = @ \union {s}]
            [] how = "no_microphone" -> StopListening([c EXCEPT !.stream = s], "client_stop", TRUE)
            [] how = "recording" ->
                 [c EXCEPT !.stream = s, !.active = TRUE, !.chunk = 0,
                           !.assistant = "listening", !.conversation = TRUE]

Outcomes == {"recording", "no_service", "no_microphone"}

Begun(b) == { s \in Streams : s > app.opened /\ s <= b.opened }

\* The main thread takes the app to b.  A recording that began has a job, and
\* a chunk that was numbered before a message was sent comes late.
MainTo(b) ==
  /\ app' = [b EXCEPT !.fresh = b.up # app.up]
  /\ held' = [s \in Streams |-> [held[s] EXCEPT !.late = @ \/ (job[s] = "holding" /\ b.up # app.up)]]
  /\ job' = [s \in Streams |-> IF s \in Begun(b) /\ s = b.stream THEN "loop" ELSE job[s]]
  /\ UNCHANGED <<worker, observed>>

-----------------------------------------------------------------------------
PhoneInit ==
  /\ app = [conversation |-> TRUE, assistant |-> "idle", target |-> None, approval |-> FALSE,
            stream |-> None, chunk |-> 0, opened |-> 0, active |-> FALSE,
            gen |-> 1, commands |-> <<>>, track |-> NoTrack,
            up |-> <<>>, fresh |-> FALSE, sent |-> 0, abandoned |-> {}]
  /\ job = [s \in Streams |-> "none"]
  /\ held = [s \in Streams |-> NoChunk]
  /\ worker = Idle /\ posted = {} /\ taps = 0
  /\ slot = Free /\ down = <<>>
  /\ killed = {} /\ overtaken = {} /\ rejected = {}

-----------------------------------------------------------------------------
(* The user. *)

Tap ==
  /\ taps < MaxTaps
  /\ taps' = taps + 1
  /\ \/ \E how \in Outcomes : MainTo(StartListening(app, how))
     \/ MainTo(StopListening(app, "client_stop", TRUE))
     \/ MainTo(Interrupt(app))
     \/ MainTo(EndConversation(app))
     \/ /\ app.approval
        /\ \E decided \in {"executing", "idle"} :   \* approved, or not
             MainTo([SendNow(app, "answer", None) EXCEPT !.approval = FALSE, !.assistant = decided])
  /\ UNCHANGED <<posted, server>>

(* What other threads have posted. *)

\* onPlaybackComplete: the conversation goes on.
PlaybackComplete ==
  /\ "complete" \in posted
  /\ posted' = posted \ {"complete"}
  /\ \/ ~app.conversation /\ MainTo(app)
     \/ /\ app.conversation
        /\ \E how \in Outcomes : MainTo(StartListening([app EXCEPT !.assistant = "idle"], how))
  /\ UNCHANGED <<taps, server>>

\* onError of the recorder.
RecorderFailed ==
  /\ "failed" \in posted
  /\ posted' = posted \ {"failed"}
  /\ MainTo(StopListening(app, "client_stop", TRUE))
  /\ UNCHANGED <<taps, server>>

-----------------------------------------------------------------------------
(* handleEnvelope. *)

\* Broken variant: any refused stream stops the recording.
RejectedAny(a, m) == IF a.active THEN StopListening(a, "rejected", FALSE) ELSE a

\* A stream that the server refused is stopped, and the server is not told.
Rejected(a, m) ==
  IF m.stream = a.stream /\ a.active THEN StopListening(a, "rejected", FALSE) ELSE a

Handle(a, m, how) ==
  CASE m.type \in {"listening", "thinking", "speaking"} -> [a EXCEPT !.assistant = m.type]
    [] m.type = "vad_end" ->
         LET b == [a EXCEPT !.assistant = "recognizing"]
         IN IF b.active THEN StopListening(b, "vad_end", TRUE) ELSE b
    [] m.type = "interrupted" ->
         LET b == [a EXCEPT !.assistant = "interrupted"]
         IN IF b.conversation THEN StartListening(b, how) ELSE b
    [] m.type = "text" -> [a EXCEPT !.target = m.stream]
    [] m.type = "audio" -> Enqueue(a, "chunk")
    [] m.type = "completed" -> Enqueue(a, "finish")
    [] m.type = "cancelled" -> PlayerStop(a)
    [] m.type = "approval" -> [a EXCEPT !.approval = TRUE, !.target = m.stream, !.assistant = "waiting"]
    [] m.type = "invalid" -> Rejected(a, m)
    [] m.type = "error" -> a

HandleEnvelope ==
  /\ down # <<>>
  /\ down' = Tail(down)
  /\ \E how \in Outcomes : MainTo(Handle(app, Head(down), how))
  /\ UNCHANGED <<posted, taps, slot>>

-----------------------------------------------------------------------------
(* The jobs of the recorder. *)

JobGoes(s, to) == job' = [job EXCEPT ![s] = to]

Recording(s) ==
  /\ job[s] = "loop"
  /\ JobGoes(s, IF app.active THEN "read" ELSE "closing")
  /\ UNCHANGED <<app, held, worker, posted, taps, server, observed>>

\* The index of the next chunk.  Nothing guards the counter: of two jobs that
\* take an index at the same time, the second may take that of the first.
NextIndex ==
  {app.chunk} \union
  { held[t].index : t \in { u \in Streams : job[u] = "taken" /\ held[u].stream = app.stream } }

\* AudioRecord.read returns: data, which becomes a chunk of whatever stream the
\* app has now, be it that of a later recording; nothing, or data after the
\* stream was given up; or an error - the record failed, or was stopped before
\* a later recording set the flag again.
ReadReturns(s) ==
  /\ job[s] = "read"
  /\ \/ /\ app.stream # None /\ app.sent < MaxSent
        /\ JobGoes(s, "taken")
        /\ \E i \in NextIndex :
             /\ held' = [held EXCEPT ![s] = [NoChunk EXCEPT !.stream = app.stream, !.index = i]]
             /\ app' = [app EXCEPT !.chunk = i + 1, !.sent = @ + 1]
        /\ UNCHANGED posted
     \/ ~app.active /\ JobGoes(s, "loop") /\ UNCHANGED <<app, held, posted>>
     \/ app.active /\ JobGoes(s, "closing") /\ posted' = posted \union {"failed"} /\ UNCHANGED <<app, held>>
  /\ UNCHANGED <<worker, taps, server, observed>>

Number(s) ==
  /\ job[s] = "taken"
  /\ JobGoes(s, "holding")
  /\ UNCHANGED <<app, held, worker, posted, taps, server, observed>>

PassOn(s) ==
  /\ job[s] = "holding"
  /\ JobGoes(s, "loop")
  /\ app' = [app EXCEPT !.up = Append(@, held[s]), !.fresh = FALSE]
  /\ held' = [held EXCEPT ![s] = NoChunk]
  /\ UNCHANGED <<worker, posted, taps, server, observed>>

\* The chunk is numbered and sent while the main thread stands between the two
\* with its own message, which comes late.  That message is not the start of
\* the chunk's own stream, which the app takes over when it is sent.
Overtake(s) ==
  /\ job[s] = "taken" /\ app.fresh /\ app.up # <<>>
  /\ JobGoes(s, "loop")
  /\ LET n == Len(app.up)
     IN /\ ~(app.up[n].type = "start" /\ app.up[n].stream = held[s].stream)
        /\ app' = [app EXCEPT !.up = Append(Append(SubSeq(@, 1, n - 1), held[s]),
                                            [@[n] EXCEPT !.late = TRUE]),
                              !.fresh = FALSE]
  /\ held' = [held EXCEPT ![s] = NoChunk]
  /\ UNCHANGED <<worker, posted, taps, server, observed>>

\* finally: the flag is cleared, whoever has set it.
Closes(s) ==
  /\ job[s] = "closing"
  /\ JobGoes(s, "ended")
  /\ app' = [app EXCEPT !.active = FALSE]
  /\ killed' = (IF app.active /\ app.stream # s THEN killed \union {app.stream} ELSE killed)
  /\ UNCHANGED <<held, worker, posted, taps, server, overtaken, rejected>>

-----------------------------------------------------------------------------
(* The worker of the player. *)

Command == Head(app.commands)
Current == Command.gen = app.gen

\* What is not of the current generation is dropped; an abort releases.
Take ==
  /\ worker.doing = "idle" /\ app.commands # <<>>
  /\ worker' = (IF Current /\ Command.op # "abort" THEN [doing |-> Command.op, gen |-> Command.gen] ELSE Idle)
  /\ app' = [app EXCEPT !.commands = Tail(@),
                        !.track = IF Command.op = "abort" /\ Current THEN NoTrack ELSE @]
  /\ UNCHANGED <<job, held, posted, taps, server, observed>>

\* Broken variant: a track that was just created is written to at once.
WriteAtOnce ==
  /\ worker.doing = "chunk"
  /\ app' = [app EXCEPT !.track = [state |-> "playing", gen |-> worker.gen]]
  /\ worker' = Idle
  /\ UNCHANGED <<job, held, posted, taps, server, observed>>

\* write: createTrack if there is none, and the generation is looked at again
\* before the track is written to.
Write ==
  /\ worker.doing = "chunk"
  /\ IF worker.gen # app.gen
     THEN worker' = Idle /\ app' = [app EXCEPT !.track = NoTrack]
     ELSE /\ worker' = Idle
          /\ app' = [app EXCEPT !.track = [state |-> "playing", gen |-> worker.gen]]
  /\ UNCHANGED <<job, held, posted, taps, server, observed>>

\* drainAndRelease: until it is played, stopped, or 5 s have passed.
Drain ==
  /\ worker.doing = "finish"
  /\ worker' = Idle
  /\ app' = [app EXCEPT !.track = NoTrack]
  /\ posted' = (IF worker.gen = app.gen THEN posted \union {"complete"} ELSE posted)
  /\ UNCHANGED <<job, held, taps, server, observed>>

-----------------------------------------------------------------------------
(* The server. *)

Reply(types, stream) == down' = down \o [n \in DOMAIN types |-> [type |-> types[n], stream |-> stream]]

Open(m) == slot.phase = "active" /\ slot.stream = m.stream

\* audio.input.end: the stream is finished and its response begins, or it is
\* cancelled.  The slot is given up even if that fails.
AnswerEnd(m) ==
  \/ /\ m.type \in {"client_stop", "vad_end"}
     /\ slot' = (IF Open(m) /\ slot.count > 0 THEN [slot EXCEPT !.phase = "processing", !.count = 0]
                 ELSE IF slot.phase = "active" THEN Free ELSE slot)
     /\ Reply(IF Open(m) /\ slot.count > 0 THEN <<"thinking">> ELSE <<"invalid">>, m.stream)
  \/ /\ m.type \in {"barge_in", "disconnect"}
     /\ slot' = (IF slot.phase = "active" THEN Free ELSE slot)
     /\ Reply(IF Open(m) THEN <<"interrupted">> ELSE <<"invalid">>, m.stream)

AnswerStart(m) ==
  /\ m.type = "start"
  /\ slot' = (IF slot.phase = "free" THEN [phase |-> "active", stream |-> m.stream, count |-> 0] ELSE slot)
  /\ Reply(IF slot.phase = "free" THEN <<"listening">> ELSE <<"invalid">>, m.stream)

\* A refused chunk does not close its stream.
AnswerChunk(m) ==
  /\ m.type = "chunk"
  /\ LET fits == Open(m) /\ m.index = slot.count /\ slot.count < Limit
     IN /\ slot' = (IF fits THEN [slot EXCEPT !.count = @ + 1] ELSE slot)
        /\ \/ ~fits /\ Reply(<<"invalid">>, m.stream)
           \/ fits /\ UNCHANGED down
           \/ fits /\ Reply(<<"vad_end">>, m.stream)
        /\ rejected' = (IF ~fits /\ Open(m) THEN rejected \union {m.stream} ELSE rejected)

\* operation.cancel.requested, with the end of the audio that the cancelled
\* task closes.
AnswerCancelRequest(m) ==
  /\ m.type = "cancel"
  /\ LET hit == slot.phase \in {"processing", "pending"} /\ slot.stream = m.stream
         begun == slot.phase = "processing" /\ slot.count > 0
     IN /\ slot' = (IF hit THEN Free ELSE slot)
        /\ Reply(IF ~hit THEN <<>>
                 ELSE IF begun THEN <<"cancelled", "interrupted">> ELSE <<"interrupted">>, m.stream)

AnswerApproval(m) ==
  /\ m.type = "answer"
  /\ slot' = (IF slot.phase = "pending" THEN [slot EXCEPT !.phase = "processing"] ELSE slot)
  /\ Reply(IF slot.phase = "pending" THEN <<>> ELSE <<"invalid">>, None)

\* The receive loop takes the next message; a late one is refused.
Receive ==
  /\ app.up # <<>>
  /\ app' = [app EXCEPT !.up = Tail(@)]
  /\ LET m == Head(app.up)
     IN \/ /\ m.late
           /\ overtaken' = overtaken \union {m.type}
           /\ Reply(<<"error">>, m.stream)
           /\ UNCHANGED <<slot, rejected>>
        \/ /\ ~m.late
           /\ \/ (AnswerStart(m) \/ AnswerEnd(m) \/ AnswerCancelRequest(m) \/ AnswerApproval(m)) /\ UNCHANGED rejected
              \/ AnswerChunk(m)
           /\ UNCHANGED overtaken
  /\ UNCHANGED <<job, held, worker, posted, taps, killed>>

\* The response: its text and audio, its end, or the approval it waits for.
Respond ==
  /\ slot.phase = "processing"
  /\ \/ /\ slot.count < MaxAudio
        /\ slot' = [slot EXCEPT !.count = @ + 1]
        /\ Reply(IF slot.count = 0 THEN <<"text", "speaking", "audio">> ELSE <<"audio">>, slot.stream)
     \/ slot.count > 0 /\ slot' = Free /\ Reply(<<"completed">>, slot.stream)
     \/ slot.count = 0 /\ slot' = Free /\ Reply(<<"error">>, slot.stream)
     \/ /\ slot.count = 0
        /\ slot' = [slot EXCEPT !.phase = "pending"]
        /\ Reply(<<"approval">>, slot.stream)
  /\ UNCHANGED <<app, job, held, worker, posted, taps, observed>>

-----------------------------------------------------------------------------
Player == Take \/ Write \/ Drain

Recorder == \E s \in Streams :
  \/ Recording(s) \/ ReadReturns(s) \/ Number(s) \/ PassOn(s)
  \/ Overtake(s) \/ Closes(s)

PhoneNext ==
  \/ Tap \/ PlaybackComplete \/ RecorderFailed \/ HandleEnvelope
  \/ Recorder \/ Player
  \/ Receive \/ Respond

PhoneSpec == PhoneInit /\ [][PhoneNext]_phoneVars

\* The player's worker takes its commands, and a write to the track returns.
PhoneFairSpec == PhoneSpec /\ WF_phoneVars(Player)

-----------------------------------------------------------------------------
(* Properties. *)

PhoneTypeOK ==
  /\ app.stream \in 0..MaxStreams /\ app.target \in 0..MaxStreams /\ app.opened \in 0..MaxStreams
  /\ app.active \in BOOLEAN /\ app.conversation \in BOOLEAN /\ app.approval \in BOOLEAN
  /\ app.track \in [state : {"none", "playing", "paused"}, gen : 0..app.gen]
  /\ job \in [Streams -> Jobs]
  /\ worker.doing \in {"idle", "chunk", "finish"} /\ worker.gen <= app.gen
  /\ posted \subseteq {"complete", "failed"}
  /\ slot.phase \in {"free", "active", "processing", "pending"} /\ slot.stream \in 0..MaxStreams
  /\ killed \subseteq Streams /\ rejected \subseteq Streams /\ app.abandoned \subseteq Streams

\* Nothing of a playback that was stopped is heard afterwards.
NoStaleAudio == app.track.state = "playing" => app.track.gen = app.gen

InFlight == app.up # <<>> \/ down # <<>> \/ \E s \in Streams : held[s].stream # None

\* With nothing on its way, the server keeps no stream open that the client
\* has given up - but one whose chunk it refused, one that was given up without
\* a word (no foreground service, a start over a failed recorder), or one of
\* which a message was overtaken.
StreamsAgree ==
  slot.phase = "active" /\ ~InFlight =>
    \/ app.stream = slot.stream
    \/ slot.stream \in rejected \union app.abandoned
    \/ overtaken # {}

\* With nothing on its way, an approval that the server waits for can be
\* answered, unless the answer was overtaken by a chunk of a recording.
ApprovalsAgree == slot.phase = "pending" /\ ~InFlight => app.approval \/ "answer" \in overtaken

\* The app takes itself to be recording only while a job records, a failure
\* is about to be handled, or the end of an earlier job has switched it off.
RecordingIsAlive ==
  app.stream # None =>
    \/ job[app.stream] \notin {"none", "ended"}
    \/ "failed" \in posted
    \/ app.stream \in killed

\* The app, its threads and the server agree on what is recorded, played and
\* asked, but for the named races.
VoiceIsSound ==
  PhoneTypeOK /\ NoStaleAudio /\ StreamsAgree /\ ApprovalsAgree /\ RecordingIsAlive

Stops(s) == app.stream = s /\ app'.stream # s

\* A recording goes on until the user, the end of speech, its own refusal or
\* a failure of the recorder ends it: an answer to an earlier stream does not.
\* (The end of speech does not say of which stream it is; and a recording that
\* the end of an earlier job has switched off is replaced by the next.)
RecordingGoesOn ==
  [][\A s \in Streams : Stops(s) =>
       \/ taps' # taps
       \/ "failed" \in posted
       \/ s \in killed
       \/ down # <<>> /\ (Head(down).type = "vad_end" \/ Head(down).stream = s)]_phoneVars

\* A track that was stopped is released in the end, and the audio focus with
\* it.
StoppedTracksAreReleased == app.track.state = "paused" ~> app.track.state # "paused"

=============================================================================
