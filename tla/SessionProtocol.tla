-------------------------- MODULE SessionProtocol --------------------------
(***************************************************************************)
(* One session between the Android client (PcGatewayClient) and the event  *)
(* socket of the server (api.session_events): admission, replay, serving,  *)
(* the loss of the connection as each side notices it, the retries of the  *)
(* client, and the grace period after which the server forgets.            *)
(*                                                                         *)
(* A connection is lost without either side knowing it.  What was on its   *)
(* way may still arrive until the client notices; what the server sends    *)
(* afterwards is lost, and a send fails or does not.  A fault request is *)
(* closed before it is accepted, so the client sees HTTP 403 and gives up. *)
(*                                                                         *)
(* The handler of the session is abstracted to when it runs and what it    *)
(* emits: in the receive loop's own task ("busy"), in a task beside it     *)
(* ("job"), or in one that outlives its connection ("orphan"): a job, or a *)
(* broadcast that chose its receivers while the connection was one.        *)
(***************************************************************************)
EXTENDS Naturals, Integers, Sequences

CONSTANTS
  Window,       \* replayable events kept; 256 in the code
  MaxEvents,    \* bound: events recorded by handlers
  MaxFailures   \* bound: failures of the network, restarts of the server

ASSUME BoundsAssumption ==
  Window \in Nat \ {0} /\ MaxEvents \in Nat /\ MaxFailures \in Nat

VARIABLES
  \* _SessionReplayState, if the session is known (exists).
  exists, last, floor, buffer, connected,
  \* The connection's handler.
  endpoint,    \* "none", "accepting", "replaying", "greeting", "serving", "closing"
  toReplay,    \* what it has yet to replay
  busy, job,   \* a dispatch in the receive loop, a dispatch beside it
  sendFailed,  \* a send of this connection has failed
  orphan,      \* a job of an earlier connection, or a broadcast to it, still runs
  expiry,      \* "none", "sleeping", "disposing": the session's cleanup task
  leftBehind,   \* Observation only: its removal failed
  recorded,    \* Observation only: every event recorded since the session began
  \* The network.
  linkUp, wire, failures,
  \* The client.
  client,      \* "idle", "requesting", "opening", "open", "waiting", "stalled", "ended"
  position,    \* serverSequence: the last number it accepted
  first,       \* its first request carries no resume position
  retrying,    \* the coroutine of the last retry has not returned yet
  fault        \* Observation only: why it was refused, or what it objected to

state == <<exists, last, floor, buffer, connected, leftBehind>>
handler == <<endpoint, toReplay, busy, job, sendFailed>>
network == <<linkUp, wire, failures>>
gateway == <<client, first, retrying, fault>>
sessionVars == <<recorded, position, state, handler, orphan, expiry, network, gateway>>

Endpoints == {"none", "accepting", "replaying", "greeting", "serving", "closing"}
Clients == {"idle", "requesting", "opening", "open", "waiting", "stalled", "ended"}
Faults == {"none", "expired", "connected", "unavailable", "replay"}

\* The promise that the protocol keeps.
Delivery == INSTANCE SessionDelivery WITH log <- recorded, cursor <- position

-----------------------------------------------------------------------------
SessionInit ==
  /\ recorded = <<>> /\ position = -1
  /\ exists = FALSE /\ leftBehind = FALSE /\ last = -1 /\ floor = -1 /\ buffer = <<>> /\ connected = FALSE
  /\ endpoint = "none" /\ toReplay = <<>> /\ busy = FALSE /\ job = FALSE /\ sendFailed = FALSE
  /\ orphan = FALSE /\ expiry = "none"
  /\ linkUp = FALSE /\ wire = <<>> /\ failures = 0
  /\ client = "idle" /\ first = TRUE /\ retrying = FALSE /\ fault = "none"

\* _SessionReplayState.append: the oldest event leaves a full buffer, and one
\* that is larger than the buffer empties it.  The floor is the last event
\* that cannot be replayed any more.
Keep(n, kind) ==
  CASE kind = "transient" -> UNCHANGED <<buffer, floor>>
    [] kind = "oversized" -> buffer' = <<>> /\ floor' = n
    [] kind = "kept" ->
         LET all == Append(buffer, n)
             full == Len(all) > Window
         IN /\ buffer' = (IF full THEN Tail(all) ELSE all)
            /\ floor' = (IF full THEN Head(all) ELSE floor)

\* The first half of send_event.
Note(kind, by) ==
  /\ last' = last + 1
  /\ recorded' = Append(recorded, [kind |-> kind, by |-> by])
  /\ Keep(last + 1, kind)
  /\ UNCHANGED <<exists, connected, leftBehind>>

\* Its second half: sent, lost, or failed.
Send(n) ==
  \/ linkUp /\ wire' = Append(wire, n) /\ UNCHANGED sendFailed
  \/ ~linkUp /\ UNCHANGED wire /\ sendFailed' \in {sendFailed, TRUE}

-----------------------------------------------------------------------------
(* The client. *)

\* connect: a new session.
Open ==
  /\ client = "idle"
  /\ client' = "requesting"
  /\ UNCHANGED <<recorded, position, state, handler, orphan, expiry, network, first, retrying, fault>>

\* Listener.onMessage.  A number that is not new is a protocol error: the
\* client closes the connection, and onClosed schedules a retry.
Deliver ==
  /\ client = "open" /\ wire # <<>>
  /\ LET new == Head(wire) > position
     IN /\ wire' = (IF new THEN Tail(wire) ELSE <<>>)
        /\ position' = (IF new THEN Head(wire) ELSE position)
        /\ client' = (IF new THEN "open" ELSE "waiting")
        /\ linkUp' = (linkUp /\ new)
        /\ fault' = (IF new THEN fault ELSE "replay")
  /\ UNCHANGED <<recorded, state, handler, orphan, expiry, failures, first, retrying>>

\* scheduleReconnect.  Nothing is scheduled while the coroutine of the retry
\* that opened this socket has not returned.
Schedule == client' = (IF retrying THEN "stalled" ELSE "waiting")

\* Broken variant: only the failure of an open socket is noticed.
ClientNoticesOpen ==
  /\ client = "open" /\ ~linkUp
  /\ Schedule
  /\ wire' = <<>>
  /\ UNCHANGED <<recorded, position, state, handler, orphan, expiry, linkUp, failures, first, retrying, fault>>

\* onFailure: the connection or the request is lost.
ClientNotices ==
  /\ client \in {"opening", "open"} /\ ~linkUp
  /\ Schedule
  /\ wire' = <<>>
  /\ UNCHANGED <<recorded, position, state, handler, orphan, expiry, linkUp, failures, first, retrying, fault>>

RequestLost ==
  /\ client = "requesting" /\ failures < MaxFailures
  /\ Schedule
  /\ failures' = failures + 1
  /\ first' = FALSE
  /\ UNCHANGED <<recorded, position, state, handler, orphan, expiry, linkUp, wire, retrying, fault>>

\* The delay is over: openSocket(reconnecting = true).
Retry ==
  /\ client = "waiting"
  /\ client' = "requesting" /\ first' = FALSE /\ retrying' = TRUE
  /\ UNCHANGED <<recorded, position, state, handler, orphan, expiry, network, fault>>

RetryReturns ==
  /\ retrying
  /\ retrying' = FALSE
  /\ UNCHANGED <<recorded, position, state, handler, orphan, expiry, network, client, first, fault>>

\* disconnect: the user hangs up.
HangUp ==
  /\ client \in {"requesting", "opening", "open", "waiting", "stalled"}
  /\ client' = "ended" /\ linkUp' = FALSE /\ wire' = <<>> /\ retrying' = FALSE
  /\ UNCHANGED <<recorded, position, state, handler, orphan, expiry, failures, first, fault>>

-----------------------------------------------------------------------------
(* Admission. *)

Refuse(why) ==
  /\ client = "requesting"
  /\ client' = "ended" /\ fault' = why
  /\ UNCHANGED <<recorded, position, state, handler, orphan, expiry, network, first, retrying>>

\* The checks made under session_states_lock, in their order.
RefuseExpired ==
  /\ \/ ~exists /\ ~first /\ position >= 0
     \/ exists /\ ~connected /\ ~first /\ position < floor
  /\ Refuse("expired")

RefuseConnected == exists /\ (connected \/ first) /\ Refuse("connected")

\* ensure_session fails, or every one of the 1024 sessions is in use.
RefuseUnavailable ==
  /\ failures < MaxFailures
  /\ client = "requesting"
  /\ client' = "ended" /\ fault' = "unavailable"
  /\ failures' = failures + 1
  /\ UNCHANGED <<recorded, position, state, handler, orphan, expiry, linkUp, wire, first, retrying>>

\* The connection begins; a cleanup task that waits for the session is
\* cancelled.
Connects(replay) ==
  /\ client = "requesting"
  /\ connected' = TRUE /\ leftBehind' = FALSE
  /\ endpoint' = "accepting" /\ toReplay' = replay
  /\ busy' = FALSE /\ job' = FALSE /\ sendFailed' = FALSE
  /\ expiry' = "none"
  /\ linkUp' = TRUE /\ wire' = <<>> /\ client' = "opening"
  /\ UNCHANGED <<position, failures, first, retrying, fault>>

AdmitNew ==
  /\ ~exists /\ (first \/ position = -1)
  /\ Connects(<<>>)
  /\ exists' = TRUE /\ last' = -1 /\ floor' = -1 /\ buffer' = <<>>
  /\ recorded' = <<>> /\ orphan' = FALSE

\* The events of the buffer after n.  They are the end of it, because the
\* buffer is in order (BufferIsWindow).
Replays(n) ==
  { SubSeq(buffer, k + 1, Len(buffer)) :
      k \in { k \in 0..Len(buffer) : \A i \in DOMAIN buffer : buffer[i] > n <=> i > k } }

\* Broken variant: the position is not compared with the floor.
ResumeAnyway ==
  /\ exists /\ ~connected /\ ~first
  /\ position <= last
  /\ \E replay \in Replays(position) : Connects(replay)
  /\ UNCHANGED <<recorded, exists, last, floor, buffer, orphan>>

\* Broken variant: the last event the client has is replayed too.
ResumeInclusive ==
  /\ exists /\ ~connected /\ ~first
  /\ floor <= position /\ position <= last
  /\ \E replay \in Replays(position - 1) : Connects(replay)
  /\ UNCHANGED <<recorded, exists, last, floor, buffer, orphan>>

AdmitResume ==
  /\ exists /\ ~connected /\ ~first
  /\ floor <= position /\ position <= last
  /\ \E replay \in Replays(position) : Connects(replay)
  /\ UNCHANGED <<recorded, exists, last, floor, buffer, orphan>>

-----------------------------------------------------------------------------
(* The connection's handler, before its try block: a failure here leaves the
   session connected for good. *)

Breaks == endpoint' = "none" /\ UNCHANGED <<toReplay, busy, job, sendFailed>>

Accept ==
  /\ endpoint = "accepting"
  /\ endpoint' = "replaying"
  /\ client' = (IF linkUp THEN "open" ELSE client)
  /\ retrying' = (retrying /\ ~linkUp)
  /\ UNCHANGED <<recorded, position, state, toReplay, busy, job, sendFailed, orphan, expiry, network, first, fault>>

Replay ==
  /\ endpoint = "replaying"
  /\ \/ toReplay = <<>> /\ endpoint' = "greeting" /\ UNCHANGED <<toReplay, wire>>
     \/ /\ toReplay # <<>>
        /\ toReplay' = Tail(toReplay)
        /\ wire' = (IF linkUp THEN Append(wire, Head(toReplay)) ELSE wire)
        /\ UNCHANGED endpoint
  /\ UNCHANGED <<recorded, position, state, busy, job, sendFailed, orphan, expiry, linkUp, failures, gateway>>

ReplayFails ==
  /\ endpoint \in {"accepting", "replaying"} /\ ~linkUp
  /\ Breaks
  /\ UNCHANGED <<recorded, position, state, orphan, expiry, network, gateway>>

\* The first event of a connection, and the subscription to the broadcasts.
Greet ==
  /\ endpoint = "greeting"
  /\ Note("kept", "connection")
  /\ \/ Send(last + 1) /\ sendFailed' = FALSE /\ endpoint' = "serving" /\ UNCHANGED <<toReplay, busy, job>>
     \/ ~linkUp /\ Breaks /\ UNCHANGED wire
  /\ UNCHANGED <<position, orphan, expiry, linkUp, failures, gateway>>

-----------------------------------------------------------------------------
(* Serving. *)

Serves == UNCHANGED <<position, orphan, expiry, linkUp, failures, gateway>>

\* The receive loop takes an event.  The end of a recording and the answer to
\* an approval are dispatched beside it, anything else in it.
Receive ==
  /\ endpoint = "serving" /\ ~busy /\ linkUp
  /\ \/ busy' = TRUE /\ UNCHANGED job
     \/ ~job /\ job' = TRUE /\ UNCHANGED busy
  /\ UNCHANGED <<recorded, state, endpoint, toReplay, sendFailed, wire>> /\ Serves

\* The dispatch, the job or a broadcast emits an event.
Emit ==
  /\ endpoint \in {"serving", "closing"}
  /\ Len(recorded) < MaxEvents
  /\ \E kind \in Delivery!Kinds : Note(kind, "connection")
  /\ Send(last + 1)
  /\ UNCHANGED <<endpoint, toReplay, busy, job>> /\ Serves

DispatchEnds ==
  /\ endpoint = "serving" /\ busy
  /\ busy' = FALSE
  /\ UNCHANGED <<recorded, state, endpoint, toReplay, job, sendFailed, wire>> /\ Serves

SideJobEnds ==
  /\ endpoint \in {"serving", "closing"} /\ job
  /\ job' = FALSE
  /\ UNCHANGED <<recorded, state, endpoint, toReplay, busy, sendFailed, wire>> /\ Serves

\* except WebSocketDisconnect: the jobs are cancelled and the handler is told.
ServerNotices ==
  /\ endpoint = "serving" /\ ~busy /\ ~linkUp
  /\ endpoint' = "closing"
  /\ UNCHANGED <<recorded, state, toReplay, busy, job, sendFailed, wire>> /\ Serves

\* Broken variant: an earlier cleanup is taken for the one of this loss.
FinallyUncleaned ==
  /\ endpoint' = "none" /\ busy' = FALSE /\ job' = FALSE
  /\ connected' = FALSE
  /\ UNCHANGED <<expiry, leftBehind, toReplay, sendFailed>>

\* finally: the grace period begins.
Finally ==
  /\ endpoint' = "none" /\ busy' = FALSE /\ job' = FALSE
  /\ connected' = FALSE
  /\ expiry' = "sleeping"
  /\ UNCHANGED <<leftBehind, toReplay, sendFailed>>

\* The connection is no longer subscribed, but a broadcast may have copied the
\* set of its receivers before that.
ConnectionEnds ==
  /\ endpoint = "closing"
  /\ Finally
  /\ orphan' \in {orphan, TRUE}
  /\ UNCHANGED <<recorded, exists, last, floor, buffer, position, network, gateway>>

\* A send of the dispatch failed, so did the error event that was to report
\* it - which is recorded all the same - and the RuntimeError leaves the
\* receive loop past its except clause: the job is not cancelled.
DispatchFails ==
  /\ endpoint = "serving" /\ busy /\ sendFailed
  /\ last' = last + 1
  /\ recorded' = Append(recorded, [kind |-> "kept", by |-> "connection"])
  /\ Keep(last + 1, "kept")
  /\ Finally
  /\ orphan' \in {orphan \/ job, TRUE}
  /\ UNCHANGED <<exists, position, network, gateway>>

\* What outlived its connection emits an event, into the session's record and a
\* socket that is gone; or it ends.
OrphanEmits ==
  /\ orphan /\ exists
  /\ Len(recorded) < MaxEvents
  /\ \E kind \in Delivery!Kinds : Note(kind, "orphan")
  /\ UNCHANGED <<position, handler, orphan, expiry, network, gateway>>

OrphanEnds ==
  /\ orphan
  /\ orphan' = FALSE
  /\ UNCHANGED <<recorded, position, state, handler, expiry, network, gateway>>

-----------------------------------------------------------------------------
(* Expiry. *)

\* The grace period is over; the handler is told to forget the session.
GraceEnds ==
  /\ expiry = "sleeping"
  /\ expiry' = (IF connected THEN "none" ELSE "disposing")
  /\ UNCHANGED <<recorded, position, state, handler, orphan, network, gateway>>

\* It did, or it raised: then the session stays, and no task is left to
\* remove it.
Expire ==
  /\ expiry = "disposing"
  /\ expiry' = "none"
  /\ \/ exists' = connected /\ orphan' = (orphan /\ connected) /\ UNCHANGED leftBehind
     \/ leftBehind' = TRUE /\ UNCHANGED <<exists, orphan>>
  /\ UNCHANGED <<recorded, last, floor, buffer, connected, position, handler, network, gateway>>

Leftover == exists /\ ~connected /\ expiry = "none"

\* Another session takes its place among the 1024.
Evict ==
  /\ Leftover
  /\ exists' = FALSE /\ orphan' = FALSE
  /\ UNCHANGED <<recorded, last, floor, buffer, connected, leftBehind, position, handler, expiry, network, gateway>>

-----------------------------------------------------------------------------
(* The environment. *)

Drop ==
  /\ linkUp /\ failures < MaxFailures
  /\ linkUp' = FALSE /\ failures' = failures + 1
  /\ UNCHANGED <<recorded, position, state, handler, orphan, expiry, wire, gateway>>

\* Sessions are kept in memory only.
Restart ==
  /\ failures < MaxFailures
  /\ failures' = failures + 1
  /\ exists' = FALSE /\ connected' = FALSE
  /\ endpoint' = "none" /\ busy' = FALSE /\ job' = FALSE
  /\ orphan' = FALSE /\ expiry' = "none" /\ linkUp' = FALSE
  /\ UNCHANGED <<recorded, position, last, floor, buffer, leftBehind, toReplay, sendFailed, wire, gateway>>

-----------------------------------------------------------------------------
Admission ==
  \/ RefuseExpired \/ RefuseConnected \/ AdmitNew \/ AdmitResume

Endpoint ==
  \/ Accept \/ Replay \/ ReplayFails \/ Greet
  \/ ServerNotices \/ ConnectionEnds \/ DispatchFails

SessionNext ==
  \/ Open \/ Deliver \/ ClientNotices \/ RequestLost \/ Retry \/ RetryReturns \/ HangUp
  \/ Admission \/ RefuseUnavailable
  \/ Endpoint \/ Receive \/ Emit \/ DispatchEnds \/ SideJobEnds
  \/ OrphanEmits \/ OrphanEnds
  \/ GraceEnds \/ Expire \/ Evict
  \/ Drop \/ Restart

SessionSpec == SessionInit /\ [][SessionNext]_sessionVars

\* Both sides go on: the event loop runs what is ready, the ping of the client
\* finds a dead link, the retry's delay and the grace period end.  A dispatch
\* ends or fails.  Nothing is assumed of the user, of a job or of the network.
SessionFairSpec ==
  /\ SessionSpec
  /\ WF_sessionVars(Admission) /\ WF_sessionVars(Endpoint) /\ WF_sessionVars(DispatchEnds)
  /\ WF_sessionVars(GraceEnds) /\ WF_sessionVars(Expire)
  /\ WF_sessionVars(Deliver) /\ WF_sessionVars(ClientNotices) /\ WF_sessionVars(Retry)

-----------------------------------------------------------------------------
(* Properties. *)

SessionTypeOK ==
  /\ exists \in BOOLEAN /\ connected \in BOOLEAN /\ leftBehind \in BOOLEAN
  /\ last \in Int /\ last >= -1 /\ floor \in Int /\ floor >= -1 /\ buffer \in Seq(Nat)
  /\ endpoint \in Endpoints /\ toReplay \in Seq(Nat)
  /\ busy \in BOOLEAN /\ job \in BOOLEAN /\ sendFailed \in BOOLEAN /\ orphan \in BOOLEAN
  /\ expiry \in {"none", "sleeping", "disposing"}
  /\ recorded \in Seq(Delivery!Events)
  /\ linkUp \in BOOLEAN /\ wire \in Seq(Nat) /\ failures \in 0..MaxFailures
  /\ client \in Clients /\ position \in Int /\ first \in BOOLEAN /\ retrying \in BOOLEAN
  /\ fault \in Faults

\* The buffer holds exactly the replayable events above the floor, in order.
BufferIsWindow ==
  exists =>
    /\ last = Len(recorded) - 1
    /\ Len(buffer) <= Window
    /\ \A i, j \in DOMAIN buffer : i < j => buffer[i] < buffer[j]
    /\ { buffer[i] : i \in DOMAIN buffer } =
         { n \in 0..last : n > floor /\ recorded[n + 1].kind = "kept" }

\* A handler runs only for the connection that owns the session, and the
\* session of a connection is never up for removal.
OneConnection ==
  /\ endpoint # "none" => exists /\ connected
  /\ connected => exists /\ expiry = "none"
  /\ orphan => exists

\* A session without a connection has a task that will remove it, unless
\* that task failed.
NothingIsLeftover == Leftover => leftBehind

\* The client is never ahead of a session that it resumes, and never sees a
\* number twice.
ClientIsBehind ==
  /\ fault # "replay"
  /\ exists => position <= last

\* The server's record of a session and its client's agree on what is to be
\* replayed, whatever was lost and whoever retried.
SessionIsSound ==
  SessionTypeOK /\ BufferIsWindow /\ OneConnection /\ NothingIsLeftover /\ ClientIsBehind

\* Events arrive in order and once, and what the protocol replays is not
\* missed - except what an orphan recorded behind a resumed client's back.
ImplementsDelivery == Delivery!Spec

\* A client that lost its connection is connected again or told that it
\* cannot be, unless the failure of a retry is reported before the retry's
\* coroutine has returned.
ClientsComeBack == client = "waiting" ~> client \in {"open", "ended", "stalled"}

\* A session without a connection is resumed or removed, or its removal
\* failed.
SessionsExpire == exists /\ ~connected ~> leftBehind \/ connected \/ ~exists

=============================================================================
