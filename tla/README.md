# Local voice agent: verification project

TLA+ models of the local voice agent, the TLC configurations that model-check
them on small instances, and theorems about them that TLAPS checks. The models
are written from the code; where the code and a document disagree, the model
follows the code, the property names the exception, and section 6 describes it.

Paths below are short for:

- `PC/` = `src/apps/pc-server/src/local_voice_agent_server/`
- `TE/` = `src/apps/tool-executor/src/local_voice_agent_tool_executor/`
- `AN/` = `src/apps/android-client/app/src/main/java/dev/localvoiceagent/android/`

Contents: 1 the system; 2 what is hard in it; 3 the plan; 4 the modules;
5 the runs; 6 what was found; 7 what is proved; 8 what is not modelled;
9 how to run it.

## 1. The system

A phone (or a browser page) holds a WebSocket to a server on a PC. Speech goes
up, is transcribed and answered by a local language model, and the answer is
synthesized and comes back sentence by sentence. The model may ask for tools;
a tool runs in a separate executor process, after a policy decision and, above
risk level 0, after the user approved it. Two language models share one GPU and
are switched on request. A second application on the same server is a salon
receptionist that books appointments into a JSON file.

| Component | State it keeps | Operations | Talks to |
| --- | --- | --- | --- |
| Session event handler, `PC/application/session_events.py` | per session: the running turn's task, the pending approval, the model-usage token | `handle` (audio start/chunk/end, approval response, cancel), `disconnect` | voice turn, tool conversation, activity barrier |
| Tool execution lifecycle, `PC/infrastructure/tool_agent_conversation.py`, `PC/application/{tool_execution_lifecycle,execute_tool,tool_planner}.py`, `PC/domain/{tool_execution,policy}.py` | a plan in memory with the execution version it read | plan, persist, ask, decide, claim, dispatch, verify, settle | store, executor |
| Store, `PC/infrastructure/persistence.py` | rows for executions, events, approvals (PostgreSQL) | one transaction per planning, decision and transition, compare-and-set on the version | - |
| Executor, `TE/service.py`, `TE/audit.py` | idempotency cache in memory, evidence files and audit log on disk, one lock | `execute` on a thread per request | its tools |
| Executor file tools, `TE/mutations.py`, `TE/filesystem.py`, `TE/workspaces.py` | files and their backups | write, patch, roll back, list, search, stat, hash, read | an editor that may write too |
| Executor development tools, `TE/development.py` | reports of test runs on disk | run tests, inspect a report | a process it starts |
| Executor UI and browser tools, `TE/browser.py`, `TE/windows_ui.py` | a worker thread each, observations | launch, navigate, observe, act; list, read, focus, act, capture, point | pages, windows, the screen |
| HTTP and WebSocket API, `PC/api.py` | per session: sequence number, replay buffer, link, grace timer | connect, resume, send, expire | event handler |
| Voice turn, `PC/application/voice_turn.py` | the sentence queue between model stream and synthesizer | finish, continue after approval, cancel | speech workers, conversation |
| Model switch, `PC/application/model_switch.py`, `PC/domain/model_runtime.py` | runtime states, remembered outcomes, a lock; the activity barrier | `switch`, `acquire`/`release` | model runtimes |
| Model runtimes, `PC/infrastructure/registered_vllm_runtime.py` and its scripts | a PID file naming one process | start, health, stop | vLLM |
| Model router, `PC/application/model_router.py` | none | `decide` | - |
| Voice activity worker, `PC/infrastructure/audio_workers.py`, `src/apps/pc-server/workers/vad_worker.py` | a stream per recording, four at most | analyze, close | event handler |
| Salon reservations, `PC/domain/salon_booking.py`, `PC/infrastructure/file_reservations.py` | the reservation file, its backups, a file lock | create, modify, cancel, availability | other processes on the same file |
| Salon calls, `PC/application/salon_calls.py` | per session: the transaction being filled in and whether it awaits a confirmation | start, message, end | reservations, a language model |
| Salon model harness, `PC/infrastructure/salon_vllm_harness.py` | none | decide: ask, ask once more, parse | salon calls |
| Salon speech, FAQ; other speech workers; status adapters; tool registry | none of their own | requests and answers | - |
| Android client, `AN/ui/MainViewModel.kt`, `AN/audio/`, `AN/network/PcGatewayClient.kt` | reducer state, recorder and player with their threads, connection and resume position | tap, record, play, interrupt, approve; connect, retry | the WebSocket |
| Web QA page, operations scripts, migrations | none | - | - |

What makes each one correct:

- **Event handler and tool lifecycle.** A side effect happens only if a durable
  row says RUNNING and the user's approval is durable where one is needed; at
  most once; a row that nobody works on is never replayed; success is recorded
  only for an effect that happened; turns end; abandoned approvals are dropped.
- **Store.** Every write is one legal transition although the store itself
  checks nothing but a version.
- **Executor.** A tool call is always preceded by its audit line; success is
  answered only with evidence on disk; a key once answered with success is not
  run again; every request is answered.
- **Model switch.** Never two models; no model is taken away from a turn that
  was admitted; ready means served; every request is answered and every turn
  admitted, whatever fails.
- **Salon.** No member of staff is booked twice; nothing a caller was told is
  lost; nothing is written that the caller did not confirm.
- **Voice turn.** Chunks arrive in order and the end last; a completed answer
  was spoken whole; a cancelled one falls silent once the cancellation is
  answered; every response ends.
- **Session.** The server's buffer and the client's position agree on what is to
  be replayed; events arrive in order and once; a client that lost its
  connection comes back or is told that it cannot; a session without a client
  is resumed or removed. A turn holds the model while it needs it and never
  longer; the voice activity worker's streams are given back.
- **Client.** Nothing of a stopped playback is heard; the server keeps no stream
  open that the client gave up; a recording ends for a reason of its own.
- **Files.** What a call put away is in a backup that can be loaded; a failed
  call left the file alone; a rollback restores what was there; what a reading
  tool returns was the file's content at one moment.
- **Test runs.** A report that can be read is whole and tells the truth.
- **UI.** What is acted on is what the caller saw, however late the job runs.
- **Router.** A decision can be carried out and leads to a model that serves.

## 2. What is hard in it

`PROJECT.json` lists each hazard at its line with the properties that watch it.
In groups:

- *Interleaving at awaits.* The server is one event loop. A task that read a
  version, a pending approval or a slot may be cancelled or overtaken at every
  `await`; the thread that talks to the executor cannot be cancelled at all.
- *Crashes.* The server, the executor and a salon process may die between any
  two writes. Rows, evidence files, audit lines and the reservation file stay;
  tasks, caches and locks do not.
- *Time.* Approvals expire, the executor's client times out while the tool
  still runs, drains time out, a disconnected session is swept after a grace
  period during which the client may come back.
- *Failing cleanup.* Recording a failure can itself fail; stopping a model can
  fail; the cleanup of a failed start can fail.
- *Long legal sequences.* A call that is filled in over many messages keeps
  details of an earlier request; a model's decision may change the action under
  a confirmation.

## 3. The plan

In order of importance; all of it is built. A module in the third column is
extended by the one in the second: they share their variables and are checked
in one run.

| # | Module | Built on | Abstract specification |
| --- | --- | --- | --- |
| 1 | `ToolLifecycle`: event handler, conversation, store, executor as seen from the server | - | `ToolExecutionMachine`, the domain's state machine (proved) |
| 2 | `TestRuns`: running tests and inspecting their reports | `ExecutorService` | - |
| 3 | `SalonReservations` | `SalonRules` | - |
| 4 | `SalonCalls` | `SalonHarness`, `SalonRules` | - |
| 5 | `ModelRouter` | `ModelSwitch`: coordinator, barrier, runtimes, scripts | - |
| 6 | `SpeechPipeline`: the two tasks of a response | - | - |
| 7 | `SessionProtocol`: server and Android client of one event socket | - | `SessionDelivery`, an ordered stream with named gaps (proved) |
| 8 | `VadStreams`: the voice activity worker | `TurnSlots`: a session's turn and its use of the model | - |
| 9 | `VoiceClient`: the app's threads against the session handler | - | - |
| 10 | `WorkspaceFiles`: the reading tools | `FileMutation`: the writing ones | - |
| 11 | `UiAdapters`: browser and desktop | - | - |

The theorems about a module are in a module of their own that extends it:
`ToolLifecycleProofs` (1), `ExecutorProofs` (2), `SalonProofs` (3), `CallProofs`
(4), `SwitchProofs` (5), `SpeechProofs` (6 and 9), `SessionProofs` (7 and 8) and
`FileProofs` (10 and 11).

Every safety property that a run checks is proved as well, and so are the two
refinements. What is left is smaller: an abstract specification of the phone, and
hazards that `PROJECT.json` lists without a property. No module declares a
RECURSIVE operator.

## 4. The modules

Conventions. One action is one step between two points where another actor can
get in: in the server an event-loop step between two awaits, in the executor a
disk write, in the app a handler of the main thread or a step of a worker, in
the salon one critical section's write. A definition preceded by "Broken
variant" is not part of any specification: it is a plausible mistake in the
definition after it, which a property has to notice. Variables under
"Observation only" are written and never read by the guards. Related invariants
are the named parts of one conjunction, which a configuration checks as a whole.

### ToolExecutionMachine

`PC/domain/tool_execution.py`: the transition table, planning (an execution is
PLANNED and takes its first policy transition in the same call) and
`transition`. It is the abstract specification that `ToolLifecycle` implements
with the identity mapping on `state`, `version` and `events`.

### ToolLifecycle

| Variables | Code |
| --- | --- |
| `state`, `version`, `events`, `approval`, `risk` | rows of `tool_executions`, its events and `approval_requests` |
| `expired` | approvals whose `expires_at` has passed |
| `pc`, `cur`, `held`, `rounds` | the turn's task: the await it stands at, its execution, the version in its plan, `PendingToolCall.rounds` |
| `pending`, `denier`, `denying` | `_pending_approval`, and who is rejecting a dropped one |
| `link`, `grace` | `replay_state.connected`, and the scheduled `expire_session` |
| `sent`, `accepted`, `effects` | the executor: requests posted, validated, carried out |

Actions follow the code: `StartTurn`, `ModelEnds`, `PlanTool` (with the policy),
`PersistPlan`, `RegisterApproval`, `RespondApproval`, `DecideApproval`,
`ClaimExecution`, `DispatchExecution`, `ReceiveOutcome`, `RecordFailure`,
`RecordVerifying`, `SettleExecution`; `AbortTurn` cancels the task at whatever
await it stands; `CancelPending`, `Disconnect`, `Reconnect`, `SweepSession`,
`RejectDropped`, `RejectLost` drop an approval and reject it durably, or fail
to; a connection that ends by a failing send leaves its task to the sweep;
`Restart` loses everything but the rows and the executor. `ExecutorAccepts`
and `ExecutorActs` are the executor as the server's code relies on it: it acts
at most once on a request it accepted. `ExecutorService` models it in full.

The store's guard is the version alone, exactly as in the code: that a write is
also legal and authorised is what has to be shown.

### ExecutorService, TestRuns

Threads arrive at `BoundExecutionService.execute`, read the clock and validate
before the lock, then hold the lock across the duplicate lookup, the "started"
line, the tool, the evidence file, the "succeeded" line and the cache. Every
write is `done`, `lost` or `torn` (the bytes are there but an exception says
otherwise: the line was written and the fsync failed, the file was linked and
the temporary name stayed). `Restart` forgets cache, lock and threads.
Commands are abstract: `KeyOf`, `ExecutionOf` and `RiskOf` say what two of them
have in common.

`TestRuns` refines the one step in which a tool runs, for the commands that are
`run_tests`: the process is started, polled, killed when it is over its time or
its output - by which time it may have ended by itself - and its log and its
metadata are written; `inspect_test_log` (`Inspect`) reads what is there. The
process lives beside the thread, and a restart of the executor leaves it alone.
Half-written files are unreadable files.

### SalonRules, SalonReservations

`SalonRules` holds the booking rules as operators without state: opening hours,
horizon, alignment, skills, conflict of half-open intervals, the staff a booking
gets, and the sets of records that a creation, a change or a cancellation may
result in (empty when it is refused). `SalonReservations` runs them under the
file lock: load, decide, back up, replace, reply. Any write may fail, and the
process may die between any two. The book's clock moves on its own. As in the
code, a creation is tested against a clock that was read before the lock was
waited for, and a change against one read under it.

### SalonHarness, SalonCalls

`SalonHarness` is the function from what a language model outputs to what the
coordinator sees: an output is an object of the schema, speakable or not, or
garbled, or no answer at all; one that is unusable is asked for once more; a
telephone number that is none is dropped, a date or a code that is none spoils
the decision. `Decisions` is the set of what may come of it, and the only thing
`SalonCalls` takes from a model.

`SalonCalls` is one call's transaction over several messages. A message is read
by fixed rules (`RuleMessage`) or by a language model (`ModelMessage`); `mode`
is chosen once, as at construction. The coordinator's lock makes a message one
step; between messages `Elsewhere` changes the book and `Tick` moves the clock.
`Searched` is what a caller is offered. `proposal` and `heard` are observation:
what the caller was last asked to confirm, and which details were told since
the transaction was last cleared.

### ModelSwitch, ModelRouter

The coordinator's request (`Take`, `Drained`, `DrainTimeout`, `Unload`,
`StopSource`, `Prepare`, `Clean`, `Start`, `Health`, `Cleanup`), the barrier
(`Want`, `Admit`, `Release`) and the processes: `running` is the one the PID
file names, `stray` one that survived its termination signal and was forgotten,
`port` who answers at the models' port. Every process action succeeds, fails as
the adapter says it may, or raises an exception the coordinator does not expect.
The initial states include what a restarted server finds: any process running,
recognised or not.

`ModelRouter` adds `decide` and what carrying out a decision does to the
runtimes, and asks in every state of `ModelSwitch` and for every request and
gate what it would decide there: what it may find is what failed switches leave
behind, which is why it is checked on the states the coordinator reaches.

### SpeechPipeline

One response of `VoiceTurnService`. `turn` is the await at which the turn's own
task stands, `voice` that of the task that speaks; `queue` lies between them,
`out` is what is on the wire. An answer that arrives whole is spoken by the
turn's task alone; the model treats it as one whose units are all in the queue
at once, with the same outcomes. Sending an audio event takes two steps, because
the event is out before the await of the transport returns: a cancellation in
between leaves a chunk on the wire whose number was not yet counted up. `Cancel`
is `task.cancel()`, and `Fail` the exception handlers, which stop and join the
speaking task before they close the stream; at the last chunk and the end of a
whole answer there is no handler (`Untried`).

### SessionDelivery, SessionProtocol

`SessionProtocol` has the server's side (`exists`, `connected`, `last`, `floor`,
the `endpoint` of the connection, `expiry`), the wire, and the client's side
(`client`, `position`, `retrying`). A connection is lost without either side
knowing; what each learns, and when, is a step of its own (`ClientNotices`,
`ServerNotices`, `Breaks`). The handler is abstracted to when it runs and what
it emits: in the receive loop, in a task beside it, or in one that outlives its
connection (`OrphanEmits`) - a job, or a broadcast that copied the set of its
receivers before the connection left it. Events are "kept" or "dropped": some kinds are
never recorded for replay, and the window evicts. `SessionDelivery` is what all
that promises: in order, once, nothing kept is missed. `ImplementsDelivery`
instantiates it with the events the server recorded and the position of the
client; what an orphan recorded behind a resumed client's back is the one gap it
allows.

### TurnSlots, VadStreams

`TurnSlots` keeps the three slots of a session's turn (`active`, `processing`,
`pending`), the use of the model it holds (`held`), and the tasks that touch
them: the receive loop (`loop`), the tasks of an end and of an answer (`task`),
the end of a connection and the sweep (`leaving`). Each await that may fail or be
cancelled splits a handler. `switch` is a model switch that waits for the use.
`strayed` records that a task was left running without its slot.

`VadStreams` adds the worker process: `streams` it holds, requests on their way
(`sent`), and what the caller `heard`. Its actions are those of `TurnSlots` with
the request they make; a caller may give up before the worker has begun. The
`abandoned` streams are those whose close failed, was skipped or was overtaken.

### VoiceClient

The fields the app's threads share are one record, `app`, and a handler of the
main thread is an operator from it to the next (`StartListening`,
`StopListening`, `Interrupt`, `PlayerStop`, `Handle`). `job` are the recorder's
jobs, `worker` the player's thread between taking a command, testing the
generation and writing; `up` and `down` are the two directions of the
connection, and `slot` is the server's side of the turn. A message is numbered
first and sent next, so one may overtake another and be refused. What a job reads
becomes a chunk of the stream the app has by then, also when the job is that of an
earlier recording; two jobs may take one chunk index (`NextIndex`).

### FileMutation, WorkspaceFiles

`FileMutation` follows one file through `write`, `patch` and `rollback` in the
order of the code: read and test the hash, make the backup directory, store the
previous content and its metadata, write a temporary file, test the hash again,
replace, verify. An editor may write or delete between any two steps, a step may
fail, the process may die. `WorkspaceFiles` adds the reading tools over the same
file, which look at the path, open it, look again at what was opened and read it
in pieces, and lets the editor put another file, a link or nothing in its place.

### UiAdapters

Both adapters are a queue of jobs in front of one worker thread, and a caller
who may give up (`GiveUp`) while its job stays. A job observes (`Fingerprint`,
`Collect`, `ReadTree`, `Capture`), is checked (`CheckElement`, `CheckControl`,
`CheckShot`) and acts (`ActOnElement`, `ActOnControl`, `Point`) in steps between
which the page, the tree or the screen may change, and any of which may fail: the
fingerprint of a page may then be stored although the caller saw nothing. A key
names no element, so it needs only a tree like the one observed (`FreshTree`). `acted` observes the last
action and what its caller had seen.

## 5. The runs

State counts are distinct states; a name in parentheses lists the parts of a
conjunction.

| Run | Configuration | Instance | Shows |
| --- | --- | --- | --- |
| `tool_safety` | `ToolLifecycle_safety.cfg` | 2 sessions, 2 executions, 1 round, symmetry; 334,000 states | `RowsAreSound` (`TypeOK`, `ApprovalMatchesExecution`, `OneOwner`), `EffectsAreSound` (`EffectsAreAuthorised`, `AtMostOneEffect`, `SuccessIsReal`), `ToolRoundsAreBounded` |
| `tool_live` | `ToolLifecycle_live.cfg` | 1 session, 2 executions, 2 rounds; 49,000 states | `AbandonedRowsAreLeftAlone`, `ImplementsMachine`, `TurnsEnd`, `AbandonedApprovalsAreSwept` |
| `executor` | `TestRuns_run.cfg` | 2 threads, 3 commands of which one runs tests, 3 requests, 1 process; 745,000 states | `RecordsAreSound` (`LedgerIsSound`, `ReportsAreTrue`, `SuccessIsReported`), `PromisesAreKept`, `RequestsAreAnswered` |
| `salon_book` | `SalonReservations_book.cfg` | 2 callers, 2 ids, 2 phones, 2 services, 2 staff, 3 slots, 3 changes, symmetry; 148,000 states | `BookIsSound` (`NoDoubleBooking`, `NoDuplicateBooking`, `ReplacedDocumentsAreSaved`), `CommittedSurvives`, `ReservationsEvolve` |
| `salon_calls` | `SalonCalls_write.cfg` | 1 session, 2 ids, 1 phone, 2 days of 2 slots, one of them closed, 2 versions, symmetry; 83,000 states | `CallIsSound` (with `OffersAreBookable`), `WritesAreProposed`, `RulesWriteTheProposal`, `RulesUseOwnDetails` |
| `switch` | `ModelSwitch_switch.cfg` | 3 requests, 3 keys, 1 turn, cache of 2; 399,000 states | `SwitchIsSound` (`OneReady`, `KeysAreRememberedOnce`), `RoutesAreServable`, `TurnsKeepTheirModel`, `ReadyIsServed`, `FallbackNeedsCleanup`, `SwitchesSettle`, `TurnsAreAdmitted` |
| `speech` | `SpeechPipeline_speak.cfg` | queue of 2, 3 deltas of up to 2 units, 2 chunks a unit; 293,000 states | `OutputIsOrdered`, `CancelIsFinal`, `ResponsesEnd` |
| `session` | `SessionProtocol_resume.cfg` | window of 2, 4 events, 2 lost connections; 579,000 states | `SessionIsSound` (`BufferIsWindow`, `OneConnection`, `NothingIsLeftover`, `ClientIsBehind`), `ImplementsDelivery`, `ClientsComeBack`, `SessionsExpire` |
| `use` | `VadStreams_use.cfg` | 2 turns, 1 stream in the worker; 118,000 states | `VoiceIsBalanced` (`UsageIsBalanced` with `OneSlot`, `TurnsAreCounted`, `UseIsOwned`; `StreamsAreClosed`), `GoneClientsFreeTheModel` |
| `voice` | `VoiceClient_talk.cfg` | 2 recordings, 2 chunks each, limit of 1, 1 chunk of answer, 2 taps; 1,490,000 states | `VoiceIsSound` (`NoStaleAudio`, `StreamsAgree`, `ApprovalsAgree`, `RecordingIsAlive`), `RecordingGoesOn`, `StoppedTracksAreReleased` |
| `files` | `WorkspaceFiles_use.cfg` | 2 texts, 1 binary, 3 executions, 3 calls, 2 edits, 1 fault, symmetry; 3,980,000 states | `WorkspaceIsSound` (`ReadsAreOfTheFile`; `FilesAreSafe` with `NothingIsLost`, `FailuresChangeNothing`, `PartialsAreRemoved`, `ReadOnlyIsKept`), `RollbacksUndo` |
| `ui` | `UiAdapters_act.cfg` | 1 browser session, 2 pages, 2 trees, 2 screens, 4 calls, 2 changes, clock to 3; 3,920,000 states | `ActionsAreSeen`, `PointersAreAwaited` |

### Why the bounds are enough

- *Tool lifecycle.* Rows interact only through the session that owns them, so
  two sessions and two executions contain every pair: two turns at once, a turn
  and a sweep, one session's abandoned row and another's new one. With one
  round, a second tool in the same request is refused (`tool_safety`); with two
  it is carried out (`tool_live`). The safety properties are proved for all
  values besides.
- *Executor.* The lock admits one thread; a second one is needed to wait. Three
  commands are the three ways two requests can be related: the same, the same
  execution under another key, the same key for another execution. Three
  requests let a duplicate follow a failure and a restart. Runs of tests share
  nothing but the lock, so one process suffices (`MaxRuns`); a second request
  for tests is refused its process.
- *Reservations.* A conflict needs two bookings, a lock two callers. One service
  takes a slot and the other two, one member of staff does both and the other
  one: overlap, adjacency, the choice of staff and its absence all occur in
  three slots. The clock moves once, which makes one slot past. The horizon is
  one day and opening hours are one interval for every weekday; `MaxChanges`
  counts document versions.
- *Calls.* Sessions share nothing but the book, and the other sessions'
  effect on it is `Elsewhere`, so one call suffices. A message tells at most
  one detail. `MaxVersion` lets a reservation be made and changed or cancelled.
  The second day is closed, so a search must go past a day.
- *Switch.* Three requests overflow a cache of two, so that eviction and the
  duplicate of a remembered key both happen; a third request also follows a
  failed switch and its failed cleanup. Turns interact only through the
  barrier's count being zero or not. Keys may be reused across targets.
- *Speech.* The queue overflows when one delta completes two units while
  another is queued and one is spoken, which a queue of two and three deltas
  contain; its size matters only as full or not. Two chunks a unit are the
  least with which the audio of one unit can be interrupted in the middle. One
  cancellation suffices: the handler gives up the task with the first.
- *Session.* Four events overflow a window of two and leave room for one that is
  never recorded; two lost connections let a client lose the one it resumed on,
  while the task of the first is still at work.
- *Use.* A release that comes too late harms the next turn, so two turns; a
  worker with room for one stream is full as soon as one is leaked.
- *Voice.* The second recording may meet everything the first one left behind: a
  job, a chunk, an answer, an approval. One chunk over the limit is refused.
  A recording that the end of an earlier job switched off, and whose place a
  third one takes, needs three (`killed` in `RecordingGoesOn`); the theorems of
  section 7 have no such bound.
- *Files.* A write, its rollback, and a rollback of the rollback; the editor
  comes once in between and once again. One fault is a failing step or a crash.
- *UI.* A job that is given up, the calls that run meanwhile, and the one that
  comes after. The clock passes the expiry of a capture and each timeout.

### Fairness

- *Tool lifecycle.* Weak fairness of a session's turn, of the sweep's timer and
  of a rejection under way: the event loop runs what is ready, and the clients
  of the model and of the executor have timeouts, so an awaited outcome
  arrives. Nothing is assumed of users, links, the clock, the executor or
  crashes. `AbandonedApprovalsAreSwept` therefore promises the sweep unless the
  client comes back.
- *Executor.* Weak fairness of each thread: threads are scheduled and tools are
  bounded by their own timeouts - of tests nothing is assumed, they are killed.
  Arrivals are finitely many (`MaxRequests`), so a waiting thread is not starved
  of the lock for ever.
- *Switch.* Weak fairness of the coordinator as a whole, whose every wait has a
  timeout, and of the admission of each turn. Nothing is assumed of the turns:
  one may use its model for ever, and the switch must still be answered.
  `TurnsAreAdmitted` relies on there being finitely many requests; an endless
  stream of them could keep the barrier closed, in the code as in the model.
- *Speech.* Weak fairness of both tasks, since the model's stream, the
  synthesizer and the transport have timeouts; none of the client.
  `TurnsEnd` of `ToolLifecycle` concerns turns with tools, whose answers arrive
  whole and never wait for the queue.
- *Session.* Weak fairness of admission and of the server's endpoint, of the
  grace timer and of the client's retries: the event loops run, and both ends
  have timeouts after which they notice a loss. What is on a connection that is
  up arrives; that one stays up is not assumed.
- *Use.* Weak fairness of the handler's tasks and of the leaving one; requests to
  the worker have a timeout, so each is answered or given up. None of the
  worker, of clients or of switches.
- *Voice.* Weak fairness of the player's thread alone, for the release of a
  stopped track.
- `salon_*`, `files` and `ui` check safety only and assume nothing.

CHECK_DEADLOCK is off for `session`, `use`, `voice`, `files` and `ui`, whose
events, turns, taps, calls and edits are bounded: once they are used up the
system may rest. It is left on for the others, which never stop.

## 6. What was found

Each of these is in the models; where a property would forbid it, the property
names it as its exception and shows that there is no other.

Where the code and a document disagree:

- An expired approval cannot be cancelled durably. `decide_approval` marks it
  EXPIRED and its execution CANCELLED and then raises inside the same
  transaction, which undoes both (`PC/infrastructure/persistence.py:607`); the
  session has forgotten it by then. The sweep waits as long as an approval
  lives, so it meets this case. `docs/architecture.md:73` promises the durable
  transition.
- When neither success nor failure can be recorded, nothing is cached and an
  exact duplicate runs the tool again (`TE/service.py:237`), against
  `docs/security-model.md:108`.
- With the language model, a confirmation asked for one action can carry out
  another one, since taking over the model's action does not reset the
  confirmation (`PC/application/salon_calls.py:350`; the rules do so at line
  235), against `docs/salon-receptionist.md:16` and `:41`. A rejection that the
  model words as a plain reply leaves the proposal armed (line 347).
- An exception other than the runtime's own leaves a model in LOADING,
  HEALTH_CHECKING or UNLOADING, from where no later switch to it can start
  (`PC/application/model_switch.py:558`), against `docs/architecture.md:116`.
- If the synthesizer fails while the turn's task waits in `put` on the full
  queue, nothing makes room, the failure is never noticed and the open stream
  never ended, until the client cancels (`PC/application/voice_turn.py:518`),
  against `docs/architecture.md:208`. (`Stuck` in `ResponsesEnd`.)
- A client that comes back before the server has noticed the loss of its
  connection is refused with 4409 before the socket is accepted (`PC/api.py:995`);
  it sees HTTP 403, takes it for a refused pairing and gives up
  (`AN/network/PcGatewayClient.kt:219`), against `docs/test-report.md:137`. The
  same happens for good after an exception in accept, replay or greeting, which
  run before the `try` whose `finally` clears `connected`.

Sessions and turns:

- A retry of the client that fails before its coroutine has returned finds that
  coroutine still active, and nobody retries again ("stalled" in
  `ClientsComeBack`). The web page reconnects without a position and is refused
  during the grace period.
- When `close_vad` fails in a cancellation or at the end of a connection, the
  cancelled turn is not joined, its use of the model is released, and its later
  `finally` releases that of the next turn; the same happens when a client's
  return cancels a sweep that joins an orphan (`strayed`). A failing chunk
  releases the use of a turn whose end was already taken over.
- A failing chunk drops its turn without closing the worker's stream; an end
  that names another stream skips the close; a close that fails, is given up or
  comes before an analysis that was sent earlier leaves the stream in the voice
  activity worker, which keeps four at most and forgets none
  (`src/apps/pc-server/workers/vad_worker.py:109`): once they are used up, every
  recording fails until the worker is restarted (`abandoned`).

The Android app:

- A refused chunk stops the app's recording without a message to the server,
  which keeps the stream active: later starts are refused. The same follows a
  foreground service that cannot start, and a start over a failed recorder.
- A message numbered on the main thread may be overtaken by one of the
  recorder's thread; the server refuses it, and an answer to an approval is lost
  that way.
- The end of speech carries no stream, so that of an earlier recording ends the
  next one; the recorder's end switches off a flag that the next recording has
  set, after which a start of a third recording takes the place of the second,
  whose stream the server keeps. Chunks of a cancelled response that arrive after a local stop are played
  under the new generation.

Models:

- `start-vllm.sh` removes the PID file of a process that survives 30 seconds of
  SIGTERM; stop then reports success and the fallback is loaded beside it
  (`src/scripts/start-vllm.sh:159`; `stray`). `ReadyIsServed` shows that a model
  is still not called ready on the strength of the other's answers.
- After a failed stop of the large model, requests for the small one keep
  failing, because the stop script expects the other process, until the large
  one is requested.
- After a failed large model the router falls back without asking whether the
  small one can serve the request (`PC/application/model_router.py:178`).

Executor:

- Expiry is judged by a clock read before the lock is waited for
  (`TE/service.py:73`).
- A file that is not UTF-8 is replaced before the diff of it fails, so the call
  fails although the file has changed; a rollback of a rollback that deleted is
  impossible; the execution of a crashed call cannot be repeated, since its
  backup exists; a write between the last test of the hash and the replacement
  is lost (`raced`). A read of a file that is written in place may be torn.
- Only the process a test run started is killed, not what that started in its
  turn, and nothing kills it after a restart: the next run may run beside it.
  Where an open file cannot be removed and such a process has the output open,
  the call fails although its report says that the tests passed.
- A timed-out browser or desktop call acts later all the same; a page's
  fingerprint is taken before its elements are collected (`torn`); a click that
  fails keeps its fingerprint; a launch by a call that was given up leaves a
  session nobody knows.

Salon:

- A search for a time that is not aligned to slots raises outside the handler's
  `try`, after the action was taken over; so does every search by a policy whose
  opening hours are not on the grid of slots, which nothing validates
  (`PC/application/salon_calls.py:592`); a date that does not exist leaves a
  message half applied. A cancellation while the result is worded loses the
  answer after the write.
- Moving a booking does not repeat the test for a second booking of the same
  phone and start (`PC/domain/salon_booking.py:332`); `NoDuplicateBooking` is
  about bookings that were never moved. Moving also chooses staff anew.
- `ReplacedDocumentsAreSaved` assumes that a backup directory is configured;
  the store accepts None.

Speech: a cancellation that arrives while the "completed" end is being sent
sends a second end, "cancelled"; and one that arrives while a failed stream is
being closed may leave it without any. `OutputIsOrdered` allows both: nothing
but an end follows an end.

## 7. What is proved

A run shows a property on the instance of section 5; a theorem here shows it for
every value of the constants. Assumptions are the named ASSUMEs of the modules,
which TLC evaluates on every run: bounds are natural numbers, a mark such as
"none" is not a member of the set it marks the absence in, and sets of inputs are
of the records the code parses.

| Module | Theorem | States | For every |
| --- | --- | --- | --- |
| `ToolLifecycleProofs` | `RowSoundness` | `RowsAreSound`, from `TypeCorrectness`, `RowsAgree` and `SingleOwner` | sets of sessions and executions, limit of rounds |
| | `EffectSoundness` | `EffectsAreSound`, from `Authorisation`, `AtMostOnce` and `SuccessWasReal` | |
| | `BoundedRounds` | `ToolRoundsAreBounded` | |
| | `NoReplay` | `AbandonedRowsAreLeftAlone` | |
| | `Refinement` | `ImplementsMachine` | |
| `ExecutorProofs` | `LedgerSoundness` | `LedgerIsSound` | threads, commands, keys, executions, requests |
| | `RecordsSoundness` | `RecordsAreSound` | and processes |
| | `PromisesKept` | `PromisesAreKept` | |
| `SalonProofs` | `BookSoundness` | `BookIsSound` | staff, skills, services, hours, callers, reservations, changes |
| | `Durability` | `CommittedSurvives` | |
| | `Evolution` | `ReservationsEvolve` | |
| `CallProofs` | `CallSoundness` | `CallIsSound`, if `Opens % SlotMinutes = 0` | salons as above, calls, decisions of the model |
| | `WritesProposed` | `WritesAreProposed` | |
| | `ProposalWritten` | `RulesWriteTheProposal` | |
| | `OwnDetails` | `RulesUseOwnDetails` | |
| `SwitchProofs` | `SwitchSoundness` | `SwitchIsSound` | requests, keys, turns, size of the cache |
| | `TurnStability` | `TurnsKeepTheirModel` | |
| | `ReadyMeansServed` | `ReadyIsServed` | |
| | `CleanFallback` | `FallbackNeedsCleanup` | |
| | `RouteSoundness` | `RoutesAreServable` | requests to the router as well |
| `SpeechProofs` | `OutputOrder` | `OutputIsOrdered` | length of the queue, of the stream and of a unit's audio |
| | `CancelFinality` | `CancelIsFinal` | |
| | `PhoneInvariant` | `PhoneInv`, the inductive invariant | numbers of recordings, chunks, taps and of audio in an answer |
| | `VoiceSoundness` | `VoiceIsSound` | |
| | `RecordingsGoOn` | `RecordingGoesOn` | |
| `SessionProofs` | `SessionSoundness` | `SessionIsSound` | sizes of the window, numbers of events and lost connections |
| | `SessionRefinement` | `ImplementsDelivery` | |
| | `VoiceBalance` | `VoiceIsBalanced` | numbers of turns and of the worker's streams |
| `FileProofs` | `WorkspaceSoundness` | `WorkspaceIsSound` | contents, executions, calls, edits, faults |
| | `RollbackSoundness` | `RollbacksUndo` | |
| | `ActionsSeen` | `ActionsAreSeen` | sessions, pages, trees, screens, calls, changes and timeouts |
| | `PointersAwaited` | `PointersAreAwaited` | |

Each proof has the same shape: an inductive invariant, that the initial states
satisfy it, that every action preserves it - one step per action, under it one
per conjunct the action can disturb - and that it implies the property. None of
the properties is inductive by itself; what has to be added is what the project
has to say about why the code is right.

- *Tool lifecycle.* `Commit` tests only a version, so that a write is legal must
  follow from who can hold that version. `IInv` says three things. Ownership
  (`OneOwner`): a row has at most one task, pending approval or rejection. What
  an await tells (`TaskInv`): a task that stands at "claim" has a QUEUED row with
  the version it holds, at "await" a RUNNING row with exactly one request posted,
  and so on; no other owner can have moved the row meanwhile. What a row tells
  (`RowInv`): given its state, how far the approval and the executor have come.
  `BoundedRounds` adds what the round counter says of the tools claimed so far.
  `NoReplay` and `Refinement` are action properties: under `IInv`, a step that
  writes a row is taken by its owner, and its transition is in the domain's table.
- *Executor* (`LedgerInv`, `RunInv`). The lock admits one thread (`LockInv`);
  where that thread stands says how many lines the log has for its command
  (`RunsInv`) and which evidence file exists (`DiskInv`); evidence is never
  replaced, so an execution has one success. Whoever holds the lock works at a key
  that is not cached (`PromiseInv`). `ReportInv` says what the place of
  the call that runs tests says of the process, the log and the metadata.
- *Reservations* (`BookInv`). A draft was computed from a book that is still the
  present one because its caller holds the file lock (`DraftInv`), and the rules
  add or change one record without overlap.
- *Calls* (`CallsInv`). An open question is about the transaction as it is now,
  and by the rules every detail in the transaction was told since it was last
  cleared (`SoundCall`); each way a message can be read keeps, withdraws or
  answers the question. A model's decision keeps less, which is why
  `ProposalWritten` and `OwnDetails` are about the rules only. What is offered
  needs no invariant beyond types, but arithmetic: a time that can be booked is a
  slot of a day of the search (`Opens % SlotMinutes = 0` says that the slots begin
  at the opening hour, and is where the code's search raises otherwise), and one
  that is not offered has three before it. The least of a set of times comes from
  the library's theorem that `<` on the naturals is well founded.
- *Switch* (`SwitchInv`). Once the turns have drained, no model is believed
  ready and no turn uses one, until the goal is healthy (`PlaceInv`); who holds
  the lock is the only request that moves (`HolderInv`); `MachineInv` is about
  the processes. That gives the router its one fact, that at most one model is
  believed ready; each of its rules is then carried out action by action.
- *Speech* (`SpeechInv`). What the queue and the units on their way to it contain
  (`QueueInv`), which of the two tasks may still send (`TurnInv`, `VoiceInv`),
  and what it has sent by then (`OutInv`).
- *Phone* (`PhoneInv`). The two sides may differ while anything is on its way,
  so the invariant says of each message what it will do: behind the start of a
  stream that the app no longer means, its end is on its way (`StartsAgree`), as
  it is behind the server's open slot (`SlotAgrees`); nothing precedes a start
  that would refuse it (`StartsFirst`); a question the server waits for, or its
  answer, is on its way or on the screen (`Asked`). With nothing on its way this
  is the property. Playing is of the current generation since every stop
  begins a new one (`Gens`), and `Alive` follows the job of the recording.
  `RecordingsGoOn` is an action property under the invariant: a handler keeps the
  stream, or the recorder was not active, and then one of the named causes holds.
- *Session* (`SessionInv`). `RecordInv` says that the buffer is the window of
  what was recorded. For each event the client is owed, `WireInv` and `PipeInv`
  say where it is: on the wire, still to be replayed, or, on a wire that is cut,
  behind everything on it. The wire is in order and ahead of the client's
  position, so the next event it takes leaves out nothing that is owed, which is
  the step of `SessionDelivery`; a position the server accepts is never below
  the floor of the window.
- *Use* (`UsageInv`, `WorkerInv`). Whoever waits for a cancelled task finds every
  slot empty, so what is released at the end of the wait is not what the next
  turn needs (`RoomInv`, `JoinInv`); an analysis of the turn that records is on
  its way only while the receive loop waits for its answer (`ChunkInv`), so a
  stream cannot be opened behind the close of a recording that ended in order.
- *Files* (`FileInv`, `ViewInv`). A backup with whole metadata is whole and never
  touched again, since the directory of an execution is made once (`BackupInv`);
  the place of a call says what it has put away by then (`PlaceInv`,
  `PutAwayInv`) and what it relies on at the replacement (`SwapInv`).
- *UI* (`UiInv`). An observation is named by the number of its call, so that a
  job still queued has observed nothing (`JobInv`, `ToldInv`); between a check and
  the action the page is as it was checked or has moved (`BrowserInv`,
  `DesktopInv`); the elements handed out are of one observation (`ElementInv`);
  and a screenshot outlives neither its expiry nor the patience of the caller who
  holds it (`ShotInv`).

What is only model-checked is liveness (`TurnsEnd`, `AbandonedApprovalsAreSwept`,
`RequestsAreAnswered`, `SwitchesSettle`, `TurnsAreAdmitted`, `ResponsesEnd`,
`ClientsComeBack`, `SessionsExpire`, `GoneClientsFreeTheModel`,
`StoppedTracksAreReleased`), which rests on fairness and ENABLED, out of the
prover's reach.

Two more things are out of the prover's reach and nothing here depends on them:
induction over data (the library's induction theorems take an operator parameter,
which the installed back ends cannot instantiate) and RECURSIVE operators, so none
is declared.

## 8. What is not modelled, and why

- *Git and system tools, bootstrap of the executor*: read-only questions to the
  operating system or to Git, and wiring.
- *Recognition and synthesis workers, status adapters, tool registry, salon
  speech, FAQ and configuration*: a request and its answer or timeout, or string
  processing; they are inputs of the models that call them.
- *Pairing, QA tickets and forwarding routes of the API; web page, migrations,
  packages, settings and screens of the app*: I/O, rendering, data definitions.
- Within the modelled parts: JSON, digests and argument validation are one
  yes-or-no; events to subscribers, logging and wording are left out. The
  condition lock of the activity barrier is never contended. Directories above a
  file stay what they are and inode numbers are not reused during a call.
  Downloads of the browser, and processes that tests start in their turn, are
  not followed. The directory is not synced after the reservation file is
  renamed over the old one, so a power failure may bring the old document back;
  the model's crash is a process dying, not a machine losing power.

## 9. How to run it

    tlc -workers 2 -config ToolLifecycle_safety.cfg MCToolLifecycle
    tlapm --threads 4 ToolLifecycleProofs.tla

Each configuration names the module `MC<name>` of its prefix. No run takes more
than about two and a half minutes, no module of proofs more than about three.
