--------------------------- MODULE ToolLifecycle ---------------------------
(***************************************************************************)
(* The durable life of a model-selected tool call, from the model's reply  *)
(* to the side effect and back:                                            *)
(*                                                                         *)
(*   VoiceSessionEventHandler  - at most one running turn and one pending  *)
(*                               approval per session, both in memory;     *)
(*   ToolAgentConversation     - plan, persist, ask, decide, execute;      *)
(*   DurableToolExecutionLifecycle and the PostgreSQL store - one row per  *)
(*                               execution, one per approval, ordered      *)
(*                               events, compare-and-set on the version;   *)
(*   the executor process      - performs the side effect (external here,  *)
(*                               modelled in full by ExecutorService).     *)
(*                                                                         *)
(* One action is one event-loop step between two awaits: what a task reads *)
(* before an await may be stale after it, a task may be cancelled at any   *)
(* await, the server may crash at any point, and the thread that talks to  *)
(* the executor outlives the task that started it.                         *)
(***************************************************************************)
EXTENDS Naturals, Sequences

CONSTANTS
  Sessions,       \* authenticated WebSocket sessions
  Executions,     \* identities uuid4 can still hand out
  NoExecution,    \* None
  MaxToolRounds   \* MAX_TOOL_ROUNDS: tool calls one spoken request may make

ASSUME NoExecutionAssumption == NoExecution \notin Executions
ASSUME MaxToolRoundsAssumption == MaxToolRounds \in Nat

VARIABLES
  \* PostgreSQL: what a restart of the server finds.
  state, version, events,   \* tool_executions and tool_execution_events
  approval,                 \* approval_requests.state, or NONE
  risk,                     \* tool_executions.risk_level
  \* Wall clock: approvals whose expires_at has passed.
  expired,
  \* The event loop of the PC server.
  pc,        \* the await the session's voice-turn task stands at
  cur,       \* the execution that task works on
  held,      \* the execution version its in-memory plan carries
  rounds,    \* PendingToolCall.rounds
  pending,   \* _pending_approval: the execution the session waits on
  denier,    \* who is rejecting a dropped approval: operation.cancel or sweep
  denying,   \* the execution being rejected
  link,      \* replay_state.connected
  grace,     \* a sweep (expire_session) is scheduled
  \* The tool executor process.
  sent, accepted, effects,  \* requests posted, validated, carried out
  \* Observation only: tools claimed by the session's current turn.
  claimed

durableVars  == <<state, version, events, approval, risk>>
turnVars     == <<pc, cur, held, rounds>>
sessionVars  == <<pending, denier, denying, link, grace>>
executorVars == <<sent, accepted, effects>>
vars == <<durableVars, expired, turnVars, sessionVars, executorVars, claimed>>

Machine == INSTANCE ToolExecutionMachine

Phase == { "idle", "model", "persist", "announce", "approve", "reject",
           "claim", "dispatch", "await", "fail", "verify", "verifyBad",
           "settle", "settleBad" }
ApprovalRow == {"NONE", "PENDING", "APPROVED", "DENIED", "EXPIRED"}
RiskLevel == 0..3

\* evaluate_policy for an enabled tool: the conversation never passes a
\* session grant, so every reversible or impacting tool needs an approval.
PolicyAction(level, enabled) ==
  CASE ~enabled \/ level = 3 -> "DENY"
    [] enabled /\ level \in {1, 2} -> "REQUIRE_APPROVAL"
    [] enabled /\ level = 0 -> "ALLOW"

Busy(s) == pc[s] # "idle"

\* The executions some task, pending approval or rejection still refers to.
Holds(s, e) == e \in {cur[s], pending[s], denying[s]}
Owned(e) == \E s \in Sessions : Holds(s, e)

-----------------------------------------------------------------------------
(* The store. *)

\* transition_tool_execution: the guard is the version alone.
Commit(e, expected, to) ==
  /\ version[e] = expected
  /\ state' = [state EXCEPT ![e] = to]
  /\ version' = [version EXCEPT ![e] = expected + 1]
  /\ events' = [events EXCEPT ![e] = Append(@, to)]

\* decide_approval reaches its commit: both rows were re-read under a lock,
\* and an expired approval makes the transaction raise after its updates.
Decidable(e) ==
  /\ approval[e] = "PENDING"
  /\ state[e] = "WAITING_APPROVAL"
  /\ e \notin expired

\* Broken variant: an expired approval is marked EXPIRED and the transaction
\* commits without cancelling the execution.
DecideExpiryAlone(e, approved) ==
  IF Decidable(e)
  THEN /\ Commit(e, version[e], IF approved THEN "QUEUED" ELSE "CANCELLED")
       /\ approval' = [approval EXCEPT ![e] = IF approved THEN "APPROVED" ELSE "DENIED"]
  ELSE /\ approval' = [approval EXCEPT ![e] = IF @ = "PENDING" THEN "EXPIRED" ELSE @]
       /\ UNCHANGED <<state, version, events>>

\* One transaction for the decision and the transition it implies.
Decide(e, approved) ==
  \/ /\ Decidable(e)
     /\ Commit(e, version[e], IF approved THEN "QUEUED" ELSE "CANCELLED")
     /\ approval' = [approval EXCEPT ![e] = IF approved THEN "APPROVED" ELSE "DENIED"]
  \/ /\ ~Decidable(e)
     /\ UNCHANGED <<state, version, events, approval>>

\* The turn's task is over: it returned, raised or was cancelled.
EndTask(s) ==
  /\ pc' = [pc EXCEPT ![s] = "idle"]
  /\ cur' = [cur EXCEPT ![s] = NoExecution]
  /\ UNCHANGED <<held, rounds>>

Goto(s, phase) ==
  /\ pc' = [pc EXCEPT ![s] = phase]
  /\ UNCHANGED <<cur, rounds>>

-----------------------------------------------------------------------------
Init ==
  /\ Machine!MachineInit
  /\ approval = [e \in Executions |-> "NONE"]
  /\ risk = [e \in Executions |-> 0]
  /\ expired = {}
  /\ pc = [s \in Sessions |-> "idle"]
  /\ cur = [s \in Sessions |-> NoExecution]
  /\ held = [s \in Sessions |-> 0]
  /\ rounds = [s \in Sessions |-> 0]
  /\ pending = [s \in Sessions |-> NoExecution]
  /\ denier = [s \in Sessions |-> "none"]
  /\ denying = [s \in Sessions |-> NoExecution]
  /\ link = [s \in Sessions |-> "up"]
  /\ grace = [s \in Sessions |-> FALSE]
  /\ sent = [e \in Executions |-> 0]
  /\ accepted = [e \in Executions |-> 0]
  /\ effects = [e \in Executions |-> 0]
  /\ claimed = [s \in Sessions |-> 0]

-----------------------------------------------------------------------------
(* The voice turn. *)

\* A spoken request ends and its background task asks the model.  The turn
\* could start because no turn ran and no approval was pending.
StartTurn(s) ==
  /\ link[s] = "up" /\ denier[s] = "none"
  /\ ~Busy(s) /\ pending[s] = NoExecution
  /\ pc' = [pc EXCEPT ![s] = "model"]
  /\ rounds' = [rounds EXCEPT ![s] = 0]
  /\ claimed' = [claimed EXCEPT ![s] = 0]
  /\ UNCHANGED <<durableVars, expired, cur, held, sessionVars, executorVars>>

\* The model answers in text, names a tool the policy denies, or breaks the
\* round limit: the turn ends without another execution.
ModelEnds(s) ==
  /\ pc[s] = "model"
  /\ EndTask(s)
  /\ UNCHANGED <<durableVars, expired, sessionVars, executorVars, claimed>>

\* The model names a tool: ToolPlanner.plan makes a fresh execution at
\* version 1 (PLANNED and its first transition).
PlanTool(s, e, level, enabled) ==
  /\ pc[s] = "model"
  /\ rounds[s] < MaxToolRounds
  /\ PolicyAction(level, enabled) # "DENY"
  /\ state[e] = "ABSENT" /\ ~Owned(e)
  /\ pc' = [pc EXCEPT ![s] = "persist"]
  /\ cur' = [cur EXCEPT ![s] = e]
  /\ held' = [held EXCEPT ![s] = 1]
  /\ risk' = [risk EXCEPT ![e] = level]
  /\ UNCHANGED <<state, version, events, approval, expired, rounds,
                 sessionVars, executorVars, claimed>>

\* persist_planned_plan commits: execution, first two events and, when one
\* is needed, the approval, in one transaction.
PersistPlan(s) ==
  LET e == cur[s]
      ask == PolicyAction(risk[e], TRUE) = "REQUIRE_APPROVAL"
  IN /\ pc[s] = "persist"
     /\ Machine!PlanExecution(e, IF ask THEN "WAITING_APPROVAL" ELSE "QUEUED")
     /\ approval' = [approval EXCEPT ![e] = IF ask THEN "PENDING" ELSE "NONE"]
     /\ rounds' = [rounds EXCEPT ![s] = @ + 1]
     /\ pc' = [pc EXCEPT ![s] = IF ask THEN "announce" ELSE "claim"]
     /\ UNCHANGED <<risk, expired, cur, held, sessionVars, executorVars, claimed>>

\* Broken variant: the pending call forgets how many rounds it used.
RegisterApprovalForgettingRounds(s) ==
  /\ pc[s] = "announce"
  /\ pending' = [pending EXCEPT ![s] = cur[s]]
  /\ pc' = [pc EXCEPT ![s] = "idle"]
  /\ cur' = [cur EXCEPT ![s] = NoExecution]
  /\ rounds' = [rounds EXCEPT ![s] = 0]
  /\ UNCHANGED <<durableVars, expired, held, denier, denying, link, grace,
                 executorVars, claimed>>

\* Every event of the reply, approval.required last, has been delivered;
\* only now does the session handler learn of the pending approval.
RegisterApproval(s) ==
  /\ pc[s] = "announce"
  /\ pending' = [pending EXCEPT ![s] = cur[s]]
  /\ EndTask(s)
  /\ UNCHANGED <<durableVars, expired, denier, denying, link, grace,
                 executorVars, claimed>>

\* approval.response.  The handler drops its reference before it awaits; the
\* in-memory approval refuses an expired or differently bound decision, which
\* ends the turn.
RespondApproval(s, approved, bound) ==
  LET e == pending[s] IN
  /\ link[s] = "up" /\ denier[s] = "none"
  /\ ~Busy(s) /\ e # NoExecution
  /\ pending' = [pending EXCEPT ![s] = NoExecution]
  /\ \/ /\ bound /\ e \notin expired
        /\ pc' = [pc EXCEPT ![s] = IF approved THEN "approve" ELSE "reject"]
        /\ cur' = [cur EXCEPT ![s] = e]
     \/ ~(bound /\ e \notin expired) /\ UNCHANGED <<pc, cur>>
  /\ UNCHANGED <<durableVars, expired, held, rounds, denier, denying, link,
                 grace, executorVars, claimed>>

\* The durable decision.  If it commits an approval, queue_approved carries
\* the new version on; a rejection or a refused transaction ends the turn.
DecideApproval(s) ==
  LET e == cur[s]
      approved == pc[s] = "approve"
  IN /\ pc[s] \in {"approve", "reject"}
     /\ Decide(e, approved)
     /\ \/ /\ approved /\ Decidable(e)
           /\ Goto(s, "claim")
           /\ held' = [held EXCEPT ![s] = @ + 1]
        \/ ~(approved /\ Decidable(e)) /\ EndTask(s)
     /\ UNCHANGED <<risk, expired, sessionVars, executorVars, claimed>>

\* QUEUED -> RUNNING is committed before anything crosses to the executor.
ClaimExecution(s) ==
  /\ pc[s] = "claim"
  /\ Commit(cur[s], held[s], "RUNNING")
  /\ held' = [held EXCEPT ![s] = @ + 1]
  /\ Goto(s, "dispatch")
  /\ claimed' = [claimed EXCEPT ![s] = @ + 1]
  /\ UNCHANGED <<approval, risk, expired, sessionVars, executorVars>>

\* The worker thread runs HttpToolExecutionAdapter.execute.  It refuses risk
\* level 2 before posting anything.
DispatchExecution(s) ==
  /\ pc[s] = "dispatch"
  /\ \/ /\ risk[cur[s]] \in {0, 1}
        /\ sent' = [sent EXCEPT ![cur[s]] = @ + 1]
        /\ Goto(s, "await")
     \/ /\ risk[cur[s]] \notin {0, 1}
        /\ UNCHANGED sent
        /\ Goto(s, "fail")
  /\ UNCHANGED <<durableVars, expired, held, sessionVars, accepted, effects, claimed>>

\* Broken variant: an error is answered by posting the request again.
ReceiveOutcomeRetrying(s, outcome) ==
  /\ pc[s] = "await"
  /\ \/ /\ outcome = "receipt" /\ effects[cur[s]] = sent[cur[s]]
        /\ Goto(s, "verify")
     \/ outcome = "error" /\ Goto(s, "dispatch")
  /\ UNCHANGED <<durableVars, expired, held, sessionVars, executorVars, claimed>>

\* Broken variant: RUNNING becomes SUCCEEDED without the VERIFYING row.
ReceiveOutcomeUnverified(s, outcome) ==
  /\ pc[s] = "await"
  /\ \/ /\ outcome = "receipt" /\ effects[cur[s]] = sent[cur[s]]
        /\ Goto(s, "settle")
     \/ outcome = "error" /\ Goto(s, "fail")
  /\ UNCHANGED <<durableVars, expired, held, sessionVars, executorVars, claimed>>

\* Broken variant: the executor client has no timeout.
ReceiveOutcomeUntimed(s, outcome) ==
  /\ pc[s] = "await"
  /\ effects[cur[s]] = sent[cur[s]]
  /\ outcome \in {"receipt", "invalid"}
  /\ Goto(s, IF outcome = "invalid" THEN "verifyBad" ELSE "verify")
  /\ UNCHANGED <<durableVars, expired, held, sessionVars, executorVars, claimed>>

\* The thread returns: a receipt of what was done, a receipt that does not
\* verify, or an error - refused, timed out or unreadable - that says nothing
\* about whether the tool ran.
ReceiveOutcome(s, outcome) ==
  LET e == cur[s] IN
  /\ pc[s] = "await"
  /\ \/ /\ outcome = "receipt" /\ effects[e] = sent[e]
        /\ Goto(s, "verify")
     \/ /\ outcome = "invalid" /\ effects[e] = sent[e]
        /\ Goto(s, "verifyBad")
     \/ /\ outcome = "error"
        /\ Goto(s, "fail")
  /\ UNCHANGED <<durableVars, expired, held, sessionVars, executorVars, claimed>>

\* No receipt: RUNNING -> FAILED, and the turn tells the user.
RecordFailure(s) ==
  /\ pc[s] = "fail"
  /\ Commit(cur[s], held[s], "FAILED")
  /\ EndTask(s)
  /\ UNCHANGED <<approval, risk, expired, sessionVars, executorVars, claimed>>

RecordVerifying(s) ==
  /\ pc[s] \in {"verify", "verifyBad"}
  /\ Commit(cur[s], held[s], "VERIFYING")
  /\ held' = [held EXCEPT ![s] = @ + 1]
  /\ Goto(s, IF pc[s] = "verify" THEN "settle" ELSE "settleBad")
  /\ UNCHANGED <<approval, risk, expired, sessionVars, executorVars, claimed>>

\* A verified receipt is SUCCEEDED and the model continues with the result;
\* anything else is FAILED and ends the turn.
SettleExecution(s) ==
  /\ \/ /\ pc[s] = "settle"
        /\ Commit(cur[s], held[s], "SUCCEEDED")
        /\ pc' = [pc EXCEPT ![s] = "model"]
        /\ cur' = [cur EXCEPT ![s] = NoExecution]
        /\ UNCHANGED <<held, rounds>>
     \/ /\ pc[s] = "settleBad"
        /\ Commit(cur[s], held[s], "FAILED")
        /\ EndTask(s)
  /\ UNCHANGED <<approval, risk, expired, sessionVars, executorVars, claimed>>

\* The task dies at its await: operation.cancel, a failed transaction or
\* transport, a stale version.  Nothing in memory survives it; whatever the
\* last step committed stays.
AbortTurn(s) ==
  /\ Busy(s)
  /\ EndTask(s)
  /\ UNCHANGED <<durableVars, expired, sessionVars, executorVars, claimed>>

-----------------------------------------------------------------------------
(* Dropping a pending approval. *)

\* operation.cancel of a waiting response: the handler forgets it, then asks
\* the store to reject it.  The receive loop waits for the answer.
CancelPending(s) ==
  /\ link[s] = "up" /\ denier[s] = "none"
  /\ pending[s] # NoExecution
  /\ denier' = [denier EXCEPT ![s] = "cancel"]
  /\ denying' = [denying EXCEPT ![s] = pending[s]]
  /\ pending' = [pending EXCEPT ![s] = NoExecution]
  /\ UNCHANGED <<durableVars, expired, turnVars, link, grace, executorVars, claimed>>

\* The WebSocket drops: the running task is cancelled and joined, a pending
\* approval is kept, and a sweep is scheduled after the reconnect grace.  A send
\* that fails in the receive loop ends the connection, but leaves the task alone.
Disconnect(s) ==
  /\ link[s] = "up" /\ denier[s] = "none"
  /\ link' = [link EXCEPT ![s] = "down"]
  /\ grace' = [grace EXCEPT ![s] = TRUE]
  /\ EndTask(s) \/ UNCHANGED turnVars
  /\ UNCHANGED <<durableVars, expired, pending, denier, denying, executorVars, claimed>>

\* The client comes back: a scheduled or running sweep is cancelled.
Reconnect(s) ==
  /\ link[s] = "down"
  /\ link' = [link EXCEPT ![s] = "up"]
  /\ grace' = [grace EXCEPT ![s] = FALSE]
  /\ denier' = [denier EXCEPT ![s] = "none"]
  /\ denying' = [denying EXCEPT ![s] = NoExecution]
  /\ UNCHANGED <<durableVars, expired, turnVars, pending, executorVars, claimed>>

\* Broken variant: the sweep leaves the pending approval to the next client.
SweepSessionKeepingPending(s) ==
  /\ link[s] = "down" /\ grace[s]
  /\ grace' = [grace EXCEPT ![s] = FALSE]
  /\ EndTask(s)
  /\ UNCHANGED <<durableVars, expired, pending, denier, denying, link,
                 executorVars, claimed>>

\* expire_session wakes while the client is still away: a task that is left is
\* cancelled and joined, a pending approval dropped.
SweepSession(s) ==
  /\ link[s] = "down" /\ grace[s]
  /\ grace' = [grace EXCEPT ![s] = FALSE]
  /\ pending' = [pending EXCEPT ![s] = NoExecution]
  /\ denying' = [denying EXCEPT ![s] = pending[s]]
  /\ denier' = [denier EXCEPT ![s] = IF pending[s] = NoExecution THEN "none" ELSE "sweep"]
  /\ EndTask(s)
  /\ UNCHANGED <<durableVars, expired, link, executorVars, claimed>>

\* cancel_pending_approval: the durable rejection, or its refusal.
RejectDropped(s) ==
  /\ denier[s] # "none"
  /\ Decide(denying[s], FALSE)
  /\ denier' = [denier EXCEPT ![s] = "none"]
  /\ denying' = [denying EXCEPT ![s] = NoExecution]
  /\ UNCHANGED <<risk, expired, turnVars, pending, link, grace, executorVars, claimed>>

\* cancel_pending_approval fails on its way to the store.
RejectLost(s) ==
  /\ denier[s] # "none"
  /\ denier' = [denier EXCEPT ![s] = "none"]
  /\ denying' = [denying EXCEPT ![s] = NoExecution]
  /\ UNCHANGED <<durableVars, expired, turnVars, pending, link, grace,
                 executorVars, claimed>>

-----------------------------------------------------------------------------
(* The surroundings: the clock, the executor process, a crash. *)

ExpireApproval(e) ==
  /\ approval[e] # "NONE" /\ e \notin expired
  /\ expired' = expired \union {e}
  /\ UNCHANGED <<durableVars, turnVars, sessionVars, executorVars, claimed>>

\* The executor validates a posted request; the approval must not be expired.
ExecutorAccepts(e) ==
  /\ accepted[e] < sent[e]
  /\ risk[e] = 1 => e \notin expired
  /\ accepted' = [accepted EXCEPT ![e] = @ + 1]
  /\ UNCHANGED <<durableVars, expired, turnVars, sessionVars, sent, effects, claimed>>

\* The side effect itself, possibly long after the server stopped listening.
ExecutorActs(e) ==
  /\ effects[e] < accepted[e]
  /\ effects' = [effects EXCEPT ![e] = @ + 1]
  /\ UNCHANGED <<durableVars, expired, turnVars, sessionVars, sent, accepted, claimed>>

\* Broken variant: the started server resumes the rows it finds QUEUED or
\* RUNNING.
RestartResuming ==
  \E s \in Sessions, e \in Executions :
    /\ state[e] \in {"QUEUED", "RUNNING"}
    /\ pc' = [t \in Sessions |-> IF t = s THEN "dispatch" ELSE "idle"]
    /\ cur' = [t \in Sessions |-> IF t = s THEN e ELSE NoExecution]
    /\ pending' = [t \in Sessions |-> NoExecution]
    /\ denier' = [t \in Sessions |-> "none"]
    /\ denying' = [t \in Sessions |-> NoExecution]
    /\ link' = [t \in Sessions |-> "down"]
    /\ grace' = [t \in Sessions |-> FALSE]
    /\ UNCHANGED <<durableVars, expired, held, rounds, executorVars, claimed>>

\* The server process dies and is started again: memory is lost, nothing
\* re-reads the rows.
Restart ==
  /\ pc' = [s \in Sessions |-> "idle"]
  /\ cur' = [s \in Sessions |-> NoExecution]
  /\ pending' = [s \in Sessions |-> NoExecution]
  /\ denier' = [s \in Sessions |-> "none"]
  /\ denying' = [s \in Sessions |-> NoExecution]
  /\ link' = [s \in Sessions |-> "down"]
  /\ grace' = [s \in Sessions |-> FALSE]
  /\ UNCHANGED <<durableVars, expired, held, rounds, executorVars, claimed>>

-----------------------------------------------------------------------------
TurnStep(s) ==
  \/ ModelEnds(s)
  \/ \E e \in Executions, level \in RiskLevel, enabled \in BOOLEAN :
        PlanTool(s, e, level, enabled)
  \/ PersistPlan(s) \/ RegisterApproval(s) \/ DecideApproval(s)
  \/ ClaimExecution(s) \/ DispatchExecution(s)
  \/ \E outcome \in {"receipt", "invalid", "error"} : ReceiveOutcome(s, outcome)
  \/ RecordFailure(s) \/ RecordVerifying(s) \/ SettleExecution(s)

SessionStep(s) ==
  \/ StartTurn(s)
  \/ \E approved, bound \in BOOLEAN : RespondApproval(s, approved, bound)
  \/ AbortTurn(s) \/ CancelPending(s)
  \/ Disconnect(s) \/ Reconnect(s) \/ SweepSession(s)
  \/ RejectDropped(s) \/ RejectLost(s)

EnvironmentStep(e) ==
  ExpireApproval(e) \/ ExecutorAccepts(e) \/ ExecutorActs(e)

Next ==
  \/ \E s \in Sessions : TurnStep(s) \/ SessionStep(s)
  \/ \E e \in Executions : EnvironmentStep(e)
  \/ Restart

Spec == Init /\ [][Next]_vars

\* The event loop runs every ready task, the model and executor clients time
\* out (so an awaited outcome arrives), and the sweep's timer fires.  Nothing
\* is assumed of users, links, the clock, the executor or crashes.
Fairness ==
  \A s \in Sessions :
    /\ WF_vars(TurnStep(s))
    /\ WF_vars(SweepSession(s))
    /\ WF_vars(RejectDropped(s))

FairSpec == Spec /\ Fairness

-----------------------------------------------------------------------------
(* Properties. *)

TypeOK ==
  /\ state \in [Executions -> Machine!ToolExecutionState \union {"ABSENT"}]
  /\ version \in [Executions -> Nat]
  /\ events \in [Executions -> Seq(Machine!ToolExecutionState)]
  /\ approval \in [Executions -> ApprovalRow]
  /\ risk \in [Executions -> RiskLevel]
  /\ expired \subseteq Executions
  /\ pc \in [Sessions -> Phase]
  /\ cur \in [Sessions -> Executions \union {NoExecution}]
  /\ held \in [Sessions -> Nat]
  /\ rounds \in [Sessions -> Nat]
  /\ pending \in [Sessions -> Executions \union {NoExecution}]
  /\ denier \in [Sessions -> {"none", "cancel", "sweep"}]
  /\ denying \in [Sessions -> Executions \union {NoExecution}]
  /\ link \in [Sessions -> {"up", "down"}]
  /\ grace \in [Sessions -> BOOLEAN]
  /\ sent \in [Executions -> Nat]
  /\ accepted \in [Executions -> Nat]
  /\ effects \in [Executions -> Nat]
  /\ claimed \in [Sessions -> Nat]

\* Nothing crosses to the executor unless the RUNNING row is already durable
\* and, above risk level 0, the user's approval is too - whatever was
\* cancelled, dropped or crashed in between.
EffectsAreAuthorised ==
  \A e \in Executions : sent[e] > 0 =>
    /\ state[e] \in {"RUNNING", "VERIFYING", "SUCCEEDED", "FAILED"}
    /\ risk[e] > 0 => approval[e] = "APPROVED"

\* One execution has its side effect at most once, although its task may be
\* cancelled, the server restarted and the executor's answer lost.
AtMostOneEffect == \A e \in Executions : effects[e] <= 1

\* The approval row and the execution row never tell different stories.
ApprovalMatchesExecution ==
  \A e \in Executions :
    /\ approval[e] = "PENDING" <=> state[e] = "WAITING_APPROVAL"
    /\ approval[e] = "DENIED" => state[e] = "CANCELLED"
    /\ approval[e] = "APPROVED" =>
         state[e] \in {"QUEUED", "RUNNING", "VERIFYING", "SUCCEEDED", "FAILED"}

\* A row says SUCCEEDED only when the side effect really happened.
SuccessIsReal ==
  \A e \in Executions : state[e] = "SUCCEEDED" => effects[e] = 1

\* At most one task, pending approval or rejection works on an execution, so
\* no decision is raced by another one of the same server.
OneOwner ==
  \A s \in Sessions, e \in Executions : Holds(s, e) =>
    /\ \A t \in Sessions \ {s} : ~Holds(t, e)
    /\ cur[s] = e => pending[s] = NoExecution /\ denying[s] = NoExecution
    /\ pending[s] = e => denying[s] = NoExecution

\* What crosses to the executor was approved and is durable, happens at most
\* once, and is what a success reports.
EffectsAreSound == EffectsAreAuthorised /\ AtMostOneEffect /\ SuccessIsReal

\* Whatever was answered, cancelled, dropped or expired, and in which order: an
\* execution has one owner, and its two rows tell one story.
RowsAreSound == TypeOK /\ ApprovalMatchesExecution /\ OneOwner

\* One spoken request claims at most MaxToolRounds tools, however often it
\* stops to ask for an approval in between.
ToolRoundsAreBounded == \A s \in Sessions : claimed[s] <= MaxToolRounds

\* No step writes, dispatches or takes up a row that nobody works on.
LeftAlone(e) ==
  state[e] # "ABSENT" /\ ~Owned(e) =>
    ~Owned(e)' /\ UNCHANGED <<state[e], version[e], approval[e], sent[e]>>

\* A row whose task, pending approval and rejection are gone is never taken
\* up, written or dispatched again: a restarted or reconnected server does
\* not replay it.
AbandonedRowsAreLeftAlone == [][\A e \in Executions : LeftAlone(e)]_vars

\* Every durable write is one legal transition of the domain's machine.
ImplementsMachine == Machine!MachineSpec

\* A turn's task never waits for ever.
TurnsEnd == \A s \in Sessions : Busy(s) ~> ~Busy(s)

\* The pending approval of a client that does not come back is dropped.
AbandonedApprovalsAreSwept ==
  \A s \in Sessions :
    (grace[s] /\ pending[s] # NoExecution) ~> (pending[s] = NoExecution \/ link[s] = "up")

=============================================================================
