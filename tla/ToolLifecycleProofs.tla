------------------------ MODULE ToolLifecycleProofs ------------------------
(***************************************************************************)
(* What holds of ToolLifecycle for every set of sessions and executions    *)
(* and every round limit, proved from one inductive invariant.             *)
(*                                                                         *)
(* The store checks only a row's version, so that a write is a legal and   *)
(* authorised one has to follow from who may hold the version: a row has   *)
(* one owner (OneOwner), the owner's await tells the state the row is in   *)
(* (TaskInv), and the row's state tells how far the approval and the       *)
(* executor have come (RowInv).                                            *)
(***************************************************************************)
EXTENDS ToolLifecycle, SequenceTheorems, TLAPS

\* What the await a session's task stands at, its pending approval and its
\* pending rejection say about the row each of them works on.
TaskInv(s) ==
  /\ cur[s] = NoExecution <=> pc[s] \in {"idle", "model"}
  /\ denying[s] = NoExecution <=> denier[s] = "none"
  /\ pc[s] # "idle" => pending[s] = NoExecution /\ denying[s] = NoExecution
  /\ pc[s] = "persist" => state[cur[s]] = "ABSENT" /\ held[s] = 1 /\ risk[cur[s]] < 3
  /\ pc[s] \in {"announce", "approve", "reject"} => state[cur[s]] = "WAITING_APPROVAL"
  /\ pc[s] = "claim" => state[cur[s]] = "QUEUED"
  /\ pc[s] \in {"dispatch", "await", "fail", "verify", "verifyBad"} =>
       state[cur[s]] = "RUNNING"
  /\ pc[s] \in {"settle", "settleBad"} => state[cur[s]] = "VERIFYING"
  /\ pc[s] = "dispatch" => sent[cur[s]] = 0
  /\ pc[s] = "await" => sent[cur[s]] = 1
  /\ pc[s] \in {"verify", "verifyBad", "settle"} => effects[cur[s]] = 1
  /\ pc[s] \notin {"idle", "model", "persist"} => held[s] = version[cur[s]]
  /\ pending[s] # NoExecution =>
       state[pending[s]] = "WAITING_APPROVAL" /\ held[s] = version[pending[s]]
  /\ denying[s] # NoExecution => state[denying[s]] = "WAITING_APPROVAL"

\* How far the approval and the executor have come, given the row's state.
RowInv(e) ==
  /\ state[e] = "ABSENT" => version[e] = 0 /\ events[e] = <<>> /\ approval[e] = "NONE"
  /\ approval[e] = "PENDING" <=> state[e] = "WAITING_APPROVAL"
  /\ approval[e] = "DENIED" => state[e] = "CANCELLED"
  /\ approval[e] = "APPROVED" =>
       state[e] \in {"QUEUED", "RUNNING", "VERIFYING", "SUCCEEDED", "FAILED"}
  /\ state[e] \notin {"ABSENT", "WAITING_APPROVAL", "CANCELLED"} /\ risk[e] > 0 =>
       approval[e] = "APPROVED"
  /\ sent[e] > 0 => state[e] \in {"RUNNING", "VERIFYING", "SUCCEEDED", "FAILED"}
  /\ state[e] = "SUCCEEDED" => effects[e] = 1
  /\ effects[e] <= accepted[e] /\ accepted[e] <= sent[e] /\ sent[e] <= 1

IInv ==
  /\ TypeOK
  /\ OneOwner
  /\ \A s \in Sessions : TaskInv(s)
  /\ \A e \in Executions : RowInv(e)

-----------------------------------------------------------------------------
(* The store's compare-and-set keeps the rows' types. *)

LEMMA AppendType ==
  ASSUME NEW S, NEW T, NEW f \in [S -> Seq(T)], NEW x, NEW t \in T
  PROVE  [f EXCEPT ![x] = Append(@, t)] \in [S -> Seq(T)]
<1>1. \A y \in S : Append(f[y], t) \in Seq(T)
  BY AppendProperties
<1>2. \A y \in S : [f EXCEPT ![x] = Append(@, t)][y] \in Seq(T)
  BY <1>1
<1> QED
  BY <1>2

LEMMA CommitType ==
  ASSUME TypeOK, NEW e, NEW n \in Nat, NEW to \in Machine!ToolExecutionState,
         Commit(e, n, to)
  PROVE  /\ state' \in [Executions -> Machine!ToolExecutionState \union {"ABSENT"}]
         /\ version' \in [Executions -> Nat]
         /\ events' \in [Executions -> Seq(Machine!ToolExecutionState)]
<1>1. events' = [events EXCEPT ![e] = Append(@, to)]
  BY DEF Commit
<1>2. events' \in [Executions -> Seq(Machine!ToolExecutionState)]
  BY <1>1, AppendType DEF TypeOK
<1> QED
  BY <1>2 DEF Commit, TypeOK

-----------------------------------------------------------------------------
(* Ownership. *)

\* A task past its planning owns its row, and nobody else does.
LEMMA TaskOwnsRow ==
  ASSUME IInv, NEW s \in Sessions, pc[s] \notin {"idle", "model"}
  PROVE  /\ cur[s] \in Executions
         /\ pending[s] = NoExecution /\ denying[s] = NoExecution
         /\ \A t \in Sessions \ {s} : ~Holds(t, cur[s])
<1>1. cur[s] \in Executions
  BY DEF IInv, TypeOK, TaskInv
<1>2. Holds(s, cur[s])
  BY DEF Holds
<1> QED
  BY <1>1, <1>2 DEF IInv, OneOwner

\* So does a rejection under way.
LEMMA RejectionOwnsRow ==
  ASSUME IInv, NEW s \in Sessions, denier[s] # "none"
  PROVE  /\ denying[s] \in Executions
         /\ cur[s] # denying[s] /\ pending[s] # denying[s]
         /\ \A t \in Sessions \ {s} : ~Holds(t, denying[s])
<1>1. denying[s] \in Executions
  BY DEF IInv, TypeOK, TaskInv
<1>2. Holds(s, denying[s])
  BY DEF Holds
<1> QED
  BY <1>1, <1>2, NoExecutionAssumption DEF IInv, OneOwner

\* Letting go of rows keeps every row's owner unique.
LEMMA OwnersLetGo ==
  ASSUME IInv,
         \A t \in Sessions : /\ cur'[t] \in {cur[t], NoExecution}
                             /\ pending'[t] \in {pending[t], NoExecution}
                             /\ denying'[t] \in {denying[t], NoExecution}
  PROVE  OneOwner'
<1> SUFFICES ASSUME NEW s \in Sessions, NEW e \in Executions, Holds(s, e)'
             PROVE  /\ \A t \in Sessions \ {s} : ~Holds(t, e)'
                    /\ cur'[s] = e => pending'[s] = NoExecution /\ denying'[s] = NoExecution
                    /\ pending'[s] = e => denying'[s] = NoExecution
  BY DEF OneOwner
<1>1. \A t \in Sessions : Holds(t, e)' => Holds(t, e)
  BY NoExecutionAssumption DEF Holds
<1>2. /\ \A t \in Sessions \ {s} : ~Holds(t, e)
      /\ cur[s] = e => pending[s] = NoExecution /\ denying[s] = NoExecution
      /\ pending[s] = e => denying[s] = NoExecution
  BY <1>1 DEF IInv, OneOwner
<1> QED
  BY <1>1, <1>2, NoExecutionAssumption

\* A step of session s on its own row e says nothing about other sessions.
LEMMA OtherTasksKeep ==
  ASSUME IInv, NEW s \in Sessions, NEW e \in Executions,
         \A t \in Sessions \ {s} :
           /\ ~Holds(t, e)
           /\ pc'[t] = pc[t] /\ cur'[t] = cur[t] /\ held'[t] = held[t]
           /\ pending'[t] = pending[t]
           /\ denier'[t] = denier[t] /\ denying'[t] = denying[t],
         \A f \in Executions \ {e} :
           /\ state'[f] = state[f] /\ version'[f] = version[f] /\ risk'[f] = risk[f]
           /\ sent'[f] = sent[f] /\ effects'[f] = effects[f]
  PROVE  \A t \in Sessions \ {s} : TaskInv(t)'
<1> SUFFICES ASSUME NEW t \in Sessions \ {s} PROVE TaskInv(t)'
  OBVIOUS
<1>1. TaskInv(t) /\ cur[t] # e /\ pending[t] # e /\ denying[t] # e
  BY DEF IInv, Holds
<1>2. /\ cur[t] \in Executions \union {NoExecution}
      /\ pending[t] \in Executions \union {NoExecution}
      /\ denying[t] \in Executions \union {NoExecution}
      /\ pc[t] \in Phase
  BY DEF IInv, TypeOK
<1> QED
  BY <1>1, <1>2 DEF TaskInv, Phase

LEMMA IInvStep == IInv /\ [Next]_vars => IInv'
<1> SUFFICES ASSUME IInv, [Next]_vars PROVE IInv'
  OBVIOUS
<1> USE NoExecutionAssumption
    DEF durableVars, turnVars, sessionVars, executorVars
<1>1. ASSUME NEW s \in Sessions, ModelEnds(s)
      PROVE IInv'
  <2>1. TypeOK'
    BY <1>1 DEF IInv, TypeOK, Phase, ApprovalRow, RiskLevel,
      Machine!ToolExecutionState, ModelEnds, EndTask
  <2>2. OneOwner'
    BY <1>1, OwnersLetGo DEF IInv, TypeOK, ModelEnds, EndTask
  <2>3. \A t \in Sessions : TaskInv(t)'
    BY <1>1 DEF IInv, TypeOK, Phase, OneOwner, Holds, TaskInv, RowInv, ModelEnds,
      EndTask
  <2>4. \A f \in Executions : RowInv(f)'
    BY <1>1 DEF IInv, TypeOK, RowInv, TaskInv, Holds, ModelEnds, EndTask
  <2> QED
    BY <2>1, <2>2, <2>3, <2>4 DEF IInv
<1>2. ASSUME NEW s \in Sessions, NEW e \in Executions, NEW level \in RiskLevel,
             NEW enabled \in BOOLEAN, PlanTool(s, e, level, enabled)
      PROVE IInv'
  <2>1. TypeOK'
    BY <1>2 DEF IInv, TypeOK, Phase, ApprovalRow, RiskLevel,
      Machine!ToolExecutionState, PlanTool, Owned
  <2>2. \A t \in Sessions : ~Holds(t, e)
    BY <1>2 DEF PlanTool, Owned
  <2>3. OneOwner'
    <3>1. \A t \in Sessions : pending'[t] = pending[t] /\ denying'[t] = denying[t]
      BY <1>2 DEF PlanTool, sessionVars
    <3>2. \A t \in Sessions \ {s} : cur'[t] = cur[t]
      BY <1>2 DEF PlanTool, IInv, TypeOK
    <3>3. cur'[s] = e
      BY <1>2 DEF PlanTool, IInv, TypeOK
    <3>4. pending[s] = NoExecution /\ denying[s] = NoExecution
      BY <1>2 DEF PlanTool, IInv, TypeOK, TaskInv, Phase
    <3> QED
      BY <2>2, <3>1, <3>2, <3>3, <3>4 DEF IInv, OneOwner, Holds
  <2>4. TaskInv(s)'
    BY <1>2, <2>2 DEF IInv, TypeOK, Phase, Holds, TaskInv, PolicyAction, RiskLevel,
      PlanTool, Owned
  <2>5. \A t \in Sessions \ {s} : TaskInv(t)'
    <3>1. /\ pc' = [pc EXCEPT ![s] = "persist"]
          /\ cur' = [cur EXCEPT ![s] = e]
          /\ held' = [held EXCEPT ![s] = 1]
          /\ risk' = [risk EXCEPT ![e] = level]
          /\ UNCHANGED <<state, version, sent, effects, pending, denier, denying>>
      BY <1>2 DEF PlanTool, sessionVars, executorVars
    <3> QED
      BY <2>2, <3>1, OtherTasksKeep DEF IInv, TypeOK
  <2>6. \A f \in Executions : RowInv(f)'
    BY <1>2 DEF IInv, TypeOK, RowInv, PlanTool, Owned
  <2> QED
    BY <2>1, <2>3, <2>4, <2>5, <2>6 DEF IInv
<1>3. ASSUME NEW s \in Sessions, RegisterApproval(s)
      PROVE IInv'
  <2>1. TypeOK'
    BY <1>3 DEF IInv, TypeOK, Phase, ApprovalRow, RiskLevel,
      Machine!ToolExecutionState, RegisterApproval, EndTask
  <2>2. OneOwner'
    BY <1>3, SMTT(30) DEF IInv, TypeOK, OneOwner, Holds, TaskInv, RegisterApproval, EndTask
  <2>3. \A t \in Sessions : TaskInv(t)'
    BY <1>3 DEF IInv, TypeOK, Phase, OneOwner, Holds, TaskInv, RowInv,
      RegisterApproval, EndTask
  <2>4. \A f \in Executions : RowInv(f)'
    BY <1>3 DEF IInv, TypeOK, RowInv, TaskInv, Holds, RegisterApproval, EndTask
  <2> QED
    BY <2>1, <2>2, <2>3, <2>4 DEF IInv
<1>4. ASSUME NEW s \in Sessions, StartTurn(s)
      PROVE IInv'
  <2>1. TypeOK'
    BY <1>4 DEF IInv, TypeOK, Phase, ApprovalRow, RiskLevel,
      Machine!ToolExecutionState, StartTurn, Busy
  <2>2. OneOwner'
    BY <1>4, OwnersLetGo DEF IInv, TypeOK, StartTurn, Busy
  <2>3. \A t \in Sessions : TaskInv(t)'
    BY <1>4 DEF IInv, TypeOK, Phase, OneOwner, Holds, TaskInv, RowInv, StartTurn,
      Busy
  <2>4. \A f \in Executions : RowInv(f)'
    BY <1>4 DEF IInv, TypeOK, RowInv, TaskInv, Holds, StartTurn, Busy
  <2> QED
    BY <2>1, <2>2, <2>3, <2>4 DEF IInv
<1>5. ASSUME NEW s \in Sessions, AbortTurn(s)
      PROVE IInv'
  <2>1. TypeOK'
    BY <1>5 DEF IInv, TypeOK, Phase, ApprovalRow, RiskLevel,
      Machine!ToolExecutionState, AbortTurn, EndTask
  <2>2. OneOwner'
    BY <1>5, OwnersLetGo DEF IInv, TypeOK, AbortTurn, EndTask
  <2>3. \A t \in Sessions : TaskInv(t)'
    BY <1>5 DEF IInv, TypeOK, Phase, OneOwner, Holds, TaskInv, RowInv, AbortTurn,
      EndTask
  <2>4. \A f \in Executions : RowInv(f)'
    BY <1>5 DEF IInv, TypeOK, RowInv, TaskInv, Holds, AbortTurn, EndTask
  <2> QED
    BY <2>1, <2>2, <2>3, <2>4 DEF IInv
<1>6. ASSUME NEW s \in Sessions, CancelPending(s)
      PROVE IInv'
  <2>1. TypeOK'
    BY <1>6 DEF IInv, TypeOK, Phase, ApprovalRow, RiskLevel,
      Machine!ToolExecutionState, CancelPending
  <2>2. OneOwner'
    <3>1. /\ \A t \in Sessions : cur'[t] = cur[t]
          /\ \A t \in Sessions \ {s} : pending'[t] = pending[t] /\ denying'[t] = denying[t]
          /\ pending'[s] = NoExecution /\ denying'[s] = pending[s]
      BY <1>6 DEF CancelPending, turnVars, IInv, TypeOK
    <3>2. \A t \in Sessions, e \in Executions : Holds(t, e)' => Holds(t, e)
      BY <3>1, NoExecutionAssumption DEF Holds
    <3>3. pending[s] \in Executions /\ cur[s] # pending[s]
      BY <1>6, NoExecutionAssumption DEF CancelPending, IInv, TypeOK, OneOwner,
        Holds
    <3> QED
      BY <3>1, <3>2, <3>3 DEF IInv, OneOwner
  <2>3. \A t \in Sessions : TaskInv(t)'
    BY <1>6 DEF IInv, TypeOK, Phase, OneOwner, Holds, TaskInv, RowInv, CancelPending
  <2>4. \A f \in Executions : RowInv(f)'
    BY <1>6 DEF IInv, TypeOK, RowInv, TaskInv, Holds, CancelPending
  <2> QED
    BY <2>1, <2>2, <2>3, <2>4 DEF IInv
<1>7. ASSUME NEW s \in Sessions, Disconnect(s)
      PROVE IInv'
  <2>1. TypeOK'
    BY <1>7 DEF IInv, TypeOK, Phase, ApprovalRow, RiskLevel,
      Machine!ToolExecutionState, Disconnect, EndTask
  <2>2. OneOwner'
    BY <1>7, OwnersLetGo DEF IInv, TypeOK, Disconnect, EndTask
  <2>3. \A t \in Sessions : TaskInv(t)'
    <3>1. UNCHANGED <<durableVars, sent, accepted, effects, held, pending, denier, denying>>
      BY <1>7 DEF Disconnect, EndTask, durableVars, turnVars
    <3>2. CASE EndTask(s)
      BY <3>1, <3>2 DEF IInv, TypeOK, TaskInv, EndTask, durableVars
    <3>3. CASE UNCHANGED turnVars
      BY <3>1, <3>3 DEF IInv, TypeOK, TaskInv, turnVars, durableVars
    <3> QED
      BY <1>7, <3>2, <3>3 DEF Disconnect
  <2>4. \A f \in Executions : RowInv(f)'
    BY <1>7 DEF IInv, TypeOK, RowInv, TaskInv, Holds, Disconnect, EndTask
  <2> QED
    BY <2>1, <2>2, <2>3, <2>4 DEF IInv
<1>8. ASSUME NEW s \in Sessions, Reconnect(s)
      PROVE IInv'
  <2>1. TypeOK'
    BY <1>8 DEF IInv, TypeOK, Phase, ApprovalRow, RiskLevel,
      Machine!ToolExecutionState, Reconnect
  <2>2. OneOwner'
    BY <1>8, OwnersLetGo DEF IInv, TypeOK, Reconnect
  <2>3. \A t \in Sessions : TaskInv(t)'
    BY <1>8 DEF IInv, TypeOK, Phase, OneOwner, Holds, TaskInv, RowInv, Reconnect
  <2>4. \A f \in Executions : RowInv(f)'
    BY <1>8 DEF IInv, TypeOK, RowInv, TaskInv, Holds, Reconnect
  <2> QED
    BY <2>1, <2>2, <2>3, <2>4 DEF IInv
<1>9. ASSUME NEW s \in Sessions, SweepSession(s)
      PROVE IInv'
  <2>1. TypeOK'
    BY <1>9 DEF IInv, TypeOK, Phase, ApprovalRow, RiskLevel,
      Machine!ToolExecutionState, SweepSession, EndTask
  <2>2. OneOwner'
    BY <1>9 DEF IInv, TypeOK, OneOwner, Holds, TaskInv, SweepSession, EndTask
  <2>3. \A t \in Sessions : TaskInv(t)'
    BY <1>9 DEF IInv, TypeOK, Phase, OneOwner, Holds, TaskInv, RowInv, SweepSession, EndTask
  <2>4. \A f \in Executions : RowInv(f)'
    BY <1>9 DEF IInv, TypeOK, RowInv, TaskInv, Holds, SweepSession, EndTask
  <2> QED
    BY <2>1, <2>2, <2>3, <2>4 DEF IInv
<1>10. ASSUME NEW s \in Sessions, RejectLost(s)
      PROVE IInv'
  <2>1. TypeOK'
    BY <1>10 DEF IInv, TypeOK, Phase, ApprovalRow, RiskLevel,
      Machine!ToolExecutionState, RejectLost
  <2>2. OneOwner'
    BY <1>10, OwnersLetGo DEF IInv, TypeOK, RejectLost
  <2>3. \A t \in Sessions : TaskInv(t)'
    BY <1>10 DEF IInv, TypeOK, Phase, OneOwner, Holds, TaskInv, RowInv, RejectLost
  <2>4. \A f \in Executions : RowInv(f)'
    BY <1>10 DEF IInv, TypeOK, RowInv, TaskInv, Holds, RejectLost
  <2> QED
    BY <2>1, <2>2, <2>3, <2>4 DEF IInv
<1>11. ASSUME NEW e \in Executions, ExpireApproval(e)
      PROVE IInv'
  <2>1. TypeOK'
    BY <1>11 DEF IInv, TypeOK, Phase, ApprovalRow, RiskLevel,
      Machine!ToolExecutionState, ExpireApproval
  <2>2. OneOwner'
    BY <1>11, OwnersLetGo DEF IInv, TypeOK, ExpireApproval
  <2>3. \A t \in Sessions : TaskInv(t)'
    BY <1>11 DEF IInv, TypeOK, Phase, OneOwner, Holds, TaskInv, RowInv,
      ExpireApproval
  <2>4. \A f \in Executions : RowInv(f)'
    BY <1>11 DEF IInv, TypeOK, RowInv, TaskInv, Holds, ExpireApproval
  <2> QED
    BY <2>1, <2>2, <2>3, <2>4 DEF IInv
<1>12. ASSUME NEW e \in Executions, ExecutorAccepts(e)
      PROVE IInv'
  <2>1. TypeOK'
    BY <1>12, SMTT(30) DEF IInv, TypeOK, Phase, ApprovalRow, RiskLevel,
      Machine!ToolExecutionState, ExecutorAccepts
  <2>2. OneOwner'
    BY <1>12, OwnersLetGo DEF IInv, TypeOK, ExecutorAccepts
  <2>3. \A t \in Sessions : TaskInv(t)'
    BY <1>12 DEF IInv, TypeOK, Phase, OneOwner, Holds, TaskInv, RowInv,
      ExecutorAccepts
  <2>4. \A f \in Executions : RowInv(f)'
    BY <1>12 DEF IInv, TypeOK, RowInv, TaskInv, Holds, ExecutorAccepts
  <2> QED
    BY <2>1, <2>2, <2>3, <2>4 DEF IInv
<1>13. ASSUME NEW e \in Executions, ExecutorActs(e)
      PROVE IInv'
  <2>1. TypeOK'
    BY <1>13 DEF IInv, TypeOK, Phase, ApprovalRow, RiskLevel,
      Machine!ToolExecutionState, ExecutorActs
  <2>2. OneOwner'
    BY <1>13, OwnersLetGo DEF IInv, TypeOK, ExecutorActs
  <2>3. \A t \in Sessions : TaskInv(t)'
    BY <1>13 DEF IInv, TypeOK, Phase, OneOwner, Holds, TaskInv, RowInv, ExecutorActs
  <2>4. \A f \in Executions : RowInv(f)'
    BY <1>13 DEF IInv, TypeOK, RowInv, TaskInv, Holds, ExecutorActs
  <2> QED
    BY <2>1, <2>2, <2>3, <2>4 DEF IInv
<1>14. CASE Restart
  <2>1. TypeOK'
    BY <1>14 DEF IInv, TypeOK, Phase, ApprovalRow, RiskLevel,
      Machine!ToolExecutionState, Restart
  <2>2. OneOwner'
    BY <1>14, OwnersLetGo DEF IInv, TypeOK, Restart
  <2>3. \A t \in Sessions : TaskInv(t)'
    BY <1>14 DEF IInv, TypeOK, Phase, OneOwner, Holds, TaskInv, RowInv, Restart
  <2>4. \A f \in Executions : RowInv(f)'
    BY <1>14 DEF IInv, TypeOK, RowInv, TaskInv, Holds, Restart
  <2> QED
    BY <2>1, <2>2, <2>3, <2>4 DEF IInv
<1>15. CASE UNCHANGED vars
  <2>1. TypeOK'
    BY <1>15 DEF IInv, TypeOK, Phase, ApprovalRow, RiskLevel,
      Machine!ToolExecutionState, vars
  <2>2. OneOwner'
    BY <1>15, OwnersLetGo DEF IInv, TypeOK, vars
  <2>3. \A t \in Sessions : TaskInv(t)'
    BY <1>15 DEF IInv, TypeOK, Phase, OneOwner, Holds, TaskInv, RowInv, vars
  <2>4. \A f \in Executions : RowInv(f)'
    BY <1>15 DEF IInv, TypeOK, RowInv, TaskInv, Holds, vars
  <2> QED
    BY <2>1, <2>2, <2>3, <2>4 DEF IInv
<1>16. ASSUME NEW s \in Sessions, PersistPlan(s)
      PROVE IInv'
  <2>1. CASE PolicyAction(risk[cur[s]], TRUE) = "REQUIRE_APPROVAL"
    <3>1. /\ pc[s] = "persist"
          /\ state' = [state EXCEPT ![cur[s]] = "WAITING_APPROVAL"]
          /\ version' = [version EXCEPT ![cur[s]] = 1]
          /\ events' = [events EXCEPT ![cur[s]] = <<"PLANNED", "WAITING_APPROVAL">>]
          /\ approval' = [approval EXCEPT ![cur[s]] = "PENDING"]
          /\ rounds' = [rounds EXCEPT ![s] = @ + 1]
          /\ pc' = [pc EXCEPT ![s] = "announce"]
          /\ UNCHANGED <<risk, expired, cur, held, pending, denier, denying, link,
                         grace, sent, accepted, effects, claimed>>
      BY <2>1, <1>16 DEF PersistPlan, Machine!PlanExecution, PolicyAction, TypeOK,
        IInv, RiskLevel, TaskInv
    <3>2. /\ cur[s] \in Executions
          /\ \A t \in Sessions \ {s} : ~Holds(t, cur[s])
      BY <2>1, <3>1, TaskOwnsRow
    <3>3. TypeOK'
      BY <2>1, <3>1, <3>2, SMTT(30) DEF IInv, TypeOK, Phase, ApprovalRow,
        RiskLevel, Machine!ToolExecutionState
    <3>4. OneOwner'
      BY <3>1, OwnersLetGo DEF IInv, TypeOK
    <3>5. TaskInv(s)'
      BY <2>1, <3>1, <3>2 DEF IInv, TypeOK, Phase, OneOwner, Holds, TaskInv,
        RowInv, Decidable
    <3>6. \A t \in Sessions \ {s} : TaskInv(t)'
      BY <3>1, <3>2, OtherTasksKeep DEF IInv, TypeOK
    <3>7. \A f \in Executions : RowInv(f)'
      BY <2>1, <3>1, <3>2, SMTT(30) DEF IInv, TypeOK, RowInv, TaskInv, Decidable
    <3> QED
      BY <3>3, <3>4, <3>5, <3>6, <3>7 DEF IInv
  <2>2. CASE PolicyAction(risk[cur[s]], TRUE) # "REQUIRE_APPROVAL"
    <3>1. risk[cur[s]] = 0
      <4>1. pc[s] = "persist"
        BY <1>16 DEF PersistPlan
      <4>2. risk[cur[s]] \in RiskLevel /\ risk[cur[s]] < 3
        BY <4>1, TaskOwnsRow DEF IInv, TypeOK, TaskInv
      <4> QED
        BY <2>2, <4>2 DEF RiskLevel, PolicyAction
    <3>2. /\ pc[s] = "persist"
          /\ risk[cur[s]] = 0
          /\ state' = [state EXCEPT ![cur[s]] = "QUEUED"]
          /\ version' = [version EXCEPT ![cur[s]] = 1]
          /\ events' = [events EXCEPT ![cur[s]] = <<"PLANNED", "QUEUED">>]
          /\ approval' = [approval EXCEPT ![cur[s]] = "NONE"]
          /\ rounds' = [rounds EXCEPT ![s] = @ + 1]
          /\ pc' = [pc EXCEPT ![s] = "claim"]
          /\ UNCHANGED <<risk, expired, cur, held, pending, denier, denying, link,
                         grace, sent, accepted, effects, claimed>>
      BY <2>2, <3>1, <1>16 DEF PersistPlan, Machine!PlanExecution, PolicyAction,
        TypeOK, IInv, RiskLevel, TaskInv
    <3>3. /\ cur[s] \in Executions
          /\ \A t \in Sessions \ {s} : ~Holds(t, cur[s])
      BY <2>2, <3>2, TaskOwnsRow
    <3>4. TypeOK'
      BY <2>2, <3>2, <3>3, SMTT(30) DEF IInv, TypeOK, Phase, ApprovalRow,
        RiskLevel, Machine!ToolExecutionState
    <3>5. OneOwner'
      BY <3>2, OwnersLetGo DEF IInv, TypeOK
    <3>6. TaskInv(s)'
      BY <2>2, <3>2, <3>3 DEF IInv, TypeOK, Phase, OneOwner, Holds, TaskInv,
        RowInv, Decidable
    <3>7. \A t \in Sessions \ {s} : TaskInv(t)'
      BY <3>2, <3>3, OtherTasksKeep DEF IInv, TypeOK
    <3>8. \A f \in Executions : RowInv(f)'
      BY <2>2, <3>2, <3>3 DEF IInv, TypeOK, RowInv, TaskInv, Decidable
    <3> QED
      BY <3>4, <3>5, <3>6, <3>7, <3>8 DEF IInv
  <2> QED
    BY <2>1, <2>2, <1>16 DEF PersistPlan, Machine!PlanExecution, PolicyAction
<1>17. ASSUME NEW s \in Sessions, ClaimExecution(s)
      PROVE IInv'
  <2>1. IInv'
    <3>1. /\ pc[s] = "claim"
          /\ version[cur[s]] = held[s]
          /\ state' = [state EXCEPT ![cur[s]] = "RUNNING"]
          /\ version' = [version EXCEPT ![cur[s]] = held[s] + 1]
          /\ events' = [events EXCEPT ![cur[s]] = Append(@, "RUNNING")]
          /\ pc' = [pc EXCEPT ![s] = "dispatch"]
          /\ held' = [held EXCEPT ![s] = @ + 1]
          /\ claimed' = [claimed EXCEPT ![s] = @ + 1]
          /\ UNCHANGED <<approval, risk, expired, cur, rounds, pending, denier,
                         denying, link, grace, sent, accepted, effects>>
      BY <1>17 DEF ClaimExecution, Commit, Goto, TypeOK, IInv, RiskLevel, TaskInv
    <3>2. /\ cur[s] \in Executions
          /\ \A t \in Sessions \ {s} : ~Holds(t, cur[s])
      BY <3>1, TaskOwnsRow
    <3>3. /\ state' \in [Executions -> Machine!ToolExecutionState \union {"ABSENT"}]
          /\ version' \in [Executions -> Nat]
          /\ events' \in [Executions -> Seq(Machine!ToolExecutionState)]
      <4>1. Commit(cur[s], held[s], "RUNNING")
        BY <3>1 DEF Commit
      <4>2. held[s] \in Nat
        BY <3>2 DEF IInv, TypeOK
      <4> QED
        BY <4>1, <4>2, CommitType DEF IInv, Machine!ToolExecutionState
    <3>4. held' \in [Sessions -> Nat]
      BY <3>1 DEF IInv, TypeOK
    <3>5. TypeOK'
      BY <3>1, <3>2, <3>3, <3>4, SMTT(30) DEF IInv, TypeOK, Phase, ApprovalRow,
        RiskLevel, Machine!ToolExecutionState
    <3>6. OneOwner'
      BY <3>1, OwnersLetGo DEF IInv, TypeOK
    <3>7. sent[cur[s]] = 0
      <4>1. state[cur[s]] = "QUEUED"
        BY <3>1 DEF IInv, TaskInv
      <4>2. RowInv(cur[s]) /\ sent[cur[s]] \in Nat
        BY <3>2 DEF IInv, TypeOK
      <4> QED
        BY <4>1, <4>2 DEF RowInv
    <3>8. TaskInv(s)'
      BY <3>1, <3>2, <3>7 DEF IInv, TypeOK, Phase, OneOwner, Holds, TaskInv,
        RowInv, Decidable
    <3>9. \A t \in Sessions \ {s} : TaskInv(t)'
      BY <3>1, <3>2, OtherTasksKeep DEF IInv, TypeOK
    <3>10. \A f \in Executions : RowInv(f)'
      BY <3>1, <3>2, SMTT(30) DEF IInv, TypeOK, RowInv, TaskInv, Decidable
    <3> QED
      BY <3>5, <3>6, <3>8, <3>9, <3>10 DEF IInv
  <2> QED
    BY <2>1, <1>17 DEF ClaimExecution, Commit, Goto
<1>18. ASSUME NEW s \in Sessions, DispatchExecution(s)
      PROVE IInv'
  <2>1. CASE risk[cur[s]] \in {0, 1}
    <3>1. /\ pc[s] = "dispatch"
          /\ sent' = [sent EXCEPT ![cur[s]] = @ + 1]
          /\ pc' = [pc EXCEPT ![s] = "await"]
          /\ UNCHANGED <<state, version, events, approval, risk, expired, cur,
                         held, rounds, pending, denier, denying, link, grace,
                         accepted, effects, claimed>>
      BY <2>1, <1>18 DEF DispatchExecution, Goto, TypeOK, IInv, RiskLevel, TaskInv
    <3>2. /\ cur[s] \in Executions
          /\ \A t \in Sessions \ {s} : ~Holds(t, cur[s])
      BY <2>1, <3>1, TaskOwnsRow
    <3>3. TypeOK'
      BY <2>1, <3>1, <3>2, SMTT(30) DEF IInv, TypeOK, Phase, ApprovalRow,
        RiskLevel, Machine!ToolExecutionState
    <3>4. OneOwner'
      BY <3>1, OwnersLetGo DEF IInv, TypeOK
    <3>5. TaskInv(s)'
      BY <2>1, <3>1, <3>2 DEF IInv, TypeOK, Phase, OneOwner, Holds, TaskInv,
        RowInv, Decidable
    <3>6. \A t \in Sessions \ {s} : TaskInv(t)'
      BY <3>1, <3>2, OtherTasksKeep DEF IInv, TypeOK
    <3>7. \A f \in Executions : RowInv(f)'
      BY <2>1, <3>1, <3>2, SMTT(30) DEF IInv, TypeOK, RowInv, TaskInv, Decidable
    <3> QED
      BY <3>3, <3>4, <3>5, <3>6, <3>7 DEF IInv
  <2>2. CASE risk[cur[s]] \notin {0, 1}
    <3>1. /\ pc[s] = "dispatch"
          /\ pc' = [pc EXCEPT ![s] = "fail"]
          /\ UNCHANGED <<state, version, events, approval, risk, expired, cur,
                         held, rounds, pending, denier, denying, link, grace, sent,
                         accepted, effects, claimed>>
      BY <2>2, <1>18 DEF DispatchExecution, Goto, TypeOK, IInv, RiskLevel, TaskInv
    <3>2. /\ cur[s] \in Executions
          /\ \A t \in Sessions \ {s} : ~Holds(t, cur[s])
      BY <2>2, <3>1, TaskOwnsRow
    <3>3. TypeOK'
      BY <2>2, <3>1, <3>2, SMTT(30) DEF IInv, TypeOK, Phase, ApprovalRow,
        RiskLevel, Machine!ToolExecutionState
    <3>4. OneOwner'
      BY <3>1, OwnersLetGo DEF IInv, TypeOK
    <3>5. \A t \in Sessions : TaskInv(t)'
      BY <2>2, <3>1, <3>2 DEF IInv, TypeOK, Phase, OneOwner, Holds, TaskInv, RowInv
    <3>6. \A f \in Executions : RowInv(f)'
      BY <2>2, <3>1, <3>2, SMTT(30) DEF IInv, TypeOK, RowInv, TaskInv, Decidable
    <3> QED
      BY <3>3, <3>4, <3>5, <3>6 DEF IInv
  <2> QED
    BY <2>1, <2>2, <1>18 DEF DispatchExecution, Goto
<1>19. ASSUME NEW s \in Sessions, NEW outcome \in {"receipt", "invalid", "error"},
              ReceiveOutcome(s, outcome)
      PROVE IInv'
  <2>1. CASE outcome = "receipt"
    <3>1. /\ pc[s] = "await"
          /\ effects[cur[s]] = sent[cur[s]]
          /\ pc' = [pc EXCEPT ![s] = "verify"]
          /\ UNCHANGED <<state, version, events, approval, risk, expired, cur,
                         held, rounds, pending, denier, denying, link, grace, sent,
                         accepted, effects, claimed>>
      BY <2>1, <1>19 DEF ReceiveOutcome, Goto, TypeOK, IInv, RiskLevel, TaskInv
    <3>2. /\ cur[s] \in Executions
          /\ \A t \in Sessions \ {s} : ~Holds(t, cur[s])
      BY <2>1, <3>1, TaskOwnsRow
    <3>3. TypeOK'
      BY <2>1, <3>1, <3>2, SMTT(30) DEF IInv, TypeOK, Phase, ApprovalRow,
        RiskLevel, Machine!ToolExecutionState
    <3>4. OneOwner'
      BY <3>1, OwnersLetGo DEF IInv, TypeOK
    <3>5. \A t \in Sessions : TaskInv(t)'
      BY <2>1, <3>1, <3>2 DEF IInv, TypeOK, Phase, OneOwner, Holds, TaskInv, RowInv
    <3>6. \A f \in Executions : RowInv(f)'
      BY <2>1, <3>1, <3>2, SMTT(30) DEF IInv, TypeOK, RowInv, TaskInv, Decidable
    <3> QED
      BY <3>3, <3>4, <3>5, <3>6 DEF IInv
  <2>2. CASE outcome = "invalid"
    <3>1. /\ pc[s] = "await"
          /\ effects[cur[s]] = sent[cur[s]]
          /\ pc' = [pc EXCEPT ![s] = "verifyBad"]
          /\ UNCHANGED <<state, version, events, approval, risk, expired, cur,
                         held, rounds, pending, denier, denying, link, grace, sent,
                         accepted, effects, claimed>>
      BY <2>2, <1>19 DEF ReceiveOutcome, Goto, TypeOK, IInv, RiskLevel, TaskInv
    <3>2. /\ cur[s] \in Executions
          /\ \A t \in Sessions \ {s} : ~Holds(t, cur[s])
      BY <2>2, <3>1, TaskOwnsRow
    <3>3. TypeOK'
      BY <2>2, <3>1, <3>2, SMTT(30) DEF IInv, TypeOK, Phase, ApprovalRow,
        RiskLevel, Machine!ToolExecutionState
    <3>4. OneOwner'
      BY <3>1, OwnersLetGo DEF IInv, TypeOK
    <3>5. \A t \in Sessions : TaskInv(t)'
      BY <2>2, <3>1, <3>2 DEF IInv, TypeOK, Phase, OneOwner, Holds, TaskInv, RowInv
    <3>6. \A f \in Executions : RowInv(f)'
      BY <2>2, <3>1, <3>2, SMTT(30) DEF IInv, TypeOK, RowInv, TaskInv, Decidable
    <3> QED
      BY <3>3, <3>4, <3>5, <3>6 DEF IInv
  <2>3. CASE outcome = "error"
    <3>1. /\ pc[s] = "await"
          /\ pc' = [pc EXCEPT ![s] = "fail"]
          /\ UNCHANGED <<state, version, events, approval, risk, expired, cur,
                         held, rounds, pending, denier, denying, link, grace, sent,
                         accepted, effects, claimed>>
      BY <2>3, <1>19 DEF ReceiveOutcome, Goto, TypeOK, IInv, RiskLevel, TaskInv
    <3>2. /\ cur[s] \in Executions
          /\ \A t \in Sessions \ {s} : ~Holds(t, cur[s])
      BY <2>3, <3>1, TaskOwnsRow
    <3>3. TypeOK'
      BY <2>3, <3>1, <3>2, SMTT(30) DEF IInv, TypeOK, Phase, ApprovalRow,
        RiskLevel, Machine!ToolExecutionState
    <3>4. OneOwner'
      BY <3>1, OwnersLetGo DEF IInv, TypeOK
    <3>5. \A t \in Sessions : TaskInv(t)'
      BY <2>3, <3>1, <3>2 DEF IInv, TypeOK, Phase, OneOwner, Holds, TaskInv, RowInv
    <3>6. \A f \in Executions : RowInv(f)'
      BY <2>3, <3>1, <3>2, SMTT(30) DEF IInv, TypeOK, RowInv, TaskInv, Decidable
    <3> QED
      BY <3>3, <3>4, <3>5, <3>6 DEF IInv
  <2> QED
    BY <2>1, <2>2, <2>3, <1>19 DEF ReceiveOutcome, Goto
<1>20. ASSUME NEW s \in Sessions, RecordFailure(s)
      PROVE IInv'
  <2>1. IInv'
    <3>1. /\ pc[s] = "fail"
          /\ version[cur[s]] = held[s]
          /\ state' = [state EXCEPT ![cur[s]] = "FAILED"]
          /\ version' = [version EXCEPT ![cur[s]] = held[s] + 1]
          /\ events' = [events EXCEPT ![cur[s]] = Append(@, "FAILED")]
          /\ pc' = [pc EXCEPT ![s] = "idle"]
          /\ cur' = [cur EXCEPT ![s] = NoExecution]
          /\ UNCHANGED <<approval, risk, expired, held, rounds, pending, denier,
                         denying, link, grace, sent, accepted, effects, claimed>>
      BY <1>20 DEF RecordFailure, Commit, EndTask, TypeOK, IInv, RiskLevel, TaskInv
    <3>2. /\ cur[s] \in Executions
          /\ \A t \in Sessions \ {s} : ~Holds(t, cur[s])
      BY <3>1, TaskOwnsRow
    <3>3. /\ state' \in [Executions -> Machine!ToolExecutionState \union {"ABSENT"}]
          /\ version' \in [Executions -> Nat]
          /\ events' \in [Executions -> Seq(Machine!ToolExecutionState)]
      <4>1. Commit(cur[s], held[s], "FAILED")
        BY <3>1 DEF Commit
      <4>2. held[s] \in Nat
        BY <3>2 DEF IInv, TypeOK
      <4> QED
        BY <4>1, <4>2, CommitType DEF IInv, Machine!ToolExecutionState
    <3>4. TypeOK'
      BY <3>1, <3>2, <3>3, SMTT(30) DEF IInv, TypeOK, Phase, ApprovalRow,
        RiskLevel, Machine!ToolExecutionState
    <3>5. OneOwner'
      BY <3>1, OwnersLetGo DEF IInv, TypeOK
    <3>6. TaskInv(s)'
      BY <3>1, <3>2 DEF IInv, TypeOK, Phase, OneOwner, Holds, TaskInv, RowInv,
        Decidable
    <3>7. \A t \in Sessions \ {s} : TaskInv(t)'
      BY <3>1, <3>2, OtherTasksKeep DEF IInv, TypeOK
    <3>8. \A f \in Executions : RowInv(f)'
      BY <3>1, <3>2, SMTT(30) DEF IInv, TypeOK, RowInv, TaskInv, Decidable
    <3> QED
      BY <3>4, <3>5, <3>6, <3>7, <3>8 DEF IInv
  <2> QED
    BY <2>1, <1>20 DEF RecordFailure, Commit, EndTask
<1>21. ASSUME NEW s \in Sessions, RecordVerifying(s)
      PROVE IInv'
  <2>1. CASE pc[s] = "verify"
    <3>1. /\ version[cur[s]] = held[s]
          /\ state' = [state EXCEPT ![cur[s]] = "VERIFYING"]
          /\ version' = [version EXCEPT ![cur[s]] = held[s] + 1]
          /\ events' = [events EXCEPT ![cur[s]] = Append(@, "VERIFYING")]
          /\ pc' = [pc EXCEPT ![s] = "settle"]
          /\ held' = [held EXCEPT ![s] = @ + 1]
          /\ UNCHANGED <<approval, risk, expired, cur, rounds, pending, denier,
                         denying, link, grace, sent, accepted, effects, claimed>>
      BY <2>1, <1>21 DEF RecordVerifying, Commit, Goto, TypeOK, IInv, RiskLevel,
        TaskInv
    <3>2. /\ cur[s] \in Executions
          /\ \A t \in Sessions \ {s} : ~Holds(t, cur[s])
      BY <2>1, <3>1, TaskOwnsRow
    <3>3. /\ state' \in [Executions -> Machine!ToolExecutionState \union {"ABSENT"}]
          /\ version' \in [Executions -> Nat]
          /\ events' \in [Executions -> Seq(Machine!ToolExecutionState)]
      <4>1. Commit(cur[s], held[s], "VERIFYING")
        BY <3>1 DEF Commit
      <4>2. held[s] \in Nat
        BY <3>2 DEF IInv, TypeOK
      <4> QED
        BY <4>1, <4>2, CommitType DEF IInv, Machine!ToolExecutionState
    <3>4. held' \in [Sessions -> Nat]
      BY <3>1 DEF IInv, TypeOK
    <3>5. TypeOK'
      BY <2>1, <3>1, <3>2, <3>3, <3>4, SMTT(30) DEF IInv, TypeOK, Phase,
        ApprovalRow, RiskLevel, Machine!ToolExecutionState
    <3>6. OneOwner'
      BY <3>1, OwnersLetGo DEF IInv, TypeOK
    <3>7. TaskInv(s)'
      BY <2>1, <3>1, <3>2 DEF IInv, TypeOK, Phase, OneOwner, Holds, TaskInv,
        RowInv, Decidable
    <3>8. \A t \in Sessions \ {s} : TaskInv(t)'
      BY <3>1, <3>2, OtherTasksKeep DEF IInv, TypeOK
    <3>9. \A f \in Executions : RowInv(f)'
      BY <2>1, <3>1, <3>2, SMTT(30) DEF IInv, TypeOK, RowInv, TaskInv, Decidable
    <3> QED
      BY <3>5, <3>6, <3>7, <3>8, <3>9 DEF IInv
  <2>2. CASE pc[s] = "verifyBad"
    <3>1. /\ version[cur[s]] = held[s]
          /\ state' = [state EXCEPT ![cur[s]] = "VERIFYING"]
          /\ version' = [version EXCEPT ![cur[s]] = held[s] + 1]
          /\ events' = [events EXCEPT ![cur[s]] = Append(@, "VERIFYING")]
          /\ pc' = [pc EXCEPT ![s] = "settleBad"]
          /\ held' = [held EXCEPT ![s] = @ + 1]
          /\ UNCHANGED <<approval, risk, expired, cur, rounds, pending, denier,
                         denying, link, grace, sent, accepted, effects, claimed>>
      BY <2>2, <1>21 DEF RecordVerifying, Commit, Goto, TypeOK, IInv, RiskLevel,
        TaskInv
    <3>2. /\ cur[s] \in Executions
          /\ \A t \in Sessions \ {s} : ~Holds(t, cur[s])
      BY <2>2, <3>1, TaskOwnsRow
    <3>3. /\ state' \in [Executions -> Machine!ToolExecutionState \union {"ABSENT"}]
          /\ version' \in [Executions -> Nat]
          /\ events' \in [Executions -> Seq(Machine!ToolExecutionState)]
      <4>1. Commit(cur[s], held[s], "VERIFYING")
        BY <3>1 DEF Commit
      <4>2. held[s] \in Nat
        BY <3>2 DEF IInv, TypeOK
      <4> QED
        BY <4>1, <4>2, CommitType DEF IInv, Machine!ToolExecutionState
    <3>4. held' \in [Sessions -> Nat]
      BY <3>1 DEF IInv, TypeOK
    <3>5. TypeOK'
      BY <2>2, <3>1, <3>2, <3>3, <3>4, SMTT(30) DEF IInv, TypeOK, Phase,
        ApprovalRow, RiskLevel, Machine!ToolExecutionState
    <3>6. OneOwner'
      BY <3>1, OwnersLetGo DEF IInv, TypeOK
    <3>7. TaskInv(s)'
      BY <2>2, <3>1, <3>2 DEF IInv, TypeOK, Phase, OneOwner, Holds, TaskInv,
        RowInv, Decidable
    <3>8. \A t \in Sessions \ {s} : TaskInv(t)'
      BY <3>1, <3>2, OtherTasksKeep DEF IInv, TypeOK
    <3>9. \A f \in Executions : RowInv(f)'
      BY <2>2, <3>1, <3>2, SMTT(30) DEF IInv, TypeOK, RowInv, TaskInv, Decidable
    <3> QED
      BY <3>5, <3>6, <3>7, <3>8, <3>9 DEF IInv
  <2> QED
    BY <2>1, <2>2, <1>21 DEF RecordVerifying, Commit, Goto
<1>22. ASSUME NEW s \in Sessions, SettleExecution(s)
      PROVE IInv'
  <2>1. CASE pc[s] = "settle"
    <3>1. /\ version[cur[s]] = held[s]
          /\ state' = [state EXCEPT ![cur[s]] = "SUCCEEDED"]
          /\ version' = [version EXCEPT ![cur[s]] = held[s] + 1]
          /\ events' = [events EXCEPT ![cur[s]] = Append(@, "SUCCEEDED")]
          /\ pc' = [pc EXCEPT ![s] = "model"]
          /\ cur' = [cur EXCEPT ![s] = NoExecution]
          /\ UNCHANGED <<approval, risk, expired, held, rounds, pending, denier,
                         denying, link, grace, sent, accepted, effects, claimed>>
      BY <2>1, <1>22 DEF SettleExecution, Commit, EndTask, TypeOK, IInv, RiskLevel,
        TaskInv
    <3>2. /\ cur[s] \in Executions
          /\ \A t \in Sessions \ {s} : ~Holds(t, cur[s])
      BY <2>1, <3>1, TaskOwnsRow
    <3>3. /\ state' \in [Executions -> Machine!ToolExecutionState \union {"ABSENT"}]
          /\ version' \in [Executions -> Nat]
          /\ events' \in [Executions -> Seq(Machine!ToolExecutionState)]
      <4>1. Commit(cur[s], held[s], "SUCCEEDED")
        BY <3>1 DEF Commit
      <4>2. held[s] \in Nat
        BY <3>2 DEF IInv, TypeOK
      <4> QED
        BY <4>1, <4>2, CommitType DEF IInv, Machine!ToolExecutionState
    <3>4. TypeOK'
      BY <2>1, <3>1, <3>2, <3>3, SMTT(30) DEF IInv, TypeOK, Phase, ApprovalRow,
        RiskLevel, Machine!ToolExecutionState
    <3>5. OneOwner'
      BY <3>1, OwnersLetGo DEF IInv, TypeOK
    <3>6. TaskInv(s)'
      BY <2>1, <3>1, <3>2 DEF IInv, TypeOK, Phase, OneOwner, Holds, TaskInv,
        RowInv, Decidable
    <3>7. \A t \in Sessions \ {s} : TaskInv(t)'
      BY <3>1, <3>2, OtherTasksKeep DEF IInv, TypeOK
    <3>8. \A f \in Executions : RowInv(f)'
      BY <2>1, <3>1, <3>2, SMTT(30) DEF IInv, TypeOK, RowInv, TaskInv, Decidable
    <3> QED
      BY <3>4, <3>5, <3>6, <3>7, <3>8 DEF IInv
  <2>2. CASE pc[s] = "settleBad"
    <3>1. /\ version[cur[s]] = held[s]
          /\ state' = [state EXCEPT ![cur[s]] = "FAILED"]
          /\ version' = [version EXCEPT ![cur[s]] = held[s] + 1]
          /\ events' = [events EXCEPT ![cur[s]] = Append(@, "FAILED")]
          /\ pc' = [pc EXCEPT ![s] = "idle"]
          /\ cur' = [cur EXCEPT ![s] = NoExecution]
          /\ UNCHANGED <<approval, risk, expired, held, rounds, pending, denier,
                         denying, link, grace, sent, accepted, effects, claimed>>
      BY <2>2, <1>22 DEF SettleExecution, Commit, EndTask, TypeOK, IInv, RiskLevel,
        TaskInv
    <3>2. /\ cur[s] \in Executions
          /\ \A t \in Sessions \ {s} : ~Holds(t, cur[s])
      BY <2>2, <3>1, TaskOwnsRow
    <3>3. /\ state' \in [Executions -> Machine!ToolExecutionState \union {"ABSENT"}]
          /\ version' \in [Executions -> Nat]
          /\ events' \in [Executions -> Seq(Machine!ToolExecutionState)]
      <4>1. Commit(cur[s], held[s], "FAILED")
        BY <3>1 DEF Commit
      <4>2. held[s] \in Nat
        BY <3>2 DEF IInv, TypeOK
      <4> QED
        BY <4>1, <4>2, CommitType DEF IInv, Machine!ToolExecutionState
    <3>4. TypeOK'
      BY <2>2, <3>1, <3>2, <3>3, SMTT(30) DEF IInv, TypeOK, Phase, ApprovalRow,
        RiskLevel, Machine!ToolExecutionState
    <3>5. OneOwner'
      BY <3>1, OwnersLetGo DEF IInv, TypeOK
    <3>6. TaskInv(s)'
      BY <2>2, <3>1, <3>2 DEF IInv, TypeOK, Phase, OneOwner, Holds, TaskInv,
        RowInv, Decidable
    <3>7. \A t \in Sessions \ {s} : TaskInv(t)'
      BY <3>1, <3>2, OtherTasksKeep DEF IInv, TypeOK
    <3>8. \A f \in Executions : RowInv(f)'
      BY <2>2, <3>1, <3>2, SMTT(30) DEF IInv, TypeOK, RowInv, TaskInv, Decidable
    <3> QED
      BY <3>4, <3>5, <3>6, <3>7, <3>8 DEF IInv
  <2> QED
    BY <2>1, <2>2, <1>22 DEF SettleExecution, Commit, EndTask
<1>23. ASSUME NEW s \in Sessions, DecideApproval(s)
      PROVE IInv'
  <2>1. CASE pc[s] = "approve" /\ Decidable(cur[s])
    <3>1. /\ state' = [state EXCEPT ![cur[s]] = "QUEUED"]
          /\ version' = [version EXCEPT ![cur[s]] = @ + 1]
          /\ events' = [events EXCEPT ![cur[s]] = Append(@, "QUEUED")]
          /\ approval' = [approval EXCEPT ![cur[s]] = "APPROVED"]
          /\ pc' = [pc EXCEPT ![s] = "claim"]
          /\ held' = [held EXCEPT ![s] = @ + 1]
          /\ UNCHANGED <<risk, expired, cur, rounds, pending, denier, denying,
                         link, grace, sent, accepted, effects, claimed>>
      BY <2>1, <1>23 DEF DecideApproval, Decide, Decidable, Commit, Goto, EndTask,
        TypeOK, IInv, RiskLevel, TaskInv
    <3>2. /\ cur[s] \in Executions
          /\ \A t \in Sessions \ {s} : ~Holds(t, cur[s])
      BY <2>1, <3>1, TaskOwnsRow
    <3>3. /\ state' \in [Executions -> Machine!ToolExecutionState \union {"ABSENT"}]
          /\ version' \in [Executions -> Nat]
          /\ events' \in [Executions -> Seq(Machine!ToolExecutionState)]
      <4>1. Commit(cur[s], version[cur[s]], "QUEUED")
        BY <3>1 DEF Commit
      <4>2. version[cur[s]] \in Nat
        BY <3>2 DEF IInv, TypeOK
      <4> QED
        BY <4>1, <4>2, CommitType DEF IInv, Machine!ToolExecutionState
    <3>4. approval' \in [Executions -> ApprovalRow]
      BY <3>1 DEF IInv, TypeOK, ApprovalRow
    <3>5. held' \in [Sessions -> Nat]
      BY <3>1 DEF IInv, TypeOK
    <3>6. TypeOK'
      BY <2>1, <3>1, <3>2, <3>3, <3>4, <3>5, SMTT(30) DEF IInv, TypeOK, Phase,
        ApprovalRow, RiskLevel, Machine!ToolExecutionState
    <3>7. OneOwner'
      BY <3>1, OwnersLetGo DEF IInv, TypeOK
    <3>8. TaskInv(s)'
      BY <2>1, <3>1, <3>2 DEF IInv, TypeOK, Phase, OneOwner, Holds, TaskInv,
        RowInv, Decidable
    <3>9. \A t \in Sessions \ {s} : TaskInv(t)'
      BY <3>1, <3>2, OtherTasksKeep, ZenonT(30) DEF IInv, TypeOK
    <3>10. \A f \in Executions : RowInv(f)'
      BY <2>1, <3>1, <3>2, SMTT(30) DEF IInv, TypeOK, RowInv, TaskInv, Decidable
    <3> QED
      BY <3>6, <3>7, <3>8, <3>9, <3>10 DEF IInv
  <2>2. CASE pc[s] = "reject" /\ Decidable(cur[s])
    <3>1. /\ state' = [state EXCEPT ![cur[s]] = "CANCELLED"]
          /\ version' = [version EXCEPT ![cur[s]] = @ + 1]
          /\ events' = [events EXCEPT ![cur[s]] = Append(@, "CANCELLED")]
          /\ approval' = [approval EXCEPT ![cur[s]] = "DENIED"]
          /\ pc' = [pc EXCEPT ![s] = "idle"]
          /\ cur' = [cur EXCEPT ![s] = NoExecution]
          /\ UNCHANGED <<risk, expired, held, rounds, pending, denier, denying,
                         link, grace, sent, accepted, effects, claimed>>
      BY <2>2, <1>23 DEF DecideApproval, Decide, Decidable, Commit, Goto, EndTask,
        TypeOK, IInv, RiskLevel, TaskInv
    <3>2. /\ cur[s] \in Executions
          /\ \A t \in Sessions \ {s} : ~Holds(t, cur[s])
      BY <2>2, <3>1, TaskOwnsRow
    <3>3. /\ state' \in [Executions -> Machine!ToolExecutionState \union {"ABSENT"}]
          /\ version' \in [Executions -> Nat]
          /\ events' \in [Executions -> Seq(Machine!ToolExecutionState)]
      <4>1. Commit(cur[s], version[cur[s]], "CANCELLED")
        BY <3>1 DEF Commit
      <4>2. version[cur[s]] \in Nat
        BY <3>2 DEF IInv, TypeOK
      <4> QED
        BY <4>1, <4>2, CommitType DEF IInv, Machine!ToolExecutionState
    <3>4. approval' \in [Executions -> ApprovalRow]
      BY <3>1 DEF IInv, TypeOK, ApprovalRow
    <3>5. TypeOK'
      BY <2>2, <3>1, <3>2, <3>3, <3>4, SMTT(30) DEF IInv, TypeOK, Phase,
        ApprovalRow, RiskLevel, Machine!ToolExecutionState
    <3>6. OneOwner'
      BY <3>1, OwnersLetGo DEF IInv, TypeOK
    <3>7. TaskInv(s)'
      BY <2>2, <3>1, <3>2 DEF IInv, TypeOK, Phase, OneOwner, Holds, TaskInv,
        RowInv, Decidable
    <3>8. \A t \in Sessions \ {s} : TaskInv(t)'
      BY <3>1, <3>2, OtherTasksKeep, ZenonT(30) DEF IInv, TypeOK
    <3>9. \A f \in Executions : RowInv(f)'
      BY <2>2, <3>1, <3>2, SMTT(30) DEF IInv, TypeOK, RowInv, TaskInv, Decidable
    <3> QED
      BY <3>5, <3>6, <3>7, <3>8, <3>9 DEF IInv
  <2>3. CASE ~Decidable(cur[s])
    <3>1. /\ pc[s] \in {"approve", "reject"}
          /\ pc' = [pc EXCEPT ![s] = "idle"]
          /\ cur' = [cur EXCEPT ![s] = NoExecution]
          /\ UNCHANGED <<state, version, events, approval, risk, expired, held,
                         rounds, pending, denier, denying, link, grace, sent,
                         accepted, effects, claimed>>
      BY <2>3, <1>23 DEF DecideApproval, Decide, Decidable, Commit, Goto, EndTask,
        TypeOK, IInv, RiskLevel, TaskInv
    <3>2. /\ cur[s] \in Executions
          /\ \A t \in Sessions \ {s} : ~Holds(t, cur[s])
      BY <2>3, <3>1, TaskOwnsRow
    <3>3. TypeOK'
      BY <2>3, <3>1, <3>2, SMTT(30) DEF IInv, TypeOK, Phase, ApprovalRow,
        RiskLevel, Machine!ToolExecutionState
    <3>4. OneOwner'
      BY <3>1, OwnersLetGo DEF IInv, TypeOK
    <3>5. \A t \in Sessions : TaskInv(t)'
      BY <2>3, <3>1, <3>2 DEF IInv, TypeOK, Phase, OneOwner, Holds, TaskInv, RowInv
    <3>6. \A f \in Executions : RowInv(f)'
      BY <2>3, <3>1, <3>2, SMTT(30) DEF IInv, TypeOK, RowInv, TaskInv, Decidable
    <3> QED
      BY <3>3, <3>4, <3>5, <3>6 DEF IInv
  <2> QED
    BY <2>1, <2>2, <2>3, <1>23 DEF DecideApproval, Decide, Decidable, Commit, Goto,
      EndTask
<1>24. ASSUME NEW s \in Sessions, NEW approved \in BOOLEAN, NEW bound \in BOOLEAN,
              RespondApproval(s, approved, bound)
      PROVE IInv'
  <2>1. CASE bound /\ pending[s] \notin expired
    <3>1. /\ pc[s] = "idle"
          /\ pending[s] # NoExecution
          /\ denier[s] = "none"
          /\ pending' = [pending EXCEPT ![s] = NoExecution]
          /\ pc' = [pc EXCEPT ![s] = IF approved THEN "approve" ELSE "reject"]
          /\ cur' = [cur EXCEPT ![s] = pending[s]]
          /\ UNCHANGED <<state, version, events, approval, risk, expired, held,
                         rounds, denier, denying, link, grace, sent, accepted,
                         effects, claimed>>
      BY <2>1, <1>24 DEF RespondApproval, Busy, TypeOK, IInv, RiskLevel, TaskInv
    <3>2. pending[s] \in Executions /\ Holds(s, pending[s])
      BY <1>24 DEF RespondApproval, IInv, TypeOK, Holds
    <3>3. TypeOK'
      BY <2>1, <3>1, <3>2, SMTT(30) DEF IInv, TypeOK, Phase, ApprovalRow,
        RiskLevel, Machine!ToolExecutionState
    <3>4. OneOwner'
      BY <2>1, <3>1, <3>2, SMTT(30) DEF IInv, TypeOK, OneOwner, Holds, TaskInv
    <3>5. \A t \in Sessions : TaskInv(t)'
      BY <2>1, <3>1, <3>2 DEF IInv, TypeOK, Phase, OneOwner, Holds, TaskInv, RowInv
    <3>6. \A f \in Executions : RowInv(f)'
      BY <2>1, <3>1, <3>2, SMTT(30) DEF IInv, TypeOK, RowInv, TaskInv, Decidable
    <3> QED
      BY <3>3, <3>4, <3>5, <3>6 DEF IInv
  <2>2. CASE ~(bound /\ pending[s] \notin expired)
    <3>1. /\ pending' = [pending EXCEPT ![s] = NoExecution]
          /\ UNCHANGED <<state, version, events, approval, risk, expired, pc, cur,
                         held, rounds, denier, denying, link, grace, sent,
                         accepted, effects, claimed>>
      BY <2>2, <1>24 DEF RespondApproval, Busy, TypeOK, IInv, RiskLevel, TaskInv
    <3>2. pending[s] \in Executions /\ Holds(s, pending[s])
      BY <1>24 DEF RespondApproval, IInv, TypeOK, Holds
    <3>3. TypeOK'
      BY <2>2, <3>1, <3>2, SMTT(30) DEF IInv, TypeOK, Phase, ApprovalRow,
        RiskLevel, Machine!ToolExecutionState
    <3>4. OneOwner'
      BY <3>1, OwnersLetGo DEF IInv, TypeOK
    <3>5. \A t \in Sessions : TaskInv(t)'
      BY <2>2, <3>1, <3>2 DEF IInv, TypeOK, Phase, OneOwner, Holds, TaskInv, RowInv
    <3>6. \A f \in Executions : RowInv(f)'
      BY <2>2, <3>1, <3>2, SMTT(30) DEF IInv, TypeOK, RowInv, TaskInv, Decidable
    <3> QED
      BY <3>3, <3>4, <3>5, <3>6 DEF IInv
  <2> QED
    BY <2>1, <2>2, <1>24 DEF RespondApproval, Busy
<1>25. ASSUME NEW s \in Sessions, RejectDropped(s)
      PROVE IInv'
  <2>1. CASE Decidable(denying[s])
    <3>1. /\ denying[s] # NoExecution \/ denier[s] # "none"
          /\ state' = [state EXCEPT ![denying[s]] = "CANCELLED"]
          /\ version' = [version EXCEPT ![denying[s]] = @ + 1]
          /\ events' = [events EXCEPT ![denying[s]] = Append(@, "CANCELLED")]
          /\ approval' = [approval EXCEPT ![denying[s]] = "DENIED"]
          /\ denier' = [denier EXCEPT ![s] = "none"]
          /\ denying' = [denying EXCEPT ![s] = NoExecution]
          /\ UNCHANGED <<risk, expired, pc, cur, held, rounds, pending, link,
                         grace, sent, accepted, effects, claimed>>
      BY <2>1, <1>25 DEF RejectDropped, Decide, Decidable, Commit, TypeOK, IInv,
        RiskLevel, TaskInv
    <3>2. /\ denying[s] \in Executions
          /\ \A t \in Sessions \ {s} : ~Holds(t, denying[s])
      BY <2>1, <1>25, <3>1, RejectionOwnsRow DEF RejectDropped
    <3>3. /\ state' \in [Executions -> Machine!ToolExecutionState \union {"ABSENT"}]
          /\ version' \in [Executions -> Nat]
          /\ events' \in [Executions -> Seq(Machine!ToolExecutionState)]
      <4>1. Commit(denying[s], version[denying[s]], "CANCELLED")
        BY <3>1 DEF Commit
      <4>2. version[denying[s]] \in Nat
        BY <3>2 DEF IInv, TypeOK
      <4> QED
        BY <4>1, <4>2, CommitType DEF IInv, Machine!ToolExecutionState
    <3>4. TypeOK'
      BY <2>1, <3>1, <3>2, <3>3, SMTT(30) DEF IInv, TypeOK, Phase, ApprovalRow,
        RiskLevel, Machine!ToolExecutionState
    <3>5. OneOwner'
      BY <3>1, OwnersLetGo DEF IInv, TypeOK
    <3>6. TaskInv(s)'
      BY <2>1, <3>1, <3>2 DEF IInv, TypeOK, Phase, OneOwner, Holds, TaskInv,
        RowInv, Decidable
    <3>7. \A t \in Sessions \ {s} : TaskInv(t)'
      BY <3>1, <3>2, OtherTasksKeep DEF IInv, TypeOK
    <3>8. \A f \in Executions : RowInv(f)'
      BY <2>1, <3>1, <3>2, SMTT(30) DEF IInv, TypeOK, RowInv, TaskInv, Decidable
    <3> QED
      BY <3>4, <3>5, <3>6, <3>7, <3>8 DEF IInv
  <2>2. CASE ~Decidable(denying[s])
    <3>1. /\ denier' = [denier EXCEPT ![s] = "none"]
          /\ denying' = [denying EXCEPT ![s] = NoExecution]
          /\ UNCHANGED <<state, version, events, approval, risk, expired, pc, cur,
                         held, rounds, pending, link, grace, sent, accepted,
                         effects, claimed>>
      BY <2>2, <1>25 DEF RejectDropped, Decide, Decidable, Commit, TypeOK, IInv,
        RiskLevel, TaskInv
    <3>2. /\ denying[s] \in Executions
          /\ \A t \in Sessions \ {s} : ~Holds(t, denying[s])
      BY <2>2, <1>25, <3>1, RejectionOwnsRow DEF RejectDropped
    <3>3. TypeOK'
      BY <2>2, <3>1, <3>2, SMTT(30) DEF IInv, TypeOK, Phase, ApprovalRow,
        RiskLevel, Machine!ToolExecutionState
    <3>4. OneOwner'
      BY <3>1, OwnersLetGo DEF IInv, TypeOK
    <3>5. TaskInv(s)'
      BY <2>2, <3>1, <3>2 DEF IInv, TypeOK, Phase, OneOwner, Holds, TaskInv,
        RowInv, Decidable
    <3>6. \A t \in Sessions \ {s} : TaskInv(t)'
      BY <3>1, <3>2, OtherTasksKeep DEF IInv, TypeOK
    <3>7. \A f \in Executions : RowInv(f)'
      BY <2>2, <3>1, <3>2, SMTT(30) DEF IInv, TypeOK, RowInv, TaskInv, Decidable
    <3> QED
      BY <3>3, <3>4, <3>5, <3>6, <3>7 DEF IInv
  <2> QED
    BY <2>1, <2>2, <1>25 DEF RejectDropped, Decide, Decidable, Commit
<1> QED
  BY <1>1, <1>2, <1>3, <1>4, <1>5, <1>6, <1>7, <1>8, <1>9, <1>10, <1>11, <1>12,
    <1>13, <1>14, <1>15, <1>16, <1>17, <1>18, <1>19, <1>20, <1>21, <1>22, <1>23,
      <1>24, <1>25 DEF Next, TurnStep, SessionStep, EnvironmentStep

-----------------------------------------------------------------------------
(* The invariant and what follows from it. *)

LEMMA InitEstablishesIInv == Init => IInv
<1> SUFFICES ASSUME Init PROVE IInv
  OBVIOUS
<1> USE NoExecutionAssumption DEF Init, Machine!MachineInit
<1>1. TypeOK
  BY DEF TypeOK, Phase, ApprovalRow, RiskLevel
<1>2. OneOwner
  BY DEF OneOwner, Holds
<1>3. \A s \in Sessions : TaskInv(s)
  BY DEF TaskInv
<1>4. \A e \in Executions : RowInv(e)
  BY DEF RowInv
<1> QED
  BY <1>1, <1>2, <1>3, <1>4 DEF IInv

\* The inductive invariant holds in every reachable state.
THEOREM InductiveInvariant == Spec => []IInv
<1> QED
  BY InitEstablishesIInv, IInvStep, PTL DEF Spec

\* Every variable of the lifecycle keeps its type.
THEOREM TypeCorrectness == Spec => []TypeOK
<1>1. IInv => TypeOK
  BY DEF IInv
<1> QED
  BY <1>1, InductiveInvariant, PTL

\* No request is handed to the executor without a durable RUNNING row and,
\* above risk level 0, a durable approval.
THEOREM Authorisation == Spec => []EffectsAreAuthorised
<1>1. IInv => EffectsAreAuthorised
  <2> SUFFICES ASSUME IInv, NEW e \in Executions, sent[e] > 0
               PROVE  /\ state[e] \in {"RUNNING", "VERIFYING", "SUCCEEDED", "FAILED"}
                      /\ risk[e] > 0 => approval[e] = "APPROVED"
    BY DEF EffectsAreAuthorised
  <2> QED
    BY DEF IInv, RowInv
<1> QED
  BY <1>1, InductiveInvariant, PTL

\* One execution acts on the user's machine at most once.
THEOREM AtMostOnce == Spec => []AtMostOneEffect
<1>1. IInv => AtMostOneEffect
  BY DEF IInv, TypeOK, RowInv, AtMostOneEffect
<1> QED
  BY <1>1, InductiveInvariant, PTL

\* The approval row and the execution row agree.
THEOREM RowsAgree == Spec => []ApprovalMatchesExecution
<1>1. IInv => ApprovalMatchesExecution
  BY DEF IInv, RowInv, ApprovalMatchesExecution
<1> QED
  BY <1>1, InductiveInvariant, PTL

\* SUCCEEDED is never recorded for a side effect that did not happen.
THEOREM SuccessWasReal == Spec => []SuccessIsReal
<1>1. IInv => SuccessIsReal
  BY DEF IInv, RowInv, SuccessIsReal
<1> QED
  BY <1>1, InductiveInvariant, PTL

\* No two tasks, pending approvals or rejections share an execution.
THEOREM SingleOwner == Spec => []OneOwner
<1>1. IInv => OneOwner
  BY DEF IInv
<1> QED
  BY <1>1, InductiveInvariant, PTL

\* Whatever is dispatched has been authorised, at most once, and a tool that is
\* reported as done was done.
THEOREM EffectSoundness == Spec => []EffectsAreSound
BY Authorisation, AtMostOnce, SuccessWasReal, PTL DEF EffectsAreSound

\* The approval row never contradicts the execution row, and every row has at
\* most one task, pending approval or rejection that may still write it.
THEOREM RowSoundness == Spec => []RowsAreSound
BY TypeCorrectness, RowsAgree, SingleOwner, PTL DEF RowsAreSound

-----------------------------------------------------------------------------
(* The round limit. *)

\* A tool that is still to be claimed has been counted in rounds already.
RoundsInv(s) ==
  /\ claimed[s] <= rounds[s] /\ rounds[s] <= MaxToolRounds
  /\ pc[s] = "persist" => rounds[s] < MaxToolRounds
  /\ pc[s] \in {"announce", "approve", "reject", "claim"} => claimed[s] < rounds[s]
  /\ pending[s] # NoExecution => claimed[s] < rounds[s]

LEMMA RoundsStep ==
  ASSUME IInv, \A s \in Sessions : RoundsInv(s), [Next]_vars
  PROVE  \A s \in Sessions : RoundsInv(s)'
<1> SUFFICES ASSUME NEW t \in Sessions PROVE RoundsInv(t)'
  OBVIOUS
<1> USE MaxToolRoundsAssumption, NoExecutionAssumption
    DEF IInv, TypeOK, RoundsInv, durableVars, turnVars, sessionVars, executorVars
<1>1. ASSUME NEW s \in Sessions, TurnStep(s)
      PROVE RoundsInv(t)'
  <2>1. CASE ModelEnds(s)
    BY <2>1 DEF ModelEnds, EndTask
  <2>2. ASSUME NEW e \in Executions, NEW level \in RiskLevel,
               NEW enabled \in BOOLEAN,
               PlanTool(s, e, level, enabled)
        PROVE  RoundsInv(t)'
    BY <2>2 DEF PlanTool
  <2>3. CASE PersistPlan(s)
    <3>1. /\ pc[s] = "persist"
          /\ pc' = [pc EXCEPT ![s] = "announce"] \/ pc' = [pc EXCEPT ![s] = "claim"]
          /\ rounds' = [rounds EXCEPT ![s] = @ + 1]
          /\ UNCHANGED <<claimed, pending>>
      BY <2>3 DEF PersistPlan
    <3> QED
      BY <3>1
  <2>4. CASE RegisterApproval(s)
    BY <2>4 DEF RegisterApproval, EndTask
  <2>5. CASE DecideApproval(s)
    <3>1. /\ \/ pc' = [pc EXCEPT ![s] = "claim"]
             \/ pc' = [pc EXCEPT ![s] = "idle"]
          /\ pc[s] \in {"approve", "reject"}
          /\ UNCHANGED <<rounds, claimed, pending>>
      BY <2>5 DEF DecideApproval, Goto, EndTask
    <3> QED
      BY <3>1
  <2>6. CASE ClaimExecution(s)
    <3>1. pending[s] = NoExecution
      BY <2>6 DEF ClaimExecution, TaskInv
    <3> QED
      BY <2>6, <3>1 DEF ClaimExecution, Goto
  <2>7. CASE DispatchExecution(s)
    <3>1. /\ pc' = [pc EXCEPT ![s] = "await"] \/ pc' = [pc EXCEPT ![s] = "fail"]
          /\ UNCHANGED <<rounds, claimed, pending>>
      BY <2>7 DEF DispatchExecution, Goto
    <3> QED
      BY <3>1
  <2>8. ASSUME NEW outcome \in {"receipt", "invalid", "error"}, ReceiveOutcome(s,
               outcome)
        PROVE  RoundsInv(t)'
    <3>1. /\ \/ pc' = [pc EXCEPT ![s] = "verify"]
             \/ pc' = [pc EXCEPT ![s] = "verifyBad"]
             \/ pc' = [pc EXCEPT ![s] = "fail"]
          /\ UNCHANGED <<rounds, claimed, pending>>
      BY <2>8 DEF ReceiveOutcome, Goto
    <3> QED
      BY <3>1
  <2>9. CASE RecordFailure(s)
    BY <2>9 DEF RecordFailure, EndTask
  <2>10. CASE RecordVerifying(s)
    <3>1. /\ pc' = [pc EXCEPT ![s] = "settle"] \/ pc' = [pc EXCEPT ![s] = "settleBad"]
          /\ UNCHANGED <<rounds, claimed, pending>>
      BY <2>10 DEF RecordVerifying, Goto
    <3> QED
      BY <3>1
  <2>11. CASE SettleExecution(s)
    <3>1. /\ pc' = [pc EXCEPT ![s] = "model"] \/ pc' = [pc EXCEPT ![s] = "idle"]
          /\ UNCHANGED <<rounds, claimed, pending>>
      BY <2>11 DEF SettleExecution, EndTask
    <3> QED
      BY <3>1
  <2> QED
    BY <1>1, <2>1, <2>2, <2>3, <2>4, <2>5, <2>6, <2>7, <2>8, <2>9, <2>10, <2>11
    DEF TurnStep
<1>2. ASSUME NEW s \in Sessions, SessionStep(s)
      PROVE RoundsInv(t)'
  <2>1. CASE StartTurn(s)
    BY <2>1 DEF StartTurn
  <2>2. ASSUME NEW approved \in BOOLEAN, NEW bound \in BOOLEAN,
               RespondApproval(s, approved, bound)
        PROVE  RoundsInv(t)'
    <3>1. /\ \/ pc' = [pc EXCEPT ![s] = "approve"]
             \/ pc' = [pc EXCEPT ![s] = "reject"]
             \/ UNCHANGED pc
          /\ pending[s] # NoExecution
          /\ pending' = [pending EXCEPT ![s] = NoExecution]
          /\ UNCHANGED <<rounds, claimed>>
      BY <2>2 DEF RespondApproval
    <3> QED
      BY <3>1
  <2>3. CASE AbortTurn(s)
    BY <2>3 DEF AbortTurn, EndTask
  <2>4. CASE CancelPending(s)
    BY <2>4 DEF CancelPending
  <2>5. CASE Disconnect(s)
    BY <2>5 DEF Disconnect, EndTask
  <2>6. CASE Reconnect(s) \/ RejectDropped(s) \/ RejectLost(s)
    BY <2>6 DEF Reconnect, RejectDropped, RejectLost
  <2>7. CASE SweepSession(s)
    BY <2>7 DEF SweepSession, EndTask
  <2> QED
    BY <1>2, <2>1, <2>2, <2>3, <2>4, <2>5, <2>6, <2>7 DEF SessionStep
<1>3. ASSUME NEW e \in Executions, EnvironmentStep(e)
      PROVE RoundsInv(t)'
  BY <1>3 DEF EnvironmentStep, ExpireApproval, ExecutorAccepts, ExecutorActs
<1>4. CASE Restart
  BY <1>4 DEF Restart
<1>5. CASE UNCHANGED vars
  BY <1>5 DEF vars
<1> QED
  BY <1>1, <1>2, <1>3, <1>4, <1>5 DEF Next

\* A spoken request claims at most MaxToolRounds tools.
THEOREM BoundedRounds == Spec => []ToolRoundsAreBounded
<1>1. Init => \A s \in Sessions : RoundsInv(s)
  <2> SUFFICES ASSUME Init, NEW s \in Sessions PROVE RoundsInv(s)
    OBVIOUS
  <2> QED
    BY MaxToolRoundsAssumption DEF Init, RoundsInv
<1>2. IInv /\ (\A s \in Sessions : RoundsInv(s)) /\ [Next]_vars
        => (\A s \in Sessions : RoundsInv(s))'
  BY RoundsStep
<1>3. IInv /\ (\A s \in Sessions : RoundsInv(s)) => ToolRoundsAreBounded
  <2> SUFFICES ASSUME IInv, NEW s \in Sessions, RoundsInv(s)
               PROVE  claimed[s] <= MaxToolRounds
    BY DEF ToolRoundsAreBounded
  <2> QED
    BY MaxToolRoundsAssumption DEF IInv, TypeOK, RoundsInv
<1> QED
  BY <1>1, <1>2, <1>3, InductiveInvariant, PTL DEF Spec

-----------------------------------------------------------------------------
(* What a step may do. *)

\* A row nobody works on is never taken up or written again.
THEOREM NoReplay == Spec => AbandonedRowsAreLeftAlone
<1>1. IInv /\ [Next]_vars => \A e \in Executions : LeftAlone(e)
  <2> SUFFICES ASSUME IInv, [Next]_vars, NEW e \in Executions,
                      state[e] # "ABSENT", ~Owned(e)
               PROVE  ~Owned(e)' /\ UNCHANGED <<state[e], version[e], approval[e],
               sent[e]>>
    BY DEF LeftAlone
  <2>1. \A s \in Sessions : ~Holds(s, e)
    BY DEF Owned
  <2> USE NoExecutionAssumption
      DEF IInv, TypeOK, Owned, Holds, durableVars, turnVars, sessionVars,
        executorVars
  <2>2. ASSUME NEW s \in Sessions, TurnStep(s)
        PROVE  ~Owned(e)' /\ UNCHANGED <<state[e], version[e], approval[e],
        sent[e]>>
    <3>1. UNCHANGED <<state[e], version[e], approval[e], sent[e]>>
      BY <2>1, <2>2, ZenonT(30) DEF TurnStep, ModelEnds, PlanTool, PersistPlan,
        RegisterApproval,
           DecideApproval, ClaimExecution, DispatchExecution, ReceiveOutcome,
           RecordFailure, RecordVerifying, SettleExecution, Machine!PlanExecution,
           Commit, Decide, Goto, EndTask
    <3>2. ~Owned(e)'
      BY <2>1, <2>2, ZenonT(30) DEF TurnStep, ModelEnds, PlanTool, PersistPlan,
        RegisterApproval,
           DecideApproval, ClaimExecution, DispatchExecution, ReceiveOutcome,
           RecordFailure, RecordVerifying, SettleExecution, Goto, EndTask
    <3> QED
      BY <3>1, <3>2
  <2>3. ASSUME NEW s \in Sessions, SessionStep(s)
        PROVE  ~Owned(e)' /\ UNCHANGED <<state[e], version[e], approval[e],
        sent[e]>>
    BY <2>1, <2>3, ZenonT(30) DEF SessionStep, StartTurn, RespondApproval, AbortTurn,
      CancelPending,
         Disconnect, Reconnect, SweepSession, RejectDropped, RejectLost, Decide, Commit, EndTask
  <2>4. CASE \E f \in Executions : EnvironmentStep(f)
    BY <2>1, <2>4 DEF EnvironmentStep, ExpireApproval, ExecutorAccepts, ExecutorActs
  <2>5. CASE Restart
    BY <2>1, <2>5 DEF Restart
  <2>6. CASE UNCHANGED vars
    BY <2>1, <2>6 DEF vars
  <2> QED
    BY <2>2, <2>3, <2>4, <2>5, <2>6 DEF Next
<1>2. IInv /\ [Next]_vars => [\A e \in Executions : LeftAlone(e)]_vars
  BY <1>1
<1> QED
  BY <1>2, InductiveInvariant, PTL DEF Spec, AbandonedRowsAreLeftAlone

-----------------------------------------------------------------------------
(* Refinement of the domain's machine. *)

\* A legal compare-and-set is one transition of the machine.
LEMMA CommitIsTransition ==
  ASSUME NEW e \in Executions, NEW n, NEW to \in Machine!ToolExecutionState,
         Commit(e, n, to), state[e] # "ABSENT",
         to \in Machine!AllowedTransitions[state[e]]
  PROVE  Machine!MachineNext
<1>1. Machine!Transition(e, to)
  BY DEF Commit, Machine!Transition
<1> QED
  BY <1>1 DEF Machine!MachineNext

LEMMA StepRefinesMachine ==
  ASSUME IInv, [Next]_vars
  PROVE  [Machine!MachineNext]_(Machine!machineVars)
<1> USE DEF Machine!machineVars, durableVars
<1>1. ASSUME NEW s \in Sessions, TurnStep(s)
      PROVE  [Machine!MachineNext]_(Machine!machineVars)
  <2>1. CASE PersistPlan(s)
    <3>1. cur[s] \in Executions
      BY <2>1, TaskOwnsRow DEF PersistPlan
    <3>2. PICK first \in {"QUEUED", "WAITING_APPROVAL"} :
            Machine!PlanExecution(cur[s], first)
      BY <2>1 DEF PersistPlan
    <3> QED
      BY <3>1, <3>2 DEF Machine!MachineNext, Machine!ToolExecutionState
  <2>2. ASSUME NEW from \in Machine!ToolExecutionState,
               NEW to \in Machine!ToolExecutionState,
               NEW n, pc[s] \notin {"idle", "model"}, state[cur[s]] = from,
               to \in Machine!AllowedTransitions[from], Commit(cur[s], n, to)
        PROVE  Machine!MachineNext
    BY <2>2, TaskOwnsRow, CommitIsTransition DEF Machine!ToolExecutionState
  <2> USE DEF Machine!ToolExecutionState, Machine!AllowedTransitions
  <2>3. CASE DecideApproval(s)
    <3>1. state[cur[s]] = "WAITING_APPROVAL" /\ pc[s] \notin {"idle", "model"}
      BY <2>3 DEF DecideApproval, IInv, TaskInv
    <3>2. \/ Commit(cur[s], version[cur[s]], "QUEUED")
          \/ Commit(cur[s], version[cur[s]], "CANCELLED")
          \/ UNCHANGED <<state, version, events>>
      BY <2>3 DEF DecideApproval, Decide
    <3> QED
      BY <2>2, <3>1, <3>2
  <2>4. CASE ClaimExecution(s)
    BY <2>2, <2>4 DEF ClaimExecution, IInv, TaskInv
  <2>5. CASE RecordFailure(s)
    BY <2>2, <2>5 DEF RecordFailure, IInv, TaskInv
  <2>6. CASE RecordVerifying(s)
    BY <2>2, <2>6 DEF RecordVerifying, IInv, TaskInv
  <2>7. CASE SettleExecution(s)
    BY <2>2, <2>7 DEF SettleExecution, IInv, TaskInv
  <2>8. CASE \/ ModelEnds(s) \/ RegisterApproval(s) \/ DispatchExecution(s)
             \/ \E e \in Executions, level \in RiskLevel, enabled \in BOOLEAN :
                  PlanTool(s, e, level, enabled)
             \/ \E outcome \in {"receipt", "invalid", "error"} : ReceiveOutcome(s, outcome)
    BY <2>8 DEF ModelEnds, RegisterApproval, DispatchExecution, PlanTool,
      ReceiveOutcome
  <2> QED
    BY <1>1, <2>1, <2>3, <2>4, <2>5, <2>6, <2>7, <2>8 DEF TurnStep
<1>2. ASSUME NEW s \in Sessions, SessionStep(s)
      PROVE  [Machine!MachineNext]_(Machine!machineVars)
  <2>1. CASE RejectDropped(s)
    <3>1. /\ denying[s] \in Executions /\ state[denying[s]] = "WAITING_APPROVAL"
      BY <2>1, NoExecutionAssumption, RejectionOwnsRow DEF RejectDropped, IInv,
        TaskInv
    <3>2. \/ Commit(denying[s], version[denying[s]], "CANCELLED")
          \/ UNCHANGED <<state, version, events>>
      BY <2>1 DEF RejectDropped, Decide
    <3> QED
      BY <3>1, <3>2, CommitIsTransition
      DEF Machine!ToolExecutionState, Machine!AllowedTransitions
  <2>2. CASE ~RejectDropped(s)
    BY <1>2, <2>2 DEF SessionStep, StartTurn, RespondApproval, AbortTurn,
      CancelPending,
         Disconnect, Reconnect, SweepSession, RejectLost
  <2> QED
    BY <2>1, <2>2
<1>3. ASSUME NEW e \in Executions, EnvironmentStep(e)
      PROVE  [Machine!MachineNext]_(Machine!machineVars)
  BY <1>3 DEF EnvironmentStep, ExpireApproval, ExecutorAccepts, ExecutorActs
<1>4. CASE Restart
  BY <1>4 DEF Restart
<1>5. CASE UNCHANGED vars
  BY <1>5 DEF vars
<1> QED
  BY <1>1, <1>2, <1>3, <1>4, <1>5 DEF Next

\* The rows the store keeps, written under a version check alone, only ever
\* move as the domain's state machine allows.
THEOREM Refinement == Spec => ImplementsMachine
<1>1. Init => Machine!MachineInit
  BY DEF Init
<1>2. IInv /\ [Next]_vars => [Machine!MachineNext]_(Machine!machineVars)
  BY StepRefinesMachine
<1> QED
  BY <1>1, <1>2, InductiveInvariant, PTL DEF Spec, ImplementsMachine,
    Machine!MachineSpec

=============================================================================
