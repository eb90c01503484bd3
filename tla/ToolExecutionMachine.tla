------------------------ MODULE ToolExecutionMachine ------------------------
(***************************************************************************)
(* What one tool execution promises: the state machine of                  *)
(* domain/tool_execution.py.  An execution is a frozen value; every change *)
(* is a call of ToolExecution.transition, which refuses a stale version    *)
(* and a move the table does not list, adds one to the version and appends *)
(* an event.  The database row that carries the execution (ToolLifecycle)  *)
(* is shown to implement this module although the store itself never looks *)
(* at the table.                                                           *)
(***************************************************************************)
EXTENDS Naturals, Sequences

CONSTANT Executions

VARIABLES
  state,    \* state[e]: the state of execution e, ABSENT before it is planned
  version,  \* version[e]: its optimistic-locking version
  events    \* events[e]: the states it has been in, oldest first

machineVars == <<state, version, events>>

ToolExecutionState ==
  { "PLANNED", "WAITING_APPROVAL", "QUEUED", "RUNNING", "VERIFYING",
    "SUCCEEDED", "FAILED", "CANCELLED", "ROLLING_BACK", "ROLLED_BACK" }

AllowedTransitions ==
  [ PLANNED          |-> {"WAITING_APPROVAL", "QUEUED", "CANCELLED"},
    WAITING_APPROVAL |-> {"QUEUED", "CANCELLED"},
    QUEUED           |-> {"RUNNING", "CANCELLED", "FAILED"},
    RUNNING          |-> {"VERIFYING", "CANCELLED", "FAILED"},
    VERIFYING        |-> {"SUCCEEDED", "FAILED", "ROLLING_BACK"},
    FAILED           |-> {"ROLLING_BACK"},
    ROLLING_BACK     |-> {"ROLLED_BACK", "FAILED"},
    SUCCEEDED        |-> {},
    CANCELLED        |-> {},
    ROLLED_BACK      |-> {} ]

Terminal == {st \in ToolExecutionState : AllowedTransitions[st] = {}}

-----------------------------------------------------------------------------

MachineInit ==
  /\ state = [e \in Executions |-> "ABSENT"]
  /\ version = [e \in Executions |-> 0]
  /\ events = [e \in Executions |-> <<>>]

\* A fresh execution is PLANNED and takes its first policy transition in the
\* same call: QUEUED when the policy allows it, WAITING_APPROVAL otherwise.
PlanExecution(e, first) ==
  /\ state[e] = "ABSENT"
  /\ first \in {"QUEUED", "WAITING_APPROVAL"}
  /\ state' = [state EXCEPT ![e] = first]
  /\ version' = [version EXCEPT ![e] = 1]
  /\ events' = [events EXCEPT ![e] = <<"PLANNED", first>>]

\* ToolExecution.transition with the version the execution has.
Transition(e, to) ==
  /\ state[e] # "ABSENT"
  /\ to \in AllowedTransitions[state[e]]
  /\ state' = [state EXCEPT ![e] = to]
  /\ version' = [version EXCEPT ![e] = @ + 1]
  /\ events' = [events EXCEPT ![e] = Append(@, to)]

MachineNext ==
  \E e \in Executions :
    \/ \E first \in ToolExecutionState : PlanExecution(e, first)
    \/ \E to \in ToolExecutionState : Transition(e, to)

MachineSpec == MachineInit /\ [][MachineNext]_machineVars

=============================================================================
