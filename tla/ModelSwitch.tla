---------------------------- MODULE ModelSwitch ----------------------------
(***************************************************************************)
(* ModelSwitchCoordinator over the registered vLLM runtime, with the       *)
(* activity barrier it shares with the voice turns.                        *)
(*                                                                         *)
(* Only one of the two models fits on the GPU.  A request drains the turns *)
(* that use the model, stops it, starts the other one and checks that it   *)
(* serves.  If the large model cannot be brought up it is cleaned away and *)
(* the small one loaded instead.  Every process action may fail, or fail   *)
(* with an exception nobody expects (its evidence cannot be written), and  *)
(* the process may die on its own.  A process that does not become healthy *)
(* and does not end when it is told to is forgotten: it may go on, and     *)
(* listen, beside the one that is started next.                            *)
(*                                                                         *)
(* The initial states include those a server finds after a restart: any    *)
(* process may be running, whether or not it was recognised as ready.      *)
(***************************************************************************)
EXTENDS Naturals, Sequences

CONSTANTS
  Requests,   \* switch requests, numbered as they are made (bound: each is made once)
  Keys,       \* idempotency keys, numbered: the n-th request's is among the first n
  Turns,      \* voice turns that use the model
  Small, Large,
  CacheSize,  \* outcomes remembered; 256 in the code
  NoModel, NoRequest

Models == {Small, Large}

ASSUME ModelsAssumption ==
  /\ Small # Large /\ NoModel \notin Models /\ NoRequest \notin Requests
  /\ CacheSize \in Nat \ {0} /\ Requests \subseteq Nat /\ Keys \subseteq Nat

States ==
  {"UNLOADED", "LOADING", "HEALTH_CHECKING", "READY", "DRAINING", "UNLOADING", "FAILED"}

Outcomes == {"ready", "drain_timeout", "degraded"}

VARIABLES
  \* The coordinator.
  runtimes,   \* what it believes of each model
  results,    \* the outcomes it remembers, oldest first
  current,    \* the request that holds its lock
  pc,         \* where that request stands
  source,     \* the model it unloads, if any
  goal,       \* the model it loads now: the target, or the fallback
  \* The requests.
  wants,      \* target and key of each request that is not answered yet
  phase,
  \* The activity barrier.
  switching,
  turn,       \* "idle", "waiting" or "using", for each turn
  \* The machine.
  running,    \* the model whose process the PID file names and which lives
  stray,      \* the model of a process that lives and that no file names
  port        \* who listens: nobody ("closed"), that process ("own") or "stray"

machine == <<running, stray, port>>
coordinator == <<runtimes, results, current, pc, source, goal>>
vars == <<coordinator, wants, phase, switching, turn, machine>>

Steps == {"free", "drain", "unload", "stop", "prepare", "clean", "start", "health", "cleanup", "end"}

Ready == { m \in Models : runtimes[m] = "READY" }
Target == wants[current].target

\* The model that answers at the port.
Serves == CASE port = "own" -> running [] port = "stray" -> stray [] port = "closed" -> NoModel

\* _verify_health: the status file names the living process of this model, and
\* what answers at the port is this model.  (The file is written by the start
\* that ends well and is not modelled apart from that process.)
Healthy(m) == running = m /\ Serves = m

-----------------------------------------------------------------------------
Init ==
  /\ running \in Models \union {NoModel}
  /\ stray = NoModel \* (Bound: none is left from before.)
  /\ port \in IF running = NoModel THEN {"closed"} ELSE {"closed", "own"}
  \* observe_ready_model recognises a ready process, or it does not.
  /\ \E recognised \in BOOLEAN :
       runtimes = [m \in Models |-> IF recognised /\ Healthy(m) THEN "READY" ELSE "UNLOADED"]
  /\ results = <<>>
  /\ current = NoRequest /\ pc = "free" /\ source = NoModel /\ goal = NoModel
  /\ wants = [r \in Requests |-> NoRequest]
  /\ phase = [r \in Requests |-> "new"]
  /\ switching = FALSE
  /\ turn = [t \in Turns |-> "idle"]

Becomes(m, state) == runtimes' = [runtimes EXCEPT ![m] = state]

Goes(step) == pc' = step /\ UNCHANGED <<results, current, wants, phase, switching, turn>>

\* The last CacheSize outcomes are remembered.
Remember(want, outcome) ==
  LET all == Append(results, [key |-> want.key, target |-> want.target, outcome |-> outcome])
  IN results' = SubSeq(all, IF Len(all) > CacheSize THEN 2 ELSE 1, Len(all))

\* The request is answered and the lock released.
Answer(r) ==
  /\ phase' = [phase EXCEPT ![r] = "answered"]
  /\ wants' = [wants EXCEPT ![r] = NoRequest]
  /\ current' = NoRequest /\ pc' = "free" /\ source' = NoModel /\ goal' = NoModel

\* finally: the barrier reopens, whatever happened.  An unexpected exception
\* leaves no outcome behind.
Finish(outcome) ==
  /\ IF outcome = "exception" THEN UNCHANGED results ELSE Remember(wants[current], outcome)
  /\ Answer(current)
  /\ switching' = FALSE
  /\ UNCHANGED turn

-----------------------------------------------------------------------------
(* Requests and turns. *)

Request(r, target, key) ==
  /\ phase[r] = "new" /\ key <= r
  /\ \A earlier \in Requests : earlier < r => phase[earlier] # "new"
  /\ wants' = [wants EXCEPT ![r] = [target |-> target, key |-> key]]
  /\ phase' = [phase EXCEPT ![r] = "queued"]
  /\ UNCHANGED <<coordinator, switching, turn, machine>>

\* Broken variant: an outcome counts only if it was for the same target.
KnownForTarget(want) ==
  { n \in DOMAIN results : results[n].key = want.key /\ results[n].target = want.target }

Known(want) == { n \in DOMAIN results : results[n].key = want.key }

\* The lock is free.  A known key is answered from memory - or refused, if it
\* named another target - and a model that is ready needs no switch.
Take(r) ==
  /\ phase[r] = "queued" /\ current = NoRequest
  /\ \/ /\ Known(wants[r]) # {}
        /\ Answer(r) /\ UNCHANGED <<runtimes, results, switching>>
     \/ /\ Known(wants[r]) = {} /\ wants[r].target \in Ready
        /\ Remember(wants[r], "ready")
        /\ Answer(r) /\ UNCHANGED <<runtimes, switching>>
     \/ /\ Known(wants[r]) = {} /\ wants[r].target \notin Ready
        /\ current' = r /\ pc' = "drain" /\ goal' = wants[r].target
        /\ source' \in IF Ready = {} THEN {NoModel} ELSE Ready
        /\ switching' = TRUE
        /\ UNCHANGED <<runtimes, results, phase, wants>>
  /\ UNCHANGED <<turn, machine>>

\* audio.input.start waits to be admitted.
Want(t) ==
  /\ turn[t] = "idle"
  /\ turn' = [turn EXCEPT ![t] = "waiting"]
  /\ UNCHANGED <<coordinator, wants, phase, switching, machine>>

\* acquire_usage
Admit(t) ==
  /\ turn[t] = "waiting" /\ ~switching
  /\ turn' = [turn EXCEPT ![t] = "using"]
  /\ UNCHANGED <<coordinator, wants, phase, switching, machine>>

\* release_usage
Release(t) ==
  /\ turn[t] = "using"
  /\ turn' = [turn EXCEPT ![t] = "idle"]
  /\ UNCHANGED <<coordinator, wants, phase, switching, machine>>

-----------------------------------------------------------------------------
(* Draining. *)

\* Broken variant: turns that are still running are not waited for.
DrainedAnyway ==
  /\ pc = "drain"
  /\ IF source = NoModel THEN Goes("prepare") /\ UNCHANGED runtimes
     ELSE Goes("unload") /\ Becomes(source, "DRAINING")
  /\ UNCHANGED <<source, goal, machine>>

\* begin_switch returns: no turn uses the model.
Drained ==
  /\ pc = "drain" /\ \A t \in Turns : turn[t] # "using"
  /\ IF source = NoModel THEN Goes("prepare") /\ UNCHANGED runtimes
     ELSE Goes("unload") /\ Becomes(source, "DRAINING")
  /\ UNCHANGED <<source, goal, machine>>

\* Broken variant: the barrier stays closed when the drain times out.
DrainTimeoutClosed ==
  /\ pc = "drain"
  /\ Remember(wants[current], "drain_timeout") /\ Answer(current)
  /\ UNCHANGED <<runtimes, switching, turn, machine>>

\* Broken variant: the timeout is looked at when a turn ends.
DrainTimeoutIdle ==
  /\ pc = "drain" /\ \A t \in Turns : turn[t] # "using"
  /\ Finish("drain_timeout")
  /\ UNCHANGED <<runtimes, machine>>

\* begin_switch times out, even if the last turn ends at that moment.
DrainTimeout ==
  /\ pc = "drain"
  /\ Finish("drain_timeout")
  /\ UNCHANGED <<runtimes, machine>>

Unload ==
  /\ pc = "unload"
  /\ Becomes(source, "UNLOADING") /\ Goes("stop")
  /\ UNCHANGED <<source, goal, machine>>

-----------------------------------------------------------------------------
(* The registered runtime: how a command of its scripts ends - by itself,    *)
(* well or not, or stopped for being "late" - and what comes of it: "ok",    *)
(* "failed" (RuntimeProcessError) or "exception".                            *)

Commands == {"done", "failed", "late"}
Results == {"ok", "failed", "exception"}

\* _execute: there is no result without evidence.
Executed(command, recorded) ==
  IF ~recorded THEN "exception" ELSE IF command = "done" THEN "ok" ELSE "failed"

\* stop-vllm.sh stops only the model it is told to expect, and only a process
\* the PID file names; with none there is nothing to stop.
StopScript(m, command) ==
  \/ /\ command = "done" /\ running \in {m, NoModel}
     /\ running' = NoModel
     /\ port' = IF port = "own" THEN "closed" ELSE port
     /\ UNCHANGED stray
  \/ command # "done" /\ UNCHANGED machine

\* stop: afterwards nobody may listen.
StopProcess(m, result) ==
  \E command \in Commands, recorded, recordedAgain \in BOOLEAN :
    /\ StopScript(m, command)
    /\ result = IF Executed(command, recorded) = "ok" /\ port' # "closed"
                THEN Executed("failed", recordedAgain)
                ELSE Executed(command, recorded)

\* start-vllm.sh refuses while the process of the PID file lives.  It waits
\* until anybody answers at the port.  A process that does not become healthy
\* is told to end and its PID file removed, whether it ends or not; if the
\* script itself is stopped the process goes on.  (Bound: one stray process.)
StartScript(m, command) ==
  \/ /\ command = "done" /\ running = NoModel
     /\ running' = m
     /\ port' = IF port = "stray" THEN port ELSE "own"
     /\ UNCHANGED stray
  \/ /\ command = "failed" /\ running = NoModel /\ stray = NoModel
     /\ stray' = m /\ UNCHANGED <<running, port>>
  \/ /\ command = "late" /\ running = NoModel
     /\ running' = m /\ UNCHANGED <<stray, port>>
  \/ command # "done" /\ UNCHANGED machine

StartProcess(m, result) ==
  \E command \in Commands, recorded \in BOOLEAN :
    StartScript(m, command) /\ result = Executed(command, recorded)

\* Broken variant: what the start script found healthy is not looked at again.
HealthUnchecked(m, result) == UNCHANGED machine

\* health_check
HealthOf(m, result) == (result = "ok" => Healthy(m)) /\ UNCHANGED machine

\* Loading the model failed.  The large one is cleaned away, once, before the
\* small one is loaded instead; nothing replaces the small one.
GoalFails ==
  IF goal = Large THEN Becomes(goal, "UNLOADING") /\ Goes("cleanup")
  ELSE Becomes(goal, "FAILED") /\ Finish("degraded")

StopSource(result) ==
  /\ pc = "stop"
  /\ StopProcess(source, result)
  /\ \/ /\ result = "ok" /\ Becomes(source, "UNLOADED")
        /\ Goes("prepare") /\ UNCHANGED <<source, goal>>
     \/ result = "failed" /\ Becomes(source, "FAILED") /\ Finish("degraded")
     \/ result = "exception" /\ UNCHANGED runtimes /\ Finish("exception")

\* A failed target is cleaned first.  From a state that an earlier exception
\* left behind there is no transition to LOADING: InvalidTransition.
Prepare ==
  /\ pc = "prepare"
  /\ \/ /\ runtimes[goal] = "FAILED" /\ Becomes(goal, "UNLOADING")
        /\ Goes("clean") /\ UNCHANGED <<source, goal>>
     \/ /\ runtimes[goal] = "UNLOADED" /\ Becomes(goal, "LOADING")
        /\ Goes("start") /\ UNCHANGED <<source, goal>>
     \/ /\ runtimes[goal] \notin {"FAILED", "UNLOADED"}
        /\ UNCHANGED runtimes /\ Finish("exception")
  /\ UNCHANGED machine

Clean(result) ==
  /\ pc = "clean"
  /\ StopProcess(goal, result)
  /\ \/ /\ result = "ok" /\ Becomes(goal, "UNLOADED")
        /\ Goes("prepare") /\ UNCHANGED <<source, goal>>
     \/ result = "failed" /\ GoalFails /\ (goal = Large => UNCHANGED <<source, goal>>)
     \/ result = "exception" /\ UNCHANGED runtimes /\ Finish("exception")

Start(result) ==
  /\ pc = "start"
  /\ StartProcess(goal, result)
  /\ \/ /\ result = "ok" /\ Becomes(goal, "HEALTH_CHECKING")
        /\ Goes("health") /\ UNCHANGED <<source, goal>>
     \/ result = "failed" /\ GoalFails /\ (goal = Large => UNCHANGED <<source, goal>>)
     \/ result = "exception" /\ UNCHANGED runtimes /\ Finish("exception")

Health(result) ==
  /\ pc = "health"
  /\ HealthOf(goal, result)
  /\ \/ /\ result = "ok" /\ Becomes(goal, "READY")
        /\ Finish(IF goal = Target THEN "ready" ELSE "degraded")
     \/ result = "failed" /\ GoalFails /\ (goal = Large => UNCHANGED <<source, goal>>)
     \/ result = "exception" /\ UNCHANGED runtimes /\ Finish("exception")

\* Broken variant: the fallback is loaded even if the failed model may still
\* be there.
CleanupAnyway(result) ==
  /\ pc = "cleanup"
  /\ StopProcess(goal, result)
  /\ \/ /\ result # "exception"
        /\ Becomes(goal, IF result = "ok" THEN "UNLOADED" ELSE "FAILED")
        /\ Goes("prepare") /\ goal' = Small /\ source' = NoModel
     \/ result = "exception" /\ UNCHANGED runtimes /\ Finish("exception")

\* _cleanup_failed, then the fallback.
Cleanup(result) ==
  /\ pc = "cleanup"
  /\ StopProcess(goal, result)
  /\ \/ /\ result = "ok" /\ Becomes(goal, "UNLOADED")
        /\ Goes("prepare") /\ goal' = Small /\ source' = NoModel
     \/ result = "failed" /\ Becomes(goal, "FAILED") /\ Finish("degraded")
     \/ result = "exception" /\ UNCHANGED runtimes /\ Finish("exception")

\* A process dies.
Dies ==
  /\ running # NoModel
  /\ running' = NoModel /\ port' = IF port = "own" THEN "closed" ELSE port
  /\ UNCHANGED <<coordinator, wants, phase, switching, turn, stray>>

StrayDies ==
  /\ stray # NoModel
  /\ stray' = NoModel /\ port' = IF port = "stray" THEN "closed" ELSE port
  /\ UNCHANGED <<coordinator, wants, phase, switching, turn, running>>

\* A process that nobody waits for any more begins to listen.
Listens ==
  /\ port = "closed"
  /\ \/ running # NoModel /\ port' = "own"
     \/ stray # NoModel /\ port' = "stray"
  /\ UNCHANGED <<coordinator, wants, phase, switching, turn, running, stray>>

-----------------------------------------------------------------------------
Switch ==
  \/ \E r \in Requests : Take(r)
  \/ Drained \/ DrainTimeout \/ Unload \/ Prepare
  \/ \E result \in Results :
       StopSource(result) \/ Clean(result) \/ Start(result) \/ Health(result) \/ Cleanup(result)

Next ==
  \/ \E r \in Requests, m \in Models, k \in Keys : Request(r, m, k)
  \/ \E t \in Turns : Want(t) \/ Admit(t) \/ Release(t)
  \/ Switch
  \/ Dies \/ StrayDies \/ Listens

Spec == Init /\ [][Next]_vars

\* The event loop runs what is ready and every wait of the coordinator is
\* bounded by a timeout.  Nothing is assumed of the turns: one may use its
\* model for ever.
FairSpec == Spec /\ WF_vars(Switch) /\ \A t \in Turns : WF_vars(Admit(t))

-----------------------------------------------------------------------------
(* Properties. *)

TypeOK ==
  /\ runtimes \in [Models -> States]
  /\ \A n \in DOMAIN results : results[n] \in [key : Keys, target : Models, outcome : Outcomes]
  /\ Len(results) <= CacheSize
  /\ current \in Requests \union {NoRequest} /\ pc \in Steps
  /\ source \in Models \union {NoModel} /\ goal \in Models \union {NoModel}
  /\ wants \in [Requests -> [target : Models, key : Keys] \union {NoRequest}]
  /\ phase \in [Requests -> {"new", "queued", "answered"}]
  /\ switching \in BOOLEAN
  /\ turn \in [Turns -> {"idle", "waiting", "using"}]
  /\ running \in Models \union {NoModel} /\ stray \in Models \union {NoModel}
  /\ port # "closed" => Serves # NoModel

\* The coordinator never believes both models ready, whatever failed before.
OneReady == \A m, n \in Ready : m = n

\* No model changes state while a turn uses it: an admitted turn keeps its
\* model until it releases it.
TurnsKeepTheirModel ==
  [][(\E t \in Turns : turn[t] = "using") => UNCHANGED runtimes]_vars

\* A model becomes ready only while the process started for it lives and the
\* model answers at the port, whatever else was left running.
ReadyIsServed ==
  [][\A m \in Models : runtimes[m] # "READY" /\ runtimes'[m] = "READY" => Healthy(m)]_vars

\* docs/architecture.md: in a switch to the large model, cleanup failure
\* prevents the fallback load.
FallbackNeedsCleanup ==
  [][current # NoRequest /\ Target = Large /\ runtimes[Small] = "UNLOADED" /\ runtimes'[Small] = "LOADING"
       => runtimes[Large] = "UNLOADED"]_vars

\* A key that is remembered is never executed again: it has one outcome.
KeysAreRememberedOnce ==
  \A i, j \in DOMAIN results : results[i].key = results[j].key => i = j

\* Every request is answered, even if some turn never ends.
SwitchesSettle == \A r \in Requests : phase[r] = "queued" ~> phase[r] = "answered"

\* Every turn that waits at the barrier is admitted.
TurnsAreAdmitted == \A t \in Turns : turn[t] = "waiting" ~> turn[t] = "using"

\* What the coordinator believes and remembers is consistent, whatever failed
\* before.
SwitchIsSound == TypeOK /\ OneReady /\ KeysAreRememberedOnce

=============================================================================
