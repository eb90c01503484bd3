---------------------------- MODULE ModelRouter ----------------------------
(***************************************************************************)
(* ModelRouter.decide: which model answers a request, and what must be     *)
(* done to the runtimes first.  It is a pure function of what the switch   *)
(* coordinator believes of the runtimes; its decisions are judged here by  *)
(* carrying their actions out on those runtimes.                           *)
(***************************************************************************)
EXTENDS ModelSwitch, FiniteSets

\* A voice turn or a task that needs the GPU has priority; the memory is granted.
Gates == [priority : BOOLEAN, admitted : BOOLEAN]
RouteRequests == [able : SUBSET Models, reasons : {"none", "some", "explicit"}]

Decision(disposition, target, actions) ==
  [disposition |-> disposition, target |-> target, actions |-> actions]

Failed(m) == runtimes[m] = "FAILED"
InTransition ==
  \E m \in Models : runtimes[m] \in {"LOADING", "HEALTH_CHECKING", "DRAINING", "UNLOADING"}

\* _apply_capability_gate: a request the large model is not validated for
\* goes to the small one, if that is.
Gate(request, desired) ==
  IF desired \in request.able THEN desired
  ELSE IF desired = Large /\ Small \in request.able THEN Small ELSE NoModel

Act(op, m) == [op |-> op, model |-> m]

\* What makes the target serve, in this order.
Actions(target) ==
  LET unload == IF Failed(Large) /\ target = Small THEN <<Act("unload_failed", Large)>> ELSE <<>>
      drain == IF Ready \ {target} = {} THEN <<>>
               ELSE LET other == CHOOSE m \in Ready \ {target} : TRUE
                    IN <<Act("drain", other), Act("unload", other)>>
      clean == IF Failed(target) THEN <<Act("unload_failed", target)>> ELSE <<>>
      load == IF target \in Ready THEN <<>> ELSE <<Act("load", target), Act("health_check", target)>>
  IN IF target \in Ready THEN unload ELSE unload \o drain \o clean \o load

\* The end of decide: a target that is ready is used, unless a failed large
\* model must be cleaned away; otherwise the models are switched.
Route(target) ==
  Decision(IF target \in Ready /\ ~(Failed(Large) /\ target = Small) THEN "ROUTE" ELSE "SWITCH",
           target, Actions(target))

\* After a failed large model the small one is taken, of which the gate has
\* not been asked.
Fallback(target) == IF target = Large /\ Failed(Large) THEN Small ELSE target

\* Broken variant: a switch under way is not waited for.
DecideInTransition(request, gates) ==
  LET desired == IF request.reasons # "none" /\ gates.admitted THEN Large ELSE Small
      able == Gate(request, desired)
  IN IF able = NoModel THEN Decision("REJECT", NoModel, <<>>) ELSE Route(Fallback(able))

Decide(request, gates) ==
  LET wanted == IF request.reasons # "none" THEN Large ELSE Small
      granted == IF wanted = Large /\ ~gates.admitted THEN Small ELSE wanted
      able == Gate(request, granted)
  IN CASE Cardinality(Ready) > 1 -> Decision("REJECT", NoModel, <<>>)
       [] Cardinality(Ready) <= 1 /\ InTransition -> Decision("DEFER", NoModel, <<>>)
       [] OTHER ->
            IF wanted = Large /\ gates.priority THEN Decision("DEFER", Large, <<>>)
            ELSE IF wanted = Large /\ ~gates.admitted /\ request.reasons = "explicit"
                 THEN Decision("REJECT", Large, <<>>)
            ELSE IF able = NoModel THEN Decision("REJECT", NoModel, <<>>)
            ELSE Route(Fallback(able))

-----------------------------------------------------------------------------
(* Carrying a decision out. *)

\* The states an action takes a model through; the first must be its state.
Path(op) ==
  CASE op = "drain" -> <<"READY", "DRAINING">>
    [] op = "unload" -> <<"DRAINING", "UNLOADING", "UNLOADED">>
    [] op = "unload_failed" -> <<"FAILED", "UNLOADING", "UNLOADED">>
    [] op = "load" -> <<"UNLOADED", "LOADING", "HEALTH_CHECKING">>
    [] op = "health_check" -> <<"HEALTH_CHECKING", "READY">>

\* The runtimes after an action: one that does not apply to a runtime, or that
\* loads a model while another one is up, leaves it broken.
Carried(before, a) ==
  LET path == Path(a.op)
      legal == /\ before[a.model] = path[1]
               /\ a.op = "load" => \A m \in Models \ {a.model} : before[m] \in {"UNLOADED", "FAILED"}
  IN [before EXCEPT ![a.model] = IF legal THEN path[Len(path)] ELSE "broken"]

\* The runtimes after all of them.
After(actions) ==
  LET states[n \in 0..Len(actions)] ==
        IF n = 0 THEN runtimes ELSE Carried(states[n - 1], actions[n])
  IN states[Len(actions)]

\* Every decision can be carried out on the runtimes it was made for: its
\* actions are legal transitions, never bring up a second model, and leave
\* the target, and only the target, ready.  The target is able to serve the
\* request, unless the large model failed and the small one replaces it.
RoutesAreServable ==
  \A request \in RouteRequests, gates \in Gates :
    LET d == Decide(request, gates)
    IN d.disposition \in {"ROUTE", "SWITCH"} =>
         LET after == After(d.actions)
         IN /\ { m \in Models : after[m] = "READY" } = {d.target}
            /\ \A m \in Models : after[m] # "broken"
            /\ d.target \in request.able \/ (d.target = Small /\ Failed(Large))

=============================================================================
