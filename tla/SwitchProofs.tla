---------------------------- MODULE SwitchProofs ----------------------------
(***************************************************************************)
(* What holds of the model switch for any requests, keys and turns, and    *)
(* any number of remembered outcomes.                                      *)
(*                                                                         *)
(* That at most one model is believed ready is not inductive.  It follows  *)
(* from what the place of the request that holds the lock says of the      *)
(* runtimes and of the turns (PlaceInv): once the turns have drained no    *)
(* model is ready, and none uses one, until the goal becomes healthy.      *)
(*                                                                         *)
(* The router is judged by what its actions do: each of its rules is shown *)
(* to leave its target ready, on whatever the runtimes are believed to be. *)
(***************************************************************************)
EXTENDS ModelRouter, SequenceTheorems, FiniteSetTheorems, TLAPS

Entry == [key : Keys, target : Models, outcome : Outcomes]
Asked == [target : Models, key : Keys]

\* The outcomes remembered, and what is asked for.
MemoryInv ==
  /\ results \in Seq(Entry) /\ KeysAreRememberedOnce
  /\ \A r \in Requests : phase[r] = "queued" => wants[r] \in Asked

\* The request that holds the lock.
HolderInv ==
  /\ pc = "free" <=> current = NoRequest
  /\ pc # "free" =>
       /\ phase[current] = "queued" /\ Known(wants[current]) = {}
       /\ goal \in Models /\ switching

PlaceInv ==
  /\ pc \notin {"free", "drain"} =>
       /\ \A m \in Models : runtimes[m] # "READY"
       /\ \A t \in Turns : turn[t] # "using"
  /\ pc = "drain" => source \in IF Ready = {} THEN {NoModel} ELSE Ready
  /\ pc \in {"drain", "unload", "stop"} => goal = Target
  /\ pc \in {"unload", "stop"} => source \in Models
  /\ pc = "cleanup" => goal = Large
  /\ pc # "free" /\ goal # Target => Target = Large /\ runtimes[Large] = "UNLOADED"

MachineInv ==
  /\ running \in Models \union {NoModel} /\ stray \in Models \union {NoModel}
  /\ port \in {"closed", "own", "stray"}
  /\ port = "own" => running # NoModel
  /\ port = "stray" => stray # NoModel

SwitchInv == TypeOK /\ OneReady /\ MemoryInv /\ HolderInv /\ PlaceInv /\ MachineInv

\* The three properties of a step.
StepIsSound ==
  /\ (\E t \in Turns : turn[t] = "using") => UNCHANGED runtimes
  /\ \A m \in Models : runtimes[m] # "READY" /\ runtimes'[m] = "READY" => Healthy(m)
  /\ current # NoRequest /\ Target = Large /\ runtimes[Small] = "UNLOADED" /\ runtimes'[Small] = "LOADING"
       => runtimes[Large] = "UNLOADED"

-----------------------------------------------------------------------------
(* What the steps are made of. *)

\* An outcome is remembered under a key that is not known.
LEMMA RememberKeeps ==
  ASSUME results \in Seq(Entry), Len(results) <= CacheSize, KeysAreRememberedOnce,
         NEW want \in Asked, NEW outcome \in Outcomes, Known(want) = {}, Remember(want, outcome)
  PROVE  results' \in Seq(Entry) /\ Len(results') <= CacheSize /\ KeysAreRememberedOnce'
<1> DEFINE e == [key |-> want.key, target |-> want.target, outcome |-> outcome]
           all == Append(results, e)
           first == IF Len(all) > CacheSize THEN 2 ELSE 1
<1>1. e \in Entry /\ e.key = want.key
  BY DEF Entry, Asked
<1>2. results' = SubSeq(all, first, Len(all))
  BY DEF Remember
<1> HIDE DEF e
<1>3. /\ all \in Seq(Entry) /\ Len(all) = Len(results) + 1 /\ Len(results) \in Nat
      /\ \A n \in 1..Len(results) : all[n] = results[n]
      /\ all[Len(results) + 1] = e
  BY <1>1, AppendProperties, LenProperties
<1>4. DOMAIN results = 1..Len(results)
  BY LenProperties
<1>5. \A i, j \in 1..Len(all) : all[i].key = all[j].key => i = j
  <2>1. \A n \in 1..Len(results) : results[n].key # want.key
    BY <1>4 DEF Known
  <2> SUFFICES ASSUME NEW i \in 1..Len(all), NEW j \in 1..Len(all), all[i].key = all[j].key
               PROVE i = j
    OBVIOUS
  <2>2. CASE i \in 1..Len(results) /\ j \in 1..Len(results)
    BY <1>3, <1>4, <2>2 DEF KeysAreRememberedOnce
  <2>3. CASE i = Len(results) + 1 \/ j = Len(results) + 1
    BY <1>1, <1>3, <2>1, <2>3
  <2> QED
    BY <1>3, <2>2, <2>3
<1> HIDE DEF all
<1>6. first \in {1, 2} /\ (Len(all) > CacheSize => first = 2)
  OBVIOUS
<1> HIDE DEF first
<1>7. \A n \in first..Len(all) : all[n] \in Entry
  BY <1>3, <1>6, ElementOfSeq
<1>8. /\ results' \in Seq(Entry)
      /\ Len(results') = IF first <= Len(all) THEN Len(all) - first + 1 ELSE 0
      /\ \A n \in 1..(Len(all) - first + 1) : results'[n] = all[first + n - 1]
  BY <1>2, <1>3, <1>6, <1>7, SubSeqProperties
<1>9. Len(results') <= CacheSize
  BY <1>3, <1>6, <1>8, ModelsAssumption
<1>10. KeysAreRememberedOnce'
  <2>1. DOMAIN results' = 1..Len(results')
    BY <1>8, LenProperties
  <2> SUFFICES ASSUME NEW i \in 1..Len(results'), NEW j \in 1..Len(results'),
                      results'[i].key = results'[j].key
               PROVE i = j
    BY <2>1 DEF KeysAreRememberedOnce
  <2>2. /\ results'[i] = all[first + i - 1] /\ first + i - 1 \in 1..Len(all)
        /\ results'[j] = all[first + j - 1] /\ first + j - 1 \in 1..Len(all)
    BY <1>3, <1>6, <1>8
  <2>3. first + i - 1 = first + j - 1
    BY <1>5, <2>2
  <2> QED
    BY <1>6, <2>3
<1> QED
  BY <1>8, <1>9, <1>10

\* The request with the lock is answered, and the barrier opens.
LEMMA FinishKeeps ==
  ASSUME SwitchInv, pc # "free", NEW outcome \in Outcomes \union {"exception"}, Finish(outcome),
         runtimes' \in [Models -> States], OneReady', MachineInv'
  PROVE  SwitchInv'
<1> USE DEF SwitchInv
<1>1. /\ phase' = [phase EXCEPT ![current] = "answered"]
      /\ wants' = [wants EXCEPT ![current] = NoRequest]
      /\ current' = NoRequest /\ pc' = "free" /\ source' = NoModel /\ goal' = NoModel
      /\ switching' = FALSE /\ UNCHANGED turn
  BY DEF Finish, Answer
<1>2. current \in Requests /\ wants[current] \in Asked /\ Known(wants[current]) = {}
  BY DEF HolderInv, TypeOK, MemoryInv
<1>3. results' \in Seq(Entry) /\ Len(results') <= CacheSize /\ KeysAreRememberedOnce'
  <2>1. CASE outcome = "exception"
    BY <2>1 DEF Finish, MemoryInv, TypeOK, KeysAreRememberedOnce
  <2>2. CASE outcome # "exception"
    BY <1>2, <2>2, RememberKeeps DEF Finish, MemoryInv, TypeOK
  <2> QED
    BY <2>1, <2>2
<1>4. \A n \in DOMAIN results' : results'[n] \in Entry
  BY <1>3, LenProperties, ElementOfSeq
<1>5. TypeOK'
  <2>1. port' # "closed" => Serves' # NoModel
    BY DEF MachineInv, Serves
  <2> QED
    BY <1>1, <1>3, <1>4, <2>1 DEF TypeOK, MachineInv, Steps, Entry
<1>6. MemoryInv'
  BY <1>1, <1>3 DEF MemoryInv, TypeOK
<1> QED
  BY <1>1, <1>5, <1>6 DEF HolderInv, PlaceInv

\* It goes on; no model is ready and no turn uses one.
LEMMA GoesKeeps ==
  ASSUME SwitchInv, pc # "free", NEW step \in Steps \ {"free", "drain"}, Goes(step),
         runtimes' \in [Models -> States], \A m \in Models : runtimes'[m] # "READY",
         \A t \in Turns : turn[t] # "using",
         source' \in Models \union {NoModel}, goal' \in Models,
         step \in {"unload", "stop"} => goal' = Target /\ source' \in Models,
         step = "cleanup" => goal' = Large,
         goal' # Target => Target = Large /\ runtimes'[Large] = "UNLOADED",
         MachineInv'
  PROVE  SwitchInv'
<1> USE DEF SwitchInv
<1>1. pc' = step /\ UNCHANGED <<results, current, wants, phase, switching, turn>>
  BY DEF Goes
<1>2. TypeOK'
  <2>1. port' # "closed" => Serves' # NoModel
    BY DEF MachineInv, Serves
  <2> QED
    BY <1>1, <2>1 DEF TypeOK, MachineInv
<1>3. MemoryInv' /\ HolderInv'
  BY <1>1 DEF MemoryInv, KeysAreRememberedOnce, HolderInv, Known
<1>4. OneReady' /\ PlaceInv'
  BY <1>1 DEF OneReady, Ready, PlaceInv, Target
<1> QED
  BY <1>2, <1>3, <1>4

\* Whatever the scripts do and the processes become, the PID file and the port
\* agree.
LEMMA MachineKeeps ==
  ASSUME MachineInv, NEW m \in Models, NEW result \in Results,
         StopProcess(m, result) \/ StartProcess(m, result) \/ HealthOf(m, result)
  PROVE  MachineInv'
<1> USE ModelsAssumption DEF MachineInv, machine
<1>1. ASSUME NEW command \in Commands, StopScript(m, command) PROVE MachineInv'
  BY <1>1 DEF StopScript
<1>2. ASSUME NEW command \in Commands, StartScript(m, command) PROVE MachineInv'
  BY <1>2 DEF StartScript
<1>3. CASE HealthOf(m, result)
  BY <1>3 DEF HealthOf
<1> QED
  BY <1>1, <1>2, <1>3 DEF StopProcess, StartProcess

-----------------------------------------------------------------------------
(* The steps. *)

LEMMA SwitchStarts == Init => SwitchInv
<1> SUFFICES ASSUME Init PROVE SwitchInv
  OBVIOUS
<1> USE ModelsAssumption DEF Init
<1>1. TypeOK
  <2>1. Len(results) <= CacheSize /\ \A n \in DOMAIN results : results[n] \in Entry
    BY EmptySeq, LenProperties
  <2>2. runtimes \in [Models -> States]
    BY DEF States
  <2>3. port # "closed" => Serves # NoModel
    BY DEF Serves
  <2> QED
    BY <2>1, <2>2, <2>3 DEF TypeOK, Steps, Entry
<1>2. OneReady
  BY DEF OneReady, Ready, Healthy
<1>3. MemoryInv
  BY EmptySeq DEF MemoryInv, KeysAreRememberedOnce
<1>4. HolderInv /\ PlaceInv /\ MachineInv
  BY DEF HolderInv, PlaceInv, MachineInv
<1> QED
  BY <1>1, <1>2, <1>3, <1>4 DEF SwitchInv

LEMMA RequestKeeps ==
  ASSUME SwitchInv, NEW r \in Requests, NEW m \in Models, NEW k \in Keys, Request(r, m, k)
  PROVE  SwitchInv' /\ UNCHANGED runtimes
<1> USE ModelsAssumption DEF SwitchInv, coordinator, machine
<1>1. /\ phase[r] = "new" /\ phase' = [phase EXCEPT ![r] = "queued"]
      /\ wants' = [wants EXCEPT ![r] = [target |-> m, key |-> k]]
      /\ UNCHANGED <<runtimes, results, current, pc, source, goal, switching, turn,
                     running, stray, port>>
  BY DEF Request
<1>2. pc # "free" => current \in Requests /\ current # r
  BY <1>1 DEF HolderInv, TypeOK
<1>3. [target |-> m, key |-> k] \in Asked
  BY DEF Asked
<1>4. TypeOK'
  BY <1>1, <1>3 DEF TypeOK, Serves, Asked
<1>5. MemoryInv'
  BY <1>1, <1>3 DEF MemoryInv, TypeOK, KeysAreRememberedOnce
<1>6. pc # "free" => wants'[current] = wants[current] /\ phase'[current] = phase[current]
  BY <1>1, <1>2 DEF TypeOK
<1>7. HolderInv' /\ PlaceInv'
  BY <1>1, <1>6 DEF HolderInv, PlaceInv, Known, Target, Ready
<1> QED
  BY <1>1, <1>4, <1>5, <1>7 DEF OneReady, Ready, MachineInv

LEMMA TakeKeeps ==
  ASSUME SwitchInv, NEW r \in Requests, Take(r)
  PROVE  SwitchInv' /\ UNCHANGED runtimes
<1> USE ModelsAssumption DEF SwitchInv, machine
<1>1. phase[r] = "queued" /\ current = NoRequest /\ pc = "free" /\ wants[r] \in Asked
      /\ UNCHANGED <<turn, running, stray, port>>
  BY DEF Take, HolderInv, MemoryInv
<1>2. MachineInv' /\ (port' # "closed" => Serves' # NoModel)
  BY <1>1 DEF MachineInv, Serves
<1>3. ASSUME Answer(r), UNCHANGED <<runtimes, switching>>,
             results' \in Seq(Entry), Len(results') <= CacheSize, KeysAreRememberedOnce'
      PROVE SwitchInv'
  <2>1. /\ phase' = [phase EXCEPT ![r] = "answered"]
        /\ wants' = [wants EXCEPT ![r] = NoRequest]
        /\ current' = NoRequest /\ pc' = "free" /\ source' = NoModel /\ goal' = NoModel
    BY <1>3 DEF Answer
  <2>2. \A n \in DOMAIN results' : results'[n] \in Entry
    BY <1>3, LenProperties, ElementOfSeq
  <2>3. TypeOK'
    BY <1>1, <1>2, <1>3, <2>1, <2>2 DEF TypeOK, Steps, Entry
  <2>4. MemoryInv'
    BY <1>3, <2>1 DEF MemoryInv, TypeOK
  <2> QED
    BY <1>1, <1>2, <1>3, <2>1, <2>3, <2>4 DEF HolderInv, PlaceInv, OneReady, Ready
<1>4. CASE Known(wants[r]) # {}
  BY <1>3, <1>4 DEF Take, MemoryInv, TypeOK, KeysAreRememberedOnce
<1>5. CASE Known(wants[r]) = {} /\ wants[r].target \in Ready
  <2>1. Remember(wants[r], "ready") /\ Answer(r) /\ UNCHANGED <<runtimes, switching>>
    BY <1>5 DEF Take
  <2>2. results' \in Seq(Entry) /\ Len(results') <= CacheSize /\ KeysAreRememberedOnce'
    BY <1>1, <1>5, <2>1, RememberKeeps DEF MemoryInv, TypeOK, Outcomes
  <2> QED
    BY <1>3, <2>1, <2>2
<1>6. CASE Known(wants[r]) = {} /\ wants[r].target \notin Ready
  <2>1. /\ current' = r /\ pc' = "drain" /\ goal' = wants[r].target
        /\ source' \in IF Ready = {} THEN {NoModel} ELSE Ready
        /\ switching' = TRUE
        /\ UNCHANGED <<runtimes, results, phase, wants>>
    BY <1>6 DEF Take
  <2>2. goal' \in Models /\ source' \in Models \union {NoModel}
    BY <1>1, <2>1 DEF Asked, Ready
  <2>3. TypeOK'
    BY <1>1, <1>2, <2>1, <2>2 DEF TypeOK, Steps
  <2>4. HolderInv'
    BY <1>1, <1>6, <2>1, <2>2 DEF HolderInv, Known
  <2>5. PlaceInv'
    BY <2>1 DEF PlaceInv, Ready, Target
  <2> QED
    BY <1>2, <2>1, <2>3, <2>4, <2>5 DEF OneReady, Ready, MemoryInv, KeysAreRememberedOnce
<1> QED
  BY <1>4, <1>5, <1>6 DEF Take

LEMMA TurnKeeps ==
  ASSUME SwitchInv, NEW t \in Turns, Want(t) \/ Admit(t) \/ Release(t)
  PROVE  SwitchInv' /\ UNCHANGED runtimes
<1> USE ModelsAssumption DEF SwitchInv, coordinator, machine
<1>1. /\ UNCHANGED <<runtimes, results, current, pc, source, goal, wants, phase, switching,
                     running, stray, port>>
      /\ turn' \in [Turns -> {"idle", "waiting", "using"}]
  BY DEF Want, Admit, Release, TypeOK
<1>2. \A u \in Turns : turn'[u] = "using" => turn[u] = "using" \/ ~switching
  BY DEF Want, Admit, Release, TypeOK
<1>3. TypeOK'
  BY <1>1 DEF TypeOK, Serves
<1>4. HolderInv' /\ PlaceInv'
  BY <1>1, <1>2 DEF HolderInv, PlaceInv, Known, Target, Ready
<1> QED
  BY <1>1, <1>3, <1>4 DEF OneReady, Ready, MemoryInv, KeysAreRememberedOnce, MachineInv

LEMMA MachineMoves ==
  ASSUME SwitchInv, Dies \/ StrayDies \/ Listens
  PROVE  SwitchInv' /\ UNCHANGED runtimes
<1> USE ModelsAssumption DEF SwitchInv, coordinator
<1>1. UNCHANGED <<runtimes, results, current, pc, source, goal, wants, phase, switching, turn>>
  BY DEF Dies, StrayDies, Listens
<1>2. MachineInv'
  BY DEF Dies, StrayDies, Listens, MachineInv
<1>3. TypeOK'
  BY <1>1, <1>2 DEF TypeOK, Serves, MachineInv
<1> QED
  BY <1>1, <1>2, <1>3
  DEF OneReady, Ready, MemoryInv, KeysAreRememberedOnce, HolderInv, PlaceInv, Known, Target

\* A model is taken down, or taken for failed.
LEMMA DownIsSound ==
  ASSUME SwitchInv, \A t \in Turns : turn[t] # "using",
         NEW m \in Models, NEW state \in States \ {"READY", "LOADING"}, Becomes(m, state)
  PROVE  /\ StepIsSound /\ runtimes' \in [Models -> States]
         /\ \A n \in Models : runtimes'[n] = IF n = m THEN state ELSE runtimes[n]
<1>1. /\ runtimes' \in [Models -> States]
      /\ \A n \in Models : runtimes'[n] = IF n = m THEN state ELSE runtimes[n]
  BY DEF Becomes, SwitchInv, TypeOK
<1> QED
  BY <1>1 DEF StepIsSound, Models

LEMMA StayingIsSound == UNCHANGED runtimes => StepIsSound
BY DEF StepIsSound

LEMMA DrainKeeps ==
  ASSUME SwitchInv, Drained \/ DrainTimeout
  PROVE  SwitchInv' /\ StepIsSound
<1> USE ModelsAssumption DEF SwitchInv
<1>1. pc = "drain" /\ goal = Target /\ goal \in Models
      /\ source \in IF Ready = {} THEN {NoModel} ELSE Ready
  BY DEF Drained, DrainTimeout, PlaceInv, HolderInv
<1>2. ASSUME UNCHANGED machine PROVE MachineInv'
  BY <1>2 DEF machine, MachineInv
<1>3. CASE DrainTimeout
  <2>1. Finish("drain_timeout") /\ UNCHANGED <<runtimes, machine>>
    BY <1>3 DEF DrainTimeout
  <2> QED
    BY <1>1, <1>2, <2>1, FinishKeeps, StayingIsSound DEF Outcomes, TypeOK, OneReady, Ready
<1>4. CASE Drained /\ source = NoModel
  <2>1. /\ Goes("prepare") /\ UNCHANGED <<runtimes, source, goal, machine>>
        /\ \A t \in Turns : turn[t] # "using"
    BY <1>4 DEF Drained
  <2>2. \A m \in Models : runtimes[m] # "READY"
    BY <1>1, <1>4 DEF Ready
  <2>3. "prepare" \in Steps \ {"free", "drain"}
    BY DEF Steps
  <2> QED
    BY <1>1, <1>2, <2>1, <2>2, <2>3, GoesKeeps, StayingIsSound DEF TypeOK
<1>5. CASE Drained /\ source # NoModel
  <2>1. /\ Goes("unload") /\ Becomes(source, "DRAINING") /\ UNCHANGED <<source, goal, machine>>
        /\ \A t \in Turns : turn[t] # "using"
    BY <1>5 DEF Drained
  <2>2. source \in Models /\ \A m \in Models : runtimes[m] = "READY" => m = source
    BY <1>1, <1>5 DEF Ready, OneReady
  <2>3. /\ StepIsSound /\ runtimes' \in [Models -> States]
        /\ \A n \in Models : runtimes'[n] = IF n = source THEN "DRAINING" ELSE runtimes[n]
    BY <2>1, <2>2, DownIsSound DEF States
  <2>4. "unload" \in Steps \ {"free", "drain"}
    BY DEF Steps
  <2> QED
    BY <1>1, <1>2, <2>1, <2>2, <2>3, <2>4, GoesKeeps DEF TypeOK
<1> QED
  BY <1>3, <1>4, <1>5

\* A step in which the switch ends, or goes on, with a model taken down.
LEMMA DownKeeps ==
  ASSUME SwitchInv, pc \notin {"free", "drain"}, MachineInv',
         NEW m \in Models, NEW state \in States \ {"READY", "LOADING"}, Becomes(m, state)
  PROVE  /\ StepIsSound
         /\ \A outcome \in Outcomes : Finish(outcome) => SwitchInv'
         /\ \A step \in Steps \ {"free", "drain"} :
              /\ Goes(step)
              /\ source' \in Models \union {NoModel} /\ goal' \in Models
              /\ step \in {"unload", "stop"} => goal' = Target /\ source' \in Models
              /\ step = "cleanup" => goal' = Large
              /\ goal' # Target =>
                   Target = Large /\ IF m = Large THEN state = "UNLOADED"
                                                  ELSE runtimes[Large] = "UNLOADED"
              => SwitchInv'
<1> USE DEF SwitchInv
<1>1. \A t \in Turns : turn[t] # "using"
  BY DEF PlaceInv
<1>2. /\ StepIsSound /\ runtimes' \in [Models -> States]
      /\ \A n \in Models : runtimes'[n] = IF n = m THEN state ELSE runtimes[n]
  BY <1>1, DownIsSound
<1>3. \A n \in Models : runtimes'[n] # "READY"
  BY <1>2 DEF PlaceInv
<1>4. OneReady' /\ Large \in Models
  BY <1>3 DEF OneReady, Ready, Models
<1>5. \A outcome \in Outcomes : Finish(outcome) => SwitchInv'
  BY <1>2, <1>4, FinishKeeps
<1>6. ASSUME NEW step \in Steps \ {"free", "drain"}, Goes(step),
             source' \in Models \union {NoModel}, goal' \in Models,
             step \in {"unload", "stop"} => goal' = Target /\ source' \in Models,
             step = "cleanup" => goal' = Large,
             goal' # Target =>
               Target = Large /\ IF m = Large THEN state = "UNLOADED"
                                              ELSE runtimes[Large] = "UNLOADED"
      PROVE SwitchInv'
  BY <1>1, <1>2, <1>3, <1>4, <1>6, GoesKeeps
<1> QED
  BY <1>2, <1>5, <1>6

\* An unexpected exception.
LEMMA ExceptionKeeps ==
  ASSUME SwitchInv, pc # "free", Finish("exception"), UNCHANGED runtimes, MachineInv'
  PROVE  SwitchInv' /\ StepIsSound
<1>1. runtimes' \in [Models -> States] /\ OneReady'
  BY DEF SwitchInv, TypeOK, OneReady, Ready
<1> QED
  BY <1>1, FinishKeeps, StayingIsSound

LEMMA LoadingFailureKeeps ==
  ASSUME SwitchInv, pc \in {"clean", "start", "health"}, GoalFails,
         goal = Large => UNCHANGED <<source, goal>>, MachineInv'
  PROVE  SwitchInv' /\ StepIsSound
<1> USE ModelsAssumption DEF SwitchInv
<1>1. goal \in Models /\ pc \notin {"free", "drain"}
  BY DEF HolderInv
<1>2. CASE goal = Large
  <2>1. Becomes(goal, "UNLOADING") /\ Goes("cleanup") /\ UNCHANGED <<source, goal>> /\ goal = Target
    BY <1>1, <1>2 DEF GoalFails, PlaceInv
  <2>2. "UNLOADING" \in States \ {"READY", "LOADING"} /\ "cleanup" \in Steps \ {"free", "drain"}
    BY DEF States, Steps
  <2> QED
    BY <1>1, <1>2, <2>1, <2>2, DownKeeps DEF TypeOK
<1>3. CASE goal # Large
  <2>1. Becomes(goal, "FAILED") /\ Finish("degraded")
    BY <1>3 DEF GoalFails
  <2>2. "FAILED" \in States \ {"READY", "LOADING"} /\ "degraded" \in Outcomes
    BY DEF States, Outcomes
  <2> QED
    BY <1>1, <2>1, <2>2, DownKeeps
<1> QED
  BY <1>2, <1>3

LEMMA StopKeeps ==
  ASSUME SwitchInv, NEW result \in Results, Unload \/ StopSource(result)
  PROVE  SwitchInv' /\ StepIsSound
<1> USE ModelsAssumption DEF SwitchInv
<1>1. pc \in {"unload", "stop"} /\ source \in Models /\ goal = Target /\ goal \in Models
  BY DEF Unload, StopSource, PlaceInv, HolderInv
<1>2. MachineInv'
  BY <1>1, MachineKeeps DEF Unload, StopSource, MachineInv, machine
<1>3. /\ {"UNLOADING", "UNLOADED", "FAILED"} \subseteq States \ {"READY", "LOADING"}
      /\ {"stop", "prepare"} \subseteq Steps \ {"free", "drain"} /\ "degraded" \in Outcomes
  BY DEF States, Steps, Outcomes
<1>4. CASE Unload
  <2>1. Becomes(source, "UNLOADING") /\ Goes("stop") /\ UNCHANGED <<source, goal>>
    BY <1>4 DEF Unload
  <2> QED
    BY <1>1, <1>2, <1>3, <2>1, DownKeeps
<1>5. CASE StopSource(result) /\ result = "ok"
  <2>1. Becomes(source, "UNLOADED") /\ Goes("prepare") /\ UNCHANGED <<source, goal>>
    BY <1>5 DEF StopSource
  <2> QED
    BY <1>1, <1>2, <1>3, <2>1, DownKeeps
<1>6. CASE StopSource(result) /\ result = "failed"
  <2>1. Becomes(source, "FAILED") /\ Finish("degraded")
    BY <1>6 DEF StopSource
  <2> QED
    BY <1>1, <1>2, <1>3, <2>1, DownKeeps
<1>7. CASE StopSource(result) /\ result = "exception"
  BY <1>1, <1>2, <1>7, ExceptionKeeps DEF StopSource
<1> QED
  BY <1>4, <1>5, <1>6, <1>7 DEF Results

LEMMA PrepareKeeps ==
  ASSUME SwitchInv, Prepare
  PROVE  SwitchInv' /\ StepIsSound
<1> USE ModelsAssumption DEF SwitchInv
<1>1. pc = "prepare" /\ goal \in Models /\ \A t \in Turns : turn[t] # "using"
  BY DEF Prepare, HolderInv, PlaceInv
<1>2. MachineInv'
  BY DEF Prepare, MachineInv, machine
<1>3. CASE runtimes[goal] = "FAILED"
  <2>1. Becomes(goal, "UNLOADING") /\ Goes("clean") /\ UNCHANGED <<source, goal>>
    BY <1>3 DEF Prepare
  <2>2. "UNLOADING" \in States \ {"READY", "LOADING"} /\ "clean" \in Steps \ {"free", "drain"}
    BY DEF States, Steps
  <2>3. goal # Target => Target = Large /\ goal # Large /\ runtimes[Large] = "UNLOADED"
    BY <1>1 DEF PlaceInv
  <2> QED
    BY <1>1, <1>2, <2>1, <2>2, <2>3, DownKeeps DEF TypeOK
<1>4. CASE runtimes[goal] = "UNLOADED"
  <2>1. Becomes(goal, "LOADING") /\ Goes("start") /\ UNCHANGED <<source, goal>>
    BY <1>4 DEF Prepare
  <2>2. "LOADING" \in States \ {"READY"} /\ "start" \in Steps \ {"free", "drain"}
    BY DEF States, Steps
  <2>3. /\ goal # Target => Target = Large /\ goal # Large /\ runtimes[Large] = "UNLOADED"
        /\ goal \in {Small, Large}
    BY <1>1 DEF PlaceInv, Models
  <2>4. /\ runtimes' \in [Models -> States]
        /\ \A n \in Models : runtimes'[n] = IF n = goal THEN "LOADING" ELSE runtimes[n]
    BY <2>1, <2>2 DEF Becomes, TypeOK
  <2>5. /\ \A n \in Models : runtimes'[n] # "READY"
        /\ runtimes'[Large] = "UNLOADED" \/ goal = Target
    BY <1>1, <2>3, <2>4 DEF PlaceInv, Models
  <2>6. StepIsSound
    BY <1>1, <2>3, <2>4, <2>5 DEF StepIsSound, Models
  <2> QED
    BY <1>1, <1>2, <2>1, <2>2, <2>3, <2>4, <2>5, <2>6, GoesKeeps DEF TypeOK
<1>5. CASE runtimes[goal] \notin {"FAILED", "UNLOADED"}
  BY <1>1, <1>2, <1>5, ExceptionKeeps DEF Prepare
<1> QED
  BY <1>3, <1>4, <1>5

LEMMA CleanKeeps ==
  ASSUME SwitchInv, NEW result \in Results, Clean(result)
  PROVE  SwitchInv' /\ StepIsSound
<1> USE ModelsAssumption DEF SwitchInv
<1>1. pc = "clean" /\ goal \in Models
  BY DEF Clean, HolderInv
<1>2. MachineInv'
  BY <1>1, MachineKeeps DEF Clean
<1>3. CASE result = "ok"
  <2>1. Becomes(goal, "UNLOADED") /\ Goes("prepare") /\ UNCHANGED <<source, goal>>
    BY <1>3 DEF Clean
  <2>2. "UNLOADED" \in States \ {"READY", "LOADING"} /\ "prepare" \in Steps \ {"free", "drain"}
    BY DEF States, Steps
  <2>3. goal # Target => Target = Large /\ runtimes[Large] = "UNLOADED"
    BY <1>1 DEF PlaceInv
  <2> QED
    BY <1>1, <1>2, <2>1, <2>2, <2>3, DownKeeps DEF TypeOK
<1>4. CASE result = "failed"
  BY <1>1, <1>2, <1>4, LoadingFailureKeeps DEF Clean
<1>5. CASE result = "exception"
  BY <1>1, <1>2, <1>5, ExceptionKeeps DEF Clean
<1> QED
  BY <1>3, <1>4, <1>5 DEF Results

LEMMA StartKeeps ==
  ASSUME SwitchInv, NEW result \in Results, Start(result)
  PROVE  SwitchInv' /\ StepIsSound
<1> USE ModelsAssumption DEF SwitchInv
<1>1. pc = "start" /\ goal \in Models
  BY DEF Start, HolderInv
<1>2. MachineInv'
  BY <1>1, MachineKeeps DEF Start
<1>3. CASE result = "ok"
  <2>1. Becomes(goal, "HEALTH_CHECKING") /\ Goes("health") /\ UNCHANGED <<source, goal>>
    BY <1>3 DEF Start
  <2>2. "HEALTH_CHECKING" \in States \ {"READY", "LOADING"} /\ "health" \in Steps \ {"free", "drain"}
    BY DEF States, Steps
  <2>3. goal # Target => Target = Large /\ goal # Large /\ runtimes[Large] = "UNLOADED"
    BY <1>1 DEF PlaceInv
  <2> QED
    BY <1>1, <1>2, <2>1, <2>2, <2>3, DownKeeps DEF TypeOK
<1>4. CASE result = "failed"
  BY <1>1, <1>2, <1>4, LoadingFailureKeeps DEF Start
<1>5. CASE result = "exception"
  BY <1>1, <1>2, <1>5, ExceptionKeeps DEF Start
<1> QED
  BY <1>3, <1>4, <1>5 DEF Results

LEMMA HealthKeeps ==
  ASSUME SwitchInv, NEW result \in Results, Health(result)
  PROVE  SwitchInv' /\ StepIsSound
<1> USE ModelsAssumption DEF SwitchInv
<1>1. pc = "health" /\ goal \in Models
  BY DEF Health, HolderInv
<1>2. MachineInv'
  BY <1>1, MachineKeeps DEF Health
<1>3. CASE result = "ok"
  <2>1. Becomes(goal, "READY") /\ Finish(IF goal = Target THEN "ready" ELSE "degraded") /\ Healthy(goal)
    BY <1>3 DEF Health, HealthOf
  <2>2. /\ runtimes' \in [Models -> States]
        /\ \A n \in Models : runtimes'[n] = IF n = goal THEN "READY" ELSE runtimes[n]
    BY <2>1 DEF Becomes, TypeOK, States
  <2>3. /\ \A n \in Models : runtimes[n] # "READY"
        /\ \A t \in Turns : turn[t] # "using"
    BY <1>1 DEF PlaceInv
  <2>4. OneReady'
    BY <2>2, <2>3 DEF OneReady, Ready
  <2>5. StepIsSound
    BY <2>1, <2>2, <2>3 DEF StepIsSound, Models
  <2> QED
    BY <1>1, <1>2, <2>1, <2>2, <2>4, <2>5, FinishKeeps DEF Outcomes
<1>4. CASE result = "failed"
  BY <1>1, <1>2, <1>4, LoadingFailureKeeps DEF Health
<1>5. CASE result = "exception"
  BY <1>1, <1>2, <1>5, ExceptionKeeps DEF Health
<1> QED
  BY <1>3, <1>4, <1>5 DEF Results

LEMMA CleanupKeeps ==
  ASSUME SwitchInv, NEW result \in Results, Cleanup(result)
  PROVE  SwitchInv' /\ StepIsSound
<1> USE ModelsAssumption DEF SwitchInv
<1>1. pc = "cleanup" /\ goal = Large /\ goal \in Models /\ goal = Target
  BY DEF Cleanup, HolderInv, PlaceInv
<1>2. MachineInv'
  BY <1>1, MachineKeeps DEF Cleanup
<1>3. CASE result = "ok"
  <2>1. Becomes(goal, "UNLOADED") /\ Goes("prepare") /\ goal' = Small /\ source' = NoModel
    BY <1>3 DEF Cleanup
  <2>2. /\ "UNLOADED" \in States \ {"READY", "LOADING"} /\ "prepare" \in Steps \ {"free", "drain"}
        /\ Small \in Models
    BY DEF States, Steps, Models
  <2> QED
    BY <1>1, <1>2, <2>1, <2>2, DownKeeps
<1>4. CASE result = "failed"
  <2>1. Becomes(goal, "FAILED") /\ Finish("degraded")
    BY <1>4 DEF Cleanup
  <2>2. "FAILED" \in States \ {"READY", "LOADING"} /\ "degraded" \in Outcomes
    BY DEF States, Outcomes
  <2> QED
    BY <1>1, <1>2, <2>1, <2>2, DownKeeps
<1>5. CASE result = "exception"
  BY <1>1, <1>2, <1>5, ExceptionKeeps DEF Cleanup
<1> QED
  BY <1>3, <1>4, <1>5 DEF Results

LEMMA SwitchStep == SwitchInv /\ [Next]_vars => SwitchInv' /\ StepIsSound
<1> SUFFICES ASSUME SwitchInv, [Next]_vars PROVE SwitchInv' /\ StepIsSound
  OBVIOUS
<1>1. CASE Switch
  BY <1>1, TakeKeeps, StayingIsSound, DrainKeeps, StopKeeps, PrepareKeeps, CleanKeeps,
     StartKeeps, HealthKeeps, CleanupKeeps DEF Switch, Results
<1>2. CASE UNCHANGED vars
  BY <1>2 DEF vars, coordinator, machine, SwitchInv, TypeOK, Serves, OneReady, Ready, MemoryInv,
              KeysAreRememberedOnce, HolderInv, PlaceInv, Known, Target, MachineInv, StepIsSound
<1> QED
  BY <1>1, <1>2, RequestKeeps, TurnKeeps, MachineMoves, StayingIsSound DEF Next

LEMMA SwitchAlways == Spec => []SwitchInv
<1>1. SwitchInv /\ [Next]_vars => SwitchInv'
  BY SwitchStep
<1> QED
  BY <1>1, SwitchStarts, PTL DEF Spec

\* The coordinator never believes two models ready, and remembers a key once.
THEOREM SwitchSoundness == Spec => []SwitchIsSound
<1>1. SwitchInv => SwitchIsSound
  BY DEF SwitchInv, SwitchIsSound, MemoryInv
<1> QED
  BY <1>1, SwitchAlways, PTL

\* No model changes state under a turn that uses it.
THEOREM TurnStability == Spec => TurnsKeepTheirModel
<1>1. SwitchInv /\ [Next]_vars => [(\E t \in Turns : turn[t] = "using") => UNCHANGED runtimes]_vars
  BY SwitchStep DEF StepIsSound
<1> QED
  BY <1>1, SwitchAlways, PTL DEF Spec, TurnsKeepTheirModel

\* A model becomes ready only while its own process answers at the port.
THEOREM ReadyMeansServed == Spec => ReadyIsServed
<1>1. SwitchInv /\ [Next]_vars =>
        [\A m \in Models : runtimes[m] # "READY" /\ runtimes'[m] = "READY" => Healthy(m)]_vars
  BY SwitchStep DEF StepIsSound
<1> QED
  BY <1>1, SwitchAlways, PTL DEF Spec, ReadyIsServed

\* The small model replaces the large one only after its cleanup.
THEOREM CleanFallback == Spec => FallbackNeedsCleanup
<1>1. SwitchInv /\ [Next]_vars =>
        [current # NoRequest /\ Target = Large /\ runtimes[Small] = "UNLOADED" /\ runtimes'[Small] = "LOADING"
           => runtimes[Large] = "UNLOADED"]_vars
  BY SwitchStep DEF StepIsSound
<1> QED
  BY <1>1, SwitchAlways, PTL DEF Spec, FallbackNeedsCleanup

-----------------------------------------------------------------------------
(* The router. *)

\* A decision has at most five actions: After has a value, and it is the one
\* that carrying them out one by one gives.
LEMMA AfterFollows ==
  ASSUME NEW actions, Len(actions) \in 0..5
  PROVE  \E s : /\ s[0] = runtimes
                /\ \A n \in 1..Len(actions) : s[n] = Carried(s[n - 1], actions[n])
                /\ After(actions) = s[Len(actions)]
<1> DEFINE len == Len(actions)
           Of(f) == [n \in 0..len |-> IF n = 0 THEN runtimes ELSE Carried(f[n - 1], actions[n])]
           r1 == Carried(runtimes, actions[1])
           r2 == Carried(r1, actions[2])
           r3 == Carried(r2, actions[3])
           r4 == Carried(r3, actions[4])
           r5 == Carried(r4, actions[5])
           g == [n \in 0..len |-> IF n = 0 THEN runtimes ELSE IF n = 1 THEN r1 ELSE IF n = 2 THEN r2
                                  ELSE IF n = 3 THEN r3 ELSE IF n = 4 THEN r4 ELSE r5]
           states == CHOOSE f : f = Of(f)
<1>1. len \in 0..5
  OBVIOUS
<1> HIDE DEF len
<1>2. g = Of(g)
  <2>1. ASSUME NEW n \in 0..len
        PROVE  g[n] = IF n = 0 THEN runtimes ELSE Carried(g[n - 1], actions[n])
    <3>1. n \in {0, 1, 2, 3, 4, 5} /\ (n # 0 => n - 1 \in 0..len)
      BY <1>1
    <3>2. g[n] = IF n = 0 THEN runtimes ELSE IF n = 1 THEN r1 ELSE IF n = 2 THEN r2
                                  ELSE IF n = 3 THEN r3 ELSE IF n = 4 THEN r4 ELSE r5
      OBVIOUS
    <3>3. n # 0 => g[n - 1] = IF n = 1 THEN runtimes ELSE IF n = 2 THEN r1 ELSE IF n = 3 THEN r2
                                  ELSE IF n = 4 THEN r3 ELSE r4
      BY <3>1
    <3> HIDE DEF g
    <3> QED
      BY <3>1, <3>2, <3>3
  <2> HIDE DEF r1, r2, r3, r4, r5
  <2> QED
    BY <2>1
<1> HIDE DEF g, r1, r2, r3, r4, r5
<1>3. states = Of(states)
  <2> HIDE DEF Of
  <2> QED
    BY <1>2
<1> HIDE DEF states
<1>4. states[0] = runtimes
  BY <1>1, <1>3
<1>5. ASSUME NEW n \in 1..len PROVE states[n] = Carried(states[n - 1], actions[n])
  <2>1. n \in 0..len /\ n # 0
    BY <1>1
  <2> QED
    BY <1>3, <2>1
<1>6. After(actions) = states[len]
  BY DEF After, states, len
<1> QED
  BY <1>4, <1>5, <1>6 DEF len

LEMMA AfterEach ==
  /\ After(<<>>) = runtimes
  /\ \A a : After(<<a>>) = Carried(runtimes, a)
  /\ \A a, b : After(<<a, b>>) = Carried(Carried(runtimes, a), b)
  /\ \A a, b, c : After(<<a, b, c>>) = Carried(Carried(Carried(runtimes, a), b), c)
  /\ \A a, b, c, d : After(<<a, b, c, d>>) = Carried(Carried(Carried(Carried(runtimes, a), b), c), d)
  /\ \A a, b, c, d, e :
       After(<<a, b, c, d, e>>) = Carried(Carried(Carried(Carried(Carried(runtimes, a), b), c), d), e)
<1>1. ASSUME NEW t, Len(t) \in 0..5
      PROVE  \E s : /\ s[0] = runtimes /\ After(t) = s[Len(t)]
                    /\ Len(t) >= 1 => s[1] = Carried(s[0], t[1])
                    /\ Len(t) >= 2 => s[2] = Carried(s[1], t[2])
                    /\ Len(t) >= 3 => s[3] = Carried(s[2], t[3])
                    /\ Len(t) >= 4 => s[4] = Carried(s[3], t[4])
                    /\ Len(t) >= 5 => s[5] = Carried(s[4], t[5])
  <2>1. PICK s : /\ s[0] = runtimes /\ After(t) = s[Len(t)]
                 /\ \A n \in 1..Len(t) : s[n] = Carried(s[n - 1], t[n])
    BY <1>1, AfterFollows
  <2>2. WITNESS s
  <2> QED
    BY <1>1, <2>1
<1>2. After(<<>>) = runtimes
  BY <1>1
<1>3. ASSUME NEW a PROVE After(<<a>>) = Carried(runtimes, a)
  BY <1>1
<1>4. ASSUME NEW a, NEW b PROVE After(<<a, b>>) = Carried(Carried(runtimes, a), b)
  <2>1. PICK s : s[0] = runtimes /\ After(<<a, b>>) = s[2]
                 /\ s[1] = Carried(s[0], a) /\ s[2] = Carried(s[1], b)
    <3>1. Len(<<a, b>>) = 2
      OBVIOUS
    <3> QED
      BY <1>1, <3>1
  <2> QED
    BY <2>1
<1>5. ASSUME NEW a, NEW b, NEW c PROVE After(<<a, b, c>>) = Carried(Carried(Carried(runtimes, a), b), c)
  <2>1. PICK s : s[0] = runtimes /\ After(<<a, b, c>>) = s[3]
                 /\ s[1] = Carried(s[0], a) /\ s[2] = Carried(s[1], b) /\ s[3] = Carried(s[2], c)
    <3>1. Len(<<a, b, c>>) = 3
      OBVIOUS
    <3> QED
      BY <1>1, <3>1
  <2> QED
    BY <2>1
<1>6. ASSUME NEW a, NEW b, NEW c, NEW d
      PROVE  After(<<a, b, c, d>>) = Carried(Carried(Carried(Carried(runtimes, a), b), c), d)
  <2>1. PICK s : s[0] = runtimes /\ After(<<a, b, c, d>>) = s[4]
                 /\ s[1] = Carried(s[0], a) /\ s[2] = Carried(s[1], b) /\ s[3] = Carried(s[2], c) /\ s[4] = Carried(s[3], d)
    <3> DEFINE t == <<a, b, c, d>>
    <3>1. Len(t) = 4 /\ t[1] = a /\ t[2] = b /\ t[3] = c /\ t[4] = d
      OBVIOUS
    <3> HIDE DEF t
    <3>2. Len(t) \in 0..5
      BY <3>1
    <3>3. PICK s : /\ s[0] = runtimes /\ After(t) = s[Len(t)]
                   /\ Len(t) >= 1 => s[1] = Carried(s[0], t[1])
                   /\ Len(t) >= 2 => s[2] = Carried(s[1], t[2])
                   /\ Len(t) >= 3 => s[3] = Carried(s[2], t[3])
                   /\ Len(t) >= 4 => s[4] = Carried(s[3], t[4])
                   /\ Len(t) >= 5 => s[5] = Carried(s[4], t[5])
      BY <1>1, <3>2
    <3>4. After(t) = s[4] /\ s[1] = Carried(s[0], a) /\ s[2] = Carried(s[1], b) /\ s[3] = Carried(s[2], c) /\ s[4] = Carried(s[3], d)
      BY <3>1, <3>3
    <3> QED
      BY <3>3, <3>4 DEF t
  <2> QED
    BY <2>1
<1>7. ASSUME NEW a, NEW b, NEW c, NEW d, NEW e
      PROVE  After(<<a, b, c, d, e>>) = Carried(Carried(Carried(Carried(Carried(runtimes, a), b), c), d), e)
  <2>1. PICK s : s[0] = runtimes /\ After(<<a, b, c, d, e>>) = s[5]
                 /\ s[1] = Carried(s[0], a) /\ s[2] = Carried(s[1], b) /\ s[3] = Carried(s[2], c) /\ s[4] = Carried(s[3], d) /\ s[5] = Carried(s[4], e)
    <3> DEFINE t == <<a, b, c, d, e>>
    <3>1. Len(t) = 5 /\ t[1] = a /\ t[2] = b /\ t[3] = c /\ t[4] = d /\ t[5] = e
      OBVIOUS
    <3> HIDE DEF t
    <3>2. Len(t) \in 0..5
      BY <3>1
    <3>3. PICK s : /\ s[0] = runtimes /\ After(t) = s[Len(t)]
                   /\ Len(t) >= 1 => s[1] = Carried(s[0], t[1])
                   /\ Len(t) >= 2 => s[2] = Carried(s[1], t[2])
                   /\ Len(t) >= 3 => s[3] = Carried(s[2], t[3])
                   /\ Len(t) >= 4 => s[4] = Carried(s[3], t[4])
                   /\ Len(t) >= 5 => s[5] = Carried(s[4], t[5])
      BY <1>1, <3>2
    <3>4. After(t) = s[5] /\ s[1] = Carried(s[0], a) /\ s[2] = Carried(s[1], b) /\ s[3] = Carried(s[2], c) /\ s[4] = Carried(s[3], d) /\ s[5] = Carried(s[4], e)
      BY <3>1, <3>3
    <3> QED
      BY <3>3, <3>4 DEF t
  <2> QED
    BY <2>1
<1> QED
  BY <1>2, <1>3, <1>4, <1>5, <1>6, <1>7

\* What each action is for.
Legal ==
  { <<"drain", "READY", "DRAINING">>, <<"unload", "DRAINING", "UNLOADED">>,
    <<"unload_failed", "FAILED", "UNLOADED">>, <<"load", "UNLOADED", "HEALTH_CHECKING">>,
    <<"health_check", "HEALTH_CHECKING", "READY">> }

\* A legal action takes its model to the end of the action's path.
LEMMA CarriedLegally ==
  ASSUME NEW before \in [Models -> States], NEW m \in Models, NEW op, NEW from, NEW to,
         <<op, from, to>> \in Legal, before[m] = from,
         op = "load" => \A k \in Models \ {m} : before[k] \in {"UNLOADED", "FAILED"}
  PROVE  /\ Carried(before, Act(op, m)) = [before EXCEPT ![m] = to]
         /\ Carried(before, Act(op, m)) \in [Models -> States]
<1> DEFINE path == Path(op)
<1>1. path[1] = from /\ path[Len(path)] = to /\ to \in States
  BY DEF Path, Legal, States
<1> HIDE DEF path
<1>2. Carried(before, Act(op, m)) = [before EXCEPT ![m] = to]
  BY <1>1 DEF Carried, path, Act
<1> QED
  BY <1>1, <1>2

\* A concatenation is known by its elements.
LEMMA Joined ==
  ASSUME NEW S, NEW s \in Seq(S), NEW t \in Seq(S), NEW u \in Seq(S), Len(u) = Len(s) + Len(t),
         \A i \in 1..Len(s) : u[i] = s[i], \A i \in 1..Len(t) : u[Len(s) + i] = t[i]
  PROVE  s \o t = u
<1>1. s \o t \in Seq(S) /\ Len(s \o t) = Len(u)
  BY ConcatProperties
<1>2. ASSUME NEW i \in 1..Len(u) PROVE (s \o t)[i] = u[i]
  <2>1. (s \o t)[i] = IF i <= Len(s) THEN s[i] ELSE t[i - Len(s)]
    BY ConcatProperties
  <2>2. CASE i <= Len(s)
    BY <2>1, <2>2
  <2>3. CASE i > Len(s)
    <3> DEFINE j == i - Len(s)
    <3>1. j \in 1..Len(t) /\ Len(s) + j = i
      BY <2>3
    <3> QED
      BY <2>1, <2>3, <3>1
  <2> QED
    BY <2>2, <2>3
<1> QED
  BY <1>1, <1>2, SeqEqual

LEMMA JoinedActions ==
  /\ \A a, d, e : <<a>> \o <<>> \o <<>> \o <<d, e>> = <<a, d, e>>
  /\ \A d, e : <<>> \o <<>> \o <<>> \o <<d, e>> = <<d, e>>
  /\ \A a, b, d, e : <<>> \o <<a, b>> \o <<>> \o <<d, e>> = <<a, b, d, e>>
  /\ \A a, b, c, d, e : <<>> \o <<a, b>> \o <<c>> \o <<d, e>> = <<a, b, c, d, e>>
  /\ \A c, d, e : <<>> \o <<>> \o <<c>> \o <<d, e>> = <<c, d, e>>
  /\ \A a, c, d, e : <<a>> \o <<>> \o <<c>> \o <<d, e>> = <<a, c, d, e>>
<1> DEFINE Fits(S, s, t, u) ==
             /\ s \in Seq(S) /\ t \in Seq(S) /\ u \in Seq(S) /\ Len(u) = Len(s) + Len(t)
             /\ \A i \in 1..Len(s) : u[i] = s[i]
             /\ \A i \in 1..Len(t) : u[Len(s) + i] = t[i]
<1>1. ASSUME NEW S, NEW s, NEW t, NEW u, Fits(S, s, t, u) PROVE s \o t = u
  BY <1>1, Joined
<1>2. ASSUME NEW a, NEW b, NEW c PROVE <<a, b>> \o <<c>> = <<a, b, c>>
  <2>1. Fits({a, b, c}, <<a, b>>, <<c>>, <<a, b, c>>)
    OBVIOUS
  <2> HIDE DEF Fits
  <2> QED
    BY <1>1, <2>1
<1>3. ASSUME NEW a, NEW c PROVE <<a>> \o <<c>> = <<a, c>>
  <2>1. Fits({a, c}, <<a>>, <<c>>, <<a, c>>)
    <3> DEFINE s == <<a>> t == <<c>> u == <<a, c>>
    <3>1. s \in Seq({a, c}) /\ t \in Seq({a, c}) /\ u \in Seq({a, c})
      OBVIOUS
    <3>2. Len(s) = 1 /\ Len(t) = 1 /\ Len(u) = 2
      OBVIOUS
    <3>3. u[1] = s[1] /\ u[2] = t[1]
      OBVIOUS
    <3> HIDE DEF s, t, u
    <3>4. /\ \A i \in 1..Len(s) : u[i] = s[i]
          /\ \A i \in 1..Len(t) : u[Len(s) + i] = t[i]
      BY <3>2, <3>3
    <3>5. Fits({a, c}, s, t, u)
      BY <3>1, <3>2, <3>4
    <3> QED
      BY <3>5 DEF s, t, u
  <2> HIDE DEF Fits
  <2> QED
    BY <1>1, <2>1
<1>4. ASSUME NEW a, NEW d, NEW e PROVE <<a>> \o <<d, e>> = <<a, d, e>>
  <2>1. Fits({a, d, e}, <<a>>, <<d, e>>, <<a, d, e>>)
    OBVIOUS
  <2> HIDE DEF Fits
  <2> QED
    BY <1>1, <2>1
<1>5. ASSUME NEW a, NEW b, NEW d, NEW e PROVE <<a, b>> \o <<d, e>> = <<a, b, d, e>>
  <2>1. Fits({a, b, d, e}, <<a, b>>, <<d, e>>, <<a, b, d, e>>)
    OBVIOUS
  <2> HIDE DEF Fits
  <2> QED
    BY <1>1, <2>1
<1>6. ASSUME NEW a, NEW b, NEW c, NEW d, NEW e PROVE <<a, b, c>> \o <<d, e>> = <<a, b, c, d, e>>
  <2>1. Fits({a, b, c, d, e}, <<a, b, c>>, <<d, e>>, <<a, b, c, d, e>>)
    OBVIOUS
  <2> HIDE DEF Fits
  <2> QED
    BY <1>1, <2>1
<1>7. /\ \A s : <<>> \o <<s>> = <<s>> /\ <<s>> \o <<>> = <<s>>
      /\ \A s, t : <<>> \o <<s, t>> = <<s, t>> /\ <<s, t>> \o <<>> = <<s, t>>
      /\ <<>> \o <<>> = <<>>
  OBVIOUS
<1>8. ASSUME NEW a, NEW d, NEW e PROVE <<a>> \o <<>> \o <<>> \o <<d, e>> = <<a, d, e>>
  BY <1>4, <1>7
<1>9. ASSUME NEW a, NEW b, NEW d, NEW e PROVE <<>> \o <<a, b>> \o <<>> \o <<d, e>> = <<a, b, d, e>>
  BY <1>5, <1>7
<1>10. ASSUME NEW a, NEW b, NEW c, NEW d, NEW e
       PROVE <<>> \o <<a, b>> \o <<c>> \o <<d, e>> = <<a, b, c, d, e>>
  <2>1. <<>> \o <<a, b>> = <<a, b>> /\ <<a, b>> \o <<c>> = <<a, b, c>>
    BY <1>2, <1>7
  <2>2. <<a, b, c>> \o <<d, e>> = <<a, b, c, d, e>>
    BY <1>6
  <2> QED
    BY <2>1, <2>2
<1>11. ASSUME NEW c, NEW d, NEW e PROVE <<>> \o <<>> \o <<c>> \o <<d, e>> = <<c, d, e>>
  BY <1>4, <1>7
<1>12. ASSUME NEW a, NEW c, NEW d, NEW e PROVE <<a>> \o <<>> \o <<c>> \o <<d, e>> = <<a, c, d, e>>
  <2>1. <<a>> \o <<>> = <<a>> /\ <<a>> \o <<c>> = <<a, c>>
    BY <1>3, <1>7
  <2>2. <<a, c>> \o <<d, e>> = <<a, c, d, e>>
    BY <1>5
  <2> QED
    BY <2>1, <2>2
<1>13. ASSUME NEW d, NEW e PROVE <<>> \o <<>> \o <<>> \o <<d, e>> = <<d, e>>
  BY <1>7
<1> QED
  BY <1>8, <1>9, <1>10, <1>11, <1>12, <1>13

\* What is done for a target, case by case.
LEMMA ActionsOf ==
  ASSUME NEW t \in Models, NEW o \in Models, o # t, OneReady
  PROVE  /\ runtimes[t] = "READY" =>
              Actions(t) = IF t = Small /\ Failed(o) THEN <<Act("unload_failed", o)>> ELSE <<>>
         /\ runtimes[t] = "UNLOADED" /\ runtimes[o] = "READY" =>
              Actions(t) = <<Act("drain", o), Act("unload", o), Act("load", t), Act("health_check", t)>>
         /\ runtimes[t] = "UNLOADED" /\ runtimes[o] # "READY" =>
              Actions(t) = IF t = Small /\ Failed(o)
                           THEN <<Act("unload_failed", o), Act("load", t), Act("health_check", t)>>
                           ELSE <<Act("load", t), Act("health_check", t)>>
         /\ runtimes[t] = "FAILED" /\ runtimes[o] = "READY" =>
              Actions(t) = <<Act("drain", o), Act("unload", o), Act("unload_failed", t),
                             Act("load", t), Act("health_check", t)>>
         /\ runtimes[t] = "FAILED" /\ runtimes[o] # "READY" /\ t = Small =>
              Actions(t) = IF Failed(o)
                           THEN <<Act("unload_failed", o), Act("unload_failed", t), Act("load", t), Act("health_check", t)>>
                           ELSE <<Act("unload_failed", t), Act("load", t), Act("health_check", t)>>
<1>1. Models = {t, o} /\ Small # Large /\ (t = Small => o = Large) /\ (t = Large => o = Small)
  BY ModelsAssumption DEF Models
<1>2. t \in Ready <=> runtimes[t] = "READY"
  BY DEF Ready
<1>3. IF runtimes[o] = "READY" THEN Ready \ {t} = {o} ELSE Ready \ {t} = {}
  BY <1>1 DEF Ready
<1>4. runtimes[o] = "READY" => (CHOOSE m \in Ready \ {t} : TRUE) = o
  BY <1>3
<1>5. Failed(Large) /\ t = Small <=> t = Small /\ Failed(o)
  BY <1>1 DEF Failed
<1> DEFINE unload == IF t = Small /\ Failed(o) THEN <<Act("unload_failed", Large)>> ELSE <<>>
           drain == IF runtimes[o] = "READY" THEN <<Act("drain", o), Act("unload", o)>> ELSE <<>>
           clean == IF Failed(t) THEN <<Act("unload_failed", t)>> ELSE <<>>
           load == IF runtimes[t] = "READY" THEN <<>> ELSE <<Act("load", t), Act("health_check", t)>>
<1>6. Actions(t) = IF runtimes[t] = "READY" THEN unload ELSE unload \o drain \o clean \o load
  BY <1>2, <1>3, <1>4, <1>5 DEF Actions
<1>7. runtimes[t] = "READY" => runtimes[o] # "READY"
  BY DEF OneReady, Ready
<1> DEFINE ut == Act("unload_failed", t) uo == Act("unload_failed", o) dr == Act("drain", o)
           ul == Act("unload", o) ld == Act("load", t) hc == Act("health_check", t)
<1> HIDE DEF ut, uo, dr, ul, ld, hc
<1>8. /\ unload = IF t = Small /\ Failed(o) THEN <<uo>> ELSE <<>>
      /\ drain = IF runtimes[o] = "READY" THEN <<dr, ul>> ELSE <<>>
      /\ clean = IF Failed(t) THEN <<ut>> ELSE <<>>
      /\ load = IF runtimes[t] = "READY" THEN <<>> ELSE <<ld, hc>>
  BY <1>1 DEF ut, uo, dr, ul, ld, hc
<1> HIDE DEF unload, drain, clean, load
<1>9. CASE runtimes[t] = "READY"
  BY <1>6, <1>8, <1>9 DEF uo
<1>10. CASE runtimes[o] = "READY" /\ runtimes[t] # "READY"
  <2>1. ~Failed(o) /\ unload = <<>> /\ drain = <<dr, ul>> /\ load = <<ld, hc>>
    BY <1>8, <1>10 DEF Failed
  <2>2. CASE runtimes[t] = "FAILED"
    BY <1>6, JoinedActions, <1>8, <1>10, <2>1, <2>2 DEF Failed, dr, ul, ld, hc, ut
  <2>3. CASE runtimes[t] = "UNLOADED"
    BY <1>6, JoinedActions, <1>8, <1>10, <2>1, <2>3 DEF Failed, dr, ul, ld, hc
  <2> QED
    BY <1>10, <2>2, <2>3
<1>11. CASE runtimes[o] # "READY" /\ runtimes[t] # "READY"
  <2>1. drain = <<>> /\ load = <<ld, hc>>
    BY <1>8, <1>11
  <2>2. CASE runtimes[t] = "FAILED" /\ t = Small
    <3>1. clean = <<ut>> /\ Actions(t) = unload \o drain \o clean \o load
      BY <1>6, <1>8, <1>11, <2>2 DEF Failed
    <3>2. CASE Failed(o)
      <4>1. unload = <<uo>>
        BY <1>8, <2>2, <3>2
      <4>2. <<uo>> \o <<>> \o <<ut>> \o <<ld, hc>> = <<uo, ut, ld, hc>>
        BY JoinedActions
      <4>3. Actions(t) = <<uo, ut, ld, hc>>
        BY <2>1, <3>1, <4>1, <4>2
      <4> QED
        BY <1>11, <2>2, <3>2, <4>3 DEF uo, ld, hc, ut
    <3>3. CASE ~Failed(o)
      <4>1. unload = <<>>
        BY <1>8, <2>2, <3>3
      <4>2. Actions(t) = <<ut, ld, hc>>
        BY JoinedActions, <2>1, <3>1, <4>1
      <4> QED
        BY <1>11, <2>2, <3>3, <4>2 DEF ld, hc, ut
    <3> QED
      BY <3>2, <3>3
  <2>3. CASE runtimes[t] = "UNLOADED"
    BY <1>6, JoinedActions, <1>8, <1>11, <2>1, <2>3 DEF Failed, uo, ld, hc
  <2> QED
    BY <1>11, <2>2, <2>3
<1> QED
  BY <1>9, <1>10, <1>11

\* The actions for a target leave it ready, and the other model down.
LEMMA ActionsBringUp ==
  ASSUME runtimes \in [Models -> {"UNLOADED", "READY", "FAILED"}], OneReady,
         NEW t \in Models, NEW o \in Models, o # t, t = Large => ~Failed(t)
  PROVE  /\ After(Actions(t)) \in [Models -> States]
         /\ After(Actions(t))[t] = "READY" /\ After(Actions(t))[o] \in {"UNLOADED", "FAILED"}
<1> DEFINE At(f, x, y) == f \in [Models -> States] /\ f[t] = x /\ f[o] = y
           Serving(f) == At(f, "READY", "UNLOADED") \/ At(f, "READY", "FAILED")
<1>1. Models = {t, o} /\ Small # Large /\ (t = Small \/ t = Large)
  BY ModelsAssumption DEF Models
<1>2. ASSUME NEW f, NEW x, NEW y, At(f, x, y), NEW op, op # "load", NEW to, <<op, y, to>> \in Legal
      PROVE  At(Carried(f, Act(op, o)), x, to)
  BY <1>2, CarriedLegally
<1>3. ASSUME NEW f, NEW x, NEW y, At(f, x, y), NEW op, NEW to, <<op, x, to>> \in Legal,
             op = "load" => y \in {"UNLOADED", "FAILED"}
      PROVE  At(Carried(f, Act(op, t)), to, y)
  <2>1. Models \ {t} = {o}
    BY <1>1
  <2> QED
    BY <1>3, <2>1, CarriedLegally
<1>4. /\ <<"drain", "READY", "DRAINING">> \in Legal /\ <<"unload", "DRAINING", "UNLOADED">> \in Legal
      /\ <<"unload_failed", "FAILED", "UNLOADED">> \in Legal /\ <<"load", "UNLOADED", "HEALTH_CHECKING">> \in Legal
      /\ <<"health_check", "HEALTH_CHECKING", "READY">> \in Legal
  BY DEF Legal
<1> DEFINE Brought(f, y) ==
             At(Carried(Carried(f, Act("load", t)), Act("health_check", t)), "READY", y)
           Vacated(f) == Carried(Carried(f, Act("drain", o)), Act("unload", o))
           Cleaned(f, m) == Carried(f, Act("unload_failed", m))
<1> HIDE DEF At
<1>5. ASSUME NEW f, NEW y, y \in {"UNLOADED", "FAILED"}, At(f, "UNLOADED", y)
      PROVE  Brought(f, y)
  <2>1. At(Carried(f, Act("load", t)), "HEALTH_CHECKING", y)
    BY <1>3, <1>4, <1>5
  <2> QED
    BY <1>3, <1>4, <2>1
<1>6. ASSUME NEW f, NEW x, At(f, x, "READY") PROVE At(Vacated(f), x, "UNLOADED")
  <2>1. At(Carried(f, Act("drain", o)), x, "DRAINING")
    BY <1>2, <1>4, <1>6
  <2> QED
    BY <1>2, <1>4, <2>1
<1>7. ASSUME NEW f, NEW x, At(f, x, "FAILED") PROVE At(Cleaned(f, o), x, "UNLOADED")
  BY <1>2, <1>4, <1>7
<1>8. ASSUME NEW f, NEW y, At(f, "FAILED", y) PROVE At(Cleaned(f, t), "UNLOADED", y)
  BY <1>3, <1>4, <1>8
<1>9. At(runtimes, runtimes[t], runtimes[o]) /\ {runtimes[t], runtimes[o]} \subseteq {"UNLOADED", "READY", "FAILED"}
  BY DEF At, States
<1>10. runtimes[t] = "READY" => runtimes[o] # "READY"
  BY DEF OneReady, Ready
<1> DEFINE after == After(Actions(t))
<1> HIDE DEF after
<1>11. \/ after = runtimes /\ At(after, "READY", runtimes[o]) /\ runtimes[o] # "READY"
       \/ \E f, y : y \in {"UNLOADED", "FAILED"} /\ At(f, "UNLOADED", y)
                    /\ after = Carried(Carried(f, Act("load", t)), Act("health_check", t))
       \/ At(after, "READY", "UNLOADED")
  <2>1. CASE runtimes[t] = "READY" /\ ~(t = Small /\ Failed(o))
    <3>1. Actions(t) = <<>>
      BY <2>1, ActionsOf
    <3> QED
      BY <1>9, <1>10, <2>1, <3>1, AfterEach DEF after
  <2>2. CASE runtimes[t] = "READY" /\ t = Small /\ Failed(o)
    <3>1. Actions(t) = <<Act("unload_failed", o)>>
      BY <2>2, ActionsOf
    <3>2. after = Cleaned(runtimes, o)
      BY <3>1, AfterEach DEF after
    <3>3. At(runtimes, "READY", "FAILED")
      BY <1>9, <2>2 DEF Failed
    <3> QED
      BY <1>7, <3>2, <3>3
  <2>3. CASE runtimes[t] = "UNLOADED" /\ runtimes[o] = "READY"
    <3>1. Actions(t) = <<Act("drain", o), Act("unload", o), Act("load", t), Act("health_check", t)>>
      BY <2>3, ActionsOf
    <3>2. after = Carried(Carried(Vacated(runtimes), Act("load", t)), Act("health_check", t))
      BY <3>1, AfterEach DEF after
    <3>3. At(Vacated(runtimes), "UNLOADED", "UNLOADED")
      BY <1>6, <1>9, <2>3
    <3> QED
      BY <3>2, <3>3
  <2>4. CASE runtimes[t] = "UNLOADED" /\ runtimes[o] # "READY" /\ ~(t = Small /\ Failed(o))
    <3>1. Actions(t) = <<Act("load", t), Act("health_check", t)>>
      BY <2>4, ActionsOf
    <3>2. after = Carried(Carried(runtimes, Act("load", t)), Act("health_check", t))
      BY <3>1, AfterEach DEF after
    <3> QED
      BY <1>9, <2>4, <3>2
  <2>5. CASE runtimes[t] = "UNLOADED" /\ t = Small /\ Failed(o)
    <3>1. Actions(t) = <<Act("unload_failed", o), Act("load", t), Act("health_check", t)>>
      BY <2>5, ActionsOf DEF Failed
    <3>2. after = Carried(Carried(Cleaned(runtimes, o), Act("load", t)), Act("health_check", t))
      BY <3>1, AfterEach DEF after
    <3>3. At(Cleaned(runtimes, o), "UNLOADED", "UNLOADED")
      BY <1>7, <1>9, <2>5 DEF Failed
    <3> QED
      BY <3>2, <3>3
  <2>6. CASE runtimes[t] = "FAILED" /\ runtimes[o] = "READY"
    <3>1. Actions(t) = <<Act("drain", o), Act("unload", o), Act("unload_failed", t), Act("load", t), Act("health_check", t)>>
      BY <2>6, ActionsOf
    <3>2. after = Carried(Carried(Cleaned(Vacated(runtimes), t), Act("load", t)), Act("health_check", t))
      BY <3>1, AfterEach DEF after
    <3>3. At(Vacated(runtimes), "FAILED", "UNLOADED")
      BY <1>6, <1>9, <2>6
    <3>4. At(Cleaned(Vacated(runtimes), t), "UNLOADED", "UNLOADED")
      BY <1>8, <3>3
    <3> QED
      BY <3>2, <3>4
  <2>7. CASE runtimes[t] = "FAILED" /\ runtimes[o] = "FAILED"
    <3>1. Actions(t) = <<Act("unload_failed", o), Act("unload_failed", t), Act("load", t), Act("health_check", t)>>
      BY <1>1, <2>7, ActionsOf DEF Failed
    <3>2. after = Carried(Carried(Cleaned(Cleaned(runtimes, o), t), Act("load", t)), Act("health_check", t))
      BY <3>1, AfterEach DEF after
    <3>3. At(Cleaned(runtimes, o), "FAILED", "UNLOADED")
      BY <1>7, <1>9, <2>7
    <3>4. At(Cleaned(Cleaned(runtimes, o), t), "UNLOADED", "UNLOADED")
      BY <1>8, <3>3
    <3> QED
      BY <3>2, <3>4
  <2>8. CASE runtimes[t] = "FAILED" /\ runtimes[o] = "UNLOADED"
    <3>1. Actions(t) = <<Act("unload_failed", t), Act("load", t), Act("health_check", t)>>
      BY <1>1, <2>8, ActionsOf DEF Failed
    <3>2. after = Carried(Carried(Cleaned(runtimes, t), Act("load", t)), Act("health_check", t))
      BY <3>1, AfterEach DEF after
    <3>3. At(Cleaned(runtimes, t), "UNLOADED", "UNLOADED")
      BY <1>8, <1>9, <2>8
    <3> QED
      BY <3>2, <3>3
  <2> QED
    BY <1>9, <2>1, <2>2, <2>3, <2>4, <2>5, <2>6, <2>7, <2>8
<1>12. At(after, "READY", "UNLOADED") \/ At(after, "READY", "FAILED")
  BY <1>5, <1>9, <1>11
<1> QED
  BY <1>12 DEF At, after

\* Where no switch is under way, every decision that names a model is sound.
LEMMA RoutesServe ==
  ASSUME runtimes \in [Models -> States], OneReady
  PROVE  RoutesAreServable
<1> SUFFICES ASSUME NEW request \in RouteRequests, NEW gates \in Gates,
                    Decide(request, gates).disposition \in {"ROUTE", "SWITCH"}
             PROVE  LET d == Decide(request, gates) after == After(d.actions)
                    IN /\ { m \in Models : after[m] = "READY" } = {d.target}
                       /\ \A m \in Models : after[m] # "broken"
                       /\ d.target \in request.able \/ (d.target = Small /\ Failed(Large))
  BY DEF RoutesAreServable
<1> DEFINE wanted == IF request.reasons # "none" THEN Large ELSE Small
           granted == IF wanted = Large /\ ~gates.admitted THEN Small ELSE wanted
           able == Gate(request, granted)
           t == Fallback(able)
           d == Decide(request, gates)
<1> HIDE DEF wanted, granted
<1>1. ~InTransition /\ able # NoModel /\ d = Route(t)
  <2> HIDE DEF able, t
  <2>1. \A target, actions : /\ Decision("REJECT", target, actions).disposition = "REJECT"
                             /\ Decision("DEFER", target, actions).disposition = "DEFER"
    BY DEF Decision
  <2>2. Decide(request, gates) =
          CASE Cardinality(Ready) > 1 -> Decision("REJECT", NoModel, <<>>)
            [] Cardinality(Ready) <= 1 /\ InTransition -> Decision("DEFER", NoModel, <<>>)
            [] OTHER ->
                 IF wanted = Large /\ gates.priority THEN Decision("DEFER", Large, <<>>)
                 ELSE IF wanted = Large /\ ~gates.admitted /\ request.reasons = "explicit"
                      THEN Decision("REJECT", Large, <<>>)
                 ELSE IF able = NoModel THEN Decision("REJECT", NoModel, <<>>)
                 ELSE Route(t)
    BY DEF Decide, wanted, granted, able, t
  <2>3. Cardinality(Ready) <= 1 \/ Cardinality(Ready) > 1
    <3>1. IsFiniteSet(Models)
      <4>1. Models = {Small} \union {Large} /\ IsFiniteSet({Small})
        BY FS_Singleton DEF Models
      <4> QED
        BY <4>1, FS_AddElement
    <3>2. Cardinality(Ready) \in Nat
      BY <3>1, FS_Subset, FS_CardinalityType DEF Ready
    <3> QED
      BY <3>2
  <2> QED
    BY <2>1, <2>2, <2>3
<1>2. able \in {Small, Large} /\ able \in request.able
  <2>1. granted \in {Small, Large}
    BY DEF granted, wanted
  <2> QED
    BY <1>1, <2>1 DEF Gate
<1> HIDE DEF able
<1>3. t \in Models /\ (t = able \/ (t = Small /\ Failed(Large))) /\ (t = Large => ~Failed(t))
  BY <1>2, ModelsAssumption DEF Fallback, Models
<1> HIDE DEF t
<1>4. d.target = t /\ d.actions = Actions(t)
  BY <1>1 DEF Route, Decision
<1>5. runtimes \in [Models -> {"UNLOADED", "READY", "FAILED"}]
  BY <1>1 DEF InTransition, States
<1>6. PICK o \in Models : o # t /\ Models = {t, o}
  BY <1>3, ModelsAssumption DEF Models
<1> DEFINE after == After(Actions(t))
<1>7. after[t] = "READY" /\ after[o] \in {"UNLOADED", "FAILED"}
  BY <1>3, <1>5, <1>6, ActionsBringUp
<1> HIDE DEF after, d
<1>8. { m \in Models : after[m] = "READY" } = {t} /\ \A m \in Models : after[m] # "broken"
  BY <1>6, <1>7
<1> QED
  BY <1>2, <1>3, <1>4, <1>8 DEF d, after

\* Whatever the coordinator believes of the runtimes, a decision of the router
\* for any request can be carried out on them, and leaves its target, and only
\* its target, ready.
THEOREM RouteSoundness == Spec => []RoutesAreServable
<1>1. SwitchInv => RoutesAreServable
  BY RoutesServe DEF SwitchInv, TypeOK
<1> QED
  BY <1>1, SwitchAlways, PTL

=============================================================================
