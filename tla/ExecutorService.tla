-------------------------- MODULE ExecutorService --------------------------
(***************************************************************************)
(* BoundExecutionService, the heart of the tool executor process: what     *)
(* happens between a posted execution request and its answer.              *)
(*                                                                         *)
(* Every request runs on a thread of its own.  Validation, and the reading *)
(* of the clock, happen before the service's lock is taken; the duplicate  *)
(* lookup, the tool, the evidence file, the audit log and the cache all    *)
(* happen while it is held.  The cache is memory, the evidence files and   *)
(* the audit log are disk: any write may fail, and the process may die     *)
(* between any two of them.                                                *)
(***************************************************************************)
EXTENDS Naturals, FiniteSets

CONSTANTS
  Threads,     \* request threads of the web framework
  Commands,    \* distinct ExecutionCommands: two of them never share a fingerprint
  Keys, KeyOf,               \* their idempotency keys
  ExecutionIds, ExecutionOf, \* their execution ids, which name evidence files
  RiskOf,                    \* their risk level, 0 or 1
  MaxRequests, \* bound: requests posted, over all commands
  NoThread, NoCommand

ASSUME CommandAssumption ==
  /\ KeyOf \in [Commands -> Keys]
  /\ ExecutionOf \in [Commands -> ExecutionIds]
  /\ RiskOf \in [Commands -> {0, 1}]
  /\ NoCommand \notin Commands
  /\ NoThread \notin Threads
  /\ MaxRequests \in Nat

VARIABLES
  \* The disk.
  evidence,   \* evidence[x]: the command and status in file x.json, if any
  started, succeeded,   \* "started" and "succeeded" lines of the audit log
  \* The memory of the process.
  pc, cmd,    \* where each thread stands and the command it serves
  late,       \* the thread read the clock when its request had expired
  lock,       \* the thread that holds self._lock
  completed,  \* _completed: the cached outcome of an idempotency key
  \* The surroundings.
  lapsed,     \* commands once seen after their expiry: expired they stay
  approvalLapsed, \* commands whose approval's expiry is past
  posted,     \* requests posted so far
  \* Observation only.
  runs,       \* times a command's tool was called
  told,       \* answers given per command
  promised    \* per key, the command answered with success since the process started

disk     == <<evidence, started, succeeded>>
memory   == <<pc, cmd, late, lock, completed>>
clock    == <<lapsed, approvalLapsed>>
observed == <<runs, told, promised>>
vars     == <<disk, memory, clock, posted, observed>>

Outcome == {"succeeded", "failed"}
NoEntry == [cmd |-> NoCommand, status |-> "none"]
Entry   == [cmd : Commands, status : Outcome] \union {NoEntry}
Phase   == {"idle", "waiting", "start", "run", "evidence", "log", "answer",
            "failEvidence", "failLog", "failAnswer"}

\* A write to disk succeeds, fails, or raises although the bytes are there:
\* the line was written and fsync failed, the file was linked and the
\* temporary name could not be removed.
Write == {"done", "lost", "torn"}

\* The phases in which a thread is inside "with self._lock".
Locked == Phase \ {"idle", "waiting"}

-----------------------------------------------------------------------------
Init ==
  /\ evidence = [x \in ExecutionIds |-> NoEntry]
  /\ started = [c \in Commands |-> 0]
  /\ succeeded = [c \in Commands |-> 0]
  /\ pc = [t \in Threads |-> "idle"]
  /\ cmd = [t \in Threads |-> NoCommand]
  /\ late = [t \in Threads |-> FALSE]
  /\ lock = NoThread
  /\ completed = [k \in Keys |-> NoEntry]
  /\ lapsed = {}
  /\ approvalLapsed = {}
  /\ posted = 0
  /\ runs = [c \in Commands |-> 0]
  /\ told = [c \in Commands |-> {}]
  /\ promised = [k \in Keys |-> NoCommand]

Goto(t, phase) == pc' = [pc EXCEPT ![t] = phase]

\* The thread leaves the lock with an answer for its client.
Leave(t, answer) ==
  /\ Goto(t, "idle")
  /\ cmd' = [cmd EXCEPT ![t] = NoCommand]
  /\ lock' = NoThread
  /\ told' = [told EXCEPT ![cmd[t]] = @ \union {answer}]

\* A request arrives, before or after its expiry.  A risk-1 command whose
\* approval has lapsed is refused here, before anything looks whether its
\* outcome is already known.
Arrive(t, c, isLate) ==
  /\ pc[t] = "idle" /\ posted < MaxRequests
  /\ posted' = posted + 1
  /\ c \in lapsed => isLate
  /\ lapsed' = IF isLate THEN lapsed \union {c} ELSE lapsed
  /\ \/ /\ RiskOf[c] = 0 \/ c \notin approvalLapsed
        /\ Goto(t, "waiting")
        /\ cmd' = [cmd EXCEPT ![t] = c]
        /\ late' = [late EXCEPT ![t] = isLate]
     \/ /\ RiskOf[c] = 1 /\ c \in approvalLapsed
        /\ UNCHANGED <<pc, cmd, late>>
  /\ UNCHANGED <<disk, lock, completed, approvalLapsed, observed>>

\* Broken variant: the duplicate lookup happens before the lock is taken.
EnterUnlocked(t) ==
  LET c == cmd[t]
      entry == completed[KeyOf[c]]
  IN /\ pc[t] = "waiting"
     /\ \/ /\ entry = NoEntry /\ ~late[t]
           /\ Goto(t, "start")
           /\ UNCHANGED <<cmd, told, lock>>
        \/ /\ entry.cmd = c
           /\ Leave(t, entry.status)
        \/ /\ (entry # NoEntry /\ entry.cmd # c) \/ (entry = NoEntry /\ late[t])
           /\ Leave(t, "refused")
     /\ UNCHANGED <<disk, late, completed, clock, posted, runs,
                    promised>>

\* The lock is taken and the key looked up: a different command with the same
\* key, a known outcome and an expired request are answered at once.
Enter(t) ==
  LET c == cmd[t]
      entry == completed[KeyOf[c]]
  IN /\ pc[t] = "waiting" /\ lock = NoThread
     /\ \/ /\ entry = NoEntry /\ ~late[t]
           /\ Goto(t, "start")
           /\ lock' = t
           /\ UNCHANGED <<cmd, told>>
        \/ /\ entry.cmd = c
           /\ Leave(t, entry.status)
        \/ /\ (entry # NoEntry /\ entry.cmd # c) \/ (entry = NoEntry /\ late[t])
           /\ Leave(t, "refused")
     /\ UNCHANGED <<disk, late, completed, clock, posted, runs,
                    promised>>

\* The "started" line.  If it cannot be written the request fails uncached.
LogStarted(t, write) ==
  /\ pc[t] = "start"
  /\ started' = [started EXCEPT ![cmd[t]] = IF write = "lost" THEN @ ELSE @ + 1]
  /\ \/ write = "done" /\ Goto(t, "run") /\ UNCHANGED <<cmd, lock, told>>
     \/ write # "done" /\ Leave(t, "failed")
  /\ UNCHANGED <<evidence, succeeded, late, completed, clock, posted, runs, promised>>

\* The tool runs: it returns a result or raises.
RunTool(t, ok) ==
  LET c == cmd[t] IN
  /\ pc[t] = "run"
  /\ runs' = [runs EXCEPT ![c] = @ + 1]
  /\ Goto(t, IF ok THEN "evidence" ELSE "failEvidence")
  /\ UNCHANGED <<disk, cmd, late, lock, completed, clock, posted, told, promised>>

\* Broken variant: an existing file is replaced.
StoreEvidenceReplacing(c, status) ==
  evidence' = [evidence EXCEPT ![ExecutionOf[c]] = [cmd |-> c, status |-> status]]

\* write_evidence links a complete file under the execution's name; it
\* raises when the name is taken.
StoreEvidence(c, status) ==
  /\ evidence[ExecutionOf[c]] = NoEntry
  /\ evidence' = [evidence EXCEPT ![ExecutionOf[c]] = [cmd |-> c, status |-> status]]

WriteEvidence(t, write) ==
  /\ pc[t] = "evidence"
  /\ \/ write # "lost" /\ StoreEvidence(cmd[t], "succeeded")
     \/ write = "lost" /\ UNCHANGED evidence
  /\ Goto(t, IF write = "done" THEN "log" ELSE "failEvidence")
  /\ UNCHANGED <<started, succeeded, cmd, late, lock, completed, clock, posted, observed>>

LogSucceeded(t, write) ==
  /\ pc[t] = "log"
  /\ succeeded' = [succeeded EXCEPT ![cmd[t]] = IF write = "lost" THEN @ ELSE @ + 1]
  /\ Goto(t, IF write = "done" THEN "answer" ELSE "failEvidence")
  /\ UNCHANGED <<evidence, started, cmd, late, lock, completed, clock, posted, observed>>

\* The outcome is cached and returned.
Answer(t, status) ==
  /\ pc[t] = (IF status = "succeeded" THEN "answer" ELSE "failAnswer")
  /\ completed' = [completed EXCEPT ![KeyOf[cmd[t]]] = [cmd |-> cmd[t], status |-> status]]
  /\ promised' = [promised EXCEPT ![KeyOf[cmd[t]]] = IF status = "succeeded" THEN cmd[t] ELSE @]
  /\ Leave(t, status)
  /\ UNCHANGED <<disk, late, clock, posted, runs>>

\* Broken variant: the lock is acquired and released by hand, and the path
\* on which the failure cannot be recorded forgets it.
WriteFailureEvidenceLocked(t, write) ==
  /\ pc[t] = "failEvidence"
  /\ \/ write # "lost" /\ StoreEvidence(cmd[t], "failed")
     \/ write = "lost" /\ UNCHANGED evidence
  /\ Goto(t, IF write = "done" THEN "failLog" ELSE "idle")
  /\ cmd' = [cmd EXCEPT ![t] = IF write = "done" THEN @ ELSE NoCommand]
  /\ UNCHANGED <<started, succeeded, late, lock, completed, clock, posted, observed>>

\* _record_failure, first half.  When the evidence cannot be written its own
\* exception replaces the first one and nothing is cached.
WriteFailureEvidence(t, write) ==
  /\ pc[t] = "failEvidence"
  /\ \/ write # "lost" /\ StoreEvidence(cmd[t], "failed")
     \/ write = "lost" /\ UNCHANGED evidence
  /\ \/ write = "done" /\ Goto(t, "failLog") /\ UNCHANGED <<cmd, lock, told>>
     \/ write # "done" /\ Leave(t, "failed")
  /\ UNCHANGED <<started, succeeded, late, completed, clock, posted, runs, promised>>

\* _record_failure, second half: the "failed" line.
LogFailed(t, write) ==
  /\ pc[t] = "failLog"
  /\ \/ write = "done" /\ Goto(t, "failAnswer") /\ UNCHANGED <<cmd, lock, told>>
     \/ write # "done" /\ Leave(t, "failed")
  /\ UNCHANGED <<disk, late, completed, clock, posted, runs, promised>>

-----------------------------------------------------------------------------
LapseApproval(c) ==
  /\ RiskOf[c] = 1 /\ c \notin approvalLapsed
  /\ approvalLapsed' = approvalLapsed \union {c}
  /\ UNCHANGED <<disk, memory, lapsed, posted, observed>>

\* The process dies and is started again: threads, lock and cache are gone.
Restart ==
  /\ pc' = [t \in Threads |-> "idle"]
  /\ cmd' = [t \in Threads |-> NoCommand]
  /\ late' = [t \in Threads |-> FALSE]
  /\ lock' = NoThread
  /\ completed' = [k \in Keys |-> NoEntry]
  /\ promised' = [k \in Keys |-> NoCommand]
  /\ UNCHANGED <<disk, clock, posted, runs, told>>

ThreadStep(t) ==
  \/ Enter(t)
  \/ \E ok \in BOOLEAN : RunTool(t, ok)
  \/ \E write \in Write :
       \/ LogStarted(t, write) \/ WriteEvidence(t, write) \/ LogSucceeded(t, write)
       \/ WriteFailureEvidence(t, write) \/ LogFailed(t, write)
  \/ \E status \in Outcome : Answer(t, status)

Next ==
  \/ \E t \in Threads :
       \/ ThreadStep(t)
       \/ \E c \in Commands, isLate \in BOOLEAN : Arrive(t, c, isLate)
  \/ \E c \in Commands : LapseApproval(c)
  \/ Restart

Spec == Init /\ [][Next]_vars

\* Threads are scheduled, tools are bounded by their own timeouts, and a
\* thread that waits for a lock that is free gets it.
FairSpec == Spec /\ \A t \in Threads : WF_vars(ThreadStep(t))

-----------------------------------------------------------------------------
(* Properties. *)

TypeOK ==
  /\ evidence \in [ExecutionIds -> Entry]
  /\ started \in [Commands -> Nat] /\ succeeded \in [Commands -> Nat]
  /\ pc \in [Threads -> Phase]
  /\ cmd \in [Threads -> Commands \union {NoCommand}]
  /\ late \in [Threads -> BOOLEAN]
  /\ lock \in Threads \union {NoThread}
  /\ completed \in [Keys -> Entry]
  /\ lapsed \subseteq Commands /\ approvalLapsed \subseteq Commands
  /\ posted \in Nat
  /\ runs \in [Commands -> Nat]
  /\ told \in [Commands -> SUBSET (Outcome \union {"refused"})]
  /\ promised \in [Keys -> Commands \union {NoCommand}]

\* No call of a tool precedes its "started" line, so after a crash
\* the log names every command that may have had an effect.
RunsAreLogged == \A c \in Commands : runs[c] <= started[c]

\* A client that was told of success finds the evidence file and the audit
\* line of that very command on disk, whatever failed or restarted since.
SuccessIsEvidenced ==
  \A c \in Commands : "succeeded" \in told[c] =>
    /\ evidence[ExecutionOf[c]] = [cmd |-> c, status |-> "succeeded"]
    /\ succeeded[c] > 0

\* Across restarts, which forget the cache, one execution id is reported
\* successful for one command and in one run only.
OneSuccessPerExecution ==
  \A c, d \in Commands :
    /\ "succeeded" \in told[c] /\ "succeeded" \in told[d] /\ c # d =>
         ExecutionOf[c] # ExecutionOf[d]
    /\ succeeded[c] <= 1

\* What the client was told, the audit log and the evidence files agree, through
\* failing writes and restarts.
LedgerIsSound ==
  TypeOK /\ RunsAreLogged /\ SuccessIsEvidenced /\ OneSuccessPerExecution

\* Once a key was answered with success, no command with that key is run and
\* nothing but that success is answered to it, as long as the process lives
\* (the client may still be refused before the lookup).
KeepsPromise(k) ==
  promised[k] # NoCommand /\ promised'[k] # NoCommand =>
    \A c \in Commands : KeyOf[c] = k =>
      /\ runs'[c] = runs[c]
      /\ told'[c] \subseteq told[c] \union {IF c = promised[k] THEN "succeeded" ELSE "refused"}
PromisesAreKept == [][\A k \in Keys : KeepsPromise(k)]_vars

\* Every request that arrived is answered: no path leaves the lock held.
RequestsAreAnswered == \A t \in Threads : pc[t] # "idle" ~> pc[t] = "idle"

=============================================================================
