--------------------------- MODULE ExecutorProofs ---------------------------
(***************************************************************************)
(* What holds of the executor service, and of the tests it runs, for every *)
(* set of threads, commands, keys and executions.                          *)
(*                                                                         *)
(* That success is told only with its evidence on disk, and once only, is  *)
(* not inductive.  It follows from what the lock and the place of a thread *)
(* say of the disk (LedgerInv), and from the evidence files, none of which *)
(* is ever replaced; that reports are true, from what the place of the     *)
(* call that runs tests says of the last of them (ReportInv).              *)
(***************************************************************************)
EXTENDS TestRuns, SequenceTheorems, TLAPS

Succeeded(c) == [cmd |-> c, status |-> "succeeded"]

\* A thread inside the lock holds it, and every thread at work has a command.
LockInv ==
  \A t \in Threads :
    /\ pc[t] \in Locked => lock = t
    /\ pc[t] # "idle" => cmd[t] \in Commands

\* A tool that is about to run has its line in the log.
RunsInv ==
  /\ \A c \in Commands : runs[c] <= started[c]
  /\ \A t \in Threads : pc[t] = "run" => runs[cmd[t]] < started[cmd[t]]

\* What is on disk for a command that succeeded, and for one about to.
DiskInv ==
  /\ \A c \in Commands :
       /\ succeeded[c] <= 1
       /\ succeeded[c] > 0 => evidence[ExecutionOf[c]] = Succeeded(c)
  /\ \A t \in Threads :
       /\ pc[t] = "log" => evidence[ExecutionOf[cmd[t]]] = Succeeded(cmd[t]) /\ succeeded[cmd[t]] = 0
       /\ pc[t] = "answer" => succeeded[cmd[t]] > 0

\* Nothing else is told, or remembered, as a success.
ToldInv ==
  /\ \A c \in Commands : "succeeded" \in told[c] => succeeded[c] > 0
  /\ \A k \in Keys : completed[k].status = "succeeded" => succeeded[completed[k].cmd] > 0

LedgerInv == TypeOK /\ LockInv /\ RunsInv /\ DiskInv /\ ToldInv

-----------------------------------------------------------------------------
(* The service. *)

LEMMA LedgerStarts == Init => LedgerInv
<1> SUFFICES ASSUME Init PROVE LedgerInv
  OBVIOUS
<1> USE CommandAssumption DEF Init
<1>1. TypeOK
  BY DEF TypeOK, Entry, NoEntry, Phase
<1>2. LockInv /\ RunsInv /\ DiskInv /\ ToldInv
  BY DEF LockInv, RunsInv, DiskInv, ToldInv, Locked, NoEntry
<1> QED
  BY <1>1, <1>2 DEF LedgerInv

LEMMA LedgerStep == LedgerInv /\ [Next]_vars => LedgerInv'
<1> SUFFICES ASSUME LedgerInv, [Next]_vars PROVE LedgerInv'
  OBVIOUS
<1> USE CommandAssumption DEF LedgerInv, vars, disk, memory, clock, observed, Goto, Leave
<1>1. ASSUME NEW t \in Threads, Enter(t)
      PROVE LedgerInv'
  <2>1. TypeOK'
    BY <1>1, SMTT(30) DEF Enter, TypeOK, Phase, LockInv, Outcome, Entry, NoEntry
  <2>2. LockInv' /\ RunsInv'
    BY <1>1 DEF Enter, TypeOK, Phase, LockInv, RunsInv, Locked
  <2>3. DiskInv' /\ ToldInv'
    BY <1>1 DEF Enter, TypeOK, Phase, LockInv, DiskInv, ToldInv, Entry, NoEntry
  <2> QED
    BY <2>1, <2>2, <2>3
<1>2. ASSUME NEW t \in Threads, NEW write \in Write, LogStarted(t, write)
      PROVE LedgerInv'
  <2>1. TypeOK'
    BY <1>2, SMTT(30) DEF LogStarted, TypeOK, Phase, LockInv, Outcome
  <2>2. LockInv' /\ RunsInv'
    BY <1>2 DEF LogStarted, TypeOK, Phase, LockInv, RunsInv, Locked
  <2>3. DiskInv' /\ ToldInv'
    BY <1>2 DEF LogStarted, TypeOK, Phase, LockInv, DiskInv, ToldInv
  <2> QED
    BY <2>1, <2>2, <2>3
<1>3. ASSUME NEW t \in Threads, NEW ok \in BOOLEAN, RunTool(t, ok)
      PROVE LedgerInv'
  <2>1. TypeOK'
    BY <1>3, SMTT(30) DEF RunTool, TypeOK, Phase, LockInv
  <2>2. LockInv' /\ RunsInv'
    BY <1>3 DEF RunTool, TypeOK, Phase, LockInv, RunsInv, Locked
  <2>3. DiskInv' /\ ToldInv'
    BY <1>3 DEF RunTool, TypeOK, Phase, LockInv, DiskInv, ToldInv
  <2> QED
    BY <2>1, <2>2, <2>3
<1>4. ASSUME NEW t \in Threads, NEW write \in Write, WriteEvidence(t, write)
      PROVE LedgerInv'
  <2>1. TypeOK'
    BY <1>4, SMTT(30) DEF WriteEvidence, StoreEvidence, TypeOK, Phase, LockInv, Entry, NoEntry, Outcome
  <2>2. LockInv' /\ RunsInv'
    BY <1>4 DEF WriteEvidence, TypeOK, Phase, LockInv, RunsInv, Locked
  <2>3. DiskInv' /\ ToldInv'
    BY <1>4 DEF WriteEvidence, StoreEvidence, TypeOK, Phase, LockInv, DiskInv, ToldInv, Succeeded, NoEntry, Locked
  <2> QED
    BY <2>1, <2>2, <2>3
<1>5. ASSUME NEW t \in Threads, NEW write \in Write, LogSucceeded(t, write)
      PROVE LedgerInv'
  <2>1. TypeOK'
    BY <1>5, SMTT(30) DEF LogSucceeded, TypeOK, Phase, LockInv
  <2>2. LockInv' /\ RunsInv'
    BY <1>5 DEF LogSucceeded, TypeOK, Phase, LockInv, RunsInv, Locked
  <2>3. DiskInv' /\ ToldInv'
    BY <1>5 DEF LogSucceeded, TypeOK, Phase, LockInv, DiskInv, ToldInv, Locked, Entry, NoEntry
  <2> QED
    BY <2>1, <2>2, <2>3
<1>6. ASSUME NEW t \in Threads, NEW status \in Outcome, Answer(t, status)
      PROVE LedgerInv'
  <2>1. TypeOK'
    BY <1>6, SMTT(30) DEF Answer, TypeOK, Phase, LockInv, Outcome, Entry, NoEntry
  <2>2. LockInv' /\ RunsInv'
    BY <1>6 DEF Answer, TypeOK, Phase, LockInv, RunsInv, Locked
  <2>3. DiskInv' /\ ToldInv'
    BY <1>6 DEF Answer, TypeOK, Phase, LockInv, DiskInv, ToldInv, Entry, NoEntry, Outcome
  <2> QED
    BY <2>1, <2>2, <2>3
<1>7. ASSUME NEW t \in Threads, NEW write \in Write, WriteFailureEvidence(t, write)
      PROVE LedgerInv'
  <2>1. TypeOK'
    BY <1>7, SMTT(30) DEF WriteFailureEvidence, StoreEvidence, TypeOK, Phase, LockInv, Entry, NoEntry, Outcome
  <2>2. LockInv' /\ RunsInv'
    BY <1>7 DEF WriteFailureEvidence, TypeOK, Phase, LockInv, RunsInv, Locked
  <2>3. DiskInv' /\ ToldInv'
    BY <1>7 DEF WriteFailureEvidence, StoreEvidence, TypeOK, Phase, LockInv, DiskInv, ToldInv, Succeeded, NoEntry, Locked
  <2> QED
    BY <2>1, <2>2, <2>3
<1>8. ASSUME NEW t \in Threads, NEW write \in Write, LogFailed(t, write)
      PROVE LedgerInv'
  <2>1. TypeOK'
    BY <1>8, SMTT(30) DEF LogFailed, TypeOK, Phase, LockInv, Outcome
  <2>2. LockInv' /\ RunsInv'
    BY <1>8 DEF LogFailed, TypeOK, Phase, LockInv, RunsInv, Locked
  <2>3. DiskInv' /\ ToldInv'
    BY <1>8 DEF LogFailed, TypeOK, Phase, LockInv, DiskInv, ToldInv
  <2> QED
    BY <2>1, <2>2, <2>3
<1>9. ASSUME NEW t \in Threads, NEW c \in Commands, NEW isLate \in BOOLEAN, Arrive(t, c, isLate)
      PROVE LedgerInv'
  <2>1. TypeOK'
    BY <1>9, SMTT(30) DEF Arrive, TypeOK, Phase
  <2>2. LockInv' /\ RunsInv'
    BY <1>9 DEF Arrive, TypeOK, Phase, LockInv, RunsInv, Locked
  <2>3. DiskInv' /\ ToldInv'
    BY <1>9 DEF Arrive, TypeOK, Phase, LockInv, DiskInv, ToldInv
  <2> QED
    BY <2>1, <2>2, <2>3
<1>10. ASSUME NEW c \in Commands, LapseApproval(c)
       PROVE LedgerInv'
  BY <1>10 DEF LapseApproval, TypeOK, LockInv, RunsInv, DiskInv, ToldInv
<1>11. CASE Restart
  <2>1. TypeOK'
    BY <1>11 DEF Restart, TypeOK, Phase, Entry, NoEntry
  <2>2. LockInv' /\ RunsInv' /\ DiskInv' /\ ToldInv'
    BY <1>11 DEF Restart, LockInv, RunsInv, DiskInv, ToldInv, Locked, NoEntry
  <2> QED
    BY <2>1, <2>2
<1>12. CASE UNCHANGED vars
  BY <1>12 DEF TypeOK, LockInv, RunsInv, DiskInv, ToldInv
<1> QED
  BY <1>1, <1>2, <1>3, <1>4, <1>5, <1>6, <1>7, <1>8, <1>9, <1>10, <1>11, <1>12
  DEF Next, ThreadStep

LEMMA LedgerIsImplied == LedgerInv => LedgerIsSound
<1> SUFFICES ASSUME LedgerInv PROVE LedgerIsSound
  OBVIOUS
<1> USE DEF LedgerInv
<1>1. RunsAreLogged /\ SuccessIsEvidenced
  BY DEF RunsInv, RunsAreLogged, DiskInv, ToldInv, SuccessIsEvidenced, Succeeded
<1>2. \A c, d \in Commands : Succeeded(c) = Succeeded(d) => c = d
  <2> TAKE c, d \in Commands
  <2>1. Succeeded(c).cmd = c /\ Succeeded(d).cmd = d
    BY DEF Succeeded
  <2> QED
    BY <2>1
<1>3. ASSUME NEW c \in Commands, NEW d \in Commands,
             "succeeded" \in told[c], "succeeded" \in told[d], c # d
      PROVE ExecutionOf[c] # ExecutionOf[d]
  BY <1>2, <1>3 DEF DiskInv, ToldInv
<1>4. \A c \in Commands : succeeded[c] <= 1
  BY DEF DiskInv
<1>5. OneSuccessPerExecution
  BY <1>3, <1>4 DEF OneSuccessPerExecution
<1> QED
  BY <1>1, <1>5 DEF LedgerIsSound

\* What the client was told, the audit log and the evidence files agree.
THEOREM LedgerSoundness == Spec => []LedgerIsSound
<1> QED
  BY LedgerStarts, LedgerStep, LedgerIsImplied, PTL DEF Spec

-----------------------------------------------------------------------------
(* The tests that the service runs. *)

\* A command is on its way to be recorded as a success, or is recorded.
Passed(c) ==
  \/ succeeded[c] > 0
  \/ \E t \in Threads : pc[t] \in {"evidence", "log"} /\ cmd[t] = c

\* While a call runs tests, the last report is its own, and not yet readable.
CallInv ==
  /\ step # "none" => Last > 0 /\ \E t \in Threads : Runs(t) /\ cmd[t] = Current.cmd
  /\ step # "none" => Current.meta = "none"
  /\ step # "none" /\ proc # "alive" => Current.end \in Verdict
  /\ step = "meta" => Current.log = "whole"
  /\ proc = "alive" => step \in {"poll", "kill"}

ReportInv ==
  /\ RunTypeOK /\ CallInv /\ ReportsAreTrue
  /\ \A n \in 1..Last : started[reports[n].cmd] > 0
  /\ \A c \in Tests : Passed(c) => \E n \in 1..Last : reports[n].cmd = c /\ Inspect(n) = "whole"

RunInv == LedgerInv /\ ReportInv

\* Every step of the tests is a step of the service, or none of it.
LEMMA RunsAreServed == ASSUME RunNext PROVE [Next]_vars
<1>1. ASSUME NEW t \in Threads, ServiceStep(t) PROVE [Next]_vars
  <2>1. ASSUME NEW ok \in BOOLEAN, Returns(t, ok) PROVE Next
    BY <2>1 DEF Returns, Next, ThreadStep
  <2>2. ASSUME NEW next, Goes(next) PROVE UNCHANGED vars
    BY <2>2 DEF Goes
  <2>3. CASE RunStep(t)
    BY <2>1, <2>2, <2>3 DEF RunStep, RefuseRun, StartRun, Poll, Kill, WriteLog, WriteMeta
  <2>4. CASE ThreadStep(t)
    BY <2>4 DEF Next
  <2> QED
    BY <1>1, <2>3, <2>4 DEF ServiceStep
<1> QED
  BY <1>1 DEF RunNext, ProcessExits, RunRestart, Next

\* The log only grows.
LEMMA LogGrows ==
  ASSUME LedgerInv, [Next]_vars
  PROVE  \A c \in Commands : started'[c] >= started[c]
<1> USE DEF LedgerInv, TypeOK, vars, disk
<1>1. ASSUME NEW t \in Threads, NEW write \in Write, LogStarted(t, write)
      PROVE \A c \in Commands : started'[c] >= started[c]
  BY <1>1 DEF LogStarted
<1>2. ASSUME NEW t \in Threads, NEW write \in Write,
             \/ WriteEvidence(t, write) \/ LogSucceeded(t, write)
             \/ WriteFailureEvidence(t, write) \/ LogFailed(t, write)
      PROVE started' = started
  BY <1>2 DEF WriteEvidence, LogSucceeded, WriteFailureEvidence, LogFailed
<1>3. ASSUME NEW t \in Threads,
             \/ Enter(t)
             \/ \E ok \in BOOLEAN : RunTool(t, ok)
             \/ \E status \in Outcome : Answer(t, status)
             \/ \E c \in Commands, isLate \in BOOLEAN : Arrive(t, c, isLate)
      PROVE started' = started
  BY <1>3 DEF Enter, RunTool, Answer, Arrive
<1>4. ASSUME \/ \E c \in Commands : LapseApproval(c)
             \/ Restart
      PROVE started' = started
  BY <1>4 DEF LapseApproval, Restart
<1> QED
  BY <1>1, <1>2, <1>3, <1>4 DEF Next, ThreadStep

LEMMA OneRunner ==
  ASSUME LedgerInv, NEW t \in Threads, NEW u \in Threads, Runs(t), Runs(u)
  PROVE  t = u
BY DEF LedgerInv, LockInv, Runs, Locked, Phase

\* Other threads, and other tools, leave the tests alone.
LEMMA OthersKeep ==
  ASSUME LedgerInv, NEW t \in Threads,
         \/ ThreadStep(t) /\ ~Runs(t)
         \/ \E c \in Commands, isLate \in BOOLEAN : Arrive(t, c, isLate)
  PROVE  /\ \A u \in Threads : Runs(u) => Runs(u)' /\ cmd'[u] = cmd[u]
         /\ \A c \in Tests : Passed(c)' => Passed(c)
<1> DEFINE Kept == /\ \A u \in Threads : Runs(u) => Runs(u)' /\ cmd'[u] = cmd[u]
                   /\ \A c \in Tests : Passed(c)' => Passed(c)
<1> USE DEF LedgerInv, TypeOK, Phase, LockInv, Locked, Goto, Leave, Runs, Passed, disk
<1>1. CASE Enter(t)
  BY <1>1 DEF Enter
<1>2. ASSUME NEW write \in Write, LogStarted(t, write) PROVE Kept
  BY <1>2 DEF LogStarted
<1>3. ASSUME NEW ok \in BOOLEAN, RunTool(t, ok), ~Runs(t) PROVE Kept
  BY <1>3 DEF RunTool
<1>4. ASSUME NEW write \in Write, WriteEvidence(t, write) PROVE Kept
  BY <1>4 DEF WriteEvidence
<1>5. ASSUME NEW write \in Write, LogSucceeded(t, write) PROVE Kept
  BY <1>5 DEF LogSucceeded
<1>6. ASSUME NEW status \in Outcome, Answer(t, status) PROVE Kept
  BY <1>6 DEF Answer
<1>7. ASSUME NEW write \in Write, WriteFailureEvidence(t, write) PROVE Kept
  BY <1>7 DEF WriteFailureEvidence
<1>8. ASSUME NEW write \in Write, LogFailed(t, write) PROVE Kept
  BY <1>8 DEF LogFailed
<1>9. ASSUME NEW c \in Commands, NEW isLate \in BOOLEAN, Arrive(t, c, isLate) PROVE Kept
  BY <1>9 DEF Arrive
<1> QED
  BY <1>1, <1>2, <1>3, <1>4, <1>5, <1>6, <1>7, <1>8, <1>9 DEF ThreadStep

\* What a call of run_tests does to the records of the service when it returns.
LEMMA ReturnKeeps ==
  ASSUME LedgerInv, NEW t \in Threads, Runs(t), NEW ok \in BOOLEAN, Returns(t, ok)
  PROVE  \A c \in Tests : Passed(c)' => Passed(c) \/ (ok /\ c = cmd[t])
BY DEF LedgerInv, TypeOK, Phase, LockInv, Locked, Goto, Runs, Passed, disk, Returns, RunTool

\* The last report is rewritten, the others stay.
LEMMA ReportsChange ==
  ASSUME RunTypeOK, Last > 0, NEW r \in Report, Reports(r)
  PROVE  /\ reports' \in Seq(Report) /\ Last' = Last /\ Current' = r
         /\ \A n \in 1..Last : n # Last => reports'[n] = reports[n]
<1>1. reports \in Seq(Report) /\ Last \in Nat /\ Last \in 1..Last
  BY LenProperties DEF RunTypeOK, Last
<1> QED
  BY <1>1, ExceptSeq DEF Reports, Last, Current

LEMMA RunsStart == RunInit => RunInv
<1> SUFFICES ASSUME RunInit PROVE RunInv
  OBVIOUS
<1> USE DEF RunInit
<1>1. LedgerInv
  BY LedgerStarts
<1>2. reports \in Seq(Report) /\ Last = 0
  BY EmptySeq DEF Last
<1>3. \A c \in Tests : ~Passed(c)
  BY TestsAssumption DEF Init, Passed
<1> QED
  BY <1>1, <1>2, <1>3 DEF RunInv, ReportInv, RunTypeOK, RunSteps, CallInv, ReportsAreTrue

\* Steps that leave the reports, and the call that writes them, as they are.
LEMMA ReportsStay ==
  ASSUME RunInv, LedgerInv', UNCHANGED runVars,
         \A c \in Commands : started'[c] >= started[c],
         \A u \in Threads : Runs(u) => Runs(u)' /\ cmd'[u] = cmd[u],
         \A c \in Tests : Passed(c)' => Passed(c)
  PROVE  RunInv'
<1> USE DEF RunInv, ReportInv, runVars
<1>1. RunTypeOK' /\ ReportsAreTrue'
  BY DEF RunTypeOK, ReportsAreTrue, Inspect, Last
<1>2. CallInv'
  BY DEF CallInv, Last, Current
<1>3. \A n \in 1..Last : reports[n].cmd \in Commands
  <2> TAKE n \in 1..Last
  <2>1. reports[n] \in Report
    BY ElementOfSeq DEF RunTypeOK, Last
  <2> QED
    BY <2>1, TestsAssumption DEF Report
<1>4. \A n \in 1..Last' : started'[reports'[n].cmd] > 0
  BY <1>3 DEF Last, LedgerInv, TypeOK
<1>5. \A c \in Tests : Passed(c)' =>
        \E n \in 1..Last' : reports'[n].cmd = c /\ Inspect(n)' = "whole"
  BY DEF Last, Inspect
<1> QED
  BY <1>1, <1>2, <1>4, <1>5

\* Steps that rewrite the last report while its call goes on.
LEMMA ReportsGoOn ==
  ASSUME RunInv, UNCHANGED vars, step # "none", step' \in RunSteps \ {"none"},
         proc' \in {"none", "alive", "exited"},
         NEW r \in Report, Reports(r),
         r.cmd = Current.cmd, r.meta = "none",
         proc' # "alive" => r.end \in Verdict,
         step' = "meta" => r.log = "whole",
         proc' = "alive" => step' \in {"poll", "kill"}
  PROVE  RunInv'
<1> USE DEF RunInv, ReportInv
<1>1. LedgerInv'
  BY LedgerStep
<1>2. /\ reports' \in Seq(Report) /\ Last' = Last /\ Current' = r /\ Last \in 1..Last
      /\ \A n \in 1..Last : n # Last => reports'[n] = reports[n]
      /\ reports'[Last] = r
  <2>1. Last > 0 /\ Last \in Nat
    BY LenProperties DEF CallInv, RunTypeOK, Last
  <2> QED
    BY <2>1, ReportsChange DEF Current
<1>3. RunTypeOK'
  BY <1>2 DEF RunTypeOK
<1>4. CallInv'
  <2>1. \E t \in Threads : Runs(t)' /\ cmd'[t] = r.cmd
    BY DEF CallInv, Runs, vars, memory
  <2> QED
    BY <1>2, <2>1 DEF CallInv
<1>5. ReportsAreTrue'
  BY <1>2 DEF ReportsAreTrue, Inspect
<1>6. \A n \in 1..Last' : started'[reports'[n].cmd] > 0
  BY <1>2 DEF vars, disk, Current
<1>7. ASSUME NEW c \in Tests, Passed(c)'
      PROVE \E n \in 1..Last' : reports'[n].cmd = c /\ Inspect(n)' = "whole"
  <2>1. Passed(c)
    BY <1>7 DEF Passed, vars, disk, memory
  <2>2. PICK n \in 1..Last : reports[n].cmd = c /\ Inspect(n) = "whole"
    BY <2>1
  <2>3. n # Last
    BY <2>2 DEF CallInv, Current, Inspect
  <2> QED
    BY <1>2, <2>2, <2>3 DEF Inspect
<1> QED
  BY <1>1, <1>3, <1>4, <1>5, <1>6, <1>7

\* A call of run_tests returns: without success, or with its report.
LEMMA ReportsReturn ==
  ASSUME RunInv, NEW t \in Threads, Runs(t), NEW ok \in BOOLEAN, Returns(t, ok),
         reports' \in Seq(Report), Last' = Last,
         \A n \in 1..Last : n # Last => reports'[n] = reports[n],
         Last > 0 => Current'.cmd = Current.cmd,
         \/ UNCHANGED reports /\ ~ok
         \/ /\ Last > 0 /\ step # "none"
            /\ Current'.log = "whole" /\ Current'.meta # "none"
            /\ Current'.meta = "passed" => Current'.end = "passed" /\ ~Current'.over
  PROVE  RunInv'
<1> USE DEF RunInv, ReportInv
<1>1. LedgerInv' /\ started' = started
  BY LedgerStep DEF Returns, RunTool, Next, ThreadStep, disk
<1>2. RunTypeOK' /\ CallInv'
  BY DEF Returns, RunTypeOK, RunSteps, CallInv
<1>3. Last \in Nat /\ \A n \in 1..Last : reports'[n].cmd = reports[n].cmd
  BY LenProperties DEF RunTypeOK, Last, Current
<1>4. ReportsAreTrue'
  BY <1>3 DEF ReportsAreTrue, Inspect, Current
<1>5. \A n \in 1..Last' : started'[reports'[n].cmd] > 0
  BY <1>1, <1>3
<1>6. ASSUME NEW c \in Tests, Passed(c)'
      PROVE \E n \in 1..Last' : reports'[n].cmd = c /\ Inspect(n)' = "whole"
  <2>1. CASE Passed(c)
    <3>1. PICK n \in 1..Last : reports[n].cmd = c /\ Inspect(n) = "whole"
      BY <2>1
    <3>2. n # Last \/ UNCHANGED reports
      BY <3>1 DEF CallInv, Current, Inspect
    <3> QED
      BY <3>1, <3>2 DEF Inspect
  <2>2. CASE ok /\ c = cmd[t]
    <3>1. Last > 0 /\ Inspect(Last)' = "whole"
      BY <2>2 DEF Inspect, Current
    <3>2. Current.cmd = c
      <4>1. PICK u \in Threads : Runs(u) /\ cmd[u] = Current.cmd
        BY <2>2 DEF CallInv
      <4> QED
        BY <2>2, <4>1, OneRunner
    <3> QED
      BY <1>3, <3>1, <3>2 DEF Current
  <2> QED
    BY <1>6, <2>1, <2>2, ReturnKeeps
<1> QED
  BY <1>1, <1>2, <1>4, <1>5, <1>6

LEMMA RunStarts ==
  ASSUME RunInv, NEW t \in Threads, StartRun(t)
  PROVE  RunInv'
<1> USE DEF RunInv, ReportInv
<1> DEFINE r == [cmd |-> cmd[t], log |-> "none", meta |-> "none",
                 end |-> "running", over |-> FALSE]
<1>1. UNCHANGED vars
  BY DEF StartRun, Goes
<1>2. LedgerInv'
  BY <1>1, LedgerStep
<1>3. r \in Report
  BY DEF StartRun, Runs, Report
<1>4. /\ Last \in Nat /\ reports' \in Seq(Report) /\ Last' = Last + 1
      /\ \A n \in 1..Last : reports'[n] = reports[n]
      /\ reports'[Last'] = r
  BY <1>3, LenProperties, AppendProperties DEF StartRun, RunTypeOK, Last
<1>5. RunTypeOK'
  BY <1>4 DEF RunTypeOK, RunSteps, StartRun, Goes
<1>6. CallInv'
  <2>1. Current' = r /\ r.cmd = cmd[t] /\ r.meta = "none" /\ Last' > 0
    BY <1>4 DEF Current
  <2>2. Runs(t)' /\ cmd'[t] = r.cmd
    BY <1>1, <2>1 DEF StartRun, Runs, vars, memory
  <2>3. step' = "poll" /\ proc' = "alive"
    BY DEF StartRun, Goes
  <2> QED
    BY <2>1, <2>2, <2>3 DEF CallInv
<1>7. ReportsAreTrue'
  BY <1>4 DEF ReportsAreTrue, Inspect
<1>8. started[cmd[t]] > 0
  BY TestsAssumption DEF StartRun, Runs, LedgerInv, RunsInv, TypeOK
<1>9. \A n \in 1..Last' : started'[reports'[n].cmd] > 0
  BY <1>1, <1>4, <1>8 DEF vars, disk
<1>10. ASSUME NEW c \in Tests, Passed(c)'
       PROVE \E n \in 1..Last' : reports'[n].cmd = c /\ Inspect(n)' = "whole"
  <2>1. PICK n \in 1..Last : reports[n].cmd = c /\ Inspect(n) = "whole"
    BY <1>1, <1>10 DEF Passed, vars, disk, memory
  <2> QED
    BY <1>4, <2>1 DEF Inspect
<1> QED
  BY <1>2, <1>5, <1>6, <1>7, <1>9, <1>10

\* The steps of a call of run_tests, one by one.
LEMMA CallsKeep ==
  ASSUME RunInv, NEW t \in Threads, RunStep(t)
  PROVE  RunInv'
<1> USE DEF RunInv, ReportInv
<1>1. ASSUME Returns(t, FALSE), UNCHANGED reports, Runs(t)
      PROVE RunInv'
  BY <1>1, ReportsReturn DEF RunTypeOK, Last, Current
<1>2. ASSUME step # "none"
      PROVE Current \in Report /\ Last > 0 /\ Current.meta = "none"
  <2>1. Last > 0 /\ Current.meta = "none"
    BY <1>2 DEF CallInv
  <2>2. Last \in 1..Last
    BY <2>1, LenProperties DEF RunTypeOK, Last
  <2> QED
    BY <2>1, <2>2, ElementOfSeq DEF RunTypeOK, Last, Current
<1>3. CASE RefuseRun(t)
  BY <1>1, <1>3 DEF RefuseRun
<1>4. CASE StartRun(t)
  BY <1>4, RunStarts
<1>5. CASE Poll(t)
  <2>1. step = "poll" /\ Current \in Report /\ Current.meta = "none"
    BY <1>2, <1>5 DEF Poll
  <2>2. ASSUME proc = "alive", Reports([Current EXCEPT !.over = TRUE]), Goes("kill"), UNCHANGED proc
        PROVE RunInv'
    <3> DEFINE r == [Current EXCEPT !.over = TRUE]
    <3>1. r \in Report /\ r.cmd = Current.cmd /\ r.meta = "none" /\ Reports(r)
      BY <2>1, <2>2 DEF Report
    <3>2. UNCHANGED vars /\ step' = "kill" /\ proc' = "alive"
      BY <2>2 DEF Goes
    <3> HIDE DEF r
    <3> QED
      BY <2>1, <3>1, <3>2, ReportsGoOn DEF RunSteps
  <2>3. ASSUME proc = "exited", NEW over \in BOOLEAN, Reports([Current EXCEPT !.over = over]),
               Goes("log"), UNCHANGED proc
        PROVE RunInv'
    <3> DEFINE r == [Current EXCEPT !.over = over]
    <3>1. r \in Report /\ r.cmd = Current.cmd /\ r.meta = "none" /\ r.end = Current.end /\ Reports(r)
      BY <2>1, <2>3 DEF Report
    <3>2. UNCHANGED vars /\ step' = "log" /\ proc' = "exited" /\ r.end \in Verdict
      BY <2>1, <2>3, <3>1 DEF Goes, CallInv
    <3> HIDE DEF r
    <3> QED
      BY <2>1, <3>1, <3>2, ReportsGoOn DEF RunSteps
  <2> QED
    BY <1>5, <2>2, <2>3 DEF Poll
<1>6. CASE Kill(t)
  <2>1. step = "kill" /\ Runs(t) /\ Current \in Report /\ Current.meta = "none"
    BY <1>2, <1>6 DEF Kill
  <2>2. ASSUME proc' = "exited", Reports([Current EXCEPT !.end = "failed"]), Goes("log")
        PROVE RunInv'
    <3> DEFINE r == [Current EXCEPT !.end = "failed"]
    <3>1. r \in Report /\ r.cmd = Current.cmd /\ r.meta = "none" /\ r.end \in Verdict /\ Reports(r)
      BY <2>1, <2>2 DEF Report, Verdict
    <3>2. UNCHANGED vars /\ step' = "log" /\ proc' = "exited"
      BY <2>2 DEF Goes
    <3> HIDE DEF r
    <3> QED
      BY <2>1, <3>1, <3>2, ReportsGoOn DEF RunSteps
  <2>3. ASSUME proc = "exited", Goes("log"), UNCHANGED <<proc, reports>>
        PROVE RunInv'
    <3>1. Reports(Current)
      BY <2>3 DEF Reports, Current, RunTypeOK, Last
    <3>2. UNCHANGED vars /\ step' = "log" /\ proc' = "exited" /\ Current.end \in Verdict
      BY <2>1, <2>3 DEF Goes, CallInv
    <3> QED
      BY <2>1, <3>1, <3>2, ReportsGoOn DEF RunSteps
  <2> QED
    BY <1>1, <1>6, <2>1, <2>2, <2>3 DEF Kill
<1>7. CASE WriteLog(t)
  <2>1. step = "log" /\ Runs(t) /\ Current \in Report /\ Current.meta = "none"
    BY <1>2, <1>7 DEF WriteLog
  <2>2. ASSUME Reports([Current EXCEPT !.log = "whole"]), Goes("meta"), UNCHANGED proc
        PROVE RunInv'
    <3> DEFINE r == [Current EXCEPT !.log = "whole"]
    <3>1. /\ r \in Report /\ r.cmd = Current.cmd /\ r.meta = "none" /\ r.log = "whole"
          /\ r.end = Current.end /\ Reports(r)
      BY <2>1, <2>2 DEF Report
    <3>2. /\ UNCHANGED vars /\ step' = "meta" /\ proc' = proc
          /\ proc # "alive" /\ proc \in {"none", "alive", "exited"} /\ Current.end \in Verdict
      BY <2>1, <2>2 DEF Goes, CallInv, RunTypeOK
    <3> HIDE DEF r
    <3> QED
      BY <2>1, <3>1, <3>2, ReportsGoOn DEF RunSteps
  <2> QED
    BY <1>1, <1>7, <2>1, <2>2 DEF WriteLog
<1>8. CASE WriteMeta(t)
  <2>1. step = "meta" /\ Runs(t) /\ Current \in Report /\ Last > 0
    BY <1>2, <1>8 DEF WriteMeta
  <2>2. ASSUME NEW ok \in BOOLEAN, Reports([Current EXCEPT !.meta = VerdictOf]), Returns(t, ok)
        PROVE RunInv'
    <3> DEFINE r == [Current EXCEPT !.meta = VerdictOf]
    <3>1. Current.log = "whole" /\ Current.end \in Verdict
      BY <2>1 DEF CallInv
    <3>2. VerdictOf \in Verdict /\ (VerdictOf = "passed" => Current.end = "passed" /\ ~Current.over)
      BY <3>1 DEF VerdictOf, Verdict
    <3>3. /\ r \in Report /\ r.cmd = Current.cmd /\ r.log = "whole" /\ r.meta # "none"
          /\ r.meta = "passed" => r.end = "passed" /\ ~r.over
          /\ Reports(r)
      BY <2>1, <2>2, <3>1, <3>2 DEF Report, Verdict
    <3> HIDE DEF r
    <3>4. /\ reports' \in Seq(Report) /\ Last' = Last /\ Current' = r
          /\ \A n \in 1..Last : n # Last => reports'[n] = reports[n]
      BY <2>1, <3>3, ReportsChange
    <3> QED
      BY <2>1, <2>2, <3>3, <3>4, ReportsReturn
  <2> QED
    BY <1>1, <1>8, <2>1, <2>2 DEF WriteMeta
<1> QED
  BY <1>3, <1>4, <1>5, <1>6, <1>7, <1>8 DEF RunStep

LEMMA RunsKeep == RunInv /\ [RunNext]_allVars => RunInv'
<1> SUFFICES ASSUME RunInv, [RunNext]_allVars PROVE RunInv'
  OBVIOUS
<1>1. [Next]_vars
  BY RunsAreServed DEF allVars
<1>2. LedgerInv /\ LedgerInv' /\ \A c \in Commands : started'[c] >= started[c]
  BY <1>1, LedgerStep, LogGrows DEF RunInv
<1>3. ASSUME NEW t \in Threads, RunStep(t) PROVE RunInv'
  BY <1>3, CallsKeep
<1>4. ASSUME NEW t \in Threads, UNCHANGED runVars,
             \/ ThreadStep(t) /\ ~Runs(t)
             \/ \E c \in Commands, isLate \in BOOLEAN : Arrive(t, c, isLate)
      PROVE RunInv'
  BY <1>2, <1>4, OthersKeep, ReportsStay
<1>5. ASSUME NEW status \in Verdict, ProcessExits(status) PROVE RunInv'
  <2> DEFINE r == [Current EXCEPT !.end = status]
  <2>1. step \in {"poll", "kill"} /\ Last > 0 /\ Current.meta = "none"
    BY <1>5 DEF ProcessExits, RunInv, ReportInv, CallInv
  <2>2. Current \in Report
    <3>1. Last \in 1..Last
      BY <2>1, LenProperties DEF RunInv, ReportInv, RunTypeOK, Last
    <3> QED
      BY <3>1, ElementOfSeq DEF RunInv, ReportInv, RunTypeOK, Last, Current
  <2>3. r \in Report /\ r.cmd = Current.cmd /\ r.meta = "none" /\ r.end \in Verdict /\ Reports(r)
    BY <1>5, <2>1, <2>2 DEF Report, ProcessExits
  <2>4. UNCHANGED vars /\ step' = step /\ proc' = "exited"
    BY <1>5 DEF ProcessExits
  <2> HIDE DEF r
  <2> QED
    BY <2>1, <2>3, <2>4, ReportsGoOn DEF RunSteps
<1>6. ASSUME UNCHANGED <<pc, cmd, succeeded>>, UNCHANGED runVars PROVE RunInv'
  BY <1>2, <1>6, ReportsStay DEF Runs, Passed
<1>7. CASE RunRestart
  <2>1. /\ UNCHANGED <<disk, reports>> /\ step' = "none" /\ proc' = "none"
        /\ \A u \in Threads : pc'[u] = "idle"
    BY <1>7 DEF RunRestart, Restart
  <2>2. RunTypeOK' /\ CallInv' /\ ReportsAreTrue'
    BY <2>1 DEF RunInv, ReportInv, RunTypeOK, RunSteps, CallInv, ReportsAreTrue, Inspect, Last
  <2>3. \A c \in Tests : Passed(c)' => Passed(c)
    BY <2>1 DEF Passed, disk
  <2>4. /\ \A n \in 1..Last' : started'[reports'[n].cmd] > 0
        /\ \A c \in Tests : Passed(c)' =>
             \E n \in 1..Last' : reports'[n].cmd = c /\ Inspect(n)' = "whole"
    BY <2>1, <2>3 DEF RunInv, ReportInv, Last, Inspect, disk
  <2> QED
    BY <1>2, <2>2, <2>4 DEF RunInv, ReportInv
<1>8. CASE UNCHANGED allVars
  BY <1>6, <1>8 DEF allVars, vars, memory, disk
<1>9. ASSUME NEW c \in Commands, LapseApproval(c), UNCHANGED runVars PROVE RunInv'
  BY <1>6, <1>9 DEF LapseApproval, disk, memory
<1> QED
  BY <1>3, <1>4, <1>5, <1>7, <1>8, <1>9 DEF RunNext, ServiceStep

LEMMA RunIsImplied == RunInv => RecordsAreSound
<1> SUFFICES ASSUME RunInv PROVE RecordsAreSound
  OBVIOUS
<1>1. LedgerIsSound /\ RunTypeOK /\ ReportsAreTrue
  BY LedgerIsImplied DEF RunInv, ReportInv
<1>2. SuccessIsReported
  BY DEF RunInv, ReportInv, SuccessIsReported, Passed
<1> QED
  BY <1>1, <1>2 DEF RecordsAreSound

\* Tests are started only with a line in the audit log, their reports are never
\* read half-written and say "passed" of nothing that failed or ran over, and a
\* run recorded as a success has one - whatever fails, is killed or restarts.
THEOREM RecordsSoundness == RunSpec => []RecordsAreSound
<1> QED
  BY RunsStart, RunsKeep, RunIsImplied, PTL DEF RunSpec

-----------------------------------------------------------------------------
(* What was promised. *)

\* A key whose success was answered is cached with it, and whoever holds the
\* lock works at a key that is not cached.
PromiseInv ==
  /\ \A k \in Keys : promised[k] # NoCommand => completed[k] = Succeeded(promised[k])
  /\ \A t \in Threads : pc[t] \in Locked => completed[KeyOf[cmd[t]]] = NoEntry

KeepsPromises == \A k \in Keys : KeepsPromise(k)

LEMMA PromiseStep ==
  ASSUME LedgerInv, PromiseInv, [Next]_vars
  PROVE  PromiseInv' /\ KeepsPromises
<1> USE CommandAssumption
    DEF LedgerInv, TypeOK, LockInv, PromiseInv, KeepsPromises, KeepsPromise, Locked, Phase,
        vars, disk, memory, clock, observed, Goto, Leave
<1>1. ASSUME NEW t \in Threads, Enter(t)
      PROVE PromiseInv' /\ KeepsPromises
  BY <1>1 DEF Enter, Succeeded, NoEntry
<1>2. ASSUME NEW t \in Threads, NEW write \in Write, LogStarted(t, write)
      PROVE PromiseInv' /\ KeepsPromises
  BY <1>2 DEF LogStarted, Succeeded, NoEntry
<1>3. ASSUME NEW t \in Threads, NEW ok \in BOOLEAN, RunTool(t, ok)
      PROVE PromiseInv' /\ KeepsPromises
  BY <1>3 DEF RunTool, Succeeded, NoEntry
<1>4. ASSUME NEW t \in Threads, NEW write \in Write, WriteEvidence(t, write)
      PROVE PromiseInv' /\ KeepsPromises
  BY <1>4 DEF WriteEvidence, Succeeded, NoEntry
<1>5. ASSUME NEW t \in Threads, NEW write \in Write, LogSucceeded(t, write)
      PROVE PromiseInv' /\ KeepsPromises
  BY <1>5 DEF LogSucceeded, Succeeded, NoEntry
<1>6. ASSUME NEW t \in Threads, NEW status \in Outcome, Answer(t, status)
      PROVE PromiseInv' /\ KeepsPromises
  BY <1>6 DEF Answer, Succeeded, NoEntry
<1>7. ASSUME NEW t \in Threads, NEW write \in Write, WriteFailureEvidence(t, write)
      PROVE PromiseInv' /\ KeepsPromises
  BY <1>7 DEF WriteFailureEvidence, Succeeded, NoEntry
<1>8. ASSUME NEW t \in Threads, NEW write \in Write, LogFailed(t, write)
      PROVE PromiseInv' /\ KeepsPromises
  BY <1>8 DEF LogFailed, Succeeded, NoEntry
<1>9. ASSUME NEW t \in Threads, NEW c \in Commands, NEW isLate \in BOOLEAN, Arrive(t, c, isLate)
      PROVE PromiseInv' /\ KeepsPromises
  BY <1>9 DEF Arrive, Succeeded, NoEntry
<1>10. ASSUME NEW c \in Commands, LapseApproval(c)
      PROVE PromiseInv' /\ KeepsPromises
  BY <1>10 DEF LapseApproval, Succeeded, NoEntry
<1>11. CASE Restart
  BY <1>11 DEF Restart
<1>12. CASE UNCHANGED vars
  BY <1>12
<1> QED
  BY <1>1, <1>2, <1>3, <1>4, <1>5, <1>6, <1>7, <1>8, <1>9, <1>10, <1>11, <1>12 DEF Next, ThreadStep

\* A key once answered with success is not run again and is answered with that
\* success or not at all, until the process dies: BoundExecutionService.execute
\* looks the key up under the lock under which it was stored.
THEOREM PromisesKept == RunSpec => PromisesAreKept
<1>1. RunInit => LedgerInv /\ PromiseInv
  BY LedgerStarts, CommandAssumption DEF RunInit, Init, PromiseInv, Locked
<1>2. LedgerInv /\ PromiseInv /\ [RunNext]_allVars => LedgerInv' /\ PromiseInv'
  BY RunsAreServed, LedgerStep, PromiseStep DEF allVars
<1>3. LedgerInv /\ PromiseInv /\ [RunNext]_allVars => [\A k \in Keys : KeepsPromise(k)]_vars
  BY RunsAreServed, PromiseStep DEF allVars, KeepsPromises
<1> QED
  BY <1>1, <1>2, <1>3, PTL DEF RunSpec, PromisesAreKept

=============================================================================
