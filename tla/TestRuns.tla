------------------------------ MODULE TestRuns ------------------------------
(***************************************************************************)
(* run_tests inside the executor service: DevelopmentToolExecutor starts   *)
(* the command of a registered profile, watches it, kills it when it takes *)
(* too long or writes too much, and leaves a report - a log, and metadata  *)
(* that name it - which inspect_test_log reads later.                      *)
(*                                                                         *)
(* The thread of the call holds the service's lock meanwhile.  The command *)
(* is a process of its own, and does not die with the executor.  A process *)
(* that outlives its call, as what the tests started in their turn may, is *)
(* not followed: nothing kills it later, and only Returns may meet it.     *)
(***************************************************************************)
EXTENDS ExecutorService, Sequences

CONSTANTS
  Tests,   \* the commands that are calls of run_tests
  MaxRuns  \* bound: processes started

ASSUME TestsAssumption == Tests \subseteq Commands /\ MaxRuns \in Nat

VARIABLES
  step,       \* where the call that runs tests stands
  proc,       \* the process it started: "none", "alive", "exited"
  reports     \* the reports, in the order in which processes were started

runVars == <<step, proc, reports>>
allVars == <<vars, runVars>>

RunSteps == {"none", "poll", "kill", "log", "meta"}
Verdict == {"passed", "failed"}
\* What can be read of a report - of a file that was not written to its end,
\* nothing - and what it is about: how the process ended, and whether it was
\* found over its time or its output.
Report == [cmd : Tests, log : {"none", "whole"}, meta : {"none"} \union Verdict,
           end : {"running"} \union Verdict, over : BOOLEAN]

Last == Len(reports)
Current == reports[Last]
Reports(report) == reports' = [reports EXCEPT ![Last] = report]

RunInit == Init /\ step = "none" /\ proc = "none" /\ reports = <<>>

Runs(t) == pc[t] = "run" /\ cmd[t] \in Tests
Goes(next) == step' = next /\ UNCHANGED vars

\* The call is over and what it started forgotten.  The temporary file of the
\* output goes last: where a file that is open cannot be removed, and something
\* the tests started has it open, the call fails whatever its report says.
Returns(t, ok) ==
  /\ RunTool(t, ok)
  /\ step' = "none" /\ proc' = "none"

\* The profile, its executable or its directory is not there, or the process
\* cannot be started.
RefuseRun(t) == Runs(t) /\ step = "none" /\ Returns(t, FALSE) /\ UNCHANGED reports

StartRun(t) ==
  /\ Runs(t) /\ step = "none" /\ Last < MaxRuns
  /\ proc' = "alive"
  /\ reports' = Append(reports, [cmd |-> cmd[t], log |-> "none", meta |-> "none",
                                 end |-> "running", over |-> FALSE])
  /\ Goes("poll")

\* The tests end by themselves.
ProcessExits(status) ==
  /\ proc = "alive"
  /\ proc' = "exited" /\ Reports([Current EXCEPT !.end = status])
  /\ UNCHANGED <<vars, step>>

\* The process is found alive, and over its time or its output; or found
\* ended, with as much output as it may have or more.
Poll(t) ==
  /\ Runs(t) /\ step = "poll"
  /\ \/ proc = "alive" /\ Reports([Current EXCEPT !.over = TRUE]) /\ Goes("kill")
     \/ /\ proc = "exited"
        /\ \E over \in BOOLEAN : Reports([Current EXCEPT !.over = over])
        /\ Goes("log")
  /\ UNCHANGED proc

\* It may have ended since, and may not die in time.
Kill(t) ==
  /\ Runs(t) /\ step = "kill"
  /\ \/ /\ proc = "alive"
        /\ proc' = "exited" /\ Reports([Current EXCEPT !.end = "failed"])
        /\ Goes("log")
     \/ proc = "alive" /\ Returns(t, FALSE) /\ UNCHANGED reports
     \/ /\ proc = "exited"
        /\ Goes("log")
        /\ UNCHANGED <<proc, reports>>

WriteLog(t) ==
  /\ Runs(t) /\ step = "log"
  /\ \/ Reports([Current EXCEPT !.log = "whole"]) /\ Goes("meta") /\ UNCHANGED proc
     \/ Returns(t, FALSE) /\ UNCHANGED reports

\* Broken variant: the exit status alone decides.
VerdictByStatus == Current.end

VerdictOf == IF Current.over THEN "failed" ELSE Current.end

WriteMeta(t) ==
  /\ Runs(t) /\ step = "meta"
  /\ \/ Reports([Current EXCEPT !.meta = VerdictOf]) /\ \E ok \in BOOLEAN : Returns(t, ok)
     \/ Returns(t, FALSE) /\ UNCHANGED reports

\* inspect_test_log: the metadata is read first, and then the log it names.
Inspect(n) == IF reports[n].meta = "none" THEN "unavailable" ELSE reports[n].log

-----------------------------------------------------------------------------
\* A process that was started outlives the executor; its report stays as it is.
RunRestart ==
  /\ Restart
  /\ step' = "none" /\ proc' = "none"
  /\ UNCHANGED reports

RunStep(t) ==
  \/ RefuseRun(t) \/ StartRun(t) \/ Poll(t) \/ Kill(t)
  \/ WriteLog(t) \/ WriteMeta(t)

ServiceStep(t) ==
  \/ RunStep(t)
  \/ ~Runs(t) /\ ThreadStep(t) /\ UNCHANGED runVars

RunNext ==
  \/ \E t \in Threads :
       \/ ServiceStep(t)
       \/ \E c \in Commands, isLate \in BOOLEAN : Arrive(t, c, isLate) /\ UNCHANGED runVars
  \/ \E status \in Verdict : ProcessExits(status)
  \/ \E c \in Commands : LapseApproval(c) /\ UNCHANGED runVars
  \/ RunRestart

\* As in ExecutorService; the tests need not end.
RunSpec == RunInit /\ [][RunNext]_allVars /\ \A t \in Threads : WF_allVars(ServiceStep(t))

-----------------------------------------------------------------------------
(* Properties. *)

RunTypeOK ==
  /\ step \in RunSteps /\ proc \in {"none", "alive", "exited"}
  /\ reports \in Seq(Report)

\* Whoever inspects a report finds the whole log, wherever the executor died;
\* and a report says "passed" only of tests that passed in time.
ReportsAreTrue ==
  \A n \in 1..Last :
    /\ Inspect(n) \in {"unavailable", "whole"}
    /\ reports[n].meta = "passed" => reports[n].end = "passed" /\ ~reports[n].over

\* Tests that the audit log does not name are not started, and a run that it
\* names as succeeded has left a report that can be read.
SuccessIsReported ==
  /\ \A n \in 1..Last : started[reports[n].cmd] > 0
  /\ \A c \in Tests : succeeded[c] > 0 =>
       \E n \in 1..Last : reports[n].cmd = c /\ Inspect(n) = "whole"

\* The service's ledger and the reports of the tests it ran agree with what
\* happened, through failing writes, kills and restarts.
RecordsAreSound ==
  LedgerIsSound /\ RunTypeOK /\ ReportsAreTrue /\ SuccessIsReported

=============================================================================
