---------------------------- MODULE FileMutation ----------------------------
(***************************************************************************)
(* FileMutationExecutor: how the tool executor writes a file of a          *)
(* workspace, and takes a write back.                                      *)
(*                                                                         *)
(* Calls come one at a time (the executor service holds a lock), but the   *)
(* file is not locked: an editor may write or delete it between any two    *)
(* steps, and the process may die there.  A step that fails for another    *)
(* reason ends the call where it stands.  A file's hash is its content, a  *)
(* file that is only begun is Partial.                                     *)
(***************************************************************************)
EXTENDS Naturals, FiniteSets

CONSTANTS
  Texts,       \* contents that are UTF-8
  Binaries,    \* contents that are not
  Executions,  \* execution ids; a backup has the id of its execution
  Absent, Partial, NoExecution,
  Link,        \* in the place of the file: a link, which leads elsewhere
  MaxCalls,    \* bound: calls
  MaxEdits,    \* bound: writes of the editor
  MaxFaults    \* bound: crashes and failing steps

Contents == Texts \union Binaries

ASSUME ContentsAssumption ==
  /\ Texts \intersect Binaries = {}
  /\ {Absent, Partial, Link} \intersect Contents = {}
  /\ Absent # Partial /\ Link \notin {Absent, Partial}
  /\ NoExecution \notin Executions
  /\ {MaxCalls, MaxEdits, MaxFaults} \subseteq Nat

VARIABLES
  access,    \* of the workspace
  file,      \* the target
  backups,   \* the directory of each execution
  partials,  \* the temporary files of executions that have not removed them
  pc, call,  \* the call that runs, and what it has read
  result,    \* how the last call of each execution ended
  calls, edits, faults,
  \* Observation only.
  displaced, \* what calls have put away, with the execution
  raced,     \* executions for which the editor wrote behind the last check
  changed    \* executions whose last call has changed the file

disk == <<file, backups, partials>>
bounds == <<calls, edits, faults>>
observed == <<displaced, raced, changed>>
vars == <<access, disk, pc, call, result, bounds, observed>>

NoBackup == [dir |-> FALSE, before |-> Absent, meta |-> Absent]
\* The metadata names what is in the backup, and what the call makes of it.
Metadata == [existed : BOOLEAN, before : Contents \union {Absent}, after : Contents \union {Absent}]
ASSUME MetadataAssumption == {Absent, Partial} \intersect Metadata = {}
Backup == [dir : BOOLEAN, before : Contents \union {Absent, Partial}, meta : Metadata \union {Absent, Partial}]

Steps == {"idle", "read", "load", "mkdir", "before", "before2", "meta", "meta2",
          "temp", "check", "swap", "unlink", "verify", "diff"}
NoCall == [id |-> NoExecution, op |-> "write", expected |-> Absent, after |-> Absent,
           of |-> NoExecution, before |-> Absent]

Access == {"read_only", "read_write"}

Init ==
  /\ access \in Access
  /\ file \in Contents \union {Absent}
  /\ backups = [e \in Executions |-> NoBackup]
  /\ partials = {}
  /\ pc = "idle" /\ call = NoCall
  /\ result = [e \in Executions |-> "none"]
  /\ calls = 0 /\ edits = 0 /\ faults = 0
  /\ displaced = {} /\ raced = {} /\ changed = {}

-----------------------------------------------------------------------------
Goes(step) == pc' = step /\ UNCHANGED <<call, result, bounds>>

\* The call ends; a temporary file is removed.
Ends(how) ==
  /\ pc' = "idle" /\ call' = NoCall
  /\ result' = [result EXCEPT ![call.id] = how]
  /\ partials' = partials \ {call.id}
  /\ UNCHANGED bounds

Fails == Ends("failed") /\ UNCHANGED <<file, backups>>

\* write_file and apply_patch: the hash of the file that is to be replaced -
\* none for a new file - and the content that replaces it.
Write(e, op, expected, after) ==
  /\ pc = "idle" /\ calls < MaxCalls
  /\ op = "patch" => expected \in Texts
  /\ call' = [id |-> e, op |-> op, expected |-> expected, after |-> after, of |-> NoExecution, before |-> Absent]
  /\ pc' = "read" /\ calls' = calls + 1
  /\ result' = [result EXCEPT ![e] = "running"]
  /\ changed' = changed \ {e}
  /\ UNCHANGED <<disk, edits, faults, displaced, raced>>

\* rollback_file_change: the backup, and the hash of the file as it is.
Rollback(e, b, expected) ==
  /\ pc = "idle" /\ calls < MaxCalls
  /\ call' = [id |-> e, op |-> "rollback", expected |-> expected, after |-> Absent, of |-> b, before |-> Absent]
  /\ pc' = "load" /\ calls' = calls + 1
  /\ result' = [result EXCEPT ![e] = "running"]
  /\ changed' = changed \ {e}
  /\ UNCHANGED <<disk, edits, faults, displaced, raced>>

\* _load_backup: the metadata is whole, and so is the content it speaks of.
Loadable(b) ==
  /\ backups[b].meta \in Metadata
  /\ backups[b].meta.existed => backups[b].before = backups[b].meta.before

\* Broken variant: the backup need not be of the change that is taken back.
LoadAny ==
  /\ pc = "load"
  /\ IF Loadable(call.of)
     THEN /\ pc' = "read"
          /\ call' = [call EXCEPT !.after = IF backups[call.of].meta.existed THEN backups[call.of].before ELSE Absent]
          /\ UNCHANGED <<disk, result, bounds>>
     ELSE Fails
  /\ UNCHANGED observed

\* The backup is of the change that left the file as it is: what it holds is
\* what the call makes of the file.
Load ==
  /\ pc = "load"
  /\ IF Loadable(call.of) /\ backups[call.of].meta.after = call.expected
     THEN /\ pc' = "read"
          /\ call' = [call EXCEPT !.after = IF backups[call.of].meta.existed THEN backups[call.of].before ELSE Absent]
          /\ UNCHANGED <<disk, result, bounds>>
     ELSE Fails
  /\ UNCHANGED observed

\* resolve_file_target: nothing is written into a read-only workspace, nor
\* through a link.
Target == access = "read_write" /\ file # Link

\* The file is as the caller saw it.
Read ==
  /\ pc = "read"
  /\ IF Target /\ file = call.expected
     THEN pc' = "mkdir" /\ call' = [call EXCEPT !.before = file] /\ UNCHANGED <<disk, result, bounds>>
     ELSE Fails
  /\ UNCHANGED observed

-----------------------------------------------------------------------------
(* _store_backup.  No step of it touches what is there already. *)

Mkdir ==
  /\ pc = "mkdir"
  /\ IF backups[call.id].dir THEN Fails
     ELSE /\ backups' = [backups EXCEPT ![call.id].dir = TRUE]
          /\ Goes(IF call.before = Absent THEN "meta" ELSE "before")
          /\ UNCHANGED <<file, partials>>
  /\ UNCHANGED observed

Stores(field, content, next) ==
  /\ backups' = [backups EXCEPT ![call.id][field] = content]
  /\ Goes(next)
  /\ UNCHANGED <<file, partials, observed>>

OpenBefore == pc = "before" /\ Stores("before", Partial, "before2")
WriteBefore == pc = "before2" /\ Stores("before", call.before, "meta")
OpenMeta == pc = "meta" /\ Stores("meta", Partial, "meta2")

WriteMeta ==
  pc = "meta2" /\ Stores("meta",
    [existed |-> call.before # Absent, before |-> call.before, after |-> call.after],
    IF call.op = "rollback" /\ call.after = Absent THEN "check" ELSE "temp")

-----------------------------------------------------------------------------
(* _atomic_replace and _unlink_exact. *)

Temp ==
  /\ pc = "temp"
  /\ partials' = partials \union {call.id}
  /\ Goes(IF call.before = Absent THEN "swap" ELSE "check")
  /\ UNCHANGED <<file, backups, observed>>

\* Broken variant: the file as it is now is not compared with what was read.
CheckExists ==
  /\ pc = "check"
  /\ IF file # Absent THEN Goes("swap") /\ UNCHANGED disk ELSE Fails
  /\ UNCHANGED observed

\* The file is read again; from here to the next step nothing is checked.
Check ==
  /\ pc = "check"
  /\ IF file = call.before THEN Goes("swap") /\ UNCHANGED disk ELSE Fails
  /\ UNCHANGED observed

Swapped ==
  /\ file' = call.after
  /\ displaced' = displaced \union {<<call.id, file>>}
  /\ changed' = changed \union {call.id}
  /\ UNCHANGED raced

\* os.link puts a new file in place only if there is none, os.replace and
\* unlink act on the file whatever it is by now - except that a file which is
\* gone cannot be unlinked.
Swap ==
  /\ pc = "swap"
  /\ IF (call.before = Absent /\ file # Absent) \/ (call.after = Absent /\ file = Absent)
     THEN Fails /\ UNCHANGED observed
     ELSE /\ Swapped
          /\ UNCHANGED backups
          /\ CASE call.op = "rollback" -> Ends("succeeded")
               [] call.before = Absent -> Goes("unlink") /\ UNCHANGED partials
               [] OTHER -> Goes("verify") /\ partials' = partials \ {call.id}

\* A new file is a second name of the temporary one, which goes now.
Unlink ==
  /\ pc = "unlink"
  /\ partials' = partials \ {call.id}
  /\ Goes("verify")
  /\ UNCHANGED <<file, backups, observed>>

Verify ==
  /\ pc = "verify"
  /\ IF file = call.after THEN Goes("diff") /\ UNCHANGED disk ELSE Fails
  /\ UNCHANGED observed

\* _bounded_diff decodes what the file was before.
Diff ==
  /\ pc = "diff"
  /\ Ends(IF call.before \in Binaries THEN "failed" ELSE "succeeded")
  /\ UNCHANGED <<file, backups, observed>>

-----------------------------------------------------------------------------
(* The environment. *)

Edit(content) ==
  /\ edits < MaxEdits /\ content # file
  /\ file' = content /\ edits' = edits + 1
  /\ raced' = (IF pc = "swap" THEN raced \union {call.id} ELSE raced)
  /\ UNCHANGED <<backups, partials, pc, call, result, calls, faults, displaced, changed>>

\* No space, no permission, the backup directory or the parent is replaced.
StepFails ==
  /\ pc \notin {"idle", "diff"} /\ faults < MaxFaults
  /\ faults' = faults + 1
  /\ pc' = "idle" /\ call' = NoCall
  /\ result' = [result EXCEPT ![call.id] = "failed"]
  /\ partials' = partials \ {call.id}
  /\ UNCHANGED <<file, backups, calls, edits, observed>>

Crash ==
  /\ pc # "idle" /\ faults < MaxFaults
  /\ faults' = faults + 1
  /\ pc' = "idle" /\ call' = NoCall
  /\ result' = [result EXCEPT ![call.id] = "crashed"]
  /\ UNCHANGED <<disk, calls, edits, observed>>

-----------------------------------------------------------------------------
Calls ==
  \E e \in Executions :
    \/ \E expected \in Contents \union {Absent}, after \in Texts, op \in {"write", "patch"} :
         Write(e, op, expected, after)
    \/ \E b \in Executions, expected \in Contents : Rollback(e, b, expected)

Progress ==
  \/ Load \/ Read \/ Mkdir \/ OpenBefore \/ WriteBefore \/ OpenMeta \/ WriteMeta
  \/ Temp \/ Check \/ Swap \/ Unlink \/ Verify \/ Diff

Mutate == (Calls \/ Progress \/ StepFails \/ Crash) /\ UNCHANGED access

Next ==
  \/ Mutate
  \/ \E content \in Contents \union {Absent, Link} : Edit(content) /\ UNCHANGED access

-----------------------------------------------------------------------------
(* Properties. *)

TypeOK ==
  /\ access \in Access
  /\ file \in Contents \union {Absent, Link}
  /\ backups \in [Executions -> Backup]
  /\ partials \subseteq Executions
  /\ pc \in Steps /\ (pc = "idle") = (call.id = NoExecution)
  /\ result \in [Executions -> {"none", "running", "succeeded", "failed", "crashed"}]
  /\ calls \in 0..MaxCalls /\ edits \in 0..MaxEdits /\ faults \in 0..MaxFaults

\* What a call put away - a content, or the absence of a file - is in its
\* backup, and the backup can be loaded, even
\* if the process died right afterwards - unless the editor wrote between the
\* last look at the file and its replacement.
NothingIsLost ==
  \A d \in displaced : Loadable(d[1]) /\ (backups[d[1]].before = d[2] \/ d[1] \in raced)

\* A failed call has left the file alone - unless it replaced a file that is
\* not UTF-8, of which no diff can be made, or the editor, or a failing disk,
\* came between the replacement and its verification.
FailuresChangeNothing ==
  \A e \in changed : result[e] = "failed" =>
    backups[e].meta.before \in Binaries \/ edits > 0 \/ faults > 0

\* Temporary files are left behind by crashes only.
PartialsAreRemoved == \A e \in partials : e = call.id \/ faults > 0

\* A read-only workspace is left as it is.
ReadOnlyIsKept == access = "read_only" => displaced = {}

\* No content of a file is lost by a call, whatever the editor, the disk or a
\* crash do to it.
FilesAreSafe ==
  TypeOK /\ NothingIsLost /\ FailuresChangeNothing /\ PartialsAreRemoved /\ ReadOnlyIsKept

\* A rollback takes the file from what the change made of it back to what the
\* change found.
RollbacksUndo ==
  [][\A e \in Executions :
       call.id = e /\ call.op = "rollback" /\ result[e] = "running" /\ result'[e] = "succeeded" =>
         LET meta == backups[call.of].meta
         IN (file = meta.after \/ e \in raced) /\ file' = meta.before]_vars

=============================================================================
