----------------------------- MODULE FileProofs -----------------------------
(***************************************************************************)
(* What holds of the file tools for every set of contents and executions   *)
(* and every number of calls, edits and faults, and of the adapters of the *)
(* browser and the desktop for every number of calls and changes.          *)
(*                                                                         *)
(* That nothing is lost is not inductive.  It follows from what a call has *)
(* put into its backup by the step it stands at (PlaceInv), and from that  *)
(* a backup whose metadata is whole is whole and never touched again       *)
(* (BackupInv): the directory of an execution is made once.                *)
(*                                                                         *)
(* That an action is on what its caller saw needs to know whose each       *)
(* observation is: the number of the call names it, so a job that is still *)
(* queued has observed nothing (JobInv, ToldInv), the elements handed out  *)
(* are of one observation (ElementInv), and a screenshot outlives neither  *)
(* its expiry nor the patience of the caller who holds it (ShotInv).       *)
(***************************************************************************)
EXTENDS WorkspaceFiles, UiAdapters, SequenceTheorems, TLAPS

States == Contents \union {Absent}

CallRecords ==
  [id : Executions, op : {"write", "patch", "rollback"}, expected : States, after : States,
   of : Executions \union {NoExecution}, before : States]

CallInv ==
  /\ pc = "idle" => call = NoCall
  /\ pc # "idle" => call \in CallRecords
  /\ call.op = "rollback" => call.of \in Executions /\ call.expected \in Contents
  /\ pc = "load" => call.op = "rollback"

RunsInv == pc # "idle" => result[call.id] = "running"

\* Metadata that is whole tells the truth of the content beside it.
Whole(e) == backups[e].meta \in Metadata

BackupInv ==
  \A e \in Executions :
    /\ ~backups[e].dir => backups[e] = NoBackup
    /\ Whole(e) => /\ backups[e].meta.existed = (backups[e].meta.before # Absent)
                   /\ backups[e].before = backups[e].meta.before

Storing == {"before", "before2", "meta", "meta2"}
Stored == {"temp", "check", "swap", "unlink", "verify", "diff"}
Unchanged == {"load", "read", "mkdir", "temp", "check", "swap"} \union Storing

\* What a rollback takes back: a change that left the file as it is expected.
Undoes ==
  call.op = "rollback" =>
    /\ Whole(call.of)
    /\ backups[call.of].meta.after = call.expected
    /\ backups[call.of].meta.before = call.after

\* By the step it stands at, a call has looked at the file and put it away.
PlaceInv ==
  /\ pc \in {"read", "mkdir"} \union Storing \union Stored => Undoes
  /\ pc \in {"mkdir"} \union Storing \union Stored => access = "read_write" /\ call.before = call.expected
  /\ pc \in Storing => backups[call.id].dir /\ ~Whole(call.id)
  /\ pc \in {"before", "before2"} => call.before # Absent
  /\ pc \in {"meta", "meta2"} \union Stored => backups[call.id].before = call.before
  /\ pc \in Stored => Whole(call.id) /\ backups[call.id].meta.before = call.before
  /\ pc \in {"unlink", "verify", "diff"} => call.op # "rollback"

\* Between the last look at the file and the end of the call only the editor
\* writes it.
SwapInv ==
  /\ pc = "swap" => call.before = Absent \/ file = call.before \/ call.id \in raced
  /\ pc \in {"unlink", "verify"} => file = call.after \/ edits > 0
  /\ pc \in Unchanged => call.id \notin changed

\* What was ever put away has a whole backup.
PutAwayInv ==
  /\ \A d \in displaced : d[1] \in Executions /\ Whole(d[1])
  /\ changed \subseteq {e \in Executions : Whole(e)}

FileInv == FilesAreSafe /\ CallInv /\ RunsInv /\ BackupInv /\ PlaceInv /\ SwapInv /\ PutAwayInv

-----------------------------------------------------------------------------
(* The writing tools. *)

LEMMA FileStarts == Init => FileInv
<1> SUFFICES ASSUME Init PROVE FileInv
  OBVIOUS
<1> USE ContentsAssumption, MetadataAssumption DEF Init, NoBackup, NoCall
<1>1. TypeOK
  BY DEF TypeOK, Backup, Steps
<1>2. CallInv /\ RunsInv /\ PlaceInv /\ SwapInv
  BY DEF CallInv, RunsInv, PlaceInv, SwapInv, Storing, Stored, Unchanged
<1>3. BackupInv
  BY DEF BackupInv, Whole
<1>4. PutAwayInv /\ NothingIsLost /\ FailuresChangeNothing /\ PartialsAreRemoved /\ ReadOnlyIsKept
  BY DEF PutAwayInv, NothingIsLost, FailuresChangeNothing, PartialsAreRemoved, ReadOnlyIsKept
<1> QED
  BY <1>1, <1>2, <1>3, <1>4 DEF FileInv, FilesAreSafe

\* A call that ends leaves a sound workspace, if it fails only where it has
\* not changed the file or has an excuse.
LEMMA EndIsSafe ==
  ASSUME FileInv, pc # "idle", NEW how \in {"succeeded", "failed", "crashed"},
         pc' = "idle", call' = NoCall, result' = [result EXCEPT ![call.id] = how],
         partials' = partials \ {call.id} \/ (partials' = partials /\ faults' > 0),
         UNCHANGED <<file, backups, access, calls, edits, observed>>,
         faults' = faults \/ (faults < MaxFaults /\ faults' = faults + 1),
         how = "failed" /\ call.id \in changed =>
           backups[call.id].meta.before \in Binaries \/ edits > 0 \/ faults' > 0
  PROVE  FileInv'
<1> USE ContentsAssumption, MetadataAssumption DEF FileInv, FilesAreSafe, observed
<1>0. call.id \in Executions /\ faults \in Nat /\ faults' >= faults
  BY DEF CallInv, CallRecords, TypeOK
<1>1. TypeOK'
  BY <1>0 DEF TypeOK, Steps, NoCall
<1>2. CallInv' /\ RunsInv' /\ PlaceInv' /\ SwapInv'
  BY DEF CallInv, RunsInv, PlaceInv, SwapInv, Storing, Stored, Unchanged, NoCall
<1>3. BackupInv'
  BY DEF BackupInv, Whole
<1>4. PutAwayInv' /\ NothingIsLost' /\ ReadOnlyIsKept'
  BY DEF PutAwayInv, NothingIsLost, Loadable, ReadOnlyIsKept, Whole
<1>5. FailuresChangeNothing'
  <2> SUFFICES ASSUME NEW e \in changed, result'[e] = "failed"
               PROVE  backups[e].meta.before \in Binaries \/ edits > 0 \/ faults' > 0
    BY DEF FailuresChangeNothing
  <2>1. e \in Executions
    BY DEF PutAwayInv
  <2>2. CASE e = call.id
    BY <2>1, <2>2, <1>0 DEF TypeOK
  <2>3. CASE e # call.id
    BY <2>1, <2>3, <1>0 DEF TypeOK, FailuresChangeNothing
  <2> QED
    BY <2>2, <2>3
<1>6. PartialsAreRemoved'
  BY <1>0 DEF PartialsAreRemoved, TypeOK
<1> QED
  BY <1>1, <1>2, <1>3, <1>4, <1>5, <1>6

LEMMA FailIsSafe ==
  ASSUME FileInv, pc \in Unchanged, Fails, UNCHANGED <<access, observed>>
  PROVE  FileInv'
<1>1. call.id \notin changed
  BY DEF FileInv, SwapInv
<1> QED
  BY <1>1, EndIsSafe DEF Fails, Ends, bounds, Unchanged, Storing, FileInv

\* A call that begins has changed nothing yet.
LEMMA BeginIsSafe ==
  ASSUME FileInv, pc = "idle", calls < MaxCalls, NEW e \in Executions,
         pc' \in {"read", "load"}, call' \in CallRecords, call'.id = e,
         call'.op = "rollback" <=> pc' = "load",
         call'.op = "rollback" => call'.of \in Executions /\ call'.expected \in Contents,
         calls' = calls + 1, result' = [result EXCEPT ![e] = "running"], changed' = changed \ {e},
         UNCHANGED <<disk, access, edits, faults, displaced, raced>>
  PROVE  FileInv'
<1> USE ContentsAssumption, MetadataAssumption DEF FileInv, FilesAreSafe, disk
<1>0. call = NoCall /\ NoCall.id = NoExecution
  BY DEF CallInv, NoCall
<1>1. TypeOK'
  BY DEF TypeOK, Steps, CallRecords
<1>2. CallInv' /\ RunsInv' /\ PlaceInv' /\ SwapInv'
  BY DEF CallInv, RunsInv, PlaceInv, SwapInv, Storing, Stored, Unchanged, Undoes, TypeOK
<1>3. BackupInv'
  BY DEF BackupInv, Whole
<1>4. PutAwayInv' /\ NothingIsLost' /\ ReadOnlyIsKept'
  BY DEF PutAwayInv, NothingIsLost, Loadable, ReadOnlyIsKept, Whole
<1>5. FailuresChangeNothing' /\ PartialsAreRemoved'
  BY <1>0 DEF FailuresChangeNothing, PartialsAreRemoved, TypeOK, PutAwayInv
<1> QED
  BY <1>1, <1>2, <1>3, <1>4, <1>5

\* A step that only goes on: what it has read, and where it stands next.
LEMMA GoIsSafe ==
  ASSUME FileInv, pc # "idle", pc' \in Steps \ {"idle", "load"},
         call' \in CallRecords, call'.id = call.id, call'.op = call.op, call'.of = call.of,
         call'.expected = call.expected,
         UNCHANGED <<disk, access, result, bounds, observed>>,
         PlaceInv', SwapInv'
  PROVE  FileInv'
<1> USE ContentsAssumption, MetadataAssumption DEF FileInv, FilesAreSafe, disk, bounds, observed
<1>1. TypeOK'
  BY DEF TypeOK, CallRecords
<1>2. CallInv' /\ RunsInv'
  BY DEF CallInv, RunsInv
<1>3. BackupInv'
  BY DEF BackupInv, Whole
<1>4. PutAwayInv' /\ NothingIsLost' /\ ReadOnlyIsKept'
  BY DEF PutAwayInv, NothingIsLost, Loadable, ReadOnlyIsKept, Whole
<1>5. FailuresChangeNothing' /\ PartialsAreRemoved'
  BY DEF FailuresChangeNothing, PartialsAreRemoved
<1> QED
  BY <1>1, <1>2, <1>3, <1>4, <1>5

\* A step that writes into the backup of the call, which is not whole yet.
LEMMA StoreIsSafe ==
  ASSUME FileInv, pc # "idle", pc' \in Steps \ {"idle", "load"}, ~Whole(call.id), call.id \notin changed,
         NEW b \in Backup, backups' = [backups EXCEPT ![call.id] = b], b.dir,
         b.meta \in Metadata => b.meta.existed = (b.meta.before # Absent) /\ b.before = b.meta.before,
         UNCHANGED <<call, file, partials, access, result, bounds, observed>>,
         PlaceInv', SwapInv'
  PROVE  FileInv'
<1> USE ContentsAssumption, MetadataAssumption DEF FileInv, FilesAreSafe, bounds, observed
<1>0. call \in CallRecords /\ call.id \in Executions
  BY DEF CallInv, CallRecords
<1>00. backups' \in [Executions -> Backup] /\ backups'[call.id] = b
       /\ \A e \in Executions \ {call.id} : backups'[e] = backups[e]
  BY <1>0 DEF TypeOK
<1>1. TypeOK'
  BY <1>0, <1>00 DEF TypeOK
<1>2. CallInv' /\ RunsInv'
  BY DEF CallInv, RunsInv
<1>3. BackupInv'
  BY <1>00 DEF BackupInv, Whole
<1>4. PutAwayInv' /\ NothingIsLost' /\ ReadOnlyIsKept'
  BY <1>00 DEF PutAwayInv, NothingIsLost, Loadable, ReadOnlyIsKept, Whole
<1>5. FailuresChangeNothing' /\ PartialsAreRemoved'
  BY <1>00 DEF FailuresChangeNothing, PartialsAreRemoved, PutAwayInv
<1> QED
  BY <1>1, <1>2, <1>3, <1>4, <1>5

\* What a rollback takes back is not what it is about to store.
LEMMA StoresElsewhere ==
  ASSUME FileInv, call.op = "rollback", Undoes, ~Whole(call.id)
  PROVE  call.of # call.id
BY DEF Undoes

LEMMA CallsStep == FileInv /\ Calls /\ UNCHANGED access => FileInv'
<1> SUFFICES ASSUME FileInv, Calls, UNCHANGED access PROVE FileInv'
  OBVIOUS
<1> USE ContentsAssumption
<1>1. ASSUME NEW e \in Executions, NEW expected \in States, NEW after \in Texts,
             NEW op \in {"write", "patch"}, Write(e, op, expected, after)
      PROVE  FileInv'
  BY <1>1, BeginIsSafe DEF Write, States, CallRecords, Contents
<1>2. ASSUME NEW e \in Executions, NEW b \in Executions, NEW expected \in Contents, Rollback(e, b, expected)
      PROVE  FileInv'
  BY <1>2, BeginIsSafe DEF Rollback, States, CallRecords
<1> QED
  BY <1>1, <1>2 DEF Calls, States

LEMMA ReadingStep == FileInv /\ (Load \/ Read) /\ UNCHANGED access => FileInv'
<1> SUFFICES ASSUME FileInv, Load \/ Read, UNCHANGED access PROVE FileInv'
  OBVIOUS
<1> USE ContentsAssumption, MetadataAssumption
<1>1. CASE Load
  <2> DEFINE fits == Loadable(call.of) /\ backups[call.of].meta.after = call.expected
  <2>0. pc = "load" /\ call \in CallRecords /\ call.op = "rollback" /\ call.of \in Executions
        /\ call.id \notin changed
    BY <1>1 DEF Load, FileInv, CallInv, SwapInv, Unchanged
  <2>1. CASE fits
    <3> DEFINE meta == backups[call.of].meta
    <3>1. Whole(call.of) /\ meta.before \in States
          /\ (IF meta.existed THEN backups[call.of].before ELSE Absent) = meta.before
      BY <2>0, <2>1 DEF Loadable, Whole, FileInv, BackupInv, Metadata, States
    <3>2. pc' = "read" /\ call' = [call EXCEPT !.after = meta.before]
          /\ UNCHANGED <<disk, result, bounds, observed>>
      BY <1>1, <2>1, <3>1 DEF Load, Fails
    <3> HIDE DEF fits
    <3>3. call' = [call EXCEPT !.after = meta.before] /\ call' \in CallRecords
      BY <3>1, <3>2, <2>0 DEF CallRecords
    <3>4. PlaceInv' /\ SwapInv'
      BY <2>0, <2>1, <3>1, <3>2 DEF PlaceInv, SwapInv, Storing, Stored, Unchanged, Undoes, disk, observed, bounds,
           CallRecords, Whole, fits
    <3> QED
      BY <2>0, <3>2, <3>3, <3>4, GoIsSafe DEF Steps, CallRecords
  <2>2. CASE ~fits
    BY <1>1, <2>0, <2>2, FailIsSafe DEF Load, Unchanged
  <2> QED
    BY <2>1, <2>2
<1>2. CASE Read
  <2>0. pc = "read" /\ call \in CallRecords /\ call.id \notin changed /\ Undoes
    BY <1>2 DEF Read, FileInv, CallInv, SwapInv, Unchanged, PlaceInv
  <2>1. CASE Target /\ file = call.expected
    <3>1. pc' = "mkdir" /\ call' = [call EXCEPT !.before = file] /\ UNCHANGED <<disk, result, bounds, observed>>
      BY <1>2, <2>1 DEF Read
    <3>2. call' \in CallRecords
      BY <2>0, <2>1, <3>1 DEF CallRecords, Target
    <3>3. PlaceInv' /\ SwapInv'
      BY <2>0, <2>1, <3>1 DEF PlaceInv, SwapInv, Storing, Stored, Unchanged, Undoes, disk, observed, bounds,
           CallRecords, Whole, Target
    <3> QED
      BY <2>0, <3>1, <3>2, <3>3, GoIsSafe DEF Steps, CallRecords
  <2>2. CASE ~(Target /\ file = call.expected)
    BY <1>2, <2>0, <2>2, FailIsSafe DEF Read, Unchanged
  <2> QED
    BY <2>1, <2>2
<1> QED
  BY <1>1, <1>2

LEMMA StoringStep ==
  FileInv /\ (Mkdir \/ OpenBefore \/ WriteBefore \/ OpenMeta \/ WriteMeta) /\ UNCHANGED access => FileInv'
<1> SUFFICES ASSUME FileInv, Mkdir \/ OpenBefore \/ WriteBefore \/ OpenMeta \/ WriteMeta, UNCHANGED access
             PROVE  FileInv'
  OBVIOUS
<1> USE ContentsAssumption, MetadataAssumption
<1> DEFINE mine == backups[call.id]
<1>0. /\ pc \in {"mkdir"} \union Storing /\ call \in CallRecords /\ call.id \in Executions
      /\ call.id \notin changed /\ Undoes /\ access = "read_write" /\ call.before = call.expected
      /\ mine \in Backup
  BY DEF Mkdir, OpenBefore, WriteBefore, OpenMeta, WriteMeta, Storing, FileInv, FilesAreSafe, TypeOK, CallInv,
       CallRecords, SwapInv, Unchanged, PlaceInv
<1>1. CASE pc = "mkdir" /\ mine.dir
  BY <1>0, <1>1, FailIsSafe DEF Mkdir, OpenBefore, WriteBefore, OpenMeta, WriteMeta, Unchanged
<1>2. ASSUME ~(pc = "mkdir" /\ mine.dir)
      PROVE  ~Whole(call.id) /\ (pc = "mkdir" => mine = NoBackup) /\ (pc # "mkdir" => mine.dir)
  <2>1. NoBackup.meta = Absent
    BY DEF NoBackup
  <2>2. CASE pc = "mkdir"
    <3>1. mine = NoBackup
      BY <1>0, <1>2, <2>2 DEF FileInv, BackupInv
    <3> QED
      BY <2>1, <2>2, <3>1 DEF Whole
  <2>3. CASE pc \in Storing
    BY <2>3 DEF FileInv, PlaceInv, Storing
  <2> QED
    BY <1>0, <2>2, <2>3
\* Whatever is stored, what the call takes back stays where it is.
<1>3. ASSUME NEW b \in Backup, ~Whole(call.id), b.dir,
             backups' = [backups EXCEPT ![call.id] = b],
             pc' \in Storing => b.meta \notin Metadata,
             pc' \in {"before", "before2"} => call.before # Absent,
             pc' \in {"meta", "meta2"} \union Stored => b.before = call.before,
             pc' \in Stored => b.meta = [existed |-> call.before # Absent, before |-> call.before, after |-> call.after],
             pc' \in Storing \union {"temp", "check"},
             b.meta \in Metadata => pc' \in Stored,
             UNCHANGED <<call, file, partials, result, bounds, observed>>
      PROVE  FileInv'
  <2>1. backups'[call.id] = b /\ \A e \in Executions \ {call.id} : backups'[e] = backups[e]
    BY <1>0, <1>3 DEF FileInv, FilesAreSafe, TypeOK
  <2>2. call.op = "rollback" => call.of \in Executions \ {call.id}
    BY <1>0, <1>3, StoresElsewhere DEF FileInv, CallInv
  <2>3. Undoes'
    BY <1>0, <1>3, <2>1, <2>2 DEF Undoes, Whole
  <2>4. pc' \in Stored => b.meta \in Metadata /\ b.meta.before = call.before
                          /\ b.meta.existed = (call.before # Absent)
    <3> DEFINE meta == [existed |-> call.before # Absent, before |-> call.before, after |-> call.after]
    <3>1. meta \in Metadata /\ meta.before = call.before /\ meta.existed = (call.before # Absent)
      BY <1>0 DEF Metadata, CallRecords, States
    <3>2. pc' \in Stored => b.meta = meta
      BY <1>3
    <3> HIDE DEF meta
    <3> QED
      BY <3>1, <3>2
  <2>5. PlaceInv'
    BY <1>0, <1>3, <2>1, <2>3, <2>4 DEF PlaceInv, Whole, Storing, Stored
  <2>6. SwapInv'
    BY <1>0, <1>3 DEF SwapInv, Unchanged, Storing, Stored, observed
  <2>7. b.meta \in Metadata => b.meta.existed = (b.meta.before # Absent) /\ b.before = b.meta.before
    BY <1>3, <2>4
  <2>8. pc' \in Steps \ {"idle", "load"} /\ pc # "idle"
    BY <1>0, <1>3 DEF Steps, Storing
  <2> QED
    BY <1>0, <1>3, <2>5, <2>6, <2>7, <2>8, StoreIsSafe
<1>4. CASE pc = "mkdir" /\ ~mine.dir /\ Mkdir
  <2> DEFINE b == [mine EXCEPT !.dir = TRUE]
  <2>1. mine = NoBackup /\ ~Whole(call.id)
    BY <1>2, <1>4
  <2>2. b \in Backup /\ b.dir /\ b.before = Absent /\ b.meta \notin Metadata
    <3>1. b = [NoBackup EXCEPT !.dir = TRUE]
      BY <2>1
    <3>2. NoBackup \in Backup /\ NoBackup.before = Absent /\ NoBackup.meta = Absent
      BY DEF NoBackup, Backup
    <3> HIDE DEF b
    <3> QED
      BY <3>1, <3>2 DEF Backup
  <2>3. backups' = [backups EXCEPT ![call.id] = b]
    BY <1>4, <1>0 DEF Mkdir, FileInv, FilesAreSafe, TypeOK
  <2>4. pc' = (IF call.before = Absent THEN "meta" ELSE "before")
        /\ UNCHANGED <<call, file, partials, result, bounds, observed>>
    BY <1>4 DEF Mkdir, Goes
  <2> HIDE DEF b
  <2> QED
    BY <1>3, <2>1, <2>2, <2>3, <2>4 DEF Storing, Stored
<1>5. ASSUME NEW field \in {"before", "meta"}, NEW content, NEW next, Stores(field, content, next)
      PROVE  /\ field = "before" => backups' = [backups EXCEPT ![call.id] = [mine EXCEPT !.before = content]]
             /\ field = "meta" => backups' = [backups EXCEPT ![call.id] = [mine EXCEPT !.meta = content]]
             /\ pc' = next /\ UNCHANGED <<call, file, partials, result, bounds, observed>>
  BY <1>5, <1>0 DEF Stores, Goes, FileInv, FilesAreSafe, TypeOK
<1>6. CASE OpenBefore
  <2> DEFINE b == [mine EXCEPT !.before = Partial]
  <2>1. pc = "before" /\ ~Whole(call.id) /\ mine.dir /\ call.before # Absent
    BY <1>6, <1>2 DEF OpenBefore, FileInv, PlaceInv
  <2>2. b \in Backup /\ b.dir /\ b.meta \notin Metadata
    BY <1>0, <2>1 DEF Backup, Whole
  <2>3. backups' = [backups EXCEPT ![call.id] = b] /\ pc' = "before2"
        /\ UNCHANGED <<call, file, partials, result, bounds, observed>>
    BY <1>6, <1>5 DEF OpenBefore
  <2> HIDE DEF b
  <2> QED
    BY <1>3, <2>1, <2>2, <2>3 DEF Storing, Stored
<1>7. CASE WriteBefore
  <2> DEFINE b == [mine EXCEPT !.before = call.before]
  <2>1. pc = "before2" /\ ~Whole(call.id) /\ mine.dir /\ call.before # Absent
    BY <1>7, <1>2 DEF WriteBefore, FileInv, PlaceInv
  <2>2. b \in Backup /\ b.dir /\ b.meta \notin Metadata /\ b.before = call.before
    BY <1>0, <2>1 DEF Backup, Whole, CallRecords, States
  <2>3. backups' = [backups EXCEPT ![call.id] = b] /\ pc' = "meta"
        /\ UNCHANGED <<call, file, partials, result, bounds, observed>>
    BY <1>7, <1>5 DEF WriteBefore
  <2> HIDE DEF b
  <2> QED
    BY <1>3, <2>1, <2>2, <2>3 DEF Storing, Stored
<1>8. CASE OpenMeta
  <2> DEFINE b == [mine EXCEPT !.meta = Partial]
  <2>1. pc = "meta" /\ ~Whole(call.id) /\ mine.dir /\ mine.before = call.before
    BY <1>8, <1>2 DEF OpenMeta, FileInv, PlaceInv
  <2>2. b \in Backup /\ b.dir /\ b.meta \notin Metadata /\ b.before = call.before
    BY <1>0, <2>1 DEF Backup
  <2>3. backups' = [backups EXCEPT ![call.id] = b] /\ pc' = "meta2"
        /\ UNCHANGED <<call, file, partials, result, bounds, observed>>
    BY <1>8, <1>5 DEF OpenMeta
  <2> HIDE DEF b
  <2> QED
    BY <1>3, <2>1, <2>2, <2>3 DEF Storing, Stored
<1>9. CASE WriteMeta
  <2> DEFINE meta == [existed |-> call.before # Absent, before |-> call.before, after |-> call.after]
             b == [mine EXCEPT !.meta = meta]
  <2>1. pc = "meta2" /\ ~Whole(call.id) /\ mine.dir /\ mine.before = call.before
    BY <1>9, <1>2 DEF WriteMeta, FileInv, PlaceInv
  <2>2. meta \in Metadata
    BY <1>0 DEF Metadata, CallRecords, States
  <2>3. b \in Backup /\ b.dir /\ b.meta = meta /\ b.before = call.before
    BY <1>0, <2>1, <2>2 DEF Backup
  <2>4. backups' = [backups EXCEPT ![call.id] = b] /\ pc' \in {"check", "temp"}
        /\ UNCHANGED <<call, file, partials, result, bounds, observed>>
    BY <1>9, <1>5 DEF WriteMeta
  <2> HIDE DEF b
  <2> QED
    BY <1>3, <2>1, <2>3, <2>4 DEF Storing, Stored
<1> QED
  BY <1>1, <1>4, <1>6, <1>7, <1>8, <1>9 DEF Mkdir

\* The replacement: what it displaces was put away, or the editor raced it.
LEMMA SwapIsSafe ==
  ASSUME FileInv, pc = "swap", ~((call.before = Absent /\ file # Absent) \/ (call.after = Absent /\ file = Absent)),
         Swap, UNCHANGED access
  PROVE  FileInv'
<1> USE ContentsAssumption, MetadataAssumption
<1>0. /\ call \in CallRecords /\ call.id \in Executions /\ access = "read_write" /\ Whole(call.id)
      /\ backups[call.id].before = call.before /\ (file = call.before \/ call.id \in raced)
      /\ call.op = "rollback" => call.before # Absent
  BY DEF FileInv, CallInv, CallRecords, PlaceInv, SwapInv, Stored
<1>1. /\ file' = call.after /\ displaced' = displaced \union {<<call.id, file>>}
      /\ changed' = changed \union {call.id} /\ UNCHANGED <<raced, backups, bounds>>
  BY DEF Swap, Swapped, Ends, Goes
<1>2. \/ /\ pc' = "idle" /\ call' = NoCall /\ result' = [result EXCEPT ![call.id] = "succeeded"]
         /\ partials' = partials \ {call.id}
      \/ /\ pc' = "unlink" /\ call.op # "rollback" /\ UNCHANGED <<call, result, partials>>
      \/ /\ pc' = "verify" /\ call.op # "rollback" /\ UNCHANGED <<call, result>>
         /\ partials' = partials \ {call.id}
  <2>1. CASE call.op = "rollback"
    BY <1>0, <2>1 DEF Swap, Ends
  <2>2. CASE call.op # "rollback" /\ call.before = Absent
    BY <2>2 DEF Swap, Goes
  <2>3. CASE call.op # "rollback" /\ call.before # Absent
    BY <2>3 DEF Swap, Goes
  <2> QED
    BY <2>1, <2>2, <2>3
<1>3. TypeOK'
  BY <1>0, <1>1, <1>2 DEF TypeOK, FileInv, FilesAreSafe, Steps, bounds, CallRecords, States, NoCall
<1>4. CallInv' /\ RunsInv'
  BY <1>0, <1>1, <1>2 DEF CallInv, RunsInv, FileInv, NoCall
<1>5. PlaceInv' /\ SwapInv'
  BY <1>0, <1>1, <1>2 DEF PlaceInv, SwapInv, FileInv, Storing, Stored, Unchanged, Undoes, Whole
<1>6. BackupInv'
  BY <1>1 DEF BackupInv, FileInv, Whole
<1>7. PutAwayInv' /\ ReadOnlyIsKept'
  BY <1>0, <1>1 DEF PutAwayInv, ReadOnlyIsKept, FileInv, FilesAreSafe, Whole
<1>8. NothingIsLost'
  <2>1. Loadable(call.id) /\ (backups[call.id].before = file \/ call.id \in raced)
    BY <1>0 DEF FileInv, BackupInv, Loadable, Whole
  <2> QED
    BY <1>1, <2>1 DEF NothingIsLost, FileInv, FilesAreSafe, Loadable
<1>9. PartialsAreRemoved'
  BY <1>0, <1>1, <1>2 DEF PartialsAreRemoved, FileInv, FilesAreSafe, TypeOK, bounds
<1>10. FailuresChangeNothing'
  <2>1. SUFFICES ASSUME NEW e \in changed', result'[e] = "failed"
                 PROVE  backups[e].meta.before \in Binaries \/ edits > 0 \/ faults > 0
    BY <1>1 DEF FailuresChangeNothing, bounds
  <2>2. result' = [result EXCEPT ![call.id] = "succeeded"] \/ result' = result
    BY <1>2
  <2>3. e \in changed \/ e = call.id
    BY <1>1, <2>1
  <2>4. e \in Executions /\ result \in [Executions -> {"none", "running", "succeeded", "failed", "crashed"}]
    BY <1>0, <2>3 DEF FileInv, FilesAreSafe, TypeOK, PutAwayInv
  <2>5. e # call.id
    BY <2>1, <2>2, <2>4, <1>0, <1>2 DEF FileInv, RunsInv
  <2> QED
    BY <2>1, <2>2, <2>3, <2>4, <2>5 DEF FailuresChangeNothing, FileInv, FilesAreSafe
<1> QED
  BY <1>3, <1>4, <1>5, <1>6, <1>7, <1>8, <1>9, <1>10 DEF FileInv, FilesAreSafe

LEMMA ReplacingStep ==
  FileInv /\ (Temp \/ Check \/ Swap \/ Unlink \/ Verify \/ Diff) /\ UNCHANGED access => FileInv'
<1> SUFFICES ASSUME FileInv, Temp \/ Check \/ Swap \/ Unlink \/ Verify \/ Diff, UNCHANGED access
             PROVE  FileInv'
  OBVIOUS
<1> USE ContentsAssumption, MetadataAssumption
<1>0. /\ call \in CallRecords /\ call.id \in Executions /\ Whole(call.id) /\ Undoes
      /\ access = "read_write" /\ call.before = call.expected
      /\ backups[call.id].before = call.before /\ backups[call.id].meta.before = call.before
      /\ pc \in Stored /\ result[call.id] = "running"
  BY DEF Temp, Check, Swap, Unlink, Verify, Diff, Stored, FileInv, CallInv, CallRecords, PlaceInv, RunsInv
\* Only the temporary file and the place of the call change.
<1>1. ASSUME pc' \in {"check", "swap", "verify", "diff"},
             pc' = "swap" => call.before = Absent \/ file = call.before \/ call.id \in raced,
             pc' = "verify" => file = call.after \/ edits > 0,
             pc' \in Unchanged => call.id \notin changed,
             pc' \in {"verify", "diff"} => call.op # "rollback",
             partials' \in {partials, partials \union {call.id}, partials \ {call.id}},
             UNCHANGED <<call, file, backups, access, result, bounds, observed>>
      PROVE  FileInv'
  <2>1. PlaceInv' /\ SwapInv'
    BY <1>0, <1>1 DEF PlaceInv, SwapInv, Storing, Stored, Undoes, Whole, Unchanged, bounds, observed
  <2>2. TypeOK'
    BY <1>0, <1>1 DEF TypeOK, FileInv, FilesAreSafe, bounds, Steps, CallRecords
  <2>3. CallInv' /\ RunsInv' /\ BackupInv' /\ PutAwayInv'
    BY <1>0, <1>1 DEF CallInv, RunsInv, BackupInv, PutAwayInv, FileInv, Whole, observed
  <2>4. NothingIsLost' /\ ReadOnlyIsKept' /\ FailuresChangeNothing' /\ PartialsAreRemoved'
    BY <1>0, <1>1 DEF NothingIsLost, Loadable, ReadOnlyIsKept, FailuresChangeNothing, PartialsAreRemoved,
         FileInv, FilesAreSafe, bounds, observed
  <2> QED
    BY <2>1, <2>2, <2>3, <2>4 DEF FileInv, FilesAreSafe
<1>2. CASE Temp
  BY <1>1, <1>2 DEF Temp, Goes, bounds, observed, FileInv, SwapInv, Unchanged
<1>3. CASE Check
  <2>1. CASE file = call.before
    BY <1>1, <1>3, <2>1 DEF Check, Goes, disk, bounds, observed, FileInv, SwapInv, Unchanged
  <2>2. CASE file # call.before
    BY <1>3, <2>2, FailIsSafe DEF Check, Unchanged
  <2> QED
    BY <2>1, <2>2
<1>4. CASE Swap
  <2>1. CASE (call.before = Absent /\ file # Absent) \/ (call.after = Absent /\ file = Absent)
    BY <1>4, <2>1, FailIsSafe DEF Swap, Unchanged
  <2> QED
    BY <1>4, <2>1, SwapIsSafe DEF Swap
<1>5. CASE Unlink
  BY <1>1, <1>5 DEF Unlink, Goes, bounds, observed, FileInv, SwapInv, PlaceInv, Unchanged, Storing
<1>6. CASE Verify
  <2>1. CASE file = call.after
    BY <1>1, <1>6, <2>1 DEF Verify, Goes, disk, bounds, observed, FileInv, PlaceInv, Unchanged, Storing
  <2>2. CASE file # call.after
    <3>1. edits > 0
      BY <1>6, <2>2 DEF Verify, FileInv, SwapInv
    <3> QED
      BY <1>0, <1>6, <2>2, <3>1, EndIsSafe DEF Verify, Fails, Ends, bounds, Stored
  <2> QED
    BY <2>1, <2>2
<1>7. CASE Diff
  <2>1. Ends(IF call.before \in Binaries THEN "failed" ELSE "succeeded") /\ UNCHANGED <<file, backups, observed>>
    BY <1>7 DEF Diff
  <2>2. CASE call.before \in Binaries
    BY <1>0, <2>1, <2>2, EndIsSafe DEF Ends, bounds, Stored
  <2>3. CASE call.before \notin Binaries
    BY <1>0, <2>1, <2>3, EndIsSafe DEF Ends, bounds, Stored
  <2> QED
    BY <2>2, <2>3
<1> QED
  BY <1>2, <1>3, <1>4, <1>5, <1>6, <1>7

LEMMA FaultStep == FileInv /\ (StepFails \/ Crash) /\ UNCHANGED access => FileInv'
<1> SUFFICES ASSUME FileInv, StepFails \/ Crash, UNCHANGED access PROVE FileInv'
  OBVIOUS
<1>0. faults \in Nat /\ MaxFaults \in Nat
  BY ContentsAssumption DEF FileInv, FilesAreSafe, TypeOK
<1>1. CASE StepFails
  BY <1>0, <1>1, EndIsSafe DEF StepFails, observed
<1>2. CASE Crash
  BY <1>0, <1>2, EndIsSafe DEF Crash, disk, observed
<1> QED
  BY <1>1, <1>2

LEMMA EditStep ==
  ASSUME FileInv, NEW content \in Contents \union {Absent, Link}, Edit(content), UNCHANGED access
  PROVE  FileInv'
<1> USE ContentsAssumption, MetadataAssumption DEF Edit
<1>1. TypeOK' /\ edits' > 0
  BY DEF FileInv, FilesAreSafe, TypeOK
<1>2. CallInv' /\ RunsInv' /\ BackupInv' /\ PlaceInv' /\ PutAwayInv'
  BY DEF FileInv, CallInv, RunsInv, BackupInv, PlaceInv, PutAwayInv, Undoes, Whole
<1>3. SwapInv'
  BY <1>1 DEF FileInv, SwapInv
<1>4. NothingIsLost' /\ ReadOnlyIsKept' /\ FailuresChangeNothing' /\ PartialsAreRemoved'
  BY <1>1 DEF NothingIsLost, Loadable, ReadOnlyIsKept, FailuresChangeNothing, PartialsAreRemoved,
       FileInv, FilesAreSafe
<1> QED
  BY <1>1, <1>2, <1>3, <1>4 DEF FileInv, FilesAreSafe

LEMMA MutateStep == FileInv /\ Mutate => FileInv'
BY CallsStep, ReadingStep, StoringStep, ReplacingStep, FaultStep DEF Mutate, Progress

\* A stutter of the file tools: another call of the service runs.
LEMMA FileStutter == FileInv /\ UNCHANGED <<access, disk, pc, call, result, edits, faults, observed>>
                     /\ calls' \in 0..MaxCalls => FileInv'
BY DEF disk, observed, FileInv, FilesAreSafe, TypeOK, CallInv, RunsInv, BackupInv, PlaceInv, SwapInv,
     PutAwayInv, Undoes, Whole, NothingIsLost, Loadable, ReadOnlyIsKept, FailuresChangeNothing, PartialsAreRemoved

-----------------------------------------------------------------------------
(* The reading tools. *)

\* What a reading call holds is what the path named at some moment of it, by
\* the time that what is open was compared with what the path names.
ViewInv ==
  /\ node <= edits + 1
  /\ view.tool \in Listings \union Readings
  /\ at # "idle" => file \in named
  /\ at = "verify" => view.opened = Foreign \/ view.held \in named \intersect Contents
  /\ at \in {"first", "rest"} => view.held \in named \intersect Contents
  /\ at = "rest" => view.first \in named \intersect Contents /\ (view.first = view.held \/ rewritten)

ViewRecords ==
  [tool : Listings \union Readings, seen : Nat, opened : Nat, held : Contents \union {Absent, Outside},
   first : Contents \union {Absent, Outside}]

WorkspaceInv == WorkspaceIsSound /\ FileInv /\ view \in ViewRecords /\ ViewInv

LEMMA WorkspaceStarts == FilesInit => WorkspaceInv
<1> SUFFICES ASSUME FilesInit PROVE WorkspaceInv
  OBVIOUS
<1>1. FileInv
  BY FileStarts DEF FilesInit
<1>2. ReadTypeOK /\ view \in ViewRecords
  BY ContentsAssumption DEF FilesInit, ReadTypeOK, Answers, NoAnswer, ViewRecords, NoView, Readings, Foreign
<1>3. ReadsAreOfTheFile /\ ViewInv
  BY DEF FilesInit, Init, ReadsAreOfTheFile, NoAnswer, ViewInv, NoView, Readings
<1> QED
  BY <1>1, <1>2, <1>3 DEF WorkspaceInv, WorkspaceIsSound, FileInv

LEMMA AskStep ==
  ASSUME WorkspaceInv, NEW tool \in Listings \union Readings, Ask(tool)
  PROVE  WorkspaceInv'
<1> USE ContentsAssumption DEF Ask
<1>1. FileInv'
  BY FileStutter DEF WorkspaceInv, FileInv, FilesAreSafe, TypeOK
<1>2. ReadTypeOK' /\ view' \in ViewRecords
  BY DEF WorkspaceInv, WorkspaceIsSound, ReadTypeOK, Answers, NoAnswer, ViewRecords, NoView, Foreign, FileInv,
       FilesAreSafe, TypeOK
<1>3. ReadsAreOfTheFile'
  BY DEF ReadsAreOfTheFile, NoAnswer
<1>4. ViewInv'
  <2>1. edits \in Nat
    BY DEF WorkspaceInv, FileInv, FilesAreSafe, TypeOK
  <2>2. at' \in {"scan", "resolve"} /\ view'.tool = tool
    BY DEF NoView
  <2> QED
    BY <2>1, <2>2 DEF ViewInv, disk
<1> QED
  BY <1>1, <1>2, <1>3, <1>4 DEF WorkspaceInv, WorkspaceIsSound, FileInv

\* An answer: a content that it returns is one that it may return.
LEMMA SaysIsSound ==
  ASSUME WorkspaceInv, UNCHANGED fileVars, NEW how, NEW content, Says(how, content),
         [how |-> how, content |-> content] \in Answers,
         how = "content" => content \in named \intersect Contents \/ (content = Torn /\ rewritten)
  PROVE  WorkspaceInv'
<1>1. FileInv'
  BY FileStutter DEF fileVars, bounds, WorkspaceInv, FileInv, FilesAreSafe, TypeOK
<1>2. ReadTypeOK' /\ view' \in ViewRecords
  BY ContentsAssumption DEF WorkspaceInv, WorkspaceIsSound, ReadTypeOK, Says, ViewRecords, NoView, Foreign, Readings
<1>3. ReadsAreOfTheFile' /\ ViewInv'
  BY DEF WorkspaceInv, ReadsAreOfTheFile, Says, ViewInv, NoView, Readings, FileInv, FilesAreSafe, TypeOK,
       fileVars, bounds
<1> QED
  BY <1>1, <1>2, <1>3 DEF WorkspaceInv, WorkspaceIsSound, FileInv

\* A look: what it has seen is what the invariant says of the next step.
LEMMA SeesIsSound ==
  ASSUME WorkspaceInv, UNCHANGED fileVars, at # "idle", NEW phase, NEW seen \in ViewRecords, Sees(phase, seen),
         phase \in {"resolve", "stat", "open", "verify", "first", "rest"},
         phase = "verify" => seen.opened = Foreign \/ seen.held \in named \intersect Contents,
         phase \in {"first", "rest"} => seen.held \in named \intersect Contents,
         phase = "rest" => seen.first = seen.held
  PROVE  WorkspaceInv'
<1>1. FileInv'
  BY FileStutter DEF fileVars, bounds, WorkspaceInv, FileInv, FilesAreSafe, TypeOK
<1>2. ReadTypeOK' /\ view' \in ViewRecords
  BY DEF WorkspaceInv, WorkspaceIsSound, ReadTypeOK, Sees
<1>3. ReadsAreOfTheFile' /\ ViewInv'
  BY DEF WorkspaceInv, WorkspaceIsSound, ReadsAreOfTheFile, Sees, ViewInv, ViewRecords, fileVars, disk, bounds
<1> QED
  BY <1>1, <1>2, <1>3 DEF WorkspaceInv, WorkspaceIsSound, FileInv

LEMMA RefusesIsSound == WorkspaceInv /\ UNCHANGED fileVars /\ Refuses => WorkspaceInv'
BY SaysIsSound DEF Refuses, Answers

LEMMA ReturnsIsSound ==
  ASSUME WorkspaceInv, UNCHANGED fileVars, NEW content, Returns(content),
         content \in named \intersect Contents \/ (content = Torn /\ rewritten)
  PROVE  WorkspaceInv'
<1>1. CASE Says("content", content)
  <2>1. [how |-> "content", content |-> content] \in Answers
    BY DEF Answers
  <2> QED
    BY <1>1, <2>1, SaysIsSound
<1>2. ASSUME NEW how \in {"skipped", "refused"}, Says(how, Absent) PROVE WorkspaceInv'
  <2>1. [how |-> how, content |-> Absent] \in Answers
    BY <1>2 DEF Answers
  <2> QED
    BY <1>2, <2>1, SaysIsSound
<1> QED
  BY <1>1, <1>2 DEF Returns

LEMMA ReadsStep == WorkspaceInv /\ ReadStep /\ UNCHANGED fileVars => WorkspaceInv'
<1> SUFFICES ASSUME WorkspaceInv, ReadStep, UNCHANGED fileVars PROVE WorkspaceInv'
  OBVIOUS
<1> USE ContentsAssumption, ReadsAssumption
<1>0. /\ view \in ViewRecords /\ node \in Nat \ {0} /\ file \in Contents \union {Absent, Link} /\ ViewInv
  BY DEF WorkspaceInv, WorkspaceIsSound, ReadTypeOK, FilesAreSafe, TypeOK
<1>1. CASE Malformed
  BY <1>1, RefusesIsSound DEF Malformed
<1>2. CASE Scan
  <2>1. CASE view.tool = "search_content" /\ file \in Contents
    BY <1>0, <1>2, <2>1, SeesIsSound DEF Scan
  <2>2. CASE ~(view.tool = "search_content" /\ file \in Contents)
    <3>1. [how |-> "listed", content |-> file] \in Answers
      BY <1>0 DEF Answers
    <3> QED
      BY <1>2, <2>2, <3>1, SaysIsSound DEF Scan
  <2> QED
    BY <2>1, <2>2
<1>3. CASE Resolve
  BY <1>0, <1>3, SeesIsSound, RefusesIsSound DEF Resolve
<1>4. CASE Stat
  <2>1. [view EXCEPT !.seen = node] \in ViewRecords
    BY <1>0 DEF ViewRecords
  <2> QED
    BY <1>0, <1>4, <2>1, SeesIsSound, RefusesIsSound DEF Stat
<1>5. CASE Open
  <2>1. CASE file = Absent
    BY <1>5, <2>1, RefusesIsSound DEF Open
  <2>2. CASE file = Link
    <3> DEFINE seen == [view EXCEPT !.opened = Foreign, !.held = Outside]
    <3>1. seen \in ViewRecords /\ seen.opened = Foreign
      BY <1>0 DEF ViewRecords, Foreign
    <3>2. at = "open" /\ Sees("verify", seen)
      BY <1>5, <2>2 DEF Open
    <3> HIDE DEF seen
    <3> QED
      BY <3>1, <3>2, SeesIsSound
  <2>3. CASE file \in Contents
    <3> DEFINE seen == [view EXCEPT !.opened = node, !.held = file]
    <3>1. seen \in ViewRecords /\ seen.held = file
      BY <1>0, <2>3 DEF ViewRecords
    <3>2. at = "open" /\ Sees("verify", seen)
      BY <1>5, <2>3 DEF Open
    <3>3. file \in named
      BY <1>0, <3>2 DEF ViewInv
    <3> HIDE DEF seen
    <3> QED
      BY <2>3, <3>1, <3>2, <3>3, SeesIsSound
  <2> QED
    BY <1>0, <2>1, <2>2, <2>3
<1>6. CASE VerifyOpened
  <2>1. CASE Resolvable /\ view.seen = view.opened /\ view.opened = node
    <3>1. at = "verify" /\ Sees("first", view)
      BY <1>6, <2>1 DEF VerifyOpened
    <3>2. view.opened # Foreign
      BY <1>0, <2>1 DEF Foreign
    <3> QED
      BY <1>0, <3>1, <3>2, SeesIsSound DEF ViewInv
  <2> QED
    BY <1>6, <2>1, RefusesIsSound DEF VerifyOpened
<1>7. CASE First
  <2>0. at = "first" /\ view.held \in named \intersect Contents
    BY <1>0, <1>7 DEF First, ViewInv
  <2>1. CASE view.tool \in Piecewise
    <3> DEFINE seen == [view EXCEPT !.first = view.held]
    <3>1. seen \in ViewRecords /\ seen.held = view.held /\ seen.first = view.held
      BY <1>0, <2>0 DEF ViewRecords
    <3>2. Sees("rest", seen)
      BY <1>7, <2>1 DEF First
    <3> HIDE DEF seen
    <3> QED
      BY <2>0, <3>1, <3>2, SeesIsSound
  <2>2. CASE view.tool \notin Piecewise
    BY <1>7, <2>0, <2>2, ReturnsIsSound DEF First
  <2> QED
    BY <2>1, <2>2
<1>8. CASE Rest
  <2>1. at = "rest" /\ view.held \in named \intersect Contents /\ (view.first = view.held \/ rewritten)
    BY <1>0, <1>8 DEF Rest, ViewInv
  <2>2. CASE view.first = view.held
    BY <1>8, <2>1, <2>2, ReturnsIsSound DEF Rest
  <2>3. CASE view.first # view.held
    <3>1. Returns(Torn)
      BY <1>8, <2>3 DEF Rest
    <3> QED
      BY <2>1, <2>3, <3>1, ReturnsIsSound
  <2> QED
    BY <2>2, <2>3
<1> QED
  BY <1>1, <1>2, <1>3, <1>4, <1>5, <1>6, <1>7, <1>8 DEF ReadStep

LEMMA DisturbStep ==
  ASSUME WorkspaceInv, NEW content \in Contents \union {Absent, Link}, NEW inPlace \in BOOLEAN,
         Disturb(content, inPlace)
  PROVE  WorkspaceInv'
<1> USE ContentsAssumption
<1>0. Edit(content) /\ UNCHANGED access /\ view \in ViewRecords /\ ViewInv /\ ReadTypeOK /\ ReadsAreOfTheFile
      /\ edits \in Nat /\ node \in Nat \ {0} /\ MaxEdits \in Nat
  BY DEF Disturb, WorkspaceInv, WorkspaceIsSound, FilesAreSafe, TypeOK, ReadTypeOK
<1>1. FileInv'
  BY <1>0, EditStep DEF WorkspaceInv
<1>2. edits' = edits + 1 /\ edits < MaxEdits /\ file' = content
  BY <1>0 DEF Edit
<1>3. CASE at = "idle"
  <2>1. UNCHANGED readVars
    BY <1>3 DEF Disturb
  <2> QED
    BY <1>0, <1>1, <1>2, <1>3, <2>1 DEF readVars, WorkspaceInv, WorkspaceIsSound, ReadTypeOK, ReadsAreOfTheFile, ViewInv, FileInv
<1>4. CASE at # "idle"
  <2>1. /\ inPlace => content \in Contents
        /\ node' = (IF inPlace THEN node ELSE node + 1)
        /\ named' = named \union {content} /\ UNCHANGED <<at, answer>>
        /\ rewritten' = (rewritten \/ (at = "rest" /\ inPlace))
        /\ \/ view' = view
           \/ inPlace /\ view' = [view EXCEPT !.held = content]
    BY <1>4 DEF Disturb
  <2>2. ReadTypeOK'
    BY <1>0, <1>2, <2>1 DEF ReadTypeOK, ViewInv
  <2>3. view' \in ViewRecords /\ view'.tool = view.tool /\ view'.opened = view.opened /\ view'.first = view.first
        /\ (view'.held = view.held \/ (inPlace /\ view'.held = content))
    BY <1>0, <2>1 DEF ViewRecords
  <2>4. ReadsAreOfTheFile'
    BY <1>0, <2>1 DEF ReadsAreOfTheFile
  <2>5. ViewInv'
    <3>1. node' <= edits' + 1 /\ view'.tool \in Listings \union Readings /\ file' \in named'
      BY <1>0, <1>2, <2>1, <2>3 DEF ViewInv
    <3>2. CASE view'.held = view.held
      BY <1>0, <1>4, <2>1, <2>3, <3>1, <3>2 DEF ViewInv
    <3>3. CASE inPlace /\ view'.held = content
      BY <1>0, <1>4, <2>1, <2>3, <3>1, <3>3 DEF ViewInv
    <3> QED
      BY <2>3, <3>2, <3>3
  <2> QED
    BY <1>1, <2>2, <2>3, <2>4, <2>5 DEF WorkspaceInv, WorkspaceIsSound, FileInv
<1> QED
  BY <1>3, <1>4

LEMMA WorkspaceStep == WorkspaceInv /\ [FilesNext]_allVars => WorkspaceInv'
<1> SUFFICES ASSUME WorkspaceInv, [FilesNext]_allVars PROVE WorkspaceInv'
  OBVIOUS
<1>1. CASE at = "idle" /\ Mutate /\ answer' = NoAnswer /\ named' = {} /\ rewritten' = FALSE /\ UNCHANGED <<at, view, node>>
  <2>1. FileInv' /\ edits' = edits
    BY <1>1, MutateStep DEF WorkspaceInv, Mutate, Calls, Progress, Write, Rollback, Load, Read, Mkdir, OpenBefore,
         WriteBefore, OpenMeta, WriteMeta, Temp, Check, Swap, Unlink, Verify, Diff, StepFails, Crash, Fails, Ends,
         Goes, Stores, bounds
  <2>2. ReadTypeOK' /\ ReadsAreOfTheFile'
    BY <1>1 DEF WorkspaceInv, WorkspaceIsSound, ReadTypeOK, ReadsAreOfTheFile, Answers, NoAnswer
  <2>3. ViewInv' /\ view' \in ViewRecords
    BY <1>1, <2>1 DEF WorkspaceInv, ViewInv
  <2> QED
    BY <2>1, <2>2, <2>3 DEF WorkspaceInv, WorkspaceIsSound, FileInv
<1>2. CASE \E tool \in Listings \union Readings : Ask(tool)
  BY <1>2, AskStep
<1>3. CASE ReadStep /\ UNCHANGED fileVars
  BY <1>3, ReadsStep
<1>4. CASE \E content \in Contents \union {Absent, Link}, inPlace \in BOOLEAN : Disturb(content, inPlace)
  BY <1>4, DisturbStep
<1>5. CASE UNCHANGED allVars
  <2>1. FileInv'
    BY <1>5, FileStutter DEF allVars, fileVars, bounds, WorkspaceInv, FileInv, FilesAreSafe, TypeOK
  <2> QED
    BY <1>5, <2>1 DEF allVars, fileVars, readVars, bounds, disk, WorkspaceInv, WorkspaceIsSound, ReadTypeOK, ReadsAreOfTheFile,
         ViewInv, FileInv
<1> QED
  BY <1>1, <1>2, <1>3, <1>4, <1>5 DEF FilesNext

-----------------------------------------------------------------------------
(* The theorems. *)

\* No content of a file is lost by a call, failed calls leave the file alone,
\* and what a reading tool returns was the file's content at one moment:
\* FileMutationExecutor and FilesystemReadExecutor, whatever the editor, the
\* disk and crashes do.
THEOREM WorkspaceSoundness == FilesSpec => []WorkspaceIsSound
<1>1. WorkspaceInv => WorkspaceIsSound
  BY DEF WorkspaceInv
<1> QED
  BY <1>1, WorkspaceStarts, WorkspaceStep, PTL DEF FilesSpec

\* What a rollback makes of the file: only its replacement can succeed.
LEMMA UndoStep == WorkspaceInv /\ [FilesNext]_allVars =>
  [\A e \in Executions :
     call.id = e /\ call.op = "rollback" /\ result[e] = "running" /\ result'[e] = "succeeded" =>
       LET meta == backups[call.of].meta
       IN (file = meta.after \/ e \in raced) /\ file' = meta.before]_vars
<1> SUFFICES ASSUME WorkspaceInv, [FilesNext]_allVars, NEW e \in Executions,
                    call.id = e, call.op = "rollback", result[e] = "running", result'[e] = "succeeded"
             PROVE  /\ file = backups[call.of].meta.after \/ e \in raced
                    /\ file' = backups[call.of].meta.before
  OBVIOUS
<1>0. pc # "idle" /\ result \in [Executions -> {"none", "running", "succeeded", "failed", "crashed"}]
      /\ PlaceInv /\ SwapInv /\ CallInv
  BY ContentsAssumption DEF WorkspaceInv, FileInv, FilesAreSafe, TypeOK
<1>1. result' # result
  BY <1>0
<1>2. Mutate
  BY <1>1 DEF FilesNext, Ask, fileVars, allVars, Disturb, Edit
<1>3. \/ Swap
      \/ Diff
  <2>1. Fails \/ StepFails \/ Crash => result'[e] # "succeeded"
    BY <1>0 DEF Fails, Ends, StepFails, Crash
  <2> QED
    BY <1>0, <1>1, <1>2, <2>1 DEF Mutate, Calls, Progress, Write, Rollback, Load, Read, Mkdir, OpenBefore,
         WriteBefore, OpenMeta, WriteMeta, Temp, Check, Unlink, Verify, Goes, Stores
<1>4. Swap
  BY <1>0, <1>3 DEF Diff, PlaceInv
<1>5. pc = "swap" /\ file' = call.after
  <2>1. ~Fails
    BY <1>0 DEF Fails, Ends
  <2> QED
    BY <1>4, <2>1 DEF Swap, Swapped
<1>6. Undoes /\ call.before = call.expected /\ call.expected \in Contents
  BY <1>0, <1>5 DEF PlaceInv, CallInv, Stored
<1> QED
  BY <1>0, <1>5, <1>6, ContentsAssumption DEF Undoes, SwapInv

\* A rollback takes the file from what the change made of it back to what the
\* change found: _load_backup, and the comparison before the replacement.
THEOREM RollbackSoundness == FilesSpec => RollbacksUndo
<1>1. WorkspaceInv /\ [FilesNext]_allVars =>
        [\A e \in Executions :
           call.id = e /\ call.op = "rollback" /\ result[e] = "running" /\ result'[e] = "succeeded" =>
             LET meta == backups[call.of].meta
             IN (file = meta.after \/ e \in raced) /\ file' = meta.before]_vars
  BY UndoStep
<1> QED
  BY <1>1, WorkspaceStarts, WorkspaceStep, PTL DEF FilesSpec, RollbacksUndo

-----------------------------------------------------------------------------
(* The adapters of the browser and of the desktop.                         *)

Kinds == {"none", "session", "page", "window", "tree", "shot"}
Prints == Pages \union Titles \union Trees \union Screens \union {None}
Observations == [kind : Kinds, on : Sessions \union Nat \union {None}, id : Nat,
                 print : Prints, seen : Prints, torn : BOOLEAN]
Tools == {"launch", "navigate", "state", "look", "close", "act", "key", "list", "capture", "tree", "focus", "point"}
Orders == [id : Nat, tool : Tools, obs : Observations]
Shots == [id : Nat, screen : Screens, at : Nat]

\* The jobs of a worker, which are numbered as they come.
Elements(q) == { q[i] : i \in DOMAIN q }
Jobs(a) == Elements(queue[a])
Rising(q) == \A i, k \in DOMAIN q : i < k => q[i].id < q[k].id

UiTyped ==
  /\ UiTypeOK
  /\ clock \in Nat /\ asks \in 0..MaxAsks
  /\ caller.since \in Nat
  /\ queue \in [Adapters -> Seq(Orders)]
  /\ step \in [Adapters -> {"start", "collect", "act"}]
  /\ moved \in [Adapters -> BOOLEAN]
  /\ DOMAIN read = Adapters
  /\ session \in [Sessions -> [print : Prints, elements : Nat]]
  /\ window \in [id : Nat, title : Prints, print : Prints, elements : Nat]
  /\ shots \in Seq(Shots)
  /\ told \subseteq Observations

\* A job is numbered by its call, and acts on an observation that was told.
JobInv ==
  /\ \A a \in Adapters : Rising(queue[a])
  /\ \A a \in Adapters : \A j \in Jobs(a) :
       /\ 1 <= j.id /\ j.id <= asks
       /\ j.tool = "act" => j.obs.kind = (IF a = "browser" THEN "page" ELSE "tree")
       /\ j.tool = "key" => j.obs.kind = "tree"
       /\ j.tool = "point" => a = "desktop" /\ j.obs.kind = "shot"
       /\ j.tool \in {"act", "key", "point"} => j.obs \in told
  /\ \A j \in Jobs("browser"), k \in Jobs("desktop") : j.id # k.id
  /\ \A a \in Adapters : step[a] # "start" => queue[a] # <<>>

\* An observation is what was seen, unless it was torn.
Observed(o) ==
  /\ o.kind = "page" => o.print \in Pages /\ (o.torn \/ o.seen = o.print)
  /\ o.kind \in {"tree", "shot"} => o.seen = o.print
Identified(o) == o.kind \in {"page", "shot"}

\* What was told is identified by a call whose job has ended.
ToldInv ==
  \A o \in told :
    /\ Observed(o)
    /\ Identified(o) =>
         1 <= o.id /\ o.id <= asks /\ \A a \in Adapters : \A j \in Jobs(a) : j.id # o.id

\* Between a check and the action the page is as it was checked, or has moved.
BrowserInv ==
  /\ \A s \in known : page[s] \in Pages
  /\ step["browser"] = "collect" =>
       LET s == Job("browser").obs.on IN
       /\ Job("browser").tool = "state" /\ s \in known
       /\ read["browser"] \in Pages
       /\ moved["browser"] \/ page[s] = read["browser"]
  /\ step["browser"] = "act" =>
       LET o == Job("browser").obs IN
       /\ Job("browser").tool = "act"
       /\ o.on \in known /\ o.id \notin used
       /\ session[o.on].elements = o.id
       /\ moved["browser"] \/ page[o.on] = o.print

\* The elements of an observation are of one session, and once it has carried
\* an action the fingerprint of that session is gone.
ElementInv ==
  /\ \A n \in used : n \in Nat /\ n <= asks /\ \A a \in Adapters : \A j \in Jobs(a) : j.id # n
  /\ \A s \in Sessions :
       /\ session[s].elements <= asks
       /\ \A j \in Jobs("browser") : j.id # session[s].elements
       /\ session[s].elements \in used => session[s].print = None
       /\ \A r \in Sessions \ {s} : session[r].elements = session[s].elements => session[s].elements = 0

\* The same between a check and the action on the desktop.
DesktopInv ==
  step["desktop"] = "act" =>
    LET o == Job("desktop").obs IN
    /\ Job("desktop").tool \in {"act", "key"} => moved["desktop"] \/ tree = o.print
    /\ Job("desktop").tool = "point" => (moved["desktop"] \/ screen = o.print) /\ read["desktop"] = "waited"

\* A screenshot is the one its observation tells of, and who points at it
\* still waits, or has given up after it expired.
ShotInv ==
  \A n \in DOMAIN shots :
    /\ shots[n].at <= clock /\ 1 <= shots[n].id /\ shots[n].id <= asks
    /\ \A a \in Adapters : \A j \in Jobs(a) : j.id # shots[n].id
    /\ \A o \in told : o.kind = "shot" /\ o.id = shots[n].id => o.print = shots[n].screen
    /\ \A j \in Jobs("desktop") : j.tool = "point" /\ j.obs.id = shots[n].id =>
         \/ caller.id = j.id /\ caller.adapter = "desktop" /\ shots[n].at <= caller.since
         \/ DesktopTimeout <= clock - shots[n].at

UiInv ==
  /\ UiTyped /\ JobInv /\ ToldInv /\ BrowserInv /\ ElementInv /\ DesktopInv /\ ShotInv
  /\ ActionsAreSeen /\ PointersAreAwaited

\* A job at the end of a queue, and a queue without its first.
LEMMA QueueGrows ==
  ASSUME NEW q \in Seq(Orders), NEW j \in Orders
  PROVE  /\ Append(q, j) \in Seq(Orders) /\ Append(q, j) # <<>>
         /\ Elements(Append(q, j)) = Elements(q) \union {j}
         /\ Rising(q) /\ (\A k \in Elements(q) : k.id < j.id) => Rising(Append(q, j))
         /\ q # <<>> => Head(Append(q, j)) = Head(q)
<1> DEFINE t == Append(q, j)
<1>1. /\ t \in Seq(Orders) /\ Len(t) = Len(q) + 1 /\ Len(q) \in Nat
      /\ DOMAIN t = 1..(Len(q) + 1) /\ DOMAIN q = 1..Len(q)
  OBVIOUS
<1>2. t[Len(q) + 1] = j /\ \A i \in 1..Len(q) : t[i] = q[i]
  OBVIOUS
<1>h. q # <<>> => Head(q) = q[1] /\ Len(q) # 0
  OBVIOUS
<1> HIDE DEF t
<1>3. t # <<>> /\ (q # <<>> => Head(t) = Head(q))
  BY <1>1, <1>2, <1>h
<1>4. Elements(t) = Elements(q) \union {j}
  <2>1. ASSUME NEW i \in DOMAIN t  PROVE t[i] \in Elements(q) \union {j}
    <3>1. CASE i = Len(q) + 1  BY <3>1, <1>2
    <3>2. CASE i # Len(q) + 1
      <4>1. i \in DOMAIN q /\ t[i] = q[i]  BY <3>2, <1>1, <1>2
      <4> QED  BY <4>1 DEF Elements
    <3> QED  BY <3>1, <3>2
  <2>2. ASSUME NEW i \in DOMAIN q  PROVE q[i] \in Elements(t)
    <3>1. i \in DOMAIN t /\ t[i] = q[i]  BY <1>1, <1>2
    <3> QED  BY <3>1 DEF Elements
  <2>3. j \in Elements(t)
    <3>1. Len(q) + 1 \in DOMAIN t  BY <1>1
    <3> QED  BY <3>1, <1>2 DEF Elements
  <2> QED  BY <2>1, <2>2, <2>3 DEF Elements
<1>5. ASSUME Rising(q), \A k \in Elements(q) : k.id < j.id  PROVE Rising(t)
  <2> SUFFICES ASSUME NEW i \in DOMAIN t, NEW k \in DOMAIN t, i < k  PROVE t[i].id < t[k].id
    BY DEF Rising
  <2>1. i \in DOMAIN q /\ t[i] = q[i]  BY <1>1, <1>2
  <2>2. CASE k = Len(q) + 1
    <3>1. t[i] \in Elements(q) /\ t[k] = j  BY <2>1, <2>2, <1>2 DEF Elements
    <3> QED  BY <3>1, <1>5
  <2>3. CASE k # Len(q) + 1
    <3>1. k \in DOMAIN q /\ t[k] = q[k]  BY <2>3, <1>1, <1>2
    <3> QED  BY <3>1, <2>1, <1>5 DEF Rising
  <2> QED  BY <2>2, <2>3
<1> QED  BY <1>1, <1>3, <1>4, <1>5 DEF t

LEMMA QueueShrinks ==
  ASSUME NEW q \in Seq(Orders), q # <<>>, Rising(q)
  PROVE  /\ Tail(q) \in Seq(Orders) /\ Rising(Tail(q))
         /\ Head(q) \in Elements(q) /\ Head(q) \in Orders
         /\ \A k \in Elements(Tail(q)) : k \in Elements(q) /\ Head(q).id < k.id
<1> DEFINE t == Tail(q)
<1>1. /\ t \in Seq(Orders) /\ Len(q) \in Nat \ {0} /\ Head(q) = q[1] /\ Head(q) \in Orders
      /\ DOMAIN t = 1..(Len(q) - 1) /\ DOMAIN q = 1..Len(q)
  OBVIOUS
<1>2. \A i \in 1..(Len(q) - 1) : t[i] = q[i + 1]
  OBVIOUS
<1> HIDE DEF t
<1>3. \A i \in DOMAIN t : i + 1 \in DOMAIN q /\ 1 < i + 1
  BY <1>1
<1>4. \A i \in DOMAIN t : t[i] = q[i + 1]
  BY <1>1, <1>2
<1>5. 1 \in DOMAIN q
  BY <1>1
<1>6. ASSUME NEW i \in DOMAIN t  PROVE t[i] \in Elements(q) /\ Head(q).id < t[i].id
  BY <1>1, <1>3, <1>4, <1>5 DEF Elements, Rising
<1>7. Rising(t)
  <2> SUFFICES ASSUME NEW i \in DOMAIN t, NEW k \in DOMAIN t, i < k  PROVE t[i].id < t[k].id
    BY DEF Rising
  <2>1. i + 1 \in DOMAIN q /\ k + 1 \in DOMAIN q /\ i + 1 < k + 1  BY <1>1, <1>3
  <2> QED  BY <2>1, <1>4 DEF Rising
<1> QED  BY <1>1, <1>5, <1>6, <1>7 DEF t, Elements

\* The end of a job: it leaves its queue, and what it observed is told.
LEMMA Ended ==
  ASSUME UiInv, NEW a \in Adapters, queue[a] # <<>>, NEW obs \in SUBSET Observations, JobEnds(a, obs),
         \A o \in obs : Observed(o) /\ (Identified(o) => o.id = Job(a).id)
  PROVE  /\ queue' \in [Adapters -> Seq(Orders)] /\ told' \subseteq Observations
         /\ step' \in [Adapters -> {"start", "collect", "act"}] /\ moved' \in [Adapters -> BOOLEAN]
         /\ DOMAIN read' = Adapters
         /\ caller'.since \in Nat /\ caller'.adapter \in Adapters \union {None} /\ caller'.id \in 0..MaxAsks
         /\ JobInv' /\ ToldInv' /\ UNCHANGED <<clock, asks, changes>>
         /\ Job(a) \in Jobs(a) /\ Job(a) \in Orders
         /\ \A b \in Adapters : \A j \in Jobs(b)' : j \in Jobs(b) /\ j.id # Job(a).id
         /\ \A b \in Adapters : \A j \in Jobs(b)' : caller.id = j.id => caller' = caller
         /\ told' \subseteq told \union obs
         /\ step'[a] = "start"
         /\ \A b \in Adapters \ {a} : /\ queue'[b] = queue[b] /\ step'[b] = step[b]
                                      /\ read'[b] = read[b] /\ moved'[b] = moved[b]
<1>1. /\ queue \in [Adapters -> Seq(Orders)] /\ step \in [Adapters -> {"start", "collect", "act"}]
      /\ moved \in [Adapters -> BOOLEAN] /\ DOMAIN read = Adapters /\ told \subseteq Observations
      /\ caller.since \in Nat /\ caller.adapter \in Adapters \union {None} /\ caller.id \in 0..MaxAsks
  BY DEF UiInv, UiTyped, UiTypeOK
<1>2. /\ queue' = [queue EXCEPT ![a] = Tail(queue[a])]
      /\ step' = [step EXCEPT ![a] = "start"] /\ read' = [read EXCEPT ![a] = None]
      /\ moved' = [moved EXCEPT ![a] = FALSE]
      /\ caller' = (IF caller.id = Job(a).id THEN NoCaller ELSE caller)
      /\ told' = (IF caller.id = Job(a).id THEN told \union obs ELSE told)
      /\ UNCHANGED <<clock, asks, changes>>
  BY DEF JobEnds
<1>3. /\ Tail(queue[a]) \in Seq(Orders) /\ Rising(Tail(queue[a]))
      /\ Job(a) \in Jobs(a) /\ Job(a) \in Orders
      /\ \A k \in Elements(Tail(queue[a])) : k \in Jobs(a) /\ Job(a).id < k.id
  <2>1. queue[a] \in Seq(Orders) /\ Rising(queue[a])  BY <1>1 DEF UiInv, JobInv
  <2> QED  BY <2>1, QueueShrinks DEF Job, Jobs
<1>4. \A b \in Adapters : \A j \in Jobs(b) : j \in Orders
  BY <1>1 DEF Jobs, Elements
<1>5. /\ queue' \in [Adapters -> Seq(Orders)]
      /\ queue'[a] = Tail(queue[a]) /\ step'[a] = "start"
      /\ \A b \in Adapters \ {a} : /\ queue'[b] = queue[b] /\ step'[b] = step[b]
                                   /\ read'[b] = read[b] /\ moved'[b] = moved[b]
  BY <1>1, <1>2, <1>3
<1>6. /\ step' \in [Adapters -> {"start", "collect", "act"}] /\ moved' \in [Adapters -> BOOLEAN]
      /\ DOMAIN read' = Adapters
  BY <1>1, <1>2
<1>7. told' \subseteq told \union obs /\ told' \subseteq Observations /\ told \subseteq told'
  BY <1>1, <1>2
<1>8. caller'.since \in Nat /\ caller'.adapter \in Adapters \union {None} /\ caller'.id \in 0..MaxAsks
  BY <1>1, <1>2, UiAssumption DEF NoCaller
<1>9. \A b \in Adapters : \A j \in Jobs(b)' : j \in Jobs(b) /\ j.id # Job(a).id
  <2> SUFFICES ASSUME NEW b \in Adapters, NEW j \in Jobs(b)'  PROVE j \in Jobs(b) /\ j.id # Job(a).id
    OBVIOUS
  <2>1. CASE b = a
    <3>1. j \in Elements(Tail(queue[a]))  BY <2>1, <1>5 DEF Jobs
    <3>2. j \in Orders /\ j \in Jobs(a) /\ Job(a).id < j.id  BY <3>1, <1>3, <1>4
    <3> QED  BY <3>2, <2>1, <1>3 DEF Orders
  <2>2. CASE b # a
    <3>1. j \in Jobs(b)  BY <2>2, <1>5 DEF Jobs
    <3>2. {a, b} = Adapters  BY <2>2 DEF Adapters
    <3> QED  BY <3>1, <3>2, <2>2, <1>3 DEF UiInv, JobInv, Adapters
  <2> QED  BY <2>1, <2>2
<1>10. \A b \in Adapters : \A j \in Jobs(b)' : caller.id = j.id => caller' = caller
  BY <1>2, <1>9
<1>11. JobInv'
  <2>1. \A b \in Adapters : Rising(queue'[b])  BY <1>3, <1>5 DEF UiInv, JobInv
  <2>2. \A b \in Adapters : \A j \in Jobs(b)' :
       /\ 1 <= j.id /\ j.id <= asks'
       /\ j.tool = "act" => j.obs.kind = (IF b = "browser" THEN "page" ELSE "tree")
       /\ j.tool = "key" => j.obs.kind = "tree"
       /\ j.tool = "point" => b = "desktop" /\ j.obs.kind = "shot"
       /\ j.tool \in {"act", "key", "point"} => j.obs \in told'
    <3> SUFFICES ASSUME NEW b \in Adapters, NEW j \in Jobs(b)'
          PROVE  /\ 1 <= j.id /\ j.id <= asks'
                 /\ j.tool = "act" => j.obs.kind = (IF b = "browser" THEN "page" ELSE "tree")
                 /\ j.tool = "key" => j.obs.kind = "tree"
                 /\ j.tool = "point" => b = "desktop" /\ j.obs.kind = "shot"
                 /\ j.tool \in {"act", "key", "point"} => j.obs \in told'
      OBVIOUS
    <3>1. j \in Jobs(b)  BY <1>9
    <3> QED  BY <3>1, <1>2, <1>7 DEF UiInv, JobInv
  <2>3. \A j \in Jobs("browser")', k \in Jobs("desktop")' : j.id # k.id
    BY <1>9 DEF UiInv, JobInv, Adapters
  <2>4. \A b \in Adapters : step'[b] # "start" => queue'[b] # <<>>
    BY <1>5 DEF UiInv, JobInv
  <2> QED  BY <2>1, <2>2, <2>3, <2>4 DEF JobInv
<1>12. ToldInv'
  <2> SUFFICES ASSUME NEW o \in told'
        PROVE  /\ Observed(o)
               /\ Identified(o) => /\ 1 <= o.id /\ o.id <= asks'
                                   /\ \A b \in Adapters : \A j \in Jobs(b)' : j.id # o.id
    BY DEF ToldInv, Observed, Identified
  <2>1. CASE o \in told
    BY <2>1, <1>2, <1>9 DEF UiInv, ToldInv
  <2>2. CASE o \in obs
    <3>1. Observed(o) /\ (Identified(o) => o.id = Job(a).id)  BY <2>2
    <3>2. 1 <= Job(a).id /\ Job(a).id <= asks  BY <1>3 DEF UiInv, JobInv
    <3> QED  BY <3>1, <3>2, <1>2, <1>9
  <2> QED  BY <2>1, <2>2, <1>7
<1> QED
  BY <1>2, <1>3, <1>5, <1>6, <1>7, <1>8, <1>9, <1>10, <1>11, <1>12

\* What the end of a job leaves of each part of the invariant.
LEMMA EndedShots ==
  ASSUME UiInv, NEW a \in Adapters, queue[a] # <<>>, NEW obs \in SUBSET Observations, JobEnds(a, obs),
         \A o \in obs : Observed(o) /\ (Identified(o) => o.id = Job(a).id) /\ o.kind # "shot",
         UNCHANGED shots
  PROVE  ShotInv'
<1>1. /\ UNCHANGED <<clock, asks>> /\ told' \subseteq told \union obs
      /\ \A b \in Adapters : \A j \in Jobs(b)' : j \in Jobs(b) /\ j.id # Job(a).id
      /\ \A b \in Adapters : \A j \in Jobs(b)' : caller.id = j.id => caller' = caller
  BY Ended
<1> SUFFICES ASSUME NEW n \in DOMAIN shots
      PROVE  /\ shots[n].at <= clock /\ 1 <= shots[n].id /\ shots[n].id <= asks
             /\ \A b \in Adapters : \A j \in Jobs(b)' : j.id # shots[n].id
             /\ \A o \in told' : o.kind = "shot" /\ o.id = shots[n].id => o.print = shots[n].screen
             /\ \A j \in Jobs("desktop")' : j.tool = "point" /\ j.obs.id = shots[n].id =>
                  \/ caller'.id = j.id /\ caller'.adapter = "desktop" /\ shots[n].at <= caller'.since
                  \/ DesktopTimeout <= clock - shots[n].at
  BY <1>1 DEF ShotInv
<1>2. /\ shots[n].at <= clock /\ 1 <= shots[n].id /\ shots[n].id <= asks
      /\ \A b \in Adapters : \A j \in Jobs(b) : j.id # shots[n].id
      /\ \A o \in told : o.kind = "shot" /\ o.id = shots[n].id => o.print = shots[n].screen
      /\ \A j \in Jobs("desktop") : j.tool = "point" /\ j.obs.id = shots[n].id =>
           \/ caller.id = j.id /\ caller.adapter = "desktop" /\ shots[n].at <= caller.since
           \/ DesktopTimeout <= clock - shots[n].at
  BY DEF UiInv, ShotInv
<1>3. "desktop" \in Adapters
  BY DEF Adapters
<1>4. ASSUME NEW j \in Jobs("desktop")', j.tool = "point", j.obs.id = shots[n].id
      PROVE  \/ caller'.id = j.id /\ caller'.adapter = "desktop" /\ shots[n].at <= caller'.since
             \/ DesktopTimeout <= clock - shots[n].at
  <2>1. j \in Jobs("desktop")  BY <1>1, <1>3
  <2> QED  BY <2>1, <1>1, <1>2, <1>3, <1>4
<1> QED
  BY <1>1, <1>2, <1>4

LEMMA EndedElements ==
  ASSUME UiInv, NEW a \in Adapters, queue[a] # <<>>, NEW obs \in SUBSET Observations, JobEnds(a, obs),
         \A o \in obs : Observed(o) /\ (Identified(o) => o.id = Job(a).id),
         UNCHANGED <<session, used>>
  PROVE  ElementInv'
<1>1. /\ UNCHANGED asks
      /\ \A b \in Adapters : \A j \in Jobs(b)' : j \in Jobs(b)
  BY Ended
<1> QED  BY <1>1 DEF UiInv, ElementInv, Adapters

LEMMA EndedBrowser ==
  ASSUME UiInv, NEW a \in Adapters, queue[a] # <<>>, NEW obs \in SUBSET Observations, JobEnds(a, obs),
         \A o \in obs : Observed(o) /\ (Identified(o) => o.id = Job(a).id),
         UNCHANGED <<page, known>>, a = "browser" \/ UNCHANGED <<session, used>>
  PROVE  BrowserInv'
<1>1. /\ step'[a] = "start"
      /\ \A b \in Adapters \ {a} : /\ queue'[b] = queue[b] /\ step'[b] = step[b]
                                   /\ read'[b] = read[b] /\ moved'[b] = moved[b]
  BY Ended
<1>2. CASE a = "browser"
  BY <1>1, <1>2 DEF UiInv, BrowserInv
<1>3. CASE a # "browser"
  <2>1. /\ queue'["browser"] = queue["browser"] /\ step'["browser"] = step["browser"]
        /\ read'["browser"] = read["browser"] /\ moved'["browser"] = moved["browser"]
    BY <1>1, <1>3 DEF Adapters
  <2>2. Job("browser")' = Job("browser")  BY <2>1 DEF Job
  <2> QED  BY <2>1, <2>2, <1>3 DEF UiInv, BrowserInv
<1> QED  BY <1>2, <1>3

LEMMA EndedDesktop ==
  ASSUME UiInv, NEW a \in Adapters, queue[a] # <<>>, NEW obs \in SUBSET Observations, JobEnds(a, obs),
         \A o \in obs : Observed(o) /\ (Identified(o) => o.id = Job(a).id),
         a = "desktop" \/ UNCHANGED <<tree, screen>>
  PROVE  DesktopInv'
<1>1. /\ step'[a] = "start"
      /\ \A b \in Adapters \ {a} : /\ queue'[b] = queue[b] /\ step'[b] = step[b]
                                   /\ read'[b] = read[b] /\ moved'[b] = moved[b]
  BY Ended
<1>2. CASE a = "desktop"
  BY <1>1, <1>2 DEF DesktopInv
<1>3. CASE a # "desktop"
  <2>1. /\ queue'["desktop"] = queue["desktop"] /\ step'["desktop"] = step["desktop"]
        /\ read'["desktop"] = read["desktop"] /\ moved'["desktop"] = moved["desktop"]
    BY <1>1, <1>3 DEF Adapters
  <2>2. Job("desktop")' = Job("desktop")  BY <2>1 DEF Job
  <2> QED  BY <2>1, <2>2, <1>3 DEF UiInv, DesktopInv
<1> QED  BY <1>2, <1>3

\* What remains of a step that ends a job, when the rest is shown.
LEMMA EndedTyped ==
  ASSUME UiInv, NEW a \in Adapters, queue[a] # <<>>, NEW obs \in SUBSET Observations, JobEnds(a, obs),
         \A o \in obs : Observed(o) /\ (Identified(o) => o.id = Job(a).id),
         page' \in [Sessions -> Pages \union {None}], known' \subseteq Sessions,
         tree' \in Trees, screen' \in Screens,
         session' \in [Sessions -> [print : Prints, elements : Nat]],
         window' \in [id : Nat, title : Prints, print : Prints, elements : Nat],
         shots' \in Seq(Shots), Len(shots') <= MaxShots
  PROVE  UiTyped' /\ JobInv' /\ ToldInv'
<1>1. /\ queue' \in [Adapters -> Seq(Orders)] /\ told' \subseteq Observations
      /\ step' \in [Adapters -> {"start", "collect", "act"}] /\ moved' \in [Adapters -> BOOLEAN]
      /\ DOMAIN read' = Adapters
      /\ caller'.since \in Nat /\ caller'.adapter \in Adapters \union {None} /\ caller'.id \in 0..MaxAsks
      /\ JobInv' /\ ToldInv' /\ UNCHANGED <<clock, asks, changes>>
  BY Ended
<1>2. clock' \in Nat /\ asks' \in 0..MaxAsks
  BY <1>1 DEF UiInv, UiTyped
<1>3. \A b \in Adapters : step'[b] \in {"start", "collect", "act"}
  BY <1>1
<1> QED  BY <1>1, <1>2, <1>3 DEF UiTyped, UiTypeOK

LEMMA Typed ==
  ASSUME UiInv
  PROVE  /\ page \in [Sessions -> Pages \union {None}] /\ known \subseteq Sessions
         /\ tree \in Trees /\ screen \in Screens
         /\ session \in [Sessions -> [print : Prints, elements : Nat]]
         /\ window \in [id : Nat, title : Prints, print : Prints, elements : Nat]
         /\ shots \in Seq(Shots) /\ Len(shots) <= MaxShots
         /\ clock \in Nat /\ asks \in Nat
         /\ \A a \in Adapters : queue[a] \in Seq(Orders)
         /\ \A a \in Adapters : queue[a] # <<>> => Job(a) \in Jobs(a) /\ Job(a) \in Orders
<1>1. \A a \in Adapters : queue[a] \in Seq(Orders) /\ Rising(queue[a])
  BY DEF UiInv, UiTyped, JobInv
<1>2. \A a \in Adapters : queue[a] # <<>> => Job(a) \in Jobs(a) /\ Job(a) \in Orders
  BY <1>1, QueueShrinks DEF Job, Jobs
<1>3. asks \in Nat
  BY UiAssumption DEF UiInv, UiTyped
<1> QED  BY <1>1, <1>2, <1>3 DEF UiInv, UiTyped, UiTypeOK

\* What the worker does when nothing becomes of the job but its end.
LEMMA QuietEnd ==
  ASSUME UiInv, NEW a \in Adapters, queue[a] # <<>>, JobEnds(a, {}),
         UNCHANGED <<world, memory, used, acted>>
  PROVE  UiInv'
<1>0. \A o \in {} : Observed(o) /\ (Identified(o) => o.id = Job(a).id) /\ o.kind # "shot"
  OBVIOUS
<1>1. {} \in SUBSET Observations
  OBVIOUS
<1>2. UiTyped' /\ JobInv' /\ ToldInv'
  BY <1>0, <1>1, EndedTyped, Typed DEF world, memory
<1>3. ShotInv' /\ ElementInv' /\ BrowserInv' /\ DesktopInv'
  BY <1>0, <1>1, EndedShots, EndedElements, EndedBrowser, EndedDesktop DEF world, memory
<1>4. ActionsAreSeen' /\ PointersAreAwaited'
  BY <1>2 DEF UiInv, UiTyped, ActionsAreSeen, PointersAreAwaited
<1> QED  BY <1>2, <1>3, <1>4 DEF UiInv

LEMMA RefusedKeeps ==
  ASSUME UiInv, NEW a \in Adapters, queue[a] # <<>>, Refused(a)
  PROVE  UiInv'
BY QuietEnd DEF Refused

LEMMA LaunchKeeps ==
  ASSUME UiInv, Launch
  PROVE  UiInv'
<1>1. "browser" \in Adapters /\ queue["browser"] # <<>>
  BY DEF Adapters, Launch, Runs
<1>2. CASE Refused("browser")
  BY <1>1, <1>2, RefusedKeeps
<1>3. CASE ~Refused("browser")
  <2>1. PICK s \in Sessions \ known, p \in Pages :
          /\ page' = [page EXCEPT ![s] = p] /\ known' = known \union {s}
          /\ JobEnds("browser", {[NoObservation EXCEPT !.kind = "session", !.on = s]})
          /\ UNCHANGED <<tree, screen, session, window, shots, used, acted>>
    BY <1>3 DEF Launch
  <2> DEFINE o == [NoObservation EXCEPT !.kind = "session", !.on = s]
  <2>2. o \in Observations /\ o.kind = "session" /\ Observed(o) /\ ~Identified(o)
    BY DEF NoObservation, Observations, Kinds, Prints, Observed, Identified
  <2>3. {o} \in SUBSET Observations
        /\ \A x \in {o} : Observed(x) /\ (Identified(x) => x.id = Job("browser").id) /\ x.kind # "shot"
    BY <2>2
  <2>4. JobEnds("browser", {o})
    BY <2>1
  <2> HIDE DEF o
  <2>5. page' \in [Sessions -> Pages \union {None}] /\ known' \subseteq Sessions
    BY <2>1, Typed
  <2>6. UiTyped' /\ JobInv' /\ ToldInv'
    <3>1. /\ tree' \in Trees /\ screen' \in Screens
          /\ session' \in [Sessions -> [print : Prints, elements : Nat]]
          /\ window' \in [id : Nat, title : Prints, print : Prints, elements : Nat]
          /\ shots' \in Seq(Shots) /\ Len(shots') <= MaxShots
      BY <2>1, Typed
    <3> QED  BY <1>1, <2>3, <2>4, <2>5, <3>1, EndedTyped, SMTT(30)
  <2>7. ShotInv' /\ ElementInv' /\ DesktopInv'
    BY <1>1, <2>1, <2>3, <2>4, EndedShots, EndedElements, EndedDesktop
  <2>8. step'["browser"] = "start"
    BY <1>1, <2>3, <2>4, Ended
  <2>9. BrowserInv'
    BY <2>1, <2>8, Typed DEF UiInv, BrowserInv
  <2>10. ActionsAreSeen' /\ PointersAreAwaited'
    BY <2>1, <2>6 DEF UiInv, UiTyped, ActionsAreSeen, PointersAreAwaited
  <2> QED  BY <2>6, <2>7, <2>9, <2>10 DEF UiInv
<1> QED  BY <1>2, <1>3

LEMMA NavigateKeeps ==
  ASSUME UiInv, Navigate
  PROVE  UiInv'
<1>1. "browser" \in Adapters /\ queue["browser"] # <<>>
  BY DEF Adapters, Navigate, Runs
<1> DEFINE s == Job("browser").obs.on
<1>2. CASE s \notin known
  BY <1>1, <1>2, RefusedKeeps DEF Navigate
<1>3. CASE s \in known
  <2>1. PICK p \in Pages : page' = [page EXCEPT ![s] = p]
    BY <1>3 DEF Navigate
  <2>2. /\ \/ session' = [session EXCEPT ![s] = [print |-> None, elements |-> 0]]
           \/ UNCHANGED session
        /\ JobEnds("browser", {})
        /\ UNCHANGED <<tree, screen, known, window, shots, used, acted>>
    BY <1>3 DEF Navigate
  <2> HIDE DEF s
  <2>3. {} \in SUBSET Observations
        /\ \A x \in {} : Observed(x) /\ (Identified(x) => x.id = Job("browser").id) /\ x.kind # "shot"
    OBVIOUS
  <2>4. page' \in [Sessions -> Pages \union {None}] /\ s \in Sessions
    BY <2>1, <1>3, Typed
  <2>5. session' \in [Sessions -> [print : Prints, elements : Nat]]
    <3>1. session \in [Sessions -> [print : Prints, elements : Nat]]  BY Typed
    <3>2. [print |-> None, elements |-> 0] \in [print : Prints, elements : Nat]  BY DEF Prints
    <3> QED  BY <2>2, <3>1, <3>2
  <2>6. UiTyped' /\ JobInv' /\ ToldInv'
    BY <1>1, <2>2, <2>3, <2>4, <2>5, EndedTyped, Typed
  <2>7. ShotInv' /\ DesktopInv'
    BY <1>1, <2>2, <2>3, EndedShots, EndedDesktop
  <2>8. step'["browser"] = "start" /\ UNCHANGED asks
        /\ \A b \in Adapters : \A j \in Jobs(b)' : j \in Jobs(b)
    BY <1>1, <2>2, <2>3, Ended
  <2>9. BrowserInv'
    BY <2>1, <2>2, <2>8, Typed DEF UiInv, BrowserInv
  <2>10. ElementInv'
    <3>1. CASE UNCHANGED session
      BY <1>1, <2>2, <2>3, <3>1, EndedElements
    <3>2. CASE session' = [session EXCEPT ![s] = [print |-> None, elements |-> 0]]
      <4>1. \A r \in Sessions : session'[r] = IF r = s THEN [print |-> None, elements |-> 0] ELSE session[r]
        BY <3>2, Typed
      <4>2. \A j \in Jobs("browser")' : 1 <= j.id
        BY <2>8 DEF UiInv, JobInv, Adapters
      <4>3. \A n \in used : n \in Nat /\ n <= asks /\ \A b \in Adapters : \A j \in Jobs(b)' : j.id # n
        BY <2>8 DEF UiInv, ElementInv
      <4>4. ASSUME NEW r \in Sessions
            PROVE /\ session'[r].elements <= asks
                  /\ \A j \in Jobs("browser")' : j.id # session'[r].elements
                  /\ session'[r].elements \in used => session'[r].print = None
                  /\ \A q \in Sessions \ {r} : session'[q].elements = session'[r].elements => session'[r].elements = 0
        <5>1. CASE r = s
          <6>1. session'[r].elements = 0 /\ session'[r].print = None  BY <5>1, <4>1
          <6> QED  BY <6>1, <4>2, Typed
        <5>2. CASE r # s
          <6>1. session'[r] = session[r]  BY <5>2, <4>1
          <6>2. \A q \in Sessions \ {r} : session'[q].elements \in {0, session[q].elements}  BY <4>1
          <6> QED  BY <6>1, <6>2, <2>8 DEF UiInv, ElementInv, Adapters
        <5> QED  BY <5>1, <5>2
      <4> QED  BY <2>2, <2>8, <4>3, <4>4 DEF ElementInv
    <3> QED  BY <2>2, <3>1, <3>2
  <2>11. ActionsAreSeen' /\ PointersAreAwaited'
    BY <2>2, <2>6 DEF UiInv, UiTyped, ActionsAreSeen, PointersAreAwaited
  <2> QED  BY <2>6, <2>7, <2>9, <2>10, <2>11 DEF UiInv
<1> QED  BY <1>2, <1>3

LEMMA CloseKeeps ==
  ASSUME UiInv, Close
  PROVE  UiInv'
<1>1. "browser" \in Adapters /\ queue["browser"] # <<>>
  BY DEF Adapters, Close, Runs
<1> DEFINE s == Job("browser").obs.on
<1>2. CASE s \notin known
  BY <1>1, <1>2, RefusedKeeps DEF Close
<1>3. CASE s \in known
  <2>1. /\ known' = known \ {s}
        /\ page' = [page EXCEPT ![s] = None] \/ UNCHANGED page
        /\ JobEnds("browser", {})
        /\ UNCHANGED <<tree, screen, session, window, shots, used, acted>>
    BY <1>3 DEF Close
  <2> HIDE DEF s
  <2>2. {} \in SUBSET Observations
        /\ \A x \in {} : Observed(x) /\ (Identified(x) => x.id = Job("browser").id) /\ x.kind # "shot"
    OBVIOUS
  <2>3. page' \in [Sessions -> Pages \union {None}] /\ known' \subseteq Sessions
    BY <2>1, Typed
  <2>4. UiTyped' /\ JobInv' /\ ToldInv'
    BY <1>1, <2>1, <2>2, <2>3, EndedTyped, Typed
  <2>5. ShotInv' /\ DesktopInv' /\ ElementInv'
    BY <1>1, <2>1, <2>2, EndedShots, EndedElements, EndedDesktop
  <2>6. step'["browser"] = "start"
    BY <1>1, <2>1, <2>2, Ended
  <2>7. \A r \in known' : page'[r] = page[r]
    BY <2>1, Typed
  <2>8. BrowserInv'
    BY <2>1, <2>6, <2>7 DEF UiInv, BrowserInv
  <2>9. ActionsAreSeen' /\ PointersAreAwaited'
    BY <2>1, <2>4 DEF UiInv, UiTyped, ActionsAreSeen, PointersAreAwaited
  <2> QED  BY <2>4, <2>5, <2>8, <2>9 DEF UiInv
<1> QED  BY <1>2, <1>3

\* New elements are handed out under the number of the job that collects them.
LEMMA CollectKeeps ==
  ASSUME UiInv, Collect
  PROVE  UiInv'
<1> DEFINE s == Job("browser").obs.on
           n == Job("browser").id
           o == [kind |-> "page", on |-> s, id |-> n, print |-> read["browser"],
                 seen |-> page[s], torn |-> moved["browser"]]
<1>1. "browser" \in Adapters /\ queue["browser"] # <<>>
  BY DEF Adapters, Collect, Runs
<1> SUFFICES ASSUME ~Refused("browser")  PROVE UiInv'
  BY <1>1, RefusedKeeps
<1>2. PICK obs \in {{o}, {}} :
         /\ session' = [session EXCEPT ![s] = [print |-> read["browser"], elements |-> n]]
         /\ JobEnds("browser", obs)
         /\ UNCHANGED <<world, known, window, shots, used, acted>>
  BY DEF Collect
<1>3. /\ s \in known /\ read["browser"] \in Pages
      /\ moved["browser"] \/ page[s] = read["browser"]
  BY DEF UiInv, BrowserInv, Collect
<1>4. s \in Sessions /\ page[s] \in Pages /\ n \in Nat /\ 1 <= n /\ n <= asks
  <2>1. Job("browser") \in Jobs("browser") /\ Job("browser") \in Orders  BY <1>1, Typed
  <2>2. n \in Nat  BY <2>1 DEF Orders
  <2>3. 1 <= n /\ n <= asks  BY <2>1 DEF UiInv, JobInv, Adapters
  <2> QED  BY <2>2, <2>3, <1>3, Typed DEF UiInv, BrowserInv
<1>5. o \in Observations
  <2>1. moved["browser"] \in BOOLEAN  BY DEF UiInv, UiTyped, Adapters
  <2> QED  BY <2>1, <1>3, <1>4 DEF Observations, Kinds, Prints
<1>6. Observed(o) /\ o.id = n /\ o.kind = "page"
  BY <1>3 DEF Observed
<1>7. obs \in SUBSET Observations
      /\ \A x \in obs : Observed(x) /\ (Identified(x) => x.id = Job("browser").id) /\ x.kind # "shot"
  BY <1>5, <1>6
<1> HIDE DEF o, s, n
<1>8. session' \in [Sessions -> [print : Prints, elements : Nat]]
  BY <1>2, <1>3, <1>4, Typed DEF Prints
<1>9. UiTyped' /\ JobInv' /\ ToldInv'
  <2>1. /\ page' \in [Sessions -> Pages \union {None}] /\ known' \subseteq Sessions
        /\ tree' \in Trees /\ screen' \in Screens
        /\ window' \in [id : Nat, title : Prints, print : Prints, elements : Nat]
        /\ shots' \in Seq(Shots) /\ Len(shots') <= MaxShots
    BY <1>2, Typed DEF world
  <2> QED  BY <1>1, <1>2, <1>7, <1>8, <2>1, EndedTyped
<1>10. ShotInv' /\ DesktopInv' /\ BrowserInv'
  BY <1>1, <1>2, <1>7, EndedShots, EndedDesktop, EndedBrowser DEF world
<1>11. UNCHANGED asks /\ \A b \in Adapters : \A j \in Jobs(b)' : j \in Jobs(b) /\ j.id # n
  BY <1>1, <1>2, <1>7, Ended DEF n
<1>12. ElementInv'
  <2>1. \A r \in Sessions : session'[r] = IF r = s THEN [print |-> read["browser"], elements |-> n] ELSE session[r]
    BY <1>2, Typed
  <2>2. n \notin used /\ \A r \in Sessions : session[r].elements # n
    <3>1. Job("browser") \in Jobs("browser")  BY <1>1, Typed
    <3> QED  BY <3>1 DEF n, UiInv, ElementInv, Adapters
  <2>3. \A k \in used : k \in Nat /\ k <= asks /\ \A b \in Adapters : \A j \in Jobs(b)' : j.id # k
    BY <1>11 DEF UiInv, ElementInv
  <2>4. ASSUME NEW r \in Sessions
        PROVE /\ session'[r].elements <= asks
              /\ \A j \in Jobs("browser")' : j.id # session'[r].elements
              /\ session'[r].elements \in used => session'[r].print = None
              /\ \A q \in Sessions \ {r} : session'[q].elements = session'[r].elements => session'[r].elements = 0
    <3>1. CASE r = s
      <4>1. session'[r].elements = n  BY <3>1, <2>1
      <4>2. \A q \in Sessions \ {r} : session'[q].elements = session[q].elements  BY <3>1, <2>1
      <4> QED  BY <4>1, <4>2, <2>2, <1>4, <1>11 DEF Adapters
    <3>2. CASE r # s
      <4>1. session'[r] = session[r]  BY <3>2, <2>1
      <4>2. \A q \in Sessions \ {r} : session'[q].elements \in {n, session[q].elements}  BY <2>1
      <4> QED  BY <4>1, <4>2, <2>2, <1>11 DEF UiInv, ElementInv, Adapters
    <3> QED  BY <3>1, <3>2
  <2> QED  BY <1>2, <1>11, <2>3, <2>4 DEF ElementInv
<1>13. ActionsAreSeen' /\ PointersAreAwaited'
  BY <1>2, <1>9 DEF UiInv, UiTyped, ActionsAreSeen, PointersAreAwaited
<1> QED  BY <1>9, <1>10, <1>12, <1>13 DEF UiInv

\* A job goes on: nothing but its step, and what it has read, changes.
LEMMA Proceeded ==
  ASSUME UiInv, NEW a \in Adapters, queue[a] # <<>>, NEW next \in {"collect", "act"}, NEW what,
         Proceeds(a, next, what), UNCHANGED <<world, memory, used, acted>>
  PROVE  /\ UiTyped' /\ JobInv' /\ ToldInv' /\ ElementInv' /\ ShotInv'
         /\ ActionsAreSeen' /\ PointersAreAwaited'
         /\ queue' = queue /\ Job(a)' = Job(a)
         /\ step'[a] = next /\ read'[a] = what /\ moved'[a] = FALSE
         /\ \A b \in Adapters \ {a} : step'[b] = step[b] /\ read'[b] = read[b] /\ moved'[b] = moved[b]
<1>1. /\ step' = [step EXCEPT ![a] = next] /\ read' = [read EXCEPT ![a] = what]
      /\ moved' = [moved EXCEPT ![a] = FALSE]
      /\ UNCHANGED <<clock, asks, caller, queue, told, changes>>
  BY DEF Proceeds
<1>2. UNCHANGED <<page, tree, screen, known, session, window, shots, used, acted>>
  BY DEF world, memory
<1>3. /\ step \in [Adapters -> {"start", "collect", "act"}] /\ moved \in [Adapters -> BOOLEAN]
      /\ DOMAIN read = Adapters
  BY DEF UiInv, UiTyped
<1>4. /\ step' \in [Adapters -> {"start", "collect", "act"}] /\ moved' \in [Adapters -> BOOLEAN]
      /\ DOMAIN read' = Adapters
      /\ step'[a] = next /\ read'[a] = what /\ moved'[a] = FALSE
      /\ \A b \in Adapters \ {a} : step'[b] = step[b] /\ read'[b] = read[b] /\ moved'[b] = moved[b]
  BY <1>1, <1>3
<1>5. UiTypeOK'
  BY <1>1, <1>2, <1>4 DEF UiInv, UiTyped, UiTypeOK
<1>6. UiTyped'
  BY <1>1, <1>2, <1>4, <1>5 DEF UiInv, UiTyped
<1>7. \A b \in Adapters : Jobs(b)' = Jobs(b)
  BY <1>1 DEF Jobs
<1>8. JobInv'
  <2>1. \A b \in Adapters : step'[b] # "start" => queue'[b] # <<>>
    BY <1>1, <1>4 DEF UiInv, JobInv
  <2> QED  BY <2>1, <1>1, <1>7 DEF UiInv, JobInv, Adapters
<1>9. ToldInv' /\ ElementInv'
  BY <1>1, <1>2, <1>7 DEF UiInv, ToldInv, ElementInv, Adapters
<1>10. ShotInv'
  BY <1>1, <1>2, <1>7 DEF UiInv, ShotInv, Adapters
<1>11. ActionsAreSeen' /\ PointersAreAwaited'
  BY <1>2, <1>5 DEF UiInv, ActionsAreSeen, PointersAreAwaited
<1> QED
  BY <1>1, <1>4, <1>6, <1>8, <1>9, <1>10, <1>11 DEF Job

LEMMA BrowserProceeds ==
  ASSUME UiInv, queue["browser"] # <<>>, NEW next \in {"collect", "act"}, NEW what,
         Proceeds("browser", next, what), UNCHANGED <<world, memory, used, acted>>, BrowserInv'
  PROVE  UiInv'
<1>1. "browser" \in Adapters /\ "desktop" \in Adapters \ {"browser"}
  BY DEF Adapters
<1>2. /\ UiTyped' /\ JobInv' /\ ToldInv' /\ ElementInv' /\ ShotInv'
      /\ ActionsAreSeen' /\ PointersAreAwaited'
      /\ queue' = queue
      /\ \A b \in Adapters \ {"browser"} :
           step'[b] = step[b] /\ read'[b] = read[b] /\ moved'[b] = moved[b]
  BY <1>1, Proceeded
<1>3. DesktopInv'
  <2>1. /\ step'["desktop"] = step["desktop"] /\ read'["desktop"] = read["desktop"]
        /\ moved'["desktop"] = moved["desktop"] /\ Job("desktop")' = Job("desktop")
    BY <1>1, <1>2 DEF Job
  <2> QED  BY <2>1 DEF UiInv, DesktopInv, world
<1> QED  BY <1>2, <1>3 DEF UiInv

LEMMA DesktopProceeds ==
  ASSUME UiInv, queue["desktop"] # <<>>, NEW next \in {"collect", "act"}, NEW what,
         Proceeds("desktop", next, what), UNCHANGED <<world, memory, used, acted>>, DesktopInv'
  PROVE  UiInv'
<1>1. "desktop" \in Adapters /\ "browser" \in Adapters \ {"desktop"}
  BY DEF Adapters
<1>2. /\ UiTyped' /\ JobInv' /\ ToldInv' /\ ElementInv' /\ ShotInv'
      /\ ActionsAreSeen' /\ PointersAreAwaited'
      /\ queue' = queue
      /\ \A b \in Adapters \ {"desktop"} :
           step'[b] = step[b] /\ read'[b] = read[b] /\ moved'[b] = moved[b]
  BY <1>1, Proceeded
<1>3. BrowserInv'
  <2>1. /\ step'["browser"] = step["browser"] /\ read'["browser"] = read["browser"]
        /\ moved'["browser"] = moved["browser"] /\ Job("browser")' = Job("browser")
    BY <1>1, <1>2 DEF Job
  <2> QED  BY <2>1 DEF UiInv, BrowserInv, world, memory
<1> QED  BY <1>2, <1>3 DEF UiInv

LEMMA FingerprintKeeps ==
  ASSUME UiInv, Fingerprint
  PROVE  UiInv'
<1>1. "browser" \in Adapters /\ queue["browser"] # <<>>
  BY DEF Adapters, Fingerprint, Runs
<1> DEFINE s == Job("browser").obs.on
<1>2. CASE Refused("browser")
  BY <1>1, <1>2, RefusedKeeps
<1>3. CASE ~Refused("browser")
  <2>1. /\ Proceeds("browser", "collect", page[s]) /\ UNCHANGED <<world, memory, used, acted>>
        /\ Job("browser").tool = "state" /\ s \in known
    BY <1>3 DEF Fingerprint, Runs, Job
  <2> HIDE DEF s
  <2>2. /\ step'["browser"] = "collect" /\ read'["browser"] = page[s]
        /\ Job("browser")' = Job("browser")
    <3> DEFINE seen == page[s]
    <3>1. Proceeds("browser", "collect", seen)  BY <2>1
    <3> HIDE DEF seen
    <3>2. /\ step'["browser"] = "collect" /\ read'["browser"] = seen
          /\ Job("browser")' = Job("browser")
      BY <1>1, <2>1, <3>1, Proceeded
    <3> QED  BY <3>2 DEF seen
  <2>3. page[s] \in Pages  BY <2>1 DEF UiInv, BrowserInv
  <2>4. BrowserInv'
    BY <2>1, <2>2, <2>3 DEF s, UiInv, BrowserInv, world, memory
  <2> QED  BY <1>1, <2>1, <2>4, BrowserProceeds
<1> QED  BY <1>2, <1>3

\* A reference is fresh for the observation that handed it out, and only while
\* nothing has been done with it.
LEMMA CheckElementKeeps ==
  ASSUME UiInv, CheckElement
  PROVE  UiInv'
<1>1. "browser" \in Adapters /\ queue["browser"] # <<>> /\ Job("browser").tool = "act"
  BY DEF Adapters, CheckElement, Runs, Job
<1> DEFINE o == Job("browser").obs
<1>2. CASE Refused("browser")
  BY <1>1, <1>2, RefusedKeeps
<1>3. CASE ~Refused("browser")
  <2>1. /\ FreshElement(o.on, o)
        /\ Proceeds("browser", "act", None) /\ UNCHANGED <<world, memory, used, acted>>
    BY <1>3 DEF CheckElement
  <2>2. /\ step'["browser"] = "act" /\ Job("browser")' = Job("browser")
    BY <1>1, <2>1, Proceeded
  <2>3. /\ o.on \in known /\ o.on \in Sessions
        /\ session[o.on].print = o.print /\ page[o.on] = o.print /\ session[o.on].elements = o.id
    BY <2>1, Typed DEF FreshElement
  <2>4. o \in told /\ o.kind = "page"
    BY <1>1, Typed DEF UiInv, JobInv
  <2>5. o.print # None
    BY <2>4, UiAssumption DEF UiInv, ToldInv, Observed
  <2>6. o.id \notin used
    BY <2>3, <2>5 DEF UiInv, ElementInv
  <2>7. BrowserInv'
    BY <1>1, <2>1, <2>2, <2>3, <2>6 DEF UiInv, BrowserInv, world, memory
  <2> QED  BY <1>1, <2>1, <2>7, BrowserProceeds
<1> QED  BY <1>2, <1>3

LEMMA ActOnElementKeeps ==
  ASSUME UiInv, ActOnElement
  PROVE  UiInv'
<1> DEFINE o == Job("browser").obs
           s == o.on
<1>1. "browser" \in Adapters /\ queue["browser"] # <<>> /\ Job("browser").tool = "act"
      /\ step["browser"] = "act"
  BY DEF Adapters, ActOnElement, Runs, Job
<1>2. PICK p \in Pages : page' = [page EXCEPT ![s] = p]
  BY DEF ActOnElement
<1>3. /\ acted' = [obs |-> o, now |-> page[s], moved |-> moved["browser"],
                   again |-> o.id \in used, waited |-> read["browser"] = "waited"]
      /\ \/ session' = [session EXCEPT ![s].print = None] /\ used' = used \union {o.id}
         \/ UNCHANGED <<session, used>>
      /\ JobEnds("browser", {})
      /\ UNCHANGED <<tree, screen, known, window, shots>>
  BY DEF ActOnElement, Acts
<1>4. /\ s \in known /\ o.id \notin used /\ session[s].elements = o.id
      /\ moved["browser"] \/ page[s] = o.print
  BY <1>1 DEF UiInv, BrowserInv
<1>5. o \in told /\ o.kind = "page"
  BY <1>1, Typed DEF UiInv, JobInv
<1>6. /\ Observed(o) /\ 1 <= o.id /\ o.id <= asks /\ \A a \in Adapters : \A j \in Jobs(a) : j.id # o.id
  BY <1>5 DEF UiInv, ToldInv, Identified
<1>7. s \in Sessions /\ o.id \in Nat
  BY <1>1, <1>4, Typed DEF Orders, Observations
<1> HIDE DEF o, s
<1>8. {} \in SUBSET Observations
      /\ \A x \in {} : Observed(x) /\ (Identified(x) => x.id = Job("browser").id) /\ x.kind # "shot"
  OBVIOUS
<1>9. page' \in [Sessions -> Pages \union {None}]
  BY <1>2, Typed
<1>10. session' \in [Sessions -> [print : Prints, elements : Nat]]
  BY <1>3, <1>7, Typed DEF Prints
<1>11. UiTyped' /\ JobInv' /\ ToldInv'
  <2>1. /\ known' \subseteq Sessions
        /\ tree' \in Trees /\ screen' \in Screens
        /\ window' \in [id : Nat, title : Prints, print : Prints, elements : Nat]
        /\ shots' \in Seq(Shots) /\ Len(shots') <= MaxShots
    BY <1>3, Typed
  <2> QED  BY <1>1, <1>3, <1>8, <1>9, <1>10, <2>1, EndedTyped
<1>12. ShotInv' /\ DesktopInv'
  BY <1>1, <1>3, <1>8, EndedShots, EndedDesktop
<1>13. /\ step'["browser"] = "start" /\ UNCHANGED asks
       /\ \A b \in Adapters : \A j \in Jobs(b)' : j \in Jobs(b)
  BY <1>1, <1>3, <1>8, Ended
<1>14. BrowserInv'
  BY <1>2, <1>3, <1>13, Typed DEF UiInv, BrowserInv
<1>15. ElementInv'
  <2>1. CASE UNCHANGED <<session, used>>
    BY <1>1, <1>3, <1>8, <2>1, EndedElements
  <2>2. CASE session' = [session EXCEPT ![s].print = None] /\ used' = used \union {o.id}
    <3>1. \A r \in Sessions : /\ session'[r].elements = session[r].elements
                              /\ session'[r].print = IF r = s THEN None ELSE session[r].print
      BY <2>2, Typed
    <3>2. \A k \in used' : k \in Nat /\ k <= asks /\ \A b \in Adapters : \A j \in Jobs(b)' : j.id # k
      BY <2>2, <1>6, <1>7, <1>13 DEF UiInv, ElementInv
    <3>3. ASSUME NEW r \in Sessions
          PROVE /\ session'[r].elements <= asks
                /\ \A j \in Jobs("browser")' : j.id # session'[r].elements
                /\ session'[r].elements \in used' => session'[r].print = None
                /\ \A q \in Sessions \ {r} : session'[q].elements = session'[r].elements => session'[r].elements = 0
      <4>1. /\ session[r].elements <= asks
            /\ \A j \in Jobs("browser") : j.id # session[r].elements
            /\ session[r].elements \in used => session[r].print = None
            /\ \A q \in Sessions \ {r} : session[q].elements = session[r].elements => session[r].elements = 0
        BY DEF UiInv, ElementInv
      <4>2. session'[r].elements \in used' => session'[r].print = None
        <5>1. CASE r = s  BY <5>1, <3>1
        <5>2. CASE r # s
          <6>1. session[r].elements # o.id
            BY <5>2, <4>1, <1>4, <1>6, <1>7
          <6> QED  BY <5>2, <6>1, <4>1, <3>1, <2>2
        <5> QED  BY <5>1, <5>2
      <4>3. \A j \in Jobs("browser")' : j.id # session'[r].elements
        BY <4>1, <3>1, <1>1, <1>13
      <4> QED  BY <4>1, <4>2, <4>3, <3>1
    <3> QED  BY <1>13, <3>2, <3>3 DEF ElementInv
  <2> QED  BY <1>3, <2>1, <2>2
<1>16. ActionsAreSeen' /\ PointersAreAwaited'
  <2>1. acted'.now = acted'.obs.seen \/ acted'.moved \/ acted'.obs.torn
    BY <1>3, <1>4, <1>5, <1>6 DEF Observed
  <2>2. ~acted'.again /\ acted'.obs.kind = "page"
    BY <1>3, <1>4, <1>5
  <2> QED  BY <1>11, <2>1, <2>2 DEF UiTyped, ActionsAreSeen, PointersAreAwaited
<1> QED  BY <1>11, <1>12, <1>14, <1>15, <1>16 DEF UiInv

LEMMA ListWindowsKeeps ==
  ASSUME UiInv, ListWindows
  PROVE  UiInv'
<1> DEFINE n == Job("desktop").id
           o == [kind |-> "window", on |-> n, id |-> n, print |-> tree[1], seen |-> tree, torn |-> FALSE]
<1>1. "desktop" \in Adapters /\ queue["desktop"] # <<>>
  BY DEF Adapters, ListWindows, Runs
<1>2. PICK obs \in {{o}, {}} :
         /\ window' \in {NoWindow, [NoWindow EXCEPT !.id = n, !.title = tree[1]]}
         /\ JobEnds("desktop", obs) /\ UNCHANGED <<world, known, session, shots, used, acted>>
  BY DEF ListWindows
<1>3. n \in Nat /\ tree \in Trees /\ tree[1] \in Titles
  BY <1>1, Typed DEF Orders, Trees
<1>4. o \in Observations /\ o.kind = "window" /\ Observed(o) /\ ~Identified(o)
  BY <1>3 DEF Observations, Kinds, Prints, Observed, Identified
<1>5. obs \in SUBSET Observations
      /\ \A x \in obs : Observed(x) /\ (Identified(x) => x.id = Job("desktop").id) /\ x.kind # "shot"
  BY <1>4
<1>6. window' \in [id : Nat, title : Prints, print : Prints, elements : Nat]
  <2>1. NoWindow \in [id : Nat, title : Prints, print : Prints, elements : Nat]
    BY DEF NoWindow, Prints
  <2>2. tree[1] \in Prints
    BY <1>3 DEF Prints
  <2>3. [NoWindow EXCEPT !.id = n, !.title = tree[1]]
          \in [id : Nat, title : Prints, print : Prints, elements : Nat]
    BY <1>3, <2>1, <2>2
  <2> QED  BY <1>2, <2>1, <2>3
<1> HIDE DEF o, n
<1>7. UiTyped' /\ JobInv' /\ ToldInv'
  <2>1. /\ page' \in [Sessions -> Pages \union {None}] /\ known' \subseteq Sessions
        /\ tree' \in Trees /\ screen' \in Screens
        /\ session' \in [Sessions -> [print : Prints, elements : Nat]]
        /\ shots' \in Seq(Shots) /\ Len(shots') <= MaxShots
    BY <1>2, Typed DEF world
  <2> QED  BY <1>1, <1>2, <1>5, <1>6, <2>1, EndedTyped
<1>8. ShotInv' /\ DesktopInv' /\ BrowserInv' /\ ElementInv'
  BY <1>1, <1>2, <1>5, EndedShots, EndedDesktop, EndedBrowser, EndedElements DEF world
<1>9. ActionsAreSeen' /\ PointersAreAwaited'
  BY <1>2, <1>7 DEF UiInv, UiTyped, ActionsAreSeen, PointersAreAwaited
<1> QED  BY <1>7, <1>8, <1>9 DEF UiInv

LEMMA ReadTreeKeeps ==
  ASSUME UiInv, ReadTree
  PROVE  UiInv'
<1> DEFINE n == Job("desktop").id
           o == [kind |-> "tree", on |-> window.id, id |-> n, print |-> tree, seen |-> tree, torn |-> FALSE]
<1>1. "desktop" \in Adapters /\ queue["desktop"] # <<>>
  BY DEF Adapters, ReadTree, Runs
<1>2. CASE Refused("desktop")
  BY <1>1, <1>2, RefusedKeeps
<1>3. CASE ~Refused("desktop")
  <2>1. /\ window' = [window EXCEPT !.print = tree, !.elements = n]
        /\ JobEnds("desktop", {o}) /\ UNCHANGED <<world, known, session, shots, used, acted>>
    BY <1>3 DEF ReadTree
  <2>2. n \in Nat /\ tree \in Trees /\ window.id \in Nat
    BY <1>1, Typed DEF Orders
  <2>3. o \in Observations /\ o.kind = "tree" /\ Observed(o) /\ ~Identified(o)
    BY <2>2 DEF Observations, Kinds, Prints, Observed, Identified
  <2>4. {o} \in SUBSET Observations
        /\ \A x \in {o} : Observed(x) /\ (Identified(x) => x.id = Job("desktop").id) /\ x.kind # "shot"
    BY <2>3
  <2>5. window' \in [id : Nat, title : Prints, print : Prints, elements : Nat]
    BY <2>1, <2>2, Typed DEF Prints
  <2> HIDE DEF o, n
  <2>6. UiTyped' /\ JobInv' /\ ToldInv'
    <3>1. /\ page' \in [Sessions -> Pages \union {None}] /\ known' \subseteq Sessions
          /\ tree' \in Trees /\ screen' \in Screens
          /\ session' \in [Sessions -> [print : Prints, elements : Nat]]
          /\ shots' \in Seq(Shots) /\ Len(shots') <= MaxShots
      BY <2>1, Typed DEF world
    <3> QED  BY <1>1, <2>1, <2>4, <2>5, <3>1, EndedTyped
  <2>7. ShotInv' /\ DesktopInv' /\ BrowserInv' /\ ElementInv'
    BY <1>1, <2>1, <2>4, EndedShots, EndedDesktop, EndedBrowser, EndedElements DEF world
  <2>8. ActionsAreSeen' /\ PointersAreAwaited'
    BY <2>1, <2>6 DEF UiInv, UiTyped, ActionsAreSeen, PointersAreAwaited
  <2> QED  BY <2>6, <2>7, <2>8 DEF UiInv
<1> QED  BY <1>2, <1>3

LEMMA FocusKeeps ==
  ASSUME UiInv, Focus
  PROVE  UiInv'
<1>1. "desktop" \in Adapters /\ queue["desktop"] # <<>>
  BY DEF Adapters, Focus, Runs
<1> QED  BY <1>1, RefusedKeeps, QuietEnd DEF Focus

LEMMA CheckControlKeeps ==
  ASSUME UiInv, CheckControl
  PROVE  UiInv'
<1>1. "desktop" \in Adapters /\ queue["desktop"] # <<>> /\ Job("desktop").tool \in {"act", "key"}
  BY DEF Adapters, CheckControl, OnTree, Runs, Job
<1>2. CASE Refused("desktop")
  BY <1>1, <1>2, RefusedKeeps
<1>3. CASE ~Refused("desktop")
  <2>1. /\ FreshTree(Job("desktop").obs)
        /\ Proceeds("desktop", "act", None) /\ UNCHANGED <<world, memory, used, acted>>
    BY <1>3 DEF CheckControl, FreshControl
  <2>2. step'["desktop"] = "act" /\ Job("desktop")' = Job("desktop")
    BY <1>1, <2>1, Proceeded
  <2>3. DesktopInv'
    BY <1>1, <2>1, <2>2 DEF DesktopInv, FreshTree, world
  <2> QED  BY <1>1, <2>1, <2>3, DesktopProceeds
<1> QED  BY <1>2, <1>3

\* Evidence that is fresh is of a caller who still waits.
LEMMA CheckShotKeeps ==
  ASSUME UiInv, CheckShot
  PROVE  UiInv'
<1>1. "desktop" \in Adapters /\ queue["desktop"] # <<>> /\ Job("desktop").tool = "point"
  BY DEF Adapters, CheckShot, Runs, Job
<1> DEFINE j == Job("desktop")
           what == IF caller.id = j.id THEN "waited" ELSE "late"
<1>2. CASE Refused("desktop")
  BY <1>1, <1>2, RefusedKeeps
<1>3. CASE ~Refused("desktop")
  <2>1. /\ FreshShot(j.obs)
        /\ Proceeds("desktop", "act", what) /\ UNCHANGED <<world, memory, used, acted>>
    BY <1>3 DEF CheckShot
  <2>2. PICK n \in DOMAIN shots :
          shots[n].id = j.obs.id /\ clock - shots[n].at <= Expiry /\ screen = shots[n].screen
    BY <2>1 DEF FreshShot
  <2>3. j \in Jobs("desktop") /\ j.obs \in told /\ j.obs.kind = "shot"
    BY <1>1, Typed DEF UiInv, JobInv
  <2>4. /\ j.obs.print = shots[n].screen
        /\ \/ caller.id = j.id
           \/ DesktopTimeout <= clock - shots[n].at
    BY <1>1, <2>2, <2>3 DEF UiInv, ShotInv
  <2>5. ~(DesktopTimeout <= clock - shots[n].at)
    <3>1. shots[n] \in Shots /\ clock \in Nat
      <4>1. shots \in Seq(Shots) /\ clock \in Nat  BY Typed
      <4> QED  BY <4>1
    <3>3. shots[n].at \in Nat  BY <3>1 DEF Shots
    <3>2. Expiry \in Nat /\ DesktopTimeout \in Nat /\ Expiry < DesktopTimeout  BY UiAssumption
    <3> QED  BY <2>2, <3>1, <3>2, <3>3
  <2>6. what = "waited" /\ screen = j.obs.print
    BY <2>2, <2>4, <2>5
  <2>7. step'["desktop"] = "act" /\ read'["desktop"] = what /\ Job("desktop")' = Job("desktop")
    <3> HIDE DEF what
    <3> QED  BY <1>1, <2>1, Proceeded
  <2>8. DesktopInv'
    BY <1>1, <2>1, <2>6, <2>7 DEF DesktopInv, world
  <2> QED  BY <1>1, <2>1, <2>8, DesktopProceeds
<1> QED  BY <1>2, <1>3

\* The steps of the desktop that act.
LEMMA ActedOnDesktop ==
  ASSUME UiInv, queue["desktop"] # <<>>, step["desktop"] = "act",
         NEW now, Acts("desktop", now), tree' \in Trees, JobEnds("desktop", {}),
         UNCHANGED <<page, screen, memory, used>>,
         LET o == Job("desktop").obs IN
           /\ o.kind \in {"tree", "shot"} /\ o \in told
           /\ moved["desktop"] \/ now = o.print
           /\ o.kind = "shot" => read["desktop"] = "waited"
  PROVE  UiInv'
<1> DEFINE o == Job("desktop").obs
<1>1. "desktop" \in Adapters
  BY DEF Adapters
<1>2. {} \in SUBSET Observations
      /\ \A x \in {} : Observed(x) /\ (Identified(x) => x.id = Job("desktop").id) /\ x.kind # "shot"
  OBVIOUS
<1>3. UiTyped' /\ JobInv' /\ ToldInv'
  <2>1. /\ page' \in [Sessions -> Pages \union {None}] /\ known' \subseteq Sessions
        /\ screen' \in Screens
        /\ session' \in [Sessions -> [print : Prints, elements : Nat]]
        /\ window' \in [id : Nat, title : Prints, print : Prints, elements : Nat]
        /\ shots' \in Seq(Shots) /\ Len(shots') <= MaxShots
    BY Typed DEF memory
  <2> QED  BY <1>1, <1>2, <2>1, EndedTyped
<1>4. ShotInv' /\ DesktopInv' /\ BrowserInv' /\ ElementInv'
  BY <1>1, <1>2, EndedShots, EndedDesktop, EndedBrowser, EndedElements DEF memory
<1>5. acted' = [obs |-> o, now |-> now, moved |-> moved["desktop"],
                again |-> o.id \in used, waited |-> read["desktop"] = "waited"]
  BY DEF Acts
<1>6. o.kind \in {"tree", "shot"} /\ o.seen = o.print
  BY DEF UiInv, ToldInv, Observed
<1> HIDE DEF o
<1>7. acted'.now = acted'.obs.seen \/ acted'.moved
  BY <1>5, <1>6 DEF o
<1>8. acted'.obs.kind # "page" /\ (acted'.obs.kind = "shot" => acted'.waited)
  BY <1>5, <1>6 DEF o
<1>9. ActionsAreSeen' /\ PointersAreAwaited'
  BY <1>3, <1>7, <1>8 DEF UiTyped, ActionsAreSeen, PointersAreAwaited
<1> QED  BY <1>3, <1>4, <1>9 DEF UiInv

LEMMA ActOnControlKeeps ==
  ASSUME UiInv, ActOnControl
  PROVE  UiInv'
<1>1. "desktop" \in Adapters /\ queue["desktop"] # <<>> /\ Job("desktop").tool \in {"act", "key"}
      /\ step["desktop"] = "act"
  BY DEF Adapters, ActOnControl, OnTree, Runs, Job
<1>2. /\ Job("desktop").obs.kind = "tree" /\ Job("desktop").obs \in told
      /\ moved["desktop"] \/ tree = Job("desktop").obs.print
  BY <1>1, Typed DEF UiInv, JobInv, DesktopInv
<1> QED  BY <1>1, <1>2, ActedOnDesktop DEF ActOnControl

LEMMA PointKeeps ==
  ASSUME UiInv, Point
  PROVE  UiInv'
<1>1. "desktop" \in Adapters /\ queue["desktop"] # <<>> /\ Job("desktop").tool = "point"
      /\ step["desktop"] = "act"
  BY DEF Adapters, Point, Runs, Job
<1>2. /\ Job("desktop").obs.kind = "shot" /\ Job("desktop").obs \in told
      /\ moved["desktop"] \/ screen = Job("desktop").obs.print
      /\ read["desktop"] = "waited"
  BY <1>1, Typed DEF UiInv, JobInv, DesktopInv
<1> QED  BY <1>1, <1>2, ActedOnDesktop DEF Point

LEMMA CaptureKeeps ==
  ASSUME UiInv, Capture
  PROVE  UiInv'
<1> DEFINE n == Job("desktop").id
           o == [kind |-> "shot", on |-> None, id |-> n, print |-> screen, seen |-> screen, torn |-> FALSE]
           x == [id |-> n, screen |-> screen, at |-> clock]
           all == Append(shots, x)
           m == IF Len(all) > MaxShots THEN 2 ELSE 1
<1>1. "desktop" \in Adapters /\ queue["desktop"] # <<>>
  BY DEF Adapters, Capture, Runs
<1> SUFFICES ASSUME ~Refused("desktop")  PROVE UiInv'
  BY <1>1, RefusedKeeps
<1>2. /\ shots' = SubSeq(all, m, Len(all))
      /\ JobEnds("desktop", {o}) /\ UNCHANGED <<world, known, session, window, used, acted>>
  BY DEF Capture
<1>3. n \in Nat /\ screen \in Screens /\ clock \in Nat
  BY <1>1, Typed DEF Orders
<1>4. o \in Observations /\ o.kind = "shot" /\ o.id = n /\ o.print = screen /\ Observed(o)
  BY <1>3 DEF Observations, Kinds, Prints, Observed
<1>5. {o} \in SUBSET Observations
      /\ \A y \in {o} : Observed(y) /\ (Identified(y) => y.id = Job("desktop").id)
  BY <1>4
<1>6. x \in Shots /\ x.id = n /\ x.screen = screen /\ x.at = clock
  BY <1>3 DEF Shots
<1> HIDE DEF x
<1>7. /\ shots' \in Seq(Shots) /\ Len(shots') <= MaxShots
      /\ \A i \in DOMAIN shots' : shots'[i] = x \/ \E k \in DOMAIN shots : shots'[i] = shots[k]
  <2>1. shots \in Seq(Shots) /\ Len(shots) <= MaxShots /\ MaxShots \in Nat /\ Len(shots) \in Nat
    BY Typed, UiAssumption
  <2>2. all \in Seq(Shots) /\ Len(all) = Len(shots) + 1
    BY <1>6, <2>1
  <2>3. all[Len(shots) + 1] = x /\ \A i \in 1..Len(shots) : all[i] = shots[i]
    BY <2>1
  <2> HIDE DEF all
  <2>4. CASE Len(all) > MaxShots
    <3>1. m = 2 /\ shots' = SubSeq(all, 2, Len(all))  BY <2>4, <1>2
    <3>2. shots' \in Seq(Shots) /\ Len(shots') = Len(all) - 1  BY <2>1, <2>2, <3>1
    <3>3. \A i \in 1..(Len(all) - 1) : shots'[i] = all[i + 1]  BY <2>1, <2>2, <3>1
    <3>4. ASSUME NEW i \in DOMAIN shots'  PROVE shots'[i] = x \/ \E k \in DOMAIN shots : shots'[i] = shots[k]
      <4>1. i \in 1..Len(shots) /\ shots'[i] = all[i + 1]  BY <2>1, <2>2, <3>2, <3>3
      <4>2. CASE i = Len(shots)  BY <4>1, <4>2, <2>3
      <4>3. CASE i # Len(shots)
        <5>1. i + 1 \in 1..Len(shots) /\ i + 1 \in DOMAIN shots  BY <4>1, <4>3, <2>1
        <5> QED  BY <4>1, <5>1, <2>3
      <4> QED  BY <4>2, <4>3
    <3> QED  BY <3>2, <3>4, <2>1, <2>2
  <2>5. CASE ~(Len(all) > MaxShots)
    <3>1. m = 1 /\ shots' = SubSeq(all, 1, Len(all))  BY <2>5, <1>2
    <3>2. shots' = all  BY <2>2, <3>1
    <3>3. ASSUME NEW i \in DOMAIN all  PROVE all[i] = x \/ \E k \in DOMAIN shots : all[i] = shots[k]
      <4>1. i \in 1..(Len(shots) + 1)  BY <2>2
      <4>2. CASE i = Len(shots) + 1  BY <4>2, <2>3
      <4>3. CASE i # Len(shots) + 1
        <5>1. i \in 1..Len(shots) /\ i \in DOMAIN shots  BY <4>1, <4>3, <2>1
        <5> QED  BY <5>1, <2>3
      <4> QED  BY <4>2, <4>3
    <3> QED  BY <3>2, <3>3, <2>1, <2>2, <2>5
  <2> QED  BY <2>4, <2>5
<1> HIDE DEF o, n, all, m
<1>8. UiTyped' /\ JobInv' /\ ToldInv'
  <2>1. /\ page' \in [Sessions -> Pages \union {None}] /\ known' \subseteq Sessions
        /\ tree' \in Trees /\ screen' \in Screens
        /\ session' \in [Sessions -> [print : Prints, elements : Nat]]
        /\ window' \in [id : Nat, title : Prints, print : Prints, elements : Nat]
    BY <1>2, Typed DEF world
  <2> QED  BY <1>1, <1>2, <1>5, <1>7, <2>1, EndedTyped
<1>9. DesktopInv' /\ BrowserInv' /\ ElementInv'
  BY <1>1, <1>2, <1>5, EndedDesktop, EndedBrowser, EndedElements DEF world
<1>10. /\ UNCHANGED <<clock, asks>> /\ told' \subseteq told \union {o}
       /\ \A b \in Adapters : \A j \in Jobs(b)' : j \in Jobs(b) /\ j.id # n
       /\ \A b \in Adapters : \A j \in Jobs(b)' : caller.id = j.id => caller' = caller
       /\ Job("desktop") \in Jobs("desktop")
  BY <1>1, <1>2, <1>5, Ended DEF n
<1>11. 1 <= n /\ n <= asks
  BY <1>1, <1>10 DEF n, UiInv, JobInv
<1>12. \A p \in told : p.kind = "shot" => p.id # n
  BY <1>1, <1>10 DEF n, UiInv, ToldInv, Identified
<1>13. ShotInv'
  <2> SUFFICES ASSUME NEW i \in DOMAIN shots'
        PROVE  /\ shots'[i].at <= clock /\ 1 <= shots'[i].id /\ shots'[i].id <= asks
               /\ \A b \in Adapters : \A j \in Jobs(b)' : j.id # shots'[i].id
               /\ \A p \in told' : p.kind = "shot" /\ p.id = shots'[i].id => p.print = shots'[i].screen
               /\ \A j \in Jobs("desktop")' : j.tool = "point" /\ j.obs.id = shots'[i].id =>
                    \/ caller'.id = j.id /\ caller'.adapter = "desktop" /\ shots'[i].at <= caller'.since
                    \/ DesktopTimeout <= clock - shots'[i].at
    BY <1>10 DEF ShotInv
  <2>1. CASE shots'[i] = x
    <3>1. \A p \in told' : p.kind = "shot" /\ p.id = n => p.print = screen
      BY <1>4, <1>10, <1>12
    <3>2. \A j \in Jobs("desktop")' : j.tool = "point" => j.obs.id # n
      BY <1>1, <1>10, <1>12 DEF UiInv, JobInv
    <3> QED  BY <2>1, <3>1, <3>2, <1>3, <1>6, <1>10, <1>11
  <2>2. CASE \E k \in DOMAIN shots : shots'[i] = shots[k]
    <3>1. PICK k \in DOMAIN shots : shots'[i] = shots[k]  BY <2>2
    <3>2. /\ shots[k].at <= clock /\ 1 <= shots[k].id /\ shots[k].id <= asks
          /\ \A b \in Adapters : \A j \in Jobs(b) : j.id # shots[k].id
          /\ \A p \in told : p.kind = "shot" /\ p.id = shots[k].id => p.print = shots[k].screen
          /\ \A j \in Jobs("desktop") : j.tool = "point" /\ j.obs.id = shots[k].id =>
               \/ caller.id = j.id /\ caller.adapter = "desktop" /\ shots[k].at <= caller.since
               \/ DesktopTimeout <= clock - shots[k].at
      BY DEF UiInv, ShotInv
    <3>3. shots[k].id # n  BY <1>1, <1>10, <3>2 DEF n
    <3>4. \A p \in told' : p.kind = "shot" /\ p.id = shots[k].id => p.print = shots[k].screen
      BY <1>4, <1>10, <3>2, <3>3
    <3>5. \A j \in Jobs("desktop")' : j.tool = "point" /\ j.obs.id = shots[k].id =>
            \/ caller'.id = j.id /\ caller'.adapter = "desktop" /\ shots[k].at <= caller'.since
            \/ DesktopTimeout <= clock - shots[k].at
      BY <1>1, <1>10, <3>2
    <3>6. \A b \in Adapters : \A j \in Jobs(b)' : j.id # shots[k].id
      BY <1>10, <3>2
    <3> QED  BY <3>1, <3>2, <3>4, <3>5, <3>6
  <2> QED  BY <2>1, <2>2, <1>7
<1>14. ActionsAreSeen' /\ PointersAreAwaited'
  BY <1>2, <1>8 DEF UiInv, UiTyped, ActionsAreSeen, PointersAreAwaited
<1> QED  BY <1>8, <1>9, <1>13, <1>14 DEF UiInv

LEMMA LookKeeps ==
  ASSUME UiInv, Look
  PROVE  UiInv'
<1>1. "browser" \in Adapters /\ queue["browser"] # <<>>
  BY DEF Adapters, Look, Runs
<1> QED  BY <1>1, RefusedKeeps DEF Look

\* A call: its number is new, so nothing that is known was observed by it.
LEMMA CallKeeps ==
  ASSUME UiInv, NEW a \in Adapters, NEW tool \in Tools, NEW obs \in Observations, Call(a, tool, obs),
         tool = "act" => obs.kind = (IF a = "browser" THEN "page" ELSE "tree"),
         tool = "key" => obs.kind = "tree",
         tool = "point" => a = "desktop" /\ obs.kind = "shot",
         tool \in {"act", "key", "point"} => obs \in told
  PROVE  UiInv'
<1> DEFINE new == [id |-> asks + 1, tool |-> tool, obs |-> obs]
<1>1. /\ caller = NoCaller /\ asks < MaxAsks /\ asks' = asks + 1
      /\ caller' = [adapter |-> a, id |-> asks + 1, since |-> clock]
      /\ queue' = [queue EXCEPT ![a] = Append(queue[a], new)]
      /\ UNCHANGED <<clock, step, read, page, tree, screen, known, session, window, shots, told,
                     changes, moved, used, acted>>
  BY DEF Call, world, memory
<1>2. asks \in Nat /\ asks' \in 0..MaxAsks /\ new \in Orders /\ new.id = asks + 1
      /\ new.tool = tool /\ new.obs = obs
  BY <1>1, Typed, UiAssumption DEF Orders
<1> HIDE DEF new
<1>3. /\ queue \in [Adapters -> Seq(Orders)] /\ \A b \in Adapters : Rising(queue[b])
      /\ \A b \in Adapters : \A j \in Jobs(b) : 1 <= j.id /\ j.id <= asks /\ j \in Orders
  BY DEF UiInv, UiTyped, JobInv, Jobs, Elements
<1>4. \A k \in Jobs(a) : k.id < new.id
  BY <1>2, <1>3 DEF Orders
<1>5. /\ Append(queue[a], new) \in Seq(Orders) /\ Append(queue[a], new) # <<>>
      /\ Elements(Append(queue[a], new)) = Jobs(a) \union {new}
      /\ Rising(Append(queue[a], new))
      /\ queue[a] # <<>> => Head(Append(queue[a], new)) = Head(queue[a])
  <2>1. queue[a] \in Seq(Orders) /\ Rising(queue[a])  BY <1>3
  <2>2. \A k \in Elements(queue[a]) : k.id < new.id  BY <1>4 DEF Jobs
  <2> QED  BY <1>2, <2>1, <2>2, QueueGrows DEF Jobs
<1>6. /\ queue' \in [Adapters -> Seq(Orders)]
      /\ queue'[a] = Append(queue[a], new) /\ \A b \in Adapters \ {a} : queue'[b] = queue[b]
  BY <1>1, <1>3, <1>5
<1>7. /\ Jobs(a)' = Jobs(a) \union {new}
      /\ \A b \in Adapters \ {a} : Jobs(b)' = Jobs(b)
  BY <1>5, <1>6 DEF Jobs
<1>8. \A b \in Adapters : \A j \in Jobs(b)' : j \in Jobs(b) \/ (b = a /\ j = new)
  BY <1>7
<1>9. \A b \in Adapters : /\ queue[b] # <<>> => queue'[b] # <<>> /\ Job(b)' = Job(b)
  BY <1>5, <1>6 DEF Job
<1>10. UiTyped'
  <2>1. caller'.adapter \in Adapters \union {None} /\ caller'.id \in 0..MaxAsks /\ caller'.since \in Nat
    BY <1>1, <1>2, Typed
  <2>2. clock' \in Nat /\ asks' \in 0..MaxAsks
    BY <1>1, <1>2, Typed
  <2> QED  BY <1>1, <1>6, <2>1, <2>2 DEF UiInv, UiTyped, UiTypeOK, Jobs, Elements
<1>11. JobInv'
  <2>1. \A b \in Adapters : Rising(queue'[b])
    BY <1>3, <1>5, <1>6
  <2>2. \A b \in Adapters : \A j \in Jobs(b)' :
          /\ 1 <= j.id /\ j.id <= asks'
          /\ j.tool = "act" => j.obs.kind = (IF b = "browser" THEN "page" ELSE "tree")
          /\ j.tool = "key" => j.obs.kind = "tree"
          /\ j.tool = "point" => b = "desktop" /\ j.obs.kind = "shot"
          /\ j.tool \in {"act", "key", "point"} => j.obs \in told'
    <3> SUFFICES ASSUME NEW b \in Adapters, NEW j \in Jobs(b)'
          PROVE  /\ 1 <= j.id /\ j.id <= asks'
                 /\ j.tool = "act" => j.obs.kind = (IF b = "browser" THEN "page" ELSE "tree")
                 /\ j.tool = "key" => j.obs.kind = "tree"
                 /\ j.tool = "point" => b = "desktop" /\ j.obs.kind = "shot"
                 /\ j.tool \in {"act", "key", "point"} => j.obs \in told'
      OBVIOUS
    <3>1. CASE j \in Jobs(b)
      <4>1. j.id \in Nat /\ 1 <= j.id /\ j.id <= asks  BY <3>1, <1>3 DEF Orders
      <4>2. 1 <= j.id /\ j.id <= asks'  BY <4>1, <1>1, <1>2
      <4> QED  BY <4>2, <3>1, <1>1 DEF UiInv, JobInv
    <3>2. CASE b = a /\ j = new
      BY <3>2, <1>1, <1>2
    <3> QED  BY <3>1, <3>2, <1>8
  <2>3. \A j \in Jobs("browser")', k \in Jobs("desktop")' : j.id # k.id
    <3> SUFFICES ASSUME NEW j \in Jobs("browser")', NEW k \in Jobs("desktop")'  PROVE j.id # k.id
      OBVIOUS
    <3>1. j \in Jobs("browser") \/ (a = "browser" /\ j = new)  BY <1>8 DEF Adapters
    <3>2. k \in Jobs("desktop") \/ (a = "desktop" /\ k = new)  BY <1>8 DEF Adapters
    <3>3. \A i \in Jobs("browser") : i.id \in Nat /\ i.id <= asks  BY <1>3 DEF Adapters, Orders
    <3>4. \A i \in Jobs("desktop") : i.id \in Nat /\ i.id <= asks  BY <1>3 DEF Adapters, Orders
    <3>5. CASE j \in Jobs("browser") /\ k \in Jobs("desktop")  BY <3>5 DEF UiInv, JobInv
    <3>6. CASE j = new /\ k \in Jobs("desktop")  BY <3>6, <3>4, <1>2
    <3>7. CASE j \in Jobs("browser") /\ k = new  BY <3>7, <3>3, <1>2
    <3> QED  BY <3>1, <3>2, <3>5, <3>6, <3>7
  <2>4. \A b \in Adapters : step'[b] # "start" => queue'[b] # <<>>
    BY <1>1, <1>9 DEF UiInv, JobInv
  <2> QED  BY <2>1, <2>2, <2>3, <2>4 DEF JobInv
<1>12. ASSUME NEW m \in Nat, m <= asks, \A b \in Adapters : \A j \in Jobs(b) : j.id # m
       PROVE  \A b \in Adapters : \A j \in Jobs(b)' : j.id # m
  <2>1. new.id # m  BY <1>2, <1>12
  <2> QED  BY <2>1, <1>8, <1>12
<1>13. ToldInv'
  <2> SUFFICES ASSUME NEW o \in told
        PROVE  /\ Observed(o)
               /\ Identified(o) => /\ 1 <= o.id /\ o.id <= asks'
                                   /\ \A b \in Adapters : \A j \in Jobs(b)' : j.id # o.id
    BY <1>1 DEF ToldInv, Observed, Identified
  <2>1. o.id \in Nat  BY DEF UiInv, UiTyped, Observations
  <2>2. CASE Identified(o)
    <3>1. 1 <= o.id /\ o.id <= asks /\ \A b \in Adapters : \A j \in Jobs(b) : j.id # o.id
      BY <2>2 DEF UiInv, ToldInv
    <3> QED  BY <3>1, <2>1, <1>1, <1>2, <1>12 DEF UiInv, ToldInv
  <2> QED  BY <2>2 DEF UiInv, ToldInv
<1>14. BrowserInv' /\ DesktopInv'
  <2>1. \A b \in Adapters : step[b] # "start" => Job(b)' = Job(b)
    BY <1>9 DEF UiInv, JobInv
  <2>2. step["browser"] # "start" => Job("browser")' = Job("browser")
    BY <2>1 DEF Adapters
  <2>3. step["desktop"] # "start" => Job("desktop")' = Job("desktop")
    BY <2>1 DEF Adapters
  <2>4. BrowserInv'  BY <1>1, <2>2 DEF UiInv, BrowserInv
  <2>5. DesktopInv'  BY <1>1, <2>3 DEF UiInv, DesktopInv
  <2> QED  BY <2>4, <2>5
<1>15. ElementInv'
  <2>1. \A n \in used : n \in Nat /\ n <= asks' /\ \A b \in Adapters : \A j \in Jobs(b)' : j.id # n
    <3> SUFFICES ASSUME NEW n \in used
          PROVE  n \in Nat /\ n <= asks' /\ \A b \in Adapters : \A j \in Jobs(b)' : j.id # n
      OBVIOUS
    <3>1. n \in Nat /\ n <= asks /\ \A b \in Adapters : \A j \in Jobs(b) : j.id # n
      BY DEF UiInv, ElementInv
    <3> QED  BY <3>1, <1>1, <1>2, <1>12
  <2>2. ASSUME NEW s \in Sessions
        PROVE  session[s].elements <= asks' /\ \A j \in Jobs("browser")' : j.id # session[s].elements
    <3>1. session[s].elements \in Nat  BY Typed
    <3>2. session[s].elements <= asks /\ \A j \in Jobs("browser") : j.id # session[s].elements
      BY DEF UiInv, ElementInv
    <3>3. new.id # session[s].elements  BY <3>1, <3>2, <1>2
    <3>4. \A j \in Jobs("browser")' : j \in Jobs("browser") \/ j = new  BY <1>8 DEF Adapters
    <3> QED  BY <3>1, <3>2, <3>3, <3>4, <1>1, <1>2
  <2> QED  BY <1>1, <2>1, <2>2 DEF UiInv, ElementInv
<1>16. ShotInv'
  <2> SUFFICES ASSUME NEW n \in DOMAIN shots
        PROVE  /\ shots[n].at <= clock /\ 1 <= shots[n].id /\ shots[n].id <= asks'
               /\ \A b \in Adapters : \A j \in Jobs(b)' : j.id # shots[n].id
               /\ \A o \in told : o.kind = "shot" /\ o.id = shots[n].id => o.print = shots[n].screen
               /\ \A j \in Jobs("desktop")' : j.tool = "point" /\ j.obs.id = shots[n].id =>
                    \/ caller'.id = j.id /\ caller'.adapter = "desktop" /\ shots[n].at <= caller'.since
                    \/ DesktopTimeout <= clock - shots[n].at
    BY <1>1 DEF ShotInv
  <2>1. /\ shots[n].at <= clock /\ 1 <= shots[n].id /\ shots[n].id <= asks
        /\ \A b \in Adapters : \A j \in Jobs(b) : j.id # shots[n].id
        /\ \A o \in told : o.kind = "shot" /\ o.id = shots[n].id => o.print = shots[n].screen
        /\ \A j \in Jobs("desktop") : j.tool = "point" /\ j.obs.id = shots[n].id =>
             \/ caller.id = j.id /\ caller.adapter = "desktop" /\ shots[n].at <= caller.since
             \/ DesktopTimeout <= clock - shots[n].at
    BY DEF UiInv, ShotInv
  <2>2. shots[n] \in Shots
    <3>1. shots \in Seq(Shots)  BY Typed
    <3> QED  BY <3>1
  <2>3. shots[n].id \in Nat  BY <2>2 DEF Shots
  <2>4. \A b \in Adapters : \A j \in Jobs(b)' : j.id # shots[n].id
    BY <2>1, <2>3, <1>12
  <2>5. ASSUME NEW j \in Jobs("desktop")', j.tool = "point", j.obs.id = shots[n].id
        PROVE  \/ caller'.id = j.id /\ caller'.adapter = "desktop" /\ shots[n].at <= caller'.since
               \/ DesktopTimeout <= clock - shots[n].at
    <3>1. j \in Jobs("desktop") \/ (a = "desktop" /\ j = new)  BY <1>8 DEF Adapters
    <3>2. CASE j \in Jobs("desktop")
      <4>1. 1 <= j.id  BY <3>2, <1>3 DEF Adapters
      <4>2. caller.id = 0  BY <1>1 DEF NoCaller
      <4> QED  BY <3>2, <4>1, <4>2, <2>1, <2>5
    <3>3. CASE a = "desktop" /\ j = new
      BY <3>3, <1>1, <1>2, <2>1
    <3> QED  BY <3>1, <3>2, <3>3
  <2> QED  BY <2>1, <2>3, <2>4, <2>5, <1>1, <1>2
<1>17. ActionsAreSeen' /\ PointersAreAwaited'
  BY <1>1, <1>10 DEF UiInv, UiTyped, ActionsAreSeen, PointersAreAwaited
<1> QED  BY <1>10, <1>11, <1>13, <1>14, <1>15, <1>16, <1>17 DEF UiInv

\* Who gives up has waited for longer than any evidence lasts.
LEMMA GiveUpKeeps ==
  ASSUME UiInv, GiveUp
  PROVE  UiInv'
<1>1. /\ caller # NoCaller /\ clock - caller.since >= Limit[caller.adapter] /\ caller' = NoCaller
      /\ UNCHANGED <<clock, asks, queue, step, read, page, tree, screen, known, session, window, shots,
                     told, changes, moved, used, acted>>
  BY DEF GiveUp, world, memory
<1>2. UiTyped'
  <2>1. caller'.adapter \in Adapters \union {None} /\ caller'.id \in 0..MaxAsks /\ caller'.since \in Nat
    BY <1>1, UiAssumption DEF NoCaller
  <2> QED  BY <1>1, <2>1 DEF UiInv, UiTyped, UiTypeOK
<1>3. \A b \in Adapters : Jobs(b)' = Jobs(b) /\ Job(b)' = Job(b)
  BY <1>1 DEF Jobs, Job
<1>4. JobInv' /\ ToldInv' /\ ElementInv'
  BY <1>1, <1>3 DEF UiInv, JobInv, ToldInv, ElementInv, Adapters
<1>5. BrowserInv' /\ DesktopInv'
  BY <1>1, <1>3 DEF UiInv, BrowserInv, DesktopInv, Adapters
<1>6. ShotInv'
  <2>1. ASSUME NEW n \in DOMAIN shots, NEW j \in Jobs("desktop"), caller.id = j.id,
               caller.adapter = "desktop", shots[n].at <= caller.since
        PROVE  DesktopTimeout <= clock - shots[n].at
    <3>1. shots[n] \in Shots
      <4>1. shots \in Seq(Shots)  BY Typed
      <4> QED  BY <4>1
    <3>2. shots[n].at \in Nat /\ caller.since \in Nat /\ clock \in Nat /\ DesktopTimeout \in Nat
      BY <3>1, UiAssumption DEF Shots, UiInv, UiTyped
    <3>3. Limit["desktop"] = DesktopTimeout  BY DEF Limit, Adapters
    <3> QED  BY <1>1, <2>1, <3>2, <3>3
  <2>2. Jobs("desktop")' = Jobs("desktop")  BY <1>3 DEF Adapters
  <2> SUFFICES ASSUME NEW n \in DOMAIN shots
        PROVE  /\ shots[n].at <= clock /\ 1 <= shots[n].id /\ shots[n].id <= asks
               /\ \A b \in Adapters : \A j \in Jobs(b) : j.id # shots[n].id
               /\ \A o \in told : o.kind = "shot" /\ o.id = shots[n].id => o.print = shots[n].screen
               /\ \A j \in Jobs("desktop") : j.tool = "point" /\ j.obs.id = shots[n].id =>
                    DesktopTimeout <= clock - shots[n].at
    BY <1>1, <1>3, <2>2 DEF ShotInv
  <2> QED  BY <2>1 DEF UiInv, ShotInv
<1>7. ActionsAreSeen' /\ PointersAreAwaited'
  BY <1>1, <1>2 DEF UiInv, UiTyped, ActionsAreSeen, PointersAreAwaited
<1> QED  BY <1>2, <1>4, <1>5, <1>6, <1>7 DEF UiInv

\* The world changes: the worker has to be told that it may have.
LEMMA ChangesKeep ==
  ASSUME UiInv, NEW a \in Adapters, Changes(a),
         page' \in [Sessions -> Pages \union {None}], tree' \in Trees, screen' \in Screens,
         a = "browser" => UNCHANGED <<tree, screen>> /\ \A s \in known : page'[s] \in Pages,
         a = "desktop" => UNCHANGED page
  PROVE  UiInv'
<1>1. /\ moved' = [moved EXCEPT ![a] = TRUE]
      /\ UNCHANGED <<clock, asks, caller, queue, step, read, known, session, window, shots, told, used, acted>>
  BY DEF Changes, memory
<1>2. moved \in [Adapters -> BOOLEAN]
  BY DEF UiInv, UiTyped
<1>3. moved'[a] = TRUE /\ \A b \in Adapters \ {a} : moved'[b] = moved[b]
  BY <1>1, <1>2
<1>4. \A b \in Adapters : Jobs(b)' = Jobs(b) /\ Job(b)' = Job(b)
  BY <1>1 DEF Jobs, Job
<1>5. UiTyped'
  <2>1. moved' \in [Adapters -> BOOLEAN]  BY <1>1, <1>2
  <2> QED  BY <1>1, <2>1 DEF UiInv, UiTyped, UiTypeOK
<1>6. JobInv' /\ ToldInv'
  BY <1>1, <1>4 DEF UiInv, JobInv, ToldInv, Adapters
<1>7. ElementInv'
  BY <1>1, <1>4 DEF UiInv, ElementInv, Adapters
<1>8. ShotInv'
  <2>1. Jobs("desktop")' = Jobs("desktop")  BY <1>4 DEF Adapters
  <2> QED  BY <1>1, <1>4, <2>1 DEF UiInv, ShotInv
<1>9. BrowserInv' /\ DesktopInv'
  <2>1. CASE a = "browser"
    <3>1. moved'["browser"] = TRUE /\ moved'["desktop"] = moved["desktop"]
          /\ Job("browser")' = Job("browser") /\ Job("desktop")' = Job("desktop")
      BY <2>1, <1>3, <1>4 DEF Adapters
    <3>2. BrowserInv'  BY <3>1, <2>1, <1>1 DEF UiInv, BrowserInv
    <3>3. DesktopInv'  BY <3>1, <2>1, <1>1 DEF UiInv, DesktopInv
    <3> QED  BY <3>2, <3>3
  <2>2. CASE a = "desktop"
    <3>1. moved'["desktop"] = TRUE /\ moved'["browser"] = moved["browser"]
          /\ Job("browser")' = Job("browser") /\ Job("desktop")' = Job("desktop")
      BY <2>2, <1>3, <1>4 DEF Adapters
    <3>2. BrowserInv'  BY <3>1, <2>2, <1>1 DEF UiInv, BrowserInv
    <3>3. DesktopInv'  BY <3>1, <2>2, <1>1 DEF UiInv, DesktopInv
    <3> QED  BY <3>2, <3>3
  <2> QED  BY <2>1, <2>2 DEF Adapters
<1>10. ActionsAreSeen' /\ PointersAreAwaited'
  BY <1>1, <1>5 DEF UiInv, UiTyped, ActionsAreSeen, PointersAreAwaited
<1> QED  BY <1>5, <1>6, <1>7, <1>8, <1>9, <1>10 DEF UiInv

LEMMA WorldKeeps ==
  ASSUME UiInv, World
  PROVE  UiInv'
<1>1. ASSUME NEW s \in Sessions, NEW p \in Pages, PageChanges(s, p)  PROVE UiInv'
  <2>1. /\ page' = [page EXCEPT ![s] = p] /\ Changes("browser") /\ UNCHANGED <<tree, screen>>
    BY <1>1 DEF PageChanges
  <2>2. /\ page' \in [Sessions -> Pages \union {None}] /\ tree' \in Trees /\ screen' \in Screens
        /\ known \subseteq Sessions /\ \A r \in Sessions : page'[r] = IF r = s THEN p ELSE page[r]
    BY <2>1, Typed
  <2>3. \A r \in known : page'[r] \in Pages
    BY <2>2 DEF UiInv, BrowserInv
  <2> QED  BY <2>1, <2>2, <2>3, ChangesKeep DEF Adapters
<1>2. ASSUME NEW t \in Trees, TreeChanges(t)  PROVE UiInv'
  BY <1>2, ChangesKeep, Typed DEF TreeChanges, Adapters
<1>3. ASSUME NEW g \in Screens, ScreenChanges(g)  PROVE UiInv'
  BY <1>3, ChangesKeep, Typed DEF ScreenChanges, Adapters
<1> QED  BY <1>1, <1>2, <1>3 DEF World

LEMMA UiTickKeeps ==
  ASSUME UiInv, Tick
  PROVE  UiInv'
<1>1. /\ clock' = clock + 1
      /\ UNCHANGED <<asks, caller, queue, step, read, page, tree, screen, known, session, window, shots,
                     told, changes, moved, used, acted>>
  BY DEF Tick, world, memory
<1>2. UiTyped'
  <2>1. clock' \in Nat  BY <1>1, Typed
  <2> QED  BY <1>1, <2>1 DEF UiInv, UiTyped, UiTypeOK
<1>3. \A b \in Adapters : Jobs(b)' = Jobs(b) /\ Job(b)' = Job(b)
  BY <1>1 DEF Jobs, Job
<1>4. JobInv' /\ ToldInv' /\ ElementInv'
  BY <1>1, <1>3 DEF UiInv, JobInv, ToldInv, ElementInv, Adapters
<1>5. BrowserInv' /\ DesktopInv'
  BY <1>1, <1>3 DEF UiInv, BrowserInv, DesktopInv, Adapters
<1>6. ShotInv'
  <2>1. ASSUME NEW n \in DOMAIN shots
        PROVE  /\ shots[n].at <= clock => shots[n].at <= clock'
               /\ DesktopTimeout <= clock - shots[n].at => DesktopTimeout <= clock' - shots[n].at
    <3>1. shots[n] \in Shots
      <4>1. shots \in Seq(Shots)  BY Typed
      <4> QED  BY <4>1
    <3>2. shots[n].at \in Nat /\ clock \in Nat /\ DesktopTimeout \in Nat
      BY <3>1, Typed, UiAssumption DEF Shots
    <3> QED  BY <1>1, <3>2
  <2>2. Jobs("desktop")' = Jobs("desktop")  BY <1>3 DEF Adapters
  <2> SUFFICES ASSUME NEW n \in DOMAIN shots
        PROVE  /\ shots[n].at <= clock' /\ 1 <= shots[n].id /\ shots[n].id <= asks
               /\ \A b \in Adapters : \A j \in Jobs(b) : j.id # shots[n].id
               /\ \A o \in told : o.kind = "shot" /\ o.id = shots[n].id => o.print = shots[n].screen
               /\ \A j \in Jobs("desktop") : j.tool = "point" /\ j.obs.id = shots[n].id =>
                    \/ caller.id = j.id /\ caller.adapter = "desktop" /\ shots[n].at <= caller.since
                    \/ DesktopTimeout <= clock' - shots[n].at
    BY <1>1, <1>3, <2>2 DEF ShotInv
  <2> QED  BY <2>1 DEF UiInv, ShotInv
<1>7. ActionsAreSeen' /\ PointersAreAwaited'
  BY <1>1, <1>2 DEF UiInv, UiTyped, ActionsAreSeen, PointersAreAwaited
<1> QED  BY <1>2, <1>4, <1>5, <1>6, <1>7 DEF UiInv

LEMMA UiCallsKeep ==
  ASSUME UiInv, UiCalls
  PROVE  UiInv'
<1>1. NoObservation \in Observations
  BY DEF NoObservation, Observations, Kinds, Prints
<1>2. told \subseteq Observations
  BY DEF UiInv, UiTyped
<1>3. CASE Call("browser", "launch", NoObservation)
  BY <1>1, <1>3, CallKeeps DEF Adapters, Tools
<1>4. ASSUME NEW o \in Told("session"), NEW tool \in {"navigate", "state", "look", "close"},
             Call("browser", tool, o)
      PROVE  UiInv'
  <2>1. o \in Observations  BY <1>2 DEF Told
  <2>2. tool \in Tools /\ tool \notin {"act", "key", "point"}  BY DEF Tools
  <2> QED  BY <1>4, <2>1, <2>2, CallKeeps DEF Adapters
<1>5. ASSUME NEW o \in Told("page"), Call("browser", "act", o)  PROVE UiInv'
  <2>1. o \in Observations /\ o.kind = "page" /\ o \in told  BY <1>2 DEF Told
  <2> QED  BY <1>5, <2>1, CallKeeps DEF Adapters, Tools
<1>6. ASSUME NEW tool \in {"list", "capture"}, Call("desktop", tool, NoObservation)  PROVE UiInv'
  <2>1. tool \in Tools /\ tool \notin {"act", "key", "point"}  BY DEF Tools
  <2> QED  BY <1>1, <1>6, <2>1, CallKeeps DEF Adapters
<1>7. ASSUME NEW o \in Told("window"), NEW tool \in {"tree", "focus"}, Call("desktop", tool, o)
      PROVE  UiInv'
  <2>1. o \in Observations  BY <1>2 DEF Told
  <2>2. tool \in Tools /\ tool \notin {"act", "key", "point"}  BY DEF Tools
  <2> QED  BY <1>7, <2>1, <2>2, CallKeeps DEF Adapters
<1>8. ASSUME NEW o \in Told("tree"), NEW tool \in {"act", "key"}, Call("desktop", tool, o)  PROVE UiInv'
  <2>1. o \in Observations /\ o.kind = "tree" /\ o \in told  BY <1>2 DEF Told
  <2> QED  BY <1>8, <2>1, CallKeeps DEF Adapters, Tools
<1>9. ASSUME NEW o \in Told("shot"), Call("desktop", "point", o)  PROVE UiInv'
  <2>1. o \in Observations /\ o.kind = "shot" /\ o \in told  BY <1>2 DEF Told
  <2> QED  BY <1>9, <2>1, CallKeeps DEF Adapters, Tools
<1> QED  BY <1>3, <1>4, <1>5, <1>6, <1>7, <1>8, <1>9 DEF UiCalls

LEMMA UiQuiet ==
  ASSUME UiInv, UNCHANGED uiVars
  PROVE  UiInv'
<1>1. UNCHANGED <<clock, asks, caller, queue, step, read, page, tree, screen, known, session, window, shots,
                  told, changes, moved, used, acted>>
  BY DEF uiVars, world, memory
<1>2. Jobs("browser")' = Jobs("browser") /\ Jobs("desktop")' = Jobs("desktop")
      /\ Job("browser")' = Job("browser") /\ Job("desktop")' = Job("desktop")
  BY <1>1 DEF Jobs, Job
<1>3. UiTyped' /\ JobInv' /\ ToldInv'
  BY <1>1, <1>2 DEF UiInv, UiTyped, UiTypeOK, JobInv, ToldInv, Adapters
<1>4. BrowserInv' /\ ElementInv' /\ DesktopInv' /\ ShotInv'
  BY <1>1, <1>2 DEF UiInv, BrowserInv, ElementInv, DesktopInv, ShotInv, Adapters
<1> QED  BY <1>1, <1>3, <1>4 DEF UiInv, UiTyped, ActionsAreSeen, PointersAreAwaited

LEMMA UiStarts ==
  ASSUME UiInit
  PROVE  UiInv
<1>1. /\ clock = 0 /\ asks = 0 /\ caller = NoCaller
      /\ queue = [a \in Adapters |-> <<>>] /\ step = [a \in Adapters |-> "start"]
      /\ read = [a \in Adapters |-> None] /\ page = [s \in Sessions |-> None] /\ known = {}
      /\ session = [s \in Sessions |-> [print |-> None, elements |-> 0]]
      /\ tree \in Trees /\ window = NoWindow /\ shots = <<>> /\ screen \in Screens /\ told = {}
      /\ moved = [a \in Adapters |-> FALSE] /\ used = {} /\ acted = NoAct
  BY DEF UiInit
<1>2. \A a \in Adapters : queue[a] = <<>> /\ Jobs(a) = {} /\ step[a] = "start"
  BY <1>1 DEF Jobs, Elements
<1>3. UiTypeOK
  <2>1. caller.adapter \in Adapters \union {None} /\ caller.id \in 0..MaxAsks
    BY <1>1, UiAssumption DEF NoCaller
  <2>2. Len(shots) <= MaxShots  BY <1>1, UiAssumption
  <2> QED  BY <1>1, <1>2, <2>1, <2>2 DEF UiTypeOK
<1>4. UiTyped
  <2>1. clock \in Nat /\ asks \in 0..MaxAsks /\ caller.since \in Nat
    BY <1>1, UiAssumption DEF NoCaller
  <2>2. /\ queue \in [Adapters -> Seq(Orders)] /\ step \in [Adapters -> {"start", "collect", "act"}]
        /\ moved \in [Adapters -> BOOLEAN] /\ DOMAIN read = Adapters
    BY <1>1
  <2>3. session \in [Sessions -> [print : Prints, elements : Nat]]
    BY <1>1 DEF Prints
  <2>4. window \in [id : Nat, title : Prints, print : Prints, elements : Nat]
    BY <1>1 DEF Prints, NoWindow
  <2> QED  BY <1>1, <1>3, <2>1, <2>2, <2>3, <2>4 DEF UiTyped
<1>5. JobInv
  BY <1>2 DEF JobInv, Rising, Adapters
<1>6. ToldInv /\ ShotInv
  BY <1>1 DEF ToldInv, ShotInv
<1>7. BrowserInv /\ DesktopInv
  BY <1>1, <1>2 DEF BrowserInv, DesktopInv, Adapters
<1>8. ElementInv
  BY <1>1, <1>2 DEF ElementInv, Adapters
<1>9. ActionsAreSeen /\ PointersAreAwaited
  BY <1>1, <1>3 DEF ActionsAreSeen, PointersAreAwaited, NoAct, NoObservation
<1> QED  BY <1>4, <1>5, <1>6, <1>7, <1>8, <1>9 DEF UiInv

\* Every step keeps it.
LEMMA UiInvariant == UiSpec => []UiInv
<1>1. UiInit => UiInv
  BY UiStarts
<1>2. UiInv /\ [UiNext]_uiVars => UiInv'
  <2> SUFFICES ASSUME UiInv, [UiNext]_uiVars  PROVE UiInv'
    OBVIOUS
  <2>1. CASE UiCalls  BY <2>1, UiCallsKeep
  <2>2. CASE GiveUp  BY <2>2, GiveUpKeeps
  <2>3. CASE Work
    <3>1. CASE Launch  BY <3>1, LaunchKeeps
    <3>2. CASE Navigate  BY <3>2, NavigateKeeps
    <3>3. CASE Fingerprint  BY <3>3, FingerprintKeeps
    <3>4. CASE Collect  BY <3>4, CollectKeeps
    <3>5. CASE CheckElement  BY <3>5, CheckElementKeeps
    <3>6. CASE ActOnElement  BY <3>6, ActOnElementKeeps
    <3>7. CASE Look  BY <3>7, LookKeeps
    <3>8. CASE Close  BY <3>8, CloseKeeps
    <3>9. CASE ListWindows  BY <3>9, ListWindowsKeeps
    <3>10. CASE ReadTree  BY <3>10, ReadTreeKeeps
    <3>11. CASE Focus  BY <3>11, FocusKeeps
    <3>12. CASE CheckControl  BY <3>12, CheckControlKeeps
    <3>13. CASE ActOnControl  BY <3>13, ActOnControlKeeps
    <3>14. CASE Capture  BY <3>14, CaptureKeeps
    <3>15. CASE CheckShot  BY <3>15, CheckShotKeeps
    <3>16. CASE Point  BY <3>16, PointKeeps
    <3> QED
      BY <2>3, <3>1, <3>2, <3>3, <3>4, <3>5, <3>6, <3>7, <3>8, <3>9, <3>10, <3>11, <3>12, <3>13,
         <3>14, <3>15, <3>16 DEF Work
  <2>4. CASE World  BY <2>4, WorldKeeps
  <2>5. CASE Tick  BY <2>5, UiTickKeeps
  <2>6. CASE UNCHANGED uiVars  BY <2>6, UiQuiet
  <2> QED  BY <2>1, <2>2, <2>3, <2>4, <2>5, <2>6 DEF UiNext
<1> QED  BY <1>1, <1>2, PTL DEF UiSpec

\* What is acted on is what the caller saw: _fresh_element looks at the page or
\* the tree when the job runs, not when it was asked for, and a page's
\* fingerprint is forgotten with the action it carried.
THEOREM ActionsSeen == UiSpec => []ActionsAreSeen
<1>1. UiInv => ActionsAreSeen
  BY DEF UiInv
<1> QED  BY <1>1, UiInvariant, PTL

\* Who points at the screen still waits: _fresh_screenshot refuses evidence
\* before its caller can have given up, since it expires earlier than a call.
THEOREM PointersAwaited == UiSpec => []PointersAreAwaited
<1>1. UiInv => PointersAreAwaited
  BY DEF UiInv
<1> QED  BY <1>1, UiInvariant, PTL

=============================================================================
