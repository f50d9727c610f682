--------------------------- MODULE MaintenanceProofs ---------------------------
(***************************************************************************)
(* The safety properties of Artifacts and Maintenance, for any number of   *)
(* results, attachments, processes, configurations and starts.             *)
(*                                                                         *)
(* A file that must be kept is there because what a transaction has done   *)
(* to files, and not yet to rows, is known while it is open (OpenTx).      *)
(* Processes agree on the configuration because the hash is written under  *)
(* the exclusive lock (Locks).  What a restore has done so far is known    *)
(* from the step that it is at (Progress).                                 *)
(***************************************************************************)
EXTENDS Maintenance, TLAPS

\* What the open transaction has done to the files, before its commit.
OpenTx ==
  /\ tx.op = "seal" => tx.of \in Bundles /\ ItemsOf(tx.of) \subseteq file
  /\ tx.op = "upload" => tx.of \in Uploads \cap file
  /\ tx.op = "expire" => tx.of \in Items /\ ~Pinned(tx.of)

\* A writer of configuration.lock is alone with it, and who runs has the hash
\* that is written there.
Locks ==
  /\ \A p \in Procs : pc[p] \in AfterLock \ {"running"} => dir[p] = "source"
  /\ \A p \in Procs : pc[p] # "off" => hash[p] \in Hashes
  /\ \A p, q \in Procs :
       In(p, "source", {"writer", "wrote"}) /\ In(q, "source", {"writer", "wrote", "sharing", "running"}) => p = q
  /\ \A p \in Procs : In(p, "source", {"running"}) => hash[p] = written

From(S) == op \in S
\* What has been restored when the command is about to take its next step.
Progress ==
  /\ target.db => target.made
  /\ From({"verified", "opened", "empty", "marked", "results"}) => ~target.db
  /\ From({"opened", "empty"}) => target.made
  /\ From({"verified", "opened", "empty", "marked", "results", "database", "secret", "files", "instance", "inert"})
       => References(backup)
  /\ From({"marked", "results", "database", "secret", "files", "instance", "inert"}) => target.made /\ target.marker
  /\ From({"results", "database", "secret"}) => target.file = backup.file \ Uploads
  /\ From({"database", "secret", "files", "instance", "inert"}) => target.db /\ target.row = backup.row
  /\ From({"secret", "files", "instance", "inert"}) => target.secret = "copied"
  /\ From({"files", "instance", "inert"}) => backup.file \subseteq target.file
  /\ From({"instance", "inert"}) => target.instance = "new"
  /\ From({"inert"}) => target.inert

IInv ==
  /\ TypeOK /\ KeptFiles /\ OneConfiguration /\ RestoredIsWhole
  /\ OpenTx /\ Locks /\ Progress

-----------------------------------------------------------------------------
(* Files and rows *)

\* An item of a bundle is its result or its log.
LEMMA ItemKinds ==
  ASSUME NEW i \in Items, OfBundle(i)
  PROVE  i[1] \in Bundles /\ i \in ItemsOf(i[1])
  BY DEF Items, OfBundle, ItemsOf, Result, Log

LEMMA BundleItems ==
  ASSUME NEW b \in Bundles
  PROVE  ItemsOf(b) \subseteq Items /\ Result(b) \in Items /\ Result(b) \in ItemsOf(b) /\ Result(b)[1] = b
  BY DEF Items, ItemsOf, Result, Log

LEMMA PinnedResult == ASSUME NEW b \in Bundles, b \in pins PROVE Pinned(Result(b))
<1>1. Result(b) \in Bundles \X {"result", "log"}
  BY DEF Result
<1> QED
  BY <1>1, BundleItems, ItemAssumption DEF Pinned, OfBundle

Kept == KeptFiles /\ OpenTx

LEMMA KeptInit == ArtifactsInit => Kept
  BY DEF ArtifactsInit, Kept, KeptFiles, OpenTx, NoTx, Items, Result

\* The open transaction becomes rows, or nothing.
LEMMA CommitKeeps ==
  ASSUME ArtifactsTypeOK, Kept, CommitSeal \/ CommitUpload \/ CommitExpire \/ RollBack
  PROVE  Kept'
<1> USE DEF ArtifactsTypeOK, Kept, KeptFiles, OpenTx, NoTx, Pinned
<1>1. CASE CommitSeal
  BY <1>1, BundleItems DEF CommitSeal
<1>2. CASE CommitUpload
  BY <1>2, BundleItems DEF CommitUpload
<1>3. CASE CommitExpire
  <2>1. \A b \in Bundles \cap pins : Result(b) # tx.of
    BY <1>3, PinnedResult DEF CommitExpire
  <2> QED
    BY <1>3, <2>1, BundleItems DEF CommitExpire
<1>4. CASE RollBack
  BY <1>4 DEF RollBack
<1> QED
  BY <1>1, <1>2, <1>3, <1>4

\* A transaction begins with its work on the files.
LEMMA BeginKeeps ==
  ASSUME ArtifactsTypeOK, Kept,
         \/ \E b \in Bundles : Seal(b)
         \/ \E i \in Uploads : Upload(i)
         \/ \E i \in Items : Expire(i)
  PROVE  Kept'
<1> USE DEF ArtifactsTypeOK, Kept, KeptFiles, OpenTx, NoTx, Pinned
<1>1. ASSUME NEW b \in Bundles, Seal(b)
      PROVE  Kept'
  BY <1>1 DEF Seal
<1>2. ASSUME NEW i \in Uploads, Upload(i)
      PROVE  Kept'
  BY <1>2 DEF Upload
<1>3. ASSUME NEW i \in Items, Expire(i)
      PROVE  Kept'
  BY <1>3 DEF Expire, Expired
<1> QED
  BY <1>1, <1>2, <1>3

\* Whoever pins has looked at the files.
LEMMA PinKeeps ==
  ASSUME ArtifactsTypeOK, Kept,
         \/ \E b \in Bundles : PinBundle(b)
         \/ \E i \in Uploads : PinUpload(i)
         \/ \E x \in Bundles \cup Uploads : Unpin(x)
  PROVE  Kept'
<1> USE DEF ArtifactsTypeOK, Kept, KeptFiles, OpenTx, NoTx, Pinned
<1>1. ASSUME NEW b \in Bundles, PinBundle(b)
      PROVE  Kept'
  <2>1. \A i \in Items : OfBundle(i) /\ i[1] = b /\ row[i] = "live" => i \in file
    BY <1>1, ItemKinds DEF PinBundle, Verified
  <2>2. b \notin Items
    BY ItemAssumption
  <2> QED
    BY <1>1, <2>1, <2>2 DEF PinBundle, Verified
<1>2. ASSUME NEW i \in Uploads, PinUpload(i)
      PROVE  Kept'
  <2>1. i \notin Bundles
    BY ItemAssumption DEF Items
  <2>2. \A j \in Items : OfBundle(j) => j[1] # i
    BY <2>1, ItemKinds
  <2> QED
    BY <1>2, <2>1, <2>2 DEF PinUpload
<1>3. ASSUME NEW x \in Bundles \cup Uploads, Unpin(x)
      PROVE  Kept'
  BY <1>3 DEF Unpin
<1> QED
  BY <1>1, <1>2, <1>3

LEMMA OthersKeep ==
  ASSUME ArtifactsTypeOK, Kept,
         \/ \E b \in Bundles : ExpireBundle(b) \/ Look(b) \/ RunEnds(b)
         \/ \E i \in Items : ReadRow(i) \/ BecomesDue(i)
         \/ ReadFile \/ Looked
         \/ UNCHANGED <<row, file, due, pins>> /\ tx' \in {tx, NoTx}
  PROVE  Kept'
<1>1. /\ UNCHANGED <<row, file, pins>> /\ due \subseteq due' /\ tx' \in {tx, NoTx}
  BY DEF ExpireBundle, Look, RunEnds, ReadRow, BecomesDue, ReadFile, Looked
<1> QED
  BY <1>1 DEF Kept, KeptFiles, OpenTx, NoTx, Pinned

LEMMA ArtifactsKeep ==
  ASSUME ArtifactsTypeOK, Kept, ArtifactsNext \/ RunsNext \/ ClockNext
  PROVE  Kept'
  BY CommitKeeps, BeginKeeps, PinKeeps, OthersKeep DEF ArtifactsNext, RunsNext, ClockNext

LEMMA ArtifactsTypes ==
  ASSUME ArtifactsTypeOK, OpenTx, ArtifactsNext \/ RunsNext \/ ClockNext
  PROVE  ArtifactsTypeOK'
<1> USE DEF ArtifactsTypeOK, OpenTx
<1>1. ASSUME NEW b \in Bundles, Seal(b) \/ ExpireBundle(b) \/ PinBundle(b)
      PROVE  ArtifactsTypeOK'
  BY <1>1, BundleItems DEF Seal, ExpireBundle, PinBundle
<1>2. ASSUME NEW b \in Bundles, Look(b) \/ RunEnds(b)
      PROVE  ArtifactsTypeOK'
  BY <1>2 DEF Look, RunEnds
<1>3. ASSUME NEW i \in Uploads, Upload(i) \/ PinUpload(i)
      PROVE  ArtifactsTypeOK'
  BY <1>3 DEF Upload, PinUpload, Items
<1>4. ASSUME NEW i \in Items, Expire(i) \/ BecomesDue(i)
      PROVE  ArtifactsTypeOK'
  BY <1>4 DEF Expire, BecomesDue
<1>5. ASSUME NEW i \in Items, ReadRow(i)
      PROVE  ArtifactsTypeOK'
  <2>1. view.of \in Bundles
    BY <1>5 DEF ReadRow, NoView
  <2> QED
    BY <1>5, <2>1 DEF ReadRow
<1>6. ASSUME NEW x \in Bundles \cup Uploads, Unpin(x)
      PROVE  ArtifactsTypeOK'
  BY <1>6 DEF Unpin
<1>7. CASE CommitSeal
  BY <1>7, BundleItems DEF CommitSeal, RowStates
<1>8. CASE CommitUpload \/ CommitExpire \/ RollBack
  BY <1>8 DEF CommitUpload, CommitExpire, RollBack, RowStates, Items
<1>9. CASE ReadFile \/ Looked
  <2>1. view.at = "file" => view.of \in Bundles
    BY DEF NoView
  <2> QED
    BY <1>9, <2>1 DEF ReadFile, Looked
<1> QED
  BY <1>1, <1>2, <1>3, <1>4, <1>5, <1>6, <1>7, <1>8, <1>9 DEF ArtifactsNext, RunsNext, ClockNext

-----------------------------------------------------------------------------
(* The configuration *)

Configured == OneConfiguration /\ Locks

ProcTypes == pc \in [Procs -> {"off", "loaded", "ready"} \cup AfterLock] /\ dir \in [Procs -> Dirs]
             /\ hash \in [Procs -> Hashes \cup {NoHash}] /\ written \in Hashes

StartStep(p) == Identify(p) \/ Lock(p) \/ LockConfig(p) \/ GiveUp(p) \/ Share(p) \/ Compare(p) \/ Stop(p) \/ Die(p)

LEMMA LoadConfigures ==
  ASSUME ProcTypes, Configured, NEW p \in Procs, NEW d \in Dirs, NEW h \in Hashes, Load(p, d, h)
  PROVE  ProcTypes' /\ Configured'
  BY DEF ProcTypes, Configured, OneConfiguration, Locks, In, AfterLock, Load

LEMMA WriteConfigures ==
  ASSUME ProcTypes, Configured, NEW p \in Procs, WriteHash(p)
  PROVE  ProcTypes' /\ Configured'
  BY DEF ProcTypes, Configured, OneConfiguration, Locks, In, AfterLock, WriteHash, To

LEMMA StartConfigures ==
  ASSUME ProcTypes, Configured, NEW p \in Procs, StartStep(p)
  PROVE  ProcTypes' /\ Configured'
<1> USE DEF ProcTypes, Configured, OneConfiguration, Locks, In, AfterLock, To, End, Dirs
<1>1. CASE Identify(p)
  BY <1>1 DEF Identify
<1>2. CASE Lock(p)
  BY <1>2 DEF Lock
<1>3. CASE LockConfig(p)
  BY <1>3 DEF LockConfig, ConfigHeld, ConfigWriter
<1>4. CASE GiveUp(p)
  BY <1>4 DEF GiveUp
<1>5. CASE Share(p)
  BY <1>5 DEF Share, ConfigWriter
<1>6. CASE Compare(p)
  BY <1>6 DEF Compare, SameHash
<1>7. CASE Stop(p) \/ Die(p)
  BY <1>7 DEF Stop, Die
<1> QED
  BY <1>1, <1>2, <1>3, <1>4, <1>5, <1>6, <1>7 DEF StartStep

-----------------------------------------------------------------------------
(* The restored directory *)

Targets == [made : BOOLEAN, marker : BOOLEAN, db : BOOLEAN, row : [Items -> RowStates],
            file : SUBSET Items, secret : {"none", "own", "copied"},
            instance : {"none", "own", "new"}, inert : BOOLEAN]
Backups == [manifest : BOOLEAN, made : BOOLEAN, row : [Items -> RowStates], file : SUBSET Items]
Ops == {"idle", "copied", "verified", "opened", "empty", "marked", "results", "database", "secret",
        "files", "instance", "inert"}

Restored == RestoredIsWhole /\ Progress
RestoreTypes == backup \in Backups /\ target \in Targets /\ op \in Ops

\* A process that starts on the directory makes it, and the identity it lacks.
LEMMA StartRestores ==
  ASSUME RestoreTypes, Restored, NEW p \in Procs,
         (\E d \in Dirs, h \in Hashes : Load(p, d, h)) \/ Identify(p)
  PROVE  RestoreTypes' /\ Restored'
<1> USE DEF RestoreTypes, Restored, RestoredIsWhole, Progress, From, Targets
<1>1. ASSUME NEW d \in Dirs, NEW h \in Hashes, Load(p, d, h)
      PROVE  RestoreTypes' /\ Restored'
  <2>1. target' \in {target, [target EXCEPT !.made = TRUE]} /\ UNCHANGED <<op, backup>>
    BY <1>1 DEF Load
  <2> QED
    BY <2>1
<1>2. CASE Identify(p)
  <2>1. UNCHANGED <<op, backup>>
    BY <1>2 DEF Identify
  <2>2. CASE target' = target
    BY <2>1, <2>2
  <2>3. CASE target' # target
    <3>1. target' = [target EXCEPT !.secret = IF @ = "none" THEN "own" ELSE @,
                                   !.instance = IF @ = "none" THEN "own" ELSE @]
      BY <1>2, <2>3 DEF Identify
    <3> QED
      BY <2>1, <3>1
  <2> QED
    BY <2>2, <2>3
<1> QED
  BY <1>1, <1>2

LEMMA BackupRestores ==
  ASSUME ArtifactsTypeOK, RestoreTypes, Restored, Backup \/ Conclude \/ Restore \/ Abandon
  PROVE  RestoreTypes' /\ Restored'
<1> USE DEF RestoreTypes, Restored, RestoredIsWhole, Progress, From, At, Goto, Ops
<1>1. CASE Backup
  <2>1. backup' \in Backups
    BY <1>1 DEF Backup, Backups, ArtifactsTypeOK
  <2> QED
    BY <1>1, <2>1 DEF Backup
<1>2. CASE Conclude
  BY <1>2 DEF Conclude, Backups
<1>3. CASE Restore
  BY <1>3 DEF Restore
<1>4. CASE Abandon
  BY <1>4 DEF Abandon
<1> QED
  BY <1>1, <1>2, <1>3, <1>4

LEMMA RestoreRestores ==
  ASSUME RestoreTypes, Restored,
         \/ OpenTarget \/ CheckEmpty \/ Mark \/ CopyResults \/ CopyDatabase
         \/ CopySecret \/ CopyUploads \/ NewInstance \/ Invalidate \/ Unmark
  PROVE  RestoreTypes' /\ Restored'
<1> USE DEF RestoreTypes, Restored, RestoredIsWhole, Progress, From, At, Goto, Ops, Targets, Backups
<1>1. CASE OpenTarget
  BY <1>1 DEF OpenTarget
<1>2. CASE CheckEmpty
  BY <1>2 DEF CheckEmpty
<1>3. CASE Mark
  BY <1>3 DEF Mark
<1>4. CASE CopyResults
  BY <1>4 DEF CopyResults
<1>5. CASE CopyDatabase
  BY <1>5 DEF CopyDatabase
<1>6. CASE CopySecret
  BY <1>6 DEF CopySecret
<1>7. CASE CopyUploads
  BY <1>7 DEF CopyUploads
<1>8. CASE NewInstance
  BY <1>8 DEF NewInstance
<1>9. CASE Invalidate
  BY <1>9 DEF Invalidate
<1>10. CASE Unmark
  <2>1. target' = [target EXCEPT !.marker = FALSE] /\ op' = "idle" /\ UNCHANGED backup
    BY <1>10 DEF Unmark
  <2>2. \A i \in Items : target.row[i] = "live" => i \in target.file
    BY <1>10 DEF Unmark, References
  <2> QED
    BY <1>10, <2>1, <2>2 DEF Unmark
<1> QED
  BY <1>1, <1>2, <1>3, <1>4, <1>5, <1>6, <1>7, <1>8, <1>9, <1>10

-----------------------------------------------------------------------------
(* Theorems *)

LEMMA ConfigurationStands ==
  ASSUME ProcTypes, Configured, UNCHANGED <<procVars, written>>
  PROVE  ProcTypes' /\ Configured'
  BY DEF ProcTypes, Configured, OneConfiguration, Locks, In, procVars

LEMMA TargetStands ==
  ASSUME RestoreTypes, Restored, UNCHANGED <<op, backup, target>>
  PROVE  RestoreTypes' /\ Restored'
  BY DEF RestoreTypes, Restored, RestoredIsWhole, Progress, From, References

LEMMA FilesStand ==
  ASSUME ArtifactsTypeOK, Kept, UNCHANGED artifactVars
  PROVE  ArtifactsTypeOK' /\ Kept'
  BY DEF ArtifactsTypeOK, Kept, KeptFiles, OpenTx, Pinned, artifactVars

Parts == ArtifactsTypeOK /\ Kept /\ ProcTypes /\ Configured /\ RestoreTypes /\ Restored /\ starts \in 0..MaxStarts

LEMMA PartsAreIInv == IInv <=> Parts
  BY DEF IInv, Parts, TypeOK, Kept, ProcTypes, Configured, RestoreTypes, Restored, Targets, Backups, Ops

\* The inductive invariant.
LEMMA IInvariant == Spec => []IInv
<1>1. Init => Parts
  <2> SUFFICES ASSUME Init PROVE Parts
    OBVIOUS
  <2>1. ArtifactsTypeOK
    BY DEF Init, ArtifactsInit, ArtifactsTypeOK, RowStates
  <2>2. Kept
    BY KeptInit DEF Init
  <2>3. ProcTypes /\ Configured
    BY DEF Init, ProcTypes, Configured, OneConfiguration, Locks, In, Dirs, AfterLock
  <2>4. NoRows \in [Items -> RowStates]
    BY DEF NoRows, RowStates
  <2>5. RestoreTypes /\ Restored
    BY <2>4 DEF Init, RestoreTypes, Restored, RestoredIsWhole, Progress, From, Targets, Backups, Ops
  <2> QED
    BY <2>1, <2>2, <2>3, <2>5, StartAssumption DEF Init, Parts
<1>2. Parts /\ [Next]_vars => Parts'
  <2> SUFFICES ASSUME Parts, [Next]_vars PROVE Parts'
    OBVIOUS
  <2> USE DEF Parts
  <2>1. CASE (ArtifactsNext \/ RunsNext \/ ClockNext) /\ UNCHANGED maintenanceVars
    BY <2>1, ArtifactsKeep, ArtifactsTypes, ConfigurationStands, TargetStands DEF maintenanceVars, procVars, Kept
  <2>2. ASSUME NEW p \in Procs, NEW d \in Dirs, NEW h \in Hashes, Load(p, d, h)
        PROVE  Parts'
    <3>1. UNCHANGED artifactVars /\ starts' \in 0..MaxStarts
      BY <2>2, StartAssumption DEF Load
    <3>2. ProcTypes' /\ Configured'
      BY <2>2, LoadConfigures
    <3>3. RestoreTypes' /\ Restored'
      BY <2>2, StartRestores
    <3> QED
      BY <3>1, <3>2, <3>3, FilesStand
  <2>3. ASSUME NEW p \in Procs, WriteHash(p)
        PROVE  Parts'
    BY <2>3, WriteConfigures, TargetStands, FilesStand DEF WriteHash
  <2>4. ASSUME NEW p \in Procs, Identify(p)
        PROVE  Parts'
    BY <2>4, StartConfigures, StartRestores, FilesStand DEF Identify, StartStep
  <2>5. ASSUME NEW p \in Procs,
               Lock(p) \/ LockConfig(p) \/ GiveUp(p) \/ Share(p) \/ Compare(p) \/ Stop(p)
        PROVE  Parts'
    BY <2>5, StartConfigures, TargetStands, FilesStand DEF StartStep, Lock, LockConfig, GiveUp, Share, Compare, Stop
  <2>6. ASSUME NEW p \in Procs, Die(p)
        PROVE  Parts'
    <3>1. ProcTypes' /\ Configured' /\ UNCHANGED <<op, backup, target, starts>>
      BY <2>6, StartConfigures DEF StartStep, Die
    <3>2. Kept'
      BY <2>6, OthersKeep DEF Die
    <3>3. ArtifactsTypeOK'
      BY <2>6 DEF Die, ArtifactsTypeOK
    <3> QED
      BY <3>1, <3>2, <3>3, TargetStands
  <2>7. CASE Backup \/ Conclude \/ Restore \/ Abandon
    <3>1. Quiet
      BY <2>7 DEF Backup, Conclude, Restore, Abandon
    <3> QED
      BY <2>7, <3>1, BackupRestores, FilesStand, ConfigurationStands DEF Quiet
  <2>8. CASE \/ OpenTarget \/ CheckEmpty \/ Mark \/ CopyResults \/ CopyDatabase
             \/ CopySecret \/ CopyUploads \/ NewInstance \/ Invalidate \/ Unmark
    <3>1. Quiet
      BY <2>8 DEF OpenTarget, CheckEmpty, Mark, CopyResults, CopyDatabase, CopySecret, CopyUploads, NewInstance, Invalidate,
         Unmark
    <3> QED
      BY <2>8, <3>1, RestoreRestores, FilesStand, ConfigurationStands DEF Quiet
  <2>9. CASE UNCHANGED vars
    BY <2>9, FilesStand, ConfigurationStands, TargetStands DEF vars, maintenanceVars, procVars
  <2> QED
    BY <2>1, <2>2, <2>3, <2>4, <2>5, <2>6, <2>7, <2>8, <2>9 DEF Next
<1> QED
  BY <1>1, <1>2, PartsAreIInv, PTL DEF Spec

\* Rows, transactions, processes and directories keep their types.
THEOREM TypeCorrect == Spec => []TypeOK
  BY IInvariant, PTL DEF IInv

\* Through crashes between a file and its row, expiry and pins, the file of every
\* row that is still to be kept is there.
THEOREM KeptFilesExist == Spec => []KeptFiles
  BY IInvariant, PTL DEF IInv

\* However the locks of runtime.py interleave, also when the conversion from
\* exclusive to shared lets another process in, all that run agree on the
\* configuration.
THEOREM ProcessesAgree == Spec => []OneConfiguration
  BY IInvariant, PTL DEF IInv

\* A restored directory without its marker is whole, wherever earlier commands
\* broke off and whatever has started on it meanwhile.
THEOREM RestoreIsWhole == Spec => []RestoredIsWhole
  BY IInvariant, PTL DEF IInv
================================================================================
