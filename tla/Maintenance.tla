----------------------------- MODULE Maintenance -----------------------------
(***************************************************************************)
(* Starting the processes of the service, and backing up and restoring its *)
(* data directory (config/runtime.py, apps/operations/backup.py, and the   *)
(* starts in manage.py, config/wsgi.py and process_jobs.py).  Composed     *)
(* with Artifacts: rows and files change while a process runs on the       *)
(* source, and a backup copies them.                                       *)
(*                                                                         *)
(* A process first reads its configuration (load_runtime, when the settings *)
(* are imported) and then takes the locks.  Locks are flock locks of the   *)
(* holder: who holds one is told by where it is in the code.               *)
(***************************************************************************)
EXTENDS Artifacts

CONSTANTS
  Procs,     \* web and worker processes
  Hashes,    \* configurations, as config_hash
  MaxStarts  \* bound: processes started

ASSUME StartAssumption == MaxStarts \in Nat

VARIABLES
  pc,        \* a process: where it is,
  dir,       \* the data directory it starts on
  hash,      \* and its config_hash
  starts,
  written,   \* the hash in configuration.lock of the source
  op,        \* the command backup_local or restore_local: where it is
  backup,    \* the backup: whether it has its manifest, rows and files
  target     \* the directory that is restored to

procVars == <<pc, dir, hash>>
maintenanceVars == <<procVars, starts, written, op, backup, target>>
vars == <<artifactVars, maintenanceVars>>

Dirs == {"source", "target"}
NoHash == "no hash"
NoRows == [i \in Items |-> "none"]

Init ==
  /\ ArtifactsInit
  /\ pc = [p \in Procs |-> "off"]
  /\ dir = [p \in Procs |-> "source"]
  /\ hash = [p \in Procs |-> NoHash]
  /\ starts = 0
  /\ written \in Hashes
  /\ op = "idle"
  /\ backup = [manifest |-> FALSE, made |-> FALSE, row |-> NoRows, file |-> {}]
  \* made: the directory with its marker .aiqa-runtime; marker: restore-incomplete.json;
  \* inert: the database has been through _invalidate_restored
  /\ target = [made |-> FALSE, marker |-> FALSE, db |-> FALSE, row |-> NoRows, file |-> {},
               secret |-> "none", instance |-> "none", inert |-> FALSE]

-----------------------------------------------------------------------------
(* A process starts, runs and ends *)

In(p, d, S) == pc[p] \in S /\ dir[p] = d
To(p, s) == pc' = [pc EXCEPT ![p] = s] /\ UNCHANGED <<dir, hash>>
End(p) ==
  /\ pc' = [pc EXCEPT ![p] = "off"]
  /\ dir' = [dir EXCEPT ![p] = "source"]
  /\ hash' = [hash EXCEPT ![p] = NoHash]

\* Who holds maintenance.lock (shared) and configuration.lock of a directory
AfterLock == {"locked", "writer", "wrote", "between", "sharing", "running"}
Sharers(d) == {p \in Procs : In(p, d, AfterLock)}
ConfigWriter(d) == \E p \in Procs : In(p, d, {"writer", "wrote"})
ConfigHeld(d) == \E p \in Procs : In(p, d, {"writer", "wrote", "sharing", "running"})
Up == \E p \in Procs : In(p, "source", {"running"})

\* The exclusive lock of the command
Exclusive(d) == IF d = "source" THEN op # "idle"
                ELSE op \in {"opened", "empty", "marked", "results", "database", "secret", "files", "instance", "inert"}

\* load_runtime: runtime_root makes the directory; a marker ends the start.
\* The configuration.lock of the target is left out, and with it the hash.
Load(p, d, h) ==
  /\ pc[p] = "off" /\ starts < MaxStarts
  /\ starts' = starts + 1
  /\ d = "target" => ~target.marker /\ h = written
  /\ pc' = [pc EXCEPT ![p] = "loaded"]
  /\ dir' = [dir EXCEPT ![p] = d]
  /\ hash' = [hash EXCEPT ![p] = h]
  /\ target' = IF d = "target" THEN [target EXCEPT !.made = TRUE] ELSE target
  /\ UNCHANGED <<artifactVars, written, op, backup>>

\* private_value for secret-key and instance-id: read, or made where missing
Identify(p) ==
  /\ pc[p] = "loaded" /\ To(p, "ready")
  /\ target' = IF dir[p] = "source" THEN target
               ELSE [target EXCEPT !.secret = IF @ = "none" THEN "own" ELSE @,
                                   !.instance = IF @ = "none" THEN "own" ELSE @]
  /\ UNCHANGED <<artifactVars, starts, written, op, backup>>

\* runtime_lock: shared, not waiting
Lock(p) ==
  /\ pc[p] = "ready"
  /\ IF Exclusive(dir[p]) THEN End(p)
     ELSE IF dir[p] = "source" THEN To(p, "locked") ELSE To(p, "running")
  /\ UNCHANGED <<artifactVars, starts, written, op, backup, target>>

\* configuration.lock: exclusive, else shared, neither waiting
LockConfig(p) ==
  /\ pc[p] = "locked"
  /\ IF ~ConfigHeld("source") THEN To(p, "writer")
     ELSE IF ~ConfigWriter("source") THEN To(p, "sharing")
     ELSE End(p)
  /\ UNCHANGED <<artifactVars, starts, written, op, backup, target>>

WriteHash(p) ==
  /\ pc[p] = "writer" /\ To(p, "wrote")
  /\ written' = hash[p]
  /\ UNCHANGED <<artifactVars, starts, op, backup, target>>

\* flock from exclusive to shared gives up the one lock and waits for the other.
GiveUp(p) ==
  /\ pc[p] = "wrote" /\ To(p, "between")
  /\ UNCHANGED <<artifactVars, starts, written, op, backup, target>>

Share(p) ==
  /\ pc[p] = "between" /\ ~ConfigWriter("source") /\ To(p, "sharing")
  /\ UNCHANGED <<artifactVars, starts, written, op, backup, target>>

AnyHash(p) == TRUE
SameHash(p) == written = hash[p]

Compare(p) ==
  /\ pc[p] = "sharing"
  /\ IF SameHash(p) THEN To(p, "running") ELSE End(p)
  /\ UNCHANGED <<artifactVars, starts, written, op, backup, target>>

\* A process ends, or dies where it is; with the last one of the source dies
\* what it was doing.
Stop(p) ==
  /\ pc[p] # "off" /\ End(p)
  /\ (In(p, "source", {"running"}) /\ \A q \in Procs \ {p} : ~In(q, "source", {"running"}))
       => tx = NoTx /\ view = NoView
  /\ UNCHANGED <<artifactVars, starts, written, op, backup, target>>

Die(p) ==
  /\ In(p, "source", {"running"}) /\ End(p)
  /\ \A q \in Procs \ {p} : ~In(q, "source", {"running"})
  /\ tx # NoTx \/ view # NoView
  /\ tx' = NoTx /\ view' = NoView
  /\ UNCHANGED <<row, file, due, bundle, corrupt, pins, over, starts, written, op, backup, target>>

-----------------------------------------------------------------------------
(* backup_local and restore_local *)

At(s) == op = s
Goto(s) == op' = s
Quiet == UNCHANGED <<artifactVars, procVars, starts, written>>

\* runtime_lock(exclusive): no process has the shared lock
Alone(d) == Sharers(d) = {}

\* _references: the file of every live row is there
RequiredReferences(s) == \A b \in Bundles : s.row[Result(b)] = "live" => Result(b) \in s.file
References(s) == \A i \in Items : s.row[i] = "live" => i \in s.file

\* create_backup.  With the lock nobody writes while it copies.
Backup ==
  /\ At("idle") /\ Alone("source") /\ ~backup.made
  /\ backup' = [backup EXCEPT !.made = TRUE, !.row = row, !.file = file]
  /\ Goto("copied") /\ UNCHANGED target /\ Quiet

\* References are checked, the manifest is written, the backup is verified.
Conclude ==
  /\ At("copied") /\ References(backup)
  /\ backup' = [backup EXCEPT !.manifest = TRUE]
  /\ Goto("idle") /\ UNCHANGED target /\ Quiet

\* restore_backup up to verify_backup: the target is not there
Restore ==
  /\ At("idle") /\ Alone("source") /\ ~target.made
  /\ backup.manifest /\ References(backup)
  /\ Goto("verified") /\ UNCHANGED <<backup, target>> /\ Quiet

\* private_directory(target), its lock
OpenTarget ==
  /\ At("verified") /\ Alone("target")
  /\ target' = [target EXCEPT !.made = TRUE]
  /\ Goto("opened") /\ UNCHANGED backup /\ Quiet

\* Nothing but locks and .aiqa-runtime is in it
CheckEmpty ==
  /\ At("opened") /\ target.secret = "none"
  /\ Goto("empty") /\ UNCHANGED <<backup, target>> /\ Quiet

Mark ==
  /\ At("empty")
  /\ target' = [target EXCEPT !.marker = TRUE]
  /\ Goto("marked") /\ UNCHANGED backup /\ Quiet

\* _transfer in the order of the manifest, which is sorted by path: artifacts,
\* db.sqlite3, secret-key, uploads.  A file that is there already is an error.
CopyResults ==
  /\ At("marked")
  /\ target' = [target EXCEPT !.file = backup.file \ Uploads]
  /\ Goto("results") /\ UNCHANGED backup /\ Quiet
CopyDatabase ==
  /\ At("results")
  /\ target' = [target EXCEPT !.db = TRUE, !.row = backup.row]
  /\ Goto("database") /\ UNCHANGED backup /\ Quiet
CopySecret ==
  /\ At("database") /\ target.secret = "none"
  /\ target' = [target EXCEPT !.secret = "copied"]
  /\ Goto("secret") /\ UNCHANGED backup /\ Quiet
CopyUploads ==
  /\ At("secret")
  /\ target' = [target EXCEPT !.file = @ \cup (backup.file \cap Uploads)]
  /\ Goto("files") /\ UNCHANGED backup /\ Quiet

NewInstance ==
  /\ At("files") /\ target.instance = "none"
  /\ target' = [target EXCEPT !.instance = "new"]
  /\ Goto("instance") /\ UNCHANGED backup /\ Quiet

\* _invalidate_restored, one transaction
Invalidate ==
  /\ At("instance")
  /\ target' = [target EXCEPT !.inert = TRUE]
  /\ Goto("inert") /\ UNCHANGED backup /\ Quiet

Unmark ==
  /\ At("inert")
  /\ target' = [target EXCEPT !.marker = FALSE]
  /\ Goto("idle") /\ UNCHANGED backup /\ Quiet

\* An error anywhere, or the command dies: the locks are free, the files stay.
Abandon ==
  /\ op # "idle"
  /\ Goto("idle") /\ UNCHANGED <<backup, target>> /\ Quiet

-----------------------------------------------------------------------------
Next ==
  \/ ((Up /\ (ArtifactsNext \/ RunsNext)) \/ ClockNext) /\ UNCHANGED maintenanceVars
  \/ \E p \in Procs, d \in Dirs, h \in Hashes : Load(p, d, h)
  \/ \E p \in Procs : Identify(p) \/ Lock(p) \/ LockConfig(p) \/ WriteHash(p) \/ GiveUp(p) \/ Share(p)
                      \/ Compare(p) \/ Stop(p) \/ Die(p)
  \/ Backup \/ Conclude \/ Restore \/ OpenTarget \/ CheckEmpty \/ Mark
  \/ CopyResults \/ CopyDatabase \/ CopySecret \/ CopyUploads \/ NewInstance \/ Invalidate \/ Unmark
  \/ Abandon

Spec == Init /\ [][Next]_vars

-----------------------------------------------------------------------------
(* Properties *)

\* Types of the rows, the locks and the commands.
TypeOK ==
  /\ ArtifactsTypeOK
  /\ pc \in [Procs -> {"off", "loaded", "ready"} \cup AfterLock]
  /\ dir \in [Procs -> Dirs]
  /\ hash \in [Procs -> Hashes \cup {NoHash}]
  /\ starts \in 0..MaxStarts
  /\ written \in Hashes
  /\ op \in {"idle", "copied", "verified", "opened", "empty", "marked", "results", "database", "secret",
             "files", "instance", "inert"}
  /\ backup \in [manifest : BOOLEAN, made : BOOLEAN, row : [Items -> RowStates], file : SUBSET Items]
  /\ target \in [made : BOOLEAN, marker : BOOLEAN, db : BOOLEAN, row : [Items -> RowStates],
                 file : SUBSET Items, secret : {"none", "own", "copied"},
                 instance : {"none", "own", "new"}, inert : BOOLEAN]

\* The processes that run at the same time run with one configuration, also
\* when two start together and the conversion of the lock lets the second one
\* in between: each reads the hash back under the shared lock.
OneConfiguration ==
  \A p, q \in Procs : (In(p, "source", {"running"}) /\ In(q, "source", {"running"})) => hash[p] = hash[q]

\* A restored directory that may be started is the whole backup with an identity
\* of its own and nothing left to resume: every file its rows name is there,
\* whatever crash of the service preceded the backup, wherever an earlier restore
\* broke off and whoever started on the target meanwhile.
RestoredIsWhole ==
  (target.db /\ ~target.marker) =>
    /\ \A i \in Items : target.row[i] = "live" => i \in target.file
    /\ target.secret = "copied" /\ target.instance = "new" /\ target.inert

\* docs/operations/README.md:134: while restore-incomplete.json is there, a start
\* is refused.
NoStartOnIncomplete ==
  \A p \in Procs : In(p, "target", {"running"}) => ~target.marker
==============================================================================
