------------------------------ MODULE Artifacts ------------------------------
(***************************************************************************)
(* Stored results and attachments (apps/artifacts/services.py,             *)
(* storage.py): rows in the database and files in the data directory, which *)
(* no transaction spans.  Sealing renames a staged directory and then      *)
(* commits the rows; expiry unlinks a file and then commits the row; an    *)
(* upload writes the file and then commits its row.  A process that dies   *)
(* between the two leaves the file as it is and the rows as they were.     *)
(*                                                                         *)
(* Transactions begin IMMEDIATE (config/settings.py:53): one is open at a  *)
(* time, others wait for it.  A verification outside a transaction reads   *)
(* each row and, in a later step, its file.                                *)
(***************************************************************************)
EXTENDS Naturals, FiniteSets

CONSTANTS
  Bundles,   \* ResultBundles, one of a run
  Uploads    \* attachments of conversations

VARIABLES
  row,       \* Artifact: none, live, or expired (expired_at is set)
  file,      \* items whose file is there
  due,       \* items whose expires_at is over
  bundle,    \* ResultBundle: none, sealed or expired
  corrupt,   \* bundles with a corruption_reason
  pins,      \* bundles and uploads with an ArtifactPin that is valid
  over,      \* bundles whose run is terminal
  tx,        \* the open transaction that has touched a file: what it will commit
  view       \* a verification outside a transaction: its bundle and the item
             \* whose row it has read and whose file it will read

artifactVars == <<row, file, due, bundle, corrupt, pins, over, tx, view>>

\* Of a bundle, the files that a publication needs are kept 30 days and the
\* redacted logs 7; one item stands for each kind.
Items == (Bundles \X {"result", "log"}) \cup Uploads
Result(b) == <<b, "result">>
Log(b) == <<b, "log">>
ASSUME ItemAssumption == Bundles \cap Items = {} /\ (Bundles \X {"result", "log"}) \cap Uploads = {}
OfBundle(i) == i \notin Uploads
ItemsOf(b) == {Result(b), Log(b)}

RowStates == {"none", "live", "expired"}
NoTx == [op |-> "none"]
NoView == [at |-> "none"]

ArtifactsInit ==
  /\ row = [i \in Items |-> "none"]
  /\ file = {} /\ due = {} /\ pins = {} /\ over = {} /\ corrupt = {}
  /\ bundle = [b \in Bundles |-> "none"]
  /\ tx = NoTx /\ view = NoView

-----------------------------------------------------------------------------
PinnedItself(i) == i \in pins
\* _pinned, of the item or of its bundle
Pinned(i) == i \in pins \/ (OfBundle(i) /\ i[1] \in pins)
\* _artifact_expired
Expired(i) == row[i] = "expired" \/ (i \in due /\ ~Pinned(i))

\* The checks of verify_bundle before it reads: not corrupted, not expired
Open(b) == bundle[b] = "sealed" /\ b \notin corrupt /\ (Result(b) \in due => b \in pins)

\* What verify_bundle demands of each row of the manifest: an optional one may
\* have expired, of every other the file is read.
RowsOnly(b) == Open(b) /\ row[Result(b)] = "live"
Verified(b) == Open(b) /\ row[Result(b)] = "live" /\ \A i \in ItemsOf(b) : row[i] = "live" => i \in file

-----------------------------------------------------------------------------
(* Transactions with a file effect *)

\* seal_result: the staged directory becomes the version of the run; publish_directory
\* refuses a destination that is there.
Seal(b) ==
  /\ tx = NoTx /\ bundle[b] = "none" /\ b \notin over
  /\ ItemsOf(b) \cap file = {}
  /\ file' = file \cup ItemsOf(b)
  /\ tx' = [op |-> "seal", of |-> b]
  /\ UNCHANGED <<row, due, bundle, corrupt, pins, over, view>>

CommitSeal ==
  /\ tx.op = "seal"
  /\ row' = [i \in Items |-> IF i \in ItemsOf(tx.of) THEN "live" ELSE row[i]]
  /\ bundle' = [bundle EXCEPT ![tx.of] = "sealed"]
  /\ tx' = NoTx
  /\ UNCHANGED <<file, due, corrupt, pins, over, view>>

\* store_attachment
Upload(i) ==
  /\ tx = NoTx /\ row[i] = "none" /\ i \notin file
  /\ file' = file \cup {i}
  /\ tx' = [op |-> "upload", of |-> i]
  /\ UNCHANGED <<row, due, bundle, corrupt, pins, over, view>>

CommitUpload ==
  /\ tx.op = "upload"
  /\ row' = [row EXCEPT ![tx.of] = "live"]
  /\ tx' = NoTx
  /\ UNCHANGED <<file, due, bundle, corrupt, pins, over, view>>

\* expire_results, one artifact; a file that cannot be read ends it with an error.
Expire(i) ==
  /\ tx = NoTx /\ row[i] = "live" /\ Expired(i)
  /\ OfBundle(i) => i[1] \in over
  /\ i \in file
  /\ file' = file \ {i}
  /\ tx' = [op |-> "expire", of |-> i]
  /\ UNCHANGED <<row, due, bundle, corrupt, pins, over, view>>

CommitExpire ==
  /\ tx.op = "expire"
  /\ row' = [row EXCEPT ![tx.of] = "expired"]
  /\ tx' = NoTx
  /\ UNCHANGED <<file, due, bundle, corrupt, pins, over, view>>

\* The process dies, or the commit fails: the rows are as before.
RollBack ==
  /\ tx # NoTx /\ tx' = NoTx
  /\ UNCHANGED <<row, file, due, bundle, corrupt, pins, over, view>>

-----------------------------------------------------------------------------
(* Transactions on rows alone *)

\* expire_results, one bundle
ExpireBundle(b) ==
  /\ tx = NoTx /\ bundle[b] = "sealed" /\ b \in over
  /\ Result(b) \in due /\ b \notin pins /\ row[Result(b)] # "live"
  /\ bundle' = [bundle EXCEPT ![b] = "expired"]
  /\ UNCHANGED <<row, file, due, corrupt, pins, over, tx, view>>

\* pin_bundle verifies in its transaction; of a failure nothing is written, not
\* even the corruption_reason.
PinBundle(b) ==
  /\ tx = NoTx /\ Verified(b)
  /\ pins' = pins \cup {b}
  /\ UNCHANGED <<row, file, due, bundle, corrupt, over, tx, view>>

\* pin_attachments
PinUpload(i) ==
  /\ tx = NoTx /\ row[i] = "live" /\ ~Expired(i) /\ i \in file
  /\ pins' = pins \cup {i}
  /\ UNCHANGED <<row, file, due, bundle, corrupt, over, tx, view>>

\* unpin_bundle, or the expires_at of the pin is over
Unpin(x) ==
  /\ x \in pins /\ pins' = pins \ {x}
  /\ UNCHANGED <<row, file, due, bundle, corrupt, over, tx, view>>

RunEnds(b) ==
  /\ bundle[b] # "none" /\ b \notin over /\ over' = over \cup {b}
  /\ UNCHANGED <<row, file, due, bundle, corrupt, pins, tx, view>>

\* Time passes; a log is due before the result.
BecomesDue(i) ==
  /\ row[i] = "live" /\ i \notin due
  /\ (OfBundle(i) /\ i = Result(i[1])) => Log(i[1]) \in due
  /\ due' = due \cup {i}
  /\ UNCHANGED <<row, file, bundle, corrupt, pins, over, tx, view>>

-----------------------------------------------------------------------------
(* verify_bundle outside a transaction: get_result, open_artifact,         *)
(* read_bundle_file, materialize_baseline                                  *)

Look(b) ==
  /\ view = NoView /\ Open(b)
  /\ view' = [at |-> "rows", of |-> b]
  /\ UNCHANGED <<row, file, due, bundle, corrupt, pins, over, tx>>

ReadRow(i) ==
  /\ view.at = "rows" /\ OfBundle(i) /\ i[1] = view.of
  /\ row[i] = "live" \/ i = Result(view.of)
  /\ view' = [at |-> "file", of |-> view.of, item |-> i]
  /\ UNCHANGED <<row, file, due, bundle, corrupt, pins, over, tx>>

ReadFile ==
  /\ view.at = "file"
  /\ IF view.item \in file
     THEN view' = [at |-> "rows", of |-> view.of] /\ UNCHANGED corrupt
     ELSE tx = NoTx /\ view' = NoView /\ corrupt' = corrupt \cup {view.of}
  /\ UNCHANGED <<row, file, due, bundle, pins, over, tx>>

Looked ==
  /\ view.at = "rows" /\ view' = NoView
  /\ UNCHANGED <<row, file, due, bundle, corrupt, pins, over, tx>>

ArtifactsNext ==
  \/ \E b \in Bundles : Seal(b) \/ ExpireBundle(b) \/ PinBundle(b) \/ Look(b)
  \/ \E i \in Uploads : Upload(i) \/ PinUpload(i)
  \/ \E i \in Items : Expire(i) \/ ReadRow(i)
  \/ \E x \in Bundles \cup Uploads : Unpin(x)
  \/ CommitSeal \/ CommitUpload \/ CommitExpire \/ RollBack \/ ReadFile \/ Looked

\* What happens with no process of the service at work
ClockNext == \E i \in Items : BecomesDue(i)
RunsNext == \E b \in Bundles : RunEnds(b)

-----------------------------------------------------------------------------
ArtifactsTypeOK ==
  /\ row \in [Items -> RowStates]
  /\ {file, due} \subseteq SUBSET Items
  /\ bundle \in [Bundles -> {"none", "sealed", "expired"}]
  /\ {corrupt, over} \subseteq SUBSET Bundles
  /\ pins \subseteq Bundles \cup Uploads
  /\ tx \in {NoTx} \cup [op : {"seal"}, of : Bundles] \cup [op : {"upload"}, of : Uploads]
                    \cup [op : {"expire"}, of : Items]
  /\ view \in {NoView} \cup [at : {"rows"}, of : Bundles] \cup [at : {"file"}, of : Bundles, item : Items]

\* Nothing that is kept is missing, through crashes between the file and its
\* row and whatever expiry and pins do meanwhile: the file of a live row is
\* there while its time is not over or a pin holds it, and a bundle that is
\* pinned has all that a publication needs of it.
KeptFiles ==
  /\ \A i \in Items : (row[i] = "live" /\ (i \notin due \/ Pinned(i))) => i \in file
  /\ \A b \in Bundles \cap pins : row[Result(b)] = "live"
==============================================================================
