------------------------------ MODULE RunWorker ------------------------------
(***************************************************************************)
(* The execution slot of apps/runs: jobs and runs in the database, the one *)
(* worker process that claims them, the thread that works on the claimed   *)
(* job, its heartbeat and lease, the child processes it launches, and what *)
(* a crash leaves for the next worker (services.py, worker.py,             *)
(* processes.py, pipeline.py).                                             *)
(*                                                                         *)
(* A RUN job and its Run are created together and share one identity.      *)
(* Publication jobs use the same slot; here they only launch processes,    *)
(* the module Publication says what they do.  Every transaction.atomic()   *)
(* block of the code is one step (SQLite runs them IMMEDIATE).             *)
(***************************************************************************)
EXTENDS Naturals

CONSTANTS
  RunJobs,      \* jobs of kind RUN, each with its Run
  PubJobs,      \* jobs of kind publication.*
  Actors,       \* the accounts the jobs belong to
  Owner,        \* Owner[j] is the account that job j belongs to
  Requests,
  RequestOf,    \* RequestOf[r] is the work request that run r executes
  NoJob,
  HastyRestart, \* TRUE: the worker may come back before the lease ran out
  MaxRestarts,  \* bound: how often the worker process may die or be stopped
  MaxEscapes    \* bound: how often the process table cannot be read, a child
                \* leaves its process group or its process id is reused

Jobs == RunJobs \cup PubJobs

ASSUME JobAssumption ==
  /\ RunJobs \cap PubJobs = {}
  /\ NoJob \notin Jobs
  /\ Owner \in [Jobs -> Actors]
  /\ RequestOf \in [RunJobs -> Requests]

ASSUME BoundAssumption ==
  HastyRestart \in BOOLEAN /\ MaxRestarts \in Nat /\ MaxEscapes \in Nat

VARIABLES
  status, stopReason, bundle,         \* Run
  jobState, jobEpoch, jobCancel,      \* Job
  slotJob, slotEpoch, leased, blocked,\* WorkerSlot "EXECUTION"
  record,                             \* the job's newest ProcessRecord
  child,                              \* the operating system's view of it
  worker,                             \* the process_jobs process
  current, stage, err, beatFailed,    \* the thread in process_claimed
  restarts, escapes

runVars    == <<status, stopReason, bundle>>
jobVars    == <<jobState, jobEpoch, jobCancel>>
slotVars   == <<slotJob, slotEpoch, leased, blocked>>
procVars   == <<record, child>>
threadVars == <<current, stage, err, beatFailed>>
boundVars  == <<restarts, escapes>>
vars == <<runVars, jobVars, slotVars, procVars, worker, threadVars, boundVars>>

-----------------------------------------------------------------------------
(* States *)

Terminal == {"SUCCEEDED", "FAILED", "CANCELLED", "INTERRUPTED"}
Active   == {"PREPARING", "RUNNING", "VERIFYING"}
Status   == {"ABSENT", "QUEUED", "CANCEL_REQUESTED"} \cup Active \cup Terminal

TransitionsToAnyEnd ==
  ({"QUEUED"} \X {"PREPARING", "CANCELLED", "FAILED"})
  \cup (Active \X {"FAILED", "CANCEL_REQUESTED", "INTERRUPTED"})
  \cup {<<"PREPARING", "RUNNING">>, <<"RUNNING", "VERIFYING">>, <<"VERIFYING", "SUCCEEDED">>}
  \cup ({"CANCEL_REQUESTED"} \X Terminal)
TRANSITIONS ==
  ({"QUEUED"} \X {"PREPARING", "CANCELLED", "FAILED"})
  \cup (Active \X {"FAILED", "CANCEL_REQUESTED", "INTERRUPTED"})
  \cup {<<"PREPARING", "RUNNING">>, <<"RUNNING", "VERIFYING">>, <<"VERIFYING", "SUCCEEDED">>}
  \cup ({"CANCEL_REQUESTED"} \X {"CANCELLED", "FAILED", "INTERRUPTED"})

StopReason == {"none", "user", "revoked", "internal", "lost"}
JobState   == {"ABSENT", "QUEUED", "RUNNING", "DONE", "FAILED", "CANCELLED"}

\* "NONE": no record without ended_at.  In "RESERVED" the process id is not
\* yet stored; "CLEARED" is a REGISTERED record whose launcher has found the
\* job not cancelled and is about to open the gate; an ABANDONED record keeps
\* ended_at empty.
Launched    == {"REGISTERED", "CLEARED", "RUNNING"}
RecordState == {"NONE", "RESERVED", "UNKNOWN", "ABANDONED"} \cup Launched

\* A "gated" child waits on the start gate and has run no target code; while
\* it is "executing", target code runs in it or in the container it started.
ChildState  == {"none", "gated", "executing"}
WorkerState == {"down", "recovering", "settling", "up", "stopping"}

LaunchStage == {"prepare", "modify", "after", "publish"}
Stage == LaunchStage \cup
         {"idle", "prepared", "modified", "checked", "verified", "sealed", "wrapup", "finalize"}

AfterLaunch ==
  [prepare |-> "prepared", modify |-> "modified", after |-> "checked", publish |-> "wrapup"]

Init ==
  /\ status = [r \in RunJobs |-> "ABSENT"]
  /\ stopReason = [r \in RunJobs |-> "none"]
  /\ bundle = [r \in RunJobs |-> "none"]
  /\ jobState = [j \in Jobs |-> "ABSENT"]
  /\ jobEpoch = [j \in Jobs |-> 0]
  /\ jobCancel = [j \in Jobs |-> FALSE]
  /\ slotJob = NoJob /\ slotEpoch = 0 /\ leased = FALSE /\ blocked = FALSE
  /\ record = [j \in Jobs |-> "NONE"]
  /\ child = [j \in Jobs |-> "none"]
  /\ worker = "down"
  /\ current = NoJob /\ stage = "idle" /\ err = FALSE /\ beatFailed = FALSE
  /\ restarts = 0 /\ escapes = 0

-----------------------------------------------------------------------------
(* transition_run *)

\* A run may not end while a process record is open; an abandoned one stands
\* in the way of success only.  state_version always matches: the read and
\* the conditional update are in one transaction.
NothingOpen(r) == record[r] \in {"NONE", "ABANDONED"}

CanTransition(r, to) ==
  /\ <<status[r], to>> \in TRANSITIONS
  /\ to \in Terminal => NothingOpen(r)
  /\ to = "SUCCEEDED" => record[r] = "NONE"

Transition(r, to) ==
  /\ CanTransition(r, to)
  /\ status' = [status EXCEPT ![r] = to]

UnfinishedForgetsStopping(r) == status[r] \in Active \cup {"QUEUED"}
Unfinished(r) == status[r] \in Active \cup {"QUEUED", "CANCEL_REQUESTED"}

SetRecord(j, s) == record' = [record EXCEPT ![j] = s]
SetChild(j, s)  == child' = [child EXCEPT ![j] = s]

\* confirm_stopped: no process of the record is left.
AssumedStopped(j)   == TRUE
ConfirmedStopped(j) == child[j] = "none"

-----------------------------------------------------------------------------
(* Web requests *)

Siblings(r) == {q \in RunJobs : RequestOf[q] = RequestOf[r]}

Enqueue(j) ==
  /\ jobState[j] = "ABSENT"
  /\ jobState' = [jobState EXCEPT ![j] = "QUEUED"]
  /\ UNCHANGED <<jobEpoch, jobCancel>>

CreateRun(r) ==
  /\ status[r] = "ABSENT"
  /\ status' = [status EXCEPT ![r] = "QUEUED"]
  /\ Enqueue(r)
  /\ UNCHANGED <<stopReason, bundle, slotVars, procVars, worker, threadVars, boundVars>>

\* create_run: the first run of a revision.  A request is confirmed anew, with
\* a new revision, as often as its owner likes.
SubmitRun(r) ==
  /\ \A q \in Siblings(r) : ~Unfinished(q)
  /\ CreateRun(r)

\* retry_run: an ended run whose processes are all stopped or abandoned.
RetryRun(r) ==
  /\ \E previous \in Siblings(r) : status[previous] \in Terminal /\ NothingOpen(previous)
  /\ \A q \in Siblings(r) : ~Unfinished(q)
  /\ CreateRun(r)

EnqueuePublication(p) ==
  /\ Enqueue(p)
  /\ UNCHANGED <<runVars, slotVars, procVars, worker, threadVars, boundVars>>

CancelQueued(r) ==
  /\ status[r] = "QUEUED" /\ jobState[r] = "QUEUED"
  /\ Transition(r, "CANCELLED")
  /\ stopReason' = [stopReason EXCEPT ![r] = "user"]
  /\ jobState' = [jobState EXCEPT ![r] = "CANCELLED"]
  /\ UNCHANGED <<bundle, jobEpoch, jobCancel, slotVars, procVars, worker, threadVars, boundVars>>

CancelActive(r) ==
  /\ Transition(r, "CANCEL_REQUESTED")
  /\ stopReason' = [stopReason EXCEPT ![r] = "user"]
  /\ UNCHANGED <<bundle, jobVars, slotVars, procVars, worker, threadVars, boundVars>>

\* revoke_actor_work: everything of an account, in one transaction.
Revoke(a) ==
  LET mine    == {j \in Jobs : Owner[j] = a}
      stopped == {r \in RunJobs \cap mine : status[r] \in Active \cup {"QUEUED"}}
  IN
  /\ status' = [r \in RunJobs |-> IF r \notin stopped THEN status[r]
                                  ELSE IF status[r] = "QUEUED" THEN "CANCELLED"
                                  ELSE "CANCEL_REQUESTED"]
  /\ stopReason' = [r \in RunJobs |-> IF r \in stopped THEN "revoked" ELSE stopReason[r]]
  /\ jobState' = [j \in Jobs |-> IF j \in mine /\ jobState[j] = "QUEUED"
                                 THEN "CANCELLED" ELSE jobState[j]]
  /\ jobCancel' = [j \in Jobs |-> \/ jobCancel[j]
                                  \/ j \in mine \cap PubJobs /\ jobState[j] = "RUNNING"]
  /\ UNCHANGED <<bundle, jobEpoch, slotVars, procVars, worker, threadVars, boundVars>>

-----------------------------------------------------------------------------
(* The worker: claiming, heartbeat and lease, stopping and dying *)

SlotFree == slotJob = NoJob /\ ~blocked

\* worker_loop takes the oldest queued job; any queued job may be the oldest.
ClaimJob(j) ==
  /\ worker = "up" /\ current = NoJob
  /\ SlotFree
  /\ jobState[j] = "QUEUED"
  /\ jobState' = [jobState EXCEPT ![j] = "RUNNING"]
  /\ jobEpoch' = [jobEpoch EXCEPT ![j] = slotEpoch + 1]
  /\ slotJob' = j /\ slotEpoch' = slotEpoch + 1 /\ leased' = TRUE
  /\ IF j \in RunJobs THEN Transition(j, "PREPARING") ELSE UNCHANGED status
  /\ current' = j /\ err' = FALSE /\ beatFailed' = FALSE
  /\ stage' = IF j \in RunJobs THEN "prepare" ELSE "publish"
  /\ UNCHANGED <<stopReason, bundle, jobCancel, blocked, procVars, worker, boundVars>>

\* The heartbeat gives up at its first error, also when it finds the slot
\* blocked or the lease run out; from then on nobody renews the lease.
HeartbeatFails ==
  /\ current # NoJob /\ ~beatFailed
  /\ beatFailed' = TRUE
  /\ UNCHANGED <<runVars, jobVars, slotVars, procVars, worker, current, stage, err, boundVars>>

\* A suspended host lets the lease of a working heartbeat run out as well;
\* heartbeat() does not renew an expired lease.
LeaseExpires ==
  /\ slotJob # NoJob /\ leased
  /\ leased' = FALSE
  /\ UNCHANGED <<runVars, jobVars, slotJob, slotEpoch, blocked, procVars, worker, threadVars, boundVars>>

ThreadStaysListed == UNCHANGED current /\ stage' = "idle" /\ err' = FALSE /\ beatFailed' = FALSE
ThreadGone == current' = NoJob /\ stage' = "idle" /\ err' = FALSE /\ beatFailed' = FALSE

\* The gate of a child that has not started closes with its parent; a child
\* that has started lives on.
Crash ==
  /\ worker # "down" /\ restarts < MaxRestarts
  /\ restarts' = restarts + 1
  /\ worker' = "down"
  /\ ThreadGone
  /\ child' = [j \in Jobs |-> IF child[j] = "gated" THEN "none" ELSE child[j]]
  /\ UNCHANGED <<runVars, jobVars, slotVars, record, escapes>>

\* SIGTERM: worker_loop claims no more and waits for its threads.
StopSignal ==
  /\ worker = "up" /\ restarts < MaxRestarts
  /\ restarts' = restarts + 1
  /\ worker' = "stopping"
  /\ UNCHANGED <<runVars, jobVars, slotVars, procVars, threadVars, escapes>>

StopDone ==
  /\ worker = "stopping" /\ current = NoJob
  /\ worker' = "down"
  /\ UNCHANGED <<runVars, jobVars, slotVars, procVars, threadVars, boundVars>>

StartWorker ==
  /\ worker = "down"
  /\ HastyRestart \/ slotJob = NoJob \/ ~leased
  /\ worker' = "recovering"
  /\ UNCHANGED <<runVars, jobVars, slotVars, procVars, threadVars, boundVars>>

-----------------------------------------------------------------------------
(* recover_stale: once, before the new worker claims anything *)

\* A slot whose lease has not run out is left alone.
RecoverSkip ==
  /\ worker = "recovering" /\ (slotJob = NoJob \/ leased)
  /\ worker' = "up"
  /\ UNCHANGED <<runVars, jobVars, slotVars, procVars, threadVars, boundVars>>

\* abandon_local_processes: only a publication keeps the slot.
AbandonableAny(j)  == j \in Jobs
AbandonableNone(j) == FALSE
Abandonable(j)     == j \in RunJobs

AbandonAsEnded(j) == SetRecord(j, "NONE") /\ blocked' = FALSE
Abandon(j)        == SetRecord(j, "ABANDONED") /\ blocked' = FALSE

RecoverConfirmed(j) ==
  /\ worker = "recovering" /\ slotJob = j /\ ~leased
  /\ record[j] # "RESERVED"
  /\ ConfirmedStopped(j)
  /\ SetRecord(j, "NONE")
  /\ worker' = "settling"
  /\ UNCHANGED <<runVars, jobVars, slotVars, child, threadVars, boundVars>>

\* A record without a process id is never confirmed, any other may not be.
RecoverUnconfirmed(j) ==
  /\ worker = "recovering" /\ slotJob = j /\ ~leased
  /\ record[j] # "NONE"
  /\ IF Abandonable(j)
     THEN Abandon(j) /\ worker' = "settling"
     ELSE /\ blocked' = TRUE /\ worker' = "up"
          /\ \/ UNCHANGED record
             \/ record[j] # "RESERVED" /\ SetRecord(j, "UNKNOWN")
  /\ UNCHANGED <<runVars, jobVars, slotJob, slotEpoch, leased, child, threadVars, boundVars>>

\* The lost job is not put back into the queue.
LostJobStaysRunning == "RUNNING"
LostJobIsRequeued   == "QUEUED"
LostJobState        == "FAILED"

RecoverFinish(j) ==
  /\ worker = "settling" /\ slotJob = j
  /\ IF j \in RunJobs /\ Unfinished(j)
     THEN /\ Transition(j, "INTERRUPTED")
          /\ stopReason' = [stopReason EXCEPT ![j] = "lost"]
     ELSE UNCHANGED <<status, stopReason>>
  /\ jobState' = [jobState EXCEPT ![j] = LostJobState]
  /\ slotJob' = NoJob /\ leased' = FALSE /\ blocked' = FALSE
  /\ worker' = "up"
  /\ UNCHANGED <<bundle, jobEpoch, jobCancel, slotEpoch, procVars, threadVars, boundVars>>

-----------------------------------------------------------------------------
(* launch_process, by the thread that works on job j *)

Owns(j)  == jobState[j] = "RUNNING" /\ jobEpoch[j] = slotEpoch /\ slotJob = j
At(j, S) == current = j /\ stage \in S

\* _cancelled: the job is no longer this worker's, or was told to stop.
Cancelled(j) ==
  \/ ~Owns(j) \/ jobCancel[j] \/ ~leased
  \/ j \in RunJobs /\ status[j] = "CANCEL_REQUESTED"

\* The handler is over: a run by an exception, a publication as it likes,
\* because its handler makes outcomes of its own of most exceptions.
Leave(j) == stage' = "wrapup" /\ err' \in {TRUE} \cup {b \in BOOLEAN : j \in PubJobs}

outside == <<jobVars, slotJob, slotEpoch, leased, worker, current, beatFailed, restarts>>

\* Any check or file operation between two launches may fail.
StageFails(j) ==
  /\ At(j, Stage \ {"idle", "wrapup", "finalize"}) /\ record[j] = "NONE"
  /\ Leave(j)
  /\ UNCHANGED <<outside, runVars, blocked, procVars, escapes>>

Reserve(j) ==
  /\ At(j, LaunchStage) /\ record[j] = "NONE" /\ ~Cancelled(j)
  /\ SetRecord(j, "RESERVED")
  /\ UNCHANGED <<outside, runVars, blocked, child, stage, err, escapes>>

\* No child, or one without an identity whose gate is closed and waited for.
SpawnFails(j) ==
  /\ At(j, LaunchStage) /\ record[j] = "RESERVED"
  /\ SetRecord(j, "NONE")
  /\ Leave(j)
  /\ UNCHANGED <<outside, runVars, blocked, child, escapes>>

Register(j) ==
  /\ At(j, LaunchStage) /\ record[j] = "RESERVED"
  /\ SetRecord(j, "REGISTERED") /\ SetChild(j, "gated")
  /\ UNCHANGED <<outside, runVars, blocked, stage, err, escapes>>

\* The last look at the job, and the write that lets the child run: a
\* cancellation may come between the two.
ClearGate(j) ==
  /\ At(j, LaunchStage) /\ record[j] = "REGISTERED" /\ ~Cancelled(j)
  /\ SetRecord(j, "CLEARED")
  /\ UNCHANGED <<outside, runVars, blocked, child, stage, err, escapes>>

OpenGate(j) ==
  /\ At(j, LaunchStage) /\ record[j] = "CLEARED" /\ child[j] = "gated"
  /\ SetRecord(j, "RUNNING") /\ SetChild(j, "executing")
  /\ UNCHANGED <<outside, runVars, blocked, stage, err, escapes>>

\* _request_stop: a timeout, an output limit, a lost lease, a surviving
\* descendant or any exception stops the run before its processes.
RequestStop(j) ==
  /\ At(j, LaunchStage) /\ record[j] \in Launched \cup {"UNKNOWN"}
  /\ j \in RunJobs /\ status[j] \in Active
  /\ Transition(j, "CANCEL_REQUESTED")
  /\ stopReason' = [stopReason EXCEPT ![j] = "internal"]
  /\ UNCHANGED <<outside, bundle, blocked, procVars, stage, err, escapes>>

MayStop(j) == j \in RunJobs => status[j] = "CANCEL_REQUESTED"

\* terminate_record, the end of the processes confirmed.
Terminate(j) ==
  /\ At(j, LaunchStage) /\ record[j] \in Launched /\ MayStop(j)
  /\ SetRecord(j, "NONE") /\ SetChild(j, "none")
  /\ Leave(j)
  /\ UNCHANGED <<outside, runVars, blocked, escapes>>

\* _blocked, called from any observation of the process table.
Misread(j) ==
  /\ At(j, LaunchStage) /\ record[j] \in Launched /\ escapes < MaxEscapes
  /\ SetRecord(j, "UNKNOWN")
  /\ blocked' = TRUE /\ escapes' = escapes + 1
  /\ UNCHANGED <<outside, runVars, child, stage, err>>

\* terminate_record leaves by an exception and the record stays open; the
\* process table may also have been unreadable before.
GiveUp(j) ==
  /\ At(j, LaunchStage) /\ MayStop(j)
  /\ \/ record[j] = "UNKNOWN" /\ UNCHANGED escapes
     \/ record[j] \in Launched /\ escapes < MaxEscapes /\ escapes' = escapes + 1
  /\ Leave(j)
  /\ UNCHANGED <<outside, runVars, blocked, procVars>>

\* confirm_stopped swallows _blocked, is asked again, and now finds no
\* process: the record ends, the slot's blocked_reason stays.
ConfirmLate(j) ==
  /\ At(j, LaunchStage) /\ record[j] = "UNKNOWN" /\ MayStop(j)
  /\ SetRecord(j, "NONE") /\ SetChild(j, "none")
  /\ Leave(j)
  /\ UNCHANGED <<outside, runVars, blocked, escapes>>

ChildExits(j) ==
  /\ child[j] # "none"
  /\ SetChild(j, "none")
  /\ UNCHANGED <<runVars, jobVars, slotVars, record, worker, threadVars, boundVars>>

\* The command ended by itself and its descendants are gone.
Collect(j) ==
  /\ At(j, LaunchStage) /\ record[j] = "RUNNING" /\ ConfirmedStopped(j)
  /\ SetRecord(j, "NONE")
  /\ stage' = AfterLaunch[stage]
  /\ err' \in IF j \in PubJobs THEN BOOLEAN ELSE {FALSE}
  /\ UNCHANGED <<outside, runVars, blocked, child, escapes>>

\* container.launch, last of all: the command's container cannot be removed,
\* and what runs in it may go on.  The record is opened again.
RemoveFails(j) ==
  /\ At(j, LaunchStage) /\ j \in RunJobs
  /\ \/ record[j] \in Launched \cup {"UNKNOWN"} /\ MayStop(j)
     \/ record[j] = "RUNNING" /\ child[j] = "none"
     \/ record[j] = "RESERVED"
  /\ SetRecord(j, "ABANDONED")
  /\ \E left \in {"none"} \cup ({child[j]} \ {"gated"}) : SetChild(j, left)
  /\ Leave(j)
  /\ UNCHANGED <<outside, runVars, blocked, escapes>>

-----------------------------------------------------------------------------
(* execute_run between the launches *)

\* _alive and the transition; a cancellation between them fails the latter.
Advance(r, from, to, next) ==
  /\ At(r, {from}) /\ r \in RunJobs
  /\ Transition(r, to)
  /\ stage' = next
  /\ UNCHANGED <<outside, stopReason, bundle, blocked, procVars, err, escapes>>

BeginModify(r) == Advance(r, "prepared", "RUNNING", "modify")
BeginAfter(r)  == Advance(r, "modified", "VERIFYING", "after")

\* The last _alive, the check for open processes, the comparisons.
Verify(r) ==
  /\ At(r, {"checked"}) /\ r \in RunJobs
  /\ status[r] = "VERIFYING" /\ record[r] = "NONE"
  /\ stage' = "verified"
  /\ UNCHANGED <<outside, runVars, blocked, procVars, err, escapes>>

\* seal_result does not look at the run's status.
Seal(r) ==
  /\ At(r, {"verified"}) /\ r \in RunJobs
  /\ bundle' = [bundle EXCEPT ![r] = "sealed"]
  /\ stage' = "sealed"
  /\ UNCHANGED <<outside, status, stopReason, blocked, procVars, err, escapes>>

EndWithBundle(r, to) ==
  /\ At(r, {"sealed"}) /\ r \in RunJobs
  /\ Transition(r, to)
  /\ bundle' = [bundle EXCEPT ![r] = "linked"]
  /\ stage' = "wrapup"
  /\ UNCHANGED <<outside, stopReason, blocked, procVars, err, escapes>>

\* The bundle is incomplete or holds a secret; otherwise it is committed.
Restricted(r) == EndWithBundle(r, "FAILED")
Succeed(r)    == EndWithBundle(r, "SUCCEEDED")

-----------------------------------------------------------------------------
(* process_claimed, after the handler *)

WrapUp(j) ==
  /\ At(j, {"wrapup"}) /\ Owns(j)
  /\ IF record[j] = "NONE"
     THEN /\ stage' = "finalize" /\ err' = (err \/ beatFailed)
          /\ UNCHANGED <<record, blocked, current, beatFailed>>
     ELSE IF Abandonable(j)
     THEN /\ Abandon(j)
          /\ stage' = "finalize" /\ err' = TRUE
          /\ UNCHANGED <<current, beatFailed>>
     ELSE /\ blocked' = TRUE
          /\ ThreadGone
          /\ UNCHANGED record
  /\ UNCHANGED <<runVars, jobVars, slotJob, slotEpoch, leased, child, worker, boundVars>>

EndStatusOfAnyStop(r) == IF status[r] = "CANCEL_REQUESTED" THEN "CANCELLED" ELSE "FAILED"
EndStatus(r) ==
  IF status[r] = "CANCEL_REQUESTED" /\ stopReason[r] \in {"user", "revoked"}
  THEN "CANCELLED" ELSE "FAILED"

Finalize(j) ==
  /\ At(j, {"finalize"}) /\ Owns(j)
  /\ IF j \in RunJobs /\ Unfinished(j)
     THEN Transition(j, EndStatus(j))
     ELSE UNCHANGED status
  /\ jobState' = [jobState EXCEPT ![j] =
       IF jobCancel[j] THEN "CANCELLED"
       ELSE IF err \/ (j \in RunJobs /\ status[j] = "FAILED") THEN "FAILED" ELSE "DONE"]
  /\ slotJob' = NoJob /\ leased' = FALSE
  /\ ThreadGone
  /\ UNCHANGED <<stopReason, bundle, jobEpoch, jobCancel, slotEpoch, blocked, procVars, worker, boundVars>>

-----------------------------------------------------------------------------
LaunchStep(j) ==
  \/ Reserve(j) \/ SpawnFails(j) \/ Register(j) \/ ClearGate(j) \/ OpenGate(j)
  \/ RequestStop(j) \/ Terminate(j) \/ Misread(j) \/ GiveUp(j) \/ ConfirmLate(j)
  \/ Collect(j) \/ RemoveFails(j)

PipelineStep(j) ==
  \/ StageFails(j) \/ BeginModify(j) \/ BeginAfter(j) \/ Verify(j) \/ Seal(j)
  \/ Restricted(j) \/ Succeed(j) \/ WrapUp(j) \/ Finalize(j)

ThreadStep(j) == LaunchStep(j) \/ PipelineStep(j)

RecoverStep ==
  \/ RecoverSkip
  \/ \E j \in Jobs : RecoverConfirmed(j) \/ RecoverUnconfirmed(j) \/ RecoverFinish(j)

WebStep ==
  \/ \E r \in RunJobs : SubmitRun(r) \/ RetryRun(r) \/ CancelQueued(r) \/ CancelActive(r)
  \/ \E p \in PubJobs : EnqueuePublication(p)
  \/ \E a \in Actors : Revoke(a)

Next ==
  \/ WebStep \/ RecoverStep
  \/ HeartbeatFails \/ LeaseExpires
  \/ Crash \/ StopSignal \/ StopDone \/ StartWorker
  \/ \E j \in Jobs : ClaimJob(j) \/ ThreadStep(j) \/ ChildExits(j)

Spec == Init /\ [][Next]_vars

\* The thread, the loop and the restart keep going; a lease nobody renews runs
\* out.  Nothing is assumed of failures, cancellations, or children: the
\* launcher's timeout is what ends a child that does not exit.
LeaseLapses == (worker \in {"down", "recovering"} \/ current = NoJob \/ beatFailed) /\ LeaseExpires

Fairness ==
  /\ WF_vars(\E j \in Jobs : ThreadStep(j))
  /\ WF_vars(\E j \in Jobs : ClaimJob(j))
  /\ WF_vars(RecoverStep) /\ WF_vars(StartWorker) /\ WF_vars(StopDone)
  /\ WF_vars(LeaseLapses)

FairSpec == Spec /\ Fairness

-----------------------------------------------------------------------------
(* What must hold *)

Flags ==
  /\ leased \in BOOLEAN /\ blocked \in BOOLEAN /\ err \in BOOLEAN /\ beatFailed \in BOOLEAN
  /\ jobCancel \in [Jobs -> BOOLEAN]

\* Types, and that the thread, the claimed job and its stage go together.
TypeOK ==
  /\ status \in [RunJobs -> Status] /\ stopReason \in [RunJobs -> StopReason]
  /\ bundle \in [RunJobs -> {"none", "sealed", "linked"}]
  /\ jobState \in [Jobs -> JobState] /\ jobEpoch \in [Jobs -> Nat]
  /\ slotJob \in Jobs \cup {NoJob} /\ slotEpoch \in Nat
  /\ record \in [Jobs -> RecordState] /\ child \in [Jobs -> ChildState]
  /\ worker \in WorkerState
  /\ current \in Jobs \cup {NoJob} /\ stage \in Stage
  /\ restarts \in Nat /\ escapes \in Nat
  /\ Flags
  /\ stage = "idle" <=> current = NoJob

\* The four tables agree, over every claim, finish, revocation, crash and
\* recovery (claim_job, process_claimed, recover_stale, cancel_run): exactly
\* the job in the slot is RUNNING, and under the slot's epoch; a run waits
\* exactly while its job waits; a started run that has not ended is the one in
\* the slot; the thread works on nothing but the job in the slot.
LeaseAgreement ==
  /\ \A j \in Jobs : /\ jobState[j] = "RUNNING" <=> slotJob = j
                     /\ slotJob = j => jobEpoch[j] = slotEpoch
                     /\ jobState[j] \in {"ABSENT", "QUEUED"} => jobEpoch[j] = 0
  /\ \A r \in RunJobs : /\ status[r] = "ABSENT" <=> jobState[r] = "ABSENT"
                        /\ status[r] = "QUEUED" <=> jobState[r] = "QUEUED"
                        /\ status[r] \in Active \cup {"CANCEL_REQUESTED"} => slotJob = r
  /\ current # NoJob => slotJob = current

\* Whatever executes is known to the installation: it belongs to the job in
\* the slot under a record with its process id, or to a run whose container
\* was knowingly given up (launch_process registers before it opens the gate).
NoUnaccountedExecution ==
  \A j \in Jobs : child[j] = "executing" =>
    \/ slotJob = j /\ record[j] \in Launched \cup {"UNKNOWN"}
    \/ j \in RunJobs /\ record[j] = "ABANDONED"

\* A publication with a process whose end is not confirmed keeps the slot, so
\* that nothing else starts while it may still write to the remote repository;
\* it is never abandoned the way a run is (abandon_local_processes).
RemoteWriterHoldsSlot ==
  \A p \in PubJobs : record[p] # "NONE" => slotJob = p /\ record[p] # "ABANDONED"

\* A run has SUCCEEDED only with its bundle linked and nothing of it left,
\* neither a record nor a process (execute_run, transition_run).
SuccessIsProved ==
  \A r \in RunJobs : status[r] = "SUCCEEDED" =>
    bundle[r] = "linked" /\ record[r] = "NONE" /\ child[r] = "none"

\* process_claimed reads job, run and stop reason at different moments, yet a
\* RUN job is DONE only if its run SUCCEEDED, and a run is CANCELLED only if a
\* person or the loss of access stopped it, not a timeout or a lost lease.
OutcomesAgree ==
  \A r \in RunJobs : /\ jobState[r] = "DONE" => status[r] = "SUCCEEDED"
                     /\ status[r] = "CANCELLED" => stopReason[r] \in {"user", "revoked"}

\* A job is claimed once in its life: no crash, restart or recovery hands it
\* out again (recover_stale never requeues).
NeverReplayed ==
  [][\A j \in Jobs : jobEpoch[j] # 0 => jobEpoch'[j] = jobEpoch[j]]_vars

\* Every run that waits is eventually worked on and ends, however often web
\* requests cancel, the heartbeat fails or the worker dies.
EveryRunEnds == \A r \in RunJobs : status[r] = "QUEUED" ~> status[r] \in Terminal

\* A run that was told to stop does end.
StopCompletes == \A r \in RunJobs : status[r] = "CANCEL_REQUESTED" ~> status[r] \in Terminal

-----------------------------------------------------------------------------
(* The abstract specification *)

PhaseOf(s) ==
  IF s \in Active THEN "working"
  ELSE [ABSENT |-> "absent", QUEUED |-> "waiting", CANCEL_REQUESTED |-> "stopping",
        SUCCEEDED |-> "succeeded", FAILED |-> "failed", CANCELLED |-> "cancelled",
        INTERRUPTED |-> "interrupted"][s]

phaseOf == [r \in RunJobs |-> PhaseOf(status[r])]

Serial == INSTANCE SerialExecutor WITH Runs <- RunJobs, phase <- phaseOf

\* Runs are worked on one at a time, each at most once, and one that was told
\* to stop never succeeds: the worker with its leases, crashes and recovery
\* implements SerialExecutor.
ImplementsSerialExecutor == Serial!Spec
=============================================================================
