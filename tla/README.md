# A TLA+ model of AI Debug (`ai-qa`)

AI Debug is a Django application on one administrator's machine.  Managers
describe a problem, an AI turns the conversation into a specification, a worker
lets Codex change a copy of the project in a container and verifies the result,
and an administrator may publish it to GitHub.  All state is in one SQLite
database (every `transaction.atomic()` starts with `BEGIN IMMEDIATE`,
`src/config/settings.py:51-54`); web processes and one worker process share it.
`src/devauto` is an older prototype of the same idea with its own database,
API process and optional worker.

This directory models the part of the program where mistakes are hard to see:
what happens between two transactions, between a file and its row, between two
processes.  The models are written from the code; the documents under `src/docs`
are used only to state what the code is expected to do, where a run looks for a
disagreement.

    cd tla
    tlc -workers 2 -config RunWorker_safety.cfg MCRunWorker
    tlapm RunWorkerProofs.tla

## 1. Inventory

| component | state | operations | who calls it | hard part |
| --- | --- | --- | --- | --- |
| runs (`apps/runs`) | Run, RunEvent, Job, WorkerSlot, ProcessRecord, CheckResult | create, retry, cancel, revoke; claim, heartbeat, recover; launch and stop processes; prepare/modify/verify/seal | views, `process_jobs` worker, `accounts` (revocation) | web, worker thread, heartbeat thread, child processes and a restarted worker change the same rows |
| approvals (`apps/approvals`) | Publication, Approval, PublicationPolicy, PublicationAttempt, remote repository | prepare, approve, reject, retry, approve remaining, abandon, reconcile, configure; three jobs | views, worker, `accounts` | remote writes whose outcome is unknown; approvals withdrawn under a running job |
| work_requests | WorkRequest with its draft, RequestRevision, RequestSubmission, RevisionSuggestion | draft, save, refresh, confirm, submit, suggest, apply | views, conversation worker | versions of the draft against late suggestions and new revisions |
| conversations, ai | Conversation, Message, AIInvocation, ModelProfile | start turn, retry, cancel, commit | views, conversation worker | a model call outlives its lease or its owner's access |
| artifacts | ResultBundle, Artifact files, ArtifactPin, ArtifactExpiry, ResultReview | seal, verify, pin, review, expire | pipeline, views, `approvals` | files and rows change in different moments |
| accounts | User, ProjectMembership, LoginAttempt, sessions | create, change, revoke, log in | views | the last administrator; revocation reaches every other component |
| projects | Project, configuration versions | register, configure, resolve input | views, pipeline | configuration changes under queued work |
| operations | backup archives, restore, doctor | backup, restore | commands | a restore that dies, remote facts after a restore |
| config | runtime lock, configuration lock, settings, identity of the directory | start | every process | flock is not converted atomically; the marker is read before the lock is taken |
| integrations/codex | containers, command lines | launch, remove | pipeline, ai | container removal fails after the command ended |
| portal, views, templates | none | one service call each | browser | none |
| devauto (`src/devauto`) | runs, approvals, project settings; a workspace clone per run | prepare, approve, execute with gates, fixes and reviews, QA, publish, cancel; recover stale runs | its own API and CLI | request threads, background tasks and a worker process take up the same run; status is read and written in two steps; agents write files in every round |

How they interact: a view calls one service operation, which is one transaction
and often ends with `enqueue_job`.  The worker claims a job into one of two
slots (CONVERSATION, EXECUTION) with an epoch and a 45 second lease, runs its
handler in a thread, and keeps the lease with a second thread.  Handlers re-read
the database before each effect.  Loss of access (`accounts`) calls
`revoke_actor_work` and `revoke_actor_publications`.  A restarted worker runs
`recover_stale` once and then claims again.

What makes each component correct:

* runs: one run at a time, never twice; nothing executes that the database does
  not know; success only with everything ended; every run ends.
* approvals: no state denies what may be at the remote; a write is repeated only
  after the last one is decided; a withdrawn approval authorizes nothing; one
  live publication and one branch per run.
* work_requests: what is executed is what the owner confirmed.
* conversations, ai: one answer per turn, none after access is lost.
* artifacts: nothing pinned is deleted, no row without its files.
* accounts: there is always an administrator.
* config, operations: processes agree on the configuration, maintenance is alone,
  a restored directory is whole or marked.
* devauto: one thread per run; nothing is published twice or without its consent,
  and nothing an agent wrote without the checks; a run that nobody works on ends.

The hazards, each at its line and with the properties aimed at it, are listed in
`PROJECT.json`.

## 2. Modules

| module | what it is |
| --- | --- |
| `SerialExecutor` | abstract specification: runs are worked on one at a time, started once, and one told to stop does not succeed |
| `RunWorker` | runs, jobs, the EXECUTION slot, the worker and its threads, processes, crash and recovery |
| `MCRunWorker` | small instances of `RunWorker` |
| `RunWorkerProofs` | inductive invariant and theorems about `RunWorker` |
| `Publication` | publications, approvals, their three jobs, and the remote repository |
| `MCPublication` | small instances of `Publication` |
| `PublicationProofs` | inductive invariant and theorems about `Publication` |
| `WorkRequest` | drafts, revisions, submission and retry, suggestions, review of results |
| `MCWorkRequest` | a small instance of `WorkRequest` |
| `WorkRequestProofs` | inductive invariant and theorems about `WorkRequest` |
| `Accounts` | accounts, memberships, and what a change of them revokes |
| `Conversation` | chat turns and validations of models on the CONVERSATION slot; extends `Accounts` |
| `MCConversation` | a small instance of `Conversation` |
| `ConversationProofs` | inductive invariant and theorems about `Conversation` and `Accounts` |
| `Artifacts` | results and attachments: rows, files, pins, expiry |
| `Maintenance` | start of processes, backup and restore; extends `Artifacts` |
| `MCMaintenance` | small instances of `Maintenance` |
| `MaintenanceProofs` | inductive invariant and theorems about `Maintenance` and `Artifacts` |
| `DevautoPipeline` | devauto's runs, their statuses, approvals and threads |
| `MCDevautoPipeline` | small instances of `DevautoPipeline` |
| `DevautoPipelineProofs` | inductive invariant and theorems about `DevautoPipeline` |
| `DevautoWork` | what one devauto run does to files, from plan to publication |
| `MCDevautoWork` | a small instance of `DevautoWork` |
| `DevautoWorkProofs` | theorems about it: what is put out was agreed to and checked |

### RunWorker

| variables | code |
| --- | --- |
| `status`, `stopReason`, `bundle` | `Run.status`, `Run.stop_reason`, the sealed and linked ResultBundle |
| `jobState`, `jobEpoch`, `jobCancel` | `Job.state`, `Job.lease_epoch`, `Job.cancel_requested_at` |
| `slotJob`, `slotEpoch`, `leased`, `blocked` | `WorkerSlot` "EXECUTION": job, epoch, lease not run out, `blocked_reason` |
| `record`, `child` | the job's newest `ProcessRecord`, and the process as the operating system knows it |
| `worker`, `current`, `stage`, `err`, `beatFailed` | the worker process, and the locals of `process_claimed`, `execute_run` and `launch_process` in its thread |

`SubmitRun`, `RetryRun`, `CancelQueued`, `CancelActive`, `Revoke` and
`EnqueuePublication` are the web requests.  `ClaimJob`, `HeartbeatFails`,
`LeaseExpires`, `Crash`, `StopSignal`, `StartWorker` and the `Recover*` actions
are the worker; `Reserve` ... `RemoveFails` are `launch_process` and its way out;
`BeginModify` ... `Succeed` are `execute_run`; `WrapUp` and `Finalize` are the
end of `process_claimed`.

Abstractions.  A lease is a boolean (run out or not), the owner string is
redundant with the epoch, `state_version` is redundant inside IMMEDIATE
transactions.  One launch per stage stands for the sequence of identical
commands of that stage.  Which queued job is the oldest is left open.  A
publication job launches processes and returns or raises as it likes; what it
does is `Publication`.  The process table is believed when it confirms an end;
that it cannot be read is `Misread` and `GiveUp`.  A descendant that leaves every
tracked ancestor and group unseen is out of the model.  An ABANDONED record
without a process id can be confirmed in the model and not in the code: the
model has more behaviours there.  `--once` is a stop signal after a claim.

### Publication

| variables | code |
| --- | --- |
| `state`, `pinned`, `reconciled`, `abandoned`, `knownBranch`, `knownPr` | `Publication` and its bundle's pin; what `_remember` stored |
| `evidence` | the newest finished RECONCILE `PublicationAttempt` |
| `approver`, `scope`, `valid`, `rejected` | the newest `Approval`, and whether one was REJECT |
| `samePolicy`, `admins` | the policy version against the snapshot; accounts with the role |
| `jobs`, `working`, `attempted`, `stage` and the locals | publication jobs, the one in the slot, where its handler stands |
| `branch`, `pr`, `outstanding`, `landed` | the remote repository, requests that are sent and not decided, and those that had their effect |

Every function of `approvals/services.py` that changes state is an action: the
web requests by their names, the jobs cut at every transaction and every remote
call (`_execute_job` is `StartExecute` ... `HandleFailure`, `_reconcile_job` is
`StartReconcile` ... `ReconcileFails`).  `LoseHandler` and `Recover` are a dying
worker and `recover_stale`, `MarkInterrupted` and `Finish` the end of
`process_claimed`.

Abstractions.  Whatever `_conditions` checks beside actor and policy, the base
branch, and each remote command may fail at any check.  One observation is one
atomic read of the remote.  A request is decided once all processes of its job
are gone (that they are gone is `RunWorker`'s business); a write that lands even
later is not modelled, and the code has no means against it.  Who asked for a
prepare or reconcile job is left open: losing an account may cancel any subset
of those queued.  A publication that was changed since the handler read it is
`fresh = FALSE`.  A repeated idempotency key changes nothing.  Others may delete
or move the branch, close the request or mark it ready (`Foreign`).

### WorkRequest

| variables | code |
| --- | --- |
| `state`, `version`, `draft`, `ready` | `WorkRequest.state`, `draft_version`, `draft`, `ready_revision` |
| `revisions`, `primary` | `RequestRevision` by number, `RequestSubmission.primary_run` |
| `runs` | `Run` by creation, with the `ResultReview` of its bundle |
| `suggestions` | `RevisionSuggestion` with its invocation |
| `basis` | the project's configuration version and base commit |
| `tab` | the page a browser tab shows (`views._context`) |

Every function of `work_requests/services.py` that changes state, `retry_run`,
and `decide_result` of `artifacts/reviews.py` are actions.  A page is loaded at some
time and used at any later one, so one tab stands for any number of them: after
its own save it is as stale as another.  A run waits, works and ends; what happens to it then is `RunWorker`.  The model
call behind a suggestion answers at any time or never.

Abstractions.  The fields and attachments of a draft are one value, a draft that
is not complete enough to be confirmed is a refusal, which is no step.
Idempotency keys are left out: a repeated key, a second confirmation of a
version and a second submission of a revision change nothing.  `seen` in a
revision and `accepted` in a run are history: the page that was confirmed, and
what was newest when the owner accepted the result.  A queued run whose project
has moved is refused when it starts, which is the guard of `RunStarts`; no
property repeats it.

### Accounts, Conversation

| variables | code |
| --- | --- |
| `user`, `member` | `User` (role, activity, forced password change, `authz_version`), `ProjectMembership` |
| `archived`, `profile` | `Project.state`, `ModelProfile.validation_status` |
| `request`, `state` | `AIInvocation`: what was asked by whom, and its state |
| `job`, `stop` | `Job.state`, `Job.cancel_requested_at` |
| `answers` | calls that have an ASSISTANT message |
| `slot`, `leased` | `WorkerSlot` "CONVERSATION" and whether its lease runs |
| `pc`, `out` | the handler: where `process_claimed` and `process_job` are, and the outcome so far |

`Conversation` extends `Accounts`: an account changes between any two steps of a
call, and `Change` is the whole transaction of `change_account`,
`set_membership` or `reset_password`, including what `revoke_actor_work` does
to jobs.  An administrator decides from a page read before (`v`, the version).
The handler is cut where a transaction ends: `Start`, `Prepare`, `AskModel`,
`Commit` (answer and outcome in one transaction), `Refuse` (the except branch),
`Close` and `Release`; `LeaseLapses`, `Crash` and `Restart` come between.

Abstractions.  Calls are numbered in the order of their jobs.  Whatever else may
fail before the call of the container (sandbox check, attachments, workspace) is
the choice to refuse.  A restart that comes before the lease is over passes the
slot by, as the code does; it is the same question as finding (a).  Clarification
jobs are in `WorkRequest`.  Login throttling and sessions are left out.

### Artifacts, Maintenance

| variables | code |
| --- | --- |
| `row`, `due`, `bundle`, `corrupt`, `pins`, `over` | `Artifact`, its `expires_at`, `ResultBundle`, `corruption_reason`, `ArtifactPin`, whether the run is terminal |
| `file` | which files are there |
| `tx`, `view` | a transaction that has touched a file and will commit; a verification between a row and its file |
| `pc`, `dir`, `hash` | a process that starts: where it is, on which directory, its `config_hash` |
| `written` | the hash in `configuration.lock` |
| `op`, `backup`, `target` | where `backup_local` or `restore_local` is; the backup; the directory restored to |

`Artifacts` cuts sealing, uploads and expiry between the effect on the file and
the commit, in the order of the code (files first when storing, unlink first
when expiring).  `Maintenance` extends it: data change only while a process runs
on the source, so `Die` may come between file and commit.  Starting is `Load`
(marker and settings), `Identify`, `Lock`, `LockConfig`, `WriteHash`, `GiveUp`
and `Share` (flock gives up one lock before it waits for the other), `Compare`.
A restore has one action for each kind of file, in the order of the manifest,
and may be abandoned at every step.

Abstractions.  A bundle has one item that publications need and one redacted
log.  `configuration.lock` of the target is left out.  Contents of files are
present or not; a checksum that does not match is an abandoned command.

### DevautoPipeline

| variables | code |
| --- | --- |
| `status`, `approved`, `risky` | `runs.status`, the approvals table, `change_class` |
| `published`, `pushed` | how often the Publisher acted for a run; the runs it began to push or to deploy |
| `config` | the project's `publish.mode`, `require_qa_approval` and `require_human_approval` |
| `exposed` | history: the runs that a save overtook on their way to the Publisher |
| `call` | each thread: its run, where it is in the pipeline, which exceptions it turns into `fail_run`, its fix counters |

`try_transition_run` is one step, `transition_run` is two (`Move` and `Write`),
as in `core/db.py`.  Requests, background tasks and the worker process are
threads; every step of the pipeline may also end in cancellation, escalation or
an exception.  Which exceptions become `fail_run` depends on who called:
a publish or QA approval that raises a ValueError leaves the run PUBLISHING
(`Raises`).  `SaveProject` is `upsert_project`: it replaces the whole
configuration, the publish mode included, between any two steps, and each step
that needs it reads it again.  `exposed` has the runs that had been let through to
the Publisher (`Released`) when a save turned a mode without approvals into
`push_branch` or `deploy_command`.  What the steps do to files is `DevautoWork`.

### DevautoWork

| variables | code |
| --- | --- |
| `ws` | the workspace: the paths that differ from the clone; those agents wrote since the gates passed and since every role asked said pass; those reviewers wrote since the gates passed |
| `plan`, `class`, `text`, `grant` | the plan's Candidate Files, `change_class`, what the title says, `02-execution-grant.json` |
| `consent`, `source`, `tries`, `rejections`, `out` | approvals, the source repository, the fix counters, rejected plans, what was put out |

One run goes on alone through the same steps.  Agents and reviewers write any set
of paths and gate commands any of `GateWrites`, also files that have changed
before; the actions are the checks of the code in their order.  The project may
be saved at any time: each step that reads it finds some member of `Configs`.

Limits.  Agents do not commit (they are told not to; what they stage is committed
with the rest), a path is written or not.  What gates write themselves counts as neither checked nor unchecked: a
formatter that runs as a gate changes files after an earlier gate.  What
reviewers read is not modelled: they get the first 12000 characters
(`reviewer.py:110`) of a diff taken before the gates (`pipeline.py:373`,
`:805-809`), which leaves staged files out.  `PublishedWasChecked` therefore says
that every role asked said pass after the executor's last write, and nothing of
what it saw.

## 3. Runs

| run | instance | question | distinct states |
| --- | --- | --- | --- |
| `run_safety` | one run, one publication, two crashes, two failed observations | do the tables agree, does nothing execute unaccounted for, is nothing replayed | 130 thousand |
| `run_live` | two runs of one request, failing heartbeats, one restart after the lease | refinement of `SerialExecutor`; does whatever waits or is told to stop end | 100 thousand |
| `publication_one` | one publication with pull request, two administrators, outsiders | honesty of states, no blind repeat, no revival, does every approval settle | 320 thousand |
| `publication_two` | two publications of one run | one live target, one owner of the branch | 670 thousand |
| `publication_rejected` | one publication | finding 1 | counterexample |
| `work_request` | one tab, two texts, three versions, two bases, two runs, two suggestions | is what is executed what was confirmed, is what is approved what was accepted, does anything overwrite an edit | 3.6 million |
| `devauto_api` | two runs, two request threads, one save that changes mode and approvals, no fixes, no deaths | one thread per run, no publication twice or without consent, no push of a run that was not let through for it | 2.7 million |
| `devauto_worker` | one run, two request threads and the worker, one fix of each kind, one death | does a run in progress end | 280 thousand |
| `devauto_files` | three paths, plans of two entries, two publish settings, one fix of each kind, one move of the source, one rejected plan | does what the executor wrote go out only after gates and review, and as agreed to | 990 thousand |
| `conversation` | two accounts, one project, two calls, one crash | is an administrator left, does work end with access, answers and successes | 730 thousand |
| `storage` | one result, one log, one attachment, two processes, two configurations, three starts, one backup and its restores | files and rows, one configuration, restored or marked | 3.6 million |
| `restore_start` | one process | finding 2 | counterexample |

Bounds.  In `RunWorker`, `MaxRestarts` (crashes and stop signals) and
`MaxEscapes` (failed observations) are the only bounds.  Two crashes allow a
crash while the work of an earlier crash is recovered, or after it was; two
failed observations allow both ways out of `confirm_stopped` in one life.  One
run and one publication are enough to let the slot change hands between the
kinds, two runs for the retry of the same request and for two runs competing.
`Publication` has no bound: its state is finite, jobs are created again and
again and every interleaving is explored.  Two administrators are needed for an
approval by one and the loss of role of the other; two publications are what the
branch name and the unique constraint are about, a third adds no new kind of
conflict.

`WorkRequest` bounds versions, runs and suggestions, which the code only counts
up.  Three versions allow a confirmation, an edit, and a request for rework after
it; two runs a retry of a submitted revision, or a second submission; the first
suggestion is made with the draft, the second on request, and each may be late.

`Conversation`: `MaxVersion = 1` gives each account one change (and a forced
password change its answer only when it was not yet changed); two accounts
who change each other, one with a page that is out of date, is the conflict that
`AdminRemains` is about.  Two calls are a turn and its retry, or a turn and a
validation.  The proofs remove these bounds.  `Maintenance`: three starts allow
two processes to start together and a third to come after a backup; one bundle
and one attachment are the two kinds of files that a restore copies before and
after the database.  The proofs remove these bounds too.

`DevautoPipeline`: two runs are what "another run is active" is about, two
threads what a claim is about; one save falls between any two steps, and the two
settings differ in the mode (`local_branch`, which releases a run without a
question, and `push_branch`) and in both approvals.  Fixes and deaths are in
`devauto_worker`, which has one run; the proofs have all of them together.
`DevautoWork`: one fix of each kind gives the orders gate-review, review-gate and
gate-gate over two rounds; the three paths are an ordinary, a high-risk and a
forbidden one, a plan may name the first two or their directory, and gates may
rewrite both.

Symmetry is used only in runs without liveness: texts, accounts, processes and
configurations, request threads may be exchanged.

Types.  `TypeOK` of `DevautoPipeline`, `Conversation`, `Artifacts` and
`Maintenance` is in no run:
it is a conjunct of the inductive invariants of section 4 and proved for every
instance.

Fairness.  `RunWorker`: weak fairness of the thread, of claiming, of recovery,
of starting the worker, of the end of a stop, and of the lapse of a lease that
nobody renews (time passes).  Nothing is assumed of failures, cancellations or
child processes: the launcher's timeout ends a child, which is a step of the
thread.  `Publication`: strong fairness of claiming each job (the queue is first
in, first out), weak fairness of the handler, of recovery, and of the decision
of a request that was sent (the transport has timeouts and the process is ended).
`DevautoPipeline`: weak fairness of a thread that is inside a call, strong
fairness of the worker's recovery of each stale run, which it looks for in every
round of its loop when started with `--recover-stale-minutes`.

Liveness of runs is checked with `HastyRestart = FALSE`, `MaxEscapes = 0` and no
publication, because findings (a) and (b) break it otherwise, and because a
publication whose processes cannot be confirmed gone blocks the slot by design.
Liveness of `devauto` needs the worker process: without it a run whose process
died stays in progress, which the code leaves to the operator.

## 4. Proofs

Seven modules hold theorems; each states, for every value of the constants that
meets the named assumptions, what the corresponding run checks on its instance.

`RunWorkerProofs` proves, for any sets of jobs, accounts and requests and any
bounds, all safety properties that `run_safety` checks, and the refinement of
`SerialExecutor`.  The assumptions are `JobAssumption` and `BoundAssumption`.
None of the safety properties is inductive: for instance, that a run which
SUCCEEDED has no process left depends on the stage at which the thread found no
open record, and that the thread's record is the slot's on the epochs.  `IInv`
is the strengthening: `TypeOK`, `LeaseAgreement`, how stage and status go
together, how record and child go together, what a recovering worker may find,
and the safety properties themselves.  `IInvariant` shows it inductive, one step
per action, with lemmas for the actions that share a shape (the steps of the
thread, of recovery, of a web request).  The action property and the refinement
follow from `IInv` step by step.

`PublicationProofs` proves, for any publications, runs, administrators and
bounds, with or without others who write at the remote, every safety property
that `publication_one` and `publication_two` check, from the named assumptions
of `Publication`.  `IInv` joins the six invariants with what they need:

- which jobs a publication can have (`JobsFit`) and which state goes with which
  stage of the execute handler (`Executing`); with them `ApprovalHasJob` and
  `AbandonedIsOver` are kept by the decisions, by `configure_policy`, by
  `revoke_actor_publications` and by `mark_job_interrupted`;
- what the handlers know of the remote: a write that is not decided is the one
  of the handler that sent it (`InFlight`), what it is about to send is not
  there yet (`Aiming`), what bears a publication's mark was landed by it
  (`OursLanded`), what was verified has landed (`Seen`), and what reconciling has
  stored is what it saw (`Reconciling`).  `PublishedIsTrue` and `NoBlindRepeat`
  follow;
- that whatever is at the remote is stored, or the state says that it may be, or
  the handler still knows (`Noticed`): this is why `NothingHidden` survives a job
  that raises, is lost or is recovered in any step;
- that while a publication is executed no other of its run is live (`Alone`) and
  that while a branch is of one publication no other can come to approval for it
  (`Owned`, with `Proposing`, `PartialSeen` and `SeenLive`): from these
  `OneLiveTarget` and `BranchHasOneOwner`.

Each part has a lemma with a step per action; `SendsKnowing` and `RevivesNothing`
carry the two action properties.

`WorkRequestProofs` proves, for any texts, tabs and bounds, all properties that
`work_request` checks, from `WorkRequestAssumption`.  Its invariant says that a
version names one text: a page, a suggestion or a revision with the version of
the draft carries the draft's text (`PageOfVersion`, `SourceOfVersion`,
`Versioned`).  `ConfirmedAsSeen`, the source of a suggestion and the text of a
rework follow from it and the version checks of the code; the bounds of the
model play no part, since a revision's number never passes its version.
`Submissions` (a revision's submission and its runs point at each other) gives
`SubmittedOnce`, and `Marked` (a result that waits was accepted as the newest of
its version) the approval of what was accepted.

`ConversationProofs` proves the three properties of `conversation` for any
accounts, projects, changes, calls and crashes, from the assumptions of
`Accounts` and `CallAssumption`.  `AdminRemains` is inductive with the types: a
change that ends an administrator finds another one in the same UPDATE.
`LiveWorkHasAccess` rests on one lemma, `LossIsRevoked`: whichever change takes
the access of an account to a project revokes its work in that project; no other
change takes access.  `AnsweredIffSucceeded` needs `InHand` (the running job is
the slot's) and `JobHeld` (until its commit, the call of the handler has not
succeeded), so that what is written late never meets a success.

`MaintenanceProofs` proves the three properties of `storage` for any bundles,
attachments, processes, configurations and starts, from `ItemAssumption` and
`StartAssumption`.  `KeptFiles` is not inductive alone, since an expiry unlinks
before it commits: `OpenTx` says what the open transaction has done to files.
`OneConfiguration` needs `Locks`: a writer of the configuration lock is alone,
and whoever runs has the hash that is written.  `RestoredIsWhole` needs
`Progress`: what is in the target at each step of the restore, and that the
marker is there until the last one.

`DevautoWorkProofs` proves the three properties of `devauto_files` for any paths,
policies, plans, reviewers, publish settings and limits, from the five
assumptions of `DevautoWork`.  The bound on the executor's calls in `TypeOK` needs
`Counted`: a call is accounted for by the round and the fix it belongs to.
`PublishedAsAgreed` needs `Granted` (the grant is of the plan at hand, and after
the checks what differs is within it) and `Consented` (a plan with a high-risk
path is of the class that a person has to publish), and `NotYet`, since a run
that starts again with a new plan must not have put anything out.
`PublishedWasChecked` follows from `Checked`: nothing the executor wrote is
unchecked by the gates once they have passed, nor by the review once it let the
run go on, and every fix leads back before the gates.  It has no hypothesis: what
gates and reviewers write takes nothing of it away, and what a reviewer's write
does to the gates' verdict is finding (g).

`DevautoPipelineProofs` proves `TypeOK` and the properties of `devauto_api` for any
runs, threads, limits, deaths and saves of the project with any settings, from the
named assumptions of `DevautoPipeline`.  Its thirty actions have some twenty effects on a run and a
thread; `StepDoes` shows which (`Does`), and the parts of the invariant are kept
effect by effect.

- `TypeCorrect` holds with and without the worker process.  It needs `Unborn` and
  `Room`: nobody works for a run that is not inserted yet, and `create_run` finds
  a row for each insertion it has begun.
- `OneThreadPerRun` needs `Claimed` (a run that somebody works for is in no status
  from which `try_transition_run` claims it) and `Entering` (a RECEIVED run is in
  the hands of the thread that received it, and between its decision to queue the
  run and the write of QUEUED only a cancellation can come).
- `PublishedOnceWithConsent` needs which approvals go with which status and step
  (`PlanKept`, and `RiskAgreed` for what the risk of the change asks, which no save
  takes away), that nobody plans or executes a run while its preview is approved
  (`Previewing`), and that a run which is put out stays out of reach of every claim
  (`OnceOut`).
- `PushedWithApproval` needs `Consented`: whoever is on the way to the Publisher
  has a publish approval, or was let through (`LetThrough`) under settings that ask
  for none and are still such, or is in `exposed`.  A save moves runs from the
  second kind to the third; all that comes after it is decided under the new
  settings.

The last three theorems have `Poller = {}` as their hypothesis, the API process as
it runs alone and as `devauto_api` checks it.  It is needed for `OneThreadPerRun`
and `PublishedOnceWithConsent`: see (h) in section 5.

Model-checked only: the liveness properties (fairness and ENABLED are beyond the
prover).  Every safety property that a passing run checks is a theorem.

## 5. Findings

Two runs show a disagreement between a document and the code:

1. `publication_rejected`: a rejected publication can be reconciled, retried and
   executed (`approvals/services.py:252`, against `docs/approvals/README.md:111`).
2. `restore_start`: a process that looked for the restore marker before the
   restore wrote it starts on the incomplete directory once the restore broke off
   (`config/runtime.py:106`, against `docs/operations/README.md:134`).

The following came up while modelling and stand without a run of their own.  The
modules contain each of these behaviours.

- (a) A worker that restarts before the lease ran out never recovers the run of
  its predecessor (`worker.py:70`, against `docs/runs/README.md:130`).  With
  `HastyRestart = TRUE`, `EveryRunEnds` of `RunWorker` does not hold.
- (b) A process observation that fails once and then succeeds leaves the free
  slot blocked without a job (`processes.py:97`, against
  `docs/runs/README.md:128`).
- (c) The stop signal cancels nothing: the worker finishes the job it has
  (`worker.py:212`, against `docs/operations/README.md:240`).
- (d) A publication that was closed and is reconciled becomes UNKNOWN without its
  pin (`approvals/services.py:509`, against `docs/operations/README.md:246`), so
  that its bundle may expire.
- (e) devauto: `transition_run` asserts on one reading and writes later
  (`core/db.py:264`, `:290`); a cancellation in between is overwritten, for
  instance by ESCALATED, which `ALLOWED_TRANSITIONS` excludes.  TLC finds it in
  nine states.  What `devauto_api` checks holds in spite of it.
- (f) A revocation cancels a QUEUED conversation job and leaves its invocation
  QUEUED (`runs/services.py:233`); it stays so and cannot be retried, while
  `docs/conversations/README.md:62` and `:78` know only ended ones.
- (g) devauto: a reviewer that rewrites a file the executor has changed leaves the
  lines of `git status` as they were (`pipeline.py:447`, against the rule stated at
  `:456`, that no file changes after the gates, and the test at
  `tests/test_pipeline.py:1887`).  The file is put out as no gate has seen it: with
  `UnchangedAfterGates` as an invariant of `DevautoWork_files.cfg` TLC finds it in
  13 states.
- (h) devauto: the worker process takes up every RECEIVED run
  (`runner/worker.py:42`), also one that `prepare_run` of a request is with.  That
  request has seen another active run and is about to write QUEUED
  (`pipeline.py:112`); the other run is cancelled, the worker claims the run, the
  late QUEUED takes it back, and a further thread claims it again.  Two threads
  then work for one run: with two runs, two request threads and the worker TLC
  finds it in 15 states.  From there, with a policy that asks for no approval,
  both reach `publish`: one has moved to READY_TO_PUBLISH while the other is
  PUBLISHING, its write puts the run back, and `published` is 2 after 32 further
  steps.  `OneThreadPerRun` and `PublishedOnceWithConsent` therefore hold only
  without the worker process; no text of the repository speaks of the two
  together.
- (i) devauto: whether a run needs a publish approval is decided when it leaves the
  review or the preview (`pipeline.py:518-523`, `:743-748`); the Publisher reads the
  project again (`:570`) and takes the setting `require_human_approval` for the
  approval itself (`publisher.py:78`).  A run that was let through under
  `local_branch` is therefore pushed without an approval once the project was saved
  with `push_branch`, against `publisher.py:82`, `core/doctor.py:193` and the test at
  `tests/test_pipeline.py:1987`.  With `PushOnlyAfterApproval` as an invariant of
  `DevautoPipeline_api.cfg` TLC finds it in 22 states; `PushedWithApproval` shows
  that without the worker process it is the only way.

Observations that contradict no text: devauto does not look for forbidden paths
again after the gates; a plan without candidate files restricts nothing; a
directory in a plan hides the high-risk paths below it from `classify_change`;
the source repository is compared with a snapshot taken at the approval of the
plan and not at its making; two RECEIVED runs make each other wait
(`devauto/runner/worker.py:47-49`).  A verification outside a transaction that
races an expiry marks the bundle corrupted; a process that dies between the
unlink and its commit leaves a row whose file is gone, so that the next expiry
and the next backup fail.  Two retries of one response with different keys give
two answers.  A model profile stays QUEUED when the job of its validation is
cancelled.

## 6. Plan

Done: `RunWorker`, `SerialExecutor`, `Publication`, `WorkRequest`, `Accounts`,
`Conversation`, `Artifacts`, `Maintenance`, `DevautoPipeline`, `DevautoWork`, and
the proofs about all of them.

Next, in this order:

1. login throttling and sessions, in `Accounts`, with the proofs about
   `Conversation` extended to them;
2. what is left of `PublishedOnceWithConsent` with the worker process: that
   nothing is put out without consent, published twice or not.

## 7. Not modelled

- Registration and configuration policies of projects, `runs/workspace.py`,
  `runs/verification.py`, `codex/permissions.py`, `codex/adapter.py`, tree hashes
  and redaction: computation over paths, git output, schemas and command lines
  of one caller, without state that several actors share.  What they decide is a
  choice in the models (a check fails or not, a configuration has moved or not).
- Views, forms, templates, pages of devauto: one call of an operation each; a
  page that is out of date is `tab` in `WorkRequest` and `v` in `Conversation`.
- The evaluation of models, the sandbox check and the doctors: they read and
  report.
- Login throttling (`accounts/services.py:309`), sessions, names of accounts;
  access rows and check results.
- Whether an external tool (git, GitHub, Docker, Codex) does what it is asked:
  each call may fail, or succeed and report a failure, where the code tells these
  apart.
