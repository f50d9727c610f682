----------------------------- MODULE Publication -----------------------------
(***************************************************************************)
(* Publishing sealed results to a remote repository (apps/approvals:       *)
(* services.py and the order of calls in transport.py): publications and   *)
(* their approvals, the jobs that prepare, execute and reconcile them, the *)
(* one handler that runs at a time, and the remote repository it reads and *)
(* writes.  RunWorker says how the slot is kept and recovered; here a job  *)
(* is claimed, and its handler returns, raises or is lost.                 *)
(*                                                                         *)
(* All publications belong to one project.  Everything _conditions checks  *)
(* beside the actor and the policy (the run, its bundle and checks, the    *)
(* project, the sandbox), the base branch, and each remote command may     *)
(* fail at any moment.  Every transaction.atomic() block is one step.      *)
(***************************************************************************)
EXTENDS Naturals

CONSTANTS
  Pubs,         \* publications, the ones not yet prepared included
  Runs,
  RunOf,        \* RunOf[p] is the run whose result p publishes
  PullRequest,  \* publications whose policy is PUSH_AND_PR, not PUSH
  Admins,       \* the accounts that may be administrators
  Absent,       \* no branch, no pull request
  Foreign,      \* a branch or pull request that somebody else has changed
  NoJob,
  Outsiders     \* TRUE: others may change the branch and the pull request

ASSUME PublicationAssumption ==
  /\ RunOf \in [Pubs -> Runs] /\ PullRequest \subseteq Pubs
  /\ Admins # {} /\ Outsiders \in BOOLEAN
  /\ Absent \notin Pubs /\ Foreign \notin Pubs /\ Absent # Foreign

Kinds == {"prepare", "execute", "reconcile"}
Jobs  == Kinds \X Pubs

ASSUME NoJobAssumption == NoJob \notin Jobs

VARIABLES
  state, pinned, reconciled, abandoned,      \* Publication
  knownBranch, knownPr,                      \*   what _remember has stored
  evidence,                                  \* the last RECONCILE attempt
  approver, scope, valid, rejected,          \* Approval
  samePolicy,                                \* the policy is the snapshot's
  admins,
  jobs, working, attempted,                  \* Job
  stage, write, dispatched, code, seenPr, verdict, found, fresh, \* the handler
  branch, pr, outstanding, landed            \* the remote repository

pubVars     == <<state, pinned, reconciled, abandoned>>
knownVars   == <<knownBranch, knownPr>>
grantVars   == <<approver, scope, valid, rejected>>
policyVars  == <<samePolicy, admins>>
localVars   == <<write, dispatched, code, seenPr, verdict, found, fresh>>
remoteVars  == <<branch, pr, outstanding, landed>>
vars == <<pubVars, knownVars, evidence, grantVars, policyVars, jobs, working, attempted,
          stage, localVars, remoteVars>>

-----------------------------------------------------------------------------
(* States *)

\* States under the unique constraint publication_one_live_target_per_run.
Live   == {"PENDING_APPROVAL", "APPROVED", "PUBLISHING", "PUBLISHED", "FAILED", "UNKNOWN", "PARTIAL"}
Closed == {"PUBLISHED", "REJECTED", "INVALIDATED"}
State  == {"ABSENT"} \cup Live \cup Closed

Evidence == {"none", "moved", "absent", "present"}
Grants   == {"FULL", "REMAINING_PR"}
Writes   == {"push", "pr"}

\* Stages of the handler; the first group is inside the try of _execute_job.
Trying  == {"begin", "look", "dispatch", "check", "authorize", "send", "sent", "confirm",
            "renew", "lookAgain", "final", "publish"}
Looking == {"look", "confirm", "lookAgain", "final"}
Stage   == Trying \cup {"idle", "start", "except", "create", "observe", "assess", "settle",
                        "done", "failed", "marked", "lost"}

Init ==
  /\ state = [p \in Pubs |-> "ABSENT"]
  /\ pinned = [p \in Pubs |-> FALSE]
  /\ reconciled = [p \in Pubs |-> FALSE]
  /\ abandoned = [p \in Pubs |-> FALSE]
  /\ knownBranch = [p \in Pubs |-> Absent]
  /\ knownPr = [p \in Pubs |-> FALSE]
  /\ evidence = [p \in Pubs |-> "none"]
  /\ approver = [p \in Pubs |-> CHOOSE a \in Admins : TRUE]
  /\ scope = [p \in Pubs |-> "none"]
  /\ valid = [p \in Pubs |-> FALSE]
  /\ rejected = [p \in Pubs |-> FALSE]
  /\ samePolicy = [p \in Pubs |-> TRUE]
  /\ admins = Admins
  /\ jobs = {} /\ working = NoJob /\ attempted = FALSE
  /\ stage = "idle"
  /\ write = "push" /\ dispatched = FALSE /\ code = "known" /\ seenPr = FALSE
  /\ verdict = "UNKNOWN" /\ found = "none" /\ fresh = FALSE
  /\ branch = [r \in Runs |-> Absent]
  /\ pr = [r \in Runs |-> Absent]
  /\ outstanding = {} /\ landed = {}

-----------------------------------------------------------------------------
(* Shared by the web requests and the handlers *)

Others(p) == {q \in Pubs \ {p} : RunOf[q] = RunOf[p]}

UniqueUnasked(p, s) == TRUE
\* The unique constraint lets p take state s.
Unique(p, s) == s \in Live /\ ~abandoned[p] => \A q \in Others(p) : state[q] \notin Live \/ abandoned[q]

Effects(p) == knownBranch[p] # Absent \/ knownPr[p]

\* _invalidate: what becomes of a publication whose approval is void.
VoidState(p) ==
  IF state[p] = "UNKNOWN" THEN "UNKNOWN" ELSE IF Effects(p) THEN "PARTIAL" ELSE "INVALIDATED"

\* _invalidate for every publication of S at once.
InvalidateAll(S) ==
  /\ state' = [p \in Pubs |-> IF p \in S THEN VoidState(p) ELSE state[p]]
  /\ pinned' = [p \in Pubs |-> pinned[p] /\ ~(p \in S /\ VoidState(p) = "INVALIDATED")]

Void(S) == valid' = [p \in Pubs |-> valid[p] /\ p \notin S]

\* _current_approval, as far as this module knows.
CurrentApproval(p) ==
  /\ state[p] \in {"APPROVED", "PUBLISHING", "PARTIAL", "UNKNOWN", "PUBLISHED"} /\ ~abandoned[p]
  /\ valid[p] /\ scope[p] \in Grants
  /\ approver[p] \in admins /\ samePolicy[p]

Queued == jobs \ {working}
NoLiveExecution(p) == <<"execute", p>> \notin jobs
NoLiveJobs(p) == <<"execute", p>> \notin jobs /\ <<"reconcile", p>> \notin jobs

Enqueue(k, p) == jobs' = jobs \cup {<<k, p>>}

\* The handler holds an older version of a publication of S in memory.
Outdates(S) == fresh' = (fresh /\ working \notin {"execute", "reconcile"} \X S)

handlerVars == <<working, attempted, stage, localVars>>

-----------------------------------------------------------------------------
(* Web requests *)

\* prepare_publication; a second request may be made while the first waits.
PreparePublication(p) ==
  /\ state[p] = "ABSENT" /\ <<"prepare", p>> \notin jobs
  /\ \A q \in Others(p) : /\ state[q] \in {"ABSENT", "INVALIDATED", "REJECTED"} \/ abandoned[q]
                          /\ knownBranch[q] = Absent
  /\ Enqueue("prepare", p)
  /\ UNCHANGED <<pubVars, knownVars, evidence, grantVars, policyVars, handlerVars, remoteVars>>

Grant(p, a, s) ==
  /\ approver' = [approver EXCEPT ![p] = a]
  /\ scope' = [scope EXCEPT ![p] = s]
  /\ valid' = [valid EXCEPT ![p] = TRUE]

\* decide_publication
Approve(p, a) ==
  /\ state[p] = "PENDING_APPROVAL" /\ a \in admins /\ samePolicy[p]
  /\ state' = [state EXCEPT ![p] = "APPROVED"]
  /\ Grant(p, a, "FULL")
  /\ Enqueue("execute", p)
  /\ UNCHANGED <<pinned, reconciled, abandoned, knownVars, evidence, rejected, policyVars, handlerVars, remoteVars>>

Reject(p, a) ==
  /\ state[p] = "PENDING_APPROVAL" /\ a \in admins
  /\ state' = [state EXCEPT ![p] = "REJECTED"]
  /\ pinned' = [pinned EXCEPT ![p] = FALSE]
  /\ Grant(p, a, "REJECT")
  /\ rejected' = [rejected EXCEPT ![p] = TRUE]
  /\ UNCHANGED <<reconciled, abandoned, knownVars, evidence, policyVars, jobs, handlerVars, remoteVars>>

ReconcilePublication(p) ==
  /\ state[p] \notin {"ABSENT", "PENDING_APPROVAL", "APPROVED", "PUBLISHING"} /\ ~abandoned[p]
  /\ NoLiveJobs(p)
  /\ Enqueue("reconcile", p)
  /\ UNCHANGED <<pubVars, knownVars, evidence, grantVars, policyVars, handlerVars, remoteVars>>

\* _approve_recovery
Recovery(p, a, from, needed, s) ==
  /\ a \in admins /\ samePolicy[p]
  /\ NoLiveJobs(p)
  /\ state[p] = from /\ reconciled[p] /\ ~abandoned[p]
  /\ evidence[p] = needed
  /\ state' = [state EXCEPT ![p] = "APPROVED"]
  /\ Grant(p, a, s)
  /\ Enqueue("execute", p)
  /\ UNCHANGED <<pinned, reconciled, abandoned, knownVars, evidence, rejected, policyVars, handlerVars, remoteVars>>

RetryPublication(p, a) == Recovery(p, a, "FAILED", "absent", "FULL")

ApproveRemaining(p, a) ==
  /\ p \in PullRequest /\ knownBranch[p] = p /\ ~knownPr[p]
  /\ Recovery(p, a, "PARTIAL", "present", "REMAINING_PR")

AbandonRemaining(p) ==
  /\ NoLiveJobs(p)
  /\ state[p] \in {"PARTIAL", "FAILED", "INVALIDATED"} /\ reconciled[p] /\ ~abandoned[p]
  /\ abandoned' = [abandoned EXCEPT ![p] = TRUE]
  /\ pinned' = [pinned EXCEPT ![p] = FALSE]
  /\ Void({p})
  /\ UNCHANGED <<state, reconciled, knownVars, evidence, approver, scope, rejected, policyVars, jobs, handlerVars, remoteVars>>

PolicyFree == jobs \cap ({"prepare", "execute"} \X Pubs) = {}
Waiting    == {p \in Pubs : state[p] \notin {"ABSENT"} \cup Closed /\ ~abandoned[p]}

\* The new version differs from every snapshot made before.
ConfigurePolicy ==
  /\ PolicyFree
  /\ samePolicy' = [p \in Pubs |-> state[p] = "ABSENT"]
  /\ InvalidateAll(Waiting) /\ Void(Waiting) /\ Outdates(Waiting)
  /\ UNCHANGED <<reconciled, abandoned, knownVars, evidence, approver, scope, rejected, admins,
                 jobs, working, attempted, stage, write, dispatched, code, seenPr, verdict, found, remoteVars>>

\* revoke_actor_publications, and revoke_actor_work unless the account only
\* loses its role; jobs that are not approvals may be this account's or not.
Granted(a) == {p \in Pubs : valid[p] /\ scope[p] \in Grants /\ approver[p] = a}

Revoke(a) ==
  LET hit    == {p \in Granted(a) : state[p] \notin Closed}
      doubt  == {p \in hit : state[p] \in {"PUBLISHING", "UNKNOWN"}}
  IN
  /\ a \in admins /\ admins # {a}
  /\ admins' = admins \ {a}
  /\ Void(Granted(a)) /\ Outdates(hit)
  /\ state' = [p \in Pubs |-> IF p \in doubt THEN "UNKNOWN"
                              ELSE IF p \in hit THEN VoidState(p) ELSE state[p]]
  /\ reconciled' = [p \in Pubs |-> reconciled[p] /\ p \notin doubt]
  /\ pinned' = [p \in Pubs |-> pinned[p] /\ ~(p \in hit \ doubt /\ VoidState(p) = "INVALIDATED")]
  /\ \E executions \in {{}, {<<"execute", p>> : p \in {q \in Pubs : approver[q] = a}}},
        rest \in SUBSET (Queued \cap ({"prepare", "reconcile"} \X Pubs)) :
       jobs' = jobs \ (rest \cup (executions \ {working}))
  /\ UNCHANGED <<abandoned, knownVars, evidence, approver, scope, rejected, samePolicy,
                 working, attempted, stage, write, dispatched, code, seenPr, verdict, found, remoteVars>>

RegainRevives(a) ==
  /\ a \in Admins \ admins
  /\ admins' = admins \cup {a}
  /\ valid' = [p \in Pubs |-> valid[p] \/ (scope[p] \in Grants /\ approver[p] = a)]
  /\ UNCHANGED <<pubVars, knownVars, evidence, approver, scope, rejected, samePolicy, jobs, handlerVars, remoteVars>>

Regain(a) ==
  /\ a \in Admins \ admins
  /\ admins' = admins \cup {a}
  /\ UNCHANGED <<pubVars, knownVars, evidence, grantVars, samePolicy, jobs, handlerVars, remoteVars>>

-----------------------------------------------------------------------------
(* The handler: claiming, and what all handlers share *)

At(k, p, S) == working = <<k, p>> /\ stage \in S

keepDb     == <<pubVars, evidence, grantVars, policyVars, jobs, working>>
keepLocals == <<write, dispatched, code, seenPr, verdict, found, fresh>>

GoTo(s) == stage' = s

NoLocals ==
  /\ write' = "push" /\ dispatched' = FALSE /\ code' = "known" /\ seenPr' = FALSE
  /\ verdict' = "UNKNOWN" /\ found' = "none" /\ fresh' = FALSE

\* claim_job takes the oldest queued job; any queued job may be the oldest.
ClaimJob(j) ==
  /\ working = NoJob /\ j \in jobs
  /\ working' = j /\ attempted' = FALSE
  /\ GoTo("start")
  /\ NoLocals
  /\ UNCHANGED <<pubVars, knownVars, evidence, grantVars, policyVars, jobs, remoteVars>>

\* transport.observe and _remember: what the remote shows now is stored, and
\* nothing stored before is erased.
Remember(p) ==
  /\ knownBranch' = [knownBranch EXCEPT ![p] =
       IF branch[RunOf[p]] # Absent THEN branch[RunOf[p]] ELSE @]
  /\ knownPr' = [knownPr EXCEPT ![p] = @ \/ pr[RunOf[p]] # Absent]

\* _check_observation; the base branch may have moved at any time.
AsApproved(p) == branch[RunOf[p]] \in {Absent, p} /\ pr[RunOf[p]] \in {Absent, p}
Pushed(p)     == branch[RunOf[p]] = p
PrExists(p)   == pr[RunOf[p]] # Absent

\* Everything the approval is about, by the mode of its policy.
CompleteOncePushed(p) == Pushed(p)
Complete(p)           == Pushed(p) /\ (p \in PullRequest => PrExists(p))

\* No process of the job is left, and with it no request that is not decided
\* (process_claimed and recover_stale ask before they go on).
ProcessesForgotten == TRUE
ProcessesGone      == outstanding = {}

\* Anything before the job does its work, such as a full disk.
StartFails(k, p) ==
  /\ At(k, p, {"start"})
  /\ GoTo("failed")
  /\ UNCHANGED <<keepDb, knownVars, attempted, keepLocals, remoteVars>>

-----------------------------------------------------------------------------
(* _prepare_job *)

AssembleOnly(p) ==
  /\ At("prepare", p, {"start"})
  /\ GoTo("create")
  /\ UNCHANGED <<keepDb, knownVars, attempted, keepLocals, remoteVars>>

\* The commit is assembled and nothing of this branch is at the remote.
LookBeforeCreate(p) ==
  /\ At("prepare", p, {"start"})
  /\ branch[RunOf[p]] = Absent /\ pr[RunOf[p]] = Absent
  /\ GoTo("create")
  /\ UNCHANGED <<keepDb, knownVars, attempted, keepLocals, remoteVars>>

\* The row is created, unless another live one of the run is there.
CreatePublication(p) ==
  /\ At("prepare", p, {"create"})
  /\ Unique(p, "PENDING_APPROVAL")
  /\ state' = [state EXCEPT ![p] = "PENDING_APPROVAL"]
  /\ pinned' = [pinned EXCEPT ![p] = TRUE]
  /\ samePolicy' = [samePolicy EXCEPT ![p] = TRUE]
  /\ GoTo("done")
  /\ UNCHANGED <<reconciled, abandoned, knownVars, evidence, grantVars, admins, jobs, working,
                 attempted, keepLocals, remoteVars>>

CreateFails(p) ==
  /\ At("prepare", p, {"create"})
  /\ GoTo("failed")
  /\ UNCHANGED <<keepDb, knownVars, attempted, keepLocals, remoteVars>>

-----------------------------------------------------------------------------
(* _execute_job *)

StartExecute(p) ==
  /\ At("execute", p, {"start"})
  /\ GoTo(IF state[p] = "APPROVED" THEN "begin" ELSE "failed")
  /\ UNCHANGED <<keepDb, knownVars, attempted, keepLocals, remoteVars>>

BeginPublishing(p) ==
  /\ At("execute", p, {"begin"}) /\ CurrentApproval(p)
  /\ state' = [state EXCEPT ![p] = "PUBLISHING"]
  /\ reconciled' = [reconciled EXCEPT ![p] = FALSE]
  /\ GoTo("look")
  /\ UNCHANGED <<pinned, abandoned, knownVars, evidence, grantVars, policyVars, jobs, working,
                 attempted, keepLocals, remoteVars>>

\* Every step inside the try may raise; "unknown" is REMOTE_OUTCOME_UNKNOWN,
\* the code of timeouts and of every exception that is no DomainError.
Raise(p) ==
  /\ At("execute", p, Trying)
  /\ GoTo("except") /\ code' \in {"known", "unknown"}
  /\ UNCHANGED <<keepDb, knownVars, attempted, write, dispatched, seenPr, verdict, found, fresh, remoteVars>>

\* The observation is stored first, then a check of it fails.
Confirms(p) ==
  \/ stage = "confirm" /\ Pushed(p)
  \/ stage = "final" /\ Complete(p)

LookAndRaise(p) ==
  /\ At("execute", p, Looking)
  /\ Remember(p)
  /\ dispatched' = (dispatched /\ ~Confirms(p))
  /\ GoTo("except") /\ code' \in {"known", "unknown"}
  /\ UNCHANGED <<keepDb, attempted, write, seenPr, verdict, found, fresh, remoteVars>>

Look(p) ==
  /\ At("execute", p, {"look"}) /\ AsApproved(p)
  /\ scope[p] = "REMAINING_PR" => Pushed(p)
  /\ Remember(p)
  /\ GoTo(IF Pushed(p) THEN "renew" ELSE "dispatch")
  /\ write' = "push" /\ seenPr' = PrExists(p)
  /\ UNCHANGED <<keepDb, attempted, dispatched, code, verdict, found, fresh, remoteVars>>

\* The approval is looked at again and the attempt recorded, in one transaction.
Dispatch(p) ==
  /\ At("execute", p, {"dispatch"}) /\ CurrentApproval(p)
  /\ attempted' = TRUE /\ dispatched' = TRUE
  /\ GoTo("check")
  /\ UNCHANGED <<keepDb, knownVars, write, code, seenPr, verdict, found, fresh, remoteVars>>

\* transport.push and transport.create_pr look once more, without storing.
CheckTarget(p) ==
  /\ At("execute", p, {"check"}) /\ AsApproved(p)
  /\ IF write = "pr" /\ PrExists(p) THEN GoTo("final")
     ELSE Pushed(p) = (write = "pr") /\ GoTo("authorize")
  /\ UNCHANGED <<keepDb, knownVars, attempted, keepLocals, remoteVars>>

\* authorize_transport_write
Authorize(p) ==
  /\ At("execute", p, {"authorize"}) /\ state[p] = "PUBLISHING" /\ CurrentApproval(p)
  /\ GoTo("send")
  /\ UNCHANGED <<keepDb, knownVars, attempted, keepLocals, remoteVars>>

Send(p) ==
  /\ At("execute", p, {"send"})
  /\ outstanding' = outstanding \cup {<<write, p>>}
  /\ GoTo("sent")
  /\ UNCHANGED <<keepDb, knownVars, attempted, keepLocals, branch, pr, landed>>

\* The command succeeds; Raise is its failure, also of one that took effect.
Reply(p) ==
  /\ At("execute", p, {"sent"})
  /\ <<write, p>> \in landed \ outstanding
  /\ GoTo(IF write = "push" THEN "confirm" ELSE "final")
  /\ UNCHANGED <<keepDb, knownVars, attempted, keepLocals, remoteVars>>

ConfirmPush(p) ==
  /\ At("execute", p, {"confirm"}) /\ AsApproved(p) /\ Pushed(p)
  /\ Remember(p)
  /\ dispatched' = FALSE /\ seenPr' = PrExists(p)
  /\ GoTo("renew")
  /\ UNCHANGED <<keepDb, attempted, write, code, verdict, found, fresh, remoteVars>>

Renew(p) ==
  /\ At("execute", p, {"renew"}) /\ CurrentApproval(p)
  /\ GoTo(IF p \in PullRequest /\ ~seenPr THEN "lookAgain" ELSE "final")
  /\ UNCHANGED <<keepDb, knownVars, attempted, keepLocals, remoteVars>>

LookAgain(p) ==
  /\ At("execute", p, {"lookAgain"}) /\ AsApproved(p)
  /\ Remember(p)
  /\ GoTo(IF PrExists(p) THEN "final" ELSE "dispatch")
  /\ write' = "pr"
  /\ UNCHANGED <<keepDb, attempted, dispatched, code, seenPr, verdict, found, fresh, remoteVars>>

LookFinally(p) ==
  /\ At("execute", p, {"final"}) /\ AsApproved(p) /\ Complete(p)
  /\ Remember(p)
  /\ dispatched' = FALSE
  /\ GoTo("publish")
  /\ UNCHANGED <<keepDb, attempted, write, code, seenPr, verdict, found, fresh, remoteVars>>

Publish(p) ==
  /\ At("execute", p, {"publish"}) /\ CurrentApproval(p)
  /\ state' = [state EXCEPT ![p] = "PUBLISHED"]
  /\ pinned' = [pinned EXCEPT ![p] = FALSE]
  /\ GoTo("done")
  /\ UNCHANGED <<reconciled, abandoned, knownVars, evidence, grantVars, policyVars, jobs, working,
                 attempted, keepLocals, remoteVars>>

FailedStateByCode(p) ==
  IF code = "unknown" THEN "UNKNOWN" ELSE IF Effects(p) THEN "PARTIAL" ELSE VoidState(p)

\* The except block: an outcome that may be unknown stays so, and keeps its
\* approval; an observed effect is partial; otherwise nothing happened.
FailedState(p) ==
  IF dispatched \/ code = "unknown" THEN "UNKNOWN" ELSE IF Effects(p) THEN "PARTIAL" ELSE VoidState(p)

HandleFailure(p) ==
  /\ At("execute", p, {"except"})
  /\ state' = [state EXCEPT ![p] = FailedState(p)]
  /\ pinned' = [pinned EXCEPT ![p] = @ /\ FailedState(p) # "INVALIDATED"]
  /\ IF dispatched \/ code = "unknown" THEN UNCHANGED valid ELSE Void({p})
  /\ GoTo("done")
  /\ UNCHANGED <<reconciled, abandoned, knownVars, evidence, approver, scope, rejected, policyVars,
                 jobs, working, attempted, keepLocals, remoteVars>>

-----------------------------------------------------------------------------
(* _reconcile_job *)

StartReconcile(p) ==
  /\ At("reconcile", p, {"start"})
  /\ GoTo("observe") /\ fresh' = TRUE
  /\ UNCHANGED <<keepDb, knownVars, attempted, write, dispatched, code, seenPr, verdict, found, remoteVars>>

\* The base is not part of the check here, it goes into the evidence.
Observe(p) ==
  /\ At("reconcile", p, {"observe"}) /\ AsApproved(p)
  /\ Remember(p)
  /\ found' \in {"moved", IF Pushed(p) THEN "present" ELSE "absent"}
  /\ IF Pushed(p)
     THEN /\ verdict' = "PARTIAL"
          /\ GoTo(IF Complete(p) /\ valid[p] /\ scope[p] \in Grants THEN "assess" ELSE "settle")
     ELSE /\ verdict' = IF PrExists(p) THEN "UNKNOWN" ELSE IF Effects(p) THEN "PARTIAL" ELSE "FAILED"
          /\ GoTo("settle")
  /\ UNCHANGED <<keepDb, attempted, write, dispatched, code, seenPr, fresh, remoteVars>>

\* Everything is there and was approved: still PUBLISHED, if the approval is
\* current.  _current_approval reads the publication again.
Assess(p) ==
  /\ At("reconcile", p, {"assess"})
  /\ fresh' = TRUE
  /\ \/ CurrentApproval(p) /\ found # "moved" /\ verdict' = "PUBLISHED"
     \/ UNCHANGED verdict
  /\ GoTo("settle")
  /\ UNCHANGED <<keepDb, knownVars, attempted, write, dispatched, code, seenPr, found, remoteVars>>

\* _transition refuses a publication that changed since it was read.
Writable(p, s) == fresh /\ Unique(p, s)

Settle(p) ==
  /\ At("reconcile", p, {"settle"}) /\ Writable(p, verdict)
  /\ state' = [state EXCEPT ![p] = verdict]
  /\ reconciled' = [reconciled EXCEPT ![p] = verdict # "UNKNOWN"]
  /\ pinned' = [pinned EXCEPT ![p] = @ /\ verdict # "PUBLISHED"]
  /\ evidence' = [evidence EXCEPT ![p] = found]
  /\ GoTo("done")
  /\ UNCHANGED <<abandoned, knownVars, grantVars, policyVars, jobs, working, attempted, keepLocals, remoteVars>>

\* The except block, which may itself be refused.
Doubt(p) ==
  IF Writable(p, "UNKNOWN")
  THEN /\ state' = [state EXCEPT ![p] = "UNKNOWN"]
       /\ reconciled' = [reconciled EXCEPT ![p] = FALSE]
       /\ evidence' = [evidence EXCEPT ![p] = "none"]
       /\ GoTo("done")
  ELSE UNCHANGED <<state, reconciled, evidence>> /\ GoTo("failed")

ReconcileFails(p) ==
  /\ At("reconcile", p, {"observe", "assess", "settle"})
  /\ stage = "settle" => ~Writable(p, verdict)
  /\ Doubt(p)
  /\ \/ UNCHANGED knownVars
     \/ stage = "observe" /\ Remember(p)
  /\ UNCHANGED <<pinned, abandoned, grantVars, policyVars, jobs, working, attempted, keepLocals, remoteVars>>

-----------------------------------------------------------------------------
(* After the handler: process_claimed and recover_stale *)

InterruptStarted(k, p) ==
  IF k = "prepare" \/ abandoned[p] \/ state[p] \in Closed \cup {"APPROVED"}
  THEN UNCHANGED <<state, reconciled, pinned, valid>>
  ELSE /\ Void({p})
       /\ state' = [state EXCEPT ![p] = "UNKNOWN"]
       /\ reconciled' = [reconciled EXCEPT ![p] = FALSE]
       /\ UNCHANGED pinned

\* mark_job_interrupted
Interrupt(k, p) ==
  IF k = "prepare" \/ abandoned[p] \/ state[p] \in Closed
  THEN UNCHANGED <<state, reconciled, pinned, valid>>
  ELSE /\ Void({p})
       /\ IF state[p] \in {"PUBLISHING", "UNKNOWN"} \/ attempted
          THEN /\ state' = [state EXCEPT ![p] = "UNKNOWN"]
               /\ reconciled' = [reconciled EXCEPT ![p] = FALSE]
               /\ UNCHANGED pinned
          ELSE InvalidateAll({p}) /\ UNCHANGED reconciled

\* The handler raised, or its heartbeat failed.
MarkInterrupted(k, p) ==
  /\ At(k, p, {"failed", "done"}) /\ ProcessesGone
  /\ Interrupt(k, p)
  /\ GoTo("marked")
  /\ UNCHANGED <<abandoned, knownVars, evidence, approver, scope, rejected, policyVars, jobs, working,
                 attempted, keepLocals, remoteVars>>

KeepSlot == jobs' = jobs \ {working} /\ UNCHANGED <<working, attempted>> /\ GoTo("idle") /\ NoLocals
FreeSlot == jobs' = jobs \ {working} /\ working' = NoJob /\ attempted' = FALSE /\ GoTo("idle") /\ NoLocals

Finish(k, p) ==
  /\ At(k, p, {"done", "marked"}) /\ ProcessesGone
  /\ FreeSlot
  /\ UNCHANGED <<pubVars, knownVars, evidence, grantVars, policyVars, remoteVars>>

\* The worker dies, or leaves a process whose end it cannot confirm.
LoseHandler ==
  /\ working # NoJob /\ stage # "lost"
  /\ GoTo("lost")
  /\ UNCHANGED <<keepDb, knownVars, attempted, keepLocals, remoteVars>>

\* recover_stale, once the end of every process is confirmed.
Recover(k, p) ==
  /\ At(k, p, {"lost"}) /\ ProcessesGone
  /\ Interrupt(k, p)
  /\ FreeSlot
  /\ UNCHANGED <<abandoned, knownVars, evidence, approver, scope, rejected, policyVars, remoteVars>>

-----------------------------------------------------------------------------
(* The remote repository *)

\* new_ref_push_args: the ref is created only where there is none.
TakesEffect(w, p) ==
  IF w = "push" THEN branch[RunOf[p]] = Absent
  ELSE branch[RunOf[p]] # Absent /\ pr[RunOf[p]] = Absent

Land(w, p) ==
  /\ <<w, p>> \in outstanding /\ TakesEffect(w, p)
  /\ outstanding' = outstanding \ {<<w, p>>}
  /\ IF w = "push" THEN branch' = [branch EXCEPT ![RunOf[p]] = p] /\ UNCHANGED pr
     ELSE pr' = [pr EXCEPT ![RunOf[p]] = branch[RunOf[p]]] /\ UNCHANGED branch
  /\ landed' = landed \cup {<<w, p>>}
  /\ UNCHANGED <<keepDb, knownVars, attempted, stage, keepLocals>>

\* Refused by the remote, or lost on the way; no process is left to send it.
Vanish(w, p) ==
  /\ <<w, p>> \in outstanding
  /\ outstanding' = outstanding \ {<<w, p>>}
  /\ UNCHANGED <<keepDb, knownVars, attempted, stage, keepLocals, branch, pr, landed>>

\* Somebody deletes or moves the branch, closes the request or marks it ready.
OutsideChange(r) ==
  /\ Outsiders
  /\ \/ branch' \in {[branch EXCEPT ![r] = b] : b \in {Absent, Foreign} \ {branch[r]}} /\ UNCHANGED pr
     \/ pr[r] \in Pubs /\ pr' = [pr EXCEPT ![r] = Foreign] /\ UNCHANGED branch
  /\ UNCHANGED <<keepDb, knownVars, attempted, stage, keepLocals, outstanding, landed>>

-----------------------------------------------------------------------------
WebStep ==
  \/ \E p \in Pubs : \/ PreparePublication(p) \/ ReconcilePublication(p) \/ AbandonRemaining(p)
                     \/ \E a \in Admins : \/ Approve(p, a) \/ Reject(p, a)
                                          \/ RetryPublication(p, a) \/ ApproveRemaining(p, a)
  \/ ConfigurePolicy
  \/ \E a \in Admins : Revoke(a) \/ Regain(a)

ExecuteStep(p) ==
  \/ StartExecute(p) \/ BeginPublishing(p) \/ Raise(p) \/ LookAndRaise(p) \/ Look(p) \/ Dispatch(p)
  \/ CheckTarget(p) \/ Authorize(p) \/ Send(p) \/ Reply(p) \/ ConfirmPush(p) \/ Renew(p)
  \/ LookAgain(p) \/ LookFinally(p) \/ Publish(p) \/ HandleFailure(p)

HandlerStep(p) ==
  \/ LookBeforeCreate(p) \/ CreatePublication(p) \/ CreateFails(p)
  \/ ExecuteStep(p)
  \/ StartReconcile(p) \/ Observe(p) \/ Assess(p) \/ Settle(p) \/ ReconcileFails(p)
  \/ \E k \in Kinds : StartFails(k, p) \/ MarkInterrupted(k, p) \/ Finish(k, p)

RecoverStep == \E k \in Kinds, p \in Pubs : Recover(k, p)
RemoteStep  == \E w \in Writes, p \in Pubs : Land(w, p) \/ Vanish(w, p)

Next ==
  \/ WebStep
  \/ \E j \in Jobs : ClaimJob(j)
  \/ \E p \in Pubs : HandlerStep(p)
  \/ LoseHandler \/ RecoverStep
  \/ RemoteStep
  \/ \E r \in Runs : OutsideChange(r)

Spec == Init /\ [][Next]_vars

\* The worker claims the oldest job first, works on, recovers what it lost,
\* and a request that was sent is decided.
Fairness ==
  /\ \A j \in Jobs : SF_vars(ClaimJob(j))
  /\ WF_vars(\E p \in Pubs : HandlerStep(p))
  /\ WF_vars(RecoverStep) /\ WF_vars(RemoteStep)

FairSpec == Spec /\ Fairness

-----------------------------------------------------------------------------
(* What must hold *)

Flags ==
  /\ pinned \in [Pubs -> BOOLEAN] /\ reconciled \in [Pubs -> BOOLEAN]
  /\ abandoned \in [Pubs -> BOOLEAN] /\ knownPr \in [Pubs -> BOOLEAN]
  /\ valid \in [Pubs -> BOOLEAN] /\ rejected \in [Pubs -> BOOLEAN]
  /\ samePolicy \in [Pubs -> BOOLEAN]
  /\ attempted \in BOOLEAN /\ dispatched \in BOOLEAN /\ seenPr \in BOOLEAN /\ fresh \in BOOLEAN

\* Types, and that a job is worked on exactly while there is a handler.
TypeOK ==
  /\ state \in [Pubs -> State] /\ evidence \in [Pubs -> Evidence]
  /\ knownBranch \in [Pubs -> Pubs \cup {Absent, Foreign}]
  /\ approver \in [Pubs -> Admins] /\ scope \in [Pubs -> Grants \cup {"none", "REJECT"}]
  /\ admins \subseteq Admins /\ jobs \subseteq Jobs /\ working \in jobs \cup {NoJob}
  /\ stage \in Stage /\ write \in Writes /\ code \in {"known", "unknown"}
  /\ verdict \in State /\ found \in Evidence
  /\ branch \in [Runs -> Pubs \cup {Absent, Foreign}] /\ pr \in [Runs -> Pubs \cup {Absent, Foreign}]
  /\ outstanding \subseteq Writes \X Pubs /\ landed \subseteq Writes \X Pubs
  /\ Flags
  /\ stage = "idle" <=> working = NoJob

\* Approval and job are committed together and stay together: an APPROVED
\* publication has its execute job, a PUBLISHING one has it in the slot, and
\* both rest on an approval that is valid, of an administrator of today and
\* under the policy of today (decide_publication, _approve_recovery,
\* configure_policy, revoke_actor_publications, mark_job_interrupted).
ApprovalHasJob ==
  \A p \in Pubs :
    /\ state[p] = "APPROVED" => <<"execute", p>> \in jobs
    /\ state[p] = "PUBLISHING" => working = <<"execute", p>>
    /\ state[p] \in {"APPROVED", "PUBLISHING"} => CurrentApproval(p)

\* No state denies what is at the remote or on its way there: a branch or pull
\* request of p, or a write of p that is not decided, never goes with a state
\* that says that nothing was changed (the except block of _execute_job,
\* _invalidate, mark_job_interrupted, _reconcile_job).
NothingHidden ==
  \A p \in Pubs :
    (branch[RunOf[p]] = p \/ pr[RunOf[p]] = p \/ outstanding \cap (Writes \X {p}) # {})
      => state[p] \notin {"ABSENT", "PENDING_APPROVAL", "REJECTED", "INVALIDATED", "FAILED"}

\* PUBLISHED is said only of what did reach the remote: the branch with the
\* approved commit and, where the policy asks for it, the pull request.
PublishedIsTrue ==
  \A p \in Pubs : state[p] = "PUBLISHED" =>
    <<"push", p>> \in landed /\ (p \in PullRequest => <<"pr", p>> \in landed)

\* No handler but prepare and reconcile can run into the unique constraint: a
\* run has at most one live publication, also where the code does not ask.
OneLiveTarget ==
  \A p, q \in Pubs : /\ p # q /\ RunOf[p] = RunOf[q]
                      /\ state[p] \in Live /\ state[q] \in Live
                      => abandoned[p] \/ abandoned[q]

\* While the remote holds the branch of p, given up or not, no other
\* publication of the run, with the same branch name, waits for approval or is
\* executed (prepare_publication against reconcile and retry).
BranchHasOneOwner ==
  \A p \in Pubs : branch[RunOf[p]] = p =>
    \A q \in Others(p) : state[q] \notin {"PENDING_APPROVAL", "APPROVED", "PUBLISHING"}

\* What was given up is left alone for ever: no job, no valid approval, no pin
\* (abandon_remaining against reconcile, recovery, revocation and policy).
AbandonedIsOver ==
  \A p \in Pubs : abandoned[p] =>
    /\ jobs \cap ({"execute", "reconcile"} \X {p}) = {}
    /\ ~valid[p] /\ ~pinned[p] /\ state[p] \in {"PARTIAL", "FAILED", "INVALIDATED"}

\* A write is never sent to a remote that has its effect already, nor while a
\* write of an earlier attempt, one whose worker died included, is undecided
\* (_execute_job after recover_stale, reconcile and retry).
NoBlindRepeat ==
  [][\A w \in Writes, p \in Pubs : <<w, p>> \in outstanding' \ outstanding =>
       /\ outstanding = {}
       /\ IF w = "push" THEN branch[RunOf[p]] # p ELSE pr[RunOf[p]] # p]_vars

\* An approval that became void never authorizes anything again: valid comes
\* back only with a new decision, which registers a new job.
NoRevival ==
  [][\A p \in Pubs : ~valid[p] /\ valid'[p] =>
       state'[p] \in {"APPROVED", "REJECTED"} /\ state[p] # state'[p]
       /\ (state'[p] = "APPROVED" => <<"execute", p>> \in jobs' \ jobs)]_vars

\* What was approved does not wait for ever: it is published, or it gets one
\* of the states that say what is known.
EveryApprovalSettles ==
  \A p \in Pubs : state[p] = "APPROVED" ~> state[p] \notin {"APPROVED", "PUBLISHING"}

\* A rejected publication stays rejected and makes no remote work.
RejectionIsFinal == \A p \in Pubs : rejected[p] => <<"execute", p>> \notin jobs
=============================================================================
