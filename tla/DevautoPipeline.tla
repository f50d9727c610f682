--------------------------- MODULE DevautoPipeline ---------------------------
(***************************************************************************)
(* The devauto prototype: the runs in its SQLite database, the threads of  *)
(* the API process that answer requests and run background tasks, and the  *)
(* optional "devauto worker" process (runner/pipeline.py, worker.py,       *)
(* core/db.py, core/state_machine.py, api/main.py).                        *)
(*                                                                         *)
(* There are two ways to change the status of a run.  try_transition_run   *)
(* is one UPDATE ... WHERE status IN (...): it claims.  transition_run     *)
(* reads the status, asserts that the transition is allowed and writes in  *)
(* another connection: two steps, with every other thread in between.      *)
(* Runs are numbered in the order of created_at.                           *)
(***************************************************************************)
EXTENDS Naturals, FiniteSets

CONSTANTS
  Server,      \* the threads of the API process
  Poller,      \* the thread of the worker process; {} when none is started
  Configs,     \* the publish settings the project is saved with
  MaxInner,    \* policy.max_inner_gate_fixes
  MaxOuter,    \* policy.max_outer_ai_fixes
  MaxRuns,     \* bound: runs created
  MaxEdits,    \* bound: how often the project is saved again
  MaxCrashes   \* bound: how often a process dies

ApprovalOnly == {"push_branch", "deploy_command"}

\* publish.mode, and which of require_qa_approval, require_human_approval are set
Settings == [mode : ApprovalOnly \cup {"patch_only", "local_branch"}, asks : SUBSET {"qa", "human"}]

ASSUME ConfigAssumption == Configs \subseteq Settings
ASSUME ThreadAssumption == Server \cap Poller = {} /\ IsFiniteSet(Server \cup Poller)
ASSUME BoundAssumption ==
  {MaxInner, MaxOuter, MaxRuns, MaxEdits, MaxCrashes} \subseteq Nat /\ MaxRuns # 0

VARIABLES
  status,     \* runs.status, "NEW" before the row exists
  approved,   \* the approvals table: what was approved of each run
  risky,      \* runs.change_class = "high-risk"
  published,  \* how often the Publisher acted for a run
  pushed,     \* the runs that it began to push or to deploy
  config,     \* the publish settings in the project's row
  exposed,    \* the runs that a save overtook (history: no action reads it)
  call,       \* what each thread is doing
  edits, crashes

rowVars == <<approved, risky, published, pushed>>
projectVars == <<config, exposed>>
boundVars == <<edits, crashes>>
vars == <<status, rowVars, projectVars, call, boundVars>>

Threads == Server \cup Poller
Runs == 1..MaxRuns

-----------------------------------------------------------------------------
(* Statuses *)

Terminal == {"PUBLISHED", "ESCALATED", "FAILED", "CANCELLED"}
Ends == {"FAILED", "CANCELLED"}

\* ALLOWED_TRANSITIONS
Allowed == [
  RECEIVED |-> {"QUEUED", "PREPARING"} \cup Ends,
  QUEUED |-> {"PREPARING"} \cup Ends,
  PREPARING |-> {"PLAN_REVIEWED", "AWAITING_PLAN_APPROVAL", "PROVISIONING", "ESCALATED"} \cup Ends,
  PLAN_REVIEWED |-> {"AWAITING_PLAN_APPROVAL", "PROVISIONING"} \cup Ends,
  AWAITING_PLAN_APPROVAL |-> {"PREPARING", "PROVISIONING"} \cup Ends,
  PROVISIONING |-> {"EXECUTING", "ESCALATED"} \cup Ends,
  EXECUTING |-> {"DETERMINISTIC_CHECKS", "FIXING", "ESCALATED"} \cup Ends,
  FIXING |-> {"EXECUTING", "DETERMINISTIC_CHECKS", "ESCALATED"} \cup Ends,
  DETERMINISTIC_CHECKS |->
    {"AI_REVIEWING", "FIXING", "AWAITING_QA_APPROVAL", "READY_TO_PUBLISH",
     "AWAITING_PUBLISH_APPROVAL", "PUBLISHED", "ESCALATED"} \cup Ends,
  AI_REVIEWING |->
    {"FIXING", "AWAITING_QA_APPROVAL", "READY_TO_PUBLISH",
     "AWAITING_PUBLISH_APPROVAL", "PUBLISHED", "ESCALATED"} \cup Ends,
  AWAITING_QA_APPROVAL |-> {"READY_TO_PUBLISH", "AWAITING_PUBLISH_APPROVAL", "ESCALATED"} \cup Ends,
  READY_TO_PUBLISH |-> {"AWAITING_PUBLISH_APPROVAL", "PUBLISHING", "PUBLISHED"} \cup Ends,
  AWAITING_PUBLISH_APPROVAL |-> {"PUBLISHING", "ESCALATED"} \cup Ends,
  PUBLISHING |-> {"PUBLISHED", "ESCALATED", "FAILED"},
  PUBLISHED |-> {}, ESCALATED |-> {}, FAILED |-> {}, CANCELLED |-> {}]

Statuses == DOMAIN Allowed
Cancellable == {s \in Statuses : "CANCELLED" \in Allowed[s]}

StaleButPublishing ==
  {"PREPARING", "PLAN_REVIEWED", "PROVISIONING", "EXECUTING",
   "DETERMINISTIC_CHECKS", "AI_REVIEWING", "FIXING", "READY_TO_PUBLISH"}
\* STALE_RECOVERY_STATUSES
Stale == StaleButPublishing \cup {"PUBLISHING"}

\* has_active_run, with exclude_run_id when X is not empty
ActiveRuns(X) == {r \in Runs \ X : status[r] \notin {"NEW", "QUEUED"} \cup Terminal}
QueuedRuns == {r \in Runs : status[r] = "QUEUED"}
First(S) == CHOOSE r \in S : \A q \in S : r <= q

NeedsPublishApproval(r) == "human" \in config.asks \/ config.mode \in ApprovalOnly \/ risky[r]

-----------------------------------------------------------------------------
(* Threads *)

\* run: the run it works on; to, then: the status that transition_run is about
\* to write and what follows; safe: which exceptions become fail_run; asks: the
\* setting execute_run read; attempt, outer: its fix counters.
Called(p, r, s, safe) ==
  [pc |-> p, run |-> r, to |-> s, then |-> "idle", safe |-> safe,
   asks |-> {}, attempt |-> 0, outer |-> 0]
Idle == Called("idle", 1, "RECEIVED", "none")

\* The same call at another point of it.
Gone(c, p, s, n) ==
  [pc |-> p, run |-> c.run, to |-> s, then |-> n, safe |-> c.safe,
   asks |-> c.asks, attempt |-> c.attempt, outer |-> c.outer]

Steps == {"provision", "plan", "grant", "execute", "gates", "run", "fix", "review", "finalize", "publish"}
Pcs == Steps \cup {"idle", "insert", "prepare", "claim", "approve", "release", "cancel", "qa",
                   "write", "settle", "fail"}

Status(t) == status[call[t].run]
At(t, p) == call[t].pc = p
Becomes(t, c) == call' = [call EXCEPT ![t] = c]
Goto(t, p) == Becomes(t, Gone(call[t], p, "RECEIVED", "idle"))
Return(t) == Becomes(t, Idle)
Begin(t, p, r, safe) == Becomes(t, Called(p, r, "RECEIVED", safe))

\* A ValueError: prepare and plan approval are wrapped in a function that
\* turns every exception into fail_run, the publish and QA approvals are not.
Refuse(t) == IF call[t].safe = "all" THEN Goto(t, "fail") ELSE Return(t)
\* Any other exception
Break(t) == IF call[t].safe = "none" THEN Return(t) ELSE Goto(t, "fail")
Raises(t) == Refuse(t) \/ Break(t)

\* transition_run up to its assertion; the thread goes on with record c.
Move(t, c, s, p) ==
  IF s \in Allowed[Status(t)]
  THEN Becomes(t, Gone(c, "write", s, p))
  ELSE Refuse(t)
Transition(t, s, p) == Move(t, call[t], s, p)

\* The write of transition_run
Write(t) ==
  /\ At(t, "write")
  /\ status' = [status EXCEPT ![call[t].run] = call[t].to]
  /\ IF call[t].then = "idle" THEN Return(t) ELSE Goto(t, call[t].then)
  /\ UNCHANGED <<rowVars, projectVars, boundVars>>

ClaimUnchecked(t, from) == Status(t) \notin Terminal
\* try_transition_run
Claims(t, from) == Status(t) \in from

Cancelled(t) == Status(t) = "CANCELLED" /\ Return(t)      \* _return_if_cancelled
Escalate(t) == Transition(t, "ESCALATED", "settle")       \* escalate

\* What every step of the pipeline may end with besides its own outcome.
Stops(t) == Cancelled(t) \/ (Status(t) # "CANCELLED" /\ Escalate(t)) \/ Break(t)
Continues(t) == Status(t) # "CANCELLED"
StatusOnly == UNCHANGED <<rowVars, projectVars, boundVars>>
CallOnly == UNCHANGED <<status, rowVars, projectVars, boundVars>>

Init ==
  /\ status = [r \in Runs |-> "NEW"]
  /\ approved = [r \in Runs |-> {}]
  /\ risky = [r \in Runs |-> FALSE]
  /\ published = [r \in Runs |-> 0]
  /\ pushed = {}
  /\ config \in Configs
  /\ exposed = {}
  /\ call = [t \in Threads |-> Idle]
  /\ edits = 0 /\ crashes = 0

-----------------------------------------------------------------------------
(* prepare_run *)

\* Another run is active: a RECEIVED run is queued, a queued one left alone.
Prepare(t) ==
  /\ At(t, "prepare")
  /\ IF Status(t) \in {"RECEIVED", "QUEUED"} /\ ActiveRuns({call[t].run}) # {}
     THEN IF Status(t) = "RECEIVED" THEN Transition(t, "QUEUED", "idle") ELSE Return(t)
     ELSE Goto(t, "claim")
  /\ CallOnly

PrepareFrom == {"RECEIVED", "QUEUED", "AWAITING_PLAN_APPROVAL"}
ClaimPrepare(t) ==
  /\ At(t, "claim")
  /\ IF Claims(t, PrepareFrom)
     THEN status' = [status EXCEPT ![call[t].run] = "PREPARING"] /\ Goto(t, "provision")
     ELSE UNCHANGED status /\ Return(t)
  /\ StatusOnly

\* check_publish of the doctor
DoctorFails == config.mode \in ApprovalOnly /\ "human" \notin config.asks

\* The doctor and provision_workspace
Provision(t) ==
  /\ At(t, "provision")
  /\ Stops(t) \/ (~DoctorFails /\ Continues(t) /\ Goto(t, "plan"))
  /\ CallOnly

\* Context, planner, classify_change, plan review; then the run waits for a
\* person, or in mode auto a small change is approved at once, but never after
\* a person rejected a plan (the only call of prepare_run that is not safe).
Plan(t) ==
  /\ At(t, "plan")
  /\ \/ Stops(t) /\ UNCHANGED risky
     \/ \E high \in BOOLEAN :
          /\ Continues(t)
          /\ risky' = [risky EXCEPT ![call[t].run] = high]
          /\ \/ Transition(t, "AWAITING_PLAN_APPROVAL", "idle")
             \/ ~high /\ call[t].safe = "all" /\ Transition(t, "AWAITING_PLAN_APPROVAL", "approve")
  /\ UNCHANGED <<status, approved, published, pushed, projectVars, boundVars>>

-----------------------------------------------------------------------------
(* approve_plan_and_execute, execute_run *)

\* Too early is an error, too late is not.
Approve(t) ==
  /\ At(t, "approve")
  /\ IF Claims(t, {"AWAITING_PLAN_APPROVAL"})
     THEN status' = [status EXCEPT ![call[t].run] = "PROVISIONING"] /\ Goto(t, "grant")
     ELSE /\ UNCHANGED status
          /\ IF Status(t) \in {"RECEIVED", "QUEUED", "PREPARING", "PLAN_REVIEWED"}
             THEN Refuse(t) ELSE Return(t)
  /\ StatusOnly

\* The approval row and the execution grant
Grant(t) ==
  /\ At(t, "grant")
  /\ \/ Escalate(t) /\ UNCHANGED approved
     \/ Break(t) /\ UNCHANGED approved
     \/ /\ approved' = [approved EXCEPT ![call[t].run] = @ \cup {"plan"}]
        /\ Transition(t, "EXECUTING", "execute")
  /\ UNCHANGED <<status, risky, published, pushed, projectVars, boundVars>>

\* The executor
Execute(t) ==
  /\ At(t, "execute")
  /\ \/ Stops(t)
     \/ /\ Continues(t)
        /\ Becomes(t, Gone([call[t] EXCEPT !.asks = config.asks \cap {"qa"}], "gates", "RECEIVED", "idle"))
  /\ CallOnly

\* Forbidden paths, scope and source guard, before the gates run
Gates(t) ==
  /\ At(t, "gates")
  /\ Stops(t) \/ (Continues(t) /\ Transition(t, "DETERMINISTIC_CHECKS", "run"))
  /\ CallOnly

FixesLeft(t) == call[t].attempt < MaxInner

\* run_all and the same guards again; a failed gate is fixed a few times.
RunGates(t) ==
  /\ At(t, "run")
  /\ \/ Stops(t)
     \/ Continues(t) /\ Move(t, [call[t] EXCEPT !.attempt = 0], "AI_REVIEWING", "review")
     \/ /\ Continues(t) /\ FixesLeft(t)
        /\ Move(t, [call[t] EXCEPT !.attempt = @ + 1], "FIXING", "fix")
  /\ CallOnly

\* The executor with a fix prompt, of a gate or of a reviewer
Fix(t) ==
  /\ At(t, "fix")
  /\ Stops(t) \/ (Continues(t) /\ Transition(t, "EXECUTING", "gates"))
  /\ CallOnly

Review(t) ==
  /\ At(t, "review")
  /\ \/ Stops(t)
     \/ Continues(t) /\ Goto(t, "finalize")
     \/ /\ Continues(t) /\ call[t].outer < MaxOuter
        /\ Move(t, [call[t] EXCEPT !.outer = @ + 1], "FIXING", "fix")
  /\ CallOnly

\* _finalize_success, _advance_after_qa
Finalize(t) ==
  /\ At(t, "finalize")
  /\ \/ Stops(t)
     \/ /\ Continues(t)
        /\ \/ call[t].asks # {} /\ Transition(t, "AWAITING_QA_APPROVAL", "idle")
           \/ /\ call[t].asks = {} /\ NeedsPublishApproval(call[t].run)
              /\ Transition(t, "AWAITING_PUBLISH_APPROVAL", "idle")
           \/ /\ call[t].asks = {} /\ ~NeedsPublishApproval(call[t].run)
              /\ Transition(t, "READY_TO_PUBLISH", "release")
  /\ CallOnly

-----------------------------------------------------------------------------
(* Publishing *)

\* publish_run
Release(t) ==
  /\ At(t, "release")
  /\ IF Claims(t, {"READY_TO_PUBLISH"})
     THEN status' = [status EXCEPT ![call[t].run] = "PUBLISHING"] /\ Goto(t, "publish")
     ELSE /\ UNCHANGED status
          /\ IF Status(t) \in {"PUBLISHING"} \cup Terminal THEN Return(t) ELSE Refuse(t)
  /\ StatusOnly

\* The Publisher reads the project again, refuses, or acts and succeeds, fails
\* or raises; what is around it may escalate or raise before and after.
PublisherRefuses == config.mode \in ApprovalOnly /\ "human" \notin config.asks
Publish(t) ==
  /\ At(t, "publish")
  /\ \/ (Cancelled(t) \/ Escalate(t) \/ Raises(t)) /\ UNCHANGED <<published, pushed>>
     \/ /\ Continues(t) /\ ~PublisherRefuses
        /\ published' = [published EXCEPT ![call[t].run] = @ + 1]
        /\ pushed' = IF config.mode \in ApprovalOnly THEN pushed \cup {call[t].run} ELSE pushed
        /\ Escalate(t) \/ Raises(t) \/ Transition(t, "PUBLISHED", "settle")
  /\ UNCHANGED <<status, approved, risky, projectVars, boundVars>>

-----------------------------------------------------------------------------
(* The end of a run *)

\* fail_run
Fail(t) ==
  /\ At(t, "fail")
  /\ IF Status(t) \in Terminal THEN Return(t) ELSE Transition(t, "FAILED", "settle")
  /\ CallOnly

\* start_next_queued, the last thing every end of a run does
Settle(t) ==
  /\ At(t, "settle")
  /\ IF ActiveRuns({}) = {} /\ QueuedRuns # {}
     THEN Begin(t, "prepare", First(QueuedRuns), "all")
     ELSE Return(t)
  /\ CallOnly

\* cancel_run after its first read; the queue moves on unless that read saw QUEUED.
Cancel(t) ==
  /\ At(t, "cancel")
  /\ IF Claims(t, Cancellable)
     THEN /\ status' = [status EXCEPT ![call[t].run] = "CANCELLED"]
          /\ IF call[t].to = "QUEUED" THEN Return(t) ELSE Goto(t, "settle")
     ELSE UNCHANGED status /\ Return(t)
  /\ StatusOnly

\* approve_qa_preview after it chose the target
ApproveQa(t) ==
  /\ At(t, "qa")
  /\ IF Claims(t, {"AWAITING_QA_APPROVAL"})
     THEN /\ status' = [status EXCEPT ![call[t].run] = call[t].to]
          /\ approved' = [approved EXCEPT ![call[t].run] = @ \cup {"qa"}]
          /\ IF call[t].to = "READY_TO_PUBLISH" THEN Goto(t, "release") ELSE Return(t)
     ELSE UNCHANGED <<status, approved>> /\ Return(t)
  /\ UNCHANGED <<risky, published, pushed, projectVars, boundVars>>

-----------------------------------------------------------------------------
(* Requests *)

Free(t) == t \in Server /\ At(t, "idle")

\* create_run reads has_active_run ...
StartCreate(t) ==
  /\ Free(t)
  /\ Cardinality({s \in Threads : At(s, "insert")}) < Cardinality({r \in Runs : status[r] = "NEW"})
  /\ LET s == IF ActiveRuns({}) # {} THEN "QUEUED" ELSE "RECEIVED"
     IN  Becomes(t, Called("insert", 1, s, "none"))
  /\ CallOnly

\* ... and inserts the row; a RECEIVED run is prepared in the background.
Insert(t) ==
  /\ At(t, "insert")
  /\ LET r == First({q \in Runs : status[q] = "NEW"})
     IN  /\ status' = [status EXCEPT ![r] = call[t].to]
         /\ IF call[t].to = "RECEIVED" THEN Begin(t, "prepare", r, "all") ELSE Return(t)
  /\ StatusOnly

\* approve_plan looks at the status and leaves the rest to a background task.
ApprovePlan(t, r) ==
  /\ Free(t) /\ status[r] = "AWAITING_PLAN_APPROVAL"
  /\ Begin(t, "approve", r, "all")
  /\ CallOnly

\* A decision that claims the run at once: reject_plan, approve_publish,
\* reject_publish, reject_qa_preview.
Decide(t, r, from, to, p, safe) ==
  /\ Free(t) /\ status[r] = from
  /\ status' = [status EXCEPT ![r] = to]
  /\ Begin(t, p, r, safe)
  /\ UNCHANGED <<risky, published, pushed, projectVars, boundVars>>

RejectPlan(t, r) ==
  Decide(t, r, "AWAITING_PLAN_APPROVAL", "PREPARING", "provision", "none") /\ UNCHANGED approved
ApprovePublish(t, r) ==
  /\ Decide(t, r, "AWAITING_PUBLISH_APPROVAL", "PUBLISHING", "publish", "other")
  /\ approved' = [approved EXCEPT ![r] = @ \cup {"publish"}]
RejectPublish(t, r) ==
  Decide(t, r, "AWAITING_PUBLISH_APPROVAL", "ESCALATED", "settle", "none") /\ UNCHANGED approved
RejectQa(t, r) ==
  Decide(t, r, "AWAITING_QA_APPROVAL", "ESCALATED", "settle", "none") /\ UNCHANGED approved

QaTargetReady(r) == "READY_TO_PUBLISH"
QaTarget(r) == IF NeedsPublishApproval(r) THEN "AWAITING_PUBLISH_APPROVAL" ELSE "READY_TO_PUBLISH"
StartQa(t, r) ==
  /\ Free(t) /\ status[r] = "AWAITING_QA_APPROVAL"
  /\ Becomes(t, Called("qa", r, QaTarget(r), "other"))
  /\ CallOnly

StartCancel(t, r) ==
  /\ Free(t) /\ status[r] \in Cancellable
  /\ Becomes(t, Called("cancel", r, status[r], "none"))
  /\ CallOnly

\* upsert_project replaces the whole configuration. Overtaken: the status or a
\* thread says that the run goes on to the Publisher without a further look at
\* whether publishing needs an approval.
Released(r) ==
  \/ status[r] = "READY_TO_PUBLISH"
  \/ \E t \in Threads :
       /\ call[t].run = r
       /\ At(t, "publish") \/ (call[t].pc \in {"write", "qa"} /\ call[t].to = "READY_TO_PUBLISH")

Overtaken(c) ==
  IF config.mode \notin ApprovalOnly /\ c.mode \in ApprovalOnly THEN {r \in Runs : Released(r)} ELSE {}

SaveProject ==
  /\ edits < MaxEdits /\ edits' = edits + 1
  /\ \E c \in Configs \ {config} : config' = c /\ exposed' = exposed \cup Overtaken(c)
  /\ UNCHANGED <<status, rowVars, call, crashes>>

-----------------------------------------------------------------------------
(* The worker process: run_pending_once *)

\* recover_stale_runs, with a threshold that r has reached
Recover(w, r) ==
  /\ w \in Poller /\ At(w, "idle") /\ status[r] \in Stale
  /\ Begin(w, "fail", r, "none")
  /\ CallOnly

PickReceived(w, r) ==
  /\ w \in Poller /\ At(w, "idle") /\ status[r] = "RECEIVED" /\ ActiveRuns({r}) = {}
  /\ Begin(w, "prepare", r, "all")
  /\ CallOnly

\* start_next_queued, at the end of every round
PickQueued(w) ==
  /\ w \in Poller /\ At(w, "idle")
  /\ Goto(w, "settle")
  /\ CallOnly

\* A process dies: its threads and background tasks are gone.
Crash(P) ==
  /\ crashes < MaxCrashes /\ crashes' = crashes + 1
  /\ \E t \in P : ~At(t, "idle")
  /\ call' = [t \in Threads |-> IF t \in P THEN Idle ELSE call[t]]
  /\ UNCHANGED <<status, rowVars, projectVars, edits>>

-----------------------------------------------------------------------------
Step(t) ==
  \/ Write(t) \/ Prepare(t) \/ ClaimPrepare(t) \/ Provision(t) \/ Plan(t)
  \/ Approve(t) \/ Grant(t) \/ Execute(t) \/ Gates(t) \/ RunGates(t) \/ Fix(t)
  \/ Review(t) \/ Finalize(t) \/ Release(t) \/ Publish(t)
  \/ Fail(t) \/ Settle(t) \/ Cancel(t) \/ ApproveQa(t) \/ Insert(t)

Request(t) ==
  \/ StartCreate(t)
  \/ \E r \in Runs :
       \/ ApprovePlan(t, r) \/ RejectPlan(t, r) \/ StartQa(t, r) \/ RejectQa(t, r)
       \/ ApprovePublish(t, r) \/ RejectPublish(t, r) \/ StartCancel(t, r)

Poll(w) == PickQueued(w) \/ \E r \in Runs : Recover(w, r) \/ PickReceived(w, r)

Next ==
  \/ \E t \in Threads : Step(t) \/ Request(t) \/ Poll(t)
  \/ SaveProject \/ Crash(Server) \/ Crash(Poller)

Spec == Init /\ [][Next]_vars

\* Threads run; the worker polls with --recover-stale-minutes and looks at
\* every stale run before it picks the next one.
Fairness ==
  /\ \A t \in Threads : WF_vars(Step(t))
  /\ \A w \in Poller, r \in Runs : SF_vars(Recover(w, r))
FairSpec == Spec /\ Fairness

-----------------------------------------------------------------------------
(* Properties *)

\* Types of the rows and of the threads' calls.
TypeOK ==
  /\ status \in [Runs -> Statuses \cup {"NEW"}]
  /\ approved \in [Runs -> SUBSET {"plan", "qa", "publish"}]
  /\ risky \in [Runs -> BOOLEAN]
  /\ published \in [Runs -> Nat]
  /\ pushed \subseteq Runs /\ exposed \subseteq Runs
  /\ config \in Configs
  /\ call \in [Threads -> [pc : Pcs, run : Runs, to : Statuses, then : Pcs, asks : SUBSET {"qa"},
                           safe : {"all", "other", "none"},
                           attempt : 0..MaxInner, outer : 0..MaxOuter]]
  /\ edits \in 0..MaxEdits /\ crashes \in 0..MaxCrashes

\* A thread that works for a run: inside the pipeline, or about to write a
\* status after which it goes on there or hands the run to a person.
Works(t, r) ==
  /\ call[t].run = r
  /\ \/ call[t].pc \in Steps
     \/ call[t].pc = "write" /\ call[t].to \notin {"QUEUED", "FAILED", "ESCALATED"}

\* Two threads never plan, execute or publish the same run: the claims of
\* try_transition_run exclude each other, also after a cancellation, a
\* failure or a rejected plan (pipeline.py: the six try_transition_run calls).
OneThreadPerRun == \A r \in Runs, s, t \in Threads : (Works(s, r) /\ Works(t, r)) => s = t

\* Whatever happens in between, the Publisher acts at most once for a run, and
\* never for one whose plan nobody approved, or of a high-risk change that was
\* not approved for publishing: not after a save of the project that turns the
\* other approvals off, nor by a thread that chose READY_TO_PUBLISH before.
PublishedOnceWithConsent ==
  \A r \in Runs :
    /\ published[r] <= 1
    /\ published[r] > 0 => "plan" \in approved[r]
    /\ (published[r] > 0 /\ risky[r]) => "publish" \in approved[r]

\* A run is pushed or deployed without a publish approval only if a save of the
\* project overtook it: the mode became push_branch or deploy_command after the
\* run had been let through to the Publisher (approve_qa_preview,
\* _advance_after_qa against _publish_claimed_run, which reads the mode again).
\* Every run that is let through later, by whatever path, has the approval.
PushedWithApproval == \A r \in pushed \ exposed : "publish" \in approved[r]

\* What the Publisher says of every push: it needs an approval of the run
\* (publisher.py:82).  It looks at the setting and not at the approval, so this
\* does not hold of the runs in exposed.
PushOnlyAfterApproval == \A r \in pushed : "publish" \in approved[r]

\* A run that waits neither in the queue nor for a person ends or comes to
\* wait: a thread takes it there, or, when the process of that thread died, the
\* worker's recovery of stale runs fails it, whatever the run was doing.
InProgress == Statuses \ (Terminal \cup
  {"RECEIVED", "QUEUED", "AWAITING_PLAN_APPROVAL", "AWAITING_QA_APPROVAL", "AWAITING_PUBLISH_APPROVAL"})
ProgressEnds == \A r \in Runs : status[r] \in InProgress ~> status[r] \notin InProgress
=============================================================================
