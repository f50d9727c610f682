------------------------------ MODULE DevautoWork ------------------------------
(***************************************************************************)
(* What a devauto run does to files: the workspace that agents and gates   *)
(* write, the plan that says which files may change, the grant made when   *)
(* the plan is approved, the checks between the steps and what the         *)
(* Publisher puts out (prepare_run, execute_run and _publish_claimed_run   *)
(* in runner/pipeline.py, with ai_cli.py, gates.py, reviewer.py,           *)
(* publisher.py, core/policy.py and core/doctor.py).                       *)
(*                                                                         *)
(* DevautoPipeline has the same steps of several runs, with their statuses *)
(* and threads and no files; here one run goes on alone.                   *)
(*                                                                         *)
(* Agents are told not to commit (build_executor_prompt): what they do is  *)
(* write files.  External: what an agent or a command of the project does. *)
(***************************************************************************)
EXTENDS Naturals, FiniteSets

CONSTANTS
  Paths,
  Forbidden, HighRisk,  \* policy.forbidden_paths, policy.high_risk_paths
  Ignored,              \* paths in .gitignore
  Entries,              \* entries of a plan's Candidate Files: [covers |-> paths, high |-> matches a high-risk pattern]
  MaxEntries,           \* bound: entries of a plan
  GateWrites,           \* paths a gate command may write: reports, files it formats
  AutoMode,             \* run.mode = "auto"
  PlanReviewer,         \* whether ai.plan_reviewer has a command
  Reviewers,            \* the configured ones of reviewer_a, _b, _c, as 1, 2, 3
  Configs,              \* the publish settings: .mode is publish.mode, .human require_human_approval
  MaxInner, MaxOuter,   \* policy.max_inner_gate_fixes, policy.max_outer_ai_fixes
  MaxMoves,             \* bound: changes of the source repository
  MaxRejections         \* bound: rejected plans

ASSUME PathAssumption == Forbidden \cup HighRisk \cup Ignored \cup GateWrites \subseteq Paths
ASSUME EntryAssumption == Entries \subseteq [covers : SUBSET Paths, high : BOOLEAN]
ASSUME SwitchAssumption == {AutoMode, PlanReviewer} \subseteq BOOLEAN
ASSUME ConfigAssumption == \A c \in Configs : c.human \in BOOLEAN
ASSUME CountAssumption ==
  /\ Reviewers \subseteq 1..3
  /\ {MaxInner, MaxOuter, MaxMoves, MaxRejections, MaxEntries} \subseteq Nat

VARIABLES
  pc,
  text,       \* what title and description make classify_change say
  ws,         \* workspace: the paths that differ from the clone; those written since
              \* the gates passed (ungated) and since every role asked said pass
              \* (unreviewed); those reviewers wrote since the gates passed (late)
  plan,       \* 01-plan.md: its candidate files, whether it is the fallback
  class,      \* runs.change_class
  grant,      \* 02-execution-grant.json: scope and source_repo_snapshot
  consent,    \* approvals
  source,     \* version of the source repository, HEAD and status
  tries,      \* fixes after a gate in this round, after a review; calls of the executor
  rejections,
  out         \* the paths the Publisher put out

planVars == <<text, plan, class, rejections>>
vars == <<pc, ws, grant, consent, source, tries, out, planVars>>

Goto(p) == pc' = p
Escalates == Goto("ESCALATED")
Ends == {"PUBLISHED", "ESCALATED", "FAILED"}
ApprovalOnly == {"push_branch", "deploy_command"}
Decisions == {"pass", "fix", "escalate"}      \* parse_decision

NoGrant == [made |-> FALSE]

Init ==
  /\ pc = "doctor"
  /\ text \in {"risky", "docs", "other"}
  /\ ws = [changed |-> {}, ungated |-> {}, unreviewed |-> {}, late |-> {}]
  /\ plan = [entries |-> {}, fallback |-> TRUE]
  /\ class = "standard"
  /\ grant = NoGrant /\ consent = {}
  /\ source = 0 /\ rejections = 0
  /\ tries = [gate |-> 0, review |-> 0, calls |-> 0]
  /\ out = {}

-----------------------------------------------------------------------------
(* Files *)

\* An agent leaves the paths W written, of which X differ from the clone.
After(W, X) ==
  [changed |-> (ws.changed \ W) \cup X, ungated |-> ws.ungated \cup W,
   unreviewed |-> ws.unreviewed \cup W, late |-> ws.late]

\* git status with and without ignored files
StatusLines(w) == w.changed
DiffPaths(w) == w.changed \ Ignored

Covered(E) == UNION {e.covers : e \in E}

\* _find_scope_diff_paths: a plan that names no file restricts nothing.
InScope(w) == grant.entries = {} \/ DiffPaths(w) \subseteq Covered(grant.entries)
\* _find_forbidden_diff_paths
NoForbidden(w) == StatusLines(w) \cap Forbidden = {}
\* source_repo_snapshot, source_repo_violation
Snapshot == source
SourceHolds == grant.made /\ Snapshot = grant.source

-----------------------------------------------------------------------------
(* prepare_run *)

\* check_publish
PublishRefused(c) == c.mode \in ApprovalOnly /\ ~c.human

\* run_project_doctor: what is out of the program's hands may fail as well. The
\* project may be saved at any time: each step that reads it finds some config.
Doctor ==
  /\ pc = "doctor"
  /\ Escalates \/ (Goto("provision") /\ \E c \in Configs : ~PublishRefused(c))
  /\ UNCHANGED <<ws, grant, consent, source, tries, out, planVars>>

\* provision_workspace: a clone, or the workspace a rejected plan has left
Provision ==
  /\ pc = "provision"
  /\ Escalates \/ Goto("plan")
  /\ UNCHANGED <<ws, grant, consent, source, tries, out, planVars>>

\* classify_change
ClassOf(E) ==
  IF text = "risky" \/ \E e \in E : e.high THEN "high-risk"
  ELSE IF text = "docs" THEN "small" ELSE "standard"

\* The planner writes a plan, or something that is none, and no file.
Plans == {E \in SUBSET Entries : Cardinality(E) <= MaxEntries}
Plan ==
  /\ pc = "plan"
  /\ \/ \E W \in (SUBSET Paths) \ {{}} :
          ws' = After(W, W) /\ Escalates /\ UNCHANGED <<plan, class>>
     \/ \E fallback \in BOOLEAN, E \in Plans :
          /\ fallback => E = {}
          /\ plan' = [entries |-> E, fallback |-> fallback]
          /\ class' = ClassOf(E)
          /\ Goto("review plan") /\ UNCHANGED ws
  /\ UNCHANGED <<text, rejections, grant, consent, source, tries, out>>

\* _review_plan: whatever is not a pass escalates, a file written as well.
ReviewPlan ==
  /\ pc = "review plan"
  /\ \/ ~PlanReviewer /\ Goto("decide") /\ UNCHANGED ws
     \/ PlanReviewer /\ \E W \in SUBSET Paths, d \in Decisions :
          /\ ws' = After(W, W)
          /\ IF StatusLines(ws') = StatusLines(ws) /\ d = "pass" THEN Goto("decide") ELSE Escalates
  /\ UNCHANGED <<grant, consent, source, tries, out, planVars>>

\* auto_plan_approval_decision
Approvable == AutoMode /\ rejections = 0 /\ ~plan.fallback /\ class = "small"
DecidePlan ==
  /\ pc = "decide"
  /\ Goto(IF Approvable THEN "approved" ELSE "AWAITING_PLAN_APPROVAL")
  /\ UNCHANGED <<ws, grant, consent, source, tries, out, planVars>>

ApprovePlan ==
  /\ pc = "AWAITING_PLAN_APPROVAL" /\ Goto("approved")
  /\ UNCHANGED <<ws, grant, consent, source, tries, out, planVars>>

RejectPlan ==
  /\ pc = "AWAITING_PLAN_APPROVAL" /\ rejections < MaxRejections
  /\ rejections' = rejections + 1
  /\ Goto("doctor")
  /\ UNCHANGED <<ws, grant, consent, source, tries, out, text, plan, class>>

\* approve_plan_and_execute, create_execution_grant, source_repo_snapshot
Grant ==
  /\ pc = "approved"
  /\ \/ Escalates /\ UNCHANGED <<grant, consent>>
     \/ /\ consent' = consent \cup {"plan"}
        /\ grant' = [made |-> TRUE, entries |-> plan.entries, source |-> Snapshot]
        /\ Goto("execute")
  /\ UNCHANGED <<ws, source, tries, out, planVars>>

-----------------------------------------------------------------------------
(* execute_run *)

\* AiCliAdapter.run for the executor, which may fail, or be skipped for want
\* of a command; a fix must not be skipped.
Execute ==
  /\ pc \in {"execute", "fix"}
  /\ tries' = [tries EXCEPT !.calls = @ + 1]
  /\ \/ \E W \in SUBSET Paths : \E X \in SUBSET W :
          ws' = After(W, X) /\ (Escalates \/ Goto("check"))
     \/ ws' = ws /\ (IF pc = "fix" THEN Escalates ELSE Goto("check"))
  /\ UNCHANGED <<grant, consent, source, out, planVars>>

GuardedOnce(w) == tries.calls > 1 \/ (SourceHolds /\ NoForbidden(w) /\ InScope(w))
\* The checks before the gates, in every round
Guarded(w) == SourceHolds /\ NoForbidden(w) /\ InScope(w)

Check ==
  /\ pc = "check"
  /\ Goto(IF Guarded(ws) THEN "gates" ELSE "ESCALATED")
  /\ UNCHANGED <<ws, grant, consent, source, tries, out, planVars>>

\* The checks after the gates: the forbidden paths are not looked at again.
GuardedAgain(w) == SourceHolds /\ InScope(w)

GateFix == [tries EXCEPT !.gate = @ + 1]
ReviewFixUncounted == [tries EXCEPT !.gate = 0]
ReviewFix == [gate |-> 0, review |-> tries.review + 1, calls |-> tries.calls]

\* Gate commands leave the paths B written, of which X differ from the clone.
AfterGates(B, X, ok) ==
  [changed |-> (ws.changed \ B) \cup X, ungated |-> IF ok THEN {} ELSE ws.ungated,
   unreviewed |-> ws.unreviewed, late |-> IF ok THEN {} ELSE ws.late]

\* run_all: the commands in GATE_ORDER until one fails or is forbidden, which may
\* write files.  compose_up may raise.  A failure is fixed MaxInner times a round.
Gates ==
  /\ pc = "gates"
  /\ \/ Escalates /\ UNCHANGED <<ws, tries>>
     \/ \E B \in SUBSET GateWrites, ok \in BOOLEAN : \E X \in SUBSET B :
          LET w == AfterGates(B, X, ok)
          IN  /\ ws' = w
              /\ \/ ~GuardedAgain(w) /\ Escalates /\ UNCHANGED tries
                 \/ GuardedAgain(w) /\ ok /\ Goto("review") /\ UNCHANGED tries
                 \/ GuardedAgain(w) /\ ~ok /\ tries.gate < MaxInner /\ tries' = GateFix /\ Goto("fix")
                 \/ GuardedAgain(w) /\ ~ok /\ tries.gate >= MaxInner /\ Escalates /\ UNCHANGED tries
  /\ UNCHANGED <<grant, consent, source, out, planVars>>

\* review_depth of classify_change; the roles that are asked
Depth == IF class = "high-risk" THEN 3 ELSE IF class = "small" THEN 1 ELSE 2
Asked == Reviewers \cap 1..Depth

VerdictOfAny(said) ==
  IF Asked = {} \/ \E r \in Asked : said[r] = "pass" THEN "pass"
  ELSE IF \E r \in Asked : said[r] = "escalate" THEN "escalate" ELSE "fix"
\* ReviewHarness.review over what each role says; one that fails escalates.
Verdict(said) ==
  IF \E r \in Asked : said[r] = "escalate" THEN "escalate"
  ELSE IF \E r \in Asked : said[r] = "fix" THEN "fix" ELSE "pass"

\* Reviewers leave the paths W written.
AfterReview(W, said) ==
  [changed |-> ws.changed \cup W, ungated |-> ws.ungated,
   unreviewed |-> IF \A r \in Asked : said[r] = "pass" THEN {} ELSE ws.unreviewed,
   late |-> ws.late \cup W]

\* A reviewer's write is found where it changes the lines of git status: not in
\* a file that has changed before.
Kept(w) == StatusLines(w) = StatusLines(ws) /\ SourceHolds

Review ==
  /\ pc = "review"
  /\ \E W \in SUBSET Paths, said \in [Asked -> Decisions] :
       /\ Asked = {} => W = {}
       /\ ws' = AfterReview(W, said)
       /\ \/ ~Kept(ws') /\ Escalates /\ UNCHANGED tries
          \/ /\ Kept(ws') /\ Verdict(said) = "pass"
             /\ Goto("finalize") /\ UNCHANGED tries
          \/ /\ Kept(ws') /\ Verdict(said) = "fix" /\ tries.review < MaxOuter
             /\ tries' = ReviewFix /\ Goto("fix")
          \/ /\ Kept(ws')
             /\ Verdict(said) = "escalate" \/ (Verdict(said) = "fix" /\ tries.review >= MaxOuter)
             /\ Escalates /\ UNCHANGED tries
  /\ UNCHANGED <<grant, consent, source, out, planVars>>

-----------------------------------------------------------------------------
(* _finalize_success, publishing *)

\* _requires_publish_approval
NeedsApproval(c) == c.human \/ c.mode \in ApprovalOnly \/ class = "high-risk"

\* The preview may fail to start.
Finalize ==
  /\ pc = "finalize"
  /\ \/ Escalates
     \/ \E c \in Configs : Goto(IF NeedsApproval(c) THEN "AWAITING_PUBLISH_APPROVAL" ELSE "publish")
  /\ UNCHANGED <<ws, grant, consent, source, tries, out, planVars>>

ApprovePublish ==
  /\ pc = "AWAITING_PUBLISH_APPROVAL"
  /\ consent' = consent \cup {"publish"} /\ Goto("publish")
  /\ UNCHANGED <<ws, grant, source, tries, out, planVars>>

RejectPublish ==
  /\ pc = "AWAITING_PUBLISH_APPROVAL" /\ Escalates
  /\ UNCHANGED <<ws, grant, consent, source, tries, out, planVars>>

\* Publisher.publish by mode: the patch as it is, a commit of all that is not
\* ignored, the same pushed to a branch that is new, a command.  It may refuse,
\* fail before or after its effect, or raise.
Publish ==
  /\ pc = "publish"
  /\ \/ Escalates /\ UNCHANGED out
     \/ /\ SourceHolds /\ \E c \in Configs : ~PublishRefused(c)
        /\ \/ out' \in {out, DiffPaths(ws)} /\ Goto("FAILED")
           \/ out' = DiffPaths(ws) /\ (Escalates \/ Goto("published"))
  /\ UNCHANGED <<ws, grant, consent, source, tries, planVars>>

\* The source is looked at once more.
AfterPublish ==
  /\ pc = "published"
  /\ Goto(IF SourceHolds THEN "PUBLISHED" ELSE "ESCALATED")
  /\ UNCHANGED <<ws, grant, consent, source, tries, out, planVars>>

\* Somebody works in the source repository.
SourceMoves ==
  /\ source < MaxMoves /\ pc \notin Ends
  /\ source' = source + 1
  /\ UNCHANGED <<pc, ws, grant, consent, tries, out, planVars>>

Next ==
  \/ Doctor \/ Provision \/ Plan \/ ReviewPlan \/ DecidePlan \/ ApprovePlan \/ RejectPlan \/ Grant
  \/ Execute \/ Check \/ Gates \/ Review \/ Finalize
  \/ ApprovePublish \/ RejectPublish \/ Publish \/ AfterPublish \/ SourceMoves

Spec == Init /\ [][Next]_vars

-----------------------------------------------------------------------------
(* Properties *)

\* The executor is called once, then for each fix; each of the 1 + MaxOuter
\* rounds has its own MaxInner fixes.
Budget == 1 + MaxOuter + (1 + MaxOuter) * MaxInner

\* Types, and the number of calls that the two limits of the policy allow
\* together (the counters of the two loops of execute_run).
TypeOK ==
  /\ text \in {"risky", "docs", "other"}
  /\ ws \in [changed : SUBSET Paths, ungated : SUBSET Paths, unreviewed : SUBSET Paths, late : SUBSET Paths]
  /\ plan \in [entries : SUBSET Entries, fallback : BOOLEAN]
  /\ class \in {"high-risk", "small", "standard"}
  /\ consent \subseteq {"plan", "publish"}
  /\ source \in 0..MaxMoves /\ rejections \in 0..MaxRejections
  /\ tries \in [gate : 0..MaxInner, review : 0..MaxOuter, calls : 0..Budget]
  /\ out \subseteq Paths

\* What the executor wrote is put out only if, after it wrote it for the last
\* time, all the gates have passed and then every role that was asked to review
\* has said pass: after any number of fixes in any order, whatever gates and
\* reviewers write themselves (ai_cli.py:315: the harness runs gates and review
\* again after a fix).
PublishedWasChecked == out \cap (ws.ungated \cup ws.unreviewed) = {}

\* The rule with which a reviewer's write escalates: after the deterministic
\* gates no file of the workspace changes (pipeline.py:456).  It does not hold of
\* files that have changed before (Kept).
UnchangedAfterGates == out \cap ws.late = {}

\* What is put out was agreed to: a person or the auto policy approved the plan
\* of which it is, with the files it names if it names any, no path the policy
\* forbids is in it that an agent wrote, and of a high-risk path that the plan
\* named a person has approved the publication. A rejected plan leaves nothing
\* of its class or its scope behind.
PublishedAsAgreed ==
  out # {} =>
    /\ "plan" \in consent
    /\ plan.entries # {} => out \subseteq Covered(plan.entries)
    /\ out \cap Forbidden \subseteq GateWrites
    /\ (\E e \in plan.entries : e.high) => "publish" \in consent
===============================================================================
