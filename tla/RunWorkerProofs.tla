--------------------------- MODULE RunWorkerProofs ---------------------------
(***************************************************************************)
(* The safety properties of RunWorker for any number of runs, publication  *)
(* jobs, accounts, restarts and misread observations.                      *)
(*                                                                         *)
(* None of the properties is inductive alone: what keeps an open process   *)
(* record from losing its slot is that the thread, or the recovery, has    *)
(* looked at the record before it frees the slot, so the induction also    *)
(* carries where the thread and the recovery stand (Control, Processes,    *)
(* Outcomes below).                                                        *)
(***************************************************************************)
EXTENDS RunWorker, TLAPS

\* Who may be at work: a thread only under a running worker loop, and the
\* recovery settles the job that is in the slot.
Control ==
  /\ current # NoJob => worker \in {"up", "stopping"}
  /\ worker = "settling" => slotJob # NoJob
  /\ current \in RunJobs => stage # "publish"

\* Where records and children stand.
Processes ==
  /\ \A j \in Jobs : record[j] \notin {"NONE", "ABANDONED"} => slotJob = j
  /\ \A j \in Jobs : record[j] \in {"NONE", "RESERVED"} => child[j] = "none"
  /\ \A p \in PubJobs : record[p] # "ABANDONED"
  /\ \A j \in Jobs : At(j, {"finalize"}) => record[j] \in {"NONE", "ABANDONED"}
  /\ \A j \in Jobs : worker = "settling" /\ slotJob = j => record[j] \in {"NONE", "ABANDONED"}

\* How the thread's stage and the run's end go together.
Outcomes ==
  \A r \in RunJobs : current = r =>
    /\ status[r] \in Terminal => stage \in {"wrapup", "finalize"}
    /\ stage \in {"wrapup", "finalize"} /\ ~err => status[r] \in {"SUCCEEDED", "FAILED"}

IInv ==
  /\ TypeOK /\ LeaseAgreement /\ NoUnaccountedExecution
  /\ SuccessIsProved /\ OutcomesAgree
  /\ Control /\ Processes /\ Outcomes

-----------------------------------------------------------------------------
(* Lemmas about the definitions *)

\* What a change of the status column by transition_run can be.
LEMMA TransitionFacts ==
  ASSUME status \in [RunJobs -> Status], NEW r \in RunJobs, NEW to \in Status, Transition(r, to)
  PROVE  /\ status' = [status EXCEPT ![r] = to]
         /\ status[r] \in Active \cup {"QUEUED", "CANCEL_REQUESTED"}
         /\ to \notin {"ABSENT", "QUEUED"}
         /\ to = "PREPARING" => status[r] = "QUEUED"
         /\ to = "CANCEL_REQUESTED" => status[r] \in Active
         /\ to = "SUCCEEDED" => status[r] = "VERIFYING" /\ record[r] = "NONE"
         /\ to = "INTERRUPTED" => status[r] # "QUEUED"
  BY DEF Transition, CanTransition, TRANSITIONS, NothingOpen, Status, Active, Terminal

\* A stage after a launch is a stage, and never the idle one.
LEMMA AfterLaunchIsStage ==
  ASSUME NEW s \in LaunchStage
  PROVE  /\ AfterLaunch[s] \in Stage \ ({"idle", "finalize"} \cup LaunchStage)
         /\ AfterLaunch[s] = "wrapup" => s = "publish"
  BY DEF AfterLaunch, Stage, LaunchStage

\* Leaving the handler leads to the end of process_claimed.
LEMMA LeaveStage == ASSUME NEW j, Leave(j) PROVE stage' = "wrapup"
  BY Zenon DEF Leave

\* A run leaves it with an error only.
LEMMA LeaveRunFails == ASSUME NEW j \in RunJobs, Leave(j) PROVE err'
  BY JobAssumption, Zenon DEF Leave

-----------------------------------------------------------------------------
(* Types *)

LEMMA TypeInit == Init => TypeOK
<1> SUFFICES ASSUME Init PROVE TypeOK
  OBVIOUS
<1>1. Flags
  BY Zenon DEF Init, Flags
<1> QED
  BY <1>1, JobAssumption DEF Init, TypeOK, Jobs, Status, StopReason, JobState, RecordState, Launched,
     ChildState, WorkerState, Stage, LaunchStage

\* The Boolean columns, by a prover of their own.
LEMMA FlagsStep == Flags /\ [Next]_vars => Flags'
<1> SUFFICES ASSUME Flags, [Next]_vars PROVE Flags'
  OBVIOUS
<1> USE DEF Flags, runVars, jobVars, slotVars, procVars, threadVars, boundVars, outside
<1>1. CASE WebStep
  BY <1>1, Zenon DEF WebStep, SubmitRun, RetryRun, CreateRun, Enqueue, CancelQueued, CancelActive,
     EnqueuePublication, Revoke
<1>2. CASE RecoverStep
  BY <1>2, Zenon DEF RecoverStep, RecoverSkip, RecoverConfirmed, RecoverUnconfirmed, RecoverFinish, Abandon
<1>3. CASE HeartbeatFails \/ LeaseExpires \/ Crash \/ StopSignal \/ StopDone \/ StartWorker
  BY <1>3, Zenon DEF HeartbeatFails, LeaseExpires, Crash, StopSignal, StopDone, StartWorker, ThreadGone
<1>4. ASSUME NEW j \in Jobs, ClaimJob(j) PROVE Flags'
  BY <1>4, Zenon DEF ClaimJob
<1>5. ASSUME NEW j \in Jobs, LaunchStep(j) PROVE Flags'
  BY <1>5, Zenon DEF LaunchStep, Reserve, SpawnFails, Register, ClearGate, OpenGate,
     RequestStop, Terminate, Misread, GiveUp, ConfirmLate, Collect, RemoveFails, Leave
<1>6. ASSUME NEW j \in Jobs, PipelineStep(j) PROVE Flags'
  BY <1>6, Zenon DEF PipelineStep, StageFails, BeginModify, BeginAfter, Advance, Verify, Seal, Restricted,
     Succeed, EndWithBundle, WrapUp, Finalize, Leave, Abandon, ThreadGone
<1>7. ASSUME NEW j \in Jobs, ChildExits(j) PROVE Flags'
  BY <1>7, Zenon DEF ChildExits
<1>8. CASE UNCHANGED vars
  BY <1>8, Zenon DEF vars
<1> QED
  BY <1>1, <1>2, <1>3, <1>4, <1>5, <1>6, <1>7, <1>8 DEF Next, ThreadStep

LEMMA TypeStep == TypeOK /\ [Next]_vars => TypeOK'
<1> SUFFICES ASSUME TypeOK, [Next]_vars PROVE TypeOK'
  OBVIOUS
<1>0. Flags'
  BY FlagsStep DEF TypeOK
<1> USE <1>0, JobAssumption DEF TypeOK, Jobs, Status, StopReason, JobState, RecordState, Launched,
     ChildState, WorkerState, Stage, LaunchStage, Active, Terminal, Transition,
     runVars, jobVars, slotVars, procVars, threadVars, boundVars, outside
<1>1. CASE WebStep
  BY <1>1 DEF WebStep, SubmitRun, RetryRun, CreateRun, Enqueue, CancelQueued, CancelActive,
     EnqueuePublication, Revoke
<1>2. CASE RecoverStep
  BY <1>2 DEF RecoverStep, RecoverSkip, RecoverConfirmed, RecoverUnconfirmed, RecoverFinish,
     Abandon, SetRecord, LostJobState
<1>3. CASE HeartbeatFails \/ LeaseExpires \/ Crash \/ StopSignal \/ StopDone \/ StartWorker
  BY <1>3 DEF HeartbeatFails, LeaseExpires, Crash, StopSignal, StopDone, StartWorker, ThreadGone
<1>4. ASSUME NEW j \in Jobs, ClaimJob(j) PROVE TypeOK'
  BY <1>4 DEF ClaimJob
<1>5. ASSUME NEW j \in Jobs, LaunchStep(j) PROVE TypeOK'
  <2> USE LeaveStage DEF At, SetRecord, SetChild
  <2>1. CASE Reserve(j) \/ Register(j) \/ ClearGate(j) \/ OpenGate(j)
    BY <2>1 DEF Reserve, Register, ClearGate, OpenGate
  <2>2. CASE SpawnFails(j) \/ Terminate(j) \/ ConfirmLate(j) \/ RemoveFails(j)
    BY <2>2 DEF SpawnFails, Terminate, ConfirmLate, RemoveFails
  <2>3. CASE RequestStop(j)
    BY <2>3 DEF RequestStop
  <2>4. CASE Misread(j) \/ GiveUp(j)
    BY <2>4 DEF Misread, GiveUp
  <2>5. CASE Collect(j)
    BY <2>5, AfterLaunchIsStage DEF Collect
  <2> QED
    BY <1>5, <2>1, <2>2, <2>3, <2>4, <2>5 DEF LaunchStep
<1>6. ASSUME NEW j \in Jobs, PipelineStep(j) PROVE TypeOK'
  <2> USE LeaveStage DEF At
  <2>1. CASE StageFails(j) \/ Verify(j)
    BY <2>1 DEF StageFails, Verify
  <2>2. CASE BeginModify(j) \/ BeginAfter(j)
    BY <2>2 DEF BeginModify, BeginAfter, Advance
  <2>3. CASE Seal(j) \/ Restricted(j) \/ Succeed(j)
    BY <2>3 DEF Seal, Restricted, Succeed, EndWithBundle
  <2>4. CASE WrapUp(j)
    BY <2>4 DEF WrapUp, Abandon, SetRecord, ThreadGone
  <2>5. CASE Finalize(j)
    BY <2>5 DEF Finalize, EndStatus, ThreadGone
  <2> QED
    BY <1>6, <2>1, <2>2, <2>3, <2>4, <2>5 DEF PipelineStep
<1>7. ASSUME NEW j \in Jobs, ChildExits(j) PROVE TypeOK'
  BY <1>7 DEF ChildExits, SetChild
<1>8. CASE UNCHANGED vars
  BY <1>8 DEF vars
<1> QED
  BY <1>1, <1>2, <1>3, <1>4, <1>5, <1>6, <1>7, <1>8 DEF Next, ThreadStep

-----------------------------------------------------------------------------
(* The four tables agree *)

\* Every step of the thread but the last leaves the tables of jobs and slots
\* alone, and does not take a run to the publication stage.
LEMMA ThreadFrame ==
  ASSUME TypeOK, NEW j \in Jobs, ThreadStep(j), ~Finalize(j)
  PROVE  /\ current = j /\ stage \in Stage \ {"idle", "finalize"}
         /\ UNCHANGED <<jobState, jobEpoch, slotJob, slotEpoch, worker>>
         /\ current' = j \/ (current' = NoJob /\ stage' = "idle")
         /\ stage' = "publish" => stage = "publish"
<1> USE LeaveStage DEF At, outside, jobVars, TypeOK, Stage, LaunchStage
<1>1. CASE LaunchStep(j)
  <2>1. CASE Collect(j)
    BY <2>1, AfterLaunchIsStage DEF Collect
  <2>2. CASE ~Collect(j)
    BY <1>1, <2>2 DEF LaunchStep, Reserve, SpawnFails, Register, ClearGate, OpenGate,
       RequestStop, Terminate, Misread, GiveUp, ConfirmLate, RemoveFails
  <2> QED BY <2>1, <2>2
<1>2. CASE PipelineStep(j)
  BY <1>2 DEF PipelineStep, StageFails, BeginModify, BeginAfter, Advance, Verify, Seal, Restricted,
     Succeed, EndWithBundle, WrapUp, ThreadGone
<1> QED BY <1>1, <1>2 DEF ThreadStep

\* And it moves the status column only along with transition_run, for its own run.
LEMMA ThreadStatus ==
  ASSUME TypeOK, NEW j \in Jobs, ThreadStep(j), ~Finalize(j)
  PROVE  \/ UNCHANGED status
         \/ j \in RunJobs /\ \E to \in Status \ {"ABSENT", "QUEUED", "PREPARING"} : Transition(j, to)
<1> USE DEF Status, Active, Terminal, runVars
<1>1. CASE LaunchStep(j)
  BY <1>1 DEF LaunchStep, Reserve, SpawnFails, Register, ClearGate, OpenGate,
     RequestStop, Terminate, Misread, GiveUp, ConfirmLate, Collect, RemoveFails
<1>2. CASE PipelineStep(j)
  BY <1>2 DEF PipelineStep, StageFails, BeginModify, BeginAfter, Advance, Verify, Seal, Restricted,
     Succeed, EndWithBundle, WrapUp
<1> QED BY <1>1, <1>2 DEF ThreadStep

LEMMA LeaseStep ==
  TypeOK /\ LeaseAgreement /\ Control /\ [Next]_vars => LeaseAgreement' /\ Control'
<1> SUFFICES ASSUME TypeOK, LeaseAgreement, Control, [Next]_vars
             PROVE  LeaseAgreement' /\ Control'
  OBVIOUS
<1> USE JobAssumption DEF LeaseAgreement, Control, Jobs
<1>0. status \in [RunJobs -> Status] /\ jobState \in [Jobs -> JobState] /\ slotJob \in Jobs \cup {NoJob}
      /\ jobEpoch \in [Jobs -> Nat] /\ slotEpoch \in Nat
  BY DEF TypeOK
<1>1. ASSUME NEW r \in RunJobs, SubmitRun(r) \/ RetryRun(r) PROVE LeaseAgreement' /\ Control'
  BY <1>0, <1>1 DEF SubmitRun, RetryRun, CreateRun, Enqueue, Active, slotVars, threadVars
<1>2. ASSUME NEW r \in RunJobs, CancelQueued(r) PROVE LeaseAgreement' /\ Control'
  BY <1>0, <1>2 DEF CancelQueued, Transition, Active, slotVars, threadVars
<1>3. ASSUME NEW r \in RunJobs, CancelActive(r) PROVE LeaseAgreement' /\ Control'
  BY <1>0, <1>3, TransitionFacts DEF CancelActive, Active, Status, jobVars, slotVars, threadVars
<1>4. ASSUME NEW p \in PubJobs, EnqueuePublication(p) PROVE LeaseAgreement' /\ Control'
  BY <1>0, <1>4 DEF EnqueuePublication, Enqueue, runVars, slotVars, threadVars
<1>5. ASSUME NEW a \in Actors, Revoke(a) PROVE LeaseAgreement' /\ Control'
  BY <1>0, <1>5 DEF Revoke, Active, slotVars, threadVars
<1>6. CASE RecoverSkip \/ HeartbeatFails \/ LeaseExpires \/ Crash \/ StopSignal \/ StopDone \/ StartWorker
  BY <1>0, <1>6 DEF RecoverSkip, HeartbeatFails, LeaseExpires, Crash, StopSignal, StopDone, StartWorker,
     ThreadGone, runVars, jobVars, slotVars, threadVars
<1>7. ASSUME NEW j \in Jobs, RecoverConfirmed(j) \/ RecoverUnconfirmed(j) \/ ChildExits(j)
      PROVE  LeaseAgreement' /\ Control'
  BY <1>0, <1>7 DEF RecoverConfirmed, RecoverUnconfirmed, ChildExits, Abandon,
     runVars, jobVars, slotVars, threadVars
<1>8. ASSUME NEW j \in Jobs, RecoverFinish(j) PROVE LeaseAgreement' /\ Control'
  BY <1>0, <1>8, TransitionFacts DEF RecoverFinish, LostJobState, Unfinished, Active, Status, Terminal, threadVars
<1>9. ASSUME NEW j \in Jobs, ClaimJob(j) PROVE LeaseAgreement' /\ Control'
  BY <1>0, <1>9 DEF ClaimJob, SlotFree, Transition, Active
<1>10. ASSUME NEW j \in Jobs, Finalize(j) PROVE LeaseAgreement' /\ Control'
  BY <1>0, <1>10, TransitionFacts DEF Finalize, EndStatus, Owns, At, Unfinished, ThreadGone, Active, Status, Terminal
<1>11. ASSUME NEW j \in Jobs, ThreadStep(j), ~Finalize(j) PROVE LeaseAgreement' /\ Control'
  BY <1>0, <1>11, ThreadFrame, ThreadStatus, TransitionFacts DEF Active, Status
<1>12. CASE UNCHANGED vars
  BY <1>12 DEF vars, runVars, jobVars, slotVars, threadVars
<1> QED
  BY <1>1, <1>2, <1>3, <1>4, <1>5, <1>6, <1>7, <1>8, <1>9, <1>10, <1>11, <1>12
     DEF Next, WebStep, RecoverStep

-----------------------------------------------------------------------------
(* Processes and their records *)

LEMMA ProcessesStep ==
  TypeOK /\ LeaseAgreement /\ Control /\ Processes /\ NoUnaccountedExecution /\ [Next]_vars
    => Processes' /\ NoUnaccountedExecution'
<1> DEFINE P == Processes /\ NoUnaccountedExecution
<1> SUFFICES ASSUME TypeOK, LeaseAgreement, Control, Processes, NoUnaccountedExecution, [Next]_vars
             PROVE  P'
  OBVIOUS
<1> USE JobAssumption DEF Processes, NoUnaccountedExecution, Jobs, At, Launched
<1>0. /\ record \in [Jobs -> RecordState] /\ child \in [Jobs -> ChildState]
      /\ slotJob \in Jobs \cup {NoJob} /\ current \in Jobs \cup {NoJob}
      /\ current # NoJob => slotJob = current /\ worker \in {"up", "stopping"}
  BY DEF TypeOK, LeaseAgreement, Control
<1>1. CASE WebStep
  BY <1>1 DEF WebStep, SubmitRun, RetryRun, CreateRun, CancelQueued, CancelActive,
     EnqueuePublication, Revoke, procVars, slotVars, threadVars
<1>2. CASE RecoverSkip \/ HeartbeatFails \/ LeaseExpires \/ StopSignal \/ StopDone \/ StartWorker
  BY <1>0, <1>2 DEF RecoverSkip, HeartbeatFails, LeaseExpires, StopSignal, StopDone, StartWorker,
     procVars, slotVars, threadVars
<1>3. CASE Crash
  BY <1>0, <1>3 DEF Crash, ThreadGone, slotVars
<1>4. ASSUME NEW j \in Jobs, RecoverConfirmed(j) PROVE P'
  BY <1>0, <1>4 DEF RecoverConfirmed, ConfirmedStopped, SetRecord, slotVars, threadVars
<1>5. ASSUME NEW j \in Jobs, RecoverUnconfirmed(j) PROVE P'
  BY <1>0, <1>5 DEF RecoverUnconfirmed, Abandonable, Abandon, SetRecord, threadVars
<1>6. ASSUME NEW j \in Jobs, RecoverFinish(j) PROVE P'
  BY <1>0, <1>6 DEF RecoverFinish, procVars, threadVars
<1>7. ASSUME NEW j \in Jobs, ClaimJob(j) PROVE P'
  BY <1>0, <1>7 DEF ClaimJob, SlotFree, procVars
<1>8. ASSUME NEW j \in Jobs, LaunchStep(j) PROVE P'
  <2> USE LeaveStage DEF SetRecord, SetChild, outside, LaunchStage
  <2>1. CASE Reserve(j) \/ SpawnFails(j)
    BY <1>0, <2>1 DEF Reserve, SpawnFails
  <2>2. CASE Register(j) \/ ClearGate(j) \/ OpenGate(j)
    BY <1>0, <2>2 DEF Register, ClearGate, OpenGate
  <2>3. CASE RequestStop(j) \/ GiveUp(j)
    BY <1>0, <2>3 DEF RequestStop, GiveUp, procVars
  <2>4. CASE Terminate(j) \/ ConfirmLate(j)
    BY <1>0, <2>4 DEF Terminate, ConfirmLate
  <2>5. CASE Misread(j)
    BY <1>0, <2>5 DEF Misread
  <2>6. CASE Collect(j)
    BY <1>0, <2>6, AfterLaunchIsStage DEF Collect, ConfirmedStopped
  <2>7. CASE RemoveFails(j)
    BY <1>0, <2>7 DEF RemoveFails
  <2> QED
    BY <1>8, <2>1, <2>2, <2>3, <2>4, <2>5, <2>6, <2>7 DEF LaunchStep
<1>9. ASSUME NEW j \in Jobs, PipelineStep(j) PROVE P'
  <2> USE LeaveStage DEF outside, procVars, slotVars
  <2>1. CASE StageFails(j) \/ BeginModify(j) \/ BeginAfter(j) \/ Verify(j)
    BY <1>0, <2>1 DEF StageFails, BeginModify, BeginAfter, Advance, Verify
  <2>2. CASE Seal(j) \/ Restricted(j) \/ Succeed(j)
    BY <1>0, <2>2 DEF Seal, Restricted, Succeed, EndWithBundle
  <2>3. CASE WrapUp(j)
    BY <1>0, <2>3 DEF WrapUp, Abandonable, Abandon, SetRecord, ThreadGone
  <2>4. CASE Finalize(j)
    BY <1>0, <2>4 DEF Finalize, ThreadGone
  <2> QED
    BY <1>9, <2>1, <2>2, <2>3, <2>4 DEF PipelineStep
<1>10. ASSUME NEW j \in Jobs, ChildExits(j) PROVE P'
  BY <1>0, <1>10 DEF ChildExits, SetChild, slotVars, threadVars
<1>11. CASE UNCHANGED vars
  BY <1>11 DEF vars, procVars, slotVars, threadVars
<1> QED
  BY <1>1, <1>2, <1>3, <1>4, <1>5, <1>6, <1>7, <1>8, <1>9, <1>10, <1>11
     DEF Next, RecoverStep, ThreadStep

-----------------------------------------------------------------------------
(* Outcomes *)

LEMMA OutcomesStep ==
  IInv /\ [Next]_vars => Outcomes' /\ SuccessIsProved' /\ OutcomesAgree'
<1> DEFINE Q == Outcomes /\ SuccessIsProved /\ OutcomesAgree
<1> SUFFICES ASSUME IInv, [Next]_vars PROVE Q'
  OBVIOUS
<1> USE JobAssumption DEF Outcomes, SuccessIsProved, OutcomesAgree, Jobs, At
<1>0. /\ Outcomes /\ SuccessIsProved /\ OutcomesAgree
      /\ status \in [RunJobs -> Status] /\ stopReason \in [RunJobs -> StopReason]
      /\ bundle \in [RunJobs -> {"none", "sealed", "linked"}] /\ jobState \in [Jobs -> JobState]
      /\ record \in [Jobs -> RecordState] /\ child \in [Jobs -> ChildState]
      /\ current \in Jobs \cup {NoJob} /\ slotJob \in Jobs \cup {NoJob}
      /\ current # NoJob => slotJob = current /\ worker \in {"up", "stopping"}
      /\ current \in RunJobs => stage # "publish"
      /\ \A j \in Jobs : jobState[j] = "RUNNING" <=> slotJob = j
      /\ \A r \in RunJobs : /\ status[r] = "ABSENT" <=> jobState[r] = "ABSENT"
                           /\ status[r] = "QUEUED" <=> jobState[r] = "QUEUED"
      /\ \A j \in Jobs : record[j] = "NONE" => child[j] = "none"
  BY DEF IInv, TypeOK, LeaseAgreement, Control, Processes
<1>1. ASSUME NEW r \in RunJobs, SubmitRun(r) \/ RetryRun(r) PROVE Q'
  BY <1>0, <1>1 DEF SubmitRun, RetryRun, CreateRun, Enqueue, Terminal, procVars, threadVars
<1>2. ASSUME NEW r \in RunJobs, CancelQueued(r) PROVE Q'
  BY <1>0, <1>2 DEF CancelQueued, Transition, Terminal, procVars, threadVars
<1>3. ASSUME NEW r \in RunJobs, CancelActive(r) PROVE Q'
  BY <1>0, <1>3, TransitionFacts DEF CancelActive, Active, Terminal, Status, jobVars, procVars, threadVars
<1>4. ASSUME NEW p \in PubJobs, EnqueuePublication(p) PROVE Q'
  BY <1>0, <1>4 DEF EnqueuePublication, Enqueue, runVars, procVars, threadVars
<1>5. ASSUME NEW a \in Actors, Revoke(a) PROVE Q'
  BY <1>0, <1>5 DEF Revoke, Active, Terminal, procVars, threadVars
<1>6. CASE RecoverSkip \/ LeaseExpires \/ StopSignal \/ StopDone \/ StartWorker
  BY <1>0, <1>6 DEF RecoverSkip, LeaseExpires, StopSignal, StopDone, StartWorker,
     runVars, jobVars, procVars, threadVars
<1>7. CASE HeartbeatFails \/ Crash
  BY <1>0, <1>7 DEF HeartbeatFails, Crash, ThreadGone, runVars, jobVars, procVars
<1>8. ASSUME NEW j \in Jobs, RecoverConfirmed(j) \/ RecoverUnconfirmed(j) \/ ChildExits(j) PROVE Q'
  BY <1>0, <1>8 DEF RecoverConfirmed, RecoverUnconfirmed, ChildExits, Abandon, SetRecord, SetChild,
     runVars, jobVars, threadVars
<1>9. ASSUME NEW j \in Jobs, RecoverFinish(j) PROVE Q'
  BY <1>0, <1>9, TransitionFacts DEF RecoverFinish, LostJobState, Unfinished, Active, Terminal, Status,
     procVars, threadVars
<1>10. ASSUME NEW j \in Jobs, ClaimJob(j) PROVE Q'
  BY <1>0, <1>10 DEF ClaimJob, Transition, Terminal, procVars
<1>11. ASSUME NEW j \in Jobs, LaunchStep(j) PROVE Q'
  <2> USE LeaveStage DEF SetRecord, SetChild, outside, LaunchStage, runVars, jobVars, procVars
  <2>1. CASE RequestStop(j)
    BY <1>0, <2>1, TransitionFacts DEF RequestStop, Active, Terminal, Status
  <2>2. CASE Collect(j)
    BY <1>0, <2>2, AfterLaunchIsStage DEF Collect, ConfirmedStopped
  <2>3. CASE Reserve(j) \/ Register(j) \/ ClearGate(j) \/ OpenGate(j) \/ Misread(j)
    BY <1>0, <2>3 DEF Reserve, Register, ClearGate, OpenGate, Misread, Terminal
  <2>4. CASE SpawnFails(j) \/ Terminate(j) \/ GiveUp(j) \/ ConfirmLate(j) \/ RemoveFails(j)
    BY <1>0, <2>4, LeaveRunFails DEF SpawnFails, Terminate, GiveUp, ConfirmLate, RemoveFails, Terminal
  <2> QED
    BY <1>11, <2>1, <2>2, <2>3, <2>4 DEF LaunchStep
<1>12. ASSUME NEW j \in Jobs, PipelineStep(j) PROVE Q'
  <2> USE DEF outside, procVars, runVars, jobVars
  <2>1. CASE StageFails(j)
    BY <1>0, <2>1, LeaveStage, LeaveRunFails DEF StageFails
  <2>2. CASE BeginModify(j) \/ BeginAfter(j)
    BY <1>0, <2>2, TransitionFacts DEF BeginModify, BeginAfter, Advance, Terminal, Status, Active
  <2>3. CASE Verify(j) \/ Seal(j)
    BY <1>0, <2>3 DEF Verify, Seal, Terminal
  <2>4. CASE Restricted(j) \/ Succeed(j)
    BY <1>0, <2>4, TransitionFacts DEF Restricted, Succeed, EndWithBundle, Terminal, Status, Active
  <2>5. CASE WrapUp(j)
    <3>1. /\ UNCHANGED <<status, stopReason, bundle, jobState, child>> /\ current = j /\ stage = "wrapup"
          /\ \/ record' = record /\ current' = current /\ stage' = "finalize" /\ (~err' => ~err)
             \/ record' = [record EXCEPT ![j] = "ABANDONED"] /\ record[j] # "NONE"
                  /\ current' = current /\ stage' = "finalize" /\ err'
             \/ record' = record /\ current' = NoJob
      BY <2>5, Zenon DEF WrapUp, Abandonable, Abandon, SetRecord, ThreadGone
    <3> QED
      BY <1>0, <3>1 DEF Terminal
  <2>6. CASE Finalize(j)
    BY <1>0, <2>6, TransitionFacts DEF Finalize, EndStatus, Owns, Unfinished, ThreadGone, Active, Terminal, Status
  <2> QED
    BY <1>12, <2>1, <2>2, <2>3, <2>4, <2>5, <2>6 DEF PipelineStep
<1>13. CASE UNCHANGED vars
  BY <1>0, <1>13 DEF vars, runVars, jobVars, procVars, threadVars
<1> QED
  BY <1>1, <1>2, <1>3, <1>4, <1>5, <1>6, <1>7, <1>8, <1>9, <1>10, <1>11, <1>12, <1>13
     DEF Next, WebStep, RecoverStep, ThreadStep

-----------------------------------------------------------------------------
(* The theorems *)

LEMMA IInvInit == Init => IInv
<1> SUFFICES ASSUME Init PROVE IInv
  OBVIOUS
<1>1. TypeOK
  BY TypeInit
<1> QED
  BY <1>1, JobAssumption DEF Init, IInv, LeaseAgreement, NoUnaccountedExecution, SuccessIsProved,
     OutcomesAgree, Control, Processes, Outcomes, Jobs, Active, At, Terminal

LEMMA IInvStep == IInv /\ [Next]_vars => IInv'
  BY TypeStep, LeaseStep, ProcessesStep, OutcomesStep DEF IInv

\* The inductive invariant holds: every safety theorem below is a part of it.
THEOREM IInvariant == Spec => []IInv
  BY IInvInit, IInvStep, PTL DEF Spec

\* Type correctness of the tables and of the worker's threads.
THEOREM TypeCorrect == Spec => []TypeOK
<1>1. IInv => TypeOK
  BY DEF IInv
<1> QED
  BY IInvariant, <1>1, PTL

\* Jobs, runs, slot and thread agree at every moment (claim_job,
\* process_claimed, recover_stale, cancel_run, revoke_actor_work).
THEOREM LeaseAgreementHolds == Spec => []LeaseAgreement
<1>1. IInv => LeaseAgreement
  BY DEF IInv
<1> QED
  BY IInvariant, <1>1, PTL

\* Nothing executes that no record accounts for (launch_process, _collect,
\* terminate_record, recover_stale).
THEOREM ExecutionAccounted == Spec => []NoUnaccountedExecution
<1>1. IInv => NoUnaccountedExecution
  BY DEF IInv
<1> QED
  BY IInvariant, <1>1, PTL

\* A publication's unconfirmed process keeps everything else out of the slot
\* (abandon_local_processes).
THEOREM RemoteWriterKeepsSlot == Spec => []RemoteWriterHoldsSlot
<1>1. IInv => RemoteWriterHoldsSlot
  BY DEF IInv, Processes, RemoteWriterHoldsSlot, Jobs
<1> QED
  BY IInvariant, <1>1, PTL

\* A run that SUCCEEDED left no process behind (execute_run, transition_run).
THEOREM SuccessProved == Spec => []SuccessIsProved
<1>1. IInv => SuccessIsProved
  BY DEF IInv
<1> QED
  BY IInvariant, <1>1, PTL

\* What a job says of its run is what the run says of itself (process_claimed).
THEOREM OutcomesAlwaysAgree == Spec => []OutcomesAgree
<1>1. IInv => OutcomesAgree
  BY DEF IInv
<1> QED
  BY IInvariant, <1>1, PTL

\* A job is never handed out a second time (claim_job, recover_stale).
THEOREM NothingReplayed == Spec => NeverReplayed
<1> DEFINE Once == \A j \in Jobs : jobEpoch[j] # 0 => jobEpoch'[j] = jobEpoch[j]
<1>1. ASSUME IInv, [Next]_vars PROVE [Once]_vars
  <2> USE <1>1
  <2>0. jobEpoch \in [Jobs -> Nat] /\ \A j \in Jobs : jobState[j] = "QUEUED" => jobEpoch[j] = 0
    BY DEF IInv, TypeOK, LeaseAgreement
  <2>1. ASSUME NEW j \in Jobs, ClaimJob(j) PROVE Once
    BY <2>0, <2>1 DEF ClaimJob
  <2>2. ASSUME NEW j \in Jobs, ThreadStep(j) PROVE Once
    <3>1. CASE Finalize(j)
      BY <3>1 DEF Finalize
    <3> QED
      BY <2>2, <3>1, ThreadFrame DEF IInv
  <2>3. ASSUME ~(\E j \in Jobs : ClaimJob(j) \/ ThreadStep(j)), Next PROVE Once
    BY <2>3 DEF Next, WebStep, SubmitRun, RetryRun, CreateRun, Enqueue, CancelQueued, CancelActive,
       EnqueuePublication, Revoke, RecoverStep, RecoverSkip, RecoverConfirmed, RecoverUnconfirmed,
       RecoverFinish, HeartbeatFails, LeaseExpires, Crash, StopSignal, StopDone, StartWorker, ChildExits,
       jobVars
  <2> QED
    BY <2>1, <2>2, <2>3 DEF Next
<1> QED
  BY IInvariant, <1>1, PTL DEF Spec, NeverReplayed

-----------------------------------------------------------------------------
(* RunWorker implements SerialExecutor *)

\* The refinement mapping, one status at a time.
LEMMA Phases ==
  /\ \A s \in Active : PhaseOf(s) = "working"
  /\ PhaseOf("ABSENT") = "absent" /\ PhaseOf("QUEUED") = "waiting"
  /\ PhaseOf("CANCEL_REQUESTED") = "stopping" /\ PhaseOf("SUCCEEDED") = "succeeded"
  /\ PhaseOf("FAILED") = "failed" /\ PhaseOf("CANCELLED") = "cancelled"
  /\ PhaseOf("INTERRUPTED") = "interrupted"
  BY DEF PhaseOf, Active

LEMMA PhaseMove ==
  ASSUME status \in [RunJobs -> Status], NEW r \in RunJobs, NEW to \in Status,
         status' = [status EXCEPT ![r] = to]
  PROVE  phaseOf' = [phaseOf EXCEPT ![r] = PhaseOf(to)] /\ phaseOf[r] = PhaseOf(status[r])
  BY DEF phaseOf

LEMMA PhaseStill == UNCHANGED status => UNCHANGED phaseOf
  BY DEF phaseOf

\* A change of one status is the step of SerialExecutor that its phases name.
LEMMA TransitionImplements ==
  ASSUME IInv, NEW r \in RunJobs, NEW to \in Status \ {"PREPARING"}, Transition(r, to),
         to = "FAILED" => status[r] # "QUEUED"
  PROVE  [Serial!Next]_phaseOf
<1>1. status \in [RunJobs -> Status]
  BY DEF IInv, TypeOK
<1>2. /\ phaseOf' = [phaseOf EXCEPT ![r] = PhaseOf(to)] /\ phaseOf[r] = PhaseOf(status[r])
      /\ status[r] \in Active \cup {"QUEUED", "CANCEL_REQUESTED"}
      /\ <<status[r], to>> \in TRANSITIONS
  BY <1>1, PhaseMove, TransitionFacts DEF Transition, CanTransition
<1>3. CASE to \in Active
  <2>1. status[r] \in Active
    BY <1>2, <1>3 DEF TRANSITIONS, Active
  <2>2. phaseOf' = phaseOf
    BY <1>2, <1>3, <2>1, Phases DEF phaseOf
  <2> QED BY <2>2
<1>4. CASE to = "CANCELLED"
  <2>1. status[r] \in {"QUEUED", "CANCEL_REQUESTED"}
    BY <1>2, <1>4 DEF TRANSITIONS, Active
  <2>2. Serial!Withdraw(r) \/ Serial!Cancel(r)
    BY <1>2, <1>4, <2>1, Phases DEF Serial!Withdraw, Serial!Cancel, Serial!Move
  <2> QED BY <2>2 DEF Serial!Next
<1>5. CASE to = "CANCEL_REQUESTED"
  <2>1. status[r] \in Active
    BY <1>2, <1>5 DEF TRANSITIONS, Active
  <2>2. Serial!AskToStop(r)
    BY <1>2, <1>5, <2>1, Phases DEF Serial!AskToStop, Serial!Move
  <2> QED BY <2>2 DEF Serial!Next
<1>6. CASE to = "SUCCEEDED"
  <2>1. status[r] \in Active
    BY <1>2, <1>6 DEF TRANSITIONS, Active
  <2>2. Serial!Succeed(r)
    BY <1>2, <1>6, <2>1, Phases DEF Serial!Succeed, Serial!Move
  <2> QED BY <2>2 DEF Serial!Next
<1>7. CASE to = "FAILED"
  <2>1. Serial!Fail(r)
    BY <1>2, <1>7, Phases DEF Serial!Fail, Serial!Move, Serial!Busy
  <2> QED BY <2>1 DEF Serial!Next
<1>8. CASE to = "INTERRUPTED"
  <2>1. status[r] \in Active \cup {"CANCEL_REQUESTED"}
    BY <1>2, <1>8 DEF TRANSITIONS, Active
  <2>2. Serial!Interrupt(r)
    BY <1>2, <1>8, <2>1, Phases DEF Serial!Interrupt, Serial!Move, Serial!Busy
  <2> QED BY <2>2 DEF Serial!Next
<1> QED
  BY <1>2, <1>3, <1>4, <1>5, <1>6, <1>7, <1>8 DEF TRANSITIONS, Active, Status, Terminal

LEMMA StepImplements == IInv /\ [Next]_vars => [Serial!Next]_phaseOf
<1> SUFFICES ASSUME IInv, [Next]_vars PROVE [Serial!Next]_phaseOf
  OBVIOUS
<1>0. /\ TypeOK /\ LeaseAgreement /\ status \in [RunJobs -> Status] /\ jobState \in [Jobs -> JobState]
      /\ RunJobs \subseteq Jobs
  BY DEF IInv, TypeOK, Jobs
<1>1. ASSUME NEW r \in RunJobs, SubmitRun(r) \/ RetryRun(r) PROVE [Serial!Next]_phaseOf
  <2>1. status[r] = "ABSENT" /\ status' = [status EXCEPT ![r] = "QUEUED"]
    BY <1>1 DEF SubmitRun, RetryRun, CreateRun
  <2>2. phaseOf' = [phaseOf EXCEPT ![r] = PhaseOf("QUEUED")] /\ phaseOf[r] = PhaseOf("ABSENT")
    BY <1>0, <2>1, PhaseMove, "QUEUED" \in Status DEF Status
  <2>3. Serial!Submit(r)
    BY <2>2, Phases DEF Serial!Submit, Serial!Move
  <2> QED BY <2>3 DEF Serial!Next
<1>2. ASSUME NEW r \in RunJobs, CancelQueued(r) \/ CancelActive(r) PROVE [Serial!Next]_phaseOf
  BY <1>2, TransitionImplements DEF CancelQueued, CancelActive, Status, Terminal
<1>3. ASSUME NEW a \in Actors, Revoke(a) PROVE [Serial!Next]_phaseOf
  <2> DEFINE S == {r \in RunJobs : Owner[r] = a}
  <2>1. phaseOf' = [r \in RunJobs |-> IF r \notin S THEN phaseOf[r]
                                       ELSE IF phaseOf[r] = "waiting" THEN "cancelled"
                                       ELSE IF phaseOf[r] = "working" THEN "stopping"
                                       ELSE phaseOf[r]]
    <3>1. ASSUME NEW r \in RunJobs
          PROVE  PhaseOf(status'[r]) = IF r \notin S THEN phaseOf[r]
                                       ELSE IF phaseOf[r] = "waiting" THEN "cancelled"
                                       ELSE IF phaseOf[r] = "working" THEN "stopping"
                                       ELSE phaseOf[r]
      <4>1. phaseOf[r] = PhaseOf(status[r]) /\ status[r] \in Status
        BY <1>0 DEF phaseOf
      <4>2. status'[r] = IF r \notin S \/ status[r] \notin Active \cup {"QUEUED"} THEN status[r]
                         ELSE IF status[r] = "QUEUED" THEN "CANCELLED" ELSE "CANCEL_REQUESTED"
        BY <1>0, <1>3 DEF Revoke
      <4> QED
        BY <4>1, <4>2, Phases DEF Status, Active, Terminal
    <3> QED
      BY <3>1 DEF phaseOf
  <2>2. Serial!StopMany(S) /\ S \in SUBSET RunJobs
    BY <2>1 DEF Serial!StopMany
  <2> QED BY <2>2 DEF Serial!Next
<1>4. ASSUME NEW j \in Jobs, ClaimJob(j) PROVE [Serial!Next]_phaseOf
  <2>1. CASE j \in RunJobs
    <3>1. /\ status[j] = "QUEUED" /\ status' = [status EXCEPT ![j] = "PREPARING"]
          /\ \A q \in RunJobs : status[q] \notin Active \cup {"CANCEL_REQUESTED"}
      BY <1>0, <1>4, <2>1, JobAssumption DEF ClaimJob, SlotFree, Transition, LeaseAgreement, Jobs
    <3>2. \A q \in RunJobs : phaseOf[q] \notin Serial!Busy
      BY <1>0, <3>1, Phases DEF phaseOf, Serial!Busy, Status, Active, Terminal
    <3>3. phaseOf' = [phaseOf EXCEPT ![j] = PhaseOf("PREPARING")] /\ phaseOf[j] = PhaseOf("QUEUED")
      BY <1>0, <2>1, <3>1, PhaseMove, "PREPARING" \in Status DEF Status, Active
    <3>4. Serial!Start(j)
      BY <3>2, <3>3, Phases DEF Serial!Start, Serial!Move, Active
    <3> QED BY <2>1, <3>4 DEF Serial!Next
  <2>2. CASE j \notin RunJobs
    BY <1>4, <2>2, PhaseStill DEF ClaimJob
  <2> QED BY <2>1, <2>2
<1>5. ASSUME NEW j \in Jobs, RecoverFinish(j) PROVE [Serial!Next]_phaseOf
  BY <1>5, PhaseStill, TransitionImplements DEF RecoverFinish, Status, Terminal
<1>6. ASSUME NEW j \in Jobs, Finalize(j) PROVE [Serial!Next]_phaseOf
  <2>1. j \in RunJobs => status[j] # "QUEUED"
    BY <1>0, <1>6 DEF Finalize, Owns, LeaseAgreement
  <2>2. UNCHANGED status \/ (j \in RunJobs /\ Transition(j, EndStatus(j)))
    BY <1>6 DEF Finalize
  <2>3. EndStatus(j) \in Status \ {"PREPARING"}
    BY DEF EndStatus, Status, Terminal
  <2> QED BY <2>1, <2>2, <2>3, PhaseStill, TransitionImplements
<1>7. ASSUME NEW j \in Jobs, ThreadStep(j), ~Finalize(j) PROVE [Serial!Next]_phaseOf
  <2>1. j \in RunJobs => status[j] # "QUEUED"
    BY <1>0, <1>7, ThreadFrame, JobAssumption DEF LeaseAgreement, Jobs
  <2> QED BY <1>0, <1>7, <2>1, ThreadStatus, PhaseStill, TransitionImplements
<1>8. ASSUME ~(\E j \in Jobs : ClaimJob(j) \/ RecoverFinish(j) \/ ThreadStep(j)),
             ~(\E r \in RunJobs : SubmitRun(r) \/ RetryRun(r) \/ CancelQueued(r) \/ CancelActive(r)),
             ~(\E a \in Actors : Revoke(a)), Next
      PROVE  UNCHANGED status
  BY <1>8 DEF Next, WebStep, EnqueuePublication, RecoverStep, RecoverSkip, RecoverConfirmed,
     RecoverUnconfirmed, HeartbeatFails, LeaseExpires, Crash, StopSignal, StopDone, StartWorker,
     ChildExits, runVars
<1>9. CASE UNCHANGED vars
  BY <1>9, PhaseStill DEF vars, runVars
<1> QED
  BY <1>1, <1>2, <1>3, <1>4, <1>5, <1>6, <1>7, <1>8, <1>9, PhaseStill

\* The worker with its leases, crashes and recovery implements the promise that
\* runs are worked on one at a time, each once, and that a stopped run never
\* succeeds (claim_job, transition_run, recover_stale).
THEOREM RefinesSerialExecutor == Spec => ImplementsSerialExecutor
<1>1. Init => Serial!Init
  BY Phases DEF Init, Serial!Init, phaseOf
<1> QED
  BY IInvariant, <1>1, StepImplements, PTL DEF Spec, ImplementsSerialExecutor, Serial!Spec
==============================================================================
