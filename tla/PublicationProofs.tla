--------------------------- MODULE PublicationProofs ---------------------------
(***************************************************************************)
(* What holds of publishing for any number of publications, runs and       *)
(* administrators, with or without others at the remote.                   *)
(*                                                                         *)
(* The safety properties of Publication are not inductive one by one: that *)
(* no state hides what is at the remote needs to know what the handler has *)
(* stored before it fails (Noticed), which stage goes with which state     *)
(* (Executing), and which jobs there can be (JobsFit); that a branch has   *)
(* one owner needs that nothing is sent while another of the run is live.  *)
(* IInv is their conjunction with these parts.  Each part has one lemma    *)
(* over the steps, with a leaf per action or group of actions and only the *)
(* parts that it needs; the theorems follow at the end.                    *)
(***************************************************************************)
EXTENDS Publication, TLAPS

-----------------------------------------------------------------------------
(* The inductive invariant *)

\* The rows of the publications and the jobs are of their types.
Rows ==
  /\ state \in [Pubs -> State] /\ pinned \in [Pubs -> BOOLEAN] /\ reconciled \in [Pubs -> BOOLEAN]
  /\ abandoned \in [Pubs -> BOOLEAN] /\ valid \in [Pubs -> BOOLEAN] /\ samePolicy \in [Pubs -> BOOLEAN]
  /\ scope \in [Pubs -> Grants \cup {"none", "REJECT"}] /\ approver \in [Pubs -> Admins]
  /\ knownBranch \in [Pubs -> Pubs \cup {Absent, Foreign}] /\ knownPr \in [Pubs -> BOOLEAN]
  /\ branch \in [Runs -> Pubs \cup {Absent, Foreign}] /\ pr \in [Runs -> Pubs \cup {Absent, Foreign}]
  /\ jobs \subseteq Jobs /\ working \in jobs \cup {NoJob}
  /\ \A p \in Pubs : working \in {<<"prepare", p>>, <<"execute", p>>, <<"reconcile", p>>} => working \in jobs

\* A branch, a pull request or an undecided write of p at the remote.
Remote(p) == branch[RunOf[p]] = p \/ pr[RunOf[p]] = p \/ outstanding \cap (Writes \X {p}) # {}
\* All that the approval of p is about has landed.
Landed(p) == <<"push", p>> \in landed /\ (p \in PullRequest => <<"pr", p>> \in landed)

\* Which jobs a publication can have: one that is being prepared or waits for
\* its decision none of the other kinds, and never two of the other kinds.
JobsFit ==
  \A p \in Pubs :
    /\ <<"prepare", p>> \in jobs => state[p] = "ABSENT" \/ At("prepare", p, {"done", "marked", "lost"})
    /\ state[p] \in {"ABSENT", "PENDING_APPROVAL"} => NoLiveJobs(p) /\ ~valid[p]
    /\ ~(<<"execute", p>> \in jobs /\ <<"reconcile", p>> \in jobs)

\* How the state goes with the stage of the execute handler.
Executing ==
  \A p \in Pubs : working = <<"execute", p>> =>
    /\ stage = "begin" => state[p] = "APPROVED" \/ ~valid[p]
    /\ stage \in Trying \ {"begin"} => state[p] \in {"PUBLISHING", "UNKNOWN"}
    /\ stage \in {"begin", "except"} => state[p] # "PUBLISHED"
    /\ stage \in {"done", "marked"} => state[p] \notin {"APPROVED", "PUBLISHING"}
    /\ dispatched => state[p] \in {"PUBLISHING", "UNKNOWN"}
    /\ stage \in {"check", "authorize", "send", "sent"} => dispatched
    /\ stage = "publish" => ~dispatched

\* While a publication is executed no other of its run is live.
Alone ==
  \A p \in Pubs : At("execute", p, Trying \cup {"except"}) =>
    \A q \in Others(p) : state[q] \notin Live \/ abandoned[q]

\* What the handler knows of the remote when it is about to write.
Aiming ==
  \A p \in Pubs : At("execute", p, {"authorize", "send"}) =>
    IF write = "push" THEN branch[RunOf[p]] # p
    ELSE pr[RunOf[p]] # p /\ branch[RunOf[p]] \in {p, Absent, Foreign}

\* A write that is not decided is the one of the handler that sent it.
InFlight ==
  outstanding # {} => \E p \in Pubs :
    /\ At("execute", p, {"sent", "except", "done", "lost"}) /\ dispatched
    /\ outstanding = {<<write, p>>}
    /\ write = "pr" => branch[RunOf[p]] \in {p, Absent, Foreign}

\* What bears the mark of p was landed by p.
OursLanded ==
  \A r \in Runs, p \in Pubs :
    (branch[r] = p => <<"push", p>> \in landed) /\ (pr[r] = p => <<"pr", p>> \in landed)

\* What the handlers have seen at the remote.
Seen ==
  \A p \in Pubs :
    /\ At("execute", p, {"publish"}) => Landed(p)
    /\ At("reconcile", p, {"assess"}) => verdict = "PARTIAL" /\ Landed(p)
    /\ At("reconcile", p, {"settle"}) =>
         /\ verdict \in {"PARTIAL", "UNKNOWN", "FAILED", "PUBLISHED"}
         /\ verdict = "PUBLISHED" => Landed(p)

\* What reconciling has stored of the remote.
Reconciling ==
  \A p \in Pubs :
    /\ At("reconcile", p, {"assess", "settle"}) /\ verdict = "PARTIAL" => Effects(p)
    /\ At("reconcile", p, {"settle"}) /\ verdict = "FAILED" =>
         ~Remote(p) /\ ~Effects(p) /\ branch[RunOf[p]] \notin Pubs

\* What is at the remote is stored, or the state or the handler says that it may be.
Noticed ==
  \A p \in Pubs : Remote(p) => \/ Effects(p) \/ state[p] \in {"UNKNOWN", "PUBLISHED"}
                               \/ working = <<"execute", p>> /\ dispatched

\* PARTIAL is said only where an effect is stored.
PartialSeen == \A p \in Pubs : state[p] = "PARTIAL" => Effects(p)

\* Whose own branch was seen once is live.
SeenLive == \A p \in Pubs : knownBranch[p] = p =>
  state[p] \in {"APPROVED", "PUBLISHING", "PUBLISHED", "UNKNOWN", "PARTIAL"}

\* A proposal is made while the branch of its run is nobody's.
Proposing == \A p \in Pubs : At("prepare", p, {"create"}) => branch[RunOf[p]] \notin Pubs

\* While the branch is of one, no other that could be approved for it is alive.
Owned ==
  \A p \in Pubs : branch[RunOf[p]] = p => \A q \in Others(p) :
    \/ abandoned[q]
    \/ state[q] \notin {"PENDING_APPROVAL", "APPROVED", "PUBLISHING", "FAILED"} /\ knownBranch[q] # q

\* The inductive invariant: the properties and the parts they rest on.
IInv ==
  /\ TypeOK /\ ApprovalHasJob /\ NothingHidden /\ PublishedIsTrue /\ AbandonedIsOver /\ OneLiveTarget
  /\ JobsFit /\ Executing /\ Alone /\ Aiming /\ InFlight /\ OursLanded
  /\ Seen /\ Reconciling /\ Noticed /\ PartialSeen /\ SeenLive /\ Proposing /\ Owned

-----------------------------------------------------------------------------
(* What the shared parts of the actions do to the rows *)

\* Rows follows from the types; who is in the slot is in the queue as well.
LEMMA RowsHold == TypeOK => Rows
<1> SUFFICES ASSUME TypeOK PROVE Rows
  OBVIOUS
<1>1. \A p \in Pubs : working \in {<<"prepare", p>>, <<"execute", p>>, <<"reconcile", p>>} => working \in jobs
  BY NoJobAssumption DEF TypeOK, Jobs, Kinds
<1> QED BY <1>1 DEF TypeOK, Flags, Rows

\* What mark_job_interrupted does to the rows.
Interrupted(k, p) ==
  /\ \A q \in Pubs \ {p} : state'[q] = state[q] /\ pinned'[q] = pinned[q] /\ valid'[q] = valid[q]
  /\ pinned'[p] => pinned[p]
  /\ IF k = "prepare" \/ abandoned[p] \/ state[p] \in Closed
     THEN state'[p] = state[p] /\ valid'[p] = valid[p]
     ELSE /\ ~valid'[p]
          /\ \/ state'[p] = "UNKNOWN"
             \/ state[p] \notin {"PUBLISHING", "UNKNOWN"} /\ state'[p] = VoidState(p)

\* Only the row of p changes, and its state by what was known of it.
LEMMA InterruptFacts == ASSUME Rows, NEW k, NEW p \in Pubs, Interrupt(k, p) PROVE Interrupted(k, p)
  BY DEF Rows, Interrupt, InvalidateAll, Void, Interrupted

\* What the except block of _reconcile_job does to the rows.
Doubted(p) ==
  /\ \A q \in Pubs \ {p} : state'[q] = state[q]
  /\ \/ state'[p] = state[p] /\ stage' = "failed"
     \/ state'[p] = "UNKNOWN" /\ Unique(p, "UNKNOWN") /\ stage' = "done"

\* Only the row of p changes, to UNKNOWN if it can be written.
LEMMA DoubtFacts == ASSUME Rows, NEW p \in Pubs, Doubt(p) PROVE Doubted(p)
  BY DEF Rows, Doubt, Writable, GoTo, Doubted

\* What others do at the remote leaves nothing that bears a mark of ours.
Outside ==
  \A r \in Runs : branch'[r] \in {branch[r], Absent, Foreign} /\ pr'[r] \in {pr[r], Foreign}

\* A branch or pull request stays, or is nobody's.
LEMMA OutsideFacts == ASSUME Rows, NEW r \in Runs, OutsideChange(r) PROVE Outside
<1>1. CASE \E b \in {Absent, Foreign} : branch' = [branch EXCEPT ![r] = b] /\ UNCHANGED pr
  BY <1>1 DEF Rows, Outside
<1>2. CASE pr' = [pr EXCEPT ![r] = Foreign] /\ UNCHANGED branch
  BY <1>2 DEF Rows, Outside
<1> QED BY <1>1, <1>2 DEF OutsideChange

\* _remember stores what the remote shows for p, and erases nothing.
Remembered(p) ==
  /\ \A q \in Pubs \ {p} : knownBranch'[q] = knownBranch[q] /\ (knownPr'[q] <=> knownPr[q])
  /\ knownBranch'[p] = IF branch[RunOf[p]] # Absent THEN branch[RunOf[p]] ELSE knownBranch[p]
  /\ knownPr'[p] <=> knownPr[p] \/ PrExists(p)
  /\ \A q \in Pubs : Effects(q) => Effects(q)'
  /\ Pushed(p) => Effects(p)'
  /\ Effects(p)' => Effects(p) \/ branch[RunOf[p]] # Absent \/ PrExists(p)

\* An effect that is stored stays, and a branch that is there is stored.
LEMMA RememberFacts == ASSUME Rows, NEW p \in Pubs, Remember(p) PROVE Remembered(p)
  BY ZenonT(60), PublicationAssumption DEF Rows, Remember, Remembered, Effects, Pushed, PrExists

\* What revoke_actor_publications and revoke_actor_work do to the rows.
Revoked(a) ==
  /\ \A q \in Pubs : /\ valid'[q] <=> valid[q] /\ q \notin Granted(a)
                     /\ pinned'[q] => pinned[q]
                     /\ IF q \in Granted(a) /\ state[q] \notin Closed
                        THEN state'[q] = IF state[q] \in {"PUBLISHING", "UNKNOWN"} THEN "UNKNOWN" ELSE VoidState(q)
                        ELSE state'[q] = state[q]
                     /\ <<"execute", q>> \in jobs /\ approver[q] # a => <<"execute", q>> \in jobs'
  /\ jobs' \subseteq jobs /\ (working \in jobs => working \in jobs')

\* What was granted by another keeps its state, its approval and its job.
LEMMA RevokeFacts == ASSUME Rows, NEW a \in Admins, Revoke(a) PROVE Revoked(a)
<1>1. \A q \in Pubs : /\ valid'[q] <=> valid[q] /\ q \notin Granted(a)
                      /\ pinned'[q] => pinned[q]
  BY DEF Rows, Revoke, Void
<1>2. ASSUME NEW q \in Pubs
      PROVE  IF q \in Granted(a) /\ state[q] \notin Closed
             THEN state'[q] = IF state[q] \in {"PUBLISHING", "UNKNOWN"} THEN "UNKNOWN" ELSE VoidState(q)
             ELSE state'[q] = state[q]
  BY DEF Rows, Revoke
<1>3. /\ jobs' \subseteq jobs /\ (working \in jobs => working \in jobs')
      /\ \A q \in Pubs : <<"execute", q>> \in jobs /\ approver[q] # a => <<"execute", q>> \in jobs'
  BY DEF Revoke, Queued
<1> QED BY <1>1, <1>2, <1>3 DEF Revoked

-----------------------------------------------------------------------------
(* Types *)

\* Every Boolean stays one.
LEMMA FlagsStep == Flags /\ [Next]_vars => Flags'
<1> SUFFICES ASSUME Flags, [Next]_vars PROVE Flags'
  OBVIOUS
<1> USE DEF Flags, pubVars, knownVars, grantVars, policyVars, localVars, remoteVars, handlerVars, keepDb,
    keepLocals, At, GoTo
<1>1. ASSUME NEW p \in Pubs, PreparePublication(p)
       PROVE  Flags'
  BY <1>1, Zenon DEF PreparePublication
<1>2. ASSUME NEW p \in Pubs, ReconcilePublication(p)
       PROVE  Flags'
  BY <1>2, Zenon DEF ReconcilePublication
<1>3. ASSUME NEW p \in Pubs, AbandonRemaining(p)
       PROVE  Flags'
  BY <1>3, Zenon DEF AbandonRemaining, Void
<1>4. ASSUME NEW p \in Pubs, NEW a \in Admins, Approve(p, a)
       PROVE  Flags'
  BY <1>4, Zenon DEF Approve, Grant
<1>5. ASSUME NEW p \in Pubs, NEW a \in Admins, Reject(p, a)
       PROVE  Flags'
  BY <1>5, Zenon DEF Reject, Grant
<1>6. ASSUME NEW p \in Pubs, NEW a \in Admins, RetryPublication(p, a)
       PROVE  Flags'
  BY <1>6, Zenon DEF RetryPublication, Recovery, Grant
<1>7. ASSUME NEW p \in Pubs, NEW a \in Admins, ApproveRemaining(p, a)
       PROVE  Flags'
  BY <1>7, Zenon DEF ApproveRemaining, Recovery, Grant
<1>8. CASE ConfigurePolicy
  BY <1>8, Zenon DEF ConfigurePolicy, InvalidateAll, Void, Outdates
<1>9. ASSUME NEW a \in Admins, Revoke(a)
       PROVE  Flags'
  BY <1>9, Zenon DEF Revoke, Void, Outdates
<1>10. ASSUME NEW a \in Admins, Regain(a)
       PROVE  Flags'
  BY <1>10, Zenon DEF Regain
<1>11. ASSUME NEW j \in Jobs, ClaimJob(j)
       PROVE  Flags'
  BY <1>11, Zenon DEF ClaimJob, NoLocals
<1>12. ASSUME NEW p \in Pubs, LookBeforeCreate(p)
       PROVE  Flags'
  BY <1>12, Zenon DEF LookBeforeCreate
<1>13. ASSUME NEW p \in Pubs, CreatePublication(p)
       PROVE  Flags'
  BY <1>13, Zenon DEF CreatePublication
<1>14. ASSUME NEW p \in Pubs, CreateFails(p)
       PROVE  Flags'
  BY <1>14, Zenon DEF CreateFails
<1>15. ASSUME NEW p \in Pubs, StartExecute(p)
       PROVE  Flags'
  BY <1>15, Zenon DEF StartExecute
<1>16. ASSUME NEW p \in Pubs, BeginPublishing(p)
       PROVE  Flags'
  BY <1>16, Zenon DEF BeginPublishing
<1>17. ASSUME NEW p \in Pubs, Raise(p)
       PROVE  Flags'
  BY <1>17, Zenon DEF Raise
<1>18. ASSUME NEW p \in Pubs, LookAndRaise(p)
       PROVE  Flags'
  BY <1>18, Zenon DEF LookAndRaise, Remember, Confirms
<1>19. ASSUME NEW p \in Pubs, Look(p)
       PROVE  Flags'
  BY <1>19, Zenon DEF Look, Remember, PrExists
<1>20. ASSUME NEW p \in Pubs, Dispatch(p)
       PROVE  Flags'
  BY <1>20, Zenon DEF Dispatch
<1>21. ASSUME NEW p \in Pubs, CheckTarget(p)
       PROVE  Flags'
  BY <1>21, Zenon DEF CheckTarget, PrExists
<1>22. ASSUME NEW p \in Pubs, Authorize(p)
       PROVE  Flags'
  BY <1>22, Zenon DEF Authorize
<1>23. ASSUME NEW p \in Pubs, Send(p)
       PROVE  Flags'
  BY <1>23, Zenon DEF Send
<1>24. ASSUME NEW p \in Pubs, Reply(p)
       PROVE  Flags'
  BY <1>24, Zenon DEF Reply
<1>25. ASSUME NEW p \in Pubs, ConfirmPush(p)
       PROVE  Flags'
  BY <1>25, Zenon DEF ConfirmPush, Remember, PrExists
<1>26. ASSUME NEW p \in Pubs, Renew(p)
       PROVE  Flags'
  BY <1>26, Zenon DEF Renew
<1>27. ASSUME NEW p \in Pubs, LookAgain(p)
       PROVE  Flags'
  BY <1>27, Zenon DEF LookAgain, Remember, PrExists
<1>28. ASSUME NEW p \in Pubs, LookFinally(p)
       PROVE  Flags'
  BY <1>28, Zenon DEF LookFinally, Remember
<1>29. ASSUME NEW p \in Pubs, Publish(p)
       PROVE  Flags'
  BY <1>29, Zenon DEF Publish
<1>30. ASSUME NEW p \in Pubs, HandleFailure(p)
       PROVE  Flags'
  <2>1. pinned' \in [Pubs -> BOOLEAN]
    BY <1>30, Zenon DEF HandleFailure
  <2>2. valid' \in [Pubs -> BOOLEAN]
    BY <1>30, Zenon DEF HandleFailure, Void
  <2>3. UNCHANGED <<reconciled, abandoned, knownPr, rejected, samePolicy, attempted, dispatched, seenPr,
      fresh>>
    BY <1>30, Zenon DEF HandleFailure
  <2> QED BY <2>1, <2>2, <2>3, Zenon
<1>31. ASSUME NEW p \in Pubs, StartReconcile(p)
       PROVE  Flags'
  BY <1>31, Zenon DEF StartReconcile
<1>32. ASSUME NEW p \in Pubs, Observe(p)
       PROVE  Flags'
  BY <1>32, Zenon DEF Observe, Remember, PrExists
<1>33. ASSUME NEW p \in Pubs, Assess(p)
       PROVE  Flags'
  BY <1>33, Zenon DEF Assess
<1>34. ASSUME NEW p \in Pubs, Settle(p)
       PROVE  Flags'
  BY <1>34, Zenon DEF Settle
<1>35. ASSUME NEW p \in Pubs, ReconcileFails(p)
       PROVE  Flags'
  <2>1. reconciled' \in [Pubs -> BOOLEAN]
    BY <1>35, Zenon DEF ReconcileFails, Doubt
  <2>2. knownPr' \in [Pubs -> BOOLEAN]
    BY <1>35, Zenon DEF ReconcileFails, Remember
  <2>3. UNCHANGED <<pinned, abandoned, valid, rejected, samePolicy, attempted, dispatched, seenPr, fresh>>
    BY <1>35, Zenon DEF ReconcileFails
  <2> QED BY <2>1, <2>2, <2>3, Zenon
<1>36. ASSUME NEW k \in Kinds, NEW p \in Pubs, StartFails(k, p)
       PROVE  Flags'
  BY <1>36, Zenon DEF StartFails
<1>37. ASSUME NEW k \in Kinds, NEW p \in Pubs, MarkInterrupted(k, p)
       PROVE  Flags'
  <2>1. /\ UNCHANGED <<abandoned, knownPr, rejected, samePolicy>>
        /\ UNCHANGED <<attempted, dispatched, seenPr, fresh>>
    BY <1>37, Zenon DEF MarkInterrupted
  <2>2. Interrupt(k, p)
    BY <1>37 DEF MarkInterrupted
  <2>3. pinned' \in [Pubs -> BOOLEAN]
    BY <2>2, Zenon DEF Interrupt, InvalidateAll
  <2>4. reconciled' \in [Pubs -> BOOLEAN] /\ valid' \in [Pubs -> BOOLEAN]
    BY <2>2, Zenon DEF Interrupt, InvalidateAll, Void
  <2> QED BY <2>1, <2>3, <2>4, Zenon
<1>38. ASSUME NEW k \in Kinds, NEW p \in Pubs, Finish(k, p)
       PROVE  Flags'
  BY <1>38, Zenon DEF Finish, FreeSlot, NoLocals
<1>39. CASE LoseHandler
  BY <1>39, Zenon DEF LoseHandler
<1>40. ASSUME NEW k \in Kinds, NEW p \in Pubs, Recover(k, p)
       PROVE  Flags'
  <2>1. /\ UNCHANGED <<abandoned, knownPr, rejected, samePolicy>>
        /\ attempted' = FALSE /\ dispatched' = FALSE /\ seenPr' = FALSE /\ fresh' = FALSE
    BY <1>40, Zenon DEF Recover, FreeSlot, NoLocals
  <2>2. Interrupt(k, p)
    BY <1>40 DEF Recover
  <2>3. pinned' \in [Pubs -> BOOLEAN]
    BY <2>2, Zenon DEF Interrupt, InvalidateAll
  <2>4. reconciled' \in [Pubs -> BOOLEAN] /\ valid' \in [Pubs -> BOOLEAN]
    BY <2>2, Zenon DEF Interrupt, InvalidateAll, Void
  <2> QED BY <2>1, <2>3, <2>4, Zenon
<1>41. ASSUME NEW w \in Writes, NEW p \in Pubs, Land(w, p)
       PROVE  Flags'
  BY <1>41, Zenon DEF Land
<1>42. ASSUME NEW w \in Writes, NEW p \in Pubs, Vanish(w, p)
       PROVE  Flags'
  BY <1>42, Zenon DEF Vanish
<1>43. ASSUME NEW r \in Runs, OutsideChange(r)
       PROVE  Flags'
  BY <1>43, Zenon DEF OutsideChange
<1>44. CASE UNCHANGED vars
  BY <1>44, Zenon DEF vars
<1> QED BY <1>1, <1>2, <1>3, <1>4, <1>5, <1>6, <1>7, <1>8, <1>9, <1>10, <1>11, <1>12, <1>13, <1>14, <1>15,
    <1>16, <1>17, <1>18, <1>19, <1>20, <1>21, <1>22, <1>23, <1>24, <1>25, <1>26, <1>27, <1>28, <1>29, <1>30,
    <1>31, <1>32, <1>33, <1>34, <1>35, <1>36, <1>37, <1>38, <1>39, <1>40, <1>41, <1>42, <1>43, <1>44 DEF Next,
    WebStep, HandlerStep, ExecuteStep, RecoverStep, RemoteStep

\* Types, and that a job is worked on exactly while there is a handler.
LEMMA TypeStep == TypeOK /\ [Next]_vars => TypeOK'
<1> SUFFICES ASSUME TypeOK, [Next]_vars PROVE TypeOK'
  OBVIOUS
<1>0. Flags'
  BY FlagsStep DEF TypeOK
<1> USE <1>0, PublicationAssumption, NoJobAssumption DEF TypeOK, pubVars, knownVars, grantVars, policyVars,
    localVars, remoteVars, handlerVars, keepDb, keepLocals, At, GoTo, State, Live, Closed, Evidence, Grants,
    Writes, Kinds, Jobs, Stage, Trying, Looking
<1>1. ASSUME NEW p \in Pubs, PreparePublication(p)
       PROVE  TypeOK'
  BY <1>1 DEF PreparePublication, Enqueue
<1>2. ASSUME NEW p \in Pubs, ReconcilePublication(p)
       PROVE  TypeOK'
  BY <1>2 DEF ReconcilePublication, Enqueue
<1>3. ASSUME NEW p \in Pubs, AbandonRemaining(p)
       PROVE  TypeOK'
  BY <1>3 DEF AbandonRemaining
<1>4. ASSUME NEW p \in Pubs, NEW a \in Admins, Approve(p, a)
       PROVE  TypeOK'
  BY <1>4 DEF Approve, Enqueue, Grant
<1>5. ASSUME NEW p \in Pubs, NEW a \in Admins, Reject(p, a)
       PROVE  TypeOK'
  BY <1>5 DEF Reject, Grant
<1>6. ASSUME NEW p \in Pubs, NEW a \in Admins, RetryPublication(p, a)
       PROVE  TypeOK'
  BY <1>6 DEF RetryPublication, Recovery, Enqueue, Grant
<1>7. ASSUME NEW p \in Pubs, NEW a \in Admins, ApproveRemaining(p, a)
       PROVE  TypeOK'
  BY <1>7 DEF ApproveRemaining, Recovery, Enqueue, Grant
<1>8. CASE ConfigurePolicy
  BY <1>8 DEF ConfigurePolicy, InvalidateAll, VoidState, VoidState
<1>9. ASSUME NEW a \in Admins, Revoke(a)
       PROVE  TypeOK'
  BY <1>9 DEF Revoke, Grant, VoidState, Queued
<1>10. ASSUME NEW a \in Admins, Regain(a)
       PROVE  TypeOK'
  BY <1>10 DEF Regain
<1>11. CASE \E j \in Jobs : ClaimJob(j)
  BY <1>11 DEF ClaimJob, NoLocals
<1>12. ASSUME NEW p \in Pubs, LookBeforeCreate(p)
       PROVE  TypeOK'
  BY <1>12 DEF LookBeforeCreate
<1>13. ASSUME NEW p \in Pubs, CreatePublication(p)
       PROVE  TypeOK'
  BY <1>13 DEF CreatePublication
<1>14. ASSUME NEW p \in Pubs, CreateFails(p)
       PROVE  TypeOK'
  BY <1>14 DEF CreateFails
<1>15. ASSUME NEW p \in Pubs, StartExecute(p)
       PROVE  TypeOK'
  BY <1>15 DEF StartExecute
<1>16. ASSUME NEW p \in Pubs, BeginPublishing(p)
       PROVE  TypeOK'
  BY <1>16 DEF BeginPublishing
<1>17. ASSUME NEW p \in Pubs, Raise(p)
       PROVE  TypeOK'
  BY <1>17 DEF Raise
<1>18. ASSUME NEW p \in Pubs, LookAndRaise(p)
       PROVE  TypeOK'
  BY <1>18 DEF LookAndRaise, Remember
<1>19. ASSUME NEW p \in Pubs, Look(p)
       PROVE  TypeOK'
  BY <1>19 DEF Look, Remember
<1>20. ASSUME NEW p \in Pubs, Dispatch(p)
       PROVE  TypeOK'
  BY <1>20 DEF Dispatch
<1>21. ASSUME NEW p \in Pubs, CheckTarget(p)
       PROVE  TypeOK'
  BY <1>21 DEF CheckTarget
<1>22. ASSUME NEW p \in Pubs, Authorize(p)
       PROVE  TypeOK'
  BY <1>22 DEF Authorize
<1>23. ASSUME NEW p \in Pubs, Send(p)
       PROVE  TypeOK'
  BY <1>23 DEF Send
<1>24. ASSUME NEW p \in Pubs, Reply(p)
       PROVE  TypeOK'
  BY <1>24 DEF Reply
<1>25. ASSUME NEW p \in Pubs, ConfirmPush(p)
       PROVE  TypeOK'
  BY <1>25 DEF ConfirmPush, Remember
<1>26. ASSUME NEW p \in Pubs, Renew(p)
       PROVE  TypeOK'
  BY <1>26 DEF Renew
<1>27. ASSUME NEW p \in Pubs, LookAgain(p)
       PROVE  TypeOK'
  BY <1>27 DEF LookAgain, Remember
<1>28. ASSUME NEW p \in Pubs, LookFinally(p)
       PROVE  TypeOK'
  BY <1>28 DEF LookFinally, Remember
<1>29. ASSUME NEW p \in Pubs, Publish(p)
       PROVE  TypeOK'
  BY <1>29 DEF Publish
<1>30. ASSUME NEW p \in Pubs, HandleFailure(p)
       PROVE  TypeOK'
  BY <1>30 DEF HandleFailure, FailedState, VoidState
<1>31. ASSUME NEW p \in Pubs, StartReconcile(p)
       PROVE  TypeOK'
  BY <1>31 DEF StartReconcile
<1>32. ASSUME NEW p \in Pubs, Observe(p)
       PROVE  TypeOK'
  BY <1>32 DEF Observe, Remember
<1>33. ASSUME NEW p \in Pubs, Assess(p)
       PROVE  TypeOK'
  BY <1>33 DEF Assess
<1>34. ASSUME NEW p \in Pubs, Settle(p)
       PROVE  TypeOK'
  BY <1>34 DEF Settle
<1>35. ASSUME NEW p \in Pubs, ReconcileFails(p)
       PROVE  TypeOK'
  BY <1>35 DEF ReconcileFails, Doubt, Remember
<1>36. ASSUME NEW k \in Kinds, NEW p \in Pubs, StartFails(k, p)
       PROVE  TypeOK'
  BY <1>36 DEF StartFails
<1>37. ASSUME NEW k \in Kinds, NEW p \in Pubs, MarkInterrupted(k, p)
       PROVE  TypeOK'
  BY <1>37 DEF MarkInterrupted, Interrupt, InvalidateAll, VoidState
<1>38. ASSUME NEW k \in Kinds, NEW p \in Pubs, Finish(k, p)
       PROVE  TypeOK'
  BY <1>38 DEF Finish, FreeSlot, NoLocals
<1>39. CASE LoseHandler \/ RecoverStep
  BY <1>39 DEF LoseHandler, RecoverStep, Recover, Interrupt, InvalidateAll, VoidState, Void, FreeSlot,
      NoLocals
<1>40. CASE RemoteStep
  BY <1>40 DEF RemoteStep, Land, Vanish
<1>41. CASE \E r \in Runs : OutsideChange(r)
  BY <1>41 DEF OutsideChange
<1>42. CASE UNCHANGED vars
  BY <1>42 DEF vars
<1> QED BY <1>1, <1>2, <1>3, <1>4, <1>5, <1>6, <1>7, <1>8, <1>9, <1>10, <1>11, <1>12, <1>13, <1>14, <1>15,
    <1>16, <1>17, <1>18, <1>19, <1>20, <1>21, <1>22, <1>23, <1>24, <1>25, <1>26, <1>27, <1>28, <1>29, <1>30,
    <1>31, <1>32, <1>33, <1>34, <1>35, <1>36, <1>37, <1>38, <1>39, <1>40, <1>41, <1>42 DEF Next, WebStep,
    HandlerStep, ExecuteStep

-----------------------------------------------------------------------------
(* One lemma for each part of the invariant *)

\* Which jobs a publication can have (prepare_publication, decide_publication,
\* _approve_recovery and reconcile_publication ask before they register one).
LEMMA JobsFitStep == TypeOK /\ JobsFit /\ Seen /\ [Next]_vars => JobsFit'
<1> SUFFICES ASSUME TypeOK, JobsFit, Seen, [Next]_vars PROVE JobsFit'
  OBVIOUS
<1>0. Rows
  BY RowsHold
<1> USE <1>0, PublicationAssumption, NoJobAssumption DEF Rows, pubVars, knownVars, grantVars, policyVars,
    localVars, remoteVars, handlerVars, keepDb, keepLocals, At, GoTo
<1>1. ASSUME NEW p \in Pubs, PreparePublication(p)
       PROVE  JobsFit'
  BY <1>1 DEF PreparePublication, JobsFit, Others, Enqueue, NoLiveJobs
<1>2. ASSUME NEW p \in Pubs, ReconcilePublication(p)
       PROVE  JobsFit'
  BY <1>2 DEF ReconcilePublication, JobsFit, NoLiveJobs, Enqueue
<1>3. ASSUME NEW p \in Pubs, AbandonRemaining(p)
       PROVE  JobsFit'
  BY <1>3 DEF AbandonRemaining, JobsFit, NoLiveJobs, Void
<1>4. ASSUME NEW p \in Pubs, LookBeforeCreate(p)
       PROVE  JobsFit'
  BY <1>4 DEF LookBeforeCreate, JobsFit, NoLiveJobs
<1>5. ASSUME NEW p \in Pubs, CreatePublication(p)
       PROVE  JobsFit'
  BY <1>5 DEF CreatePublication, JobsFit, Unique, NoLiveJobs, Live, Others
<1>6. ASSUME NEW p \in Pubs, NEW a \in Admins, Approve(p, a)
       PROVE  JobsFit'
  BY <1>6 DEF Approve, JobsFit, Grant, Enqueue, NoLiveJobs
<1>7. ASSUME NEW p \in Pubs, NEW a \in Admins, Reject(p, a)
       PROVE  JobsFit'
  BY <1>7 DEF Reject, JobsFit, Grant, NoLiveJobs
<1>8. ASSUME NEW p \in Pubs, NEW a \in Admins, RetryPublication(p, a)
       PROVE  JobsFit'
  BY <1>8 DEF RetryPublication, JobsFit, Recovery, NoLiveJobs, Grant, Enqueue
<1>9. ASSUME NEW p \in Pubs, NEW a \in Admins, ApproveRemaining(p, a)
       PROVE  JobsFit'
  BY <1>9 DEF ApproveRemaining, JobsFit, Recovery, NoLiveJobs, Grant, Enqueue
<1>10. CASE ConfigurePolicy
  BY <1>10 DEF ConfigurePolicy, JobsFit, PolicyFree, InvalidateAll, Waiting, Void, Outdates, NoLiveJobs,
      VoidState, Closed, Effects
<1>11. ASSUME NEW a \in Admins, Revoke(a)
       PROVE  JobsFit'
  BY <1>11 DEF Revoke, JobsFit, Granted, Closed, Void, Outdates, VoidState, Queued, NoLiveJobs, Grants,
      Effects
<1>12. ASSUME NEW a \in Admins, Regain(a)
       PROVE  JobsFit'
  BY <1>12 DEF Regain, JobsFit, NoLiveJobs
<1>13. ASSUME NEW j \in Jobs, ClaimJob(j)
       PROVE  JobsFit'
  BY <1>13 DEF ClaimJob, JobsFit, NoLocals, NoLiveJobs
<1>14. ASSUME NEW p \in Pubs, CreateFails(p) \/ StartExecute(p)
       PROVE  JobsFit'
  BY <1>14 DEF CreateFails, StartExecute, JobsFit, NoLiveJobs
<1>15. ASSUME NEW p \in Pubs, BeginPublishing(p)
       PROVE  JobsFit'
  BY <1>15 DEF BeginPublishing, JobsFit, CurrentApproval, NoLiveJobs, Grants
<1>16. ASSUME NEW p \in Pubs, Raise(p)
       PROVE  JobsFit'
  BY <1>16 DEF Raise, JobsFit, Trying, NoLiveJobs
<1>17. ASSUME NEW p \in Pubs, LookAndRaise(p)
       PROVE  JobsFit'
  BY <1>17 DEF LookAndRaise, JobsFit, Looking, Remember, Confirms, NoLiveJobs, Pushed, Complete, PrExists
<1>18. ASSUME NEW p \in Pubs, Look(p) \/ Dispatch(p) \/ CheckTarget(p) \/ Authorize(p) \/ Send(p)
       PROVE  JobsFit'
  BY <1>18 DEF Look, Dispatch, CheckTarget, Authorize, Send, JobsFit, AsApproved, Pushed, Remember, PrExists,
      CurrentApproval, NoLiveJobs, Grants
<1>19. ASSUME NEW p \in Pubs, Reply(p) \/ ConfirmPush(p) \/ Renew(p)
       PROVE  JobsFit'
  BY <1>19 DEF Reply, ConfirmPush, Renew, JobsFit, AsApproved, Pushed, Remember, PrExists, CurrentApproval,
      NoLiveJobs, Grants
<1>20. ASSUME NEW p \in Pubs, LookAgain(p)
       PROVE  JobsFit'
  BY <1>20 DEF LookAgain, JobsFit, AsApproved, Remember, PrExists, NoLiveJobs
<1>21. ASSUME NEW p \in Pubs, LookFinally(p)
       PROVE  JobsFit'
  BY <1>21 DEF LookFinally, JobsFit, AsApproved, Complete, Remember, NoLiveJobs, Pushed, PrExists
<1>22. ASSUME NEW p \in Pubs, Publish(p)
       PROVE  JobsFit'
  BY <1>22 DEF Publish, JobsFit, CurrentApproval, NoLiveJobs, Grants
<1>23. ASSUME NEW p \in Pubs, HandleFailure(p)
       PROVE  JobsFit'
  BY <1>23 DEF HandleFailure, JobsFit, FailedState, Void, NoLiveJobs, Effects, VoidState
<1>24. ASSUME NEW p \in Pubs, StartReconcile(p)
       PROVE  JobsFit'
  BY <1>24 DEF StartReconcile, JobsFit, NoLiveJobs
<1>25. ASSUME NEW p \in Pubs, Observe(p) \/ Assess(p)
       PROVE  JobsFit'
  BY <1>25 DEF Observe, Assess, JobsFit, AsApproved, Remember, Pushed, Complete, Grants, PrExists, Effects,
      CurrentApproval, NoLiveJobs
<1>26. ASSUME NEW p \in Pubs, Settle(p)
       PROVE  JobsFit'
  BY <1>26 DEF Settle, Seen, JobsFit, Writable, Landed, NoLiveJobs, Unique, Live, Others
<1>27. ASSUME NEW p \in Pubs, ReconcileFails(p)
       PROVE  JobsFit'
  <2>1. Doubted(p)
    BY <1>27, DoubtFacts DEF ReconcileFails
  <2> QED BY <2>1, <1>27 DEF ReconcileFails, JobsFit, Remember, NoLiveJobs, Unique, Live, Others, Doubted
<1>28. ASSUME NEW k \in Kinds, NEW p \in Pubs, StartFails(k, p) \/ Finish(k, p)
       PROVE  JobsFit'
  BY ZenonT(60), <1>28 DEF StartFails, Finish, JobsFit, ProcessesGone, FreeSlot, NoLiveJobs, NoLocals
<1>29. ASSUME NEW k \in Kinds, NEW p \in Pubs, MarkInterrupted(k, p)
       PROVE  JobsFit'
  <2>1. Interrupted(k, p)
    BY <1>29, InterruptFacts DEF MarkInterrupted
  <2> QED BY <2>1, <1>29 DEF MarkInterrupted, JobsFit, ProcessesGone, NoLiveJobs, VoidState, Effects,
      Interrupted, Kinds
<1>30. CASE LoseHandler
  BY <1>30 DEF LoseHandler, JobsFit, NoLiveJobs
<1>31. ASSUME NEW k \in Kinds, NEW p \in Pubs, Recover(k, p)
       PROVE  JobsFit'
  <2>1. Interrupted(k, p)
    BY <1>31, InterruptFacts DEF Recover
  <2> QED BY <2>1, <1>31 DEF Recover, JobsFit, ProcessesGone, NoLiveJobs, NoLocals, VoidState, Effects,
      Interrupted, Kinds, FreeSlot
<1>32. ASSUME NEW w \in Writes, NEW p \in Pubs, Land(w, p) \/ Vanish(w, p)
       PROVE  JobsFit'
  BY ZenonT(60), <1>32 DEF Land, Vanish, JobsFit, TakesEffect, NoLiveJobs
<1>33. ASSUME NEW r \in Runs, OutsideChange(r)
       PROVE  JobsFit'
  <2>1. Outside
    BY <1>33, OutsideFacts
  <2>2. UNCHANGED <<keepDb, knownVars, attempted, stage, keepLocals, outstanding, landed>>
    BY <1>33 DEF OutsideChange
  <2> QED BY <2>1, <2>2 DEF JobsFit, NoLiveJobs, Outside
<1>34. CASE UNCHANGED vars
  BY <1>34 DEF vars, JobsFit, NoLiveJobs
<1> QED BY <1>1, <1>2, <1>3, <1>4, <1>5, <1>6, <1>7, <1>8, <1>9, <1>10, <1>11, <1>12, <1>13, <1>14, <1>15,
    <1>16, <1>17, <1>18, <1>19, <1>20, <1>21, <1>22, <1>23, <1>24, <1>25, <1>26, <1>27, <1>28, <1>29, <1>30,
    <1>31, <1>32, <1>33, <1>34 DEF Next, WebStep, HandlerStep, ExecuteStep, RecoverStep, RemoteStep

\* How the state goes with the stage of _execute_job.
LEMMA ExecutingStep == TypeOK /\ Executing /\ JobsFit /\ AbandonedIsOver /\ [Next]_vars => Executing'
<1> SUFFICES ASSUME TypeOK, Executing, JobsFit, AbandonedIsOver, [Next]_vars PROVE Executing'
  OBVIOUS
<1>0. Rows
  BY RowsHold
<1> USE <1>0, PublicationAssumption, NoJobAssumption DEF Rows, pubVars, knownVars, grantVars, policyVars,
    localVars, remoteVars, handlerVars, keepDb, keepLocals, At, GoTo
<1>1. ASSUME NEW p \in Pubs, PreparePublication(p) \/ ReconcilePublication(p) \/ AbandonRemaining(p)
    \/ LookBeforeCreate(p) \/ CreatePublication(p)
       PROVE  Executing'
  BY <1>1 DEF PreparePublication, ReconcilePublication, AbandonRemaining, LookBeforeCreate, CreatePublication,
      Executing, Others, Enqueue, NoLiveJobs, Void, Unique, Trying, Live
<1>2. ASSUME NEW p \in Pubs, NEW a \in Admins, Approve(p, a)
       PROVE  Executing'
  <2>1. ASSUME NEW q \in Pubs, working = <<"execute", q>> PROVE q # p
    BY <1>2, <2>1 DEF Approve, JobsFit, NoLiveJobs
  <2>2. UNCHANGED <<working, stage, dispatched>>
    BY <1>2 DEF Approve
  <2>3. \A q \in Pubs \ {p} : state'[q] = state[q] /\ valid'[q] = valid[q]
    BY <1>2 DEF Approve, Grant
  <2> QED BY <2>1, <2>2, <2>3 DEF Executing
<1>3. ASSUME NEW p \in Pubs, NEW a \in Admins, Reject(p, a)
       PROVE  Executing'
  BY <1>3 DEF Reject, JobsFit, Executing, Grant, NoLiveJobs, Trying
<1>4. ASSUME NEW p \in Pubs, NEW a \in Admins, RetryPublication(p, a) \/ ApproveRemaining(p, a)
       PROVE  Executing'
  BY <1>4 DEF RetryPublication, ApproveRemaining, Executing, Recovery, Trying, NoLiveJobs, Grant, Enqueue
<1>5. CASE ConfigurePolicy
  BY <1>5 DEF ConfigurePolicy, Executing, PolicyFree, InvalidateAll, Waiting, Void, Outdates, Trying,
      VoidState, Closed, Effects
<1>6. ASSUME NEW a \in Admins, Revoke(a)
       PROVE  Executing'
  BY <1>6 DEF Revoke, Executing, Granted, Closed, Void, Outdates, VoidState, Queued, Trying, Grants, Effects
<1>7. ASSUME NEW a \in Admins, Regain(a)
       PROVE  Executing'
  BY <1>7 DEF Regain, Executing, Trying
<1>8. ASSUME NEW j \in Jobs, ClaimJob(j)
       PROVE  Executing'
  BY <1>8 DEF ClaimJob, Executing, NoLocals, Trying
<1>9. ASSUME NEW p \in Pubs, CreateFails(p) \/ StartExecute(p) \/ BeginPublishing(p) \/ Raise(p)
    \/ LookAndRaise(p)
       PROVE  Executing'
  BY <1>9 DEF CreateFails, StartExecute, BeginPublishing, Raise, LookAndRaise, Executing, CurrentApproval,
      Trying, Looking, Remember, Confirms, Grants, Pushed, Complete, PrExists
<1>10. ASSUME NEW p \in Pubs, Look(p) \/ Dispatch(p) \/ CheckTarget(p) \/ Authorize(p) \/ Send(p)
       PROVE  Executing'
  BY <1>10 DEF Look, Dispatch, CheckTarget, Authorize, Send, Executing, AsApproved, Pushed, Remember, PrExists,
      CurrentApproval, Trying, Grants
<1>11. ASSUME NEW p \in Pubs, Reply(p) \/ ConfirmPush(p) \/ Renew(p) \/ LookAgain(p) \/ LookFinally(p)
       PROVE  Executing'
  BY <1>11 DEF Reply, ConfirmPush, Renew, LookAgain, LookFinally, Executing, AsApproved, Pushed, Remember,
      PrExists, CurrentApproval, Complete, Trying, Grants
<1>12. ASSUME NEW p \in Pubs, Publish(p) \/ HandleFailure(p) \/ StartReconcile(p) \/ Observe(p) \/ Assess(p)
       PROVE  Executing'
  BY <1>12 DEF Publish, HandleFailure, StartReconcile, Observe, Assess, Executing, CurrentApproval,
      FailedState, Void, AsApproved, Remember, Pushed, Complete, Grants, PrExists, Effects, Trying, VoidState
<1>13. ASSUME NEW p \in Pubs, Settle(p)
       PROVE  Executing'
  BY <1>13 DEF Settle, Executing, Writable, Trying, Unique, Live, Others
<1>14. ASSUME NEW p \in Pubs, ReconcileFails(p)
       PROVE  Executing'
  <2>1. Doubted(p)
    BY <1>14, DoubtFacts DEF ReconcileFails
  <2> QED BY <2>1, <1>14 DEF ReconcileFails, Executing, Remember, Trying, Unique, Live, Others, Doubted
<1>15. ASSUME NEW k \in Kinds, NEW p \in Pubs, StartFails(k, p) \/ Finish(k, p)
       PROVE  Executing'
  BY <1>15 DEF StartFails, Finish, Executing, ProcessesGone, FreeSlot, Trying, NoLocals
<1>16. ASSUME NEW k \in Kinds, NEW p \in Pubs, MarkInterrupted(k, p)
       PROVE  Executing'
  <2>1. Interrupted(k, p)
    BY <1>16, InterruptFacts DEF MarkInterrupted
  <2>2. UNCHANGED <<working, dispatched>> /\ At(k, p, {"failed", "done"}) /\ stage' = "marked"
    BY <1>16 DEF MarkInterrupted
  <2>3. ASSUME NEW q \in Pubs, working = <<"execute", q>>
        PROVE  /\ state'[q] \notin {"APPROVED", "PUBLISHING"}
               /\ dispatched => state'[q] \in {"PUBLISHING", "UNKNOWN"}
    <3>1. q = p /\ k = "execute"
      BY <2>2, <2>3
    <3>2. abandoned[p] \/ state[p] \in Closed => state'[p] \notin {"APPROVED", "PUBLISHING"}
      BY <2>1, <3>1 DEF Interrupted, AbandonedIsOver, Closed
    <3> QED BY <2>1, <2>2, <2>3, <3>1, <3>2 DEF Interrupted, VoidState, Executing, AbandonedIsOver, Closed
  <2> QED BY <2>2, <2>3 DEF Executing, Trying
<1>17. CASE LoseHandler
  BY <1>17 DEF LoseHandler, Executing, Trying
<1>18. ASSUME NEW k \in Kinds, NEW p \in Pubs, Recover(k, p)
       PROVE  Executing'
  <2>1. Interrupted(k, p)
    BY <1>18, InterruptFacts DEF Recover
  <2> QED BY <2>1, <1>18 DEF Recover, Executing, ProcessesGone, Trying, NoLocals, VoidState, Effects,
      Interrupted, Kinds, FreeSlot
<1>19. ASSUME NEW w \in Writes, NEW p \in Pubs, Land(w, p) \/ Vanish(w, p)
       PROVE  Executing'
  BY <1>19 DEF Land, Vanish, Executing, TakesEffect, Trying
<1>20. ASSUME NEW r \in Runs, OutsideChange(r)
       PROVE  Executing'
  <2>1. Outside
    BY <1>20, OutsideFacts
  <2>2. UNCHANGED <<keepDb, knownVars, attempted, stage, keepLocals, outstanding, landed>>
    BY <1>20 DEF OutsideChange
  <2> QED BY <2>1, <2>2 DEF Executing, Trying, Outside
<1>21. CASE UNCHANGED vars
  BY <1>21 DEF vars, Executing, Trying
<1> QED BY <1>1, <1>2, <1>3, <1>4, <1>5, <1>6, <1>7, <1>8, <1>9, <1>10, <1>11, <1>12, <1>13, <1>14, <1>15,
    <1>16, <1>17, <1>18, <1>19, <1>20, <1>21 DEF Next, WebStep, HandlerStep, ExecuteStep, RecoverStep,
    RemoteStep

\* Approval and job stay together.
LEMMA ApprovalHasJobStep == TypeOK /\ ApprovalHasJob /\ JobsFit /\ Executing /\ AbandonedIsOver /\ Seen
    /\ [Next]_vars => ApprovalHasJob'
<1> SUFFICES ASSUME TypeOK, ApprovalHasJob, JobsFit, Executing, AbandonedIsOver, Seen,
    [Next]_vars PROVE ApprovalHasJob'
  OBVIOUS
<1>0. Rows
  BY RowsHold
<1> USE <1>0, PublicationAssumption, NoJobAssumption DEF Rows, pubVars, knownVars, grantVars, policyVars,
    localVars, remoteVars, handlerVars, keepDb, keepLocals, At, GoTo
<1>1. ASSUME NEW p \in Pubs, PreparePublication(p) \/ ReconcilePublication(p)
       PROVE  ApprovalHasJob'
  BY ZenonT(60), <1>1 DEF PreparePublication, ReconcilePublication, ApprovalHasJob, Others, Enqueue, NoLiveJobs,
      CurrentApproval, Grants
<1>2. ASSUME NEW p \in Pubs, AbandonRemaining(p)
       PROVE  ApprovalHasJob'
  BY <1>2 DEF AbandonRemaining, ApprovalHasJob, NoLiveJobs, Void, CurrentApproval, Grants
<1>3. ASSUME NEW p \in Pubs, LookBeforeCreate(p)
       PROVE  ApprovalHasJob'
  BY <1>3 DEF LookBeforeCreate, ApprovalHasJob, CurrentApproval, Grants
<1>4. ASSUME NEW p \in Pubs, CreatePublication(p)
       PROVE  ApprovalHasJob'
  BY ZenonT(60), <1>4 DEF CreatePublication, ApprovalHasJob, Unique, CurrentApproval, Live, Others, Grants
<1>5. ASSUME NEW p \in Pubs, NEW a \in Admins, Approve(p, a)
       PROVE  ApprovalHasJob'
  BY <1>5 DEF Approve, JobsFit, AbandonedIsOver, ApprovalHasJob, Grant, Enqueue, NoLiveJobs, CurrentApproval,
      Grants
<1>6. ASSUME NEW p \in Pubs, NEW a \in Admins, Reject(p, a)
       PROVE  ApprovalHasJob'
  BY <1>6 DEF Reject, ApprovalHasJob, Grant, CurrentApproval, Grants
<1>7. ASSUME NEW p \in Pubs, NEW a \in Admins, RetryPublication(p, a)
       PROVE  ApprovalHasJob'
  BY ZenonT(60), <1>7 DEF RetryPublication, ApprovalHasJob, Recovery, CurrentApproval, NoLiveJobs, Grant, Enqueue, Grants
<1>8. ASSUME NEW p \in Pubs, NEW a \in Admins, ApproveRemaining(p, a)
       PROVE  ApprovalHasJob'
  BY ZenonT(60), <1>8 DEF ApproveRemaining, ApprovalHasJob, Recovery, CurrentApproval, NoLiveJobs, Grant, Enqueue, Grants
<1>9. CASE ConfigurePolicy
  BY <1>9 DEF ConfigurePolicy, ApprovalHasJob, PolicyFree, InvalidateAll, Waiting, Void, Outdates,
      CurrentApproval, VoidState, Closed, Grants, Effects
<1>10. ASSUME NEW a \in Admins, Revoke(a)
       PROVE  ApprovalHasJob'
  <2>1. UNCHANGED <<abandoned, scope, approver, samePolicy, working>> /\ Revoked(a) /\ admins' = admins \ {a}
    BY <1>10, RevokeFacts DEF Revoke
  <2>2. ASSUME NEW q \in Pubs, state'[q] \in {"APPROVED", "PUBLISHING"}
        PROVE  q \notin Granted(a) /\ state'[q] = state[q] /\ (valid[q] => valid'[q])
    BY <2>1, <2>2 DEF Revoked, VoidState, Closed
  <2>3. ASSUME NEW q \in Pubs, state'[q] \in {"APPROVED", "PUBLISHING"}
        PROVE  CurrentApproval(q)' /\ approver[q] # a
    BY <2>1, <2>2, <2>3 DEF ApprovalHasJob, CurrentApproval, Granted
  <2> QED BY <2>1, <2>2, <2>3 DEF ApprovalHasJob, Revoked
<1>11. ASSUME NEW a \in Admins, Regain(a)
       PROVE  ApprovalHasJob'
  BY <1>11 DEF Regain, ApprovalHasJob, CurrentApproval, Grants
<1>12. ASSUME NEW j \in Jobs, ClaimJob(j)
       PROVE  ApprovalHasJob'
  BY <1>12 DEF ClaimJob, ApprovalHasJob, NoLocals, CurrentApproval, Grants
<1>13. ASSUME NEW p \in Pubs, CreateFails(p) \/ StartExecute(p)
       PROVE  ApprovalHasJob'
  BY ZenonT(60), <1>13 DEF CreateFails, StartExecute, ApprovalHasJob, CurrentApproval, Grants
<1>14. ASSUME NEW p \in Pubs, BeginPublishing(p)
       PROVE  ApprovalHasJob'
  BY <1>14 DEF BeginPublishing, ApprovalHasJob, CurrentApproval, Grants
<1>15. ASSUME NEW p \in Pubs, Raise(p)
       PROVE  ApprovalHasJob'
  BY <1>15 DEF Raise, ApprovalHasJob, Trying, CurrentApproval, Grants
<1>16. ASSUME NEW p \in Pubs, LookAndRaise(p)
       PROVE  ApprovalHasJob'
  BY <1>16 DEF LookAndRaise, ApprovalHasJob, Looking, Remember, Confirms, CurrentApproval, Pushed, Complete,
      Grants, PrExists
<1>17. ASSUME NEW p \in Pubs, Look(p) \/ Dispatch(p) \/ CheckTarget(p) \/ Authorize(p) \/ Send(p)
       PROVE  ApprovalHasJob'
  BY ZenonT(60), <1>17 DEF Look, Dispatch, CheckTarget, Authorize, Send, ApprovalHasJob, AsApproved, Pushed, Remember,
      PrExists, CurrentApproval, Grants
<1>18. ASSUME NEW p \in Pubs, Reply(p) \/ ConfirmPush(p) \/ Renew(p)
       PROVE  ApprovalHasJob'
  BY ZenonT(60), <1>18 DEF Reply, ConfirmPush, Renew, ApprovalHasJob, AsApproved, Pushed, Remember, PrExists,
      CurrentApproval, Grants
<1>19. ASSUME NEW p \in Pubs, LookAgain(p)
       PROVE  ApprovalHasJob'
  BY <1>19 DEF LookAgain, ApprovalHasJob, AsApproved, Remember, PrExists, CurrentApproval, Grants
<1>20. ASSUME NEW p \in Pubs, LookFinally(p)
       PROVE  ApprovalHasJob'
  BY <1>20 DEF LookFinally, ApprovalHasJob, AsApproved, Complete, Remember, CurrentApproval, Pushed, PrExists,
      Grants
<1>21. ASSUME NEW p \in Pubs, Publish(p)
       PROVE  ApprovalHasJob'
  BY <1>21 DEF Publish, ApprovalHasJob, CurrentApproval, Grants
<1>22. ASSUME NEW p \in Pubs, StartReconcile(p)
       PROVE  ApprovalHasJob'
  BY <1>22 DEF StartReconcile, ApprovalHasJob, CurrentApproval, Grants
<1>23. ASSUME NEW p \in Pubs, Observe(p) \/ Assess(p)
       PROVE  ApprovalHasJob'
  BY ZenonT(60), <1>23 DEF Observe, Assess, ApprovalHasJob, AsApproved, Remember, Pushed, Complete, Grants, PrExists,
      Effects, CurrentApproval
<1>24. ASSUME NEW p \in Pubs, HandleFailure(p)
       PROVE  ApprovalHasJob'
  <2>1. FailedState(p) \notin {"APPROVED", "PUBLISHING"}
    BY DEF FailedState, VoidState
  <2>2. UNCHANGED <<abandoned, scope, approver, policyVars, jobs, working>> /\ state'[p] = FailedState(p)
    BY <1>24 DEF HandleFailure
  <2>3. \A q \in Pubs \ {p} : state'[q] = state[q] /\ valid'[q] = valid[q]
    BY <1>24 DEF HandleFailure, Void
  <2> QED BY <2>1, <2>2, <2>3 DEF ApprovalHasJob, CurrentApproval
<1>25. ASSUME NEW p \in Pubs, Settle(p)
       PROVE  ApprovalHasJob'
  BY ZenonT(60), <1>25 DEF Settle, Seen, ApprovalHasJob, Writable, Landed, CurrentApproval, Unique, Grants, Live, Others
<1>26. ASSUME NEW p \in Pubs, ReconcileFails(p)
       PROVE  ApprovalHasJob'
  <2>1. Doubted(p)
    BY <1>26, DoubtFacts DEF ReconcileFails
  <2> QED BY <2>1, <1>26 DEF ReconcileFails, ApprovalHasJob, Remember, CurrentApproval, Grants, Unique, Live,
      Others, Doubted
<1>27. ASSUME NEW k \in Kinds, NEW p \in Pubs, StartFails(k, p)
       PROVE  ApprovalHasJob'
  BY <1>27 DEF StartFails, ApprovalHasJob, CurrentApproval, Grants
<1>28. ASSUME NEW k \in Kinds, NEW p \in Pubs, MarkInterrupted(k, p)
       PROVE  ApprovalHasJob'
  <2>1. Interrupted(k, p)
    BY <1>28, InterruptFacts DEF MarkInterrupted
  <2> QED BY ZenonT(60), <2>1, <1>28 DEF MarkInterrupted, ApprovalHasJob, ProcessesGone, CurrentApproval, Grants,
      VoidState, Effects, Interrupted, Kinds
<1>29. ASSUME NEW k \in Kinds, NEW p \in Pubs, Finish(k, p)
       PROVE  ApprovalHasJob'
  BY <1>29 DEF Finish, Executing, ApprovalHasJob, ProcessesGone, FreeSlot, Trying, CurrentApproval, NoLocals,
      Grants
<1>30. CASE LoseHandler
  BY <1>30 DEF LoseHandler, ApprovalHasJob, CurrentApproval, Grants
<1>31. ASSUME NEW k \in Kinds, NEW p \in Pubs, Recover(k, p)
       PROVE  ApprovalHasJob'
  <2>1. Interrupted(k, p)
    BY <1>31, InterruptFacts DEF Recover
  <2>2. UNCHANGED <<abandoned, scope, approver, policyVars>> /\ At(k, p, {"failed", "done", "lost"})
    BY <1>31 DEF Recover, FreeSlot
  <2>3. jobs' = jobs \/ (jobs' = jobs \ {working} /\ working = <<k, p>>)
    BY <1>31 DEF Recover, FreeSlot
  <2>4. ASSUME NEW q \in Pubs, state'[q] \in {"APPROVED", "PUBLISHING"}
        PROVE  /\ state'[q] = state[q] /\ valid'[q]
               /\ q = p => k = "prepare"
    <3>1. state[q] \in {"APPROVED", "PUBLISHING"} => CurrentApproval(q)
      BY DEF ApprovalHasJob
    <3> QED BY <2>1, <2>4, <3>1 DEF Interrupted, VoidState, CurrentApproval, Closed
  <2>5. ASSUME NEW q \in Pubs, state'[q] \in {"APPROVED", "PUBLISHING"}
        PROVE  CurrentApproval(q)'
    BY <2>2, <2>4, <2>5 DEF ApprovalHasJob, CurrentApproval
  <2>6. ASSUME NEW q \in Pubs, state'[q] = "APPROVED"
        PROVE  <<"execute", q>> \in jobs'
    BY <2>2, <2>3, <2>4, <2>6 DEF ApprovalHasJob
  <2>7. ASSUME NEW q \in Pubs
        PROVE  state'[q] # "PUBLISHING"
    BY <2>2, <2>4, <2>7 DEF ApprovalHasJob
  <2> QED BY <2>5, <2>6, <2>7 DEF ApprovalHasJob
<1>32. ASSUME NEW w \in Writes, NEW p \in Pubs, Land(w, p) \/ Vanish(w, p)
       PROVE  ApprovalHasJob'
  BY ZenonT(60), <1>32 DEF Land, Vanish, ApprovalHasJob, TakesEffect, CurrentApproval, Grants
<1>33. ASSUME NEW r \in Runs, OutsideChange(r)
       PROVE  ApprovalHasJob'
  <2>1. Outside
    BY <1>33, OutsideFacts
  <2>2. UNCHANGED <<keepDb, knownVars, attempted, stage, keepLocals, outstanding, landed>>
    BY <1>33 DEF OutsideChange
  <2> QED BY <2>1, <2>2 DEF ApprovalHasJob, CurrentApproval, Grants, Outside
<1>34. CASE UNCHANGED vars
  BY <1>34 DEF vars, ApprovalHasJob, CurrentApproval, Grants
<1> QED BY <1>1, <1>2, <1>3, <1>4, <1>5, <1>6, <1>7, <1>8, <1>9, <1>10, <1>11, <1>12, <1>13, <1>14, <1>15,
    <1>16, <1>17, <1>18, <1>19, <1>20, <1>21, <1>22, <1>23, <1>24, <1>25, <1>26, <1>27, <1>28, <1>29, <1>30,
    <1>31, <1>32, <1>33, <1>34 DEF Next, WebStep, HandlerStep, ExecuteStep, RecoverStep, RemoteStep

\* What was given up is left alone.
LEMMA AbandonedIsOverStep == TypeOK /\ AbandonedIsOver /\ JobsFit /\ [Next]_vars => AbandonedIsOver'
<1> SUFFICES ASSUME TypeOK, AbandonedIsOver, JobsFit, [Next]_vars PROVE AbandonedIsOver'
  OBVIOUS
<1>0. Rows
  BY RowsHold
<1> USE <1>0, PublicationAssumption, NoJobAssumption DEF Rows, pubVars, knownVars, grantVars, policyVars,
    localVars, remoteVars, handlerVars, keepDb, keepLocals, At, GoTo
<1>1. ASSUME NEW p \in Pubs, PreparePublication(p) \/ ReconcilePublication(p) \/ AbandonRemaining(p)
    \/ LookBeforeCreate(p) \/ CreateFails(p)
       PROVE  AbandonedIsOver'
  BY <1>1 DEF PreparePublication, ReconcilePublication, AbandonRemaining, LookBeforeCreate, CreateFails,
      AbandonedIsOver, Others, Enqueue, NoLiveJobs, Void
<1>2. ASSUME NEW p \in Pubs, NEW a \in Admins, Approve(p, a) \/ Reject(p, a) \/ RetryPublication(p, a)
    \/ ApproveRemaining(p, a)
       PROVE  AbandonedIsOver'
  BY <1>2 DEF Approve, Reject, RetryPublication, ApproveRemaining, AbandonedIsOver, Grant, Enqueue, Recovery,
      NoLiveJobs
<1>3. CASE ConfigurePolicy
  BY <1>3 DEF ConfigurePolicy, AbandonedIsOver, PolicyFree, InvalidateAll, Waiting, Void, Outdates, VoidState,
      Closed, Effects
<1>4. ASSUME NEW a \in Admins, Revoke(a) \/ Regain(a)
       PROVE  AbandonedIsOver'
  BY <1>4 DEF Revoke, Regain, AbandonedIsOver, Granted, Closed, Void, Outdates, VoidState, Queued, Grants,
      Effects
<1>5. ASSUME NEW j \in Jobs, ClaimJob(j)
       PROVE  AbandonedIsOver'
  BY <1>5 DEF ClaimJob, AbandonedIsOver, NoLocals
<1>6. ASSUME NEW p \in Pubs, CreatePublication(p)
       PROVE  AbandonedIsOver'
  BY <1>6 DEF CreatePublication, JobsFit, AbandonedIsOver, Unique, NoLiveJobs, Live, Others
<1>7. ASSUME NEW p \in Pubs, StartExecute(p) \/ BeginPublishing(p) \/ Raise(p) \/ LookAndRaise(p) \/ Look(p)
       PROVE  AbandonedIsOver'
  BY <1>7 DEF StartExecute, BeginPublishing, Raise, LookAndRaise, Look, AbandonedIsOver, CurrentApproval,
      Trying, Looking, Remember, Confirms, AsApproved, Pushed, PrExists, Grants, Complete
<1>8. ASSUME NEW p \in Pubs, Dispatch(p) \/ CheckTarget(p) \/ Authorize(p) \/ Send(p) \/ Reply(p)
       PROVE  AbandonedIsOver'
  BY <1>8 DEF Dispatch, CheckTarget, Authorize, Send, Reply, AbandonedIsOver, CurrentApproval, AsApproved,
      PrExists, Pushed, Grants
<1>9. ASSUME NEW p \in Pubs, ConfirmPush(p) \/ Renew(p) \/ LookAgain(p) \/ LookFinally(p) \/ Publish(p)
       PROVE  AbandonedIsOver'
  BY <1>9 DEF ConfirmPush, Renew, LookAgain, LookFinally, Publish, AbandonedIsOver, AsApproved, Pushed,
      Remember, PrExists, CurrentApproval, Complete, Grants
<1>10. ASSUME NEW p \in Pubs, HandleFailure(p) \/ StartReconcile(p) \/ Observe(p) \/ Assess(p) \/ Settle(p)
       PROVE  AbandonedIsOver'
  BY <1>10 DEF HandleFailure, StartReconcile, Observe, Assess, Settle, AbandonedIsOver, FailedState, Void,
      AsApproved, Remember, Pushed, Complete, Grants, PrExists, Effects, CurrentApproval, Writable, VoidState,
      Unique, Live, Others
<1>11. ASSUME NEW p \in Pubs, ReconcileFails(p)
       PROVE  AbandonedIsOver'
  <2>1. Doubted(p)
    BY <1>11, DoubtFacts DEF ReconcileFails
  <2> QED BY <2>1, <1>11 DEF ReconcileFails, AbandonedIsOver, Remember, Unique, Live, Others, Doubted
<1>12. ASSUME NEW k \in Kinds, NEW p \in Pubs, StartFails(k, p) \/ Finish(k, p)
       PROVE  AbandonedIsOver'
  BY <1>12 DEF StartFails, Finish, AbandonedIsOver, ProcessesGone, FreeSlot, NoLocals
<1>13. ASSUME NEW k \in Kinds, NEW p \in Pubs, MarkInterrupted(k, p)
       PROVE  AbandonedIsOver'
  <2>1. Interrupted(k, p)
    BY <1>13, InterruptFacts DEF MarkInterrupted
  <2> QED BY <2>1, <1>13 DEF MarkInterrupted, AbandonedIsOver, ProcessesGone, VoidState, Effects, Interrupted,
      Kinds
<1>14. CASE LoseHandler
  BY <1>14 DEF LoseHandler, AbandonedIsOver
<1>15. ASSUME NEW k \in Kinds, NEW p \in Pubs, Recover(k, p)
       PROVE  AbandonedIsOver'
  <2>1. Interrupted(k, p)
    BY <1>15, InterruptFacts DEF Recover
  <2> QED BY <2>1, <1>15 DEF Recover, AbandonedIsOver, ProcessesGone, NoLocals, VoidState, Effects,
      Interrupted, Kinds, FreeSlot
<1>16. ASSUME NEW w \in Writes, NEW p \in Pubs, Land(w, p) \/ Vanish(w, p)
       PROVE  AbandonedIsOver'
  BY <1>16 DEF Land, Vanish, AbandonedIsOver, TakesEffect
<1>17. ASSUME NEW r \in Runs, OutsideChange(r)
       PROVE  AbandonedIsOver'
  <2>1. Outside
    BY <1>17, OutsideFacts
  <2>2. UNCHANGED <<keepDb, knownVars, attempted, stage, keepLocals, outstanding, landed>>
    BY <1>17 DEF OutsideChange
  <2> QED BY <2>1, <2>2 DEF AbandonedIsOver, Outside
<1>18. CASE UNCHANGED vars
  BY <1>18 DEF vars, AbandonedIsOver
<1> QED BY <1>1, <1>2, <1>3, <1>4, <1>5, <1>6, <1>7, <1>8, <1>9, <1>10, <1>11, <1>12, <1>13, <1>14, <1>15,
    <1>16, <1>17, <1>18 DEF Next, WebStep, HandlerStep, ExecuteStep, RecoverStep, RemoteStep

\* A run has at most one live publication.
LEMMA OneLiveTargetStep == TypeOK /\ OneLiveTarget /\ JobsFit /\ Alone /\ [Next]_vars => OneLiveTarget'
<1> SUFFICES ASSUME TypeOK, OneLiveTarget, JobsFit, Alone, [Next]_vars PROVE OneLiveTarget'
  OBVIOUS
<1>0. Rows
  BY RowsHold
<1> USE <1>0, PublicationAssumption, NoJobAssumption DEF Rows, pubVars, knownVars, grantVars, policyVars,
    localVars, remoteVars, handlerVars, keepDb, keepLocals, At, GoTo
<1>1. ASSUME NEW p \in Pubs, PreparePublication(p) \/ ReconcilePublication(p) \/ AbandonRemaining(p)
    \/ LookBeforeCreate(p) \/ CreatePublication(p)
       PROVE  OneLiveTarget'
  BY <1>1 DEF PreparePublication, ReconcilePublication, AbandonRemaining, LookBeforeCreate, CreatePublication,
      OneLiveTarget, Others, Enqueue, NoLiveJobs, Void, Unique, Live
<1>2. ASSUME NEW p \in Pubs, NEW a \in Admins, Approve(p, a) \/ Reject(p, a) \/ RetryPublication(p, a)
    \/ ApproveRemaining(p, a)
       PROVE  OneLiveTarget'
  BY <1>2 DEF Approve, Reject, RetryPublication, ApproveRemaining, OneLiveTarget, Grant, Enqueue, Recovery,
      Live, NoLiveJobs
<1>3. CASE ConfigurePolicy
  <2>1. UNCHANGED abandoned /\ \A q \in Pubs : state'[q] \in Live => state[q] \in Live
    BY <1>3 DEF ConfigurePolicy, InvalidateAll, Waiting, State, Live, Closed
  <2> QED BY <2>1 DEF OneLiveTarget
<1>4. ASSUME NEW a \in Admins, Revoke(a)
       PROVE  OneLiveTarget'
  <2>1. UNCHANGED abandoned /\ Revoked(a)
    BY <1>4, RevokeFacts DEF Revoke
  <2>2. ASSUME NEW q \in Pubs, state'[q] \in Live
        PROVE  state[q] \in Live
    <3>1. state[q] # "ABSENT" \/ ~valid[q]
      BY DEF JobsFit
    <3> QED BY <2>1, <2>2, <3>1 DEF Revoked, State, Live, Closed, Granted
  <2> QED BY <2>1, <2>2 DEF OneLiveTarget
<1>5. ASSUME NEW a \in Admins, Regain(a)
       PROVE  OneLiveTarget'
  BY <1>5 DEF Regain, OneLiveTarget, Live
<1>6. ASSUME NEW j \in Jobs, ClaimJob(j)
       PROVE  OneLiveTarget'
  BY <1>6 DEF ClaimJob, OneLiveTarget, NoLocals, Live
<1>7. ASSUME NEW p \in Pubs, CreateFails(p) \/ StartExecute(p) \/ BeginPublishing(p) \/ Raise(p)
    \/ LookAndRaise(p)
       PROVE  OneLiveTarget'
  BY <1>7 DEF CreateFails, StartExecute, BeginPublishing, Raise, LookAndRaise, OneLiveTarget, CurrentApproval,
      Trying, Looking, Remember, Confirms, Live, Grants, Pushed, Complete, PrExists
<1>8. ASSUME NEW p \in Pubs, Look(p) \/ Dispatch(p) \/ CheckTarget(p) \/ Authorize(p) \/ Send(p)
       PROVE  OneLiveTarget'
  BY <1>8 DEF Look, Dispatch, CheckTarget, Authorize, Send, OneLiveTarget, AsApproved, Pushed, Remember,
      PrExists, CurrentApproval, Live, Grants
<1>9. ASSUME NEW p \in Pubs, Reply(p) \/ ConfirmPush(p) \/ Renew(p) \/ LookAgain(p) \/ LookFinally(p)
       PROVE  OneLiveTarget'
  BY <1>9 DEF Reply, ConfirmPush, Renew, LookAgain, LookFinally, OneLiveTarget, AsApproved, Pushed, Remember,
      PrExists, CurrentApproval, Complete, Live, Grants
<1>10. ASSUME NEW p \in Pubs, Publish(p) \/ StartReconcile(p) \/ Observe(p) \/ Assess(p) \/ Settle(p)
       PROVE  OneLiveTarget'
  BY <1>10 DEF Publish, StartReconcile, Observe, Assess, Settle, OneLiveTarget, CurrentApproval, AsApproved,
      Remember, Pushed, Complete, Grants, PrExists, Effects, Writable, Live, Unique, Others
<1>11. ASSUME NEW p \in Pubs, HandleFailure(p)
       PROVE  OneLiveTarget'
  BY <1>11 DEF HandleFailure, Alone, OneLiveTarget, FailedState, Void, Trying, Others, Live, Effects,
      VoidState
<1>12. ASSUME NEW p \in Pubs, ReconcileFails(p)
       PROVE  OneLiveTarget'
  <2>1. Doubted(p)
    BY <1>12, DoubtFacts DEF ReconcileFails
  <2> QED BY <2>1, <1>12 DEF ReconcileFails, OneLiveTarget, Remember, Live, Unique, Others, Doubted
<1>13. ASSUME NEW k \in Kinds, NEW p \in Pubs, StartFails(k, p) \/ Finish(k, p)
       PROVE  OneLiveTarget'
  BY <1>13 DEF StartFails, Finish, OneLiveTarget, ProcessesGone, FreeSlot, Live, NoLocals
<1>14. ASSUME NEW k \in Kinds, NEW p \in Pubs, MarkInterrupted(k, p)
       PROVE  OneLiveTarget'
  <2>1. Interrupted(k, p)
    BY <1>14, InterruptFacts DEF MarkInterrupted
  <2>2. UNCHANGED abandoned /\ working = <<k, p>>
    BY <1>14 DEF MarkInterrupted
  <2>3. ASSUME NEW q \in Pubs, state'[q] \in Live
        PROVE  state[q] \in Live
    <3>1. CASE q # p
      BY <2>1, <2>3, <3>1 DEF Interrupted
    <3>2. CASE q = p
      <4>1. state[p] # "ABSENT" \/ k = "prepare"
        BY <2>2, <1>14 DEF JobsFit, NoLiveJobs, Kinds
      <4> QED BY <2>1, <2>3, <3>2, <4>1 DEF Interrupted, State, Live, Closed
    <3> QED BY <3>1, <3>2
  <2> QED BY <2>2, <2>3 DEF OneLiveTarget
<1>15. CASE LoseHandler
  BY <1>15 DEF LoseHandler, OneLiveTarget, Live
<1>16. ASSUME NEW k \in Kinds, NEW p \in Pubs, Recover(k, p)
       PROVE  OneLiveTarget'
  <2>1. Interrupted(k, p)
    BY <1>16, InterruptFacts DEF Recover
  <2>2. UNCHANGED abandoned /\ working = <<k, p>>
    BY <1>16 DEF Recover
  <2>3. ASSUME NEW q \in Pubs, state'[q] \in Live
        PROVE  state[q] \in Live
    <3>1. CASE q # p
      BY <2>1, <2>3, <3>1 DEF Interrupted
    <3>2. CASE q = p
      <4>1. state[p] # "ABSENT" \/ k = "prepare"
        BY <2>2, <1>16 DEF JobsFit, NoLiveJobs, Kinds
      <4> QED BY <2>1, <2>3, <3>2, <4>1 DEF Interrupted, State, Live, Closed
    <3> QED BY <3>1, <3>2
  <2> QED BY <2>2, <2>3 DEF OneLiveTarget
<1>17. ASSUME NEW w \in Writes, NEW p \in Pubs, Land(w, p) \/ Vanish(w, p)
       PROVE  OneLiveTarget'
  BY <1>17 DEF Land, Vanish, OneLiveTarget, TakesEffect, Live
<1>18. ASSUME NEW r \in Runs, OutsideChange(r)
       PROVE  OneLiveTarget'
  <2>1. Outside
    BY <1>18, OutsideFacts
  <2>2. UNCHANGED <<keepDb, knownVars, attempted, stage, keepLocals, outstanding, landed>>
    BY <1>18 DEF OutsideChange
  <2> QED BY <2>1, <2>2 DEF OneLiveTarget, Live, Outside
<1>19. CASE UNCHANGED vars
  BY <1>19 DEF vars, OneLiveTarget, Live
<1> QED BY <1>1, <1>2, <1>3, <1>4, <1>5, <1>6, <1>7, <1>8, <1>9, <1>10, <1>11, <1>12, <1>13, <1>14, <1>15,
    <1>16, <1>17, <1>18, <1>19 DEF Next, WebStep, HandlerStep, ExecuteStep, RecoverStep, RemoteStep

\* While a publication is executed no other of its run is live.
LEMMA AloneStep == TypeOK /\ Alone /\ JobsFit /\ AbandonedIsOver /\ OneLiveTarget /\ [Next]_vars => Alone'
<1> SUFFICES ASSUME TypeOK, Alone, JobsFit, AbandonedIsOver, OneLiveTarget, [Next]_vars PROVE Alone'
  OBVIOUS
<1>0. Rows
  BY RowsHold
<1> USE <1>0, PublicationAssumption, NoJobAssumption DEF Rows, pubVars, knownVars, grantVars, policyVars,
    localVars, remoteVars, handlerVars, keepDb, keepLocals, At, GoTo
<1>1. ASSUME NEW p \in Pubs, PreparePublication(p) \/ ReconcilePublication(p) \/ AbandonRemaining(p)
    \/ LookBeforeCreate(p) \/ CreatePublication(p)
       PROVE  Alone'
  BY <1>1 DEF PreparePublication, ReconcilePublication, AbandonRemaining, LookBeforeCreate, CreatePublication,
      Alone, Others, Enqueue, NoLiveJobs, Void, Unique, Trying, Live
<1>2. ASSUME NEW p \in Pubs, NEW a \in Admins, Approve(p, a) \/ Reject(p, a) \/ RetryPublication(p, a)
    \/ ApproveRemaining(p, a)
       PROVE  Alone'
  BY <1>2 DEF Approve, Reject, RetryPublication, ApproveRemaining, Alone, Grant, Enqueue, Recovery, Trying,
      Others, Live, NoLiveJobs
<1>3. CASE ConfigurePolicy
  BY <1>3 DEF ConfigurePolicy, Alone, PolicyFree, InvalidateAll, Waiting, Void, Outdates, Trying, Others, Live,
      VoidState, Closed, Effects
<1>4. ASSUME NEW a \in Admins, Revoke(a)
       PROVE  Alone'
  <2>1. UNCHANGED <<abandoned, working, stage>> /\ Revoked(a)
    BY <1>4, RevokeFacts DEF Revoke
  <2>2. ASSUME NEW q \in Pubs, state'[q] \in Live
        PROVE  state[q] \in Live
    <3>1. state[q] # "ABSENT" \/ ~valid[q]
      BY DEF JobsFit
    <3> QED BY <2>1, <2>2, <3>1 DEF Revoked, State, Live, Closed, Granted
  <2> QED BY <2>1, <2>2 DEF Alone, Others
<1>5. ASSUME NEW a \in Admins, Regain(a)
       PROVE  Alone'
  BY <1>5 DEF Regain, Alone, Trying, Others, Live
<1>6. ASSUME NEW j \in Jobs, ClaimJob(j)
       PROVE  Alone'
  BY <1>6 DEF ClaimJob, Alone, NoLocals, Trying, Others, Live
<1>7. ASSUME NEW p \in Pubs, CreateFails(p) \/ BeginPublishing(p) \/ Raise(p) \/ LookAndRaise(p) \/ Look(p)
       PROVE  Alone'
  BY <1>7 DEF CreateFails, BeginPublishing, Raise, LookAndRaise, Look, Alone, CurrentApproval, Trying, Looking,
      Remember, Confirms, AsApproved, Pushed, PrExists, Others, Live, Grants, Complete
<1>8. ASSUME NEW p \in Pubs, StartExecute(p)
       PROVE  Alone'
  BY <1>8 DEF StartExecute, OneLiveTarget, AbandonedIsOver, Alone, Live, Trying, Others
<1>9. ASSUME NEW p \in Pubs, Dispatch(p) \/ CheckTarget(p) \/ Authorize(p) \/ Send(p) \/ Reply(p)
       PROVE  Alone'
  BY <1>9 DEF Dispatch, CheckTarget, Authorize, Send, Reply, Alone, CurrentApproval, AsApproved, PrExists,
      Pushed, Trying, Others, Live, Grants
<1>10. ASSUME NEW p \in Pubs, ConfirmPush(p) \/ Renew(p) \/ LookAgain(p) \/ LookFinally(p) \/ Publish(p)
       PROVE  Alone'
  BY <1>10 DEF ConfirmPush, Renew, LookAgain, LookFinally, Publish, Alone, AsApproved, Pushed, Remember,
      PrExists, CurrentApproval, Complete, Trying, Others, Live, Grants
<1>11. ASSUME NEW p \in Pubs, HandleFailure(p) \/ StartReconcile(p) \/ Observe(p) \/ Assess(p) \/ Settle(p)
       PROVE  Alone'
  BY <1>11 DEF HandleFailure, StartReconcile, Observe, Assess, Settle, Alone, FailedState, Void, AsApproved,
      Remember, Pushed, Complete, Grants, PrExists, Effects, CurrentApproval, Writable, Trying, Others, Live,
      VoidState, Unique
<1>12. ASSUME NEW p \in Pubs, ReconcileFails(p)
       PROVE  Alone'
  <2>1. Doubted(p)
    BY <1>12, DoubtFacts DEF ReconcileFails
  <2> QED BY <2>1, <1>12 DEF ReconcileFails, Alone, Remember, Trying, Others, Live, Unique, Doubted
<1>13. ASSUME NEW k \in Kinds, NEW p \in Pubs, StartFails(k, p) \/ Finish(k, p)
       PROVE  Alone'
  BY <1>13 DEF StartFails, Finish, Alone, ProcessesGone, FreeSlot, Trying, Others, Live, NoLocals
<1>14. ASSUME NEW k \in Kinds, NEW p \in Pubs, MarkInterrupted(k, p)
       PROVE  Alone'
  <2>1. Interrupted(k, p)
    BY <1>14, InterruptFacts DEF MarkInterrupted
  <2> QED BY <2>1, <1>14 DEF MarkInterrupted, Alone, ProcessesGone, Trying, Others, Live, VoidState, Effects,
      Interrupted, Kinds
<1>15. CASE LoseHandler
  BY <1>15 DEF LoseHandler, Alone, Trying, Others, Live
<1>16. ASSUME NEW k \in Kinds, NEW p \in Pubs, Recover(k, p)
       PROVE  Alone'
  <2>1. Interrupted(k, p)
    BY <1>16, InterruptFacts DEF Recover
  <2> QED BY <2>1, <1>16 DEF Recover, Alone, ProcessesGone, Trying, Others, Live, NoLocals, VoidState, Effects,
      Interrupted, Kinds, FreeSlot
<1>17. ASSUME NEW w \in Writes, NEW p \in Pubs, Land(w, p) \/ Vanish(w, p)
       PROVE  Alone'
  BY <1>17 DEF Land, Vanish, Alone, TakesEffect, Trying, Others, Live
<1>18. ASSUME NEW r \in Runs, OutsideChange(r)
       PROVE  Alone'
  <2>1. Outside
    BY <1>18, OutsideFacts
  <2>2. UNCHANGED <<keepDb, knownVars, attempted, stage, keepLocals, outstanding, landed>>
    BY <1>18 DEF OutsideChange
  <2> QED BY <2>1, <2>2 DEF Alone, Trying, Others, Live, Outside
<1>19. CASE UNCHANGED vars
  BY <1>19 DEF vars, Alone, Trying, Others, Live
<1> QED BY <1>1, <1>2, <1>3, <1>4, <1>5, <1>6, <1>7, <1>8, <1>9, <1>10, <1>11, <1>12, <1>13, <1>14, <1>15,
    <1>16, <1>17, <1>18, <1>19 DEF Next, WebStep, HandlerStep, ExecuteStep, RecoverStep, RemoteStep

\* What the handler knows of the remote when it is about to write.
LEMMA AimingStep == TypeOK /\ Aiming /\ InFlight /\ [Next]_vars => Aiming'
<1> SUFFICES ASSUME TypeOK, Aiming, InFlight, [Next]_vars PROVE Aiming'
  OBVIOUS
<1>0. Rows
  BY RowsHold
<1> USE <1>0, PublicationAssumption, NoJobAssumption DEF Rows, pubVars, knownVars, grantVars, policyVars,
    localVars, remoteVars, handlerVars, keepDb, keepLocals, At, GoTo
<1>1. ASSUME NEW p \in Pubs, PreparePublication(p) \/ ReconcilePublication(p) \/ AbandonRemaining(p)
    \/ LookBeforeCreate(p) \/ CreatePublication(p)
       PROVE  Aiming'
  BY <1>1 DEF PreparePublication, ReconcilePublication, AbandonRemaining, LookBeforeCreate, CreatePublication,
      Aiming, Others, Enqueue, NoLiveJobs, Void, Unique, Live
<1>2. ASSUME NEW p \in Pubs, NEW a \in Admins, Approve(p, a) \/ Reject(p, a) \/ RetryPublication(p, a)
    \/ ApproveRemaining(p, a)
       PROVE  Aiming'
  BY <1>2 DEF Approve, Reject, RetryPublication, ApproveRemaining, Aiming, Grant, Enqueue, Recovery,
      NoLiveJobs
<1>3. CASE ConfigurePolicy
  BY <1>3 DEF ConfigurePolicy, Aiming, PolicyFree, InvalidateAll, Waiting, Void, Outdates, VoidState, Closed,
      Effects
<1>4. ASSUME NEW a \in Admins, Revoke(a) \/ Regain(a)
       PROVE  Aiming'
  BY <1>4 DEF Revoke, Regain, Aiming, Granted, Closed, Void, Outdates, VoidState, Queued, Grants, Effects
<1>5. ASSUME NEW j \in Jobs, ClaimJob(j)
       PROVE  Aiming'
  BY <1>5 DEF ClaimJob, Aiming, NoLocals
<1>6. ASSUME NEW p \in Pubs, CreateFails(p) \/ StartExecute(p) \/ BeginPublishing(p) \/ Raise(p)
    \/ LookAndRaise(p)
       PROVE  Aiming'
  BY <1>6 DEF CreateFails, StartExecute, BeginPublishing, Raise, LookAndRaise, Aiming, CurrentApproval, Trying,
      Looking, Remember, Confirms, Grants, Pushed, Complete, PrExists
<1>7. ASSUME NEW p \in Pubs, Look(p) \/ Dispatch(p) \/ Authorize(p) \/ Send(p) \/ Reply(p)
       PROVE  Aiming'
  BY <1>7 DEF Look, Dispatch, Authorize, Send, Reply, Aiming, AsApproved, Pushed, Remember, PrExists,
      CurrentApproval, Grants
<1>8. ASSUME NEW p \in Pubs, CheckTarget(p)
       PROVE  Aiming'
  <2>1. UNCHANGED <<working, write, branch, pr>> /\ AsApproved(p) /\ working = <<"execute", p>>
    BY <1>8 DEF CheckTarget
  <2>2. stage' = "authorize" => (Pushed(p) <=> write = "pr") /\ ~(write = "pr" /\ PrExists(p))
    BY <1>8 DEF CheckTarget, Pushed
  <2>3. stage' \in {"final", "authorize"}
    BY <1>8 DEF CheckTarget
  <2>4. stage' = "authorize" => IF write = "push" THEN branch[RunOf[p]] # p
                               ELSE pr[RunOf[p]] # p /\ branch[RunOf[p]] = p
    BY <2>1, <2>2 DEF AsApproved, Pushed, PrExists, TypeOK, Writes
  <2> QED BY <2>1, <2>3, <2>4 DEF Aiming
<1>9. ASSUME NEW p \in Pubs, ConfirmPush(p) \/ Renew(p) \/ LookAgain(p) \/ LookFinally(p) \/ Publish(p)
       PROVE  Aiming'
  BY <1>9 DEF ConfirmPush, Renew, LookAgain, LookFinally, Publish, Aiming, AsApproved, Pushed, Remember,
      PrExists, CurrentApproval, Complete, Grants
<1>10. ASSUME NEW p \in Pubs, HandleFailure(p) \/ StartReconcile(p) \/ Observe(p) \/ Assess(p) \/ Settle(p)
       PROVE  Aiming'
  BY <1>10 DEF HandleFailure, StartReconcile, Observe, Assess, Settle, Aiming, FailedState, Void, AsApproved,
      Remember, Pushed, Complete, Grants, PrExists, Effects, CurrentApproval, Writable, VoidState, Unique,
      Live, Others
<1>11. ASSUME NEW p \in Pubs, ReconcileFails(p)
       PROVE  Aiming'
  <2>1. Doubted(p)
    BY <1>11, DoubtFacts DEF ReconcileFails
  <2> QED BY <2>1, <1>11 DEF ReconcileFails, Aiming, Remember, Unique, Live, Others, Doubted
<1>12. ASSUME NEW k \in Kinds, NEW p \in Pubs, StartFails(k, p) \/ Finish(k, p)
       PROVE  Aiming'
  BY <1>12 DEF StartFails, Finish, Aiming, ProcessesGone, FreeSlot, NoLocals
<1>13. ASSUME NEW k \in Kinds, NEW p \in Pubs, MarkInterrupted(k, p)
       PROVE  Aiming'
  <2>1. Interrupted(k, p)
    BY <1>13, InterruptFacts DEF MarkInterrupted
  <2> QED BY <2>1, <1>13 DEF MarkInterrupted, Aiming, ProcessesGone, VoidState, Effects, Interrupted, Kinds
<1>14. CASE LoseHandler
  BY <1>14 DEF LoseHandler, Aiming
<1>15. ASSUME NEW k \in Kinds, NEW p \in Pubs, Recover(k, p)
       PROVE  Aiming'
  <2>1. Interrupted(k, p)
    BY <1>15, InterruptFacts DEF Recover
  <2> QED BY <2>1, <1>15 DEF Recover, Aiming, ProcessesGone, NoLocals, VoidState, Effects, Interrupted, Kinds,
      FreeSlot
<1>16. ASSUME NEW w \in Writes, NEW p \in Pubs, Land(w, p)
       PROVE  Aiming'
  BY <1>16 DEF Land, InFlight, Aiming, TakesEffect
<1>17. ASSUME NEW w \in Writes, NEW p \in Pubs, Vanish(w, p)
       PROVE  Aiming'
  BY <1>17 DEF Vanish, Aiming
<1>18. ASSUME NEW r \in Runs, OutsideChange(r)
       PROVE  Aiming'
  <2>1. Outside
    BY <1>18, OutsideFacts
  <2>2. UNCHANGED <<keepDb, knownVars, attempted, stage, keepLocals, outstanding, landed>>
    BY <1>18 DEF OutsideChange
  <2> QED BY <2>1, <2>2 DEF Aiming, Outside
<1>19. CASE UNCHANGED vars
  BY <1>19 DEF vars, Aiming
<1> QED BY <1>1, <1>2, <1>3, <1>4, <1>5, <1>6, <1>7, <1>8, <1>9, <1>10, <1>11, <1>12, <1>13, <1>14, <1>15,
    <1>16, <1>17, <1>18, <1>19 DEF Next, WebStep, HandlerStep, ExecuteStep, RecoverStep, RemoteStep

\* A write that is not decided is the one of the handler that sent it.
LEMMA InFlightStep == TypeOK /\ InFlight /\ Executing /\ Aiming /\ [Next]_vars => InFlight'
<1> SUFFICES ASSUME TypeOK, InFlight, Executing, Aiming, [Next]_vars PROVE InFlight'
  OBVIOUS
<1>0. Rows
  BY RowsHold
<1> USE <1>0, PublicationAssumption, NoJobAssumption DEF Rows, pubVars, knownVars, grantVars, policyVars,
    localVars, remoteVars, handlerVars, keepDb, keepLocals, At, GoTo
<1>1. ASSUME NEW p \in Pubs, PreparePublication(p) \/ ReconcilePublication(p) \/ AbandonRemaining(p)
    \/ LookBeforeCreate(p) \/ CreatePublication(p)
       PROVE  InFlight'
  BY <1>1 DEF PreparePublication, ReconcilePublication, AbandonRemaining, LookBeforeCreate, CreatePublication,
      InFlight, Others, Enqueue, NoLiveJobs, Void, Unique, Live
<1>2. ASSUME NEW p \in Pubs, NEW a \in Admins, Approve(p, a) \/ Reject(p, a) \/ RetryPublication(p, a)
    \/ ApproveRemaining(p, a)
       PROVE  InFlight'
  BY <1>2 DEF Approve, Reject, RetryPublication, ApproveRemaining, InFlight, Grant, Enqueue, Recovery,
      NoLiveJobs
<1>3. CASE ConfigurePolicy
  BY <1>3 DEF ConfigurePolicy, InFlight, PolicyFree, InvalidateAll, Waiting, Void, Outdates, VoidState, Closed,
      Effects
<1>4. ASSUME NEW a \in Admins, Revoke(a) \/ Regain(a)
       PROVE  InFlight'
  BY <1>4 DEF Revoke, Regain, InFlight, Granted, Closed, Void, Outdates, VoidState, Queued, Grants, Effects
<1>5. ASSUME NEW j \in Jobs, ClaimJob(j)
       PROVE  InFlight'
  BY <1>5 DEF ClaimJob, InFlight, NoLocals
<1>6. ASSUME NEW p \in Pubs, CreateFails(p) \/ StartExecute(p) \/ BeginPublishing(p) \/ Raise(p)
    \/ LookAndRaise(p)
       PROVE  InFlight'
  BY <1>6 DEF CreateFails, StartExecute, BeginPublishing, Raise, LookAndRaise, InFlight, CurrentApproval,
      Trying, Looking, Remember, Confirms, Grants, Pushed, Complete, PrExists
<1>7. ASSUME NEW p \in Pubs, Look(p) \/ Dispatch(p) \/ CheckTarget(p) \/ Authorize(p) \/ Reply(p)
       PROVE  InFlight'
  BY <1>7 DEF Look, Dispatch, CheckTarget, Authorize, Reply, InFlight, AsApproved, Pushed, Remember, PrExists,
      CurrentApproval, Grants
<1>8. ASSUME NEW p \in Pubs, Send(p)
       PROVE  InFlight'
  BY <1>8 DEF Send, Aiming, Executing, InFlight, Trying
<1>9. ASSUME NEW p \in Pubs, ConfirmPush(p) \/ Renew(p) \/ LookAgain(p) \/ LookFinally(p) \/ Publish(p)
       PROVE  InFlight'
  BY <1>9 DEF ConfirmPush, Renew, LookAgain, LookFinally, Publish, InFlight, AsApproved, Pushed, Remember,
      PrExists, CurrentApproval, Complete, Grants
<1>10. ASSUME NEW p \in Pubs, HandleFailure(p) \/ StartReconcile(p) \/ Observe(p) \/ Assess(p) \/ Settle(p)
       PROVE  InFlight'
  BY <1>10 DEF HandleFailure, StartReconcile, Observe, Assess, Settle, InFlight, FailedState, Void, AsApproved,
      Remember, Pushed, Complete, Grants, PrExists, Effects, CurrentApproval, Writable, VoidState, Unique,
      Live, Others
<1>11. ASSUME NEW p \in Pubs, ReconcileFails(p)
       PROVE  InFlight'
  <2>1. Doubted(p)
    BY <1>11, DoubtFacts DEF ReconcileFails
  <2> QED BY <2>1, <1>11 DEF ReconcileFails, InFlight, Remember, Unique, Live, Others, Doubted
<1>12. ASSUME NEW k \in Kinds, NEW p \in Pubs, StartFails(k, p) \/ Finish(k, p)
       PROVE  InFlight'
  BY <1>12 DEF StartFails, Finish, InFlight, ProcessesGone, FreeSlot, NoLocals
<1>13. ASSUME NEW k \in Kinds, NEW p \in Pubs, MarkInterrupted(k, p)
       PROVE  InFlight'
  <2>1. Interrupted(k, p)
    BY <1>13, InterruptFacts DEF MarkInterrupted
  <2> QED BY <2>1, <1>13 DEF MarkInterrupted, InFlight, ProcessesGone, VoidState, Effects, Interrupted, Kinds
<1>14. CASE LoseHandler
  BY <1>14 DEF LoseHandler, InFlight
<1>15. ASSUME NEW k \in Kinds, NEW p \in Pubs, Recover(k, p)
       PROVE  InFlight'
  <2>1. Interrupted(k, p)
    BY <1>15, InterruptFacts DEF Recover
  <2> QED BY <2>1, <1>15 DEF Recover, InFlight, ProcessesGone, NoLocals, VoidState, Effects, Interrupted,
      Kinds, FreeSlot
<1>16. ASSUME NEW w \in Writes, NEW p \in Pubs, Land(w, p) \/ Vanish(w, p)
       PROVE  InFlight'
  BY <1>16 DEF Land, Vanish, InFlight, TakesEffect
<1>17. ASSUME NEW r \in Runs, OutsideChange(r)
       PROVE  InFlight'
  <2>1. Outside
    BY <1>17, OutsideFacts
  <2>2. UNCHANGED <<keepDb, knownVars, attempted, stage, keepLocals, outstanding, landed>>
    BY <1>17 DEF OutsideChange
  <2> QED BY <2>1, <2>2 DEF InFlight, Outside
<1>18. CASE UNCHANGED vars
  BY <1>18 DEF vars, InFlight
<1> QED BY <1>1, <1>2, <1>3, <1>4, <1>5, <1>6, <1>7, <1>8, <1>9, <1>10, <1>11, <1>12, <1>13, <1>14, <1>15,
    <1>16, <1>17, <1>18 DEF Next, WebStep, HandlerStep, ExecuteStep, RecoverStep, RemoteStep

\* What bears the mark of a publication was landed by it.
LEMMA OursLandedStep == TypeOK /\ OursLanded /\ InFlight /\ [Next]_vars => OursLanded'
<1> SUFFICES ASSUME TypeOK, OursLanded, InFlight, [Next]_vars PROVE OursLanded'
  OBVIOUS
<1>0. Rows
  BY RowsHold
<1> USE <1>0, PublicationAssumption, NoJobAssumption DEF Rows, pubVars, knownVars, grantVars, policyVars,
    localVars, remoteVars, handlerVars, keepDb, keepLocals, At, GoTo
<1>1. ASSUME NEW p \in Pubs, PreparePublication(p) \/ ReconcilePublication(p) \/ AbandonRemaining(p)
    \/ LookBeforeCreate(p) \/ CreatePublication(p)
       PROVE  OursLanded'
  BY <1>1 DEF PreparePublication, ReconcilePublication, AbandonRemaining, LookBeforeCreate, CreatePublication,
      OursLanded, Others, Enqueue, NoLiveJobs, Void, Unique, Live
<1>2. ASSUME NEW p \in Pubs, NEW a \in Admins, Approve(p, a) \/ Reject(p, a) \/ RetryPublication(p, a)
    \/ ApproveRemaining(p, a)
       PROVE  OursLanded'
  BY <1>2 DEF Approve, Reject, RetryPublication, ApproveRemaining, OursLanded, Grant, Enqueue, Recovery,
      NoLiveJobs
<1>3. CASE ConfigurePolicy
  BY <1>3 DEF ConfigurePolicy, OursLanded, PolicyFree, InvalidateAll, Waiting, Void, Outdates, VoidState,
      Closed, Effects
<1>4. ASSUME NEW a \in Admins, Revoke(a) \/ Regain(a)
       PROVE  OursLanded'
  BY <1>4 DEF Revoke, Regain, OursLanded, Granted, Closed, Void, Outdates, VoidState, Queued, Grants, Effects
<1>5. ASSUME NEW j \in Jobs, ClaimJob(j)
       PROVE  OursLanded'
  BY <1>5 DEF ClaimJob, OursLanded, NoLocals
<1>6. ASSUME NEW p \in Pubs, CreateFails(p) \/ StartExecute(p) \/ BeginPublishing(p) \/ Raise(p)
    \/ LookAndRaise(p)
       PROVE  OursLanded'
  BY <1>6 DEF CreateFails, StartExecute, BeginPublishing, Raise, LookAndRaise, OursLanded, CurrentApproval,
      Trying, Looking, Remember, Confirms, Grants, Pushed, Complete, PrExists
<1>7. ASSUME NEW p \in Pubs, Look(p) \/ Dispatch(p) \/ CheckTarget(p) \/ Authorize(p) \/ Send(p)
       PROVE  OursLanded'
  BY <1>7 DEF Look, Dispatch, CheckTarget, Authorize, Send, OursLanded, AsApproved, Pushed, Remember, PrExists,
      CurrentApproval, Grants
<1>8. ASSUME NEW p \in Pubs, Reply(p) \/ ConfirmPush(p) \/ Renew(p) \/ LookAgain(p) \/ LookFinally(p)
       PROVE  OursLanded'
  BY <1>8 DEF Reply, ConfirmPush, Renew, LookAgain, LookFinally, OursLanded, AsApproved, Pushed, Remember,
      PrExists, CurrentApproval, Complete, Grants
<1>9. ASSUME NEW p \in Pubs, Publish(p) \/ HandleFailure(p) \/ StartReconcile(p) \/ Observe(p) \/ Assess(p)
       PROVE  OursLanded'
  BY <1>9 DEF Publish, HandleFailure, StartReconcile, Observe, Assess, OursLanded, CurrentApproval,
      FailedState, Void, AsApproved, Remember, Pushed, Complete, Grants, PrExists, Effects, VoidState
<1>10. ASSUME NEW p \in Pubs, Settle(p)
       PROVE  OursLanded'
  BY <1>10 DEF Settle, OursLanded, Writable, Unique, Live, Others
<1>11. ASSUME NEW p \in Pubs, ReconcileFails(p)
       PROVE  OursLanded'
  <2>1. Doubted(p)
    BY <1>11, DoubtFacts DEF ReconcileFails
  <2> QED BY <2>1, <1>11 DEF ReconcileFails, OursLanded, Remember, Unique, Live, Others, Doubted
<1>12. ASSUME NEW k \in Kinds, NEW p \in Pubs, StartFails(k, p) \/ Finish(k, p)
       PROVE  OursLanded'
  BY <1>12 DEF StartFails, Finish, OursLanded, ProcessesGone, FreeSlot, NoLocals
<1>13. ASSUME NEW k \in Kinds, NEW p \in Pubs, MarkInterrupted(k, p)
       PROVE  OursLanded'
  <2>1. Interrupted(k, p)
    BY <1>13, InterruptFacts DEF MarkInterrupted
  <2> QED BY <2>1, <1>13 DEF MarkInterrupted, OursLanded, ProcessesGone, VoidState, Effects, Interrupted,
      Kinds
<1>14. CASE LoseHandler
  BY <1>14 DEF LoseHandler, OursLanded
<1>15. ASSUME NEW k \in Kinds, NEW p \in Pubs, Recover(k, p)
       PROVE  OursLanded'
  <2>1. Interrupted(k, p)
    BY <1>15, InterruptFacts DEF Recover
  <2> QED BY <2>1, <1>15 DEF Recover, OursLanded, ProcessesGone, NoLocals, VoidState, Effects, Interrupted,
      Kinds, FreeSlot
<1>16. ASSUME NEW w \in Writes, NEW p \in Pubs, Land(w, p)
       PROVE  OursLanded'
  <2>1. landed' = landed \cup {<<w, p>>}
    BY <1>16 DEF Land
  <2>2. CASE w = "push"
    <3>1. branch' = [branch EXCEPT ![RunOf[p]] = p] /\ UNCHANGED pr
      BY <1>16, <2>2 DEF Land
    <3> QED BY <2>1, <2>2, <3>1 DEF OursLanded
  <2>3. CASE w = "pr"
    <3>1. pr' = [pr EXCEPT ![RunOf[p]] = branch[RunOf[p]]] /\ UNCHANGED branch
      BY <1>16, <2>3 DEF Land
    <3>2. branch[RunOf[p]] \in {p, Absent, Foreign}
      BY <1>16, <2>3 DEF Land, InFlight
    <3> QED BY ZenonT(60), <2>1, <2>3, <3>1, <3>2 DEF OursLanded
  <2> QED BY <2>2, <2>3 DEF Writes
<1>17. ASSUME NEW w \in Writes, NEW p \in Pubs, Vanish(w, p)
       PROVE  OursLanded'
  BY <1>17 DEF Vanish, OursLanded
<1>18. ASSUME NEW r \in Runs, OutsideChange(r)
       PROVE  OursLanded'
  <2>1. Outside
    BY <1>18, OutsideFacts
  <2>2. UNCHANGED <<keepDb, knownVars, attempted, stage, keepLocals, outstanding, landed>>
    BY <1>18 DEF OutsideChange
  <2> QED BY ZenonT(60), <2>1, <2>2 DEF OursLanded, Outside
<1>19. CASE UNCHANGED vars
  BY <1>19 DEF vars, OursLanded
<1> QED BY <1>1, <1>2, <1>3, <1>4, <1>5, <1>6, <1>7, <1>8, <1>9, <1>10, <1>11, <1>12, <1>13, <1>14, <1>15,
    <1>16, <1>17, <1>18, <1>19 DEF Next, WebStep, HandlerStep, ExecuteStep, RecoverStep, RemoteStep

\* What the handlers have seen at the remote.
LEMMA SeenStep == TypeOK /\ Seen /\ OursLanded /\ [Next]_vars => Seen'
<1> SUFFICES ASSUME TypeOK, Seen, OursLanded, [Next]_vars PROVE Seen'
  OBVIOUS
<1>0. Rows
  BY RowsHold
<1> USE <1>0, PublicationAssumption, NoJobAssumption DEF Rows, pubVars, knownVars, grantVars, policyVars,
    localVars, remoteVars, handlerVars, keepDb, keepLocals, At, GoTo
<1>1. ASSUME NEW p \in Pubs, PreparePublication(p) \/ ReconcilePublication(p) \/ AbandonRemaining(p)
    \/ LookBeforeCreate(p) \/ CreatePublication(p)
       PROVE  Seen'
  BY <1>1 DEF PreparePublication, ReconcilePublication, AbandonRemaining, LookBeforeCreate, CreatePublication,
      Seen, Others, Enqueue, NoLiveJobs, Void, Unique, Landed, Live
<1>2. ASSUME NEW p \in Pubs, NEW a \in Admins, Approve(p, a) \/ Reject(p, a) \/ RetryPublication(p, a)
    \/ ApproveRemaining(p, a)
       PROVE  Seen'
  BY <1>2 DEF Approve, Reject, RetryPublication, ApproveRemaining, Seen, Grant, Enqueue, Recovery, Landed,
      NoLiveJobs
<1>3. CASE ConfigurePolicy
  BY <1>3 DEF ConfigurePolicy, Seen, PolicyFree, InvalidateAll, Waiting, Void, Outdates, Landed, VoidState,
      Closed, Effects
<1>4. ASSUME NEW a \in Admins, Revoke(a) \/ Regain(a)
       PROVE  Seen'
  BY <1>4 DEF Revoke, Regain, Seen, Granted, Closed, Void, Outdates, VoidState, Queued, Landed, Grants,
      Effects
<1>5. ASSUME NEW j \in Jobs, ClaimJob(j)
       PROVE  Seen'
  BY <1>5 DEF ClaimJob, Seen, NoLocals, Landed
<1>6. ASSUME NEW p \in Pubs, CreateFails(p) \/ StartExecute(p) \/ BeginPublishing(p) \/ Raise(p)
    \/ LookAndRaise(p)
       PROVE  Seen'
  BY <1>6 DEF CreateFails, StartExecute, BeginPublishing, Raise, LookAndRaise, Seen, CurrentApproval, Trying,
      Looking, Remember, Confirms, Landed, Grants, Pushed, Complete, PrExists
<1>7. ASSUME NEW p \in Pubs, Look(p) \/ Dispatch(p) \/ CheckTarget(p) \/ Authorize(p) \/ Send(p)
       PROVE  Seen'
  BY <1>7 DEF Look, Dispatch, CheckTarget, Authorize, Send, Seen, AsApproved, Pushed, Remember, PrExists,
      CurrentApproval, Landed, Grants
<1>8. ASSUME NEW p \in Pubs, Reply(p) \/ ConfirmPush(p) \/ Renew(p) \/ LookAgain(p) \/ Publish(p)
       PROVE  Seen'
  BY <1>8 DEF Reply, ConfirmPush, Renew, LookAgain, Publish, Seen, AsApproved, Pushed, Remember, PrExists,
      CurrentApproval, Landed, Grants
<1>9. ASSUME NEW p \in Pubs, LookFinally(p)
       PROVE  Seen'
  BY <1>9 DEF LookFinally, OursLanded, Seen, AsApproved, Complete, Remember, Landed, Pushed, PrExists
<1>10. ASSUME NEW p \in Pubs, Observe(p)
       PROVE  Seen'
  BY <1>10 DEF Observe, OursLanded, Seen, AsApproved, Remember, Pushed, Complete, Grants, PrExists, Effects,
      Landed
<1>11. ASSUME NEW p \in Pubs, HandleFailure(p) \/ StartReconcile(p) \/ Assess(p) \/ Settle(p)
       PROVE  Seen'
  BY <1>11 DEF HandleFailure, StartReconcile, Assess, Settle, Seen, FailedState, Void, CurrentApproval,
      Writable, Landed, Effects, VoidState, Grants, Unique, Live, Others
<1>12. ASSUME NEW p \in Pubs, ReconcileFails(p)
       PROVE  Seen'
  <2>1. Doubted(p)
    BY <1>12, DoubtFacts DEF ReconcileFails
  <2> QED BY <2>1, <1>12 DEF ReconcileFails, Seen, Remember, Landed, Unique, Live, Others, Doubted
<1>13. ASSUME NEW k \in Kinds, NEW p \in Pubs, StartFails(k, p) \/ Finish(k, p)
       PROVE  Seen'
  BY <1>13 DEF StartFails, Finish, Seen, ProcessesGone, FreeSlot, Landed, NoLocals
<1>14. ASSUME NEW k \in Kinds, NEW p \in Pubs, MarkInterrupted(k, p)
       PROVE  Seen'
  <2>1. Interrupted(k, p)
    BY <1>14, InterruptFacts DEF MarkInterrupted
  <2> QED BY <2>1, <1>14 DEF MarkInterrupted, Seen, ProcessesGone, Landed, VoidState, Effects, Interrupted,
      Kinds
<1>15. CASE LoseHandler
  BY <1>15 DEF LoseHandler, Seen, Landed
<1>16. ASSUME NEW k \in Kinds, NEW p \in Pubs, Recover(k, p)
       PROVE  Seen'
  <2>1. Interrupted(k, p)
    BY <1>16, InterruptFacts DEF Recover
  <2> QED BY <2>1, <1>16 DEF Recover, Seen, ProcessesGone, Landed, NoLocals, VoidState, Effects, Interrupted,
      Kinds, FreeSlot
<1>17. ASSUME NEW w \in Writes, NEW p \in Pubs, Land(w, p) \/ Vanish(w, p)
       PROVE  Seen'
  BY <1>17 DEF Land, Vanish, Seen, TakesEffect, Landed
<1>18. ASSUME NEW r \in Runs, OutsideChange(r)
       PROVE  Seen'
  <2>1. Outside
    BY <1>18, OutsideFacts
  <2>2. UNCHANGED <<keepDb, knownVars, attempted, stage, keepLocals, outstanding, landed>>
    BY <1>18 DEF OutsideChange
  <2> QED BY <2>1, <2>2 DEF Seen, Landed, Outside
<1>19. CASE UNCHANGED vars
  BY <1>19 DEF vars, Seen, Landed
<1> QED BY <1>1, <1>2, <1>3, <1>4, <1>5, <1>6, <1>7, <1>8, <1>9, <1>10, <1>11, <1>12, <1>13, <1>14, <1>15,
    <1>16, <1>17, <1>18, <1>19 DEF Next, WebStep, HandlerStep, ExecuteStep, RecoverStep, RemoteStep

\* PUBLISHED is said only of what has landed.
LEMMA PublishedIsTrueStep == TypeOK /\ PublishedIsTrue /\ Seen /\ [Next]_vars => PublishedIsTrue'
<1> SUFFICES ASSUME TypeOK, PublishedIsTrue, Seen, [Next]_vars PROVE PublishedIsTrue'
  OBVIOUS
<1>0. Rows
  BY RowsHold
<1> USE <1>0, PublicationAssumption, NoJobAssumption DEF Rows, pubVars, knownVars, grantVars, policyVars,
    localVars, remoteVars, handlerVars, keepDb, keepLocals, At, GoTo
<1>1. ASSUME NEW p \in Pubs, PreparePublication(p) \/ ReconcilePublication(p) \/ AbandonRemaining(p)
    \/ LookBeforeCreate(p) \/ CreatePublication(p)
       PROVE  PublishedIsTrue'
  BY <1>1 DEF PreparePublication, ReconcilePublication, AbandonRemaining, LookBeforeCreate, CreatePublication,
      PublishedIsTrue, Others, Enqueue, NoLiveJobs, Void, Unique, Live
<1>2. ASSUME NEW p \in Pubs, NEW a \in Admins, Approve(p, a) \/ Reject(p, a) \/ RetryPublication(p, a)
    \/ ApproveRemaining(p, a)
       PROVE  PublishedIsTrue'
  BY <1>2 DEF Approve, Reject, RetryPublication, ApproveRemaining, PublishedIsTrue, Grant, Enqueue, Recovery,
      NoLiveJobs
<1>3. CASE ConfigurePolicy
  BY <1>3 DEF ConfigurePolicy, PublishedIsTrue, PolicyFree, InvalidateAll, Waiting, Void, Outdates, VoidState,
      Closed, Effects
<1>4. ASSUME NEW a \in Admins, Revoke(a) \/ Regain(a)
       PROVE  PublishedIsTrue'
  BY <1>4 DEF Revoke, Regain, PublishedIsTrue, Granted, Closed, Void, Outdates, VoidState, Queued, Grants,
      Effects
<1>5. ASSUME NEW j \in Jobs, ClaimJob(j)
       PROVE  PublishedIsTrue'
  BY <1>5 DEF ClaimJob, PublishedIsTrue, NoLocals
<1>6. ASSUME NEW p \in Pubs, CreateFails(p) \/ StartExecute(p) \/ BeginPublishing(p) \/ Raise(p)
    \/ LookAndRaise(p)
       PROVE  PublishedIsTrue'
  BY <1>6 DEF CreateFails, StartExecute, BeginPublishing, Raise, LookAndRaise, PublishedIsTrue,
      CurrentApproval, Trying, Looking, Remember, Confirms, Grants, Pushed, Complete, PrExists
<1>7. ASSUME NEW p \in Pubs, Look(p) \/ Dispatch(p) \/ CheckTarget(p) \/ Authorize(p) \/ Send(p)
       PROVE  PublishedIsTrue'
  BY <1>7 DEF Look, Dispatch, CheckTarget, Authorize, Send, PublishedIsTrue, AsApproved, Pushed, Remember,
      PrExists, CurrentApproval, Grants
<1>8. ASSUME NEW p \in Pubs, Reply(p) \/ ConfirmPush(p) \/ Renew(p) \/ LookAgain(p) \/ LookFinally(p)
       PROVE  PublishedIsTrue'
  BY <1>8 DEF Reply, ConfirmPush, Renew, LookAgain, LookFinally, PublishedIsTrue, AsApproved, Pushed, Remember,
      PrExists, CurrentApproval, Complete, Grants
<1>9. ASSUME NEW p \in Pubs, Publish(p) \/ Settle(p)
       PROVE  PublishedIsTrue'
  BY <1>9 DEF Publish, Settle, Seen, PublishedIsTrue, CurrentApproval, Writable, Landed, Grants, Unique, Live,
      Others
<1>10. ASSUME NEW p \in Pubs, HandleFailure(p) \/ StartReconcile(p) \/ Observe(p) \/ Assess(p)
       PROVE  PublishedIsTrue'
  BY <1>10 DEF HandleFailure, StartReconcile, Observe, Assess, PublishedIsTrue, FailedState, Void, AsApproved,
      Remember, Pushed, Complete, Grants, PrExists, Effects, CurrentApproval, VoidState
<1>11. ASSUME NEW p \in Pubs, ReconcileFails(p)
       PROVE  PublishedIsTrue'
  <2>1. Doubted(p)
    BY <1>11, DoubtFacts DEF ReconcileFails
  <2> QED BY <2>1, <1>11 DEF ReconcileFails, PublishedIsTrue, Remember, Unique, Live, Others, Doubted
<1>12. ASSUME NEW k \in Kinds, NEW p \in Pubs, StartFails(k, p) \/ Finish(k, p)
       PROVE  PublishedIsTrue'
  BY <1>12 DEF StartFails, Finish, PublishedIsTrue, ProcessesGone, FreeSlot, NoLocals
<1>13. ASSUME NEW k \in Kinds, NEW p \in Pubs, MarkInterrupted(k, p)
       PROVE  PublishedIsTrue'
  <2>1. Interrupted(k, p)
    BY <1>13, InterruptFacts DEF MarkInterrupted
  <2> QED BY <2>1, <1>13 DEF MarkInterrupted, PublishedIsTrue, ProcessesGone, VoidState, Effects, Interrupted,
      Kinds
<1>14. CASE LoseHandler
  BY <1>14 DEF LoseHandler, PublishedIsTrue
<1>15. ASSUME NEW k \in Kinds, NEW p \in Pubs, Recover(k, p)
       PROVE  PublishedIsTrue'
  <2>1. Interrupted(k, p)
    BY <1>15, InterruptFacts DEF Recover
  <2> QED BY <2>1, <1>15 DEF Recover, PublishedIsTrue, ProcessesGone, NoLocals, VoidState, Effects,
      Interrupted, Kinds, FreeSlot
<1>16. ASSUME NEW w \in Writes, NEW p \in Pubs, Land(w, p) \/ Vanish(w, p)
       PROVE  PublishedIsTrue'
  BY <1>16 DEF Land, Vanish, PublishedIsTrue, TakesEffect
<1>17. ASSUME NEW r \in Runs, OutsideChange(r)
       PROVE  PublishedIsTrue'
  <2>1. Outside
    BY <1>17, OutsideFacts
  <2>2. UNCHANGED <<keepDb, knownVars, attempted, stage, keepLocals, outstanding, landed>>
    BY <1>17 DEF OutsideChange
  <2> QED BY <2>1, <2>2 DEF PublishedIsTrue, Outside
<1>18. CASE UNCHANGED vars
  BY <1>18 DEF vars, PublishedIsTrue
<1> QED BY <1>1, <1>2, <1>3, <1>4, <1>5, <1>6, <1>7, <1>8, <1>9, <1>10, <1>11, <1>12, <1>13, <1>14, <1>15,
    <1>16, <1>17, <1>18 DEF Next, WebStep, HandlerStep, ExecuteStep, RecoverStep, RemoteStep

\* A proposal is made while the branch of its run is nobody's.
LEMMA ProposingStep == TypeOK /\ Proposing /\ InFlight /\ [Next]_vars => Proposing'
<1> SUFFICES ASSUME TypeOK, Proposing, InFlight, [Next]_vars PROVE Proposing'
  OBVIOUS
<1>0. Rows
  BY RowsHold
<1> USE <1>0, PublicationAssumption, NoJobAssumption DEF Rows, pubVars, knownVars, grantVars, policyVars,
    localVars, remoteVars, handlerVars, keepDb, keepLocals, At, GoTo
<1>1. ASSUME NEW p \in Pubs, PreparePublication(p) \/ ReconcilePublication(p) \/ AbandonRemaining(p)
    \/ LookBeforeCreate(p) \/ CreatePublication(p)
       PROVE  Proposing'
  BY <1>1 DEF PreparePublication, ReconcilePublication, AbandonRemaining, LookBeforeCreate, CreatePublication,
      Proposing, Others, Enqueue, NoLiveJobs, Void, Unique, Live
<1>2. ASSUME NEW p \in Pubs, NEW a \in Admins, Approve(p, a) \/ Reject(p, a) \/ RetryPublication(p, a)
    \/ ApproveRemaining(p, a)
       PROVE  Proposing'
  BY <1>2 DEF Approve, Reject, RetryPublication, ApproveRemaining, Proposing, Grant, Enqueue, Recovery,
      NoLiveJobs
<1>3. CASE ConfigurePolicy
  BY <1>3 DEF ConfigurePolicy, Proposing, PolicyFree, InvalidateAll, Waiting, Void, Outdates, VoidState,
      Closed, Effects
<1>4. ASSUME NEW a \in Admins, Revoke(a) \/ Regain(a)
       PROVE  Proposing'
  BY <1>4 DEF Revoke, Regain, Proposing, Granted, Closed, Void, Outdates, VoidState, Queued, Grants, Effects
<1>5. ASSUME NEW j \in Jobs, ClaimJob(j)
       PROVE  Proposing'
  BY <1>5 DEF ClaimJob, Proposing, NoLocals
<1>6. ASSUME NEW p \in Pubs, CreateFails(p) \/ StartExecute(p) \/ BeginPublishing(p) \/ Raise(p)
    \/ LookAndRaise(p)
       PROVE  Proposing'
  BY <1>6 DEF CreateFails, StartExecute, BeginPublishing, Raise, LookAndRaise, Proposing, CurrentApproval,
      Trying, Looking, Remember, Confirms, Grants, Pushed, Complete, PrExists
<1>7. ASSUME NEW p \in Pubs, Look(p) \/ Dispatch(p) \/ CheckTarget(p) \/ Authorize(p) \/ Send(p)
       PROVE  Proposing'
  BY <1>7 DEF Look, Dispatch, CheckTarget, Authorize, Send, Proposing, AsApproved, Pushed, Remember, PrExists,
      CurrentApproval, Grants
<1>8. ASSUME NEW p \in Pubs, Reply(p) \/ ConfirmPush(p) \/ Renew(p) \/ LookAgain(p) \/ LookFinally(p)
       PROVE  Proposing'
  BY <1>8 DEF Reply, ConfirmPush, Renew, LookAgain, LookFinally, Proposing, AsApproved, Pushed, Remember,
      PrExists, CurrentApproval, Complete, Grants
<1>9. ASSUME NEW p \in Pubs, Publish(p) \/ HandleFailure(p) \/ StartReconcile(p) \/ Observe(p) \/ Assess(p)
       PROVE  Proposing'
  BY <1>9 DEF Publish, HandleFailure, StartReconcile, Observe, Assess, Proposing, CurrentApproval, FailedState,
      Void, AsApproved, Remember, Pushed, Complete, Grants, PrExists, Effects, VoidState
<1>10. ASSUME NEW p \in Pubs, Settle(p)
       PROVE  Proposing'
  BY <1>10 DEF Settle, Proposing, Writable, Unique, Live, Others
<1>11. ASSUME NEW p \in Pubs, ReconcileFails(p)
       PROVE  Proposing'
  <2>1. Doubted(p)
    BY <1>11, DoubtFacts DEF ReconcileFails
  <2> QED BY <2>1, <1>11 DEF ReconcileFails, Proposing, Remember, Unique, Live, Others, Doubted
<1>12. ASSUME NEW k \in Kinds, NEW p \in Pubs, StartFails(k, p) \/ Finish(k, p)
       PROVE  Proposing'
  BY <1>12 DEF StartFails, Finish, Proposing, ProcessesGone, FreeSlot, NoLocals
<1>13. ASSUME NEW k \in Kinds, NEW p \in Pubs, MarkInterrupted(k, p)
       PROVE  Proposing'
  <2>1. Interrupted(k, p)
    BY <1>13, InterruptFacts DEF MarkInterrupted
  <2> QED BY <2>1, <1>13 DEF MarkInterrupted, Proposing, ProcessesGone, VoidState, Effects, Interrupted, Kinds
<1>14. CASE LoseHandler
  BY <1>14 DEF LoseHandler, Proposing
<1>15. ASSUME NEW k \in Kinds, NEW p \in Pubs, Recover(k, p)
       PROVE  Proposing'
  <2>1. Interrupted(k, p)
    BY <1>15, InterruptFacts DEF Recover
  <2> QED BY <2>1, <1>15 DEF Recover, Proposing, ProcessesGone, NoLocals, VoidState, Effects, Interrupted,
      Kinds, FreeSlot
<1>16. ASSUME NEW w \in Writes, NEW p \in Pubs, Land(w, p)
       PROVE  Proposing'
  BY <1>16 DEF Land, InFlight, Proposing, TakesEffect
<1>17. ASSUME NEW w \in Writes, NEW p \in Pubs, Vanish(w, p)
       PROVE  Proposing'
  BY <1>17 DEF Vanish, Proposing
<1>18. ASSUME NEW r \in Runs, OutsideChange(r)
       PROVE  Proposing'
  <2>1. Outside
    BY <1>18, OutsideFacts
  <2>2. UNCHANGED <<keepDb, knownVars, attempted, stage, keepLocals, outstanding, landed>>
    BY <1>18 DEF OutsideChange
  <2> QED BY <2>1, <2>2 DEF Proposing, Outside
<1>19. CASE UNCHANGED vars
  BY <1>19 DEF vars, Proposing
<1> QED BY <1>1, <1>2, <1>3, <1>4, <1>5, <1>6, <1>7, <1>8, <1>9, <1>10, <1>11, <1>12, <1>13, <1>14, <1>15,
    <1>16, <1>17, <1>18, <1>19 DEF Next, WebStep, HandlerStep, ExecuteStep, RecoverStep, RemoteStep

\* What reconciling has stored of the remote.
LEMMA ReconcilingStep == TypeOK /\ Reconciling /\ InFlight /\ Seen /\ [Next]_vars => Reconciling'
<1> SUFFICES ASSUME TypeOK, Reconciling, InFlight, Seen, [Next]_vars PROVE Reconciling'
  OBVIOUS
<1>0. Rows
  BY RowsHold
<1> USE <1>0, PublicationAssumption, NoJobAssumption DEF Rows, pubVars, knownVars, grantVars, policyVars,
    localVars, remoteVars, handlerVars, keepDb, keepLocals, At, GoTo
<1>1. ASSUME NEW p \in Pubs, PreparePublication(p) \/ ReconcilePublication(p) \/ AbandonRemaining(p)
    \/ LookBeforeCreate(p) \/ CreatePublication(p)
       PROVE  Reconciling'
  BY <1>1 DEF PreparePublication, ReconcilePublication, AbandonRemaining, LookBeforeCreate, CreatePublication,
      Reconciling, Others, Enqueue, NoLiveJobs, Void, Unique, Effects, Remote, Live, Writes
<1>2. ASSUME NEW p \in Pubs, NEW a \in Admins, Approve(p, a) \/ Reject(p, a) \/ RetryPublication(p, a)
    \/ ApproveRemaining(p, a)
       PROVE  Reconciling'
  BY <1>2 DEF Approve, Reject, RetryPublication, ApproveRemaining, Reconciling, Grant, Enqueue, Recovery,
      Effects, Remote, NoLiveJobs, Writes
<1>3. CASE ConfigurePolicy
  BY <1>3 DEF ConfigurePolicy, Reconciling, PolicyFree, InvalidateAll, Waiting, Void, Outdates, Effects,
      Remote, VoidState, Closed, Writes
<1>4. ASSUME NEW a \in Admins, Revoke(a) \/ Regain(a)
       PROVE  Reconciling'
  BY <1>4 DEF Revoke, Regain, Reconciling, Granted, Closed, Void, Outdates, VoidState, Queued, Effects, Remote,
      Grants, Writes
<1>5. ASSUME NEW j \in Jobs, ClaimJob(j)
       PROVE  Reconciling'
  BY <1>5 DEF ClaimJob, Reconciling, NoLocals, Effects, Remote, Writes
<1>6. ASSUME NEW p \in Pubs, CreateFails(p) \/ StartExecute(p) \/ BeginPublishing(p) \/ Raise(p)
    \/ LookAndRaise(p)
       PROVE  Reconciling'
  BY <1>6 DEF CreateFails, StartExecute, BeginPublishing, Raise, LookAndRaise, Reconciling, CurrentApproval,
      Trying, Looking, Remember, Confirms, Effects, Remote, Grants, Pushed, Complete, Writes, PrExists
<1>7. ASSUME NEW p \in Pubs, Look(p) \/ Dispatch(p) \/ CheckTarget(p) \/ Authorize(p) \/ Send(p)
       PROVE  Reconciling'
  BY <1>7 DEF Look, Dispatch, CheckTarget, Authorize, Send, Reconciling, AsApproved, Pushed, Remember,
      PrExists, CurrentApproval, Effects, Remote, Grants, Writes
<1>8. ASSUME NEW p \in Pubs, Reply(p) \/ ConfirmPush(p) \/ Renew(p) \/ LookAgain(p) \/ LookFinally(p)
       PROVE  Reconciling'
  BY <1>8 DEF Reply, ConfirmPush, Renew, LookAgain, LookFinally, Reconciling, AsApproved, Pushed, Remember,
      PrExists, CurrentApproval, Complete, Effects, Remote, Grants, Writes
<1>9. ASSUME NEW p \in Pubs, Publish(p) \/ HandleFailure(p) \/ StartReconcile(p) \/ Settle(p)
       PROVE  Reconciling'
  BY <1>9 DEF Publish, HandleFailure, StartReconcile, Settle, Reconciling, CurrentApproval, FailedState, Void,
      Writable, Effects, Remote, Grants, VoidState, Unique, Writes, Live, Others
<1>10. ASSUME NEW p \in Pubs, Observe(p)
       PROVE  Reconciling'
  BY <1>10 DEF Observe, InFlight, Reconciling, AsApproved, Remember, Pushed, Complete, Grants, PrExists,
      Effects, Remote, Writes
<1>11. ASSUME NEW p \in Pubs, Assess(p)
       PROVE  Reconciling'
  <2>1. UNCHANGED <<working, knownVars, remoteVars>> /\ working = <<"reconcile", p>> /\ stage' = "settle"
    BY <1>11 DEF Assess
  <2>2. verdict' \in {"PUBLISHED", verdict} /\ verdict = "PARTIAL"
    BY <1>11 DEF Assess, Seen
  <2>3. Effects(p)' <=> Effects(p)
    BY <2>1 DEF Effects
  <2>4. Effects(p)
    BY <2>2, <1>11 DEF Assess, Reconciling
  <2> QED BY <2>1, <2>2, <2>3, <2>4 DEF Reconciling
<1>12. ASSUME NEW p \in Pubs, ReconcileFails(p)
       PROVE  Reconciling'
  <2>1. Doubted(p)
    BY <1>12, DoubtFacts DEF ReconcileFails
  <2> QED BY <2>1, <1>12 DEF ReconcileFails, Reconciling, Remember, Effects, Remote, Writes, Unique, Live,
      Others, Doubted
<1>13. ASSUME NEW k \in Kinds, NEW p \in Pubs, StartFails(k, p) \/ Finish(k, p)
       PROVE  Reconciling'
  BY <1>13 DEF StartFails, Finish, Reconciling, ProcessesGone, FreeSlot, Effects, Remote, NoLocals, Writes
<1>14. ASSUME NEW k \in Kinds, NEW p \in Pubs, MarkInterrupted(k, p)
       PROVE  Reconciling'
  <2>1. Interrupted(k, p)
    BY <1>14, InterruptFacts DEF MarkInterrupted
  <2> QED BY <2>1, <1>14 DEF MarkInterrupted, Reconciling, ProcessesGone, Effects, Remote, Writes, VoidState,
      Interrupted, Kinds
<1>15. CASE LoseHandler
  BY <1>15 DEF LoseHandler, Reconciling, Effects, Remote, Writes
<1>16. ASSUME NEW k \in Kinds, NEW p \in Pubs, Recover(k, p)
       PROVE  Reconciling'
  <2>1. Interrupted(k, p)
    BY <1>16, InterruptFacts DEF Recover
  <2> QED BY <2>1, <1>16 DEF Recover, Reconciling, ProcessesGone, Effects, Remote, NoLocals, Writes, VoidState,
      Interrupted, Kinds, FreeSlot
<1>17. ASSUME NEW w \in Writes, NEW p \in Pubs, Land(w, p)
       PROVE  Reconciling'
  BY <1>17 DEF Land, InFlight, Reconciling, TakesEffect, Effects, Remote, Writes
<1>18. ASSUME NEW w \in Writes, NEW p \in Pubs, Vanish(w, p)
       PROVE  Reconciling'
  BY <1>18 DEF Vanish, Reconciling, Effects, Remote, Writes
<1>19. ASSUME NEW r \in Runs, OutsideChange(r)
       PROVE  Reconciling'
  <2>1. Outside
    BY <1>19, OutsideFacts
  <2>2. UNCHANGED <<keepDb, knownVars, attempted, stage, keepLocals, outstanding, landed>>
    BY <1>19 DEF OutsideChange
  <2> QED BY <2>1, <2>2 DEF Reconciling, Effects, Remote, Writes, Outside
<1>20. CASE UNCHANGED vars
  BY <1>20 DEF vars, Reconciling, Effects, Remote, Writes
<1> QED BY <1>1, <1>2, <1>3, <1>4, <1>5, <1>6, <1>7, <1>8, <1>9, <1>10, <1>11, <1>12, <1>13, <1>14, <1>15,
    <1>16, <1>17, <1>18, <1>19, <1>20 DEF Next, WebStep, HandlerStep, ExecuteStep, RecoverStep, RemoteStep

\* PARTIAL is said only of what was seen.
LEMMA PartialSeenStep == TypeOK /\ PartialSeen /\ Reconciling /\ [Next]_vars => PartialSeen'
<1> SUFFICES ASSUME TypeOK, PartialSeen, Reconciling, [Next]_vars PROVE PartialSeen'
  OBVIOUS
<1>0. Rows
  BY RowsHold
<1> USE <1>0, PublicationAssumption, NoJobAssumption DEF Rows, pubVars, knownVars, grantVars, policyVars,
    localVars, remoteVars, handlerVars, keepDb, keepLocals, At, GoTo
<1>1. ASSUME NEW p \in Pubs, PreparePublication(p) \/ ReconcilePublication(p) \/ AbandonRemaining(p)
    \/ LookBeforeCreate(p) \/ CreatePublication(p)
       PROVE  PartialSeen'
  BY <1>1 DEF PreparePublication, ReconcilePublication, AbandonRemaining, LookBeforeCreate, CreatePublication,
      PartialSeen, Others, Enqueue, NoLiveJobs, Void, Unique, Effects, Live
<1>2. ASSUME NEW p \in Pubs, NEW a \in Admins, Approve(p, a) \/ Reject(p, a) \/ RetryPublication(p, a)
    \/ ApproveRemaining(p, a)
       PROVE  PartialSeen'
  BY <1>2 DEF Approve, Reject, RetryPublication, ApproveRemaining, PartialSeen, Grant, Enqueue, Recovery,
      Effects, NoLiveJobs
<1>3. CASE ConfigurePolicy
  BY <1>3 DEF ConfigurePolicy, PartialSeen, PolicyFree, InvalidateAll, Waiting, Void, Outdates, Effects,
      VoidState, Closed
<1>4. ASSUME NEW a \in Admins, Revoke(a) \/ Regain(a)
       PROVE  PartialSeen'
  BY <1>4 DEF Revoke, Regain, PartialSeen, Granted, Closed, Void, Outdates, VoidState, Queued, Effects, Grants
<1>5. ASSUME NEW j \in Jobs, ClaimJob(j)
       PROVE  PartialSeen'
  BY <1>5 DEF ClaimJob, PartialSeen, NoLocals, Effects
<1>6. ASSUME NEW p \in Pubs, CreateFails(p) \/ StartExecute(p) \/ BeginPublishing(p) \/ Raise(p)
    \/ LookAndRaise(p)
       PROVE  PartialSeen'
  BY <1>6 DEF CreateFails, StartExecute, BeginPublishing, Raise, LookAndRaise, PartialSeen, CurrentApproval,
      Trying, Looking, Remember, Confirms, Effects, Grants, Pushed, Complete, PrExists
<1>7. ASSUME NEW p \in Pubs, Look(p) \/ Dispatch(p) \/ CheckTarget(p) \/ Authorize(p) \/ Send(p)
       PROVE  PartialSeen'
  BY <1>7 DEF Look, Dispatch, CheckTarget, Authorize, Send, PartialSeen, AsApproved, Pushed, Remember,
      PrExists, CurrentApproval, Effects, Grants
<1>8. ASSUME NEW p \in Pubs, Reply(p) \/ ConfirmPush(p) \/ Renew(p) \/ LookAgain(p) \/ LookFinally(p)
       PROVE  PartialSeen'
  BY <1>8 DEF Reply, ConfirmPush, Renew, LookAgain, LookFinally, PartialSeen, AsApproved, Pushed, Remember,
      PrExists, CurrentApproval, Complete, Effects, Grants
<1>9. ASSUME NEW p \in Pubs, Publish(p) \/ HandleFailure(p) \/ StartReconcile(p) \/ Observe(p) \/ Assess(p)
       PROVE  PartialSeen'
  BY <1>9 DEF Publish, HandleFailure, StartReconcile, Observe, Assess, PartialSeen, CurrentApproval,
      FailedState, Void, AsApproved, Remember, Pushed, Complete, Grants, PrExists, Effects, VoidState
<1>10. ASSUME NEW p \in Pubs, Settle(p)
       PROVE  PartialSeen'
  BY <1>10 DEF Settle, Reconciling, PartialSeen, Writable, Effects, Remote, Unique, Writes, Live, Others
<1>11. ASSUME NEW p \in Pubs, ReconcileFails(p)
       PROVE  PartialSeen'
  <2>1. Doubted(p)
    BY <1>11, DoubtFacts DEF ReconcileFails
  <2> QED BY <2>1, <1>11 DEF ReconcileFails, PartialSeen, Remember, Effects, Unique, Live, Others, Doubted
<1>12. ASSUME NEW k \in Kinds, NEW p \in Pubs, StartFails(k, p) \/ Finish(k, p)
       PROVE  PartialSeen'
  BY <1>12 DEF StartFails, Finish, PartialSeen, ProcessesGone, FreeSlot, Effects, NoLocals
<1>13. ASSUME NEW k \in Kinds, NEW p \in Pubs, MarkInterrupted(k, p)
       PROVE  PartialSeen'
  <2>1. Interrupted(k, p)
    BY <1>13, InterruptFacts DEF MarkInterrupted
  <2> QED BY <2>1, <1>13 DEF MarkInterrupted, PartialSeen, ProcessesGone, Effects, VoidState, Interrupted,
      Kinds
<1>14. CASE LoseHandler
  BY <1>14 DEF LoseHandler, PartialSeen, Effects
<1>15. ASSUME NEW k \in Kinds, NEW p \in Pubs, Recover(k, p)
       PROVE  PartialSeen'
  <2>1. Interrupted(k, p)
    BY <1>15, InterruptFacts DEF Recover
  <2> QED BY <2>1, <1>15 DEF Recover, PartialSeen, ProcessesGone, Effects, NoLocals, VoidState, Interrupted,
      Kinds, FreeSlot
<1>16. ASSUME NEW w \in Writes, NEW p \in Pubs, Land(w, p) \/ Vanish(w, p)
       PROVE  PartialSeen'
  BY <1>16 DEF Land, Vanish, PartialSeen, TakesEffect, Effects
<1>17. ASSUME NEW r \in Runs, OutsideChange(r)
       PROVE  PartialSeen'
  <2>1. Outside
    BY <1>17, OutsideFacts
  <2>2. UNCHANGED <<keepDb, knownVars, attempted, stage, keepLocals, outstanding, landed>>
    BY <1>17 DEF OutsideChange
  <2> QED BY <2>1, <2>2 DEF PartialSeen, Effects, Outside
<1>18. CASE UNCHANGED vars
  BY <1>18 DEF vars, PartialSeen, Effects
<1> QED BY <1>1, <1>2, <1>3, <1>4, <1>5, <1>6, <1>7, <1>8, <1>9, <1>10, <1>11, <1>12, <1>13, <1>14, <1>15,
    <1>16, <1>17, <1>18 DEF Next, WebStep, HandlerStep, ExecuteStep, RecoverStep, RemoteStep

\* What is at the remote is stored, or the state or the handler says that it may be.
LEMMA NoticedStep == TypeOK /\ Noticed /\ JobsFit /\ Executing /\ AbandonedIsOver /\ Seen /\ Reconciling
    /\ [Next]_vars => Noticed'
<1> SUFFICES ASSUME TypeOK, Noticed, JobsFit, Executing, AbandonedIsOver, Seen, Reconciling,
    [Next]_vars PROVE Noticed'
  OBVIOUS
<1>0. Rows
  BY RowsHold
<1> USE <1>0, PublicationAssumption, NoJobAssumption DEF Rows, pubVars, knownVars, grantVars, policyVars,
    localVars, remoteVars, handlerVars, keepDb, keepLocals, At, GoTo
<1>1. ASSUME NEW p \in Pubs, PreparePublication(p) \/ ReconcilePublication(p) \/ AbandonRemaining(p)
    \/ LookBeforeCreate(p) \/ CreateFails(p)
       PROVE  Noticed'
  BY <1>1 DEF PreparePublication, ReconcilePublication, AbandonRemaining, LookBeforeCreate, CreateFails,
      Noticed, Others, Enqueue, NoLiveJobs, Void, Remote, Effects, Writes
<1>2. ASSUME NEW p \in Pubs, NEW a \in Admins, Approve(p, a) \/ Reject(p, a) \/ RetryPublication(p, a)
    \/ ApproveRemaining(p, a)
       PROVE  Noticed'
  BY <1>2 DEF Approve, Reject, RetryPublication, ApproveRemaining, Noticed, Grant, Enqueue, Recovery, Remote,
      Effects, NoLiveJobs, Writes
<1>3. CASE ConfigurePolicy
  BY <1>3 DEF ConfigurePolicy, Noticed, PolicyFree, InvalidateAll, Waiting, Void, Outdates, Remote, Effects,
      VoidState, Closed, Writes
<1>4. ASSUME NEW a \in Admins, Revoke(a) \/ Regain(a)
       PROVE  Noticed'
  BY <1>4 DEF Revoke, Regain, Noticed, Granted, Closed, Void, Outdates, VoidState, Queued, Remote, Effects,
      Grants, Writes
<1>5. ASSUME NEW j \in Jobs, ClaimJob(j)
       PROVE  Noticed'
  BY <1>5 DEF ClaimJob, Noticed, NoLocals, Remote, Effects, Writes
<1>6. ASSUME NEW p \in Pubs, CreatePublication(p)
       PROVE  Noticed'
  BY <1>6 DEF CreatePublication, JobsFit, Noticed, Unique, NoLiveJobs, Remote, Effects, Live, Others, Writes
<1>7. ASSUME NEW p \in Pubs, StartExecute(p) \/ Raise(p) \/ Look(p) \/ Dispatch(p) \/ CheckTarget(p)
       PROVE  Noticed'
  BY <1>7 DEF StartExecute, Raise, Look, Dispatch, CheckTarget, Noticed, Trying, AsApproved, Pushed, Remember,
      PrExists, CurrentApproval, Remote, Effects, Grants, Writes
<1>8. ASSUME NEW p \in Pubs, BeginPublishing(p) \/ Send(p)
       PROVE  Noticed'
  BY <1>8 DEF BeginPublishing, Send, Executing, Noticed, CurrentApproval, Trying, Remote, Effects, Grants,
      Writes
<1>9. ASSUME NEW p \in Pubs, LookAndRaise(p)
       PROVE  Noticed'
  <2>1. Remembered(p)
    BY <1>9, RememberFacts DEF LookAndRaise
  <2>2. \A q \in Pubs : (Remote(q)' <=> Remote(q))
    BY <1>9 DEF LookAndRaise, Effects, Remote
  <2> QED BY <2>1, <2>2, <1>9 DEF LookAndRaise, Noticed, Looking, Confirms, Pushed, Complete, PrExists,
      Remembered
<1>10. ASSUME NEW p \in Pubs, Authorize(p) \/ Reply(p) \/ ConfirmPush(p) \/ Renew(p) \/ LookAgain(p)
       PROVE  Noticed'
  BY <1>10 DEF Authorize, Reply, ConfirmPush, Renew, LookAgain, Noticed, CurrentApproval, AsApproved, Pushed,
      Remember, PrExists, Remote, Effects, Grants, Writes
<1>11. ASSUME NEW p \in Pubs, LookFinally(p) \/ Publish(p) \/ StartReconcile(p) \/ Observe(p) \/ Assess(p)
       PROVE  Noticed'
  BY <1>11 DEF LookFinally, Publish, StartReconcile, Observe, Assess, Noticed, AsApproved, Complete, Remember,
      CurrentApproval, Pushed, Grants, PrExists, Effects, Remote, Writes
<1>12. ASSUME NEW p \in Pubs, HandleFailure(p)
       PROVE  Noticed'
  <2>1. \A q \in Pubs : (Effects(q)' <=> Effects(q)) /\ (Remote(q)' <=> Remote(q))
    BY <1>12 DEF HandleFailure, Effects, Remote
  <2> QED BY <2>1, <1>12 DEF HandleFailure, Executing, Noticed, FailedState, Void, Trying, VoidState
<1>13. ASSUME NEW p \in Pubs, Settle(p)
       PROVE  Noticed'
  BY <1>13 DEF Settle, Reconciling, Seen, Noticed, Writable, Effects, Remote, Landed, Unique, Writes, Live,
      Others
<1>14. ASSUME NEW p \in Pubs, ReconcileFails(p)
       PROVE  Noticed'
  <2>1. Doubted(p)
    BY <1>14, DoubtFacts DEF ReconcileFails
  <2> QED BY <2>1, <1>14 DEF ReconcileFails, Noticed, Remember, Remote, Effects, Writes, Unique, Live, Others,
      Doubted
<1>15. ASSUME NEW k \in Kinds, NEW p \in Pubs, StartFails(k, p)
       PROVE  Noticed'
  BY <1>15 DEF StartFails, Noticed, Remote, Effects, Writes
<1>16. ASSUME NEW k \in Kinds, NEW p \in Pubs, MarkInterrupted(k, p)
       PROVE  Noticed'
  <2>1. Interrupted(k, p)
    BY <1>16, InterruptFacts DEF MarkInterrupted
  <2>2. UNCHANGED <<abandoned, knownVars, remoteVars>> /\ working = <<k, p>>
    BY <1>16 DEF MarkInterrupted
  <2>3. \A q \in Pubs : (Remote(q)' <=> Remote(q)) /\ (Effects(q)' <=> Effects(q))
    BY <2>2 DEF Remote, Effects
  <2>4. \A q \in Pubs : working = <<"execute", q>> => q = p /\ k = "execute"
    BY <2>2
  <2>5. k = "execute" /\ dispatched => state'[p] = "UNKNOWN"
    BY <2>1, <2>2 DEF Interrupted, Executing, AbandonedIsOver, Closed
  <2>6. ASSUME NEW q \in Pubs, state[q] \in {"UNKNOWN", "PUBLISHED"}
        PROVE  state'[q] \in {"UNKNOWN", "PUBLISHED"}
    BY <2>1, <2>6 DEF Interrupted, Closed
  <2> QED BY <2>3, <2>4, <2>5, <2>6 DEF Noticed
<1>17. ASSUME NEW k \in Kinds, NEW p \in Pubs, Finish(k, p)
       PROVE  Noticed'
  BY <1>17 DEF Finish, Executing, Noticed, ProcessesGone, FreeSlot, Trying, Remote, Effects, NoLocals, Writes
<1>18. CASE LoseHandler
  BY <1>18 DEF LoseHandler, Noticed, Remote, Effects, Writes
<1>19. ASSUME NEW k \in Kinds, NEW p \in Pubs, Recover(k, p)
       PROVE  Noticed'
  <2>1. Interrupted(k, p)
    BY <1>19, InterruptFacts DEF Recover
  <2>2. UNCHANGED <<abandoned, knownVars, remoteVars>> /\ working = <<k, p>>
    BY <1>19 DEF Recover
  <2>3. \A q \in Pubs : (Remote(q)' <=> Remote(q)) /\ (Effects(q)' <=> Effects(q))
    BY <2>2 DEF Remote, Effects
  <2>4. \A q \in Pubs : working = <<"execute", q>> => q = p /\ k = "execute"
    BY <2>2
  <2>5. k = "execute" /\ dispatched => state'[p] = "UNKNOWN"
    BY <2>1, <2>2 DEF Interrupted, Executing, AbandonedIsOver, Closed
  <2>6. ASSUME NEW q \in Pubs, state[q] \in {"UNKNOWN", "PUBLISHED"}
        PROVE  state'[q] \in {"UNKNOWN", "PUBLISHED"}
    BY <2>1, <2>6 DEF Interrupted, Closed
  <2> QED BY <2>3, <2>4, <2>5, <2>6 DEF Noticed
<1>20. ASSUME NEW w \in Writes, NEW p \in Pubs, Land(w, p) \/ Vanish(w, p)
       PROVE  Noticed'
  BY <1>20 DEF Land, Vanish, Noticed, TakesEffect, Remote, Effects, Writes
<1>21. ASSUME NEW r \in Runs, OutsideChange(r)
       PROVE  Noticed'
  <2>1. Outside
    BY <1>21, OutsideFacts
  <2>2. UNCHANGED <<keepDb, knownVars, attempted, stage, keepLocals, outstanding, landed>>
    BY <1>21 DEF OutsideChange
  <2> QED BY <2>1, <2>2 DEF Noticed, Remote, Effects, Writes, Outside
<1>22. CASE UNCHANGED vars
  BY <1>22 DEF vars, Noticed, Remote, Effects, Writes
<1> QED BY <1>1, <1>2, <1>3, <1>4, <1>5, <1>6, <1>7, <1>8, <1>9, <1>10, <1>11, <1>12, <1>13, <1>14, <1>15,
    <1>16, <1>17, <1>18, <1>19, <1>20, <1>21, <1>22 DEF Next, WebStep, HandlerStep, ExecuteStep, RecoverStep,
    RemoteStep

\* No state denies what is at the remote or on its way there.
LEMMA NothingHiddenStep == TypeOK /\ NothingHidden /\ JobsFit /\ Executing /\ Seen /\ Reconciling /\ Noticed
    /\ [Next]_vars => NothingHidden'
<1> SUFFICES ASSUME TypeOK, NothingHidden, JobsFit, Executing, Seen, Reconciling, Noticed,
    [Next]_vars PROVE NothingHidden'
  OBVIOUS
<1>0. Rows
  BY RowsHold
<1> USE <1>0, PublicationAssumption, NoJobAssumption DEF Rows, pubVars, knownVars, grantVars, policyVars,
    localVars, remoteVars, handlerVars, keepDb, keepLocals, At, GoTo
<1>1. ASSUME NEW p \in Pubs, PreparePublication(p) \/ ReconcilePublication(p) \/ AbandonRemaining(p)
    \/ LookBeforeCreate(p) \/ CreateFails(p)
       PROVE  NothingHidden'
  BY <1>1 DEF PreparePublication, ReconcilePublication, AbandonRemaining, LookBeforeCreate, CreateFails,
      NothingHidden, Others, Enqueue, NoLiveJobs, Void, Writes
<1>2. ASSUME NEW p \in Pubs, NEW a \in Admins, Approve(p, a) \/ Reject(p, a) \/ RetryPublication(p, a)
    \/ ApproveRemaining(p, a)
       PROVE  NothingHidden'
  BY <1>2 DEF Approve, Reject, RetryPublication, ApproveRemaining, NothingHidden, Grant, Enqueue, Recovery,
      Writes, NoLiveJobs
<1>3. CASE ConfigurePolicy
  BY <1>3 DEF ConfigurePolicy, Noticed, NothingHidden, PolicyFree, InvalidateAll, Waiting, Void, Outdates,
      Remote, Effects, Writes, VoidState, Closed
<1>4. ASSUME NEW a \in Admins, Revoke(a)
       PROVE  NothingHidden'
  BY <1>4 DEF Revoke, Noticed, Executing, NothingHidden, Granted, Closed, Void, Outdates, VoidState, Queued,
      Remote, Effects, Trying, Writes, Grants
<1>5. ASSUME NEW a \in Admins, Regain(a)
       PROVE  NothingHidden'
  BY <1>5 DEF Regain, NothingHidden, Writes
<1>6. ASSUME NEW j \in Jobs, ClaimJob(j)
       PROVE  NothingHidden'
  BY <1>6 DEF ClaimJob, NothingHidden, NoLocals, Writes
<1>7. ASSUME NEW p \in Pubs, CreatePublication(p)
       PROVE  NothingHidden'
  <2>1. UNCHANGED <<branch, pr, outstanding>> /\ working = <<"prepare", p>>
    BY <1>7 DEF CreatePublication
  <2>2. \A q \in Pubs \ {p} : state'[q] = state[q]
    BY <1>7 DEF CreatePublication
  <2>3. state[p] = "ABSENT"
    BY <1>7 DEF CreatePublication, JobsFit
  <2> QED BY <2>1, <2>2, <2>3 DEF NothingHidden
<1>8. ASSUME NEW p \in Pubs, StartExecute(p) \/ BeginPublishing(p) \/ Raise(p) \/ LookAndRaise(p) \/ Look(p)
       PROVE  NothingHidden'
  BY <1>8 DEF StartExecute, BeginPublishing, Raise, LookAndRaise, Look, NothingHidden, CurrentApproval, Trying,
      Looking, Remember, Confirms, AsApproved, Pushed, PrExists, Writes, Grants, Complete
<1>9. ASSUME NEW p \in Pubs, Dispatch(p) \/ CheckTarget(p) \/ Authorize(p) \/ Reply(p) \/ ConfirmPush(p)
       PROVE  NothingHidden'
  BY <1>9 DEF Dispatch, CheckTarget, Authorize, Reply, ConfirmPush, NothingHidden, CurrentApproval, AsApproved,
      PrExists, Pushed, Remember, Writes, Grants
<1>10. ASSUME NEW p \in Pubs, Send(p)
       PROVE  NothingHidden'
  BY <1>10 DEF Send, Executing, NothingHidden, Trying, Writes
<1>11. ASSUME NEW p \in Pubs, Renew(p) \/ LookAgain(p) \/ LookFinally(p) \/ Publish(p) \/ StartReconcile(p)
       PROVE  NothingHidden'
  BY <1>11 DEF Renew, LookAgain, LookFinally, Publish, StartReconcile, NothingHidden, CurrentApproval,
      AsApproved, Remember, PrExists, Complete, Writes, Grants, Pushed
<1>12. ASSUME NEW p \in Pubs, HandleFailure(p)
       PROVE  NothingHidden'
  <2>1. UNCHANGED <<knownVars, remoteVars>> /\ working = <<"execute", p>> /\ stage = "except"
    BY <1>12 DEF HandleFailure
  <2>2. /\ state'[p] = FailedState(p)
        /\ \A q \in Pubs \ {p} : state'[q] = state[q]
    BY <1>12 DEF HandleFailure
  <2>3. Remote(p) => FailedState(p) \in {"UNKNOWN", "PARTIAL"}
    <3>1. Remote(p) => Effects(p) \/ state[p] = "UNKNOWN" \/ dispatched
      BY <2>1 DEF Noticed, Executing
    <3> QED BY <3>1 DEF FailedState, VoidState
  <2>4. \A q \in Pubs : Remote(q)' <=> Remote(q)
    BY <2>1 DEF Remote
  <2>5. \A q \in Pubs : Remote(q) => state[q] \notin {"ABSENT", "PENDING_APPROVAL", "REJECTED", "INVALIDATED",
      "FAILED"}
    BY DEF NothingHidden, Remote
  <2>6. \A q \in Pubs : Remote(q) => state'[q] \notin {"ABSENT", "PENDING_APPROVAL", "REJECTED", "INVALIDATED",
      "FAILED"}
    BY <2>2, <2>3, <2>5
  <2> QED BY <2>4, <2>6 DEF NothingHidden, Remote
<1>13. ASSUME NEW p \in Pubs, Observe(p) \/ Assess(p)
       PROVE  NothingHidden'
  BY <1>13 DEF Observe, Assess, NothingHidden, AsApproved, Remember, Pushed, Complete, Grants, PrExists,
      Effects, CurrentApproval, Writes
<1>14. ASSUME NEW p \in Pubs, Settle(p)
       PROVE  NothingHidden'
  BY <1>14 DEF Settle, Reconciling, Seen, NothingHidden, Writable, Effects, Remote, Landed, Writes, Unique,
      Live, Others
<1>15. ASSUME NEW p \in Pubs, ReconcileFails(p)
       PROVE  NothingHidden'
  <2>1. Doubted(p)
    BY <1>15, DoubtFacts DEF ReconcileFails
  <2> QED BY <2>1, <1>15 DEF ReconcileFails, NothingHidden, Remember, Writes, Unique, Live, Others, Doubted
<1>16. ASSUME NEW k \in Kinds, NEW p \in Pubs, StartFails(k, p) \/ Finish(k, p)
       PROVE  NothingHidden'
  BY <1>16 DEF StartFails, Finish, NothingHidden, ProcessesGone, FreeSlot, Writes, NoLocals
<1>17. ASSUME NEW k \in Kinds, NEW p \in Pubs, MarkInterrupted(k, p)
       PROVE  NothingHidden'
  <2>1. Interrupted(k, p)
    BY <1>17, InterruptFacts DEF MarkInterrupted
  <2>2. UNCHANGED <<abandoned, knownVars, remoteVars>> /\ working = <<k, p>>
    BY <1>17 DEF MarkInterrupted
  <2>3. \A q \in Pubs : (Remote(q)' <=> Remote(q)) /\ (Effects(q)' <=> Effects(q))
    BY <2>2 DEF Remote, Effects
  <2>4. \A q \in Pubs : working = <<"execute", q>> => q = p /\ k = "execute"
    BY <2>2
  <2>5. ASSUME NEW q \in Pubs, Remote(q)
        PROVE  state'[q] \notin {"ABSENT", "PENDING_APPROVAL", "REJECTED", "INVALIDATED", "FAILED"}
    <3>1. state[q] \notin {"ABSENT", "PENDING_APPROVAL", "REJECTED", "INVALIDATED", "FAILED"}
      BY <2>5 DEF NothingHidden, Remote
    <3>2. Effects(q) \/ state[q] \in {"UNKNOWN", "PUBLISHED", "PUBLISHING"}
      BY <2>5, <2>4 DEF Noticed, Executing
    <3> QED BY <2>1, <3>1, <3>2 DEF Interrupted, VoidState, Closed
  <2> QED BY <2>3, <2>5 DEF NothingHidden, Remote
<1>18. CASE LoseHandler
  BY <1>18 DEF LoseHandler, NothingHidden, Writes
<1>19. ASSUME NEW k \in Kinds, NEW p \in Pubs, Recover(k, p)
       PROVE  NothingHidden'
  <2>1. Interrupted(k, p)
    BY <1>19, InterruptFacts DEF Recover
  <2>2. UNCHANGED <<abandoned, knownVars, remoteVars>> /\ working = <<k, p>>
    BY <1>19 DEF Recover
  <2>3. \A q \in Pubs : (Remote(q)' <=> Remote(q)) /\ (Effects(q)' <=> Effects(q))
    BY <2>2 DEF Remote, Effects
  <2>4. \A q \in Pubs : working = <<"execute", q>> => q = p /\ k = "execute"
    BY <2>2
  <2>5. ASSUME NEW q \in Pubs, Remote(q)
        PROVE  state'[q] \notin {"ABSENT", "PENDING_APPROVAL", "REJECTED", "INVALIDATED", "FAILED"}
    <3>1. state[q] \notin {"ABSENT", "PENDING_APPROVAL", "REJECTED", "INVALIDATED", "FAILED"}
      BY <2>5 DEF NothingHidden, Remote
    <3>2. Effects(q) \/ state[q] \in {"UNKNOWN", "PUBLISHED", "PUBLISHING"}
      BY <2>5, <2>4 DEF Noticed, Executing
    <3> QED BY <2>1, <3>1, <3>2 DEF Interrupted, VoidState, Closed
  <2> QED BY <2>3, <2>5 DEF NothingHidden, Remote
<1>20. ASSUME NEW w \in Writes, NEW p \in Pubs, Land(w, p) \/ Vanish(w, p)
       PROVE  NothingHidden'
  BY <1>20 DEF Land, Vanish, NothingHidden, TakesEffect, Writes
<1>21. ASSUME NEW r \in Runs, OutsideChange(r)
       PROVE  NothingHidden'
  <2>1. Outside
    BY <1>21, OutsideFacts
  <2>2. UNCHANGED <<keepDb, knownVars, attempted, stage, keepLocals, outstanding, landed>>
    BY <1>21 DEF OutsideChange
  <2> QED BY <2>1, <2>2 DEF NothingHidden, Writes, Outside
<1>22. CASE UNCHANGED vars
  BY <1>22 DEF vars, NothingHidden, Writes
<1> QED BY <1>1, <1>2, <1>3, <1>4, <1>5, <1>6, <1>7, <1>8, <1>9, <1>10, <1>11, <1>12, <1>13, <1>14, <1>15,
    <1>16, <1>17, <1>18, <1>19, <1>20, <1>21, <1>22 DEF Next, WebStep, HandlerStep, ExecuteStep, RecoverStep,
    RemoteStep

\* Whose own branch was seen once is live.
LEMMA SeenLiveStep == TypeOK /\ SeenLive /\ JobsFit /\ Executing /\ Seen /\ Reconciling /\ NothingHidden
    /\ [Next]_vars => SeenLive'
<1> SUFFICES ASSUME TypeOK, SeenLive, JobsFit, Executing, Seen, Reconciling, NothingHidden,
    [Next]_vars PROVE SeenLive'
  OBVIOUS
<1>0. Rows
  BY RowsHold
<1> USE <1>0, PublicationAssumption, NoJobAssumption DEF Rows, pubVars, knownVars, grantVars, policyVars,
    localVars, remoteVars, handlerVars, keepDb, keepLocals, At, GoTo
<1>1. ASSUME NEW p \in Pubs, PreparePublication(p) \/ ReconcilePublication(p) \/ AbandonRemaining(p)
    \/ LookBeforeCreate(p) \/ CreateFails(p)
       PROVE  SeenLive'
  BY <1>1 DEF PreparePublication, ReconcilePublication, AbandonRemaining, LookBeforeCreate, CreateFails,
      SeenLive, Others, Enqueue, NoLiveJobs, Void
<1>2. ASSUME NEW p \in Pubs, NEW a \in Admins, Approve(p, a) \/ Reject(p, a) \/ RetryPublication(p, a)
    \/ ApproveRemaining(p, a)
       PROVE  SeenLive'
  BY <1>2 DEF Approve, Reject, RetryPublication, ApproveRemaining, SeenLive, Grant, Enqueue, Recovery,
      NoLiveJobs
<1>3. CASE ConfigurePolicy
  BY <1>3 DEF ConfigurePolicy, SeenLive, PolicyFree, InvalidateAll, Waiting, Void, Outdates, VoidState, Closed,
      Effects
<1>4. ASSUME NEW a \in Admins, Revoke(a) \/ Regain(a)
       PROVE  SeenLive'
  BY <1>4 DEF Revoke, Regain, SeenLive, Granted, Closed, Void, Outdates, VoidState, Queued, Grants, Effects
<1>5. ASSUME NEW j \in Jobs, ClaimJob(j)
       PROVE  SeenLive'
  BY <1>5 DEF ClaimJob, SeenLive, NoLocals
<1>6. ASSUME NEW p \in Pubs, CreatePublication(p)
       PROVE  SeenLive'
  BY <1>6 DEF CreatePublication, JobsFit, SeenLive, Unique, NoLiveJobs, Live, Others
<1>7. ASSUME NEW p \in Pubs, StartExecute(p) \/ BeginPublishing(p) \/ Raise(p) \/ Dispatch(p)
    \/ CheckTarget(p)
       PROVE  SeenLive'
  BY <1>7 DEF StartExecute, BeginPublishing, Raise, Dispatch, CheckTarget, SeenLive, CurrentApproval, Trying,
      AsApproved, PrExists, Pushed, Grants
<1>8. ASSUME NEW p \in Pubs, LookAndRaise(p) \/ Look(p) \/ ConfirmPush(p) \/ LookAgain(p) \/ LookFinally(p)
       PROVE  SeenLive'
  BY <1>8 DEF LookAndRaise, Look, ConfirmPush, LookAgain, LookFinally, Executing, SeenLive, Looking, Remember,
      Confirms, AsApproved, Pushed, PrExists, Complete, Trying
<1>9. ASSUME NEW p \in Pubs, Authorize(p) \/ Send(p) \/ Reply(p) \/ Renew(p) \/ Publish(p)
       PROVE  SeenLive'
  BY <1>9 DEF Authorize, Send, Reply, Renew, Publish, SeenLive, CurrentApproval, Grants
<1>10. ASSUME NEW p \in Pubs, HandleFailure(p) \/ StartReconcile(p) \/ Assess(p)
       PROVE  SeenLive'
  BY <1>10 DEF HandleFailure, StartReconcile, Assess, SeenLive, FailedState, Void, CurrentApproval, Effects,
      VoidState, Grants
<1>11. ASSUME NEW p \in Pubs, Observe(p)
       PROVE  SeenLive'
  <2>1. Remembered(p) /\ UNCHANGED state
    BY <1>11, RememberFacts DEF Observe
  <2>2. branch[RunOf[p]] = p => state[p] \in {"APPROVED", "PUBLISHING", "PUBLISHED", "UNKNOWN", "PARTIAL"}
    BY DEF NothingHidden, State, Live, Closed
  <2> QED BY <2>1, <2>2 DEF SeenLive, Remembered
<1>12. ASSUME NEW p \in Pubs, Settle(p)
       PROVE  SeenLive'
  BY ZenonT(60), <1>12 DEF Settle, Reconciling, Seen, SeenLive, Writable, Effects, Remote, Landed, Unique, Writes, Live,
      Others
<1>13. ASSUME NEW p \in Pubs, ReconcileFails(p)
       PROVE  SeenLive'
  <2>1. Doubted(p)
    BY <1>13, DoubtFacts DEF ReconcileFails
  <2>2. UNCHANGED knownVars \/ Remembered(p)
    BY <1>13, RememberFacts DEF ReconcileFails
  <2>3. branch[RunOf[p]] = p => state[p] \in {"APPROVED", "PUBLISHING", "PUBLISHED", "UNKNOWN", "PARTIAL"}
    BY DEF NothingHidden, State, Live, Closed
  <2>4. \A q \in Pubs : knownBranch'[q] = q => knownBranch[q] = q \/ (q = p /\ branch[RunOf[p]] = p)
    <3>1. CASE UNCHANGED knownVars
      BY <3>1
    <3>2. CASE Remembered(p)
      BY <3>2 DEF Remembered
    <3> QED BY <2>2, <3>1, <3>2
  <2> QED BY <2>1, <2>3, <2>4 DEF SeenLive, Doubted
<1>14. ASSUME NEW k \in Kinds, NEW p \in Pubs, StartFails(k, p) \/ Finish(k, p)
       PROVE  SeenLive'
  BY <1>14 DEF StartFails, Finish, SeenLive, ProcessesGone, FreeSlot, NoLocals
<1>15. ASSUME NEW k \in Kinds, NEW p \in Pubs, MarkInterrupted(k, p)
       PROVE  SeenLive'
  <2>1. Interrupted(k, p)
    BY <1>15, InterruptFacts DEF MarkInterrupted
  <2> QED BY <2>1, <1>15 DEF MarkInterrupted, SeenLive, ProcessesGone, VoidState, Effects, Interrupted, Kinds
<1>16. CASE LoseHandler
  BY <1>16 DEF LoseHandler, SeenLive
<1>17. ASSUME NEW k \in Kinds, NEW p \in Pubs, Recover(k, p)
       PROVE  SeenLive'
  <2>1. Interrupted(k, p)
    BY <1>17, InterruptFacts DEF Recover
  <2> QED BY <2>1, <1>17 DEF Recover, SeenLive, ProcessesGone, NoLocals, VoidState, Effects, Interrupted,
      Kinds, FreeSlot
<1>18. ASSUME NEW w \in Writes, NEW p \in Pubs, Land(w, p) \/ Vanish(w, p)
       PROVE  SeenLive'
  BY <1>18 DEF Land, Vanish, SeenLive, TakesEffect
<1>19. ASSUME NEW r \in Runs, OutsideChange(r)
       PROVE  SeenLive'
  <2>1. Outside
    BY <1>19, OutsideFacts
  <2>2. UNCHANGED <<keepDb, knownVars, attempted, stage, keepLocals, outstanding, landed>>
    BY <1>19 DEF OutsideChange
  <2> QED BY <2>1, <2>2 DEF SeenLive, Outside
<1>20. CASE UNCHANGED vars
  BY <1>20 DEF vars, SeenLive
<1> QED BY <1>1, <1>2, <1>3, <1>4, <1>5, <1>6, <1>7, <1>8, <1>9, <1>10, <1>11, <1>12, <1>13, <1>14, <1>15,
    <1>16, <1>17, <1>18, <1>19, <1>20 DEF Next, WebStep, HandlerStep, ExecuteStep, RecoverStep, RemoteStep

\* While the branch is of one, no other that could be approved for it is alive.
LEMMA OwnedStep == TypeOK /\ Owned /\ Executing /\ AbandonedIsOver /\ OneLiveTarget /\ InFlight /\ Seen
    /\ Proposing /\ Reconciling /\ SeenLive /\ [Next]_vars => Owned'
<1> SUFFICES ASSUME TypeOK, Owned, Executing, AbandonedIsOver, OneLiveTarget, InFlight, Seen, Proposing,
    Reconciling, SeenLive, [Next]_vars PROVE Owned'
  OBVIOUS
<1>0. Rows
  BY RowsHold
<1> USE <1>0, PublicationAssumption, NoJobAssumption DEF Rows, pubVars, knownVars, grantVars, policyVars,
    localVars, remoteVars, handlerVars, keepDb, keepLocals, At, GoTo
<1>1. ASSUME NEW p \in Pubs, PreparePublication(p) \/ ReconcilePublication(p) \/ AbandonRemaining(p)
    \/ LookBeforeCreate(p) \/ CreateFails(p)
       PROVE  Owned'
  BY <1>1 DEF PreparePublication, ReconcilePublication, AbandonRemaining, LookBeforeCreate, CreateFails, Owned,
      Others, Enqueue, NoLiveJobs, Void
<1>2. ASSUME NEW p \in Pubs, NEW a \in Admins, Approve(p, a) \/ Reject(p, a) \/ RetryPublication(p, a)
    \/ ApproveRemaining(p, a)
       PROVE  Owned'
  BY <1>2 DEF Approve, Reject, RetryPublication, ApproveRemaining, Owned, Grant, Enqueue, Recovery, Others,
      NoLiveJobs
<1>3. CASE ConfigurePolicy
  BY <1>3 DEF ConfigurePolicy, Owned, PolicyFree, InvalidateAll, Waiting, Void, Outdates, Others, VoidState,
      Closed, Effects
<1>4. ASSUME NEW a \in Admins, Revoke(a) \/ Regain(a)
       PROVE  Owned'
  BY <1>4 DEF Revoke, Regain, Owned, Granted, Closed, Void, Outdates, VoidState, Queued, Others, Grants,
      Effects
<1>5. ASSUME NEW j \in Jobs, ClaimJob(j)
       PROVE  Owned'
  BY <1>5 DEF ClaimJob, Owned, NoLocals, Others
<1>6. ASSUME NEW p \in Pubs, CreatePublication(p)
       PROVE  Owned'
  BY <1>6 DEF CreatePublication, Proposing, Owned, Unique, Others, Live
<1>7. ASSUME NEW p \in Pubs, StartExecute(p) \/ Raise(p) \/ LookAndRaise(p) \/ Look(p) \/ Dispatch(p)
       PROVE  Owned'
  BY <1>7 DEF StartExecute, Raise, LookAndRaise, Look, Dispatch, Owned, Trying, Looking, Remember, Confirms,
      AsApproved, Pushed, PrExists, CurrentApproval, Others, Complete, Grants
<1>8. ASSUME NEW p \in Pubs, BeginPublishing(p)
       PROVE  Owned'
  BY <1>8 DEF BeginPublishing, Executing, Owned, CurrentApproval, Trying, Others, Grants
<1>9. ASSUME NEW p \in Pubs, CheckTarget(p) \/ Authorize(p) \/ Send(p) \/ Reply(p) \/ ConfirmPush(p)
       PROVE  Owned'
  BY <1>9 DEF CheckTarget, Authorize, Send, Reply, ConfirmPush, Owned, AsApproved, PrExists, Pushed,
      CurrentApproval, Remember, Others, Grants
<1>10. ASSUME NEW p \in Pubs, Renew(p) \/ LookAgain(p) \/ LookFinally(p) \/ Publish(p) \/ HandleFailure(p)
       PROVE  Owned'
  BY <1>10 DEF Renew, LookAgain, LookFinally, Publish, HandleFailure, Owned, CurrentApproval, AsApproved,
      Remember, PrExists, Complete, FailedState, Void, Others, Grants, Pushed, Effects, VoidState
<1>11. ASSUME NEW p \in Pubs, StartReconcile(p) \/ Observe(p) \/ Assess(p)
       PROVE  Owned'
  BY <1>11 DEF StartReconcile, Observe, Assess, Owned, AsApproved, Remember, Pushed, Complete, Grants,
      PrExists, Effects, CurrentApproval, Others
<1>12. ASSUME NEW p \in Pubs, Settle(p)
       PROVE  Owned'
  <2>1. UNCHANGED <<abandoned, knownBranch, branch>>
    BY <1>12 DEF Settle
  <2>2. \A q \in Pubs \ {p} : state'[q] = state[q]
    BY <1>12 DEF Settle
  <2>3. state'[p] = verdict /\ verdict \in {"PARTIAL", "UNKNOWN", "FAILED", "PUBLISHED"}
    BY <1>12 DEF Settle, Seen
  <2>4. verdict = "FAILED" => branch[RunOf[p]] \notin Pubs
    BY <1>12 DEF Settle, Reconciling
  <2> QED BY <2>1, <2>2, <2>3, <2>4 DEF Owned, Others
<1>13. ASSUME NEW p \in Pubs, ReconcileFails(p)
       PROVE  Owned'
  <2>1. Doubted(p)
    BY <1>13, DoubtFacts DEF ReconcileFails
  <2> QED BY <2>1, <1>13 DEF ReconcileFails, Owned, Remember, Others, Unique, Live, Doubted
<1>14. ASSUME NEW k \in Kinds, NEW p \in Pubs, StartFails(k, p) \/ Finish(k, p)
       PROVE  Owned'
  BY <1>14 DEF StartFails, Finish, Owned, ProcessesGone, FreeSlot, Others, NoLocals
<1>15. ASSUME NEW k \in Kinds, NEW p \in Pubs, MarkInterrupted(k, p)
       PROVE  Owned'
  <2>1. Interrupted(k, p)
    BY <1>15, InterruptFacts DEF MarkInterrupted
  <2> QED BY <2>1, <1>15 DEF MarkInterrupted, Owned, ProcessesGone, Others, VoidState, Effects, Interrupted,
      Kinds
<1>16. CASE LoseHandler
  BY <1>16 DEF LoseHandler, Owned, Others
<1>17. ASSUME NEW k \in Kinds, NEW p \in Pubs, Recover(k, p)
       PROVE  Owned'
  <2>1. Interrupted(k, p)
    BY <1>17, InterruptFacts DEF Recover
  <2> QED BY <2>1, <1>17 DEF Recover, Owned, ProcessesGone, Others, NoLocals, VoidState, Effects, Interrupted,
      Kinds, FreeSlot
<1>18. ASSUME NEW w \in Writes, NEW p \in Pubs, Land(w, p)
       PROVE  Owned'
  <2>1. UNCHANGED <<state, abandoned, knownBranch>>
    BY <1>18 DEF Land
  <2>2. w = "push" => state[p] \in {"PUBLISHING", "UNKNOWN"} /\ ~abandoned[p]
    BY <1>18 DEF Land, InFlight, Executing, AbandonedIsOver
  <2>3. ASSUME w = "push", NEW q \in Others(p)
        PROVE  abandoned[q] \/ state[q] \notin Live
    BY <2>2, <2>3 DEF OneLiveTarget, Others, Live
  <2>4. \A q \in Pubs : knownBranch[q] = q => state[q] \in Live
    BY DEF SeenLive, Live
  <2>5. \A r \in Runs : branch'[r] = IF w = "push" /\ r = RunOf[p] THEN p ELSE branch[r]
    BY <1>18 DEF Land
  <2>6. ASSUME NEW q \in Pubs, branch'[RunOf[q]] = q, NEW o \in Others(q)
        PROVE  abandoned[o] \/ (state[o] \notin {"PENDING_APPROVAL", "APPROVED", "PUBLISHING",
            "FAILED"} /\ knownBranch[o] # o)
    <3>1. CASE w = "push" /\ RunOf[q] = RunOf[p]
      <4>1. q = p
        BY <2>5, <2>6, <3>1
      <4> QED BY <2>3, <2>4, <2>6, <3>1, <4>1 DEF Others, Live
    <3>2. CASE ~(w = "push" /\ RunOf[q] = RunOf[p])
      <4>1. branch[RunOf[q]] = q
        BY <2>5, <2>6, <3>2
      <4> QED BY <2>6, <4>1 DEF Owned
    <3> QED BY <3>1, <3>2
  <2> QED BY <2>1, <2>6 DEF Owned
<1>19. ASSUME NEW w \in Writes, NEW p \in Pubs, Vanish(w, p)
       PROVE  Owned'
  BY <1>19 DEF Vanish, Owned, Others
<1>20. ASSUME NEW r \in Runs, OutsideChange(r)
       PROVE  Owned'
  <2>1. Outside
    BY <1>20, OutsideFacts
  <2>2. UNCHANGED <<keepDb, knownVars, attempted, stage, keepLocals, outstanding, landed>>
    BY <1>20 DEF OutsideChange
  <2> QED BY <2>1, <2>2 DEF Owned, Others, Outside
<1>21. CASE UNCHANGED vars
  BY <1>21 DEF vars, Owned, Others
<1> QED BY <1>1, <1>2, <1>3, <1>4, <1>5, <1>6, <1>7, <1>8, <1>9, <1>10, <1>11, <1>12, <1>13, <1>14, <1>15,
    <1>16, <1>17, <1>18, <1>19, <1>20, <1>21 DEF Next, WebStep, HandlerStep, ExecuteStep, RecoverStep,
    RemoteStep

-----------------------------------------------------------------------------
(* The whole invariant *)

\* Before any request nothing is proposed, sent or stored.
LEMMA InitHolds == Init => IInv
<1> SUFFICES ASSUME Init PROVE IInv
  OBVIOUS
<1> USE PublicationAssumption, NoJobAssumption
<1>1. TypeOK
  <2>1. (CHOOSE a \in Admins : TRUE) \in Admins
    OBVIOUS
  <2>2. Flags
    BY DEF Init, Flags
  <2>3. stage = "idle" /\ working = NoJob
    BY DEF Init
  <2>4. /\ state \in [Pubs -> State] /\ evidence \in [Pubs -> Evidence]
        /\ knownBranch \in [Pubs -> Pubs \cup {Absent, Foreign}]
        /\ approver \in [Pubs -> Admins] /\ scope \in [Pubs -> Grants \cup {"none", "REJECT"}]
    BY <2>1 DEF Init, State, Evidence, Grants
  <2>5. /\ admins \subseteq Admins /\ jobs \subseteq Jobs /\ working \in jobs \cup {NoJob}
        /\ stage \in Stage /\ write \in Writes /\ code \in {"known", "unknown"}
        /\ verdict \in State /\ found \in Evidence
    BY DEF Init, Stage, Writes, State, Live, Evidence
  <2>6. /\ branch \in [Runs -> Pubs \cup {Absent, Foreign}] /\ pr \in [Runs -> Pubs \cup {Absent, Foreign}]
        /\ outstanding \subseteq Writes \X Pubs /\ landed \subseteq Writes \X Pubs
    BY DEF Init
  <2> QED BY <2>2, <2>3, <2>4, <2>5, <2>6 DEF TypeOK

<1>2. /\ ApprovalHasJob /\ NothingHidden /\ PublishedIsTrue /\ AbandonedIsOver
  BY DEF Init, ApprovalHasJob, NothingHidden, PublishedIsTrue, AbandonedIsOver
<1>3. OneLiveTarget
  BY DEF Init, OneLiveTarget, Live
<1>4. JobsFit
  BY DEF Init, JobsFit, NoLiveJobs
<1>5. ASSUME NEW k, NEW p PROVE NoJob # <<k, p>> \/ k \notin Kinds \/ p \notin Pubs
  BY DEF Jobs
<1>6. Executing /\ Alone /\ Aiming
  BY <1>5 DEF Init, Executing, Alone, Aiming, At, Trying, Kinds
<1>7. InFlight /\ OursLanded
  BY DEF Init, InFlight, OursLanded
<1>8. Seen /\ Reconciling /\ Proposing
  BY DEF Init, Seen, Reconciling, Proposing, At
<1>9. Noticed /\ PartialSeen /\ SeenLive /\ Owned
  BY DEF Init, Noticed, Remote, PartialSeen, SeenLive, Owned
<1> QED BY <1>1, <1>2, <1>3, <1>4, <1>6, <1>7, <1>8, <1>9 DEF IInv

\* No step leaves the invariant.
LEMMA IStep == IInv /\ [Next]_vars => IInv'
<1> SUFFICES ASSUME IInv, [Next]_vars PROVE IInv'
  OBVIOUS
<1> USE DEF IInv
<1>1. TypeOK'
  BY TypeStep
<1>2. JobsFit'
  BY JobsFitStep
<1>3. Executing'
  BY ExecutingStep
<1>4. ApprovalHasJob'
  BY ApprovalHasJobStep
<1>5. AbandonedIsOver'
  BY AbandonedIsOverStep
<1>6. OneLiveTarget'
  BY OneLiveTargetStep
<1>7. Alone'
  BY AloneStep
<1>8. Aiming'
  BY AimingStep
<1>9. InFlight'
  BY InFlightStep
<1>10. OursLanded'
  BY OursLandedStep
<1>11. Seen'
  BY SeenStep
<1>12. PublishedIsTrue'
  BY PublishedIsTrueStep
<1>13. Proposing'
  BY ProposingStep
<1>14. Reconciling'
  BY ReconcilingStep
<1>15. PartialSeen'
  BY PartialSeenStep
<1>16. Noticed'
  BY NoticedStep
<1>17. NothingHidden'
  BY NothingHiddenStep
<1>18. SeenLive'
  BY SeenLiveStep
<1>19. Owned'
  BY OwnedStep
<1> QED BY <1>1, <1>2, <1>3, <1>4, <1>5, <1>6, <1>7, <1>8, <1>9, <1>10, <1>11, <1>12, <1>13, <1>14, <1>15,
    <1>16, <1>17, <1>18, <1>19

\* Whose branch is at the remote keeps every other of the run from approval.
LEMMA OwnerOf == IInv => BranchHasOneOwner
<1>1. IInv => \A p \in Pubs : abandoned[p] => state[p] \in {"PARTIAL", "FAILED", "INVALIDATED"}
  BY DEF IInv, AbandonedIsOver
<1>2. \A p \in Pubs : \A q \in Others(p) : q \in Pubs
  BY DEF Others
<1>3. SUFFICES ASSUME IInv, NEW p \in Pubs, branch[RunOf[p]] = p, NEW q \in Others(p)
               PROVE  state[q] \notin {"PENDING_APPROVAL", "APPROVED", "PUBLISHING"}
  BY DEF BranchHasOneOwner
<1> QED BY <1>1, <1>2, <1>3 DEF IInv, Owned

-----------------------------------------------------------------------------
(* Actions *)

\* Only a handler that sends adds to the undecided writes.
LEMMA SendOnly == ASSUME [Next]_vars, NEW x \in outstanding' \ outstanding PROVE \E p \in Pubs : Send(p)
<1> USE DEF pubVars, knownVars, grantVars, policyVars, localVars, remoteVars, handlerVars, keepDb, keepLocals,
    GoTo
<1>1. SUFFICES ASSUME \A p \in Pubs : ~Send(p) PROVE outstanding' \subseteq outstanding
  OBVIOUS
<1>2. CASE WebStep
  <2>1. CASE \E p \in Pubs : PreparePublication(p) \/ ReconcilePublication(p) \/ AbandonRemaining(p)
    BY <2>1 DEF PreparePublication, ReconcilePublication, AbandonRemaining
  <2>2. CASE \E p \in Pubs, a \in Admins : Approve(p, a) \/ Reject(p, a) \/ RetryPublication(p, a)
      \/ ApproveRemaining(p, a)
    BY <2>2 DEF Approve, Reject, RetryPublication, ApproveRemaining, Recovery
  <2>3. CASE ConfigurePolicy
    BY <2>3 DEF ConfigurePolicy
  <2>4. CASE \E a \in Admins : Revoke(a) \/ Regain(a)
    BY <2>4 DEF Revoke, Regain
  <2> QED BY <1>2, <2>1, <2>2, <2>3, <2>4 DEF WebStep
<1>3. CASE \E j \in Jobs : ClaimJob(j)
  BY <1>3 DEF ClaimJob
<1>4. ASSUME NEW p \in Pubs, HandlerStep(p)
      PROVE  outstanding' \subseteq outstanding
  BY <1>1, <1>4 DEF HandlerStep, ExecuteStep, LookBeforeCreate, CreatePublication, CreateFails, StartExecute,
      BeginPublishing, Raise, LookAndRaise, Look, Dispatch, CheckTarget, Authorize, Reply, ConfirmPush, Renew,
      LookAgain, LookFinally, Publish, HandleFailure, StartReconcile, Observe, Assess, Settle, ReconcileFails,
      StartFails, MarkInterrupted, Finish
<1>5. CASE LoseHandler \/ RecoverStep
  BY <1>5 DEF LoseHandler, RecoverStep, Recover
<1>6. CASE RemoteStep
  BY <1>6 DEF RemoteStep, Land, Vanish
<1>7. CASE \E r \in Runs : OutsideChange(r)
  BY <1>7 DEF OutsideChange
<1>8. CASE UNCHANGED vars
  BY <1>8 DEF vars
<1> QED BY <1>2, <1>3, <1>4, <1>5, <1>6, <1>7, <1>8 DEF Next

\* Who sends has looked, and nothing is on its way.
LEMMA SendsKnowing == IInv /\ [Next]_vars => \A w \in Writes, p \in Pubs : <<w,
    p>> \in outstanding' \ outstanding =>
       /\ outstanding = {}
       /\ IF w = "push" THEN branch[RunOf[p]] # p ELSE pr[RunOf[p]] # p
<1> SUFFICES ASSUME IInv, [Next]_vars, NEW w \in Writes, NEW p \in Pubs, <<w,
    p>> \in outstanding' \ outstanding
             PROVE  /\ outstanding = {}
                    /\ IF w = "push" THEN branch[RunOf[p]] # p ELSE pr[RunOf[p]] # p
  OBVIOUS
<1>1. PICK q \in Pubs : Send(q)
  BY SendOnly
<1>2. outstanding = {}
  BY <1>1 DEF Send, At, IInv, InFlight
<1>3. w = write /\ p = q /\ At("execute", p, {"authorize", "send"})
  BY <1>1 DEF Send, At
<1> QED BY <1>2, <1>3 DEF IInv, Aiming

\* Only a decision makes an approval valid.
LEMMA GrantOnly ==
  ASSUME Rows, [Next]_vars, NEW p \in Pubs, ~valid[p], valid'[p]
  PROVE  \E a \in Admins : Approve(p, a) \/ Reject(p, a) \/ RetryPublication(p, a) \/ ApproveRemaining(p, a)
<1> USE DEF pubVars, knownVars, grantVars, policyVars, localVars, remoteVars, handlerVars, keepDb, keepLocals,
    GoTo
<1>1. SUFFICES ASSUME ~\E a \in Admins : Approve(p, a) \/ Reject(p, a) \/ RetryPublication(p, a)
    \/ ApproveRemaining(p, a)
             PROVE  valid'[p] => valid[p]
  OBVIOUS
<1>2. ASSUME NEW q \in Pubs, NEW a \in Admins, Approve(q, a) \/ Reject(q, a) \/ RetryPublication(q, a)
    \/ ApproveRemaining(q, a)
      PROVE  valid'[p] => valid[p]
  BY <1>1, <1>2 DEF Rows, Approve, Reject, RetryPublication, ApproveRemaining, Recovery, Grant
<1>3. CASE \E q \in Pubs : PreparePublication(q) \/ ReconcilePublication(q) \/ AbandonRemaining(q)
  BY <1>3 DEF Rows, PreparePublication, ReconcilePublication, AbandonRemaining, Void
<1>4. CASE ConfigurePolicy
  BY <1>4 DEF Rows, ConfigurePolicy, Void
<1>5. ASSUME NEW a \in Admins, Revoke(a) \/ Regain(a)
      PROVE  valid'[p] => valid[p]
  BY <1>5 DEF Rows, Revoke, Void, Regain
<1>6. CASE \E j \in Jobs : ClaimJob(j)
  BY <1>6 DEF ClaimJob
<1>7. ASSUME NEW q \in Pubs, HandleFailure(q)
      PROVE  valid'[p] => valid[p]
  BY <1>7 DEF Rows, HandleFailure, Void
<1>8. ASSUME NEW q \in Pubs, NEW k \in Kinds, MarkInterrupted(k, q) \/ Recover(k, q)
      PROVE  valid'[p] => valid[p]
  BY <1>8, InterruptFacts DEF MarkInterrupted, Recover, Interrupted, Closed
<1>9. CASE \E q \in Pubs : \E k \in Kinds : StartFails(k, q) \/ Finish(k, q)
  BY <1>9 DEF StartFails, Finish
<1>10. CASE \E q \in Pubs : LookBeforeCreate(q) \/ CreatePublication(q) \/ CreateFails(q) \/ StartReconcile(q)
    \/ Observe(q) \/ Assess(q) \/ Settle(q) \/ ReconcileFails(q)
  BY <1>10 DEF LookBeforeCreate, CreatePublication, CreateFails, StartReconcile, Observe, Assess, Settle,
      ReconcileFails
<1>11. CASE \E q \in Pubs : StartExecute(q) \/ BeginPublishing(q) \/ Raise(q) \/ LookAndRaise(q) \/ Look(q)
    \/ Dispatch(q) \/ CheckTarget(q) \/ Authorize(q) \/ Send(q) \/ Reply(q) \/ ConfirmPush(q) \/ Renew(q)
    \/ LookAgain(q) \/ LookFinally(q) \/ Publish(q)
  BY <1>11 DEF StartExecute, BeginPublishing, Raise, LookAndRaise, Look, Dispatch, CheckTarget, Authorize,
      Send, Reply, ConfirmPush, Renew, LookAgain, LookFinally, Publish
<1>12. CASE LoseHandler \/ RemoteStep
  BY <1>12 DEF LoseHandler, RemoteStep, Land, Vanish
<1>13. CASE \E r \in Runs : OutsideChange(r)
  BY <1>13 DEF OutsideChange
<1>14. CASE UNCHANGED vars
  BY <1>14 DEF vars
<1> QED BY <1>2, <1>3, <1>4, <1>5, <1>6, <1>7, <1>8, <1>9, <1>10, <1>11, <1>12, <1>13, <1>14 DEF Next, WebStep,
    HandlerStep, ExecuteStep, RecoverStep, RemoteStep

\* Who decides asks a publication without a job.
LEMMA RevivesNothing ==
  ASSUME IInv, [Next]_vars, NEW p \in Pubs, ~valid[p], valid'[p]
  PROVE  /\ state'[p] \in {"APPROVED", "REJECTED"} /\ state[p] # state'[p]
         /\ state'[p] = "APPROVED" => <<"execute", p>> \in jobs' \ jobs
<1>0. Rows
  BY RowsHold DEF IInv
<1>1. PICK a \in Admins : Approve(p, a) \/ Reject(p, a) \/ RetryPublication(p, a) \/ ApproveRemaining(p, a)
  BY <1>0, GrantOnly
<1>2. CASE Approve(p, a)
  BY <1>0, <1>2 DEF Approve, Rows, IInv, JobsFit, NoLiveJobs, Enqueue
<1>3. CASE Reject(p, a)
  BY <1>0, <1>3 DEF Reject, Rows
<1>4. CASE RetryPublication(p, a) \/ ApproveRemaining(p, a)
  BY <1>0, <1>4 DEF RetryPublication, ApproveRemaining, Recovery, Rows, NoLiveJobs, Enqueue
<1> QED BY <1>1, <1>2, <1>3, <1>4

-----------------------------------------------------------------------------
(* Theorems *)

\* The inductive invariant holds of every behaviour.
THEOREM IInvariant == Spec => []IInv
<1>1. Init => IInv
  BY InitHolds
<1>2. IInv /\ [Next]_vars => IInv'
  BY IStep
<1> QED BY <1>1, <1>2, PTL DEF Spec

\* Every publication, approval, job, handler and remote entry is of its type,
\* and the slot has a job exactly while a handler has a stage.
THEOREM TypeCorrect == Spec => []TypeOK
<1>1. IInv => TypeOK
  BY DEF IInv
<1> QED BY <1>1, IInvariant, PTL

\* Approval and job stay together: decide_publication, _approve_recovery,
\* configure_policy, revoke_actor_publications and mark_job_interrupted never
\* leave an APPROVED publication without its job, nor a PUBLISHING one outside
\* the slot, nor either without an approval that is current.
THEOREM ApprovalsKeepTheirJob == Spec => []ApprovalHasJob
<1>1. IInv => ApprovalHasJob
  BY DEF IInv
<1> QED BY <1>1, IInvariant, PTL

\* However _execute_job ends (returned, raised, lost, marked interrupted or
\* recovered), however reconciling settles it and whatever becomes of the
\* approval, no state denies a branch, a pull request or an undecided write.
THEOREM RemoteNeverDenied == Spec => []NothingHidden
<1>1. IInv => NothingHidden
  BY DEF IInv
<1> QED BY <1>1, IInvariant, PTL

\* _execute_job and _reconcile_job say PUBLISHED only of what has landed.
THEOREM PublishedHasLanded == Spec => []PublishedIsTrue
<1>1. IInv => PublishedIsTrue
  BY DEF IInv
<1> QED BY <1>1, IInvariant, PTL

\* After abandon_remaining there is no job, no valid approval and no pin.
THEOREM AbandonedStaysOver == Spec => []AbandonedIsOver
<1>1. IInv => AbandonedIsOver
  BY DEF IInv
<1> QED BY <1>1, IInvariant, PTL

\* A run has one live publication at most, also where _execute_job and
\* _approve_recovery write a live state without asking.
THEOREM OneLivePerRun == Spec => []OneLiveTarget
<1>1. IInv => OneLiveTarget
  BY DEF IInv
<1> QED BY <1>1, IInvariant, PTL

\* While the remote holds the branch of a publication, prepare_publication,
\* _prepare_job, reconciling and recovery bring no other of the run to approval.
THEOREM BranchOwnedByOne == Spec => []BranchHasOneOwner
<1> QED BY OwnerOf, IInvariant, PTL

\* _execute_job sends a write only while no write is undecided, and only what
\* the remote does not show yet.
THEOREM NothingSentTwice == Spec => NoBlindRepeat
<1>1. IInv /\ [Next]_vars => [\A w \in Writes, p \in Pubs : <<w, p>> \in outstanding' \ outstanding =>
        /\ outstanding = {}
        /\ IF w = "push" THEN branch[RunOf[p]] # p ELSE pr[RunOf[p]] # p]_vars
  BY SendsKnowing
<1> QED BY <1>1, IInvariant, PTL DEF Spec, NoBlindRepeat

\* An approval that became void is valid again only with a new decision, which
\* registers a new job (decide_publication, _approve_recovery).
THEOREM VoidStaysVoid == Spec => NoRevival
<1>1. IInv /\ [Next]_vars => [\A p \in Pubs : ~valid[p] /\ valid'[p] =>
        state'[p] \in {"APPROVED", "REJECTED"} /\ state[p] # state'[p]
        /\ (state'[p] = "APPROVED" => <<"execute", p>> \in jobs' \ jobs)]_vars
  BY RevivesNothing
<1> QED BY <1>1, IInvariant, PTL DEF Spec, NoRevival
=============================================================================
