------------------------- MODULE DevautoPipelineProofs -------------------------
(***************************************************************************)
(* What holds of devauto's runs for any number of runs and threads, any    *)
(* limits and any settings the project is saved with.                      *)
(*                                                                         *)
(* About thirty actions move the threads, but what they do to a run comes  *)
(* down to some twenty effects (Does): the thread goes on, gives up, is    *)
(* about to write a status, writes it, claims a run, approves, publishes   *)
(* and so on.  First every action is shown to have one of these effects;   *)
(* then every part of the invariant is kept by each of them.               *)
(*                                                                         *)
(* TypeInv holds with and without the worker process.  SafeInv is about    *)
(* the API process alone (Poller = {}): run_pending_once takes up RECEIVED *)
(* runs that another thread is about to queue, and the late QUEUED then    *)
(* lets a third thread claim the run.  OneThreadPerRun fails that way,     *)
(* and then the run may be published twice.                                *)
(*                                                                         *)
(* A save may turn a mode without approvals into one that asks for them    *)
(* while a run is on its way to the Publisher.  What is kept (Consented)   *)
(* says who of those on their way was let through under the settings as    *)
(* they are, or was overtaken by a save.                                   *)
(***************************************************************************)
EXTENDS DevautoPipeline, FiniteSetTheorems, WellFoundedInduction, TLAPS

-----------------------------------------------------------------------------
(* Operators of the model *)

\* First (MIN(created_at) of a query) is a member of the runs it is taken of.
LEMMA FirstIsIn == ASSUME NEW S \in SUBSET Runs, S # {} PROVE First(S) \in S
<1>1. S \subseteq Nat
  BY BoundAssumption DEF Runs
<1> DEFINE R == OpToRel(<, Nat)
<1>2. IsWellFoundedOn(R, Nat)
  BY NatLessThanWellFounded
<1>3. PICK x \in S : \A y \in S : ~ (<<y, x>> \in R)
  <2> HIDE DEF R
  <2> QED BY <1>1, <1>2, WFMin
<1>4. R = {ss \in Nat \X Nat : ss[1] < ss[2]}
  BY Zenon DEF OpToRel
<1>5. \A y \in S : ~ (y < x)
  <2> HIDE DEF R
  <2> QED BY <1>1, <1>3, <1>4
<1>6. \A y \in S : x <= y
  BY <1>1, <1>5
<1> QED BY <1>6 DEF First

\* ALLOWED_TRANSITIONS lets nothing be cancelled that is published or over.
LEMMA CancellableFacts ==
  Cancellable \cap {"NEW", "PUBLISHING", "PUBLISHED", "ESCALATED", "FAILED", "CANCELLED"} = {}
BY DEF Cancellable, Statuses, Allowed, Ends

\* The statuses, written out.
LEMMA StatusesAre == Statuses =
  {"RECEIVED", "QUEUED", "PREPARING", "PLAN_REVIEWED", "AWAITING_PLAN_APPROVAL", "PROVISIONING", "EXECUTING",
   "FIXING", "DETERMINISTIC_CHECKS", "AI_REVIEWING", "AWAITING_QA_APPROVAL", "READY_TO_PUBLISH",
   "AWAITING_PUBLISH_APPROVAL", "PUBLISHING", "PUBLISHED", "ESCALATED", "FAILED", "CANCELLED"}
BY DEF Statuses, Allowed

Calls == [pc : Pcs, run : Runs, to : Statuses, then : Pcs, asks : SUBSET {"qa"},
          safe : {"all", "other", "none"}, attempt : 0..MaxInner, outer : 0..MaxOuter]

\* Called makes a call.
LEMMA CalledType ==
  ASSUME NEW p \in Pcs, NEW r \in Runs, NEW s \in Statuses, NEW e \in {"all", "other", "none"}
  PROVE  Called(p, r, s, e) \in Calls
BY BoundAssumption DEF Called, Calls, Pcs

\* Gone makes a call of a call.
LEMMA GoneType ==
  ASSUME NEW c \in Calls, NEW p \in Pcs, NEW s \in Statuses, NEW n \in Pcs
  PROVE  Gone(c, p, s, n) \in Calls
BY DEF Gone, Calls
\* An idle thread has a call.
LEMMA IdleType == Idle \in Calls
<1>1. 1 \in Runs
  BY BoundAssumption DEF Runs
<1> QED BY <1>1, CalledType, StatusesAre DEF Idle, Pcs

-----------------------------------------------------------------------------
(* What the steps of a thread do, without their guards' detail *)

AgreedSteps == {"execute", "gates", "run", "fix", "review", "finalize", "publish"}
Engaged == Steps \cup {"approve", "release", "fail"}

\* The status, and the thread that goes on after it, of every transition_run.
Writes ==
  {<<"QUEUED", "idle">>, <<"AWAITING_PLAN_APPROVAL", "idle">>, <<"AWAITING_PLAN_APPROVAL", "approve">>,
   <<"EXECUTING", "execute">>, <<"EXECUTING", "gates">>, <<"DETERMINISTIC_CHECKS", "run">>,
   <<"AI_REVIEWING", "review">>, <<"FIXING", "fix">>, <<"AWAITING_QA_APPROVAL", "idle">>,
   <<"AWAITING_PUBLISH_APPROVAL", "idle">>, <<"READY_TO_PUBLISH", "release">>,
   <<"PUBLISHED", "settle">>, <<"ESCALATED", "settle">>, <<"FAILED", "settle">>}
WorkWrites ==
  {<<"EXECUTING", "gates">>, <<"DETERMINISTIC_CHECKS", "run">>, <<"AI_REVIEWING", "review">>, <<"FIXING", "fix">>,
   <<"AWAITING_QA_APPROVAL", "idle">>, <<"AWAITING_PUBLISH_APPROVAL", "idle">>}

Inserting == {s \in Threads : At(s, "insert")}
NewRuns == {r \in Runs : status[r] = "NEW"}

\* Only the call of t moves.
Moves(t) ==
  /\ call' \in [Threads -> Calls] /\ \A s \in Threads : s # t => call'[s] = call[s]
  /\ config' = config /\ exposed' = exposed /\ edits' = edits /\ crashes' = crashes
SameRows == approved' = approved /\ risky' = risky /\ published' = published /\ pushed' = pushed
Fixed == status' = status /\ SameRows
SetsStatus(r, s) == r \in Runs /\ s \in Statuses /\ status' = [status EXCEPT ![r] = s]

Goes(t, p) == call'[t].pc = p /\ call'[t].run = call[t].run
Writing(t, s, n) == Goes(t, "write") /\ call'[t].to = s /\ call'[t].then = n
Drops(t) == call'[t].pc = "idle"
Leaves(t) == Drops(t) \/ Goes(t, "fail") \/ Writing(t, "ESCALATED", "settle") \/ Writing(t, "FAILED", "settle")

Rests(t) == Fixed /\ Drops(t)
GivesUp(t) == Fixed /\ call[t].pc \in Engaged /\ Leaves(t)
Proceeds(t) ==
  /\ Fixed
  /\ \/ At(t, "provision") /\ Goes(t, "plan")
     \/ /\ call[t].pc \in AgreedSteps \ {"publish"}
        /\ \/ \E p \in {"gates", "finalize"} : Goes(t, p)
           \/ \E w \in WorkWrites : Writing(t, w[1], w[2])
Plans(t) ==
  /\ At(t, "plan") /\ status' = status /\ approved' = approved /\ published' = published /\ pushed' = pushed
  /\ risky' \in [Runs -> BOOLEAN] /\ \A q \in Runs : q # call[t].run => risky'[q] = risky[q]
  /\ \/ Leaves(t) \/ Writing(t, "AWAITING_PLAN_APPROVAL", "idle") \/ Writing(t, "AWAITING_PLAN_APPROVAL", "approve")
Grants(t) ==
  /\ At(t, "grant") /\ status' = status /\ risky' = risky /\ published' = published /\ pushed' = pushed
  /\ approved' = [approved EXCEPT ![call[t].run] = @ \cup {"plan"}]
  /\ Leaves(t) \/ Writing(t, "EXECUTING", "execute")
Allows(t) ==
  Fixed /\ At(t, "finalize") /\ ~NeedsPublishApproval(call[t].run) /\ Writing(t, "READY_TO_PUBLISH", "release")
Acts(t) ==
  /\ At(t, "publish") /\ status' = status /\ approved' = approved /\ risky' = risky
  /\ published' = [published EXCEPT ![call[t].run] = @ + 1]
  /\ pushed' = IF config.mode \in ApprovalOnly THEN pushed \cup {call[t].run} ELSE pushed
  /\ Leaves(t) \/ Writing(t, "PUBLISHED", "settle")
Wakes(t) == Fixed /\ At(t, "settle") /\ call'[t].pc = "prepare" /\ status[call'[t].run] = "QUEUED"
Claiming(t) == Fixed /\ At(t, "prepare") /\ Goes(t, "claim")
Queues(t) == Fixed /\ At(t, "prepare") /\ Status(t) = "RECEIVED" /\ Writing(t, "QUEUED", "idle")
Starts(t, r) ==
  /\ status[r] = "AWAITING_PLAN_APPROVAL" \/ (At(t, "claim") /\ call[t].run = r /\ status[r] \in PrepareFrom)
  /\ \/ SetsStatus(r, "PREPARING") /\ call'[t].pc = "provision"
     \/ SetsStatus(r, "PROVISIONING") /\ call'[t].pc = "grant"
  /\ call'[t].run = r /\ SameRows
Releases(t, r) ==
  /\ \/ status[r] = "READY_TO_PUBLISH" /\ approved' = approved
     \/ status[r] = "AWAITING_PUBLISH_APPROVAL" /\ approved' = [approved EXCEPT ![r] = @ \cup {"publish"}]
  /\ SetsStatus(r, "PUBLISHING") /\ call'[t].pc = "publish" /\ call'[t].run = r
  /\ risky' = risky /\ published' = published /\ pushed' = pushed
Rejects(t, r) ==
  /\ status[r] \in {"AWAITING_QA_APPROVAL", "AWAITING_PUBLISH_APPROVAL"} /\ SetsStatus(r, "ESCALATED")
  /\ call'[t].pc = "settle" /\ call'[t].run = r /\ SameRows
Sets(t) ==
  /\ At(t, "write") /\ SetsStatus(call[t].run, call[t].to) /\ SameRows
  /\ \/ call[t].then = "idle" /\ Drops(t)
     \/ call[t].then # "idle" /\ Goes(t, call[t].then)
Cancels(t) ==
  /\ At(t, "cancel") /\ Status(t) \in Cancellable /\ SetsStatus(call[t].run, "CANCELLED") /\ SameRows
  /\ Drops(t) \/ Goes(t, "settle")
Previews(t) ==
  /\ At(t, "qa") /\ Status(t) = "AWAITING_QA_APPROVAL" /\ SetsStatus(call[t].run, call[t].to)
  /\ approved' = [approved EXCEPT ![call[t].run] = @ \cup {"qa"}]
  /\ risky' = risky /\ published' = published /\ pushed' = pushed
  /\ Drops(t) \/ Goes(t, "release")
Opens(t) ==
  /\ Fixed /\ At(t, "idle") /\ Cardinality(Inserting) < Cardinality(NewRuns)
  /\ call'[t].pc = "insert" /\ call'[t].to \in {"QUEUED", "RECEIVED"}
Inserts(t, r) ==
  /\ At(t, "insert") /\ status[r] = "NEW" /\ SetsStatus(r, call[t].to) /\ SameRows
  /\ \/ call[t].to = "RECEIVED" /\ call'[t].pc = "prepare" /\ call'[t].run = r
     \/ call[t].to # "RECEIVED" /\ Drops(t)
Asks(t) ==
  /\ Fixed /\ At(t, "idle")
  /\ LET r == call'[t].run
     IN  \/ call'[t].pc = "approve" /\ status[r] = "AWAITING_PLAN_APPROVAL"
         \/ call'[t].pc = "cancel" /\ status[r] \in Cancellable
         \/ /\ call'[t].pc = "qa" /\ status[r] = "AWAITING_QA_APPROVAL"
            /\ \/ call'[t].to = "AWAITING_PUBLISH_APPROVAL"
               \/ call'[t].to = "READY_TO_PUBLISH" /\ ~NeedsPublishApproval(r)
Polls(t) ==
  /\ Fixed /\ At(t, "idle") /\ t \in Poller
  /\ Goes(t, "settle") \/ (call'[t].pc \in {"fail", "prepare"} /\ status[call'[t].run] # "NEW")

Does(t) ==
  \/ Rests(t) \/ GivesUp(t) \/ Proceeds(t) \/ Plans(t) \/ Grants(t) \/ Allows(t) \/ Acts(t) \/ Wakes(t)
  \/ Claiming(t) \/ Queues(t) \/ Sets(t) \/ Cancels(t) \/ Previews(t) \/ Opens(t) \/ Asks(t)
  \/ \E r \in Runs : Starts(t, r) \/ Releases(t, r) \/ Rejects(t, r) \/ Inserts(t, r)

-----------------------------------------------------------------------------
(* What Goto, Return, Begin, Move and what is built from them do *)

\* A call that becomes another one.
LEMMA BecomesDoes ==
  ASSUME TypeOK, NEW t \in Threads, NEW c \in Calls, Becomes(t, c), UNCHANGED <<projectVars, boundVars>>
  PROVE  Moves(t) /\ call'[t] = c
BY DEF TypeOK, Calls, Becomes, Moves, projectVars, boundVars

\* Goto keeps the run.
LEMMA GotoDoes ==
  ASSUME TypeOK, NEW t \in Threads, NEW p \in Pcs, Goto(t, p), UNCHANGED <<projectVars, boundVars>>
  PROVE  Moves(t) /\ Goes(t, p)
<1>1. call[t] \in Calls
  BY DEF TypeOK, Calls
<1>2. Gone(call[t], p, "RECEIVED", "idle") \in Calls
  BY <1>1, GoneType, StatusesAre DEF Pcs
<1>3. Moves(t) /\ call'[t] = Gone(call[t], p, "RECEIVED", "idle")
  BY <1>2, BecomesDoes DEF Goto
<1> QED BY <1>3 DEF Goes, Gone

\* Return ends in idle.
LEMMA ReturnDoes ==
  ASSUME TypeOK, NEW t \in Threads, Return(t), UNCHANGED <<projectVars, boundVars>>
  PROVE  Moves(t) /\ Drops(t)
<1>1. Moves(t) /\ call'[t] = Idle
  BY IdleType, BecomesDoes DEF Return
<1> QED BY <1>1 DEF Drops, Idle, Called

\* A call that is made new.
LEMMA CalledDoes ==
  ASSUME TypeOK, NEW t \in Threads, NEW p \in Pcs, NEW r \in Runs, NEW s \in Statuses,
         NEW e \in {"all", "other", "none"}, Becomes(t, Called(p, r, s, e)), UNCHANGED <<projectVars, boundVars>>
  PROVE  Moves(t) /\ call'[t].pc = p /\ call'[t].run = r /\ call'[t].to = s
<1>1. Moves(t) /\ call'[t] = Called(p, r, s, e)
  BY CalledType, BecomesDoes
<1> QED BY <1>1 DEF Called

\* Begin starts at p for r.
LEMMA BeginDoes ==
  ASSUME TypeOK, NEW t \in Threads, NEW p \in Pcs, NEW r \in Runs, NEW e \in {"all", "other", "none"},
         Begin(t, p, r, e), UNCHANGED <<projectVars, boundVars>>
  PROVE  Moves(t) /\ call'[t].pc = p /\ call'[t].run = r
BY CalledDoes, StatusesAre DEF Begin

\* An exception ends the call or leads to fail_run.
LEMMA BreakDoes ==
  ASSUME TypeOK, NEW t \in Threads, Refuse(t) \/ Break(t), UNCHANGED <<projectVars, boundVars>>
  PROVE  Moves(t) /\ (Drops(t) \/ Goes(t, "fail"))
BY GotoDoes, ReturnDoes DEF Refuse, Break, Pcs

\* transition_run is about to write, or raises.
LEMMA MoveDoes ==
  ASSUME TypeOK, NEW t \in Threads, NEW c \in Calls, c.run = call[t].run, NEW s \in Statuses, NEW n \in Pcs,
         Move(t, c, s, n), UNCHANGED <<projectVars, boundVars>>
  PROVE  Moves(t) /\ (Writing(t, s, n) \/ (s \notin Allowed[Status(t)] /\ (Drops(t) \/ Goes(t, "fail"))))
<1>1. CASE s \in Allowed[Status(t)]
  <2>1. Becomes(t, Gone(c, "write", s, n))
    BY <1>1 DEF Move
  <2>2. Gone(c, "write", s, n) \in Calls
    BY GoneType DEF Pcs
  <2>3. Moves(t) /\ call'[t] = Gone(c, "write", s, n)
    BY <2>1, <2>2, BecomesDoes
  <2> QED BY <2>3 DEF Writing, Goes, Gone
<1>2. CASE s \notin Allowed[Status(t)]
  BY <1>2, BreakDoes DEF Move
<1> QED BY <1>1, <1>2

\* The same for a thread that changes no counter.
LEMMA TransitionDoes ==
  ASSUME TypeOK, NEW t \in Threads, NEW s \in Statuses, NEW n \in Pcs,
         Transition(t, s, n), UNCHANGED <<projectVars, boundVars>>
  PROVE  Moves(t) /\ (Writing(t, s, n) \/ (s \notin Allowed[Status(t)] /\ (Drops(t) \/ Goes(t, "fail"))))
<1>1. call[t] \in Calls
  BY DEF TypeOK, Calls
<1> QED BY <1>1, MoveDoes DEF Transition

\* Every way a step of the pipeline has to stop.
LEMMA StopsDoes ==
  ASSUME TypeOK, NEW t \in Threads, Stops(t) \/ Escalate(t) \/ Cancelled(t), UNCHANGED <<projectVars, boundVars>>
  PROVE  Moves(t) /\ Leaves(t)
<1>1. CASE Escalate(t)
  BY <1>1, TransitionDoes, StatusesAre DEF Escalate, Leaves, Pcs
<1>2. CASE Cancelled(t)
  BY <1>2, ReturnDoes DEF Cancelled, Leaves
<1>3. CASE Break(t)
  BY <1>3, BreakDoes DEF Leaves
<1> QED BY <1>1, <1>2, <1>3 DEF Stops

-----------------------------------------------------------------------------
(* What each action does *)

\* Nobody has to do with a run before it exists.
Unborn == \A r \in Runs, t \in Threads :
  status[r] = "NEW" /\ call[t].run = r => call[t].pc \in {"idle", "insert", "settle"}
\* There is room for what create_run is about to insert (the bound on runs).
Room == Cardinality(Inserting) <= Cardinality(NewRuns)
\* What create_run and approve_plan have chosen.
Chosen == \A t \in Threads :
  /\ At(t, "insert") => call[t].to \in {"QUEUED", "RECEIVED"}
  /\ At(t, "qa") => call[t].to \in {"READY_TO_PUBLISH", "AWAITING_PUBLISH_APPROVAL"}
  /\ At(t, "write") => <<call[t].to, call[t].then>> \in Writes
TypeInv == TypeOK /\ Unborn /\ Room /\ Chosen

\* A thread and the run of its call.
LEMMA CallTyped == ASSUME TypeOK, NEW t \in Threads
  PROVE call[t] \in Calls /\ call[t].run \in Runs /\ call[t].to \in Statuses /\ call[t].then \in Pcs
BY DEF TypeOK, Calls

\* The steps that go on with the work or end it.
LEMMA WorkDoes ==
  ASSUME TypeOK, NEW t \in Threads,
         Provision(t) \/ Execute(t) \/ Gates(t) \/ RunGates(t) \/ Fix(t) \/ Review(t)
  PROVE  Moves(t) /\ (GivesUp(t) \/ Proceeds(t))
<1> USE DEF WorkWrites, Leaves
<1>0. /\ {"provision", "execute", "gates", "run", "fix", "review"} \subseteq Engaged
      /\ {"execute", "gates", "run", "fix", "review"} \subseteq AgreedSteps \ {"publish"}
      /\ {"plan", "gates", "run", "fix", "review", "finalize"} \subseteq Pcs
      /\ {"DETERMINISTIC_CHECKS", "AI_REVIEWING", "FIXING", "EXECUTING"} \subseteq Statuses
  BY StatusesAre DEF Engaged, Steps, AgreedSteps, Pcs
<1>1. CASE Provision(t)
  <2>0. At(t, "provision") /\ Fixed /\ UNCHANGED <<projectVars, boundVars>>
    BY <1>1 DEF Provision, CallOnly, Fixed, SameRows, rowVars
  <2>1. CASE Stops(t)
    BY <2>0, <2>1, <1>0, StopsDoes DEF GivesUp, At
  <2>2. CASE Goto(t, "plan")
    BY <2>0, <2>2, <1>0, GotoDoes DEF Proceeds
  <2> QED BY <2>1, <2>2, <1>1 DEF Provision
<1>2. CASE Execute(t)
  <2>0. At(t, "execute") /\ Fixed /\ UNCHANGED <<projectVars, boundVars>>
    BY <1>2 DEF Execute, CallOnly, Fixed, SameRows, rowVars
  <2>1. CASE Stops(t)
    BY <2>0, <2>1, <1>0, StopsDoes DEF GivesUp, At
  <2>2. ASSUME Becomes(t, Gone([call[t] EXCEPT !.asks = config.asks \cap {"qa"}], "gates", "RECEIVED", "idle"))
        PROVE  Moves(t) /\ Proceeds(t)
    <3> DEFINE c == [call[t] EXCEPT !.asks = config.asks \cap {"qa"}]
    <3>1. c \in Calls /\ c.run = call[t].run
      BY CallTyped DEF Calls
    <3> HIDE DEF c
    <3>2. Gone(c, "gates", "RECEIVED", "idle") \in Calls
      <4>1. "gates" \in Pcs /\ "idle" \in Pcs /\ "RECEIVED" \in Statuses
        BY StatusesAre DEF Pcs, Steps
      <4> QED BY <3>1, <4>1, GoneType
    <3>3. Moves(t) /\ call'[t] = Gone(c, "gates", "RECEIVED", "idle")
      BY <3>2, <2>0, <2>2, BecomesDoes DEF c
    <3>4. Goes(t, "gates")
      BY <3>1, <3>3 DEF Goes, Gone
    <3> QED BY <3>3, <3>4, <2>0, <1>0 DEF Proceeds, At
  <2> QED BY <2>1, <2>2, <1>2 DEF Execute
<1>3. CASE Gates(t)
  <2>0. At(t, "gates") /\ Fixed /\ UNCHANGED <<projectVars, boundVars>>
    BY <1>3 DEF Gates, CallOnly, Fixed, SameRows, rowVars
  <2>1. CASE Stops(t)
    BY <2>0, <2>1, <1>0, StopsDoes DEF GivesUp, At
  <2>2. CASE Transition(t, "DETERMINISTIC_CHECKS", "run")
    <3>1. Moves(t) /\ (Writing(t, "DETERMINISTIC_CHECKS", "run") \/ Drops(t) \/ Goes(t, "fail"))
      BY <2>0, <2>2, <1>0, TransitionDoes
    <3> QED BY <3>1, <2>0, <1>0 DEF Proceeds, GivesUp, At
  <2> QED BY <2>1, <2>2, <1>3 DEF Gates
<1>4. CASE RunGates(t)
  <2>0. At(t, "run") /\ Fixed /\ UNCHANGED <<projectVars, boundVars>>
    BY <1>4 DEF RunGates, CallOnly, Fixed, SameRows, rowVars
  <2>1. CASE Stops(t)
    BY <2>0, <2>1, <1>0, StopsDoes DEF GivesUp, At
  <2>2. CASE Move(t, [call[t] EXCEPT !.attempt = 0], "AI_REVIEWING", "review")
    <3>1. [call[t] EXCEPT !.attempt = 0] \in Calls /\ [call[t] EXCEPT !.attempt = 0].run = call[t].run
      BY CallTyped, BoundAssumption DEF Calls
    <3>2. Moves(t) /\ (Writing(t, "AI_REVIEWING", "review") \/ Drops(t) \/ Goes(t, "fail"))
      BY <3>1, <2>0, <2>2, <1>0, MoveDoes
    <3> QED BY <3>2, <2>0, <1>0 DEF Proceeds, GivesUp, At
  <2>3. CASE FixesLeft(t) /\ Move(t, [call[t] EXCEPT !.attempt = @ + 1], "FIXING", "fix")
    <3>1. /\ [call[t] EXCEPT !.attempt = @ + 1] \in Calls
          /\ [call[t] EXCEPT !.attempt = @ + 1].run = call[t].run
      BY <2>3, CallTyped, BoundAssumption DEF Calls, FixesLeft
    <3>2. Moves(t) /\ (Writing(t, "FIXING", "fix") \/ Drops(t) \/ Goes(t, "fail"))
      BY <3>1, <2>0, <2>3, <1>0, MoveDoes
    <3> QED BY <3>2, <2>0, <1>0 DEF Proceeds, GivesUp, At
  <2> QED BY <2>1, <2>2, <2>3, <1>4 DEF RunGates
<1>5. CASE Fix(t)
  <2>0. At(t, "fix") /\ Fixed /\ UNCHANGED <<projectVars, boundVars>>
    BY <1>5 DEF Fix, CallOnly, Fixed, SameRows, rowVars
  <2>1. CASE Stops(t)
    BY <2>0, <2>1, <1>0, StopsDoes DEF GivesUp, At
  <2>2. CASE Transition(t, "EXECUTING", "gates")
    <3>1. Moves(t) /\ (Writing(t, "EXECUTING", "gates") \/ Drops(t) \/ Goes(t, "fail"))
      BY <2>0, <2>2, <1>0, TransitionDoes
    <3> QED BY <3>1, <2>0, <1>0 DEF Proceeds, GivesUp, At
  <2> QED BY <2>1, <2>2, <1>5 DEF Fix
<1>6. CASE Review(t)
  <2>0. At(t, "review") /\ Fixed /\ UNCHANGED <<projectVars, boundVars>>
    BY <1>6 DEF Review, CallOnly, Fixed, SameRows, rowVars
  <2>1. CASE Stops(t)
    BY <2>0, <2>1, <1>0, StopsDoes DEF GivesUp, At
  <2>2. CASE Goto(t, "finalize")
    BY <2>0, <2>2, <1>0, GotoDoes DEF Proceeds, At
  <2>3. CASE call[t].outer < MaxOuter /\ Move(t, [call[t] EXCEPT !.outer = @ + 1], "FIXING", "fix")
    <3>1. /\ [call[t] EXCEPT !.outer = @ + 1] \in Calls
          /\ [call[t] EXCEPT !.outer = @ + 1].run = call[t].run
      BY <2>3, CallTyped, BoundAssumption DEF Calls
    <3>2. Moves(t) /\ (Writing(t, "FIXING", "fix") \/ Drops(t) \/ Goes(t, "fail"))
      BY <3>1, <2>0, <2>3, <1>0, MoveDoes
    <3> QED BY <3>2, <2>0, <1>0 DEF Proceeds, GivesUp, At
  <2> QED BY <2>1, <2>2, <2>3, <1>6 DEF Review
<1> QED BY <1>1, <1>2, <1>3, <1>4, <1>5, <1>6

\* The steps that leave the queue, the planner's and the approval's.
LEMMA PrepareDoes ==
  ASSUME TypeOK, NEW t \in Threads, Prepare(t) \/ ClaimPrepare(t) \/ Plan(t) \/ Approve(t) \/ Grant(t)
  PROVE  Moves(t) /\ Does(t)
<1>0. /\ {"provision", "plan", "grant", "approve"} \subseteq Engaged
      /\ {"claim", "idle", "provision", "approve", "grant", "execute", "fail"} \subseteq Pcs
      /\ {"QUEUED", "AWAITING_PLAN_APPROVAL", "EXECUTING", "PREPARING", "PROVISIONING"} \subseteq Statuses
  BY StatusesAre DEF Engaged, Steps, Pcs
<1>r. call[t].run \in Runs
  BY CallTyped
<1>1. CASE Prepare(t)
  <2>0. At(t, "prepare") /\ Fixed /\ UNCHANGED <<projectVars, boundVars>>
    BY <1>1 DEF Prepare, CallOnly, Fixed, SameRows, rowVars
  <2>1. CASE Status(t) = "RECEIVED" /\ Transition(t, "QUEUED", "idle")
    <3>1. "QUEUED" \in Allowed[Status(t)]
      BY <2>1 DEF Allowed
    <3>2. Moves(t) /\ Writing(t, "QUEUED", "idle")
      BY <3>1, <2>0, <2>1, <1>0, TransitionDoes
    <3> QED BY <3>2, <2>0, <2>1 DEF Does, Queues
  <2>2. CASE Return(t)
    BY <2>0, <2>2, ReturnDoes DEF Does, Rests
  <2>3. CASE Goto(t, "claim")
    BY <2>0, <2>3, <1>0, GotoDoes DEF Does, Claiming
  <2> QED BY <2>1, <2>2, <2>3, <1>1 DEF Prepare
<1>2. CASE ClaimPrepare(t)
  <2>0. At(t, "claim") /\ SameRows /\ UNCHANGED <<projectVars, boundVars>>
    BY <1>2 DEF ClaimPrepare, StatusOnly, SameRows, rowVars
  <2>1. CASE Claims(t, PrepareFrom) /\ status' = [status EXCEPT ![call[t].run] = "PREPARING"] /\ Goto(t, "provision")
    <3>1. Moves(t) /\ Goes(t, "provision")
      BY <2>0, <2>1, <1>0, GotoDoes
    <3>2. Starts(t, call[t].run)
      BY <3>1, <2>0, <2>1, <1>0, <1>r DEF Starts, SetsStatus, Claims, Status, Goes
    <3> QED BY <3>1, <3>2, <1>r DEF Does
  <2>2. CASE UNCHANGED status /\ Return(t)
    BY <2>0, <2>2, ReturnDoes DEF Does, Rests, Fixed
  <2> QED BY <2>1, <2>2, <1>2 DEF ClaimPrepare
<1>3. CASE Plan(t)
  <2>0. At(t, "plan") /\ UNCHANGED <<status, approved, published, pushed, projectVars, boundVars>>
    BY <1>3 DEF Plan
  <2>1. CASE Stops(t) /\ UNCHANGED risky
    BY <2>0, <2>1, <1>0, StopsDoes DEF Does, GivesUp, At, Fixed, SameRows
  <2>2. ASSUME NEW high \in BOOLEAN, risky' = [risky EXCEPT ![call[t].run] = high],
               \/ Transition(t, "AWAITING_PLAN_APPROVAL", "idle")
               \/ Transition(t, "AWAITING_PLAN_APPROVAL", "approve")
        PROVE  Moves(t) /\ Plans(t)
    <3>1. risky' \in [Runs -> BOOLEAN] /\ \A q \in Runs : q # call[t].run => risky'[q] = risky[q]
      BY <2>2 DEF TypeOK
    <3>2. Moves(t) /\ (Leaves(t) \/ Writing(t, "AWAITING_PLAN_APPROVAL", "idle")
                       \/ Writing(t, "AWAITING_PLAN_APPROVAL", "approve"))
      <4>1. CASE Transition(t, "AWAITING_PLAN_APPROVAL", "idle")
        BY <2>0, <4>1, <1>0, TransitionDoes DEF Leaves
      <4>2. CASE Transition(t, "AWAITING_PLAN_APPROVAL", "approve")
        BY <2>0, <4>2, <1>0, TransitionDoes DEF Leaves
      <4> QED BY <2>2, <4>1, <4>2
    <3> QED BY <3>1, <3>2, <2>0 DEF Plans
  <2> QED BY <2>1, <2>2, <1>3 DEF Plan, Does
<1>4. CASE Approve(t)
  <2>0. At(t, "approve") /\ SameRows /\ UNCHANGED <<projectVars, boundVars>>
    BY <1>4 DEF Approve, StatusOnly, SameRows, rowVars
  <2>1. CASE /\ Claims(t, {"AWAITING_PLAN_APPROVAL"}) /\ status' = [status EXCEPT ![call[t].run] = "PROVISIONING"]
             /\ Goto(t, "grant")
    <3>1. Moves(t) /\ Goes(t, "grant")
      BY <2>0, <2>1, <1>0, GotoDoes
    <3>2. Starts(t, call[t].run)
      BY <3>1, <2>0, <2>1, <1>0, <1>r DEF Starts, SetsStatus, Claims, Status, Goes
    <3> QED BY <3>1, <3>2, <1>r DEF Does
  <2>2. CASE UNCHANGED status /\ (Refuse(t) \/ Return(t))
    BY <2>0, <2>2, <1>0, ReturnDoes, BreakDoes DEF Does, GivesUp, Fixed, At, Leaves
  <2> QED BY <2>1, <2>2, <1>4 DEF Approve
<1>5. CASE Grant(t)
  <2>0. At(t, "grant") /\ UNCHANGED <<status, risky, published, pushed, projectVars, boundVars>>
    BY <1>5 DEF Grant
  <2>1. CASE (Escalate(t) \/ Break(t)) /\ UNCHANGED approved
    BY <2>0, <2>1, <1>0, StopsDoes, BreakDoes DEF Does, GivesUp, At, Fixed, SameRows, Leaves
  <2>2. CASE /\ approved' = [approved EXCEPT ![call[t].run] = @ \cup {"plan"}]
             /\ Transition(t, "EXECUTING", "execute")
    BY <2>0, <2>2, <1>0, TransitionDoes DEF Does, Grants, Leaves
  <2> QED BY <2>1, <2>2, <1>5 DEF Grant
<1> QED BY <1>1, <1>2, <1>3, <1>4, <1>5

\* The steps of publishing.
LEMMA PublishDoes ==
  ASSUME TypeOK, NEW t \in Threads, Finalize(t) \/ Release(t) \/ Publish(t)
  PROVE  Moves(t) /\ Does(t)
<1>0. /\ {"finalize", "release", "publish"} \subseteq Engaged
      /\ {"idle", "release", "publish", "settle", "fail"} \subseteq Pcs
      /\ {"AWAITING_QA_APPROVAL", "AWAITING_PUBLISH_APPROVAL", "READY_TO_PUBLISH", "PUBLISHED",
          "PUBLISHING"} \subseteq Statuses
  BY StatusesAre DEF Engaged, Steps, Pcs
<1>r. call[t].run \in Runs
  BY CallTyped
<1>1. CASE Finalize(t)
  <2>0. At(t, "finalize") /\ Fixed /\ UNCHANGED <<projectVars, boundVars>>
    BY <1>1 DEF Finalize, CallOnly, Fixed, SameRows, rowVars
  <2>1. CASE Stops(t)
    BY <2>0, <2>1, <1>0, StopsDoes DEF Does, GivesUp, At
  <2>2. CASE Transition(t, "AWAITING_QA_APPROVAL", "idle") \/ Transition(t, "AWAITING_PUBLISH_APPROVAL", "idle")
    <3>1. Moves(t) /\ (\/ Writing(t, "AWAITING_QA_APPROVAL", "idle") \/ Writing(t, "AWAITING_PUBLISH_APPROVAL", "idle")
                       \/ Leaves(t))
      BY <2>0, <2>2, <1>0, TransitionDoes DEF Leaves
    <3>2. CASE Leaves(t)
      BY <3>1, <3>2, <2>0, <1>0 DEF Does, GivesUp, At
    <3>3. ASSUME Writing(t, "AWAITING_QA_APPROVAL", "idle") \/ Writing(t, "AWAITING_PUBLISH_APPROVAL", "idle")
          PROVE  Proceeds(t)
      <4>1. \E w \in WorkWrites : Writing(t, w[1], w[2])
        <5>1. /\ <<"AWAITING_QA_APPROVAL", "idle">> \in WorkWrites
              /\ <<"AWAITING_PUBLISH_APPROVAL", "idle">> \in WorkWrites
          BY DEF WorkWrites
        <5>2. CASE Writing(t, "AWAITING_QA_APPROVAL", "idle")
          BY <5>1, <5>2
        <5>3. CASE Writing(t, "AWAITING_PUBLISH_APPROVAL", "idle")
          BY <5>1, <5>3
        <5> QED BY <3>3, <5>2, <5>3
      <4> QED BY <4>1, <2>0 DEF Proceeds, At, AgreedSteps
    <3> QED BY <3>1, <3>2, <3>3 DEF Does
  <2>3. CASE ~NeedsPublishApproval(call[t].run) /\ Transition(t, "READY_TO_PUBLISH", "release")
    BY <2>0, <2>3, <1>0, TransitionDoes DEF Does, Allows, GivesUp, Leaves, At
  <2> QED BY <2>1, <2>2, <2>3, <1>1 DEF Finalize
<1>2. CASE Release(t)
  <2>0. At(t, "release") /\ SameRows /\ UNCHANGED <<projectVars, boundVars>>
    BY <1>2 DEF Release, StatusOnly, SameRows, rowVars
  <2>1. CASE /\ Claims(t, {"READY_TO_PUBLISH"}) /\ status' = [status EXCEPT ![call[t].run] = "PUBLISHING"]
             /\ Goto(t, "publish")
    <3>1. Moves(t) /\ Goes(t, "publish")
      BY <2>0, <2>1, <1>0, GotoDoes
    <3>2. Releases(t, call[t].run)
      BY <3>1, <2>0, <2>1, <1>0, <1>r DEF Releases, SetsStatus, Claims, Status, Goes, SameRows
    <3> QED BY <3>1, <3>2, <1>r DEF Does
  <2>2. CASE UNCHANGED status /\ (Refuse(t) \/ Return(t))
    BY <2>0, <2>2, <1>0, ReturnDoes, BreakDoes DEF Does, GivesUp, Fixed, At, Leaves
  <2> QED BY <2>1, <2>2, <1>2 DEF Release
<1>3. CASE Publish(t)
  <2>0. At(t, "publish") /\ UNCHANGED <<status, approved, risky, projectVars, boundVars>>
    BY <1>3 DEF Publish
  <2>1. CASE (Cancelled(t) \/ Escalate(t) \/ Raises(t)) /\ UNCHANGED <<published, pushed>>
    BY <2>0, <2>1, <1>0, StopsDoes, BreakDoes DEF Does, GivesUp, At, Fixed, SameRows, Raises, Leaves
  <2>2. CASE /\ published' = [published EXCEPT ![call[t].run] = @ + 1]
             /\ pushed' = IF config.mode \in ApprovalOnly THEN pushed \cup {call[t].run} ELSE pushed
             /\ Escalate(t) \/ Raises(t) \/ Transition(t, "PUBLISHED", "settle")
    <3>1. Moves(t) /\ (Leaves(t) \/ Writing(t, "PUBLISHED", "settle"))
      BY <2>0, <2>2, <1>0, StopsDoes, BreakDoes, TransitionDoes DEF Leaves, Raises
    <3> QED BY <3>1, <2>0, <2>2 DEF Does, Acts
  <2> QED BY <2>1, <2>2, <1>3 DEF Publish
<1> QED BY <1>1, <1>2, <1>3

\* The ends of a run, and the writes.
LEMMA EndDoes ==
  ASSUME TypeOK, NEW t \in Threads, Write(t) \/ Fail(t) \/ Settle(t) \/ Cancel(t) \/ ApproveQa(t)
  PROVE  Moves(t) /\ Does(t)
<1>0. /\ "fail" \in Engaged /\ {"idle", "prepare", "settle", "release"} \subseteq Pcs
      /\ {"FAILED", "CANCELLED", "QUEUED"} \subseteq Statuses
  BY StatusesAre DEF Engaged, Pcs
<1>r. call[t].run \in Runs /\ call[t].to \in Statuses /\ call[t].then \in Pcs
  BY CallTyped
<1>1. CASE Write(t)
  <2>0. /\ At(t, "write") /\ SetsStatus(call[t].run, call[t].to) /\ SameRows /\ UNCHANGED <<projectVars, boundVars>>
        /\ IF call[t].then = "idle" THEN Return(t) ELSE Goto(t, call[t].then)
    BY <1>1, <1>r DEF Write, SetsStatus, SameRows, rowVars
  <2> QED BY <2>0, <1>r, ReturnDoes, GotoDoes DEF Does, Sets
<1>2. CASE Fail(t)
  <2>0. At(t, "fail") /\ Fixed /\ UNCHANGED <<projectVars, boundVars>>
    BY <1>2 DEF Fail, CallOnly, Fixed, SameRows, rowVars
  <2>1. CASE Return(t)
    BY <2>0, <2>1, ReturnDoes DEF Does, Rests
  <2>2. CASE Transition(t, "FAILED", "settle")
    BY <2>0, <2>2, <1>0, TransitionDoes DEF Does, GivesUp, Leaves, At
  <2> QED BY <2>1, <2>2, <1>2 DEF Fail
<1>3. CASE Settle(t)
  <2>0. At(t, "settle") /\ Fixed /\ UNCHANGED <<projectVars, boundVars>>
    BY <1>3 DEF Settle, CallOnly, Fixed, SameRows, rowVars
  <2>1. CASE Return(t)
    BY <2>0, <2>1, ReturnDoes DEF Does, Rests
  <2>2. CASE QueuedRuns # {} /\ Begin(t, "prepare", First(QueuedRuns), "all")
    <3>1. First(QueuedRuns) \in QueuedRuns
      BY <2>2, FirstIsIn DEF QueuedRuns
    <3>2. First(QueuedRuns) \in Runs /\ status[First(QueuedRuns)] = "QUEUED"
      BY <3>1 DEF QueuedRuns
    <3>3. Moves(t) /\ call'[t].pc = "prepare" /\ call'[t].run = First(QueuedRuns)
      BY <3>2, <2>0, <2>2, <1>0, BeginDoes
    <3> QED BY <3>2, <3>3, <2>0 DEF Does, Wakes
  <2> QED BY <2>1, <2>2, <1>3 DEF Settle
<1>4. CASE Cancel(t)
  <2>0. At(t, "cancel") /\ SameRows /\ UNCHANGED <<projectVars, boundVars>>
    BY <1>4 DEF Cancel, StatusOnly, SameRows, rowVars
  <2>1. CASE /\ Claims(t, Cancellable) /\ status' = [status EXCEPT ![call[t].run] = "CANCELLED"]
             /\ Return(t) \/ Goto(t, "settle")
    <3>1. Moves(t) /\ (Drops(t) \/ Goes(t, "settle"))
      BY <2>0, <2>1, <1>0, GotoDoes, ReturnDoes
    <3> QED BY <3>1, <2>0, <2>1, <1>0, <1>r DEF Does, Cancels, Claims, SetsStatus
  <2>2. CASE UNCHANGED status /\ Return(t)
    BY <2>0, <2>2, ReturnDoes DEF Does, Rests, Fixed
  <2> QED BY <2>1, <2>2, <1>4 DEF Cancel
<1>5. CASE ApproveQa(t)
  <2>0. At(t, "qa") /\ UNCHANGED <<risky, published, pushed, projectVars, boundVars>>
    BY <1>5 DEF ApproveQa
  <2>1. CASE /\ Claims(t, {"AWAITING_QA_APPROVAL"}) /\ status' = [status EXCEPT ![call[t].run] = call[t].to]
             /\ approved' = [approved EXCEPT ![call[t].run] = @ \cup {"qa"}]
             /\ (Goto(t, "release") /\ call[t].to = "READY_TO_PUBLISH") \/ Return(t)
    <3>1. Moves(t) /\ (Drops(t) \/ (Goes(t, "release") /\ call[t].to = "READY_TO_PUBLISH"))
      BY <2>0, <2>1, <1>0, GotoDoes, ReturnDoes
    <3> QED BY <3>1, <2>0, <2>1, <1>r DEF Does, Previews, Claims, SetsStatus, Status
  <2>2. CASE UNCHANGED <<status, approved>> /\ Return(t)
    BY <2>0, <2>2, ReturnDoes DEF Does, Rests, Fixed, SameRows
  <2> QED BY <2>1, <2>2, <1>5 DEF ApproveQa
<1> QED BY <1>1, <1>2, <1>3, <1>4, <1>5

\* There is a run for what is to be inserted.
LEMMA RoomFor == ASSUME TypeOK, Room, NEW t \in Threads, At(t, "insert")
                 PROVE  First(NewRuns) \in Runs /\ status[First(NewRuns)] = "NEW"
<1>1. IsFiniteSet(Threads) /\ Inserting \subseteq Threads /\ t \in Inserting
  BY ThreadAssumption DEF Threads, Inserting
<1>2. IsFiniteSet(Inserting)
  BY <1>1, FS_Subset
<1>3. Cardinality(Inserting) \in Nat /\ Cardinality(Inserting) # 0
  BY <1>1, <1>2, FS_CardinalityType, FS_EmptySet
<1>4. IsFiniteSet(Runs) /\ NewRuns \subseteq Runs
  BY BoundAssumption, FS_Interval DEF Runs, NewRuns
<1>5. NewRuns # {}
  <2> SUFFICES ASSUME NewRuns = {} PROVE FALSE
    OBVIOUS
  <2>1. Cardinality(NewRuns) = 0
    BY FS_EmptySet
  <2> QED BY <2>1, <1>3 DEF Room
<1>6. First(NewRuns) \in NewRuns
  BY <1>4, <1>5, FirstIsIn
<1> QED BY <1>6 DEF NewRuns

\* Requests, and the insertion that ends one.
LEMMA RequestDoes ==
  ASSUME TypeInv, NEW t \in Threads, Insert(t) \/ Request(t)
  PROVE  Moves(t) /\ Does(t)
<1>0. /\ {"insert", "prepare", "approve", "provision", "publish", "settle", "qa", "cancel"} \subseteq Pcs
      /\ {"QUEUED", "RECEIVED", "PREPARING", "PUBLISHING", "ESCALATED", "READY_TO_PUBLISH",
          "AWAITING_PUBLISH_APPROVAL"} \subseteq Statuses
  BY StatusesAre DEF Steps, Pcs
<1>T. TypeOK
  BY DEF TypeInv
<1>1. CASE Insert(t)
  <2> DEFINE r == First(NewRuns)
  <2>1. r \in Runs /\ status[r] = "NEW"
    BY <1>1, RoomFor DEF TypeInv, Insert
  <2> HIDE DEF r
  <2>2. /\ At(t, "insert") /\ SameRows /\ UNCHANGED <<projectVars, boundVars>>
        /\ status' = [status EXCEPT ![r] = call[t].to]
        /\ IF call[t].to = "RECEIVED" THEN Begin(t, "prepare", r, "all") ELSE Return(t)
    BY <1>1 DEF Insert, StatusOnly, SameRows, rowVars, NewRuns, r
  <2>3. Inserts(t, r) /\ Moves(t)
    <3>1. CASE call[t].to = "RECEIVED"
      <4>1. Moves(t) /\ call'[t].pc = "prepare" /\ call'[t].run = r
        BY <3>1, <2>1, <2>2, <1>0, <1>T, BeginDoes
      <4> QED BY <4>1, <3>1, <2>1, <2>2, <1>T, CallTyped DEF Inserts, SetsStatus
    <3>2. CASE call[t].to # "RECEIVED"
      BY <3>2, <2>1, <2>2, <1>T, CallTyped, ReturnDoes DEF Inserts, SetsStatus
    <3> QED BY <3>1, <3>2
  <2> QED BY <2>1, <2>3 DEF Does
<1>2. CASE StartCreate(t)
  <2>0. /\ At(t, "idle") /\ Fixed /\ UNCHANGED <<projectVars, boundVars>>
        /\ Cardinality(Inserting) < Cardinality(NewRuns)
    BY <1>2 DEF StartCreate, Free, CallOnly, Fixed, SameRows, rowVars, Inserting, NewRuns
  <2>1. PICK s \in {"QUEUED", "RECEIVED"} : Becomes(t, Called("insert", 1, s, "none"))
    BY <1>2 DEF StartCreate
  <2>2. 1 \in Runs /\ s \in Statuses
    BY <1>0, BoundAssumption DEF Runs
  <2>3. Moves(t) /\ call'[t].pc = "insert" /\ call'[t].to = s
    BY <2>0, <2>1, <2>2, <1>0, <1>T, CalledDoes
  <2> QED BY <2>0, <2>1, <2>3 DEF Does, Opens
<1>3. ASSUME NEW r \in Runs, ApprovePlan(t, r) PROVE Moves(t) /\ Does(t)
  <2>0. At(t, "idle") /\ Fixed /\ UNCHANGED <<projectVars, boundVars>> /\ status[r] = "AWAITING_PLAN_APPROVAL"
    BY <1>3 DEF ApprovePlan, Free, CallOnly, Fixed, SameRows, rowVars
  <2>1. Moves(t) /\ call'[t].pc = "approve" /\ call'[t].run = r
    BY <1>3, <2>0, <1>0, <1>T, BeginDoes DEF ApprovePlan
  <2> QED BY <2>0, <2>1 DEF Does, Asks
<1>4. ASSUME NEW r \in Runs, RejectPlan(t, r) PROVE Moves(t) /\ Does(t)
  <2>0. /\ SameRows /\ UNCHANGED <<projectVars, boundVars>> /\ status[r] = "AWAITING_PLAN_APPROVAL"
        /\ status' = [status EXCEPT ![r] = "PREPARING"]
    BY <1>4 DEF RejectPlan, Decide, SameRows
  <2>1. Moves(t) /\ call'[t].pc = "provision" /\ call'[t].run = r
    BY <1>4, <2>0, <1>0, <1>T, BeginDoes DEF RejectPlan, Decide
  <2>2. Starts(t, r)
    BY <2>0, <2>1, <1>0 DEF Starts, SetsStatus
  <2> QED BY <2>1, <2>2 DEF Does
<1>5. ASSUME NEW r \in Runs, ApprovePublish(t, r) PROVE Moves(t) /\ Does(t)
  <2>0. /\ UNCHANGED <<risky, published, pushed, projectVars, boundVars>> /\ status[r] = "AWAITING_PUBLISH_APPROVAL"
        /\ status' = [status EXCEPT ![r] = "PUBLISHING"] /\ approved' = [approved EXCEPT ![r] = @ \cup {"publish"}]
    BY <1>5 DEF ApprovePublish, Decide
  <2>1. Moves(t) /\ call'[t].pc = "publish" /\ call'[t].run = r
    BY <1>5, <2>0, <1>0, <1>T, BeginDoes DEF ApprovePublish, Decide
  <2>2. Releases(t, r)
    BY <2>0, <2>1, <1>0 DEF Releases, SetsStatus
  <2> QED BY <2>1, <2>2 DEF Does
<1>6. ASSUME NEW r \in Runs, RejectPublish(t, r) \/ RejectQa(t, r) PROVE Moves(t) /\ Does(t)
  <2>0. /\ SameRows /\ UNCHANGED <<projectVars, boundVars>>
        /\ status[r] \in {"AWAITING_PUBLISH_APPROVAL", "AWAITING_QA_APPROVAL"}
        /\ status' = [status EXCEPT ![r] = "ESCALATED"] /\ Begin(t, "settle", r, "none")
    BY <1>6 DEF RejectPublish, RejectQa, Decide, SameRows
  <2>1. Moves(t) /\ call'[t].pc = "settle" /\ call'[t].run = r
    BY <2>0, <1>0, <1>T, BeginDoes
  <2>2. Rejects(t, r)
    BY <2>0, <2>1, <1>0 DEF Rejects, SetsStatus
  <2> QED BY <2>1, <2>2 DEF Does
<1>7. ASSUME NEW r \in Runs, StartQa(t, r) PROVE Moves(t) /\ Does(t)
  <2>0. /\ At(t, "idle") /\ Fixed /\ UNCHANGED <<projectVars, boundVars>> /\ status[r] = "AWAITING_QA_APPROVAL"
        /\ Becomes(t, Called("qa", r, QaTarget(r), "other"))
    BY <1>7 DEF StartQa, Free, CallOnly, Fixed, SameRows, rowVars
  <2>1. \/ QaTarget(r) = "AWAITING_PUBLISH_APPROVAL"
        \/ QaTarget(r) = "READY_TO_PUBLISH" /\ ~NeedsPublishApproval(r)
    BY DEF QaTarget
  <2>2. Moves(t) /\ call'[t].pc = "qa" /\ call'[t].run = r /\ call'[t].to = QaTarget(r)
    BY <2>0, <2>1, <1>0, <1>T, CalledDoes
  <2> QED BY <2>0, <2>1, <2>2 DEF Does, Asks
<1>8. ASSUME NEW r \in Runs, StartCancel(t, r) PROVE Moves(t) /\ Does(t)
  <2>0. /\ At(t, "idle") /\ Fixed /\ UNCHANGED <<projectVars, boundVars>> /\ status[r] \in Cancellable
        /\ Becomes(t, Called("cancel", r, status[r], "none"))
    BY <1>8 DEF StartCancel, Free, CallOnly, Fixed, SameRows, rowVars
  <2>1. status[r] \in Statuses
    BY <2>0 DEF Cancellable
  <2>2. Moves(t) /\ call'[t].pc = "cancel" /\ call'[t].run = r
    BY <2>0, <2>1, <1>0, <1>T, CalledDoes
  <2> QED BY <2>0, <2>2 DEF Does, Asks
<1> QED BY <1>1, <1>2, <1>3, <1>4, <1>5, <1>6, <1>7, <1>8 DEF Request

\* The steps of the worker process between two rounds.
LEMMA PollDoes ==
  ASSUME TypeOK, NEW t \in Threads, Poll(t)
  PROVE  Moves(t) /\ Polls(t)
<1>0. {"settle", "fail", "prepare"} \subseteq Pcs
  BY DEF Pcs
<1>1. CASE PickQueued(t)
  BY <1>0, <1>1, GotoDoes DEF PickQueued, Polls, CallOnly, Fixed, SameRows, rowVars
<1>2. ASSUME NEW r \in Runs, Recover(t, r) PROVE Moves(t) /\ Polls(t)
  <2>1. Moves(t) /\ call'[t].pc = "fail" /\ call'[t].run = r
    BY <1>0, <1>2, BeginDoes DEF Recover, CallOnly
  <2>2. status[r] # "NEW"
    BY <1>2 DEF Recover, Stale, StaleButPublishing
  <2> QED BY <2>1, <2>2, <1>2 DEF Recover, Polls, CallOnly, Fixed, SameRows, rowVars
<1>3. ASSUME NEW r \in Runs, PickReceived(t, r) PROVE Moves(t) /\ Polls(t)
  <2>1. Moves(t) /\ call'[t].pc = "prepare" /\ call'[t].run = r
    BY <1>0, <1>3, BeginDoes DEF PickReceived, CallOnly
  <2>2. status[r] # "NEW"
    BY <1>3 DEF PickReceived
  <2> QED BY <2>1, <2>2, <1>3 DEF PickReceived, Polls, CallOnly, Fixed, SameRows, rowVars
<1> QED BY <1>1, <1>2, <1>3 DEF Poll

\* Every step of a thread.
LEMMA StepDoes ==
  ASSUME TypeInv, NEW t \in Threads, Step(t) \/ Request(t) \/ Poll(t)
  PROVE  Moves(t) /\ (Does(t) \/ Polls(t))
<1>1. TypeOK
  BY DEF TypeInv
<1>2. CASE Step(t)
  BY <1>1, <1>2, WorkDoes, PrepareDoes, PublishDoes, EndDoes, RequestDoes DEF Step, Does
<1>3. CASE Request(t)
  BY <1>3, RequestDoes
<1>4. CASE Poll(t)
  BY <1>1, <1>4, PollDoes
<1> QED BY <1>2, <1>3, <1>4

-----------------------------------------------------------------------------
(* The types are kept, whoever takes part *)

\* Every status that a row is given is one, and what follows a write is known.
LEMMA WritesAre == \A s, n : <<s, n>> \in Writes =>
  n \in {"idle", "approve", "execute", "gates", "run", "review", "fix", "release", "settle"}
BY DEF Writes

\* A run that is new was new before; SetsStatus writes one row.
LEMMA NewStays ==
  ASSUME TypeOK, NEW t \in Threads, Does(t) \/ Polls(t)
  PROVE  /\ status' \in [Runs -> Statuses \cup {"NEW"}]
         /\ \A r \in Runs : status'[r] = "NEW" => status[r] = "NEW"
<1>0. "NEW" \notin Statuses /\ status \in [Runs -> Statuses \cup {"NEW"}]
  BY StatusesAre DEF TypeOK
<1>1. ASSUME NEW r \in Runs, NEW s \in Statuses, SetsStatus(r, s)
      PROVE  /\ status' \in [Runs -> Statuses \cup {"NEW"}]
             /\ \A q \in Runs : status'[q] = "NEW" => status[q] = "NEW"
  BY <1>0, <1>1 DEF SetsStatus
<1>2. \/ status' = status
      \/ \E r \in Runs, s \in Statuses : SetsStatus(r, s)
  BY DEF Does, Polls, Fixed, Rests, GivesUp, Proceeds, Plans, Grants, Allows, Acts, Wakes, Claiming, Queues,
         Sets, Cancels, Previews, Opens, Asks, Starts, Releases, Rejects, Inserts, SetsStatus
<1> QED BY <1>0, <1>1, <1>2

\* The rows keep their types.
LEMMA RowsTyped ==
  ASSUME TypeOK, NEW t \in Threads, Does(t) \/ Polls(t)
  PROVE  /\ approved' \in [Runs -> SUBSET {"plan", "qa", "publish"}]
         /\ risky' \in [Runs -> BOOLEAN] /\ published' \in [Runs -> Nat] /\ pushed' \subseteq Runs
<1>0. /\ approved \in [Runs -> SUBSET {"plan", "qa", "publish"}]
      /\ risky \in [Runs -> BOOLEAN] /\ published \in [Runs -> Nat] /\ pushed \subseteq Runs
  BY DEF TypeOK
<1>1. approved' \in [Runs -> SUBSET {"plan", "qa", "publish"}]
  <2>1. \/ approved' = approved
        \/ \E r \in Runs, k \in {"plan", "qa", "publish"} : approved' = [approved EXCEPT ![r] = @ \cup {k}]
    BY CallTyped DEF Does, Polls, Fixed, SameRows, Rests, GivesUp, Proceeds, Plans, Grants, Allows, Acts, Wakes,
       Claiming, Queues, Sets, Cancels, Previews, Opens, Asks, Starts, Releases, Rejects, Inserts
  <2> QED BY <1>0, <2>1
<1>2. risky' \in [Runs -> BOOLEAN]
  <2>1. risky' = risky \/ risky' \in [Runs -> BOOLEAN]
    BY DEF Does, Polls, Fixed, SameRows, Rests, GivesUp, Proceeds, Plans, Grants, Allows, Acts, Wakes,
       Claiming, Queues, Sets, Cancels, Previews, Opens, Asks, Starts, Releases, Rejects, Inserts
  <2> QED BY <1>0, <2>1
<1>3. published' \in [Runs -> Nat]
  <2>1. published' = published \/ published' = [published EXCEPT ![call[t].run] = @ + 1]
    BY DEF Does, Polls, Fixed, SameRows, Rests, GivesUp, Proceeds, Plans, Grants, Allows, Acts, Wakes,
       Claiming, Queues, Sets, Cancels, Previews, Opens, Asks, Starts, Releases, Rejects, Inserts
  <2> QED BY <1>0, <2>1
<1>4. pushed' \subseteq Runs
  <2>1. pushed' = pushed \/ pushed' = pushed \cup {call[t].run}
    BY DEF Does, Polls, Fixed, SameRows, Rests, GivesUp, Proceeds, Plans, Grants, Allows, Acts, Wakes,
       Claiming, Queues, Sets, Cancels, Previews, Opens, Asks, Starts, Releases, Rejects, Inserts
  <2> QED BY <1>0, <2>1, CallTyped
<1> QED BY <1>1, <1>2, <1>3, <1>4

\* The types after a step of a thread.
LEMMA TypeStep ==
  ASSUME TypeOK, NEW t \in Threads, Moves(t), Does(t) \/ Polls(t)
  PROVE  TypeOK'
BY NewStays, RowsTyped DEF TypeOK, Moves, Calls

\* Where Leaves leads, a write has its follower.
LEMMA LeavesChosen ==
  ASSUME NEW t \in Threads, Leaves(t)
  PROVE  /\ call'[t].pc \in {"idle", "fail", "write"}
         /\ call'[t].pc = "write" => <<call'[t].to, call'[t].then>> \in Writes /\ call'[t].to \in {"ESCALATED", "FAILED"}
BY DEF Leaves, Drops, Goes, Writing, Writes

\* Chosen after a step of a thread.
LEMMA ChosenStep ==
  ASSUME TypeOK, Chosen, NEW t \in Threads, Moves(t), Does(t) \/ Polls(t)
  PROVE  Chosen'
<1> DEFINE Fits ==
      /\ call'[t].pc = "insert" => call'[t].to \in {"QUEUED", "RECEIVED"}
      /\ call'[t].pc = "qa" => call'[t].to \in {"READY_TO_PUBLISH", "AWAITING_PUBLISH_APPROVAL"}
      /\ call'[t].pc = "write" => <<call'[t].to, call'[t].then>> \in Writes
<1> SUFFICES Fits
  BY DEF Chosen, At, Moves
<1>1. CASE Rests(t) \/ Wakes(t) \/ Claiming(t) \/ Cancels(t) \/ Previews(t) \/ Opens(t) \/ Asks(t) \/ Polls(t)
  BY <1>1 DEF Rests, Wakes, Claiming, Cancels, Previews, Opens, Asks, Polls, Drops, Goes
<1>2. CASE GivesUp(t) \/ Plans(t) \/ Grants(t) \/ Acts(t)
  <2>1. CASE Leaves(t)
    BY <2>1, LeavesChosen
  <2>2. CASE \E w \in Writes : Writing(t, w[1], w[2])
    BY <2>2 DEF Writing, Goes, Writes
  <2>3. Leaves(t) \/ \E w \in Writes : Writing(t, w[1], w[2])
    <3>1. /\ <<"AWAITING_PLAN_APPROVAL", "idle">> \in Writes /\ <<"AWAITING_PLAN_APPROVAL", "approve">> \in Writes
          /\ <<"EXECUTING", "execute">> \in Writes /\ <<"PUBLISHED", "settle">> \in Writes
      BY DEF Writes
    <3>2. CASE GivesUp(t)
      BY <3>2 DEF GivesUp
    <3>3. CASE Plans(t)
      BY <3>1, <3>3, Zenon DEF Plans, Writing, Goes
    <3>4. CASE Grants(t)
      BY <3>1, <3>4, Zenon DEF Grants, Writing, Goes
    <3>5. CASE Acts(t)
      BY <3>1, <3>5, Zenon DEF Acts, Writing, Goes
    <3> QED BY <1>2, <3>2, <3>3, <3>4, <3>5
  <2> QED BY <2>1, <2>2, <2>3
<1>3. CASE Proceeds(t)
  BY <1>3 DEF Proceeds, Goes, Writing, WorkWrites, Writes
<1>4. CASE Allows(t) \/ Queues(t)
  BY <1>4 DEF Allows, Queues, Goes, Writing, Writes
<1>5. CASE Sets(t)
  BY <1>5, WritesAre DEF Sets, Chosen, At, Drops, Goes
<1>6. CASE \E r \in Runs : Starts(t, r) \/ Releases(t, r) \/ Rejects(t, r) \/ Inserts(t, r)
  BY <1>6 DEF Starts, Releases, Rejects, Inserts, Drops
<1> QED BY <1>1, <1>2, <1>3, <1>4, <1>5, <1>6 DEF Does

\* Unborn after a step of a thread.
LEMMA UnbornStep ==
  ASSUME TypeOK, Unborn, Chosen, NEW t \in Threads, Moves(t), Does(t) \/ Polls(t)
  PROVE  Unborn'
<1>1. SUFFICES ASSUME status'[call'[t].run] = "NEW" PROVE call'[t].pc \in {"idle", "insert", "settle"}
  BY NewStays DEF Unborn, Moves
<1>2. call'[t].run \in Runs /\ call[t].run \in Runs /\ status[call'[t].run] = "NEW" /\ "NEW" \notin Statuses
  BY <1>1, NewStays, CallTyped, StatusesAre DEF Moves, Calls
<1>3. ASSUME call'[t].run = call[t].run PROVE call[t].pc \in {"idle", "insert", "settle"}
  BY <1>2, <1>3 DEF Unborn
<1>4. CASE GivesUp(t) \/ Plans(t) \/ Grants(t) \/ Acts(t)
  BY <1>3, <1>4 DEF GivesUp, Plans, Grants, Acts, Leaves, Drops, Goes, Writing, At, Engaged, Steps
<1>5. CASE Proceeds(t) \/ Allows(t) \/ Claiming(t) \/ Queues(t)
  BY <1>3, <1>5 DEF Proceeds, Allows, Claiming, Queues, AgreedSteps, Drops, Goes, Writing, At
<1>6. CASE Sets(t) \/ Cancels(t) \/ Previews(t)
  BY <1>3, <1>6 DEF Sets, Cancels, Previews, Drops, Goes, At
<1>7. CASE Rests(t) \/ Wakes(t) \/ Opens(t) \/ Polls(t)
  BY <1>2, <1>7 DEF Rests, Wakes, Opens, Polls, Drops, Goes
<1>8. CASE Asks(t)
  BY <1>2, <1>8, CancellableFacts DEF Asks
<1>9. CASE \E r \in Runs : Starts(t, r) \/ Releases(t, r) \/ Rejects(t, r) \/ Inserts(t, r)
  BY <1>1, <1>2, <1>9 DEF Starts, Releases, Rejects, Inserts, SetsStatus, Drops, TypeOK
<1> QED BY <1>4, <1>5, <1>6, <1>7, <1>8, <1>9 DEF Does

\* The sets that Room compares are finite.
LEMMA RoomFinite == ASSUME TypeOK
  PROVE IsFiniteSet(Inserting) /\ IsFiniteSet(NewRuns) /\ Cardinality(Inserting) \in Nat /\ Cardinality(NewRuns) \in Nat
<1>1. IsFiniteSet(Inserting)
  BY ThreadAssumption, FS_Subset DEF Threads, Inserting
<1>2. IsFiniteSet(Runs) /\ NewRuns \subseteq Runs
  BY BoundAssumption, FS_Interval DEF Runs, NewRuns
<1>3. IsFiniteSet(NewRuns)
  BY <1>2, FS_Subset
<1> QED BY <1>1, <1>3, FS_CardinalityType

\* Steps that neither open nor insert leave Room alone.
LEMMA RoomElse ==
  ASSUME TypeInv, NEW t \in Threads, Moves(t), Does(t) \/ Polls(t), ~Opens(t), \A r \in Runs : ~Inserts(t, r)
  PROVE  NewRuns' = NewRuns /\ Inserting' \subseteq Inserting
<1>T. TypeOK /\ Unborn /\ Chosen
  BY DEF TypeInv
<1>0. call[t].run \in Runs
  BY <1>T, CallTyped
<1>1. call'[t].pc # "insert"
  <2>1. CASE GivesUp(t) \/ Plans(t) \/ Grants(t) \/ Acts(t)
    BY <2>1 DEF GivesUp, Plans, Grants, Acts, Leaves, Drops, Goes, Writing
  <2>2. CASE Proceeds(t) \/ Allows(t) \/ Claiming(t) \/ Queues(t)
    BY <2>2 DEF Proceeds, Allows, Claiming, Queues, Drops, Goes, Writing
  <2>3. CASE Sets(t)
    BY <2>3, <1>T, WritesAre DEF Sets, Chosen, At, Drops, Goes
  <2>4. CASE Cancels(t) \/ Previews(t) \/ Rests(t) \/ Wakes(t) \/ Polls(t) \/ Asks(t)
    BY <2>4 DEF Cancels, Previews, Rests, Wakes, Polls, Asks, Drops, Goes
  <2>5. CASE \E r \in Runs : Starts(t, r) \/ Releases(t, r) \/ Rejects(t, r)
    BY <2>5 DEF Starts, Releases, Rejects
  <2> QED BY <2>1, <2>2, <2>3, <2>4, <2>5 DEF Does
<1>2. Inserting' \subseteq Inserting
  BY <1>1 DEF Inserting, At, Moves
<1>3. \/ status' = status
      \/ \E r \in Runs, s \in Statuses : SetsStatus(r, s) /\ status[r] # "NEW"
  <2>1. CASE Sets(t)
    <3>1. Status(t) # "NEW"
      BY <2>1, <1>0, <1>T DEF Sets, Unborn, At, Status
    <3> QED BY <2>1, <3>1 DEF Sets, SetsStatus, Status
  <2>2. CASE Cancels(t) \/ Previews(t)
    BY <2>2, CancellableFacts DEF Cancels, Previews, SetsStatus, Status
  <2>3. CASE \E r \in Runs : Starts(t, r) \/ Releases(t, r) \/ Rejects(t, r)
    BY <2>3 DEF Starts, Releases, Rejects, SetsStatus, PrepareFrom
  <2>4. CASE status' = status
    BY <2>4
  <2> QED BY <2>1, <2>2, <2>3, <2>4 DEF Does, Polls, Fixed, Rests, GivesUp, Proceeds, Plans, Grants, Allows, Acts,
       Wakes, Claiming, Queues, Asks
<1>4. NewRuns' = NewRuns
  <2>1. CASE status' = status
    BY <2>1 DEF NewRuns
  <2>2. ASSUME NEW r \in Runs, NEW s \in Statuses, SetsStatus(r, s), status[r] # "NEW"
        PROVE  NewRuns' = NewRuns
    BY <2>2, <1>T, StatusesAre DEF NewRuns, SetsStatus, TypeOK
  <2> QED BY <1>3, <2>1, <2>2
<1> QED BY <1>2, <1>4

\* Room after a step of a thread.
LEMMA RoomStep ==
  ASSUME TypeInv, NEW t \in Threads, Moves(t), Does(t) \/ Polls(t), TypeOK'
  PROVE  Room'
<1>T. TypeOK /\ Unborn /\ Chosen /\ Room
  BY DEF TypeInv
<1>F. /\ IsFiniteSet(Inserting) /\ IsFiniteSet(NewRuns) /\ Cardinality(Inserting) \in Nat /\ Cardinality(NewRuns) \in Nat
  BY <1>T, RoomFinite
<1>1. CASE Opens(t)
  <2>1. Inserting' = Inserting \cup {t} /\ NewRuns' = NewRuns
    BY <1>1 DEF Opens, Inserting, NewRuns, Moves, At, Fixed
  <2>2. t \notin Inserting
    BY <1>1 DEF Opens, At, Inserting
  <2>3. Cardinality(Inserting \cup {t}) = Cardinality(Inserting) + 1
    BY <1>F, <2>2, FS_AddElement
  <2> QED BY <1>1, <1>F, <2>1, <2>2, <2>3 DEF Opens, Room
<1>2. ASSUME NEW r \in Runs, Inserts(t, r) PROVE Room'
  <2>1. t \in Inserting /\ r \in NewRuns
    BY <1>2 DEF Inserts, Inserting, NewRuns
  <2>2. call'[t].pc # "insert"
    BY <1>2 DEF Inserts, Drops
  <2>3. Inserting' = Inserting \ {t}
    BY <2>2 DEF Inserting, Moves, At
  <2>4. NewRuns' = NewRuns \ {r}
    BY <1>2, <1>T, StatusesAre DEF Inserts, NewRuns, SetsStatus, TypeOK
  <2>5. Cardinality(Inserting \ {t}) = Cardinality(Inserting) - 1 /\ Cardinality(NewRuns \ {r}) = Cardinality(NewRuns) - 1
    BY <1>F, <2>1, FS_RemoveElement
  <2> QED BY <1>T, <1>F, <2>3, <2>4, <2>5 DEF Room
<1>3. CASE ~Opens(t) /\ \A r \in Runs : ~Inserts(t, r)
  <2>1. NewRuns' = NewRuns /\ Inserting' \subseteq Inserting
    BY <1>3, RoomElse
  <2>2. Cardinality(Inserting') <= Cardinality(Inserting) /\ Cardinality(Inserting') \in Nat
    BY <1>F, <2>1, FS_Subset, FS_CardinalityType
  <2> QED BY <1>T, <1>F, <2>1, <2>2 DEF Room
<1> QED BY <1>1, <1>2, <1>3

\* The types at the start.
LEMMA TypeInit == Init => TypeInv
<1> SUFFICES ASSUME Init PROVE TypeInv
  OBVIOUS
<1>1. \A t \in Threads : call[t] = Idle
  BY DEF Init
<1>2. Idle.pc = "idle"
  BY DEF Idle, Called
<1>3. TypeOK
  <2>1. edits \in 0..MaxEdits /\ crashes \in 0..MaxCrashes
    BY BoundAssumption DEF Init
  <2>2. call \in [Threads -> Calls]
    BY IdleType DEF Init
  <2> QED BY <2>1, <2>2 DEF Init, TypeOK, Calls
<1>4. Unborn /\ Chosen
  BY <1>1, <1>2 DEF Unborn, Chosen, At
<1>5. Inserting = {}
  BY <1>1, <1>2 DEF Inserting, At
<1>6. Cardinality(Inserting) = 0 /\ Cardinality(NewRuns) \in Nat
  BY <1>3, <1>5, RoomFinite, FS_EmptySet
<1> QED BY <1>3, <1>4, <1>6 DEF TypeInv, Room

\* What a crash does to the calls.
LEMMA CrashDoes ==
  ASSUME TypeOK, Crash(Server) \/ Crash(Poller)
  PROVE  /\ Fixed /\ config' = config /\ exposed' = exposed /\ edits' = edits /\ crashes' \in 0..MaxCrashes
         /\ call' \in [Threads -> Calls]
         /\ \A t \in Threads : call'[t] = call[t] \/ call'[t].pc = "idle"
<1>1. PICK P \in {Server, Poller} : Crash(P)
  OBVIOUS
<1>2. Fixed /\ config' = config /\ exposed' = exposed /\ edits' = edits /\ crashes' \in 0..MaxCrashes
  BY <1>1, BoundAssumption DEF Crash, Fixed, SameRows, rowVars, projectVars, TypeOK
<1>3. call' = [t \in Threads |-> IF t \in P THEN Idle ELSE call[t]]
  BY <1>1 DEF Crash
<1>4. call \in [Threads -> Calls]
  BY DEF TypeOK, Calls
<1>5. Idle \in Calls /\ Idle.pc = "idle"
  BY IdleType DEF Idle, Called
<1> QED BY <1>2, <1>3, <1>4, <1>5

\* The types are kept.
LEMMA TypeNext == TypeInv /\ [Next]_vars => TypeInv'
<1> SUFFICES ASSUME TypeInv, [Next]_vars PROVE TypeInv'
  OBVIOUS
<1>T. TypeOK /\ Unborn /\ Room /\ Chosen
  BY DEF TypeInv
<1>1. ASSUME NEW t \in Threads, Step(t) \/ Request(t) \/ Poll(t) PROVE TypeInv'
  <2>1. Moves(t) /\ (Does(t) \/ Polls(t))
    BY <1>1, StepDoes
  <2>2. TypeOK'
    BY <2>1, <1>T, TypeStep
  <2>3. Unborn'
    BY <2>1, <1>T, UnbornStep
  <2>4. Chosen'
    BY <2>1, <1>T, ChosenStep
  <2>5. Room'
    BY <2>1, <2>2, RoomStep
  <2> QED BY <2>2, <2>3, <2>4, <2>5 DEF TypeInv
<1>2. CASE SaveProject
  <2>1. /\ Fixed /\ call' = call /\ crashes' = crashes /\ edits' \in 0..MaxEdits
        /\ config' \in Configs /\ exposed' \subseteq Runs
    BY <1>2, <1>T, BoundAssumption DEF SaveProject, Overtaken, Fixed, SameRows, rowVars, TypeOK
  <2>2. TypeOK'
    BY <2>1, <1>T DEF TypeOK, Fixed, SameRows
  <2>3. Unborn' /\ Chosen'
    BY <2>1, <1>T DEF Unborn, Chosen, At, Fixed
  <2>4. Inserting' = Inserting /\ NewRuns' = NewRuns
    BY <2>1 DEF Inserting, NewRuns, At, Fixed
  <2>5. Room'
    BY <2>4, <1>T DEF Room
  <2> QED BY <2>2, <2>3, <2>5 DEF TypeInv
<1>3. CASE Crash(Server) \/ Crash(Poller)
  <2>1. /\ Fixed /\ config' = config /\ exposed' = exposed /\ edits' = edits /\ crashes' \in 0..MaxCrashes
        /\ call' \in [Threads -> Calls]
        /\ \A t \in Threads : call'[t] = call[t] \/ call'[t].pc = "idle"
    BY <1>3, <1>T, CrashDoes
  <2>2. TypeOK'
    BY <2>1, <1>T DEF TypeOK, Fixed, SameRows, Calls
  <2>3. Unborn' /\ Chosen'
    BY <2>1, <1>T DEF Unborn, Chosen, At, Fixed
  <2>4. Inserting' \subseteq Inserting /\ NewRuns' = NewRuns
    BY <2>1 DEF Inserting, NewRuns, At, Fixed
  <2>5. Cardinality(Inserting') <= Cardinality(Inserting) /\ Cardinality(Inserting') \in Nat
    BY <1>T, <2>4, RoomFinite, FS_Subset, FS_CardinalityType
  <2>6. Room'
    BY <1>T, <2>4, <2>5, RoomFinite DEF Room
  <2> QED BY <2>2, <2>3, <2>6 DEF TypeInv
<1>4. CASE UNCHANGED vars
  <2>1. Fixed /\ call' = call /\ config' = config /\ exposed' = exposed /\ edits' = edits /\ crashes' = crashes
    BY <1>4 DEF vars, rowVars, projectVars, boundVars, Fixed, SameRows
  <2>2. TypeOK' /\ Unborn' /\ Chosen'
    BY <2>1, <1>T DEF TypeOK, Unborn, Chosen, At, Fixed, SameRows
  <2>3. Inserting' = Inserting /\ NewRuns' = NewRuns
    BY <2>1 DEF Inserting, NewRuns, At, Fixed
  <2>4. Room'
    BY <2>3, <1>T DEF Room
  <2> QED BY <2>2, <2>4 DEF TypeInv
<1> QED BY <1>1, <1>2, <1>3, <1>4 DEF Next

-----------------------------------------------------------------------------
(* What holds of the runs while no worker process takes part *)

Waits == {"RECEIVED", "QUEUED", "AWAITING_PLAN_APPROVAL", "AWAITING_QA_APPROVAL", "AWAITING_PUBLISH_APPROVAL",
          "READY_TO_PUBLISH"}

\* A run that somebody works for is in no status in which it may be claimed.
Claimed == \A r \in Runs, t \in Threads : Works(t, r) => status[r] \notin Waits \cup {"NEW"}

\* A thread that has not looked yet whether its run waits in the queue.
Aside == {"idle", "insert", "cancel", "settle"}
Enters(t) == call[t].pc \in {"prepare", "claim"} \/ (call[t].pc = "write" /\ call[t].to = "QUEUED")
Apart(t) == \A s \in Threads : s # t /\ call[s].run = call[t].run => call[s].pc \in Aside
\* A RECEIVED run is in the hands of the thread that received it; and if that
\* one is about to queue the run, nothing but a cancellation comes between.
Entering ==
  \A t \in Threads :
    /\ Status(t) = "RECEIVED" => call[t].pc \in Aside \/ (Enters(t) /\ Apart(t))
    /\ call[t].pc = "write" /\ call[t].to = "QUEUED" => Status(t) \in {"RECEIVED", "CANCELLED"} /\ Apart(t)

\* A run that got so far or was published has an approved plan, and so has one
\* that is worked on.
Agreed == {"EXECUTING", "FIXING", "DETERMINISTIC_CHECKS", "AI_REVIEWING", "AWAITING_QA_APPROVAL", "READY_TO_PUBLISH",
           "AWAITING_PUBLISH_APPROVAL", "PUBLISHING", "PUBLISHED"}
PlanKept ==
  /\ \A r \in Runs : status[r] \in Agreed \/ published[r] > 0 => "plan" \in approved[r]
  /\ \A t \in Threads : call[t].pc \in AgreedSteps \/ (call[t].pc = "write" /\ call[t].to \in Agreed) =>
       "plan" \in approved[call[t].run]

\* What nobody has to let through, or somebody has, under the settings as they
\* are; a run that a save overtook was let through under the ones before.
RiskAgreed(r) == risky[r] => "publish" \in approved[r]
LetThrough(r) == RiskAgreed(r) /\ (config.mode \in ApprovalOnly /\ r \notin exposed => "publish" \in approved[r])
\* A run that may be published or is about to be is let through; of what was
\* published or pushed there remains what PublishedOnceWithConsent and
\* PushedWithApproval say.
Consented ==
  /\ \A r \in Runs : published[r] > 0 => RiskAgreed(r)
  /\ PushedWithApproval
  /\ \A r \in Runs : status[r] = "READY_TO_PUBLISH" => LetThrough(r)
  /\ \A t \in Threads : call[t].pc = "publish" \/ (call[t].pc \in {"write", "qa"} /\ call[t].to = "READY_TO_PUBLISH") =>
       LetThrough(call[t].run)

\* While a person approves a preview, nobody plans or executes the run.
Publishes(t) == call[t].pc = "publish" \/ (call[t].pc = "write" /\ call[t].to = "PUBLISHED")
Over == {"PUBLISHING", "PUBLISHED", "ESCALATED", "FAILED"}
Late == Over \cup {"AWAITING_QA_APPROVAL", "AWAITING_PUBLISH_APPROVAL", "READY_TO_PUBLISH", "CANCELLED"}
Previewing == \A t \in Threads : call[t].pc = "qa" =>
  Status(t) \in Late /\ \A s \in Threads : Works(s, call[t].run) => Publishes(s)

\* The publisher acts on a run that stays out of everybody's reach.
OnceOut ==
  /\ \A t \in Threads : call[t].pc = "publish" => Status(t) \in Over
  /\ \A r \in Runs :
       /\ published[r] \in {0, 1}
       /\ published[r] = 1 => status[r] \in Over /\ \A t \in Threads : Works(t, r) => call[t].pc = "write" /\ call[t].to = "PUBLISHED"

\* The inductive invariant.
SafeInv == OneThreadPerRun /\ Claimed /\ Entering /\ PlanKept /\ Consented /\ Previewing /\ OnceOut
IInv == TypeInv /\ SafeInv

\* At the start nobody does anything.
LEMMA SafeInit == Init => SafeInv
<1> SUFFICES ASSUME Init PROVE SafeInv
  OBVIOUS
<1>1. \A t \in Threads : call[t].pc = "idle"
  BY DEF Init, Idle, Called
<1>2. \A r \in Runs : status[r] = "NEW" /\ published[r] = 0
  BY DEF Init
<1>3. \A t \in Threads, r \in Runs : ~Works(t, r)
  BY <1>1 DEF Works, Steps
<1>4. OneThreadPerRun /\ Claimed
  BY <1>3 DEF OneThreadPerRun, Claimed
<1>5. Entering
  BY <1>1 DEF Entering, Aside
<1>6. PlanKept /\ Consented
  BY <1>1, <1>2 DEF Init, PlanKept, Consented, PushedWithApproval, Agreed, AgreedSteps
<1>7. Previewing /\ OnceOut
  BY <1>1, <1>2 DEF Previewing, OnceOut
<1> QED BY <1>4, <1>5, <1>6, <1>7 DEF SafeInv

-----------------------------------------------------------------------------
(* Who works for a run *)

\* The rows and calls other than those of a step stay.
LEMMA Facts ==
  ASSUME TypeInv, NEW t \in Threads, Moves(t)
  PROVE  /\ call[t].run \in Runs /\ call'[t].run \in Runs
         /\ \A s \in Threads : s # t => call'[s] = call[s]
         /\ <<call[t].to, call[t].then>> \in Writes \/ call[t].pc # "write"
BY CallTyped DEF TypeInv, Moves, Calls, Chosen, At

\* The status of a run after a write of one.
LEMMA Sets1 ==
  ASSUME TypeInv, NEW r \in Runs, NEW s \in Statuses, SetsStatus(r, s)
  PROVE  status'[r] = s /\ \A q \in Runs : q # r => status'[q] = status[q]
BY DEF TypeInv, TypeOK, SetsStatus

\* The status of the run of a call after the call has written it.
LEMMA SetsTo ==
  ASSUME TypeInv, NEW t \in Threads, SetsStatus(call[t].run, call[t].to)
  PROVE  /\ call[t].run \in Runs /\ call[t].to \in Statuses
         /\ status'[call[t].run] = call[t].to
         /\ \A q \in Runs : q # call[t].run => status'[q] = status[q]
<1>1. call[t].run \in Runs /\ call[t].to \in Statuses
  BY DEF SetsStatus
<1> QED BY <1>1, Sets1

\* Only a claim makes a thread work for a run, and for one that waits.
LEMMA WorksOnly ==
  ASSUME TypeInv, NEW t \in Threads, Moves(t), Does(t), NEW r \in Runs, NEW s \in Threads, Works(s, r)'
  PROVE  Works(s, r) \/ (s = t /\ (Starts(t, r) \/ Releases(t, r)))
<1>0. CASE s # t
  BY <1>0 DEF Works, Moves
<1> SUFFICES ASSUME s = t PROVE Works(t, r) \/ Starts(t, r) \/ Releases(t, r)
  BY <1>0
<1>1. CASE GivesUp(t) \/ Plans(t) \/ Grants(t) \/ Acts(t)
  BY <1>1 DEF GivesUp, Plans, Grants, Acts, Leaves, Drops, Goes, Writing, At, Works, Steps
<1>2. CASE Proceeds(t) \/ Allows(t)
  BY <1>2 DEF Proceeds, Allows, Goes, Writing, At, Works, Steps, AgreedSteps
<1>3. CASE Claiming(t) \/ Queues(t) \/ Rests(t) \/ Wakes(t) \/ Opens(t) \/ Asks(t) \/ Cancels(t) \/ Previews(t)
  BY <1>3 DEF Claiming, Queues, Rests, Wakes, Opens, Asks, Cancels, Previews, Drops, Goes, Writing, Works, Steps
<1>4. CASE Sets(t)
  <2>1. <<call[t].to, call[t].then>> \in Writes
    BY <1>4, Facts DEF Sets, At
  <2>2. call[t].then \in Steps => call[t].to \notin {"QUEUED", "FAILED", "ESCALATED"}
    BY <2>1 DEF Writes, Steps
  <2>3. call[t].then # "write"
    BY <2>1, WritesAre
  <2> QED BY <1>4, <2>2, <2>3 DEF Sets, Drops, Goes, Works, Steps, At
<1>5. ASSUME NEW q \in Runs, Rejects(t, q) \/ Inserts(t, q) PROVE FALSE
  BY <1>5 DEF Rejects, Inserts, Drops, Works, Steps
<1>6. ASSUME NEW q \in Runs, Starts(t, q) \/ Releases(t, q) PROVE Starts(t, r) \/ Releases(t, r)
  <2>1. q = r
    BY <1>6 DEF Starts, Releases, Works
  <2> QED BY <1>6, <2>1
<1> QED BY <1>1, <1>2, <1>3, <1>4, <1>5, <1>6 DEF Does

\* Nobody works for a run that is claimed.
LEMMA ClaimsFree ==
  ASSUME Claimed, NEW t \in Threads, NEW r \in Runs, Starts(t, r) \/ Releases(t, r)
  PROVE  status[r] \in Waits /\ \A s \in Threads : ~Works(s, r)
<1>1. status[r] \in Waits
  BY DEF Starts, Releases, PrepareFrom, Waits
<1> QED BY <1>1 DEF Claimed

\* OneThreadPerRun after a step.
LEMMA OneThreadStep ==
  ASSUME TypeInv, OneThreadPerRun, Claimed, NEW t \in Threads, Moves(t), Does(t)
  PROVE  OneThreadPerRun'
<1> SUFFICES ASSUME NEW r \in Runs, NEW a \in Threads, NEW b \in Threads, Works(a, r)', Works(b, r)' PROVE a = b
  BY DEF OneThreadPerRun
<1>1. CASE Starts(t, r) \/ Releases(t, r)
  BY <1>1, ClaimsFree, WorksOnly
<1>2. CASE ~(Starts(t, r) \/ Releases(t, r))
  BY <1>2, WorksOnly DEF OneThreadPerRun
<1> QED BY <1>1, <1>2

\* The writes of those who work for a run, and the others.
LEMMA SetsIs ==
  ASSUME TypeInv, Entering, NEW t \in Threads, Sets(t), Moves(t)
  PROVE  \/ call[t].to \in {"FAILED", "ESCALATED"}
         \/ call[t].to = "QUEUED" /\ Status(t) \in {"RECEIVED", "CANCELLED"} /\ Apart(t)
         \/ Works(t, call[t].run) /\ call[t].to \notin {"RECEIVED", "CANCELLED", "QUEUED"}
<1>1. <<call[t].to, call[t].then>> \in Writes
  BY Facts DEF Sets, At
<1>2. call[t].to \notin {"RECEIVED", "CANCELLED"}
  BY <1>1 DEF Writes
<1>3. CASE call[t].to = "QUEUED"
  BY <1>3 DEF Sets, At, Entering
<1>4. CASE call[t].to \notin {"FAILED", "ESCALATED", "QUEUED"}
  BY <1>2, <1>4 DEF Sets, At, Works
<1> QED BY <1>3, <1>4

\* How the status of a run changes.
LEMMA RunChanges ==
  ASSUME TypeInv, NEW t \in Threads, Moves(t), Does(t), NEW r \in Runs
  PROVE  \/ status'[r] = status[r]
         \/ call[t].run = r /\ Sets(t) /\ status'[r] = call[t].to
         \/ call[t].run = r /\ Cancels(t) /\ status'[r] = "CANCELLED" /\ status[r] \in Cancellable
         \/ call[t].run = r /\ Previews(t) /\ status[r] = "AWAITING_QA_APPROVAL" /\ status'[r] = call[t].to
         \/ Starts(t, r) /\ status[r] \in PrepareFrom /\ status'[r] \in {"PREPARING", "PROVISIONING"}
         \/ /\ Releases(t, r) /\ status[r] \in {"READY_TO_PUBLISH", "AWAITING_PUBLISH_APPROVAL"}
            /\ status'[r] = "PUBLISHING"
         \/ /\ Rejects(t, r) /\ status[r] \in {"AWAITING_QA_APPROVAL", "AWAITING_PUBLISH_APPROVAL"}
            /\ status'[r] = "ESCALATED"
         \/ Inserts(t, r) /\ status[r] = "NEW" /\ status'[r] = call[t].to /\ call[t].to \in {"QUEUED", "RECEIVED"}
<1>1. ASSUME NEW q \in Runs, q # r, Starts(t, q) \/ Releases(t, q) \/ Rejects(t, q) \/ Inserts(t, q)
      PROVE status'[r] = status[r]
  BY <1>1, Sets1 DEF Starts, Releases, Rejects, Inserts, SetsStatus
<1>2. ASSUME Sets(t) \/ Cancels(t) \/ Previews(t), call[t].run # r PROVE status'[r] = status[r]
  BY <1>2, Sets1 DEF Sets, Cancels, Previews, SetsStatus
<1>3. ASSUME Sets(t), call[t].run = r PROVE status'[r] = call[t].to
  BY <1>3, SetsTo DEF Sets
<1>4. ASSUME Cancels(t), call[t].run = r PROVE status'[r] = "CANCELLED" /\ status[r] \in Cancellable
  BY <1>4, Sets1 DEF Cancels, SetsStatus, Status
<1>5. ASSUME Previews(t), call[t].run = r PROVE status[r] = "AWAITING_QA_APPROVAL" /\ status'[r] = call[t].to
  BY <1>5, SetsTo DEF Previews, Status
<1>6. ASSUME Starts(t, r) PROVE status[r] \in PrepareFrom /\ status'[r] \in {"PREPARING", "PROVISIONING"}
  BY <1>6, Sets1 DEF Starts, SetsStatus, PrepareFrom
<1>7. ASSUME Releases(t, r)
      PROVE status[r] \in {"READY_TO_PUBLISH", "AWAITING_PUBLISH_APPROVAL"} /\ status'[r] = "PUBLISHING"
  BY <1>7, Sets1 DEF Releases, SetsStatus
<1>8. ASSUME Rejects(t, r)
      PROVE status[r] \in {"AWAITING_QA_APPROVAL", "AWAITING_PUBLISH_APPROVAL"} /\ status'[r] = "ESCALATED"
  BY <1>8, Sets1 DEF Rejects, SetsStatus
<1>9. ASSUME Inserts(t, r)
      PROVE status[r] = "NEW" /\ status'[r] = call[t].to /\ call[t].to \in {"QUEUED", "RECEIVED"}
  BY <1>9, Sets1 DEF Inserts, SetsStatus, TypeInv, Chosen
<1>10. status' = status \/ Sets(t) \/ Cancels(t) \/ Previews(t)
       \/ \E q \in Runs : Starts(t, q) \/ Releases(t, q) \/ Rejects(t, q) \/ Inserts(t, q)
  BY DEF Does, Fixed, Rests, GivesUp, Proceeds, Plans, Grants, Allows, Acts, Wakes, Claiming, Queues, Opens, Asks
<1> QED BY <1>1, <1>2, <1>3, <1>4, <1>5, <1>6, <1>7, <1>8, <1>9, <1>10

\* Claimed after a step.
LEMMA ClaimedStep ==
  ASSUME TypeInv, OneThreadPerRun, Claimed, Entering, NEW t \in Threads, Moves(t), Does(t)
  PROVE  Claimed'
<1> SUFFICES ASSUME NEW r \in Runs, NEW s \in Threads, Works(s, r)' PROVE status'[r] \notin Waits \cup {"NEW"}
  BY DEF Claimed
<1>1. CASE Starts(t, r) \/ Releases(t, r)
  <2>1. SetsStatus(r, "PREPARING") \/ SetsStatus(r, "PROVISIONING") \/ SetsStatus(r, "PUBLISHING")
    BY <1>1 DEF Starts, Releases
  <2>2. status'[r] \in {"PREPARING", "PROVISIONING", "PUBLISHING"}
    BY <2>1, Sets1 DEF SetsStatus
  <2> QED BY <2>2 DEF Waits
<1>2. CASE ~(Starts(t, r) \/ Releases(t, r))
  <2>1. Works(s, r) /\ status[r] \notin Waits \cup {"NEW"}
    BY <1>2, WorksOnly DEF Claimed
  <2>2. CASE status'[r] = status[r]
    BY <2>1, <2>2
  <2>3. CASE Sets(t) /\ call[t].run = r
    <3>1. status'[r] = call[t].to /\ call[t].to \in Statuses
      BY <2>3, SetsTo DEF Sets
    <3>2. call[t].to \notin {"NEW", "RECEIVED"}
      BY <3>1, <2>3, SetsIs, StatusesAre
    <3>3. CASE call[t].to \in {"FAILED", "ESCALATED"}
      BY <3>1, <3>3 DEF Waits
    <3>4. CASE call[t].to = "QUEUED"
      <4>1. Apart(t)
        BY <2>3, <3>4, SetsIs DEF Works
      <4>2. ~Works(t, r) /\ call[s].pc \notin Aside
        BY <2>1, <2>3, <3>4 DEF Works, Sets, At, Aside, Steps
      <4> QED BY <4>1, <4>2, <2>1, <2>3 DEF Apart, Works
    <3>5. CASE Works(t, r)
      <4>1. s = t
        BY <2>1, <3>5 DEF OneThreadPerRun
      <4>2. <<call[t].to, call[t].then>> \in Writes /\ Works(t, r)'
        BY <2>3, <4>1, Facts DEF Sets, At
      <4>3. call[t].then \in Steps
        BY <2>3, <4>2, WritesAre DEF Sets, Works, Drops, Goes, Steps
      <4>4. call[t].to \notin Waits
        BY <4>2, <4>3 DEF Writes, Waits, Steps
      <4> QED BY <3>1, <3>2, <4>4
    <3> QED BY <2>3, <3>3, <3>4, <3>5, SetsIs
  <2>4. CASE status'[r] \in {"CANCELLED", "ESCALATED"}
    BY <2>4 DEF Waits
  <2> QED BY <1>2, <2>1, <2>2, <2>3, <2>4, RunChanges DEF Waits
<1> QED BY <1>1, <1>2

-----------------------------------------------------------------------------
(* The other parts *)

\* Nothing but a request for a cancellation comes to a run that is received or
\* cancelled, and who stands aside stays so.
LEMMA AsideStays ==
  ASSUME TypeInv, NEW t \in Threads, Moves(t), Does(t), NEW r \in Runs, call'[t].run = r,
         status[r] \in {"RECEIVED", "CANCELLED"}, call[t].run = r => call[t].pc \in Aside
  PROVE  call'[t].pc \in Aside
<1>1. CASE GivesUp(t) \/ Plans(t) \/ Grants(t) \/ Acts(t)
  BY <1>1 DEF GivesUp, Plans, Grants, Acts, Leaves, Drops, Goes, Writing, At, Engaged, Steps, Aside
<1>2. CASE Proceeds(t) \/ Allows(t) \/ Claiming(t) \/ Queues(t)
  BY <1>2 DEF Proceeds, Allows, Claiming, Queues, Goes, Writing, At, AgreedSteps, Aside
<1>3. CASE Rests(t) \/ Wakes(t) \/ Opens(t) \/ Cancels(t)
  BY <1>3 DEF Rests, Wakes, Opens, Cancels, Drops, Goes, Aside
<1>4. CASE Sets(t) \/ Previews(t)
  BY <1>4 DEF Sets, Previews, Drops, Goes, Aside, At
<1>5. CASE Asks(t)
  BY <1>5 DEF Asks, Aside
<1>6. ASSUME NEW q \in Runs, Starts(t, q) \/ Releases(t, q) \/ Rejects(t, q) \/ Inserts(t, q) PROVE call'[t].pc \in Aside
  BY <1>6 DEF Starts, Releases, Rejects, Inserts, Drops, At, Aside
<1> QED BY <1>1, <1>2, <1>3, <1>4, <1>5, <1>6 DEF Does

\* A thread stays apart from others at such a run.
LEMMA ApartStays ==
  ASSUME TypeInv, NEW t \in Threads, Moves(t), Does(t), NEW u \in Threads, u # t, Apart(u),
         Status(u) \in {"RECEIVED", "CANCELLED"}
  PROVE  Apart(u)'
<1>1. call'[u] = call[u] /\ call[u].run \in Runs
  BY Facts, CallTyped DEF TypeInv
<1>2. ASSUME NEW s \in Threads, s # u, call'[s].run = call[u].run PROVE call'[s].pc \in Aside
  <2>1. call[s].run = call[u].run => call[s].pc \in Aside
    BY <1>2 DEF Apart
  <2>2. CASE s = t
    BY <1>1, <1>2, <2>1, <2>2, AsideStays DEF Status
  <2>3. CASE s # t
    BY <1>2, <2>1, <2>3, Facts
  <2> QED BY <2>2, <2>3
<1> QED BY <1>1, <1>2 DEF Apart

\* Entering after a step.
LEMMA EnteringStep ==
  ASSUME TypeInv, Entering, NEW t \in Threads, Moves(t), Does(t)
  PROVE  Entering'
<1>0. Unborn
  BY DEF TypeInv
<1>1. ASSUME NEW r \in Runs, status'[r] = "RECEIVED" PROVE status[r] = "RECEIVED" \/ Inserts(t, r)
  <2>1. CASE call[t].run = r /\ (Sets(t) \/ Previews(t)) /\ status'[r] = call[t].to
    <3>1. call[t].to # "RECEIVED"
      <4>1. CASE Sets(t)
        BY <4>1, SetsIs
      <4>2. CASE Previews(t)
        BY <4>2 DEF Previews, TypeInv, Chosen
      <4> QED BY <2>1, <4>1, <4>2
    <3> QED BY <2>1, <3>1, <1>1
  <2> QED BY <1>1, <2>1, RunChanges
<1>2. ASSUME NEW u \in Threads, u # t PROVE
        /\ Status(u)' = "RECEIVED" => call'[u].pc \in Aside \/ (Enters(u) /\ Apart(u))'
        /\ call'[u].pc = "write" /\ call'[u].to = "QUEUED" => Status(u)' \in {"RECEIVED", "CANCELLED"} /\ Apart(u)'
  <2> DEFINE r == call[u].run
  <2>0. call'[u] = call[u] /\ r \in Runs
    BY <1>2, Facts, CallTyped DEF TypeInv
  <2>1. ASSUME status'[r] = "RECEIVED" PROVE call[u].pc \in Aside \/ (Enters(u) /\ Apart(u)')
    <3>1. CASE Inserts(t, r)
      BY <1>0, <2>0, <3>1 DEF Inserts, Unborn, Aside
    <3>2. CASE status[r] = "RECEIVED"
      BY <1>2, <2>0, <3>2, ApartStays DEF Entering, Status
    <3> QED BY <1>1, <2>0, <2>1, <3>1, <3>2
  <2>2. ASSUME call[u].pc = "write", call[u].to = "QUEUED" PROVE status'[r] \in {"RECEIVED", "CANCELLED"} /\ Apart(u)'
    <3>1. Status(u) \in {"RECEIVED", "CANCELLED"} /\ Apart(u)
      BY <2>2 DEF Entering
    <3>2. Apart(u)'
      BY <1>2, <3>1, ApartStays
    <3>3. call[t].run = r => call[t].pc \in Aside
      BY <1>2, <3>1 DEF Apart
    <3>4. ~(call[t].run = r /\ (Sets(t) \/ Previews(t)))
      BY <3>3 DEF Sets, Previews, At, Aside
    <3>5. ~Starts(t, r)
      BY <3>1, <3>3 DEF Starts, At, Aside, Status
    <3>6. status'[r] \in {"RECEIVED", "CANCELLED"}
      BY <2>0, <3>1, <3>4, <3>5, RunChanges DEF Status
    <3> QED BY <3>2, <3>6
  <2> QED BY <2>0, <2>1, <2>2 DEF Status, Enters
<1>3. /\ Status(t)' = "RECEIVED" => call'[t].pc \in Aside \/ (Enters(t) /\ Apart(t))'
      /\ call'[t].pc = "write" /\ call'[t].to = "QUEUED" => Status(t)' \in {"RECEIVED", "CANCELLED"} /\ Apart(t)'
  <2> DEFINE r == call'[t].run
  <2>0. r \in Runs /\ \A s \in Threads : s # t => call'[s] = call[s]
    BY Facts
  <2>1. ASSUME status'[r] = "RECEIVED" PROVE call'[t].pc \in Aside \/ (Enters(t)' /\ Apart(t)')
    <3>1. CASE Inserts(t, r)
      <4>1. \A s \in Threads : s # t /\ call[s].run = r => call[s].pc \in Aside
        BY <1>0, <2>0, <3>1 DEF Inserts, Unborn, Aside
      <4>2. Apart(t)'
        BY <2>0, <4>1 DEF Apart
      <4>3. call'[t].pc \in {"idle", "prepare"}
        BY <3>1 DEF Inserts, Drops
      <4> QED BY <4>2, <4>3 DEF Aside, Enters
    <3>2. CASE status[r] = "RECEIVED" /\ call[t].run = r /\ call[t].pc \notin Aside
      <4>1. Enters(t) /\ Apart(t)
        BY <3>2 DEF Entering, Status
      <4>2. Apart(t)'
        BY <2>0, <3>2, <4>1 DEF Apart
      <4>3. CASE Claiming(t) \/ Queues(t) \/ Rests(t)
        BY <4>2, <4>3 DEF Claiming, Queues, Rests, Goes, Writing, Drops, Aside, Enters
      <4>4. CASE Sets(t)
        <5>1. status'[r] = call[t].to
          BY <3>2, <4>4, SetsTo DEF Sets
        <5>2. call[t].to # "RECEIVED"
          BY <4>4, SetsIs
        <5> QED BY <2>1, <5>1, <5>2
      <4>5. ASSUME NEW q \in Runs, Starts(t, q) \/ Releases(t, q) \/ Rejects(t, q) PROVE FALSE
        <5>1. q = r
          BY <4>5 DEF Starts, Releases, Rejects
        <5> QED BY <2>1, <4>5, <5>1, Sets1 DEF Starts, Releases, Rejects, SetsStatus
      <4>6. CASE \/ GivesUp(t) \/ Proceeds(t) \/ Plans(t) \/ Grants(t) \/ Allows(t) \/ Acts(t) \/ Wakes(t)
                 \/ Cancels(t) \/ Previews(t) \/ Opens(t) \/ Asks(t) \/ \E q \in Runs : Inserts(t, q)
        BY <3>2, <4>1, <4>6 DEF GivesUp, Proceeds, Plans, Grants, Allows, Acts, Wakes, Cancels, Previews, Opens, Asks,
           Inserts, At, Enters, Aside, Engaged, Steps, AgreedSteps
      <4> QED BY <4>3, <4>4, <4>5, <4>6 DEF Does
    <3>3. CASE status[r] = "RECEIVED" /\ (call[t].run = r => call[t].pc \in Aside)
      BY <2>0, <3>3, AsideStays
    <3> QED BY <1>1, <2>0, <2>1, <3>1, <3>2, <3>3
  <2>2. ASSUME call'[t].pc = "write", call'[t].to = "QUEUED" PROVE status'[r] \in {"RECEIVED", "CANCELLED"} /\ Apart(t)'
    <3>1. Queues(t)
      <4>1. CASE GivesUp(t) \/ Plans(t) \/ Grants(t) \/ Acts(t)
        BY <2>2, <4>1 DEF GivesUp, Plans, Grants, Acts, Leaves, Drops, Goes, Writing
      <4>2. CASE Proceeds(t) \/ Allows(t)
        BY <2>2, <4>2 DEF Proceeds, Allows, Goes, Writing, WorkWrites
      <4>3. CASE Rests(t) \/ Wakes(t) \/ Opens(t) \/ Cancels(t) \/ Previews(t) \/ Asks(t) \/ Claiming(t)
        BY <2>2, <4>3 DEF Rests, Wakes, Opens, Cancels, Previews, Asks, Claiming, Drops, Goes
      <4>4. CASE Sets(t)
        BY <2>2, <4>4, Facts, WritesAre DEF Sets, At, Drops, Goes
      <4>5. ASSUME NEW q \in Runs, Starts(t, q) \/ Releases(t, q) \/ Rejects(t, q) \/ Inserts(t, q) PROVE FALSE
        BY <2>2, <4>5 DEF Starts, Releases, Rejects, Inserts, Drops
      <4> QED BY <4>1, <4>2, <4>3, <4>4, <4>5 DEF Does
    <3>2. r = call[t].run /\ status[r] = "RECEIVED" /\ status' = status /\ At(t, "prepare")
      BY <3>1 DEF Queues, Writing, Goes, Status, Fixed
    <3>3. Apart(t)
      BY <3>2 DEF Entering, Status, At, Aside
    <3>4. Apart(t)'
      BY <2>0, <3>2, <3>3 DEF Apart
    <3> QED BY <3>2, <3>4
  <2> QED BY <2>1, <2>2 DEF Status
<1> QED BY <1>2, <1>3 DEF Entering

\* No approval is taken back.
LEMMA ApprovedGrows ==
  ASSUME TypeInv, NEW t \in Threads, Does(t), NEW r \in Runs
  PROVE  approved[r] \subseteq approved'[r]
<1>1. \/ approved' = approved
      \/ \E q \in Runs, k \in {"plan", "qa", "publish"} : approved' = [approved EXCEPT ![q] = @ \cup {k}]
  BY CallTyped DEF TypeInv, Does, Fixed, SameRows, Rests, GivesUp, Proceeds, Plans, Grants, Allows, Acts, Wakes,
     Claiming, Queues, Sets, Cancels, Previews, Opens, Asks, Starts, Releases, Rejects, Inserts
<1> QED BY <1>1 DEF TypeInv, TypeOK

\* Only the publisher counts what is published.
LEMMA ActsOnly ==
  ASSUME TypeInv, NEW t \in Threads, Does(t), NEW r \in Runs
  PROVE  /\ \/ published'[r] = published[r]
            \/ Acts(t) /\ call[t].run = r /\ published'[r] = published[r] + 1
         /\ r \in pushed' => r \in pushed \/ (Acts(t) /\ call[t].run = r /\ config.mode \in ApprovalOnly)
<1>1. published' = published \/ (Acts(t) /\ published' = [published EXCEPT ![call[t].run] = @ + 1])
  BY DEF Does, Fixed, SameRows, Rests, GivesUp, Proceeds, Plans, Grants, Allows, Acts, Wakes,
     Claiming, Queues, Sets, Cancels, Previews, Opens, Asks, Starts, Releases, Rejects, Inserts
<1>2. pushed' = pushed \/ (Acts(t) /\ config.mode \in ApprovalOnly /\ pushed' = pushed \cup {call[t].run})
  BY DEF Does, Fixed, SameRows, Rests, GivesUp, Proceeds, Plans, Grants, Allows, Acts, Wakes,
     Claiming, Queues, Sets, Cancels, Previews, Opens, Asks, Starts, Releases, Rejects, Inserts
<1> QED BY <1>1, <1>2 DEF TypeInv, TypeOK

\* The plan of a thread that goes on was approved.
LEMMA PlanStep ==
  ASSUME TypeInv, PlanKept, NEW t \in Threads, Moves(t), Does(t)
  PROVE  PlanKept'
<1>1. ASSUME NEW r \in Runs, status'[r] \in Agreed \/ published'[r] > 0 PROVE "plan" \in approved'[r]
  <2>1. \/ status[r] \in Agreed \/ published[r] > 0
        \/ call[t].run = r /\ At(t, "write") /\ call[t].to \in Agreed
        \/ call[t].run = r /\ call[t].pc \in AgreedSteps
    <3>1. CASE status'[r] \in Agreed
      BY <3>1, RunChanges DEF Sets, Agreed
    <3>2. CASE published'[r] > 0
      BY <3>2, ActsOnly DEF Acts, At, AgreedSteps
    <3> QED BY <1>1, <3>1, <3>2
  <2>2. "plan" \in approved[r]
    BY <2>1 DEF PlanKept, At
  <2> QED BY <2>2, ApprovedGrows
<1>2. ASSUME NEW s \in Threads, call'[s].pc \in AgreedSteps \/ (call'[s].pc = "write" /\ call'[s].to \in Agreed)
      PROVE  "plan" \in approved'[call'[s].run]
  <2>0. call[s].run \in Runs /\ call'[t].run \in Runs /\ call[t].run \in Runs
    BY CallTyped, Facts DEF TypeInv
  <2>1. CASE s # t
    <3>1. "plan" \in approved[call[s].run]
      BY <1>2, <2>1 DEF PlanKept, Moves
    <3> QED BY <2>0, <2>1, <3>1, ApprovedGrows DEF Moves
  <2>2. CASE s = t
    <3>1. ASSUME Leaves(t) PROVE FALSE
      BY <1>2, <2>2, <3>1 DEF Leaves, Drops, Goes, Writing, Agreed, AgreedSteps
    <3>2. CASE Proceeds(t) \/ Allows(t) \/ Acts(t) \/ Sets(t)
      <4>1. \/ call[t].pc \in AgreedSteps
            \/ call[t].pc = "write" /\ call[t].to \in Agreed
        <5>1. CASE Proceeds(t) \/ Allows(t) \/ Acts(t)
          BY <1>2, <2>2, <5>1 DEF Proceeds, Allows, Acts, Goes, At, AgreedSteps
        <5>2. CASE Sets(t)
          <6>1. <<call[t].to, call[t].then>> \in Writes /\ call[t].pc = "write"
            BY <5>2, Facts DEF Sets, At
          <6>2. call[t].then \in AgreedSteps
            BY <1>2, <2>2, <5>2, <6>1, WritesAre DEF Sets, Drops, Goes, AgreedSteps
          <6>3. call[t].to \in Agreed
            BY <6>1, <6>2 DEF Writes, AgreedSteps, Agreed
          <6> QED BY <6>1, <6>3
        <5> QED BY <3>2, <5>1, <5>2
      <4>2. call'[t].run = call[t].run
        BY <1>2, <2>2, <3>1, <3>2 DEF Proceeds, Allows, Acts, Sets, Goes, Writing, Drops, AgreedSteps
      <4>3. "plan" \in approved[call[t].run]
        BY <4>1 DEF PlanKept
      <4> QED BY <2>0, <2>2, <4>2, <4>3, ApprovedGrows
    <3>3. CASE Grants(t)
      BY <2>0, <2>2, <3>1, <3>3 DEF Grants, Writing, Goes, TypeInv, TypeOK
    <3>4. CASE GivesUp(t) \/ Plans(t)
      BY <1>2, <2>2, <3>1, <3>4 DEF GivesUp, Plans, Writing, Goes, Agreed, AgreedSteps
    <3>5. CASE Rests(t) \/ Wakes(t) \/ Claiming(t) \/ Queues(t) \/ Cancels(t) \/ Previews(t) \/ Opens(t) \/ Asks(t)
      BY <1>2, <2>2, <3>5 DEF Rests, Wakes, Claiming, Queues, Cancels, Previews, Opens, Asks, Drops, Goes, Writing,
         Agreed, AgreedSteps
    <3>6. ASSUME NEW q \in Runs, Starts(t, q) \/ Rejects(t, q) \/ Inserts(t, q) PROVE FALSE
      BY <1>2, <2>2, <3>6 DEF Starts, Rejects, Inserts, Drops, AgreedSteps
    <3>7. ASSUME NEW q \in Runs, Releases(t, q) PROVE "plan" \in approved'[call'[t].run]
      <4>1. status[q] \in Agreed /\ call'[t].run = q
        BY <3>7 DEF Releases, Agreed
      <4> QED BY <4>1, ApprovedGrows DEF PlanKept
    <3> QED BY <2>2, <3>2, <3>3, <3>4, <3>5, <3>6, <3>7 DEF Does
  <2> QED BY <2>1, <2>2
<1> QED BY <1>1, <1>2 DEF PlanKept

\* Only who makes a plan says how risky its run is.
LEMMA LetKept ==
  ASSUME TypeInv, NEW t \in Threads, Moves(t), Does(t), NEW r \in Runs, ~(Plans(t) /\ call[t].run = r)
  PROVE  (RiskAgreed(r) => RiskAgreed(r)') /\ (LetThrough(r) => LetThrough(r)')
<1>1. risky'[r] = risky[r]
  BY DEF Does, Fixed, SameRows, Rests, GivesUp, Proceeds, Plans, Grants, Allows, Acts, Wakes,
     Claiming, Queues, Sets, Cancels, Previews, Opens, Asks, Starts, Releases, Rejects, Inserts
<1>2. approved[r] \subseteq approved'[r]
  BY ApprovedGrows
<1> QED BY <1>1, <1>2 DEF RiskAgreed, LetThrough, Moves

\* Nobody relies on the risk of a run whose plan is being made.
LEMMA PlansAlone ==
  ASSUME TypeInv, SafeInv, NEW t \in Threads, Plans(t)
  PROVE  /\ status[call[t].run] # "READY_TO_PUBLISH" /\ published[call[t].run] = 0
         /\ \A s \in Threads : call[s].run = call[t].run =>
              ~(call[s].pc = "publish" \/ (call[s].pc \in {"write", "qa"} /\ call[s].to = "READY_TO_PUBLISH"))
<1> DEFINE r == call[t].run
<1>0. r \in Runs /\ Works(t, r) /\ call[t].pc = "plan" /\ ~Publishes(t)
  BY CallTyped DEF TypeInv, Plans, At, Works, Steps, Publishes
<1>1. status[r] # "READY_TO_PUBLISH"
  BY <1>0 DEF SafeInv, Claimed, Waits
<1>2. published[r] = 0
  BY <1>0 DEF SafeInv, OnceOut
<1>3. ASSUME NEW s \in Threads, call[s].run = r,
             call[s].pc = "publish" \/ (call[s].pc = "write" /\ call[s].to = "READY_TO_PUBLISH")
      PROVE FALSE
  <2>1. Works(s, r)
    BY <1>3 DEF Works, Steps
  <2>2. s = t
    BY <1>0, <2>1 DEF SafeInv, OneThreadPerRun
  <2> QED BY <1>0, <1>3, <2>2
<1>4. ASSUME NEW s \in Threads, call[s].run = r, call[s].pc = "qa" PROVE FALSE
  BY <1>0, <1>4 DEF SafeInv, Previewing
<1> QED BY <1>1, <1>2, <1>3, <1>4

\* What is published, or about to be, was let through.
LEMMA ConsentStep ==
  ASSUME TypeInv, SafeInv, NEW t \in Threads, Moves(t), Does(t)
  PROVE  Consented'
<1>0. Consented
  BY DEF SafeInv
<1>U. ASSUME NEW r \in Runs, Plans(t), call[t].run = r
      PROVE  status[r] # "READY_TO_PUBLISH" /\ published[r] = 0 /\ call[t].pc = "plan"
  BY <1>U, PlansAlone DEF Plans, At
<1>A. ASSUME NEW r \in Runs, Acts(t), call[t].run = r PROVE LetThrough(r)
  BY <1>0, <1>A DEF Consented, Acts, At
<1>1. ASSUME NEW r \in Runs, status'[r] = "READY_TO_PUBLISH" PROVE LetThrough(r)'
  <2>1. \/ status[r] = "READY_TO_PUBLISH"
        \/ call[t].run = r /\ call[t].pc \in {"write", "qa"} /\ call[t].to = "READY_TO_PUBLISH"
    BY <1>1, RunChanges DEF Sets, Previews, At
  <2>2. LetThrough(r)
    BY <1>0, <2>1 DEF Consented
  <2>3. ~(Plans(t) /\ call[t].run = r)
    BY <1>U, <2>1
  <2> QED BY <2>2, <2>3, LetKept
<1>4. ASSUME NEW r \in Runs, published'[r] > 0 PROVE RiskAgreed(r)'
  <2>1. published[r] > 0 \/ (Acts(t) /\ call[t].run = r)
    BY <1>4, ActsOnly
  <2>2. RiskAgreed(r)
    BY <1>0, <1>A, <2>1 DEF Consented, LetThrough
  <2>3. ~(Plans(t) /\ call[t].run = r)
    BY <1>U, <2>1 DEF Acts, At
  <2> QED BY <2>2, <2>3, LetKept
<1>5. PushedWithApproval'
  <2>1. exposed' = exposed /\ pushed' \subseteq Runs
    BY RowsTyped DEF Moves, TypeInv
  <2>2. ASSUME NEW r \in Runs, r \in pushed', r \notin exposed PROVE "publish" \in approved'[r]
    <3>1. r \in pushed \/ (Acts(t) /\ call[t].run = r /\ config.mode \in ApprovalOnly)
      BY <2>2, ActsOnly
    <3>2. "publish" \in approved[r]
      BY <1>0, <1>A, <2>2, <3>1 DEF Consented, PushedWithApproval, LetThrough
    <3> QED BY <3>2, ApprovedGrows
  <2> QED BY <2>1, <2>2 DEF PushedWithApproval
<1>2. ASSUME NEW s \in Threads, NEW r \in Runs, call'[s].run = r,
             call'[s].pc = "publish" \/ (call'[s].pc \in {"write", "qa"} /\ call'[s].to = "READY_TO_PUBLISH")
      PROVE  LetThrough(r)'
  <2>0. call[s].run \in Runs /\ call'[t].run \in Runs /\ call[t].run \in Runs
    BY CallTyped, Facts DEF TypeInv
  <2>1. CASE s # t
    <3>1. LetThrough(r) /\ call[s].run = r /\ call'[s] = call[s]
      BY <1>0, <1>2, <2>1 DEF Consented, Moves
    <3>2. ~(Plans(t) /\ call[t].run = r)
      BY <1>2, <3>1, PlansAlone
    <3> QED BY <3>1, <3>2, LetKept
  <2>2. CASE s = t
    <3>1. CASE Allows(t) \/ Asks(t)
      <4>1. ~NeedsPublishApproval(r)
        BY <1>2, <2>2, <3>1 DEF Allows, Asks, Writing, Goes
      <4>2. LetThrough(r)
        BY <4>1 DEF NeedsPublishApproval, LetThrough, RiskAgreed
      <4>3. Fixed
        BY <3>1 DEF Allows, Asks
      <4> QED BY <4>2, <4>3 DEF LetThrough, RiskAgreed, Fixed, SameRows, Moves
    <3>2. ASSUME NEW q \in Runs, Releases(t, q) PROVE LetThrough(r)'
      <4>0. q = r
        BY <1>2, <2>2, <3>2 DEF Releases
      <4>1. CASE status[r] = "READY_TO_PUBLISH" /\ approved' = approved
        <5>1. LetThrough(r)
          BY <1>0, <4>1 DEF Consented
        <5> QED BY <3>2, <4>1, <5>1 DEF Releases, LetThrough, RiskAgreed, Moves
      <4>2. CASE approved' = [approved EXCEPT ![r] = @ \cup {"publish"}]
        BY <4>2 DEF LetThrough, RiskAgreed, TypeInv, TypeOK
      <4> QED BY <3>2, <4>0, <4>1, <4>2 DEF Releases
    <3>3. CASE GivesUp(t) \/ Plans(t) \/ Grants(t) \/ Acts(t)
      BY <1>2, <2>2, <3>3 DEF GivesUp, Plans, Grants, Acts, Leaves, Drops, Goes, Writing
    <3>4. CASE Proceeds(t) \/ Queues(t)
      BY <1>2, <2>2, <3>4 DEF Proceeds, Queues, Goes, Writing, WorkWrites
    <3>5. CASE Rests(t) \/ Wakes(t) \/ Claiming(t) \/ Cancels(t) \/ Previews(t) \/ Opens(t)
      BY <1>2, <2>2, <3>5 DEF Rests, Wakes, Claiming, Cancels, Previews, Opens, Drops, Goes
    <3>6. CASE Sets(t)
      BY <1>2, <2>2, <3>6, Facts, WritesAre DEF Sets, At, Drops, Goes
    <3>7. ASSUME NEW q \in Runs, Starts(t, q) \/ Rejects(t, q) \/ Inserts(t, q) PROVE FALSE
      BY <1>2, <2>2, <3>7 DEF Starts, Rejects, Inserts, Drops
    <3> QED BY <2>2, <3>1, <3>2, <3>3, <3>4, <3>5, <3>6, <3>7 DEF Does
  <2> QED BY <2>1, <2>2
<1>3. \A s \in Threads : call'[s].run \in Runs
  BY DEF Moves, Calls
<1> QED BY <1>1, <1>2, <1>3, <1>4, <1>5 DEF Consented

\* A thread that publishes goes on to say so, or no longer works for the run.
LEMMA PublishesOn ==
  ASSUME TypeInv, Claimed, NEW t \in Threads, Moves(t), Does(t), NEW r \in Runs, Works(t, r), Publishes(t), Works(t, r)'
  PROVE  Acts(t) /\ call'[t].pc = "write" /\ call'[t].to = "PUBLISHED"
<1>0. ASSUME Leaves(t) PROVE FALSE
  BY <1>0 DEF Leaves, Drops, Goes, Writing, Works, Steps
<1>1. ASSUME GivesUp(t) \/ Rests(t) \/ Opens(t) \/ Asks(t) \/ Wakes(t) \/ Claiming(t) \/ Queues(t) \/ Cancels(t) \/ Previews(t)
      PROVE  FALSE
  BY <1>0, <1>1 DEF GivesUp, Rests, Opens, Asks, Wakes, Claiming, Queues, Cancels, Previews, Drops, Goes, Writing, At,
     Publishes, Works, Steps
<1>2. ASSUME Proceeds(t) \/ Plans(t) \/ Grants(t) \/ Allows(t) PROVE FALSE
  BY <1>2 DEF Proceeds, Plans, Grants, Allows, At, Publishes, AgreedSteps
<1>3. ASSUME Sets(t) PROVE FALSE
  <2>1. <<call[t].to, call[t].then>> \in Writes /\ call[t].to = "PUBLISHED"
    BY <1>3, Facts DEF Sets, At, Publishes
  <2>2. call[t].then = "settle"
    BY <2>1 DEF Writes
  <2> QED BY <1>3, <2>2 DEF Sets, Drops, Goes, Works, Steps
<1>4. ASSUME NEW q \in Runs, Starts(t, q) \/ Releases(t, q) PROVE FALSE
  <2>1. q = r
    BY <1>4 DEF Starts, Releases, Works
  <2> QED BY <1>4, <2>1, ClaimsFree
<1>5. ASSUME NEW q \in Runs, Rejects(t, q) \/ Inserts(t, q) PROVE FALSE
  BY <1>5 DEF Rejects, Inserts, Drops, Works, Steps
<1>6. ASSUME Acts(t) PROVE Writing(t, "PUBLISHED", "settle")
  BY <1>0, <1>6 DEF Acts
<1> QED BY <1>1, <1>2, <1>3, <1>4, <1>5, <1>6 DEF Does, Writing, Goes

\* A preview is approved while nobody plans or executes.
LEMMA PreviewStep ==
  ASSUME TypeInv, SafeInv, NEW t \in Threads, Moves(t), Does(t)
  PROVE  Previewing'
<1>0. Previewing /\ Claimed /\ Entering
  BY DEF SafeInv
<1>1. ASSUME NEW u \in Threads, NEW r \in Runs, call'[u].pc = "qa", call'[u].run = r
      PROVE  status'[r] \in Late /\ \A s \in Threads : Works(s, r)' => Publishes(s)'
  <2>1. CASE u # t
    <3>1. call[u].pc = "qa" /\ call[u].run = r
      BY <1>1, <2>1 DEF Moves
    <3>2. status[r] \in Late /\ \A s \in Threads : Works(s, r) => Publishes(s)
      BY <1>0, <3>1 DEF Previewing, Status
    <3>3. status[r] \notin {"NEW"} \cup PrepareFrom
      BY <3>2 DEF Late, Over, PrepareFrom
    <3>4. status'[r] \in Late
      <4>1. ASSUME call[t].run = r, Sets(t) PROVE call[t].to \in {"FAILED", "ESCALATED", "PUBLISHED"}
        <5>1. ~Apart(t)
          BY <2>1, <3>1, <4>1 DEF Apart, Aside
        <5>2. Works(t, r) => call[t].to = "PUBLISHED"
          BY <3>2, <4>1 DEF Publishes, Sets, At
        <5> QED BY <1>0, <4>1, <5>1, <5>2, SetsIs
      <4>2. ASSUME Previews(t) PROVE call[t].to \in {"READY_TO_PUBLISH", "AWAITING_PUBLISH_APPROVAL"}
        BY <4>2 DEF Previews, TypeInv, Chosen
      <4> QED BY <3>2, <3>3, <4>1, <4>2, RunChanges DEF Late, Over
    <3>5. ASSUME NEW s \in Threads, Works(s, r)' PROVE Publishes(s)'
      <4>1. CASE Works(s, r) /\ s # t
        BY <3>2, <4>1 DEF Publishes, Moves
      <4>2. CASE Works(s, r) /\ s = t
        BY <1>0, <3>2, <3>5, <4>2, PublishesOn DEF Publishes
      <4>3. CASE s = t /\ (Starts(t, r) \/ Releases(t, r))
        <5>1. ~Starts(t, r)
          BY <3>3 DEF Starts, PrepareFrom
        <5> QED BY <4>3, <5>1 DEF Releases, Publishes
      <4> QED BY <3>5, <4>1, <4>2, <4>3, WorksOnly
    <3> QED BY <3>4, <3>5
  <2>2. CASE u = t
    <3>1. Asks(t)
      <4>1. CASE GivesUp(t) \/ Plans(t) \/ Grants(t) \/ Acts(t)
        BY <1>1, <2>2, <4>1 DEF GivesUp, Plans, Grants, Acts, Leaves, Drops, Goes, Writing
      <4>2. CASE Proceeds(t) \/ Allows(t) \/ Queues(t) \/ Claiming(t) \/ Rests(t) \/ Wakes(t) \/ Cancels(t)
                 \/ Previews(t) \/ Opens(t)
        BY <1>1, <2>2, <4>2 DEF Proceeds, Allows, Queues, Claiming, Rests, Wakes, Cancels, Previews, Opens, Goes,
           Writing, Drops
      <4>3. CASE Sets(t)
        BY <1>1, <2>2, <4>3, Facts, WritesAre DEF Sets, At, Drops, Goes
      <4>4. ASSUME NEW q \in Runs, Starts(t, q) \/ Releases(t, q) \/ Rejects(t, q) \/ Inserts(t, q) PROVE FALSE
        BY <1>1, <2>2, <4>4 DEF Starts, Releases, Rejects, Inserts, Drops
      <4> QED BY <4>1, <4>2, <4>3, <4>4 DEF Does
    <3>2. status'[r] = "AWAITING_QA_APPROVAL" /\ status[r] = "AWAITING_QA_APPROVAL"
      BY <1>1, <2>2, <3>1 DEF Asks, Fixed
    <3>3. ASSUME NEW s \in Threads, Works(s, r)' PROVE FALSE
      <4>1. ~Works(s, r)
        BY <1>0, <3>2 DEF Claimed, Waits
      <4>2. ~Starts(t, r) /\ ~Releases(t, r)
        BY <1>1, <2>2 DEF Starts, Releases
      <4> QED BY <3>3, <4>1, <4>2, WorksOnly
    <3> QED BY <3>2, <3>3 DEF Late
  <2> QED BY <2>1, <2>2
<1>2. \A u \in Threads : call'[u].run \in Runs
  BY DEF Moves, Calls
<1> QED BY <1>1, <1>2 DEF Previewing, Status

\* What the publisher has acted on stays over.
LEMMA OverStays ==
  ASSUME TypeInv, Entering, NEW t \in Threads, Moves(t), Does(t), NEW r \in Runs, status[r] \in Over,
         Works(t, r) /\ call[t].pc = "write" => call[t].to = "PUBLISHED"
  PROVE  status'[r] \in Over
<1>1. status[r] \notin PrepareFrom \cup {"NEW", "CANCELLED", "READY_TO_PUBLISH", "AWAITING_PUBLISH_APPROVAL",
                                         "AWAITING_QA_APPROVAL"}
  BY DEF Over, PrepareFrom
<1>2. status[r] \notin Cancellable
  BY CancellableFacts DEF Over
<1>3. ASSUME call[t].run = r, Sets(t) PROVE call[t].to \in Over
  <2>1. ~(Status(t) \in {"RECEIVED", "CANCELLED"})
    BY <1>1, <1>3 DEF Status, PrepareFrom
  <2> QED BY <1>3, <2>1, SetsIs DEF Over, Sets, At
<1> QED BY <1>1, <1>2, <1>3, RunChanges

\* The publisher acts once.
LEMMA OnceStep ==
  ASSUME TypeInv, SafeInv, NEW t \in Threads, Moves(t), Does(t)
  PROVE  OnceOut'
<1>0. OnceOut /\ Claimed /\ Entering /\ OneThreadPerRun
  BY DEF SafeInv
<1>1. ASSUME NEW s \in Threads, NEW r \in Runs, call'[s].pc = "publish", call'[s].run = r
      PROVE  status'[r] \in Over
  <2>1. CASE s # t
    <3>1. call[s].pc = "publish" /\ call[s].run = r
      BY <1>1, <2>1 DEF Moves
    <3>2. status[r] \in Over /\ Works(s, r)
      BY <1>0, <3>1 DEF OnceOut, Status, Works, Steps
    <3>3. ~Works(t, r)
      BY <1>0, <2>1, <3>2 DEF OneThreadPerRun
    <3> QED BY <1>0, <3>2, <3>3, OverStays
  <2>2. CASE s = t
    <3>1. Works(t, r)'
      BY <1>1, <2>2 DEF Works, Steps
    <3>2. \E q \in Runs : Releases(t, q)
      <4>1. CASE GivesUp(t) \/ Plans(t) \/ Grants(t) \/ Acts(t)
        BY <1>1, <2>2, <4>1 DEF GivesUp, Plans, Grants, Acts, Leaves, Drops, Goes, Writing
      <4>2. CASE Proceeds(t) \/ Allows(t) \/ Queues(t) \/ Claiming(t) \/ Rests(t) \/ Wakes(t) \/ Cancels(t)
                 \/ Previews(t) \/ Opens(t) \/ Asks(t)
        BY <1>1, <2>2, <4>2 DEF Proceeds, Allows, Queues, Claiming, Rests, Wakes, Cancels, Previews, Opens, Goes,
           Writing, Drops, Asks
      <4>3. CASE Sets(t)
        BY <1>1, <2>2, <4>3, Facts, WritesAre DEF Sets, At, Drops, Goes
      <4>4. ASSUME NEW q \in Runs, Starts(t, q) \/ Rejects(t, q) \/ Inserts(t, q) PROVE FALSE
        BY <1>1, <2>2, <4>4 DEF Starts, Rejects, Inserts, Drops
      <4> QED BY <4>1, <4>2, <4>3, <4>4 DEF Does
    <3>3. Releases(t, r)
      BY <1>1, <2>2, <3>2 DEF Releases
    <3> QED BY <3>3, Sets1 DEF Releases, SetsStatus, Over
  <2> QED BY <2>1, <2>2
<1>2. ASSUME NEW r \in Runs
      PROVE  \/ published'[r] = published[r]
             \/ Acts(t) /\ call[t].run = r /\ published'[r] = published[r] + 1
  BY ActsOnly
<1>3. ASSUME NEW r \in Runs, published[r] = 1
      PROVE  /\ published'[r] = 1 /\ status'[r] \in Over
             /\ \A s \in Threads : Works(s, r)' => call'[s].pc = "write" /\ call'[s].to = "PUBLISHED"
  <2>1. status[r] \in Over /\ \A s \in Threads : Works(s, r) => call[s].pc = "write" /\ call[s].to = "PUBLISHED"
    BY <1>0, <1>3 DEF OnceOut
  <2>2. status'[r] \in Over
    BY <1>0, <2>1, OverStays
  <2>3. ~(Acts(t) /\ call[t].run = r)
    <3>1. ASSUME Acts(t), call[t].run = r PROVE FALSE
      <4>1. Works(t, r) /\ call[t].pc = "publish"
        BY <3>1 DEF Acts, At, Works, Steps
      <4> QED BY <2>1, <4>1
    <3> QED BY <3>1
  <2>4. ASSUME NEW s \in Threads, Works(s, r)' PROVE call'[s].pc = "write" /\ call'[s].to = "PUBLISHED"
    <3>1. ~Starts(t, r) /\ ~Releases(t, r)
      BY <2>1 DEF Starts, Releases, Over, PrepareFrom
    <3>2. Works(s, r)
      BY <2>4, <3>1, WorksOnly
    <3>3. CASE s = t
      BY <1>0, <2>1, <2>4, <3>2, <3>3, PublishesOn DEF Publishes
    <3>4. CASE s # t
      BY <2>1, <3>2, <3>4 DEF Moves
    <3> QED BY <3>3, <3>4
  <2> QED BY <1>2, <1>3, <2>2, <2>3, <2>4
<1>4. ASSUME NEW r \in Runs, published[r] = 0, Acts(t), call[t].run = r
      PROVE  /\ status'[r] \in Over
             /\ \A s \in Threads : Works(s, r)' => call'[s].pc = "write" /\ call'[s].to = "PUBLISHED"
  <2>1. status'[r] \in Over
    BY <1>0, <1>4 DEF Acts, At, OnceOut, Status
  <2>2. Works(t, r) /\ Publishes(t) /\ call'[t].pc # "publish"
    BY <1>4 DEF Acts, At, Works, Steps, Publishes, Leaves, Drops, Goes, Writing
  <2>3. ASSUME NEW s \in Threads, Works(s, r)' PROVE call'[s].pc = "write" /\ call'[s].to = "PUBLISHED"
    <3>1. Works(s, r) \/ s = t
      BY <2>3, WorksOnly
    <3>2. s = t
      BY <1>0, <2>2, <3>1 DEF OneThreadPerRun
    <3> QED BY <1>0, <2>2, <2>3, <3>2, PublishesOn
  <2> QED BY <2>1, <2>3
<1>5. ASSUME NEW r \in Runs
      PROVE  /\ published'[r] \in {0, 1}
             /\ published'[r] = 1 => /\ status'[r] \in Over
                                     /\ \A s \in Threads : Works(s, r)' => call'[s].pc = "write" /\ call'[s].to = "PUBLISHED"
  <2>1. published[r] \in {0, 1}
    BY <1>0 DEF OnceOut
  <2>2. CASE published[r] = 1
    BY <1>3, <2>2
  <2>3. CASE published[r] = 0 /\ Acts(t) /\ call[t].run = r
    BY <1>2, <1>4, <2>3
  <2>4. CASE published[r] = 0 /\ published'[r] = published[r]
    BY <2>4
  <2> QED BY <1>2, <2>1, <2>2, <2>3, <2>4
<1>6. \A u \in Threads : call'[u].run \in Runs
  BY DEF Moves, Calls
<1> QED BY <1>1, <1>5, <1>6 DEF OnceOut, Status

-----------------------------------------------------------------------------
(* The invariant is kept *)

\* Threads that become idle, and a save that lets through whom it overtakes, let
\* nothing else through.
LEMMA IdleConsents ==
  ASSUME Consented, Fixed, \A t \in Threads : call'[t] = call[t] \/ call'[t].pc = "idle",
         exposed \subseteq exposed', \A r \in Runs : Released(r) /\ LetThrough(r) => LetThrough(r)', TypeOK
  PROVE  Consented'
<1>1. \A r \in Runs : published'[r] > 0 => RiskAgreed(r)'
  BY DEF Consented, RiskAgreed, Fixed, SameRows
<1>2. PushedWithApproval'
  BY DEF Consented, PushedWithApproval, Fixed, SameRows
<1>3. \A r \in Runs : status'[r] = "READY_TO_PUBLISH" => LetThrough(r)'
  BY DEF Consented, Released, Fixed
<1>4. ASSUME NEW t \in Threads, NEW r \in Runs, call'[t].run = r,
             call'[t].pc = "publish" \/ (call'[t].pc \in {"write", "qa"} /\ call'[t].to = "READY_TO_PUBLISH")
      PROVE  LetThrough(r)'
  <2>1. call'[t] = call[t]
    BY <1>4
  <2>2. Released(r) /\ LetThrough(r)
    BY <1>4, <2>1 DEF Consented, Released, At
  <2> QED BY <2>2
<1>5. ASSUME NEW t \in Threads, call'[t].pc \in {"publish", "write", "qa"} PROVE call'[t].run \in Runs
  BY <1>5, CallTyped
<1> QED BY <1>1, <1>2, <1>3, <1>4, <1>5 DEF Consented

\* Threads that become idle while no row changes disturb nothing.
LEMMA IdleKeeps ==
  ASSUME SafeInv, Fixed, \A t \in Threads : call'[t] = call[t] \/ call'[t].pc = "idle", Consented'
  PROVE  SafeInv'
<1>1. \A t \in Threads : call'[t].pc # "idle" => call'[t] = call[t]
  OBVIOUS
<1>2. ASSUME NEW t \in Threads, NEW r \in Runs, Works(t, r)' PROVE Works(t, r) /\ call'[t] = call[t]
  BY <1>1, <1>2 DEF Works, Steps
<1>3. OneThreadPerRun' /\ Claimed'
  BY <1>2 DEF SafeInv, OneThreadPerRun, Claimed, Fixed
<1>4. \A t \in Threads : Apart(t) /\ call'[t] = call[t] => Apart(t)'
  BY DEF Apart, Aside
<1>5. Entering'
  <2>1. ASSUME NEW t \in Threads, call'[t] = call[t]
        PROVE  /\ Status(t)' = "RECEIVED" => call'[t].pc \in Aside \/ (Enters(t) /\ Apart(t))'
               /\ call'[t].pc = "write" /\ call'[t].to = "QUEUED" => Status(t)' \in {"RECEIVED", "CANCELLED"} /\ Apart(t)'
    <3>1. Status(t)' = Status(t) /\ Enters(t)' = Enters(t)
      BY <2>1 DEF Status, Enters, Fixed
    <3> QED BY <1>4, <2>1, <3>1 DEF SafeInv, Entering
  <2>2. ASSUME NEW t \in Threads, call'[t].pc = "idle"
        PROVE  call'[t].pc \in Aside /\ call'[t].pc # "write"
    BY <2>2 DEF Aside
  <2> QED BY <2>1, <2>2 DEF Entering
<1>6. PlanKept'
  BY <1>1 DEF SafeInv, PlanKept, Fixed, SameRows, AgreedSteps
<1>8. Previewing'
  <2>1. ASSUME NEW u \in Threads, call'[u].pc = "qa"
        PROVE  Status(u)' \in Late /\ \A s \in Threads : Works(s, call[u].run)' => Publishes(s)'
    <3>1. call'[u] = call[u]
      BY <1>1, <2>1
    <3>2. Status(u)' \in Late
      BY <2>1, <3>1 DEF SafeInv, Previewing, Status, Fixed
    <3>3. ASSUME NEW s \in Threads, Works(s, call[u].run)' PROVE Publishes(s)'
      <4>1. Works(s, call[u].run) /\ call'[s] = call[s]
        BY <1>1, <3>1, <3>3 DEF Works, Steps
      <4>2. Publishes(s)
        BY <2>1, <3>1, <4>1 DEF SafeInv, Previewing
      <4> QED BY <4>1, <4>2 DEF Publishes
    <3> QED BY <3>2, <3>3
  <2> QED BY <2>1 DEF Previewing
<1>9. OnceOut'
  BY <1>1, <1>2 DEF SafeInv, OnceOut, Status, Fixed, SameRows
<1> QED BY <1>3, <1>5, <1>6, <1>8, <1>9 DEF SafeInv

\* Every step keeps the invariant while there is no worker process.
LEMMA INext == Poller = {} /\ IInv /\ [Next]_vars => IInv'
<1> SUFFICES ASSUME Poller = {}, IInv, [Next]_vars PROVE SafeInv'
  BY TypeNext DEF IInv
<1>0. TypeInv /\ SafeInv /\ TypeInv'
  BY TypeNext DEF IInv
<1>1. ASSUME NEW t \in Threads, Step(t) \/ Request(t) \/ Poll(t) PROVE SafeInv'
  <2>1. Moves(t) /\ Does(t)
    BY <1>0, <1>1, StepDoes DEF Polls
  <2>2. OneThreadPerRun' /\ Claimed' /\ Entering' /\ PlanKept'
    BY <1>0, <2>1, OneThreadStep, ClaimedStep, EnteringStep, PlanStep DEF SafeInv
  <2>3. Consented' /\ Previewing' /\ OnceOut'
    BY <1>0, <2>1, ConsentStep, PreviewStep, OnceStep
  <2> QED BY <2>2, <2>3 DEF SafeInv
<1>S. TypeOK /\ Consented
  BY <1>0 DEF TypeInv, SafeInv
<1>2. CASE SaveProject
  <2>1. PICK c \in Configs : config' = c /\ exposed' = exposed \cup Overtaken(c)
    BY <1>2 DEF SaveProject
  <2>2. Fixed /\ call' = call
    BY <1>2 DEF SaveProject, Fixed, SameRows, rowVars
  <2>3. ASSUME NEW r \in Runs, Released(r), LetThrough(r) PROVE LetThrough(r)'
    <3>1. RiskAgreed(r)'
      BY <2>2, <2>3 DEF LetThrough, RiskAgreed, Fixed, SameRows
    <3>2. ASSUME c.mode \in ApprovalOnly, config.mode \notin ApprovalOnly PROVE r \in exposed'
      BY <2>1, <2>3, <3>2 DEF Overtaken
    <3>3. ASSUME config.mode \in ApprovalOnly, r \notin exposed PROVE "publish" \in approved'[r]
      BY <2>2, <2>3, <3>3 DEF LetThrough, Fixed, SameRows
    <3> QED BY <2>1, <3>1, <3>2, <3>3 DEF LetThrough
  <2>4. Consented'
    BY <1>S, <2>1, <2>2, <2>3, IdleConsents
  <2> QED BY <1>0, <2>2, <2>4, IdleKeeps
<1>K. ASSUME Fixed, config' = config, exposed' = exposed PROVE \A r \in Runs : LetThrough(r) => LetThrough(r)'
  BY <1>K DEF LetThrough, RiskAgreed, Fixed, SameRows
<1>3. CASE Crash(Server) \/ Crash(Poller)
  <2>1. /\ Fixed /\ config' = config /\ exposed' = exposed
        /\ \A t \in Threads : call'[t] = call[t] \/ call'[t].pc = "idle"
    BY <1>S, <1>3, CrashDoes
  <2>2. Consented'
    BY <1>S, <1>K, <2>1, IdleConsents
  <2> QED BY <1>0, <2>1, <2>2, IdleKeeps
<1>4. CASE UNCHANGED vars
  <2>1. Fixed /\ call' = call /\ config' = config /\ exposed' = exposed
    BY <1>4 DEF vars, rowVars, projectVars, Fixed, SameRows
  <2>2. Consented'
    BY <1>S, <1>K, <2>1, IdleConsents
  <2> QED BY <1>0, <2>1, <2>2, IdleKeeps
<1> QED BY <1>1, <1>2, <1>3, <1>4 DEF Next

-----------------------------------------------------------------------------
(* Theorems *)

\* Rows and calls are of their types, the fix counters within their limits, and
\* create_run finds room for what it inserts, with and without a worker process.
THEOREM TypeCorrect == Spec => []TypeOK
<1>1. Init => TypeInv
  BY TypeInit
<1>2. TypeInv /\ [Next]_vars => TypeInv'
  BY TypeNext
<1>3. TypeInv => TypeOK
  BY DEF TypeInv
<1> QED BY <1>1, <1>2, <1>3, PTL DEF Spec

\* The inductive invariant of the API process alone.
THEOREM IInvariant == Poller = {} => (Spec => []IInv)
<1> SUFFICES ASSUME Poller = {} PROVE Spec => []IInv
  OBVIOUS
<1>1. Init => IInv
  BY TypeInit, SafeInit DEF IInv
<1>2. IInv /\ [Next]_vars => IInv'
  BY INext
<1> QED BY <1>1, <1>2, PTL DEF Spec

\* However many requests and background tasks there are, the claims of
\* try_transition_run and the writes of transition_run never put two of them to
\* work for one run.
THEOREM OneThreadHolds == Poller = {} => (Spec => []OneThreadPerRun)
<1> SUFFICES ASSUME Poller = {} PROVE Spec => []OneThreadPerRun
  OBVIOUS
<1>1. IInv => OneThreadPerRun
  BY DEF IInv, SafeInv
<1> QED BY <1>1, IInvariant, PTL

\* The Publisher acts at most once for a run, after its plan was approved and, if
\* the change is high-risk, its publication, however often and in whatever way
\* the project is saved (approve_plan_and_execute, approve_publish, publish_run).
THEOREM ConsentHolds == Poller = {} => (Spec => []PublishedOnceWithConsent)
<1> SUFFICES ASSUME Poller = {} PROVE Spec => []PublishedOnceWithConsent
  OBVIOUS
<1>1. IInv => PublishedOnceWithConsent
  <2> SUFFICES ASSUME IInv, NEW r \in Runs
               PROVE  /\ published[r] <= 1
                      /\ published[r] > 0 => "plan" \in approved[r]
                      /\ (published[r] > 0 /\ risky[r]) => "publish" \in approved[r]
    BY DEF PublishedOnceWithConsent
  <2>1. published[r] \in {0, 1} /\ (published[r] = 1 => status[r] \in Over)
    BY DEF IInv, SafeInv, OnceOut
  <2>2. published[r] > 0 => RiskAgreed(r)
    BY DEF IInv, SafeInv, Consented
  <2>3. published[r] > 0 => "plan" \in approved[r]
    BY DEF IInv, SafeInv, PlanKept
  <2> QED BY <2>1, <2>2, <2>3 DEF RiskAgreed
<1> QED BY <1>1, IInvariant, PTL

\* A run that is pushed or deployed has a publish approval, unless a save that
\* turned the mode into push_branch or deploy_command found it on its way to the
\* Publisher already (_requires_publish_approval and _publish_claimed_run, with
\* upsert_project in between).
THEOREM PushesHold == Poller = {} => (Spec => []PushedWithApproval)
<1> SUFFICES ASSUME Poller = {} PROVE Spec => []PushedWithApproval
  OBVIOUS
<1>1. IInv => PushedWithApproval
  BY DEF IInv, SafeInv, Consented
<1> QED BY <1>1, IInvariant, PTL
=============================================================================
