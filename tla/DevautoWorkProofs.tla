--------------------------- MODULE DevautoWorkProofs ---------------------------
(***************************************************************************)
(* The safety properties of DevautoWork, for any paths, policies, plans,   *)
(* reviewers and limits.                                                   *)
(*                                                                         *)
(* What was checked stays so because the executor writes nothing after a   *)
(* check without going back before it: Checked says which checks the       *)
(* workspace has passed at each step.  What was agreed to stays so because the grant *)
(* is of the plan that was approved (Granted), and its class decides       *)
(* whether a person is asked again (Consented).                            *)
(***************************************************************************)
EXTENDS DevautoWork, TLAPS

\* The steps under a grant, and of those the steps after the gates.
Gated == {"review", "finalize", "AWAITING_PUBLISH_APPROVAL", "publish", "published"}
UnderGrant == {"execute", "fix", "check", "gates"} \cup Gated
Planning == {"doctor", "provision", "plan", "review plan", "decide", "AWAITING_PLAN_APPROVAL", "approved"}
Pcs == Planning \cup UnderGrant \cup Ends

\* The calls that the counters account for: one for each fix, and the first.
Spent == tries.review * (1 + MaxInner) + tries.gate
Counted ==
  /\ pc \in Planning => tries.calls = 0
  /\ pc \in {"execute", "fix"} => tries.calls <= Spent
  /\ tries.calls <= 1 + Spent

\* Nothing is put out before Publish.
NotYet == pc \notin Ends \cup {"published"} => out = {}

\* Of what the executor wrote, all has passed the gates at the review, and the
\* gates and the review after it.
Checked ==
  /\ pc \in Gated => ws.ungated = {}
  /\ pc \in Gated \ {"review"} => ws.unreviewed = {}

\* The grant is of the plan, and what differs is within it.
Granted ==
  /\ pc \in UnderGrant => "plan" \in consent /\ grant.made /\ grant.entries = plan.entries
  /\ pc = "gates" \/ pc \in Gated => InScope(ws)
  /\ pc = "gates" => ws.changed \cap Forbidden = {}
  /\ pc \in Gated => ws.changed \cap Forbidden \subseteq GateWrites

\* A plan with a high-risk path is of the class that a person has to publish.
Consented ==
  /\ (\E e \in plan.entries : e.high) => class = "high-risk"
  /\ pc \in {"publish", "published"} /\ class = "high-risk" => "publish" \in consent

Types == TypeOK /\ pc \in Pcs
IInv ==
  /\ Types /\ Counted /\ NotYet /\ Checked /\ Granted /\ Consented
  /\ PublishedWasChecked /\ PublishedAsAgreed

-----------------------------------------------------------------------------
(* Lemmas *)

\* The limits are numbers.
LEMMA Limits == MaxInner \in Nat /\ MaxOuter \in Nat /\ MaxMoves \in Nat /\ MaxRejections \in Nat
  BY CountAssumption

\* The limits of the policy bound the calls that are accounted for.
LEMMA SpentBound ==
  ASSUME NEW r \in 0..MaxOuter, NEW g \in 0..MaxInner
  PROVE  /\ r * (1 + MaxInner) \in Nat
         /\ 1 + r * (1 + MaxInner) + g <= Budget
         /\ (r + 1) * (1 + MaxInner) = r * (1 + MaxInner) + 1 + MaxInner
<1>1. MaxInner \in Nat /\ MaxOuter \in Nat
  BY Limits
<1>2. r * (1 + MaxInner) = r + r * MaxInner /\ (r + 1) * (1 + MaxInner) = r + r * MaxInner + 1 + MaxInner
  BY <1>1, SMT
<1>3. r * MaxInner \in Nat /\ r * MaxInner <= MaxOuter * MaxInner
  BY <1>1, SMT
<1>4. Budget = 1 + MaxOuter + MaxInner + MaxOuter * MaxInner
  BY <1>1, SMT DEF Budget
<1> QED BY <1>1, <1>2, <1>3, <1>4, SMT

\* The workspace after an agent, after gates and after a review.
Workspaces == [changed : SUBSET Paths, ungated : SUBSET Paths, unreviewed : SUBSET Paths, late : SUBSET Paths]
LEMMA AfterType ==
  ASSUME ws \in Workspaces, NEW W \in SUBSET Paths, NEW X \in SUBSET Paths
  PROVE  After(W, X) \in Workspaces
  BY DEF After, Workspaces

LEMMA AfterGatesType ==
  ASSUME ws \in Workspaces, NEW B \in SUBSET GateWrites, NEW X \in SUBSET B, NEW ok \in BOOLEAN
  PROVE  AfterGates(B, X, ok) \in Workspaces
<1>1. CASE ok
  BY <1>1, PathAssumption DEF AfterGates, Workspaces
<1>2. CASE ~ok
  BY <1>2, PathAssumption DEF AfterGates, Workspaces
<1> QED BY <1>1, <1>2

LEMMA AfterReviewType ==
  ASSUME ws \in Workspaces, NEW W \in SUBSET Paths, NEW said
  PROVE  AfterReview(W, said) \in Workspaces
<1>1. CASE \A r \in Asked : said[r] = "pass"
  BY <1>1 DEF AfterReview, Workspaces
<1>2. CASE ~\A r \in Asked : said[r] = "pass"
  BY <1>2 DEF AfterReview, Workspaces
<1> QED BY <1>1, <1>2

\* Every step keeps the types.
LEMMA TypeStep == Types /\ Counted /\ [Next]_vars => Types'
<1> SUFFICES ASSUME Types, Counted, [Next]_vars PROVE Types'
  OBVIOUS
<1>1. CASE Doctor
  BY <1>1 DEF Doctor, Types, TypeOK, Pcs, Planning, UnderGrant, Gated, Ends, planVars, Goto, Escalates
<1>2. CASE Provision
  BY <1>2 DEF Provision, Types, TypeOK, Pcs, Planning, UnderGrant, Gated, Ends, planVars, Goto, Escalates
<1>3. CASE Plan
  <2>0. ws \in Workspaces
    BY DEF Types, TypeOK, Workspaces
  <2>1. ws' \in Workspaces
    <3>1. ASSUME NEW W \in SUBSET Paths, ws' = After(W, W) PROVE ws' \in Workspaces
      BY <3>1, <2>0, AfterType
    <3> QED BY <1>3, <2>0, <3>1 DEF Plan
  <2>2. plan' \in [entries : SUBSET Entries, fallback : BOOLEAN]
    <3>1. ASSUME NEW fallback \in BOOLEAN, NEW E \in Plans, plan' = [entries |-> E, fallback |-> fallback]
          PROVE  plan' \in [entries : SUBSET Entries, fallback : BOOLEAN]
      BY <3>1 DEF Plans
    <3> QED BY <1>3, <3>1 DEF Plan, Types, TypeOK
  <2> QED BY <1>3, <2>1, <2>2 DEF Workspaces, Plan, ClassOf, Types, TypeOK, Pcs, Planning, UnderGrant, Gated, Ends, planVars, Goto, Escalates
<1>4. CASE ReviewPlan
  <2>0. ws \in Workspaces
    BY DEF Types, TypeOK, Workspaces
  <2>1. ws' \in Workspaces
    <3>1. ASSUME NEW W \in SUBSET Paths, ws' = After(W, W) PROVE ws' \in Workspaces
      BY <3>1, <2>0, AfterType
    <3> QED BY <1>4, <2>0, <3>1 DEF ReviewPlan
  <2> QED BY <1>4, <2>1 DEF Workspaces, ReviewPlan, Types, TypeOK, Pcs, Planning, UnderGrant, Gated, Ends, planVars, Goto, Escalates
<1>5. CASE DecidePlan
  BY <1>5 DEF DecidePlan, Types, TypeOK, Pcs, Planning, UnderGrant, Gated, Ends, planVars, Goto
<1>6. CASE ApprovePlan
  BY <1>6 DEF ApprovePlan, Types, TypeOK, Pcs, Planning, UnderGrant, Gated, Ends, planVars, Goto
<1>7. CASE RejectPlan
  BY <1>7, Limits DEF RejectPlan, Types, TypeOK, Pcs, Planning, UnderGrant, Gated, Ends, planVars, Goto, Escalates
<1>8. CASE Grant
  BY <1>8 DEF Grant, Types, TypeOK, Pcs, Planning, UnderGrant, Gated, Ends, planVars, Goto, Escalates
<1>9. CASE Execute
  <2>0. ws \in Workspaces
    BY DEF Types, TypeOK, Workspaces
  <2>1. ws' \in Workspaces
    <3>1. ASSUME NEW W \in SUBSET Paths, NEW X \in SUBSET W, ws' = After(W, X) PROVE ws' \in Workspaces
      BY <3>1, <2>0, AfterType
    <3> QED BY <1>9, <2>0, <3>1 DEF Execute
  <2>2. tries.calls + 1 \in 0..Budget
    <3>1. tries.review \in 0..MaxOuter /\ tries.gate \in 0..MaxInner /\ tries.calls \in 0..Budget
      BY DEF Types, TypeOK
    <3>2. tries.calls <= Spent
      BY <1>9 DEF Execute, Counted
    <3>3. Spent \in Nat /\ 1 + Spent <= Budget /\ Budget \in Nat
      BY <3>1, SpentBound, Limits DEF Spent, Budget
    <3> QED BY <3>1, <3>2, <3>3
  <2>3. tries' \in [gate : 0..MaxInner, review : 0..MaxOuter, calls : 0..Budget]
    BY <1>9, <2>2 DEF Execute, Types, TypeOK
  <2> QED BY <1>9, <2>1, <2>3 DEF Workspaces, Execute, Types, TypeOK, Pcs, Planning, UnderGrant, Gated, Ends, planVars, Goto, Escalates
<1>10. CASE Check
  BY <1>10 DEF Check, Types, TypeOK, Pcs, Planning, UnderGrant, Gated, Ends, planVars, Goto
<1>11. CASE Gates
  <2>0. ws \in Workspaces
    BY DEF Types, TypeOK, Workspaces
  <2>1. ws' \in Workspaces
    <3>1. ASSUME NEW B \in SUBSET GateWrites, NEW ok \in BOOLEAN, NEW X \in SUBSET B,
                 ws' = AfterGates(B, X, ok)
          PROVE  ws' \in Workspaces
      BY <3>1, <2>0, AfterGatesType
    <3>2. ws' = ws \/ \E B \in SUBSET GateWrites, ok \in BOOLEAN : \E X \in SUBSET B :
            ws' = AfterGates(B, X, ok)
      BY <1>11, Zenon DEF Gates
    <3> QED BY <2>0, <3>1, <3>2
  <2>2. tries' \in [gate : 0..MaxInner, review : 0..MaxOuter, calls : 0..Budget]
    <3>1. tries' = tries \/ (tries.gate < MaxInner /\ tries' = GateFix)
      BY <1>11 DEF Gates
    <3> QED BY <3>1, Limits DEF GateFix, Types, TypeOK
  <2>3. UNCHANGED <<grant, consent, source, out, planVars>> /\ pc' \in {"review", "fix", "ESCALATED"}
    BY <1>11 DEF Gates, Goto, Escalates
  <2> QED BY <2>1, <2>2, <2>3 DEF Workspaces, Types, TypeOK, Pcs, Planning, UnderGrant, Gated, Ends, planVars, Goto, Escalates
<1>12. CASE Review
  <2>0. ws \in Workspaces
    BY DEF Types, TypeOK, Workspaces
  <2>1. ws' \in Workspaces
    <3>1. ASSUME NEW W \in SUBSET Paths, NEW said, ws' = AfterReview(W, said) PROVE ws' \in Workspaces
      BY <3>1, <2>0, AfterReviewType
    <3> QED BY <1>12, <3>1, Zenon DEF Review
  <2>2. tries' \in [gate : 0..MaxInner, review : 0..MaxOuter, calls : 0..Budget]
    <3>1. tries' = tries \/ (tries.review < MaxOuter /\ tries' = ReviewFix)
      BY <1>12 DEF Review
    <3>2. tries.review \in 0..MaxOuter /\ tries.calls \in 0..Budget
      BY DEF Types, TypeOK
    <3> QED BY <3>1, <3>2, Limits DEF ReviewFix, Types, TypeOK
  <2> QED BY <1>12, <2>1, <2>2 DEF Workspaces, Review, Types, TypeOK, Pcs, Planning, UnderGrant, Gated, Ends, planVars, Goto, Escalates
<1>13. CASE Finalize
  BY <1>13 DEF Finalize, Types, TypeOK, Pcs, Planning, UnderGrant, Gated, Ends, planVars, Goto, Escalates
<1>14. CASE ApprovePublish
  BY <1>14 DEF ApprovePublish, Types, TypeOK, Pcs, Planning, UnderGrant, Gated, Ends, planVars, Goto
<1>15. CASE RejectPublish
  BY <1>15 DEF RejectPublish, Types, TypeOK, Pcs, Planning, UnderGrant, Gated, Ends, planVars, Goto, Escalates
<1>16. CASE Publish
  BY <1>16 DEF Publish, DiffPaths, Types, TypeOK, Pcs, Planning, UnderGrant, Gated, Ends, planVars, Goto, Escalates
<1>17. CASE AfterPublish
  BY <1>17 DEF AfterPublish, Types, TypeOK, Pcs, Planning, UnderGrant, Gated, Ends, planVars, Goto
<1>18. CASE SourceMoves
  <2>1. source' \in 0..MaxMoves
    BY <1>18, Limits DEF SourceMoves, Types, TypeOK
  <2> QED BY <1>18, <2>1 DEF SourceMoves, planVars, Types, TypeOK
<1>19. CASE UNCHANGED vars
  BY <1>19 DEF vars, Types, TypeOK, Pcs, Planning, UnderGrant, Gated, Ends, planVars
<1> QED BY <1>1, <1>2, <1>3, <1>4, <1>5, <1>6, <1>7, <1>8, <1>9, <1>10, <1>11, <1>12, <1>13, <1>14, <1>15, <1>16, <1>17, <1>18, <1>19 DEF Next

\* The calls stay within what the counters account for: a fix after a gate takes
\* one of this round's, a fix after a review opens a round of MaxInner more.
LEMMA CountStep == Types /\ Counted /\ [Next]_vars => Counted'
<1> SUFFICES ASSUME Types, Counted, [Next]_vars PROVE Counted'
  OBVIOUS
<1>1. /\ tries.review \in 0..MaxOuter /\ tries.gate \in 0..MaxInner /\ tries.calls \in 0..Budget
      /\ tries = [gate |-> tries.gate, review |-> tries.review, calls |-> tries.calls]
  BY DEF Types, TypeOK
<1>2. Spent \in Nat /\ (tries.review + 1) * (1 + MaxInner) = tries.review * (1 + MaxInner) + 1 + MaxInner
      /\ tries.review * (1 + MaxInner) \in Nat
  BY <1>1, SpentBound, Limits DEF Spent
<1>3. ASSUME tries' = tries, pc' \in Planning => pc \in Planning,
             pc' \in {"execute", "fix"} => pc \in Planning \cup {"execute", "fix"}
      PROVE  Counted'
  BY <1>1, <1>2, <1>3 DEF Counted, Spent
<1>4. CASE Doctor
  BY <1>4, <1>3 DEF Doctor, Planning, UnderGrant, Gated, Ends, planVars, Goto, Escalates
<1>5. CASE Provision
  BY <1>5, <1>3 DEF Provision, Planning, UnderGrant, Gated, Ends, planVars, Goto, Escalates
<1>6. CASE Plan
  BY <1>6, <1>3 DEF Plan, Planning, UnderGrant, Gated, Ends, planVars, Goto, Escalates
<1>7. CASE ReviewPlan
  BY <1>7, <1>3 DEF ReviewPlan, Planning, UnderGrant, Gated, Ends, planVars, Goto, Escalates
<1>8. CASE DecidePlan
  BY <1>8, <1>3 DEF DecidePlan, Planning, UnderGrant, Gated, Ends, planVars, Goto, Escalates
<1>9. CASE ApprovePlan
  BY <1>9, <1>3 DEF ApprovePlan, Planning, UnderGrant, Gated, Ends, planVars, Goto, Escalates
<1>10. CASE RejectPlan
  BY <1>10, <1>3 DEF RejectPlan, Planning, UnderGrant, Gated, Ends, planVars, Goto, Escalates
<1>11. CASE Grant
  BY <1>11, <1>3 DEF Grant, Planning, UnderGrant, Gated, Ends, planVars, Goto, Escalates
<1>12. CASE Check
  BY <1>12, <1>3 DEF Check, Planning, UnderGrant, Gated, Ends, planVars, Goto, Escalates
<1>13. CASE Finalize
  BY <1>13, <1>3 DEF Finalize, Planning, UnderGrant, Gated, Ends, planVars, Goto, Escalates
<1>14. CASE ApprovePublish
  BY <1>14, <1>3 DEF ApprovePublish, Planning, UnderGrant, Gated, Ends, planVars, Goto, Escalates
<1>15. CASE RejectPublish
  BY <1>15, <1>3 DEF RejectPublish, Planning, UnderGrant, Gated, Ends, planVars, Goto, Escalates
<1>16. CASE Publish
  BY <1>16, <1>3 DEF Publish, Planning, UnderGrant, Gated, Ends, planVars, Goto, Escalates
<1>17. CASE AfterPublish
  BY <1>17, <1>3 DEF AfterPublish, Planning, UnderGrant, Gated, Ends, planVars, Goto, Escalates
<1>18. CASE SourceMoves
  BY <1>18, <1>3 DEF SourceMoves, Planning, UnderGrant, Gated, Ends, planVars, Goto, Escalates
<1>19. CASE Execute
  <2>1. pc \in {"execute", "fix"} /\ tries' = [tries EXCEPT !.calls = @ + 1]
        /\ pc' \notin Planning \cup {"execute", "fix"}
    BY <1>19 DEF Execute, Planning, UnderGrant, Gated, Ends, planVars, Goto, Escalates
  <2>2. tries'.calls = tries.calls + 1 /\ tries'.review = tries.review /\ tries'.gate = tries.gate
    BY <1>1, <2>1
  <2> QED BY <1>1, <1>2, <2>1, <2>2 DEF Counted, Spent
<1>20. ASSUME pc' = "fix", tries.gate < MaxInner, tries' = GateFix
      PROVE  Counted'
  <2>1. tries'.calls = tries.calls /\ tries'.review = tries.review /\ tries'.gate = tries.gate + 1
    BY <1>1, <1>20 DEF GateFix
  <2>2. Spent' = Spent + 1
    BY <1>1, <1>2, <2>1, Limits DEF Spent
  <2>3. tries.calls <= 1 + Spent
    BY DEF Counted
  <2>4. tries'.calls <= Spent'
    BY <1>1, <1>2, <2>1, <2>2, <2>3
  <2>5. Spent' \in Nat /\ tries'.calls \in Nat /\ pc' \notin Planning
    BY <1>1, <1>2, <1>20, <2>1, <2>2 DEF Planning
  <2> QED BY <2>4, <2>5 DEF Counted
<1>21. CASE Gates
  <2>1. \/ tries' = tries /\ pc' \in {"review", "ESCALATED"}
        \/ pc' = "fix" /\ tries.gate < MaxInner /\ tries' = GateFix
    BY <1>21 DEF Gates, Goto, Escalates
  <2> QED BY <2>1, <1>3, <1>20 DEF Planning
<1>22. ASSUME pc' = "fix", tries' = ReviewFix
      PROVE  Counted'
  <2>1. tries'.calls = tries.calls /\ tries'.review = tries.review + 1 /\ tries'.gate = 0
    BY <1>22 DEF ReviewFix
  <2>2. Spent' = Spent - tries.gate + 1 + MaxInner
    BY <1>1, <1>2, <2>1, Limits DEF Spent
  <2>3. tries.calls <= 1 + Spent /\ tries.gate <= MaxInner
    BY <1>1 DEF Counted
  <2>4. tries'.calls <= Spent'
    BY <1>1, <1>2, <2>1, <2>2, <2>3, Limits
  <2>5. Spent' \in Nat /\ tries'.calls \in Nat /\ pc' \notin Planning
    BY <1>1, <1>2, <1>22, <2>1, <2>2, Limits DEF Planning, Spent
  <2> QED BY <2>4, <2>5 DEF Counted
<1>23. CASE Review
  <2>1. \/ tries' = tries /\ pc' \in {"finalize", "ESCALATED"}
        \/ pc' = "fix" /\ tries' = ReviewFix
    BY <1>23 DEF Review, Goto, Escalates
  <2> QED BY <2>1, <1>3, <1>22 DEF Planning
<1>24. CASE UNCHANGED vars
  BY <1>24, <1>3 DEF vars
<1> QED BY <1>4, <1>5, <1>6, <1>7, <1>8, <1>9, <1>10, <1>11, <1>12, <1>13, <1>14, <1>15, <1>16, <1>17, <1>18, <1>19, <1>20, <1>21, <1>22, <1>23, <1>24 DEF Next

\* Only Publish puts anything out.
LEMMA NotYetStep == NotYet /\ [Next]_vars => NotYet'
<1> SUFFICES ASSUME NotYet, [Next]_vars PROVE NotYet'
  OBVIOUS
<1>1. CASE Doctor
  BY <1>1 DEF Doctor, NotYet, Ends, planVars, Goto, Escalates
<1>2. CASE Provision
  BY <1>2 DEF Provision, NotYet, Ends, planVars, Goto, Escalates
<1>3. CASE Plan
  BY <1>3 DEF Plan, NotYet, Ends, Goto, Escalates
<1>4. CASE ReviewPlan
  BY <1>4 DEF ReviewPlan, NotYet, Ends, planVars, Goto, Escalates
<1>5. CASE DecidePlan
  BY <1>5 DEF DecidePlan, NotYet, Ends, planVars, Goto
<1>6. CASE ApprovePlan
  BY <1>6 DEF ApprovePlan, NotYet, Ends, planVars, Goto
<1>7. CASE RejectPlan
  BY <1>7 DEF RejectPlan, NotYet, Ends, Goto
<1>8. CASE Grant
  BY <1>8 DEF Grant, NotYet, Ends, planVars, Goto, Escalates
<1>9. CASE Execute
  BY <1>9 DEF Execute, NotYet, Ends, planVars, Goto, Escalates
<1>10. CASE Check
  BY <1>10 DEF Check, NotYet, Ends, planVars, Goto, Escalates
<1>11. CASE Gates
  BY <1>11 DEF Gates, NotYet, Ends, planVars, Goto, Escalates
<1>12. CASE Review
  BY <1>12 DEF Review, NotYet, Ends, planVars, Goto, Escalates
<1>13. CASE Finalize
  BY <1>13 DEF Finalize, NotYet, Ends, planVars, Goto, Escalates
<1>14. CASE ApprovePublish
  BY <1>14 DEF ApprovePublish, NotYet, Ends, planVars, Goto
<1>15. CASE RejectPublish
  BY <1>15 DEF RejectPublish, NotYet, Ends, planVars, Goto, Escalates
<1>16. CASE Publish
  BY <1>16 DEF Publish, NotYet, Ends, planVars, Goto, Escalates
<1>17. CASE AfterPublish
  BY <1>17 DEF AfterPublish, NotYet, Ends, planVars, Goto
<1>18. CASE SourceMoves
  BY <1>18 DEF SourceMoves, NotYet, Ends, planVars
<1>19. CASE UNCHANGED vars
  BY <1>19 DEF vars, NotYet, Ends, planVars
<1> QED BY <1>1, <1>2, <1>3, <1>4, <1>5, <1>6, <1>7, <1>8, <1>9, <1>10, <1>11, <1>12, <1>13, <1>14, <1>15, <1>16, <1>17, <1>18, <1>19 DEF Next

\* The class goes with the plan, and decides whether a person is asked to publish.
LEMMA ConsentStep == Consented /\ [Next]_vars => Consented'
<1> SUFFICES ASSUME Consented, [Next]_vars PROVE Consented'
  OBVIOUS
<1>1. CASE Doctor
  BY <1>1 DEF Doctor, Consented, planVars, Goto, Escalates
<1>2. CASE Provision
  BY <1>2 DEF Provision, Consented, planVars, Goto, Escalates
<1>3. CASE Plan
  <2>1. CASE UNCHANGED <<plan, class, consent>> /\ Escalates
    BY <2>1 DEF Consented, Escalates, Goto
  <2>2. ASSUME NEW E \in Plans, NEW b \in BOOLEAN, plan' = [entries |-> E, fallback |-> b],
               class' = ClassOf(E), pc' = "review plan"
        PROVE  Consented'
    <3>1. plan'.entries = E
      BY <2>2
    <3>2. (\E e \in E : e.high) => class' = "high-risk"
      BY <2>2, Zenon DEF ClassOf
    <3> QED BY <2>2, <3>1, <3>2 DEF Consented
  <2> QED BY <1>3, <2>1, <2>2 DEF Plan, Goto
<1>4. CASE ReviewPlan
  BY <1>4 DEF ReviewPlan, Consented, planVars, Goto, Escalates
<1>5. CASE DecidePlan
  BY <1>5 DEF DecidePlan, Consented, planVars, Goto
<1>6. CASE ApprovePlan
  BY <1>6 DEF ApprovePlan, Consented, planVars, Goto
<1>7. CASE RejectPlan
  BY <1>7 DEF RejectPlan, Consented, Goto
<1>8. CASE Grant
  BY <1>8 DEF Grant, Consented, planVars, Goto, Escalates
<1>9. CASE Execute
  BY <1>9 DEF Execute, Consented, planVars, Goto, Escalates
<1>10. CASE Check
  BY <1>10 DEF Check, Consented, planVars, Goto, Escalates
<1>11. CASE Gates
  BY <1>11 DEF Gates, Consented, planVars, Goto, Escalates
<1>12. CASE Review
  BY <1>12 DEF Review, Consented, planVars, Goto, Escalates
<1>13. CASE Finalize
  BY <1>13 DEF Finalize, NeedsApproval, Consented, planVars, Goto, Escalates
<1>14. CASE ApprovePublish
  BY <1>14 DEF ApprovePublish, Consented, planVars, Goto
<1>15. CASE RejectPublish
  BY <1>15 DEF RejectPublish, Consented, planVars, Goto, Escalates
<1>16. CASE Publish
  BY <1>16 DEF Publish, Consented, planVars, Goto, Escalates
<1>17. CASE AfterPublish
  BY <1>17 DEF AfterPublish, Consented, planVars, Goto
<1>18. CASE SourceMoves
  BY <1>18 DEF SourceMoves, Consented, Ends, planVars
<1>19. CASE UNCHANGED vars
  BY <1>19 DEF vars, Consented, planVars
<1> QED BY <1>1, <1>2, <1>3, <1>4, <1>5, <1>6, <1>7, <1>8, <1>9, <1>10, <1>11, <1>12, <1>13, <1>14, <1>15, <1>16, <1>17, <1>18, <1>19 DEF Next

\* The grant is made of the plan, and each check before a step holds after it.
LEMMA GrantStep == Types /\ Granted /\ [Next]_vars => Granted'
<1> SUFFICES ASSUME Types, Granted, [Next]_vars PROVE Granted'
  OBVIOUS
<1>1. CASE Doctor
  BY <1>1 DEF Doctor, Granted, InScope, DiffPaths, UnderGrant, Gated, planVars, Goto, Escalates
<1>2. CASE Provision
  BY <1>2 DEF Provision, Granted, InScope, DiffPaths, UnderGrant, Gated, planVars, Goto, Escalates
<1>3. CASE Plan
  BY <1>3 DEF Plan, Granted, InScope, DiffPaths, UnderGrant, Gated, Goto, Escalates
<1>4. CASE ReviewPlan
  BY <1>4 DEF ReviewPlan, Granted, InScope, DiffPaths, UnderGrant, Gated, planVars, Goto, Escalates
<1>5. CASE DecidePlan
  BY <1>5 DEF DecidePlan, Granted, InScope, DiffPaths, UnderGrant, Gated, planVars, Goto
<1>6. CASE ApprovePlan
  BY <1>6 DEF ApprovePlan, Granted, InScope, DiffPaths, UnderGrant, Gated, planVars, Goto
<1>7. CASE RejectPlan
  BY <1>7 DEF RejectPlan, Granted, InScope, DiffPaths, UnderGrant, Gated, Goto
<1>8. CASE Grant
  BY <1>8 DEF Grant, Granted, InScope, DiffPaths, UnderGrant, Gated, planVars, Goto, Escalates
<1>9. CASE Execute
  BY <1>9 DEF Execute, Granted, InScope, DiffPaths, UnderGrant, Gated, planVars, Goto, Escalates
<1>10. CASE Check
  BY <1>10 DEF Check, Guarded, NoForbidden, StatusLines, Granted, InScope, DiffPaths, UnderGrant, Gated, planVars, Goto
<1>11. CASE Gates
  <2>1. ASSUME NEW B \in SUBSET GateWrites, NEW ok \in BOOLEAN, NEW X \in SUBSET B, ws' = AfterGates(B, X, ok)
        PROVE  ws'.changed \subseteq ws.changed \cup GateWrites
    BY <2>1 DEF AfterGates
  <2>2. CASE pc' = "ESCALATED"
    BY <2>2 DEF Granted, Planning, UnderGrant, Gated, Ends, planVars, Goto, Escalates
  <2>3. CASE pc' \in {"review", "fix"}
    <3>1. ws'.changed \cap Forbidden \subseteq GateWrites /\ GuardedAgain(ws')
      BY <1>11, <2>1, <2>3 DEF Gates, Granted, Goto, Escalates
    <3> QED BY <1>11, <2>3, <3>1 DEF Gates, GuardedAgain, Granted, InScope, DiffPaths, Planning, UnderGrant, Gated, Ends, planVars, Goto, Escalates
  <2> QED BY <1>11, <2>2, <2>3 DEF Gates, Goto, Escalates
<1>12. CASE Review
  BY <1>12 DEF Review, Kept, StatusLines, Granted, InScope, DiffPaths, UnderGrant, Gated, planVars, Goto, Escalates
<1>13. CASE Finalize
  BY <1>13 DEF Finalize, Granted, InScope, DiffPaths, UnderGrant, Gated, planVars, Goto, Escalates
<1>14. CASE ApprovePublish
  BY <1>14 DEF ApprovePublish, Granted, InScope, DiffPaths, UnderGrant, Gated, planVars, Goto
<1>15. CASE RejectPublish
  BY <1>15 DEF RejectPublish, Granted, InScope, DiffPaths, UnderGrant, Gated, planVars, Goto, Escalates
<1>16. CASE Publish
  BY <1>16 DEF Publish, Granted, InScope, DiffPaths, UnderGrant, Gated, planVars, Goto, Escalates
<1>17. CASE AfterPublish
  BY <1>17 DEF AfterPublish, Granted, InScope, DiffPaths, UnderGrant, Gated, planVars, Goto
<1>18. CASE SourceMoves
  BY <1>18 DEF SourceMoves, Granted, InScope, DiffPaths, UnderGrant, Gated, Ends, planVars
<1>19. CASE UNCHANGED vars
  BY <1>19 DEF vars, Granted, InScope, DiffPaths, UnderGrant, Gated, planVars
<1> QED BY <1>1, <1>2, <1>3, <1>4, <1>5, <1>6, <1>7, <1>8, <1>9, <1>10, <1>11, <1>12, <1>13, <1>14, <1>15, <1>16, <1>17, <1>18, <1>19 DEF Next

\* What Publish puts out is what the grant and the approvals say; nothing changes afterwards.
LEMMA AgreedStep == Types /\ NotYet /\ Granted /\ Consented /\ PublishedAsAgreed /\ [Next]_vars => PublishedAsAgreed'
<1> SUFFICES ASSUME Types, NotYet, Granted, Consented, PublishedAsAgreed, [Next]_vars PROVE PublishedAsAgreed'
  OBVIOUS
<1>1. CASE Doctor
  BY <1>1 DEF Doctor, PublishedAsAgreed, NotYet, Ends, planVars, Goto, Escalates
<1>2. CASE Provision
  BY <1>2 DEF Provision, PublishedAsAgreed, NotYet, Ends, planVars, Goto, Escalates
<1>3. CASE Plan
  BY <1>3 DEF Plan, PublishedAsAgreed, NotYet, Ends, Goto, Escalates
<1>4. CASE ReviewPlan
  BY <1>4 DEF ReviewPlan, PublishedAsAgreed, NotYet, Ends, planVars, Goto, Escalates
<1>5. CASE DecidePlan
  BY <1>5 DEF DecidePlan, PublishedAsAgreed, NotYet, Ends, planVars, Goto
<1>6. CASE ApprovePlan
  BY <1>6 DEF ApprovePlan, PublishedAsAgreed, NotYet, Ends, planVars, Goto
<1>7. CASE RejectPlan
  BY <1>7 DEF RejectPlan, PublishedAsAgreed, NotYet, Ends, Goto
<1>8. CASE Grant
  BY <1>8 DEF Grant, PublishedAsAgreed, NotYet, Ends, planVars, Goto, Escalates
<1>9. CASE Execute
  BY <1>9 DEF Execute, PublishedAsAgreed, NotYet, Ends, planVars, Goto, Escalates
<1>10. CASE Check
  BY <1>10 DEF Check, PublishedAsAgreed, NotYet, Ends, planVars, Goto, Escalates
<1>11. CASE Gates
  BY <1>11 DEF Gates, PublishedAsAgreed, NotYet, Ends, planVars, Goto, Escalates
<1>12. CASE Review
  BY <1>12 DEF Review, PublishedAsAgreed, NotYet, Ends, planVars, Goto, Escalates
<1>13. CASE Finalize
  BY <1>13 DEF Finalize, PublishedAsAgreed, NotYet, Ends, planVars, Goto, Escalates
<1>14. CASE ApprovePublish
  BY <1>14 DEF ApprovePublish, PublishedAsAgreed, NotYet, Ends, planVars, Goto
<1>15. CASE RejectPublish
  BY <1>15 DEF RejectPublish, PublishedAsAgreed, NotYet, Ends, planVars, Goto, Escalates
<1>16. CASE Publish
  <2>1. CASE out' = out
    BY <1>16, <2>1 DEF Publish, PublishedAsAgreed, Planning, UnderGrant, Gated, Ends, planVars, Goto, Escalates
  <2>2. CASE out' = DiffPaths(ws)
    <3>1. pc = "publish" /\ UNCHANGED <<consent, plan, class>>
      BY <1>16 DEF Publish, planVars
    <3>2. "plan" \in consent /\ grant.entries = plan.entries /\ InScope(ws) /\ ws.changed \cap Forbidden \subseteq GateWrites
      BY <3>1 DEF Granted, UnderGrant, Gated
    <3>3. (\E e \in plan.entries : e.high) => "publish" \in consent
      BY <3>1 DEF Consented
    <3> QED BY <2>2, <3>1, <3>2, <3>3 DEF PublishedAsAgreed, InScope, DiffPaths
  <2> QED BY <1>16, <2>1, <2>2 DEF Publish
<1>17. CASE AfterPublish
  BY <1>17 DEF AfterPublish, PublishedAsAgreed, NotYet, Ends, planVars, Goto
<1>18. CASE SourceMoves
  BY <1>18 DEF SourceMoves, PublishedAsAgreed, NotYet, Ends, planVars
<1>19. CASE UNCHANGED vars
  BY <1>19 DEF vars, PublishedAsAgreed, NotYet, Ends, planVars
<1> QED BY <1>1, <1>2, <1>3, <1>4, <1>5, <1>6, <1>7, <1>8, <1>9, <1>10, <1>11, <1>12, <1>13, <1>14, <1>15, <1>16, <1>17, <1>18, <1>19 DEF Next

\* The gates that pass and the review that passes are the last steps before
\* Finalize, and neither is the executor's.
LEMMA CheckedStep == Checked /\ [Next]_vars => Checked'
<1> SUFFICES ASSUME Checked, [Next]_vars PROVE Checked'
  OBVIOUS
<1>1. CASE Doctor
  BY <1>1 DEF Doctor, Checked, Gated, planVars, Goto, Escalates
<1>2. CASE Provision
  BY <1>2 DEF Provision, Checked, Gated, planVars, Goto, Escalates
<1>3. CASE Plan
  BY <1>3 DEF Plan, Checked, Gated, Goto, Escalates
<1>4. CASE ReviewPlan
  BY <1>4 DEF ReviewPlan, Checked, Gated, planVars, Goto, Escalates
<1>5. CASE DecidePlan
  BY <1>5 DEF DecidePlan, Checked, Gated, planVars, Goto
<1>6. CASE ApprovePlan
  BY <1>6 DEF ApprovePlan, Checked, Gated, planVars, Goto
<1>7. CASE RejectPlan
  BY <1>7 DEF RejectPlan, Checked, Gated, Goto
<1>8. CASE Grant
  BY <1>8 DEF Grant, Checked, Gated, planVars, Goto, Escalates
<1>9. CASE Execute
  BY <1>9 DEF Execute, Checked, Gated, planVars, Goto, Escalates
<1>10. CASE Check
  BY <1>10 DEF Check, Checked, Gated, planVars, Goto
<1>11. CASE Gates
  <2>1. ASSUME NEW B \in SUBSET GateWrites, NEW ok \in BOOLEAN, NEW X \in SUBSET B, ok, ws' = AfterGates(B, X, ok)
        PROVE  ws'.ungated = {}
    BY <2>1 DEF AfterGates
  <2>2. CASE pc' /= "review"
    BY <1>11, <2>2 DEF Gates, Checked, Gated, Goto, Escalates
  <2>3. CASE pc' = "review"
    <3>1. ws'.ungated = {}
      BY <1>11, <2>1, <2>3 DEF Gates, Goto, Escalates
    <3> QED BY <2>3, <3>1 DEF Checked, Gated
  <2> QED BY <2>2, <2>3
<1>12. CASE Review
  <2>1. PICK W \in SUBSET Paths, said \in [Asked -> Decisions] :
             /\ ws' = AfterReview(W, said)
             /\ \/ Escalates \/ Goto("fix")
                \/ Verdict(said) = "pass" /\ Goto("finalize")
    BY <1>12, Zenon DEF Review
  <2>2. CASE Escalates \/ Goto("fix")
    BY <2>2 DEF Checked, Gated, Goto, Escalates
  <2>3. CASE Verdict(said) = "pass" /\ Goto("finalize")
    <3>1. \A r \in Asked : said[r] # "escalate" /\ said[r] # "fix"
      BY <2>3, Zenon DEF Verdict
    <3>2. \A r \in Asked : said[r] = "pass"
      BY <2>1, <3>1 DEF Decisions
    <3>3. ws'.ungated = ws.ungated /\ ws'.unreviewed = {}
      BY <2>1, <3>2 DEF AfterReview
    <3> QED BY <1>12, <2>3, <3>3 DEF Review, Checked, Gated, Goto
  <2> QED BY <2>1, <2>2, <2>3
<1>13. CASE Finalize
  BY <1>13 DEF Finalize, Checked, Gated, planVars, Goto, Escalates
<1>14. CASE ApprovePublish
  BY <1>14 DEF ApprovePublish, Checked, Gated, planVars, Goto
<1>15. CASE RejectPublish
  BY <1>15 DEF RejectPublish, Checked, Gated, planVars, Goto, Escalates
<1>16. CASE Publish
  BY <1>16 DEF Publish, Checked, Gated, planVars, Goto, Escalates
<1>17. CASE AfterPublish
  BY <1>17 DEF AfterPublish, Checked, Gated, planVars, Goto
<1>18. CASE SourceMoves
  BY <1>18 DEF SourceMoves, Checked, Gated, Ends, planVars
<1>19. CASE UNCHANGED vars
  BY <1>19 DEF vars, Checked, Gated, planVars
<1> QED BY <1>1, <1>2, <1>3, <1>4, <1>5, <1>6, <1>7, <1>8, <1>9, <1>10, <1>11, <1>12, <1>13, <1>14, <1>15, <1>16, <1>17, <1>18, <1>19 DEF Next

\* What Publish puts out has passed the gates and the review; the executor writes
\* nothing afterwards.
LEMMA CleanStep == NotYet /\ Checked /\ PublishedWasChecked /\ [Next]_vars => PublishedWasChecked'
<1> SUFFICES ASSUME NotYet, Checked, PublishedWasChecked, [Next]_vars PROVE PublishedWasChecked'
  OBVIOUS
<1>1. CASE Doctor
  BY <1>1 DEF Doctor, PublishedWasChecked, NotYet, Checked, Gated, Ends, planVars, Goto, Escalates
<1>2. CASE Provision
  BY <1>2 DEF Provision, PublishedWasChecked, NotYet, Checked, Gated, Ends, planVars, Goto, Escalates
<1>3. CASE Plan
  BY <1>3 DEF Plan, PublishedWasChecked, NotYet, Checked, Gated, Ends, Goto, Escalates
<1>4. CASE ReviewPlan
  BY <1>4 DEF ReviewPlan, PublishedWasChecked, NotYet, Checked, Gated, Ends, planVars, Goto, Escalates
<1>5. CASE DecidePlan
  BY <1>5 DEF DecidePlan, PublishedWasChecked, NotYet, Checked, Gated, Ends, planVars, Goto
<1>6. CASE ApprovePlan
  BY <1>6 DEF ApprovePlan, PublishedWasChecked, NotYet, Checked, Gated, Ends, planVars, Goto
<1>7. CASE RejectPlan
  BY <1>7 DEF RejectPlan, PublishedWasChecked, NotYet, Checked, Gated, Ends, Goto
<1>8. CASE Grant
  BY <1>8 DEF Grant, PublishedWasChecked, NotYet, Checked, Gated, Ends, planVars, Goto, Escalates
<1>9. CASE Execute
  BY <1>9 DEF Execute, PublishedWasChecked, NotYet, Checked, Gated, Ends, planVars, Goto, Escalates
<1>10. CASE Check
  BY <1>10 DEF Check, PublishedWasChecked, NotYet, Checked, Gated, Ends, planVars, Goto, Escalates
<1>11. CASE Gates
  BY <1>11 DEF Gates, PublishedWasChecked, NotYet, Checked, Gated, Ends, planVars, Goto, Escalates
<1>12. CASE Review
  BY <1>12 DEF Review, PublishedWasChecked, NotYet, Checked, Gated, Ends, planVars, Goto, Escalates
<1>13. CASE Finalize
  BY <1>13 DEF Finalize, PublishedWasChecked, NotYet, Checked, Gated, Ends, planVars, Goto, Escalates
<1>14. CASE ApprovePublish
  BY <1>14 DEF ApprovePublish, PublishedWasChecked, NotYet, Checked, Gated, Ends, planVars, Goto
<1>15. CASE RejectPublish
  BY <1>15 DEF RejectPublish, PublishedWasChecked, NotYet, Checked, Gated, Ends, planVars, Goto, Escalates
<1>16. CASE Publish
  BY <1>16 DEF Publish, PublishedWasChecked, NotYet, Checked, Gated, Ends, planVars, Goto, Escalates
<1>17. CASE AfterPublish
  BY <1>17 DEF AfterPublish, PublishedWasChecked, NotYet, Checked, Gated, Ends, planVars, Goto
<1>18. CASE SourceMoves
  BY <1>18 DEF SourceMoves, PublishedWasChecked, NotYet, Checked, Gated, Ends, planVars
<1>19. CASE UNCHANGED vars
  BY <1>19 DEF vars, PublishedWasChecked, NotYet, Checked, Gated, Ends, planVars
<1> QED BY <1>1, <1>2, <1>3, <1>4, <1>5, <1>6, <1>7, <1>8, <1>9, <1>10, <1>11, <1>12, <1>13, <1>14, <1>15, <1>16, <1>17, <1>18, <1>19 DEF Next

-----------------------------------------------------------------------------
(* Theorems *)

\* The run starts with nothing written, granted or put out.
LEMMA InvInit == Init => IInv
<1> SUFFICES ASSUME Init PROVE IInv
  OBVIOUS
<1>1. Budget \in Nat
  BY SpentBound, Limits DEF Budget
<1>2. TypeOK
  BY <1>1, Limits DEF Init, TypeOK
<1>3. Spent = 0
  BY Limits DEF Init, Spent
<1>4. Types /\ Counted
  BY <1>2, <1>3 DEF Init, Types, Counted, Pcs, Planning
<1>5. NotYet /\ Granted /\ Consented /\ Checked /\ PublishedAsAgreed /\ PublishedWasChecked
  BY DEF Init, NotYet, Granted, Consented, PublishedAsAgreed, Checked, PublishedWasChecked, UnderGrant, Gated
<1> QED BY <1>4, <1>5 DEF IInv

\* The inductive invariant: types, the count of the executor's calls, what each
\* step may rely on, and what was put out (execute_run, _publish_claimed_run).
LEMMA IInvariant == Spec => []IInv
<1>1. IInv /\ [Next]_vars => IInv'
  BY TypeStep, CountStep, NotYetStep, CheckedStep, GrantStep, ConsentStep, CleanStep, AgreedStep DEF IInv
<1> QED BY InvInit, <1>1, PTL DEF Spec

\* Types, and the bound that the two limits of the policy set to the calls of
\* the executor (pipeline.py:414 and :468), for any limits.
THEOREM TypeCorrect == Spec => []TypeOK
<1>1. IInv => TypeOK
  BY DEF IInv, Types
<1> QED BY IInvariant, <1>1, PTL

\* Whatever agents, gates and reviewers write and however often the plan is
\* rejected, the project saved and the source moved: what is put out was agreed
\* to (the checks of execute_run, the grant of approve_plan_and_execute).
THEOREM AgreedHolds == Spec => []PublishedAsAgreed
<1>1. IInv => PublishedAsAgreed
  BY DEF IInv
<1> QED BY IInvariant, <1>1, PTL

\* For any limits, files, gates and reviewers, which may all write files: what
\* the executor wrote is put out after gates that passed and a review in which
\* every role that was asked said pass, both later than what it wrote (the two
\* loops of execute_run, ReviewHarness.review).
THEOREM CheckedHolds == Spec => []PublishedWasChecked
<1>1. IInv => PublishedWasChecked
  BY DEF IInv
<1> QED BY IInvariant, <1>1, PTL
================================================================================
