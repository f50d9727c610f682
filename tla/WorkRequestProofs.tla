-------------------------- MODULE WorkRequestProofs --------------------------
(***************************************************************************)
(* The safety properties of WorkRequest for any texts, pages, versions,    *)
(* bases, runs and suggestions.                                            *)
(*                                                                         *)
(* What makes them inductive is that a version names one text: whatever    *)
(* carries the version of the draft (a revision, a page, a suggestion)     *)
(* carries its text, or was made from it.                                  *)
(***************************************************************************)
EXTENDS WorkRequest, TLAPS, SequenceTheorems

\* Revisions by rising versions, the newest with the text of the draft if the
\* draft is still the same; their number never passes the version.
Versioned ==
  /\ version # 0 => draft \in Texts
  /\ \A n \in Numbers :
       /\ revisions[n].version \in n..version /\ revisions[n].text \in Texts
       /\ revisions[n].version = version => revisions[n].text = draft

\* A page that shows this version shows this text.
PageOfVersion ==
  \A b \in Tabs : tab[b].version <= version /\ (tab[b].version = version => tab[b].text = draft)

\* A suggestion for this version was made from this text.
SourceOfVersion ==
  \A s \in 1..Len(suggestions) :
    /\ suggestions[s].version <= version
    /\ suggestions[s].version = version => suggestions[s].from = draft

\* A revision's submission and its runs point at each other.
Submissions ==
  /\ \A n \in 1..MaxVersion : primary[n] # 0 =>
       n \in Numbers /\ runs[primary[n]].revision = n /\ ~runs[primary[n]].retry
  /\ \A i \in RunNumber : LET n == runs[i].revision IN
       n \in Numbers /\ primary[n] # 0 /\ (~runs[i].retry => primary[n] = i)
  /\ \A i, j \in RunNumber : i # j => runs[i].phase \in Ended \/ runs[j].phase \in Ended

\* A result that waits for the administrator was accepted as the newest of its
\* version.
Marked ==
  \A i \in RunNumber : runs[i].review = "AWAITING_ADMIN" =>
    runs[i].accepted = [version |-> revisions[runs[i].revision].version, runs |-> i]

IInv ==
  /\ TypeOK /\ Versioned /\ PageOfVersion /\ SourceOfVersion
  /\ StateIsOfThisDraft /\ ConfirmedAsSeen /\ Submissions /\ Marked

-----------------------------------------------------------------------------
(* Lemmas about sequences of records *)

\* What a row that is added changes.
LEMMA Added ==
  ASSUME NEW S, NEW s \in Seq(S), NEW e \in S
  PROVE  /\ Append(s, e) \in Seq(S) /\ Len(Append(s, e)) = Len(s) + 1 /\ Len(s) \in Nat
         /\ Append(s, e)[Len(s) + 1] = e
         /\ \A i \in 1..Len(s) : Append(s, e)[i] = s[i]
  BY AppendProperties, LenProperties

\* What a row that is updated changes.
LEMMA Updated ==
  ASSUME NEW S, NEW s \in Seq(S), NEW k \in 1..Len(s), NEW e \in S
  PROVE  /\ [s EXCEPT ![k] = e] \in Seq(S) /\ Len([s EXCEPT ![k] = e]) = Len(s)
         /\ [s EXCEPT ![k] = e][k] = e
         /\ \A i \in 1..Len(s) : i # k => [s EXCEPT ![k] = e][i] = s[i]
  BY ExceptSeq

\* The rows of the three tables.
LEMMA Rows ==
  ASSUME TypeOK
  PROVE  /\ Len(revisions) \in Nat /\ Len(runs) \in Nat /\ Len(suggestions) \in Nat
         /\ \A n \in Numbers : revisions[n] \in Revision
         /\ \A i \in RunNumber : runs[i] \in RunRecord
         /\ \A s \in 1..Len(suggestions) : suggestions[s] \in Suggestion
  BY ElementOfSeq, LenProperties DEF TypeOK, Numbers, RunNumber

-----------------------------------------------------------------------------
(* Types *)

LEMMA TypeStep == IInv /\ [Next]_vars => TypeOK'
<1> SUFFICES ASSUME IInv, [Next]_vars PROVE TypeOK'
  OBVIOUS
<1>0. TypeOK /\ version \in Nat /\ Texts \cup {Nothing} # {} /\ MaxVersion \in Nat /\ MaxRuns \in Nat
  BY WorkRequestAssumption DEF IInv, TypeOK, Versions
<1> USE <1>0, Rows, WorkRequestAssumption
<1>1. ASSUME NEW v \in Versions, NEW t \in Texts, AddSuggestion(v, t)
      PROVE  suggestions' \in Seq(Suggestion)
  BY <1>1, Added DEF AddSuggestion, Suggestion, TypeOK
<1>2. ASSUME NEW n \in 1..MaxVersion, NEW retry \in BOOLEAN, AddRun(n, retry)
      PROVE  runs' \in Seq(RunRecord) /\ Len(runs') = Len(runs) + 1 /\ Len(runs') <= MaxRuns
  <2>1. [version |-> 0, runs |-> 0] \in Mark
    BY DEF Mark, Versions
  <2>2. [revision |-> n, retry |-> retry, phase |-> "waiting", review |-> "PENDING_USER",
         accepted |-> [version |-> 0, runs |-> 0]] \in RunRecord
    BY <2>1 DEF RunRecord, Phase, Review
  <2> QED BY <1>2, <2>2, Added DEF AddRun, TypeOK
<1>3. ASSUME NEW i \in RunNumber, NEW r \in RunRecord, runs' = [runs EXCEPT ![i] = r]
      PROVE  runs' \in Seq(RunRecord) /\ Len(runs') = Len(runs)
  BY <1>3, Updated DEF RunNumber, TypeOK
<1>4. ASSUME NEW t \in Texts, CreateDraft(t) PROVE TypeOK'
  <2>1. 1 \in Versions /\ AddSuggestion(1, t)
    BY <1>4 DEF CreateDraft, Versions
  <2>2. suggestions' \in Seq(Suggestion)
    BY <1>1, <2>1
  <2> QED BY <1>4, <2>2 DEF CreateDraft, TypeOK, Versions, Numbers
<1>5. ASSUME NEW b \in Tabs, LoadPage(b) PROVE TypeOK'
  BY <1>5 DEF LoadPage, TypeOK, Page, Versions, requestVars, Numbers
<1>6. ASSUME NEW b \in Tabs, NEW t \in Texts, SaveDraft(b, t) PROVE TypeOK'
  BY <1>6 DEF SaveDraft, Replace, NextVersion, Reset, TypeOK, Versions, Numbers
<1>7. ASSUME NEW b \in Tabs, RefreshBasis(b) PROVE TypeOK'
  BY <1>7 DEF RefreshBasis, NextVersion, Reset, TypeOK, Versions, Numbers
<1>8. ASSUME NEW b \in Tabs, ConfirmRevision(b) PROVE TypeOK'
  <2> DEFINE r == [version |-> version, text |-> draft, basis |-> basis, seen |-> tab[b]]
  <2>1. r \in Revision
    BY <1>8 DEF TypeOK, Revision
  <2>2. revisions' = Append(revisions, r)
    BY <1>8 DEF ConfirmRevision
  <2>3. /\ revisions' \in Seq(Revision) /\ Len(revisions') = Len(revisions) + 1
        /\ revisions'[Len(revisions) + 1].version = version
        /\ \A n \in Numbers : revisions'[n] = revisions[n]
    BY <2>1, <2>2, Added DEF TypeOK, Numbers
  <2>4. \A n \in Numbers : revisions[n].version \in n..version /\ revisions[n].version # version
    BY <1>8 DEF ConfirmRevision, Unconfirmed, IInv, Versioned
  <2>5. Len(revisions) + 1 <= version
    <3>1. CASE Len(revisions) = 0
      BY <1>8, <3>1 DEF ConfirmRevision, SameVersion
    <3>2. CASE Len(revisions) # 0
      BY <2>4, <3>2 DEF Numbers
    <3> QED BY <3>1, <3>2
  <2>6. ASSUME NEW m \in 1..Len(revisions'), NEW n \in 1..Len(revisions'), m < n
        PROVE  revisions'[m].version < revisions'[n].version
    <3>1. m \in Numbers /\ revisions'[m].version < version
      BY <2>3, <2>4, <2>6 DEF Numbers
    <3>2. CASE n = Len(revisions) + 1
      BY <2>3, <3>1, <3>2
    <3>3. CASE n \in Numbers
      BY <2>3, <2>6, <3>1, <3>3 DEF TypeOK
    <3> QED BY <2>3, <3>2, <3>3 DEF Numbers
  <2>7. Len(revisions') <= MaxVersion /\ ready' \in 0..Len(revisions') /\ state' = "READY"
    BY <1>8, <2>3, <2>5 DEF ConfirmRevision, TypeOK, Versions
  <2> QED BY <1>8, <2>3, <2>6, <2>7 DEF ConfirmRevision, TypeOK, Numbers
<1>9. ASSUME NEW n \in Numbers, Submit(n) PROVE TypeOK'
  <2>1. n \in 1..MaxVersion
    BY DEF Numbers, TypeOK
  <2>2. runs' \in Seq(RunRecord) /\ Len(runs') = Len(runs) + 1 /\ Len(runs') <= MaxRuns
    BY <1>2, <1>9, <2>1 DEF Submit
  <2>3. primary' \in [1..MaxVersion -> 0..Len(runs')]
    BY <1>9, <2>1, <2>2 DEF Submit, TypeOK
  <2> QED BY <1>9, <2>2, <2>3 DEF Submit, TypeOK, Numbers
<1>10. ASSUME NEW i \in RunNumber, RetryRun(i) PROVE TypeOK'
  <2>1. runs' \in Seq(RunRecord) /\ Len(runs') = Len(runs) + 1 /\ Len(runs') <= MaxRuns
    BY <1>2, <1>10 DEF RetryRun, RunRecord
  <2>2. primary' \in [1..MaxVersion -> 0..Len(runs')]
    BY <1>10, <2>1 DEF RetryRun, TypeOK
  <2> QED BY <1>10, <2>1, <2>2 DEF RetryRun, TypeOK, Numbers, requestVars
<1>11. ASSUME NEW b \in Tabs, Suggest(b) PROVE TypeOK'
  <2>1. draft \in Texts /\ version \in Versions
    BY <1>11 DEF Suggest, SameVersion, IInv, Versioned, TypeOK
  <2>2. suggestions' \in Seq(Suggestion)
    BY <1>1, <1>11, <2>1 DEF Suggest
  <2> QED BY <1>11, <2>2 DEF Suggest, TypeOK, requestVars, Numbers
<1>12. ASSUME NEW k \in 1..Len(suggestions), NEW t \in Texts, CompleteSuggestion(k, t) PROVE TypeOK'
  <2>1. [suggestions[k] EXCEPT !.text = t] \in Suggestion
    BY DEF Suggestion
  <2>2. suggestions' \in Seq(Suggestion)
    BY <1>12, <2>1, Updated DEF CompleteSuggestion, TypeOK
  <2> QED BY <1>12, <2>2 DEF CompleteSuggestion, TypeOK, requestVars, Numbers
<1>13. ASSUME NEW b \in Tabs, NEW k \in 1..Len(suggestions), ApplySuggestion(b, k) PROVE TypeOK'
  <2>1. [suggestions[k] EXCEPT !.applied = TRUE] \in Suggestion
    BY DEF Suggestion
  <2>2. suggestions' \in Seq(Suggestion)
    BY <1>13, <2>1, Updated DEF ApplySuggestion, TypeOK
  <2>3. suggestions[k].text \in Texts \cup {Nothing}
    BY DEF Suggestion
  <2> QED BY <1>13, <2>2, <2>3 DEF ApplySuggestion, Replace, NextVersion, Reset, TypeOK, Versions, Numbers
<1>14. ASSUME NEW i \in RunNumber, AcceptResult(i) PROVE TypeOK'
  <2> DEFINE r == [runs[i] EXCEPT !.review = "AWAITING_ADMIN",
                                  !.accepted = [version |-> version, runs |-> Len(runs)]]
  <2>1. [version |-> version, runs |-> Len(runs)] \in Mark
    BY DEF Mark, TypeOK
  <2>2. r \in RunRecord
    BY <2>1 DEF RunRecord, Review
  <2>3. runs' = [runs EXCEPT ![i] = r]
    BY <1>14 DEF AcceptResult
  <2>4. runs' \in Seq(RunRecord) /\ Len(runs') = Len(runs)
    BY <1>3, <2>2, <2>3
  <2> QED BY <1>14, <2>4 DEF AcceptResult, TypeOK, requestVars, Numbers
<1>15. ASSUME NEW i \in RunNumber, NEW to \in Review, DecideResult(i, to) PROVE TypeOK'
  <2>1. [runs[i] EXCEPT !.review = to] \in RunRecord
    BY DEF RunRecord
  <2>2. runs' \in Seq(RunRecord) /\ Len(runs') = Len(runs)
    BY <1>3, <1>15, <2>1 DEF DecideResult
  <2> QED BY <1>15, <2>2 DEF DecideResult, TypeOK, requestVars, Numbers
<1>16. ASSUME NEW i \in RunNumber, ReworkResult(i) PROVE TypeOK'
  <2>1. [runs[i] EXCEPT !.review = "CHANGES_REQUESTED"] \in RunRecord
    BY DEF RunRecord, Review
  <2>2. runs' \in Seq(RunRecord) /\ Len(runs') = Len(runs)
    BY <1>3, <1>16, <2>1 DEF ReworkResult
  <2>3. Reworded[revisions[runs[i].revision].text] \in Texts
    BY DEF IInv, Submissions, Versioned
  <2> QED BY <1>16, <2>2, <2>3 DEF ReworkResult, Replace, NextVersion, Reset, TypeOK, Versions, Numbers
<1>17. CASE ProjectChanges
  BY <1>17 DEF ProjectChanges, TypeOK, requestVars, Numbers
<1>18. ASSUME NEW i \in RunNumber, NEW end \in Phase, (RunStarts(i) /\ end = "working") \/ RunEnds(i, end)
       PROVE TypeOK'
  <2>1. [runs[i] EXCEPT !.phase = end] \in RunRecord
    BY DEF RunRecord
  <2>2. runs' \in Seq(RunRecord) /\ Len(runs') = Len(runs)
    BY <1>3, <1>18, <2>1 DEF RunStarts, RunEnds
  <2> QED BY <1>18, <2>2 DEF RunStarts, RunEnds, TypeOK, requestVars, Numbers
<1>19. CASE UNCHANGED vars
  BY <1>19 DEF vars, requestVars, TypeOK, Numbers
<1> QED
  BY <1>4, <1>5, <1>6, <1>7, <1>8, <1>9, <1>10, <1>11, <1>12, <1>13, <1>14, <1>15, <1>16, <1>17,
     <1>18, <1>19 DEF Next, DraftStep, SubmitStep, ReviewStep, WorkerStep, Phase, Ended

-----------------------------------------------------------------------------
(* The draft and what carries its version *)

DraftParts == Versioned /\ PageOfVersion /\ SourceOfVersion /\ StateIsOfThisDraft /\ ConfirmedAsSeen

\* A new draft: nothing carries the new version yet.
LEMMA NewDraft ==
  ASSUME IInv, NextVersion, Reset, draft' \in Texts, UNCHANGED <<revisions, primary, tab>>,
         Len(suggestions') = Len(suggestions),
         \A k \in 1..Len(suggestions) : suggestions'[k].version = suggestions[k].version
  PROVE  DraftParts'
<1> USE Rows, WorkRequestAssumption DEF IInv
<1>1. version \in Nat /\ version' = version + 1 /\ Len(suggestions) \in Nat
  BY DEF NextVersion, TypeOK, Versions
<1>2. Versioned'
  <2>1. ASSUME NEW n \in Numbers
        PROVE  /\ revisions'[n].version \in n..version' /\ revisions'[n].text \in Texts
               /\ revisions'[n].version # version'
    <3>1. revisions'[n] = revisions[n] /\ n \in Nat
      BY DEF Numbers
    <3>2. revisions[n].version \in n..version /\ revisions[n].text \in Texts
      BY DEF Versioned
    <3> QED BY <1>1, <3>1, <3>2
  <2> QED BY <2>1 DEF Versioned, Numbers
<1>3. PageOfVersion'
  BY <1>1 DEF PageOfVersion, TypeOK, Page, Versions
<1>4. SourceOfVersion'
  BY <1>1 DEF SourceOfVersion, Suggestion, Versions
<1>5. StateIsOfThisDraft' /\ ConfirmedAsSeen'
  BY DEF Reset, StateIsOfThisDraft, ConfirmedAsSeen, Numbers
<1> QED BY <1>2, <1>3, <1>4, <1>5 DEF DraftParts

\* The same draft, with a suggestion for it added or none.
LEMMA SameDraft ==
  ASSUME IInv, UNCHANGED <<requestVars, revisions>>,
         \A n \in Numbers : primary[n] = 0 <=> primary'[n] = 0,
         PageOfVersion', SourceOfVersion'
  PROVE  DraftParts'
  BY DEF DraftParts, IInv, Versioned, StateIsOfThisDraft, ConfirmedAsSeen, Numbers, requestVars, TypeOK

LEMMA DraftStepKeeps == IInv /\ [Next]_vars => DraftParts'
<1> SUFFICES ASSUME IInv, [Next]_vars PROVE DraftParts'
  OBVIOUS
<1>0. TypeOK /\ version \in Nat
  BY WorkRequestAssumption DEF IInv, TypeOK, Versions
<1> USE <1>0, Rows, WorkRequestAssumption
<1>1. ASSUME NEW v, NEW t, AddSuggestion(v, t), v = version', t = draft',
             version # version' => version < version', UNCHANGED draft \/ version # version',
             version' \in Versions, t \in Texts
      PROVE  SourceOfVersion'
  <2> DEFINE e == [version |-> v, from |-> t, text |-> Nothing, applied |-> FALSE]
  <2>1. e \in Suggestion /\ suggestions' = Append(suggestions, e)
    BY <1>1 DEF AddSuggestion, Suggestion
  <2>2. /\ Len(suggestions') = Len(suggestions) + 1 /\ suggestions'[Len(suggestions) + 1] = e
        /\ \A k \in 1..Len(suggestions) : suggestions'[k] = suggestions[k]
    BY <2>1, Added DEF TypeOK
  <2>3. ASSUME NEW k \in 1..Len(suggestions')
        PROVE  /\ suggestions'[k].version <= version'
               /\ suggestions'[k].version = version' => suggestions'[k].from = draft'
    <3>1. CASE k = Len(suggestions) + 1
      BY <1>1, <2>2, <3>1 DEF Versions
    <3>2. CASE k \in 1..Len(suggestions)
      BY <1>1, <2>2, <3>2 DEF IInv, SourceOfVersion, Suggestion, Versions
    <3> QED BY <2>2, <3>1, <3>2
  <2> QED BY <2>3 DEF SourceOfVersion
<1>2. ASSUME NEW t \in Texts, CreateDraft(t) PROVE DraftParts'
  <2>1. SourceOfVersion'
    <3>1. AddSuggestion(1, t) /\ version' = 1 /\ draft' = t /\ version = 0 /\ 1 \in Versions
      BY <1>2 DEF CreateDraft, Versions
    <3> QED BY <1>1, <3>1
  <2>2. Len(revisions) = 0
    <3>1. \A n \in Numbers : revisions[n].version \in n..0
      BY <1>2 DEF CreateDraft, IInv, Versioned
    <3> QED BY <3>1 DEF Numbers
  <2>3. Versioned' /\ ConfirmedAsSeen'
    BY <1>2, <2>2 DEF CreateDraft, Versioned, ConfirmedAsSeen, Numbers
  <2>4. PageOfVersion'
    BY <1>2 DEF CreateDraft, IInv, PageOfVersion, TypeOK, Page, Versions
  <2>5. StateIsOfThisDraft'
    BY <1>2, <2>2 DEF CreateDraft, IInv, StateIsOfThisDraft, TypeOK
  <2> QED BY <2>1, <2>3, <2>4, <2>5 DEF DraftParts
<1>3. ASSUME NEW b \in Tabs, LoadPage(b) PROVE DraftParts'
  <2>1. PageOfVersion'
    BY <1>3 DEF LoadPage, IInv, PageOfVersion, TypeOK, requestVars
  <2>2. SourceOfVersion'
    BY <1>3 DEF LoadPage, IInv, SourceOfVersion, requestVars
  <2> QED BY <1>3, <2>1, <2>2, SameDraft DEF LoadPage
<1>4. ASSUME NEW b \in Tabs, NEW t \in Texts, SaveDraft(b, t) PROVE DraftParts'
  BY <1>4, NewDraft DEF SaveDraft, Replace
<1>5. ASSUME NEW b \in Tabs, RefreshBasis(b) PROVE DraftParts'
  <2>1. draft' \in Texts
    BY <1>5 DEF RefreshBasis, SameVersion, IInv, Versioned
  <2> QED BY <1>5, <2>1, NewDraft DEF RefreshBasis
<1>6. ASSUME NEW b \in Tabs, ConfirmRevision(b) PROVE DraftParts'
  <2> DEFINE r == [version |-> version, text |-> draft, basis |-> basis, seen |-> tab[b]]
  <2>1. r \in Revision /\ revisions' = Append(revisions, r)
    BY <1>6 DEF ConfirmRevision, TypeOK, Revision
  <2>2. /\ Len(revisions') = Len(revisions) + 1 /\ revisions'[Len(revisions) + 1] = r
        /\ \A n \in Numbers : revisions'[n] = revisions[n]
    BY <2>1, Added DEF TypeOK, Numbers
  <2>3. Numbers' = Numbers \cup {Len(revisions) + 1}
    BY <2>2 DEF Numbers
  <2>4. version # 0 /\ draft \in Texts /\ tab[b] = [version |-> version, text |-> draft, basis |-> basis]
    BY <1>6 DEF ConfirmRevision, SameVersion, IInv, Versioned, PageOfVersion, TypeOK, Page
  <2>5. Len(revisions) + 1 <= version
    <3>1. \A n \in Numbers : revisions[n].version \in n..version /\ revisions[n].version # version
      BY <1>6 DEF ConfirmRevision, Unconfirmed, IInv, Versioned
    <3>2. CASE Len(revisions) = 0
      BY <2>4, <3>2
    <3>3. CASE Len(revisions) # 0
      BY <3>1, <3>3 DEF Numbers
    <3> QED BY <3>2, <3>3
  <2>6. Versioned'
    <3>1. ASSUME NEW n \in Numbers'
          PROVE  /\ revisions'[n].version \in n..version /\ revisions'[n].text \in Texts
                 /\ revisions'[n].version = version => revisions'[n].text = draft
      <4>1. CASE n = Len(revisions) + 1
        BY <2>2, <2>4, <2>5, <4>1
      <4>2. CASE n \in Numbers
        BY <2>2, <4>2 DEF IInv, Versioned
      <4> QED BY <2>3, <3>1, <4>1, <4>2
    <3> QED BY <1>6, <2>4, <3>1 DEF ConfirmRevision, Versioned
  <2>7. ConfirmedAsSeen'
    BY <2>2, <2>3, <2>4 DEF IInv, ConfirmedAsSeen
  <2>8. primary[Len(revisions) + 1] = 0
    <3>1. Len(revisions) + 1 \in 1..MaxVersion /\ Len(revisions) + 1 \notin Numbers
      BY <2>5 DEF Numbers, TypeOK, Versions
    <3> QED BY <3>1 DEF IInv, Submissions
  <2>9. StateIsOfThisDraft'
    BY <1>6, <2>2, <2>8 DEF ConfirmRevision, StateIsOfThisDraft
  <2>10. PageOfVersion' /\ SourceOfVersion'
    BY <1>6 DEF ConfirmRevision, IInv, PageOfVersion, SourceOfVersion
  <2> QED BY <2>6, <2>7, <2>9, <2>10 DEF DraftParts
<1>7. ASSUME NEW n \in Numbers, Submit(n) PROVE DraftParts'
  <2>1. PageOfVersion' /\ SourceOfVersion' /\ ConfirmedAsSeen' /\ Versioned'
    BY <1>7 DEF Submit, IInv, PageOfVersion, SourceOfVersion, ConfirmedAsSeen, Versioned, Numbers
  <2>2. primary'[n] # 0
    BY <1>7 DEF Submit, TypeOK, Numbers
  <2>3. StateIsOfThisDraft'
    BY <1>7, <2>2 DEF Submit, IInv, StateIsOfThisDraft
  <2> QED BY <2>1, <2>3 DEF DraftParts
<1>8. ASSUME NEW b \in Tabs, Suggest(b) PROVE DraftParts'
  <2>1. AddSuggestion(version', draft') /\ version' = version /\ draft' = draft
        /\ draft \in Texts /\ version \in Versions
    BY <1>8 DEF Suggest, SameVersion, requestVars, IInv, Versioned, TypeOK
  <2>2. SourceOfVersion'
    BY <1>1, <2>1
  <2>3. PageOfVersion'
    BY <1>8 DEF Suggest, IInv, PageOfVersion, requestVars
  <2> QED BY <1>8, <2>2, <2>3, SameDraft DEF Suggest
<1>9. ASSUME NEW k \in 1..Len(suggestions), NEW t \in Texts, CompleteSuggestion(k, t) PROVE DraftParts'
  <2> DEFINE e == [suggestions[k] EXCEPT !.text = t]
  <2>1. e \in Suggestion /\ e.version = suggestions[k].version /\ e.from = suggestions[k].from
    BY DEF Suggestion
  <2>2. suggestions' = [suggestions EXCEPT ![k] = e]
    BY <1>9 DEF CompleteSuggestion
  <2>3. /\ Len(suggestions') = Len(suggestions) /\ suggestions'[k] = e
        /\ \A i \in 1..Len(suggestions) : i # k => suggestions'[i] = suggestions[i]
    BY <2>1, <2>2, Updated DEF TypeOK
  <2>4. SourceOfVersion' /\ PageOfVersion'
    BY <1>9, <2>1, <2>3 DEF CompleteSuggestion, IInv, SourceOfVersion, PageOfVersion, requestVars
  <2> QED BY <1>9, <2>4, SameDraft DEF CompleteSuggestion
<1>10. ASSUME NEW b \in Tabs, NEW k \in 1..Len(suggestions), ApplySuggestion(b, k) PROVE DraftParts'
  <2> DEFINE e == [suggestions[k] EXCEPT !.applied = TRUE]
  <2>1. e \in Suggestion /\ e.version = suggestions[k].version
    BY DEF Suggestion
  <2>2. suggestions' = [suggestions EXCEPT ![k] = e]
    BY <1>10 DEF ApplySuggestion
  <2>3. /\ Len(suggestions') = Len(suggestions)
        /\ \A i \in 1..Len(suggestions) : suggestions'[i].version = suggestions[i].version
    BY <2>1, <2>2, Updated DEF TypeOK
  <2>4. suggestions[k].text \in Texts
    BY <1>10 DEF ApplySuggestion, ApplicableNow, Applicable, Suggestion
  <2> QED BY <1>10, <2>3, <2>4, NewDraft DEF ApplySuggestion, Replace
<1>11. ASSUME NEW i \in RunNumber, ReworkResult(i) PROVE DraftParts'
  <2>1. Reworded[revisions[runs[i].revision].text] \in Texts
    BY DEF IInv, Submissions, Versioned
  <2> QED BY <1>11, <2>1, NewDraft DEF ReworkResult, Replace
<1>12. ASSUME UNCHANGED <<requestVars, revisions, primary, suggestions, tab>> PROVE DraftParts'
  <2>1. SourceOfVersion' /\ PageOfVersion'
    BY <1>12 DEF IInv, SourceOfVersion, PageOfVersion, requestVars
  <2> QED BY <1>12, <2>1, SameDraft
<1>13. ASSUME \/ \E i \in RunNumber : RetryRun(i) \/ AcceptResult(i) \/ (\E to \in Review : DecideResult(i, to))
              \/ \E i \in RunNumber : RunStarts(i) \/ (\E end \in Ended : RunEnds(i, end))
              \/ ProjectChanges \/ UNCHANGED vars
       PROVE  DraftParts'
  BY <1>12, <1>13 DEF RetryRun, AcceptResult, DecideResult, RunStarts, RunEnds, ProjectChanges, vars
<1> QED
  BY <1>2, <1>3, <1>4, <1>5, <1>6, <1>7, <1>8, <1>9, <1>10, <1>11, <1>13
     DEF Next, DraftStep, SubmitStep, ReviewStep, WorkerStep

-----------------------------------------------------------------------------
(* Runs, submissions and reviews *)

RunParts == Submissions /\ Marked

\* A run that is changed keeps its revision and kind and does not start again;
\* it waits for the administrator only if it is marked.
LEMMA RunChanged ==
  ASSUME IInv, NEW i \in RunNumber, NEW r \in RunRecord, runs' = [runs EXCEPT ![i] = r],
         UNCHANGED <<revisions, primary>>,
         r.revision = runs[i].revision, r.retry = runs[i].retry,
         runs[i].phase \in Ended => r.phase \in Ended,
         r.review = "AWAITING_ADMIN" =>
           \/ (runs[i].review = "AWAITING_ADMIN" /\ r.accepted = runs[i].accepted)
           \/ r.accepted = [version |-> revisions[runs[i].revision].version, runs |-> i]
  PROVE  RunParts'
<1> USE Rows DEF IInv
<1>1. /\ Len(runs') = Len(runs) /\ runs'[i] = r
      /\ \A j \in RunNumber : j # i => runs'[j] = runs[j]
  BY Updated DEF TypeOK, RunNumber
<1>2. \A j \in RunNumber : /\ runs'[j].revision = runs[j].revision /\ runs'[j].retry = runs[j].retry
                           /\ runs[j].phase \in Ended => runs'[j].phase \in Ended
  BY <1>1
<1>3. RunNumber' = RunNumber /\ Numbers' = Numbers
  BY <1>1 DEF RunNumber, Numbers
<1>4. \A n \in 1..MaxVersion : primary[n] # 0 => primary[n] \in RunNumber
  BY DEF TypeOK, RunNumber
<1>5. Submissions'
  BY <1>2, <1>3, <1>4 DEF Submissions
<1>6. Marked'
  BY <1>1, <1>3 DEF Marked
<1> QED BY <1>5, <1>6 DEF RunParts

\* A run that is added: all others have ended, and the first of a revision is
\* its submission.
LEMMA RunAdded ==
  ASSUME IInv, NEW n \in Numbers, NEW retry \in BOOLEAN, AddRun(n, retry), ~AnyRunActive, UNCHANGED revisions,
         \/ retry /\ primary[n] # 0 /\ UNCHANGED primary
         \/ ~retry /\ primary[n] = 0 /\ primary' = [primary EXCEPT ![n] = Len(runs) + 1]
  PROVE  RunParts'
<1> USE Rows, WorkRequestAssumption DEF IInv
<1> DEFINE r == [revision |-> n, retry |-> retry, phase |-> "waiting", review |-> "PENDING_USER",
                 accepted |-> [version |-> 0, runs |-> 0]]
           new == Len(runs) + 1
<1>0. n \in 1..MaxVersion /\ primary \in [1..MaxVersion -> 0..Len(runs)]
  BY DEF TypeOK, Numbers
<1>1. r \in RunRecord
  <2>1. [version |-> 0, runs |-> 0] \in Mark
    BY DEF Mark, Versions, TypeOK
  <2> QED BY <1>0, <2>1 DEF RunRecord, Phase, Review
<1>2. /\ Len(runs') = new /\ runs'[new] = r
      /\ \A j \in RunNumber : runs'[j] = runs[j]
  BY <1>1, Added DEF AddRun, TypeOK, RunNumber
<1>3. RunNumber' = RunNumber \cup {new} /\ new \notin RunNumber /\ new # 0 /\ Numbers' = Numbers
  BY <1>2 DEF RunNumber, Numbers
<1>4. \A j \in RunNumber : runs[j].phase \in Ended
  BY DEF AnyRunActive
<1>5. ASSUME NEW m \in 1..MaxVersion, primary'[m] # 0
      PROVE  m \in Numbers /\ runs'[primary'[m]].revision = m /\ ~runs'[primary'[m]].retry
  <2>1. CASE primary'[m] = primary[m]
    <3>1. primary[m] \in RunNumber
      BY <1>0, <1>5, <2>1 DEF RunNumber
    <3> QED BY <1>2, <1>5, <2>1, <3>1 DEF Submissions
  <2>2. CASE primary'[m] # primary[m]
    BY <1>0, <1>2, <2>2
  <2> QED BY <2>1, <2>2
<1>6. ASSUME NEW i \in RunNumber'
      PROVE  /\ runs'[i].revision \in Numbers /\ primary'[runs'[i].revision] # 0
             /\ ~runs'[i].retry => primary'[runs'[i].revision] = i
  <2>1. CASE i = new
    BY <1>0, <1>2, <1>3, <2>1
  <2>2. CASE i \in RunNumber
    <3>1. /\ runs'[i] = runs[i] /\ runs[i].revision \in Numbers /\ primary[runs[i].revision] # 0
          /\ ~runs[i].retry => primary[runs[i].revision] = i
      BY <1>2, <2>2 DEF Submissions
    <3>2. runs[i].revision \in 1..MaxVersion
      BY <3>1 DEF TypeOK, Numbers
    <3>3. CASE UNCHANGED primary
      BY <3>1, <3>3
    <3>4. CASE primary[n] = 0 /\ primary' = [primary EXCEPT ![n] = Len(runs) + 1]
      BY <1>0, <3>1, <3>2, <3>4
    <3> QED BY <3>3, <3>4
  <2> QED BY <1>3, <2>1, <2>2
<1>7. \A i, j \in RunNumber' : i # j => runs'[i].phase \in Ended \/ runs'[j].phase \in Ended
  BY <1>2, <1>3, <1>4
<1>8. Submissions'
  BY <1>3, <1>5, <1>6, <1>7 DEF Submissions
<1>9. Marked'
  BY <1>2, <1>3 DEF Marked
<1> QED BY <1>8, <1>9 DEF RunParts

LEMMA RunStepKeeps == IInv /\ [Next]_vars => RunParts'
<1> SUFFICES ASSUME IInv, [Next]_vars PROVE RunParts'
  OBVIOUS
<1>0. TypeOK
  BY DEF IInv
<1> USE <1>0, Rows
<1>1. ASSUME NEW n \in Numbers, Submit(n) PROVE RunParts'
  BY <1>1, RunAdded DEF Submit
<1>2. ASSUME NEW i \in RunNumber, RetryRun(i) PROVE RunParts'
  <2>1. runs[i].revision \in Numbers /\ primary[runs[i].revision] # 0
    BY DEF IInv, Submissions
  <2> QED BY <1>2, <2>1, RunAdded DEF RetryRun
<1>3. ASSUME NEW i \in RunNumber, AcceptResult(i) PROVE RunParts'
  <2> DEFINE r == [runs[i] EXCEPT !.review = "AWAITING_ADMIN",
                                  !.accepted = [version |-> version, runs |-> Len(runs)]]
  <2>1. [version |-> version, runs |-> Len(runs)] \in Mark
    BY WorkRequestAssumption DEF Mark, TypeOK, IInv
  <2>2. r \in RunRecord
    BY <2>1 DEF RunRecord, Review
  <2>3. runs' = [runs EXCEPT ![i] = r] /\ UNCHANGED <<revisions, primary>>
    BY <1>3 DEF AcceptResult
  <2>4. version = revisions[runs[i].revision].version /\ Len(runs) = i
    BY <1>3 DEF AcceptResult, Decidable, IsCurrentResult, CurrentByRun, CurrentByVersion
  <2>5. /\ r.revision = runs[i].revision /\ r.retry = runs[i].retry /\ r.phase = runs[i].phase
        /\ r.accepted = [version |-> revisions[runs[i].revision].version, runs |-> i]
    BY <2>4 DEF RunRecord
  <2> QED BY <2>2, <2>3, <2>5, RunChanged
<1>4. ASSUME NEW i \in RunNumber, NEW to \in Review \ {"AWAITING_ADMIN"},
             runs' = [runs EXCEPT ![i].review = to], UNCHANGED <<revisions, primary>>
      PROVE  RunParts'
  <2> DEFINE r == [runs[i] EXCEPT !.review = to]
  <2>1. /\ r \in RunRecord /\ r.revision = runs[i].revision /\ r.retry = runs[i].retry
        /\ r.phase = runs[i].phase /\ r.review = to
    BY DEF RunRecord
  <2>2. runs' = [runs EXCEPT ![i] = r]
    BY <1>4
  <2> QED BY <1>4, <2>1, <2>2, RunChanged
<1>5. ASSUME NEW i \in RunNumber, NEW end \in Phase,
             (RunStarts(i) /\ end = "working") \/ (RunEnds(i, end) /\ end \in Ended)
      PROVE  RunParts'
  <2> DEFINE r == [runs[i] EXCEPT !.phase = end]
  <2>1. /\ r \in RunRecord /\ r.revision = runs[i].revision /\ r.retry = runs[i].retry
        /\ r.phase = end /\ r.review = runs[i].review /\ r.accepted = runs[i].accepted
    BY DEF RunRecord
  <2>2. runs' = [runs EXCEPT ![i] = r] /\ UNCHANGED <<revisions, primary>>
    BY <1>5 DEF RunStarts, RunEnds
  <2>3. runs[i].phase \in Ended => end \in Ended
    BY <1>5 DEF RunStarts, Ended
  <2> QED BY <2>1, <2>2, <2>3, RunChanged
<1>6. ASSUME NEW b \in Tabs, ConfirmRevision(b) PROVE RunParts'
  <2>1. /\ Len(revisions') = Len(revisions) + 1 /\ \A n \in Numbers : revisions'[n] = revisions[n]
        /\ UNCHANGED <<runs, primary>>
    <3> DEFINE r == [version |-> version, text |-> draft, basis |-> basis, seen |-> tab[b]]
    <3>1. r \in Revision /\ revisions' = Append(revisions, r)
      BY <1>6 DEF ConfirmRevision, TypeOK, Revision, IInv
    <3> QED BY <1>6, <3>1, Added DEF ConfirmRevision, IInv, TypeOK, Numbers
  <2>2. Numbers \subseteq Numbers' /\ RunNumber' = RunNumber
    BY <2>1 DEF Numbers, RunNumber
  <2>3. Submissions'
    BY <2>1, <2>2 DEF IInv, Submissions
  <2>4. Marked'
    BY <2>1, <2>2 DEF IInv, Marked, Submissions
  <2> QED BY <2>3, <2>4 DEF RunParts
<1>7. ASSUME UNCHANGED <<runs, primary, revisions>> PROVE RunParts'
  BY <1>7 DEF RunParts, IInv, Submissions, Marked, Numbers, RunNumber
<1>8. ASSUME \/ \E t \in Texts : CreateDraft(t)
             \/ \E b \in Tabs : \/ LoadPage(b) \/ RefreshBasis(b) \/ Suggest(b)
                                \/ \E t \in Texts : SaveDraft(b, t)
                                \/ \E k \in 1..Len(suggestions) : ApplySuggestion(b, k)
             \/ \E k \in 1..Len(suggestions), t \in Texts : CompleteSuggestion(k, t)
             \/ ProjectChanges \/ UNCHANGED vars
      PROVE  RunParts'
  BY <1>7, <1>8 DEF CreateDraft, LoadPage, RefreshBasis, Suggest, SaveDraft, ApplySuggestion,
     CompleteSuggestion, ProjectChanges, vars
<1>9. ASSUME NEW i \in RunNumber, NEW to \in Review, ReworkResult(i) \/ DecideResult(i, to) PROVE RunParts'
  <2>1. CASE ReworkResult(i)
    <3>1. "CHANGES_REQUESTED" \in Review \ {"AWAITING_ADMIN"}
      BY DEF Review
    <3> QED BY <1>4, <2>1, <3>1 DEF ReworkResult
  <2>2. CASE DecideResult(i, to)
    <3>1. to \in Review \ {"AWAITING_ADMIN"}
      BY <2>2 DEF DecideResult
    <3> QED BY <1>4, <2>2, <3>1 DEF DecideResult
  <2> QED BY <1>9, <2>1, <2>2
<1>10. CASE DraftStep
  BY <1>6, <1>8, <1>10 DEF DraftStep
<1>11. CASE SubmitStep
  BY <1>1, <1>2, <1>11 DEF SubmitStep
<1>12. CASE ReviewStep
  <2>1. PICK i \in RunNumber : AcceptResult(i) \/ ReworkResult(i) \/ \E to \in Review : DecideResult(i, to)
    BY <1>12 DEF ReviewStep
  <2>2. CASE AcceptResult(i)
    BY <1>3, <2>2
  <2>3. CASE ReworkResult(i)
    BY <1>9, <2>3, "APPROVED" \in Review DEF Review
  <2>4. CASE \E to \in Review : DecideResult(i, to)
    BY <1>9, <2>4
  <2> QED BY <2>1, <2>2, <2>3, <2>4
<1>13. CASE WorkerStep
  <2>1. CASE \E k \in 1..Len(suggestions), t \in Texts : CompleteSuggestion(k, t)
    BY <1>8, <2>1
  <2>2. ASSUME NEW i \in RunNumber, RunStarts(i) PROVE RunParts'
    <3>1. "working" \in Phase
      BY DEF Phase
    <3> QED BY <1>5, <2>2, <3>1
  <2>3. ASSUME NEW i \in RunNumber, NEW end \in Ended, RunEnds(i, end) PROVE RunParts'
    BY <1>5, <2>3, end \in Phase DEF Phase
  <2> QED BY <1>13, <2>1, <2>2, <2>3 DEF WorkerStep
<1> QED
  BY <1>8, <1>10, <1>11, <1>12, <1>13 DEF Next

-----------------------------------------------------------------------------
(* Theorems *)

LEMMA InvInit == Init => IInv
<1> SUFFICES ASSUME Init PROVE IInv
  OBVIOUS
<1>1. Len(revisions) = 0 /\ Len(runs) = 0 /\ Len(suggestions) = 0
  BY DEF Init
<1>2. revisions \in Seq(Revision) /\ runs \in Seq(RunRecord) /\ suggestions \in Seq(Suggestion)
  BY DEF Init
<1>3. TypeOK
  BY <1>1, <1>2, WorkRequestAssumption DEF Init, TypeOK, Versions, Page, Numbers
<1> QED
  BY <1>1, <1>3, WorkRequestAssumption DEF Init, IInv, Versioned, PageOfVersion, SourceOfVersion,
     StateIsOfThisDraft, ConfirmedAsSeen, Submissions, Marked, Numbers, RunNumber

\* The inductive invariant: whatever carries the version of the draft carries
\* its text, and submissions, runs and marks point at each other.
THEOREM IInvariant == Spec => []IInv
<1>1. IInv /\ [Next]_vars => IInv'
  BY TypeStep, DraftStepKeeps, RunStepKeeps DEF IInv, DraftParts, RunParts
<1> QED
  BY InvInit, <1>1, PTL DEF Spec

\* Types are kept, and each revision has a version of its own.
THEOREM TypeCorrect == Spec => []TypeOK
  BY IInvariant, PTL DEF IInv

\* READY and SUBMITTED are said of the draft as it is.
THEOREM StateOfThisDraft == Spec => []StateIsOfThisDraft
  BY IInvariant, PTL DEF IInv

\* Each revision is the page that was confirmed.
THEOREM RevisionIsWhatWasSeen == Spec => []ConfirmedAsSeen
  BY IInvariant, PTL DEF IInv

\* A revision is submitted once and one run is active at a time.
THEOREM OneSubmission == Spec => []SubmittedOnce
<1>1. IInv => SubmittedOnce
  <2> SUFFICES ASSUME IInv PROVE SubmittedOnce
    OBVIOUS
  <2>1. \A i \in RunNumber : runs[i].revision \in 1..MaxVersion
    BY Rows DEF IInv, RunRecord
  <2>2. \A i, j \in RunNumber : i # j /\ ~runs[i].retry /\ ~runs[j].retry => runs[i].revision # runs[j].revision
    BY DEF IInv, Submissions
  <2> QED
    BY <2>1, <2>2 DEF IInv, Submissions, SubmittedOnce
<1> QED
  BY IInvariant, <1>1, PTL

\* A suggestion replaces the text it was made from.
THEOREM SuggestionSeesItsSource == Spec => SuggestionOverwritesItsSource
<1>1. ASSUME IInv, [Next]_vars
      PROVE  [\A s \in 1..Len(suggestions) :
                suggestions'[s].applied /\ ~suggestions[s].applied => draft = suggestions[s].from]_vars
  <2> DEFINE Good == \A s \in 1..Len(suggestions) :
                       suggestions'[s].applied /\ ~suggestions[s].applied => draft = suggestions[s].from
  <2>0. TypeOK
    BY <1>1 DEF IInv
  <2> USE <2>0, Rows
  <2>1. ASSUME NEW k \in 1..Len(suggestions), NEW b \in Tabs, ApplySuggestion(b, k) PROVE Good
    <3>1. suggestions[k].version = version
      BY <2>1 DEF ApplySuggestion, ApplicableNow
    <3>2. draft = suggestions[k].from
      BY <1>1, <3>1 DEF IInv, SourceOfVersion
    <3>3. \A i \in 1..Len(suggestions) : i # k => suggestions'[i] = suggestions[i]
      BY <2>1 DEF ApplySuggestion, TypeOK
    <3> QED BY <3>2, <3>3
  <2>2. ASSUME NEW k \in 1..Len(suggestions), NEW t \in Texts, CompleteSuggestion(k, t) PROVE Good
    <3>1. suggestions' = [suggestions EXCEPT ![k] = [suggestions[k] EXCEPT !.text = t]]
      BY <2>2 DEF CompleteSuggestion
    <3>2. [suggestions[k] EXCEPT !.text = t] \in Suggestion
          /\ [suggestions[k] EXCEPT !.text = t].applied = suggestions[k].applied
      BY DEF Suggestion
    <3> QED BY <3>1, <3>2, Updated DEF TypeOK
  <2>3. ASSUME NEW v, NEW t, AddSuggestion(v, t) PROVE Good
    BY <2>3 DEF AddSuggestion, TypeOK
  <2>4. CASE UNCHANGED suggestions
    BY <2>4
  <2>5. ASSUME ~(\E k \in 1..Len(suggestions), b \in Tabs : ApplySuggestion(b, k)),
               ~(\E k \in 1..Len(suggestions), t \in Texts : CompleteSuggestion(k, t)),
               ~(\E v \in Versions, t \in Texts \cup {Nothing} : AddSuggestion(v, t))
        PROVE  UNCHANGED suggestions
    <3>1. ASSUME NEW t \in Texts PROVE ~CreateDraft(t)
      BY <2>5, WorkRequestAssumption DEF CreateDraft, Versions
    <3>2. ASSUME NEW b \in Tabs PROVE ~Suggest(b)
      BY <2>5 DEF Suggest, TypeOK
    <3> QED
      BY <1>1, <2>5, <3>1, <3>2 DEF Next, DraftStep, SubmitStep, ReviewStep, WorkerStep, LoadPage, RefreshBasis,
         ConfirmRevision, SaveDraft, Submit, RetryRun, AcceptResult, ReworkResult, DecideResult, RunStarts,
         RunEnds, ProjectChanges, vars
  <2> QED
    BY <2>1, <2>2, <2>3, <2>4, <2>5
<1> QED
  BY IInvariant, <1>1, PTL DEF Spec, SuggestionOverwritesItsSource

\* Which steps change reviews: those of decide_result, each for one run.
LEMMA ReviewChange ==
  ASSUME IInv, [Next]_vars, NEW i \in RunNumber, runs'[i].review # runs[i].review
  PROVE  \/ AcceptResult(i) /\ runs'[i].review = "AWAITING_ADMIN"
         \/ ReworkResult(i) /\ runs'[i].review = "CHANGES_REQUESTED"
         \/ \E to \in Review : DecideResult(i, to) /\ runs'[i].review = to
<1>0. TypeOK
  BY DEF IInv
<1> USE <1>0, Rows
<1>1. ASSUME NEW n, NEW retry, AddRun(n, retry) PROVE runs'[i] = runs[i]
  BY <1>1 DEF AddRun, TypeOK, RunNumber
<1>2. ASSUME NEW j \in RunNumber, NEW end, runs' = [runs EXCEPT ![j].phase = end]
      PROVE  runs'[i].review = runs[i].review
  <2>1. [runs[j] EXCEPT !.phase = end].review = runs[j].review
    BY DEF RunRecord
  <2> QED BY <1>2, <2>1 DEF TypeOK, RunNumber
<1>3. ASSUME NEW j \in RunNumber, NEW to, runs' = [runs EXCEPT ![j].review = to]
      PROVE  j = i /\ runs'[i].review = to
  <2>1. [runs[j] EXCEPT !.review = to].review = to
    BY DEF RunRecord
  <2> QED BY <1>3, <2>1 DEF TypeOK, RunNumber
<1>4. ASSUME NEW j \in RunNumber, AcceptResult(j) PROVE j = i /\ runs'[i].review = "AWAITING_ADMIN"
  <2> DEFINE r == [runs[j] EXCEPT !.review = "AWAITING_ADMIN",
                                  !.accepted = [version |-> version, runs |-> Len(runs)]]
  <2>1. r.review = "AWAITING_ADMIN" /\ runs' = [runs EXCEPT ![j] = r]
    BY <1>4 DEF RunRecord, AcceptResult
  <2> QED BY <2>1 DEF TypeOK, RunNumber
<1>5. CASE SubmitStep
  BY <1>1, <1>5 DEF SubmitStep, Submit, RetryRun
<1>6. CASE ReviewStep
  BY <1>3, <1>4, <1>6 DEF ReviewStep, ReworkResult, DecideResult
<1>7. CASE \E j \in RunNumber : RunStarts(j) \/ (\E end \in Ended : RunEnds(j, end))
  BY <1>2, <1>7 DEF RunStarts, RunEnds
<1>8. CASE DraftStep
  BY <1>8 DEF DraftStep, CreateDraft, LoadPage, RefreshBasis, ConfirmRevision, Suggest, SaveDraft, ApplySuggestion
<1>9. CASE ProjectChanges \/ UNCHANGED vars \/ \E k \in 1..Len(suggestions), t \in Texts : CompleteSuggestion(k, t)
  BY <1>9 DEF ProjectChanges, vars, CompleteSuggestion
<1> QED
  BY <1>5, <1>6, <1>7, <1>8, <1>9 DEF Next, WorkerStep

\* A request for rework replaces the revision's own text.
THEOREM ReworkKeepsEdits == Spec => ReworkLosesNothing
<1>1. ASSUME IInv, [Next]_vars
      PROVE  [\A i \in RunNumber :
                runs'[i].review = "CHANGES_REQUESTED" /\ runs[i].review # "CHANGES_REQUESTED"
                  => draft = revisions[runs[i].revision].text]_vars
  <2>1. ASSUME NEW i \in RunNumber,
               runs'[i].review = "CHANGES_REQUESTED" /\ runs[i].review # "CHANGES_REQUESTED"
        PROVE  draft = revisions[runs[i].revision].text
    <3>1. revisions[runs[i].revision].version = version
      BY <1>1, <2>1, ReviewChange DEF ReworkResult, DecideResult, Decidable, IsCurrentResult, CurrentByVersion
    <3> QED
      BY <1>1, <3>1 DEF IInv, Versioned, Submissions
  <2> QED BY <2>1
<1> QED
  BY IInvariant, <1>1, PTL DEF Spec, ReworkLosesNothing

\* An approval is of what the owner accepted: no other draft, no other run since.
THEOREM ApprovalIsOfTheAccepted == Spec => ApprovedAsAccepted
<1>1. ASSUME IInv, [Next]_vars
      PROVE  [\A i \in RunNumber :
                runs'[i].review = "APPROVED" /\ runs[i].review # "APPROVED"
                  => runs[i].accepted = [version |-> version, runs |-> Len(runs)]]_vars
  <2>1. ASSUME NEW i \in RunNumber, runs'[i].review = "APPROVED" /\ runs[i].review # "APPROVED"
        PROVE  runs[i].accepted = [version |-> version, runs |-> Len(runs)]
    <3>1. /\ revisions[runs[i].revision].version = version /\ i = Len(runs)
          /\ runs[i].review = "AWAITING_ADMIN"
      BY <1>1, <2>1, ReviewChange DEF DecideResult, Decidable, IsCurrentResult, CurrentByRun, CurrentByVersion
    <3> QED
      BY <1>1, <3>1 DEF IInv, Marked
  <2> QED BY <2>1
<1> QED
  BY IInvariant, <1>1, PTL DEF Spec, ApprovedAsAccepted
=============================================================================
