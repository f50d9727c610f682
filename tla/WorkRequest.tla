----------------------------- MODULE WorkRequest -----------------------------
(***************************************************************************)
(* One work request (apps/work_requests/services.py): its draft with a     *)
(* version, the revisions its owner confirms, the submission of a          *)
(* revision as a run (_create, retry_run of apps/runs/services.py),        *)
(* suggestions the model makes for the draft, and the review of results    *)
(* (apps/artifacts/reviews.py).                                            *)
(*                                                                         *)
(* Requests come from browser tabs that may show an old state of the       *)
(* request. The texts of a draft are one value; "basis" is the project's   *)
(* configuration version and base commit together. A run is waiting,       *)
(* working or ended; how it gets there is RunWorker. Each                  *)
(* @transaction.atomic function is one step; a refusal, a key that was     *)
(* used before and a revision that was submitted before change nothing     *)
(* and are not a step.                                                     *)
(***************************************************************************)
EXTENDS Naturals, Sequences

CONSTANTS
  Texts,          \* contents of a draft
  Reworded,       \* Reworded[t] is t with a request for rework added
  Tabs,           \* browser tabs of the owner
  Nothing,
  MaxVersion,     \* bound on draft versions
  MaxBasis,       \* bound on bases, from 0
  MaxRuns,        \* bound on runs
  MaxSuggestions  \* bound on suggestions

ASSUME WorkRequestAssumption ==
  /\ Reworded \in [Texts -> Texts] /\ Nothing \notin Texts \cup Nat
  /\ MaxVersion \in Nat /\ MaxBasis \in Nat /\ MaxRuns \in Nat /\ MaxSuggestions \in Nat

VARIABLES
  state, version, draft,     \* WorkRequest; version 0: not created yet
  ready,                     \*   number of ready_revision, 0 for none
  revisions,                 \* RequestRevision, by number
  primary,                   \* RequestSubmission: revision |-> its run, 0 for none
  runs,                      \* Run, by creation, each with its review
  suggestions,               \* RevisionSuggestion with its invocation
  basis,                     \* the project's configuration and base commit
  tab                        \* what each tab shows

requestVars == <<state, version, draft, ready>>
vars == <<requestVars, revisions, primary, runs, suggestions, basis, tab>>

-----------------------------------------------------------------------------
Ended   == {"SUCCEEDED", "FAILED"}      \* FAILED for every other end of a run
Phase   == {"waiting", "working"} \cup Ended
Review  == {"PENDING_USER", "AWAITING_ADMIN", "CHANGES_REQUESTED", "APPROVED", "REJECTED"}
Versions == 0..MaxVersion

\* A page that was loaded: draft, version and confirmation basis.
Page == [version : Versions, text : Texts \cup {Nothing}, basis : 0..MaxBasis]

\* "seen" is the page the owner confirmed; "accepted" what was the newest
\* draft and run when the owner accepted the result.
Revision   == [version : Versions, text : Texts \cup {Nothing}, basis : 0..MaxBasis, seen : Page]
Mark       == [version : Versions, runs : 0..MaxRuns]
RunRecord  == [revision : 1..MaxVersion, retry : BOOLEAN, phase : Phase,
               review : Review, accepted : Mark]
\* "from" is the draft the suggestion was made from; without a text it is asked
\* for, or will never come because the call failed.
Suggestion == [version : Versions, from : Texts \cup {Nothing}, text : Texts \cup {Nothing},
               applied : BOOLEAN]

Numbers   == 1..Len(revisions)
RunNumber == 1..Len(runs)

Init ==
  /\ state = "DRAFT" /\ version = 0 /\ draft = Nothing /\ ready = 0
  /\ revisions = <<>>
  /\ primary = [n \in 1..MaxVersion |-> 0]
  /\ runs = <<>> /\ suggestions = <<>>
  /\ basis = 0
  /\ tab = [t \in Tabs |-> [version |-> 0, text |-> Nothing, basis |-> 0]]

-----------------------------------------------------------------------------
(* Drafts *)

AnyVersion(expected) == TRUE
\* _assert_version; a draft that does not exist has no version.
SameVersion(expected) == version = expected /\ version # 0

ResetKeepsReady == UNCHANGED <<state, ready>>
\* A changed draft is not confirmed any more.
Reset == state' = "DRAFT" /\ ready' = 0

NextVersion == version < MaxVersion /\ version' = version + 1

\* The draft is replaced by t.
Replace(t) == NextVersion /\ draft' = t /\ Reset

AddSuggestion(v, t) ==
  /\ Len(suggestions) < MaxSuggestions
  /\ suggestions' = Append(suggestions,
       [version |-> v, from |-> t, text |-> Nothing, applied |-> FALSE])

\* create_or_get_draft, which asks for a first suggestion.
CreateDraft(t) ==
  /\ version = 0 /\ MaxVersion > 0
  /\ version' = 1 /\ draft' = t
  /\ AddSuggestion(1, t)
  /\ UNCHANGED <<state, ready, revisions, primary, runs, basis, tab>>

\* The view reads the draft first and the basis then.  A page is of use only
\* while the draft has the version it shows, so nothing is lost by one step.
LoadPage(b) ==
  /\ version # 0
  /\ tab' = [tab EXCEPT ![b] = [version |-> version, text |-> draft, basis |-> basis]]
  /\ UNCHANGED <<requestVars, revisions, primary, runs, suggestions, basis>>

SaveDraft(b, t) ==
  /\ SameVersion(tab[b].version)
  /\ Replace(t)
  /\ UNCHANGED <<revisions, primary, runs, suggestions, basis, tab>>

\* refresh_basis: the same text, to be confirmed on the basis of today.
RefreshBasis(b) ==
  /\ SameVersion(tab[b].version)
  /\ NextVersion /\ Reset
  /\ UNCHANGED <<draft, revisions, primary, runs, suggestions, basis, tab>>

-----------------------------------------------------------------------------
(* Revisions and submission *)

AskedEachTime == TRUE
\* No revision was made of the draft as it is.
Unconfirmed == \A n \in Numbers : revisions[n].version # version

\* confirm_revision; confirming a version again returns its revision.
ConfirmRevision(b) ==
  /\ SameVersion(tab[b].version) /\ tab[b].basis = basis
  /\ Unconfirmed
  /\ revisions' = Append(revisions,
       [version |-> version, text |-> draft, basis |-> basis, seen |-> tab[b]])
  /\ state' = "READY" /\ ready' = Len(revisions) + 1
  /\ UNCHANGED <<version, draft, primary, runs, suggestions, basis, tab>>

AnyRunWorking == \E i \in RunNumber : runs[i].phase = "working"
\* A run of the request has not ended.
AnyRunActive == \E i \in RunNumber : runs[i].phase \notin Ended

\* _create, once its checks have passed.
AddRun(n, retry) ==
  /\ Len(runs) < MaxRuns
  /\ runs' = Append(runs, [revision |-> n, retry |-> retry, phase |-> "waiting",
       review |-> "PENDING_USER", accepted |-> [version |-> 0, runs |-> 0]])

\* submit: the revision that is ready, and was not submitted before.
Submit(n) ==
  /\ primary[n] = 0
  /\ state = "READY" /\ ready = n
  /\ ~AnyRunActive
  /\ revisions[n].basis = basis
  /\ AddRun(n, FALSE)
  /\ primary' = [primary EXCEPT ![n] = Len(runs) + 1]
  /\ state' = "SUBMITTED"
  /\ UNCHANGED <<version, draft, ready, revisions, suggestions, basis, tab>>

\* retry_run: the revision of run i once more, also when it is not the newest.
RetryRun(i) ==
  /\ runs[i].phase \in Ended
  /\ ~AnyRunActive
  /\ revisions[runs[i].revision].basis = basis
  /\ AddRun(runs[i].revision, TRUE)
  /\ UNCHANGED <<requestVars, revisions, primary, suggestions, basis, tab>>

-----------------------------------------------------------------------------
(* Suggestions *)

\* suggest_revision
Suggest(b) ==
  /\ SameVersion(tab[b].version)
  /\ AddSuggestion(version, draft)
  /\ UNCHANGED <<requestVars, revisions, primary, runs, basis, tab>>

\* complete_suggestion, called when the answer of the model is committed; a
\* failed call, or an answer that is no draft, leaves the suggestion as it is.
CompleteSuggestion(s, t) ==
  /\ suggestions[s].text = Nothing
  /\ suggestions' = [suggestions EXCEPT ![s].text = t]
  /\ UNCHANGED <<requestVars, revisions, primary, runs, basis, tab>>

Applicable(s)        == suggestions[s].text # Nothing /\ ~suggestions[s].applied
ApplicableAnytime(s) == Applicable(s)
\* apply_suggestion takes a suggestion made for this version only.
ApplicableNow(s)     == Applicable(s) /\ suggestions[s].version = version

ApplySuggestion(b, s) ==
  /\ SameVersion(tab[b].version) /\ ApplicableNow(s)
  /\ Replace(suggestions[s].text)
  /\ suggestions' = [suggestions EXCEPT ![s].applied = TRUE]
  /\ UNCHANGED <<revisions, primary, runs, basis, tab>>

-----------------------------------------------------------------------------
(* decide_result *)

CurrentByRun(i)     == i = Len(runs)
CurrentByVersion(i) == revisions[runs[i].revision].version = version
\* is_current_result: of the newest run, and of the draft as it is.
IsCurrentResult(i)  == CurrentByRun(i) /\ CurrentByVersion(i)

Decidable(i, from) ==
  IsCurrentResult(i) /\ runs[i].phase = "SUCCEEDED" /\ runs[i].review \in from

AcceptResult(i) ==
  /\ Decidable(i, {"PENDING_USER"})
  /\ runs' = [runs EXCEPT ![i].review = "AWAITING_ADMIN",
                          ![i].accepted = [version |-> version, runs |-> Len(runs)]]
  /\ UNCHANGED <<requestVars, revisions, primary, suggestions, basis, tab>>

\* The text of the revision, and not the draft's, is what is reworded.
ReworkResult(i) ==
  /\ Decidable(i, {"PENDING_USER", "REJECTED"})
  /\ runs' = [runs EXCEPT ![i].review = "CHANGES_REQUESTED"]
  /\ Replace(Reworded[revisions[runs[i].revision].text])
  /\ UNCHANGED <<revisions, primary, suggestions, basis, tab>>

DecideResult(i, to) ==
  /\ to \in {"APPROVED", "REJECTED"}
  /\ Decidable(i, {"AWAITING_ADMIN"})
  /\ runs' = [runs EXCEPT ![i].review = to]
  /\ UNCHANGED <<requestVars, revisions, primary, suggestions, basis, tab>>

-----------------------------------------------------------------------------
(* The rest of the system *)

\* The configuration is changed or the base commit moves, perhaps back.
ProjectChanges ==
  /\ \E now \in 0..MaxBasis : now # basis /\ basis' = now
  /\ UNCHANGED <<requestVars, revisions, primary, runs, suggestions, tab>>

\* execute_run asks for the basis once more before it works on anything.
RunStarts(i) ==
  /\ runs[i].phase = "waiting"
  /\ revisions[runs[i].revision].basis = basis
  /\ runs' = [runs EXCEPT ![i].phase = "working"]
  /\ UNCHANGED <<requestVars, revisions, primary, suggestions, basis, tab>>

RunEnds(i, end) ==
  /\ runs[i].phase = "working" \/ (runs[i].phase = "waiting" /\ end = "FAILED")
  /\ runs' = [runs EXCEPT ![i].phase = end]
  /\ UNCHANGED <<requestVars, revisions, primary, suggestions, basis, tab>>

-----------------------------------------------------------------------------
DraftStep ==
  \/ \E t \in Texts : CreateDraft(t)
  \/ \E b \in Tabs : \/ LoadPage(b) \/ RefreshBasis(b) \/ ConfirmRevision(b) \/ Suggest(b)
                     \/ \E t \in Texts : SaveDraft(b, t)
                     \/ \E s \in 1..Len(suggestions) : ApplySuggestion(b, s)

SubmitStep ==
  \/ \E n \in Numbers : Submit(n)
  \/ \E i \in RunNumber : RetryRun(i)

ReviewStep ==
  \E i \in RunNumber : \/ AcceptResult(i) \/ ReworkResult(i)
                       \/ \E to \in Review : DecideResult(i, to)

WorkerStep ==
  \/ \E s \in 1..Len(suggestions), t \in Texts : CompleteSuggestion(s, t)
  \/ \E i \in RunNumber : \/ RunStarts(i) \/ \E end \in Ended : RunEnds(i, end)

Next == DraftStep \/ SubmitStep \/ ReviewStep \/ WorkerStep \/ ProjectChanges

Spec == Init /\ [][Next]_vars

-----------------------------------------------------------------------------
(* What must hold *)

\* Types; revisions are numbered in the order of the versions they confirm, so
\* that each has a version of its own (confirm_revision).
TypeOK ==
  /\ state \in {"DRAFT", "READY", "SUBMITTED"} /\ version \in Versions
  /\ draft \in Texts \cup {Nothing} /\ ready \in 0..Len(revisions)
  /\ revisions \in Seq(Revision) /\ runs \in Seq(RunRecord) /\ suggestions \in Seq(Suggestion)
  /\ primary \in [1..MaxVersion -> 0..Len(runs)]
  /\ basis \in 0..MaxBasis /\ tab \in [Tabs -> Page]
  /\ Len(revisions) <= MaxVersion /\ Len(runs) <= MaxRuns
  /\ \A m, n \in Numbers : m < n => revisions[m].version < revisions[n].version

\* READY and SUBMITTED are said of the draft as it is: the revision that is
\* ready has its version and its text (save_draft, refresh_basis, rework and
\* suggestions against confirm_revision and submit).
StateIsOfThisDraft ==
  state # "DRAFT" =>
    /\ ready # 0 /\ revisions[ready].version = version /\ revisions[ready].text = draft
    /\ state = "SUBMITTED" <=> primary[ready] # 0

\* What is executed is what the owner saw: each revision is the page that was
\* confirmed, text and basis, whatever other tabs, suggestions, reviews or the
\* project's administrator did meanwhile.
ConfirmedAsSeen ==
  \A n \in Numbers : LET r == revisions[n] IN
    r.seen = [version |-> r.version, text |-> r.text, basis |-> r.basis]

\* A revision is submitted once, however often it is confirmed and reworked and
\* its runs are retried, and one run of the request is active at a time.
SubmittedOnce ==
  /\ \A i, j \in RunNumber : i # j =>
       /\ runs[i].phase \in Ended \/ runs[j].phase \in Ended
       /\ ~runs[i].retry /\ ~runs[j].retry => runs[i].revision # runs[j].revision
  /\ \A i \in RunNumber : LET n == runs[i].revision IN
       primary[n] # 0 /\ runs[primary[n]].revision = n /\ ~runs[primary[n]].retry

\* A suggestion replaces the very text it was made from, however late it comes.
SuggestionOverwritesItsSource ==
  [][\A s \in 1..Len(suggestions) :
       suggestions'[s].applied /\ ~suggestions[s].applied => draft = suggestions[s].from]_vars

\* A request for rework, which writes the revision's text into the draft, does
\* not lose an edit made since: the draft is that text.
ReworkLosesNothing ==
  [][\A i \in RunNumber :
       runs'[i].review = "CHANGES_REQUESTED" /\ runs[i].review # "CHANGES_REQUESTED"
         => draft = revisions[runs[i].revision].text]_vars

\* The administrator approves what the owner accepted: since then there was
\* neither another draft nor another run, not even of an older revision.
ApprovedAsAccepted ==
  [][\A i \in RunNumber :
       runs'[i].review = "APPROVED" /\ runs[i].review # "APPROVED"
         => runs[i].accepted = [version |-> version, runs |-> Len(runs)]]_vars
=============================================================================
