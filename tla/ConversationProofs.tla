-------------------------- MODULE ConversationProofs --------------------------
(***************************************************************************)
(* The safety properties of Conversation, for any number of accounts,      *)
(* projects, calls and crashes.                                            *)
(*                                                                         *)
(* That access goes with the work rests on one lemma about Accounts: the   *)
(* only write that takes access is one that revokes.  That a success is    *)
(* never taken back rests on where the handler is: only before its commit  *)
(* can it still write a failure, and until then its call has not ended     *)
(* well (InHand, JobHeld).                                                 *)
(***************************************************************************)
EXTENDS Conversation, TLAPS

\* The worker works on the job that is in the slot, and on no other.
InHand ==
  /\ ~At("idle") /\ ~At("down") => slot \in Calls
  /\ \A c \in Calls : job[c] = "RUNNING" <=> slot = c

\* What the states of a job and of its invocation have to do with each other.
JobHeld ==
  /\ \A c \in Calls : job[c] = "QUEUED" => state[c] = "QUEUED"
  /\ \A c \in Calls : state[c] = "NEW" => job[c] = "NONE" /\ c \notin answers
  /\ \A c \in Calls : state[c] # "NEW" => request[c].owner \in Users
  /\ At("start") \/ At("prepare") \/ At("ask") \/ At("commit") \/ At("refuse")
       => state[slot] # "SUCCEEDED"

IInv == TypeOK /\ AdminRemains /\ LiveWorkHasAccess /\ AnsweredIffSucceeded /\ InHand /\ JobHeld

-----------------------------------------------------------------------------
(* Lemmas about the definitions *)

\* Every change asked for is of one of the three kinds.
LEMMA AskKinds ==
  ASSUME NEW c \in Asks
  PROVE  \/ c.kind = "account" /\ c.role \in Roles /\ c.active \in BOOLEAN
         \/ c.kind = "membership" /\ c.project \in Projects /\ c.granted \in BOOLEAN
         \/ c.kind = "password"
  BY AskAssumption DEF AccountTo, MembershipTo, Reset

-----------------------------------------------------------------------------
(* Accounts *)

LEMMA WriteType ==
  ASSUME AccountsTypeOK, NEW a \in Users, NEW t \in Users, NEW c \in Asks, NEW v \in 0..MaxVersion, Write(a, t, c, v)
  PROVE  AccountsTypeOK'
<1>1. user[t] \in [role : Roles \cup {"NONE"}, active : BOOLEAN, must : BOOLEAN, version : 0..MaxVersion]
  BY DEF AccountsTypeOK
<1>2. user[t].version + 1 \in 0..MaxVersion
  BY VersionAssumption DEF Write, Accepted
<1>3. After(c, user[t]) \in [role : Roles \cup {"NONE"}, active : BOOLEAN, must : BOOLEAN, version : 0..MaxVersion]
  BY <1>1, <1>2, AskKinds, Zenon DEF After
<1>4. user' \in [Users -> [role : Roles \cup {"NONE"}, active : BOOLEAN, must : BOOLEAN, version : 0..MaxVersion]]
  BY <1>3 DEF AccountsTypeOK, Write
<1>5. member' \subseteq Users \X Projects
  BY AskKinds DEF AccountsTypeOK, Write
<1> QED
  BY <1>4, <1>5 DEF AccountsTypeOK

LEMMA StepType ==
  ASSUME AccountsTypeOK, AccountStep
  PROVE  AccountsTypeOK'
<1> DEFINE Row == [role : Roles \cup {"NONE"}, active : BOOLEAN, must : BOOLEAN, version : 0..MaxVersion]
<1>1. \A u \in Users : user[u] \in Row
  BY DEF AccountsTypeOK
<1>2. ASSUME NEW a \in Users, NEW u \in Users, NEW r \in Roles, CreateAccount(a, u, r)
      PROVE  AccountsTypeOK'
  <2>1. [role |-> r, active |-> TRUE, must |-> TRUE, version |-> 0] \in Row
    BY VersionAssumption
  <2> QED
    BY <1>2, <2>1 DEF AccountsTypeOK, CreateAccount
<1>3. ASSUME NEW u \in Users, ChangePassword(u)
      PROVE  AccountsTypeOK'
  <2>1. [role |-> Role(u), active |-> TRUE, must |-> FALSE, version |-> user[u].version + 1] \in Row
    BY <1>1, <1>3, VersionAssumption DEF ChangePassword, Role
  <2> QED
    BY <1>3, <2>1 DEF AccountsTypeOK, ChangePassword
<1> QED
  BY <1>2, <1>3 DEF AccountStep

\* The condition another_admin: whoever is changed, an administrator is left.
LEMMA WriteKeepsAdmin ==
  ASSUME AccountsTypeOK, AdminRemains, NEW a \in Users, NEW t \in Users, NEW c \in Asks,
         NEW v \in 0..MaxVersion, Write(a, t, c, v)
  PROVE  AdminRemains'
<1>1. \A u \in Users \ {t} : user'[u] = user[u]
  BY DEF Write, AccountsTypeOK
<1>2. user'[t] = After(c, user[t])
  BY DEF Write, AccountsTypeOK
<1>3. CASE EndsAdmin(c) /\ Role(t) = "ADMIN" /\ user[t].active
  BY <1>1, <1>3 DEF Write, Accepted, AnotherAdmin, AdminRemains, Role
<1>4. CASE EndsAdmin(c) /\ ~(Role(t) = "ADMIN" /\ user[t].active)
  BY <1>1, <1>4 DEF AdminRemains, Role
<1>5. CASE ~EndsAdmin(c)
  BY <1>1, <1>2, <1>5 DEF AdminRemains, Role, EndsAdmin, After
<1> QED
  BY <1>3, <1>4, <1>5

\* No write takes the access to a project from an account without revoking the
\* work of this account in this project.
LEMMA LossIsRevoked ==
  ASSUME AccountsTypeOK, NEW a \in Users, NEW t \in Users, NEW c \in Asks, NEW v \in 0..MaxVersion,
         Write(a, t, c, v), NEW u \in Users, NEW p \in Projects, HasAccess(u, p), ~HasAccess(u, p)'
  PROVE  u = t /\ Revokes(t, c, p)
<1>1. \A x \in Users \ {t} : user'[x] = user[x] /\ (<<x, p>> \in member' <=> <<x, p>> \in member)
  BY DEF Write, AccountsTypeOK
<1>2. user'[t] = After(c, user[t])
  BY DEF Write, AccountsTypeOK
<1>3. u = t
  BY <1>1 DEF HasAccess, Usable, Exists, Role
<1>4. CASE c.kind = "account"
  <2>1. c.role \in Roles /\ c.active \in BOOLEAN
    BY <1>4, AskKinds
  <2>2. member' = member
    BY <1>4 DEF Write
  <2> QED
    BY <1>2, <1>3, <1>4, <2>1, <2>2 DEF HasAccess, Usable, Exists, Role, Roles, After, Revokes, RevokesButDemotion,
       AccountsTypeOK
<1>5. CASE c.kind = "membership"
  <2>1. user'[t].role = user[t].role /\ user'[t].active = user[t].active /\ user'[t].must = user[t].must
    BY <1>2, <1>5 DEF After, AccountsTypeOK
  <2> QED
    BY <1>3, <1>5, <2>1, AskKinds DEF HasAccess, Usable, Exists, Role, Write, Revokes, RevokesButDemotion
<1>6. CASE c.kind = "password"
  BY <1>3, <1>6 DEF Revokes, RevokesButDemotion
<1> QED
  BY <1>3, <1>4, <1>5, <1>6, AskKinds

LEMMA StepKeepsAccess ==
  ASSUME AccountsTypeOK, AccountStep, NEW u \in Users, NEW p \in Projects, HasAccess(u, p)
  PROVE  HasAccess(u, p)'
  BY DEF AccountStep, CreateAccount, ChangePassword, HasAccess, Usable, Exists, Role, AccountsTypeOK

LEMMA StepKeepsAdmin == ASSUME AccountsTypeOK, AdminRemains, AccountStep PROVE AdminRemains'
  BY DEF AccountStep, CreateAccount, ChangePassword, AdminRemains, Exists, Role, AccountsTypeOK

-----------------------------------------------------------------------------
(* Types *)

Requests == [purpose : {"conversation", "model_validation"}, owner : Users \cup {"nobody"},
             project : Scopes, message : 0..MaxCalls]

LEMMA TypeInit == Init => TypeOK
<1> SUFFICES ASSUME Init PROVE TypeOK
  OBVIOUS
<1>1. AccountsTypeOK
  <2> DEFINE Row == [role : Roles \cup {"NONE"}, active : BOOLEAN, must : BOOLEAN, version : 0..MaxVersion]
  <2>1. member \subseteq Users \X Projects
    BY DEF Init, AccountsInit
  <2>2. \A r \in Roles \cup {"NONE"} : [role |-> r, active |-> TRUE, must |-> FALSE, version |-> 0] \in Row
    BY VersionAssumption
  <2>3. user \in [Users -> Row]
    <3> HIDE DEF Row
    <3>1. user \in [Users -> {[role |-> r, active |-> TRUE, must |-> FALSE, version |-> 0] :
                              r \in Roles \cup {"NONE"}}]
      BY DEF Init, AccountsInit
    <3>2. {[role |-> r, active |-> TRUE, must |-> FALSE, version |-> 0] : r \in Roles \cup {"NONE"}} \subseteq Row
      BY <2>2, Zenon
    <3> QED
      BY <3>1, <3>2
  <2> QED
    BY <2>1, <2>3 DEF AccountsTypeOK
<1>2. NoRequest \in Requests
  BY CallAssumption DEF NoRequest, Requests, Scopes
<1>3. leased \in BOOLEAN
  BY Zenon DEF Init
<1> QED
  BY <1>1, <1>2, <1>3, CallAssumption DEF Init, TypeOK, Requests

\* What Enqueue leaves, whoever asks.
LEMMA EnqueueType ==
  ASSUME TypeOK, NEW c \in Calls, NEW purpose \in {"conversation", "model_validation"},
         NEW u \in Users \cup {"nobody"}, NEW p \in Scopes, NEW n \in 0..MaxCalls, Enqueue(c, purpose, u, p, n),
         UNCHANGED <<accountVars, archived, answers, workerVars>>, profile' \in {profile, "QUEUED"}
  PROVE  TypeOK'
<1>1. request' \in [Calls -> Requests]
  BY DEF TypeOK, Enqueue, Requests
<1> QED
  BY <1>1 DEF TypeOK, Enqueue, Requests, accountVars, workerVars, AccountsTypeOK

LEMMA TypeNext == TypeOK /\ InHand /\ Next => TypeOK'
<1> SUFFICES ASSUME TypeOK, InHand, Next PROVE TypeOK'
  OBVIOUS
<1> USE DEF TypeOK
<1>1. CASE AccountStep
  BY <1>1, StepType DEF AccountStep, chatVars, callVars, workerVars
<1>2. ASSUME NEW u \in Users, NEW p \in Projects, Send(u, p)
      PROVE  TypeOK'
  BY <1>2, EnqueueType, CallAssumption DEF Send, Scopes, Calls, chatVars
<1>3. ASSUME NEW c \in Calls, RetryResponse(c)
      PROVE  TypeOK'
  <2>1. request[c] \in Requests
    BY DEF Requests
  <2> QED
    BY <1>3, <2>1, EnqueueType DEF RetryResponse, Requests, chatVars
<1>4. ASSUME NEW u \in Users, ValidateProfile(u)
      PROVE  TypeOK'
  <2>1. PICK c \in Calls : Enqueue(c, "model_validation", u, NoProject, 0)
    BY <1>4 DEF ValidateProfile
  <2>2. UNCHANGED <<accountVars, archived, answers, workerVars>> /\ profile' = "QUEUED"
    BY <1>4 DEF ValidateProfile
  <2>3. NoProject \in Scopes /\ 0 \in 0..MaxCalls
    BY CallAssumption DEF Scopes
  <2> QED
    BY <2>1, <2>2, <2>3, EnqueueType
<1>5. ASSUME NEW u \in Users, NEW p \in Projects, SetProjectState(u, p)
      PROVE  TypeOK'
  BY <1>5 DEF SetProjectState, accountVars, callVars, workerVars, AccountsTypeOK
<1>6. ASSUME NEW a \in Users, NEW t \in Users, NEW c \in Asks, NEW v \in 0..MaxVersion, Change(a, t, c, v)
      PROVE  TypeOK'
  <2>1. AccountsTypeOK'
    BY <1>6, WriteType DEF Change
  <2> QED
    BY <1>6, <2>1 DEF Change, Revoked, chatVars, workerVars
<1>7. CASE Claim
  BY <1>7 DEF Claim, Goto, accountVars, chatVars, AccountsTypeOK
<1>8. CASE Start \/ Prepare \/ AskModel \/ Commit \/ Refuse
  BY <1>8 DEF Start, Prepare, AskModel, Commit, Refuse, Invocation, At, InHand, Goto, accountVars, chatVars, callVars,
     AccountsTypeOK, Ended
<1>9. CASE Close
  <2>1. slot \in Calls /\ Lost(state[slot]) \in {"NEW", "QUEUED", "RUNNING"} \cup Ended
    BY <1>9 DEF Close, At, InHand, Lost, Ended
  <2> QED
    BY <1>9, <2>1 DEF Close, Invocation, Goto, accountVars, chatVars, AccountsTypeOK
<1>10. CASE Release
  <2>1. leased' \in BOOLEAN
    BY <1>10, Zenon DEF Release, Free
  <2> QED
    BY <1>10, <2>1 DEF Release, Free, At, InHand, Goto, accountVars, chatVars, AccountsTypeOK
<1>11. CASE LeaseLapses \/ Crash
  <2>1. leased' \in BOOLEAN
    BY <1>11, Zenon DEF LeaseLapses, Crash
  <2> QED
    BY <1>11, <2>1, CallAssumption DEF LeaseLapses, Crash, Goto, accountVars, chatVars, callVars, AccountsTypeOK
<1>12. CASE Restart
  <2>1. leased' \in BOOLEAN
    BY <1>12, Zenon DEF Restart, Free
  <2>2. slot # 0 => Lost(state[slot]) \in {"NEW", "QUEUED", "RUNNING"} \cup Ended
    BY DEF Lost, Ended
  <2> QED
    BY <1>12, <2>1, <2>2 DEF Restart, Free, Goto, accountVars, chatVars, AccountsTypeOK
<1> QED
  BY <1>1, <1>2, <1>3, <1>4, <1>5, <1>6, <1>7, <1>8, <1>9, <1>10, <1>11, <1>12 DEF Next

-----------------------------------------------------------------------------
(* Access, and the outcome *)

\* The worker's steps touch no account.
WorkerStep ==
  Claim \/ Start \/ Prepare \/ AskModel \/ Commit \/ Refuse \/ Close \/ Release \/ LeaseLapses \/ Crash \/ Restart

LEMMA AdminNext == TypeOK /\ AdminRemains /\ Next => AdminRemains'
<1> SUFFICES ASSUME TypeOK, AdminRemains, Next PROVE AdminRemains'
  OBVIOUS
<1>1. CASE AccountStep
  BY <1>1, StepKeepsAdmin DEF TypeOK
<1>2. ASSUME NEW a \in Users, NEW t \in Users, NEW c \in Asks, NEW v \in 0..MaxVersion, Change(a, t, c, v)
      PROVE  AdminRemains'
  BY <1>2, WriteKeepsAdmin DEF TypeOK, Change
<1>3. CASE user' = user
  BY <1>3 DEF AdminRemains, Role
<1>4. (\E u \in Users, p \in Projects : Send(u, p) \/ SetProjectState(u, p)) => user' = user
  BY DEF Send, SetProjectState, accountVars
<1>5. (\E c \in Calls : RetryResponse(c)) \/ (\E u \in Users : ValidateProfile(u)) => user' = user
  BY DEF RetryResponse, ValidateProfile, accountVars
<1>6. WorkerStep => user' = user
  BY DEF WorkerStep, Claim, Start, Prepare, AskModel, Commit, Refuse, Close, Release, LeaseLapses, Crash, Restart,
     accountVars
<1> QED
  BY <1>1, <1>2, <1>3, <1>4, <1>5, <1>6 DEF Next, WorkerStep

\* A request adds work only of an account that may write to the project.
LEMMA EnqueueKeepsAccess ==
  ASSUME TypeOK, LiveWorkHasAccess, UNCHANGED accountVars, NEW c \in Calls, NEW purpose, NEW u, NEW p, NEW n,
         Enqueue(c, purpose, u, p, n), p # NoProject => HasAccess(u, p)
  PROVE  LiveWorkHasAccess'
  BY DEF TypeOK, Enqueue, LiveWorkHasAccess, accountVars, HasAccess, Usable, Exists, Role

LEMMA AccessNext == TypeOK /\ JobHeld /\ LiveWorkHasAccess /\ Next => LiveWorkHasAccess'
<1> SUFFICES ASSUME TypeOK, JobHeld, LiveWorkHasAccess, Next PROVE LiveWorkHasAccess'
  OBVIOUS
<1>1. CASE AccountStep
  BY <1>1, StepKeepsAccess DEF AccountStep, callVars, TypeOK, JobHeld, LiveWorkHasAccess, Scopes
<1>2. ASSUME NEW u \in Users, NEW p \in Projects, Send(u, p)
      PROVE  LiveWorkHasAccess'
  BY <1>2, EnqueueKeepsAccess DEF Send, MayWrite
<1>3. ASSUME NEW c \in Calls, RetryResponse(c)
      PROVE  LiveWorkHasAccess'
  BY <1>3, EnqueueKeepsAccess DEF RetryResponse, MayWrite
<1>4. ASSUME NEW u \in Users, ValidateProfile(u)
      PROVE  LiveWorkHasAccess'
  BY <1>4, EnqueueKeepsAccess DEF ValidateProfile
<1>5. ASSUME NEW a \in Users, NEW t \in Users, NEW k \in Asks, NEW v \in 0..MaxVersion, Change(a, t, k, v)
      PROVE  LiveWorkHasAccess'
  <2>1. SUFFICES ASSUME NEW c \in Calls, (request[c].project # NoProject)',
                        job'[c] = "QUEUED" \/ (job'[c] = "RUNNING" /\ c \notin stop')
                 PROVE  HasAccess(request[c].owner, request[c].project)'
    BY DEF LiveWorkHasAccess
  <2>2. request'[c] = request[c] /\ request[c].project \in Projects
    BY <1>5, <2>1 DEF Change, TypeOK, Scopes
  <2>3. /\ job[c] = "QUEUED" \/ (job[c] = "RUNNING" /\ c \notin stop)
        /\ c \notin Revoked(t, k)
    BY <1>5, <2>1 DEF Change, TypeOK, JobsIn
  <2>4. HasAccess(request[c].owner, request[c].project)
    BY <2>1, <2>2, <2>3 DEF LiveWorkHasAccess
  <2>5. ~(request[c].owner = t /\ Revokes(t, k, request[c].project))
    BY <2>3 DEF Revoked
  <2>6. request[c].owner \in Users
    BY <2>3 DEF JobHeld
  <2> QED
    BY <1>5, <2>2, <2>4, <2>5, <2>6, LossIsRevoked DEF Change, TypeOK
<1>6. CASE WorkerStep \/ \E u \in Users, p \in Projects : SetProjectState(u, p)
  <2>1. /\ UNCHANGED <<accountVars, request, stop>>
        /\ \A c \in Calls : job'[c] \in {"QUEUED", "RUNNING"} => job[c] = job'[c] \/ job[c] = "QUEUED"
    BY <1>6 DEF WorkerStep, Claim, Start, Prepare, AskModel, Commit, Refuse, Close, Release, LeaseLapses, Crash, Restart,
       SetProjectState, Oldest, JobsIn, Invocation, Free, callVars, TypeOK
  <2> QED
    BY <2>1 DEF LiveWorkHasAccess, accountVars, HasAccess, Usable, Exists, Role
<1> QED
  BY <1>1, <1>2, <1>3, <1>4, <1>5, <1>6 DEF Next, WorkerStep

\* Where the job, the slot and the invocation stand together.
LEMMA HeldNext == TypeOK /\ InHand /\ JobHeld /\ Next => InHand' /\ JobHeld'
<1> SUFFICES ASSUME TypeOK, InHand, JobHeld, Next PROVE InHand' /\ JobHeld'
  OBVIOUS
<1> USE DEF TypeOK, InHand, JobHeld, At
<1>1. CASE AccountStep
  BY <1>1 DEF AccountStep, chatVars, callVars, workerVars
<1>2. ASSUME NEW u \in Users, NEW p \in Projects, Send(u, p)
      PROVE  InHand' /\ JobHeld'
  BY <1>2 DEF Send, Enqueue, Oldest, Fresh, chatVars, workerVars
<1>3. ASSUME NEW c \in Calls, RetryResponse(c)
      PROVE  InHand' /\ JobHeld'
  BY <1>3 DEF RetryResponse, Enqueue, Oldest, Fresh, chatVars, workerVars
<1>4. ASSUME NEW u \in Users, ValidateProfile(u)
      PROVE  InHand' /\ JobHeld'
  BY <1>4 DEF ValidateProfile, Enqueue, Oldest, Fresh, chatVars, workerVars
<1>5. ASSUME NEW u \in Users, NEW p \in Projects, SetProjectState(u, p)
      PROVE  InHand' /\ JobHeld'
  BY <1>5 DEF SetProjectState, callVars, workerVars
<1>6. ASSUME NEW a \in Users, NEW t \in Users, NEW c \in Asks, NEW v \in 0..MaxVersion, Change(a, t, c, v)
      PROVE  InHand' /\ JobHeld'
  BY <1>6 DEF Change, chatVars, workerVars
<1>7. CASE Claim
  BY <1>7 DEF Claim, Goto, Oldest, JobsIn, Calls, chatVars
<1>8. CASE Start \/ Prepare \/ AskModel \/ Refuse \/ Close
  BY <1>8 DEF Start, Prepare, AskModel, Refuse, Close, Lost, Invocation, Goto, chatVars, callVars
<1>9. CASE Commit
  BY <1>9 DEF Commit, Invocation, Goto, chatVars, callVars
<1>10. CASE Release
  BY <1>10 DEF Release, Free, Goto, Calls, chatVars
<1>11. CASE LeaseLapses \/ Crash
  BY <1>11 DEF LeaseLapses, Crash, Goto, chatVars, callVars
<1>12. CASE Restart
  <2>1. CASE slot # 0 /\ ~leased
    <3>1. /\ job' = [job EXCEPT ![slot] = "FAILED"] /\ slot' = 0 /\ slot \in Calls
          /\ state' = [state EXCEPT ![slot] = Lost(state[slot])]
          /\ UNCHANGED <<request, answers>> /\ pc' = "idle"
      BY <1>12, <2>1 DEF Restart, Free, Goto, chatVars
    <3>2. Lost(state[slot]) = "NEW" <=> state[slot] = "NEW"
      BY DEF Lost
    <3> QED
      BY <3>1, <3>2 DEF Calls
  <2>2. CASE ~(slot # 0 /\ ~leased)
    BY <1>12, <2>2 DEF Restart, Goto, chatVars
  <2> QED
    BY <2>1, <2>2
<1> QED
  BY <1>1, <1>2, <1>3, <1>4, <1>5, <1>6, <1>7, <1>8, <1>9, <1>10, <1>11, <1>12 DEF Next

LEMMA AnswersNext == TypeOK /\ InHand /\ JobHeld /\ AnsweredIffSucceeded /\ Next => AnsweredIffSucceeded'
<1> SUFFICES ASSUME TypeOK, InHand, JobHeld, AnsweredIffSucceeded, Next PROVE AnsweredIffSucceeded'
  OBVIOUS
<1> USE DEF TypeOK, InHand, JobHeld, At, AnsweredIffSucceeded
<1>1. CASE AccountStep \/ \E u \in Users, p \in Projects : SetProjectState(u, p)
  BY <1>1 DEF AccountStep, SetProjectState, chatVars, callVars
<1>2. ASSUME NEW u \in Users, NEW p \in Projects, Send(u, p)
      PROVE  AnsweredIffSucceeded'
  BY <1>2 DEF Send, Enqueue, Oldest, Fresh, chatVars
<1>3. ASSUME NEW c \in Calls, RetryResponse(c)
      PROVE  AnsweredIffSucceeded'
  BY <1>3 DEF RetryResponse, Enqueue, Oldest, Fresh, chatVars
<1>4. ASSUME NEW u \in Users, ValidateProfile(u)
      PROVE  AnsweredIffSucceeded'
  BY <1>4 DEF ValidateProfile, Enqueue, Oldest, Fresh
<1>5. ASSUME NEW a \in Users, NEW t \in Users, NEW c \in Asks, NEW v \in 0..MaxVersion, Change(a, t, c, v)
      PROVE  AnsweredIffSucceeded'
  BY <1>5 DEF Change, chatVars
<1>6. CASE Claim \/ Release \/ LeaseLapses \/ Crash
  BY <1>6 DEF Claim, Release, LeaseLapses, Crash, chatVars, callVars
<1>7. CASE Start \/ Prepare \/ AskModel
  BY <1>7 DEF Start, Prepare, AskModel, Invocation, chatVars, callVars
<1>8. CASE Refuse \/ Close
  BY <1>8 DEF Refuse, Close, Lost, Invocation, chatVars, callVars
<1>9. CASE Restart
  BY <1>9 DEF Restart, Free, Lost, chatVars
<1>10. CASE Commit
  BY <1>10 DEF Commit, Invocation, K, callVars
<1> QED
  BY <1>1, <1>2, <1>3, <1>4, <1>5, <1>6, <1>7, <1>8, <1>9, <1>10 DEF Next

-----------------------------------------------------------------------------
(* Theorems *)

\* The inductive invariant.
LEMMA IInvariant == Spec => []IInv
<1>1. Init => IInv
  <2> SUFFICES ASSUME Init PROVE IInv
    OBVIOUS
  <2>1. TypeOK
    BY TypeInit
  <2> QED
    BY <2>1 DEF Init, AccountsInit, IInv, AdminRemains, Role, LiveWorkHasAccess, AnsweredIffSucceeded, InHand, JobHeld, At,
       Calls
<1>2. IInv /\ [Next]_vars => IInv'
  <2> SUFFICES ASSUME IInv, [Next]_vars PROVE IInv'
    OBVIOUS
  <2>1. CASE Next
    BY <2>1, TypeNext, AdminNext, AccessNext, HeldNext, AnswersNext DEF IInv
  <2>2. CASE UNCHANGED vars
    BY <2>2 DEF IInv, vars, accountVars, chatVars, callVars, workerVars, TypeOK, AccountsTypeOK, AdminRemains, Role,
       LiveWorkHasAccess, HasAccess, Usable, Exists, AnsweredIffSucceeded, InHand, JobHeld, At
  <2> QED
    BY <2>1, <2>2
<1> QED
  BY <1>1, <1>2, PTL DEF Spec

\* Rows, slot and handler keep their types.
THEOREM TypeCorrect == Spec => []TypeOK
  BY IInvariant, PTL DEF IInv

\* Administrators who change each other's accounts, from whatever versions they
\* have read, never leave the service without one (accounts/services.py:146).
THEOREM AdministratorRemains == Spec => []AdminRemains
  BY IInvariant, PTL DEF IInv

\* An account's queued work, and running work that nobody asked to stop, is in
\* projects that the account still has access to, through every kind of change.
THEOREM RevokedWorkStops == Spec => []LiveWorkHasAccess
  BY IInvariant, PTL DEF IInv

\* The answer and the success of a call come and stay together, through crashes,
\* recovery and lapsed leases.
THEOREM AnswerAndSuccessAgree == Spec => []AnsweredIffSucceeded
  BY IInvariant, PTL DEF IInv
===============================================================================
