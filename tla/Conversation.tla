----------------------------- MODULE Conversation -----------------------------
(***************************************************************************)
(* Chat turns and model calls: a message or a validation of the model      *)
(* profile makes an AIInvocation and a Job in the slot CONVERSATION; the   *)
(* worker claims the job, asks the model and commits the outcome           *)
(* (conversations/services.py, ai/services.py, and of runs/worker.py and   *)
(* runs/services.py what concerns this slot).  Composed with Accounts: the *)
(* account that asked may lose its access at any of these steps, and its   *)
(* work is then revoked in the transaction that takes the access.          *)
(*                                                                         *)
(* Calls are numbered in the order in which their jobs were queued; a      *)
(* message is named by the call that it was sent with.                     *)
(***************************************************************************)
EXTENDS Accounts

CONSTANTS
  MaxCalls,     \* bound: model calls
  MaxCrashes    \* bound: how often the worker dies

ASSUME CallAssumption == {MaxCalls, MaxCrashes} \subseteq Nat

VARIABLES
  archived,  \* projects with state ARCHIVED
  request,   \* AIInvocation: what was asked for, by whom
  state,     \* AIInvocation: state
  job,       \* Job: state
  stop,      \* calls whose Job has a cancel_requested_at
  answers,   \* the calls that have an ASSISTANT message
  profile,   \* validation_status of the model profile
  slot,      \* WorkerSlot CONVERSATION: the call whose job holds it, 0 for none
  leased,    \* whether its lease still runs
  pc, out,   \* the worker: what its handler of that job is about to do, and the
             \* outcome so far
  crashes

chatVars == <<archived, answers, profile>>
callVars == <<request, state, job, stop>>
workerVars == <<slot, leased, pc, out, crashes>>
vars == <<accountVars, chatVars, callVars, workerVars>>

Calls == 1..MaxCalls
Ended == {"SUCCEEDED", "FAILED", "CANCELLED"}

\* A model validation belongs to no project.
NoProject == "no project"
Scopes == Projects \cup {NoProject}

NoRequest == [purpose |-> "conversation", owner |-> "nobody", project |-> NoProject, message |-> 0]

Init ==
  /\ AccountsInit
  /\ archived = {}
  /\ request = [c \in Calls |-> NoRequest]
  /\ state = [c \in Calls |-> "NEW"]
  /\ job = [c \in Calls |-> "NONE"]
  /\ stop = {}
  /\ answers = {}
  /\ profile \in {"UNVERIFIED", "VALIDATED"}
  /\ slot = 0 /\ leased = FALSE
  /\ pc = "idle" /\ out = "ok"
  /\ crashes = 0

Oldest(c, S) == c \in S /\ \A d \in S : c <= d
Fresh == {c \in Calls : state[c] = "NEW"}
JobsIn(s) == {c \in Calls : job[c] = s}

-----------------------------------------------------------------------------
(* Requests *)

\* _enqueue_response, validate_profile: invocation and job in one transaction
Enqueue(c, purpose, u, p, n) ==
  /\ Oldest(c, Fresh)
  /\ request' = [request EXCEPT ![c] = [purpose |-> purpose, owner |-> u, project |-> p, message |-> n]]
  /\ state' = [state EXCEPT ![c] = "QUEUED"]
  /\ job' = [job EXCEPT ![c] = "QUEUED"]
  /\ UNCHANGED stop

\* What every write to a conversation asks for: require_access, assert_project_active
MayWrite(u, p) == HasAccess(u, p) /\ p \notin archived

\* start_conversation, send_message
Send(u, p) ==
  /\ MayWrite(u, p)
  /\ \E c \in Calls : Enqueue(c, "conversation", u, p, c)
  /\ UNCHANGED <<accountVars, chatVars, workerVars>>

\* retry_response with a new key
RetryResponse(c) ==
  LET k == request[c]
  IN  /\ k.purpose = "conversation" /\ state[c] \in {"FAILED", "CANCELLED"}
      /\ MayWrite(k.owner, k.project)
      /\ \E d \in Calls : Enqueue(d, "conversation", k.owner, k.project, k.message)
      /\ UNCHANGED <<accountVars, chatVars, workerVars>>

ValidateProfile(u) ==
  /\ IsAdmin(u)
  /\ \E c \in Calls : Enqueue(c, "model_validation", u, NoProject, 0)
  /\ profile' = "QUEUED"
  /\ UNCHANGED <<accountVars, archived, answers, workerVars>>

\* set_project_state, refused while is_project_busy
SetProjectState(a, p) ==
  /\ IsAdmin(a)
  /\ \A c \in JobsIn("RUNNING") : request[c].project # p
  /\ archived' = IF p \in archived THEN archived \ {p} ELSE archived \cup {p}
  /\ UNCHANGED <<accountVars, answers, profile, callVars, workerVars>>

\* revoke_actor_work: a queued job is cancelled, a running one asked to stop.
Revoked(t, c) == {n \in Calls : request[n].owner = t /\ Revokes(t, c, request[n].project)}

Change(a, t, c, v) ==
  /\ Write(a, t, c, v)
  /\ job' = [n \in Calls |-> IF n \in Revoked(t, c) /\ job[n] = "QUEUED" THEN "CANCELLED" ELSE job[n]]
  /\ stop' = stop \cup (Revoked(t, c) \cap JobsIn("RUNNING"))
  /\ UNCHANGED <<request, state, chatVars, workerVars>>

\* Steps of Accounts that touch no work
AccountStep ==
  /\ \/ \E a, u \in Users, r \in Roles : CreateAccount(a, u, r)
     \/ \E u \in Users : ChangePassword(u)
  /\ UNCHANGED <<chatVars, callVars, workerVars>>

-----------------------------------------------------------------------------
(* The worker *)

K == request[slot]
At(p) == pc = p
Goto(p, o) == pc' = p /\ out' = o

\* claim_job
Claim ==
  /\ At("idle") /\ slot = 0
  /\ \E c \in Calls :
       /\ Oldest(c, JobsIn("QUEUED"))
       /\ job' = [job EXCEPT ![c] = "RUNNING"]
       /\ slot' = c /\ leased' = TRUE
  /\ Goto("start", "ok")
  /\ UNCHANGED <<accountVars, chatVars, request, state, stop, crashes>>

\* _assert_job_current; epoch and owner are those of the slot while the handler
\* lives, because a second worker does not start beside it.
JobCurrentAnyway == leased
JobCurrent == leased /\ slot \notin stop

\* The handler changes the state of its invocation.
Invocation(s) == state' = [state EXCEPT ![slot] = s] /\ UNCHANGED <<request, job, stop>>

\* process_job up to RUNNING; require_execution_space may fail before it.
Start ==
  /\ At("start")
  /\ \/ JobCurrent /\ Invocation("RUNNING") /\ Goto("prepare", "ok")
     \/ UNCHANGED callVars /\ Goto("close", "bad")
  /\ UNCHANGED <<accountVars, chatVars, slot, leased, crashes>>

\* build_context: the messages of the conversation, for an owner who may write to it
ContextReady == MayWrite(K.owner, K.project)
\* resolve_execution_input: the commit of the project that the model may read
InputReady == HasAccess(K.owner, K.project) /\ K.project \notin archived
\* _require_profile
ProfileReady == profile = "VALIDATED"

\* Up to the call of the container.  The environment, the workspace or the
\* attachments may not be ready in any case.
Prepare ==
  /\ At("prepare")
  /\ \/ /\ IF K.purpose = "conversation" THEN ContextReady /\ ProfileReady /\ InputReady
           ELSE IsAdmin(K.owner)
        /\ Goto("ask", "ok")
     \/ Goto("refuse", "bad")
  /\ UNCHANGED <<accountVars, chatVars, callVars, slot, leased, crashes>>

\* The container: an answer, an error of the model, a process that was stopped
\* because the job is cancelled, or one of which nothing certain is known.
AskModel ==
  /\ At("ask")
  /\ \/ \E o \in {"ok", "bad"} : Goto("commit", o)
     \/ slot \in stop /\ Goto("refuse", "cancelled")
     \/ Goto("close", "bad")
  /\ UNCHANGED <<accountVars, chatVars, callVars, slot, leased, crashes>>

\* complete_response asks again; so does _commit_response for a validation.
OwnerMay == IF K.purpose = "conversation" THEN MayWrite(K.owner, K.project) ELSE IsAdmin(K.owner)

\* _commit_response: the outcome and what follows from it, or nothing
Commit ==
  /\ At("commit")
  /\ \/ /\ ~JobCurrent
        /\ Goto("close", "bad") /\ UNCHANGED <<callVars, answers, profile>>
     \/ /\ JobCurrent /\ out = "bad"
        /\ Invocation("FAILED")
        /\ Goto("refuse", "bad") /\ UNCHANGED <<answers, profile>>
     \/ /\ JobCurrent /\ out = "ok" /\ OwnerMay
        /\ Invocation("SUCCEEDED")
        /\ IF K.purpose = "conversation"
           THEN answers' = answers \cup {slot} /\ UNCHANGED profile
           ELSE profile' = "VALIDATED" /\ UNCHANGED answers
        /\ Goto("close", "ok")
     \/ /\ JobCurrent /\ out = "ok" /\ ~OwnerMay
        /\ Goto("refuse", "bad") /\ UNCHANGED <<callVars, answers, profile>>
  /\ UNCHANGED <<accountVars, archived, slot, leased, crashes>>

\* The except branch of process_job
Refuse ==
  /\ At("refuse")
  /\ IF JobCurrentAnyway
     THEN /\ Invocation(IF out = "cancelled" THEN "CANCELLED" ELSE "FAILED")
          /\ profile' = IF K.purpose = "model_validation" THEN "FAILED" ELSE profile
     ELSE UNCHANGED <<callVars, profile>>
  /\ Goto("close", "bad")
  /\ UNCHANGED <<accountVars, archived, answers, slot, leased, crashes>>

LostAnyState(s) == "FAILED"
\* What a handler or a recovery that knows of an error makes of the invocation
Lost(s) == IF s \in {"QUEUED", "RUNNING"} THEN "FAILED" ELSE s

\* process_claimed after the dispatch; the heartbeat may have failed.
Close ==
  /\ At("close")
  /\ \E o \in {out, "bad"} :
       /\ Invocation(IF o = "bad" THEN Lost(state[slot]) ELSE state[slot])
       /\ Goto("release", o)
  /\ UNCHANGED <<accountVars, chatVars, slot, leased, crashes>>

\* The job ends and gives the slot back.
Free(s) ==
  /\ job' = [job EXCEPT ![slot] = s]
  /\ slot' = 0 /\ leased' = FALSE

Release ==
  /\ At("release")
  /\ Free(IF slot \in stop THEN "CANCELLED" ELSE IF out = "bad" THEN "FAILED" ELSE "DONE")
  /\ Goto("idle", "ok")
  /\ UNCHANGED <<accountVars, chatVars, request, state, stop, crashes>>

\* The lease runs out: the heartbeat stopped, or nobody is left to send it.
LeaseLapses ==
  /\ slot # 0 /\ leased /\ leased' = FALSE
  /\ UNCHANGED <<accountVars, chatVars, callVars, slot, pc, out, crashes>>

Crash ==
  /\ ~At("down") /\ crashes < MaxCrashes
  /\ crashes' = crashes + 1
  /\ Goto("down", "ok")
  /\ UNCHANGED <<accountVars, chatVars, callVars, slot, leased>>

\* A new worker begins with recover_stale, which passes over a lease that runs.
Restart ==
  /\ At("down")
  /\ IF slot # 0 /\ ~leased
     THEN Free("FAILED") /\ state' = [state EXCEPT ![slot] = Lost(@)]
     ELSE UNCHANGED <<job, slot, leased, state>>
  /\ Goto("idle", "ok")
  /\ UNCHANGED <<accountVars, chatVars, request, stop, crashes>>

-----------------------------------------------------------------------------
Next ==
  \/ AccountStep
  \/ \E u \in Users, p \in Projects : Send(u, p) \/ SetProjectState(u, p)
  \/ \E c \in Calls : RetryResponse(c)
  \/ \E u \in Users : ValidateProfile(u)
  \/ \E a, t \in Users, c \in Asks, v \in 0..MaxVersion : Change(a, t, c, v)
  \/ Claim \/ Start \/ Prepare \/ AskModel \/ Commit \/ Refuse \/ Close \/ Release
  \/ LeaseLapses \/ Crash \/ Restart

Spec == Init /\ [][Next]_vars

-----------------------------------------------------------------------------
(* Properties *)

\* Types of the rows and of the handler.
TypeOK ==
  /\ AccountsTypeOK
  /\ archived \subseteq Projects
  /\ request \in [Calls -> [purpose : {"conversation", "model_validation"}, owner : Users \cup {"nobody"},
                            project : Scopes, message : 0..MaxCalls]]
  /\ state \in [Calls -> {"NEW", "QUEUED", "RUNNING"} \cup Ended]
  /\ job \in [Calls -> {"NONE", "QUEUED", "RUNNING", "DONE", "FAILED", "CANCELLED"}]
  /\ {stop, answers} \subseteq SUBSET Calls
  /\ profile \in {"UNVERIFIED", "QUEUED", "VALIDATED", "FAILED"}
  /\ slot \in {0} \cup Calls /\ leased \in BOOLEAN
  /\ pc \in {"idle", "down", "start", "prepare", "ask", "commit", "refuse", "close", "release"}
  /\ out \in {"ok", "bad", "cancelled"}
  /\ crashes \in 0..MaxCrashes

\* Whichever way an account loses a project (closed, demoted without being a
\* member, membership taken, password reset), none of its work in the project
\* stays queued, or goes on unasked to stop: every path of accounts/services.py
\* that takes access calls revoke_actor_work with the right projects.
LiveWorkHasAccess ==
  \A c \in Calls :
    (request[c].project # NoProject /\ (job[c] = "QUEUED" \/ (job[c] = "RUNNING" /\ c \notin stop)))
      => HasAccess(request[c].owner, request[c].project)

\* A call has succeeded exactly when its answer is in the conversation, through
\* crashes, lapsed leases, late errors of the heartbeat and recovery: the
\* outcome and the message are one transaction, and nothing written afterwards
\* (the except branch, process_claimed, recover_stale) takes the success back.
AnsweredIffSucceeded ==
  \A c \in Calls : request[c].purpose = "conversation" => (c \in answers <=> state[c] = "SUCCEEDED")
===============================================================================
