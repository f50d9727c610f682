------------------------------- MODULE Accounts -------------------------------
(***************************************************************************)
(* The accounts of the service: roles, activity, forced password changes   *)
(* and project memberships (apps/accounts/services.py).                    *)
(*                                                                         *)
(* An administrator changes an account in two steps.  The page, or the     *)
(* call, reads the account and its authz_version; later one conditional    *)
(* UPDATE writes if the version is the same, the administrator still is    *)
(* one and, where the change takes an administrator away, another one is   *)
(* left.  Of the first step only the version reaches the second, so that   *)
(* the second alone is modelled, for every version the account has had.    *)
(* SQLite runs with BEGIN IMMEDIATE (config/settings.py:53): a block       *)
(* transaction.atomic is one step.                                         *)
(***************************************************************************)
EXTENDS Naturals, FiniteSets

CONSTANTS
  Users, Projects,
  Asks,         \* bound: the changes that administrators ask for
  MaxVersion    \* bound: authz_version of an account

ASSUME VersionAssumption == MaxVersion \in Nat

VARIABLES
  user,      \* User: role ("NONE" before the account exists), active, must (change password), version
  member     \* ProjectMembership: pairs of a user and a project

accountVars == <<user, member>>

Roles == {"MANAGER", "ADMIN"}
Role(u) == user[u].role
Exists(u) == Role(u) # "NONE"

\* _current_user and the check of must_change_password
Usable(u) == Exists(u) /\ user[u].active /\ ~user[u].must
\* require_access for ADMIN_ACTIONS, and for an object of a project
IsAdmin(u) == Usable(u) /\ Role(u) = "ADMIN"
HasAccess(u, p) == Usable(u) /\ (Role(u) = "ADMIN" \/ <<u, p>> \in member)

-----------------------------------------------------------------------------
\* What is asked for: change_account with a role and is_active, set_membership
\* with a project and granted, or reset_password.
AccountTo(r, b) == [kind |-> "account", role |-> r, active |-> b]
MembershipTo(p, b) == [kind |-> "membership", project |-> p, granted |-> b]
Reset == [kind |-> "password"]

ASSUME AskAssumption ==
  Asks \subseteq {AccountTo(r, b) : r \in Roles, b \in BOOLEAN}
                   \cup {MembershipTo(p, b) : p \in Projects, b \in BOOLEAN} \cup {Reset}

\* At least one administrator was made by the installation.
AccountsInit ==
  /\ user \in [Users -> {[role |-> r, active |-> TRUE, must |-> FALSE, version |-> 0] :
                         r \in Roles \cup {"NONE"}}]
  /\ \E u \in Users : Role(u) = "ADMIN"
  /\ member \in SUBSET {m \in Users \X Projects : Role(m[1]) = "MANAGER"}

\* another_admin of _authz_change
AnyOtherAdmin(t) == \E u \in Users \ {t} : Role(u) = "ADMIN"
AnotherAdmin(t) == \E u \in Users \ {t} : Role(u) = "ADMIN" /\ user[u].active

EndsAdmin(c) == c.kind = "account" /\ (c.role # "ADMIN" \/ ~c.active)

\* The condition of the UPDATE in _authz_change, for administrator a who read
\* version v of account t and asks for c
Accepted(a, t, c, v) ==
  /\ Exists(t) /\ user[t].version = v /\ v < MaxVersion
  /\ IsAdmin(a)
  /\ EndsAdmin(c) => (Role(t) # "ADMIN" \/ ~user[t].active \/ AnotherAdmin(t))

\* What the change makes of the row
After(c, r) ==
  [role   |-> IF c.kind = "account" THEN c.role ELSE r.role,
   active |-> IF c.kind = "account" THEN c.active ELSE r.active,
   must   |-> r.must \/ c.kind = "password",
   version |-> r.version + 1]

\* One transaction of change_account, set_membership or reset_password
Write(a, t, c, v) ==
  /\ Accepted(a, t, c, v)
  /\ user' = [user EXCEPT ![t] = After(c, @)]
  /\ member' = IF c.kind # "membership" THEN member
               ELSE IF c.granted THEN member \cup {<<t, c.project>>} ELSE member \ {<<t, c.project>>}

\* Whether this transaction revokes the work of account t in scope p: what is
\* handed to revoke_actor_work.
RevokesButDemotion(t, c, p) ==
  \/ c.kind = "password"
  \/ c.kind = "account" /\ ~c.active
  \/ /\ c.kind = "membership" /\ ~c.granted /\ p = c.project
     /\ <<t, p>> \in member /\ Role(t) # "ADMIN"
Revokes(t, c, p) ==
  \/ RevokesButDemotion(t, c, p)
  \/ /\ c.kind = "account" /\ c.active
     /\ Role(t) = "ADMIN" /\ c.role = "MANAGER"
     /\ p \in Projects /\ <<t, p>> \notin member

CreateAccount(a, u, r) ==
  /\ IsAdmin(a) /\ ~Exists(u)
  /\ user' = [user EXCEPT ![u] = [role |-> r, active |-> TRUE, must |-> TRUE, version |-> 0]]
  /\ UNCHANGED member

ChangePassword(u) ==
  /\ Exists(u) /\ user[u].active /\ user[u].version < MaxVersion
  /\ user' = [user EXCEPT ![u] = [role |-> Role(u), active |-> TRUE, must |-> FALSE,
                                    version |-> user[u].version + 1]]
  /\ UNCHANGED member

-----------------------------------------------------------------------------
\* Types of the account rows and the memberships.
AccountsTypeOK ==
  /\ user \in [Users -> [role : Roles \cup {"NONE"}, active : BOOLEAN, must : BOOLEAN,
                         version : 0..MaxVersion]]
  /\ member \subseteq Users \X Projects

\* Two administrators who take the role from each other, or close each other's
\* account, leave one of them: there always is an active administrator
\* (the condition another_admin of _authz_change, services.py:146).
AdminRemains == \E u \in Users : Role(u) = "ADMIN" /\ user[u].active
===============================================================================
