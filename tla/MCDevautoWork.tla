----------------------------- MODULE MCDevautoWork -----------------------------
(***************************************************************************)
(* A small instance of DevautoWork: an ordinary file, a high-risk one and  *)
(* a forbidden one; gates may rewrite or leave the first two; plans may    *)
(* name them or the directory they are in.                                 *)
(***************************************************************************)
EXTENDS DevautoWork

CONSTANTS code, auth, env

File(p) == [covers |-> {p}, high |-> p \in HighRisk]
Directory == [covers |-> {code, auth}, high |-> FALSE]
LocalOrPush == {[mode |-> "local_branch", human |-> FALSE], [mode |-> "push_branch", human |-> TRUE]}
SomeEntries == {File(code), File(auth), Directory}
===============================================================================
