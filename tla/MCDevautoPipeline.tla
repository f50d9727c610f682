-------------------------- MODULE MCDevautoPipeline --------------------------
(***************************************************************************)
(* Small instances of DevautoPipeline: two runs, two request threads, with *)
(* and without the worker process.                                         *)
(***************************************************************************)
EXTENDS DevautoPipeline, TLC

CONSTANTS t1, t2, w

LocalBranch == [mode |-> "local_branch", asks |-> {}]
PushBranch == [mode |-> "push_branch", asks |-> {"human"}]
PushAfterQa == [mode |-> "push_branch", asks |-> {"qa", "human"}]

LocalOrPush == {LocalBranch, PushAfterQa}
PushOnly == {PushBranch}

ThreadSymmetry == Permutations(Server)
==============================================================================
