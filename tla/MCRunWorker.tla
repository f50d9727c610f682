----------------------------- MODULE MCRunWorker -----------------------------
(***************************************************************************)
(* Small instances of RunWorker: two runs of one request, a run of another *)
(* one, a publication job, and two accounts.                               *)
(***************************************************************************)
EXTENDS RunWorker

CONSTANTS r1, r2, r3, p1, alice, bob, q1, q2

MCOwner     == [j \in Jobs |-> IF j = r3 THEN bob ELSE alice]
MCRequestOf == [r \in RunJobs |-> IF r = r3 THEN q2 ELSE q1]
==============================================================================
