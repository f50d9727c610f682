---------------------------- MODULE MCMaintenance ----------------------------
(***************************************************************************)
(* A small instance of Maintenance: one result with its log, one           *)
(* attachment, two processes and two configurations.                       *)
(***************************************************************************)
EXTENDS Maintenance, TLC

CONSTANTS b1, a1, p1, p2, h1, h2

ProcSymmetry == Permutations(Procs) \cup Permutations(Hashes)
==============================================================================
