---------------------------- MODULE MCPublication ----------------------------
(***************************************************************************)
(* Small instances of Publication: up to two publications of one run and   *)
(* one of another, two administrators.                                     *)
(***************************************************************************)
EXTENDS Publication

CONSTANTS p1, p2, alice, bob, run1

MCRunOf == [p \in Pubs |-> run1]
==============================================================================
