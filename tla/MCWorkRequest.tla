---------------------------- MODULE MCWorkRequest ----------------------------
(***************************************************************************)
(* Small instances of WorkRequest: two texts; a text asked to be reworked  *)
(* becomes the other one.                                                  *)
(***************************************************************************)
EXTENDS WorkRequest, TLC

CONSTANTS t1, t2

MCReworded == [t \in Texts |-> IF t = t1 THEN t2 ELSE t1]

\* To exchange the two texts, of which each is the other one reworded.
TextSymmetry == Permutations(Texts)
==============================================================================
