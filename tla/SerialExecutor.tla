--------------------------- MODULE SerialExecutor ---------------------------
(***************************************************************************)
(* What the execution half of apps/runs promises the rest of the system,   *)
(* with the worker, its slot, leases and processes left out:               *)
(*                                                                         *)
(*   - one run at a time is being worked on (docs/runs/README.md, section  *)
(*     6: one execution slot for the whole installation);                  *)
(*   - a run is started at most once, and an ended run stays as it ended;  *)
(*   - a run that was told to stop can no longer succeed.                  *)
(*                                                                         *)
(* PREPARING, RUNNING and VERIFYING are all "working"; CANCEL_REQUESTED is *)
(* "stopping".  RunWorker implements this module.                          *)
(***************************************************************************)
CONSTANT Runs

VARIABLE phase

Ended == {"succeeded", "failed", "cancelled", "interrupted"}
Busy  == {"working", "stopping"}
Phase == {"absent", "waiting"} \cup Busy \cup Ended

Init == phase = [r \in Runs |-> "absent"]

Move(r, from, to) == phase[r] \in from /\ phase' = [phase EXCEPT ![r] = to]

Submit(r) == Move(r, {"absent"}, "waiting")

\* Work on a run starts only while no other run is being worked on.
Start(r) ==
  /\ \A q \in Runs : phase[q] \notin Busy
  /\ Move(r, {"waiting"}, "working")

Withdraw(r)  == Move(r, {"waiting"}, "cancelled")
AskToStop(r) == Move(r, {"working"}, "stopping")
Succeed(r)   == Move(r, {"working"}, "succeeded")
Fail(r)      == Move(r, Busy, "failed")
Cancel(r)    == Move(r, {"stopping"}, "cancelled")
Interrupt(r) == Move(r, Busy, "interrupted")

\* Losing access stops every run of an account in one step.
StopMany(S) ==
  phase' = [r \in Runs |-> IF r \notin S THEN phase[r]
                           ELSE IF phase[r] = "waiting" THEN "cancelled"
                           ELSE IF phase[r] = "working" THEN "stopping"
                           ELSE phase[r]]

Next ==
  \/ \E r \in Runs : \/ Submit(r) \/ Start(r) \/ Withdraw(r) \/ AskToStop(r)
                     \/ Succeed(r) \/ Fail(r) \/ Cancel(r) \/ Interrupt(r)
  \/ \E S \in SUBSET Runs : StopMany(S)

Spec == Init /\ [][Next]_phase
=============================================================================
