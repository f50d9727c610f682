\* Two runs of one request; a restart that waits for the lease to run out; liveness and refinement.
CONSTANTS
  r1 = r1  r2 = r2  r3 = r3  p1 = p1
  alice = alice  bob = bob  q1 = q1  q2 = q2
  RunJobs = {r1, r2}
  PubJobs = {}
  Actors = {alice, bob}
  Requests = {q1, q2}
  Owner <- MCOwner
  RequestOf <- MCRequestOf
  NoJob = NoJob
  HastyRestart = FALSE
  MaxRestarts = 1
  MaxEscapes = 0
SPECIFICATION FairSpec
PROPERTIES ImplementsSerialExecutor EveryRunEnds StopCompletes
