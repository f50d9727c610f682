\* A run and a publication share the slot; two restarts, two misreadings.
CONSTANTS
  r1 = r1  r2 = r2  r3 = r3  p1 = p1
  alice = alice  bob = bob  q1 = q1  q2 = q2
  RunJobs = {r1}
  PubJobs = {p1}
  Actors = {alice, bob}
  Requests = {q1, q2}
  Owner <- MCOwner
  RequestOf <- MCRequestOf
  NoJob = NoJob
  HastyRestart = TRUE
  MaxRestarts = 2
  MaxEscapes = 2
SPECIFICATION Spec
INVARIANTS TypeOK LeaseAgreement NoUnaccountedExecution RemoteWriterHoldsSlot SuccessIsProved OutcomesAgree
PROPERTIES NeverReplayed
