\* One publication, rejected and then reconciled.
CONSTANTS
  p1 = p1  p2 = p2  alice = alice  bob = bob  run1 = run1
  Pubs = {p1}
  Runs = {run1}
  RunOf <- MCRunOf
  PullRequest = {p1}
  Admins = {alice, bob}
  Absent = Absent
  Foreign = Foreign
  NoJob = NoJob
  Outsiders = FALSE
SPECIFICATION Spec
INVARIANTS RejectionIsFinal
