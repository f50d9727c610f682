\* Two publications of one run, one administrator, no pull request.
CONSTANTS
  p1 = p1  p2 = p2  alice = alice  bob = bob  run1 = run1
  Pubs = {p1, p2}
  Runs = {run1}
  RunOf <- MCRunOf
  PullRequest = {}
  Admins = {alice}
  Absent = Absent
  Foreign = Foreign
  NoJob = NoJob
  Outsiders = FALSE
SPECIFICATION Spec
INVARIANTS OneLiveTarget BranchHasOneOwner
