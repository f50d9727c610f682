SPECIFICATION Spec
CONSTANTS
  t1 = t1  t2 = t2   w = w
  Server = {t1, t2}
  Poller = {}
  Configs <- LocalOrPush
  MaxInner = 0
  MaxOuter = 0
  MaxRuns = 2
  MaxEdits = 1
  MaxCrashes = 0
SYMMETRY ThreadSymmetry
INVARIANTS OneThreadPerRun PublishedOnceWithConsent PushedWithApproval
CHECK_DEADLOCK FALSE
