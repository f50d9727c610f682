\* One tab, three versions of the draft, two bases of the project, two runs
\* and two suggestions.
CONSTANTS
  t1 = t1  t2 = t2
  Texts = {t1, t2}
  Reworded <- MCReworded
  Tabs = {b1}
  Nothing = Nothing
  MaxVersion = 3
  MaxBasis = 1
  MaxRuns = 2
  MaxSuggestions = 2
SPECIFICATION Spec
INVARIANTS TypeOK StateIsOfThisDraft ConfirmedAsSeen SubmittedOnce
PROPERTIES SuggestionOverwritesItsSource ReworkLosesNothing ApprovedAsAccepted
CHECK_DEADLOCK FALSE
SYMMETRY TextSymmetry
