SPECIFICATION Spec
CONSTANTS
  b1 = b1  a1 = a1  p1 = p1  p2 = p2  h1 = h1  h2 = h2
  Bundles = {b1}
  Uploads = {a1}
  Procs = {p1, p2}
  Hashes = {h1, h2}
  MaxStarts = 3
SYMMETRY ProcSymmetry
INVARIANTS KeptFiles OneConfiguration RestoredIsWhole
CHECK_DEADLOCK FALSE
