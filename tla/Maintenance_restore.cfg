SPECIFICATION Spec
CONSTANTS
  b1 = b1  a1 = a1  p1 = p1  p2 = p2  h1 = h1  h2 = h2
  Bundles = {b1}
  Uploads = {a1}
  Procs = {p1}
  Hashes = {h1}
  MaxStarts = 1
INVARIANT NoStartOnIncomplete
CHECK_DEADLOCK FALSE
