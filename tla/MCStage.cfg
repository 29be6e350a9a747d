SPECIFICATION Spec
CONSTANTS
  a = a
  b = b
  c = c
  d = d
  Hashes = {a, b, c, d}
  Parents <- Diamond
  Callers = {c1, c2, c3, c4}
  Bodies = {body}
  HeaderOnly = HeaderOnly
  None = None
  NumThreads = 2
SYMMETRY CallersSymmetry
INVARIANTS OneHome ParentsFirst ExitIsLast
