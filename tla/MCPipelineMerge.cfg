SPECIFICATION Spec
CONSTANTS
  g = g
  a = a
  b = b
  c = c
  good = good
  bad = bad
  Genesis = g
  HeaderOnly = HeaderOnly
  None = None
  Hashes = {g, a, b, c}
  Parents <- MergeParents
  Rank <- MergeRank
  Verdicts <- MergeVerdicts
  Callers = {c1, c2, c3}
  Bodies = {good}
  Mismatched = {}
  NumThreads = 2
  MayExit = FALSE
SYMMETRY CallersSymmetry
INVARIANTS NoPanic NoSpuriousMissing VirtualSettled
