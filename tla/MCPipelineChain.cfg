SPECIFICATION FairSpec
CONSTANTS
  g = g
  a = a
  b = b
  c = c
  good = good
  bad = bad
  Genesis = g
  HeaderOnly = HeaderOnly
  None = None
  Hashes = {g, a, b}
  Parents <- ChainParents
  Rank <- ChainRank
  Verdicts <- ChainVerdicts
  Callers = {c1, c2}
  Bodies = {good, bad}
  Mismatched = {bad}
  NumThreads = 2
  MayExit = TRUE
INVARIANTS InvalidJustified
PROPERTIES ImplementsService Answered Stops
CHECK_DEADLOCK FALSE
