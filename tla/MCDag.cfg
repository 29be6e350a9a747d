CONSTANTS
  Hashes <- MCHashes
  Genesis = 0
  K = 1
  KBits = 2
  Works <- MCWorks
  ORIGIN = ORIGIN
  merge_depth = 1
  finality_depth = 2
  pruning_depth = 3
  max_block_parents = 2
  mergeset_size_limit = 3
  difficulty_window_size = 3
  past_median_time_window_size = 2
  max_block_level = 3
  Level <- MCLevel
  Timestamp <- MCTimestamp
SPECIFICATION MCSpec
INVARIANTS ColoringExact WindowExact ParentsExact RootsExact PruningExact TemplateValid
CHECK_DEADLOCK FALSE
