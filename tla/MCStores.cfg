CONSTANTS
  Blocks <- MCBlocks
  Parents <- MCParents
  Bads <- MCBads
  CacheSize <- MCCacheSize
  ReadKeys <- MCReadKeys
  MaxCrashes = 1
  ORIGIN = ORIGIN
  Item = Item
  None = None
SPECIFICATION MCSpec
INVARIANTS DiskConsistent ReadsCurrent NeverStuck NeverPanics UtxoSetExact VerdictsExact
CHECK_DEADLOCK FALSE
