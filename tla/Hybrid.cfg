SPECIFICATION FairSpec
CONSTANTS
  t1 = t1
  t2 = t2
  s1 = s1
  s2 = s2
  Threads = {t1, t2}
  Shards = {s1, s2}
  shardsOf <- Roaming
  Slabs = {a1, a2, a3, a4}
  smallSlabSize = 3
  smallThreshold = 2
  Sizes = {0, 2, 3}
  Nil = Nil
  SharedAfterReset = FALSE
  MaxCalls = 4
  MaxResets = 1
INVARIANTS GrantsDisjoint GrantsKept SlabsExclusive SlowPathSafe
PROPERTY AllocReturns
CHECK_DEADLOCK FALSE
