SPECIFICATION Spec
CONSTANTS
  t1 = t1
  t2 = t2
  s1 = s1
  s2 = s2
  Threads = {t1, t2}
  Shards = {s1}
  shardsOf <- OneShard
  Slabs = {a1, a2, a3, a4}
  smallSlabSize = 2
  smallThreshold = 2
  Sizes = {2}
  Nil = Nil
  SharedAfterReset = TRUE
  MaxCalls = 4
  MaxResets = 1
INVARIANT GrantsDisjoint
CHECK_DEADLOCK FALSE
