CONSTANTS
  Threads = {t1, t2}
  Layers = {0, 1}
  Sizes = {0, 5, 16}
  Base = 64
  Length = 152
  NodeCapacity = 3
  MinPayload = 16
  MaxBump = 208
SPECIFICATION FairSpec
INVARIANTS TypeOK PointersValid BlocksDisjoint ExclusiveLease NoBlockLost ActiveCount OwnersRecorded
PROPERTY CallsReturn
CHECK_DEADLOCK FALSE
