CONSTANTS
  Threads = {t1, t2, t3}
  Layers = {0}
  Sizes = {8, 16}
  Base = 64
  Length = 208
  NodeCapacity = 4
  MinPayload = 16
  MaxBump = 272
SPECIFICATION Spec
SYMMETRY Symmetry
INVARIANT ExclusiveLease
CHECK_DEADLOCK FALSE
