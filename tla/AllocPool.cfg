SPECIFICATION Spec
CONSTANTS
  Requests = {r1, r2, r3}
  Allocators = {a1, a2}
  Regions = {g1, g2, g3, g4}
  Cells = 2
  Nil = Nil
SYMMETRY Symmetry
INVARIANTS OneUser SlicesIntact MappingOwned PoolReady
CHECK_DEADLOCK FALSE
