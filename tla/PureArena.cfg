SPECIFICATION Spec
CONSTANTS
  Requests = {r1, r2}
  Arenas = {a1, a2}
  NoArena = NoArena
  Sizes <- MCSizes
  Capacity = 4
  IntMax = 15
SYMMETRY Symmetry
INVARIANTS GrantsDisjoint PoolClean
