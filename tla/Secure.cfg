SPECIFICATION Spec
CONSTANTS
  Threads = {t1, t2, t3}
  Cap = 2
  Sizes = {1, 3}
  IntMax = 3
SYMMETRY Symmetry
INVARIANTS TypeOK MappingLifetime NoPartialLock SecretsLocked Sanitized FreshSlices SlicesDisjoint
