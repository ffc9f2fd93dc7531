SPECIFICATION FairSpec
CONSTANTS
  Threads = {t1, t2}
  Addrs = {1, 2, 3}
  Layers = {0}
  Nodes = {n1, n2, n3, n4, n5}
  Nil = Nil
INVARIANTS TypeOK SearchPaths
PROPERTIES ImplementsMap CallsReturn
