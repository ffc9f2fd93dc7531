SPECIFICATION Spec
CONSTANTS
  Threads = {t1, t2, t3}
  Layers = {0, 1}
  Addrs = {a1, a2}
  Nil = Nil
  OpenShare = TRUE
SYMMETRY Symmetry
INVARIANT OwnedStaysPinned
