------------------------------ MODULE ArenaProofs ------------------------------
(***************************************************************************)
(* Theorems about Arena when only owners share a block, for any number of  *)
(* goroutines, layers and addresses.                                       *)
(***************************************************************************)
EXTENDS Arena, TLAPS

\* A call in progress speaks of an address; one that is about to clear bits
\* finds them in the tree.
CallsWellFormed ==
  \A t \in Threads :
    /\ pc[t] # "idle" => loc[t].addr \in Addrs
    /\ pc[t] \in {"clear", "reclaim"} => loc[t].addr \in DOMAIN tree
    /\ pc[t] = "alloc" => loc[t].mask # {}

\* The heap gives an address to one block at a time.  What is pinned is what
\* the map holds and what an Alloc in progress has made.
FreshAddresses ==
  /\ \A t \in Threads : pc[t] = "alloc" =>
       /\ loc[t].addr \in pinned \ blocks
       /\ \A u \in Threads : pc[u] = "alloc" /\ loc[u].addr = loc[t].addr => u = t
  /\ blocks \subseteq pinned
  /\ \A a \in pinned \ blocks : \E t \in Threads : pc[t] = "alloc" /\ loc[t].addr = a

\* Goroutine t answers for bit l of the mask of block a: it owns the bit, or is
\* about to clear it.
Answers(t, a, l) ==
  \/ <<a, l>> \in held[t]
  \/ pc[t] = "clear" /\ loc[t].addr = a /\ l \in loc[t].mask

\* The masks in the tree are exact: each bit that is set has one goroutine that
\* answers for it, in one way, and no goroutine answers for another.
MasksExact ==
  /\ \A t \in Threads, a \in Addrs, l \in Layers :
       Answers(t, a, l) =>
         /\ a \in DOMAIN tree /\ l \in tree[a]
         /\ \A u \in Threads : Answers(u, a, l) => u = t
         /\ ~(<<a, l>> \in held[t] /\ pc[t] = "clear" /\ loc[t].addr = a /\ l \in loc[t].mask)
  /\ \A a \in DOMAIN tree : \A l \in tree[a] : \E t \in Threads : Answers(t, a, l)

\* A goroutine that clears nothing still owns bits of the block, so that only
\* the one that clears the last bit goes on to unpin it.
ClearsOwn ==
  \A t \in Threads :
    pc[t] = "clear" /\ loc[t].mask = {} => LayersOf(t, loc[t].addr) # {}

\* Until Close: a block whose mask is not empty is pinned; one whose mask is
\* empty is pinned exactly as long as one goroutine is about to unpin it.
PinnedWhileOwned ==
  /\ blocks \subseteq DOMAIN tree
  /\ closed => blocks = {}
  /\ \A t \in Threads : pc[t] = "reclaim" => tree[loc[t].addr] = {}
  /\ ~closed =>
       /\ \A a \in DOMAIN tree : tree[a] # {} => a \in blocks
       /\ \A t \in Threads : pc[t] = "reclaim" => loc[t].addr \in blocks
       /\ \A t, u \in Threads :
            pc[t] = "reclaim" /\ pc[u] = "reclaim" /\ loc[t].addr = loc[u].addr => t = u
       /\ \A a \in blocks : tree[a] = {} =>
            \E t \in Threads : pc[t] = "reclaim" /\ loc[t].addr = a

\* What holds also when anybody shares.
CallInv ==
  /\ TypeOK
  /\ CallsWellFormed
  /\ FreshAddresses

ArenaInv ==
  /\ CallInv
  /\ MasksExact
  /\ ClearsOwn
  /\ PinnedWhileOwned

-------------------------------------------------------------------------------

\* An arena that was just made satisfies the invariant.
LEMMA ArenaInit == Init => ArenaInv
<1> SUFFICES ASSUME Init PROVE ArenaInv
  OBVIOUS
<1>1. DOMAIN tree = {} /\ tree \in [DOMAIN tree -> SUBSET Layers]
  BY DEF Init
<1>2. TypeOK
  BY <1>1 DEF Init, TypeOK, NoCall
<1>3. CallsWellFormed /\ FreshAddresses /\ ClearsOwn
  BY DEF Init, CallsWellFormed, FreshAddresses, ClearsOwn
<1>4. MasksExact
  BY <1>1 DEF Init, MasksExact, Answers
<1>5. PinnedWhileOwned
  BY <1>1 DEF Init, PinnedWhileOwned
<1> QED
  BY <1>2, <1>3, <1>4, <1>5 DEF ArenaInv, CallInv

\* Alloc and Share give at least one bit, and bits of the mask only.
LEMMA MaskNormal ==
  ASSUME NEW m \in SUBSET Layers
  PROVE  normalizeMask(m) \in SUBSET Layers /\ normalizeMask(m) # {}
BY ArenaAssumption DEF normalizeMask

\* insert adds one address to the tree and changes no other.
LEMMA InsertTree ==
  ASSUME TypeOK, NEW a \in Addrs, NEW m \in SUBSET Layers
  PROVE  /\ DOMAIN insert(a, m) = DOMAIN tree \cup {a}
         /\ \A b \in DOMAIN tree : b # a => insert(a, m)[b] = tree[b]
         /\ insert(a, m)[a] = m \cup (IF a \in DOMAIN tree THEN tree[a] ELSE {})
         /\ insert(a, m) \in [DOMAIN tree \cup {a} -> SUBSET Layers]
BY DEF insert, TypeOK

\* Every action keeps the types.
LEMMA TypeStep ==
  ASSUME CallInv, [Next]_vars
  PROVE  TypeOK'
<1>t. TypeOK /\ CallsWellFormed
  BY DEF CallInv
<1>n. NoCall \in [addr : Addrs \cup {Nil}, mask : SUBSET Layers]
  BY DEF NoCall
<1> USE DEF TypeOK
<1>1. ASSUME NEW t \in Threads, NEW m \in SUBSET Layers, NEW a \in Addrs, AllocCall(t, a, m)
      PROVE  TypeOK'
  BY <1>1, <1>t, MaskNormal DEF AllocCall, Goto
<1>2. ASSUME NEW t \in Threads, AllocInsert(t) PROVE TypeOK'
  <2>1. loc[t].addr \in Addrs /\ loc[t].mask \in SUBSET Layers
    BY <1>2, <1>t DEF AllocInsert, CallsWellFormed
  <2>a. tree' = insert(loc[t].addr, loc[t].mask)
    BY <1>2 DEF AllocInsert
  <2>2. tree' \in [DOMAIN tree' -> SUBSET Layers] /\ DOMAIN tree' \subseteq Addrs
    BY <1>t, <2>1, <2>a DEF insert
  <2>3. {loc[t].addr} \X loc[t].mask \subseteq Addrs \X Layers
    BY <2>1
  <2>4. held' \in [Threads -> SUBSET (Addrs \X Layers)]
    BY <1>2, <1>t, <2>3 DEF AllocInsert
  <2> QED
    BY <1>2, <1>t, <1>n, <2>1, <2>2, <2>4 DEF AllocInsert, Return, Goto
<1>3. ASSUME NEW t \in Threads, AllocClosed(t) PROVE TypeOK'
  BY <1>3, <1>t, <1>n DEF AllocClosed, Return, Goto
<1>4. ASSUME NEW t \in Threads, NEW m \in SUBSET Layers, NEW a \in DOMAIN tree,
             NEW u \in Threads, Share(t, a, m, u)
      PROVE  TypeOK'
  <2>1. a \in Addrs /\ normalizeMask(m) \in SUBSET Layers
    BY <1>t, MaskNormal
  <2>a. tree' = insert(a, normalizeMask(m))
    BY <1>4 DEF Share
  <2>2. tree' \in [DOMAIN tree' -> SUBSET Layers] /\ DOMAIN tree' \subseteq Addrs
    BY <1>t, <2>1, <2>a DEF insert
  <2>3. {a} \X normalizeMask(m) \subseteq Addrs \X Layers
    BY <2>1
  <2> QED
    BY <1>4, <1>t, <2>2, <2>3 DEF Share
<1>5. ASSUME NEW t \in Threads, NEW m \in SUBSET Layers, NEW a \in DOMAIN tree,
             FreeCall(t, a, m)
      PROVE  TypeOK'
  BY <1>5, <1>t DEF FreeCall, Goto
<1>6. ASSUME NEW t \in Threads, freeVarying(t) PROVE TypeOK'
  BY <1>6, <1>t, <1>n DEF freeVarying, Return, Goto, CallsWellFormed
<1>7. ASSUME NEW t \in Threads, Reclaim(t) PROVE TypeOK'
  BY <1>7, <1>t, <1>n DEF Reclaim, Return, Goto
<1>8. CASE Close
  BY <1>8, <1>t DEF Close
<1>9. CASE UNCHANGED vars
  BY <1>9, <1>t DEF vars
<1> QED
  BY <1>1, <1>2, <1>3, <1>4, <1>5, <1>6, <1>7, <1>8, <1>9 DEF Next, Step, Call

\* Every action keeps what a call in progress has read of the tree.
LEMMA CallsStep ==
  ASSUME CallInv, [Next]_vars
  PROVE  CallsWellFormed' /\ FreshAddresses'
<1>t. TypeOK /\ CallsWellFormed /\ FreshAddresses
  BY DEF CallInv
<1> USE DEF TypeOK, CallsWellFormed, FreshAddresses
<1>1. ASSUME NEW t \in Threads, NEW m \in SUBSET Layers, NEW a \in Addrs, AllocCall(t, a, m)
      PROVE  CallsWellFormed' /\ FreshAddresses'
  BY <1>1, <1>t, MaskNormal DEF AllocCall, Goto
<1>2. ASSUME NEW t \in Threads, AllocInsert(t) PROVE CallsWellFormed' /\ FreshAddresses'
  <2>1. loc[t].addr \in Addrs /\ loc[t].mask \in SUBSET Layers
    BY <1>2, <1>t DEF AllocInsert
  <2>2. DOMAIN tree' = DOMAIN tree \cup {loc[t].addr}
    BY <1>2, <1>t, <2>1, InsertTree DEF AllocInsert
  <2> QED
    BY <1>2, <1>t, <2>2 DEF AllocInsert, Return, Goto
<1>3. ASSUME NEW t \in Threads, AllocClosed(t) PROVE CallsWellFormed' /\ FreshAddresses'
  BY <1>3, <1>t DEF AllocClosed, Return, Goto
<1>4. ASSUME NEW t \in Threads, NEW m \in SUBSET Layers, NEW a \in DOMAIN tree,
             NEW u \in Threads, Share(t, a, m, u)
      PROVE  CallsWellFormed' /\ FreshAddresses'
  <2>a. tree' = insert(a, normalizeMask(m)) /\ a \in Addrs /\ normalizeMask(m) \in SUBSET Layers
    BY <1>4, <1>t, MaskNormal DEF Share
  <2>1. DOMAIN tree' = DOMAIN tree
    BY <1>t, <2>a DEF insert
  <2> QED
    BY <1>4, <1>t, <2>1 DEF Share
<1>5. ASSUME NEW t \in Threads, NEW m \in SUBSET Layers, NEW a \in DOMAIN tree,
             FreeCall(t, a, m)
      PROVE  CallsWellFormed' /\ FreshAddresses'
  BY <1>5, <1>t DEF FreeCall, Goto
<1>6. ASSUME NEW t \in Threads, freeVarying(t) PROVE CallsWellFormed' /\ FreshAddresses'
  BY <1>6, <1>t DEF freeVarying, Return, Goto
<1>7. ASSUME NEW t \in Threads, Reclaim(t) PROVE CallsWellFormed' /\ FreshAddresses'
  BY <1>7, <1>t DEF Reclaim, Return, Goto
<1>8. CASE Close
  BY <1>8, <1>t DEF Close
<1>9. CASE UNCHANGED vars
  BY <1>9, <1>t DEF vars
<1> QED
  BY <1>1, <1>2, <1>3, <1>4, <1>5, <1>6, <1>7, <1>8, <1>9 DEF Next, Step, Call

\* Nobody answers for a bit of a block that is not pinned, until Close.
LEMMA NobodyAnswers ==
  ASSUME ArenaInv, ~closed, NEW a \in Addrs, a \notin blocks
  PROVE  /\ a \in DOMAIN tree => tree[a] = {}
         /\ \A t \in Threads, l \in Layers : ~Answers(t, a, l)
BY DEF ArenaInv, CallInv, MasksExact, PinnedWhileOwned

\* Every action keeps the masks exact.
LEMMA MasksStep ==
  ASSUME ArenaInv, [Next]_vars
  PROVE  MasksExact'
<1>t. TypeOK /\ CallsWellFormed /\ MasksExact
  BY DEF ArenaInv, CallInv
<1>s. ASSUME tree' = tree,
             \A u \in Threads, b \in Addrs, l \in Layers :
               /\ (<<b, l>> \in held'[u]) = (<<b, l>> \in held[u])
               /\ (pc'[u] = "clear" /\ loc'[u].addr = b /\ l \in loc'[u].mask)
                    = (pc[u] = "clear" /\ loc[u].addr = b /\ l \in loc[u].mask)
      PROVE  MasksExact'
  BY <1>s, <1>t DEF MasksExact, Answers, TypeOK
<1>1. ASSUME NEW t \in Threads, NEW m \in SUBSET Layers, NEW a \in Addrs, AllocCall(t, a, m)
      PROVE  MasksExact'
  BY <1>1, <1>s, <1>t DEF AllocCall, Goto, TypeOK
<1>2. ASSUME NEW t \in Threads, AllocInsert(t) PROVE MasksExact'
  <2> DEFINE a == loc[t].addr
             m == loc[t].mask
  <2>1. /\ a \in Addrs /\ m \in SUBSET Layers /\ pc[t] = "alloc" /\ a \notin blocks
        /\ \A u \in Threads, l \in Layers : ~Answers(u, a, l)
        /\ a \in DOMAIN tree => tree[a] = {}
    <3>1. a \in Addrs /\ m \in SUBSET Layers /\ pc[t] = "alloc" /\ a \notin blocks /\ ~closed
      BY <1>2, <1>t DEF AllocInsert, TypeOK, CallsWellFormed, ArenaInv, CallInv, FreshAddresses
    <3> QED
      BY <3>1, NobodyAnswers
  <2>2. /\ DOMAIN tree' = DOMAIN tree \cup {a} /\ tree'[a] = m
        /\ \A b \in DOMAIN tree : b # a => tree'[b] = tree[b]
    BY <1>2, <1>t, <2>1 DEF AllocInsert, insert, TypeOK
  <2>3. ASSUME NEW u \in Threads, NEW b \in Addrs, NEW l \in Layers
        PROVE  /\ <<b, l>> \in held'[u] <=> <<b, l>> \in held[u] \/ (u = t /\ b = a /\ l \in m)
               /\ pc'[u] = "clear" /\ loc'[u].addr = b /\ l \in loc'[u].mask
                    <=> pc[u] = "clear" /\ loc[u].addr = b /\ l \in loc[u].mask
    BY <1>2, <1>t, <2>1 DEF AllocInsert, Return, Goto, TypeOK
  <2> QED
    BY <1>t, <2>1, <2>2, <2>3 DEF MasksExact, Answers, TypeOK
<1>3. ASSUME NEW t \in Threads, AllocClosed(t) PROVE MasksExact'
  BY <1>3, <1>s, <1>t DEF AllocClosed, Return, Goto, TypeOK
<1>4. ASSUME NEW t \in Threads, NEW m \in SUBSET Layers, NEW a \in DOMAIN tree,
             NEW u \in Threads, Share(t, a, m, u)
      PROVE  MasksExact'
  <2> DEFINE n == normalizeMask(m)
  <2>1. a \in Addrs /\ n \in SUBSET Layers /\ tree[a] \cap n = {}
    BY <1>4, <1>t, MaskNormal DEF Share, TypeOK
  <2>2. /\ DOMAIN tree' = DOMAIN tree /\ tree'[a] = tree[a] \cup n
        /\ \A b \in DOMAIN tree : b # a => tree'[b] = tree[b]
    BY <1>4, <1>t, <2>1 DEF Share, insert, TypeOK
  <2>3. ASSUME NEW v \in Threads, NEW b \in Addrs, NEW l \in Layers
        PROVE  /\ <<b, l>> \in held'[v] <=> <<b, l>> \in held[v] \/ (v = u /\ b = a /\ l \in n)
               /\ pc'[v] = "clear" /\ loc'[v].addr = b /\ l \in loc'[v].mask
                    <=> pc[v] = "clear" /\ loc[v].addr = b /\ l \in loc[v].mask
    BY <1>4, <1>t, <2>1 DEF Share, TypeOK
  <2> HIDE DEF n
  <2> QED
    BY <1>t, <2>1, <2>2, <2>3 DEF MasksExact, Answers, TypeOK
<1>5. ASSUME NEW t \in Threads, NEW m \in SUBSET Layers, NEW a \in DOMAIN tree,
             FreeCall(t, a, m)
      PROVE  MasksExact'
  <2>1. /\ a \in Addrs /\ \A l \in m : l \in Layers /\ <<a, l>> \in held[t]
        /\ pc[t] = "idle" /\ tree' = tree
    BY <1>5, <1>t DEF FreeCall, LayersOf, TypeOK
  <2>3. ASSUME NEW v \in Threads, NEW b \in Addrs, NEW l \in Layers
        PROVE  /\ <<b, l>> \in held'[v] <=> <<b, l>> \in held[v] /\ ~(v = t /\ b = a /\ l \in m)
               /\ pc'[v] = "clear" /\ loc'[v].addr = b /\ l \in loc'[v].mask
                    <=> \/ v = t /\ b = a /\ l \in m
                        \/ pc[v] = "clear" /\ loc[v].addr = b /\ l \in loc[v].mask
    BY <1>5, <1>t, <2>1 DEF FreeCall, Goto, TypeOK
  <2> QED
    BY <1>t, <2>1, <2>3 DEF MasksExact, Answers, TypeOK
<1>6. ASSUME NEW t \in Threads, freeVarying(t) PROVE MasksExact'
  <2> DEFINE a == loc[t].addr
             m == loc[t].mask
  <2>1. a \in Addrs /\ a \in DOMAIN tree /\ m \in SUBSET Layers /\ pc[t] = "clear"
    BY <1>6, <1>t DEF freeVarying, TypeOK, CallsWellFormed
  <2>2. /\ DOMAIN tree' = DOMAIN tree /\ tree'[a] = tree[a] \ m
        /\ \A b \in DOMAIN tree : b # a => tree'[b] = tree[b]
    BY <1>6, <1>t, <2>1 DEF freeVarying, TypeOK
  <2>3. ASSUME NEW v \in Threads, NEW b \in Addrs, NEW l \in Layers
        PROVE  /\ <<b, l>> \in held'[v] <=> <<b, l>> \in held[v]
               /\ pc'[v] = "clear" /\ loc'[v].addr = b /\ l \in loc'[v].mask
                    <=> v # t /\ pc[v] = "clear" /\ loc[v].addr = b /\ l \in loc[v].mask
    BY <1>6, <1>t, <2>1 DEF freeVarying, Return, Goto, TypeOK
  <2>4. ASSUME NEW v \in Threads, NEW b \in Addrs, NEW l \in Layers
        PROVE  Answers(v, b, l)' <=> Answers(v, b, l) /\ ~(v = t /\ b = a /\ l \in m)
    BY <1>t, <2>1, <2>3 DEF MasksExact, Answers
  <2>5. ASSUME NEW l \in m PROVE l \in Layers /\ Answers(t, a, l)
    BY <2>1 DEF Answers
  <2>6. ASSUME NEW v \in Threads, NEW b \in Addrs, NEW l \in Layers, Answers(v, b, l)'
        PROVE  /\ b \in DOMAIN tree' /\ l \in tree'[b]
               /\ \A u \in Threads : Answers(u, b, l)' => u = v
               /\ ~(/\ <<b, l>> \in held'[v]
                    /\ pc'[v] = "clear" /\ loc'[v].addr = b /\ l \in loc'[v].mask)
    <3>1. Answers(v, b, l) /\ ~(v = t /\ b = a /\ l \in m)
      BY <2>4, <2>6
    <3>2. b \in DOMAIN tree /\ l \in tree[b] /\ \A u \in Threads : Answers(u, b, l) => u = v
      BY <1>t, <3>1 DEF MasksExact
    <3>3. ~(b = a /\ l \in m)
      BY <2>5, <3>1, <3>2
    <3>4. b \in DOMAIN tree' /\ l \in tree'[b]
      BY <2>2, <3>2, <3>3
    <3>5. \A u \in Threads : Answers(u, b, l)' => u = v
      BY <2>4, <3>2
    <3> QED
      BY <1>t, <2>3, <3>1, <3>4, <3>5 DEF MasksExact
  <2>7. ASSUME NEW b \in DOMAIN tree', NEW l \in tree'[b]
        PROVE  \E v \in Threads : Answers(v, b, l)'
    <3>1. b \in DOMAIN tree /\ b \in Addrs /\ l \in tree[b] /\ l \in Layers /\ ~(b = a /\ l \in m)
      BY <1>t, <2>2 DEF TypeOK
    <3>2. PICK v \in Threads : Answers(v, b, l)
      BY <1>t, <3>1 DEF MasksExact
    <3> QED
      BY <2>4, <3>1, <3>2
  <2> QED
    BY <2>6, <2>7 DEF MasksExact
<1>7. ASSUME NEW t \in Threads, Reclaim(t) PROVE MasksExact'
  BY <1>7, <1>s, <1>t DEF Reclaim, Return, Goto, TypeOK
<1>8. CASE Close
  BY <1>8, <1>s, <1>t DEF Close
<1>9. CASE UNCHANGED vars
  BY <1>9, <1>s, <1>t DEF vars
<1> QED
  BY <1>1, <1>2, <1>3, <1>4, <1>5, <1>6, <1>7, <1>8, <1>9 DEF Next, Step, Call

\* Every action keeps ClearsOwn: only a goroutine itself gives up its bits.
LEMMA ClearsStep ==
  ASSUME ArenaInv, [Next]_vars
  PROVE  ClearsOwn'
<1>t. TypeOK /\ CallsWellFormed /\ ClearsOwn
  BY DEF ArenaInv, CallInv
<1> USE DEF TypeOK, ClearsOwn, LayersOf
<1>1. ASSUME NEW t \in Threads, NEW m \in SUBSET Layers, NEW a \in Addrs, AllocCall(t, a, m)
      PROVE  ClearsOwn'
  BY <1>1, <1>t DEF AllocCall, Goto
<1>2. ASSUME NEW t \in Threads, AllocInsert(t) PROVE ClearsOwn'
  <2>1. \A u \in Threads : held[u] \subseteq held'[u]
    BY <1>2, <1>t DEF AllocInsert
  <2> QED
    BY <1>2, <1>t, <2>1 DEF AllocInsert, Return, Goto
<1>3. ASSUME NEW t \in Threads, AllocClosed(t) PROVE ClearsOwn'
  BY <1>3, <1>t DEF AllocClosed, Return, Goto
<1>4. ASSUME NEW t \in Threads, NEW m \in SUBSET Layers, NEW a \in DOMAIN tree,
             NEW u \in Threads, Share(t, a, m, u)
      PROVE  ClearsOwn'
  <2>1. \A v \in Threads : held[v] \subseteq held'[v]
    BY <1>4, <1>t DEF Share
  <2> QED
    BY <1>4, <1>t, <2>1 DEF Share
<1>5. ASSUME NEW t \in Threads, NEW m \in SUBSET Layers, NEW a \in DOMAIN tree,
             FreeCall(t, a, m)
      PROVE  ClearsOwn'
  <2>1. CASE m = {}
    <3>1. held' = held
      BY <1>5, <1>t, <2>1 DEF FreeCall
    <3> QED
      BY <1>5, <1>t, <3>1 DEF FreeCall, Goto
  <2>2. CASE m # {}
    BY <1>5, <1>t, <2>2 DEF FreeCall, Goto
  <2> QED
    BY <2>1, <2>2
<1>6. ASSUME NEW t \in Threads, freeVarying(t) PROVE ClearsOwn'
  BY <1>6, <1>t DEF freeVarying, Return, Goto
<1>7. ASSUME NEW t \in Threads, Reclaim(t) PROVE ClearsOwn'
  BY <1>7, <1>t DEF Reclaim, Return, Goto
<1>8. CASE Close
  BY <1>8, <1>t DEF Close
<1>9. CASE UNCHANGED vars
  BY <1>9, <1>t DEF vars
<1> QED
  BY <1>1, <1>2, <1>3, <1>4, <1>5, <1>6, <1>7, <1>8, <1>9 DEF Next, Step, Call

\* Every action keeps blocks pinned until their last bit is cleared, if only
\* owners share.
LEMMA PinnedStep ==
  ASSUME ~OpenShare, ArenaInv, [Next]_vars
  PROVE  PinnedWhileOwned'
<1>t. TypeOK /\ CallsWellFormed /\ FreshAddresses /\ MasksExact /\ ClearsOwn /\ PinnedWhileOwned
  BY DEF ArenaInv, CallInv
<1> USE DEF TypeOK, PinnedWhileOwned
<1>1. ASSUME NEW t \in Threads, NEW m \in SUBSET Layers, NEW a \in Addrs, AllocCall(t, a, m)
      PROVE  PinnedWhileOwned'
  BY <1>1, <1>t DEF AllocCall, Goto
<1>2. ASSUME NEW t \in Threads, AllocInsert(t) PROVE PinnedWhileOwned'
  <2> DEFINE a == loc[t].addr
             m == loc[t].mask
  <2>1. /\ a \in Addrs /\ m \in SUBSET Layers /\ m # {} /\ a \notin blocks /\ ~closed
        /\ pc[t] = "alloc"
    BY <1>2, <1>t DEF AllocInsert, CallsWellFormed, FreshAddresses
  <2>2. /\ DOMAIN tree' = DOMAIN tree \cup {a} /\ tree'[a] # {}
        /\ \A b \in DOMAIN tree : b # a => tree'[b] = tree[b]
    BY <1>2, <1>t, <2>1 DEF AllocInsert, insert
  <2>3. /\ \A u \in Threads : u # t => pc'[u] = pc[u] /\ loc'[u] = loc[u]
        /\ pc'[t] = "idle" /\ blocks' = blocks \cup {a} /\ closed' = closed
    BY <1>2, <1>t DEF AllocInsert, Return, Goto
  <2> HIDE DEF a, m
  <2>4. \A u \in Threads : pc[u] = "reclaim" =>
          u # t /\ loc[u].addr # a /\ loc[u].addr \in blocks /\ loc[u].addr \in DOMAIN tree
    BY <1>t, <2>1
  <2>5. blocks' \subseteq DOMAIN tree' /\ (closed' => blocks' = {})
    BY <1>t, <2>1, <2>2, <2>3
  <2>6. \A u \in Threads : pc'[u] = "reclaim" =>
          pc[u] = "reclaim" /\ loc'[u] = loc[u] /\ tree'[loc[u].addr] = {}
    BY <1>t, <2>2, <2>3, <2>4
  <2>7. \A b \in DOMAIN tree' : tree'[b] # {} => b \in blocks'
    BY <1>t, <2>1, <2>2, <2>3
  <2>8. ASSUME NEW b \in blocks', tree'[b] = {}
        PROVE  \E u \in Threads : pc'[u] = "reclaim" /\ loc'[u].addr = b
    <3>1. b \in blocks /\ tree[b] = {}
      BY <1>t, <2>2, <2>3, <2>8
    <3>2. PICK u \in Threads : pc[u] = "reclaim" /\ loc[u].addr = b
      BY <1>t, <2>1, <3>1
    <3> QED
      BY <2>3, <2>4, <3>2
  <2>9. \A u \in Threads : pc'[u] = "reclaim" => tree'[loc'[u].addr] = {}
    BY <2>6
  <2>10. \A u \in Threads : pc'[u] = "reclaim" => loc'[u].addr \in blocks'
    BY <2>3, <2>4, <2>6
  <2>11. \A u, v \in Threads :
           pc'[u] = "reclaim" /\ pc'[v] = "reclaim" /\ loc'[u].addr = loc'[v].addr => u = v
    BY <1>t, <2>1, <2>6
  <2> QED
    BY <2>5, <2>7, <2>8, <2>9, <2>10, <2>11
<1>3. ASSUME NEW t \in Threads, AllocClosed(t) PROVE PinnedWhileOwned'
  BY <1>3, <1>t DEF AllocClosed, Return, Goto
<1>4. ASSUME NEW t \in Threads, NEW m \in SUBSET Layers, NEW a \in DOMAIN tree,
             NEW u \in Threads, Share(t, a, m, u)
      PROVE  PinnedWhileOwned'
  <2>1. a \in Addrs /\ normalizeMask(m) \in SUBSET Layers /\ a \in blocks
    BY <1>4, <1>t, MaskNormal DEF Share
  <2>2. tree[a] # {}
    <3>1. PICK l \in Layers : <<a, l>> \in held[t]
      BY <1>4 DEF Share, LayersOf
    <3> QED
      BY <1>t, <2>1, <3>1 DEF MasksExact, Answers
  <2>3. /\ DOMAIN tree' = DOMAIN tree /\ tree'[a] # {}
        /\ \A b \in DOMAIN tree : b # a => tree'[b] = tree[b]
    BY <1>4, <1>t, <2>1, <2>2 DEF Share, insert
  <2> QED
    BY <1>4, <1>t, <2>1, <2>2, <2>3 DEF Share
<1>5. ASSUME NEW t \in Threads, NEW m \in SUBSET Layers, NEW a \in DOMAIN tree,
             FreeCall(t, a, m)
      PROVE  PinnedWhileOwned'
  BY <1>5, <1>t DEF FreeCall, Goto
<1>6. ASSUME NEW t \in Threads, freeVarying(t) PROVE PinnedWhileOwned'
  <2> DEFINE a == loc[t].addr
             m == loc[t].mask
  <2>1. a \in Addrs /\ a \in DOMAIN tree /\ m \in SUBSET Layers /\ pc[t] = "clear"
    BY <1>6, <1>t DEF freeVarying, CallsWellFormed
  <2>2. tree[a] # {}
    <3>1. PICK l \in Layers : Answers(t, a, l)
      BY <1>t, <2>1 DEF ClearsOwn, LayersOf, Answers
    <3> QED
      BY <1>t, <2>1, <3>1 DEF MasksExact
  <2>3. /\ DOMAIN tree' = DOMAIN tree /\ tree'[a] = tree[a] \ m
        /\ \A b \in DOMAIN tree : b # a => tree'[b] = tree[b]
        /\ blocks' = blocks /\ closed' = closed
        /\ \A u \in Threads : u # t => pc'[u] = pc[u] /\ loc'[u] = loc[u]
    BY <1>6, <1>t, <2>1 DEF freeVarying, Return, Goto
  <2>4. \A u \in Threads : pc[u] = "reclaim" => loc[u].addr # a /\ loc[u].addr \in DOMAIN tree
    BY <1>t, <2>2 DEF CallsWellFormed
  <2>5. CASE tree'[a] # {}
    <3>1. pc'[t] = "idle"
      BY <1>6, <1>t, <2>3, <2>5 DEF freeVarying, Return, Goto
    <3>2. ~closed => a \in blocks
      BY <1>t, <2>1, <2>2
    <3> HIDE DEF a, m
    <3>3. \A u \in Threads : pc'[u] = "reclaim" <=> pc[u] = "reclaim"
      BY <2>1, <2>3, <3>1
    <3>4. \A u \in Threads : pc[u] = "reclaim" => loc'[u] = loc[u] /\ tree'[loc[u].addr] = {}
      BY <1>t, <2>1, <2>3, <2>4
    <3>5. \A b \in DOMAIN tree' : /\ tree'[b] # {} => tree[b] # {}
                                  /\ tree'[b] = {} => tree[b] = {}
      BY <2>2, <2>3, <2>5
    <3>6. ASSUME ~closed, NEW b \in blocks, tree'[b] = {}
          PROVE  \E u \in Threads : pc'[u] = "reclaim" /\ loc'[u].addr = b
      <4>1. tree[b] = {}
        BY <1>t, <2>3, <3>5, <3>6
      <4>2. PICK u \in Threads : pc[u] = "reclaim" /\ loc[u].addr = b
        BY <1>t, <3>6, <4>1
      <4> QED
        BY <3>3, <3>4, <4>2
    <3>7. /\ \A u \in Threads : pc'[u] = "reclaim" => tree'[loc'[u].addr] = {}
          /\ ~closed => /\ \A u \in Threads : pc'[u] = "reclaim" => loc'[u].addr \in blocks
                        /\ \A u, v \in Threads :
                             pc'[u] = "reclaim" /\ pc'[v] = "reclaim" /\ loc'[u].addr = loc'[v].addr
                               => u = v
      BY <1>t, <3>3, <3>4
    <3>8. ~closed => \A b \in DOMAIN tree' : tree'[b] # {} => b \in blocks
      BY <1>t, <2>3, <3>5
    <3> QED
      BY <1>t, <2>3, <3>6, <3>7, <3>8
  <2>6. CASE tree'[a] = {}
    <3>1. pc'[t] = "reclaim" /\ loc'[t] = loc[t]
      BY <1>6, <1>t, <2>3, <2>6 DEF freeVarying, Return, Goto
    <3>2. loc'[t].addr = a
      BY <3>1
    <3>3. ~closed => a \in blocks
      BY <1>t, <2>1, <2>2
    <3> HIDE DEF a, m
    <3>4. \A u \in Threads : pc'[u] = "reclaim" =>
            \/ u = t
            \/ u # t /\ pc[u] = "reclaim" /\ loc'[u] = loc[u] /\ loc[u].addr # a
      BY <2>3, <2>4
    <3>5. \A u \in Threads : pc'[u] = "reclaim" => tree'[loc'[u].addr] = {}
      BY <1>t, <2>3, <2>4, <2>6, <3>2, <3>4
    <3>6. ASSUME NEW b \in blocks', tree'[b] = {}, ~closed
          PROVE  \E u \in Threads : pc'[u] = "reclaim" /\ loc'[u].addr = b
      <4>1. CASE b = a
        BY <3>1, <3>2, <4>1
      <4>2. CASE b # a
        <5>1. b \in blocks /\ tree[b] = {}
          BY <1>t, <2>3, <3>6, <4>2
        <5>2. PICK u \in Threads : pc[u] = "reclaim" /\ loc[u].addr = b
          BY <1>t, <3>6, <5>1
        <5>3. u # t
          BY <2>1, <5>2
        <5> QED
          BY <2>3, <5>2, <5>3
      <4> QED
        BY <4>1, <4>2
    <3>7. ~closed => \A b \in DOMAIN tree' : tree'[b] # {} => b \in blocks
      BY <1>t, <2>3, <2>6
    <3>8. ~closed => \A u \in Threads : pc'[u] = "reclaim" => loc'[u].addr \in blocks
      BY <1>t, <3>2, <3>3, <3>4
    <3>9. ~closed => \A u, v \in Threads :
            pc'[u] = "reclaim" /\ pc'[v] = "reclaim" /\ loc'[u].addr = loc'[v].addr => u = v
      BY <1>t, <3>2, <3>4
    <3> QED
      BY <1>t, <2>3, <3>5, <3>6, <3>7, <3>8, <3>9
  <2> QED
    BY <2>5, <2>6
<1>7. ASSUME NEW t \in Threads, Reclaim(t) PROVE PinnedWhileOwned'
  BY <1>7, <1>t DEF Reclaim, Return, Goto
<1>8. CASE Close
  BY <1>8, <1>t DEF Close
<1>9. CASE UNCHANGED vars
  BY <1>9, <1>t DEF vars
<1> QED
  BY <1>1, <1>2, <1>3, <1>4, <1>5, <1>6, <1>7, <1>8, <1>9 DEF Next, Step, Call

\* The invariant holds in every state, if only owners share.
LEMMA Invariance ==
  ASSUME ~OpenShare
  PROVE  Spec => []ArenaInv
<1>1. ArenaInv /\ [Next]_vars => ArenaInv'
  BY TypeStep, CallsStep, MasksStep, ClearsStep, PinnedStep DEF ArenaInv, CallInv
<1> QED
  BY <1>1, ArenaInit, PTL DEF Spec

\* Owner masks, the map, the tree and the calls in progress keep their types,
\* whoever shares.
THEOREM TypeCorrect == Spec => []TypeOK
<1>1. Init => CallInv
  BY ArenaInit DEF ArenaInv
<1>2. CallInv /\ [Next]_vars => CallInv'
  BY TypeStep, CallsStep DEF CallInv
<1>3. CallInv => TypeOK
  BY DEF CallInv
<1> QED
  BY <1>1, <1>2, <1>3, PTL DEF Spec

\* As long as only owners share, FreeVarying never unpins a block that has an
\* owner, whatever Alloc, Share, FreeVarying and Close are in progress.
THEOREM OwnersPinned == ~OpenShare => (Spec => []OwnedStaysPinned)
<1> SUFFICES ASSUME ~OpenShare PROVE Spec => []OwnedStaysPinned
  OBVIOUS
<1>1. ArenaInv => OwnedStaysPinned
  <2> SUFFICES ASSUME ArenaInv, ~closed, NEW t \in Threads, NEW o \in held[t]
               PROVE  o[1] \in pinned \cap blocks
    BY DEF OwnedStaysPinned
  <2>1. o \in Addrs \X Layers
    BY DEF ArenaInv, CallInv, TypeOK
  <2>2. PICK a \in Addrs, l \in Layers : o = <<a, l>>
    BY <2>1
  <2>3. a \in DOMAIN tree /\ tree[a] # {}
    BY <2>2 DEF ArenaInv, CallInv, MasksExact, Answers
  <2> QED
    BY <2>2, <2>3 DEF ArenaInv, CallInv, PinnedWhileOwned, FreshAddresses
<1> QED
  BY <1>1, Invariance, PTL

\* As long as only owners share, every block is unpinned with its last owner,
\* or by Close; an Alloc that met Close unpins what it had pinned.
THEOREM Unpinned == ~OpenShare => (Spec => []NothingLeftPinned)
<1> SUFFICES ASSUME ~OpenShare PROVE Spec => []NothingLeftPinned
  OBVIOUS
<1>1. ArenaInv => NothingLeftPinned
  <2> SUFFICES ASSUME ArenaInv PROVE NothingLeftPinned
    OBVIOUS
  <2>1. closed => blocks = {}
    BY DEF ArenaInv, CallInv, PinnedWhileOwned
  <2>2. ASSUME closed, NEW a \in pinned
        PROVE  \E t \in Threads : pc[t] = "alloc" /\ loc[t].addr = a
    BY <2>1, <2>2 DEF ArenaInv, CallInv, FreshAddresses
  <2>3. ASSUME Quiescent, NEW a \in pinned
        PROVE  \E t \in Threads : LayersOf(t, a) # {}
    <3>1. a \in blocks
      BY <2>3 DEF ArenaInv, CallInv, FreshAddresses, Quiescent
    <3>2. a \in DOMAIN tree /\ tree[a] # {}
      BY <2>1, <2>3, <3>1 DEF ArenaInv, CallInv, PinnedWhileOwned, Quiescent
    <3>3. PICK l \in tree[a] : TRUE
      BY <3>2
    <3>4. l \in Layers
      BY <3>2 DEF ArenaInv, CallInv, TypeOK
    <3>5. PICK t \in Threads : Answers(t, a, l)
      BY <3>2 DEF ArenaInv, CallInv, MasksExact
    <3>6. <<a, l>> \in held[t]
      BY <2>3, <3>5 DEF Answers, Quiescent
    <3> QED
      BY <3>4, <3>6 DEF LayersOf
  <2> QED
    BY <2>2, <2>3 DEF NothingLeftPinned
<1> QED
  BY <1>1, Invariance, PTL
===============================================================================
