---------------------------- MODULE PureArenaProofs ----------------------------
(***************************************************************************)
(* Theorems about PureArena, for every number of requests and arenas,      *)
(* every capacity and every integer width.                                 *)
(***************************************************************************)
EXTENDS PureArena, TLAPS

\* The slab New makes has a length that is an int64.
LEMMA SlabLength == slabLen \in Ints /\ 0 <= slabLen
BY WidthAssumption, ArenaAssumption DEF slabLen, Ints

\* The sum of two int64 values, the second positive, wraps into the int64s.
LEMMA WrapInts ==
  ASSUME NEW x \in Ints, NEW n \in Ints, n > 0
  PROVE  /\ Wrap(x + n) \in Ints
         /\ x >= 0 /\ Wrap(x + n) >= 0 => Wrap(x + n) = x + n
BY WidthAssumption DEF Wrap, Ints

\* A server that has seen no request satisfies the invariant.
LEMMA ArenaInit == Init => ArenaInv
BY WidthAssumption, ArenaAssumption
   DEF Init, ArenaInv, TypeOK, ArenasExclusive, GrantsBelow, Ints

\* Every action keeps the types: offsets stay int64 values.
LEMMA ArenaTypeStep ==
  ASSUME ArenaInv, [Next]_vars
  PROVE  TypeOK'
<1> USE DEF TypeOK
<1>t. TypeOK
  BY DEF ArenaInv
<1>a. ASSUME NEW r \in Requests, status[r] = "serving"
      PROVE  arena[r] \in Arenas
  BY <1>a, <1>t DEF ArenaInv, ArenasExclusive
<1>b. 0 \in Ints
  BY WidthAssumption DEF Ints
<1>1. ASSUME NEW r \in Requests, NEW a \in Arenas, GetPooled(r, a) PROVE TypeOK'
  BY <1>1, <1>t DEF GetPooled, Serve
<1>2. ASSUME NEW r \in Requests, NEW a \in Arenas, NEW k \in {"pool", "factory"},
             MakeArena(r, a, k)
      PROVE  TypeOK'
  BY <1>2, <1>b, <1>t DEF MakeArena, Serve
<1>3. ASSUME NEW r \in Requests, NEW n \in Sizes, Reserve(r, n)
      PROVE  off' \in [Arenas -> Ints] /\ Wrap(off[arena[r]] + n) \in Ints /\ off[arena[r]] \in Ints
  <2>1. off[arena[r]] \in Ints /\ n \in Ints /\ n > 0
    BY <1>3, <1>a, <1>t, ArenaAssumption DEF Reserve
  <2>2. Wrap(off[arena[r]] + n) \in Ints
    BY <2>1, WrapInts
  <2> QED
    BY <1>3, <1>t, <2>1, <2>2 DEF Reserve
<1>4. ASSUME NEW r \in Requests, NEW n \in Sizes, AllocGrant(r, n) PROVE TypeOK'
  <2>1. Reserve(r, n)
    BY <1>4 DEF AllocGrant
  <2>2. Slice(off[arena[r]], Wrap(off[arena[r]] + n)) \in Ints \X Ints
    BY <1>3, <2>1 DEF Slice
  <2> QED
    BY <1>3, <1>4, <1>t, <2>1, <2>2 DEF AllocGrant, Reserve
<1>5. ASSUME NEW r \in Requests, NEW n \in Sizes, AllocExhausted(r, n) PROVE TypeOK'
  BY <1>3, <1>5, <1>t DEF AllocExhausted, Reserve
<1>6. ASSUME NEW r \in Requests, NEW n \in Sizes, AllocPanic(r, n) PROVE TypeOK'
  BY <1>3, <1>6, <1>t DEF AllocPanic, Reserve
<1>7. ASSUME NEW r \in Requests, FinishPooled(r) PROVE TypeOK'
  <2>1. arena[r] \in Arenas
    BY <1>7, <1>t DEF FinishPooled, ArenaInv, ArenasExclusive
  <2> QED
    BY <1>7, <1>b, <1>t, <2>1 DEF FinishPooled, Put, Done
<1>8. ASSUME NEW r \in Requests, FinishFresh(r) PROVE TypeOK'
  BY <1>8, <1>t DEF FinishFresh, Done
<1>9. ASSUME NEW a \in Arenas, PoolDrop(a) PROVE TypeOK'
  BY <1>9, <1>t DEF PoolDrop
<1>10. CASE UNCHANGED vars
  BY <1>10, <1>t DEF vars
<1> QED
  BY <1>1, <1>2, <1>4, <1>5, <1>6, <1>7, <1>8, <1>9, <1>10 DEF Next

\* Every action keeps each arena in one place.
LEMMA ExclusiveStep ==
  ASSUME ArenaInv, [Next]_vars
  PROVE  ArenasExclusive'
<1>t. TypeOK /\ ArenasExclusive
  BY DEF ArenaInv
<1> USE ArenaAssumption DEF TypeOK, ArenasExclusive
<1>1. ASSUME NEW r \in Requests, NEW a \in Arenas, GetPooled(r, a) PROVE ArenasExclusive'
  BY <1>1, <1>t DEF GetPooled, Serve
<1>2. ASSUME NEW r \in Requests, NEW a \in Arenas, NEW k \in {"pool", "factory"},
             MakeArena(r, a, k)
      PROVE  ArenasExclusive'
  BY <1>2, <1>t DEF MakeArena, Serve, InUse
<1>3. ASSUME NEW r \in Requests, NEW n \in Sizes,
             AllocGrant(r, n) \/ AllocExhausted(r, n) \/ AllocPanic(r, n)
      PROVE  ArenasExclusive'
  <2>1. Reserve(r, n) /\ \A q \in Requests : status'[q] = "idle" <=> status[q] = "idle"
    BY <1>3, <1>t DEF AllocGrant, AllocExhausted, AllocPanic, Reserve
  <2> QED
    BY <1>t, <2>1 DEF Reserve
<1>4. ASSUME NEW r \in Requests, FinishPooled(r) PROVE ArenasExclusive'
  BY <1>4, <1>t DEF FinishPooled, Put, Done
<1>5. ASSUME NEW r \in Requests, FinishFresh(r) PROVE ArenasExclusive'
  BY <1>5, <1>t DEF FinishFresh, Done
<1>6. ASSUME NEW a \in Arenas, PoolDrop(a) PROVE ArenasExclusive'
  BY <1>6, <1>t DEF PoolDrop
<1>7. CASE UNCHANGED vars
  BY <1>7, <1>t DEF vars
<1> QED
  BY <1>1, <1>2, <1>3, <1>4, <1>5, <1>6, <1>7 DEF Next

\* Every action keeps the slices of a handler apart and below its offset.
LEMMA BelowStep ==
  ASSUME ArenaInv, [Next]_vars
  PROVE  GrantsBelow'
<1>t. TypeOK /\ ArenasExclusive /\ GrantsBelow
  BY DEF ArenaInv
<1> USE DEF TypeOK, GrantsBelow
<1>1. ASSUME NEW r \in Requests, NEW a \in Arenas, GetPooled(r, a) PROVE GrantsBelow'
  BY <1>1, <1>t DEF GetPooled, Serve, ArenasExclusive
<1>2. ASSUME NEW r \in Requests, NEW a \in Arenas, NEW k \in {"pool", "factory"},
             MakeArena(r, a, k)
      PROVE  GrantsBelow'
  BY <1>2, <1>t DEF MakeArena, Serve, InUse, ArenasExclusive
<1>3. ASSUME NEW r \in Requests, NEW n \in Sizes, Reserve(r, n)
      PROVE  /\ arena[r] \in Arenas /\ off[arena[r]] \in Ints /\ n \in Ints /\ n > 0
             /\ off[arena[r]] >= 0 /\ status[r] = "serving"
             /\ off'[arena[r]] = Wrap(off[arena[r]] + n) /\ arena' = arena
             /\ \A q \in Requests \ {r} : status[q] = "serving" => off'[arena[q]] = off[arena[q]]
  BY <1>3, <1>t, ArenaAssumption DEF Reserve, ArenasExclusive
<1>4. ASSUME NEW r \in Requests, NEW n \in Sizes, AllocGrant(r, n) PROVE GrantsBelow'
  <2> DEFINE curr == off[arena[r]]
             next == Wrap(curr + n)
  <2>1. Reserve(r, n) /\ next <= slabLen /\ curr <= next
    BY <1>4 DEF AllocGrant
  <2>2. curr \in Int /\ next \in Int /\ 0 <= curr /\ curr < next /\ next <= slabLen
        /\ off'[arena[r]] = next
    BY <1>3, <2>1, WrapInts DEF Ints
  <2>3. /\ grants'[r] = grants[r] \cup {<<curr, next>>} /\ status' = status /\ arena' = arena
        /\ \A q \in Requests \ {r} : grants'[q] = grants[q]
    BY <1>3, <1>4, <1>t, <2>1 DEF AllocGrant, Slice
  <2>4. \A g \in grants[r] : g[2] <= curr /\ g[1] \in Int /\ g[2] \in Int
    BY <1>3, <1>t, <2>1 DEF Ints
  <2> HIDE DEF curr, next
  <2>5. \A q \in Requests \ {r} : status[q] = "serving" => off'[arena[q]] = off[arena[q]]
    BY <1>3, <2>1
  <2>6. ASSUME NEW q \in Requests \ {r}
        PROVE  /\ status'[q] = "idle" => grants'[q] = {}
               /\ status'[q] = "serving" =>
                    0 <= off'[arena'[q]] /\ \A g \in grants'[q] : g[2] <= off'[arena'[q]]
               /\ \A g, h \in grants'[q] :
                    /\ 0 <= g[1] /\ g[1] < g[2] /\ g[2] <= slabLen
                    /\ g = h \/ g[2] <= h[1] \/ h[2] <= g[1]
    BY <1>t, <2>3, <2>5
  <2>7. status'[r] # "idle" /\ 0 <= off'[arena'[r]]
    BY <1>3, <2>1, <2>2, <2>3
  <2>8. \A g \in grants'[r] : g[2] <= off'[arena'[r]]
    BY <2>2, <2>3, <2>4
  <2>9. ASSUME NEW g \in grants'[r], NEW h \in grants'[r]
        PROVE  /\ 0 <= g[1] /\ g[1] < g[2] /\ g[2] <= slabLen
               /\ g = h \/ g[2] <= h[1] \/ h[2] <= g[1]
    <3>1. CASE g \in grants[r] /\ h \in grants[r]
      BY <1>t, <3>1
    <3>2. CASE g = <<curr, next>> /\ h = <<curr, next>>
      BY <2>2, <3>2
    <3>3. CASE g \in grants[r] /\ h = <<curr, next>>
      BY <1>t, <2>4, <3>3
    <3>4. CASE g = <<curr, next>> /\ h \in grants[r]
      BY <2>2, <2>4, <3>4
    <3> QED
      BY <2>3, <3>1, <3>2, <3>3, <3>4
  <2> QED
    BY <2>6, <2>7, <2>8, <2>9
<1>5. ASSUME NEW r \in Requests, NEW n \in Sizes, AllocExhausted(r, n) PROVE GrantsBelow'
  <2>1. Reserve(r, n) /\ Wrap(off[arena[r]] + n) > slabLen /\ UNCHANGED <<status, grants>>
    BY <1>5 DEF AllocExhausted
  <2>2. off'[arena[r]] = off[arena[r]] + n /\ off[arena[r]] \in Int /\ n \in Int /\ n > 0
    BY <1>3, <2>1, WrapInts, SlabLength DEF Ints
  <2>3. \A g \in grants[r] : g[2] \in Int /\ g[2] <= off[arena[r]]
    BY <1>3, <1>t, <2>1 DEF Ints
  <2>4. 0 <= off'[arena[r]] /\ \A g \in grants[r] : g[2] <= off'[arena[r]]
    BY <1>3, <2>1, <2>2, <2>3
  <2>5. /\ arena' = arena
        /\ \A q \in Requests \ {r} : status[q] = "serving" => off'[arena[q]] = off[arena[q]]
    BY <1>3, <2>1
  <2> QED
    BY <1>t, <2>1, <2>4, <2>5
<1>6. ASSUME NEW r \in Requests, NEW n \in Sizes, AllocPanic(r, n) PROVE GrantsBelow'
  <2>1. Reserve(r, n) /\ grants' = grants /\ status' = [status EXCEPT ![r] = "unwinding"]
    BY <1>6 DEF AllocPanic
  <2>2. /\ arena' = arena
        /\ \A q \in Requests \ {r} : status[q] = "serving" => off'[arena[q]] = off[arena[q]]
    BY <1>3, <2>1
  <2> QED
    BY <1>t, <2>1, <2>2
<1>7. ASSUME NEW r \in Requests, FinishPooled(r) PROVE GrantsBelow'
  BY <1>7, <1>t, ArenaAssumption DEF FinishPooled, Put, Done, ArenasExclusive
<1>8. ASSUME NEW r \in Requests, FinishFresh(r) PROVE GrantsBelow'
  BY <1>8, <1>t DEF FinishFresh, Done
<1>9. ASSUME NEW a \in Arenas, PoolDrop(a) PROVE GrantsBelow'
  BY <1>9, <1>t DEF PoolDrop
<1>10. CASE UNCHANGED vars
  BY <1>10, <1>t DEF vars
<1> QED
  BY <1>1, <1>2, <1>4, <1>5, <1>6, <1>7, <1>8, <1>9, <1>10 DEF Next

\* The invariant of pooled arenas.
THEOREM ArenaInvariant == Spec => []ArenaInv
<1>1. ArenaInv /\ [Next]_vars => ArenaInv'
  BY ArenaTypeStep, ExclusiveStep, BelowStep DEF ArenaInv
<1> QED
  BY <1>1, ArenaInit, PTL DEF Spec

\* The slices handlers may use never overlap and never leave their slab, for
\* every capacity, every mix of sizes, every width of the offset and any
\* recycling of arenas through the pool.
THEOREM Disjointness == Spec => []GrantsDisjoint
<1>1. ArenaInv => GrantsDisjoint
  <2> SUFFICES ASSUME ArenaInv, NEW r \in Requests, NEW q \in Requests,
                      NEW g \in grants[r], NEW h \in grants[q]
               PROVE  /\ 0 <= g[1] /\ g[1] < g[2] /\ g[2] <= slabLen
                      /\ arena[r] = arena[q] =>
                           (r = q /\ g = h) \/ g[2] <= h[1] \/ h[2] <= g[1]
    BY DEF GrantsDisjoint
  <2>1. arena[r] # NoArena
    BY DEF ArenaInv, ArenasExclusive, GrantsBelow
  <2> QED
    BY <2>1 DEF ArenaInv, ArenasExclusive, GrantsBelow
<1> QED
  BY <1>1, ArenaInvariant, PTL

\* An arena in the pool belongs to nobody and has been reset.
THEOREM CleanPool == Spec => []PoolClean
<1>1. ArenaInv => PoolClean
  BY DEF ArenaInv, ArenasExclusive, PoolClean, InUse
<1> QED
  BY <1>1, ArenaInvariant, PTL
===============================================================================
