------------------------------ MODULE HybridProofs ------------------------------
(***************************************************************************)
(* Proofs about Hybrid, for every number of goroutines, shards and slabs   *)
(* and all sizes: the properties hold as long as no Reset or Close was     *)
(* made, and after one if the calls on a shard do not overlap.             *)
(***************************************************************************)
EXTENDS Hybrid, TLAPS

Labels == {"idle", "fast", "slow", "appendPtr", "appendLen", "appendElem", "own",
           "large", "panic", "wild"}

\* Goroutine t has the mutex of its shard; it has a slab that is in no list.
Locked(t) == pc[t] \in {"slow", "appendPtr", "appendLen", "appendElem", "own"}
Carrying(t) == pc[t] \in {"appendPtr", "appendLen", "appendElem"}

\* The shape of the fields of hybridAllocator and of the locals of its calls.
ArrayTypes ==
  /\ DOMAIN array = Shards
  /\ \A s \in Shards :
       /\ DOMAIN array[s] = Capacities
       /\ \A c \in Capacities : array[s][c] \in [1 .. c -> Slabs \cup {Nil}]

Locals == [shard : Shards \cup {Nil}, size : Nat, ptr : Capacities \cup {Unread},
           len : Nat \cup {Unread}, i : Nat \ {0}, slab : Slabs \cup {Nil}]

HybridTypes ==
  /\ ArrayTypes
  /\ ptr \in [Shards -> Capacities] /\ len \in [Shards -> Nat]
  /\ pool \in [Shards -> SUBSET Slabs]
  /\ mu \in [Shards -> Threads \cup {Nil}]
  /\ off \in [Slabs -> Nat]
  /\ pc \in [Threads -> Labels] /\ loc \in [Threads -> Locals]
  /\ grants \in [Threads -> SUBSET (Slabs \X Nat \X Nat)]
  /\ resets \in Nat

\* The list of a shard, without the entry that an append in progress has made
\* room for and not yet stored.
Settled(s) ==
  IF \E t \in Threads : loc[t].shard = s /\ pc[t] = "appendElem"
  THEN len[s] - 1 ELSE len[s]
Entry(s, i) == array[s][ptr[s]][i]
List(s) == {Entry(s, i) : i \in 1 .. Settled(s)}

\* What a call knows of its shard: under the mutex it has the header as it is.
CallOK(t) ==
  LET s == loc[t].shard
  IN /\ pc[t] \in {"idle", "panic"} => loc[t] = NoLocals
     /\ pc[t] \notin {"idle", "panic"} => s \in Shards
     /\ Locked(t) => mu[s] = t
     /\ pc[t] = "slow" => loc[t].ptr = ptr[s]
     /\ pc[t] \in {"slow", "appendPtr", "appendLen"} => loc[t].len = len[s]
     /\ pc[t] = "appendLen" => len[s] < ptr[s]
     /\ pc[t] = "appendElem" => loc[t].len \in Nat /\ len[s] = loc[t].len + 1
     /\ Carrying(t) => loc[t].slab \in Slabs
     /\ pc[t] = "own" => loc[t].slab \in List(s)

CallsOK == \A t \in Threads : CallOK(t)

\* Lists lie in their arrays and have no holes.
ListsOK == \A s \in Shards : len[s] <= ptr[s] /\ List(s) \subseteq Slabs

\* Before the first Reset the pools are empty, and whatever array a reader has,
\* old or new, has slabs of the list and nothing else.
BeforeReset ==
  resets = 0 =>
    \A s \in Shards :
      /\ pool[s] = {}
      /\ \A c \in Capacities : \A i \in 1 .. c : array[s][c][i] \in List(s) \cup {Nil}

\* After it, a call is alone on its shard, so the header it has read is true.
AfterReset ==
  resets > 0 =>
    /\ \A t, u \in Threads : loc[t].shard # Nil /\ loc[u].shard = loc[t].shard => u = t
    /\ \A t \in Threads :
         /\ pc[t] \notin {"panic", "wild"}
         /\ pc[t] \in {"fast", "slow"} =>
              /\ loc[t].ptr \in {Unread, ptr[loc[t].shard]}
              /\ loc[t].len \in {Unread, len[loc[t].shard]}

\* A slab is in one list, or one pool, or the hands of one call.
Exclusive ==
  /\ \A s, r \in Shards : List(s) \cap pool[r] = {}
  /\ \A s, r \in Shards : s # r => List(s) \cap List(r) = {} /\ pool[s] \cap pool[r] = {}
  /\ \A t \in Threads : Carrying(t) =>
       /\ off[loc[t].slab] = 0
       /\ \A s \in Shards : loc[t].slab \notin pool[s] \cup List(s)
       /\ \A u \in Threads : Carrying(u) /\ loc[u].slab = loc[t].slab => u = t

\* Slices lie below the offset of their slab, which is in a list.
GrantsBelow ==
  \A t \in Threads : \A g \in grants[t] :
    /\ \E s \in Shards : g[1] \in List(s)
    /\ g[3] <= off[g[1]] /\ g[3] <= smallSlabSize

\* No Reset or Close was made, or the calls on a shard are kept apart since.
CallsApart == resets = 0 \/ ~SharedAfterReset

HybridInv ==
  /\ HybridTypes
  /\ CallsOK
  /\ ListsOK
  /\ BeforeReset
  /\ AfterReset
  /\ Exclusive
  /\ GrantsBelow
  /\ GrantsDisjoint

-------------------------------------------------------------------------------

LEMMA CapacityTypes == Capacities \subseteq Nat /\ Unread \notin Nat
BY HybridAssumption DEF Capacities, Unread

LEMMA LocalsTypes == NoLocals \in Locals
BY DEF NoLocals, Locals, Unread

\* The allocator that New returns satisfies the invariant.
LEMMA HybridInit == Init => HybridInv
<1> SUFFICES ASSUME Init PROVE HybridInv
  OBVIOUS
<1> USE HybridAssumption, CapacityTypes
<1>1. HybridTypes
  <2>1. ArrayTypes
    BY DEF Init, ArrayTypes
  <2>2. 0 \in Capacities
    BY DEF Capacities
  <2> QED
    BY <2>1, <2>2, LocalsTypes DEF Init, HybridTypes, Labels
<1>2. \A s \in Shards : List(s) = {} /\ len[s] = 0 /\ ptr[s] = 0 /\ pool[s] = {}
  BY DEF Init, List, Settled
<1>3. CallsOK
  BY DEF Init, CallsOK, CallOK, Locked, Carrying
<1>4. BeforeReset
  BY <1>2 DEF Init, BeforeReset
<1>5. AfterReset /\ Exclusive /\ GrantsBelow /\ GrantsDisjoint
  BY <1>2 DEF Init, AfterReset, Exclusive, GrantsBelow, GrantsDisjoint, Carrying
<1> QED
  BY <1>1, <1>2, <1>3, <1>4, <1>5 DEF HybridInv, ListsOK

-------------------------------------------------------------------------------
(* Facts about the state.                                                  *)

\* Two calls do not have the mutex of one shard.
LEMMA OneLocked ==
  ASSUME HybridInv, NEW t \in Threads, NEW u \in Threads,
         Locked(t), Locked(u), loc[t].shard = loc[u].shard
  PROVE  t = u
BY DEF HybridInv, CallsOK, CallOK

\* A list is settled unless a call on it is at its last store.
LEMMA SettledLength ==
  ASSUME HybridInv, NEW s \in Shards
  PROVE  /\ Settled(s) \in Nat /\ Settled(s) <= len[s]
         /\ \A t \in Threads : Locked(t) /\ loc[t].shard = s /\ pc[t] # "appendElem"
              => Settled(s) = len[s]
         /\ \A t \in Threads : pc[t] = "appendElem" /\ loc[t].shard = s
              => Settled(s) = loc[t].len /\ Settled(s) = len[s] - 1
<1>1. len[s] \in Nat
  BY DEF HybridInv, HybridTypes
<1>2. ASSUME NEW t \in Threads, pc[t] = "appendElem", loc[t].shard = s
      PROVE  /\ Settled(s) = loc[t].len /\ Settled(s) = len[s] - 1
             /\ Settled(s) \in Nat /\ Settled(s) <= len[s]
  <2>1. loc[t].len \in Nat /\ len[s] = loc[t].len + 1
    BY <1>2 DEF HybridInv, CallsOK, CallOK
  <2>2. Settled(s) = len[s] - 1
    BY <1>2 DEF Settled
  <2> QED
    BY <1>1, <2>1, <2>2
<1>3. ASSUME ~\E t \in Threads : loc[t].shard = s /\ pc[t] = "appendElem"
      PROVE  Settled(s) = len[s]
  BY <1>3 DEF Settled
<1>4. ASSUME NEW t \in Threads, Locked(t), loc[t].shard = s, pc[t] # "appendElem"
      PROVE  Settled(s) = len[s]
  <2>1. \A u \in Threads : loc[u].shard = s => pc[u] # "appendElem"
    BY <1>4, OneLocked DEF Locked
  <2> QED
    BY <1>3, <2>1
<1> QED
  BY <1>1, <1>2, <1>3, <1>4

\* An entry of a list that is settled.
LEMMA ListEntry ==
  ASSUME HybridInv, NEW s \in Shards, NEW i \in 1 .. Settled(s)
  PROVE  Entry(s, i) \in List(s) /\ Entry(s, i) \in Slabs
BY DEF List, HybridInv, ListsOK

\* Nil is no slab, and a list is in its array.
LEMMA NilSlab == Nil \notin Slabs /\ Nil \notin Threads /\ Nil \notin Shards
BY HybridAssumption

\* What a scan reads of an array is a slab of the list of its shard, or nil
\* before the first Reset.
LEMMA ElementListed ==
  ASSUME HybridInv, NEW t \in Threads, InArray(t)
  PROVE  /\ loc[t].shard \in Shards
         /\ Element(t) # Nil => Element(t) \in List(loc[t].shard)
         /\ resets > 0 => Element(t) # Nil
<1> DEFINE s == loc[t].shard
<1>1. s \in Shards /\ loc[t].i \in Nat \ {0} /\ pc[t] \in {"fast", "slow"}
  BY DEF HybridInv, HybridTypes, Locals, CallsOK, CallOK, InArray, Scanning
<1>2. /\ loc[t].ptr \in Capacities /\ loc[t].len \in Nat
      /\ loc[t].i \in 1 .. loc[t].len /\ loc[t].i \in 1 .. loc[t].ptr
  <2>1. loc[t].ptr \in Capacities /\ loc[t].len \in Nat
    BY DEF HybridInv, HybridTypes, Locals, InArray, Scanning
  <2> QED
    BY <1>1, <2>1, CapacityTypes DEF InArray, Scanning
<1>3. CASE resets = 0
  BY <1>1, <1>2, <1>3 DEF HybridInv, BeforeReset, Element
<1>4. CASE resets > 0
  <2>1. loc[t].ptr = ptr[s] /\ loc[t].len = len[s]
    BY <1>1, <1>2, <1>4, CapacityTypes DEF HybridInv, AfterReset, InArray, Scanning
  <2>2. Settled(s) = len[s]
    <3>1. \A u \in Threads : loc[u].shard = s => pc[u] # "appendElem"
      BY <1>1, <1>4, NilSlab DEF HybridInv, AfterReset
    <3> QED
      BY <3>1 DEF Settled
  <2>3. Element(t) = Entry(s, loc[t].i)
    BY <2>1 DEF Element, Entry
  <2> QED
    BY <1>1, <1>2, <2>1, <2>2, <2>3, ListEntry, NilSlab
<1>5. resets \in Nat
  BY DEF HybridInv, HybridTypes
<1> QED
  BY <1>1, <1>3, <1>4, <1>5

-------------------------------------------------------------------------------
(* Steps that leave the lists as they are.                                 *)

\* A step of t that neither begins nor ends the last store of an append.
ListsStay(t) ==
  /\ UNCHANGED <<array, ptr, len>>
  /\ pc[t] # "appendElem" /\ pc'[t] # "appendElem"
  /\ \A u \in Threads \ {t} : pc'[u] = pc[u] /\ loc'[u] = loc[u]

LEMMA ListsFrame ==
  ASSUME NEW t \in Threads, ListsStay(t)
  PROVE  \A s \in Shards : Settled(s)' = Settled(s) /\ List(s)' = List(s)
<1> SUFFICES ASSUME NEW s \in Shards
             PROVE  Settled(s)' = Settled(s) /\ List(s)' = List(s)
  OBVIOUS
<1>1. (\E u \in Threads : loc[u].shard = s /\ pc[u] = "appendElem")'
        <=> \E u \in Threads : loc[u].shard = s /\ pc[u] = "appendElem"
  BY DEF ListsStay
<1>2. Settled(s)' = Settled(s)
  BY <1>1 DEF ListsStay, Settled
<1> QED
  BY <1>2 DEF ListsStay, List, Entry

\* What such a step leaves to be shown: types, the locals of t, the slabs and
\* slices it touches.
LEMMA QuietFrame ==
  ASSUME HybridInv, NEW t \in Threads, ListsStay(t), HybridTypes',
         pool' = pool, resets' = resets, CallOK(t)', ~Carrying(t)',
         \A s \in Shards : mu[s] # t => mu'[s] = mu[s] \/ mu[s] = Nil,
         \A a \in Slabs : off[a] <= off'[a]
                         /\ ((\A s \in Shards : a \notin List(s)) => off'[a] = off[a]),
         resets > 0 =>
           /\ loc'[t].shard \in {Nil, loc[t].shard} \/ Alone(loc'[t].shard)
           /\ pc'[t] \notin {"panic", "wild"}
           /\ pc'[t] \in {"fast", "slow"} =>
                /\ loc'[t].ptr \in {Unread, ptr[loc'[t].shard]}
                /\ loc'[t].len \in {Unread, len[loc'[t].shard]}
  PROVE  CallsOK' /\ ListsOK' /\ BeforeReset' /\ AfterReset' /\ Exclusive'
<1>1. \A s \in Shards : Settled(s)' = Settled(s) /\ List(s)' = List(s)
  BY ListsFrame
<1>2. CallsOK'
  <2> SUFFICES ASSUME NEW u \in Threads \ {t} PROVE CallOK(u)'
    BY DEF CallsOK
  <2>1. CallOK(u) /\ pc'[u] = pc[u] /\ loc'[u] = loc[u] /\ ptr' = ptr /\ len' = len
    BY DEF HybridInv, CallsOK, ListsStay
  <2>2. Locked(u) => mu'[loc[u].shard] = u
    <3>1. Locked(u) => loc[u].shard \in Shards /\ mu[loc[u].shard] = u
      BY <2>1 DEF CallOK, Locked
    <3> QED
      BY <3>1, NilSlab
  <2>3. pc[u] = "own" => loc[u].slab \in List(loc[u].shard)'
    BY <1>1, <2>1 DEF CallOK
  <2> QED
    BY <2>1, <2>2, <2>3 DEF CallOK, Locked, Carrying
<1>3. ListsOK'
  BY <1>1 DEF HybridInv, ListsOK, ListsStay
<1>4. BeforeReset'
  BY <1>1 DEF HybridInv, BeforeReset, ListsStay
<1>5. AfterReset'
  <2> SUFFICES ASSUME resets > 0
               PROVE  /\ \A v, u \in Threads :
                           loc'[v].shard # Nil /\ loc'[u].shard = loc'[v].shard => u = v
                      /\ \A u \in Threads :
                           /\ pc'[u] \notin {"panic", "wild"}
                           /\ pc'[u] \in {"fast", "slow"} =>
                                /\ loc'[u].ptr \in {Unread, ptr[loc'[u].shard]}
                                /\ loc'[u].len \in {Unread, len[loc'[u].shard]}
    BY DEF AfterReset, ListsStay
  <2>1. \A u \in Threads \ {t} : pc'[u] = pc[u] /\ loc'[u] = loc[u]
    BY DEF ListsStay
  <2>2. \A v, u \in Threads : loc[v].shard # Nil /\ loc[u].shard = loc[v].shard => u = v
    BY DEF HybridInv, AfterReset
  <2>3. \A v, u \in Threads :
          loc'[v].shard # Nil /\ loc'[u].shard = loc'[v].shard => u = v
    BY <2>1, <2>2 DEF Alone
  <2>4. ASSUME NEW u \in Threads
        PROVE  /\ pc'[u] \notin {"panic", "wild"}
               /\ pc'[u] \in {"fast", "slow"} =>
                    /\ loc'[u].ptr \in {Unread, ptr[loc'[u].shard]}
                    /\ loc'[u].len \in {Unread, len[loc'[u].shard]}
    <3>1. CASE u = t
      BY <3>1
    <3>2. CASE u # t
      BY <2>1, <3>2 DEF HybridInv, AfterReset
    <3> QED
      BY <3>1, <3>2
  <2> QED
    BY <2>3, <2>4
<1>6. Exclusive'
  <2>1. \A u \in Threads : Carrying(u)' => Carrying(u) /\ loc'[u] = loc[u]
    BY DEF Carrying, ListsStay
  <2>2. \A u \in Threads : Carrying(u) => loc[u].slab \in Slabs /\ off'[loc[u].slab] = 0
    BY DEF HybridInv, CallsOK, CallOK, Exclusive
  <2> QED
    BY <1>1, <2>1, <2>2 DEF HybridInv, Exclusive
<1> QED
  BY <1>2, <1>3, <1>4, <1>5, <1>6

\* A step that gives no slice keeps the slices apart.
LEMMA GrantsFrame ==
  ASSUME HybridInv, grants' = grants, off' \in [Slabs -> Nat],
         \A s \in Shards : List(s) \subseteq List(s)',
         \A t \in Threads : \A g \in grants[t] : off[g[1]] <= off'[g[1]]
  PROVE  GrantsBelow' /\ GrantsDisjoint'
<1>1. ASSUME NEW t \in Threads, NEW g \in grants[t]
      PROVE  /\ \E s \in Shards : g[1] \in List(s)'
             /\ g[3] <= off'[g[1]] /\ g[3] <= smallSlabSize
  <2>1. g[1] \in Slabs /\ g[3] \in Nat
    BY DEF HybridInv, HybridTypes
  <2>2. /\ \E s \in Shards : g[1] \in List(s)
        /\ g[3] <= off[g[1]] /\ g[3] <= smallSlabSize
    BY DEF HybridInv, GrantsBelow
  <2>3. off[g[1]] \in Nat /\ off'[g[1]] \in Nat /\ off[g[1]] <= off'[g[1]]
    BY <2>1 DEF HybridInv, HybridTypes
  <2> QED
    BY <2>1, <2>2, <2>3
<1>2. GrantsBelow'
  BY <1>1 DEF GrantsBelow
<1>3. GrantsDisjoint'
  BY DEF HybridInv, GrantsDisjoint
<1> QED
  BY <1>2, <1>3

\* A slice carved at the offset of a slab that is in a list is apart from the
\* slices below it.
LEMMA GrantsAdded ==
  ASSUME HybridInv, NEW t \in Threads, NEW r \in Shards, NEW a \in List(r), NEW n \in Nat,
         \A s \in Shards : List(s)' = List(s),
         Fits(a, n), Reserve(a, n), Grant(t, a, n)
  PROVE  /\ GrantsBelow' /\ GrantsDisjoint'
         /\ grants' \in [Threads -> SUBSET (Slabs \X Nat \X Nat)]
<1> DEFINE new == <<a, off[a], off[a] + n>>
<1>1. /\ a \in Slabs /\ off[a] \in Nat /\ off \in [Slabs -> Nat]
      /\ grants \in [Threads -> SUBSET (Slabs \X Nat \X Nat)]
      /\ smallSlabSize \in Nat
  BY HybridAssumption DEF HybridInv, HybridTypes, ListsOK
<1>2. /\ off'[a] = off[a] + n /\ off[a] + n <= smallSlabSize
      /\ \A b \in Slabs : off'[b] \in Nat /\ off[b] <= off'[b]
  BY <1>1 DEF Reserve, Fits
<1>3. /\ grants'[t] = grants[t] \cup {new}
      /\ \A u \in Threads \ {t} : grants'[u] = grants[u]
  BY <1>1 DEF Grant
<1>4. grants' \in [Threads -> SUBSET (Slabs \X Nat \X Nat)]
  BY <1>1 DEF Grant
<1>5. ASSUME NEW u \in Threads, NEW g \in grants'[u]
      PROVE  (g = new /\ u = t) \/ g \in grants[u]
  BY <1>3, <1>5
<1>6. ASSUME NEW u \in Threads, NEW g \in grants[u]
      PROVE  /\ g[1] \in Slabs /\ g[2] \in Nat /\ g[3] \in Nat
             /\ \E s \in Shards : g[1] \in List(s)
             /\ g[3] <= off[g[1]] /\ g[3] <= smallSlabSize
  BY <1>1 DEF HybridInv, GrantsBelow
<1>7. new[1] = a /\ new[2] = off[a] /\ new[3] = off[a] + n
  OBVIOUS
<1> HIDE DEF new
<1>8. GrantsBelow'
  <2> SUFFICES ASSUME NEW u \in Threads, NEW g \in grants'[u]
               PROVE  /\ \E s \in Shards : g[1] \in List(s)
                      /\ g[3] <= off'[g[1]] /\ g[3] <= smallSlabSize
    BY DEF GrantsBelow
  <2>1. CASE g = new
    BY <1>1, <1>2, <1>7, <2>1
  <2>2. CASE g \in grants[u]
    <3>1. /\ g[1] \in Slabs /\ g[3] \in Nat /\ g[3] <= off[g[1]] /\ g[3] <= smallSlabSize
          /\ \E s \in Shards : g[1] \in List(s)
      BY <1>6, <2>2
    <3>2. off[g[1]] \in Nat /\ off'[g[1]] \in Nat /\ off[g[1]] <= off'[g[1]]
      BY <1>1, <1>2, <3>1
    <3> QED
      BY <3>1, <3>2
  <2> QED
    BY <1>5, <2>1, <2>2
<1>9. GrantsDisjoint'
  <2> SUFFICES ASSUME NEW u \in Threads, NEW v \in Threads,
                      NEW g \in grants'[u], NEW h \in grants'[v]
               PROVE  /\ g[3] <= smallSlabSize
                      /\ g[1] = h[1] =>
                           (u = v /\ g = h) \/ g[3] <= h[2] \/ h[3] <= g[2]
    BY DEF GrantsDisjoint
  <2>1. CASE g = new /\ u = t
    <3>1. CASE h = new /\ v = t
      BY <1>1, <1>2, <1>7, <2>1, <3>1
    <3>2. CASE h \in grants[v]
      <4>1. h[1] = a => h[3] <= off[a]
        BY <1>6, <3>2
      <4> QED
        BY <1>1, <1>2, <1>7, <2>1, <4>1
    <3> QED
      BY <1>5, <3>1, <3>2
  <2>2. CASE g \in grants[u]
    <3>1. CASE h = new /\ v = t
      <4>1. g[3] <= smallSlabSize /\ (g[1] = a => g[3] <= off[a])
        BY <1>6, <2>2
      <4> QED
        BY <1>7, <3>1, <4>1
    <3>2. CASE h \in grants[v]
      BY <2>2, <3>2 DEF HybridInv, GrantsDisjoint
    <3> QED
      BY <1>5, <3>1, <3>2
  <2> QED
    BY <1>5, <2>1, <2>2
<1> QED
  BY <1>4, <1>8, <1>9

-------------------------------------------------------------------------------
(* The actions, outside the mutex.                                         *)

\* A step of t that touches no list, pool, offset or slice.
LEMMA QuietStep ==
  ASSUME HybridInv, NEW t \in Threads, ListsStay(t),
         UNCHANGED <<pool, off, grants, resets>>,
         mu' \in [Shards -> Threads \cup {Nil}],
         pc' \in [Threads -> Labels], loc' \in [Threads -> Locals],
         CallOK(t)', ~Carrying(t)',
         \A s \in Shards : mu[s] # t => mu'[s] = mu[s] \/ mu[s] = Nil,
         resets > 0 =>
           /\ loc'[t].shard \in {Nil, loc[t].shard} \/ Alone(loc'[t].shard)
           /\ pc'[t] \notin {"panic", "wild"}
           /\ pc'[t] \in {"fast", "slow"} =>
                /\ loc'[t].ptr \in {Unread, ptr[loc'[t].shard]}
                /\ loc'[t].len \in {Unread, len[loc'[t].shard]}
  PROVE  HybridInv'
<1>1. HybridTypes
  BY DEF HybridInv
<1>2. HybridTypes'
  BY <1>1 DEF HybridTypes, ArrayTypes, ListsStay
<1>3. \A a \in Slabs : off[a] <= off'[a]
  BY <1>1 DEF HybridTypes
<1>4. CallsOK' /\ ListsOK' /\ BeforeReset' /\ AfterReset' /\ Exclusive'
  BY <1>2, <1>3, QuietFrame
<1>5. \A u \in Threads : \A g \in grants[u] : g[1] \in Slabs
  BY <1>1 DEF HybridTypes
<1>6. GrantsBelow' /\ GrantsDisjoint'
  BY <1>1, <1>3, <1>5, ListsFrame, GrantsFrame DEF HybridTypes
<1> QED
  BY <1>2, <1>4, <1>6 DEF HybridInv

\* A call that returns or panics has no locals left.
LEMMA Returned ==
  ASSUME HybridTypes, NEW t \in Threads, NEW label \in {"idle", "panic"},
         Goto(t, label), loc' = [loc EXCEPT ![t] = NoLocals]
  PROVE  /\ pc' \in [Threads -> Labels] /\ loc' \in [Threads -> Locals]
         /\ pc'[t] = label /\ loc'[t] = NoLocals /\ loc'[t].shard = Nil
         /\ CallOK(t)' /\ ~Carrying(t)'
         /\ \A u \in Threads \ {t} : pc'[u] = pc[u] /\ loc'[u] = loc[u]
<1>1. /\ pc' \in [Threads -> Labels] /\ loc' \in [Threads -> Locals]
      /\ pc'[t] = label /\ loc'[t] = NoLocals
      /\ \A u \in Threads \ {t} : pc'[u] = pc[u] /\ loc'[u] = loc[u]
  BY LocalsTypes DEF HybridTypes, Goto, Labels
<1>2. loc'[t].shard = Nil
  BY <1>1 DEF NoLocals
<1>3. CallOK(t)' /\ ~Carrying(t)'
  BY <1>1 DEF CallOK, Carrying, Locked
<1> QED
  BY <1>1, <1>2, <1>3

\* Unlock leaves the mutexes of others alone.
LEMMA Unlocked ==
  ASSUME HybridTypes, NEW t \in Threads, loc[t].shard \in Shards, Unlock(t)
  PROVE  /\ mu' \in [Shards -> Threads \cup {Nil}]
         /\ \A s \in Shards : mu[s] # t => mu'[s] = mu[s]
BY DEF HybridTypes, Unlock

\* After a Reset no scan meets a nil element or leaves its array.
LEMMA NoFault ==
  ASSUME HybridInv, NEW t \in Threads, resets > 0
  PROVE  ~TryNil(t) /\ ~TryWild(t)
<1>1. ASSUME Scanning(t) PROVE loc[t].i <= loc[t].ptr /\ loc[t].ptr # 0
  <2> DEFINE s == loc[t].shard
  <2>1. /\ s \in Shards /\ loc[t].i \in Nat \ {0}
        /\ loc[t].ptr # Unread /\ loc[t].len # Unread /\ loc[t].i <= loc[t].len
    BY <1>1 DEF HybridInv, HybridTypes, Locals, CallsOK, CallOK, Scanning
  <2>2. loc[t].ptr = ptr[s] /\ loc[t].len = len[s]
    BY <1>1, <2>1 DEF HybridInv, AfterReset, Scanning
  <2>3. len[s] <= ptr[s] /\ len[s] \in Nat /\ ptr[s] \in Nat
    BY <2>1, CapacityTypes DEF HybridInv, ListsOK, HybridTypes
  <2> QED
    BY <2>1, <2>2, <2>3
<1>2. Scanning(t) => loc[t].ptr \in Nat /\ loc[t].i \in Nat
  BY CapacityTypes DEF HybridInv, HybridTypes, Locals, Scanning
<1> QED
  BY <1>1, <1>2, ElementListed DEF TryNil, TryWild, InArray

LEMMA AllocCallStep ==
  ASSUME CallsApart, HybridInv, NEW t \in Threads, NEW s \in shardsOf[t],
         NEW n \in Sizes, AllocCall(t, s, n)
  PROVE  HybridInv'
<1>1. s \in Shards /\ n \in Nat
  BY HybridAssumption
<1>2. loc[t] = NoLocals /\ HybridTypes /\ loc[t] \in Locals /\ loc \in [Threads -> Locals]
  BY DEF HybridInv, HybridTypes, CallsOK, CallOK, AllocCall
<1>3. /\ loc' = [loc EXCEPT ![t].shard = s, ![t].size = n]
      /\ pc'[t] \in {"fast", "large"}
      /\ loc'[t].shard = s /\ loc'[t].size = n /\ loc'[t].ptr = Unread /\ loc'[t].len = Unread
  BY <1>2 DEF AllocCall, Goto, HybridTypes, NoLocals, Locals
<1>4. loc' \in [Threads -> Locals]
  <2>1. [loc[t] EXCEPT !.shard = s, !.size = n] \in Locals
    BY <1>1, <1>2 DEF Locals
  <2>2. loc' = [loc EXCEPT ![t] = [loc[t] EXCEPT !.shard = s, !.size = n]]
    BY <1>3
  <2> QED
    BY <1>2, <2>1, <2>2
<1>5. pc' \in [Threads -> Labels]
  BY <1>2 DEF AllocCall, Goto, HybridTypes, Labels
<1>6. ListsStay(t)
  BY <1>2, <1>3 DEF AllocCall, Goto, ListsStay, HybridTypes
<1>7. CallOK(t)' /\ ~Carrying(t)'
  BY <1>1, <1>3 DEF CallOK, Carrying, Locked
<1>8. resets > 0 => Alone(s)
  BY <1>2 DEF AllocCall, HybridTypes, CallsApart
<1>9. UNCHANGED <<pool, off, grants, resets, mu>> /\ mu \in [Shards -> Threads \cup {Nil}]
  BY <1>2 DEF AllocCall, HybridTypes
<1> QED
  BY <1>3, <1>4, <1>5, <1>6, <1>7, <1>8, <1>9, QuietStep

\* The two loads of the slice header.
LEMMA LoadStep ==
  ASSUME HybridInv, NEW t \in Threads, LoadPtr(t) \/ LoadLen(t)
  PROVE  HybridInv'
<1> DEFINE s == loc[t].shard
<1>1. /\ pc[t] = "fast" /\ s \in Shards /\ HybridTypes
      /\ loc[t] \in Locals /\ loc \in [Threads -> Locals]
      /\ ptr[s] \in Capacities /\ len[s] \in Nat
  BY DEF LoadPtr, LoadLen, HybridInv, HybridTypes, CallsOK, CallOK
<1>2. PICK r \in Locals :
        /\ loc' = [loc EXCEPT ![t] = r] /\ r.shard = s
        /\ r.ptr \in {loc[t].ptr, ptr[s]} /\ r.len \in {loc[t].len, len[s]}
  <2>1. CASE LoadPtr(t)
    <3> DEFINE r == [loc[t] EXCEPT !.ptr = ptr[s]]
    <3>1. r \in Locals /\ r.shard = s /\ r.ptr = ptr[s] /\ r.len = loc[t].len
      BY <1>1 DEF Locals
    <3>2. loc' = [loc EXCEPT ![t] = r]
      BY <2>1 DEF LoadPtr
    <3> QED
      BY <3>1, <3>2
  <2>2. CASE LoadLen(t)
    <3> DEFINE r == [loc[t] EXCEPT !.len = len[s]]
    <3>1. r \in Locals /\ r.shard = s /\ r.ptr = loc[t].ptr /\ r.len = len[s]
      BY <1>1 DEF Locals
    <3>2. loc' = [loc EXCEPT ![t] = r]
      BY <2>2 DEF LoadLen
    <3> QED
      BY <3>1, <3>2
  <2> QED
    BY <2>1, <2>2
<1>3. UNCHANGED <<array, ptr, len, pool, mu, off, pc, grants, resets>>
  BY DEF LoadPtr, LoadLen
<1>4. /\ loc' \in [Threads -> Locals] /\ loc'[t] = r
      /\ pc' \in [Threads -> Labels] /\ mu' \in [Shards -> Threads \cup {Nil}]
      /\ \A u \in Threads \ {t} : loc'[u] = loc[u]
  BY <1>1, <1>2, <1>3 DEF HybridTypes
<1>5. ListsStay(t)
  BY <1>1, <1>3, <1>4 DEF ListsStay
<1>6. CallOK(t)' /\ ~Carrying(t)'
  BY <1>1, <1>2, <1>3, <1>4 DEF CallOK, Carrying, Locked
<1>7. resets > 0 => r.ptr \in {Unread, ptr[s]} /\ r.len \in {Unread, len[s]}
  BY <1>1, <1>2 DEF HybridInv, AfterReset
<1> QED
  BY <1>1, <1>2, <1>3, <1>4, <1>5, <1>6, <1>7, QuietStep

\* A call that ends without a slice.
LEMMA EndStep ==
  ASSUME HybridInv, NEW t \in Threads, TryZero(t) \/ TryNil(t) \/ Large(t)
  PROVE  HybridInv'
<1>1. /\ loc[t].shard \in Shards /\ HybridTypes
      /\ pc[t] \in {"fast", "slow", "large"}
  BY DEF HybridInv, HybridTypes, CallsOK, CallOK, TryZero, TryNil, Large, InArray, Scanning
<1>2. PICK label \in {"idle", "panic"} :
        /\ Goto(t, label) /\ loc' = [loc EXCEPT ![t] = NoLocals]
        /\ resets > 0 => label = "idle"
  BY NoFault DEF TryZero, TryNil, Large, Return
<1>3. UNCHANGED <<array, ptr, len, pool, off, grants, resets>> /\ (Unlock(t) \/ mu' = mu)
  BY DEF TryZero, TryNil, Large
<1>4. /\ mu' \in [Shards -> Threads \cup {Nil}]
      /\ \A s \in Shards : mu[s] # t => mu'[s] = mu[s]
  BY <1>1, <1>3, Unlocked DEF HybridTypes
<1>5. /\ pc' \in [Threads -> Labels] /\ loc' \in [Threads -> Locals]
      /\ pc'[t] = label /\ loc'[t] = NoLocals /\ loc'[t].shard = Nil
      /\ CallOK(t)' /\ ~Carrying(t)'
      /\ \A u \in Threads \ {t} : pc'[u] = pc[u] /\ loc'[u] = loc[u]
  BY <1>1, <1>2, Returned
<1>6. ListsStay(t)
  BY <1>1, <1>3, <1>5 DEF ListsStay
<1> QED
  BY <1>2, <1>3, <1>4, <1>5, <1>6, QuietStep

\* A read beyond the array, before the first Reset.
LEMMA WildStep ==
  ASSUME HybridInv, NEW t \in Threads, TryWild(t)
  PROVE  HybridInv'
<1>1. /\ pc[t] \in {"fast", "slow"} /\ loc[t].shard \in Shards /\ HybridTypes /\ ~(resets > 0)
  BY NoFault DEF HybridInv, HybridTypes, CallsOK, CallOK, TryWild, Scanning
<1>2. /\ UNCHANGED <<array, ptr, len, pool, off, grants, resets, mu, loc>>
      /\ pc' \in [Threads -> Labels] /\ pc'[t] = "wild"
      /\ \A u \in Threads \ {t} : pc'[u] = pc[u]
  BY <1>1 DEF TryWild, Goto, HybridTypes, Labels
<1>3. ListsStay(t) /\ CallOK(t)' /\ ~Carrying(t)'
  BY <1>1, <1>2 DEF ListsStay, CallOK, Carrying, Locked
<1>4. loc' \in [Threads -> Locals] /\ mu' \in [Shards -> Threads \cup {Nil}]
  BY <1>1, <1>2 DEF HybridTypes
<1> QED
  BY <1>1, <1>2, <1>3, <1>4, QuietStep

\* The mutex is taken, and the header read again.
LEMMA LockStep ==
  ASSUME HybridInv, NEW t \in Threads, Lock(t)
  PROVE  HybridInv'
<1> DEFINE s == loc[t].shard
<1> DEFINE r == [NoLocals EXCEPT !.shard = s, !.size = loc[t].size, !.ptr = ptr[s],
                   !.len = len[s]]
<1>1. /\ pc[t] = "fast" /\ s \in Shards /\ HybridTypes
      /\ loc[t].size \in Nat /\ ptr[s] \in Capacities /\ len[s] \in Nat
  BY DEF Lock, EnterSlow, Scanned, HybridInv, HybridTypes, CallsOK, CallOK, Locals
<1>2. r \in Locals /\ r.shard = s /\ r.ptr = ptr[s] /\ r.len = len[s]
  BY <1>1, LocalsTypes DEF Locals, NoLocals
<1>3. /\ UNCHANGED <<array, ptr, len, pool, off, grants, resets>>
      /\ mu[s] = Nil /\ mu' = [mu EXCEPT ![s] = t] /\ loc' = [loc EXCEPT ![t] = r]
      /\ pc' = [pc EXCEPT ![t] = "slow"]
  BY DEF Lock, EnterSlow, Goto
<1> HIDE DEF r
<1>4. /\ mu' \in [Shards -> Threads \cup {Nil}] /\ mu'[s] = t
      /\ \A q \in Shards : mu[q] # t => mu'[q] = mu[q] \/ mu[q] = Nil
      /\ pc' \in [Threads -> Labels] /\ loc' \in [Threads -> Locals]
      /\ pc'[t] = "slow" /\ loc'[t] = r
      /\ \A u \in Threads \ {t} : pc'[u] = pc[u] /\ loc'[u] = loc[u]
  BY <1>1, <1>2, <1>3 DEF HybridTypes, Labels
<1>5. ListsStay(t)
  BY <1>1, <1>3, <1>4 DEF ListsStay
<1>6. CallOK(t)' /\ ~Carrying(t)'
  BY <1>1, <1>2, <1>3, <1>4 DEF CallOK, Carrying, Locked
<1> QED
  BY <1>1, <1>2, <1>3, <1>4, <1>5, <1>6, QuietStep

-------------------------------------------------------------------------------
(* The actions that carve a slab.                                          *)

\* A step of t that moves the offset of a slab in a list, and may give what it
\* passes over.
LEMMA CarveStep ==
  ASSUME HybridInv, NEW t \in Threads, ListsStay(t),
         NEW r \in Shards, NEW a \in List(r), NEW n \in Nat, Reserve(a, n),
         grants' = grants \/ (Fits(a, n) /\ Grant(t, a, n)),
         UNCHANGED <<pool, resets>>,
         mu' \in [Shards -> Threads \cup {Nil}],
         pc' \in [Threads -> Labels], loc' \in [Threads -> Locals],
         CallOK(t)', ~Carrying(t)',
         \A s \in Shards : mu[s] # t => mu'[s] = mu[s] \/ mu[s] = Nil,
         resets > 0 =>
           /\ loc'[t].shard \in {Nil, loc[t].shard}
           /\ pc'[t] \notin {"panic", "wild"}
           /\ pc'[t] \in {"fast", "slow"} =>
                /\ loc'[t].ptr \in {Unread, ptr[loc'[t].shard]}
                /\ loc'[t].len \in {Unread, len[loc'[t].shard]}
  PROVE  HybridInv'
<1>1. HybridTypes /\ a \in Slabs
  BY DEF HybridInv, ListsOK
<1>2. /\ off' \in [Slabs -> Nat]
      /\ \A b \in Slabs : off[b] <= off'[b] /\ (b # a => off'[b] = off[b])
  BY <1>1 DEF HybridTypes, Reserve
<1>3. \A s \in Shards : List(s)' = List(s)
  BY ListsFrame
<1>4. \A u \in Threads : \A g \in grants[u] : g[1] \in Slabs
  BY <1>1 DEF HybridTypes
<1>5. /\ GrantsBelow' /\ GrantsDisjoint'
      /\ grants' \in [Threads -> SUBSET (Slabs \X Nat \X Nat)]
  <2>1. CASE grants' = grants
    <3>1. GrantsBelow' /\ GrantsDisjoint'
      BY <1>2, <1>3, <1>4, <2>1, GrantsFrame
    <3> QED
      BY <1>1, <2>1, <3>1 DEF HybridTypes
  <2>2. CASE Fits(a, n) /\ Grant(t, a, n)
    BY <1>3, <2>2, GrantsAdded
  <2> QED
    BY <2>1, <2>2
<1>6. HybridTypes'
  BY <1>1, <1>2, <1>5 DEF HybridTypes, ArrayTypes, ListsStay
<1>7. \A b \in Slabs : off[b] <= off'[b]
                      /\ ((\A s \in Shards : b \notin List(s)) => off'[b] = off[b])
  BY <1>2
<1>8. CallsOK' /\ ListsOK' /\ BeforeReset' /\ AfterReset' /\ Exclusive'
  BY <1>6, <1>7, QuietFrame
<1> QED
  BY <1>5, <1>6, <1>8 DEF HybridInv

\* A slice from a slab that the scan met.
LEMMA TryGrantStep ==
  ASSUME HybridInv, NEW t \in Threads, TryGrant(t)
  PROVE  HybridInv'
<1> DEFINE s == loc[t].shard
<1> DEFINE a == Element(t)
<1> DEFINE n == loc[t].size
<1>1. /\ s \in Shards /\ HybridTypes /\ a \in List(s) /\ n \in Nat
      /\ pc[t] \in {"fast", "slow"}
  BY ElementListed DEF TryGrant, HybridInv, HybridTypes, Locals, InArray, Scanning
<1>2. /\ Fits(a, n) /\ Reserve(a, n) /\ Grant(t, a, n) /\ Unlock(t)
      /\ Goto(t, "idle") /\ loc' = [loc EXCEPT ![t] = NoLocals]
      /\ UNCHANGED <<array, ptr, len, pool, resets>>
  BY DEF TryGrant, Return
<1>3. /\ mu' \in [Shards -> Threads \cup {Nil}]
      /\ \A q \in Shards : mu[q] # t => mu'[q] = mu[q]
  BY <1>1, <1>2, Unlocked
<1>4. /\ pc' \in [Threads -> Labels] /\ loc' \in [Threads -> Locals]
      /\ pc'[t] = "idle" /\ loc'[t].shard = Nil /\ CallOK(t)' /\ ~Carrying(t)'
      /\ \A u \in Threads \ {t} : pc'[u] = pc[u] /\ loc'[u] = loc[u]
  BY <1>1, <1>2, Returned
<1>5. ListsStay(t)
  BY <1>1, <1>2, <1>4 DEF ListsStay
<1> HIDE DEF s, a, n
<1> QED
  BY <1>1, <1>2, <1>3, <1>4, <1>5, CarveStep

\* The slab is too full: its offset moves and the scan goes on.
LEMMA TryNextStep ==
  ASSUME HybridInv, NEW t \in Threads, TryNext(t)
  PROVE  HybridInv'
<1> DEFINE s == loc[t].shard
<1> DEFINE a == Element(t)
<1> DEFINE n == loc[t].size
<1> DEFINE r == [loc[t] EXCEPT !.i = @ + 1]
<1>1. /\ s \in Shards /\ HybridTypes /\ a \in List(s) /\ n \in Nat
      /\ pc[t] \in {"fast", "slow"} /\ loc[t] \in Locals /\ CallOK(t)
  BY ElementListed DEF TryNext, HybridInv, HybridTypes, CallsOK, Locals, InArray, Scanning
<1>2. /\ Reserve(a, n) /\ loc' = [loc EXCEPT ![t] = r]
      /\ UNCHANGED <<array, ptr, len, pool, mu, pc, grants, resets>>
  BY DEF TryNext
<1>3. /\ r \in Locals /\ r.shard = s /\ r.ptr = loc[t].ptr /\ r.len = loc[t].len
      /\ r.slab = loc[t].slab
  BY <1>1 DEF Locals
<1> HIDE DEF r
<1>4. /\ pc' \in [Threads -> Labels] /\ loc' \in [Threads -> Locals] /\ loc'[t] = r
      /\ mu' \in [Shards -> Threads \cup {Nil}]
      /\ \A u \in Threads \ {t} : pc'[u] = pc[u] /\ loc'[u] = loc[u]
  BY <1>1, <1>2, <1>3 DEF HybridTypes
<1>5. ListsStay(t)
  BY <1>1, <1>2, <1>4 DEF ListsStay
<1>6. CallOK(t)' /\ ~Carrying(t)'
  BY <1>1, <1>2, <1>3, <1>4 DEF CallOK, Carrying, Locked
<1>7. resets > 0 =>
        /\ pc'[t] \notin {"panic", "wild"}
        /\ r.ptr \in {Unread, ptr[s]} /\ r.len \in {Unread, len[s]}
  BY <1>1, <1>2, <1>3 DEF HybridInv, AfterReset
<1> HIDE DEF a, n
<1> QED
  BY <1>1, <1>2, <1>3, <1>4, <1>5, <1>6, <1>7, CarveStep

\* The alloc from the slab that this call appended.
LEMMA OwnStep ==
  ASSUME HybridInv, NEW t \in Threads, OwnGrant(t) \/ OwnFail(t)
  PROVE  HybridInv'
<1> DEFINE s == loc[t].shard
<1> DEFINE a == loc[t].slab
<1> DEFINE n == loc[t].size
<1>1. /\ s \in Shards /\ HybridTypes /\ a \in List(s) /\ n \in Nat /\ pc[t] = "own"
  BY DEF OwnGrant, OwnFail, HybridInv, HybridTypes, CallsOK, CallOK, Locals
<1>2. UNCHANGED <<array, ptr, len, pool, resets>> /\ Unlock(t)
  BY DEF OwnGrant, OwnFail
<1>3. /\ mu' \in [Shards -> Threads \cup {Nil}]
      /\ \A q \in Shards : mu[q] # t => mu'[q] = mu[q]
  BY <1>1, <1>2, Unlocked
<1>4. /\ pc' \in [Threads -> Labels] /\ loc' \in [Threads -> Locals]
      /\ pc'[t] \in {"idle", "large"} /\ loc'[t].shard \in {Nil, s}
      /\ CallOK(t)' /\ ~Carrying(t)'
      /\ \A u \in Threads \ {t} : pc'[u] = pc[u] /\ loc'[u] = loc[u]
  <2>1. CASE OwnGrant(t)
    BY <1>1, <2>1, Returned DEF OwnGrant, Return
  <2>2. CASE OwnFail(t)
    <3>1. /\ pc' = [pc EXCEPT ![t] = "large"] /\ loc' = loc
      BY <2>2 DEF OwnFail, Goto
    <3>2. /\ pc' \in [Threads -> Labels] /\ loc' \in [Threads -> Locals]
          /\ pc'[t] = "large" /\ \A u \in Threads \ {t} : pc'[u] = pc[u]
      BY <1>1, <3>1 DEF HybridTypes, Labels
    <3>3. CallOK(t)' /\ ~Carrying(t)'
      BY <1>1, <3>1, <3>2 DEF CallOK, Carrying, Locked
    <3> QED
      BY <3>1, <3>2, <3>3
  <2> QED
    BY <2>1, <2>2
<1>5. ListsStay(t)
  BY <1>1, <1>2, <1>4 DEF ListsStay
<1>6. CASE n = 0 /\ OwnGrant(t)
  <2>1. UNCHANGED <<off, grants>>
    BY <1>6 DEF OwnGrant
  <2> HIDE DEF s, a, n
  <2> QED
    BY <1>2, <1>3, <1>4, <1>5, <2>1, QuietStep DEF s
<1>7. CASE n # 0 \/ OwnFail(t)
  <2>1. Reserve(a, n) /\ (grants' = grants \/ (Fits(a, n) /\ Grant(t, a, n)))
    BY <1>7 DEF OwnGrant, OwnFail
  <2> HIDE DEF a, n
  <2> QED
    BY <1>1, <1>2, <1>3, <1>4, <1>5, <2>1, CarveStep
<1> QED
  BY <1>6, <1>7

-------------------------------------------------------------------------------
(* The actions that append a slab, under the mutex.                        *)

\* A step of t that keeps the mutex of its shard and touches no other list.
Holding(t) ==
  /\ Locked(t) /\ pc'[t] \in {"appendPtr", "appendLen", "appendElem", "own"}
  /\ loc'[t].shard = loc[t].shard
  /\ UNCHANGED <<mu, resets, grants>>
  /\ \A u \in Threads \ {t} : pc'[u] = pc[u] /\ loc'[u] = loc[u]
  /\ \A q \in Shards \ {loc[t].shard} :
       array'[q] = array[q] /\ ptr'[q] = ptr[q] /\ len'[q] = len[q]

LEMMA HoldingLists ==
  ASSUME HybridInv, NEW t \in Threads, Holding(t)
  PROVE  \A q \in Shards \ {loc[t].shard} : List(q)' = List(q)
<1> SUFFICES ASSUME NEW q \in Shards \ {loc[t].shard} PROVE List(q)' = List(q)
  OBVIOUS
<1>1. (\E u \in Threads : loc[u].shard = q /\ pc[u] = "appendElem")'
        <=> \E u \in Threads : loc[u].shard = q /\ pc[u] = "appendElem"
  BY DEF Holding
<1>2. Settled(q)' = Settled(q)
  BY <1>1 DEF Holding, Settled
<1> QED
  BY <1>2 DEF Holding, List, Entry

\* The other calls on the shard are on their fast path; after a Reset there are
\* none.
LEMMA HoldingCalls ==
  ASSUME HybridInv, NEW t \in Threads, Holding(t), CallOK(t)',
         NEW s \in Shards, s = loc[t].shard, List(s) \subseteq List(s)'
  PROVE  CallsOK' /\ AfterReset'
<1>1. \A q \in Shards : List(q) \subseteq List(q)'
  BY HoldingLists
<1>2. ASSUME NEW u \in Threads \ {t} PROVE CallOK(u)'
  <2>1. CallOK(u) /\ pc'[u] = pc[u] /\ loc'[u] = loc[u] /\ mu' = mu
    BY DEF HybridInv, CallsOK, Holding
  <2>2. ASSUME Locked(u)
        PROVE  /\ loc[u].shard \in Shards \ {s}
               /\ ptr'[loc[u].shard] = ptr[loc[u].shard]
               /\ len'[loc[u].shard] = len[loc[u].shard]
    <3>1. loc[u].shard \in Shards /\ loc[u].shard # s
      BY <2>1, <2>2, OneLocked DEF CallOK, Locked, Holding
    <3> QED
      BY <3>1 DEF Holding
  <2>3. pc[u] = "own" => loc[u].slab \in List(loc[u].shard)'
    BY <1>1, <2>1 DEF CallOK
  <2> QED
    BY <2>1, <2>2, <2>3 DEF CallOK, Locked, Carrying
<1>3. CallsOK'
  BY <1>2 DEF CallsOK
<1>4. AfterReset'
  <2> SUFFICES ASSUME resets > 0, NEW u \in Threads
               PROVE  /\ \A v \in Threads :
                           loc'[v].shard # Nil /\ loc'[u].shard = loc'[v].shard => u = v
                      /\ pc'[u] \notin {"panic", "wild"}
                      /\ pc'[u] \in {"fast", "slow"} =>
                           /\ loc'[u].ptr \in {Unread, ptr'[loc'[u].shard]}
                           /\ loc'[u].len \in {Unread, len'[loc'[u].shard]}
    BY DEF AfterReset, Holding
  <2>1. \A v \in Threads : loc'[v].shard = loc[v].shard
    BY DEF Holding
  <2>2. \A v \in Threads :
          loc[v].shard # Nil /\ loc[u].shard = loc[v].shard => u = v
    BY DEF HybridInv, AfterReset
  <2>3. CASE u = t
    BY <2>1, <2>2, <2>3 DEF Holding
  <2>4. CASE u # t
    <3>1. /\ pc'[u] = pc[u] /\ loc'[u] = loc[u] /\ pc[u] \notin {"panic", "wild"}
          /\ pc[u] \in {"fast", "slow"} =>
               /\ loc[u].shard \in Shards
               /\ loc[u].ptr \in {Unread, ptr[loc[u].shard]}
               /\ loc[u].len \in {Unread, len[loc[u].shard]}
      BY <2>4 DEF HybridInv, AfterReset, CallsOK, CallOK, Holding
    <3>2. loc[u].shard # s
      BY <2>2, <2>4, NilSlab
    <3>3. loc[u].shard \in Shards =>
            ptr'[loc[u].shard] = ptr[loc[u].shard] /\ len'[loc[u].shard] = len[loc[u].shard]
      BY <3>2 DEF Holding
    <3> QED
      BY <2>1, <2>2, <3>1, <3>3
  <2> QED
    BY <2>3, <2>4
<1> QED
  BY <1>3, <1>4

\* A slab comes from the pool, or is made, and is in no list.
LEMMA FetchStep ==
  ASSUME HybridInv, NEW t \in Threads, NEW a \in Slabs, Fetch(t, a)
  PROVE  HybridInv'
<1> DEFINE s == loc[t].shard
<1> DEFINE r == [loc[t] EXCEPT !.slab = a]
<1>1. /\ s \in Shards /\ HybridTypes /\ pc[t] = "slow" /\ loc[t] \in Locals /\ CallOK(t)
      /\ a \in pool[s] \/ Unused(a)
  BY DEF Fetch, Scanned, HybridInv, HybridTypes, CallsOK, CallOK
<1>2. /\ UNCHANGED <<array, ptr, len, mu, grants, resets>>
      /\ pool' = [pool EXCEPT ![s] = @ \ {a}]
      /\ off' = [off EXCEPT ![a] = 0]
      /\ loc' = [loc EXCEPT ![t] = r] /\ pc' = [pc EXCEPT ![t] = "appendPtr"]
  BY DEF Fetch, Goto
<1>3. /\ r \in Locals /\ r.shard = s /\ r.len = loc[t].len /\ r.slab = a
  BY <1>1 DEF Locals
<1> HIDE DEF r
<1>4. /\ pc' \in [Threads -> Labels] /\ loc' \in [Threads -> Locals]
      /\ pool' \in [Shards -> SUBSET Slabs] /\ off' \in [Slabs -> Nat]
  BY <1>1, <1>2, <1>3 DEF HybridTypes, Labels
<1>5. /\ pc'[t] = "appendPtr" /\ loc'[t] = r
      /\ \A u \in Threads \ {t} : pc'[u] = pc[u] /\ loc'[u] = loc[u]
      /\ off'[a] = 0 /\ \A b \in Slabs \ {a} : off'[b] = off[b]
      /\ \A q \in Shards : pool'[q] \subseteq pool[q]
      /\ pool'[s] = pool[s] \ {a}
  BY <1>1, <1>2 DEF HybridTypes
<1>6. HybridTypes'
  BY <1>1, <1>2, <1>4 DEF HybridTypes, ArrayTypes
<1>7. ListsStay(t)
  BY <1>1, <1>2, <1>5 DEF ListsStay
<1>8. \A q \in Shards : List(q)' = List(q) /\ Settled(q)' = Settled(q)
  BY <1>7, ListsFrame
<1>9. \A q \in Shards : a \notin List(q) /\ a \notin pool'[q]
  <2> SUFFICES ASSUME NEW q \in Shards PROVE a \notin List(q) /\ a \notin pool'[q]
    OBVIOUS
  <2>1. CASE a \in pool[s]
    BY <1>1, <1>5, <2>1 DEF HybridInv, Exclusive
  <2>2. CASE Unused(a)
    <3>1. ASSUME NEW i \in 1 .. Settled(q) PROVE Entry(q, i) # a
      <4>1. /\ ptr[q] \in Capacities /\ Settled(q) \in Nat /\ Settled(q) <= len[q]
            /\ len[q] <= ptr[q] /\ len[q] \in Nat /\ ptr[q] \in Nat
        BY <1>1, SettledLength, CapacityTypes DEF HybridInv, HybridTypes, ListsOK
      <4>2. i \in 1 .. ptr[q]
        BY <4>1
      <4> QED
        BY <2>2, <4>1, <4>2 DEF Unused, Entry
    <3> QED
      BY <1>5, <2>2, <3>1 DEF List, Unused
  <2> QED
    BY <1>1, <2>1, <2>2
<1>10. \A u \in Threads \ {t} : Carrying(u) => loc[u].slab # a
  BY <1>1 DEF HybridInv, Exclusive, Unused
<1>11. CallOK(t)' /\ Carrying(t)' /\ Locked(t)
  BY <1>1, <1>2, <1>3, <1>5 DEF CallOK, Locked, Carrying
<1>12. Holding(t)
  BY <1>2, <1>3, <1>5, <1>11 DEF Holding
<1>13. CallsOK' /\ AfterReset'
  BY <1>1, <1>8, <1>11, <1>12, HoldingCalls
<1>14. ListsOK'
  BY <1>2, <1>8 DEF HybridInv, ListsOK
<1>15. BeforeReset'
  BY <1>2, <1>5, <1>8 DEF HybridInv, BeforeReset
<1>16. Exclusive'
  <2>1. ASSUME NEW u \in Threads, Carrying(u)'
        PROVE  /\ off'[loc'[u].slab] = 0
               /\ \A q \in Shards : loc'[u].slab \notin pool'[q] \cup List(q)
               /\ \A v \in Threads : Carrying(v)' /\ loc'[v].slab = loc'[u].slab => v = u
    <3>1. ASSUME NEW v \in Threads \ {t}
          PROVE  loc'[v] = loc[v] /\ (Carrying(v)' <=> Carrying(v))
      BY <1>5 DEF Carrying
    <3>2. CASE u = t
      BY <1>3, <1>5, <1>9, <1>10, <3>1, <3>2
    <3>3. CASE u # t
      <4>1. /\ Carrying(u) /\ loc'[u] = loc[u] /\ loc[u].slab # a /\ loc[u].slab \in Slabs
        BY <1>10, <2>1, <3>1, <3>3 DEF HybridInv, CallsOK, CallOK
      <4>2. off'[loc[u].slab] = off[loc[u].slab]
        BY <1>5, <4>1
      <4>3. /\ off[loc[u].slab] = 0
            /\ \A q \in Shards : loc[u].slab \notin pool[q] \cup List(q)
            /\ \A v \in Threads : Carrying(v) /\ loc[v].slab = loc[u].slab => v = u
        BY <4>1 DEF HybridInv, Exclusive
      <4> QED
        BY <1>3, <1>5, <3>1, <4>1, <4>2, <4>3
    <3> QED
      BY <3>2, <3>3
  <2>2. \A q, p \in Shards : List(q) \cap pool'[p] = {}
    BY <1>5 DEF HybridInv, Exclusive
  <2>3. \A q, p \in Shards : q # p => List(q) \cap List(p) = {} /\ pool'[q] \cap pool'[p] = {}
    BY <1>5 DEF HybridInv, Exclusive
  <2> QED
    BY <1>8, <2>1, <2>2, <2>3 DEF Exclusive
<1>17. GrantsBelow' /\ GrantsDisjoint'
  <2>1. \A u \in Threads : \A g \in grants[u] : g[1] # a /\ g[1] \in Slabs
    BY <1>1, <1>9 DEF HybridInv, GrantsBelow, HybridTypes
  <2>2. \A u \in Threads : \A g \in grants[u] : off[g[1]] <= off'[g[1]]
    BY <1>1, <1>5, <2>1 DEF HybridTypes
  <2> QED
    BY <1>2, <1>4, <1>8, <2>2, GrantsFrame
<1> QED
  BY <1>6, <1>13, <1>14, <1>15, <1>16, <1>17 DEF HybridInv

\* What is left to be shown of a store of append, while the slab is in no list.
LEMMA StoreFrame ==
  ASSUME HybridInv, NEW t \in Threads, Holding(t), HybridTypes', CallOK(t)',
         NEW s \in Shards, s = loc[t].shard,
         Carrying(t), Carrying(t)', UNCHANGED <<pool, off, loc>>,
         List(s)' = List(s), len'[s] <= ptr'[s], BeforeReset'
  PROVE  HybridInv'
<1>1. \A q \in Shards : List(q)' = List(q)
  BY HoldingLists
<1>2. CallsOK' /\ AfterReset'
  BY HoldingCalls
<1>3. ListsOK'
  BY <1>1 DEF HybridInv, ListsOK, Holding
<1>4. \A u \in Threads : Carrying(u)' <=> Carrying(u)
  BY DEF Carrying, Holding
<1>5. Exclusive'
  BY <1>1, <1>4 DEF HybridInv, Exclusive
<1>6. \A u \in Threads : \A g \in grants[u] : off[g[1]] <= off'[g[1]]
  BY DEF HybridInv, HybridTypes
<1>7. GrantsBelow' /\ GrantsDisjoint'
  BY <1>1, <1>6, GrantsFrame DEF Holding, HybridTypes
<1> QED
  BY <1>2, <1>3, <1>5, <1>7 DEF HybridInv

\* The pointer of the list moves to an array with the same entries.
LEMMA AppendPtrStep ==
  ASSUME HybridInv, NEW t \in Threads, appendPtr(t)
  PROVE  HybridInv'
<1>0. PICK s \in Shards : s = loc[t].shard
  BY DEF appendPtr, HybridInv, CallsOK, CallOK
<1> USE <1>0
<1> DEFINE c == grownCap(ptr[s])
<1>1. /\ s \in Shards /\ HybridTypes /\ pc[t] = "appendPtr" /\ CallOK(t)
      /\ len[s] \in Nat /\ ptr[s] \in Nat /\ ptr[s] \in Capacities /\ len[s] <= ptr[s]
  BY CapacityTypes DEF appendPtr, HybridInv, HybridTypes, CallsOK, CallOK, ListsOK
<1>2. /\ UNCHANGED <<len, pool, mu, off, loc, grants, resets>>
      /\ pc' = [pc EXCEPT ![t] = "appendLen"]
  BY DEF appendPtr, Goto
<1>3. /\ pc' \in [Threads -> Labels] /\ pc'[t] = "appendLen"
      /\ \A u \in Threads \ {t} : pc'[u] = pc[u]
  BY <1>1, <1>2 DEF HybridTypes, Labels
<1>4. Settled(s) = len[s] /\ Settled(s)' = len[s]
  <2>1. Settled(s) = len[s]
    BY <1>1, SettledLength DEF Locked
  <2>2. \A u \in Threads : loc[u].shard = s => pc[u] # "appendElem"
    BY <1>1, OneLocked DEF Locked
  <2>3. \A u \in Threads : loc'[u].shard = s => pc'[u] # "appendElem"
    BY <1>2, <1>3, <2>2
  <2> QED
    BY <1>2, <2>1, <2>3 DEF Settled
<1>5. Carrying(t) /\ Carrying(t)' /\ Locked(t)
  BY <1>1, <1>3 DEF Carrying, Locked
<1>6. CASE len[s] < ptr[s]
  <2>1. UNCHANGED <<array, ptr>>
    BY <1>6 DEF appendPtr
  <2>2. HybridTypes'
    BY <1>1, <1>2, <1>3, <2>1 DEF HybridTypes, ArrayTypes
  <2>3. Holding(t)
    BY <1>2, <1>3, <1>5, <2>1 DEF Holding
  <2>4. CallOK(t)'
    BY <1>1, <1>2, <1>3, <1>6, <2>1 DEF CallOK, Locked, Carrying
  <2>5. List(s)' = List(s)
    BY <1>2, <1>4, <2>1 DEF List, Entry
  <2>6. \A q \in Shards : List(q)' = List(q)
    BY <2>3, <2>5, HoldingLists
  <2>7. BeforeReset'
    BY <1>2, <2>1, <2>6 DEF HybridInv, BeforeReset
  <2> QED
    BY <1>1, <1>2, <1>5, <1>6, <2>1, <2>2, <2>3, <2>4, <2>5, <2>7, StoreFrame
<1>7. CASE ~(len[s] < ptr[s])
  <2> DEFINE old == array[s][ptr[s]]
  <2> DEFINE new == [i \in 1 .. c |-> IF i <= len[s] THEN old[i] ELSE Nil]
  <2>1. /\ c \in Capacities /\ array' = [array EXCEPT ![s][c] = new]
        /\ ptr' = [ptr EXCEPT ![s] = c]
    BY <1>7 DEF appendPtr
  <2>2. len[s] = ptr[s] /\ c \in Nat /\ c > len[s]
    BY <1>1, <1>7 DEF grownCap
  <2> HIDE DEF c
  <2>3. /\ old \in [1 .. ptr[s] -> Slabs \cup {Nil}]
        /\ new \in [1 .. c -> Slabs \cup {Nil}]
        /\ \A i \in 1 .. len[s] : new[i] = old[i]
        /\ \A i \in 1 .. c : new[i] \in {Nil} \cup {old[j] : j \in 1 .. len[s]}
    <3>1. old \in [1 .. ptr[s] -> Slabs \cup {Nil}]
      BY <1>1 DEF HybridTypes, ArrayTypes
    <3>2. \A i \in 1 .. len[s] : i \in 1 .. c /\ new[i] = old[i]
      BY <1>1, <2>2
    <3>3. \A i \in 1 .. c : new[i] = Nil \/ (i \in 1 .. len[s] /\ new[i] = old[i])
      BY <1>1, <2>2
    <3> QED
      BY <2>2, <3>1, <3>2, <3>3
  <2>4. \A i \in 1 .. len[s] : old[i] = Entry(s, i) /\ old[i] \in List(s)
    BY <1>4 DEF Entry, List
  <2> HIDE DEF new, old
  <2>5. /\ DOMAIN array' = Shards /\ array'[s][c] = new
        /\ \A q \in Shards \ {s} : array'[q] = array[q]
        /\ DOMAIN array'[s] = Capacities
        /\ \A d \in Capacities \ {c} : array'[s][d] = array[s][d]
        /\ ptr' \in [Shards -> Capacities] /\ ptr'[s] = c
        /\ \A q \in Shards \ {s} : ptr'[q] = ptr[q]
    BY <1>1, <2>1 DEF HybridTypes, ArrayTypes
  <2>6. ArrayTypes'
    <3>1. \A q \in Shards \ {s} : DOMAIN array[q] = Capacities
             /\ \A d \in Capacities : array[q][d] \in [1 .. d -> Slabs \cup {Nil}]
      BY <1>1 DEF HybridTypes, ArrayTypes
    <3>2. \A d \in Capacities : array[s][d] \in [1 .. d -> Slabs \cup {Nil}]
      BY <1>1 DEF HybridTypes, ArrayTypes
    <3>3. \A d \in Capacities : array'[s][d] \in [1 .. d -> Slabs \cup {Nil}]
      BY <2>3, <2>5, <3>2
    <3> QED
      BY <2>5, <3>1, <3>3 DEF ArrayTypes
  <2>7. HybridTypes'
    BY <1>1, <1>2, <1>3, <2>5, <2>6 DEF HybridTypes
  <2>8. Holding(t)
    BY <1>2, <1>3, <1>5, <2>5 DEF Holding
  <2>9. CallOK(t)'
    <3>1. mu[s] = t /\ loc[t].len = len[s] /\ loc[t].slab \in Slabs
      BY <1>1, <1>5 DEF CallOK
    <3>2. len'[s] < ptr'[s]
      BY <1>1, <1>2, <2>2, <2>5
    <3>3. /\ loc' = loc /\ mu' = mu /\ len' = len /\ pc'[t] = "appendLen"
          /\ loc[t].shard = s
      BY <1>2, <1>3
    <3> QED
      BY <3>1, <3>2, <3>3 DEF CallOK
  <2>10. List(s)' = List(s)
    <3>1. \A i \in 1 .. len[s] : Entry(s, i)' = Entry(s, i)
      <4> TAKE i \in 1 .. len[s]
      <4>1. Entry(s, i)' = new[i]
        BY <2>5 DEF Entry
      <4> QED
        BY <2>3, <2>4, <4>1
    <3> QED
      BY <1>4, <3>1 DEF List
  <2>11. \A q \in Shards : List(q)' = List(q)
    BY <2>8, <2>10, HoldingLists
  <2>12. BeforeReset'
    <3> SUFFICES ASSUME resets = 0, NEW q \in Shards
                 PROVE  /\ pool[q] = {}
                        /\ \A d \in Capacities : \A i \in 1 .. d :
                             array'[q][d][i] \in List(q) \cup {Nil}
      BY <1>2, <2>11 DEF BeforeReset
    <3>1. /\ pool[q] = {}
          /\ \A d \in Capacities : \A i \in 1 .. d : array[q][d][i] \in List(q) \cup {Nil}
      BY DEF HybridInv, BeforeReset
    <3>2. \A i \in 1 .. c : array'[s][c][i] \in List(s) \cup {Nil}
      BY <2>3, <2>4, <2>5
    <3> QED
      BY <2>5, <3>1, <3>2
  <2>13. len'[s] <= ptr'[s]
    BY <1>1, <1>2, <2>2, <2>5
  <2> QED
    BY <1>1, <1>2, <1>5, <2>7, <2>8, <2>9, <2>10, <2>12, <2>13, StoreFrame
<1> QED
  BY <1>6, <1>7

\* The list is longer, by an entry that is not settled.
LEMMA AppendLenStep ==
  ASSUME HybridInv, NEW t \in Threads, appendLen(t)
  PROVE  HybridInv'
<1>0. PICK s \in Shards : s = loc[t].shard
  BY DEF appendLen, HybridInv, CallsOK, CallOK
<1> USE <1>0
<1>1. /\ s \in Shards /\ HybridTypes /\ pc[t] = "appendLen" /\ CallOK(t)
      /\ len[s] \in Nat /\ ptr[s] \in Nat /\ len[s] < ptr[s] /\ loc[t].len = len[s]
  BY CapacityTypes DEF appendLen, HybridInv, HybridTypes, CallsOK, CallOK, ListsOK
<1>2. /\ UNCHANGED <<array, ptr, pool, mu, off, loc, grants, resets>>
      /\ len' = [len EXCEPT ![s] = loc[t].len + 1]
      /\ pc' = [pc EXCEPT ![t] = "appendElem"]
  BY DEF appendLen, Goto
<1>3. /\ pc' \in [Threads -> Labels] /\ pc'[t] = "appendElem"
      /\ \A u \in Threads \ {t} : pc'[u] = pc[u]
      /\ len' \in [Shards -> Nat] /\ len'[s] = len[s] + 1
      /\ \A q \in Shards \ {s} : len'[q] = len[q]
  BY <1>1, <1>2 DEF HybridTypes, Labels
<1>4. Settled(s) = len[s] /\ Settled(s)' = len[s]
  <2>1. Settled(s) = len[s]
    BY <1>1, SettledLength DEF Locked
  <2>2. loc'[t].shard = s /\ pc'[t] = "appendElem"
    BY <1>2, <1>3
  <2>3. Settled(s)' = len'[s] - 1
    BY <2>2 DEF Settled
  <2> QED
    BY <1>1, <1>3, <2>1, <2>3
<1>5. Carrying(t) /\ Carrying(t)' /\ Locked(t)
  BY <1>1, <1>3 DEF Carrying, Locked
<1>6. HybridTypes'
  BY <1>1, <1>2, <1>3 DEF HybridTypes, ArrayTypes
<1>7. Holding(t)
  BY <1>2, <1>3, <1>5 DEF Holding
<1>8. CallOK(t)'
  BY <1>1, <1>2, <1>3 DEF CallOK, Locked, Carrying
<1>9. List(s)' = List(s)
  BY <1>2, <1>4 DEF List, Entry
<1>10. \A q \in Shards : List(q)' = List(q)
  BY <1>7, <1>9, HoldingLists
<1>11. BeforeReset'
  BY <1>2, <1>10 DEF HybridInv, BeforeReset
<1>12. len'[s] <= ptr'[s]
  BY <1>1, <1>2, <1>3
<1> QED
  BY <1>1, <1>2, <1>5, <1>6, <1>7, <1>8, <1>9, <1>11, <1>12, StoreFrame

\* The slab is in the list.
LEMMA AppendElemStep ==
  ASSUME HybridInv, NEW t \in Threads, appendElem(t)
  PROVE  HybridInv'
<1>0. PICK s \in Shards, k \in Nat : s = loc[t].shard /\ k = loc[t].len + 1
  BY DEF appendElem, HybridInv, CallsOK, CallOK
<1> USE <1>0
<1> DEFINE a == loc[t].slab
<1> DEFINE p == ptr[s]
<1>1. /\ s \in Shards /\ HybridTypes /\ pc[t] = "appendElem" /\ CallOK(t)
      /\ a \in Slabs /\ loc[t].len \in Nat /\ len[s] = k /\ len[s] <= p
      /\ p \in Nat /\ p \in Capacities
  BY CapacityTypes DEF appendElem, HybridInv, HybridTypes, CallsOK, CallOK, ListsOK, Carrying
<1>2. /\ UNCHANGED <<ptr, len, pool, mu, off, loc, grants, resets>>
      /\ array' = [array EXCEPT ![s][p][k] = a]
      /\ pc' = [pc EXCEPT ![t] = "own"]
  BY DEF appendElem, Goto
<1>3. /\ pc' \in [Threads -> Labels] /\ pc'[t] = "own"
      /\ \A u \in Threads \ {t} : pc'[u] = pc[u]
  BY <1>1, <1>2 DEF HybridTypes, Labels
<1>4. Settled(s) = k - 1 /\ Settled(s)' = k /\ k \in 1 .. p
  <2>1. Settled(s) = k - 1 /\ k \in 1 .. p
    BY <1>1, SettledLength
  <2>2. \A u \in Threads \ {t} : loc[u].shard = s => pc[u] # "appendElem"
    BY <1>1, OneLocked DEF Locked
  <2>3. \A u \in Threads : loc'[u].shard = s => pc'[u] # "appendElem"
    BY <1>2, <1>3, <2>2
  <2> QED
    BY <1>1, <1>2, <2>1, <2>3 DEF Settled
<1>5. /\ DOMAIN array' = Shards /\ \A q \in Shards \ {s} : array'[q] = array[q]
      /\ DOMAIN array'[s] = Capacities
      /\ \A d \in Capacities \ {p} : array'[s][d] = array[s][d]
      /\ array'[s][p] = [array[s][p] EXCEPT ![k] = a]
  BY <1>1, <1>2 DEF HybridTypes, ArrayTypes
<1>6. /\ array[s][p] \in [1 .. p -> Slabs \cup {Nil}]
      /\ array'[s][p] \in [1 .. p -> Slabs \cup {Nil}]
      /\ array'[s][p][k] = a
      /\ \A i \in (1 .. p) \ {k} : array'[s][p][i] = array[s][p][i]
  <2>1. array[s][p] \in [1 .. p -> Slabs \cup {Nil}]
    BY <1>1 DEF HybridTypes, ArrayTypes
  <2> HIDE DEF p, a
  <2> QED
    BY <1>1, <1>4, <1>5, <2>1
<1>7. ArrayTypes'
  <2>1. \A q \in Shards \ {s} : DOMAIN array[q] = Capacities
           /\ \A d \in Capacities : array[q][d] \in [1 .. d -> Slabs \cup {Nil}]
    BY <1>1 DEF HybridTypes, ArrayTypes
  <2>2. \A d \in Capacities : array[s][d] \in [1 .. d -> Slabs \cup {Nil}]
    BY <1>1 DEF HybridTypes, ArrayTypes
  <2>3. \A d \in Capacities : array'[s][d] \in [1 .. d -> Slabs \cup {Nil}]
    BY <1>5, <1>6, <2>2
  <2> QED
    BY <1>5, <2>1, <2>3 DEF ArrayTypes
<1>8. HybridTypes'
  BY <1>1, <1>2, <1>3, <1>7 DEF HybridTypes
<1>9. Holding(t)
  BY <1>1, <1>2, <1>3, <1>5 DEF Holding, Locked
<1>10. List(s)' = List(s) \cup {a}
  <2> HIDE <1>0
  <2> HIDE DEF p, a
  <2>1. ptr'[s] = p /\ ptr[s] = p
    BY <1>2 DEF p
  <2>2. List(s)' = {array'[s][p][i] : i \in 1 .. k}
    BY <1>4, <2>1 DEF List, Entry
  <2>3. List(s) = {array[s][p][i] : i \in 1 .. k - 1}
    BY <1>4, <2>1 DEF List, Entry
  <2>4. \A i \in 1 .. k - 1 : i \in 1 .. k /\ array'[s][p][i] = array[s][p][i]
    <3>1. \A i \in 1 .. k - 1 : i \in 1 .. k /\ i # k /\ i \in 1 .. p
      BY <1>1, <1>4
    <3> QED
      BY <1>6, <3>1
  <2>5. \A i \in 1 .. k : i = k \/ i \in 1 .. k - 1
    BY <1>1
  <2>6. k \in 1 .. k /\ array'[s][p][k] = a
    BY <1>4, <1>6
  <2> QED
    BY <2>2, <2>3, <2>4, <2>5, <2>6
<1>11. \A q \in Shards \ {s} : List(q)' = List(q)
  BY <1>9, HoldingLists
<1>12. CallOK(t)' /\ ~Carrying(t)' /\ Carrying(t)
  BY <1>1, <1>2, <1>3, <1>10 DEF CallOK, Locked, Carrying
<1>13. CallsOK' /\ AfterReset'
  BY <1>1, <1>9, <1>10, <1>12, HoldingCalls
<1>14. ListsOK'
  BY <1>1, <1>2, <1>10, <1>11 DEF HybridInv, ListsOK
<1>15. BeforeReset'
  <2> SUFFICES ASSUME resets = 0, NEW q \in Shards
               PROVE  /\ pool[q] = {}
                      /\ \A d \in Capacities : \A i \in 1 .. d :
                           array'[q][d][i] \in List(q)' \cup {Nil}
    BY <1>2 DEF BeforeReset
  <2>1. /\ pool[q] = {}
        /\ \A d \in Capacities : \A i \in 1 .. d : array[q][d][i] \in List(q) \cup {Nil}
    BY DEF HybridInv, BeforeReset
  <2>2. CASE q # s
    BY <1>5, <1>11, <2>1, <2>2
  <2>3. CASE q = s
    <3> HIDE DEF p, a
    <3>1. \A i \in 1 .. p : array'[s][p][i] \in List(s)' \cup {Nil}
      BY <1>1, <1>6, <1>10, <2>1, <2>3
    <3>2. \A d \in Capacities \ {p} : \A i \in 1 .. d :
            array'[s][d][i] \in List(s)' \cup {Nil}
      BY <1>5, <1>10, <2>1, <2>3
    <3> QED
      BY <2>1, <2>3, <3>1, <3>2
  <2> QED
    BY <2>2, <2>3
<1>16. Exclusive'
  <2>1. /\ \A q \in Shards : a \notin pool[q] \cup List(q)
        /\ \A u \in Threads : Carrying(u) /\ loc[u].slab = a => u = t
    BY <1>12 DEF HybridInv, Exclusive
  <2>2. \A u \in Threads : Carrying(u)' <=> Carrying(u) /\ u # t
    BY <1>3, <1>12 DEF Carrying
  <2>3. \A q \in Shards : List(q)' = List(q) \/ (q = s /\ List(q)' = List(q) \cup {a})
    BY <1>10, <1>11
  <2>4. /\ \A q, r \in Shards : List(q) \cap pool[r] = {}
        /\ \A q, r \in Shards : q # r => List(q) \cap List(r) = {} /\ pool[q] \cap pool[r] = {}
        /\ \A u \in Threads : Carrying(u) =>
             /\ off[loc[u].slab] = 0
             /\ \A q \in Shards : loc[u].slab \notin pool[q] \cup List(q)
             /\ \A v \in Threads : Carrying(v) /\ loc[v].slab = loc[u].slab => v = u
    BY DEF HybridInv, Exclusive
  <2> HIDE DEF a
  <2>5. \A q, r \in Shards : List(q)' \cap pool[r] = {}
    BY <2>1, <2>3, <2>4
  <2>6. \A q, r \in Shards : q # r => List(q)' \cap List(r)' = {}
    BY <2>1, <2>3, <2>4
  <2>7. \A u \in Threads : Carrying(u)' =>
          \A q \in Shards : loc[u].slab \notin pool[q] \cup List(q)'
    BY <2>1, <2>2, <2>3, <2>4
  <2> QED
    BY <1>2, <2>2, <2>4, <2>5, <2>6, <2>7 DEF Exclusive
<1>17. GrantsBelow' /\ GrantsDisjoint'
  <2>1. \A u \in Threads : \A g \in grants[u] : off[g[1]] <= off'[g[1]]
    BY <1>1, <1>2 DEF HybridTypes
  <2>2. \A q \in Shards : List(q) \subseteq List(q)'
    BY <1>10, <1>11
  <2> QED
    BY <1>1, <1>2, <2>1, <2>2, GrantsFrame DEF HybridTypes
<1> QED
  BY <1>8, <1>13, <1>14, <1>15, <1>16, <1>17 DEF HybridInv

-------------------------------------------------------------------------------
(* Reset and Close, and the theorems.                                      *)

\* The lists are emptied into the pools while no call runs.
LEMMA RecycleStep ==
  ASSUME HybridInv, Reset \/ Close
  PROVE  HybridInv'
<1>1. HybridTypes /\ \A t \in Threads : loc[t] = NoLocals /\ loc[t].shard = Nil
  <2>1. \A t \in Threads : pc[t] \in {"idle", "panic"}
    BY DEF Reset, Close, Recycle, Quiescent
  <2> QED
    BY <2>1 DEF HybridInv, CallsOK, CallOK, NoLocals
<1>2. \A s \in Shards : small(s) = List(s)
  <2>1. \A s \in Shards : Settled(s) = len[s]
    BY <1>1, NilSlab DEF Settled
  <2> QED
    BY <2>1 DEF small, List, Entry
<1>3. /\ UNCHANGED <<array, ptr, mu, loc>> /\ resets' = resets + 1
      /\ pool' = [s \in Shards |-> pool[s] \cup small(s)]
      /\ grants' = [t \in Threads |-> {}] /\ pc' = [t \in Threads |-> "idle"]
      /\ len' = [s \in Shards |-> 0]
  BY DEF Reset, Close, Recycle
<1>4. off' \in [Slabs -> Nat]
  <2>1. off \in [Slabs -> Nat]
    BY <1>1 DEF HybridTypes
  <2>2. CASE Close
    BY <2>1, <2>2 DEF Close
  <2>3. CASE Reset
    <3>1. off' = [a \in Slabs |-> IF \E s \in Shards : a \in small(s) THEN 0 ELSE off[a]]
      BY <2>3 DEF Reset
    <3> QED
      BY <2>1, <3>1
  <2> QED
    BY <2>2, <2>3
<1>5. \A s \in Shards : pool'[s] = pool[s] \cup List(s) /\ len'[s] = 0 /\ ptr'[s] = ptr[s]
  BY <1>2, <1>3
<1>6. HybridTypes'
  <2>1. pool' \in [Shards -> SUBSET Slabs]
    <3>1. \A s \in Shards : pool[s] \cup List(s) \subseteq Slabs
      BY <1>1 DEF HybridTypes, HybridInv, ListsOK
    <3> QED
      BY <1>2, <1>3, <3>1
  <2>2. /\ grants' \in [Threads -> SUBSET (Slabs \X Nat \X Nat)]
        /\ pc' \in [Threads -> Labels] /\ len' \in [Shards -> Nat]
    BY <1>3 DEF Labels
  <2>3. resets' \in Nat
    BY <1>1, <1>3 DEF HybridTypes
  <2> QED
    BY <1>1, <1>3, <1>4, <2>1, <2>2, <2>3 DEF HybridTypes, ArrayTypes
<1>7. \A t \in Threads : pc'[t] = "idle" /\ loc'[t] = NoLocals /\ loc'[t].shard = Nil
  BY <1>1, <1>3
<1>8. \A s \in Shards : List(s)' = {}
  <2>1. \A s \in Shards : Settled(s)' = 0
    BY <1>3, <1>7 DEF Settled
  <2> QED
    BY <2>1 DEF List
<1>9. CallsOK'
  BY <1>7 DEF CallsOK, CallOK, Locked, Carrying
<1>10. ListsOK'
  <2>1. \A s \in Shards : ptr[s] \in Nat
    BY <1>1, CapacityTypes DEF HybridTypes
  <2> QED
    BY <1>5, <1>8, <2>1 DEF ListsOK
<1>11. resets' > 0 /\ BeforeReset'
  BY <1>1, <1>3 DEF HybridTypes, BeforeReset
<1>12. AfterReset'
  BY <1>7 DEF AfterReset
<1>13. Exclusive'
  <2>1. \A s, r \in Shards : s # r => pool'[s] \cap pool'[r] = {}
    BY <1>5 DEF HybridInv, Exclusive
  <2>2. \A t \in Threads : ~Carrying(t)'
    BY <1>7 DEF Carrying
  <2> QED
    BY <1>8, <2>1, <2>2 DEF Exclusive
<1>14. GrantsBelow' /\ GrantsDisjoint'
  BY <1>3 DEF GrantsBelow, GrantsDisjoint
<1> QED
  BY <1>6, <1>9, <1>10, <1>11, <1>12, <1>13, <1>14 DEF HybridInv

LEMMA HybridStutter == HybridInv /\ UNCHANGED vars => HybridInv'
<1> SUFFICES ASSUME HybridInv, UNCHANGED vars PROVE HybridInv'
  OBVIOUS
<1>1. UNCHANGED <<array, ptr, len, pool, mu, off, pc, loc, grants, resets>>
  BY DEF vars
<1>2. \A s \in Shards : Settled(s)' = Settled(s) /\ List(s)' = List(s)
  BY <1>1 DEF Settled, List, Entry
<1>3. HybridTypes'
  BY <1>1 DEF HybridInv, HybridTypes, ArrayTypes
<1>4. CallsOK'
  BY <1>1, <1>2 DEF HybridInv, CallsOK, CallOK, Locked, Carrying
<1>5. ListsOK' /\ BeforeReset' /\ AfterReset'
  BY <1>1, <1>2 DEF HybridInv, ListsOK, BeforeReset, AfterReset
<1>6. Exclusive' /\ GrantsBelow' /\ GrantsDisjoint'
  BY <1>1, <1>2 DEF HybridInv, Exclusive, Carrying, GrantsBelow, GrantsDisjoint
<1> QED
  BY <1>3, <1>4, <1>5, <1>6 DEF HybridInv

LEMMA HybridStep ==
  ASSUME CallsApart, HybridInv, [Next]_vars
  PROVE  HybridInv'
<1>1. ASSUME NEW t \in Threads, Step(t) PROVE HybridInv'
  <2>1. CASE LoadPtr(t) \/ LoadLen(t)
    BY <2>1, LoadStep
  <2>2. CASE TryGrant(t)
    BY <2>2, TryGrantStep
  <2>3. CASE TryNext(t)
    BY <2>3, TryNextStep
  <2>4. CASE TryZero(t) \/ TryNil(t) \/ Large(t)
    BY <2>4, EndStep
  <2>5. CASE TryWild(t)
    BY <2>5, WildStep
  <2>6. CASE \E a \in Slabs : Fetch(t, a)
    BY <2>6, FetchStep
  <2>7. CASE appendPtr(t)
    BY <2>7, AppendPtrStep
  <2>8. CASE appendLen(t)
    BY <2>8, AppendLenStep
  <2>9. CASE appendElem(t)
    BY <2>9, AppendElemStep
  <2>10. CASE OwnGrant(t) \/ OwnFail(t)
    BY <2>10, OwnStep
  <2> QED
    BY <1>1, <2>1, <2>2, <2>3, <2>4, <2>5, <2>6, <2>7, <2>8, <2>9, <2>10 DEF Step
<1>2. ASSUME NEW t \in Threads, Lock(t) PROVE HybridInv'
  BY <1>2, LockStep
<1>3. ASSUME NEW t \in Threads, NEW s \in shardsOf[t], NEW n \in Sizes, AllocCall(t, s, n)
      PROVE  HybridInv'
  BY <1>3, AllocCallStep
<1>4. CASE Reset \/ Close
  BY <1>4, RecycleStep
<1>5. CASE UNCHANGED vars
  BY <1>5, HybridStutter
<1> QED
  BY <1>1, <1>2, <1>3, <1>4, <1>5 DEF Next

\* Resets and Closes are counted, never uncounted.
LEMMA ResetsGrow ==
  ASSUME resets \in Nat, [Next]_vars
  PROVE  resets' \in Nat /\ (CallsApart' => CallsApart)
<1>1. resets' \in {resets, resets + 1}
  <2>1. ASSUME NEW t \in Threads, Step(t) PROVE resets' = resets
    BY <2>1 DEF Step, LoadPtr, LoadLen, TryGrant, TryNext, TryZero, TryNil, TryWild, Fetch,
         appendPtr, appendLen, appendElem, OwnGrant, OwnFail, Large
  <2>2. ASSUME NEW t \in Threads, Lock(t) PROVE resets' = resets
    BY <2>2 DEF Lock, EnterSlow
  <2>3. ASSUME NEW t \in Threads, NEW s \in shardsOf[t], NEW n \in Sizes, AllocCall(t, s, n)
        PROVE  resets' = resets
    BY <2>3 DEF AllocCall
  <2>4. CASE Reset \/ Close
    BY <2>4 DEF Reset, Close, Recycle
  <2>5. CASE UNCHANGED vars
    BY <2>5 DEF vars
  <2> QED
    BY <2>1, <2>2, <2>3, <2>4, <2>5 DEF Next
<1> QED
  BY <1>1 DEF CallsApart

\* The invariant holds while the calls are apart.
THEOREM HybridInvariant == Spec => [](CallsApart => HybridInv)
<1> DEFINE Inv == resets \in Nat /\ (CallsApart => HybridInv)
<1>1. Init => Inv
  BY HybridInit DEF Init
<1>2. Inv /\ [Next]_vars => Inv'
  BY ResetsGrow, HybridStep
<1> QED
  BY <1>1, <1>2, PTL DEF Spec

\* The slices that Alloc gives out of slabs never overlap and lie in their
\* slab, though the fast path of allocSmall races with the append of the slow.
THEOREM GrantsApart == Spec => [](CallsApart => GrantsDisjoint)
<1>1. HybridInv => GrantsDisjoint
  BY DEF HybridInv
<1> QED
  BY <1>1, HybridInvariant, PTL

\* The slab of a slice in use stays in the list of a shard, which keeps it
\* alive: growslice copies every entry, whatever the readers see.
THEOREM GrantsAlive == Spec => [](CallsApart => GrantsKept)
<1>1. HybridInv => GrantsKept
  <2> SUFFICES ASSUME HybridInv, NEW t \in Threads, NEW g \in grants[t]
               PROVE  \E s \in Shards : g[1] \in small(s)
    BY DEF GrantsKept
  <2>1. PICK s \in Shards : g[1] \in List(s)
    BY DEF HybridInv, GrantsBelow
  <2>2. List(s) \subseteq small(s)
    <3>1. Settled(s) \in Nat /\ Settled(s) <= len[s] /\ len[s] \in Nat
      BY SettledLength DEF HybridInv, HybridTypes
    <3>2. \A i \in 1 .. Settled(s) : i \in 1 .. len[s]
      BY <3>1
    <3> QED
      BY <3>2 DEF List, small, Entry
  <2> QED
    BY <2>1, <2>2
<1> QED
  BY <1>1, HybridInvariant, PTL

\* A slab is an entry of one list, or in one pool, or in the hands of one Alloc,
\* which got it empty.
THEOREM SlabsInOnePlace == Spec => [](CallsApart => SlabsExclusive)
<1>1. HybridInv => SlabsExclusive
  <2> SUFFICES ASSUME HybridInv PROVE SlabsExclusive
    OBVIOUS
  <2> DEFINE settled == {s \in Shards : \A t \in Threads :
                           loc[t].shard = s => pc[t] # "appendElem"}
  <2>1. \A s \in settled : small(s) = List(s)
    BY DEF Settled, List, small, Entry
  <2>2. \A t \in Threads :
          pc[t] \in {"appendPtr", "appendLen", "appendElem"} <=> Carrying(t)
    BY DEF Carrying
  <2>3. \A s \in settled : s \in Shards
    OBVIOUS
  <2>4. \A s \in settled, r \in Shards :
          /\ small(s) \cap pool[r] = {}
          /\ s # r /\ r \in settled => small(s) \cap small(r) = {}
    BY <2>1, <2>3 DEF HybridInv, Exclusive
  <2>5. \A s, r \in Shards : s # r => pool[s] \cap pool[r] = {}
    BY DEF HybridInv, Exclusive
  <2>6. \A t \in Threads : Carrying(t) =>
          /\ off[loc[t].slab] = 0
          /\ \A s \in Shards : loc[t].slab \notin pool[s]
          /\ \A s \in settled : loc[t].slab \notin small(s)
    BY <2>1, <2>3 DEF HybridInv, Exclusive
  <2> QED
    BY <2>2, <2>4, <2>5, <2>6 DEF SlabsExclusive
<1> QED
  BY <1>1, HybridInvariant, PTL

\* The second scan of allocSmall, under the mutex, finds whole entries inside
\* its array, and append stores inside it, while any number of goroutines scan
\* without the mutex.
THEOREM SlowPathSound == Spec => [](CallsApart => SlowPathSafe)
<1>1. HybridInv => SlowPathSafe
  <2> SUFFICES ASSUME HybridInv, NEW t \in Threads
               PROVE  /\ pc[t] = "slow" /\ Scanning(t) => InArray(t) /\ Element(t) # Nil
                      /\ pc[t] = "appendElem" => loc[t].len < ptr[loc[t].shard]
    BY DEF SlowPathSafe
  <2>1. CallOK(t) /\ loc[t] \in Locals
    BY DEF HybridInv, CallsOK, HybridTypes
  <2>2. ASSUME pc[t] = "slow", Scanning(t) PROVE InArray(t) /\ Element(t) # Nil
    <3>1. PICK s \in Shards : s = loc[t].shard
      BY <2>1, <2>2 DEF CallOK
    <3>2. loc[t].ptr = ptr[s] /\ loc[t].len = len[s] /\ Settled(s) = len[s]
      BY <2>1, <2>2, <3>1, SettledLength DEF CallOK, Locked
    <3>3. len[s] \in Nat /\ ptr[s] \in Nat /\ len[s] <= ptr[s]
      BY CapacityTypes DEF HybridInv, HybridTypes, ListsOK
    <3>4. loc[t].i \in 1 .. Settled(s) /\ loc[t].i <= loc[t].ptr
      BY <2>1, <2>2, <3>2, <3>3 DEF Scanning, Locals
    <3>5. Element(t) = Entry(s, loc[t].i)
      BY <3>1, <3>2 DEF Element, Entry
    <3> QED
      BY <2>2, <3>4, <3>5, ListEntry, NilSlab DEF InArray
  <2>3. ASSUME pc[t] = "appendElem" PROVE loc[t].len < ptr[loc[t].shard]
    <3>1. PICK s \in Shards : s = loc[t].shard
      BY <2>1, <2>3 DEF CallOK
    <3>2. len[s] \in Nat /\ ptr[s] \in Nat /\ len[s] <= ptr[s]
      BY CapacityTypes DEF HybridInv, HybridTypes, ListsOK
    <3> QED
      BY <2>1, <2>3, <3>1, <3>2 DEF CallOK
  <2> QED
    BY <2>2, <2>3
<1> QED
  BY <1>1, HybridInvariant, PTL
===============================================================================
