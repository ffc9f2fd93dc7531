---------------------------- MODULE AllocPoolProofs ----------------------------
(***************************************************************************)
(* Theorems about AllocPool, for any number of requests, allocators,       *)
(* regions and cells, and for both backends.                               *)
(***************************************************************************)
EXTENDS AllocPool, FiniteSetTheorems, TLAPS

Fields ==
  [region : Regions \cup {Nil}, used : 0 .. Cells,
   closed : BOOLEAN, cleanup : BOOLEAN]

PoolTypes ==
  /\ backend \in {"balloc", "arena"} /\ mapped \subseteq Regions
  /\ mem \in [Regions -> [1 .. Cells -> Requests \cup {Nil}]]
  /\ live \subseteq Allocators /\ pool \subseteq live
  /\ alloc \in [Allocators -> Fields]
  /\ stage \in [Requests -> {"new", "pooled", "factory", "done"}]
  /\ ctx \in [Requests -> Allocators \cup {Nil}]
  /\ slices \in [Requests -> SUBSET (Regions \X (1 .. Cells) \X (Requests \cup {Nil}))]

\* A request has an allocator in its context exactly while it is served.
Contexts ==
  \A r \in Requests :
    /\ Serving(r) <=> ctx[r] # Nil
    /\ stage[r] = "new" => slices[r] = {}

\* Allocator a answers for its region: balloc's until Close, an arena's for
\* good.
Holds(a) == a \in live /\ (backend = "arena" \/ ~alloc[a].closed)

\* Two allocators do not answer for the same region, which is mapped.
RegionsHeld ==
  /\ \A a \in Allocators : Holds(a) => alloc[a].region \in mapped
  /\ \A a, b \in Allocators :
       Holds(a) /\ Holds(b) /\ alloc[a].region = alloc[b].region => a = b

\* A cell belongs to one slice, of one request; it lies below what the
\* allocator of its region has handed out.  Slices of balloc belong to the
\* allocator in the context, which is open.
SlicesOwned ==
  /\ \A r, q \in Requests : \A s \in slices[r], z \in slices[q] :
       s[1] = z[1] /\ s[2] = z[2] => r = q /\ s = z
  /\ \A r \in Requests : \A s \in slices[r] : \A a \in Allocators :
       Holds(a) /\ alloc[a].region = s[1] => s[2] <= alloc[a].used
  /\ backend = "balloc" =>
       \A r \in Requests : \A s \in slices[r] :
         Serving(r) /\ ~alloc[ctx[r]].closed /\ alloc[ctx[r]].region = s[1]

PoolInv ==
  /\ PoolTypes
  /\ Contexts
  /\ OneUser
  /\ RegionsHeld
  /\ MappingOwned
  /\ SlicesOwned
  /\ SlicesIntact
  /\ PoolReady
-------------------------------------------------------------------------------
(* What the actions do to the allocators.                                  *)

\* The cells that Alloc grants come right after those it has granted before.
LEMMA GrantedCells ==
  ASSUME PoolTypes, NEW a \in Allocators, NEW k \in {1, 2}, Granted(a, k) # {}
  PROVE  /\ ~alloc[a].closed
         /\ Granted(a, k) = alloc[a].used + 1 .. alloc[a].used + Cardinality(Granted(a, k))
         /\ alloc[a].used + Cardinality(Granted(a, k)) \in 0 .. Cells
         /\ Cardinality(Granted(a, k)) \in Nat
<1> DEFINE u == alloc[a].used
           top == IF u + k <= Cells THEN u + k ELSE Cells
<1>1. u \in 0 .. Cells /\ Cells \in Nat
  BY PoolAssumption DEF PoolTypes, Fields
<1>2. ~alloc[a].closed /\ Granted(a, k) = {c \in u + 1 .. u + k : c <= Cells}
  BY DEF Granted
<1> HIDE DEF u
<1>3. Granted(a, k) = u + 1 .. top /\ top \in Nat /\ u + 1 <= top /\ top <= Cells
  BY <1>1, <1>2
<1> HIDE DEF top
<1>4. Cardinality(u + 1 .. top) = top - (u + 1) + 1
  BY <1>1, <1>3, FS_Interval
<1>5. Cardinality(Granted(a, k)) = top - u
  BY <1>1, <1>3, <1>4
<1>6. top = u + Cardinality(Granted(a, k)) /\ Cardinality(Granted(a, k)) \in Nat
  BY <1>1, <1>3, <1>5
<1>7. Granted(a, k) = u + 1 .. u + Cardinality(Granted(a, k))
  BY <1>3, <1>6
<1>8. u + Cardinality(Granted(a, k)) \in 0 .. Cells
  BY <1>1, <1>3, <1>6
<1> QED
  BY <1>2, <1>6, <1>7, <1>8 DEF u

\* Allocator a is changed in the fields that e says, and no other allocator is.
Changed(a, e) ==
  alloc' \in [Allocators -> Fields]
  /\ alloc'[a] = e /\ \A b \in Allocators : b # a => alloc'[b] = alloc[b]

\* Close leaves the rest of the allocator as it is.
LEMMA CloseEffect ==
  ASSUME PoolTypes, NEW a \in Allocators, Close(a)
  PROVE  Changed(a, [region |-> alloc[a].region, used |-> alloc[a].used, closed |-> TRUE,
                     cleanup |-> FALSE])
<1>1. alloc' = [alloc EXCEPT ![a].closed = TRUE, ![a].cleanup = FALSE]
  BY DEF Close
<1>2. alloc[a] \in Fields
  BY DEF PoolTypes
<1>3. alloc'[a] = [alloc[a] EXCEPT !.closed = TRUE, !.cleanup = FALSE]
  BY <1>1 DEF PoolTypes
<1>4. alloc'[a] = [region |-> alloc[a].region, used |-> alloc[a].used, closed |-> TRUE,
                   cleanup |-> FALSE]
  BY <1>2, <1>3 DEF Fields
<1>5. alloc'[a] \in Fields
  BY <1>2, <1>4 DEF Fields
<1> QED
  BY <1>1, <1>4, <1>5 DEF Changed, PoolTypes

\* Reset of an open balloc allocator.
LEMMA RewindEffect ==
  ASSUME PoolTypes, NEW a \in Allocators, Rewind(a)
  PROVE  \/ alloc[a].closed /\ UNCHANGED alloc
         \/ ~alloc[a].closed /\
            Changed(a, [region |-> alloc[a].region, used |-> 0, closed |-> FALSE,
                        cleanup |-> alloc[a].cleanup])
<1>1. CASE alloc[a].closed
  BY <1>1 DEF Rewind
<1>2. CASE ~alloc[a].closed
  <2>1. alloc' = [alloc EXCEPT ![a].used = 0]
    BY <1>2 DEF Rewind
  <2>2. 0 \in 0 .. Cells
    BY PoolAssumption
  <2>3. alloc[a] \in Fields /\ alloc[a].closed = FALSE
    BY <1>2 DEF PoolTypes, Fields
  <2> QED
    BY <1>2, <2>1, <2>2, <2>3 DEF Changed, PoolTypes, Fields
<1> QED
  BY <1>1, <1>2

\* Alloc moves used.
LEMMA TakeEffect ==
  ASSUME PoolTypes, NEW r \in Requests, NEW a \in Allocators, NEW cells, NEW held,
         Take(r, a, cells, held), alloc[a].used + Cardinality(cells) \in 0 .. Cells
  PROVE  Changed(a, [region |-> alloc[a].region, used |-> alloc[a].used + Cardinality(cells),
                     closed |-> alloc[a].closed, cleanup |-> alloc[a].cleanup])
<1>1. alloc' = [alloc EXCEPT ![a].used = @ + Cardinality(cells)]
  BY DEF Take
<1> QED
  BY <1>1 DEF Changed, PoolTypes, Fields

\* A new region is zero and lies where nothing is mapped.
FreshRegion(g) ==
  /\ g \in Regions /\ g \notin mapped /\ mapped' = mapped \cup {g}
  /\ mem' \in [Regions -> [1 .. Cells -> Requests \cup {Nil}]]
  /\ \A c \in 1 .. Cells : mem'[g][c] = Nil
  /\ \A h \in Regions : h # g => mem'[h] = mem[h]

\* mmap finds such a region.
LEMMA MmapEffect ==
  ASSUME PoolTypes, mapped # Regions, mmap
  PROVE  FreshRegion(newRegion)
<1>1. newRegion \in Regions /\ newRegion \notin mapped
  BY DEF newRegion, PoolTypes
<1> HIDE DEF newRegion
<1> QED
  BY <1>1 DEF mmap, FreshRegion, PoolTypes

\* The fields of an allocator that was just made.
Made(g, c) == [region |-> g, used |-> 0, closed |-> FALSE, cleanup |-> c]

\* The fields of the record that the factory and arenaWrapper.Reset store.
LEMMA MadeFields ==
  ASSUME NEW g \in Regions, NEW c \in BOOLEAN
  PROVE  /\ [NoAllocator EXCEPT !.region = g, !.cleanup = c] = Made(g, c)
         /\ [NoAllocator EXCEPT !.region = g] = Made(g, FALSE)
         /\ Made(g, c) \in Fields
<1> DEFINE n == NoAllocator
<1>1. n \in Fields
  BY PoolAssumption DEF NoAllocator, Fields
<1>2. n.used = 0 /\ n.closed = FALSE /\ n.cleanup = FALSE
  BY DEF NoAllocator
<1> HIDE DEF n
<1>3. [n EXCEPT !.region = g]
        = [region |-> g, used |-> n.used, closed |-> n.closed,
           cleanup |-> n.cleanup]
  BY <1>1 DEF Fields
<1>4. [n EXCEPT !.region = g] = Made(g, FALSE)
  BY <1>2, <1>3, Zenon DEF Made
<1> DEFINE m == Made(g, FALSE)
<1>5. m \in Fields
  BY PoolAssumption DEF Made, Fields
<1>6. m.region = g /\ m.used = 0 /\ m.closed = FALSE
  BY DEF Made
<1> HIDE DEF m
<1>7. [m EXCEPT !.cleanup = c]
        = [region |-> m.region, used |-> m.used, closed |-> m.closed,
           cleanup |-> c]
  BY <1>5 DEF Fields
<1>8. [m EXCEPT !.cleanup = c] = Made(g, c)
  BY <1>6, <1>7, Zenon DEF Made
<1>9. [n EXCEPT !.region = g, !.cleanup = c] = Made(g, c)
  BY <1>4, <1>8 DEF m
<1>10. Made(g, c) \in Fields
  BY PoolAssumption DEF Made, Fields
<1> QED
  BY <1>4, <1>10, <1>9 DEF n

\* The factory makes an allocator that did not exist, with a new region.
LEMMA FactoryEffect ==
  ASSUME PoolTypes, NEW r \in Requests, NEW how \in {"pooled", "factory"}, factory(r, how)
  PROVE  \E a \in Allocators, g \in Regions, c \in BOOLEAN :
           /\ stage[r] = "new" /\ a \notin live /\ live' = live \cup {a}
           /\ FreshRegion(g)
           /\ c <=> backend = "balloc"
           /\ Changed(a, Made(g, c))
           /\ stage' = [stage EXCEPT ![r] = how] /\ ctx' = [ctx EXCEPT ![r] = a]
           /\ UNCHANGED <<backend, pool, slices>>
<1> DEFINE a == CHOOSE b \in Allocators : b \notin live
           c == (backend = "balloc")
           g == newRegion
<1>1. a \in Allocators /\ a \notin live
  BY DEF factory, PoolTypes
<1>2. FreshRegion(g)
  BY MmapEffect DEF factory
<1>3. alloc' = [alloc EXCEPT ![a] = [NoAllocator EXCEPT !.region = g, !.cleanup = c]]
  BY DEF factory
<1>4. c \in BOOLEAN /\ g \in Regions
  BY <1>2 DEF FreshRegion
<1>5. /\ stage[r] = "new" /\ live' = live \cup {a}
      /\ stage' = [stage EXCEPT ![r] = how] /\ ctx' = [ctx EXCEPT ![r] = a]
      /\ UNCHANGED <<backend, pool, slices>>
  BY DEF factory, Inject
<1>6. c <=> backend = "balloc"
  OBVIOUS
<1> HIDE DEF a, c, g
<1>7. [NoAllocator EXCEPT !.region = g, !.cleanup = c] = Made(g, c)
  BY <1>4, MadeFields
<1>8. Made(g, c) \in Fields
  BY <1>4, MadeFields
<1>9. Changed(a, Made(g, c))
  BY <1>1, <1>3, <1>7, <1>8 DEF Changed, PoolTypes
<1> QED
  BY <1>1, <1>2, <1>4, <1>5, <1>6, <1>9

\* Reset of an arena makes it anew.
LEMMA ReopenEffect ==
  ASSUME PoolTypes, NEW a \in Allocators, Reopen(a)
  PROVE  \E g \in Regions : FreshRegion(g) /\ Changed(a, Made(g, FALSE))
<1> DEFINE g == newRegion
<1>1. FreshRegion(g)
  BY MmapEffect DEF Reopen
<1>2. g \in Regions
  BY <1>1 DEF FreshRegion
<1>3. alloc' = [alloc EXCEPT ![a] = [NoAllocator EXCEPT !.region = g]]
  BY DEF Reopen
<1> HIDE DEF g
<1>4. [NoAllocator EXCEPT !.region = g] = Made(g, FALSE)
  BY <1>2, MadeFields
<1>5. Made(g, FALSE) \in Fields
  BY <1>2, MadeFields
<1>6. Changed(a, Made(g, FALSE))
  BY <1>3, <1>4, <1>5 DEF Changed, PoolTypes
<1> QED
  BY <1>1, <1>2, <1>6

\* The allocator of a request that is served exists, is not in the pool and is
\* nobody else's.
LEMMA InContext ==
  ASSUME PoolInv, NEW r \in Requests, Serving(r)
  PROVE  /\ ctx[r] \in Allocators /\ ctx[r] \in live /\ ctx[r] \notin pool
         /\ \A q \in Requests : q # r => ctx[q] # ctx[r]
BY DEF PoolInv, PoolTypes, Contexts, OneUser

-------------------------------------------------------------------------------
(* Every action preserves the invariant.                                   *)

\* Get takes an allocator out of the pool, or a factory fails: no allocator and
\* no slice changes.
LEMMA HandOverStep ==
  ASSUME PoolInv, NEW r \in Requests,
         (\E a \in Allocators : GetPooled(r, a)) \/ factoryFails(r)
  PROVE  PoolInv'
<1> USE DEF PoolInv
<1>1. UNCHANGED <<backend, mapped, mem, live, alloc, slices>>
  BY DEF GetPooled, factoryFails
<1>2. PoolTypes'
  BY <1>1 DEF PoolTypes, GetPooled, factoryFails, Inject
<1>3. /\ pool' \subseteq pool
      /\ \A q \in Requests : q # r => stage'[q] = stage[q] /\ ctx'[q] = ctx[q]
  BY DEF PoolTypes, GetPooled, factoryFails, Inject
<1>4. \/ stage[r] = "new" /\ stage'[r] = "done" /\ ctx'[r] = ctx[r]
      \/ /\ stage[r] = "new" /\ stage'[r] = "pooled"
         /\ ctx'[r] \in pool /\ ctx'[r] \notin pool'
  BY DEF PoolTypes, GetPooled, factoryFails, Inject
<1>5. Contexts'
  BY <1>1, <1>3, <1>4, PoolAssumption DEF PoolTypes, Contexts, Serving
<1>6. OneUser'
  BY <1>1, <1>3, <1>4 DEF PoolTypes, Contexts, OneUser, Serving
<1>7. RegionsHeld' /\ MappingOwned' /\ SlicesIntact'
  BY <1>1 DEF RegionsHeld, MappingOwned, SlicesIntact, Holds
<1>8. SlicesOwned'
  BY <1>1, <1>3, <1>4 DEF SlicesOwned, Contexts, Holds, Serving
<1>9. PoolReady'
  BY <1>1, <1>3 DEF PoolReady
<1> QED
  BY <1>2, <1>5, <1>6, <1>7, <1>8, <1>9

\* sync.Pool drops an allocator.
LEMMA DropStep ==
  ASSUME PoolInv, NEW a \in Allocators, PoolDrop(a)
  PROVE  PoolInv'
<1> USE DEF PoolInv
<1>1. pool' \subseteq pool /\ UNCHANGED <<backend, mapped, mem, live, alloc, stage, ctx, slices>>
  BY DEF PoolDrop
<1>2. PoolTypes' /\ Contexts' /\ OneUser' /\ MappingOwned' /\ PoolReady'
  BY <1>1 DEF PoolTypes, Contexts, OneUser, MappingOwned, PoolReady, Serving
<1>3. RegionsHeld'
  BY <1>1 DEF RegionsHeld, Holds
<1>4. SlicesIntact' /\ SlicesOwned'
  BY <1>1 DEF SlicesIntact, SlicesOwned, Serving, Holds
<1> QED
  BY <1>2, <1>3, <1>4

\* The factory: the allocator and its region are new to everybody.
LEMMA FactoryStep ==
  ASSUME PoolInv, NEW r \in Requests, NEW how \in {"pooled", "factory"}, factory(r, how)
  PROVE  PoolInv'
<1> USE DEF PoolInv
<1>1. PICK a \in Allocators, g \in Regions, c \in BOOLEAN :
        /\ stage[r] = "new" /\ a \notin live /\ live' = live \cup {a}
        /\ FreshRegion(g)
        /\ c <=> backend = "balloc"
        /\ Changed(a, Made(g, c))
        /\ stage' = [stage EXCEPT ![r] = how] /\ ctx' = [ctx EXCEPT ![r] = a]
        /\ UNCHANGED <<backend, pool, slices>>
  BY FactoryEffect
<1>2. /\ alloc' \in [Allocators -> Fields]
      /\ alloc'[a].region = g /\ alloc'[a].used = 0 /\ ~alloc'[a].closed
      /\ (alloc'[a].cleanup <=> backend = "balloc")
      /\ \A b \in Allocators : b # a => alloc'[b] = alloc[b]
  BY <1>1 DEF Changed, Made
<1>3. /\ g \notin mapped /\ mapped' = mapped \cup {g}
      /\ mem' \in [Regions -> [1 .. Cells -> Requests \cup {Nil}]]
      /\ \A d \in 1 .. Cells : mem'[g][d] = Nil
      /\ \A h \in Regions : h # g => mem'[h] = mem[h]
  BY <1>1 DEF FreshRegion
<1>4. PoolTypes'
  BY <1>1, <1>2, <1>3 DEF PoolTypes
<1>5. /\ stage'[r] = how /\ ctx'[r] = a /\ slices'[r] = {} /\ a # Nil
      /\ \A q \in Requests : q # r => stage'[q] = stage[q] /\ ctx'[q] = ctx[q] /\ ctx[q] # a
  BY <1>1, PoolAssumption DEF PoolTypes, Contexts, OneUser, Serving
<1>6. Contexts'
  BY <1>1, <1>5 DEF PoolTypes, Contexts, Serving
<1>7. OneUser'
  BY <1>1, <1>5 DEF PoolTypes, OneUser, Serving
<1>h. Holds(a)' /\ \A b \in Allocators : b # a => (Holds(b)' <=> Holds(b))
  BY <1>1, <1>2 DEF Holds
<1>8. RegionsHeld'
  BY <1>2, <1>3, <1>h DEF RegionsHeld
<1>9. MappingOwned'
  <2> SUFFICES ASSUME backend = "balloc" PROVE MappingOwned'
    BY <1>1 DEF MappingOwned
  <2>1. {alloc'[b].region : b \in {b \in live' : ~alloc'[b].closed}}
          = {alloc[b].region : b \in {b \in live : ~alloc[b].closed}} \cup {g}
    BY <1>1, <1>2 DEF PoolTypes
  <2>2. mapped' = {alloc'[b].region : b \in {b \in live' : ~alloc'[b].closed}}
    BY <1>3, <2>1 DEF MappingOwned
  <2>3. \A b \in live' : alloc'[b].cleanup <=> ~alloc'[b].closed
    BY <1>1, <1>2 DEF PoolTypes, MappingOwned
  <2>4. \A b \in live : ~alloc[b].closed => alloc[b].region # g
    BY <1>3 DEF MappingOwned
  <2>5. \A b, d \in live' :
          ~alloc'[b].closed /\ ~alloc'[d].closed /\ alloc'[b].region = alloc'[d].region => b = d
    BY <1>1, <1>2, <2>4 DEF PoolTypes, MappingOwned
  <2> QED
    BY <2>2, <2>3, <2>5 DEF MappingOwned
<1>10. \A q \in Requests : \A s \in slices[q] : s[1] \in mapped /\ s[1] # g /\ s[1] \in Regions
  BY <1>3 DEF SlicesIntact, PoolTypes
<1>11. SlicesIntact'
  BY <1>1, <1>3, <1>10 DEF SlicesIntact
<1>12. SlicesOwned'
  <2>1. \A q \in Requests : \A s \in slices[q] : \A b \in Allocators :
          Holds(b)' /\ alloc'[b].region = s[1] => s[2] <= alloc'[b].used
    BY <1>2, <1>10, <1>h DEF SlicesOwned
  <2>2. backend = "balloc" =>
          \A q \in Requests : \A s \in slices'[q] :
            Serving(q)' /\ ~alloc'[ctx'[q]].closed /\ alloc'[ctx'[q]].region = s[1]
    BY <1>1, <1>2, <1>5 DEF SlicesOwned, Serving, PoolTypes, Contexts
  <2> QED
    BY <1>1, <2>1, <2>2 DEF SlicesOwned
<1>13. PoolReady'
  BY <1>1, <1>2 DEF PoolReady, PoolTypes
<1> QED
  BY <1>4, <1>6, <1>7, <1>8, <1>9, <1>11, <1>12, <1>13

\* A helper takes cells that nobody has, and leaves in them what was there or
\* fills them for its request; the other cells stay as they are.
LEMMA TakeStep ==
  ASSUME PoolInv, NEW r \in Requests, NEW k \in {1, 2}, Serving(r),
         Granted(ctx[r], k) # {},
         Take(r, ctx[r], Granted(ctx[r], k), mem'[alloc[ctx[r]].region]),
         mem' \in [Regions -> [1 .. Cells -> Requests \cup {Nil}]],
         \A h \in Regions, c \in 1 .. Cells :
           \/ mem'[h][c] = mem[h][c]
           \/ h = alloc[ctx[r]].region /\ c \in Granted(ctx[r], k) /\ mem'[h][c] = r,
         UNCHANGED <<backend, mapped, live, pool, stage, ctx>>
  PROVE  PoolInv'
<1> USE DEF PoolInv
<1> DEFINE a == ctx[r]
           g == alloc[a].region
           G == Granted(a, k)
           new == {<<g, c, mem'[g][c]>> : c \in G}
<1>1. a \in Allocators /\ a \in live /\ a \notin pool /\ \A q \in Requests : q # r => ctx[q] # a
  BY InContext
<1>2. /\ ~alloc[a].closed
      /\ G = alloc[a].used + 1 .. alloc[a].used + Cardinality(G)
      /\ alloc[a].used + Cardinality(G) \in 0 .. Cells
      /\ Cardinality(G) \in Nat
  BY <1>1, GrantedCells
<1>3. Changed(a, [region |-> g, used |-> alloc[a].used + Cardinality(G),
                  closed |-> alloc[a].closed, cleanup |-> alloc[a].cleanup])
  BY <1>1, <1>2, TakeEffect
<1>4. slices' = [slices EXCEPT ![r] = @ \cup new]
  BY DEF Take
<1>u. alloc[a].used \in 0 .. Cells
  BY <1>1 DEF PoolTypes, Fields
<1>5. \A h \in Regions, c \in 1 .. Cells :
        mem'[h][c] = mem[h][c] \/ (h = g /\ c \in G /\ mem'[h][c] = r)
  OBVIOUS
<1> HIDE DEF a, G, g
<1>6. /\ alloc' \in [Allocators -> Fields]
      /\ alloc'[a].region = g /\ alloc'[a].closed = alloc[a].closed
      /\ alloc'[a].cleanup = alloc[a].cleanup
      /\ alloc[a].used <= alloc'[a].used
      /\ \A b \in Allocators : b # a => alloc'[b] = alloc[b]
  BY <1>2, <1>3, <1>u DEF Changed
<1>7. \A c \in G : c \in 1 .. Cells /\ c > alloc[a].used /\ c <= alloc'[a].used
  BY <1>2, <1>3, <1>u, PoolAssumption DEF Changed
<1>h. Holds(a) /\ \A b \in Allocators : Holds(b)' <=> Holds(b)
  BY <1>1, <1>2, <1>6 DEF Holds
<1>8. g \in mapped /\ g \in Regions
  BY <1>1, <1>h DEF RegionsHeld, PoolTypes, g
<1>9. \A s \in new : /\ s \in Regions \X (1 .. Cells) \X (Requests \cup {Nil})
                      /\ s[1] = g /\ s[2] \in G /\ s[3] = mem'[g][s[2]]
  <2>1. mem'[g] \in [1 .. Cells -> Requests \cup {Nil}]
    BY <1>8
  <2>2. \A c \in G : mem'[g][c] \in Requests \cup {Nil}
    BY <1>7, <2>1
  <2> QED
    BY <1>7, <1>8, <2>2
<1>n. \A s, z \in new : s[2] = z[2] => s = z
  OBVIOUS
<1> HIDE DEF new
<1>10. /\ slices'[r] = slices[r] \cup new
       /\ \A q \in Requests : q # r => slices'[q] = slices[q]
  BY <1>4 DEF PoolTypes
<1>11. PoolTypes'
  BY <1>4, <1>6, <1>9 DEF PoolTypes
<1>12. Contexts' /\ OneUser'
  BY <1>10 DEF Contexts, OneUser, Serving
<1>13. RegionsHeld'
  BY <1>6, <1>h DEF RegionsHeld, g
<1>14. MappingOwned'
  <2>1. \A b \in live : b \in Allocators /\ alloc'[b].region = alloc[b].region
          /\ alloc'[b].closed = alloc[b].closed /\ alloc'[b].cleanup = alloc[b].cleanup
    BY <1>6 DEF PoolTypes, g
  <2>2. {b \in live' : ~alloc'[b].closed} = {b \in live : ~alloc[b].closed}
    BY <2>1
  <2>3. {alloc'[b].region : b \in {b \in live' : ~alloc'[b].closed}}
          = {alloc[b].region : b \in {b \in live : ~alloc[b].closed}}
    BY <2>1, <2>2
  <2> QED
    BY <2>1, <2>3 DEF MappingOwned
<1>15. \A q \in Requests : \A s \in slices[q] : s[1] = g => s[2] \notin G /\ s[2] <= alloc[a].used
  <2>1. \A q \in Requests : \A s \in slices[q] : s[1] = g => s[2] <= alloc[a].used
    BY <1>1, <1>h DEF SlicesOwned, g
  <2> QED
    BY <1>7, <1>u, <2>1 DEF PoolTypes
<1>16. SlicesIntact'
  BY <1>5, <1>8, <1>9, <1>10, <1>15 DEF SlicesIntact, PoolTypes
<1>17. SlicesOwned'
  <2>1. ASSUME NEW p \in Requests, NEW q \in Requests, NEW s \in slices'[p], NEW z \in slices'[q],
               s[1] = z[1], s[2] = z[2]
        PROVE  p = q /\ s = z
    <3>1. CASE s \in slices[p] /\ z \in slices[q]
      BY <2>1, <3>1 DEF SlicesOwned
    <3>2. CASE p = r /\ q = r /\ s \in new /\ z \in new
      BY <1>n, <2>1, <3>2
    <3>3. CASE s \in slices[p] /\ q = r /\ z \in new
      BY <1>9, <1>15, <2>1, <3>3
    <3>4. CASE p = r /\ s \in new /\ z \in slices[q]
      BY <1>9, <1>15, <2>1, <3>4
    <3> QED
      BY <1>10, <2>1, <3>1, <3>2, <3>3, <3>4
  <2>2. ASSUME NEW q \in Requests, NEW s \in slices'[q], NEW b \in Allocators,
               Holds(b)', alloc'[b].region = s[1]
        PROVE  s[2] <= alloc'[b].used
    <3>1. CASE s \in slices[q]
      <4>1. alloc[b].region = s[1] /\ Holds(b)
        BY <1>6, <1>h, <2>2 DEF g
      <4>2. s[2] <= alloc[b].used
        BY <3>1, <4>1 DEF SlicesOwned
      <4>3. /\ s[2] \in 1 .. Cells
            /\ alloc[b].used \in 0 .. Cells /\ alloc'[b].used \in 0 .. Cells
        BY <1>6, <3>1 DEF PoolTypes, Fields
      <4> QED
        BY <1>6, <4>2, <4>3
    <3>2. CASE s \in new
      <4>1. b = a
        BY <1>1, <1>6, <1>9, <1>h, <2>2, <3>2 DEF RegionsHeld, g
      <4> QED
        BY <1>7, <1>9, <3>2, <4>1
    <3> QED
      BY <1>10, <2>2, <3>1, <3>2
  <2>3. ASSUME backend = "balloc", NEW q \in Requests, NEW s \in slices'[q]
        PROVE  Serving(q)' /\ ~alloc'[ctx'[q]].closed /\ alloc'[ctx'[q]].region = s[1]
    <3>1. CASE s \in slices[q]
      <4>1. Serving(q) /\ ~alloc[ctx[q]].closed /\ alloc[ctx[q]].region = s[1]
        BY <2>3, <3>1 DEF SlicesOwned
      <4>2. ctx[q] \in Allocators
        BY <4>1, InContext
      <4> QED
        BY <1>6, <4>1, <4>2 DEF Serving, g
    <3>2. CASE q = r /\ s \in new
      BY <1>2, <1>6, <1>9, <3>2 DEF Serving, a
    <3> QED
      BY <1>10, <2>3, <3>1, <3>2
  <2> QED
    BY <2>1, <2>2, <2>3 DEF SlicesOwned
<1>18. PoolReady'
  BY <1>1, <1>6 DEF PoolReady, PoolTypes
<1> QED
  BY <1>11, <1>12, <1>13, <1>14, <1>16, <1>17, <1>18

\* New, MakeSlice and MakeBytes; MakeString and MarshalJSON.
LEMMA MakeStep ==
  ASSUME PoolInv, NEW r \in Requests, Make(r) \/ MakeString(r) \/ MarshalJSON(r)
  PROVE  PoolInv'
<1> USE DEF PoolInv
<1>1. CASE Make(r)
  <2>1. mem' = mem /\ mem' \in [Regions -> [1 .. Cells -> Requests \cup {Nil}]]
    BY <1>1 DEF Make, PoolTypes
  <2> QED
    BY <1>1, <2>1, TakeStep DEF Make
<1>2. ASSUME NEW k \in {1, 2}, MakeFilled(r, k) PROVE PoolInv'
  <2> DEFINE g == alloc[ctx[r]].region
             G == Granted(ctx[r], k)
  <2>1. /\ Serving(r) /\ G # {}
        /\ mem' = [mem EXCEPT ![g] = [c \in 1 .. Cells |-> IF c \in G THEN r ELSE @[c]]]
        /\ Take(r, ctx[r], G, mem'[g])
        /\ UNCHANGED <<backend, mapped, live, pool, stage, ctx>>
    BY <1>2 DEF MakeFilled
  <2>2. G = Granted(ctx[r], k) /\ g = alloc[ctx[r]].region
    OBVIOUS
  <2> HIDE DEF g, G
  <2>3. mem' \in [Regions -> [1 .. Cells -> Requests \cup {Nil}]]
    BY <2>1 DEF PoolTypes
  <2>4. \A h \in Regions, c \in 1 .. Cells :
          mem'[h][c] = mem[h][c] \/ (h = g /\ c \in G /\ mem'[h][c] = r)
    BY <2>1 DEF PoolTypes
  <2> QED
    BY <2>1, <2>2, <2>3, <2>4, TakeStep
<1> QED
  BY <1>1, <1>2 DEF MakeString, MarshalJSON

\* A write changes one cell, which no other slice has and which is below what
\* its allocator has handed out.
LEMMA WriteStep ==
  ASSUME PoolInv, NEW r \in Requests, NEW s \in slices[r], Write(r, s)
  PROVE  PoolInv'
<1> USE DEF PoolInv
<1> DEFINE z == <<s[1], s[2], r>>
<1>1. s[1] \in Regions /\ s[2] \in 1 .. Cells
  BY DEF PoolTypes
<1>2. /\ Serving(r) /\ mem' = [mem EXCEPT ![s[1]][s[2]] = r]
      /\ slices' = [slices EXCEPT ![r] = (@ \ {s}) \cup {z}]
      /\ UNCHANGED <<backend, mapped, live, alloc, pool, stage, ctx>>
  BY DEF Write
<1>3. z \in Regions \X (1 .. Cells) \X (Requests \cup {Nil})
      /\ z[1] = s[1] /\ z[2] = s[2] /\ z[3] = r
  BY <1>1
<1> HIDE DEF z
<1>4. PoolTypes'
  BY <1>1, <1>2, <1>3 DEF PoolTypes
<1>5. /\ slices'[r] = (slices[r] \ {s}) \cup {z}
      /\ \A q \in Requests : q # r => slices'[q] = slices[q]
  BY <1>2 DEF PoolTypes
<1>6. /\ mem'[s[1]][s[2]] = r
      /\ \A h \in Regions, c \in 1 .. Cells :
           ~(h = s[1] /\ c = s[2]) => mem'[h][c] = mem[h][c]
  BY <1>1, <1>2 DEF PoolTypes
<1>7. \A q \in Requests : \A y \in slices'[q] :
        \/ y \in slices[q] /\ ~(y[1] = s[1] /\ y[2] = s[2])
        \/ q = r /\ y = z
  BY <1>5 DEF SlicesOwned
<1>8. Contexts' /\ OneUser' /\ RegionsHeld' /\ MappingOwned' /\ PoolReady'
  BY <1>2, <1>5 DEF Contexts, OneUser, RegionsHeld, MappingOwned, PoolReady, Serving, Holds
<1>9. SlicesIntact'
  <2>1. ASSUME NEW q \in Requests, NEW y \in slices'[q]
        PROVE  y[1] \in mapped' /\ mem'[y[1]][y[2]] = y[3]
    <3>1. CASE y \in slices[q] /\ ~(y[1] = s[1] /\ y[2] = s[2])
      <4>1. y[1] \in Regions /\ y[2] \in 1 .. Cells
        BY <3>1 DEF PoolTypes
      <4> QED
        BY <1>2, <1>6, <3>1, <4>1 DEF SlicesIntact
    <3>2. CASE q = r /\ y = z
      BY <1>2, <1>3, <1>6, <3>2 DEF SlicesIntact
    <3> QED
      BY <1>7, <3>1, <3>2
  <2> QED
    BY <2>1 DEF SlicesIntact
<1>10. SlicesOwned'
  <2>1. \A p, q \in Requests : \A x \in slices'[p], y \in slices'[q] :
          x[1] = y[1] /\ x[2] = y[2] => p = q /\ x = y
    BY <1>3, <1>7 DEF SlicesOwned
  <2>2. \A q \in Requests : \A y \in slices'[q] : \A a \in Allocators :
          Holds(a)' /\ alloc'[a].region = y[1] => y[2] <= alloc'[a].used
    BY <1>2, <1>3, <1>7 DEF SlicesOwned, Holds
  <2>3. backend' = "balloc" => \A q \in Requests : \A y \in slices'[q] :
          Serving(q)' /\ ~alloc'[ctx'[q]].closed /\ alloc'[ctx'[q]].region = y[1]
    BY <1>2, <1>3, <1>7 DEF SlicesOwned, Serving
  <2> QED
    BY <2>1, <2>2, <2>3 DEF SlicesOwned
<1> QED
  BY <1>4, <1>8, <1>9, <1>10

\* Close unmaps at most the region of its own allocator, once, and no slice of
\* another request lies there.
LEMMA CloseStep ==
  ASSUME PoolInv, NEW r \in Requests, HandlerCloses(r) \/ FinishFactory(r)
  PROVE  PoolInv'
<1> USE DEF PoolInv
<1>1. /\ Serving(r) /\ Close(ctx[r]) /\ Release(r)
      /\ UNCHANGED <<backend, mem, live, pool>>
  BY DEF HandlerCloses, FinishFactory, Serving
<1>2. PICK a \in Allocators : a = ctx[r]
  BY <1>1, InContext
<1>3. a \in live /\ a \notin pool /\ \A q \in Requests : q # r => ctx[q] # a
  BY <1>1, <1>2, InContext
<1>4. \/ UNCHANGED <<stage, ctx>>
      \/ stage' = [stage EXCEPT ![r] = "done"] /\ ctx' = [ctx EXCEPT ![r] = Nil]
  BY DEF HandlerCloses, FinishFactory, Inject
<1>5. Changed(a, [region |-> alloc[a].region, used |-> alloc[a].used, closed |-> TRUE,
                  cleanup |-> FALSE])
  BY <1>1, <1>2, CloseEffect
<1>6. /\ alloc' \in [Allocators -> Fields]
      /\ alloc'[a].region = alloc[a].region /\ alloc'[a].used = alloc[a].used
      /\ alloc'[a].closed /\ ~alloc'[a].cleanup
      /\ \A b \in Allocators : b # a => alloc'[b] = alloc[b]
  BY <1>5 DEF Changed
<1>7. mapped' = IF backend = "balloc" /\ ~alloc[a].closed THEN mapped \ {alloc[a].region}
                ELSE mapped
  BY <1>1, <1>2 DEF Close, munmap
<1>8. /\ \A q \in Requests : q # r => slices'[q] = slices[q]
      /\ slices'[r] = IF backend = "arena" THEN slices[r] ELSE {}
  BY <1>1 DEF Release, PoolTypes
<1>9. PoolTypes'
  BY <1>1, <1>4, <1>6, <1>7, <1>8 DEF PoolTypes, Release
<1>10. \A q \in Requests : q # r => stage'[q] = stage[q] /\ ctx'[q] = ctx[q]
  BY <1>4 DEF PoolTypes
<1>11. \/ stage'[r] = stage[r] /\ ctx'[r] = ctx[r]
       \/ stage'[r] = "done" /\ ctx'[r] = Nil
  BY <1>4 DEF PoolTypes
<1>12. Contexts'
  BY <1>1, <1>8, <1>10, <1>11 DEF Contexts, Serving
<1>13. OneUser'
  BY <1>1, <1>10, <1>11 DEF OneUser, Serving
<1>h. \A b \in Allocators :
        Holds(b)' <=> Holds(b) /\ (b = a => backend = "arena")
  BY <1>1, <1>3, <1>6 DEF Holds
<1>14. RegionsHeld'
  <2>1. ASSUME NEW b \in Allocators, Holds(b)' PROVE alloc'[b].region \in mapped'
    <3>1. Holds(b) /\ alloc[b].region \in mapped
      BY <1>h, <2>1 DEF RegionsHeld
    <3>2. backend = "balloc" /\ ~alloc[a].closed => alloc[b].region # alloc[a].region
      BY <1>3, <1>h, <2>1 DEF RegionsHeld, Holds
    <3> QED
      BY <1>6, <1>7, <3>1, <3>2
  <2> QED
    BY <1>6, <1>h, <2>1 DEF RegionsHeld
<1>15. MappingOwned'
  <2> SUFFICES ASSUME backend = "balloc" PROVE MappingOwned'
    BY <1>1 DEF MappingOwned
  <2>1. \A b \in live : b # a =>
          b \in Allocators /\ alloc'[b] = alloc[b]
    BY <1>6 DEF PoolTypes
  <2>2. {b \in live' : ~alloc'[b].closed} = {b \in live : ~alloc[b].closed} \ {a}
    BY <1>1, <1>6, <2>1
  <2>3. \A b \in {b \in live : ~alloc[b].closed} \ {a} : alloc'[b].region = alloc[b].region
    BY <2>1
  <2>4. {alloc'[b].region : b \in {b \in live' : ~alloc'[b].closed}}
          = {alloc[b].region : b \in {b \in live : ~alloc[b].closed} \ {a}}
    BY <2>2, <2>3
  <2>5. CASE alloc[a].closed
    <3>1. {b \in live : ~alloc[b].closed} \ {a} = {b \in live : ~alloc[b].closed}
      BY <2>5
    <3> QED
      BY <1>1, <1>6, <1>7, <2>1, <2>4, <2>5, <3>1 DEF MappingOwned
  <2>6. CASE ~alloc[a].closed
    <3>1. {alloc[b].region : b \in {b \in live : ~alloc[b].closed} \ {a}}
            = {alloc[b].region : b \in {b \in live : ~alloc[b].closed}} \ {alloc[a].region}
      BY <1>3, <2>6 DEF MappingOwned
    <3> QED
      BY <1>1, <1>6, <1>7, <2>1, <2>4, <2>6, <3>1 DEF MappingOwned
  <2> QED
    BY <2>5, <2>6
<1>16. ASSUME NEW q \in Requests, NEW s \in slices'[q]
       PROVE  /\ s \in slices[q] /\ s[1] \in mapped'
              /\ backend = "balloc" => q # r /\ Serving(q) /\ ctx[q] # a /\ ctx[q] \in Allocators
  <2>1. s \in slices[q] /\ (q = r => backend = "arena")
    BY <1>8, <1>16, Zenon
  <2>2. CASE backend = "balloc"
    <3>1. q # r /\ Serving(q) /\ ~alloc[ctx[q]].closed /\ alloc[ctx[q]].region = s[1]
      BY <2>1, <2>2 DEF SlicesOwned
    <3>2. ctx[q] \in Allocators /\ ctx[q] \in live /\ ctx[q] # a
      BY <1>3, <3>1, InContext
    <3>3. ~alloc[a].closed => s[1] # alloc[a].region
      BY <1>3, <3>1, <3>2 DEF RegionsHeld, Holds
    <3> QED
      BY <1>7, <2>1, <3>1, <3>2, <3>3 DEF SlicesIntact
  <2>3. CASE backend # "balloc"
    BY <1>7, <2>1, <2>3 DEF SlicesIntact
  <2> QED
    BY <2>2, <2>3
<1>17. SlicesIntact'
  BY <1>1, <1>16 DEF SlicesIntact
<1>18. SlicesOwned'
  <2>1. \A p, q \in Requests : \A x \in slices'[p], y \in slices'[q] :
          x[1] = y[1] /\ x[2] = y[2] => p = q /\ x = y
    BY <1>16 DEF SlicesOwned
  <2>2. \A q \in Requests : \A y \in slices'[q] : \A b \in Allocators :
          Holds(b)' /\ alloc'[b].region = y[1] => y[2] <= alloc'[b].used
    BY <1>6, <1>16, <1>h DEF SlicesOwned
  <2>3. backend' = "balloc" => \A q \in Requests : \A y \in slices'[q] :
          Serving(q)' /\ ~alloc'[ctx'[q]].closed /\ alloc'[ctx'[q]].region = y[1]
    BY <1>1, <1>6, <1>10, <1>16 DEF SlicesOwned, Serving
  <2> QED
    BY <2>1, <2>2, <2>3 DEF SlicesOwned
<1>19. PoolReady'
  BY <1>1, <1>3, <1>6 DEF PoolReady, PoolTypes
<1> QED
  BY <1>9, <1>12, <1>13, <1>14, <1>15, <1>17, <1>18, <1>19

\* Put of a balloc allocator: Reset rewinds it when nobody relies on its memory
\* any more.
LEMMA RewindStep ==
  ASSUME PoolInv, NEW r \in Requests, FinishPooled(r), backend = "balloc"
  PROVE  PoolInv'
<1> USE DEF PoolInv
<1>1. /\ Serving(r) /\ Rewind(ctx[r]) /\ pool' = pool \cup {ctx[r]}
      /\ stage' = [stage EXCEPT ![r] = "done"] /\ ctx' = [ctx EXCEPT ![r] = Nil]
      /\ slices' = [slices EXCEPT ![r] = {}]
      /\ UNCHANGED <<backend, mapped, mem, live>>
  BY DEF FinishPooled, Serving, Put, Inject, Release, Rewind
<1>2. PICK a \in Allocators : a = ctx[r]
  BY <1>1, InContext
<1>3. a \in live /\ a \notin pool /\ \A q \in Requests : q # r => ctx[q] # a
  BY <1>1, <1>2, InContext
<1>4. \/ alloc[a].closed /\ UNCHANGED alloc
      \/ ~alloc[a].closed /\
         Changed(a, [region |-> alloc[a].region, used |-> 0, closed |-> FALSE,
                     cleanup |-> alloc[a].cleanup])
  BY <1>1, <1>2, RewindEffect
<1>5. /\ alloc' \in [Allocators -> Fields]
      /\ alloc'[a].region = alloc[a].region /\ (alloc'[a].closed <=> alloc[a].closed)
      /\ (alloc'[a].cleanup <=> alloc[a].cleanup)
      /\ ~alloc[a].closed => alloc'[a].used = 0
      /\ \A b \in Allocators : b # a => alloc'[b] = alloc[b]
  BY <1>4 DEF Changed, PoolTypes, Fields
<1>6. /\ slices'[r] = {} /\ stage'[r] = "done" /\ ctx'[r] = Nil
      /\ \A q \in Requests : q # r =>
           slices'[q] = slices[q] /\ stage'[q] = stage[q] /\ ctx'[q] = ctx[q]
  BY <1>1 DEF PoolTypes
<1>7. PoolTypes'
  BY <1>1, <1>2, <1>3, <1>5 DEF PoolTypes
<1>8. Contexts'
  BY <1>6 DEF Contexts, Serving
<1>9. OneUser'
  BY <1>1, <1>2, <1>3, <1>6 DEF OneUser, Serving
<1>h. \A b \in Allocators : Holds(b)' <=> Holds(b)
  BY <1>1, <1>5 DEF Holds
<1>10. RegionsHeld'
  BY <1>1, <1>5, <1>h DEF RegionsHeld
<1>11. MappingOwned'
  <2>1. \A b \in live : b \in Allocators /\ alloc'[b].region = alloc[b].region
          /\ (alloc'[b].closed <=> alloc[b].closed) /\ (alloc'[b].cleanup <=> alloc[b].cleanup)
    BY <1>5 DEF PoolTypes
  <2>2. {b \in live' : ~alloc'[b].closed} = {b \in live : ~alloc[b].closed}
    BY <1>1, <2>1
  <2>3. {alloc'[b].region : b \in {b \in live' : ~alloc'[b].closed}}
          = {alloc[b].region : b \in {b \in live : ~alloc[b].closed}}
    BY <2>1, <2>2
  <2> QED
    BY <1>1, <2>1, <2>3 DEF MappingOwned
<1>12. SlicesIntact'
  BY <1>1, <1>6 DEF SlicesIntact
<1>13. SlicesOwned'
  <2>1. ASSUME NEW q \in Requests, NEW s \in slices'[q]
        PROVE  /\ q # r /\ s \in slices[q] /\ Serving(q) /\ ctx[q] # a /\ ctx[q] \in Allocators
               /\ ~alloc[ctx[q]].closed /\ alloc[ctx[q]].region = s[1] /\ Holds(ctx[q])
    <3>1. q # r /\ s \in slices[q]
      BY <1>6, <2>1
    <3>2. Serving(q) /\ ~alloc[ctx[q]].closed /\ alloc[ctx[q]].region = s[1]
      BY <3>1 DEF SlicesOwned
    <3> QED
      BY <1>3, <3>1, <3>2, InContext DEF Holds
  <2>2. \A q \in Requests : \A s \in slices'[q] : \A b \in Allocators :
          Holds(b)' /\ alloc'[b].region = s[1] => s[2] <= alloc'[b].used
    <3>1. ASSUME NEW q \in Requests, NEW s \in slices'[q], NEW b \in Allocators,
                 Holds(b)', alloc'[b].region = s[1]
          PROVE  s[2] <= alloc'[b].used
      <4>1. b # a
        BY <1>5, <1>h, <2>1, <3>1 DEF RegionsHeld
      <4> QED
        BY <1>5, <1>h, <2>1, <3>1, <4>1 DEF SlicesOwned
    <3> QED
      BY <3>1
  <2>3. \A p, q \in Requests : \A x \in slices'[p], y \in slices'[q] :
          x[1] = y[1] /\ x[2] = y[2] => p = q /\ x = y
    BY <2>1 DEF SlicesOwned
  <2>4. \A q \in Requests : \A s \in slices'[q] :
          Serving(q)' /\ ~alloc'[ctx'[q]].closed /\ alloc'[ctx'[q]].region = s[1]
    BY <1>5, <1>6, <2>1 DEF Serving
  <2> QED
    BY <2>2, <2>3, <2>4 DEF SlicesOwned
<1>14. PoolReady'
  <2>1. \A b \in pool : b \in Allocators /\ b # a
    BY <1>3 DEF PoolTypes
  <2> QED
    BY <1>1, <1>2, <1>5, <2>1 DEF PoolReady
<1> QED
  BY <1>7, <1>8, <1>9, <1>10, <1>11, <1>12, <1>13, <1>14

\* Put of an arena: it gets a new region, and the slices keep the old one.
LEMMA ReopenStep ==
  ASSUME PoolInv, NEW r \in Requests, FinishPooled(r), backend = "arena"
  PROVE  PoolInv'
<1> USE DEF PoolInv
<1>1. /\ Serving(r) /\ Reopen(ctx[r]) /\ pool' = pool \cup {ctx[r]}
      /\ stage' = [stage EXCEPT ![r] = "done"] /\ ctx' = [ctx EXCEPT ![r] = Nil]
      /\ slices' = [slices EXCEPT ![r] = @]
      /\ UNCHANGED <<backend, live>>
  BY DEF FinishPooled, Serving, Put, Inject, Release
<1>2. PICK a \in Allocators : a = ctx[r]
  BY <1>1, InContext
<1>3. a \in live /\ a \notin pool /\ \A q \in Requests : q # r => ctx[q] # a
  BY <1>1, <1>2, InContext
<1>4. PICK g \in Regions : FreshRegion(g) /\ Changed(a, Made(g, FALSE))
  BY <1>1, <1>2, ReopenEffect
<1>5. /\ alloc' \in [Allocators -> Fields]
      /\ alloc'[a].region = g /\ alloc'[a].used = 0 /\ ~alloc'[a].closed
      /\ \A b \in Allocators : b # a => alloc'[b] = alloc[b]
  BY <1>4 DEF Changed, Made
<1>6. /\ g \notin mapped /\ mapped' = mapped \cup {g}
      /\ mem' \in [Regions -> [1 .. Cells -> Requests \cup {Nil}]]
      /\ \A c \in 1 .. Cells : mem'[g][c] = Nil
      /\ \A h \in Regions : h # g => mem'[h] = mem[h]
  BY <1>4 DEF FreshRegion
<1>7. /\ slices' = slices /\ stage'[r] = "done" /\ ctx'[r] = Nil
      /\ \A q \in Requests : q # r => stage'[q] = stage[q] /\ ctx'[q] = ctx[q]
  BY <1>1 DEF PoolTypes
<1>8. PoolTypes'
  BY <1>1, <1>2, <1>3, <1>5, <1>6, <1>7 DEF PoolTypes
<1>9. Contexts'
  BY <1>7 DEF Contexts, Serving
<1>10. OneUser'
  BY <1>1, <1>2, <1>3, <1>7 DEF OneUser, Serving
<1>h. \A b \in Allocators : Holds(b)' <=> Holds(b)
  BY <1>1 DEF Holds
<1>11. RegionsHeld'
  BY <1>5, <1>6, <1>h DEF RegionsHeld
<1>12. \A q \in Requests : \A s \in slices[q] : s[1] \in mapped /\ s[1] # g /\ s[1] \in Regions
  BY <1>6 DEF SlicesIntact, PoolTypes
<1>13. SlicesIntact'
  BY <1>6, <1>7, <1>12 DEF SlicesIntact
<1>14. SlicesOwned'
  <2>1. \A q \in Requests : \A s \in slices'[q] : \A b \in Allocators :
          Holds(b)' /\ alloc'[b].region = s[1] => s[2] <= alloc'[b].used
    BY <1>5, <1>7, <1>12, <1>h DEF SlicesOwned
  <2> QED
    BY <1>1, <1>7, <2>1 DEF SlicesOwned
<1>15. PoolReady' /\ MappingOwned'
  <2>1. \A b \in pool : b \in Allocators /\ b # a
    BY <1>3 DEF PoolTypes
  <2> QED
    BY <1>1, <1>2, <1>5, <2>1 DEF PoolReady, MappingOwned
<1> QED
  BY <1>8, <1>9, <1>10, <1>11, <1>13, <1>14, <1>15

\* The cleanup of an unreachable allocator unmaps a region in which no request
\* has a slice; a closed one has no cleanup left.
LEMMA CollectStep ==
  ASSUME PoolInv, NEW a \in Allocators, Collect(a)
  PROVE  PoolInv'
<1> USE DEF PoolInv
<1>1. /\ a \in live /\ a \notin pool /\ live' = live \ {a}
      /\ \A r \in Requests : ctx[r] # a
      /\ alloc' = [alloc EXCEPT ![a] = NoAllocator]
      /\ UNCHANGED <<backend, mem, pool, stage, ctx, slices>>
  BY DEF Collect, Unreachable
<1>2. mapped' = IF alloc[a].cleanup /\ backend = "balloc" THEN mapped \ {alloc[a].region}
                ELSE mapped
  BY DEF Collect, munmap
<1>3. NoAllocator \in Fields
  BY PoolAssumption DEF NoAllocator, Fields
<1>4. /\ alloc' \in [Allocators -> Fields]
      /\ \A b \in Allocators : b # a => alloc'[b] = alloc[b]
  BY <1>1, <1>3 DEF PoolTypes
<1>5. PoolTypes'
  BY <1>1, <1>2, <1>4 DEF PoolTypes
<1>6. Contexts' /\ OneUser'
  BY <1>1 DEF Contexts, OneUser, Serving
<1>h. \A b \in Allocators : Holds(b)' <=> Holds(b) /\ b # a
  BY <1>1, <1>4 DEF Holds
<1>7. ASSUME NEW b \in Allocators, Holds(b), b # a
      PROVE  alloc[b].region \in mapped'
  <2>1. alloc[b].region \in mapped
    BY <1>7 DEF RegionsHeld
  <2>2. alloc[a].cleanup /\ backend = "balloc" => Holds(a)
    BY <1>1 DEF MappingOwned, Holds
  <2> QED
    BY <1>2, <1>7, <2>1, <2>2 DEF RegionsHeld
<1>8. RegionsHeld'
  BY <1>4, <1>7, <1>h DEF RegionsHeld
<1>9. MappingOwned'
  <2> SUFFICES ASSUME backend = "balloc" PROVE MappingOwned'
    BY <1>1 DEF MappingOwned
  <2>1. \A b \in live' : b \in Allocators /\ b \in live /\ b # a /\ alloc'[b] = alloc[b]
    BY <1>1, <1>4 DEF PoolTypes
  <2>2. {b \in live' : ~alloc'[b].closed} = {b \in live : ~alloc[b].closed} \ {a}
    BY <1>1, <2>1
  <2>3. {alloc'[b].region : b \in {b \in live' : ~alloc'[b].closed}}
          = {alloc[b].region : b \in {b \in live : ~alloc[b].closed} \ {a}}
    BY <1>1, <2>1, <2>2
  <2>4. alloc[a].cleanup <=> ~alloc[a].closed
    BY <1>1 DEF MappingOwned
  <2>5. CASE alloc[a].closed
    <3>1. {b \in live : ~alloc[b].closed} \ {a} = {b \in live : ~alloc[b].closed}
      BY <2>5
    <3>2. mapped' = mapped
      BY <1>2, <2>4, <2>5
    <3> QED
      BY <2>1, <2>3, <3>1, <3>2 DEF MappingOwned
  <2>6. CASE ~alloc[a].closed
    <3>1. {alloc[b].region : b \in {b \in live : ~alloc[b].closed} \ {a}}
            = {alloc[b].region : b \in {b \in live : ~alloc[b].closed}} \ {alloc[a].region}
      BY <1>1, <2>6 DEF MappingOwned
    <3>2. mapped' = mapped \ {alloc[a].region}
      BY <1>2, <2>4, <2>6
    <3> QED
      BY <2>1, <2>3, <3>1, <3>2 DEF MappingOwned
  <2> QED
    BY <2>5, <2>6
<1>10. SlicesIntact'
  <2>1. ASSUME NEW q \in Requests, NEW s \in slices[q] PROVE s[1] \in mapped'
    <3>1. CASE backend = "balloc"
      <4>1. Serving(q) /\ ~alloc[ctx[q]].closed /\ alloc[ctx[q]].region = s[1]
        BY <3>1 DEF SlicesOwned
      <4>2. ctx[q] \in Allocators /\ ctx[q] # a /\ Holds(ctx[q])
        BY <1>1, <4>1, InContext DEF Holds
      <4> QED
        BY <1>7, <4>1, <4>2
    <3>2. CASE backend # "balloc"
      BY <1>2, <3>2 DEF SlicesIntact
    <3> QED
      BY <3>1, <3>2
  <2> QED
    BY <1>1, <2>1 DEF SlicesIntact
<1>11. SlicesOwned'
  <2>1. \A q \in Requests : \A s \in slices[q] : \A b \in Allocators :
          Holds(b)' /\ alloc'[b].region = s[1] => s[2] <= alloc'[b].used
    BY <1>4, <1>h DEF SlicesOwned
  <2>2. backend = "balloc" => \A q \in Requests : \A s \in slices[q] :
          Serving(q) /\ ~alloc'[ctx[q]].closed /\ alloc'[ctx[q]].region = s[1]
    BY <1>1, <1>4, InContext DEF SlicesOwned
  <2> QED
    BY <1>1, <2>1, <2>2 DEF SlicesOwned, Serving
<1>12. PoolReady'
  BY <1>1, <1>4 DEF PoolReady, PoolTypes
<1> QED
  BY <1>5, <1>6, <1>8, <1>9, <1>10, <1>11, <1>12

\* The collector frees memory of an arena that no allocator and no slice has.
LEMMA SweepStep ==
  ASSUME PoolInv, NEW g \in Regions, Sweep(g)
  PROVE  PoolInv'
<1> USE DEF PoolInv
<1>1. /\ backend = "arena" /\ mapped' = mapped \ {g}
      /\ \A a \in live : alloc[a].region # g
      /\ \A r \in Requests : \A s \in slices[r] : s[1] # g
      /\ UNCHANGED <<backend, mem, live, alloc, pool, stage, ctx, slices>>
  BY DEF Sweep
<1>2. PoolTypes' /\ Contexts' /\ OneUser' /\ MappingOwned' /\ PoolReady'
  BY <1>1 DEF PoolTypes, Contexts, OneUser, MappingOwned, PoolReady, Serving
<1>3. RegionsHeld'
  BY <1>1 DEF RegionsHeld, Holds
<1>4. SlicesIntact' /\ SlicesOwned'
  BY <1>1 DEF SlicesIntact, SlicesOwned, Serving, Holds
<1> QED
  BY <1>2, <1>3, <1>4

\* At first there are no allocators.
LEMMA PoolInit == Init => PoolInv
<1> SUFFICES ASSUME Init PROVE PoolInv
  OBVIOUS
<1>1. NoAllocator \in Fields
  BY PoolAssumption DEF NoAllocator, Fields
<1>2. PoolTypes
  BY <1>1 DEF Init, PoolTypes
<1>3. Contexts /\ OneUser /\ PoolReady
  BY DEF Init, Contexts, OneUser, PoolReady, Serving
<1>4. RegionsHeld /\ MappingOwned
  BY <1>1 DEF Init, RegionsHeld, MappingOwned, Holds
<1>5. SlicesOwned /\ SlicesIntact
  BY DEF Init, SlicesOwned, SlicesIntact
<1> QED
  BY <1>2, <1>3, <1>4, <1>5 DEF PoolInv

\* The invariant is inductive.
LEMMA PoolInvariant == Spec => []PoolInv
<1>1. ASSUME PoolInv, [Next]_vars PROVE PoolInv'
  <2>1. ASSUME NEW r \in Requests,
               (\E a \in Allocators : GetPooled(r, a)) \/ factoryFails(r)
        PROVE  PoolInv'
    BY <1>1, <2>1, HandOverStep
  <2>2. ASSUME NEW r \in Requests, factory(r, "pooled") \/ factory(r, "factory")
        PROVE  PoolInv'
    BY <1>1, <2>2, FactoryStep
  <2>3. ASSUME NEW r \in Requests, Make(r) \/ MakeString(r) \/ MarshalJSON(r)
        PROVE  PoolInv'
    BY <1>1, <2>3, MakeStep
  <2>4. ASSUME NEW r \in Requests, NEW s \in slices[r], Write(r, s)
        PROVE  PoolInv'
    BY <1>1, <2>4, WriteStep
  <2>5. ASSUME NEW r \in Requests, HandlerCloses(r) \/ FinishFactory(r)
        PROVE  PoolInv'
    BY <1>1, <2>5, CloseStep
  <2>6. ASSUME NEW r \in Requests, FinishPooled(r)
        PROVE  PoolInv'
    <3>1. backend = "balloc" \/ backend = "arena"
      BY <1>1 DEF PoolInv, PoolTypes
    <3> QED
      BY <1>1, <2>6, <3>1, RewindStep, ReopenStep
  <2>7. ASSUME NEW a \in Allocators, PoolDrop(a) \/ Collect(a)
        PROVE  PoolInv'
    BY <1>1, <2>7, DropStep, CollectStep
  <2>8. ASSUME NEW g \in Regions, Sweep(g)
        PROVE  PoolInv'
    BY <1>1, <2>8, SweepStep
  <2>9. CASE UNCHANGED vars
    <3> USE DEF PoolInv, vars
    <3>1. PoolTypes' /\ Contexts' /\ OneUser' /\ MappingOwned' /\ PoolReady'
      BY <1>1, <2>9 DEF PoolTypes, Contexts, OneUser, MappingOwned, PoolReady, Serving
    <3>2. RegionsHeld'
      BY <1>1, <2>9 DEF RegionsHeld, Holds
    <3>3. SlicesIntact' /\ SlicesOwned'
      BY <1>1, <2>9 DEF SlicesIntact, SlicesOwned, Serving, Holds
    <3> QED
      BY <3>1, <3>2, <3>3
  <2> QED
    BY <1>1, <2>1, <2>2, <2>3, <2>4, <2>5, <2>6, <2>7, <2>8, <2>9 DEF Next
<1> QED
  BY <1>1, PoolInit, PTL DEF Spec

-------------------------------------------------------------------------------

\* Get, Put, the middlewares and the collector keep every allocator in one
\* place, however many requests are served.
THEOREM OneUserEach == Spec => []OneUser
<1>1. PoolInv => OneUser
  BY DEF PoolInv
<1> QED
  BY <1>1, PoolInvariant, PTL

\* No Reset, no Close, no munmapCleanup and no other request touches the memory
\* that a request relies on.
THEOREM SlicesStayIntact == Spec => []SlicesIntact
<1>1. PoolInv => SlicesIntact
  BY DEF PoolInv
<1> QED
  BY <1>1, PoolInvariant, PTL

\* A mapping of balloc is unmapped once, by Close or by munmapCleanup: there is
\* neither a leak nor a second munmap of a place that is mapped anew.
THEOREM MappingsOwned == Spec => []MappingOwned
<1>1. PoolInv => MappingOwned
  BY DEF PoolInv
<1> QED
  BY <1>1, PoolInvariant, PTL

\* What Put leaves in the pool is empty, or closed by its handler.
THEOREM PooledReady == Spec => []PoolReady
<1>1. PoolInv => PoolReady
  BY DEF PoolInv
<1> QED
  BY <1>1, PoolInvariant, PTL
===============================================================================
