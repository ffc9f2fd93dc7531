------------------------------- MODULE AllocPool -------------------------------
(***************************************************************************)
(* Requests and the allocators they get from package alloc: the pool and   *)
(* its factories (alloc/core.go), the two middlewares (alloc/http.go), the *)
(* helpers handlers call (alloc/generic.go, alloc/json.go), and the        *)
(* lifetime of the memory below them (New, Close and munmapCleanup of      *)
(* balloc/core.go; New and Close of arena/core.go).                        *)
(*                                                                         *)
(* An allocator hands out the cells of a region: the mapping of a balloc   *)
(* allocator, which Reset rewinds, or the heap memory of an arena, which   *)
(* Reset replaces.  A cell holds the request that wrote it last, or Nil    *)
(* when it is zero.  An allocator in a context is used by one goroutine,   *)
(* so a helper is one step.  Without an allocator in the context, and for  *)
(* nothing to allocate, helpers return heap memory that nobody else has;   *)
(* that changes nothing here.                                              *)
(*                                                                         *)
(* Handlers do not use slices of a balloc allocator after they closed it   *)
(* or after they returned; slices of an arena are Go pointers and may be   *)
(* used for good.                                                          *)
(*                                                                         *)
(* GetPooledKeeps, MunmapOnly, ReopenNever and GrantedClosed are faulty    *)
(* variants of the operators they precede.                                 *)
(***************************************************************************)
EXTENDS Integers, FiniteSets

CONSTANTS
  Requests,    \* requests, each served once
  Allocators,  \* allocators that can exist at a time
  Regions,     \* places in memory for their regions
  Cells,       \* cells of a region; for an arena, a bound of the model
  Nil          \* no allocator, no region, a zero cell

ASSUME PoolAssumption ==
  Cells \in Nat \ {0} /\ Nil \notin Requests \cup Allocators \cup Regions

VARIABLES
  backend,     \* what the factory makes: "balloc" or "arena"
  mapped,      \* the regions that are mapped
  mem,         \* region -> cell -> who wrote it last
  live,        \* the allocators that exist
  alloc,       \* allocator -> its fields
  pool,        \* the allocators in the sync.Pool
  stage,       \* request -> how it is served
  ctx,         \* request -> the allocator in its context
  slices       \* history: request -> <<region, cell, content>> it may rely on

vars == <<backend, mapped, mem, live, alloc, pool, stage, ctx, slices>>

\* cleanup: munmapCleanup is registered and not stopped.
NoAllocator ==
  [region |-> Nil, used |-> 0, closed |-> FALSE, cleanup |-> FALSE]

Init ==
  /\ backend \in {"balloc", "arena"}
  /\ mapped = {}
  /\ mem = [g \in Regions |-> [c \in 1 .. Cells |-> Nil]]
  /\ live = {}
  /\ alloc = [a \in Allocators |-> NoAllocator]
  /\ pool = {}
  /\ stage = [r \in Requests |-> "new"]
  /\ ctx = [r \in Requests |-> Nil]
  /\ slices = [r \in Requests |-> {}]

Serving(r) == stage[r] \in {"pooled", "factory"}

\* Nothing that a goroutine can reach refers to allocator a.
Unreachable(a) == a \notin pool /\ \A r \in Requests : ctx[r] # a

-------------------------------------------------------------------------------
(* Memory.  A new region, mapped by balloc or made by the Go heap, is zero *)
(* and may lie where an old one was.                                       *)

newRegion == CHOOSE g \in Regions : g \notin mapped
mmap ==
  /\ mapped' = mapped \cup {newRegion}
  /\ mem' = [mem EXCEPT ![newRegion] = [c \in 1 .. Cells |-> Nil]]

\* What Close and munmapCleanup do to a mapping.  The mapping of a closed
\* arena stays, for the Go heap frees it when no slice refers to it.
munmap(a) ==
  mapped' = IF backend = "balloc" THEN mapped \ {alloc[a].region} ELSE mapped

\* The garbage collector frees what an arena has let go.
Sweep(g) ==
  /\ backend = "arena" /\ g \in mapped
  /\ \A a \in live : alloc[a].region # g
  /\ \A r \in Requests : \A s \in slices[r] : s[1] # g
  /\ mapped' = mapped \ {g}
  /\ UNCHANGED <<backend, mem, live, alloc, pool, stage, ctx, slices>>

\* The collector finds an allocator unreachable and runs its cleanup.
Collect(a) ==
  /\ a \in live /\ Unreachable(a)
  /\ live' = live \ {a}
  /\ IF alloc[a].cleanup THEN munmap(a) ELSE UNCHANGED mapped
  /\ alloc' = [alloc EXCEPT ![a] = NoAllocator]
  /\ UNCHANGED <<backend, mem, pool, stage, ctx, slices>>

-------------------------------------------------------------------------------
(* Getting an allocator, and giving it back.                               *)

Inject(r, a, how) ==
  /\ stage' = [stage EXCEPT ![r] = how]
  /\ ctx' = [ctx EXCEPT ![r] = a]

GetPooledKeeps(r, a) ==
  /\ stage[r] = "new" /\ a \in pool
  /\ Inject(r, a, "pooled")
  /\ UNCHANGED <<backend, mapped, mem, live, alloc, pool, slices>>
GetPooled(r, a) ==
  /\ stage[r] = "new" /\ a \in pool
  /\ pool' = pool \ {a}
  /\ Inject(r, a, "pooled")
  /\ UNCHANGED <<backend, mapped, mem, live, alloc, slices>>

\* The factory, called by Get when the pool has nothing to give, or for each
\* request by MiddlewareFactory.
factory(r, how) ==
  LET a == CHOOSE b \in Allocators : b \notin live
  IN /\ stage[r] = "new" /\ live # Allocators /\ mapped # Regions
     /\ mmap
     /\ live' = live \cup {a}
     /\ alloc' = [alloc EXCEPT ![a] = [NoAllocator EXCEPT !.region = newRegion,
                                         !.cleanup = (backend = "balloc")]]
     /\ Inject(r, a, how)
     /\ UNCHANGED <<backend, pool, slices>>

\* mmap fails: the error is answered with status 500, and never pooled.
factoryFails(r) ==
  /\ stage[r] = "new" /\ backend = "balloc"
  /\ stage' = [stage EXCEPT ![r] = "done"]
  /\ UNCHANGED <<backend, mapped, mem, live, alloc, pool, ctx, slices>>

\* sync.Pool may drop what it holds.
PoolDrop(a) ==
  /\ a \in pool
  /\ pool' = pool \ {a}
  /\ UNCHANGED <<backend, mapped, mem, live, alloc, stage, ctx, slices>>

\* The memory is unmapped, the cleanup still registered.
MunmapOnly(a) ==
  /\ IF alloc[a].closed THEN UNCHANGED mapped ELSE munmap(a)
  /\ alloc' = [alloc EXCEPT ![a].closed = TRUE]
\* Close, of which a second call has no effect.
Close(a) ==
  /\ IF alloc[a].closed THEN UNCHANGED mapped ELSE munmap(a)
  /\ alloc' = [alloc EXCEPT ![a].closed = TRUE, ![a].cleanup = FALSE]

\* What request r may still rely on when its allocator is closed or reset.
Release(r) ==
  slices' = [slices EXCEPT ![r] = IF backend = "arena" THEN @ ELSE {}]

\* BlockAllocator.Reset: ErrClosed, without effect, for a closed allocator.
Rewind(a) ==
  /\ alloc' = IF alloc[a].closed THEN alloc
              ELSE [alloc EXCEPT ![a].used = 0]
  /\ UNCHANGED <<mapped, mem>>

\* arenaWrapper.Reset: close the arena and open another.
ReopenNever(a) ==
  alloc' = [alloc EXCEPT ![a].closed = TRUE] /\ UNCHANGED <<mapped, mem>>
Reopen(a) ==
  /\ mapped # Regions
  /\ mmap
  /\ alloc' = [alloc EXCEPT ![a] = [NoAllocator EXCEPT !.region = newRegion]]

\* Whatever Reset answers, the allocator goes to the pool.
Put(a) ==
  /\ IF backend = "balloc" THEN Rewind(a) ELSE Reopen(a)
  /\ pool' = pool \cup {a}

\* The handler returns or panics, and the deferred Put runs.
FinishPooled(r) ==
  /\ stage[r] = "pooled"
  /\ Put(ctx[r])
  /\ Inject(r, Nil, "done")
  /\ Release(r)
  /\ UNCHANGED <<backend, live>>

\* The same for MiddlewareFactory, with its deferred Close.
FinishFactory(r) ==
  /\ stage[r] = "factory"
  /\ Close(ctx[r])
  /\ Inject(r, Nil, "done")
  /\ Release(r)
  /\ UNCHANGED <<backend, mem, live, pool>>

-------------------------------------------------------------------------------
(* What handlers do.                                                       *)

\* Cells that Alloc grants, of k asked for one after the other; it refuses
\* when it is closed and when it has no cell left.
GrantedClosed(a, k) == {c \in alloc[a].used + 1 .. alloc[a].used + k : c <= Cells}
Granted(a, k) ==
  IF alloc[a].closed THEN {}
  ELSE {c \in alloc[a].used + 1 .. alloc[a].used + k : c <= Cells}

\* Request r takes cells, which now hold held[c].
Take(r, a, cells, held) ==
  /\ alloc' = [alloc EXCEPT ![a].used = @ + Cardinality(cells)]
  /\ slices' = [slices EXCEPT ![r] =
                  @ \cup {<<alloc[a].region, c, held[c]>> : c \in cells}]

\* New, MakeSlice and MakeBytes: the memory as it is.
Make(r) ==
  LET a == ctx[r]
      g == alloc[a].region
  IN /\ Serving(r) /\ Granted(a, 1) # {}
     /\ Take(r, a, Granted(a, 1), mem[g])
     /\ UNCHANGED <<backend, mapped, mem, live, pool, stage, ctx>>

\* Up to k slices, filled by the helper.
MakeFilled(r, k) ==
  LET a == ctx[r]
      g == alloc[a].region
  IN /\ Serving(r) /\ Granted(a, k) # {}
     /\ mem' = [mem EXCEPT ![g] =
                  [c \in 1 .. Cells |-> IF c \in Granted(a, k) THEN r ELSE @[c]]]
     /\ Take(r, a, Granted(a, k), mem'[g])
     /\ UNCHANGED <<backend, mapped, live, pool, stage, ctx>>

\* A slice and a copy of the caller's bytes.
MakeString(r) == MakeFilled(r, 1)

\* The buffer that the value is encoded into (Encode writes once), then a slice
\* to return, which is on the Go heap if the allocator refuses it.
MarshalJSON(r) == MakeFilled(r, 2)

\* The handler writes to a slice it may use.
Write(r, s) ==
  /\ Serving(r) /\ s \in slices[r] /\ s[3] # r
  /\ mem' = [mem EXCEPT ![s[1]][s[2]] = r]
  /\ slices' = [slices EXCEPT ![r] = (@ \ {s}) \cup {<<s[1], s[2], r>>}]
  /\ UNCHANGED <<backend, mapped, live, alloc, pool, stage, ctx>>

\* The handler closes the allocator of its context itself.
HandlerCloses(r) ==
  /\ Serving(r) /\ ~alloc[ctx[r]].closed
  /\ Close(ctx[r])
  /\ Release(r)
  /\ UNCHANGED <<backend, mem, live, pool, stage, ctx>>

-------------------------------------------------------------------------------

Next ==
  \/ \E r \in Requests :
       \/ \E a \in Allocators : GetPooled(r, a)
       \/ factory(r, "pooled") \/ factory(r, "factory") \/ factoryFails(r)
       \/ Make(r) \/ MakeString(r) \/ MarshalJSON(r)
       \/ \E s \in slices[r] : Write(r, s)
       \/ HandlerCloses(r) \/ FinishPooled(r) \/ FinishFactory(r)
  \/ \E a \in Allocators : PoolDrop(a) \/ Collect(a)
  \/ \E g \in Regions : Sweep(g)

Spec == Init /\ [][Next]_vars

-------------------------------------------------------------------------------

\* An allocator is in one place: the context of one request or the pool.  Pool
\* and contexts refer to allocators that exist.
OneUser ==
  \A r \in Requests : Serving(r) =>
    /\ ctx[r] \in live \ pool
    /\ \A q \in Requests : Serving(q) /\ ctx[q] = ctx[r] => q = r

\* What a request may rely on stays as it was: no other request, no Reset, no
\* Close of another allocator and no late munmapCleanup touches it.  For an
\* arena this goes on after the request; for balloc the slices that MakeBytes
\* and MarshalJSON returned end with it, although docs/api-reference/alloc.md
\* calls the latter a "stable Go-heap copy".
SlicesIntact ==
  \A r \in Requests : \A s \in slices[r] :
    s[1] \in mapped /\ mem[s[1]][s[2]] = s[3]

\* A mapping has one owner that will unmap it once: it is mapped as long as an
\* allocator that was not closed exists, in use, pooled or awaiting its
\* cleanup, and no longer.
MappingOwned ==
  backend = "balloc" =>
    /\ mapped = {alloc[a].region : a \in {b \in live : ~alloc[b].closed}}
    /\ \A a \in live : alloc[a].cleanup <=> ~alloc[a].closed
    /\ \A a, b \in live :
         ~alloc[a].closed /\ ~alloc[b].closed /\ alloc[a].region = alloc[b].region => a = b

\* An allocator in the pool is ready for the next request: open and empty.
\* Only a balloc allocator that a handler has closed is not; Put ignores its
\* ErrClosed, and it refuses every request it is given to.
PoolReady ==
  \A a \in pool :
    /\ alloc[a].closed => backend = "balloc"
    /\ ~alloc[a].closed => alloc[a].used = 0
===============================================================================
