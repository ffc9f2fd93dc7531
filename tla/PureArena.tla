------------------------------- MODULE PureArena -------------------------------
(***************************************************************************)
(* Package pure: the bump arena (pure/arena.go), the sync.Pool of arenas   *)
(* and the HTTP middlewares that give each request one (pure/http.go).     *)
(* smallArena.alloc of alloc/hybrid.go and Arena.Alloc of secure/arena.go  *)
(* are the same algorithm; Hybrid and Secure model them where they are.    *)
(*                                                                         *)
(* Alloc touches shared state once, with an atomic add of an int64 that    *)
(* wraps; the rest is local, so one step per Alloc covers all              *)
(* interleavings of the goroutines of a handler.                           *)
(*                                                                         *)
(* PutUnreset and FinishPooledEarly are faulty variants of the operators   *)
(* they precede, for which a property below fails.                         *)
(***************************************************************************)
EXTENDS Integers, FiniteSets

CONSTANTS
  Requests,     \* HTTP requests
  Arenas,       \* arenas that can exist at a time
  Sizes,        \* sizes handlers pass to Alloc
  Capacity,     \* the capacity the pool was made for
  IntMax,       \* largest int64
  NoArena       \* no arena in the context

ASSUME WidthAssumption == IntMax \in Nat

\* The int64 values.
Ints == (-IntMax - 1) .. IntMax

ASSUME ArenaAssumption ==
  Sizes \subseteq Ints /\ Capacity \in Ints /\ NoArena \notin Arenas

\* New: len(buf).
slabLen == IF Capacity < 0 THEN 0 ELSE Capacity

\* int64 addition.
Wrap(x) == IF x > IntMax THEN x - 2 * (IntMax + 1) ELSE x

VARIABLES
  off,          \* arena -> bump offset
  pool,         \* arenas in the sync.Pool
  arena,        \* request -> the arena in its context, or NoArena
  via,          \* request -> the middleware that serves it: "pool" or "factory"
  status,       \* request -> "idle", "serving" or "unwinding"
  grants        \* request -> slices it was given, as [lo, hi) of its arena

vars == <<off, pool, arena, via, status, grants>>

Init ==
  /\ off = [a \in Arenas |-> 0]
  /\ pool = {}
  /\ arena = [r \in Requests |-> NoArena]
  /\ via = [r \in Requests |-> "pool"]
  /\ status = [r \in Requests |-> "idle"]
  /\ grants = [r \in Requests |-> {}]

\* The arenas of requests; an arena neither there nor in the pool is garbage,
\* and its place is free for a new one.
InUse == {arena[r] : r \in Requests} \ {NoArena}

\* The handler of r starts with arena a in its context.
Serve(r, a, middleware) ==
  /\ status[r] = "idle"
  /\ arena' = [arena EXCEPT ![r] = a]
  /\ via' = [via EXCEPT ![r] = middleware]
  /\ status' = [status EXCEPT ![r] = "serving"]
  /\ UNCHANGED grants

\* The handler of r has returned or panicked; its slices are not used again.
Done(r) ==
  /\ arena' = [arena EXCEPT ![r] = NoArena]
  /\ status' = [status EXCEPT ![r] = "idle"]
  /\ grants' = [grants EXCEPT ![r] = {}]
  /\ UNCHANGED via

-------------------------------------------------------------------------------

\* Middleware: Pool.Get finds an arena in the pool.
GetPooled(r, a) ==
  /\ a \in pool
  /\ pool' = pool \ {a}
  /\ Serve(r, a, "pool")
  /\ UNCHANGED off

\* Middleware: Pool.Get finds none and makes one (sync.Pool is per P: it may
\* miss even when the pool has one).  MiddlewareFactory always makes one.
MakeArena(r, a, middleware) ==
  /\ a \in Arenas \ (pool \cup InUse)
  /\ off' = [off EXCEPT ![a] = 0]
  /\ Serve(r, a, middleware)
  /\ UNCHANGED pool

\* The garbage collector empties the pool.
PoolDrop(a) ==
  /\ a \in pool
  /\ pool' = pool \ {a}
  /\ UNCHANGED <<off, arena, via, status, grants>>

\* Alloc of a negative size (ErrInvalidSize) or of zero bytes (an empty
\* slice) has no effect.
Reserve(r, n) ==
  /\ status[r] = "serving" /\ n > 0
  /\ off' = [off EXCEPT ![arena[r]] = Wrap(@ + n)]
  /\ UNCHANGED <<pool, arena, via>>

Slice(curr, next) == <<curr, next>>

AllocGrant(r, n) ==
  LET curr == off[arena[r]]
      next == Wrap(curr + n)
  IN /\ Reserve(r, n)
     /\ next <= slabLen
     /\ 0 <= curr /\ curr <= next
     /\ grants' = [grants EXCEPT ![r] = @ \cup {Slice(curr, next)}]
     /\ UNCHANGED status

\* ErrOutOfMemory; the offset has moved all the same.
AllocExhausted(r, n) ==
  /\ Reserve(r, n)
  /\ Wrap(off[arena[r]] + n) > slabLen
  /\ UNCHANGED <<status, grants>>

\* The sum wrapped: the slice expression panics and the handler unwinds.
AllocPanic(r, n) ==
  LET curr == off[arena[r]]
      next == Wrap(curr + n)
  IN /\ Reserve(r, n)
     /\ next <= slabLen
     /\ ~(0 <= curr /\ curr <= next)
     /\ status' = [status EXCEPT ![r] = "unwinding"]
     /\ UNCHANGED grants

\* Pool.Put: Reset, then back to the pool.
PutUnreset(r) ==
  /\ pool' = pool \cup {arena[r]}
  /\ UNCHANGED off
Put(r) ==
  /\ off' = [off EXCEPT ![arena[r]] = 0]
  /\ pool' = pool \cup {arena[r]}

\* The handler of Middleware returns or panics: the deferred Put runs.
FinishPooledEarly(r) ==
  /\ status[r] # "idle" /\ via[r] = "pool"
  /\ Put(r)
  /\ UNCHANGED <<arena, via, status, grants>>
FinishPooled(r) ==
  /\ status[r] # "idle" /\ via[r] = "pool"
  /\ Put(r)
  /\ Done(r)

\* The handler of MiddlewareFactory returns or panics: the arena is garbage.
FinishFresh(r) ==
  /\ status[r] # "idle" /\ via[r] = "factory"
  /\ Done(r)
  /\ UNCHANGED <<off, pool>>

Next ==
  \/ \E r \in Requests :
       \/ \E a \in Arenas :
            GetPooled(r, a) \/ MakeArena(r, a, "pool") \/ MakeArena(r, a, "factory")
       \/ \E n \in Sizes : AllocGrant(r, n) \/ AllocExhausted(r, n) \/ AllocPanic(r, n)
       \/ FinishPooled(r) \/ FinishFresh(r)
  \/ \E a \in Arenas : PoolDrop(a)

Spec == Init /\ [][Next]_vars

-------------------------------------------------------------------------------

\* Offsets stay int64 values, contexts hold arenas, slices are intervals.
TypeOK ==
  /\ off \in [Arenas -> Ints]
  /\ pool \subseteq Arenas
  /\ arena \in [Requests -> Arenas \cup {NoArena}]
  /\ via \in [Requests -> {"pool", "factory"}]
  /\ status \in [Requests -> {"idle", "serving", "unwinding"}]
  /\ grants \in [Requests -> SUBSET (Ints \X Ints)]

\* Slices that handlers may still use lie in their slab and never overlap, in
\* one request or between two: not when requests are recycled through the
\* pool, and not when the offset wraps, which panics before it can hand out
\* memory twice.
GrantsDisjoint ==
  \A r, q \in Requests : \A g \in grants[r], h \in grants[q] :
    /\ 0 <= g[1] /\ g[1] < g[2] /\ g[2] <= slabLen
    /\ arena[r] = arena[q] =>
         (r = q /\ g = h) \/ g[2] <= h[1] \/ h[2] <= g[1]

\* An arena in the pool is in no request's context and offers its whole slab.
PoolClean == \A a \in pool : a \notin InUse /\ off[a] = 0

-------------------------------------------------------------------------------
(* The inductive invariant behind GrantsDisjoint and PoolClean.            *)

\* An arena is in one place: one request's context or the pool.
ArenasExclusive ==
  /\ \A r \in Requests : status[r] = "idle" <=> arena[r] = NoArena
  /\ \A r, q \in Requests : r # q /\ arena[r] # NoArena => arena[r] # arena[q]
  /\ \A r \in Requests : arena[r] \notin pool
  /\ \A a \in pool : off[a] = 0

\* The slices of a handler lie below its offset until the offset wraps.
GrantsBelow ==
  \A r \in Requests :
    /\ status[r] = "idle" => grants[r] = {}
    /\ status[r] = "serving" =>
         0 <= off[arena[r]] /\ \A g \in grants[r] : g[2] <= off[arena[r]]
    /\ \A g, h \in grants[r] :
         /\ 0 <= g[1] /\ g[1] < g[2] /\ g[2] <= slabLen
         /\ g = h \/ g[2] <= h[1] \/ h[2] <= g[1]

ArenaInv == TypeOK /\ ArenasExclusive /\ GrantsBelow
===============================================================================
