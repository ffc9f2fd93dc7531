-------------------------------- MODULE Hybrid --------------------------------
(***************************************************************************)
(* The hybrid allocator of package alloc (alloc/hybrid.go): small requests *)
(* are bumped out of the slabs of a shard, large ones go to balloc (module *)
(* Balloc), of which only the answer, granted or refused, matters here.    *)
(*                                                                         *)
(* A shard keeps its slabs in a slice.  The fast path of allocSmall ranges *)
(* over it without the mutex while the slow path appends to it, so the     *)
(* slice header and its backing array are modelled word by word: the       *)
(* reader loads pointer and length in either order; the writer stores the  *)
(* pointer, if the array grows, then the length, then the element, which   *)
(* is the order the compiler gives s = append(s, x).  A read of a nil      *)
(* element panics; a read beyond the array is wild.                        *)
(*                                                                         *)
(* Reset and Close are called while no Alloc runs (Pool.Put and the        *)
(* deferred Close of the middlewares), and end the use of every slice.     *)
(* After the first of them the model may keep the goroutines of a shard    *)
(* apart: that their calls overlap is what the list does not survive.      *)
(*                                                                         *)
(* FitsStart, LockUnheld, FetchUnlocked, OwnFailLocked and ResetKeepsList  *)
(* are faulty variants of the operators they precede, for which a property *)
(* fails.                                                                  *)
(***************************************************************************)
EXTENDS Integers, FiniteSets

CONSTANTS
  Threads,         \* goroutines
  Shards,          \* shards
  shardsOf,        \* goroutine -> shards it uses: threadID % smallShards
  Slabs,           \* slabs that can exist
  smallSlabSize,   \* bytes of a slab
  smallThreshold,  \* largest small request
  Sizes,           \* sizes asked for
  Nil,             \* no slab, no goroutine
  SharedAfterReset,  \* whether calls on a shard overlap after a Reset
  MaxCalls,        \* bound of the model: Allocs in all
  MaxResets        \* bound of the model: Resets and Closes in all

ASSUME HybridAssumption ==
  /\ shardsOf \in [Threads -> SUBSET Shards]
  /\ SharedAfterReset \in BOOLEAN
  /\ Nil \notin Slabs \cup Threads \cup Shards
  /\ smallSlabSize \in Nat /\ smallThreshold \in 0 .. smallSlabSize
  /\ Sizes \subseteq Nat /\ MaxCalls \in Nat /\ MaxResets \in Nat

VARIABLES
  array,           \* shard -> capacity -> index -> slab: the backing arrays
  ptr,             \* shard -> array of s.small, named by its capacity
  len,             \* shard -> length of s.small
  pool,            \* shard -> slabs in its sync.Pool
  mu,              \* shard -> goroutine that holds its mutex, or Nil
  off,             \* slab -> bump offset
  pc, loc,         \* goroutine -> its next step, and the locals of its call
  grants,          \* history: goroutine -> the <<slab, lo, hi>> it was given
  calls, resets    \* history: counters for the bounds

vars == <<array, ptr, len, pool, mu, off, pc, loc, grants, calls, resets>>

Unread == -1
NoLocals == [shard |-> Nil, size |-> 0, ptr |-> Unread, len |-> Unread, i |-> 1, slab |-> Nil]

\* append doubles the capacity of a slice of pointers; arrays are named by
\* their capacity because it only grows.  A call appends at most once, so none
\* that MaxCalls calls need is left out.
grownCap(c) == IF c = 0 THEN 1 ELSE 2 * c
Capacities ==
  {0} \cup {c \in 1 .. 2 * MaxCalls - 1 : \E k \in 0 .. MaxCalls : c = 2 ^ k}

Init ==
  /\ array = [s \in Shards |-> [c \in Capacities |-> [i \in 1 .. c |-> Nil]]]
  /\ ptr = [s \in Shards |-> 0]
  /\ len = [s \in Shards |-> 0]
  /\ pool = [s \in Shards |-> {}]
  /\ mu = [s \in Shards |-> Nil]
  /\ off = [a \in Slabs |-> 0]
  /\ pc = [t \in Threads |-> "idle"]
  /\ loc = [t \in Threads |-> NoLocals]
  /\ grants = [t \in Threads |-> {}]
  /\ calls = 0 /\ resets = 0

Goto(t, label) == pc' = [pc EXCEPT ![t] = label]

Return(t) == Goto(t, "idle") /\ loc' = [loc EXCEPT ![t] = NoLocals]

Quiescent == \A t \in Threads : pc[t] \in {"idle", "panic"}

\* The elements of s.small.
small(s) == {array[s][ptr[s]][i] : i \in 1 .. len[s]}

-------------------------------------------------------------------------------

Alone(s) == \A t \in Threads : loc[t].shard # s

AllocCall(t, s, n) ==
  /\ pc[t] = "idle" /\ calls < MaxCalls
  /\ resets = 0 \/ SharedAfterReset \/ Alone(s)
  /\ calls' = calls + 1
  /\ loc' = [loc EXCEPT ![t].shard = s, ![t].size = n]
  /\ Goto(t, IF n <= smallThreshold THEN "fast" ELSE "large")
  /\ UNCHANGED <<array, ptr, len, pool, mu, off, grants, resets>>

\* The fast path reads the slice header without the mutex.
LoadPtr(t) ==
  /\ pc[t] = "fast" /\ loc[t].ptr = Unread
  /\ loc' = [loc EXCEPT ![t].ptr = ptr[loc[t].shard]]
  /\ UNCHANGED <<array, ptr, len, pool, mu, off, pc, grants, calls, resets>>

LoadLen(t) ==
  /\ pc[t] = "fast" /\ loc[t].len = Unread
  /\ loc' = [loc EXCEPT ![t].len = len[loc[t].shard]]
  /\ UNCHANGED <<array, ptr, len, pool, mu, off, pc, grants, calls, resets>>

\* Goroutine t has slabs of the header it read left to try.
Scanning(t) ==
  /\ pc[t] \in {"fast", "slow"}
  /\ loc[t].ptr # Unread /\ loc[t].len # Unread /\ loc[t].i <= loc[t].len

\* The element t reads next, if it lies in the array.
InArray(t) == Scanning(t) /\ loc[t].i <= loc[t].ptr
Element(t) == array[loc[t].shard][loc[t].ptr][loc[t].i]

\* The deferred Unlock, for a goroutine on the slow path.
Unlock(t) ==
  mu' = [mu EXCEPT ![loc[t].shard] = IF @ = t THEN Nil ELSE @]

\* smallArena.alloc: the offset moves whether or not n bytes fit.
FitsStart(a, n) == off[a] <= smallSlabSize
Fits(a, n) == off[a] + n <= smallSlabSize
Reserve(a, n) == off' = [off EXCEPT ![a] = @ + n]
Grant(t, a, n) ==
  grants' = [grants EXCEPT ![t] = @ \cup {<<a, off[a], off[a] + n>>}]

TryGrant(t) ==
  LET a == Element(t)
      n == loc[t].size
  IN /\ InArray(t) /\ n > 0 /\ a # Nil
     /\ Fits(a, n)
     /\ Reserve(a, n) /\ Grant(t, a, n)
     /\ Unlock(t) /\ Return(t)
     /\ UNCHANGED <<array, ptr, len, pool, calls, resets>>

TryNext(t) ==
  LET a == Element(t)
      n == loc[t].size
  IN /\ InArray(t) /\ n > 0 /\ a # Nil
     /\ ~Fits(a, n)
     /\ Reserve(a, n)
     /\ loc' = [loc EXCEPT ![t].i = @ + 1]
     /\ UNCHANGED <<array, ptr, len, pool, mu, pc, grants, calls, resets>>

\* alloc(0) succeeds, with address 0, before it looks at the slab.
TryZero(t) ==
  /\ InArray(t) /\ loc[t].size = 0
  /\ Unlock(t) /\ Return(t)
  /\ UNCHANGED <<array, ptr, len, pool, off, grants, calls, resets>>

\* The element, or the array, is nil.
TryNil(t) ==
  /\ \/ InArray(t) /\ loc[t].size > 0 /\ Element(t) = Nil
     \/ Scanning(t) /\ loc[t].ptr = 0
  /\ Goto(t, "panic") /\ Unlock(t)
  /\ loc' = [loc EXCEPT ![t] = NoLocals]
  /\ UNCHANGED <<array, ptr, len, pool, off, grants, calls, resets>>

TryWild(t) ==
  /\ Scanning(t) /\ loc[t].ptr # 0 /\ loc[t].i > loc[t].ptr
  /\ Goto(t, "wild")
  /\ UNCHANGED <<array, ptr, len, pool, mu, off, loc, grants, calls, resets>>

\* Goroutine t has tried all slabs of the header it read.
Scanned(t, label) ==
  /\ pc[t] = label
  /\ loc[t].ptr # Unread /\ loc[t].len # Unread /\ loc[t].i > loc[t].len

\* allocSmall takes the mutex and scans s.small again.
EnterSlow(t) ==
  LET s == loc[t].shard
  IN /\ Scanned(t, "fast")
     /\ mu' = [mu EXCEPT ![s] = t]
     /\ loc' = [loc EXCEPT ![t] = [NoLocals EXCEPT !.shard = s, !.size = loc[t].size,
                                     !.ptr = ptr[s], !.len = len[s]]]
     /\ Goto(t, "slow")
     /\ UNCHANGED <<array, ptr, len, pool, off, grants, calls, resets>>

LockUnheld(t) == EnterSlow(t)
Lock(t) == Scanned(t, "fast") /\ mu[loc[t].shard] = Nil /\ EnterSlow(t)

-------------------------------------------------------------------------------
(* The rest of the slow path, under the mutex.                             *)

\* A slab nothing refers to: it may be the memory of a new one.  Which of
\* them it is does not matter.
Unused(a) ==
  /\ \A s \in Shards : a \notin pool[s]
  /\ \A s \in Shards, c \in Capacities : \A i \in 1 .. c : array[s][c][i] # a
  /\ \A t \in Threads : loc[t].slab # a /\ \A g \in grants[t] : g[1] # a

NewSlab == CHOOSE a \in Slabs : Unused(a)

\* pool.Get, which may miss (the garbage collector empties pools) and make a
\* slab, then reset.  The first form gives the mutex back before the append.
FetchUnlocked(t, a) ==
  LET s == loc[t].shard
  IN /\ Scanned(t, "slow")
     /\ a \in pool[s] \/ (Unused(a) /\ a = NewSlab)
     /\ pool' = [pool EXCEPT ![s] = @ \ {a}]
     /\ off' = [off EXCEPT ![a] = 0]
     /\ loc' = [loc EXCEPT ![t].slab = a]
     /\ Goto(t, "appendPtr") /\ Unlock(t)
     /\ UNCHANGED <<array, ptr, len, grants, calls, resets>>
Fetch(t, a) ==
  LET s == loc[t].shard
  IN /\ Scanned(t, "slow")
     /\ a \in pool[s] \/ (Unused(a) /\ a = NewSlab)
     /\ pool' = [pool EXCEPT ![s] = @ \ {a}]
     /\ off' = [off EXCEPT ![a] = 0]
     /\ loc' = [loc EXCEPT ![t].slab = a]
     /\ Goto(t, "appendPtr")
     /\ UNCHANGED <<array, ptr, len, mu, grants, calls, resets>>

\* append, if the array is full: growslice copies it and the pointer moves.
appendPtr(t) ==
  LET s == loc[t].shard
      c == grownCap(ptr[s])
      old == array[s][ptr[s]]
  IN /\ pc[t] = "appendPtr"
     /\ IF len[s] < ptr[s]
        THEN UNCHANGED <<array, ptr>>
        ELSE /\ c \in Capacities
             /\ array' = [array EXCEPT ![s][c] =
                            [i \in 1 .. c |-> IF i <= len[s] THEN old[i] ELSE Nil]]
             /\ ptr' = [ptr EXCEPT ![s] = c]
     /\ Goto(t, "appendLen")
     /\ UNCHANGED <<len, pool, mu, off, loc, grants, calls, resets>>

appendLen(t) ==
  /\ pc[t] = "appendLen"
  /\ len' = [len EXCEPT ![loc[t].shard] = loc[t].len + 1]
  /\ Goto(t, "appendElem")
  /\ UNCHANGED <<array, ptr, pool, mu, off, loc, grants, calls, resets>>

appendElem(t) ==
  LET s == loc[t].shard
  IN /\ pc[t] = "appendElem"
     /\ array' = [array EXCEPT ![s][ptr[s]][loc[t].len + 1] = loc[t].slab]
     /\ Goto(t, "own")
     /\ UNCHANGED <<ptr, len, pool, mu, off, loc, grants, calls, resets>>

\* The last alloc: the slab is in the list, and others may have used it up.
OwnGrant(t) ==
  LET a == loc[t].slab
      n == loc[t].size
  IN /\ pc[t] = "own"
     /\ Fits(a, n) \/ n = 0
     /\ IF n = 0 THEN UNCHANGED <<off, grants>> ELSE Reserve(a, n) /\ Grant(t, a, n)
     /\ Unlock(t) /\ Return(t)
     /\ UNCHANGED <<array, ptr, len, pool, calls, resets>>

OwnFailLocked(t) ==
  /\ pc[t] = "own"
  /\ loc[t].size > 0 /\ ~Fits(loc[t].slab, loc[t].size)
  /\ Reserve(loc[t].slab, loc[t].size)
  /\ Goto(t, "large")
  /\ UNCHANGED <<array, ptr, len, pool, mu, loc, grants, calls, resets>>
OwnFail(t) ==
  /\ pc[t] = "own"
  /\ loc[t].size > 0 /\ ~Fits(loc[t].slab, loc[t].size)
  /\ Reserve(loc[t].slab, loc[t].size)
  /\ Goto(t, "large") /\ Unlock(t)
  /\ UNCHANGED <<array, ptr, len, pool, loc, grants, calls, resets>>

\* balloc answers, with a block of its own or with an error.
Large(t) ==
  /\ pc[t] = "large"
  /\ Return(t)
  /\ UNCHANGED <<array, ptr, len, pool, mu, off, grants, calls, resets>>

-------------------------------------------------------------------------------

\* The slabs of all shards go back to their pools; the slices keep their
\* arrays and what is in them.  A goroutine that panicked was recovered.
Recycle ==
  /\ Quiescent /\ resets < MaxResets
  /\ pool' = [s \in Shards |-> pool[s] \cup small(s)]
  /\ grants' = [t \in Threads |-> {}]
  /\ resets' = resets + 1
  /\ pc' = [t \in Threads |-> "idle"]
  /\ UNCHANGED <<array, ptr, mu, loc, calls>>

ResetKeepsList ==
  /\ Recycle
  /\ off' = [a \in Slabs |-> IF \E s \in Shards : a \in small(s) THEN 0 ELSE off[a]]
  /\ UNCHANGED len
Reset ==
  /\ Recycle
  /\ off' = [a \in Slabs |-> IF \E s \in Shards : a \in small(s) THEN 0 ELSE off[a]]
  /\ len' = [s \in Shards |-> 0]

\* Close does not rewind the slabs; small requests are served after it too.
Close ==
  /\ Recycle
  /\ len' = [s \in Shards |-> 0]
  /\ UNCHANGED off

-------------------------------------------------------------------------------

Step(t) ==
  \/ LoadPtr(t) \/ LoadLen(t)
  \/ TryGrant(t) \/ TryNext(t) \/ TryZero(t) \/ TryNil(t) \/ TryWild(t)
  \/ \E a \in Slabs : Fetch(t, a)
  \/ appendPtr(t) \/ appendLen(t) \/ appendElem(t)
  \/ OwnGrant(t) \/ OwnFail(t) \/ Large(t)

Next ==
  \/ \E t \in Threads : Step(t) \/ Lock(t) \/ \E s \in shardsOf[t], n \in Sizes : AllocCall(t, s, n)
  \/ Reset \/ Close

Spec == Init /\ [][Next]_vars

\* A goroutine inside Alloc is run again; sync.Mutex hands itself over to a
\* waiter that has waited too long.
FairSpec ==
  Spec /\ \A t \in Threads : WF_vars(Step(t)) /\ SF_vars(Lock(t))

-------------------------------------------------------------------------------

\* Slices that callers may use lie in their slab and never overlap.
GrantsDisjoint ==
  \A t, u \in Threads : \A g \in grants[t], h \in grants[u] :
    /\ g[3] <= smallSlabSize
    /\ g[1] = h[1] => (t = u /\ g = h) \/ g[3] <= h[2] \/ h[3] <= g[2]

\* The slab of a slice that callers may use is in the list of its shard: an
\* address alone, which is all that Alloc returns, does not keep it alive.
GrantsKept ==
  \A t \in Threads : \A g \in grants[t] : \E s \in Shards : g[1] \in small(s)

\* A slab is in one place: an entry of one list, or one pool, or the hands of
\* one Alloc, to which it came empty.  (Between the last two stores of append,
\* a list ends with what its array held there before.)
SlabsExclusive ==
  LET settled == {s \in Shards : \A t \in Threads :
                    loc[t].shard = s => pc[t] # "appendElem"}
  IN /\ \A s \in settled, r \in Shards :
          /\ small(s) \cap pool[r] = {}
          /\ s # r /\ r \in settled => small(s) \cap small(r) = {}
     /\ \A s, r \in Shards : s # r => pool[s] \cap pool[r] = {}
     /\ \A t \in Threads : pc[t] \in {"appendPtr", "appendLen", "appendElem"} =>
          /\ off[loc[t].slab] = 0
          /\ \A s \in Shards : loc[t].slab \notin pool[s]
          /\ \A s \in settled : loc[t].slab \notin small(s)

\* Under the mutex the list is whole, whatever the lock-free scans of other
\* goroutines do meanwhile: the second scan of allocSmall meets no entry that an
\* append has made room for and not stored and does not leave its array, and
\* append stores inside the array it has.  (The scan without the mutex has no
\* such promise when calls overlap: it may meet a nil entry and panic, or take
\* a new length with an old array and read beyond it.)
SlowPathSafe ==
  \A t \in Threads :
    /\ pc[t] = "slow" /\ Scanning(t) => InArray(t) /\ Element(t) # Nil
    /\ pc[t] = "appendElem" => loc[t].len < ptr[loc[t].shard]

\* Every Alloc ends: no path keeps the mutex.
AllocReturns ==
  \A t \in Threads : pc[t] # "idle" ~> pc[t] \in {"idle", "panic", "wild"}
===============================================================================
