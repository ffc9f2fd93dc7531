--------------------------------- MODULE Arena ---------------------------------
(***************************************************************************)
(* The pinned-block allocator of package arena (arena/core.go,             *)
(* arena/tree.go): blocks of the Go heap, pinned and kept in a map under a *)
(* mutex, and owner masks kept in a lock-free tree from which nodes are    *)
(* never removed.                                                          *)
(*                                                                         *)
(* A section under the mutex is one step; the tree, which Alloc and Share  *)
(* write under the mutex and FreeVarying without it, is the partial        *)
(* function it implements, and each of its operations takes effect at one  *)
(* atomic instruction.  The Go heap hands out the address of an unpinned   *)
(* block again.                                                            *)
(*                                                                         *)
(* Callers release a layer bit once.  Share is called by an owner of the   *)
(* block or, with OpenShare, by any goroutine that knows its address.      *)
(*                                                                         *)
(* An operator whose name adds Always, Pinned or Unchecked to another's is *)
(* a faulty variant of it, for which a property below fails.               *)
(***************************************************************************)
EXTENDS Integers, FiniteSets

CONSTANTS
  Threads,      \* goroutines
  Layers,       \* bit positions of an owner mask
  Addrs,        \* addresses of the Go heap
  OpenShare,    \* whether goroutines that own nothing of a block may share it
  Nil           \* no address

ASSUME ArenaAssumption ==
  /\ 0 \in Layers /\ OpenShare \in BOOLEAN /\ Nil \notin Addrs

VARIABLES
  blocks,       \* keys of the map
  pinned,       \* addresses whose runtime.Pinner is set
  tree,         \* address -> owner mask
  closed,
  pc, loc,      \* per goroutine: next step, and address and mask of its call
  held          \* history: the <<address, layer>> pairs a goroutine owns

vars == <<blocks, pinned, tree, closed, pc, loc, held>>

NoCall == [addr |-> Nil, mask |-> {}]

Goto(t, label) == pc' = [pc EXCEPT ![t] = label]

Return(t) == Goto(t, "idle") /\ loc' = [loc EXCEPT ![t] = NoCall]

Quiescent == \A t \in Threads : pc[t] = "idle"

LayersOf(t, a) == {l \in Layers : <<a, l>> \in held[t]}

\* memTree.insert gives bit 0 to a caller that passes none.
normalizeMask(mask) == IF mask = {} THEN {0} ELSE mask

Init ==
  /\ blocks = {} /\ pinned = {}
  /\ tree = [a \in {} |-> {}]
  /\ closed = FALSE
  /\ pc = [t \in Threads |-> "idle"]
  /\ loc = [t \in Threads |-> NoCall]
  /\ held = [t \in Threads |-> {}]

-------------------------------------------------------------------------------

\* memTree.insert: a node that is there already gets the new owners too.
insert(a, mask) ==
  [b \in DOMAIN tree \cup {a} |->
     IF b # a THEN tree[b]
     ELSE mask \cup (IF a \in DOMAIN tree THEN tree[a] ELSE {})]

\* Alloc before the mutex: make and Pin.  The heap gives an address that no
\* block in the map and no pinned object has, so none of an Alloc in progress.
\* Size zero (ErrInvalidSize) has no effect.
AllocCall(t, a, m) ==
  /\ pc[t] = "idle"
  /\ a \notin blocks \cup pinned
  /\ pinned' = pinned \cup {a}
  /\ loc' = [loc EXCEPT ![t] = [addr |-> a, mask |-> normalizeMask(m)]]
  /\ Goto(t, "alloc")
  /\ UNCHANGED <<blocks, tree, closed, held>>

\* Alloc under the mutex.
AllocInsert(t) ==
  /\ pc[t] = "alloc" /\ ~closed
  /\ blocks' = blocks \cup {loc[t].addr}
  /\ tree' = insert(loc[t].addr, loc[t].mask)
  /\ held' = [held EXCEPT ![t] = @ \cup ({loc[t].addr} \X loc[t].mask)]
  /\ Return(t)
  /\ UNCHANGED <<pinned, closed>>

\* Alloc finds the arena closed: Unpin, ErrNotFound.  The first form forgets
\* the Unpin.
AllocClosedPinned(t) ==
  /\ pc[t] = "alloc" /\ closed
  /\ Return(t)
  /\ UNCHANGED <<blocks, pinned, tree, closed, held>>
AllocClosed(t) ==
  /\ pc[t] = "alloc" /\ closed
  /\ pinned' = pinned \ {loc[t].addr}
  /\ Return(t)
  /\ UNCHANGED <<blocks, tree, closed, held>>

\* Share, all of it under the mutex; the new layers are handed to goroutine u.
\* An address that is not in the map is refused (ErrNotFound).
Share(t, a, m, u) ==
  /\ pc[t] = "idle"
  /\ OpenShare \/ LayersOf(t, a) # {}
  /\ a \in blocks
  /\ tree[a] \cap normalizeMask(m) = {}
  /\ tree' = insert(a, normalizeMask(m))
  /\ held' = [held EXCEPT ![u] = @ \cup ({a} \X normalizeMask(m))]
  /\ UNCHANGED <<blocks, pinned, closed, pc, loc>>

\* FreeVarying is called with layers the caller owns.
FreeCall(t, a, m) ==
  /\ pc[t] = "idle"
  /\ LayersOf(t, a) # {} /\ m \subseteq LayersOf(t, a)
  /\ held' = [held EXCEPT ![t] = @ \ ({a} \X m)]
  /\ loc' = [loc EXCEPT ![t] = [addr |-> a, mask |-> m]]
  /\ Goto(t, "clear")
  /\ UNCHANGED <<blocks, pinned, tree, closed>>

\* memTree.freeVarying: the CAS that clears the bits, without the mutex.
freeVaryingAlways(t) ==
  /\ pc[t] = "clear"
  /\ tree' = [tree EXCEPT ![loc[t].addr] = @ \ loc[t].mask]
  /\ Goto(t, "reclaim")
  /\ UNCHANGED <<blocks, pinned, closed, loc, held>>
freeVarying(t) ==
  LET a == loc[t].addr
      next == tree[a] \ loc[t].mask
  IN /\ pc[t] = "clear"
     /\ tree' = [tree EXCEPT ![a] = next]
     /\ \/ next # {} /\ Return(t)
        \/ next = {} /\ Goto(t, "reclaim") /\ UNCHANGED loc
     /\ UNCHANGED <<blocks, pinned, closed, held>>

\* The rest of FreeVarying, under the mutex: Unpin and delete, if Close has
\* not done so before.  The first form does not look whether the map still has
\* the block, and dereferences nil when Close came first.
ReclaimUnchecked(t) ==
  /\ pc[t] = "reclaim"
  /\ blocks' = blocks \ {loc[t].addr}
  /\ pinned' = pinned \ {loc[t].addr}
  /\ \/ loc[t].addr \in blocks /\ Return(t)
     \/ loc[t].addr \notin blocks /\ Goto(t, "panic") /\ UNCHANGED loc
  /\ UNCHANGED <<tree, closed, held>>
Reclaim(t) ==
  /\ pc[t] = "reclaim"
  /\ blocks' = blocks \ {loc[t].addr}
  /\ pinned' = pinned \ (blocks \cap {loc[t].addr})
  /\ Return(t)
  /\ UNCHANGED <<tree, closed, held>>

\* Close unpins every block of the map, under the mutex, whatever calls are in
\* progress.
Close ==
  /\ ~closed
  /\ blocks' = {}
  /\ pinned' = pinned \ blocks
  /\ closed' = TRUE
  /\ UNCHANGED <<tree, pc, loc, held>>

Step(t) == AllocInsert(t) \/ AllocClosed(t) \/ freeVarying(t) \/ Reclaim(t)

Call(t) ==
  \E m \in SUBSET Layers :
    \/ \E a \in Addrs : AllocCall(t, a, m)
    \/ \E a \in DOMAIN tree : FreeCall(t, a, m) \/ \E u \in Threads : Share(t, a, m, u)

Next == (\E t \in Threads : Step(t) \/ Call(t)) \/ Close

Spec == Init /\ [][Next]_vars

-------------------------------------------------------------------------------

\* The map, the pins and the tree speak of heap addresses, owner masks hold
\* layer bits, and no call ends in a panic: FreeVarying finds its block in the
\* map or leaves it alone, also when Close emptied the map meanwhile.
TypeOK ==
  /\ blocks \subseteq Addrs /\ pinned \subseteq Addrs
  /\ tree \in [DOMAIN tree -> SUBSET Layers] /\ DOMAIN tree \subseteq Addrs
  /\ closed \in BOOLEAN
  /\ pc \in [Threads -> {"idle", "alloc", "clear", "reclaim"}]
  /\ loc \in [Threads -> [addr : Addrs \cup {Nil}, mask : SUBSET Layers]]
  /\ held \in [Threads -> SUBSET (Addrs \X Layers)]

\* Until Close, the block of every owner is pinned and in the map: no other
\* owner's FreeVarying, and no reuse of its address, unpins it.
OwnedStaysPinned ==
  ~closed => \A t \in Threads : \A o \in held[t] : o[1] \in pinned \cap blocks

\* Between calls nothing stays pinned without an owner.  Once the arena is
\* closed only an Alloc in progress has something pinned, and unpins it when it
\* ends: no object outlives the arena pinned.
NothingLeftPinned ==
  /\ closed => \A a \in pinned : \E t \in Threads : pc[t] = "alloc" /\ loc[t].addr = a
  /\ Quiescent => \A a \in pinned : \E t \in Threads : LayersOf(t, a) # {}
===============================================================================
