-------------------------------- MODULE Balloc --------------------------------
(***************************************************************************)
(* The off-heap block allocator of package balloc (balloc/core.go): a      *)
(* payload area carved by an atomic bump pointer, a lock-free list of      *)
(* freed blocks, owner masks per block, and a metadata area that tree      *)
(* nodes and free slots are carved from and never returned to.             *)
(*                                                                         *)
(* Goroutines interleave at the granularity of the atomic operations of    *)
(* the code.  A CAS loop without effects between its load and its CAS      *)
(* (clearOwner) is one step; the two loops on the free-list head keep      *)
(* their load and their CAS apart.  The search tree (balloc/tree.go        *)
(* insertNode, findNode) is the partial function it implements, from       *)
(* block address to node; an owner mask is the set of its bits.            *)
(*                                                                         *)
(* Callers are disciplined: a layer bit given by Alloc or Share is         *)
(* released once, by the goroutine that has it; Share is called by an      *)
(* owner, with bits nobody has; Reset and Close are called while no other  *)
(* call runs, and end the use of every pointer.                            *)
(*                                                                         *)
(* An operator whose name adds Missing, Unchecked, Stale or Uncounted to   *)
(* another's is a faulty variant of it: the properties below have been     *)
(* seen to fail with it in place of the right one.                         *)
(***************************************************************************)
EXTENDS Integers, FiniteSets

CONSTANTS
  Threads,       \* goroutines that use the allocator
  Layers,        \* bit positions of an owner mask
  Sizes,         \* sizes callers ask for, in bytes
  Base,          \* address of the mapping
  Length,        \* its length in bytes
  NodeCapacity,  \* defaultNodeCapacity (4096)
  MinPayload,    \* payload New insists on (4096)
  MaxBump        \* bound of the model: no Alloc starts with bump above it

Nil == 0                   \* a nil pointer
BallocNodeSize == 40       \* unsafe.Sizeof(BallocNode{})
freeSlotSize == 24         \* unsafe.Sizeof(freeSlot{})

\* Rounding up to a multiple of a power of two.
alignUpMissing(value, alignment) == value
alignUp(value, alignment) ==
  ((value + alignment - 1) \div alignment) * alignment

nodeBytes == alignUp(NodeCapacity * BallocNodeSize, 64)
nodeEnd == Base + nodeBytes
payloadBase == alignUp(Base + nodeBytes, 64)
payloadEnd == Base + Length

\* New rejects a length without room for the metadata and MinPayload bytes;
\* a mapping starts on a page boundary.
ASSUME GeometryAssumption ==
  /\ Base \in Nat \ {0} /\ Base % 64 = 0
  /\ NodeCapacity \in Nat /\ MinPayload \in Nat /\ Length \in Nat
  /\ Length >= NodeCapacity * BallocNodeSize + MinPayload
  /\ MaxBump \in Nat

ASSUME ParameterAssumption ==
  /\ 0 \in Layers
  /\ Sizes \subseteq Nat

VARIABLES
  MemTree,       \* block address -> [Size, OwnerMask]
  freeList,      \* address of the first free slot, or Nil
  slots,         \* free-slot address -> [addr, size, next]
  bump,          \* next payload byte to carve
  nodeBump,      \* next metadata byte to carve
  activeBlocks,
  closed,
  pc,            \* per goroutine: the next atomic operation of its call
  loc,           \* per goroutine: the arguments and locals of its call
  held,          \* history: the <<address, layer>> pairs a goroutine owns
  avail          \* history: the free slots pushed and not yet taken

vars == <<MemTree, freeList, slots, bump, nodeBump, activeBlocks, closed,
          pc, loc, held, avail>>

-------------------------------------------------------------------------------

NoLocals == [size |-> 0, mask |-> {}, addr |-> Nil, slot |-> Nil, next |-> Nil]

Goto(t, label) == pc' = [pc EXCEPT ![t] = label]

Return(t) == Goto(t, "idle") /\ loc' = [loc EXCEPT ![t] = NoLocals]

\* Leaving an iteration of popFree: its head and next are out of scope.
Leave(t, label) ==
  Goto(t, label) /\ loc' = [loc EXCEPT ![t].slot = Nil, ![t].next = Nil]

Quiescent == \A t \in Threads : pc[t] = "idle"

LayersOf(t, a) == {l \in Layers : <<a, l>> \in held[t]}

Leased(a) == \E t \in Threads, l \in Layers : <<a, l>> \in held[t]

\* The caller that passes no owner bit owns bit 0.
normalizeMask(mask) == IF mask = {} THEN {0} ELSE mask

\* The allocator New returns.
Init ==
  /\ MemTree = [a \in {} |-> Nil]
  /\ freeList = Nil
  /\ slots = [s \in {} |-> Nil]
  /\ bump = payloadBase
  /\ nodeBump = Base
  /\ activeBlocks = 0
  /\ closed = FALSE
  /\ pc = [t \in Threads |-> "idle"]
  /\ loc = [t \in Threads |-> NoLocals]
  /\ held = [t \in Threads |-> {}]
  /\ avail = {}

-------------------------------------------------------------------------------
(* Alloc.  A size of zero (ErrInvalidSize) and a closed allocator          *)
(* (ErrClosed) are refused without any effect.                             *)

AllocCallUnchecked(t, s, m) ==
  /\ pc[t] = "idle"
  /\ ~closed /\ bump <= MaxBump
  /\ loc' = [loc EXCEPT ![t].size = alignUp(s, 8),
                        ![t].mask = normalizeMask(m)]
  /\ Goto(t, "popLoad")
  /\ UNCHANGED <<MemTree, freeList, slots, bump, nodeBump, activeBlocks,
                 closed, held, avail>>
AllocCall(t, s, m) ==
  /\ pc[t] = "idle"
  /\ s # 0 /\ ~closed /\ bump <= MaxBump
  /\ loc' = [loc EXCEPT ![t].size = alignUp(s, 8),
                        ![t].mask = normalizeMask(m)]
  /\ Goto(t, "popLoad")
  /\ UNCHANGED <<MemTree, freeList, slots, bump, nodeBump, activeBlocks,
                 closed, held, avail>>

popFreeEmpty(t) ==
  /\ pc[t] = "popLoad"
  /\ freeList = Nil
  /\ Goto(t, "bump")
  /\ UNCHANGED <<MemTree, freeList, slots, bump, nodeBump, activeBlocks,
                 closed, loc, held, avail>>

popFreeLoadHead(t) ==
  /\ pc[t] = "popLoad"
  /\ freeList # Nil
  /\ loc' = [loc EXCEPT ![t].slot = freeList]
  /\ Goto(t, "popNext")
  /\ UNCHANGED <<MemTree, freeList, slots, bump, nodeBump, activeBlocks,
                 closed, held, avail>>

popFreeLoadNext(t) ==
  /\ pc[t] = "popNext"
  /\ loc' = [loc EXCEPT ![t].next = slots[loc[t].slot].next]
  /\ Goto(t, "popCas")
  /\ UNCHANGED <<MemTree, freeList, slots, bump, nodeBump, activeBlocks,
                 closed, held, avail>>

popFreeRetry(t) ==
  /\ pc[t] = "popCas"
  /\ freeList # loc[t].slot
  /\ Leave(t, "popLoad")
  /\ UNCHANGED <<MemTree, freeList, slots, bump, nodeBump, activeBlocks,
                 closed, held, avail>>

\* The CAS succeeds and the slot is large enough: its block is the caller's.
popFreeTakeUnchecked(t) ==
  /\ pc[t] = "popCas"
  /\ slots[loc[t].slot].size >= loc[t].size
  /\ freeList' = loc[t].next
  /\ avail' = avail \ {loc[t].slot}
  /\ loc' = [loc EXCEPT ![t] = [NoLocals EXCEPT !.mask = loc[t].mask,
                                  !.addr = slots[loc[t].slot].addr,
                                  !.size = slots[loc[t].slot].size]]
  /\ Goto(t, "newNode")
  /\ UNCHANGED <<MemTree, slots, bump, nodeBump, activeBlocks, closed, held>>
popFreeTake(t) ==
  /\ pc[t] = "popCas"
  /\ freeList = loc[t].slot
  /\ slots[loc[t].slot].size >= loc[t].size
  /\ freeList' = loc[t].next
  /\ avail' = avail \ {loc[t].slot}
  /\ loc' = [loc EXCEPT ![t] = [NoLocals EXCEPT !.mask = loc[t].mask,
                                  !.addr = slots[loc[t].slot].addr,
                                  !.size = slots[loc[t].slot].size]]
  /\ Goto(t, "newNode")
  /\ UNCHANGED <<MemTree, slots, bump, nodeBump, activeBlocks, closed, held>>

\* The CAS succeeds but the slot is too small: the same slot is pushed back
\* and the request goes to the bump pointer.
popFreeTooSmall(t) ==
  /\ pc[t] = "popCas"
  /\ freeList = loc[t].slot
  /\ slots[loc[t].slot].size < loc[t].size
  /\ freeList' = loc[t].next
  /\ avail' = avail \ {loc[t].slot}
  /\ Goto(t, "repushLoad")
  /\ UNCHANGED <<MemTree, slots, bump, nodeBump, activeBlocks, closed, loc, held>>

\* The bump pointer advances whether or not the block fits.
bumpCarve(t) ==
  /\ pc[t] = "bump"
  /\ bump' = bump + loc[t].size
  /\ bump + loc[t].size <= payloadEnd
  /\ loc' = [loc EXCEPT ![t].addr = bump]
  /\ Goto(t, "newNode")
  /\ UNCHANGED <<MemTree, freeList, slots, nodeBump, activeBlocks, closed,
                 held, avail>>

bumpExhausted(t) ==
  /\ pc[t] = "bump"
  /\ bump' = bump + loc[t].size
  /\ bump + loc[t].size > payloadEnd
  /\ Return(t)
  /\ UNCHANGED <<MemTree, freeList, slots, nodeBump, activeBlocks, closed,
                 held, avail>>

newNode(t) ==
  /\ pc[t] = "newNode"
  /\ nodeBump' = nodeBump + BallocNodeSize
  /\ nodeBump + BallocNodeSize <= nodeEnd
  /\ Goto(t, "insert")
  /\ UNCHANGED <<MemTree, freeList, slots, bump, activeBlocks, closed, loc,
                 held, avail>>

\* Alloc returns ErrOutOfMemory; the block it had taken belongs to nobody.
newNodeExhausted(t) ==
  /\ pc[t] = "newNode"
  /\ nodeBump' = nodeBump + BallocNodeSize
  /\ nodeBump + BallocNodeSize > nodeEnd
  /\ Return(t)
  /\ UNCHANGED <<MemTree, freeList, slots, bump, activeBlocks, closed, held,
                 avail>>

\* A block that was handed out before still has its node: insertNode stores
\* the size there and adds the new owners to the mask.
insertNode(a, size, mask) ==
  [b \in DOMAIN MemTree \cup {a} |->
     IF b # a THEN MemTree[b]
     ELSE [Size |-> size,
           OwnerMask |-> mask \cup
             (IF a \in DOMAIN MemTree THEN MemTree[a].OwnerMask ELSE {})]]

AllocReturn(t) ==
  /\ pc[t] = "insert"
  /\ MemTree' = insertNode(loc[t].addr, loc[t].size, loc[t].mask)
  /\ activeBlocks' = activeBlocks + 1
  /\ held' = [held EXCEPT ![t] = @ \cup ({loc[t].addr} \X loc[t].mask)]
  /\ Return(t)
  /\ UNCHANGED <<freeList, slots, bump, nodeBump, closed, avail>>

-------------------------------------------------------------------------------
(* pushFree, called by FreeVarying and, with the slot it has just popped,  *)
(* by popFree.                                                             *)

pushFreeLoad(t, from, to) ==
  /\ pc[t] = from
  /\ slots' = [slots EXCEPT ![loc[t].slot].next = freeList]
  /\ loc' = [loc EXCEPT ![t].next = freeList]
  /\ Goto(t, to)
  /\ UNCHANGED <<MemTree, freeList, bump, nodeBump, activeBlocks, closed,
                 held, avail>>

\* A retry that does not reload the head.
pushFreeRetryStale(t, from, to) ==
  /\ pc[t] = from
  /\ freeList # loc[t].next
  /\ Goto(t, from)
  /\ UNCHANGED <<MemTree, freeList, slots, bump, nodeBump, activeBlocks,
                 closed, loc, held, avail>>
pushFreeRetry(t, from, to) ==
  /\ pc[t] = from
  /\ freeList # loc[t].next
  /\ Goto(t, to)
  /\ UNCHANGED <<MemTree, freeList, slots, bump, nodeBump, activeBlocks,
                 closed, loc, held, avail>>

\* A plain store in place of the CAS.
LinkSlotUnchecked(t) ==
  /\ freeList' = loc[t].slot
  /\ avail' = avail \cup {loc[t].slot}
LinkSlot(t) ==
  /\ freeList = loc[t].next
  /\ freeList' = loc[t].slot
  /\ avail' = avail \cup {loc[t].slot}

repushDone(t) ==
  /\ pc[t] = "repushCas"
  /\ LinkSlot(t)
  /\ Leave(t, "bump")
  /\ UNCHANGED <<MemTree, slots, bump, nodeBump, activeBlocks, closed, held>>

\* The CAS succeeds; the count of blocks follows it.
FreeReturnUncounted(t) ==
  /\ pc[t] = "pushCas"
  /\ LinkSlot(t)
  /\ Return(t)
  /\ UNCHANGED <<MemTree, slots, bump, nodeBump, activeBlocks, closed, held>>
FreeReturn(t) ==
  /\ pc[t] = "pushCas"
  /\ LinkSlot(t)
  /\ activeBlocks' = activeBlocks - 1
  /\ Return(t)
  /\ UNCHANGED <<MemTree, slots, bump, nodeBump, closed, held>>

-------------------------------------------------------------------------------
(* FreeVarying and Share.  The caller owns a layer of the block, so its    *)
(* node is in the tree for the whole call; an address the tree does not    *)
(* know is refused (ErrNotFound) without any effect.                       *)

FreeCall(t, a, m) ==
  /\ pc[t] = "idle" /\ ~closed
  /\ LayersOf(t, a) # {} /\ m \subseteq LayersOf(t, a)
  /\ held' = [held EXCEPT ![t] = @ \ ({a} \X m)]
  /\ loc' = [loc EXCEPT ![t].addr = a, ![t].mask = m]
  /\ Goto(t, "clear")
  /\ UNCHANGED <<MemTree, freeList, slots, bump, nodeBump, activeBlocks,
                 closed, avail>>

clearOwner(node, layerMask) == [node EXCEPT !.OwnerMask = @ \ layerMask]

FreeClear(t) ==
  LET a == loc[t].addr
      node == clearOwner(MemTree[a], loc[t].mask)
  IN /\ pc[t] = "clear"
     /\ MemTree' = [MemTree EXCEPT ![a] = node]
     /\ \/ node.OwnerMask # {} /\ Return(t)
        \/ /\ node.OwnerMask = {}
           /\ loc' = [loc EXCEPT ![t].size = node.Size]
           /\ Goto(t, "newFreeSlot")
     /\ UNCHANGED <<freeList, slots, bump, nodeBump, activeBlocks, closed,
                    held, avail>>

newFreeSlotUnchecked(t) ==
  /\ pc[t] = "newFreeSlot"
  /\ nodeBump' = nodeBump + freeSlotSize
  /\ slots' = [s \in DOMAIN slots \cup {nodeBump} |->
                 IF s # nodeBump THEN slots[s]
                 ELSE [addr |-> loc[t].addr, size |-> loc[t].size, next |-> Nil]]
  /\ loc' = [loc EXCEPT ![t].slot = nodeBump]
  /\ Goto(t, "pushLoad")
  /\ UNCHANGED <<MemTree, freeList, bump, activeBlocks, closed, held, avail>>
newFreeSlot(t) ==
  /\ pc[t] = "newFreeSlot"
  /\ nodeBump' = nodeBump + freeSlotSize
  /\ nodeBump + freeSlotSize <= nodeEnd
  /\ slots' = [s \in DOMAIN slots \cup {nodeBump} |->
                 IF s # nodeBump THEN slots[s]
                 ELSE [addr |-> loc[t].addr, size |-> loc[t].size, next |-> Nil]]
  /\ loc' = [loc EXCEPT ![t].slot = nodeBump]
  /\ Goto(t, "pushLoad")
  /\ UNCHANGED <<MemTree, freeList, bump, activeBlocks, closed, held, avail>>

\* FreeVarying returns (false, ErrOutOfMemory); the block has no owner and is
\* not on the free list.
newFreeSlotExhausted(t) ==
  /\ pc[t] = "newFreeSlot"
  /\ nodeBump' = nodeBump + freeSlotSize
  /\ nodeBump + freeSlotSize > nodeEnd
  /\ Return(t)
  /\ UNCHANGED <<MemTree, freeList, slots, bump, activeBlocks, closed, held,
                 avail>>

\* The new layers are handed to goroutine u.
ShareMissing(t, a, m, u) ==
  /\ pc[t] = "idle" /\ ~closed
  /\ LayersOf(t, a) # {}
  /\ MemTree[a].OwnerMask \cap normalizeMask(m) = {}
  /\ held' = [held EXCEPT ![u] = @ \cup ({a} \X normalizeMask(m))]
  /\ UNCHANGED <<MemTree, freeList, slots, bump, nodeBump, activeBlocks,
                 closed, pc, loc, avail>>
Share(t, a, m, u) ==
  /\ pc[t] = "idle" /\ ~closed
  /\ LayersOf(t, a) # {}
  /\ MemTree[a].OwnerMask \cap normalizeMask(m) = {}
  /\ MemTree' = [MemTree EXCEPT ![a].OwnerMask = @ \cup normalizeMask(m)]
  /\ held' = [held EXCEPT ![u] = @ \cup ({a} \X normalizeMask(m))]
  /\ UNCHANGED <<freeList, slots, bump, nodeBump, activeBlocks, closed, pc,
                 loc, avail>>

-------------------------------------------------------------------------------

Reset ==
  /\ Quiescent /\ ~closed
  /\ MemTree' = [a \in {} |-> Nil]
  /\ freeList' = Nil
  /\ slots' = [s \in {} |-> Nil]
  /\ bump' = payloadBase
  /\ nodeBump' = Base
  /\ activeBlocks' = 0
  /\ held' = [t \in Threads |-> {}]
  /\ avail' = {}
  /\ UNCHANGED <<closed, pc, loc>>

Close ==
  /\ Quiescent /\ ~closed
  /\ closed' = TRUE
  /\ UNCHANGED <<MemTree, freeList, slots, bump, nodeBump, activeBlocks, pc,
                 loc, held, avail>>

-------------------------------------------------------------------------------

\* A goroutine inside a call takes its next step.
Step(t) ==
  \/ popFreeEmpty(t) \/ popFreeLoadHead(t) \/ popFreeLoadNext(t)
  \/ popFreeRetry(t) \/ popFreeTake(t) \/ popFreeTooSmall(t)
  \/ pushFreeLoad(t, "repushLoad", "repushCas")
  \/ pushFreeRetry(t, "repushCas", "repushLoad")
  \/ repushDone(t)
  \/ bumpCarve(t) \/ bumpExhausted(t)
  \/ newNode(t) \/ newNodeExhausted(t) \/ AllocReturn(t)
  \/ FreeClear(t) \/ newFreeSlot(t) \/ newFreeSlotExhausted(t)
  \/ pushFreeLoad(t, "pushLoad", "pushCas")
  \/ pushFreeRetry(t, "pushCas", "pushLoad")
  \/ FreeReturn(t)

Call(t) ==
  \/ \E s \in Sizes, m \in SUBSET Layers : AllocCall(t, s, m)
  \/ \E a \in DOMAIN MemTree, m \in SUBSET Layers :
       \/ FreeCall(t, a, m)
       \/ \E u \in Threads : Share(t, a, m, u)

Next == (\E t \in Threads : Step(t) \/ Call(t)) \/ Reset \/ Close

Spec == Init /\ [][Next]_vars

\* The Go scheduler preempts: a goroutine inside a call is run again.
FairSpec == Spec /\ \A t \in Threads : WF_vars(Step(t))

-------------------------------------------------------------------------------
(* What the allocator promises.                                            *)

Labels == {"idle", "popLoad", "popNext", "popCas", "repushLoad", "repushCas",
           "bump", "newNode", "insert", "clear", "newFreeSlot", "pushLoad",
           "pushCas"}

\* The state has the shape of the fields of BlockAllocator and of the locals
\* of its methods.  No node and no free slot has size zero: a block without
\* bytes would have the address of the block carved after it, and the tree one
\* node for both.
TypeOK ==
  /\ MemTree \in [DOMAIN MemTree -> [Size : Nat \ {0}, OwnerMask : SUBSET Layers]]
  /\ DOMAIN MemTree \subseteq Nat
  /\ slots \in [DOMAIN slots -> [addr : Nat, size : Nat \ {0}, next : Nat]]
  /\ DOMAIN slots \subseteq Nat
  /\ freeList \in Nat /\ bump \in Nat /\ nodeBump \in Nat
  /\ activeBlocks \in Int
  /\ closed \in BOOLEAN
  /\ pc \in [Threads -> Labels]
  /\ loc \in [Threads -> [size : Nat, mask : SUBSET Layers, addr : Nat,
                          slot : Nat, next : Nat]]
  /\ held \in [Threads -> SUBSET (Nat \X Layers)]
  /\ avail \subseteq Nat

\* Goroutine t works on the block at loc[t].addr: an Alloc that has taken it
\* and not yet returned it, or a FreeVarying that has cleared its last owner
\* and not yet pushed it.
Carries(t) == pc[t] \in {"newNode", "insert", "newFreeSlot", "pushLoad", "pushCas"}

\* The owner bits goroutine t has: those it holds and those a FreeVarying in
\* progress is about to clear.
Tokens(t) ==
  held[t] \cup (IF pc[t] = "clear" THEN {loc[t].addr} \X loc[t].mask ELSE {})

\* The blocks (address and size) that anything in the allocator refers to.
Blocks ==
  {<<a, MemTree[a].Size>> : a \in DOMAIN MemTree}
    \cup {<<slots[s].addr, slots[s].size>> : s \in DOMAIN slots}
    \cup {<<loc[t].addr, loc[t].size>> : t \in {u \in Threads : Carries(u)}}

\* Two different blocks never share a byte, one address always has one size,
\* and every block is aligned and inside the payload: whatever the free list
\* does, the memory of two addresses handed out by Alloc does not overlap.
BlocksDisjoint ==
  \A b, c \in Blocks :
    /\ payloadBase <= b[1] /\ b[1] + b[2] <= payloadEnd /\ b[1] % 8 = 0
    /\ b = c \/ b[1] + b[2] <= c[1] \/ c[1] + c[2] <= b[1]

\* A block is in one pair of hands: while Alloc or FreeVarying works on it, it
\* does not head the free list, no other call works on it and no goroutine
\* owns it.
ExclusiveLease ==
  \A t \in Threads : Carries(t) =>
    /\ freeList # Nil => slots[freeList].addr # loc[t].addr
    /\ \A u \in Threads :
         /\ u # t /\ Carries(u) => loc[u].addr # loc[t].addr
         /\ \A o \in Tokens(u) : o[1] # loc[t].addr

\* The owner mask of a node is exact: it has the bits that goroutines own,
\* each owned by one of them, and no other.  This is what makes the
\* clearOwner that reaches zero the last use of the block.
OwnersRecorded ==
  /\ \A a \in DOMAIN MemTree :
       MemTree[a].OwnerMask =
         {l \in Layers : \E t \in Threads : <<a, l>> \in Tokens(t)}
  /\ \A t, u \in Threads : t # u => Tokens(t) \cap Tokens(u) = {}
  /\ \A t \in Threads : \A o \in Tokens(t) : o[1] \in DOMAIN MemTree

\* A set of slots that a walk from freeList does not leave.
WalkStays(S) ==
  /\ freeList \in S \cup {Nil}
  /\ \A s \in S : slots[s].next \in S \cup {Nil}

\* The slots a walk from freeList meets: those of the least such set.
Listed ==
  {s \in DOMAIN slots : \A S \in SUBSET DOMAIN slots : WalkStays(S) => s \in S}

\* Until the metadata area is exhausted, no block is lost or listed twice:
\* between calls each block ever handed out is owned or on the free list, and
\* the free list has one slot for each block nobody owns.
NoBlockLost ==
  Quiescent /\ nodeBump <= nodeEnd =>
    /\ {a \in DOMAIN MemTree : ~Leased(a)} = {slots[s].addr : s \in Listed}
    /\ \A r, s \in Listed : slots[r].addr = slots[s].addr => r = s

\* Until the metadata area is exhausted, activeBlocks counts the blocks that
\* have an owner.
ActiveCount ==
  Quiescent /\ nodeBump <= nodeEnd =>
    activeBlocks = Cardinality({a \in DOMAIN MemTree : Leased(a)})

\* The CAS loops terminate: when only finitely many calls begin, each one
\* that has begun returns.
CallsReturn == \A t \in Threads : pc[t] # "idle" ~> pc[t] = "idle"
===============================================================================
