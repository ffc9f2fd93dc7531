------------------------------- MODULE BallocInv -------------------------------
(***************************************************************************)
(* Inductive invariants of Balloc.  TLC checks them on small instances,    *)
(* BallocProofs proves them for all.                                       *)
(***************************************************************************)
EXTENDS Balloc

\* The sizes Alloc works with.
AlignedSizes == {alignUp(s, 8) : s \in Sizes \ {0}}

\* Goroutine t is inside popFree or a pushFree and has its slot in hand.
HasSlot(t) == pc[t] \in {"popNext", "popCas", "repushLoad", "repushCas",
                         "pushLoad", "pushCas"}

\* No pointer dangles: what popFree, pushFree and clearOwner dereference is a
\* slot or a node that has been carved from the metadata area and filled in.
PointersValid ==
  /\ \A s \in DOMAIN slots :
       /\ Base <= s /\ s + freeSlotSize <= nodeBump /\ s + freeSlotSize <= nodeEnd
       /\ slots[s].next \in DOMAIN slots \cup {Nil}
  /\ nodeBump >= Base
  /\ freeList \in DOMAIN slots \cup {Nil}
  /\ \A t \in Threads :
       /\ HasSlot(t) => loc[t].slot \in DOMAIN slots
       /\ pc[t] = "popCas" => loc[t].next \in DOMAIN slots \cup {Nil}
       /\ \A o \in Tokens(t) : o[1] \in DOMAIN MemTree
       /\ pc[t] = "clear" => loc[t].addr \in DOMAIN MemTree

\* Every block lies below the bump pointer and has an aligned size.
BlocksCarved ==
  /\ bump >= payloadBase /\ bump % 8 = 0
  /\ \A b \in Blocks : b[1] + b[2] <= bump /\ b[2] \in AlignedSizes
  /\ \A t \in Threads :
       pc[t] \in {"popLoad", "popNext", "popCas", "repushLoad", "repushCas", "bump"}
         => loc[t].size \in AlignedSizes

BaseInv == TypeOK /\ PointersValid /\ BlocksCarved /\ BlocksDisjoint

-------------------------------------------------------------------------------
(* When all requests round up to one size, popFree never pushes a slot     *)
(* back, and the free list is a stack whose slots are pushed once.         *)

UniformSizes == \A m, n \in AlignedSizes : m = n

Popping(t) == pc[t] \in {"popNext", "popCas"}
Pushing(t) == pc[t] \in {"pushLoad", "pushCas"}

\* The slots pushed and not taken form a list from freeList: no two of them
\* have the same successor, and none is followed by the head.
ListShape ==
  /\ avail \subseteq DOMAIN slots
  /\ freeList \in avail \cup {Nil}
  /\ \A s \in avail :
       /\ slots[s].next \in avail \cup {Nil}
       /\ slots[s].next = freeList => freeList = Nil
       /\ \A r \in avail :
            slots[r].next = slots[s].next => r = s \/ slots[s].next = Nil

\* A slot is written only before it is pushed: what popFree read of its
\* successor is still true when the CAS succeeds.
SlotsStable ==
  \A t \in Threads :
    /\ pc[t] \notin {"repushLoad", "repushCas"}
    /\ pc[t] \in {"popCas", "pushCas"} => slots[loc[t].slot].next = loc[t].next
    /\ Pushing(t) => /\ loc[t].slot \notin avail
                     /\ slots[loc[t].slot].addr = loc[t].addr
    /\ \A u \in Threads : Popping(t) /\ Pushing(u) => loc[t].slot # loc[u].slot

\* A block is available through one slot, or in one call's hands, or owned.
BlocksExclusive ==
  /\ \A s \in avail :
       /\ \A r \in avail : slots[r].addr = slots[s].addr => r = s
       /\ \A t \in Threads :
            /\ Carries(t) => loc[t].addr # slots[s].addr
            /\ \A o \in Tokens(t) : o[1] # slots[s].addr
  /\ \A t, u \in Threads : Carries(t) =>
       /\ u # t /\ Carries(u) => loc[u].addr # loc[t].addr
       /\ \A o \in Tokens(u) : o[1] # loc[t].addr

\* A FreeVarying in progress has a token of its block, and the bits it will
\* clear are its caller's no longer.
FreeInProgress ==
  \A t \in Threads : pc[t] = "clear" =>
    /\ \E l \in Layers : <<loc[t].addr, l>> \in Tokens(t)
    /\ \A l \in loc[t].mask : <<loc[t].addr, l>> \notin held[t]

UniformInv ==
  ListShape /\ SlotsStable /\ BlocksExclusive /\ FreeInProgress /\ OwnersRecorded

-------------------------------------------------------------------------------
(* What is lost, and what is counted, under the same hypothesis.           *)

\* FreeVarying has cleared the last owner of the block at loc[t].addr.
Releasing(t) == pc[t] \in {"newFreeSlot", "pushLoad", "pushCas"}

\* The walk from freeList meets every slot pushed and not taken.
ListComplete == \A S \in SUBSET DOMAIN slots : WalkStays(S) => avail \subseteq S

\* Slots are of blocks the tree knows, and until the metadata area is
\* exhausted a block without owners is available or in a call's hands.
BlocksKept ==
  /\ \A s \in DOMAIN slots : slots[s].addr \in DOMAIN MemTree
  /\ \A t \in Threads : Releasing(t) => loc[t].addr \in DOMAIN MemTree
  /\ nodeBump <= nodeEnd =>
       \A a \in DOMAIN MemTree : MemTree[a].OwnerMask = {} =>
         \/ \E s \in avail : slots[s].addr = a
         \/ \E t \in Threads : Carries(t) /\ loc[t].addr = a

\* The blocks that Alloc has counted and FreeVarying has not yet: those with
\* an owner and those being released.
Owned == {a \in DOMAIN MemTree : MemTree[a].OwnerMask # {}}
Counted == Owned \cup {loc[t].addr : t \in {u \in Threads : Releasing(u)}}

CountExact ==
  nodeBump <= nodeEnd => IsFiniteSet(Counted) /\ activeBlocks = Cardinality(Counted)

\* An Alloc in progress has an owner for its block.
MasksGiven ==
  \A t \in Threads :
    loc[t].mask = {} => Releasing(t) \/ pc[t] \in {"idle", "clear"}

KeptInv == ListComplete /\ BlocksKept /\ CountExact /\ MasksGiven
===============================================================================
