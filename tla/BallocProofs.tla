----------------------------- MODULE BallocProofs -----------------------------
(***************************************************************************)
(* Theorems about Balloc, for every value of its constants.                *)
(***************************************************************************)
EXTENDS BallocInv, FiniteSetTheorems, TLAPS

\* alignUp to 8 or 64 gives the next multiple.
LEMMA AlignUp8 ==
  ASSUME NEW v \in Nat
  PROVE  alignUp(v, 8) \in Nat /\ alignUp(v, 8) >= v /\ alignUp(v, 8) % 8 = 0
BY DEF alignUp

\* The same for the alignment of the two areas New lays out.
LEMMA AlignUp64 ==
  ASSUME NEW v \in Nat
  PROVE  alignUp(v, 64) \in Nat /\ alignUp(v, 64) >= v /\ alignUp(v, 64) % 64 = 0
BY DEF alignUp

\* The layout New computes: metadata first, then the payload.
LEMMA Geometry ==
  /\ Base \in Nat /\ Base > 0
  /\ nodeEnd \in Nat /\ payloadBase \in Nat /\ payloadEnd \in Nat
  /\ nodeEnd <= payloadBase /\ payloadBase % 8 = 0
<1>1. NodeCapacity * BallocNodeSize \in Nat
  BY GeometryAssumption DEF BallocNodeSize
<1>2. nodeBytes \in Nat
  BY <1>1, AlignUp64 DEF nodeBytes
<1>3. payloadBase \in Nat /\ payloadBase >= Base + nodeBytes /\ payloadBase % 64 = 0
  BY <1>2, AlignUp64, GeometryAssumption DEF payloadBase
<1>4. payloadBase % 8 = 0
  BY <1>3
<1> QED
  BY <1>2, <1>3, <1>4, GeometryAssumption DEF nodeEnd, payloadEnd

\* normalizeMask never gives an empty mask.
LEMMA NormalizeMask ==
  ASSUME NEW m \in SUBSET Layers
  PROVE  normalizeMask(m) \in SUBSET Layers /\ normalizeMask(m) # {}
BY ParameterAssumption DEF normalizeMask

-------------------------------------------------------------------------------

USE DEF Nil

\* The allocator New returns has the types.
LEMMA TypeInit == Init => TypeOK
<1> SUFFICES ASSUME Init PROVE TypeOK
  OBVIOUS
<1>1. /\ MemTree \in [DOMAIN MemTree -> [Size : Nat \ {0}, OwnerMask : SUBSET Layers]]
      /\ DOMAIN MemTree \subseteq Nat
  BY DEF Init
<1>2. /\ slots \in [DOMAIN slots -> [addr : Nat, size : Nat \ {0}, next : Nat]]
      /\ DOMAIN slots \subseteq Nat
  BY DEF Init
<1>3. loc \in [Threads -> [size : Nat, mask : SUBSET Layers, addr : Nat,
                          slot : Nat, next : Nat]]
  BY DEF Init, NoLocals
<1>4. pc \in [Threads -> Labels] /\ held \in [Threads -> SUBSET (Nat \X Layers)]
  BY DEF Init, Labels
<1>5. freeList \in Nat /\ bump \in Nat /\ nodeBump \in Nat /\ activeBlocks \in Int
  BY Geometry DEF Init
<1>6. closed \in BOOLEAN /\ avail \subseteq Nat
  BY DEF Init
<1> QED
  BY <1>1, <1>2, <1>3, <1>4, <1>5, <1>6 DEF TypeOK

\* Leaving an iteration of popFree preserves the types.
LEMMA LeaveType ==
  ASSUME TypeOK, NEW t \in Threads, NEW label \in Labels, Leave(t, label)
  PROVE  /\ pc' \in [Threads -> Labels]
         /\ loc' \in [Threads -> [size : Nat, mask : SUBSET Layers, addr : Nat,
                                  slot : Nat, next : Nat]]
<1>1. pc' \in [Threads -> Labels]
  BY DEF Leave, Goto, TypeOK
<1>2. [loc[t] EXCEPT !.slot = Nil, !.next = Nil]
        \in [size : Nat, mask : SUBSET Layers, addr : Nat, slot : Nat, next : Nat]
  BY DEF TypeOK
<1>3. loc' = [loc EXCEPT ![t] = [loc[t] EXCEPT !.slot = Nil, !.next = Nil]]
  BY DEF Leave, TypeOK
<1> QED
  BY <1>1, <1>2, <1>3 DEF TypeOK

\* A block that a call works on has bytes.
LEMMA CarriedSize ==
  ASSUME TypeOK, BlocksCarved, NEW t \in Threads, Carries(t)
  PROVE  loc[t].size \in Nat \ {0}
<1>1. <<loc[t].addr, loc[t].size>> \in Blocks
  BY DEF Blocks
<1>2. loc[t].size \in AlignedSizes
  BY <1>1 DEF BlocksCarved
<1>3. PICK s \in Sizes \ {0} : loc[t].size = alignUp(s, 8)
  BY <1>2 DEF AlignedSizes
<1>4. s \in Nat /\ s > 0
  BY ParameterAssumption
<1> QED
  BY <1>3, <1>4, AlignUp8

\* Every action preserves the types.
LEMMA TypeStep ==
  ASSUME TypeOK, PointersValid, BlocksCarved, [Next]_vars
  PROVE  TypeOK'
<1> USE DEF TypeOK, Labels
<1>1. ASSUME NEW t \in Threads, NEW s \in Sizes, NEW m \in SUBSET Layers, AllocCall(t, s, m)
      PROVE  TypeOK'
  <2>1. alignUp(s, 8) \in Nat /\ normalizeMask(m) \in SUBSET Layers
    BY AlignUp8, NormalizeMask, ParameterAssumption
  <2> DEFINE local == [loc[t] EXCEPT !.size = alignUp(s, 8), !.mask = normalizeMask(m)]
  <2>3. local \in [size : Nat, mask : SUBSET Layers, addr : Nat, slot : Nat, next : Nat]
    BY <2>1
  <2>4. loc' = [loc EXCEPT ![t] = local]
    BY <1>1 DEF AllocCall
  <2> HIDE DEF local
  <2>2. loc' \in [Threads -> [size : Nat, mask : SUBSET Layers, addr : Nat,
                             slot : Nat, next : Nat]]
    BY <2>3, <2>4
  <2> QED
    BY <1>1, <2>2 DEF AllocCall, Goto
<1>2. ASSUME NEW t \in Threads, popFreeEmpty(t) PROVE TypeOK'
  BY <1>2 DEF popFreeEmpty, Goto
<1>3. ASSUME NEW t \in Threads, popFreeLoadHead(t) PROVE TypeOK'
  BY <1>3 DEF popFreeLoadHead, Goto
<1>4. ASSUME NEW t \in Threads, popFreeLoadNext(t) PROVE TypeOK'
  <2>1. slots[loc[t].slot].next \in Nat
    BY <1>4 DEF popFreeLoadNext, PointersValid, HasSlot
  <2>2. loc' \in [Threads -> [size : Nat, mask : SUBSET Layers, addr : Nat,
                             slot : Nat, next : Nat]]
    BY <1>4, <2>1 DEF popFreeLoadNext
  <2> QED
    BY <1>4, <2>2 DEF popFreeLoadNext, Goto
<1>5. ASSUME NEW t \in Threads, popFreeRetry(t) PROVE TypeOK'
  BY <1>5, LeaveType DEF popFreeRetry
<1>6. ASSUME NEW t \in Threads, popFreeTake(t) PROVE TypeOK'
  <2>1. slots[loc[t].slot] \in [addr : Nat, size : Nat \ {0}, next : Nat]
    BY <1>6 DEF popFreeTake, PointersValid, HasSlot
  <2>2. slots[loc[t].slot].addr \in Nat /\ slots[loc[t].slot].size \in Nat
    BY <2>1
  <2>3. [NoLocals EXCEPT !.mask = loc[t].mask, !.addr = slots[loc[t].slot].addr,
                         !.size = slots[loc[t].slot].size]
          \in [size : Nat, mask : SUBSET Layers, addr : Nat, slot : Nat, next : Nat]
    BY <2>2 DEF NoLocals
  <2>4. loc' \in [Threads -> [size : Nat, mask : SUBSET Layers, addr : Nat,
                             slot : Nat, next : Nat]]
    BY <1>6, <2>3 DEF popFreeTake
  <2> QED
    BY <1>6, <2>4 DEF popFreeTake, Goto
<1>7. ASSUME NEW t \in Threads, popFreeTooSmall(t) PROVE TypeOK'
  BY <1>7 DEF popFreeTooSmall, Goto
<1>8. ASSUME NEW t \in Threads, bumpCarve(t) PROVE TypeOK'
  <2>1. loc' \in [Threads -> [size : Nat, mask : SUBSET Layers, addr : Nat,
                             slot : Nat, next : Nat]]
    BY <1>8 DEF bumpCarve
  <2>2. bump' \in Nat /\ pc' \in [Threads -> Labels]
    BY <1>8 DEF bumpCarve, Goto
  <2> QED
    BY <1>8, <2>1, <2>2 DEF bumpCarve
<1>9. ASSUME NEW t \in Threads, bumpExhausted(t) PROVE TypeOK'
  BY <1>9 DEF bumpExhausted, Return, Goto, NoLocals
<1>10. ASSUME NEW t \in Threads, newNode(t) PROVE TypeOK'
  BY <1>10 DEF newNode, Goto, BallocNodeSize
<1>11. ASSUME NEW t \in Threads, newNodeExhausted(t) PROVE TypeOK'
  BY <1>11 DEF newNodeExhausted, Return, Goto, NoLocals, BallocNodeSize
<1>12. ASSUME NEW t \in Threads, AllocReturn(t) PROVE TypeOK'
  <2>1. loc[t].size \in Nat \ {0}
    BY <1>12, CarriedSize DEF AllocReturn, Carries
  <2> QED
    BY <1>12, <2>1 DEF AllocReturn, insertNode, Return, Goto, NoLocals
<1>13. ASSUME NEW t \in Threads, NEW from, NEW to \in Labels, pushFreeLoad(t, from, to)
       PROVE  TypeOK'
  <2>1. /\ slots' \in [DOMAIN slots' -> [addr : Nat, size : Nat \ {0}, next : Nat]]
        /\ DOMAIN slots' \subseteq Nat
    <3>1. CASE loc[t].slot \in DOMAIN slots
      <4> DEFINE slot == [slots[loc[t].slot] EXCEPT !.next = freeList]
      <4>1. slot \in [addr : Nat, size : Nat \ {0}, next : Nat]
        BY <3>1
      <4>2. slots' = [slots EXCEPT ![loc[t].slot] = slot]
        BY <1>13 DEF pushFreeLoad
      <4> HIDE DEF slot
      <4> QED
        BY <4>1, <4>2
    <3>2. CASE loc[t].slot \notin DOMAIN slots
      <4>1. slots' = slots
        BY <1>13, <3>2 DEF pushFreeLoad
      <4> QED
        BY <4>1
    <3> QED
      BY <3>1, <3>2
  <2>2. loc' \in [Threads -> [size : Nat, mask : SUBSET Layers, addr : Nat,
                             slot : Nat, next : Nat]]
    <3> DEFINE local == [loc[t] EXCEPT !.next = freeList]
    <3>1. local \in [size : Nat, mask : SUBSET Layers, addr : Nat, slot : Nat, next : Nat]
      OBVIOUS
    <3>2. loc' = [loc EXCEPT ![t] = local]
      BY <1>13 DEF pushFreeLoad
    <3> HIDE DEF local
    <3> QED
      BY <3>1, <3>2
  <2> QED
    BY <1>13, <2>1, <2>2 DEF pushFreeLoad, Goto
<1>14. ASSUME NEW t \in Threads, NEW from, NEW to \in Labels, pushFreeRetry(t, from, to)
       PROVE  TypeOK'
  BY <1>14 DEF pushFreeRetry, Goto
<1>15. ASSUME NEW t \in Threads, repushDone(t) PROVE TypeOK'
  BY <1>15, LeaveType DEF repushDone, LinkSlot
<1>16. ASSUME NEW t \in Threads, FreeReturn(t) PROVE TypeOK'
  BY <1>16 DEF FreeReturn, LinkSlot, Return, Goto, NoLocals
<1>17. ASSUME NEW t \in Threads, NEW a \in DOMAIN MemTree, NEW m \in SUBSET Layers,
              FreeCall(t, a, m)
       PROVE  TypeOK'
  <2>1. loc' \in [Threads -> [size : Nat, mask : SUBSET Layers, addr : Nat,
                             slot : Nat, next : Nat]]
    <3> DEFINE local == [loc[t] EXCEPT !.addr = a, !.mask = m]
    <3>a. a \in Nat /\ loc[t] \in [size : Nat, mask : SUBSET Layers, addr : Nat,
                                   slot : Nat, next : Nat]
      OBVIOUS
    <3>1. local \in [size : Nat, mask : SUBSET Layers, addr : Nat, slot : Nat, next : Nat]
      BY <3>a
    <3>2. loc' = [loc EXCEPT ![t] = local]
      BY <1>17 DEF FreeCall
    <3> HIDE DEF local
    <3> QED
      BY <3>1, <3>2
  <2>2. held' \in [Threads -> SUBSET (Nat \X Layers)]
    BY <1>17, SMTT(30) DEF FreeCall
  <2> QED
    BY <1>17, <2>1, <2>2, SMTT(30) DEF FreeCall, Goto
<1>18. ASSUME NEW t \in Threads, FreeClear(t) PROVE TypeOK'
  <2>1. loc[t].addr \in DOMAIN MemTree
    BY <1>18 DEF FreeClear, PointersValid
  <2>2. clearOwner(MemTree[loc[t].addr], loc[t].mask) \in [Size : Nat \ {0}, OwnerMask : SUBSET Layers]
    BY <1>18, <2>1 DEF clearOwner
  <2> DEFINE node == clearOwner(MemTree[loc[t].addr], loc[t].mask)
  <2>3. /\ MemTree' \in [DOMAIN MemTree' -> [Size : Nat \ {0}, OwnerMask : SUBSET Layers]]
        /\ DOMAIN MemTree' \subseteq Nat
    BY <1>18, <2>1, <2>2 DEF FreeClear
  <2>4. node.Size \in Nat
    BY <2>2
  <2>5. /\ pc' \in [Threads -> Labels]
        /\ loc' \in [Threads -> [size : Nat, mask : SUBSET Layers, addr : Nat,
                                 slot : Nat, next : Nat]]
    <3>1. CASE loc' = [loc EXCEPT ![t] = NoLocals]
      BY <1>18, <3>1 DEF FreeClear, Return, Goto, NoLocals
    <3>2. CASE loc' = [loc EXCEPT ![t].size = node.Size]
      <4> HIDE DEF node
      <4>1. loc' \in [Threads -> [size : Nat, mask : SUBSET Layers, addr : Nat,
                                 slot : Nat, next : Nat]]
        BY <2>4, <3>2
      <4>2. pc' \in [Threads -> Labels]
        BY <1>18 DEF FreeClear, Return, Goto
      <4> QED
        BY <4>1, <4>2
    <3> QED
      BY <1>18, <3>1, <3>2 DEF FreeClear, Return
  <2> QED
    BY <1>18, <2>3, <2>5 DEF FreeClear
<1>19. ASSUME NEW t \in Threads, newFreeSlot(t) PROVE TypeOK'
  <2> DEFINE new == [addr |-> loc[t].addr, size |-> loc[t].size, next |-> Nil]
  <2>a. loc[t].size \in Nat \ {0}
    BY <1>19, CarriedSize DEF newFreeSlot, Carries
  <2>1. new \in [addr : Nat, size : Nat \ {0}, next : Nat]
    BY <2>a
  <2>2. \A s \in DOMAIN slots' : slots'[s] \in [addr : Nat, size : Nat \ {0}, next : Nat]
    BY <1>19, <2>1 DEF newFreeSlot
  <2>3. /\ slots' \in [DOMAIN slots' -> [addr : Nat, size : Nat \ {0}, next : Nat]]
        /\ DOMAIN slots' \subseteq Nat
    BY <1>19, <2>2 DEF newFreeSlot
  <2> QED
    BY <1>19, <2>3 DEF newFreeSlot, Goto, freeSlotSize
<1>20. ASSUME NEW t \in Threads, newFreeSlotExhausted(t) PROVE TypeOK'
  BY <1>20 DEF newFreeSlotExhausted, Return, Goto, NoLocals, freeSlotSize
<1>21. ASSUME NEW t \in Threads, NEW a \in DOMAIN MemTree, NEW m \in SUBSET Layers,
              NEW u \in Threads, Share(t, a, m, u)
       PROVE  TypeOK'
  <2>1. normalizeMask(m) \in SUBSET Layers
    BY NormalizeMask
  <2>2. /\ MemTree' \in [DOMAIN MemTree' -> [Size : Nat \ {0}, OwnerMask : SUBSET Layers]]
        /\ DOMAIN MemTree' \subseteq Nat
    BY <1>21, <2>1 DEF Share
  <2>3. held' \in [Threads -> SUBSET (Nat \X Layers)]
    BY <1>21, <2>1 DEF Share
  <2> QED
    BY <1>21, <2>2, <2>3 DEF Share
<1>22. CASE Reset
  BY <1>22, Geometry DEF Reset
<1>23. CASE Close
  BY <1>23 DEF Close
<1>24. CASE UNCHANGED vars
  BY <1>24 DEF vars
<1> QED
  BY <1>1, <1>2, <1>3, <1>4, <1>5, <1>6, <1>7, <1>8, <1>9, <1>10, <1>11, <1>12,
     <1>13, <1>14, <1>15, <1>16, <1>17, <1>18, <1>19, <1>20, <1>21, <1>22, <1>23,
     <1>24 DEF Next, Step, Call


-------------------------------------------------------------------------------
(* Pointers.                                                               *)

\* New leaves no dangling pointer.
LEMMA PointersInit == Init => PointersValid
BY Geometry DEF Init, PointersValid, HasSlot, Tokens

\* An action that leaves the slots, the nodes and the head alone, and whose
\* goroutine ends up with valid pointers, keeps all pointers valid.
LEMMA PointersFrame ==
  ASSUME TypeOK, PointersValid, NEW t \in Threads,
         UNCHANGED <<slots, freeList>>,
         DOMAIN MemTree' = DOMAIN MemTree,
         nodeBump' \in Nat, nodeBump' >= nodeBump,
         \A u \in Threads \ {t} :
           pc'[u] = pc[u] /\ loc'[u] = loc[u] /\ held'[u] = held[u],
         HasSlot(t)' => loc'[t].slot \in DOMAIN slots,
         pc'[t] = "popCas" => loc'[t].next \in DOMAIN slots \cup {Nil},
         \A o \in Tokens(t)' : o[1] \in DOMAIN MemTree,
         pc'[t] = "clear" => loc'[t].addr \in DOMAIN MemTree
  PROVE  PointersValid'
<1>1. /\ \A s \in DOMAIN slots' :
           /\ Base <= s /\ s + freeSlotSize <= nodeBump' /\ s + freeSlotSize <= nodeEnd
           /\ slots'[s].next \in DOMAIN slots' \cup {Nil}
      /\ nodeBump' >= Base
      /\ freeList' \in DOMAIN slots' \cup {Nil}
  BY Geometry DEF PointersValid, TypeOK, freeSlotSize
<1>2. ASSUME NEW u \in Threads
      PROVE  /\ HasSlot(u)' => loc'[u].slot \in DOMAIN slots'
             /\ pc'[u] = "popCas" => loc'[u].next \in DOMAIN slots' \cup {Nil}
             /\ \A o \in Tokens(u)' : o[1] \in DOMAIN MemTree'
             /\ pc'[u] = "clear" => loc'[u].addr \in DOMAIN MemTree'
  <2>1. CASE u = t
    BY <2>1
  <2>2. CASE u # t
    BY <2>2 DEF PointersValid, HasSlot, Tokens
  <2> QED
    BY <2>1, <2>2
<1> QED
  BY <1>1, <1>2 DEF PointersValid

\* Every action keeps all pointers valid.
LEMMA PointersStep ==
  ASSUME TypeOK, PointersValid, TypeOK', [Next]_vars
  PROVE  PointersValid'
<1> USE DEF TypeOK
<1>1. ASSUME NEW t \in Threads, NEW s \in Sizes, NEW m \in SUBSET Layers, AllocCall(t, s, m)
      PROVE  PointersValid'
  BY <1>1, PointersFrame DEF AllocCall, Goto, HasSlot, Tokens, PointersValid
<1>2. ASSUME NEW t \in Threads, popFreeEmpty(t) PROVE PointersValid'
  BY <1>2, PointersFrame DEF popFreeEmpty, Goto, HasSlot, Tokens, PointersValid
<1>3. ASSUME NEW t \in Threads, popFreeLoadHead(t) PROVE PointersValid'
  BY <1>3, PointersFrame DEF popFreeLoadHead, Goto, HasSlot, Tokens, PointersValid
<1>4. ASSUME NEW t \in Threads, popFreeLoadNext(t) PROVE PointersValid'
  BY <1>4, PointersFrame DEF popFreeLoadNext, Goto, HasSlot, Tokens, PointersValid
<1>5. ASSUME NEW t \in Threads, popFreeRetry(t) PROVE PointersValid'
  BY <1>5, PointersFrame DEF popFreeRetry, Leave, Goto, HasSlot, Tokens, PointersValid
<1>6. ASSUME NEW t \in Threads, popFreeTake(t) PROVE PointersValid'
  BY <1>6 DEF popFreeTake, Goto, HasSlot, Tokens, PointersValid, NoLocals
<1>7. ASSUME NEW t \in Threads, popFreeTooSmall(t) PROVE PointersValid'
  BY <1>7 DEF popFreeTooSmall, Goto, HasSlot, Tokens, PointersValid
<1>8. ASSUME NEW t \in Threads, bumpCarve(t) PROVE PointersValid'
  BY <1>8, PointersFrame DEF bumpCarve, Goto, HasSlot, Tokens, PointersValid
<1>9. ASSUME NEW t \in Threads, bumpExhausted(t) PROVE PointersValid'
  BY <1>9, PointersFrame DEF bumpExhausted, Return, Goto, HasSlot, Tokens, PointersValid
<1>10. ASSUME NEW t \in Threads, newNode(t) PROVE PointersValid'
  BY <1>10, PointersFrame DEF newNode, Goto, BallocNodeSize, HasSlot, Tokens, PointersValid
<1>11. ASSUME NEW t \in Threads, newNodeExhausted(t) PROVE PointersValid'
  BY <1>11, PointersFrame
     DEF newNodeExhausted, Return, Goto, BallocNodeSize, HasSlot, Tokens, PointersValid
<1>12. ASSUME NEW t \in Threads, AllocReturn(t) PROVE PointersValid'
  <2>1. DOMAIN MemTree' = DOMAIN MemTree \cup {loc[t].addr}
    BY <1>12 DEF AllocReturn, insertNode
  <2> QED
    BY <1>12, <2>1 DEF AllocReturn, Return, Goto, HasSlot, Tokens, PointersValid
<1>13. ASSUME NEW t \in Threads, NEW from, NEW to, pushFreeLoad(t, from, to),
              \/ from = "repushLoad" /\ to = "repushCas"
              \/ from = "pushLoad" /\ to = "pushCas"
       PROVE  PointersValid'
  BY <1>13 DEF pushFreeLoad, Goto, HasSlot, Tokens, PointersValid
<1>14. ASSUME NEW t \in Threads, NEW from, NEW to, pushFreeRetry(t, from, to),
              \/ from = "repushCas" /\ to = "repushLoad"
              \/ from = "pushCas" /\ to = "pushLoad"
       PROVE  PointersValid'
  BY <1>14, PointersFrame DEF pushFreeRetry, Goto, HasSlot, Tokens, PointersValid
<1>15. ASSUME NEW t \in Threads, repushDone(t) PROVE PointersValid'
  BY <1>15 DEF repushDone, LinkSlot, Leave, Goto, HasSlot, Tokens, PointersValid
<1>16. ASSUME NEW t \in Threads, FreeReturn(t) PROVE PointersValid'
  BY <1>16 DEF FreeReturn, LinkSlot, Return, Goto, HasSlot, Tokens, PointersValid
<1>17. ASSUME NEW t \in Threads, NEW a \in DOMAIN MemTree, NEW m \in SUBSET Layers,
              FreeCall(t, a, m)
       PROVE  PointersValid'
  BY <1>17, PointersFrame DEF FreeCall, Goto, HasSlot, Tokens, PointersValid
<1>18. ASSUME NEW t \in Threads, FreeClear(t) PROVE PointersValid'
  <2>1. DOMAIN MemTree' = DOMAIN MemTree
    BY <1>18 DEF FreeClear
  <2>2. pc'[t] \in {"idle", "newFreeSlot"}
    BY <1>18 DEF FreeClear, Return, Goto
  <2>3. \A u \in Threads \ {t} : pc'[u] = pc[u] /\ loc'[u] = loc[u] /\ held'[u] = held[u]
    BY <1>18 DEF FreeClear, Return, Goto
  <2>4. \A o \in Tokens(t)' : o[1] \in DOMAIN MemTree
    BY <1>18, <2>2 DEF FreeClear, Tokens, PointersValid
  <2>5. ~HasSlot(t)' /\ pc'[t] \notin {"popCas", "clear"}
    BY <2>2 DEF HasSlot
  <2>6. UNCHANGED <<slots, freeList>> /\ nodeBump' \in Nat /\ nodeBump' >= nodeBump
    BY <1>18 DEF FreeClear
  <2> HIDE DEF TypeOK
  <2> QED
    BY <2>1, <2>3, <2>4, <2>5, <2>6, PointersFrame
<1>19. ASSUME NEW t \in Threads, newFreeSlot(t) PROVE PointersValid'
  <2>1. DOMAIN slots' = DOMAIN slots \cup {nodeBump}
    BY <1>19 DEF newFreeSlot
  <2>2. \A s \in DOMAIN slots' :
           /\ Base <= s /\ s + freeSlotSize <= nodeBump' /\ s + freeSlotSize <= nodeEnd
           /\ slots'[s].next \in DOMAIN slots' \cup {Nil}
    BY <1>19, <2>1, Geometry DEF newFreeSlot, PointersValid, freeSlotSize
  <2>3. nodeBump' >= Base /\ freeList' \in DOMAIN slots' \cup {Nil}
    BY <1>19, <2>1, Geometry DEF newFreeSlot, PointersValid, freeSlotSize
  <2>4. ASSUME NEW u \in Threads
        PROVE  /\ HasSlot(u)' => loc'[u].slot \in DOMAIN slots'
               /\ pc'[u] = "popCas" => loc'[u].next \in DOMAIN slots' \cup {Nil}
               /\ \A o \in Tokens(u)' : o[1] \in DOMAIN MemTree'
               /\ pc'[u] = "clear" => loc'[u].addr \in DOMAIN MemTree'
    <3>1. CASE u = t
      BY <1>19, <2>1, <3>1 DEF newFreeSlot, Goto, HasSlot, Tokens, PointersValid
    <3>2. CASE u # t
      BY <1>19, <2>1, <3>2 DEF newFreeSlot, Goto, HasSlot, Tokens, PointersValid
    <3> QED
      BY <3>1, <3>2
  <2> QED
    BY <2>2, <2>3, <2>4 DEF PointersValid
<1>20. ASSUME NEW t \in Threads, newFreeSlotExhausted(t) PROVE PointersValid'
  BY <1>20, PointersFrame
     DEF newFreeSlotExhausted, Return, Goto, freeSlotSize, HasSlot, Tokens, PointersValid
<1>21. ASSUME NEW t \in Threads, NEW a \in DOMAIN MemTree, NEW m \in SUBSET Layers,
              NEW u \in Threads, Share(t, a, m, u)
       PROVE  PointersValid'
  BY <1>21 DEF Share, HasSlot, Tokens, PointersValid
<1>22. CASE Reset
  <2>1. DOMAIN slots' = {} /\ freeList' = Nil /\ nodeBump' >= Base
    BY <1>22, Geometry DEF Reset
  <2>2. \A t \in Threads : pc'[t] = "idle" /\ Tokens(t)' = {}
    BY <1>22 DEF Reset, Quiescent, Tokens
  <2> QED
    BY <2>1, <2>2 DEF PointersValid, HasSlot
<1>23. CASE Close
  BY <1>23 DEF Close, HasSlot, Tokens, PointersValid
<1>24. CASE UNCHANGED vars
  BY <1>24 DEF vars, HasSlot, Tokens, PointersValid
<1> QED
  BY <1>1, <1>2, <1>3, <1>4, <1>5, <1>6, <1>7, <1>8, <1>9, <1>10, <1>11, <1>12,
     <1>13, <1>14, <1>15, <1>16, <1>17, <1>18, <1>19, <1>20, <1>21, <1>22, <1>23,
     <1>24 DEF Next, Step, Call

-------------------------------------------------------------------------------
(* Blocks.                                                                 *)

\* What Alloc makes of a size is an aligned size.
LEMMA AlignedSize ==
  ASSUME NEW n \in AlignedSizes
  PROVE  n \in Nat /\ n > 0 /\ n % 8 = 0
BY AlignUp8, ParameterAssumption DEF AlignedSizes

\* The size, in a call that is looking for a block, of the block it wants.
Wanting(t) ==
  pc[t] \in {"popLoad", "popNext", "popCas", "repushLoad", "repushCas", "bump"}

\* New has carved no block.
LEMMA BlocksInit == Init => BlocksCarved /\ BlocksDisjoint
<1> SUFFICES ASSUME Init PROVE BlocksCarved /\ BlocksDisjoint
  OBVIOUS
<1>1. Blocks = {}
  BY DEF Init, Blocks, Carries
<1> QED
  BY <1>1, Geometry DEF Init, BlocksCarved, BlocksDisjoint

\* What Blocks has.
LEMMA InBlocks ==
  /\ \A a \in DOMAIN MemTree : <<a, MemTree[a].Size>> \in Blocks
  /\ \A s \in DOMAIN slots : <<slots[s].addr, slots[s].size>> \in Blocks
  /\ \A t \in Threads : Carries(t) => <<loc[t].addr, loc[t].size>> \in Blocks
BY DEF Blocks

\* A step of goroutine t that adds no block, and does not lower the bump
\* pointer, keeps the blocks carved and disjoint.
LEMMA BlocksFrame ==
  ASSUME TypeOK, TypeOK', BlocksCarved, BlocksDisjoint, NEW t \in Threads,
         \A a \in DOMAIN MemTree' : <<a, MemTree'[a].Size>> \in Blocks,
         \A s \in DOMAIN slots' : <<slots'[s].addr, slots'[s].size>> \in Blocks,
         \A u \in Threads \ {t} : pc'[u] = pc[u] /\ loc'[u] = loc[u],
         Carries(t)' => <<loc'[t].addr, loc'[t].size>> \in Blocks,
         Wanting(t)' => loc'[t].size \in AlignedSizes,
         bump' >= bump, bump' % 8 = 0
  PROVE  BlocksCarved' /\ BlocksDisjoint'
<1>1. \A b \in Blocks : b[1] \in Nat /\ b[2] \in Nat
  BY DEF Blocks, TypeOK
<1>2. \A u \in Threads : Carries(u)' => <<loc'[u].addr, loc'[u].size>> \in Blocks
  BY InBlocks DEF Carries
<1>3. Blocks' \subseteq Blocks
  BY <1>2 DEF Blocks
<1>4. \A u \in Threads : Wanting(u)' => loc'[u].size \in AlignedSizes
  BY DEF BlocksCarved, Wanting
<1>5. BlocksCarved'
  BY <1>1, <1>3, <1>4, Geometry DEF BlocksCarved, TypeOK, Wanting
<1>6. BlocksDisjoint'
  BY <1>3 DEF BlocksDisjoint
<1> QED
  BY <1>5, <1>6

\* The new block of bumpCarve lies above all others.
LEMMA BlocksCarve ==
  ASSUME TypeOK, TypeOK', BlocksCarved, BlocksDisjoint, NEW t \in Threads, bumpCarve(t)
  PROVE  BlocksCarved' /\ BlocksDisjoint'
<1> DEFINE new == <<bump, loc[t].size>>
<1>1. loc[t].size \in Nat /\ loc[t].size % 8 = 0 /\ loc[t].size \in AlignedSizes
  BY AlignedSize DEF bumpCarve, BlocksCarved
<1>2. bump \in Nat /\ bump % 8 = 0 /\ bump' = bump + loc[t].size /\ bump' <= payloadEnd
  BY DEF bumpCarve, BlocksCarved, TypeOK
<1>3. bump' % 8 = 0 /\ bump' \in Nat
  BY <1>1, <1>2
<1>4. \A b \in Blocks : b[1] \in Nat /\ b[2] \in Nat
  BY DEF Blocks, TypeOK
<1>5. Blocks' \subseteq Blocks \cup {new}
  <2>1. \A u \in Threads : Carries(u)' => <<loc'[u].addr, loc'[u].size>> \in Blocks \cup {new}
    BY InBlocks DEF bumpCarve, Goto, Carries, TypeOK
  <2> QED
    BY <2>1 DEF bumpCarve, Blocks
<1>6. \A u \in Threads : Wanting(u)' => loc'[u].size \in AlignedSizes
  BY DEF bumpCarve, Goto, BlocksCarved, Wanting, TypeOK
<1>7. \A b \in Blocks' : b[1] + b[2] <= bump' /\ b[2] \in AlignedSizes
  BY <1>1, <1>2, <1>4, <1>5 DEF BlocksCarved
<1>8. BlocksCarved'
  BY <1>1, <1>2, <1>3, <1>6, <1>7, Geometry DEF BlocksCarved, Wanting
<1>9. ASSUME NEW b \in Blocks', NEW c \in Blocks'
      PROVE  /\ payloadBase <= b[1] /\ b[1] + b[2] <= payloadEnd /\ b[1] % 8 = 0
             /\ b = c \/ b[1] + b[2] <= c[1] \/ c[1] + c[2] <= b[1]
  <2>1. CASE b \in Blocks /\ c \in Blocks
    BY <2>1 DEF BlocksDisjoint
  <2>2. CASE b = new /\ c = new
    BY <1>2, <2>2 DEF BlocksCarved
  <2>3. CASE b = new /\ c \in Blocks
    BY <1>2, <2>3 DEF BlocksCarved
  <2>4. CASE b \in Blocks /\ c = new
    BY <2>4 DEF BlocksCarved, BlocksDisjoint
  <2> QED
    BY <1>5, <2>1, <2>2, <2>3, <2>4
<1> QED
  BY <1>8, <1>9 DEF BlocksDisjoint

\* Every action keeps the blocks carved and disjoint.
LEMMA BlocksStep ==
  ASSUME TypeOK, TypeOK', PointersValid, BlocksCarved, BlocksDisjoint, [Next]_vars
  PROVE  BlocksCarved' /\ BlocksDisjoint'
<1> DEFINE Done == BlocksCarved' /\ BlocksDisjoint'
<1>0. /\ bump \in Nat /\ bump % 8 = 0
      /\ \A t \in Threads : Wanting(t) => loc[t].size \in AlignedSizes
  BY DEF TypeOK, BlocksCarved, Wanting
<1> DEFINE Frame(t) ==
             /\ \A a \in DOMAIN MemTree' : <<a, MemTree'[a].Size>> \in Blocks
             /\ \A s \in DOMAIN slots' : <<slots'[s].addr, slots'[s].size>> \in Blocks
             /\ \A u \in Threads \ {t} : pc'[u] = pc[u] /\ loc'[u] = loc[u]
             /\ Carries(t)' => <<loc'[t].addr, loc'[t].size>> \in Blocks
             /\ Wanting(t)' => loc'[t].size \in AlignedSizes
             /\ bump' >= bump /\ bump' % 8 = 0
<1>f. ASSUME NEW t \in Threads, Frame(t) PROVE Done
  BY <1>f, BlocksFrame
<1>u. UNCHANGED <<MemTree, slots>> =>
        /\ \A a \in DOMAIN MemTree' : <<a, MemTree'[a].Size>> \in Blocks
        /\ \A s \in DOMAIN slots' : <<slots'[s].addr, slots'[s].size>> \in Blocks
  BY InBlocks
<1>1. ASSUME NEW t \in Threads, NEW s \in Sizes, NEW m \in SUBSET Layers, AllocCall(t, s, m)
      PROVE  Frame(t)
  <2>1. Wanting(t)' => loc'[t].size \in AlignedSizes
    BY <1>1 DEF AllocCall, AlignedSizes, TypeOK
  <2> QED
    BY <1>0, <1>1, <2>1, <1>u, InBlocks DEF AllocCall, Goto, Carries, TypeOK
<1>2. ASSUME NEW t \in Threads, popFreeEmpty(t) PROVE Frame(t)
  BY <1>0, <1>2, <1>u, InBlocks DEF popFreeEmpty, Goto, Carries, Wanting, TypeOK
<1>3. ASSUME NEW t \in Threads, popFreeLoadHead(t) PROVE Frame(t)
  BY <1>0, <1>3, <1>u, InBlocks DEF popFreeLoadHead, Goto, Carries, Wanting, TypeOK
<1>4. ASSUME NEW t \in Threads, popFreeLoadNext(t) PROVE Frame(t)
  BY <1>0, <1>4, <1>u, InBlocks DEF popFreeLoadNext, Goto, Carries, Wanting, TypeOK
<1>5. ASSUME NEW t \in Threads, popFreeRetry(t) PROVE Frame(t)
  BY <1>0, <1>5, <1>u, InBlocks DEF popFreeRetry, Leave, Goto, Carries, Wanting, TypeOK
<1>6. ASSUME NEW t \in Threads, popFreeTake(t) PROVE Frame(t)
  <2>1. loc[t].slot \in DOMAIN slots
    BY <1>6 DEF popFreeTake, PointersValid, HasSlot
  <2>2. loc'[t].addr = slots[loc[t].slot].addr /\ loc'[t].size = slots[loc[t].slot].size
    BY <1>6 DEF popFreeTake, NoLocals, TypeOK
  <2> QED
    BY <1>0, <1>6, <2>1, <2>2, <1>u, InBlocks
       DEF popFreeTake, Goto, Carries, Wanting, TypeOK
<1>7. ASSUME NEW t \in Threads, popFreeTooSmall(t) PROVE Frame(t)
  BY <1>0, <1>7, <1>u, InBlocks DEF popFreeTooSmall, Goto, Carries, Wanting, TypeOK
<1>8. ASSUME NEW t \in Threads, bumpCarve(t) PROVE Done
  BY <1>8, BlocksCarve
<1>9. ASSUME NEW t \in Threads, bumpExhausted(t) PROVE Frame(t)
  <2>1. bump' = bump + loc[t].size /\ loc[t].size \in Nat /\ loc[t].size % 8 = 0
    BY <1>0, <1>9, AlignedSize DEF bumpExhausted, Wanting
  <2>2. bump' % 8 = 0 /\ bump' >= bump
    BY <1>0, <2>1
  <2> QED
    BY <1>9, <2>2, <1>u, InBlocks
       DEF bumpExhausted, Return, Goto, Carries, Wanting, TypeOK
<1>10. ASSUME NEW t \in Threads, newNode(t) PROVE Frame(t)
  BY <1>0, <1>10, <1>u, InBlocks DEF newNode, Goto, Carries, Wanting, TypeOK
<1>11. ASSUME NEW t \in Threads, newNodeExhausted(t) PROVE Frame(t)
  BY <1>0, <1>11, <1>u, InBlocks
     DEF newNodeExhausted, Return, Goto, Carries, Wanting, TypeOK
<1>12. ASSUME NEW t \in Threads, AllocReturn(t) PROVE Frame(t)
  <2>1. <<loc[t].addr, loc[t].size>> \in Blocks
    BY <1>12, <1>u, InBlocks DEF AllocReturn, Carries
  <2>2. \A a \in DOMAIN MemTree' : <<a, MemTree'[a].Size>> \in Blocks
    BY <1>12, <2>1, <1>u, InBlocks DEF AllocReturn, insertNode
  <2> QED
    BY <1>0, <1>12, <2>2, <1>u, InBlocks
       DEF AllocReturn, Return, Goto, Carries, Wanting, TypeOK
<1>13. ASSUME NEW t \in Threads, NEW from, NEW to, pushFreeLoad(t, from, to),
              \/ from = "repushLoad" /\ to = "repushCas"
              \/ from = "pushLoad" /\ to = "pushCas"
       PROVE  Frame(t)
  <2>1. \A s \in DOMAIN slots' : <<slots'[s].addr, slots'[s].size>> \in Blocks
    BY <1>13, <1>u, InBlocks DEF pushFreeLoad, TypeOK
  <2> QED
    BY <1>0, <1>13, <2>1, <1>u, InBlocks
       DEF pushFreeLoad, Goto, Carries, Wanting, TypeOK
<1>14. ASSUME NEW t \in Threads, NEW from, NEW to, pushFreeRetry(t, from, to),
              \/ from = "repushCas" /\ to = "repushLoad"
              \/ from = "pushCas" /\ to = "pushLoad"
       PROVE  Frame(t)
  BY <1>0, <1>14, <1>u, InBlocks DEF pushFreeRetry, Goto, Carries, Wanting, TypeOK
<1>15. ASSUME NEW t \in Threads, repushDone(t) PROVE Frame(t)
  BY <1>0, <1>15, <1>u, InBlocks DEF repushDone, Leave, Goto, Carries, Wanting, TypeOK
<1>16. ASSUME NEW t \in Threads, FreeReturn(t) PROVE Frame(t)
  BY <1>0, <1>16, <1>u, InBlocks DEF FreeReturn, Return, Goto, Carries, Wanting, TypeOK
<1>17. ASSUME NEW t \in Threads, NEW a \in DOMAIN MemTree, NEW m \in SUBSET Layers,
              FreeCall(t, a, m)
       PROVE  Frame(t)
  BY <1>0, <1>17, <1>u, InBlocks DEF FreeCall, Goto, Carries, Wanting, TypeOK
<1>18. ASSUME NEW t \in Threads, FreeClear(t) PROVE Frame(t)
  <2> DEFINE node == clearOwner(MemTree[loc[t].addr], loc[t].mask)
  <2>1. loc[t].addr \in DOMAIN MemTree
    BY <1>18 DEF FreeClear, PointersValid
  <2>2. node.Size = MemTree[loc[t].addr].Size
    BY <2>1 DEF clearOwner, TypeOK
  <2>3. \A a \in DOMAIN MemTree' : <<a, MemTree'[a].Size>> \in Blocks
    BY <1>18, <2>1, <2>2, <1>u, InBlocks DEF FreeClear
  <2>4. Carries(t)' => <<loc'[t].addr, loc'[t].size>> \in Blocks
    <3>1. CASE node.OwnerMask # {}
      BY <1>18, <3>1 DEF FreeClear, Return, Goto, Carries, TypeOK
    <3>2. CASE node.OwnerMask = {}
      <4>1. loc' = [loc EXCEPT ![t].size = node.Size]
        BY <1>18, <3>2 DEF FreeClear
      <4>2. loc'[t].addr = loc[t].addr /\ loc'[t].size = MemTree[loc[t].addr].Size
        BY <4>1, <2>2 DEF TypeOK
      <4> QED
        BY <4>2, <2>1, <1>u, InBlocks
    <3> QED
      BY <3>1, <3>2
  <2>5. \A v \in Threads \ {t} : pc'[v] = pc[v] /\ loc'[v] = loc[v]
    BY <1>18 DEF FreeClear, Return, Goto, TypeOK
  <2>6. ~Wanting(t)'
    BY <1>18 DEF FreeClear, Return, Goto, Wanting, TypeOK
  <2> QED
    BY <1>0, <1>18, <2>3, <2>4, <2>5, <2>6, <1>u, InBlocks, SMTT(30) DEF FreeClear, TypeOK
<1>19. ASSUME NEW t \in Threads, newFreeSlot(t) PROVE Frame(t)
  <2>1. <<loc[t].addr, loc[t].size>> \in Blocks
    BY <1>19, <1>u, InBlocks DEF newFreeSlot, Carries
  <2>2. \A s \in DOMAIN slots' : <<slots'[s].addr, slots'[s].size>> \in Blocks
    BY <1>19, <2>1, <1>u, InBlocks DEF newFreeSlot
  <2> QED
    BY <1>0, <1>19, <2>1, <2>2, <1>u, InBlocks
       DEF newFreeSlot, Goto, Carries, Wanting, TypeOK
<1>20. ASSUME NEW t \in Threads, newFreeSlotExhausted(t) PROVE Frame(t)
  BY <1>0, <1>20, <1>u, InBlocks
     DEF newFreeSlotExhausted, Return, Goto, Carries, Wanting, TypeOK
<1>21. ASSUME NEW t \in Threads, NEW a \in DOMAIN MemTree, NEW m \in SUBSET Layers,
              NEW u \in Threads, Share(t, a, m, u)
       PROVE  Frame(t)
  <2>1. \A b \in DOMAIN MemTree' : <<b, MemTree'[b].Size>> \in Blocks
    BY <1>21, <1>u, InBlocks DEF Share, TypeOK
  <2> QED
    BY <1>0, <1>21, <2>1, <1>u, InBlocks DEF Share, Carries, Wanting, TypeOK
<1>22. CASE Reset
  <2>1. Blocks' = {}
    BY <1>22 DEF Reset, Quiescent, Blocks, Carries
  <2> QED
    BY <1>22, <2>1, Geometry DEF Reset, Quiescent, BlocksCarved, BlocksDisjoint
<1>23. CASE Close
  BY <1>23 DEF Close, BlocksCarved, BlocksDisjoint, Blocks, Carries
<1>24. CASE UNCHANGED vars
  BY <1>24 DEF vars, BlocksCarved, BlocksDisjoint, Blocks, Carries
<1> QED
  BY <1>1, <1>2, <1>3, <1>4, <1>5, <1>6, <1>7, <1>8, <1>9, <1>10, <1>11, <1>12,
     <1>13, <1>14, <1>15, <1>16, <1>17, <1>18, <1>19, <1>20, <1>21, <1>22, <1>23,
     <1>24, <1>f DEF Next, Step, Call

-------------------------------------------------------------------------------

\* The invariant of balloc that holds for all mixes of sizes, also when the
\* free list goes wrong.
THEOREM BaseInvariant == Spec => []BaseInv
<1>1. Init => BaseInv
  BY TypeInit, PointersInit, BlocksInit DEF BaseInv
<1>2. BaseInv /\ [Next]_vars => BaseInv'
  BY TypeStep, PointersStep, BlocksStep DEF BaseInv
<1> QED
  BY <1>1, <1>2, PTL DEF Spec

\* The fields of BlockAllocator and the locals of its methods keep their
\* types: owner masks hold layer bits and nothing else, and no block is empty.
THEOREM TypeCorrect == Spec => []TypeOK
BY BaseInvariant, PTL DEF BaseInv

\* popFree, pushFree and clearOwner never dereference a pointer to metadata
\* that was not carved and filled in: for every number of goroutines, every
\* set of request sizes and every interleaving.
THEOREM NoDanglingPointer == Spec => []PointersValid
BY BaseInvariant, PTL DEF BaseInv

\* The blocks the allocator knows of, wherever they are, never overlap, and
\* lie aligned in the payload: for every number of goroutines, every set of
\* request sizes and every interleaving of the lock-free operations.
THEOREM Disjointness == Spec => []BlocksDisjoint
BY BaseInvariant, PTL DEF BaseInv

-------------------------------------------------------------------------------
(* When all requests round up to one size, the free list is safe: for      *)
(* every number of goroutines and every interleaving, no block is ever in  *)
(* two hands, none is lost and the count is exact.                         *)

USE DEF Nil

\* Slots are not nil, and a new one is not an old one.
LEMMA SlotAddresses ==
  ASSUME BaseInv
  PROVE  \A s \in DOMAIN slots : s # Nil /\ s # nodeBump /\ s \in Nat
<1> SUFFICES ASSUME NEW s \in DOMAIN slots PROVE s # Nil /\ s # nodeBump /\ s \in Nat
  OBVIOUS
<1>1. s \in Nat /\ nodeBump \in Nat
  BY DEF BaseInv, TypeOK
<1>2. Base <= s /\ s + freeSlotSize <= nodeBump
  BY DEF BaseInv, PointersValid
<1> QED
  BY <1>1, <1>2, Geometry DEF freeSlotSize

\* popFree finds every slot large enough.
LEMMA NeverTooSmall ==
  ASSUME UniformSizes, BaseInv, NEW t \in Threads
  PROVE  ~popFreeTooSmall(t)
<1> SUFFICES ASSUME popFreeTooSmall(t) PROVE FALSE
  OBVIOUS
<1>1. loc[t].slot \in DOMAIN slots /\ loc[t].size \in AlignedSizes
  BY DEF popFreeTooSmall, BaseInv, PointersValid, HasSlot, BlocksCarved
<1>2. slots[loc[t].slot].size \in AlignedSizes
  BY <1>1, InBlocks DEF BaseInv, BlocksCarved
<1>3. slots[loc[t].slot].size = loc[t].size /\ loc[t].size \in Nat
  BY <1>1, <1>2, AlignedSize DEF UniformSizes
<1> QED
  BY <1>3 DEF popFreeTooSmall

\* A CAS that takes the head takes an available slot and leaves its successor.
LEMMA TakeHead ==
  ASSUME BaseInv, UniformInv, NEW t \in Threads, popFreeTake(t)
  PROVE  /\ loc[t].slot \in avail /\ loc[t].slot = freeList
         /\ freeList' = slots[freeList].next /\ avail' = avail \ {freeList}
         /\ slots' = slots
<1>1. loc[t].slot \in DOMAIN slots /\ loc[t].slot # Nil
  BY SlotAddresses DEF popFreeTake, BaseInv, PointersValid, HasSlot
<1> QED
  BY <1>1 DEF popFreeTake, UniformInv, ListShape, SlotsStable

-------------------------------------------------------------------------------
(* The shape of the free list.                                             *)

\* Every action keeps the shape of the free list.
LEMMA ListStep ==
  ASSUME UniformSizes, BaseInv, UniformInv, [Next]_vars
  PROVE  ListShape'
<1> USE DEF UniformInv
<1>1. ASSUME NEW t \in Threads, popFreeTake(t) PROVE ListShape'
  BY <1>1, TakeHead DEF ListShape
<1>2. ASSUME NEW t \in Threads, NEW from, NEW to, pushFreeLoad(t, from, to),
             \/ from = "repushLoad" /\ to = "repushCas"
             \/ from = "pushLoad" /\ to = "pushCas"
      PROVE  ListShape'
  <2>1. loc[t].slot \notin avail
    BY <1>2 DEF pushFreeLoad, SlotsStable, Pushing
  <2>2. DOMAIN slots' = DOMAIN slots
    BY <1>2 DEF pushFreeLoad, BaseInv, TypeOK
  <2>3. \A s \in DOMAIN slots : s # loc[t].slot => slots'[s] = slots[s]
    BY <1>2 DEF pushFreeLoad, BaseInv, TypeOK
  <2>4. \A s \in avail : slots'[s] = slots[s]
    BY <2>1, <2>3 DEF ListShape
  <2>5. freeList' = freeList /\ avail' = avail
    BY <1>2 DEF pushFreeLoad
  <2> QED
    BY <2>2, <2>4, <2>5 DEF ListShape
<1>3. ASSUME NEW t \in Threads, newFreeSlot(t) PROVE ListShape'
  <2>1. nodeBump \notin DOMAIN slots
    BY SlotAddresses
  <2>2. DOMAIN slots' = DOMAIN slots \cup {nodeBump} /\ \A s \in avail : slots'[s] = slots[s]
    BY <1>3, <2>1 DEF newFreeSlot, ListShape
  <2> QED
    BY <1>3, <2>2 DEF newFreeSlot, ListShape
<1>4. ASSUME NEW t \in Threads, FreeReturn(t) PROVE ListShape'
  <2>1. /\ loc[t].slot \in DOMAIN slots \ avail /\ loc[t].slot # Nil
        /\ slots[loc[t].slot].next = freeList
    BY <1>4, SlotAddresses
       DEF FreeReturn, LinkSlot, SlotsStable, Pushing, BaseInv, PointersValid, HasSlot
  <2>2. freeList' = loc[t].slot /\ avail' = avail \cup {loc[t].slot} /\ slots' = slots
    BY <1>4 DEF FreeReturn, LinkSlot
  <2> QED
    BY <2>1, <2>2 DEF ListShape
<1>5. ASSUME NEW t \in Threads, repushDone(t) PROVE FALSE
  BY <1>5 DEF repushDone, SlotsStable
<1>6. CASE Reset
  BY <1>6 DEF Reset, ListShape
<1>7. ASSUME UNCHANGED <<slots, freeList, avail>> PROVE ListShape'
  BY <1>7 DEF ListShape
<1>8. ASSUME NEW t \in Threads, Step(t) PROVE ListShape'
  BY <1>1, <1>2, <1>3, <1>4, <1>5, <1>7, <1>8, NeverTooSmall
     DEF Step, popFreeEmpty, popFreeLoadHead, popFreeLoadNext, popFreeRetry, bumpCarve,
         bumpExhausted, newNode, newNodeExhausted, AllocReturn, pushFreeRetry, FreeClear,
         newFreeSlotExhausted
<1>9. ASSUME NEW t \in Threads, Call(t) PROVE ListShape'
  BY <1>7, <1>9 DEF Call, AllocCall, FreeCall, Share
<1> QED
  BY <1>6, <1>7, <1>8, <1>9 DEF Next, vars, Close

-------------------------------------------------------------------------------
(* Slots do not change while popFree looks at them.                        *)

\* The part of SlotsStable about goroutines t and u.
Stable(t, u) ==
  /\ pc[t] \notin {"repushLoad", "repushCas"}
  /\ pc[t] \in {"popCas", "pushCas"} => slots[loc[t].slot].next = loc[t].next
  /\ Pushing(t) => loc[t].slot \notin avail /\ slots[loc[t].slot].addr = loc[t].addr
  /\ Popping(t) /\ Pushing(u) => loc[t].slot # loc[u].slot

\* SlotsStable, one pair of goroutines at a time.
LEMMA StableDef == SlotsStable <=> \A t, u \in Threads : Stable(t, u)
BY DEF SlotsStable, Stable

\* A step of t that adds no slot to avail and changes no slot keeps the slots
\* stable if it does so for t.
LEMMA StableFrame ==
  ASSUME SlotsStable, NEW t \in Threads,
         slots' = slots, avail' \subseteq avail,
         \A u \in Threads \ {t} : pc'[u] = pc[u] /\ loc'[u] = loc[u],
         Stable(t, t)',
         \A u \in Threads \ {t} : Popping(t)' /\ Pushing(u) => loc'[t].slot # loc[u].slot,
         Pushing(t)' => Pushing(t) /\ loc'[t].slot = loc[t].slot
  PROVE  SlotsStable'
<1> SUFFICES ASSUME NEW v \in Threads, NEW u \in Threads PROVE Stable(v, u)'
  BY DEF SlotsStable, Stable
<1>1. CASE v = t
  BY <1>1 DEF Stable, Pushing
<1>2. CASE v # t
  BY <1>2, StableDef DEF Stable, Pushing, Popping
<1> QED
  BY <1>1, <1>2

\* Every action leaves alone what a popFree or pushFree in progress has read.
LEMMA StableStep ==
  ASSUME UniformSizes, BaseInv, UniformInv, [Next]_vars
  PROVE  SlotsStable'
<1>0. ASSUME NEW t \in Threads, HasSlot(t)
      PROVE  loc[t].slot \in DOMAIN slots /\ loc[t].slot # Nil /\ loc[t].slot # nodeBump
  BY <1>0, SlotAddresses DEF BaseInv, PointersValid
<1>a. SlotsStable /\ ListShape /\ BlocksExclusive
  BY DEF UniformInv
<1>t. /\ pc \in [Threads -> Labels]
      /\ loc \in [Threads -> [size : Nat, mask : SUBSET Layers, addr : Nat,
                              slot : Nat, next : Nat]]
      /\ slots \in [DOMAIN slots -> [addr : Nat, size : Nat \ {0}, next : Nat]]
  BY DEF BaseInv, TypeOK
<1> USE DEF Goto, Popping, Pushing
<1>1. ASSUME NEW t \in Threads, UNCHANGED <<slots, avail>>,
             pc'[t] \notin {"popNext", "popCas", "repushLoad", "repushCas", "pushLoad", "pushCas"},
             \A u \in Threads \ {t} : pc'[u] = pc[u] /\ loc'[u] = loc[u]
      PROVE  SlotsStable'
  BY <1>1, <1>a, StableFrame DEF Stable
<1>2. ASSUME NEW t \in Threads, popFreeLoadHead(t) PROVE SlotsStable'
  <2>1. freeList \in avail
    BY <1>2, <1>a DEF popFreeLoadHead, ListShape
  <2>2. \A u \in Threads : Pushing(u) => loc[u].slot # freeList
    BY <2>1, <1>a DEF SlotsStable
  <2>3. /\ pc'[t] = "popNext" /\ loc'[t].slot = freeList /\ UNCHANGED <<slots, avail>>
        /\ \A u \in Threads \ {t} : pc'[u] = pc[u] /\ loc'[u] = loc[u]
    BY <1>2, <1>t DEF popFreeLoadHead
  <2> QED
    BY <1>a, <2>2, <2>3, StableFrame DEF Stable
<1>3. ASSUME NEW t \in Threads, popFreeLoadNext(t) PROVE SlotsStable'
  <2>1. /\ pc[t] = "popNext" /\ pc'[t] = "popCas" /\ UNCHANGED <<slots, avail>>
        /\ loc'[t].slot = loc[t].slot /\ loc'[t].next = slots[loc[t].slot].next
        /\ \A u \in Threads \ {t} : pc'[u] = pc[u] /\ loc'[u] = loc[u]
    BY <1>3, <1>t DEF popFreeLoadNext
  <2>2. \A u \in Threads : Pushing(u) => loc[u].slot # loc[t].slot
    BY <2>1, <1>a DEF SlotsStable
  <2> QED
    BY <1>a, <2>1, <2>2, StableFrame DEF Stable
<1>4. ASSUME NEW t \in Threads, popFreeTake(t) PROVE SlotsStable'
  <2>1. /\ pc'[t] = "newNode" /\ slots' = slots /\ avail' \subseteq avail
        /\ \A u \in Threads \ {t} : pc'[u] = pc[u] /\ loc'[u] = loc[u]
    BY <1>4, <1>t DEF popFreeTake
  <2> QED
    BY <1>a, <2>1, StableFrame DEF Stable
<1>5. ASSUME NEW t \in Threads, NEW from, NEW to, pushFreeLoad(t, from, to),
             \/ from = "repushLoad" /\ to = "repushCas"
             \/ from = "pushLoad" /\ to = "pushCas"
      PROVE  SlotsStable'
  <2>1. pc[t] = "pushLoad" /\ pc'[t] = "pushCas" /\ avail' = avail
    BY <1>5, <1>a, <1>t DEF pushFreeLoad, SlotsStable
  <2>2. /\ loc'[t].slot = loc[t].slot /\ loc'[t].addr = loc[t].addr /\ loc'[t].next = freeList
        /\ \A u \in Threads \ {t} : pc'[u] = pc[u] /\ loc'[u] = loc[u]
    BY <1>5, <1>t DEF pushFreeLoad
  <2>3. \A s \in DOMAIN slots :
          /\ slots'[s].addr = slots[s].addr
          /\ s # loc[t].slot => slots'[s].next = slots[s].next
          /\ s = loc[t].slot => slots'[s].next = freeList
    BY <1>5, <1>t DEF pushFreeLoad
  <2>4. \A u \in Threads \ {t} : Popping(u) \/ Pushing(u) => loc[u].slot # loc[t].slot
    BY <2>1, <1>a DEF SlotsStable, BlocksExclusive, Carries
  <2>5. \A u \in Threads : Popping(u) \/ Pushing(u) => loc[u].slot \in DOMAIN slots
    BY <1>0 DEF HasSlot
  <2> SUFFICES ASSUME NEW v \in Threads, NEW u \in Threads PROVE Stable(v, u)'
    BY DEF SlotsStable, Stable
  <2>6. Stable(v, u)
    BY <1>a DEF SlotsStable, Stable
  <2> QED
    BY <2>1, <2>2, <2>3, <2>4, <2>5, <2>6 DEF Stable
<1>6. ASSUME NEW t \in Threads, NEW from, NEW to, pushFreeRetry(t, from, to),
             \/ from = "repushCas" /\ to = "repushLoad"
             \/ from = "pushCas" /\ to = "pushLoad"
      PROVE  SlotsStable'
  <2>1. /\ pc[t] = "pushCas" /\ pc'[t] = "pushLoad" /\ UNCHANGED <<slots, avail, loc>>
        /\ \A u \in Threads \ {t} : pc'[u] = pc[u]
    BY <1>6, <1>a, <1>t DEF pushFreeRetry, SlotsStable
  <2> QED
    BY <1>a, <2>1, StableFrame DEF Stable, SlotsStable
<1>7. ASSUME NEW t \in Threads, newFreeSlot(t) PROVE SlotsStable'
  <2>1. /\ pc'[t] = "pushLoad" /\ loc'[t].slot = nodeBump /\ avail' = avail
        /\ loc'[t].addr = loc[t].addr
        /\ \A u \in Threads \ {t} : pc'[u] = pc[u] /\ loc'[u] = loc[u]
    BY <1>7, <1>t DEF newFreeSlot
  <2>2. slots'[nodeBump].addr = loc[t].addr /\ \A s \in DOMAIN slots : s # nodeBump => slots'[s] = slots[s]
    BY <1>7 DEF newFreeSlot
  <2>3. \A u \in Threads : Popping(u) \/ Pushing(u) =>
           loc[u].slot # nodeBump /\ loc[u].slot \in DOMAIN slots
    BY <1>0 DEF HasSlot
  <2>4. nodeBump \notin avail
    BY <1>a, SlotAddresses DEF ListShape
  <2> SUFFICES ASSUME NEW v \in Threads, NEW u \in Threads PROVE Stable(v, u)'
    BY DEF SlotsStable, Stable
  <2>5. Stable(v, u)
    BY <1>a DEF SlotsStable, Stable
  <2> QED
    BY <2>1, <2>2, <2>3, <2>4, <2>5 DEF Stable
<1>8. ASSUME NEW t \in Threads, FreeReturn(t) PROVE SlotsStable'
  <2>1. /\ pc[t] = "pushCas" /\ pc'[t] = "idle" /\ slots' = slots /\ avail' = avail \cup {loc[t].slot}
        /\ \A u \in Threads \ {t} : pc'[u] = pc[u] /\ loc'[u] = loc[u]
    BY <1>8, <1>t DEF FreeReturn, LinkSlot, Return
  <2>2. \A u \in Threads \ {t} : Pushing(u) => loc[u].slot # loc[t].slot
    BY <2>1, <1>a DEF SlotsStable, BlocksExclusive, Carries
  <2> SUFFICES ASSUME NEW v \in Threads, NEW u \in Threads PROVE Stable(v, u)'
    BY DEF SlotsStable, Stable
  <2>3. Stable(v, u)
    BY <1>a DEF SlotsStable, Stable
  <2> QED
    BY <2>1, <2>2, <2>3 DEF Stable
<1>9. ASSUME UNCHANGED <<slots, avail, pc, loc>> PROVE SlotsStable'
  BY <1>9, <1>a DEF SlotsStable
<1>10. CASE Reset
  BY <1>10 DEF Reset, Quiescent, SlotsStable
<1>11. ASSUME NEW t \in Threads, FreeClear(t) PROVE SlotsStable'
  BY <1>11, <1>t, <1>1 DEF FreeClear, Return
<1>12. ASSUME NEW t \in Threads, Step(t) PROVE SlotsStable'
  <2>1. CASE popFreeEmpty(t) \/ popFreeRetry(t)
    BY <2>1, <1>1, <1>t DEF popFreeEmpty, popFreeRetry, Leave
  <2>2. CASE bumpCarve(t) \/ bumpExhausted(t) \/ newNode(t) \/ newNodeExhausted(t)
    BY <2>2, <1>1, <1>t DEF bumpCarve, bumpExhausted, newNode, newNodeExhausted, Return
  <2>3. CASE AllocReturn(t) \/ newFreeSlotExhausted(t)
    BY <2>3, <1>1, <1>t DEF AllocReturn, newFreeSlotExhausted, Return
  <2>4. ~repushDone(t)
    BY <1>a DEF repushDone, SlotsStable
  <2> QED
    BY <1>2, <1>3, <1>4, <1>5, <1>6, <1>7, <1>8, <1>11, <1>12, <2>1, <2>2, <2>3, <2>4,
       NeverTooSmall DEF Step
<1>13. ASSUME NEW t \in Threads, Call(t) PROVE SlotsStable'
  <2>1. ASSUME NEW s \in Sizes, NEW m \in SUBSET Layers, AllocCall(t, s, m)
        PROVE  SlotsStable'
    BY <2>1, <1>1, <1>t DEF AllocCall
  <2>2. ASSUME NEW a \in DOMAIN MemTree, NEW m \in SUBSET Layers, FreeCall(t, a, m)
        PROVE  SlotsStable'
    BY <2>2, <1>1, <1>t DEF FreeCall
  <2>3. ASSUME NEW a \in DOMAIN MemTree, NEW m \in SUBSET Layers, NEW u \in Threads,
               Share(t, a, m, u)
        PROVE  SlotsStable'
    BY <2>3, <1>9 DEF Share
  <2> QED
    BY <1>13, <2>1, <2>2, <2>3 DEF Call
<1> QED
  BY <1>9, <1>10, <1>12, <1>13 DEF Next, vars, Close

-------------------------------------------------------------------------------
(* A block is available, in hand or owned.                                 *)

\* A step of t that makes nothing available, gives no token and puts no new
\* block in t's hands.
LEMMA ExclusiveFrame ==
  ASSUME BlocksExclusive, NEW t \in Threads,
         avail' \subseteq avail, \A s \in avail : slots'[s].addr = slots[s].addr,
         \A u \in Threads \ {t} : pc'[u] = pc[u] /\ loc'[u] = loc[u],
         \A u \in Threads : Tokens(u)' \subseteq Tokens(u),
         Carries(t)' => Carries(t) /\ loc'[t].addr = loc[t].addr
  PROVE  BlocksExclusive'
<1>1. \A u \in Threads : Carries(u)' => Carries(u) /\ loc'[u].addr = loc[u].addr
  BY DEF Carries
<1> QED
  BY <1>1 DEF BlocksExclusive

\* A step that touches no token: t is not in clear before or after it.
LEMMA TokensFrame ==
  ASSUME NEW t \in Threads, held' = held, pc[t] # "clear", pc'[t] # "clear",
         \A u \in Threads \ {t} : pc'[u] = pc[u] /\ loc'[u] = loc[u]
  PROVE  \A u \in Threads : Tokens(u)' = Tokens(u)
BY DEF Tokens

\* Every action keeps each block in one pair of hands.
LEMMA ExclusiveStep ==
  ASSUME UniformSizes, BaseInv, UniformInv, [Next]_vars
  PROVE  BlocksExclusive'
<1>a. /\ BlocksExclusive /\ SlotsStable /\ ListShape /\ OwnersRecorded /\ FreeInProgress
      /\ PointersValid
  BY DEF UniformInv, BaseInv
<1>t. /\ pc \in [Threads -> Labels]
      /\ loc \in [Threads -> [size : Nat, mask : SUBSET Layers, addr : Nat,
                              slot : Nat, next : Nat]]
      /\ slots \in [DOMAIN slots -> [addr : Nat, size : Nat \ {0}, next : Nat]]
      /\ held \in [Threads -> SUBSET (Nat \X Layers)]
      /\ MemTree \in [DOMAIN MemTree -> [Size : Nat \ {0}, OwnerMask : SUBSET Layers]]
  BY DEF BaseInv, TypeOK
<1>b. /\ \A s \in DOMAIN slots : slots[s].addr # bump
      /\ \A a \in DOMAIN MemTree : a # bump
      /\ \A t \in Threads : Carries(t) => loc[t].addr # bump
  <2>1. \A b \in Blocks : b[1] \in Nat /\ b[2] \in Nat /\ b[2] > 0 /\ b[1] + b[2] <= bump
    BY AlignedSize DEF BaseInv, BlocksCarved, Blocks, TypeOK
  <2>2. \A b \in Blocks : b[1] # bump
    BY <2>1 DEF BaseInv, TypeOK
  <2> QED
    BY <2>2, InBlocks
<1> USE DEF Goto
<1>1. ASSUME NEW t \in Threads, UNCHANGED <<slots, avail, held>>,
             \A u \in Threads \ {t} : pc'[u] = pc[u] /\ loc'[u] = loc[u],
             pc[t] # "clear", pc'[t] # "clear",
             Carries(t)' => Carries(t) /\ loc'[t].addr = loc[t].addr
      PROVE  BlocksExclusive'
  BY <1>1, <1>a, TokensFrame, ExclusiveFrame
<1>2. ASSUME NEW t \in Threads, popFreeTake(t) PROVE BlocksExclusive'
  <2> DEFINE h == freeList
  <2>1. h \in avail /\ avail' = avail \ {h} /\ slots' = slots /\ loc[t].slot = h
    BY <1>2, TakeHead
  <2>2. /\ loc'[t].addr = slots[h].addr /\ ~Carries(t)
        /\ \A u \in Threads \ {t} : pc'[u] = pc[u] /\ loc'[u] = loc[u]
    BY <1>2, <1>t, <2>1 DEF popFreeTake, NoLocals, Carries
  <2>3. \A u \in Threads : Tokens(u)' = Tokens(u)
    BY <1>2, <1>t, <2>2, TokensFrame DEF popFreeTake
  <2>4. \A u \in Threads \ {t} : Carries(u)' <=> Carries(u)
    BY <2>2 DEF Carries
  <2> HIDE DEF h
  <2> QED
    BY <1>a, <2>1, <2>2, <2>3, <2>4 DEF BlocksExclusive
<1>3. ASSUME NEW t \in Threads, bumpCarve(t) PROVE BlocksExclusive'
  <2>1. /\ loc'[t].addr = bump /\ slots' = slots /\ avail' = avail
        /\ \A u \in Threads \ {t} : pc'[u] = pc[u] /\ loc'[u] = loc[u]
    BY <1>3, <1>t DEF bumpCarve
  <2>2. \A u \in Threads : Tokens(u)' = Tokens(u)
    BY <1>3, <1>t, <2>1, TokensFrame DEF bumpCarve
  <2>3. \A u \in Threads : \A o \in Tokens(u) : o[1] # bump
    BY <1>a, <1>b DEF PointersValid
  <2>4. \A s \in avail : slots[s].addr # bump
    BY <1>a, <1>b DEF ListShape
  <2>5. \A u \in Threads \ {t} : Carries(u)' => Carries(u) /\ loc'[u].addr # bump
    BY <1>b, <2>1 DEF Carries
  <2> QED
    BY <1>a, <2>1, <2>2, <2>3, <2>4, <2>5 DEF BlocksExclusive
<1>4. ASSUME NEW t \in Threads, AllocReturn(t) PROVE BlocksExclusive'
  <2>1. /\ pc[t] = "insert" /\ ~Carries(t)' /\ Carries(t)
        /\ slots' = slots /\ avail' = avail
        /\ \A u \in Threads \ {t} : pc'[u] = pc[u] /\ loc'[u] = loc[u]
    BY <1>4, <1>t DEF AllocReturn, Return, Carries
  <2>2. \A u \in Threads : \A o \in Tokens(u)' : o \in Tokens(u) \/ o[1] = loc[t].addr
    BY <1>4, <1>t, <2>1 DEF AllocReturn, Tokens, Return
  <2>3. \A u \in Threads \ {t} : Carries(u)' => Carries(u) /\ loc'[u].addr = loc[u].addr
    BY <2>1 DEF Carries
  <2> QED
    BY <1>a, <2>1, <2>2, <2>3 DEF BlocksExclusive
<1>5. ASSUME NEW t \in Threads, NEW from, NEW to, pushFreeLoad(t, from, to),
             \/ from = "repushLoad" /\ to = "repushCas"
             \/ from = "pushLoad" /\ to = "pushCas"
      PROVE  BlocksExclusive'
  <2>1. /\ pc[t] = "pushLoad" /\ pc'[t] = "pushCas" /\ avail' = avail
        /\ loc'[t].addr = loc[t].addr /\ held' = held
        /\ \A u \in Threads \ {t} : pc'[u] = pc[u] /\ loc'[u] = loc[u]
    BY <1>5, <1>a, <1>t DEF pushFreeLoad, SlotsStable
  <2>2. \A s \in DOMAIN slots : slots'[s].addr = slots[s].addr
    BY <1>5, <1>t DEF pushFreeLoad
  <2>3. \A s \in avail : slots'[s].addr = slots[s].addr
    BY <1>a, <2>2 DEF ListShape
  <2> QED
    BY <1>a, <2>1, <2>3, TokensFrame, ExclusiveFrame DEF Carries
<1>6. ASSUME NEW t \in Threads, FreeReturn(t) PROVE BlocksExclusive'
  <2>1. /\ pc[t] = "pushCas" /\ pc'[t] = "idle" /\ held' = held /\ slots' = slots
        /\ avail' = avail \cup {loc[t].slot}
        /\ \A u \in Threads \ {t} : pc'[u] = pc[u] /\ loc'[u] = loc[u]
    BY <1>6, <1>t DEF FreeReturn, LinkSlot, Return
  <2>2. slots[loc[t].slot].addr = loc[t].addr /\ Carries(t) /\ ~Carries(t)'
    BY <2>1, <1>a DEF SlotsStable, Pushing, Carries
  <2>3. \A u \in Threads : Tokens(u)' = Tokens(u)
    BY <2>1, TokensFrame
  <2>4. \A u \in Threads \ {t} : Carries(u)' => Carries(u) /\ loc'[u].addr = loc[u].addr
    BY <2>1 DEF Carries
  <2> QED
    BY <1>a, <2>1, <2>2, <2>3, <2>4 DEF BlocksExclusive
<1>7. ASSUME NEW t \in Threads, newFreeSlot(t) PROVE BlocksExclusive'
  <2>1. /\ pc[t] = "newFreeSlot" /\ pc'[t] = "pushLoad" /\ loc'[t].addr = loc[t].addr
        /\ avail' = avail /\ held' = held
        /\ \A u \in Threads \ {t} : pc'[u] = pc[u] /\ loc'[u] = loc[u]
    BY <1>7, <1>t DEF newFreeSlot
  <2>2. \A s \in avail : slots'[s].addr = slots[s].addr
    BY <1>7, <1>a, SlotAddresses DEF newFreeSlot, ListShape
  <2> QED
    BY <1>a, <2>1, <2>2, TokensFrame, ExclusiveFrame DEF Carries
<1>8. ASSUME NEW t \in Threads, NEW a \in DOMAIN MemTree, NEW m \in SUBSET Layers,
             FreeCall(t, a, m)
      PROVE  BlocksExclusive'
  <2>1. /\ pc[t] = "idle" /\ pc'[t] = "clear" /\ avail' = avail /\ slots' = slots
        /\ \A u \in Threads \ {t} : pc'[u] = pc[u] /\ loc'[u] = loc[u]
    BY <1>8, <1>t DEF FreeCall
  <2>2. \A u \in Threads : Tokens(u)' \subseteq Tokens(u)
    BY <1>8, <1>t DEF FreeCall, Tokens, LayersOf
  <2> QED
    BY <1>a, <2>1, <2>2, ExclusiveFrame DEF Carries
<1>9. ASSUME NEW t \in Threads, FreeClear(t) PROVE BlocksExclusive'
  <2> DEFINE a == loc[t].addr
  <2>1. /\ pc[t] = "clear" /\ avail' = avail /\ slots' = slots /\ held' = held
        /\ \A u \in Threads \ {t} : pc'[u] = pc[u] /\ loc'[u] = loc[u]
        /\ pc'[t] \in {"idle", "newFreeSlot"}
    BY <1>9, <1>t DEF FreeClear, Return
  <2>2. \A u \in Threads : Tokens(u)' \subseteq Tokens(u)
    BY <2>1 DEF Tokens
  <2>3. CASE pc'[t] = "idle"
    BY <1>a, <2>1, <2>2, <2>3, ExclusiveFrame DEF Carries
  <2>4. CASE pc'[t] = "newFreeSlot"
    <3>1. MemTree[a].OwnerMask \subseteq loc[t].mask /\ a \in DOMAIN MemTree /\ loc'[t].addr = a
      BY <1>9, <1>a, <1>t, <2>4 DEF FreeClear, clearOwner, PointersValid, Return
    <3>2. \A u \in Threads : \A o \in Tokens(u)' : o[1] # a
      <4> SUFFICES ASSUME NEW u \in Threads, NEW o \in Tokens(u)', o[1] = a PROVE FALSE
        OBVIOUS
      <4>1. o \in Tokens(u) /\ o \in Nat \X Layers
        BY <1>t, <2>2 DEF Tokens
      <4>2. o = <<a, o[2]>> /\ o[2] \in Layers
        BY <4>1
      <4>3. o[2] \in MemTree[a].OwnerMask
        BY <1>a, <3>1, <4>1, <4>2 DEF OwnersRecorded
      <4>4. o[2] \in loc[t].mask
        BY <3>1, <4>3
      <4>5. CASE u = t
        <5>1. o \in held[t]
          BY <2>1, <4>5 DEF Tokens
        <5> QED
          BY <1>a, <2>1, <4>2, <4>4, <5>1 DEF FreeInProgress
      <4>6. CASE u # t
        <5>1. <<a, o[2]>> \in Tokens(t)
          BY <2>1, <4>4 DEF Tokens
        <5> QED
          BY <1>a, <4>1, <4>2, <4>6, <5>1 DEF OwnersRecorded
      <4> QED
        BY <4>5, <4>6
    <3>3. \A s \in avail : slots[s].addr # a
      BY <1>a, <2>1 DEF FreeInProgress, BlocksExclusive
    <3>4. \A u \in Threads \ {t} : Carries(u) => loc[u].addr # a
      BY <1>a, <2>1 DEF FreeInProgress, BlocksExclusive
    <3>5. \A u \in Threads \ {t} : Carries(u)' => Carries(u) /\ loc'[u].addr = loc[u].addr
      BY <2>1 DEF Carries
    <3> HIDE DEF a
    <3> QED
      BY <1>a, <2>1, <2>2, <3>1, <3>2, <3>3, <3>4, <3>5 DEF BlocksExclusive
  <2> QED
    BY <2>1, <2>3, <2>4
<1>10. ASSUME NEW t \in Threads, NEW a \in DOMAIN MemTree, NEW m \in SUBSET Layers,
              NEW u \in Threads, Share(t, a, m, u)
       PROVE  BlocksExclusive'
  <2>1. /\ UNCHANGED <<pc, loc, slots, avail>>
        /\ \E l \in Layers : <<a, l>> \in Tokens(t)
    BY <1>10 DEF Share, LayersOf, Tokens
  <2>2. \A v \in Threads : \A o \in Tokens(v)' : o \in Tokens(v) \/ o[1] = a
    BY <1>10, <1>t DEF Share, Tokens
  <2>3. /\ \A s \in avail : slots[s].addr # a
        /\ \A v \in Threads : Carries(v) => loc[v].addr # a
    BY <1>a, <2>1 DEF BlocksExclusive
  <2>4. \A v \in Threads : Carries(v)' <=> Carries(v)
    BY <2>1 DEF Carries
  <2> QED
    BY <1>a, <2>1, <2>2, <2>3, <2>4 DEF BlocksExclusive
<1>11. CASE Reset
  BY <1>11 DEF Reset, Quiescent, BlocksExclusive, Carries
<1>12. ASSUME UNCHANGED <<slots, avail, pc, loc, held>> PROVE BlocksExclusive'
  BY <1>12, <1>a DEF BlocksExclusive, Carries, Tokens
<1>13. ASSUME NEW t \in Threads, Step(t) PROVE BlocksExclusive'
  <2>1. CASE popFreeEmpty(t) \/ popFreeLoadHead(t) \/ popFreeLoadNext(t) \/ popFreeRetry(t)
    BY <2>1, <1>1, <1>t
       DEF popFreeEmpty, popFreeLoadHead, popFreeLoadNext, popFreeRetry, Leave, Carries
  <2>2. CASE bumpExhausted(t) \/ newNode(t) \/ newNodeExhausted(t) \/ newFreeSlotExhausted(t)
    BY <2>2, <1>1, <1>t
       DEF bumpExhausted, newNode, newNodeExhausted, newFreeSlotExhausted, Return, Carries
  <2>3. ASSUME NEW from, NEW to, pushFreeRetry(t, from, to),
               from \in {"repushCas", "pushCas"}, to \in {"repushLoad", "pushLoad"}
        PROVE  BlocksExclusive'
    BY <2>3, <1>1, <1>a, <1>t DEF pushFreeRetry, Carries, SlotsStable
  <2>4. ~repushDone(t)
    BY <1>a DEF repushDone, SlotsStable
  <2> QED
    BY <1>2, <1>3, <1>4, <1>5, <1>6, <1>7, <1>9, <1>13, <2>1, <2>2, <2>3, <2>4,
       NeverTooSmall DEF Step
<1>14. ASSUME NEW t \in Threads, Call(t) PROVE BlocksExclusive'
  <2>1. ASSUME NEW s \in Sizes, NEW m \in SUBSET Layers, AllocCall(t, s, m)
        PROVE  BlocksExclusive'
    BY <2>1, <1>1, <1>t DEF AllocCall, Carries
  <2> QED
    BY <1>8, <1>10, <1>14, <2>1 DEF Call
<1> QED
  BY <1>11, <1>12, <1>13, <1>14 DEF Next, vars, Close

-------------------------------------------------------------------------------
(* Owner masks.                                                            *)

\* A step that changes no mask, no token and no FreeVarying in progress.
LEMMA OwnersFrame ==
  ASSUME OwnersRecorded, FreeInProgress, MemTree' = MemTree, held' = held,
         \A u \in Threads : Tokens(u)' = Tokens(u),
         \A u \in Threads : pc'[u] = "clear" => pc[u] = "clear" /\ loc'[u] = loc[u]
  PROVE  OwnersRecorded' /\ FreeInProgress'
BY DEF OwnersRecorded, FreeInProgress

\* Every action keeps the owner masks exact.
LEMMA OwnersStep ==
  ASSUME UniformSizes, BaseInv, UniformInv, [Next]_vars
  PROVE  OwnersRecorded' /\ FreeInProgress'
<1> DEFINE Done == OwnersRecorded' /\ FreeInProgress'
<1>a. BlocksExclusive /\ OwnersRecorded /\ FreeInProgress /\ PointersValid
  BY DEF UniformInv, BaseInv
<1>t. /\ pc \in [Threads -> Labels]
      /\ loc \in [Threads -> [size : Nat, mask : SUBSET Layers, addr : Nat,
                              slot : Nat, next : Nat]]
      /\ held \in [Threads -> SUBSET (Nat \X Layers)]
      /\ MemTree \in [DOMAIN MemTree -> [Size : Nat \ {0}, OwnerMask : SUBSET Layers]]
      /\ DOMAIN MemTree \subseteq Nat
  BY DEF BaseInv, TypeOK
<1>o. \A t \in Threads : \A o \in Tokens(t) :
        /\ o \in Nat \X Layers /\ o = <<o[1], o[2]>> /\ o[1] \in DOMAIN MemTree
        /\ o[2] \in MemTree[o[1]].OwnerMask
  <2> SUFFICES ASSUME NEW t \in Threads, NEW o \in Tokens(t)
               PROVE  /\ o \in Nat \X Layers /\ o = <<o[1], o[2]>> /\ o[1] \in DOMAIN MemTree
                      /\ o[2] \in MemTree[o[1]].OwnerMask
    OBVIOUS
  <2>1. o \in Nat \X Layers /\ o = <<o[1], o[2]>>
    BY <1>t DEF Tokens
  <2>2. o[1] \in DOMAIN MemTree
    BY <1>a DEF OwnersRecorded
  <2> QED
    BY <1>a, <2>1, <2>2 DEF OwnersRecorded
<1> USE DEF Goto
<1>1. ASSUME NEW t \in Threads, UNCHANGED <<MemTree, held>>,
             \A u \in Threads \ {t} : pc'[u] = pc[u] /\ loc'[u] = loc[u],
             pc[t] # "clear", pc'[t] # "clear"
      PROVE  Done
  BY <1>1, <1>a, TokensFrame, OwnersFrame
<1>2. ASSUME NEW t \in Threads, AllocReturn(t) PROVE Done
  <2> DEFINE a == loc[t].addr
             m == loc[t].mask
  <2>1. /\ pc[t] = "insert" /\ pc'[t] = "idle" /\ held'[t] = held[t] \cup ({a} \X m)
        /\ \A u \in Threads \ {t} : pc'[u] = pc[u] /\ loc'[u] = loc[u] /\ held'[u] = held[u]
        /\ m \subseteq Layers
    BY <1>2, <1>t DEF AllocReturn, Return
  <2>2. /\ DOMAIN MemTree' = DOMAIN MemTree \cup {a}
        /\ \A b \in DOMAIN MemTree \ {a} : MemTree'[b] = MemTree[b]
        /\ a \in DOMAIN MemTree => MemTree'[a].OwnerMask = m \cup MemTree[a].OwnerMask
        /\ a \notin DOMAIN MemTree => MemTree'[a].OwnerMask = m
    BY <1>2 DEF AllocReturn, insertNode
  <2>3. \A u \in Threads : \A o \in Tokens(u) : o[1] # a
    BY <1>a, <2>1 DEF BlocksExclusive, Carries
  <2>4. a \in DOMAIN MemTree => MemTree[a].OwnerMask = {}
    <3>1. {l \in Layers : \E u \in Threads : <<a, l>> \in Tokens(u)} = {}
      BY <2>3
    <3> QED
      BY <1>a, <3>1 DEF OwnersRecorded
  <2>5. MemTree'[a].OwnerMask = m
    BY <2>2, <2>4
  <2>6. /\ Tokens(t)' = Tokens(t) \cup ({a} \X m)
        /\ \A u \in Threads \ {t} : Tokens(u)' = Tokens(u)
    BY <2>1 DEF Tokens
  <2> HIDE DEF a, m
  <2>7. \A b \in DOMAIN MemTree' :
          MemTree'[b].OwnerMask = {l \in Layers : \E u \in Threads : <<b, l>> \in Tokens(u)'}
    <3> SUFFICES ASSUME NEW b \in DOMAIN MemTree'
                 PROVE  MemTree'[b].OwnerMask =
                          {l \in Layers : \E u \in Threads : <<b, l>> \in Tokens(u)'}
      OBVIOUS
    <3>1. CASE b = a
      BY <2>1, <2>3, <2>5, <2>6, <3>1
    <3>2. CASE b # a
      <4>1. MemTree'[b] = MemTree[b] /\ b \in DOMAIN MemTree
        BY <2>2, <3>2
      <4>2. \A l \in Layers, u \in Threads : <<b, l>> \in Tokens(u)' <=> <<b, l>> \in Tokens(u)
        BY <2>6, <3>2
      <4> QED
        BY <1>a, <4>1, <4>2 DEF OwnersRecorded
    <3> QED
      BY <3>1, <3>2
  <2>8. \A u, v \in Threads : u # v => Tokens(u)' \cap Tokens(v)' = {}
    BY <1>a, <2>3, <2>6 DEF OwnersRecorded
  <2>9. \A u \in Threads : \A o \in Tokens(u)' : o[1] \in DOMAIN MemTree'
    BY <1>a, <2>2, <2>6 DEF OwnersRecorded
  <2>10. FreeInProgress'
    BY <1>a, <2>1, <2>6 DEF FreeInProgress
  <2> QED
    BY <2>7, <2>8, <2>9, <2>10 DEF OwnersRecorded
<1>3. ASSUME NEW t \in Threads, NEW a \in DOMAIN MemTree, NEW m \in SUBSET Layers,
             FreeCall(t, a, m)
      PROVE  Done
  <2>1. /\ pc[t] = "idle" /\ pc'[t] = "clear" /\ loc'[t].addr = a /\ loc'[t].mask = m
        /\ held'[t] = held[t] \ ({a} \X m) /\ MemTree' = MemTree
        /\ \A u \in Threads \ {t} : pc'[u] = pc[u] /\ loc'[u] = loc[u] /\ held'[u] = held[u]
    BY <1>3, <1>t DEF FreeCall
  <2>2. {a} \X m \subseteq held[t] /\ \E l \in Layers : <<a, l>> \in held[t]
    BY <1>3 DEF FreeCall, LayersOf
  <2>3. Tokens(t)' = Tokens(t)
    BY <2>1, <2>2 DEF Tokens
  <2>4. \A u \in Threads : Tokens(u)' = Tokens(u)
    BY <2>1, <2>3 DEF Tokens
  <2>5. OwnersRecorded'
    BY <1>a, <2>1, <2>4 DEF OwnersRecorded
  <2>6. \E l \in Layers : <<loc'[t].addr, l>> \in Tokens(t)'
    BY <2>1, <2>2, <2>3 DEF Tokens
  <2>7. \A l \in loc'[t].mask : <<loc'[t].addr, l>> \notin held'[t]
    BY <2>1
  <2> QED
    BY <1>a, <2>1, <2>4, <2>5, <2>6, <2>7 DEF FreeInProgress
<1>4. ASSUME NEW t \in Threads, FreeClear(t) PROVE Done
  <2> DEFINE a == loc[t].addr
             m == loc[t].mask
  <2>1. /\ pc[t] = "clear" /\ pc'[t] # "clear" /\ held' = held
        /\ \A u \in Threads \ {t} : pc'[u] = pc[u] /\ loc'[u] = loc[u]
        /\ m \subseteq Layers
    BY <1>4, <1>t DEF FreeClear, Return
  <2>2. a \in DOMAIN MemTree
    BY <1>a, <2>1 DEF PointersValid
  <2>3. /\ DOMAIN MemTree' = DOMAIN MemTree
        /\ \A b \in DOMAIN MemTree \ {a} : MemTree'[b] = MemTree[b]
        /\ MemTree'[a].OwnerMask = MemTree[a].OwnerMask \ m
    BY <1>4, <1>t, <2>2 DEF FreeClear, clearOwner
  <2>4. /\ Tokens(t)' = held[t] /\ Tokens(t) = held[t] \cup ({a} \X m)
        /\ \A u \in Threads \ {t} : Tokens(u)' = Tokens(u)
        /\ \A l \in m : <<a, l>> \notin held[t]
    BY <1>a, <2>1 DEF Tokens, FreeInProgress
  <2> HIDE DEF a, m
  <2>5. \A l \in Layers, u \in Threads :
          <<a, l>> \in Tokens(u)' <=> <<a, l>> \in Tokens(u) /\ ~(l \in m)
    <3> SUFFICES ASSUME NEW l \in Layers, NEW u \in Threads
                 PROVE  <<a, l>> \in Tokens(u)' <=> <<a, l>> \in Tokens(u) /\ ~(l \in m)
      OBVIOUS
    <3>1. CASE u = t
      BY <2>4, <3>1
    <3>2. CASE u # t
      <4>1. l \in m => <<a, l>> \in Tokens(t)
        BY <2>4
      <4> QED
        BY <1>a, <2>4, <3>2, <4>1 DEF OwnersRecorded
    <3> QED
      BY <3>1, <3>2
  <2>6. \A b \in DOMAIN MemTree' :
          MemTree'[b].OwnerMask = {l \in Layers : \E u \in Threads : <<b, l>> \in Tokens(u)'}
    <3> SUFFICES ASSUME NEW b \in DOMAIN MemTree'
                 PROVE  MemTree'[b].OwnerMask =
                          {l \in Layers : \E u \in Threads : <<b, l>> \in Tokens(u)'}
      OBVIOUS
    <3>1. CASE b = a
      <4>1. MemTree[a].OwnerMask = {l \in Layers : \E u \in Threads : <<a, l>> \in Tokens(u)}
        BY <1>a, <2>2 DEF OwnersRecorded
      <4> QED
        BY <2>3, <2>5, <3>1, <4>1
    <3>2. CASE b # a
      <4>1. MemTree'[b] = MemTree[b] /\ b \in DOMAIN MemTree
        BY <2>3, <3>2
      <4>2. \A l \in Layers, u \in Threads : <<b, l>> \in Tokens(u)' <=> <<b, l>> \in Tokens(u)
        BY <2>4, <3>2
      <4> QED
        BY <1>a, <4>1, <4>2 DEF OwnersRecorded
    <3> QED
      BY <3>1, <3>2
  <2>7. \A u \in Threads : Tokens(u)' \subseteq Tokens(u)
    BY <2>4
  <2>8. /\ \A u, v \in Threads : u # v => Tokens(u)' \cap Tokens(v)' = {}
        /\ \A u \in Threads : \A o \in Tokens(u)' : o[1] \in DOMAIN MemTree'
    BY <1>a, <2>3, <2>7, SMTT(30) DEF OwnersRecorded
  <2>9. FreeInProgress'
    <3> SUFFICES ASSUME NEW u \in Threads, pc'[u] = "clear"
                 PROVE  /\ \E l \in Layers : <<loc'[u].addr, l>> \in Tokens(u)'
                        /\ \A l \in loc'[u].mask : <<loc'[u].addr, l>> \notin held'[u]
      BY DEF FreeInProgress
    <3>1. u # t
      BY <2>1
    <3>2. pc[u] = "clear" /\ loc'[u] = loc[u] /\ held'[u] = held[u]
      BY <2>1, <3>1
    <3>3. Tokens(u)' = Tokens(u)
      BY <2>4, <3>1
    <3> QED
      BY <1>a, <3>2, <3>3 DEF FreeInProgress
  <2> QED
    BY <2>6, <2>8, <2>9 DEF OwnersRecorded
<1>5. ASSUME NEW t \in Threads, NEW a \in DOMAIN MemTree, NEW k \in SUBSET Layers,
             NEW v \in Threads, Share(t, a, k, v)
      PROVE  Done
  <2> DEFINE m == normalizeMask(k)
  <2>1. /\ UNCHANGED <<pc, loc>> /\ held'[v] = held[v] \cup ({a} \X m)
        /\ \A u \in Threads \ {v} : held'[u] = held[u]
        /\ m \subseteq Layers /\ MemTree[a].OwnerMask \cap m = {}
    BY <1>5, <1>t, NormalizeMask DEF Share
  <2>2. /\ DOMAIN MemTree' = DOMAIN MemTree
        /\ \A b \in DOMAIN MemTree \ {a} : MemTree'[b] = MemTree[b]
        /\ MemTree'[a].OwnerMask = MemTree[a].OwnerMask \cup m
    BY <1>5, <1>t DEF Share
  <2> HIDE DEF m
  <2>3. \A l \in m, u \in Threads : <<a, l>> \notin Tokens(u)
    BY <1>a, <2>1 DEF OwnersRecorded
  <2>4. /\ Tokens(v)' = Tokens(v) \cup ({a} \X m)
        /\ \A u \in Threads \ {v} : Tokens(u)' = Tokens(u)
    BY <2>1 DEF Tokens
  <2>5. \A b \in DOMAIN MemTree' :
          MemTree'[b].OwnerMask = {l \in Layers : \E u \in Threads : <<b, l>> \in Tokens(u)'}
    <3> SUFFICES ASSUME NEW b \in DOMAIN MemTree'
                 PROVE  MemTree'[b].OwnerMask =
                          {l \in Layers : \E u \in Threads : <<b, l>> \in Tokens(u)'}
      OBVIOUS
    <3>1. CASE b = a
      <4>1. MemTree[a].OwnerMask = {l \in Layers : \E u \in Threads : <<a, l>> \in Tokens(u)}
        BY <1>a DEF OwnersRecorded
      <4> QED
        BY <2>1, <2>2, <2>4, <3>1, <4>1
    <3>2. CASE b # a
      <4>1. MemTree'[b] = MemTree[b] /\ b \in DOMAIN MemTree
        BY <2>2, <3>2
      <4>2. \A l \in Layers, u \in Threads : <<b, l>> \in Tokens(u)' <=> <<b, l>> \in Tokens(u)
        BY <2>4, <3>2
      <4> QED
        BY <1>a, <4>1, <4>2 DEF OwnersRecorded
    <3> QED
      BY <3>1, <3>2
  <2>6. /\ \A u, w \in Threads : u # w => Tokens(u)' \cap Tokens(w)' = {}
        /\ \A u \in Threads : \A o \in Tokens(u)' : o[1] \in DOMAIN MemTree'
    BY <1>a, <2>2, <2>3, <2>4 DEF OwnersRecorded
  <2>7. FreeInProgress'
    <3> SUFFICES ASSUME NEW u \in Threads, pc[u] = "clear"
                 PROVE  /\ \E l \in Layers : <<loc[u].addr, l>> \in Tokens(u)'
                        /\ \A l \in loc[u].mask : <<loc[u].addr, l>> \notin held'[u]
      BY <2>1 DEF FreeInProgress
    <3>1. \E l \in Layers : <<loc[u].addr, l>> \in Tokens(u)'
      BY <1>a, <2>4 DEF FreeInProgress
    <3>2. ASSUME NEW l \in loc[u].mask PROVE <<loc[u].addr, l>> \notin held'[u]
      <4>1. <<loc[u].addr, l>> \in Tokens(u) /\ <<loc[u].addr, l>> \notin held[u]
        BY <1>a DEF Tokens, FreeInProgress
      <4> QED
        BY <2>1, <2>3, <4>1
    <3> QED
      BY <3>1, <3>2
  <2> QED
    BY <2>5, <2>6, <2>7 DEF OwnersRecorded
<1>6. CASE Reset
  BY <1>6 DEF Reset, Quiescent, OwnersRecorded, FreeInProgress, Tokens
<1>7. ASSUME UNCHANGED <<MemTree, held, pc, loc>> PROVE Done
  <2>1. \A u \in Threads : Tokens(u)' = Tokens(u)
    BY <1>7 DEF Tokens
  <2> QED
    BY <1>7, <1>a, <2>1, OwnersFrame
<1>8. ASSUME NEW t \in Threads, Step(t) PROVE Done
  <2>1. CASE popFreeEmpty(t) \/ popFreeLoadHead(t) \/ popFreeLoadNext(t) \/ popFreeRetry(t)
             \/ popFreeTake(t)
    BY <2>1, <1>1, <1>t
       DEF popFreeEmpty, popFreeLoadHead, popFreeLoadNext, popFreeRetry, popFreeTake, Leave
  <2>2. CASE bumpCarve(t) \/ bumpExhausted(t) \/ newNode(t) \/ newNodeExhausted(t)
             \/ newFreeSlot(t) \/ newFreeSlotExhausted(t)
    BY <2>2, <1>1, <1>t
       DEF bumpCarve, bumpExhausted, newNode, newNodeExhausted, newFreeSlot,
           newFreeSlotExhausted, Return
  <2>3. CASE repushDone(t) \/ FreeReturn(t)
    BY <2>3, <1>1, <1>t DEF repushDone, FreeReturn, Leave, Return
  <2>4. ASSUME NEW from, NEW to, from # "clear", to # "clear",
               pushFreeLoad(t, from, to) \/ pushFreeRetry(t, from, to)
        PROVE  Done
    BY <2>4, <1>1, <1>t DEF pushFreeLoad, pushFreeRetry
  <2> QED
    BY <1>2, <1>4, <1>8, <2>1, <2>2, <2>3, <2>4, NeverTooSmall DEF Step
<1>9. ASSUME NEW t \in Threads, Call(t) PROVE Done
  <2>1. ASSUME NEW s \in Sizes, NEW m \in SUBSET Layers, AllocCall(t, s, m)
        PROVE  Done
    BY <2>1, <1>1, <1>t DEF AllocCall
  <2> QED
    BY <1>3, <1>5, <1>9, <2>1 DEF Call
<1> QED
  BY <1>6, <1>7, <1>8, <1>9 DEF Next, vars, Close

-------------------------------------------------------------------------------

\* The allocator New returns satisfies the invariant.
LEMMA UniformInit == Init => UniformInv
BY DEF Init, UniformInv, ListShape, SlotsStable, BlocksExclusive, FreeInProgress,
       OwnersRecorded, Popping, Pushing, Carries, Tokens

\* With requests of one aligned size, UniformInv is an invariant of balloc: its
\* step needs BaseInv, so the two are kept together.
THEOREM UniformInvariant ==
  ASSUME UniformSizes
  PROVE  Spec => []UniformInv
<1>1. UniformInv /\ BaseInv /\ [Next]_vars => UniformInv'
  BY ListStep, StableStep, ExclusiveStep, OwnersStep DEF UniformInv
<1> QED
  BY <1>1, UniformInit, BaseInvariant, PTL DEF Spec

\* With requests of one aligned size, no block is ever in two hands: what
\* Alloc takes from the free list is owned by nobody and taken by nobody
\* else, for every number of goroutines and every interleaving.
THEOREM Exclusivity ==
  ASSUME UniformSizes
  PROVE  Spec => []ExclusiveLease
<1>1. UniformInv => ExclusiveLease
  BY DEF UniformInv, ListShape, BlocksExclusive, ExclusiveLease
<1> QED
  BY <1>1, UniformInvariant, PTL

\* With requests of one aligned size, the owner mask of each block is exactly
\* the set of bits that goroutines own.
THEOREM ExactOwners ==
  ASSUME UniformSizes
  PROVE  Spec => []OwnersRecorded
BY UniformInvariant, PTL DEF UniformInv

-------------------------------------------------------------------------------
(* Every slot pushed and not taken is on the list.                         *)

\* A step that changes no available slot and makes none available.
LEMMA CompleteFrame ==
  ASSUME ListShape, ListComplete, freeList' = freeList, avail' = avail,
         \A s \in avail : slots'[s].next = slots[s].next
  PROVE  ListComplete'
<1> SUFFICES ASSUME NEW S \in SUBSET DOMAIN slots', WalkStays(S)'
             PROVE  avail \subseteq S
  BY DEF ListComplete
<1>1. S \cap avail \in SUBSET DOMAIN slots
  BY DEF ListShape
<1>2. WalkStays(S \cap avail)
  BY DEF WalkStays, ListShape
<1> QED
  BY <1>1, <1>2 DEF ListComplete

\* Every action leaves the list complete.
LEMMA CompleteStep ==
  ASSUME UniformSizes, BaseInv, UniformInv, ListComplete, [Next]_vars
  PROVE  ListComplete'
<1>a. ListShape /\ SlotsStable
  BY DEF UniformInv
<1>1. ASSUME NEW t \in Threads, popFreeTake(t) PROVE ListComplete'
  <2>1. /\ freeList \in avail /\ avail' = avail \ {freeList} /\ slots' = slots
        /\ freeList' = slots[freeList].next
    BY <1>1, TakeHead
  <2> SUFFICES ASSUME NEW S \in SUBSET DOMAIN slots, WalkStays(S)'
               PROVE  avail \ {freeList} \subseteq S
    BY <2>1 DEF ListComplete
  <2>2. S \cup {freeList} \in SUBSET DOMAIN slots
    BY <1>a, <2>1 DEF ListShape
  <2>3. WalkStays(S \cup {freeList})
    BY <2>1 DEF WalkStays
  <2> QED
    BY <2>2, <2>3 DEF ListComplete
<1>2. ASSUME NEW t \in Threads, FreeReturn(t) PROVE ListComplete'
  <2>1. /\ loc[t].slot \in DOMAIN slots /\ loc[t].slot # Nil
        /\ slots[loc[t].slot].next = freeList
    BY <1>2, <1>a, SlotAddresses
       DEF FreeReturn, LinkSlot, SlotsStable, Pushing, BaseInv, PointersValid, HasSlot
  <2>2. freeList' = loc[t].slot /\ avail' = avail \cup {loc[t].slot} /\ slots' = slots
    BY <1>2 DEF FreeReturn, LinkSlot
  <2> SUFFICES ASSUME NEW S \in SUBSET DOMAIN slots, WalkStays(S)'
               PROVE  avail \cup {loc[t].slot} \subseteq S
    BY <2>2 DEF ListComplete
  <2>3. loc[t].slot \in S
    BY <2>1, <2>2 DEF WalkStays
  <2>4. WalkStays(S)
    BY <2>1, <2>2, <2>3 DEF WalkStays
  <2> QED
    BY <2>3, <2>4 DEF ListComplete
<1>3. ASSUME NEW t \in Threads, NEW from, NEW to, pushFreeLoad(t, from, to),
             \/ from = "repushLoad" /\ to = "repushCas"
             \/ from = "pushLoad" /\ to = "pushCas"
      PROVE  ListComplete'
  <2>1. loc[t].slot \notin avail
    BY <1>3, <1>a DEF pushFreeLoad, SlotsStable, Pushing
  <2>2. \A s \in DOMAIN slots : s # loc[t].slot => slots'[s] = slots[s]
    BY <1>3 DEF pushFreeLoad, BaseInv, TypeOK
  <2>3. \A s \in avail : slots'[s].next = slots[s].next
    BY <1>a, <2>1, <2>2 DEF ListShape
  <2>4. freeList' = freeList /\ avail' = avail
    BY <1>3 DEF pushFreeLoad
  <2> QED
    BY <1>a, <2>3, <2>4, CompleteFrame
<1>4. ASSUME NEW t \in Threads, newFreeSlot(t) PROVE ListComplete'
  <2>1. nodeBump \notin DOMAIN slots
    BY SlotAddresses
  <2>2. \A s \in avail : slots'[s].next = slots[s].next
    BY <1>4, <1>a, <2>1 DEF newFreeSlot, ListShape
  <2>3. freeList' = freeList /\ avail' = avail
    BY <1>4 DEF newFreeSlot
  <2> QED
    BY <1>a, <2>2, <2>3, CompleteFrame
<1>5. ASSUME NEW t \in Threads, repushDone(t) PROVE FALSE
  BY <1>5, <1>a DEF repushDone, SlotsStable
<1>6. CASE Reset
  BY <1>6 DEF Reset, ListComplete
<1>7. ASSUME UNCHANGED <<slots, freeList, avail>> PROVE ListComplete'
  BY <1>7, <1>a, CompleteFrame
<1>8. ASSUME NEW t \in Threads, Step(t) PROVE ListComplete'
  BY <1>1, <1>2, <1>3, <1>4, <1>5, <1>7, <1>8, NeverTooSmall
     DEF Step, popFreeEmpty, popFreeLoadHead, popFreeLoadNext, popFreeRetry, bumpCarve,
         bumpExhausted, newNode, newNodeExhausted, AllocReturn, pushFreeRetry, FreeClear,
         newFreeSlotExhausted
<1>9. ASSUME NEW t \in Threads, Call(t) PROVE ListComplete'
  BY <1>7, <1>9 DEF Call, AllocCall, FreeCall, Share
<1> QED
  BY <1>6, <1>7, <1>8, <1>9 DEF Next, vars, Close

-------------------------------------------------------------------------------
(* Blocks without owners are available or in hand, and owners are counted. *)

\* An Alloc in progress keeps the owners it was called with.
LEMMA MasksStep ==
  ASSUME BaseInv, MasksGiven, [Next]_vars
  PROVE  MasksGiven'
<1>t. /\ pc \in [Threads -> Labels]
      /\ loc \in [Threads -> [size : Nat, mask : SUBSET Layers, addr : Nat,
                              slot : Nat, next : Nat]]
  BY DEF BaseInv, TypeOK
<1> USE DEF Goto, Releasing
<1>1. ASSUME NEW t \in Threads,
             \A u \in Threads \ {t} : pc'[u] = pc[u] /\ loc'[u] = loc[u],
             \/ Releasing(t)' \/ pc'[t] \in {"idle", "clear"}
             \/ loc'[t].mask = loc[t].mask /\ ~Releasing(t) /\ pc[t] \notin {"idle", "clear"}
             \/ loc'[t].mask # {}
      PROVE  MasksGiven'
  BY <1>1 DEF MasksGiven
<1>2. ASSUME NEW t \in Threads, Step(t) PROVE MasksGiven'
  <2>1. CASE popFreeEmpty(t) \/ popFreeLoadHead(t) \/ popFreeLoadNext(t) \/ popFreeRetry(t)
    BY <2>1, <1>1, <1>t
       DEF popFreeEmpty, popFreeLoadHead, popFreeLoadNext, popFreeRetry, Leave
  <2>2. CASE popFreeTake(t) \/ popFreeTooSmall(t)
    <3>1. /\ pc[t] = "popCas" /\ pc'[t] \in {"newNode", "repushLoad"}
          /\ loc'[t].mask = loc[t].mask
          /\ \A u \in Threads \ {t} : pc'[u] = pc[u] /\ loc'[u] = loc[u]
      BY <2>2, <1>t DEF popFreeTake, popFreeTooSmall, NoLocals
    <3> QED
      BY <1>1, <3>1
  <2>3. CASE bumpCarve(t) \/ bumpExhausted(t) \/ newNode(t) \/ newNodeExhausted(t)
             \/ newFreeSlot(t) \/ newFreeSlotExhausted(t) \/ AllocReturn(t)
    BY <2>3, <1>1, <1>t
       DEF bumpCarve, bumpExhausted, newNode, newNodeExhausted, newFreeSlot,
           newFreeSlotExhausted, AllocReturn, Return
  <2>4. CASE repushDone(t) \/ FreeReturn(t)
    BY <2>4, <1>1, <1>t DEF repushDone, FreeReturn, Leave, Return
  <2>5. CASE FreeClear(t)
    BY <2>5, <1>1, <1>t DEF FreeClear, Return
  <2>6. ASSUME NEW from, NEW to, pushFreeLoad(t, from, to) \/ pushFreeRetry(t, from, to),
               \/ from \in {"repushLoad", "repushCas"} /\ to \in {"repushLoad", "repushCas"}
               \/ from \in {"pushLoad", "pushCas"} /\ to \in {"pushLoad", "pushCas"}
        PROVE  MasksGiven'
    BY <2>6, <1>1, <1>t DEF pushFreeLoad, pushFreeRetry
  <2> QED
    BY <1>2, <2>1, <2>2, <2>3, <2>4, <2>5, <2>6 DEF Step
<1>3. ASSUME NEW t \in Threads, Call(t) PROVE MasksGiven'
  <2>1. ASSUME NEW s \in Sizes, NEW m \in SUBSET Layers, AllocCall(t, s, m)
        PROVE  MasksGiven'
    BY <2>1, <1>1, <1>t DEF AllocCall, normalizeMask
  <2>2. ASSUME NEW a \in DOMAIN MemTree, NEW m \in SUBSET Layers, FreeCall(t, a, m)
        PROVE  MasksGiven'
    BY <2>2, <1>1, <1>t DEF FreeCall
  <2>3. ASSUME NEW a \in DOMAIN MemTree, NEW m \in SUBSET Layers, NEW u \in Threads,
               Share(t, a, m, u)
        PROVE  MasksGiven'
    BY <2>3 DEF Share, MasksGiven
  <2> QED
    BY <1>3, <2>1, <2>2, <2>3 DEF Call
<1>4. CASE Reset \/ Close \/ UNCHANGED vars
  BY <1>4 DEF Reset, Close, vars, MasksGiven
<1> QED
  BY <1>2, <1>3, <1>4 DEF Next

\* A step of t that changes neither the tree nor what is available, and lets go
\* of t's block only by exhausting the metadata area.
LEMMA KeptFrame ==
  ASSUME BlocksKept, NEW t \in Threads, MemTree' = MemTree, avail' = avail,
         avail \subseteq DOMAIN slots, DOMAIN slots' = DOMAIN slots,
         \A s \in DOMAIN slots : slots'[s].addr = slots[s].addr,
         \A u \in Threads \ {t} : pc'[u] = pc[u] /\ loc'[u] = loc[u],
         nodeBump' <= nodeEnd => nodeBump <= nodeEnd,
         Releasing(t)' => Releasing(t) /\ loc'[t].addr = loc[t].addr,
         nodeBump' <= nodeEnd /\ Carries(t) => Carries(t)' /\ loc'[t].addr = loc[t].addr
  PROVE  BlocksKept'
<1>1. \A u \in Threads : Releasing(u)' => Releasing(u) /\ loc'[u].addr = loc[u].addr
  BY DEF Releasing
<1>2. nodeBump' <= nodeEnd =>
        \A u \in Threads : Carries(u) => Carries(u)' /\ loc'[u].addr = loc[u].addr
  BY DEF Carries
<1> QED
  BY <1>1, <1>2 DEF BlocksKept

\* No action loses a block before the metadata area is exhausted.
LEMMA KeptStep ==
  ASSUME UniformSizes, BaseInv, UniformInv, BlocksKept, MasksGiven, [Next]_vars
  PROVE  BlocksKept'
<1>a. /\ ListShape /\ SlotsStable /\ BlocksExclusive /\ OwnersRecorded /\ PointersValid
      /\ avail \subseteq DOMAIN slots
  BY DEF UniformInv, BaseInv, ListShape
<1>t. /\ pc \in [Threads -> Labels]
      /\ loc \in [Threads -> [size : Nat, mask : SUBSET Layers, addr : Nat,
                              slot : Nat, next : Nat]]
      /\ slots \in [DOMAIN slots -> [addr : Nat, size : Nat \ {0}, next : Nat]]
      /\ MemTree \in [DOMAIN MemTree -> [Size : Nat \ {0}, OwnerMask : SUBSET Layers]]
      /\ nodeBump \in Nat /\ nodeEnd \in Nat
  BY Geometry DEF BaseInv, TypeOK
<1> USE DEF Goto
<1>1. ASSUME NEW t \in Threads, UNCHANGED <<MemTree, slots, avail>>,
             \A u \in Threads \ {t} : pc'[u] = pc[u] /\ loc'[u] = loc[u],
             nodeBump' <= nodeEnd => nodeBump <= nodeEnd,
             ~Carries(t), ~Releasing(t)'
      PROVE  BlocksKept'
  BY <1>1, <1>a, KeptFrame
<1>2. ASSUME NEW t \in Threads, popFreeTake(t) PROVE BlocksKept'
  <2> DEFINE h == freeList
  <2>1. h \in avail /\ avail' = avail \ {h} /\ slots' = slots /\ loc[t].slot = h
    BY <1>2, TakeHead
  <2>2. /\ loc'[t].addr = slots[h].addr /\ ~Carries(t) /\ Carries(t)' /\ ~Releasing(t)'
        /\ MemTree' = MemTree /\ nodeBump' = nodeBump
        /\ \A u \in Threads \ {t} : pc'[u] = pc[u] /\ loc'[u] = loc[u]
    BY <1>2, <1>t, <2>1 DEF popFreeTake, NoLocals, Carries, Releasing
  <2>3. \A u \in Threads \ {t} : (Carries(u)' <=> Carries(u)) /\ (Releasing(u)' <=> Releasing(u))
    BY <2>2 DEF Carries, Releasing
  <2> HIDE DEF h
  <2> QED
    BY <2>1, <2>2, <2>3 DEF BlocksKept
<1>3. ASSUME NEW t \in Threads, AllocReturn(t) PROVE BlocksKept'
  <2> DEFINE a == loc[t].addr
  <2>1. /\ pc[t] = "insert" /\ pc'[t] = "idle" /\ loc[t].mask # {}
        /\ slots' = slots /\ avail' = avail /\ nodeBump' = nodeBump
        /\ \A u \in Threads \ {t} : pc'[u] = pc[u] /\ loc'[u] = loc[u]
    BY <1>3, <1>t DEF AllocReturn, Return, MasksGiven, Releasing
  <2>2. /\ DOMAIN MemTree' = DOMAIN MemTree \cup {a}
        /\ \A b \in DOMAIN MemTree \ {a} : MemTree'[b] = MemTree[b]
        /\ loc[t].mask \subseteq MemTree'[a].OwnerMask
    BY <1>3 DEF AllocReturn, insertNode
  <2>3. /\ ~Releasing(t)'
        /\ \A u \in Threads \ {t} : (Carries(u)' <=> Carries(u)) /\ (Releasing(u)' <=> Releasing(u))
    BY <2>1 DEF Carries, Releasing
  <2>4. MemTree'[a].OwnerMask # {}
    BY <2>1, <2>2
  <2> HIDE DEF a
  <2>5. /\ \A s \in DOMAIN slots' : slots'[s].addr \in DOMAIN MemTree'
        /\ \A u \in Threads : Releasing(u)' => loc'[u].addr \in DOMAIN MemTree'
    BY <2>1, <2>2, <2>3 DEF BlocksKept
  <2>6. ASSUME nodeBump' <= nodeEnd, NEW b \in DOMAIN MemTree', MemTree'[b].OwnerMask = {}
        PROVE  \/ \E s \in avail' : slots'[s].addr = b
               \/ \E u \in Threads : Carries(u)' /\ loc'[u].addr = b
    <3>1. b # a /\ b \in DOMAIN MemTree /\ MemTree[b].OwnerMask = {}
      BY <2>2, <2>4, <2>6
    <3>2. \/ \E s \in avail : slots[s].addr = b
          \/ \E u \in Threads : Carries(u) /\ loc[u].addr = b
      BY <2>1, <2>6, <3>1 DEF BlocksKept
    <3> QED
      BY <2>1, <2>3, <3>1, <3>2 DEF a
  <2> QED
    BY <2>5, <2>6 DEF BlocksKept
<1>4. ASSUME NEW t \in Threads, FreeClear(t) PROVE BlocksKept'
  <2> DEFINE a == loc[t].addr
  <2>1. /\ pc[t] = "clear" /\ slots' = slots /\ avail' = avail /\ nodeBump' = nodeBump
        /\ \A u \in Threads \ {t} : pc'[u] = pc[u] /\ loc'[u] = loc[u]
        /\ a \in DOMAIN MemTree
    BY <1>4, <1>t, <1>a DEF FreeClear, Return, PointersValid
  <2>2. /\ DOMAIN MemTree' = DOMAIN MemTree
        /\ \A b \in DOMAIN MemTree \ {a} : MemTree'[b] = MemTree[b]
        /\ Releasing(t)' => loc'[t].addr = a
        /\ MemTree'[a].OwnerMask = {} => Carries(t)' /\ loc'[t].addr = a
    BY <1>4, <1>t, <2>1 DEF FreeClear, Return, Releasing, Carries
  <2>3. /\ ~Carries(t)
        /\ \A u \in Threads \ {t} : (Carries(u)' <=> Carries(u)) /\ (Releasing(u)' <=> Releasing(u))
    BY <2>1 DEF Carries, Releasing
  <2> HIDE DEF a
  <2> QED
    BY <2>1, <2>2, <2>3 DEF BlocksKept
<1>5. ASSUME NEW t \in Threads, newFreeSlot(t) PROVE BlocksKept'
  <2>1. /\ Releasing(t) /\ Releasing(t)' /\ Carries(t) /\ Carries(t)'
        /\ loc'[t].addr = loc[t].addr
        /\ avail' = avail /\ MemTree' = MemTree /\ (nodeBump' <= nodeEnd => nodeBump <= nodeEnd)
        /\ \A u \in Threads \ {t} : pc'[u] = pc[u] /\ loc'[u] = loc[u]
    BY <1>5, <1>t DEF newFreeSlot, Releasing, Carries, freeSlotSize
  <2>2. /\ DOMAIN slots' = DOMAIN slots \cup {nodeBump}
        /\ slots'[nodeBump].addr = loc[t].addr
        /\ \A s \in DOMAIN slots : slots'[s] = slots[s]
    BY <1>5, SlotAddresses DEF newFreeSlot
  <2>3. \A u \in Threads : /\ (Carries(u)' <=> Carries(u)) /\ (Releasing(u)' <=> Releasing(u))
                           /\ loc'[u].addr = loc[u].addr
    BY <2>1 DEF Carries, Releasing
  <2> QED
    BY <1>a, <2>1, <2>2, <2>3 DEF BlocksKept
<1>6. ASSUME NEW t \in Threads, FreeReturn(t) PROVE BlocksKept'
  <2>1. /\ pc[t] = "pushCas" /\ pc'[t] = "idle" /\ MemTree' = MemTree /\ slots' = slots
        /\ avail' = avail \cup {loc[t].slot} /\ nodeBump' = nodeBump
        /\ \A u \in Threads \ {t} : pc'[u] = pc[u] /\ loc'[u] = loc[u]
    BY <1>6, <1>t DEF FreeReturn, LinkSlot, Return
  <2>2. slots[loc[t].slot].addr = loc[t].addr /\ ~Releasing(t)'
    BY <2>1, <1>a DEF SlotsStable, Pushing, Releasing
  <2>3. \A u \in Threads \ {t} : (Carries(u)' <=> Carries(u)) /\ (Releasing(u)' <=> Releasing(u))
    BY <2>1 DEF Carries, Releasing
  <2> QED
    BY <2>1, <2>2, <2>3 DEF BlocksKept
<1>7. ASSUME NEW t \in Threads, NEW from, NEW to, pushFreeLoad(t, from, to) \/ pushFreeRetry(t, from, to),
             \/ from \in {"repushLoad", "repushCas"} /\ to \in {"repushLoad", "repushCas"}
             \/ from \in {"pushLoad", "pushCas"} /\ to \in {"pushLoad", "pushCas"}
      PROVE  BlocksKept'
  <2>1. /\ from \in {"pushLoad", "pushCas"} /\ to \in {"pushLoad", "pushCas"}
        /\ pc[t] = from /\ pc'[t] = to /\ MemTree' = MemTree
    BY <1>7, <1>a, <1>t DEF pushFreeLoad, pushFreeRetry, SlotsStable
  <2>2. /\ DOMAIN slots' = DOMAIN slots
        /\ \A s \in DOMAIN slots : slots'[s].addr = slots[s].addr
    BY <1>7, <1>t DEF pushFreeLoad, pushFreeRetry
  <2>3. /\ avail' = avail /\ nodeBump' = nodeBump /\ loc'[t].addr = loc[t].addr
        /\ \A u \in Threads \ {t} : pc'[u] = pc[u] /\ loc'[u] = loc[u]
    BY <1>7, <1>t DEF pushFreeLoad, pushFreeRetry
  <2> QED
    BY <1>a, <2>1, <2>2, <2>3, KeptFrame DEF Carries, Releasing
<1>8. ASSUME NEW t \in Threads, newNode(t) PROVE BlocksKept'
  BY <1>8, <1>a, <1>t, KeptFrame DEF newNode, Carries, Releasing, BallocNodeSize
<1>9. ASSUME NEW t \in Threads, newNodeExhausted(t) \/ newFreeSlotExhausted(t)
      PROVE  BlocksKept'
  <2>1. /\ nodeBump' > nodeEnd /\ nodeBump' \in Nat /\ ~Releasing(t)'
        /\ UNCHANGED <<MemTree, slots, avail>>
        /\ \A u \in Threads \ {t} : pc'[u] = pc[u] /\ loc'[u] = loc[u]
    BY <1>9, <1>t
       DEF newNodeExhausted, newFreeSlotExhausted, Return, Releasing, BallocNodeSize, freeSlotSize
  <2>2. ~(nodeBump' <= nodeEnd)
    BY <1>t, <2>1
  <2> QED
    BY <1>a, <2>1, <2>2, KeptFrame
<1>10. ASSUME NEW t \in Threads, NEW a \in DOMAIN MemTree, NEW k \in SUBSET Layers,
              NEW v \in Threads, Share(t, a, k, v)
       PROVE  BlocksKept'
  <2>1. UNCHANGED <<pc, loc, slots, avail, nodeBump>>
    BY <1>10 DEF Share
  <2>2. /\ DOMAIN MemTree' = DOMAIN MemTree
        /\ \A b \in DOMAIN MemTree : MemTree'[b].OwnerMask = {} => MemTree[b].OwnerMask = {}
    BY <1>10, <1>t DEF Share
  <2>3. \A u \in Threads : (Carries(u)' <=> Carries(u)) /\ (Releasing(u)' <=> Releasing(u))
    BY <2>1 DEF Carries, Releasing
  <2> QED
    BY <2>1, <2>2, <2>3 DEF BlocksKept
<1>11. CASE Reset
  BY <1>11 DEF Reset, Quiescent, BlocksKept, Releasing
<1>12. ASSUME UNCHANGED <<MemTree, slots, avail, pc, loc, nodeBump>> PROVE BlocksKept'
  <2>1. \A u \in Threads : (Carries(u)' <=> Carries(u)) /\ (Releasing(u)' <=> Releasing(u))
    BY <1>12 DEF Carries, Releasing
  <2> QED
    BY <1>12, <2>1 DEF BlocksKept
<1>13. ASSUME NEW t \in Threads, Step(t) PROVE BlocksKept'
  <2>1. CASE popFreeEmpty(t) \/ popFreeLoadHead(t) \/ popFreeLoadNext(t) \/ popFreeRetry(t)
    BY <2>1, <1>1, <1>t
       DEF popFreeEmpty, popFreeLoadHead, popFreeLoadNext, popFreeRetry, Leave, Carries, Releasing
  <2>2. CASE bumpCarve(t) \/ bumpExhausted(t)
    BY <2>2, <1>1, <1>t DEF bumpCarve, bumpExhausted, Return, Carries, Releasing
  <2>3. ~repushDone(t)
    BY <1>a DEF repushDone, SlotsStable
  <2> QED
    BY <1>2, <1>3, <1>4, <1>5, <1>6, <1>7, <1>8, <1>9, <1>13, <2>1, <2>2, <2>3, NeverTooSmall
       DEF Step
<1>14. ASSUME NEW t \in Threads, Call(t) PROVE BlocksKept'
  <2>1. ASSUME NEW s \in Sizes, NEW m \in SUBSET Layers, AllocCall(t, s, m)
        PROVE  BlocksKept'
    BY <2>1, <1>1, <1>t DEF AllocCall, Carries, Releasing
  <2>2. ASSUME NEW a \in DOMAIN MemTree, NEW m \in SUBSET Layers, FreeCall(t, a, m)
        PROVE  BlocksKept'
    BY <2>2, <1>1, <1>t DEF FreeCall, Carries, Releasing
  <2> QED
    BY <1>10, <1>14, <2>1, <2>2 DEF Call
<1> QED
  BY <1>11, <1>12, <1>13, <1>14 DEF Next, vars, Close

\* A step that counts nothing and changes no mask and no release.
LEMMA CountFrame ==
  ASSUME CountExact, Owned' = Owned, activeBlocks' = activeBlocks,
         nodeBump' <= nodeEnd => nodeBump <= nodeEnd,
         nodeBump' <= nodeEnd =>
           \A u \in Threads : /\ Releasing(u)' <=> Releasing(u)
                              /\ Releasing(u) => loc'[u].addr = loc[u].addr
  PROVE  CountExact'
<1> SUFFICES ASSUME nodeBump' <= nodeEnd
             PROVE  IsFiniteSet(Counted') /\ activeBlocks' = Cardinality(Counted')
  BY DEF CountExact
<1>1. Counted' = Counted
  BY DEF Counted
<1> QED
  BY <1>1 DEF CountExact

\* activeBlocks follows the blocks that have owners or are being released.
LEMMA CountStep ==
  ASSUME UniformSizes, BaseInv, UniformInv, CountExact, MasksGiven, [Next]_vars
  PROVE  CountExact'
<1>a. /\ SlotsStable /\ BlocksExclusive /\ OwnersRecorded /\ FreeInProgress /\ PointersValid
  BY DEF UniformInv, BaseInv
<1>t. /\ pc \in [Threads -> Labels]
      /\ loc \in [Threads -> [size : Nat, mask : SUBSET Layers, addr : Nat,
                              slot : Nat, next : Nat]]
      /\ MemTree \in [DOMAIN MemTree -> [Size : Nat \ {0}, OwnerMask : SUBSET Layers]]
      /\ nodeBump \in Nat /\ nodeEnd \in Nat /\ activeBlocks \in Int
  BY Geometry DEF BaseInv, TypeOK
<1>o. ASSUME NEW t \in Threads, Carries(t) PROVE loc[t].addr \notin Owned
  <2>1. \A u \in Threads : \A o \in Tokens(u) : o[1] # loc[t].addr
    BY <1>o, <1>a DEF BlocksExclusive
  <2>2. {l \in Layers : \E u \in Threads : <<loc[t].addr, l>> \in Tokens(u)} = {}
    BY <2>1
  <2> QED
    BY <1>a, <2>2 DEF Owned, OwnersRecorded
<1> USE DEF Goto
<1>1. ASSUME NEW t \in Threads, UNCHANGED <<MemTree, activeBlocks>>,
             \A u \in Threads \ {t} : pc'[u] = pc[u] /\ loc'[u] = loc[u],
             nodeBump' <= nodeEnd => nodeBump <= nodeEnd,
             nodeBump' <= nodeEnd =>
               \/ ~Releasing(t) /\ ~Releasing(t)'
               \/ Releasing(t) /\ Releasing(t)' /\ loc'[t].addr = loc[t].addr
      PROVE  CountExact'
  <2>1. Owned' = Owned
    BY <1>1 DEF Owned
  <2>2. ASSUME nodeBump' <= nodeEnd, NEW u \in Threads
        PROVE  (Releasing(u)' <=> Releasing(u)) /\ (Releasing(u) => loc'[u].addr = loc[u].addr)
    BY <1>1, <2>2 DEF Releasing
  <2> QED
    BY <1>1, <2>1, <2>2, CountFrame
<1>2. ASSUME NEW t \in Threads, AllocReturn(t) PROVE CountExact'
  <2> DEFINE a == loc[t].addr
  <2>1. /\ pc[t] = "insert" /\ pc'[t] = "idle" /\ loc[t].mask # {} /\ Carries(t)
        /\ nodeBump' = nodeBump /\ activeBlocks' = activeBlocks + 1
        /\ \A u \in Threads \ {t} : pc'[u] = pc[u] /\ loc'[u] = loc[u]
    BY <1>2, <1>t DEF AllocReturn, Return, MasksGiven, Releasing, Carries
  <2>2. /\ DOMAIN MemTree' = DOMAIN MemTree \cup {a}
        /\ \A b \in DOMAIN MemTree \ {a} : MemTree'[b] = MemTree[b]
        /\ loc[t].mask \subseteq MemTree'[a].OwnerMask
    BY <1>2 DEF AllocReturn, insertNode
  <2>3. MemTree'[a].OwnerMask # {}
    BY <2>1, <2>2
  <2>4. a \notin Owned
    BY <1>o, <2>1
  <2>5. \A u \in Threads : Releasing(u) => loc[u].addr # a /\ u # t
    BY <1>a, <2>1 DEF BlocksExclusive, Carries, Releasing
  <2>6. /\ \A u \in Threads : Releasing(u)' <=> Releasing(u)
        /\ \A u \in Threads : Releasing(u) => loc'[u].addr = loc[u].addr
    BY <2>1 DEF Releasing
  <2> HIDE DEF a
  <2>7. Owned' = Owned \cup {a}
    BY <2>2, <2>3 DEF Owned
  <2>8. Counted' = Counted \cup {a} /\ a \notin Counted
    BY <2>4, <2>5, <2>6, <2>7 DEF Counted
  <2> QED
    BY <1>t, <2>1, <2>8, FS_AddElement DEF CountExact
<1>3. ASSUME NEW t \in Threads, FreeReturn(t) PROVE CountExact'
  <2> DEFINE a == loc[t].addr
  <2>1. /\ pc[t] = "pushCas" /\ pc'[t] = "idle" /\ MemTree' = MemTree
        /\ nodeBump' = nodeBump /\ activeBlocks' = activeBlocks - 1
        /\ \A u \in Threads \ {t} : pc'[u] = pc[u] /\ loc'[u] = loc[u]
    BY <1>3, <1>t DEF FreeReturn, LinkSlot, Return
  <2>2. Carries(t) /\ Releasing(t) /\ ~Releasing(t)'
    BY <2>1 DEF Carries, Releasing
  <2>3. a \notin Owned /\ Owned' = Owned
    BY <1>o, <2>1, <2>2 DEF Owned
  <2>4. \A u \in Threads \ {t} : Releasing(u) => loc[u].addr # a
    BY <1>a, <2>2 DEF BlocksExclusive, Carries, Releasing
  <2>5. \A u \in Threads \ {t} : (Releasing(u)' <=> Releasing(u)) /\ loc'[u].addr = loc[u].addr
    BY <2>1 DEF Releasing
  <2>6. Counted' = Counted \ {a} /\ a \in Counted
    BY <2>2, <2>3, <2>4, <2>5 DEF Counted
  <2> HIDE DEF a
  <2> QED
    BY <1>t, <2>1, <2>6, FS_RemoveElement DEF CountExact
<1>4. ASSUME NEW t \in Threads, FreeClear(t) PROVE CountExact'
  <2> DEFINE a == loc[t].addr
  <2>1. /\ pc[t] = "clear" /\ nodeBump' = nodeBump /\ activeBlocks' = activeBlocks
        /\ \A u \in Threads \ {t} : pc'[u] = pc[u] /\ loc'[u] = loc[u]
        /\ a \in DOMAIN MemTree
    BY <1>4, <1>t, <1>a DEF FreeClear, Return, PointersValid
  <2>2. a \in Owned
    <3>1. PICK l \in Layers : <<a, l>> \in Tokens(t)
      BY <1>a, <2>1 DEF FreeInProgress
    <3>2. l \in MemTree[a].OwnerMask
      BY <1>a, <2>1, <3>1 DEF OwnersRecorded
    <3> QED
      BY <2>1, <3>2 DEF Owned
  <2>3. /\ DOMAIN MemTree' = DOMAIN MemTree
        /\ \A b \in DOMAIN MemTree \ {a} : MemTree'[b] = MemTree[b]
    BY <1>4, <1>t, <2>1 DEF FreeClear
  <2>4. \/ MemTree'[a].OwnerMask # {} /\ ~Releasing(t)'
        \/ MemTree'[a].OwnerMask = {} /\ Releasing(t)' /\ loc'[t].addr = a
    BY <1>4, <1>t, <2>1 DEF FreeClear, Return, Releasing
  <2>5. /\ ~Releasing(t)
        /\ \A u \in Threads \ {t} : (Releasing(u)' <=> Releasing(u)) /\ loc'[u].addr = loc[u].addr
    BY <2>1 DEF Releasing
  <2> HIDE DEF a
  <2>6. Counted' = Counted
    <3>1. CASE MemTree'[a].OwnerMask # {} /\ ~Releasing(t)'
      <4>1. Owned' = Owned
        BY <2>1, <2>2, <2>3, <3>1 DEF Owned
      <4> QED
        BY <2>5, <3>1, <4>1 DEF Counted
    <3>2. CASE MemTree'[a].OwnerMask = {} /\ Releasing(t)' /\ loc'[t].addr = a
      <4>1. Owned' = Owned \ {a}
        BY <2>1, <2>3, <3>2 DEF Owned
      <4> QED
        BY <2>2, <2>5, <3>2, <4>1 DEF Counted
    <3> QED
      BY <2>4, <3>1, <3>2
  <2> QED
    BY <2>1, <2>6 DEF CountExact
<1>5. ASSUME NEW t \in Threads, NEW a \in DOMAIN MemTree, NEW k \in SUBSET Layers,
             NEW v \in Threads, Share(t, a, k, v)
      PROVE  CountExact'
  <2>1. UNCHANGED <<pc, loc, nodeBump, activeBlocks>>
    BY <1>5 DEF Share
  <2>2. MemTree[a].OwnerMask # {}
    <3>1. PICK l \in Layers : <<a, l>> \in held[t]
      BY <1>5 DEF Share, LayersOf
    <3>2. <<a, l>> \in Tokens(t)
      BY <3>1 DEF Tokens
    <3> QED
      BY <1>a, <3>2 DEF OwnersRecorded
  <2>3. /\ DOMAIN MemTree' = DOMAIN MemTree
        /\ \A b \in DOMAIN MemTree \ {a} : MemTree'[b] = MemTree[b]
        /\ MemTree[a].OwnerMask \subseteq MemTree'[a].OwnerMask
    BY <1>5, <1>t DEF Share
  <2>4. Owned' = Owned
    BY <2>2, <2>3 DEF Owned
  <2> QED
    BY <2>1, <2>4, CountFrame DEF Releasing
<1>6. CASE Reset
  <2>1. Counted' = {}
    BY <1>6 DEF Reset, Quiescent, Counted, Owned, Releasing
  <2> QED
    BY <1>6, <2>1, FS_EmptySet DEF Reset, CountExact
<1>7. ASSUME UNCHANGED <<MemTree, activeBlocks, pc, loc, nodeBump>> PROVE CountExact'
  BY <1>7, CountFrame DEF Owned, Releasing
<1>8. ASSUME NEW t \in Threads, Step(t) PROVE CountExact'
  <2>1. CASE popFreeEmpty(t) \/ popFreeLoadHead(t) \/ popFreeLoadNext(t) \/ popFreeRetry(t)
             \/ popFreeTake(t)
    BY <2>1, <1>1, <1>t
       DEF popFreeEmpty, popFreeLoadHead, popFreeLoadNext, popFreeRetry, popFreeTake, Leave,
           Releasing
  <2>2. CASE bumpCarve(t) \/ bumpExhausted(t)
    BY <2>2, <1>1, <1>t DEF bumpCarve, bumpExhausted, Return, Releasing
  <2>3. CASE newNode(t) \/ newNodeExhausted(t)
    BY <2>3, <1>1, <1>t DEF newNode, newNodeExhausted, Return, Releasing, BallocNodeSize
  <2>4. CASE newFreeSlot(t)
    BY <2>4, <1>1, <1>t DEF newFreeSlot, Releasing, freeSlotSize
  <2>5. CASE newFreeSlotExhausted(t)
    <3>1. ~(nodeBump' <= nodeEnd)
      BY <2>5, <1>t DEF newFreeSlotExhausted, freeSlotSize
    <3> QED
      BY <3>1 DEF CountExact
  <2>6. ASSUME NEW from, NEW to, pushFreeLoad(t, from, to) \/ pushFreeRetry(t, from, to),
               \/ from \in {"repushLoad", "repushCas"} /\ to \in {"repushLoad", "repushCas"}
               \/ from \in {"pushLoad", "pushCas"} /\ to \in {"pushLoad", "pushCas"}
        PROVE  CountExact'
    BY <2>6, <1>1, <1>t DEF pushFreeLoad, pushFreeRetry, Releasing
  <2>7. ~repushDone(t)
    BY <1>a DEF repushDone, SlotsStable
  <2> QED
    BY <1>2, <1>3, <1>4, <1>8, <2>1, <2>2, <2>3, <2>4, <2>5, <2>6, <2>7, NeverTooSmall DEF Step
<1>9. ASSUME NEW t \in Threads, Call(t) PROVE CountExact'
  <2>1. ASSUME NEW s \in Sizes, NEW m \in SUBSET Layers, AllocCall(t, s, m)
        PROVE  CountExact'
    BY <2>1, <1>1, <1>t DEF AllocCall, Releasing
  <2>2. ASSUME NEW a \in DOMAIN MemTree, NEW m \in SUBSET Layers, FreeCall(t, a, m)
        PROVE  CountExact'
    BY <2>2, <1>1, <1>t DEF FreeCall, Releasing
  <2> QED
    BY <1>5, <1>9, <2>1, <2>2 DEF Call
<1> QED
  BY <1>6, <1>7, <1>8, <1>9 DEF Next, vars, Close

-------------------------------------------------------------------------------

LEMMA KeptInit == Init => KeptInv
<1> SUFFICES ASSUME Init PROVE KeptInv
  OBVIOUS
<1>1. Counted = {} /\ activeBlocks = 0
  BY DEF Init, Counted, Owned, Releasing
<1>2. CountExact
  BY <1>1, FS_EmptySet DEF CountExact
<1> QED
  BY <1>2 DEF Init, KeptInv, ListComplete, BlocksKept, MasksGiven, Releasing

\* With requests of one aligned size, KeptInv is an invariant of balloc.
LEMMA KeptInvariant ==
  ASSUME UniformSizes
  PROVE  Spec => []KeptInv
<1>1. KeptInv /\ UniformInv /\ BaseInv /\ [Next]_vars => KeptInv'
  BY CompleteStep, KeptStep, CountStep, MasksStep DEF KeptInv
<1> QED
  BY <1>1, KeptInit, UniformInvariant, BaseInvariant, PTL DEF Spec

\* Between calls the bits a goroutine has are those it holds.
LEMMA OwnedLeased ==
  ASSUME UniformInv, Quiescent
  PROVE  \A a \in DOMAIN MemTree : Leased(a) <=> MemTree[a].OwnerMask # {}
<1>1. \A t \in Threads : Tokens(t) = held[t]
  BY DEF Quiescent, Tokens
<1>2. ASSUME NEW a \in DOMAIN MemTree
      PROVE  MemTree[a].OwnerMask = {l \in Layers : \E t \in Threads : <<a, l>> \in held[t]}
  BY <1>1 DEF UniformInv, OwnersRecorded
<1> QED
  BY <1>2 DEF Leased

\* With requests of one aligned size, no block is lost or listed twice before
\* the metadata area is exhausted: between calls the walk of the free list
\* meets one slot for each block that nobody owns, and no other.
THEOREM NothingLost ==
  ASSUME UniformSizes
  PROVE  Spec => []NoBlockLost
<1>1. BaseInv /\ UniformInv /\ KeptInv => NoBlockLost
  <2> SUFFICES ASSUME BaseInv, UniformInv, KeptInv, Quiescent, nodeBump <= nodeEnd
               PROVE  /\ {a \in DOMAIN MemTree : ~Leased(a)} = {slots[s].addr : s \in Listed}
                      /\ \A r, s \in Listed : slots[r].addr = slots[s].addr => r = s
    BY DEF NoBlockLost
  <2>a. ListShape /\ BlocksExclusive /\ OwnersRecorded /\ ListComplete /\ BlocksKept
    BY DEF UniformInv, KeptInv
  <2>1. Listed = avail
    <3>1. avail \in SUBSET DOMAIN slots /\ WalkStays(avail)
      BY <2>a DEF ListShape, WalkStays
    <3> QED
      BY <2>a, <3>1 DEF Listed, ListComplete
  <2>2. \A t \in Threads : ~Carries(t) /\ Tokens(t) = held[t]
    BY DEF Quiescent, Carries, Tokens
  <2>3. ASSUME NEW a \in DOMAIN MemTree, ~Leased(a)
        PROVE  \E s \in avail : slots[s].addr = a
    BY <2>a, <2>2, <2>3, OwnedLeased DEF BlocksKept
  <2>4. ASSUME NEW s \in avail
        PROVE  slots[s].addr \in DOMAIN MemTree /\ ~Leased(slots[s].addr)
    <3>1. slots[s].addr \in DOMAIN MemTree
      BY <2>a DEF ListShape, BlocksKept
    <3>2. \A t \in Threads : \A o \in held[t] : o[1] # slots[s].addr
      BY <2>a, <2>2 DEF BlocksExclusive
    <3> QED
      BY <3>1, <3>2 DEF Leased
  <2>5. \A r, s \in avail : slots[r].addr = slots[s].addr => r = s
    BY <2>a DEF BlocksExclusive
  <2> QED
    BY <2>1, <2>3, <2>4, <2>5
<1> QED
  BY <1>1, BaseInvariant, UniformInvariant, KeptInvariant, PTL

\* With requests of one aligned size, activeBlocks is the number of blocks that
\* have an owner whenever no call runs, until the metadata area is exhausted.
THEOREM ExactCount ==
  ASSUME UniformSizes
  PROVE  Spec => []ActiveCount
<1>1. UniformInv /\ KeptInv => ActiveCount
  <2> SUFFICES ASSUME UniformInv, KeptInv, Quiescent, nodeBump <= nodeEnd
               PROVE  activeBlocks = Cardinality({a \in DOMAIN MemTree : Leased(a)})
    BY DEF ActiveCount
  <2>1. \A t \in Threads : ~Releasing(t)
    BY DEF Quiescent, Releasing
  <2>2. Counted = Owned
    BY <2>1 DEF Counted
  <2>3. Owned = {a \in DOMAIN MemTree : Leased(a)}
    BY OwnedLeased DEF Owned
  <2> QED
    BY <2>2, <2>3 DEF KeptInv, CountExact
<1> QED
  BY <1>1, UniformInvariant, KeptInvariant, PTL
===============================================================================
