-------------------------------- MODULE MemTree --------------------------------
(***************************************************************************)
(* The lock-free binary search tree of package balloc (balloc/tree.go      *)
(* insertNode, insertBelow, findNode, clearOwner); memTree of package      *)
(* arena (arena/tree.go) has the same algorithm.  Goroutines interleave at *)
(* the atomic operations on the root and on the links of nodes.  Nodes are *)
(* added with a CAS on a nil link and never taken out; only Reset, called  *)
(* while no other call runs, forgets them.                                 *)
(*                                                                         *)
(* Alloc is the request "insert", Share and FreeVarying are a find and     *)
(* then an update of the mask of the node that was found.  The Size of a   *)
(* node is left out: an address has one size (BlocksDisjoint of Balloc).   *)
(*                                                                         *)
(* casLinkUnchecked, casLinkRetryStale, findSideSwapped and                *)
(* DescendUnchecked are faulty variants of the operators they precede.     *)
(***************************************************************************)
EXTENDS Integers

CONSTANTS
  Threads,     \* goroutines
  Addrs,       \* block addresses
  Layers,      \* bit positions of an owner mask
  Nodes,       \* bound of the model: the nodes that may be carved
  Nil          \* a nil pointer

ASSUME TreeAssumption == Addrs \subseteq Nat /\ Nil \notin Nodes

VARIABLES
  root,        \* MemTree: the first node, or Nil
  link,        \* node -> its Left and Right
  Addr,        \* node -> its block address
  OwnerMask,   \* node -> its owner bits
  span,        \* history: the keys that lead to a node; none before it is linked
  pc,          \* goroutine -> its next atomic operation
  at,          \* goroutine -> current: the node it has reached
  req, ret     \* goroutine -> its request and the last answer (see OwnerMap)

tree == <<root, link, Addr, OwnerMask, span>>
vars == <<tree, pc, at, req, ret>>

Linked == {n \in Nodes : span[n] # {}}

\* The map the tree stands for.
treeOwners ==
  [a \in {Addr[n] : n \in Linked} |->
     UNION {OwnerMask[n] : n \in {k \in Linked : Addr[k] = a}}]

Map == INSTANCE OwnerMap WITH owners <- treeOwners

NoLinks == [n \in Nodes |-> [Left |-> Nil, Right |-> Nil]]

Init ==
  /\ root = Nil
  /\ link = NoLinks
  /\ Addr = [n \in Nodes |-> 0]
  /\ OwnerMask = [n \in Nodes |-> {}]
  /\ span = [n \in Nodes |-> {}]
  /\ pc = [t \in Threads |-> "idle"]
  /\ at = [t \in Threads |-> Nil]
  /\ req = [t \in Threads |-> Map!NoRequest]
  /\ ret = [t \in Threads |-> Map!NoAnswer]

-------------------------------------------------------------------------------

\* normalizeMask: the mask of Alloc and Share is not empty.  A FreeVarying
\* without bits changes nothing and is left out.
Masks == SUBSET Layers \ {{}}

Call(t, op, a, m) ==
  /\ pc[t] = "idle"
  /\ pc' = [pc EXCEPT ![t] = "root"]
  /\ Map!Request(t, op, a, m)
  /\ UNCHANGED <<tree, at>>

Return(t, found, left) ==
  /\ Map!Answer(t, found, left)
  /\ pc' = [pc EXCEPT ![t] = "idle"]
  /\ at' = [at EXCEPT ![t] = Nil]

Inserting(t) == req[t].op = "insert"

\* A nil root: insertNode goes on to its CAS, findNode has no node to return.
rootLoad(t) ==
  /\ pc[t] = "root"
  /\ \/ /\ root # Nil
        /\ at' = [at EXCEPT ![t] = root]
        /\ pc' = [pc EXCEPT ![t] = "visit"]
        /\ UNCHANGED <<req, ret>>
     \/ /\ root = Nil /\ Inserting(t)
        /\ pc' = [pc EXCEPT ![t] = "casRoot"]
        /\ UNCHANGED <<at, req, ret>>
     \/ root = Nil /\ ~Inserting(t) /\ Return(t, FALSE, {})
  /\ UNCHANGED tree

\* The node of t, carved and filled in before the search, becomes visible with
\* the CAS that links it; keys are the ones that lead to it.  The first conjunct
\* is the bound.
newNode == CHOOSE n \in Nodes : n \notin Linked
Publish(t, keys) ==
  /\ Linked # Nodes
  /\ Addr' = [Addr EXCEPT ![newNode] = req[t].addr]
  /\ OwnerMask' = [OwnerMask EXCEPT ![newNode] = req[t].mask]
  /\ span' = [span EXCEPT ![newNode] = keys]
  /\ Return(t, TRUE, req[t].mask)

casRoot(t) ==
  /\ pc[t] = "casRoot" /\ root = Nil
  /\ root' = newNode
  /\ Publish(t, Addrs)
  /\ UNCHANGED link

casRootRetry(t) ==
  /\ pc[t] = "casRoot" /\ root # Nil
  /\ pc' = [pc EXCEPT ![t] = "root"]
  /\ UNCHANGED <<tree, at, req, ret>>

-------------------------------------------------------------------------------

\* The link of node n on the way to key a, as insertBelow and as findNode
\* choose it, and the keys that take it.
insertSide(a, n) == IF a > Addr[n] THEN "Right" ELSE "Left"
findSideSwapped(a, n) == IF a > Addr[n] THEN "Left" ELSE "Right"
findSide(a, n) == IF a < Addr[n] THEN "Left" ELSE "Right"

side(t) ==
  IF Inserting(t) THEN insertSide(req[t].addr, at[t]) ELSE findSide(req[t].addr, at[t])

Keys(n, s) ==
  {a \in span[n] : IF s = "Left" THEN a < Addr[n] ELSE a > Addr[n]}

\* The key is met: OrUint64 for insertBelow and Share, clearOwner for
\* FreeVarying.
Met(t) ==
  LET n == at[t]
      m == IF req[t].op = "free" THEN OwnerMask[n] \ req[t].mask
                                 ELSE OwnerMask[n] \cup req[t].mask
  IN /\ pc[t] = "visit" /\ Addr[n] = req[t].addr
     /\ OwnerMask' = [OwnerMask EXCEPT ![n] = m]
     /\ Return(t, TRUE, m)
     /\ UNCHANGED <<root, link, Addr, span>>

DescendUnchecked(t) ==
  /\ pc[t] = "visit" /\ Addr[at[t]] # req[t].addr
  /\ at' = [at EXCEPT ![t] = link[at[t]][side(t)]]
  /\ UNCHANGED <<tree, pc, req, ret>>
Descend(t) ==
  /\ pc[t] = "visit" /\ Addr[at[t]] # req[t].addr
  /\ link[at[t]][side(t)] # Nil
  /\ at' = [at EXCEPT ![t] = link[at[t]][side(t)]]
  /\ UNCHANGED <<tree, pc, req, ret>>

\* A nil link: insertBelow goes on to its CAS, findNode returns nil.
Bottom(t) ==
  /\ pc[t] = "visit" /\ Addr[at[t]] # req[t].addr
  /\ link[at[t]][side(t)] = Nil
  /\ \/ /\ Inserting(t)
        /\ pc' = [pc EXCEPT ![t] = "casLink"]
        /\ UNCHANGED <<at, req, ret>>
     \/ ~Inserting(t) /\ Return(t, FALSE, {})
  /\ UNCHANGED tree

\* A store in place of the CAS.
casLinkUnchecked(t) ==
  /\ pc[t] = "casLink"
  /\ link' = [link EXCEPT ![at[t]][side(t)] = newNode]
  /\ Publish(t, Keys(at[t], side(t)))
  /\ UNCHANGED root
casLink(t) ==
  /\ pc[t] = "casLink" /\ link[at[t]][side(t)] = Nil
  /\ link' = [link EXCEPT ![at[t]][side(t)] = newNode]
  /\ Publish(t, Keys(at[t], side(t)))
  /\ UNCHANGED root

\* A retry that does not load the link again.
casLinkRetryStale(t) ==
  /\ pc[t] = "casLink" /\ link[at[t]][side(t)] # Nil
  /\ UNCHANGED vars
casLinkRetry(t) ==
  /\ pc[t] = "casLink" /\ link[at[t]][side(t)] # Nil
  /\ pc' = [pc EXCEPT ![t] = "visit"]
  /\ UNCHANGED <<tree, at, req, ret>>

\* The root is set to nil and the nodes are carved anew; what they held before
\* is not read.
Reset ==
  /\ \A t \in Threads : pc[t] = "idle"
  /\ root' = Nil
  /\ link' = NoLinks
  /\ Addr' = [n \in Nodes |-> 0]
  /\ OwnerMask' = [n \in Nodes |-> {}]
  /\ span' = [n \in Nodes |-> {}]
  /\ UNCHANGED <<pc, at, req, ret>>

-------------------------------------------------------------------------------

Step(t) ==
  \/ rootLoad(t) \/ casRoot(t) \/ casRootRetry(t)
  \/ Met(t) \/ Descend(t) \/ Bottom(t) \/ casLink(t) \/ casLinkRetry(t)

Next ==
  \/ \E t \in Threads :
       \/ Step(t)
       \/ \E op \in Map!Ops, a \in Addrs, m \in Masks : Call(t, op, a, m)
  \/ Reset

Spec == Init /\ [][Next]_vars

\* The Go scheduler preempts: a goroutine inside a call is run again.
FairSpec == Spec /\ \A t \in Threads : WF_vars(Step(t))

-------------------------------------------------------------------------------

\* The pointers that are followed are nodes of the tree, and everything has the
\* type of the code's fields.
TypeOK ==
  /\ root \in Linked \cup {Nil}
  /\ link \in [Nodes -> [{"Left", "Right"} -> Nodes \cup {Nil}]]
  /\ Addr \in [Nodes -> Addrs \cup {0}]
  /\ OwnerMask \in [Nodes -> SUBSET Layers]
  /\ span \in [Nodes -> SUBSET Addrs]
  /\ pc \in [Threads -> {"idle", "root", "casRoot", "visit", "casLink"}]
  /\ \A t \in Threads :
       /\ at[t] \in IF pc[t] \in {"visit", "casLink"} THEN Linked ELSE {Nil}
       /\ req[t] = Map!NoRequest <=> pc[t] = "idle"

\* Each key has one place in the tree.  A link that is set leads to a node
\* whose keys are those that take the link; no node of the tree has a key
\* that takes a nil link; two different nil links are taken by different keys.
\* So a search that ends at a nil link has not overlooked a node that another
\* goroutine was adding, and an insert never adds a second node for a block.
SearchPaths ==
  \A n \in Linked :
    /\ Addr[n] \in span[n]
    /\ \A s \in {"Left", "Right"} :
         /\ link[n][s] # Nil => /\ link[n][s] \in Linked
                                /\ span[link[n][s]] = Keys(n, s)
         /\ link[n][s] = Nil =>
              \A k \in Linked :
                /\ Addr[k] \notin Keys(n, s)
                /\ \A r \in {"Left", "Right"} :
                     link[k][r] = Nil /\ <<k, r>> # <<n, s>> =>
                       Keys(k, r) \cap Keys(n, s) = {}
    /\ \A k \in Linked : Addr[k] = Addr[n] => k = n

\* The tree behaves like a map whose operations are atomic: every interleaving
\* of insertNode, findNode, clearOwner and the updates of masks gives answers
\* that OwnerMap gives too.
ImplementsMap == Map!Spec

\* Every search and every insert ends, whatever CAS it loses to others.
CallsReturn == \A t \in Threads : pc[t] # "idle" ~> pc[t] = "idle"
===============================================================================
