----------------------------- MODULE MemTreeProofs -----------------------------
(***************************************************************************)
(* Theorems about MemTree, for any number of goroutines, nodes, addresses  *)
(* and layers: the shape of the tree, and that it implements OwnerMap.     *)
(***************************************************************************)
EXTENDS MemTree, TLAPS

Sides == {"Left", "Right"}

Requests == [op : Map!Ops, addr : Addrs, mask : SUBSET Layers]

\* A goroutine in a call has a request; only an insert gets to a CAS.
CallsTyped ==
  /\ at \in [Threads -> Nodes \cup {Nil}]
  /\ req \in [Threads -> Requests \cup {Map!NoRequest}]
  /\ ret \in [Threads -> [found : BOOLEAN, left : SUBSET Layers]]
  /\ \A t \in Threads : pc[t] \in {"casRoot", "casLink"} => Inserting(t)

\* All keys lead to the root, which is set when there are nodes; a node that is
\* not in the tree has no links.
Rooted ==
  /\ root = Nil => Linked = {}
  /\ root # Nil => span[root] = Addrs
  /\ \A n \in Nodes \ Linked : \A s \in Sides : link[n][s] = Nil

\* A search has not left the path of its key; an insert is at a node that has
\* another key.
OnPath ==
  \A t \in Threads :
    /\ pc[t] \in {"visit", "casLink"} => req[t].addr \in span[at[t]]
    /\ pc[t] = "casLink" => Addr[at[t]] # req[t].addr

TreeInv ==
  /\ TypeOK
  /\ CallsTyped
  /\ Rooted
  /\ SearchPaths
  /\ OnPath
-------------------------------------------------------------------------------

\* The node that Publish adds is a node that was not in the tree.
LEMMA NewNode ==
  ASSUME Linked # Nodes
  PROVE  newNode \in Nodes /\ newNode \notin Linked
BY DEF Linked, newNode

\* A search that has not met its key goes on along the link that its key takes,
\* whether it chooses as insertBelow or as findNode.
LEMMA SideKeys ==
  ASSUME TreeInv, NEW t \in Threads, pc[t] \in {"visit", "casLink"},
         Addr[at[t]] # req[t].addr
  PROVE  /\ at[t] \in Linked /\ at[t] \in Nodes
         /\ side(t) \in Sides
         /\ req[t].addr \in Keys(at[t], side(t))
<1> USE DEF TreeInv
<1>1. at[t] \in Linked /\ at[t] \in Nodes
  BY DEF TypeOK, Linked
<1>2. req[t].addr \in span[at[t]] /\ span[at[t]] \subseteq Addrs
  BY <1>1 DEF OnPath, TypeOK
<1>3. Addr[at[t]] \in Nat /\ req[t].addr \in Nat
  BY <1>1, <1>2, TreeAssumption DEF SearchPaths
<1> QED
  BY <1>1, <1>2, <1>3 DEF side, insertSide, findSide, Keys, Sides

\* What Publish does to the tree.
LEMMA Published ==
  ASSUME TypeOK, NEW t \in Threads, NEW keys \in SUBSET Addrs, keys # {}, Publish(t, keys)
  PROVE  /\ newNode \in Nodes /\ newNode \notin Linked
         /\ Linked' = Linked \cup {newNode}
         /\ span'[newNode] = keys /\ Addr'[newNode] = req[t].addr
         /\ OwnerMask'[newNode] = req[t].mask
         /\ \A n \in Nodes : n # newNode =>
              span'[n] = span[n] /\ Addr'[n] = Addr[n] /\ OwnerMask'[n] = OwnerMask[n]
<1>1. newNode \in Nodes /\ newNode \notin Linked
  BY NewNode DEF Publish
<1> DEFINE w == newNode
<1>2. /\ span' = [span EXCEPT ![w] = keys]
      /\ Addr' = [Addr EXCEPT ![w] = req[t].addr]
      /\ OwnerMask' = [OwnerMask EXCEPT ![w] = req[t].mask]
  BY DEF Publish
<1> HIDE DEF w
<1>3. span'[w] = keys /\ Addr'[w] = req[t].addr /\ OwnerMask'[w] = req[t].mask
  BY <1>1, <1>2 DEF TypeOK, w
<1>4. \A n \in Nodes : n # w =>
        span'[n] = span[n] /\ Addr'[n] = Addr[n] /\ OwnerMask'[n] = OwnerMask[n]
  BY <1>1, <1>2 DEF TypeOK
<1>5. Linked' = Linked \cup {w}
  BY <1>1, <1>3, <1>4 DEF Linked, w
<1> QED
  BY <1>1, <1>3, <1>4, <1>5 DEF w
\* A request of Call is a request, and none is not.
LEMMA RequestTyped ==
  ASSUME NEW op \in Map!Ops, NEW a \in Addrs, NEW m \in Masks
  PROVE  /\ [op |-> op, addr |-> a, mask |-> m] \in Requests
         /\ [op |-> op, addr |-> a, mask |-> m] # Map!NoRequest
<1>1. op # "none"
  BY DEF Map!Ops
<1>2. [op |-> op, addr |-> a, mask |-> m].op # Map!NoRequest.op
  BY <1>1 DEF Map!NoRequest
<1> QED
  BY <1>2 DEF Requests, Masks

\* The insert that gets to a CAS has a block address and a mask.
LEMMA InsertTyped ==
  ASSUME TreeInv, NEW t \in Threads, pc[t] # "idle"
  PROVE  /\ req[t] \in Requests
         /\ req[t].op \in Map!Ops /\ req[t].addr \in Addrs /\ req[t].mask \in SUBSET Layers
<1>1. req[t] \in Requests
  BY DEF TreeInv, TypeOK, CallsTyped
<1> QED
  BY <1>1 DEF Requests

\* Every action keeps the types; at a CAS that succeeds the new node is in the
\* tree at once.
LEMMA TypeStep ==
  ASSUME TreeInv, [Next]_vars
  PROVE  TypeOK' /\ CallsTyped'
<1> DEFINE Types == TypeOK /\ CallsTyped
<1>t. TypeOK /\ CallsTyped
  BY DEF TreeInv
<1>n. [found |-> FALSE, left |-> {}] \in [found : BOOLEAN, left : SUBSET Layers]
  OBVIOUS
<1> USE DEF TypeOK, CallsTyped
<1>1. ASSUME NEW t \in Threads, NEW op \in Map!Ops, NEW a \in Addrs, NEW m \in Masks,
             Call(t, op, a, m)
      PROVE  Types'
  <2>1. [op |-> op, addr |-> a, mask |-> m] \in Requests
        /\ [op |-> op, addr |-> a, mask |-> m] # Map!NoRequest
    BY RequestTyped
  <2> DEFINE r == [op |-> op, addr |-> a, mask |-> m]
  <2>2. /\ req' = [req EXCEPT ![t] = r]
        /\ ret' = [ret EXCEPT ![t] = [found |-> FALSE, left |-> {}]]
    BY <1>1 DEF Call, Map!Request, Map!NoAnswer
  <2> HIDE DEF r
  <2>3. r \in Requests /\ r # Map!NoRequest
    BY <2>1 DEF r
  <2>4. Linked' = Linked
    BY <1>1 DEF Call, tree, Linked
  <2> QED
    BY <1>t, <1>1, <1>n, <2>2, <2>3, <2>4 DEF Call, tree, Inserting
<1>r. ASSUME NEW t \in Threads, NEW f \in BOOLEAN, NEW l \in SUBSET Layers, Return(t, f, l),
             Linked \subseteq Linked',
             root' \in Linked' \cup {Nil},
             link' \in [Nodes -> [{"Left", "Right"} -> Nodes \cup {Nil}]],
             Addr' \in [Nodes -> Addrs \cup {0}],
             OwnerMask' \in [Nodes -> SUBSET Layers],
             span' \in [Nodes -> SUBSET Addrs]
      PROVE  Types'
  <2>1. [found |-> f, left |-> l] \in [found : BOOLEAN, left : SUBSET Layers]
    OBVIOUS
  <2>2. ret' \in [Threads -> [found : BOOLEAN, left : SUBSET Layers]]
    BY <1>t, <1>r, <2>1 DEF Return, Map!Answer
  <2>3. /\ pc' = [pc EXCEPT ![t] = "idle"] /\ at' = [at EXCEPT ![t] = Nil]
        /\ req' = [req EXCEPT ![t] = Map!NoRequest]
    BY <1>r DEF Return, Map!Answer
  <2> QED
    BY <1>t, <1>r, <2>2, <2>3 DEF Inserting
<1>2. ASSUME NEW t \in Threads, rootLoad(t) PROVE Types'
  <2>1. Linked' = Linked
    BY <1>2 DEF rootLoad, tree, Linked
  <2>2. CASE Return(t, FALSE, {})
    BY <1>t, <1>r, <1>2, <2>1, <2>2 DEF rootLoad, tree
  <2>3. CASE /\ root # Nil /\ at' = [at EXCEPT ![t] = root]
             /\ pc' = [pc EXCEPT ![t] = "visit"] /\ UNCHANGED <<req, ret>>
    <3>1. root \in Linked /\ root \in Nodes
      BY <1>t, <2>3 DEF Linked
    <3> QED
      BY <1>t, <1>2, <2>1, <2>3, <3>1 DEF rootLoad, tree, Inserting
  <2>4. CASE /\ Inserting(t)
             /\ pc' = [pc EXCEPT ![t] = "casRoot"] /\ UNCHANGED <<at, req, ret>>
    BY <1>t, <1>2, <2>1, <2>4 DEF rootLoad, tree, Inserting
  <2> QED
    BY <1>2, <2>2, <2>3, <2>4 DEF rootLoad
<1>p. ASSUME NEW t \in Threads, NEW keys \in SUBSET Addrs, keys # {}, Publish(t, keys),
             pc[t] # "idle",
             root' \in {root, newNode},
             link' \in [Nodes -> [{"Left", "Right"} -> Nodes \cup {Nil}]]
      PROVE  Types'
  <2>1. req[t].addr \in Addrs /\ req[t].mask \in SUBSET Layers
    BY <1>p, InsertTyped
  <2>2. newNode \in Nodes /\ Linked' = Linked \cup {newNode}
    BY <1>t, <1>p, Published
  <2>3. /\ Addr' \in [Nodes -> Addrs \cup {0}]
        /\ OwnerMask' \in [Nodes -> SUBSET Layers]
        /\ span' \in [Nodes -> SUBSET Addrs]
    BY <1>t, <1>p, <2>1, <2>2 DEF Publish
  <2>4. Return(t, TRUE, req[t].mask)
    BY <1>p DEF Publish
  <2> QED
    BY <1>t, <1>p, <1>r, <2>1, <2>2, <2>3, <2>4
<1>3. ASSUME NEW t \in Threads, casRoot(t) PROVE Types'
  <2>1. req[t].addr \in Addrs
    BY <1>3, InsertTyped DEF casRoot
  <2> QED
    BY <1>t, <1>p, <1>3, <2>1 DEF casRoot
<1>4. ASSUME NEW t \in Threads, casRootRetry(t) PROVE Types'
  BY <1>t, <1>4 DEF casRootRetry, tree, Linked, Inserting
<1>5. ASSUME NEW t \in Threads, Met(t) PROVE Types'
  <2> DEFINE m == IF req[t].op = "free" THEN OwnerMask[at[t]] \ req[t].mask
                                        ELSE OwnerMask[at[t]] \cup req[t].mask
  <2>1. req[t].mask \in SUBSET Layers /\ at[t] \in Nodes
    BY <1>t, <1>5, InsertTyped DEF Met, Linked
  <2>2. m \in SUBSET Layers
    BY <1>t, <2>1
  <2>3. /\ OwnerMask' = [OwnerMask EXCEPT ![at[t]] = m] /\ Return(t, TRUE, m)
        /\ UNCHANGED <<root, link, Addr, span>>
    BY <1>5 DEF Met
  <2> HIDE DEF m
  <2>4. Linked' = Linked
    BY <2>3 DEF Linked
  <2> QED
    BY <1>t, <1>r, <2>1, <2>2, <2>3, <2>4
<1>6. ASSUME NEW t \in Threads, Descend(t) PROVE Types'
  <2>1. at[t] \in Linked /\ side(t) \in Sides
    BY <1>6, SideKeys DEF Descend
  <2>2. link[at[t]][side(t)] \in Linked /\ Linked \subseteq Nodes /\ Linked' = Linked
    BY <1>6, <2>1 DEF Descend, TreeInv, SearchPaths, Sides, Linked, tree
  <2> QED
    BY <1>t, <1>6, <2>2 DEF Descend, tree, Inserting
<1>7. ASSUME NEW t \in Threads, Bottom(t) PROVE Types'
  <2>1. Linked' = Linked
    BY <1>7 DEF Bottom, tree, Linked
  <2>2. CASE Return(t, FALSE, {})
    BY <1>t, <1>r, <1>7, <2>1, <2>2 DEF Bottom, tree
  <2>3. CASE /\ Inserting(t)
             /\ pc' = [pc EXCEPT ![t] = "casLink"] /\ UNCHANGED <<at, req, ret>>
    BY <1>t, <1>7, <2>1, <2>3 DEF Bottom, tree, Inserting
  <2> QED
    BY <1>7, <2>2, <2>3 DEF Bottom
<1>8. ASSUME NEW t \in Threads, casLink(t) PROVE Types'
  <2>1. at[t] \in Nodes /\ side(t) \in Sides /\ req[t].addr \in Keys(at[t], side(t))
    BY <1>8, SideKeys DEF casLink, TreeInv, OnPath
  <2>2. Keys(at[t], side(t)) \in SUBSET Addrs
    BY <1>t, <2>1 DEF Keys
  <2>3. Publish(t, Keys(at[t], side(t))) /\ root' = root
        /\ link' = [link EXCEPT ![at[t]][side(t)] = newNode]
    BY <1>8 DEF casLink
  <2>4. newNode \in Nodes
    BY <2>3, NewNode DEF Publish
  <2>5. link' \in [Nodes -> [{"Left", "Right"} -> Nodes \cup {Nil}]]
    BY <1>t, <2>1, <2>3, <2>4 DEF Sides
  <2> QED
    BY <1>t, <1>p, <1>8, <2>1, <2>2, <2>3, <2>5 DEF casLink
<1>9. ASSUME NEW t \in Threads, casLinkRetry(t) PROVE Types'
  BY <1>t, <1>9 DEF casLinkRetry, tree, Linked, Inserting
<1>10. ASSUME Reset PROVE Types'
  BY <1>t, <1>10 DEF Reset, Linked, NoLinks, Inserting
<1>11. CASE UNCHANGED vars
  BY <1>t, <1>11 DEF vars, tree, Linked, Inserting
<1> QED
  BY <1>1, <1>2, <1>3, <1>4, <1>5, <1>6, <1>7, <1>8, <1>9, <1>10, <1>11 DEF Next, Step
\* A CAS on the empty root leaves a tree with one node.
LEMMA RootLinked ==
  ASSUME TreeInv, NEW t \in Threads, casRoot(t)
  PROVE  Rooted' /\ SearchPaths'
<1>1. req[t].addr \in Addrs
  BY InsertTyped DEF casRoot
<1>2. Linked = {} /\ TypeOK
  BY DEF casRoot, TreeInv, Rooted
<1>a. Publish(t, Addrs) /\ root' = newNode /\ link' = link
  BY DEF casRoot
<1>3. /\ newNode \in Nodes /\ Linked' = {newNode}
      /\ span'[newNode] = Addrs /\ Addr'[newNode] = req[t].addr
  BY <1>1, <1>2, <1>a, Published
<1>b. PICK w \in Nodes : w = newNode
  BY <1>3
<1>4. Linked' = {w} /\ span'[w] = Addrs /\ Addr'[w] = req[t].addr /\ root' = w
  BY <1>3, <1>a, <1>b
<1>5. \A n \in Nodes, s \in Sides : link'[n][s] = Nil
  BY <1>2, <1>a DEF TreeInv, Rooted
<1>6. Rooted'
  BY <1>4, <1>5, TreeAssumption DEF Rooted
<1>7. \A s \in Sides : Keys(w, s)' = {b \in Addrs : IF s = "Left" THEN b < req[t].addr
                                                                ELSE b > req[t].addr}
  BY <1>4 DEF Keys
<1>8. req[t].addr \in Nat
  BY <1>1, TreeAssumption
<1>9. \A s \in Sides : req[t].addr \notin Keys(w, s)'
  BY <1>7, <1>8
<1>10. Keys(w, "Left")' \cap Keys(w, "Right")' = {}
  <2>1. ASSUME NEW b \in Keys(w, "Left")' \cap Keys(w, "Right")' PROVE FALSE
    <3>1. b \in Addrs /\ b < req[t].addr /\ b > req[t].addr
      BY <1>7, <2>1 DEF Sides
    <3> QED
      BY <1>8, <3>1, TreeAssumption
  <2> QED
    BY <2>1
<1>11. SearchPaths'
  BY <1>1, <1>4, <1>5, <1>9, <1>10 DEF SearchPaths, Sides
<1> QED
  BY <1>6, <1>11

\* A CAS on a nil link adds a node for the keys that take the link: none of
\* them had a place in the tree.
LEMMA NodeLinked ==
  ASSUME TreeInv, NEW t \in Threads, casLink(t)
  PROVE  Rooted' /\ SearchPaths'
<1> DEFINE p == at[t]
           d == side(t)
           a == req[t].addr
           K == Keys(p, d)
<1>1. /\ p \in Linked /\ p \in Nodes /\ d \in Sides /\ a \in K /\ link[p][d] = Nil
      /\ K \subseteq Addrs /\ TypeOK
  <2>1. p \in Linked /\ p \in Nodes /\ d \in Sides /\ a \in K
    BY SideKeys DEF casLink, TreeInv, OnPath
  <2> QED
    BY <2>1 DEF casLink, TreeInv, TypeOK, Keys
<1>2. Publish(t, K) /\ root' = root /\ link' = [link EXCEPT ![p][d] = newNode]
  BY DEF casLink
<1>w. PICK w \in Nodes : w = newNode
  BY <1>2, NewNode DEF Publish
<1>3. /\ w \notin Linked /\ Linked' = Linked \cup {w}
      /\ span'[w] = K /\ Addr'[w] = a
      /\ \A n \in Nodes : n # w => span'[n] = span[n] /\ Addr'[n] = Addr[n]
  BY <1>1, <1>2, <1>w, Published
<1> HIDE DEF p, d, a, K
<1>4. a \in Nat /\ w # Nil
  BY <1>1, <1>3, TreeAssumption
<1>5. /\ link'[p][d] = w
      /\ \A n \in Nodes, s \in Sides : <<n, s>> # <<p, d>> => link'[n][s] = link[n][s]
  BY <1>1, <1>2, <1>w DEF TypeOK, Sides
<1>6. \A s \in Sides : link'[w][s] = Nil
  BY <1>1, <1>3, <1>5 DEF TreeInv, Rooted
<1>7. /\ \A n \in Linked, s \in Sides : Keys(n, s)' = Keys(n, s)
      /\ \A s \in Sides : Keys(w, s)' \subseteq K
      /\ \A s \in Sides : a \notin Keys(w, s)'
      /\ Keys(w, "Left")' \cap Keys(w, "Right")' = {}
  <2>1. \A n \in Linked, s \in Sides : Keys(n, s)' = Keys(n, s)
    BY <1>3 DEF Keys, Linked
  <2>2. \A s \in Sides : Keys(w, s)' = {b \in K : IF s = "Left" THEN b < a ELSE b > a}
    BY <1>3 DEF Keys
  <2>3. \A s \in Sides : Keys(w, s)' \subseteq K /\ a \notin Keys(w, s)'
    BY <1>4, <2>2
  <2>4. ASSUME NEW b \in Keys(w, "Left")' \cap Keys(w, "Right")' PROVE FALSE
    <3>1. b \in K /\ b < a /\ b > a
      BY <2>2, <2>4 DEF Sides
    <3> QED
      BY <1>1, <1>4, <3>1, TreeAssumption
  <2> QED
    BY <2>1, <2>3, <2>4
<1>8. \A k \in Linked : Addr[k] \notin K /\ Addr[k] # a
  BY <1>1 DEF TreeInv, SearchPaths, Sides, K
<1>9. \A k \in Linked, r \in Sides :
        link[k][r] = Nil /\ <<k, r>> # <<p, d>> => Keys(k, r) \cap K = {}
  BY <1>1 DEF TreeInv, SearchPaths, Sides, K
<1>10. Rooted'
  <2>1. root # Nil /\ root \in Linked
    BY <1>1 DEF TreeInv, Rooted, TypeOK
  <2>2. span'[root] = Addrs
    BY <1>3, <2>1 DEF TreeInv, Rooted, Linked
  <2>3. \A n \in Nodes \ Linked' : \A s \in Sides : link'[n][s] = Nil
    BY <1>1, <1>3, <1>5 DEF TreeInv, Rooted
  <2> QED
    BY <1>2, <2>1, <2>2, <2>3 DEF Rooted
<1>11. ASSUME NEW n \in Linked'
       PROVE  Addr'[n] \in span'[n] /\ \A k \in Linked' : Addr'[k] = Addr'[n] => k = n
  <2>1. CASE n = w
    BY <1>1, <1>3, <1>8, <2>1 DEF Linked
  <2>2. CASE n \in Linked
    <3>1. n # w /\ Addr'[n] = Addr[n] /\ span'[n] = span[n]
      BY <1>3, <2>2 DEF Linked
    <3>2. Addr[n] \in span[n] /\ \A k \in Linked : Addr[k] = Addr[n] => k = n
      BY <2>2 DEF TreeInv, SearchPaths
    <3> QED
      BY <1>3, <1>8, <2>2, <3>1, <3>2 DEF Linked
  <2> QED
    BY <1>3, <2>1, <2>2
<1>12. ASSUME NEW n \in Linked', NEW s \in Sides, link'[n][s] # Nil
       PROVE  link'[n][s] \in Linked' /\ span'[link'[n][s]] = Keys(n, s)'
  <2>1. n \in Linked
    BY <1>3, <1>6, <1>12
  <2>2. CASE <<n, s>> = <<p, d>>
    <3>1. n = p /\ s = d
      BY <2>2
    <3> QED
      BY <1>1, <1>3, <1>5, <1>7, <3>1 DEF K
  <2>3. CASE <<n, s>> # <<p, d>>
    <3>1. link'[n][s] = link[n][s]
      BY <1>5, <2>1, <2>3 DEF Linked
    <3>2. link[n][s] \in Linked /\ span[link[n][s]] = Keys(n, s)
      BY <1>12, <2>1, <3>1 DEF TreeInv, SearchPaths, Sides
    <3> QED
      BY <1>3, <1>7, <2>1, <3>1, <3>2 DEF Linked
  <2> QED
    BY <2>2, <2>3
<1>13. ASSUME NEW n \in Linked', NEW s \in Sides, link'[n][s] = Nil, NEW k \in Linked'
       PROVE  Addr'[k] \notin Keys(n, s)'
  <2>1. <<n, s>> # <<p, d>>
    BY <1>4, <1>5, <1>13
  <2>2. CASE n = w
    BY <1>3, <1>7, <1>8, <2>2 DEF Linked
  <2>3. CASE n \in Linked
    <3>1. link[n][s] = Nil /\ Keys(n, s)' = Keys(n, s)
      BY <1>5, <1>7, <1>13, <2>1, <2>3 DEF Linked
    <3>2. CASE k = w
      BY <1>1, <1>3, <1>9, <2>1, <2>3, <3>1, <3>2
    <3>3. CASE k \in Linked
      <4>1. Addr'[k] = Addr[k]
        BY <1>3, <3>3 DEF Linked
      <4>2. Addr[k] \notin Keys(n, s)
        BY <2>3, <3>1, <3>3 DEF TreeInv, SearchPaths, Sides
      <4> QED
        BY <3>1, <4>1, <4>2
    <3> QED
      BY <1>3, <3>2, <3>3
  <2> QED
    BY <1>3, <2>2, <2>3
<1>14. ASSUME NEW n \in Linked', NEW s \in Sides, link'[n][s] = Nil,
              NEW k \in Linked', NEW r \in Sides, link'[k][r] = Nil, <<k, r>> # <<n, s>>
       PROVE  Keys(k, r)' \cap Keys(n, s)' = {}
  <2>1. <<n, s>> # <<p, d>> /\ <<k, r>> # <<p, d>>
    BY <1>4, <1>5, <1>14
  <2>2. CASE n = w /\ k = w
    BY <1>7, <1>14, <2>2 DEF Sides
  <2>3. CASE n = w /\ k \in Linked
    <3>1. link[k][r] = Nil
      BY <1>5, <1>14, <2>1, <2>3 DEF Linked
    <3> QED
      BY <1>7, <1>9, <2>1, <2>3, <3>1
  <2>4. CASE n \in Linked /\ k = w
    <3>1. link[n][s] = Nil
      BY <1>5, <1>14, <2>1, <2>4 DEF Linked
    <3> QED
      BY <1>7, <1>9, <2>1, <2>4, <3>1
  <2>5. CASE n \in Linked /\ k \in Linked
    <3>1. link[n][s] = Nil /\ link[k][r] = Nil
      BY <1>5, <1>14, <2>1, <2>5 DEF Linked
    <3>2. Keys(k, r) \cap Keys(n, s) = {}
      BY <1>14, <2>5, <3>1 DEF TreeInv, SearchPaths, Sides
    <3> QED
      BY <1>7, <2>5, <3>2
  <2> QED
    BY <1>3, <2>2, <2>3, <2>4, <2>5
<1>15. SearchPaths'
  BY <1>11, <1>12, <1>13, <1>14 DEF SearchPaths, Sides
<1> QED
  BY <1>10, <1>15

\* Every action keeps each key's one place in the tree.
LEMMA PathsStep ==
  ASSUME TreeInv, [Next]_vars
  PROVE  Rooted' /\ SearchPaths'
<1>1. CASE UNCHANGED <<root, link, Addr, span>>
  <2>1. Linked' = Linked
    BY <1>1 DEF Linked
  <2>2. \A n, s : Keys(n, s)' = Keys(n, s)
    BY <1>1 DEF Keys
  <2> QED
    BY <1>1, <2>1, <2>2 DEF TreeInv, Rooted, SearchPaths
<1>2. ASSUME NEW t \in Threads, casRoot(t) PROVE Rooted' /\ SearchPaths'
  BY <1>2, RootLinked
<1>3. ASSUME NEW t \in Threads, casLink(t) PROVE Rooted' /\ SearchPaths'
  BY <1>3, NodeLinked
<1>4. ASSUME Reset PROVE Rooted' /\ SearchPaths'
  BY <1>4 DEF Reset, NoLinks, Rooted, SearchPaths, Linked, Sides
<1> QED
  BY <1>1, <1>2, <1>3, <1>4
  DEF Next, Step, Call, rootLoad, casRootRetry, Met, Descend, Bottom, casLinkRetry, vars, tree

\* A search that goes down a link stays on the path of its key, and nodes that
\* others add leave it there.
LEMMA OnPathStep ==
  ASSUME TreeInv, [Next]_vars
  PROVE  OnPath'
<1>t. TypeOK /\ CallsTyped /\ OnPath
  BY DEF TreeInv
<1>h. ASSUME NEW t \in Threads,
             \A u \in Threads \ {t} : pc'[u] = pc[u] /\ at'[u] = at[u] /\ req'[u] = req[u],
             \A n \in Linked : span'[n] = span[n] /\ Addr'[n] = Addr[n],
             pc'[t] \in {"visit", "casLink"} => req'[t].addr \in span'[at'[t]],
             pc'[t] = "casLink" => Addr'[at'[t]] # req'[t].addr
      PROVE  OnPath'
  <2>1. ASSUME NEW u \in Threads \ {t}, pc'[u] \in {"visit", "casLink"}
        PROVE  /\ req'[u].addr \in span'[at'[u]]
               /\ pc'[u] = "casLink" => Addr'[at'[u]] # req'[u].addr
    <3>1. at[u] \in Linked
      BY <1>t, <1>h, <2>1 DEF TypeOK
    <3> QED
      BY <1>t, <1>h, <2>1, <3>1 DEF OnPath
  <2> QED
    BY <1>h, <2>1 DEF OnPath
<1>1. ASSUME NEW t \in Threads, NEW op \in Map!Ops, NEW a \in Addrs, NEW m \in Masks,
             Call(t, op, a, m)
      PROVE  OnPath'
  BY <1>t, <1>h, <1>1 DEF Call, Map!Request, TypeOK, CallsTyped, tree
<1>r. ASSUME NEW t \in Threads, NEW f, NEW l, Return(t, f, l),
             \A n \in Linked : span'[n] = span[n] /\ Addr'[n] = Addr[n]
      PROVE  OnPath'
  <2>1. /\ pc'[t] = "idle"
        /\ \A u \in Threads \ {t} : pc'[u] = pc[u] /\ at'[u] = at[u] /\ req'[u] = req[u]
    BY <1>t, <1>r DEF Return, Map!Answer, TypeOK, CallsTyped
  <2> QED
    BY <1>h, <1>r, <2>1
<1>2. ASSUME NEW t \in Threads, rootLoad(t) PROVE OnPath'
  <2>1. \A n \in Linked : span'[n] = span[n] /\ Addr'[n] = Addr[n]
    BY <1>2 DEF rootLoad, tree
  <2>2. CASE Return(t, FALSE, {})
    BY <1>r, <2>1, <2>2
  <2>3. CASE /\ root # Nil /\ at' = [at EXCEPT ![t] = root]
             /\ pc' = [pc EXCEPT ![t] = "visit"] /\ UNCHANGED <<req, ret>>
    <3>1. req[t].addr \in span'[root] /\ root \in Nodes
      BY <1>2, <2>1, <2>3, InsertTyped DEF rootLoad, TreeInv, TypeOK, Rooted, Linked
    <3> QED
      BY <1>t, <1>h, <2>1, <2>3, <3>1 DEF TypeOK, CallsTyped
  <2>4. CASE pc' = [pc EXCEPT ![t] = "casRoot"] /\ UNCHANGED <<at, req, ret>>
    BY <1>t, <1>h, <2>1, <2>4 DEF TypeOK
  <2> QED
    BY <1>2, <2>2, <2>3, <2>4 DEF rootLoad
<1>3. ASSUME NEW t \in Threads, casRoot(t) PROVE OnPath'
  <2>1. Linked = {}
    BY <1>3 DEF casRoot, TreeInv, Rooted
  <2> QED
    BY <1>3, <1>r, <2>1 DEF casRoot, Publish
<1>4. ASSUME NEW t \in Threads, casRootRetry(t) PROVE OnPath'
  BY <1>t, <1>h, <1>4 DEF casRootRetry, tree, TypeOK
<1>5. ASSUME NEW t \in Threads, Met(t) PROVE OnPath'
  BY <1>r, <1>5 DEF Met
<1>6. ASSUME NEW t \in Threads, Descend(t) PROVE OnPath'
  <2>1. at[t] \in Linked /\ side(t) \in Sides /\ req[t].addr \in Keys(at[t], side(t))
    BY <1>6, SideKeys DEF Descend
  <2>2. req[t].addr \in span[link[at[t]][side(t)]]
    BY <1>6, <2>1 DEF Descend, TreeInv, SearchPaths, Sides
  <2> QED
    BY <1>t, <1>h, <1>6, <2>2 DEF Descend, tree, TypeOK, CallsTyped
<1>7. ASSUME NEW t \in Threads, Bottom(t) PROVE OnPath'
  <2>1. \A n \in Linked : span'[n] = span[n] /\ Addr'[n] = Addr[n]
    BY <1>7 DEF Bottom, tree
  <2>2. CASE Return(t, FALSE, {})
    BY <1>r, <2>1, <2>2
  <2>3. CASE pc' = [pc EXCEPT ![t] = "casLink"] /\ UNCHANGED <<at, req, ret>>
    <3>1. req[t].addr \in span[at[t]]
      BY <1>t, <1>7 DEF Bottom, OnPath
    <3> QED
      BY <1>t, <1>h, <1>7, <2>1, <2>3, <3>1 DEF Bottom, tree, TypeOK
  <2> QED
    BY <1>7, <2>2, <2>3 DEF Bottom
<1>8. ASSUME NEW t \in Threads, casLink(t) PROVE OnPath'
  <2>1. req[t].addr \in Keys(at[t], side(t)) /\ at[t] \in Nodes
    BY <1>8, <1>t, SideKeys DEF casLink, OnPath
  <2>2. Keys(at[t], side(t)) \in SUBSET Addrs /\ Publish(t, Keys(at[t], side(t)))
    BY <1>t, <1>8, <2>1 DEF casLink, Keys, TypeOK
  <2>3. \A n \in Linked : span'[n] = span[n] /\ Addr'[n] = Addr[n]
    BY <1>t, <2>1, <2>2, Published DEF Linked
  <2> QED
    BY <1>r, <2>2, <2>3 DEF Publish
<1>9. ASSUME NEW t \in Threads, casLinkRetry(t) PROVE OnPath'
  BY <1>t, <1>h, <1>9 DEF casLinkRetry, tree, TypeOK, OnPath
<1>10. ASSUME Reset PROVE OnPath'
  BY <1>10 DEF Reset, OnPath
<1>11. CASE UNCHANGED vars
  BY <1>t, <1>11 DEF vars, tree, OnPath
<1> QED
  BY <1>1, <1>2, <1>3, <1>4, <1>5, <1>6, <1>7, <1>8, <1>9, <1>10, <1>11 DEF Next, Step

\* The empty tree satisfies the invariant.
LEMMA TreeInit == Init => TreeInv
<1> SUFFICES ASSUME Init PROVE TreeInv
  OBVIOUS
<1>1. Linked = {} /\ root = Nil
  BY DEF Init, Linked
<1>2. TypeOK
  BY <1>1 DEF Init, TypeOK, NoLinks
<1>3. CallsTyped
  BY DEF Init, CallsTyped, Map!NoAnswer
<1>4. Rooted /\ SearchPaths /\ OnPath
  BY <1>1 DEF Init, Rooted, SearchPaths, OnPath, NoLinks, Sides
<1> QED
  BY <1>2, <1>3, <1>4 DEF TreeInv

\* The invariant is inductive.
LEMMA TreeInvariant == Spec => []TreeInv
<1>1. ASSUME TreeInv, [Next]_vars PROVE TreeInv'
  BY <1>1, TypeStep, PathsStep, OnPathStep DEF TreeInv
<1> QED
  BY <1>1, TreeInit, PTL DEF Spec

-------------------------------------------------------------------------------

\* Every pointer that insertNode, insertBelow and findNode follow is a node of
\* the tree, whatever the interleaving.
THEOREM TypeCorrect == Spec => []TypeOK
<1>1. TreeInv => TypeOK
  BY DEF TreeInv
<1> QED
  BY <1>1, TreeInvariant, PTL

\* Each key has one place in the tree, for any number of goroutines that link
\* nodes at the same time: no block gets a second node, and a search that ends
\* at a nil link has overlooked none.
THEOREM OnePlacePerKey == Spec => []SearchPaths
<1>1. TreeInv => SearchPaths
  BY DEF TreeInv
<1> QED
  BY <1>1, TreeInvariant, PTL

-------------------------------------------------------------------------------
(* The refinement, step by step.                                           *)

\* With one node per address the map of the tree has the nodes' masks.
LEMMA MapOfTree ==
  ASSUME SearchPaths
  PROVE  /\ DOMAIN treeOwners = {Addr[n] : n \in Linked}
         /\ \A n \in Linked : treeOwners[Addr[n]] = OwnerMask[n]
<1>1. ASSUME NEW n \in Linked PROVE treeOwners[Addr[n]] = OwnerMask[n]
  <2>1. {k \in Linked : Addr[k] = Addr[n]} = {n}
    BY DEF SearchPaths
  <2>2. treeOwners[Addr[n]] = UNION {OwnerMask[k] : k \in {n}}
    BY <2>1 DEF treeOwners
  <2> QED
    BY <2>2
<1> QED
  BY <1>1 DEF treeOwners

\* The same of the next state.
LEMMA MapOfTreeNext ==
  ASSUME SearchPaths'
  PROVE  /\ DOMAIN treeOwners' = {Addr'[n] : n \in Linked'}
         /\ \A n \in Linked' : treeOwners'[Addr'[n]] = OwnerMask'[n]
<1>1. ASSUME NEW n \in Linked' PROVE treeOwners'[Addr'[n]] = OwnerMask'[n]
  <2>1. {k \in Linked' : Addr'[k] = Addr'[n]} = {n}
    BY DEF SearchPaths
  <2>2. treeOwners'[Addr'[n]] = UNION {OwnerMask'[k] : k \in {n}}
    BY <2>1 DEF treeOwners
  <2> QED
    BY <2>2
<1> QED
  BY <1>1 DEF treeOwners

\* A CAS that links a node is the Insert of an address the map does not have.
LEMMA PublishInserts ==
  ASSUME TreeInv, SearchPaths', NEW t \in Threads, pc[t] # "idle", Inserting(t),
         NEW keys \in SUBSET Addrs, keys # {}, Publish(t, keys),
         \A n \in Linked : Addr[n] # req[t].addr
  PROVE  Map!Insert(t)
<1>1. TypeOK /\ SearchPaths
  BY DEF TreeInv
<1>2. PICK w \in Nodes : w = newNode
  BY NewNode DEF Publish
<1>3. /\ w \notin Linked /\ Linked' = Linked \cup {w}
      /\ Addr'[w] = req[t].addr /\ OwnerMask'[w] = req[t].mask
      /\ \A n \in Nodes : n # w => Addr'[n] = Addr[n] /\ OwnerMask'[n] = OwnerMask[n]
  BY <1>1, <1>2, Published
<1>4. \A n \in Linked : n # w /\ Addr'[n] = Addr[n] /\ OwnerMask'[n] = OwnerMask[n]
  BY <1>3 DEF Linked
<1>5. DOMAIN treeOwners = {Addr[n] : n \in Linked}
      /\ \A n \in Linked : treeOwners[Addr[n]] = OwnerMask[n]
  BY <1>1, MapOfTree
<1>6. DOMAIN treeOwners' = {Addr'[n] : n \in Linked'}
      /\ \A n \in Linked' : treeOwners'[Addr'[n]] = OwnerMask'[n]
  BY MapOfTreeNext
<1>7. DOMAIN treeOwners' = DOMAIN treeOwners \cup {req[t].addr}
  BY <1>3, <1>4, <1>5, <1>6
<1>8. treeOwners'[req[t].addr] = req[t].mask /\ req[t].addr \notin DOMAIN treeOwners
  BY <1>3, <1>5, <1>6
<1>9. ASSUME NEW b \in DOMAIN treeOwners PROVE treeOwners'[b] = treeOwners[b]
  <2>1. PICK n \in Linked : b = Addr[n]
    BY <1>5
  <2> QED
    BY <1>3, <1>4, <1>5, <1>6, <2>1
<1>10. treeOwners' = [b \in DOMAIN treeOwners' |-> treeOwners'[b]]
  BY DEF treeOwners
<1>11. treeOwners' = [b \in DOMAIN treeOwners \cup {req[t].addr} |->
                        IF b = req[t].addr THEN req[t].mask ELSE treeOwners[b]]
  BY <1>7, <1>8, <1>9, <1>10
<1>12. Map!Answer(t, TRUE, req[t].mask)
  BY DEF Publish, Return
<1> QED
  BY <1>8, <1>11, <1>12 DEF Map!Insert, Inserting

\* Meeting the key is the Insert or the Update of an address the map has.
LEMMA MetUpdates ==
  ASSUME TreeInv, SearchPaths', NEW t \in Threads, Met(t)
  PROVE  Map!Insert(t) \/ Map!Update(t)
<1> DEFINE n == at[t]
           a == req[t].addr
           m == IF req[t].op = "free" THEN OwnerMask[n] \ req[t].mask
                                      ELSE OwnerMask[n] \cup req[t].mask
<1>1. /\ SearchPaths /\ n \in Linked /\ n \in Nodes /\ Addr[n] = a
      /\ req[t].op \in Map!Ops /\ OwnerMask \in [Nodes -> SUBSET Layers]
  BY InsertTyped DEF Met, TreeInv, TypeOK, Linked
<1>2. /\ OwnerMask' = [OwnerMask EXCEPT ![n] = m] /\ UNCHANGED <<Addr, span>>
      /\ Map!Answer(t, TRUE, m)
  BY DEF Met, Return
<1>3. Linked' = Linked
  BY <1>2 DEF Linked
<1>4. DOMAIN treeOwners = {Addr[k] : k \in Linked}
      /\ \A k \in Linked : treeOwners[Addr[k]] = OwnerMask[k]
  BY <1>1, MapOfTree
<1>5. DOMAIN treeOwners' = {Addr'[k] : k \in Linked'}
      /\ \A k \in Linked' : treeOwners'[Addr'[k]] = OwnerMask'[k]
  BY MapOfTreeNext
<1>6. treeOwners[a] = OwnerMask[n] /\ a \in DOMAIN treeOwners
  BY <1>1, <1>4
<1>m. m = IF req[t].op = "free" THEN treeOwners[a] \ req[t].mask
                                ELSE treeOwners[a] \cup req[t].mask
  BY <1>6
<1> HIDE DEF m, n, a
<1>7. DOMAIN treeOwners' = DOMAIN treeOwners
  BY <1>2, <1>3, <1>4, <1>5
<1>8. treeOwners'[a] = m
  BY <1>1, <1>2, <1>3, <1>5
<1>9. ASSUME NEW b \in DOMAIN treeOwners, b # a PROVE treeOwners'[b] = treeOwners[b]
  <2>1. PICK k \in Linked : b = Addr[k]
    BY <1>4
  <2>2. k # n /\ k \in Nodes
    BY <1>1, <1>9, <2>1 DEF Linked
  <2> QED
    BY <1>1, <1>2, <1>3, <1>4, <1>5, <2>1, <2>2
<1>10. /\ treeOwners' = [b \in DOMAIN treeOwners' |-> treeOwners'[b]]
       /\ treeOwners = [b \in DOMAIN treeOwners |-> treeOwners[b]]
  BY DEF treeOwners
<1>11. treeOwners' = [treeOwners EXCEPT ![a] = m]
  BY <1>6, <1>7, <1>8, <1>9, <1>10
<1>12. CASE req[t].op = "insert"
  <2>1. DOMAIN treeOwners \cup {a} = DOMAIN treeOwners
    BY <1>6
  <2>2. treeOwners' = [b \in DOMAIN treeOwners \cup {a} |-> IF b = a THEN m ELSE treeOwners[b]]
    BY <1>7, <1>8, <1>9, <1>10, <2>1
  <2>3. m = req[t].mask \cup (IF a \in DOMAIN treeOwners THEN treeOwners[a] ELSE {})
    BY <1>m, <1>6, <1>12
  <2> QED
    BY <1>2, <1>12, <2>2, <2>3 DEF Map!Insert, a
<1>13. CASE req[t].op \in {"share", "free"}
  <2>1. m = IF req[t].op = "share" THEN treeOwners[a] \cup req[t].mask
                                   ELSE treeOwners[a] \ req[t].mask
    BY <1>m, <1>13
  <2> QED
    BY <1>2, <1>6, <1>11, <1>13, <2>1 DEF Map!Update, a
<1> QED
  BY <1>1, <1>12, <1>13 DEF Map!Ops

\* findNode finds nothing only when the map does not have the address.
LEMMA NotFoundMisses ==
  ASSUME TreeInv, NEW t \in Threads, pc[t] # "idle", ~Inserting(t), UNCHANGED tree,
         Return(t, FALSE, {}), \A n \in Linked : Addr[n] # req[t].addr
  PROVE  Map!Miss(t)
<1>1. req[t].op \in {"share", "free"}
  BY InsertTyped DEF Inserting, Map!Ops
<1>2. req[t].addr \notin DOMAIN treeOwners
  BY DEF treeOwners
<1>3. treeOwners' = treeOwners
  BY DEF treeOwners, Linked, tree
<1> QED
  BY <1>1, <1>2, <1>3 DEF Map!Miss, Return

\* A step of the tree is a step of the map or changes nothing the map shows.
LEMMA RefinesStep ==
  ASSUME TreeInv, SearchPaths', [Next]_vars
  PROVE  [Map!Next]_(Map!vars)
<1>s. ASSUME UNCHANGED <<tree, req, ret>> PROVE UNCHANGED Map!vars
  BY <1>s DEF Map!vars, treeOwners, Linked, tree
<1>1. ASSUME NEW t \in Threads, NEW op \in Map!Ops, NEW a \in Addrs, NEW m \in Masks,
             Call(t, op, a, m)
      PROVE  Map!Next
  <2>1. treeOwners' = treeOwners
    BY <1>1 DEF Call, tree, treeOwners, Linked
  <2>2. Map!Call(t, op, a, m) /\ m \in SUBSET Layers
    BY <1>1, <2>1 DEF Call, Map!Call, Masks
  <2> QED
    BY <2>2 DEF Map!Next
<1>2. ASSUME NEW t \in Threads, rootLoad(t) PROVE Map!Next \/ UNCHANGED Map!vars
  <2>1. CASE root = Nil /\ ~Inserting(t) /\ Return(t, FALSE, {})
    <3>1. Linked = {}
      BY <2>1 DEF TreeInv, Rooted
    <3>2. Map!Miss(t)
      BY <1>2, <2>1, <3>1, NotFoundMisses DEF rootLoad
    <3> QED
      BY <3>2 DEF Map!Next
  <2>2. CASE UNCHANGED <<req, ret>>
    BY <1>s, <1>2, <2>2 DEF rootLoad
  <2> QED
    BY <1>2, <2>1, <2>2 DEF rootLoad
<1>3. ASSUME NEW t \in Threads, casRoot(t) PROVE Map!Next
  <2>1. Linked = {} /\ req[t].addr \in Addrs /\ Inserting(t)
    BY <1>3, InsertTyped DEF casRoot, TreeInv, Rooted, CallsTyped
  <2>2. Map!Insert(t)
    BY <1>3, <2>1, PublishInserts DEF casRoot
  <2> QED
    BY <2>2 DEF Map!Next
<1>4. ASSUME NEW t \in Threads, Met(t) PROVE Map!Next
  BY <1>4, MetUpdates DEF Map!Next
<1>5. ASSUME NEW t \in Threads, Bottom(t) PROVE Map!Next \/ UNCHANGED Map!vars
  <2>1. CASE ~Inserting(t) /\ Return(t, FALSE, {})
    <3>1. at[t] \in Linked /\ side(t) \in Sides /\ req[t].addr \in Keys(at[t], side(t))
      BY <1>5, SideKeys DEF Bottom
    <3>2. \A n \in Linked : Addr[n] # req[t].addr
      BY <1>5, <3>1 DEF Bottom, TreeInv, SearchPaths, Sides
    <3>3. Map!Miss(t)
      BY <1>5, <2>1, <3>2, NotFoundMisses DEF Bottom
    <3> QED
      BY <3>3 DEF Map!Next
  <2>2. CASE UNCHANGED <<req, ret>>
    BY <1>s, <1>5, <2>2 DEF Bottom
  <2> QED
    BY <1>5, <2>1, <2>2 DEF Bottom
<1>6. ASSUME NEW t \in Threads, casLink(t) PROVE Map!Next
  <2>1. at[t] \in Linked /\ at[t] \in Nodes /\ side(t) \in Sides
        /\ req[t].addr \in Keys(at[t], side(t)) /\ Inserting(t)
    BY <1>6, SideKeys DEF casLink, TreeInv, OnPath, CallsTyped
  <2>2. Keys(at[t], side(t)) \in SUBSET Addrs
    BY <2>1 DEF Keys, TreeInv, TypeOK
  <2>3. \A n \in Linked : Addr[n] # req[t].addr
    BY <1>6, <2>1 DEF casLink, TreeInv, SearchPaths, Sides
  <2>4. Map!Insert(t)
    BY <1>6, <2>1, <2>2, <2>3, PublishInserts DEF casLink
  <2> QED
    BY <2>4 DEF Map!Next
<1>7. ASSUME NEW t \in Threads, casRootRetry(t) \/ Descend(t) \/ casLinkRetry(t)
      PROVE  UNCHANGED Map!vars
  BY <1>s, <1>7 DEF casRootRetry, Descend, casLinkRetry
<1>8. ASSUME Reset PROVE Map!Next
  <2>1. \A t \in Threads : req[t] = Map!NoRequest
    BY <1>8 DEF Reset, TreeInv, TypeOK
  <2>2. treeOwners' = [a \in {} |-> {}]
    BY <1>8 DEF Reset, treeOwners, Linked
  <2> QED
    BY <1>8, <2>1, <2>2 DEF Reset, Map!Reset, Map!Next
<1>9. CASE UNCHANGED vars
  BY <1>s, <1>9 DEF vars
<1> QED
  BY <1>1, <1>2, <1>3, <1>4, <1>5, <1>6, <1>7, <1>8, <1>9 DEF Next, Step

\* The lock-free tree implements the map whose operations are atomic: whatever
\* CAS is lost to others, insertNode, findNode and clearOwner give the answers
\* of OwnerMap.
THEOREM TreeIsMap == Spec => ImplementsMap
<1>1. Init => Map!Init
  BY DEF Init, Map!Init, treeOwners, Linked
<1>2. TreeInv /\ TreeInv' /\ [Next]_vars => [Map!Next]_(Map!vars)
  BY RefinesStep DEF TreeInv
<1> QED
  BY <1>1, <1>2, TreeInvariant, PTL DEF Spec, ImplementsMap, Map!Spec
===============================================================================
