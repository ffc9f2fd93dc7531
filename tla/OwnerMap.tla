------------------------------- MODULE OwnerMap -------------------------------
(***************************************************************************)
(* What the search trees of balloc and arena promise their callers: a map  *)
(* from block address to owner mask whose operations take effect at once,  *)
(* somewhere between call and return.  MemTree implements it.              *)
(***************************************************************************)
CONSTANTS
  Threads,   \* goroutines
  Addrs,     \* block addresses
  Layers     \* bit positions of an owner mask

VARIABLES
  owners,    \* the map: block address -> owner bits
  req,       \* goroutine -> the operation it waits for
  ret        \* goroutine -> the answer to its last request

vars == <<owners, req, ret>>

Ops == {"insert", "share", "free"}
NoRequest == [op |-> "none", addr |-> 0, mask |-> {}]

NoAnswer == [found |-> FALSE, left |-> {}]

Init ==
  /\ owners = [a \in {} |-> {}]
  /\ req = [t \in Threads |-> NoRequest]
  /\ ret = [t \in Threads |-> NoAnswer]

Request(t, op, a, m) ==
  /\ req[t] = NoRequest
  /\ req' = [req EXCEPT ![t] = [op |-> op, addr |-> a, mask |-> m]]
  /\ ret' = [ret EXCEPT ![t] = NoAnswer]

Call(t, op, a, m) == Request(t, op, a, m) /\ UNCHANGED owners

\* Goroutine t gets its answer: whether the address is known, and its owners.
Answer(t, found, left) ==
  /\ ret' = [ret EXCEPT ![t] = [found |-> found, left |-> left]]
  /\ req' = [req EXCEPT ![t] = NoRequest]

\* Alloc adds the block, or owners to the block the map already has.
Insert(t) ==
  LET a == req[t].addr
      m == req[t].mask \cup (IF a \in DOMAIN owners THEN owners[a] ELSE {})
  IN /\ req[t].op = "insert"
     /\ owners' = [b \in DOMAIN owners \cup {a} |-> IF b = a THEN m ELSE owners[b]]
     /\ Answer(t, TRUE, m)

\* Share adds owners and FreeVarying removes them.
Update(t) ==
  LET a == req[t].addr
      m == IF req[t].op = "share" THEN owners[a] \cup req[t].mask
                                  ELSE owners[a] \ req[t].mask
  IN /\ req[t].op \in {"share", "free"} /\ a \in DOMAIN owners
     /\ owners' = [owners EXCEPT ![a] = m]
     /\ Answer(t, TRUE, m)

\* ErrNotFound: the address is not in the map.
Miss(t) ==
  /\ req[t].op \in {"share", "free"} /\ req[t].addr \notin DOMAIN owners
  /\ Answer(t, FALSE, {})
  /\ UNCHANGED owners

Reset ==
  /\ \A t \in Threads : req[t] = NoRequest
  /\ owners' = [a \in {} |-> {}]
  /\ UNCHANGED <<req, ret>>

Next ==
  \/ \E t \in Threads :
       \/ \E op \in Ops, a \in Addrs, m \in SUBSET Layers : Call(t, op, a, m)
       \/ Insert(t) \/ Update(t) \/ Miss(t)
  \/ Reset

Spec == Init /\ [][Next]_vars
===============================================================================
