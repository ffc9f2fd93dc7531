----------------------------- MODULE SecureProofs -----------------------------
(***************************************************************************)
(* Theorems about Secure, for any number of goroutines, any capacity and   *)
(* any request sizes, on every operating system and architecture.          *)
(***************************************************************************)
EXTENDS Secure, TLAPS

\* NewBuffer works on its own: until it returns nothing else runs, nothing has
\* been written, and the pages are mapped once mmap has succeeded.
Construction ==
  /\ built => \A t \in Threads : pc[t] \notin NewSteps
  /\ ~built =>
       /\ view = {} /\ dram = {} /\ ~freed /\ ~locked
       /\ \A t \in Threads : grants[t] = {} /\ pc[t] \in {"idle"} \cup NewSteps
       /\ \A t, u \in Threads : pc[t] \in NewSteps /\ pc[u] \in NewSteps => t = u
       /\ mapped <=> \E t \in Threads : pc[t] \in NewSteps \ {"mmap"}

\* The calls of lockPages that come before call c.
Before(c) ==
  CASE c = "mlock"       -> {}
    [] c = "dontdump"    -> {"mlock"}
    [] c = "unmergeable" -> {"mlock", "dontdump"}
    [] OTHER             -> {}

\* What the guard pages and lockPages have done so far.
SoFar ==
  /\ ~mapped => prot = {}
  /\ mapped => system # "other"
  /\ \A t \in Threads :
       /\ pc[t] \in Guards => "guard" \in cfg /\ prot \subseteq Guards
       /\ pc[t] = "guardHigh" => "guardLow" \in prot
       /\ pc[t] \in Locks =>
            /\ "lock" \in cfg
            /\ pc[t] \in {lockCalls[system][i] : i \in DOMAIN lockCalls[system]}
            /\ Before(pc[t]) \subseteq prot
            /\ prot \subseteq Guards \cup Before(pc[t])
            /\ "guard" \in cfg => Guards \subseteq prot

\* Until unlockPages the pages keep the protections NewBuffer gave them.
Protections ==
  built /\ mapped /\ ~In({"unmap"}) =>
    /\ locked => Guaranteed \subseteq prot
    /\ ~locked => prot \cap Locks = {}
    /\ "lock" \in cfg /\ "bestEffort" \notin cfg => locked
    /\ "guard" \in cfg => Guards \subseteq prot

\* Reset runs alone, and one goroutine destroys the buffer: the pages are
\* mapped until it is done.
Exclusion ==
  /\ built /\ ~freed => mapped
  /\ freed => built
  /\ freed => (mapped <=> In(DestroySteps))
  /\ \A t \in Threads :
       /\ pc[t] \in DestroySteps =>
            freed /\ \A u \in Threads : pc[u] \in DestroySteps => u = t
       /\ pc[t] = "swap" => built
       /\ pc[t] \in ResetSteps =>
            built /\ ~freed /\ \A u \in Threads : u # t => pc[u] = "idle"

\* Until an Alloc panics slices lie below the offset; nobody uses one after a
\* Reset or a Close was called.
Slices ==
  /\ freed \/ In({"swap"} \cup ResetSteps) => \A t \in Threads : grants[t] = {}
  /\ ~panicked => 0 <= off
  /\ \A t \in Threads : \A g \in grants[t] : g[1] < g[2] /\ (~panicked => g[2] <= off)

\* What zeroizing and flushing have done so far.
Wiped ==
  /\ "zeroize" \in cfg =>
       /\ built /\ ~panicked => \A i \in view : i < off
       /\ In({"resetFlush", "resetStore", "flush", "unlock", "unmap"}) => view = {}
       /\ freed /\ ~mapped => view = {}
  /\ {"zeroize", "flush"} \subseteq cfg /\ arch = "asm" =>
       /\ In({"unlock", "unmap"}) => dram = {}
       /\ freed /\ ~mapped => dram = {}

SecureInv ==
  /\ TypeOK
  /\ Construction
  /\ SoFar
  /\ Protections
  /\ Exclusion
  /\ Slices
  /\ SlicesDisjoint
  /\ Wiped
-------------------------------------------------------------------------------

\* lockPages calls mlock first, and the calls before a call are those that
\* Before names; the last one completes what Guaranteed promises.
LEMMA LockOrder ==
  ASSUME system \in DOMAIN lockCalls
  PROVE  /\ system # "other" => lockCalls[system][1] = "mlock" /\ 1 \in DOMAIN lockCalls[system]
         /\ \A i \in DOMAIN lockCalls[system] :
              LET c == lockCalls[system][i]
                  n == lockCalls[system][i + 1]
              IN  /\ i \in Nat /\ c \in Locks
                  /\ i < Len(lockCalls[system]) =>
                       /\ i + 1 \in DOMAIN lockCalls[system]
                       /\ n \in Locks /\ Before(n) = Before(c) \cup {c}
                  /\ i = Len(lockCalls[system]) => Guaranteed \subseteq Before(c) \cup {c}
<1> DEFINE L == lockCalls[system]
<1>1. CASE system = "linux"
  <2>1. L = <<"mlock", "dontdump", "unmergeable">>
    BY <1>1 DEF lockCalls
  <2>2. Guaranteed \subseteq {"mlock", "dontdump", "unmergeable"}
    BY <1>1, <2>1 DEF Guaranteed
  <2> QED
    BY <1>1, <2>1, <2>2 DEF Locks, Before
<1>2. CASE system \in {"freebsd", "windows"}
  <2>1. L = <<"mlock", "dontdump">>
    BY <1>2 DEF lockCalls
  <2>2. Guaranteed \subseteq {"mlock", "dontdump"}
    BY <1>2, <2>1 DEF Guaranteed
  <2> QED
    BY <1>2, <2>1, <2>2 DEF Locks, Before
<1>3. CASE system = "darwin"
  <2>1. L = <<"mlock">>
    BY <1>3 DEF lockCalls
  <2>2. Guaranteed \subseteq {"mlock"}
    BY <1>3, <2>1 DEF Guaranteed
  <2> QED
    BY <1>3, <2>1, <2>2 DEF Locks, Before
<1>4. CASE system = "other"
  <2>1. L = <<>>
    BY <1>4 DEF lockCalls
  <2> QED
    BY <1>4, <2>1
<1> QED
  BY <1>1, <1>2, <1>3, <1>4 DEF lockCalls

\* A call of lockPages that succeeds leads to the next one, or completes the
\* buffer; so does the dump exclusion of Windows when it fails.
LockStep(t) ==
  /\ pc[t] \in Locks
  /\ \/ /\ Guaranteed \subseteq Before(pc[t]) \cup {pc[t]}
        /\ Built(t, TRUE)
     \/ \E n \in Locks :
          /\ n \in {lockCalls[system][i] : i \in DOMAIN lockCalls[system]}
          /\ Before(n) = Before(pc[t]) \cup {pc[t]}
          /\ Goto(t, n) /\ UNCHANGED <<built, locked>>

\* lockPages takes its calls in order.
LEMMA LockPagesMoves ==
  ASSUME system \in DOMAIN lockCalls, NEW t \in Threads, lockPages(t)
  PROVE  LockStep(t)
<1>1. system \in DOMAIN lockCalls
  OBVIOUS
<1>2. PICK i \in DOMAIN lockCalls[system] : pc[t] = lockCalls[system][i] /\ Locked(t, i)
  BY DEF lockPages
<1>3. CASE i = Len(lockCalls[system]) /\ Built(t, TRUE)
  BY <1>1, <1>2, <1>3, LockOrder DEF LockStep
<1>4. CASE i < Len(lockCalls[system]) /\ Goto(t, lockCalls[system][i + 1])
             /\ UNCHANGED <<built, locked>>
  <2>1. lockCalls[system][i + 1] \in Locks /\ i + 1 \in DOMAIN lockCalls[system]
        /\ Before(lockCalls[system][i + 1]) = Before(pc[t]) \cup {pc[t]}
        /\ pc[t] \in Locks
    BY <1>1, <1>2, <1>4, LockOrder
  <2> QED
    BY <1>4, <2>1 DEF LockStep
<1> QED
  BY <1>2, <1>3, <1>4 DEF Locked

\* The dump exclusion of Windows is the last call, and not guaranteed.
LEMMA WerExcludeMoves ==
  ASSUME NEW t \in Threads, werExcludeFails(t)
  PROVE  pc[t] = "dontdump" /\ Guaranteed \subseteq {"mlock"} /\ Built(t, TRUE)
<1>1. system = "windows" /\ pc[t] = "dontdump" /\ Locked(t, 2)
  BY DEF werExcludeFails, Optional
<1>2. lockCalls[system] = <<"mlock", "dontdump">>
  BY <1>1 DEF lockCalls
<1>3. ~(2 < Len(lockCalls[system]))
  BY <1>2
<1>4. Built(t, TRUE)
  BY <1>1, <1>3, Zenon DEF Locked
<1>5. Guaranteed \subseteq {"mlock"}
  BY <1>1, <1>2 DEF Guaranteed
<1> QED
  BY <1>1, <1>4, <1>5

\* Operating system and architecture do not change.
LEMMA SystemConstant ==
  ASSUME [Next]_vars
  PROVE  system' = system /\ arch' = arch /\ Guaranteed' = Guaranteed
<1>1. system' = system /\ arch' = arch
  BY DEF Next, Step, Call, NewBuffer, mmap, mmapFails, mprotect, mprotectFails,
         lockPages, werExcludeFails, lockPagesFails, unmapNew, resetZero, resetFlush,
         resetStore, DestroySwap, DestroyZero, DestroyFlush, DestroyUnlock,
         DestroyUnmap,
         Alloc, AllocGrant, AllocExhausted, AllocPanic, Reserve, Write, Reset, Close,
         Evict, fields, vars
<1> QED
  BY <1>1 DEF Guaranteed

\* int64 sums stay int64, and one that wraps is below both what it was made of
\* and zero.
LEMMA WrapInt ==
  ASSUME NEW x \in Ints, NEW n \in 1 .. IntMax
  PROVE  /\ Wrap(x + n) \in Ints
         /\ x <= Wrap(x + n) => Wrap(x + n) = x + n
         /\ 0 <= x /\ ~(x <= Wrap(x + n)) => Wrap(x + n) < 0
BY SecureAssumption DEF Ints, Wrap

\* Alloc moves the offset, and nothing else but the slices of its caller: it
\* adds a slice above the offset, or none; it may panic, and does if the offset
\* was not negative and is now.
LEMMA AllocEffect ==
  ASSUME off \in Ints, panicked \in BOOLEAN, NEW t \in Threads, NEW n \in Sizes, Alloc(t, n)
  PROVE  /\ UNCHANGED <<mapped, prot, view, dram, fields, pc>>
         /\ off' \in Ints /\ panicked' \in BOOLEAN /\ (panicked => panicked')
         /\ ~panicked' /\ 0 <= off => off' = off + n
         /\ \/ UNCHANGED grants
            \/ /\ InUse /\ 0 <= off /\ off' = off + n /\ off' <= Cap
               /\ grants' = [grants EXCEPT ![t] = @ \cup {<<off, off'>>}]
<1>1. n \in 1 .. IntMax /\ off' = Wrap(off + n)
      /\ UNCHANGED <<mapped, prot, view, dram, fields, pc>>
  BY SecureAssumption DEF Alloc, AllocGrant, AllocExhausted, AllocPanic, Reserve
<1>2. /\ Wrap(off + n) \in Ints
      /\ off <= Wrap(off + n) => Wrap(off + n) = off + n
      /\ 0 <= off /\ ~(off <= Wrap(off + n)) => Wrap(off + n) < 0
  BY <1>1, WrapInt
<1>3. CASE AllocGrant(t, n)
  BY <1>1, <1>2, <1>3 DEF AllocGrant, Fits, InBounds, Slice
<1>4. CASE AllocExhausted(t, n)
  <2>1. Wrap(off + n) > Cap /\ Cap \in Nat /\ UNCHANGED <<panicked, grants>>
    BY <1>2, <1>4, SecureAssumption DEF AllocExhausted, Fits, Ints
  <2>2. 0 <= off => Wrap(off + n) = off + n
    BY <1>1, <1>2, <2>1 DEF Ints
  <2> QED
    BY <1>1, <1>2, <2>1, <2>2
<1>5. CASE AllocPanic(t, n)
  BY <1>1, <1>2, <1>5 DEF AllocPanic
<1> QED
  BY <1>3, <1>4, <1>5 DEF Alloc

\* Every action keeps the types.
LEMMA TypeStep ==
  ASSUME SecureInv, [Next]_vars
  PROVE  TypeOK'
<1> USE DEF bump, SecureInv, TypeOK, Labels, NewSteps, DestroySteps, ResetSteps, Guards,
            Locks, Bytes
<1>1. ASSUME NEW t \in Threads, NEW opts \in SUBSET Options, NewBuffer(t, opts)
      PROVE TypeOK'
  BY <1>1 DEF NewBuffer, Goto
<1>2. ASSUME NEW t \in Threads, mmap(t) PROVE TypeOK'
  BY <1>2 DEF mmap, Goto, Allocated, Built
<1>3. ASSUME NEW t \in Threads, mmapFails(t) PROVE TypeOK'
  BY <1>3 DEF mmapFails, Goto, fields
<1>4. ASSUME NEW t \in Threads, mprotect(t) PROVE TypeOK'
  BY <1>4 DEF mprotect, Goto, Allocated, Built
<1>5. ASSUME NEW t \in Threads, mprotectFails(t) PROVE TypeOK'
  BY <1>5 DEF mprotectFails, Goto, fields
<1>6. ASSUME NEW t \in Threads, lockPages(t) PROVE TypeOK'
  <2>1. LockStep(t)
    BY <1>6, LockPagesMoves
  <2> QED
    BY <1>6, <2>1 DEF lockPages, LockStep, Built, Goto
<1>7. ASSUME NEW t \in Threads, werExcludeFails(t) PROVE TypeOK'
  <2>1. pc[t] = "dontdump" /\ Guaranteed \subseteq {"mlock"} /\ Built(t, TRUE)
    BY <1>7, WerExcludeMoves
  <2> QED
    BY <1>7, <2>1 DEF werExcludeFails, Built, Goto
<1>8. ASSUME NEW t \in Threads, lockPagesFails(t) PROVE TypeOK'
  BY <1>8 DEF lockPagesFails, rollback, Goto, Built
<1>9. ASSUME NEW t \in Threads, unmapNew(t) PROVE TypeOK'
  BY <1>9 DEF unmapNew, platformFree, Goto, fields
<1>10. ASSUME NEW t \in Threads, resetZero(t) PROVE TypeOK'
  BY <1>10 DEF resetZero, zeroizeIfAsked, zeroBytes, Goto, fields
<1>11. ASSUME NEW t \in Threads, resetFlush(t) PROVE TypeOK'
  BY <1>11 DEF resetFlush, flushIfAsked, flushBytes, flushLines, Goto, fields
<1>12. ASSUME NEW t \in Threads, resetStore(t) PROVE TypeOK'
  <2>1. 0 \in Ints
    BY SecureAssumption DEF Ints
  <2> QED
    BY <1>12, <2>1 DEF resetStore, Goto, fields
<1>13. ASSUME NEW t \in Threads, DestroySwap(t) PROVE TypeOK'
  BY <1>13 DEF DestroySwap, Swap, Goto
<1>14. ASSUME NEW t \in Threads, DestroyZero(t) PROVE TypeOK'
  BY <1>14 DEF DestroyZero, zeroizeIfAsked, zeroBytes, Goto, fields
<1>15. ASSUME NEW t \in Threads, DestroyFlush(t) PROVE TypeOK'
  BY <1>15 DEF DestroyFlush, flushIfAsked, flushBytes, flushLines, Goto, fields
<1>16. ASSUME NEW t \in Threads, DestroyUnlock(t) PROVE TypeOK'
  BY <1>16 DEF DestroyUnlock, Goto, fields
<1>17. ASSUME NEW t \in Threads, DestroyUnmap(t) PROVE TypeOK'
  BY <1>17 DEF DestroyUnmap, platformFree, Goto, fields
<1>18. ASSUME NEW t \in Threads, NEW n \in Sizes, Alloc(t, n) PROVE TypeOK'
  <2>1. /\ UNCHANGED <<mapped, prot, view, dram, fields, pc>>
        /\ off' \in Ints /\ panicked' \in BOOLEAN
    BY <1>18, AllocEffect
  <2>2. CASE UNCHANGED grants
    BY <2>1, <2>2 DEF fields
  <2>3. CASE /\ 0 <= off /\ off' = off + n /\ off' <= Cap
             /\ grants' = [grants EXCEPT ![t] = @ \cup {<<off, off'>>}]
    <3>1. off \in 0 .. Cap - 1 /\ off' \in 1 .. Cap
      BY <2>1, <2>3, SecureAssumption DEF Ints
    <3>2. <<off, off'>> \in (0 .. Cap - 1) \X (1 .. Cap)
      BY <3>1
    <3>3. grants' \in [Threads -> SUBSET ((0 .. Cap - 1) \X (1 .. Cap))]
      BY <2>3, <3>2
    <3> QED
      BY <2>1, <3>3 DEF fields
  <2> QED
    BY <1>18, <2>2, <2>3, AllocEffect
<1>19. ASSUME NEW t \in Threads, NEW i \in Bytes, Write(t, i) PROVE TypeOK'
  BY <1>19 DEF Write, fields
<1>20. ASSUME NEW t \in Threads, Reset(t) PROVE TypeOK'
  BY <1>20 DEF Reset, EndUse, Goto, fields
<1>21. ASSUME NEW t \in Threads, Close(t) PROVE TypeOK'
  BY <1>21 DEF Close, EndUse, Goto, fields
<1>22. ASSUME NEW i \in Bytes, Evict(i) PROVE TypeOK'
  BY <1>22 DEF Evict, fields
<1>23. CASE UNCHANGED vars
  BY <1>23 DEF vars, fields
<1> QED
  BY <1>1, <1>2, <1>3, <1>4, <1>5, <1>6, <1>7, <1>8, <1>9, <1>10, <1>11, <1>12, <1>13,
     <1>14, <1>15, <1>16, <1>17, <1>18, <1>19, <1>20, <1>21, <1>22, <1>23 DEF Next,
     Step, Call

\* NewBuffer starts only when no other runs and nothing is built, and only it
\* leads from one of its steps to the next.
LEMMA ConstructionStep ==
  ASSUME SecureInv, [Next]_vars
  PROVE  Construction'
<1> USE DEF bump, SecureInv, TypeOK, Construction, NewSteps, DestroySteps, ResetSteps,
            Guards, Locks, In
<1>1. ASSUME NEW t \in Threads, NEW opts \in SUBSET Options, NewBuffer(t, opts)
      PROVE Construction'
  BY <1>1 DEF NewBuffer, Goto
<1>2. ASSUME NEW t \in Threads, mmap(t) PROVE Construction'
  BY <1>2 DEF mmap, Goto, Allocated, Built
<1>3. ASSUME NEW t \in Threads, mmapFails(t) PROVE Construction'
  BY <1>3 DEF mmapFails, Goto, fields
<1>4. ASSUME NEW t \in Threads, mprotect(t) PROVE Construction'
  BY <1>4 DEF mprotect, Goto, Allocated, Built
<1>5. ASSUME NEW t \in Threads, mprotectFails(t) PROVE Construction'
  BY <1>5 DEF mprotectFails, Goto, fields
<1>6. ASSUME NEW t \in Threads, lockPages(t) PROVE Construction'
  <2>1. LockStep(t)
    BY <1>6, LockPagesMoves
  <2> QED
    BY <1>6, <2>1 DEF lockPages, LockStep, Built, Goto
<1>7. ASSUME NEW t \in Threads, werExcludeFails(t) PROVE Construction'
  <2>1. pc[t] = "dontdump" /\ Guaranteed \subseteq {"mlock"} /\ Built(t, TRUE)
    BY <1>7, WerExcludeMoves
  <2> QED
    BY <1>7, <2>1 DEF werExcludeFails, Built, Goto
<1>8. ASSUME NEW t \in Threads, lockPagesFails(t) PROVE Construction'
  BY <1>8 DEF lockPagesFails, rollback, Goto, Built
<1>9. ASSUME NEW t \in Threads, unmapNew(t) PROVE Construction'
  BY <1>9 DEF unmapNew, platformFree, Goto, fields
<1>10. ASSUME NEW t \in Threads, resetZero(t) PROVE Construction'
  BY <1>10 DEF resetZero, zeroizeIfAsked, zeroBytes, Goto, fields
<1>11. ASSUME NEW t \in Threads, resetFlush(t) PROVE Construction'
  BY <1>11 DEF resetFlush, flushIfAsked, flushBytes, flushLines, Goto, fields
<1>12. ASSUME NEW t \in Threads, resetStore(t) PROVE Construction'
  BY <1>12 DEF resetStore, Goto, fields
<1>13. ASSUME NEW t \in Threads, DestroySwap(t) PROVE Construction'
  BY <1>13 DEF DestroySwap, Swap, Goto
<1>14. ASSUME NEW t \in Threads, DestroyZero(t) PROVE Construction'
  BY <1>14 DEF DestroyZero, zeroizeIfAsked, zeroBytes, Goto, fields
<1>15. ASSUME NEW t \in Threads, DestroyFlush(t) PROVE Construction'
  BY <1>15 DEF DestroyFlush, flushIfAsked, flushBytes, flushLines, Goto, fields
<1>16. ASSUME NEW t \in Threads, DestroyUnlock(t) PROVE Construction'
  BY <1>16 DEF DestroyUnlock, Goto, fields
<1>17. ASSUME NEW t \in Threads, DestroyUnmap(t) PROVE Construction'
  BY <1>17 DEF DestroyUnmap, platformFree, Goto, fields
<1>18. ASSUME NEW t \in Threads, NEW n \in Sizes, Alloc(t, n) PROVE Construction'
  BY <1>18 DEF Alloc, AllocGrant, AllocExhausted, AllocPanic, Reserve, fields
<1>19. ASSUME NEW t \in Threads, NEW i \in Bytes, Write(t, i) PROVE Construction'
  BY <1>19 DEF Write, fields
<1>20. ASSUME NEW t \in Threads, Reset(t) PROVE Construction'
  BY <1>20 DEF Reset, EndUse, Goto, fields
<1>21. ASSUME NEW t \in Threads, Close(t) PROVE Construction'
  BY <1>21 DEF Close, EndUse, Goto, fields
<1>22. ASSUME NEW i \in Bytes, Evict(i) PROVE Construction'
  BY <1>22 DEF Evict, fields
<1>23. CASE UNCHANGED vars
  BY <1>23 DEF vars, fields
<1> QED
  BY <1>1, <1>2, <1>3, <1>4, <1>5, <1>6, <1>7, <1>8, <1>9, <1>10, <1>11, <1>12, <1>13,
     <1>14, <1>15, <1>16, <1>17, <1>18, <1>19, <1>20, <1>21, <1>22, <1>23 DEF Next,
     Step, Call

\* The swap of freed lets one Destroy through, and Reset waits for all the
\* others: a step of either finds the pages mapped.
LEMMA ExclusionStep ==
  ASSUME SecureInv, [Next]_vars
  PROVE  Exclusion'
<1> USE DEF bump, SecureInv, TypeOK, Construction, Exclusion, NewSteps, DestroySteps,
            ResetSteps, Guards, Locks, In
<1>1. ASSUME NEW t \in Threads, NEW opts \in SUBSET Options, NewBuffer(t, opts)
      PROVE Exclusion'
  BY <1>1 DEF NewBuffer, Goto
<1>2. ASSUME NEW t \in Threads, mmap(t) PROVE Exclusion'
  BY <1>2 DEF mmap, Goto, Allocated, Built
<1>3. ASSUME NEW t \in Threads, mmapFails(t) PROVE Exclusion'
  BY <1>3 DEF mmapFails, Goto, fields
<1>4. ASSUME NEW t \in Threads, mprotect(t) PROVE Exclusion'
  BY <1>4 DEF mprotect, Goto, Allocated, Built
<1>5. ASSUME NEW t \in Threads, mprotectFails(t) PROVE Exclusion'
  BY <1>5 DEF mprotectFails, Goto, fields
<1>6. ASSUME NEW t \in Threads, lockPages(t) PROVE Exclusion'
  <2>1. LockStep(t)
    BY <1>6, LockPagesMoves
  <2> QED
    BY <1>6, <2>1 DEF lockPages, LockStep, Built, Goto
<1>7. ASSUME NEW t \in Threads, werExcludeFails(t) PROVE Exclusion'
  <2>1. pc[t] = "dontdump" /\ Guaranteed \subseteq {"mlock"} /\ Built(t, TRUE)
    BY <1>7, WerExcludeMoves
  <2> QED
    BY <1>7, <2>1 DEF werExcludeFails, Built, Goto
<1>8. ASSUME NEW t \in Threads, lockPagesFails(t) PROVE Exclusion'
  BY <1>8 DEF lockPagesFails, rollback, Goto, Built
<1>9. ASSUME NEW t \in Threads, unmapNew(t) PROVE Exclusion'
  BY <1>9 DEF unmapNew, platformFree, Goto, fields
<1>10. ASSUME NEW t \in Threads, resetZero(t) PROVE Exclusion'
  BY <1>10 DEF resetZero, zeroizeIfAsked, zeroBytes, Goto, fields
<1>11. ASSUME NEW t \in Threads, resetFlush(t) PROVE Exclusion'
  BY <1>11 DEF resetFlush, flushIfAsked, flushBytes, flushLines, Goto, fields
<1>12. ASSUME NEW t \in Threads, resetStore(t) PROVE Exclusion'
  BY <1>12 DEF resetStore, Goto, fields
<1>13. ASSUME NEW t \in Threads, DestroySwap(t) PROVE Exclusion'
  BY <1>13 DEF DestroySwap, Swap, Goto
<1>14. ASSUME NEW t \in Threads, DestroyZero(t) PROVE Exclusion'
  BY <1>14 DEF DestroyZero, zeroizeIfAsked, zeroBytes, Goto, fields
<1>15. ASSUME NEW t \in Threads, DestroyFlush(t) PROVE Exclusion'
  BY <1>15 DEF DestroyFlush, flushIfAsked, flushBytes, flushLines, Goto, fields
<1>16. ASSUME NEW t \in Threads, DestroyUnlock(t) PROVE Exclusion'
  BY <1>16 DEF DestroyUnlock, Goto, fields
<1>17. ASSUME NEW t \in Threads, DestroyUnmap(t) PROVE Exclusion'
  BY <1>17 DEF DestroyUnmap, platformFree, Goto, fields
<1>18. ASSUME NEW t \in Threads, NEW n \in Sizes, Alloc(t, n) PROVE Exclusion'
  BY <1>18 DEF Alloc, AllocGrant, AllocExhausted, AllocPanic, Reserve, fields
<1>19. ASSUME NEW t \in Threads, NEW i \in Bytes, Write(t, i) PROVE Exclusion'
  BY <1>19 DEF Write, fields
<1>20. ASSUME NEW t \in Threads, Reset(t) PROVE Exclusion'
  BY <1>20 DEF Reset, EndUse, Goto, fields
<1>21. ASSUME NEW t \in Threads, Close(t) PROVE Exclusion'
  BY <1>21 DEF Close, EndUse, Goto, fields
<1>22. ASSUME NEW i \in Bytes, Evict(i) PROVE Exclusion'
  BY <1>22 DEF Evict, fields
<1>23. CASE UNCHANGED vars
  BY <1>23 DEF vars, fields
<1> QED
  BY <1>1, <1>2, <1>3, <1>4, <1>5, <1>6, <1>7, <1>8, <1>9, <1>10, <1>11, <1>12, <1>13,
     <1>14, <1>15, <1>16, <1>17, <1>18, <1>19, <1>20, <1>21, <1>22, <1>23 DEF Next,
     Step, Call

\* The guard pages come before lockPages, whose calls come in their order;
\* a step that unmaps leaves no protection.
LEMMA SoFarStep ==
  ASSUME SecureInv, [Next]_vars
  PROVE  SoFar'
<1> USE DEF bump, SecureInv, TypeOK, Construction, Exclusion, SoFar, Before, NewSteps,
            DestroySteps, ResetSteps, Guards, Locks, In
<1>1. ASSUME NEW t \in Threads, NEW opts \in SUBSET Options, NewBuffer(t, opts)
      PROVE SoFar'
  BY <1>1 DEF NewBuffer, Goto
<1>2. ASSUME NEW t \in Threads, mmap(t) PROVE SoFar'
  BY <1>2, LockOrder DEF mmap, Goto, Allocated, Built
<1>3. ASSUME NEW t \in Threads, mmapFails(t) PROVE SoFar'
  BY <1>3 DEF mmapFails, Goto, fields
<1>4. ASSUME NEW t \in Threads, mprotect(t) PROVE SoFar'
  BY <1>4, LockOrder DEF mprotect, Goto, Allocated, Built
<1>5. ASSUME NEW t \in Threads, mprotectFails(t) PROVE SoFar'
  BY <1>5 DEF mprotectFails, Goto, fields
<1>6. ASSUME NEW t \in Threads, lockPages(t) PROVE SoFar'
  <2>1. LockStep(t)
    BY <1>6, LockPagesMoves
  <2> QED
    BY <1>6, <2>1 DEF lockPages, LockStep, Built, Goto
<1>7. ASSUME NEW t \in Threads, werExcludeFails(t) PROVE SoFar'
  <2>1. pc[t] = "dontdump" /\ Guaranteed \subseteq {"mlock"} /\ Built(t, TRUE)
    BY <1>7, WerExcludeMoves
  <2> QED
    BY <1>7, <2>1 DEF werExcludeFails, Built, Goto
<1>8. ASSUME NEW t \in Threads, lockPagesFails(t) PROVE SoFar'
  BY <1>8 DEF lockPagesFails, rollback, Goto, Built, Optional
<1>9. ASSUME NEW t \in Threads, unmapNew(t) PROVE SoFar'
  BY <1>9 DEF unmapNew, platformFree, Goto, fields
<1>10. ASSUME NEW t \in Threads, resetZero(t) PROVE SoFar'
  BY <1>10 DEF resetZero, zeroizeIfAsked, zeroBytes, Goto, fields
<1>11. ASSUME NEW t \in Threads, resetFlush(t) PROVE SoFar'
  BY <1>11 DEF resetFlush, flushIfAsked, flushBytes, flushLines, Goto, fields
<1>12. ASSUME NEW t \in Threads, resetStore(t) PROVE SoFar'
  BY <1>12 DEF resetStore, Goto, fields
<1>13. ASSUME NEW t \in Threads, DestroySwap(t) PROVE SoFar'
  BY <1>13 DEF DestroySwap, Swap, Goto
<1>14. ASSUME NEW t \in Threads, DestroyZero(t) PROVE SoFar'
  BY <1>14 DEF DestroyZero, zeroizeIfAsked, zeroBytes, Goto, fields
<1>15. ASSUME NEW t \in Threads, DestroyFlush(t) PROVE SoFar'
  BY <1>15 DEF DestroyFlush, flushIfAsked, flushBytes, flushLines, Goto, fields
<1>16. ASSUME NEW t \in Threads, DestroyUnlock(t) PROVE SoFar'
  BY <1>16 DEF DestroyUnlock, Goto, fields
<1>17. ASSUME NEW t \in Threads, DestroyUnmap(t) PROVE SoFar'
  BY <1>17 DEF DestroyUnmap, platformFree, Goto, fields
<1>18. ASSUME NEW t \in Threads, NEW n \in Sizes, Alloc(t, n) PROVE SoFar'
  BY <1>18 DEF Alloc, AllocGrant, AllocExhausted, AllocPanic, Reserve, fields
<1>19. ASSUME NEW t \in Threads, NEW i \in Bytes, Write(t, i) PROVE SoFar'
  BY <1>19 DEF Write, fields
<1>20. ASSUME NEW t \in Threads, Reset(t) PROVE SoFar'
  BY <1>20 DEF Reset, EndUse, Goto, fields
<1>21. ASSUME NEW t \in Threads, Close(t) PROVE SoFar'
  BY <1>21 DEF Close, EndUse, Goto, fields
<1>22. ASSUME NEW i \in Bytes, Evict(i) PROVE SoFar'
  BY <1>22 DEF Evict, fields
<1>23. CASE UNCHANGED vars
  BY <1>23 DEF vars, fields
<1> QED
  BY <1>1, <1>2, <1>3, <1>4, <1>5, <1>6, <1>7, <1>8, <1>9, <1>10, <1>11, <1>12, <1>13,
     <1>14, <1>15, <1>16, <1>17, <1>18, <1>19, <1>20, <1>21, <1>22, <1>23 DEF Next,
     Step, Call

\* NewBuffer returns with the protections it promises, whichever calls failed,
\* and until unlockPages nothing takes one away.
LEMMA ProtectionsStep ==
  ASSUME SecureInv, [Next]_vars
  PROVE  Protections'
<1> USE DEF bump, SecureInv, TypeOK, Construction, Exclusion, SoFar, Protections, Before,
            NewSteps, DestroySteps, ResetSteps, Guards, Locks, In
<1>1. ASSUME NEW t \in Threads, NEW opts \in SUBSET Options, NewBuffer(t, opts)
      PROVE Protections'
  BY <1>1, SystemConstant DEF NewBuffer, Goto
<1>2. ASSUME NEW t \in Threads, mmap(t) PROVE Protections'
  BY <1>2, SystemConstant, LockOrder DEF mmap, Goto, Allocated, Built
<1>3. ASSUME NEW t \in Threads, mmapFails(t) PROVE Protections'
  BY <1>3, SystemConstant DEF mmapFails, Goto, fields
<1>4. ASSUME NEW t \in Threads, mprotect(t) PROVE Protections'
  <2>1. ~built /\ prot \subseteq Guards /\ "guard" \in cfg
    BY <1>4 DEF mprotect
  <2>2. CASE pc[t] = "guardHigh" /\ "lock" \notin cfg /\ Built(t, FALSE)
    <3>1. Guards \subseteq prot' /\ prot' \subseteq Guards
      BY <1>4, <2>1, <2>2 DEF mprotect
    <3>2. locked' = FALSE /\ cfg' = cfg
      BY <1>4, <2>2 DEF mprotect, Built
    <3> QED
      BY <2>2, <3>1, <3>2
  <2>3. CASE UNCHANGED <<built, locked>>
    BY <2>1, <2>3
  <2> QED
    BY <1>4, <2>2, <2>3 DEF mprotect, Allocated
<1>5. ASSUME NEW t \in Threads, mprotectFails(t) PROVE Protections'
  BY <1>5, SystemConstant DEF mprotectFails, Goto, fields
<1>6. ASSUME NEW t \in Threads, lockPages(t) PROVE Protections'
  <2>1. LockStep(t)
    BY <1>6, LockPagesMoves
  <2>2. ~built /\ prot' = prot \cup {pc[t]} /\ cfg' = cfg /\ pc[t] \in Locks
    BY <1>6, <2>1 DEF lockPages, LockStep
  <2>3. Before(pc[t]) \subseteq prot /\ ("guard" \in cfg => Guards \subseteq prot)
    BY <2>2
  <2>4. CASE Guaranteed \subseteq Before(pc[t]) \cup {pc[t]} /\ Built(t, TRUE)
    <3>1. Guaranteed \subseteq prot' /\ Guaranteed' = Guaranteed
      BY <2>2, <2>3, <2>4, SystemConstant
    <3>2. locked' = TRUE
      BY <2>4 DEF Built
    <3> QED
      BY <2>2, <2>3, <3>1, <3>2
  <2>5. CASE UNCHANGED <<built, locked>>
    BY <2>2, <2>5
  <2> QED
    BY <2>1, <2>4, <2>5 DEF LockStep
<1>7. ASSUME NEW t \in Threads, werExcludeFails(t) PROVE Protections'
  <2>1. pc[t] = "dontdump" /\ Guaranteed \subseteq {"mlock"} /\ Built(t, TRUE)
    BY <1>7, WerExcludeMoves
  <2> QED
    BY <1>7, <2>1, SystemConstant DEF werExcludeFails, Built, Goto
<1>8. ASSUME NEW t \in Threads, lockPagesFails(t) PROVE Protections'
  <2>1. ~built /\ prot' = prot \ {"mlock", "dontdump"} /\ cfg' = cfg /\ "lock" \in cfg
    BY <1>8 DEF lockPagesFails, rollback
  <2>5. prot' \cap Locks = {}
    BY <1>8, <2>1 DEF lockPagesFails
  <2>2. "guard" \in cfg => Guards \subseteq prot
    BY <1>8 DEF lockPagesFails
  <2>3. CASE "bestEffort" \in cfg /\ Built(t, FALSE)
    <3>1. locked' = FALSE
      BY <2>3 DEF Built
    <3> QED
      BY <2>1, <2>5, <2>2, <2>3, <3>1
  <2>4. CASE UNCHANGED <<built, locked>>
    BY <2>1, <2>4
  <2> QED
    BY <1>8, <2>3, <2>4 DEF lockPagesFails
<1>9. ASSUME NEW t \in Threads, unmapNew(t) PROVE Protections'
  BY <1>9, SystemConstant DEF unmapNew, platformFree, Goto, fields
<1>10. ASSUME NEW t \in Threads, resetZero(t) PROVE Protections'
  BY <1>10, SystemConstant DEF resetZero, zeroizeIfAsked, zeroBytes, Goto, fields
<1>11. ASSUME NEW t \in Threads, resetFlush(t) PROVE Protections'
  BY <1>11, SystemConstant DEF resetFlush, flushIfAsked, flushBytes, flushLines, Goto, fields
<1>12. ASSUME NEW t \in Threads, resetStore(t) PROVE Protections'
  BY <1>12, SystemConstant DEF resetStore, Goto, fields
<1>13. ASSUME NEW t \in Threads, DestroySwap(t) PROVE Protections'
  BY <1>13, SystemConstant DEF DestroySwap, Swap, Goto
<1>14. ASSUME NEW t \in Threads, DestroyZero(t) PROVE Protections'
  BY <1>14, SystemConstant DEF DestroyZero, zeroizeIfAsked, zeroBytes, Goto, fields
<1>15. ASSUME NEW t \in Threads, DestroyFlush(t) PROVE Protections'
  BY <1>15, SystemConstant DEF DestroyFlush, flushIfAsked, flushBytes, flushLines, Goto, fields
<1>16. ASSUME NEW t \in Threads, DestroyUnlock(t) PROVE Protections'
  BY <1>16, SystemConstant DEF DestroyUnlock, Goto, fields
<1>17. ASSUME NEW t \in Threads, DestroyUnmap(t) PROVE Protections'
  BY <1>17, SystemConstant DEF DestroyUnmap, platformFree, Goto, fields
<1>18. ASSUME NEW t \in Threads, NEW n \in Sizes, Alloc(t, n) PROVE Protections'
  BY <1>18, SystemConstant DEF Alloc, AllocGrant, AllocExhausted, AllocPanic, Reserve, fields
<1>19. ASSUME NEW t \in Threads, NEW i \in Bytes, Write(t, i) PROVE Protections'
  BY <1>19, SystemConstant DEF Write, fields
<1>20. ASSUME NEW t \in Threads, Reset(t) PROVE Protections'
  BY <1>20, SystemConstant DEF Reset, EndUse, Goto, fields
<1>21. ASSUME NEW t \in Threads, Close(t) PROVE Protections'
  BY <1>21, SystemConstant DEF Close, EndUse, Goto, fields
<1>22. ASSUME NEW i \in Bytes, Evict(i) PROVE Protections'
  BY <1>22, SystemConstant DEF Evict, fields
<1>23. CASE UNCHANGED vars
  BY <1>23, SystemConstant DEF vars, fields
<1> QED
  BY <1>1, <1>2, <1>3, <1>4, <1>5, <1>6, <1>7, <1>8, <1>9, <1>10, <1>11, <1>12, <1>13,
     <1>14, <1>15, <1>16, <1>17, <1>18, <1>19, <1>20, <1>21, <1>22, <1>23 DEF Next,
     Step, Call

\* Slices end at or below the offset, which only Reset lowers, when there are
\* none; a Close or Reset in progress has ended them all.
LEMMA SlicesStep ==
  ASSUME SecureInv, [Next]_vars
  PROVE  Slices'
<1> USE DEF bump, SecureInv, TypeOK, Construction, Exclusion, Slices, NewSteps, DestroySteps,
            ResetSteps, Guards, Locks, In
<1>1. ASSUME NEW t \in Threads, NEW opts \in SUBSET Options, NewBuffer(t, opts)
      PROVE Slices'
  BY <1>1 DEF NewBuffer, Goto
<1>2. ASSUME NEW t \in Threads, mmap(t) PROVE Slices'
  BY <1>2 DEF mmap, Goto, Allocated, Built
<1>3. ASSUME NEW t \in Threads, mmapFails(t) PROVE Slices'
  BY <1>3 DEF mmapFails, Goto, fields
<1>4. ASSUME NEW t \in Threads, mprotect(t) PROVE Slices'
  BY <1>4 DEF mprotect, Goto, Allocated, Built
<1>5. ASSUME NEW t \in Threads, mprotectFails(t) PROVE Slices'
  BY <1>5 DEF mprotectFails, Goto, fields
<1>6. ASSUME NEW t \in Threads, lockPages(t) PROVE Slices'
  <2>1. LockStep(t)
    BY <1>6, LockPagesMoves
  <2> QED
    BY <1>6, <2>1 DEF lockPages, LockStep, Built, Goto
<1>7. ASSUME NEW t \in Threads, werExcludeFails(t) PROVE Slices'
  <2>1. pc[t] = "dontdump" /\ Guaranteed \subseteq {"mlock"} /\ Built(t, TRUE)
    BY <1>7, WerExcludeMoves
  <2> QED
    BY <1>7, <2>1 DEF werExcludeFails, Built, Goto
<1>8. ASSUME NEW t \in Threads, lockPagesFails(t) PROVE Slices'
  BY <1>8 DEF lockPagesFails, rollback, Goto, Built
<1>9. ASSUME NEW t \in Threads, unmapNew(t) PROVE Slices'
  BY <1>9 DEF unmapNew, platformFree, Goto, fields
<1>10. ASSUME NEW t \in Threads, resetZero(t) PROVE Slices'
  BY <1>10 DEF resetZero, zeroizeIfAsked, zeroBytes, Goto, fields
<1>11. ASSUME NEW t \in Threads, resetFlush(t) PROVE Slices'
  BY <1>11 DEF resetFlush, flushIfAsked, flushBytes, flushLines, Goto, fields
<1>12. ASSUME NEW t \in Threads, resetStore(t) PROVE Slices'
  BY <1>12 DEF resetStore, Goto, fields
<1>13. ASSUME NEW t \in Threads, DestroySwap(t) PROVE Slices'
  BY <1>13 DEF DestroySwap, Swap, Goto
<1>14. ASSUME NEW t \in Threads, DestroyZero(t) PROVE Slices'
  BY <1>14 DEF DestroyZero, zeroizeIfAsked, zeroBytes, Goto, fields
<1>15. ASSUME NEW t \in Threads, DestroyFlush(t) PROVE Slices'
  BY <1>15 DEF DestroyFlush, flushIfAsked, flushBytes, flushLines, Goto, fields
<1>16. ASSUME NEW t \in Threads, DestroyUnlock(t) PROVE Slices'
  BY <1>16 DEF DestroyUnlock, Goto, fields
<1>17. ASSUME NEW t \in Threads, DestroyUnmap(t) PROVE Slices'
  BY <1>17 DEF DestroyUnmap, platformFree, Goto, fields
<1>18. ASSUME NEW t \in Threads, NEW n \in Sizes, Alloc(t, n) PROVE Slices'
  <2>1. /\ UNCHANGED <<freed, pc>> /\ off \in Int /\ off' \in Int /\ n \in Nat \ {0}
        /\ ~panicked' => ~panicked /\ 0 <= off /\ off' = off + n
    BY <1>18, AllocEffect, SecureAssumption DEF fields, Ints
  <2>2. \A u \in Threads : \A g \in grants[u] : g[1] \in Int /\ g[2] \in Int
    BY SecureAssumption DEF Bytes
  <2>3. CASE UNCHANGED grants
    BY <2>1, <2>2, <2>3
  <2>4. CASE /\ InUse /\ off' = off + n
             /\ grants' = [grants EXCEPT ![t] = @ \cup {<<off, off'>>}]
    <3>1. ~freed' /\ ~In({"swap"} \cup ResetSteps)'
      BY <2>1, <2>4 DEF InUse
    <3>2. ASSUME NEW u \in Threads, NEW g \in grants'[u]
          PROVE  g[1] < g[2] /\ (~panicked' => g[2] <= off')
      <4>1. CASE g \in grants[u]
        BY <2>1, <2>2, <4>1
      <4>2. CASE g = <<off, off'>>
        BY <2>1, <2>4, <4>2
      <4> QED
        BY <2>4, <3>2, <4>1, <4>2
    <3> QED
      BY <2>1, <3>1, <3>2
  <2> QED
    BY <1>18, <2>3, <2>4, AllocEffect
<1>19. ASSUME NEW t \in Threads, NEW i \in Bytes, Write(t, i) PROVE Slices'
  BY <1>19 DEF Write, fields
<1>20. ASSUME NEW t \in Threads, Reset(t) PROVE Slices'
  BY <1>20 DEF Reset, EndUse, Goto, fields
<1>21. ASSUME NEW t \in Threads, Close(t) PROVE Slices'
  BY <1>21 DEF Close, EndUse, Goto, fields
<1>22. ASSUME NEW i \in Bytes, Evict(i) PROVE Slices'
  BY <1>22 DEF Evict, fields
<1>23. CASE UNCHANGED vars
  BY <1>23 DEF vars, fields
<1> QED
  BY <1>1, <1>2, <1>3, <1>4, <1>5, <1>6, <1>7, <1>8, <1>9, <1>10, <1>11, <1>12, <1>13,
     <1>14, <1>15, <1>16, <1>17, <1>18, <1>19, <1>20, <1>21, <1>22, <1>23 DEF Next,
     Step, Call

\* Alloc gives out bytes above the offset, which no slice has; Reset and Close
\* take the slices back, and nothing else changes them.
LEMMA DisjointStep ==
  ASSUME SecureInv, [Next]_vars
  PROVE  SlicesDisjoint'
<1> USE DEF SecureInv, TypeOK, Slices, SlicesDisjoint
<1>1. ASSUME NEW t \in Threads, NEW n \in Sizes, Alloc(t, n) PROVE SlicesDisjoint'
  <2>1. /\ off \in Int /\ off' \in Int /\ n \in Nat \ {0}
        /\ ~panicked' => ~panicked
    BY <1>1, AllocEffect, SecureAssumption DEF Ints
  <2>2. \A u \in Threads : \A g \in grants[u] : g[1] \in Int /\ g[2] \in Int
    BY SecureAssumption DEF Bytes
  <2>3. CASE UNCHANGED grants
    BY <2>1, <2>3
  <2>4. CASE /\ off' = off + n /\ off' <= Cap
             /\ grants' = [grants EXCEPT ![t] = @ \cup {<<off, off'>>}]
    BY <2>1, <2>2, <2>4
  <2> QED
    BY <1>1, <2>3, <2>4, AllocEffect
<1>2. ASSUME NEW t \in Threads, Reset(t) \/ Close(t) PROVE SlicesDisjoint'
  BY <1>2 DEF Reset, Close, EndUse
<1>3. ASSUME NEW t \in Threads, resetStore(t) PROVE SlicesDisjoint'
  <2>1. \A u \in Threads : grants[u] = {}
    BY <1>3 DEF resetStore, In, ResetSteps
  <2> QED
    BY <1>3, <2>1 DEF resetStore
<1>4. CASE UNCHANGED <<panicked, grants>>
  BY <1>4
<1> QED
  BY <1>1, <1>2, <1>3, <1>4
  DEF bump, Next, Step, Call, NewBuffer, mmap, mmapFails, mprotect, mprotectFails, lockPages,
      werExcludeFails, lockPagesFails, unmapNew, resetZero, resetFlush, resetStore,
      DestroySwap, DestroyZero, DestroyFlush, DestroyUnlock, DestroyUnmap, Write,
      Evict, vars

\* Data is written below the offset and only while nobody destroys or resets,
\* so what zeroing cleared stays clear, in main memory after the flush too.
LEMMA WipedStep ==
  ASSUME SecureInv, [Next]_vars
  PROVE  Wiped'
<1> USE DEF bump, SecureInv, TypeOK, Construction, Exclusion, Slices, Wiped, NewSteps,
            DestroySteps, ResetSteps, Guards, Locks, In
<1>1. ASSUME NEW t \in Threads, NEW opts \in SUBSET Options, NewBuffer(t, opts)
      PROVE Wiped'
  BY <1>1 DEF NewBuffer, Goto
<1>2. ASSUME NEW t \in Threads, mmap(t) PROVE Wiped'
  BY <1>2 DEF mmap, Goto, Allocated, Built
<1>3. ASSUME NEW t \in Threads, mmapFails(t) PROVE Wiped'
  BY <1>3 DEF mmapFails, Goto, fields
<1>4. ASSUME NEW t \in Threads, mprotect(t) PROVE Wiped'
  BY <1>4 DEF mprotect, Goto, Allocated, Built
<1>5. ASSUME NEW t \in Threads, mprotectFails(t) PROVE Wiped'
  BY <1>5 DEF mprotectFails, Goto, fields
<1>6. ASSUME NEW t \in Threads, lockPages(t) PROVE Wiped'
  <2>1. LockStep(t)
    BY <1>6, LockPagesMoves
  <2> QED
    BY <1>6, <2>1 DEF lockPages, LockStep, Built, Goto
<1>7. ASSUME NEW t \in Threads, werExcludeFails(t) PROVE Wiped'
  <2>1. pc[t] = "dontdump" /\ Guaranteed \subseteq {"mlock"} /\ Built(t, TRUE)
    BY <1>7, WerExcludeMoves
  <2> QED
    BY <1>7, <2>1 DEF werExcludeFails, Built, Goto
<1>8. ASSUME NEW t \in Threads, lockPagesFails(t) PROVE Wiped'
  BY <1>8 DEF lockPagesFails, rollback, Goto, Built
<1>9. ASSUME NEW t \in Threads, unmapNew(t) PROVE Wiped'
  BY <1>9 DEF unmapNew, platformFree, Goto, fields
<1>10. ASSUME NEW t \in Threads, resetZero(t) PROVE Wiped'
  BY <1>10 DEF resetZero, zeroizeIfAsked, zeroBytes, Goto, fields
<1>11. ASSUME NEW t \in Threads, resetFlush(t) PROVE Wiped'
  BY <1>11 DEF resetFlush, flushIfAsked, flushBytes, flushLines, Goto, fields
<1>12. ASSUME NEW t \in Threads, resetStore(t) PROVE Wiped'
  BY <1>12 DEF resetStore, Goto, fields
<1>13. ASSUME NEW t \in Threads, DestroySwap(t) PROVE Wiped'
  BY <1>13 DEF DestroySwap, Swap, Goto
<1>14. ASSUME NEW t \in Threads, DestroyZero(t) PROVE Wiped'
  BY <1>14 DEF DestroyZero, zeroizeIfAsked, zeroBytes, Goto, fields
<1>15. ASSUME NEW t \in Threads, DestroyFlush(t) PROVE Wiped'
  BY <1>15 DEF DestroyFlush, flushIfAsked, flushBytes, flushLines, Goto, fields
<1>16. ASSUME NEW t \in Threads, DestroyUnlock(t) PROVE Wiped'
  BY <1>16 DEF DestroyUnlock, Goto, fields
<1>17. ASSUME NEW t \in Threads, DestroyUnmap(t) PROVE Wiped'
  BY <1>17 DEF DestroyUnmap, platformFree, Goto, fields
<1>18. ASSUME NEW t \in Threads, NEW n \in Sizes, Alloc(t, n) PROVE Wiped'
  <2>1. /\ off \in Int /\ off' \in Int /\ n \in Nat
        /\ ~panicked' => ~panicked /\ off' = off + n
        /\ UNCHANGED <<mapped, view, dram, freed, cfg, arch, built, pc>>
    BY <1>18, AllocEffect, SecureAssumption DEF fields, Ints
  <2>2. \A j \in view : j \in Int
    BY SecureAssumption DEF Bytes
  <2> QED
    BY <2>1, <2>2
<1>19. ASSUME NEW t \in Threads, NEW i \in Bytes, Write(t, i) PROVE Wiped'
  <2>1. PICK g \in grants[t] : g[1] <= i /\ i < g[2]
    BY <1>19 DEF Write
  <2>2. g[2] \in Nat /\ (~panicked => g[2] <= off) /\ i \in Nat /\ off \in Int
    BY SecureAssumption DEF Bytes, Ints
  <2>3. /\ ~panicked => i < off
        /\ view' = view \cup {i}
        /\ UNCHANGED <<mapped, dram, freed, cfg, arch, built, pc, off, panicked>>
    BY <1>19, <2>1, <2>2 DEF Write, fields
  <2>4. ~freed /\ ~In({"swap"} \cup ResetSteps)
    BY <2>1
  <2>5. ~In({"flush", "unlock", "unmap"})
    BY <2>4
  <2> QED
    BY <2>3, <2>4, <2>5
<1>20. ASSUME NEW t \in Threads, Reset(t) PROVE Wiped'
  BY <1>20 DEF Reset, EndUse, Goto, fields
<1>21. ASSUME NEW t \in Threads, Close(t) PROVE Wiped'
  BY <1>21 DEF Close, EndUse, Goto, fields
<1>22. ASSUME NEW i \in Bytes, Evict(i) PROVE Wiped'
  BY <1>22 DEF Evict, fields
<1>23. CASE UNCHANGED vars
  BY <1>23 DEF vars, fields
<1> QED
  BY <1>1, <1>2, <1>3, <1>4, <1>5, <1>6, <1>7, <1>8, <1>9, <1>10, <1>11, <1>12, <1>13,
     <1>14, <1>15, <1>16, <1>17, <1>18, <1>19, <1>20, <1>21, <1>22, <1>23 DEF Next,
     Step, Call

\* Before NewBuffer there is nothing to protect.
LEMMA SecureInit == Init => SecureInv
<1> SUFFICES ASSUME Init PROVE SecureInv
  OBVIOUS
<1>1. TypeOK
  <2>1. 0 \in Ints
    BY SecureAssumption DEF Ints
  <2> QED
    BY <2>1 DEF Init, TypeOK, Labels
<1>2. Construction /\ Exclusion
  BY DEF Init, Construction, Exclusion, In, NewSteps, Guards, Locks, DestroySteps,
     ResetSteps
<1>3. SoFar /\ Protections
  BY DEF Init, SoFar, Protections, Guards, Locks
<1>4. Slices /\ SlicesDisjoint /\ Wiped
  BY DEF Init, Slices, SlicesDisjoint, Wiped
<1> QED
  BY <1>1, <1>2, <1>3, <1>4 DEF SecureInv

\* The invariant is inductive.
LEMMA SecureInvariant == Spec => []SecureInv
<1>1. ASSUME SecureInv, [Next]_vars PROVE SecureInv'
  BY <1>1, TypeStep, ConstructionStep, SoFarStep, ProtectionsStep, ExclusionStep,
     SlicesStep, DisjointStep, WipedStep DEF SecureInv
<1> QED
  BY <1>1, SecureInit, PTL DEF Spec

-------------------------------------------------------------------------------

\* The variables keep their types: protections, labels of NewBuffer, Reset and
\* Destroy, and slices within the capacity.
THEOREM TypeCorrect == Spec => []TypeOK
<1>1. SecureInv => TypeOK
  BY DEF SecureInv
<1> QED
  BY <1>1, SecureInvariant, PTL

\* What Destroy and Reset touch is mapped, one goroutine at a time however many
\* call Close, and no NewBuffer that fails leaves a mapping behind.
THEOREM PagesOutliveUse == Spec => []MappingLifetime
<1>1. SecureInv => MappingLifetime
  <2> SUFFICES ASSUME SecureInv PROVE MappingLifetime
    OBVIOUS
  <2> USE DEF bump, SecureInv, TypeOK, Construction, Exclusion, In, NewSteps, Guards, Locks
  <2>1. built /\ ~freed => mapped
    OBVIOUS
  <2>2. ASSUME NEW t \in Threads, pc[t] \in DestroySteps \cup ResetSteps
        PROVE  mapped /\ \A u \in Threads \ {t} : pc[u] \notin DestroySteps \cup ResetSteps
    BY <2>2 DEF DestroySteps, ResetSteps
  <2>3. mapped /\ ~In(NewSteps \cup DestroySteps) => built /\ ~freed
    BY DEF DestroySteps
  <2> QED
    BY <2>1, <2>2, <2>3 DEF MappingLifetime
<1> QED
  BY <1>1, SecureInvariant, PTL

\* A NewBuffer that returns has the whole lock or nothing of it, whichever of
\* its system calls failed, on every operating system.
THEOREM LockAllOrNothing == Spec => []NoPartialLock
<1>1. SecureInv => NoPartialLock
  <2> SUFFICES ASSUME SecureInv, built, ~freed PROVE NoPartialLock
    BY DEF NoPartialLock
  <2>1. mapped /\ system # "other" /\ system \in DOMAIN lockCalls /\ ~In({"unmap"})
    BY DEF SecureInv, TypeOK, Exclusion, SoFar, In, DestroySteps
  <2>2. "mlock" \in Guaranteed
    BY <2>1, LockOrder DEF Guaranteed
  <2> QED
    BY <2>1, <2>2 DEF SecureInv, Protections, NoPartialLock
<1> QED
  BY <1>1, SecureInvariant, PTL

\* With the lock insisted on and zeroizing, data is in pages only while they
\* are locked: Destroy zeroes them before unlockPages.
THEOREM NoSecretUnlocked == Spec => []SecretsLocked
<1>1. SecureInv => SecretsLocked
  <2> SUFFICES ASSUME SecureInv, mapped, view # {}, {"lock", "zeroize"} \subseteq cfg,
                      "bestEffort" \notin cfg
               PROVE  Guaranteed \cap {"mlock", "dontdump"} \subseteq prot
    BY DEF SecretsLocked
  <2>1. built
    BY DEF bump, SecureInv, TypeOK, Construction
  <2>2. ~In({"unmap"})
    BY DEF SecureInv, Wiped, In
  <2> QED
    BY <2>1, <2>2 DEF SecureInv, Protections
<1> QED
  BY <1>1, SecureInvariant, PTL

\* Pages return to the system without data when the caller asked for zeroizing,
\* and, on an architecture with a flush, main memory has none when the caller
\* asked for it too, whenever cache lines were written back.
THEOREM PagesReturnClean == Spec => []Sanitized
<1>1. SecureInv => Sanitized
  BY DEF bump, SecureInv, TypeOK, Exclusion, Wiped, Sanitized
<1> QED
  BY <1>1, SecureInvariant, PTL

\* No caller of a zeroizing arena is given what another wrote before a Reset,
\* until an offset that wrapped has made an Alloc panic.
THEOREM NoLeftovers == Spec => []FreshSlices
<1>1. SecureInv => FreshSlices
  BY DEF SecureInv, Wiped, FreshSlices
<1> QED
  BY <1>1, SecureInvariant, PTL

\* Slices in use lie in the buffer, and apart until an Alloc panics, whatever
\* the interleaving of the Allocs and however far refused ones drive the int64
\* offset.
THEOREM SlicesApart == Spec => []SlicesDisjoint
<1>1. SecureInv => SlicesDisjoint
  BY DEF SecureInv
<1> QED
  BY <1>1, SecureInvariant, PTL
===============================================================================
