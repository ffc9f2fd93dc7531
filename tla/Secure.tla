-------------------------------- MODULE Secure --------------------------------
(***************************************************************************)
(* Package secure: the life of an arena (secure/arena.go) and of the       *)
(* buffer under it (secure/buffer.go and, for each operating system,       *)
(* secure/sys_*.go), from the mapping of its pages to their return to the  *)
(* system.  System calls have their Linux names.                           *)
(*                                                                         *)
(* A system call that the code checks may fail; munmap, munlock and        *)
(* MADV_DODUMP, whose errors mean a caller's mistake, do not.  Data that   *)
(* callers write reaches main memory when the cache is flushed or a line   *)
(* happens to be evicted, so the model has both: view, what a load sees,   *)
(* and dram.  Both keep the contents that the pages had when they were     *)
(* released.                                                               *)
(*                                                                         *)
(* Alloc is one atomic add of an int64 that wraps, and local work.  When   *)
(* the sum has wrapped the slice expression panics; the caller recovers    *)
(* and everybody goes on with the arena.                                   *)
(*                                                                         *)
(* Callers are disciplined: slices are not used once a Reset or a Close    *)
(* has been called, Reset runs alone and not after Close.  Close may be    *)
(* called by several goroutines, and Alloc during and after Close.         *)
(*                                                                         *)
(* An operator whose name adds Unchecked, Uncapped or Missing to another's *)
(* is a faulty variant of it, for which a property fails.                  *)
(***************************************************************************)
EXTENDS Integers, Sequences, FiniteSets

CONSTANTS
  Threads,       \* goroutines
  Cap,           \* capacity of the arena
  Sizes,         \* sizes asked for
  IntMax         \* largest int64

ASSUME SecureAssumption ==
  /\ IntMax \in Nat /\ Cap \in 1 .. IntMax
  /\ Sizes \subseteq 1 .. IntMax

\* The int64 values, and their addition.
Ints == (-IntMax - 1) .. IntMax
Wrap(x) == IF x > IntMax THEN x - 2 * (IntMax + 1) ELSE x

VARIABLES
  mapped,        \* the pages are mapped
  prot,          \* protections in force on them
  view, dram,    \* bytes with data in them, as loads and as main memory have it
  system, arch,  \* what the package was built for: operating system, and
                 \* "asm" (amd64 or arm64) or "generic" architecture
  cfg,           \* options of the buffer
  built,         \* NewArena has returned the arena
  locked, freed, \* fields of the buffer
  off,           \* bump offset of the arena
  panicked,      \* history: an Alloc has panicked since off was last set to 0
  pc,            \* per goroutine: the next step of its call
  grants         \* history: goroutine -> the <<lo, hi>> it may use

fields == <<system, arch, cfg, built, locked, freed>>
bump == <<off, panicked>>
vars == <<mapped, prot, view, dram, fields, bump, pc, grants>>

\* The fields of config that each Option sets.
Options == { {"lock"},                  \* WithLock
             {"lock", "bestEffort"},    \* WithBestEffortLock
             {"zeroize"}, {"flush"}, {"guard"} }

\* The system calls of lockPages, in their order.
lockCalls ==
  [linux   |-> <<"mlock", "dontdump", "unmergeable">>,
   freebsd |-> <<"mlock", "dontdump">>,
   windows |-> <<"mlock", "dontdump">>,
   darwin  |-> <<"mlock">>,
   other   |-> <<>>]

Bytes == 0 .. Cap - 1
Locks == {"mlock", "dontdump", "unmergeable"}
Guards == {"guardLow", "guardHigh"}

NewSteps == {"mmap", "unmapNew"} \cup Guards \cup Locks
DestroySteps == {"zero", "flush", "unlock", "unmap"}
ResetSteps == {"resetZero", "resetFlush", "resetStore"}
Labels == {"idle", "swap"} \cup NewSteps \cup DestroySteps \cup ResetSteps

\* The offset is an int64, and no slice reaches beyond the bytes of the buffer,
\* although with guard pages the pages behind it are longer.
TypeOK ==
  /\ mapped \in BOOLEAN /\ prot \subseteq Locks \cup Guards
  /\ view \subseteq Bytes /\ dram \subseteq Bytes
  /\ system \in DOMAIN lockCalls /\ arch \in {"asm", "generic"}
  /\ cfg \subseteq UNION Options /\ built \in BOOLEAN
  /\ locked \in BOOLEAN /\ freed \in BOOLEAN
  /\ off \in Ints /\ panicked \in BOOLEAN
  /\ pc \in [Threads -> Labels]
  /\ grants \in [Threads -> SUBSET (Bytes \X (1 .. Cap))]

Init ==
  /\ mapped = FALSE /\ prot = {} /\ view = {} /\ dram = {}
  /\ system \in DOMAIN lockCalls /\ arch \in {"asm", "generic"}
  /\ cfg = {} /\ built = FALSE /\ locked = FALSE /\ freed = FALSE
  /\ off = 0 /\ panicked = FALSE
  /\ pc = [t \in Threads |-> "idle"]
  /\ grants = [t \in Threads |-> {}]

Goto(t, label) == pc' = [pc EXCEPT ![t] = label]

In(steps) == \E t \in Threads : pc[t] \in steps

-------------------------------------------------------------------------------
(* NewArena and NewBuffer.                                                 *)

NewBuffer(t, opts) ==
  /\ pc[t] = "idle" /\ ~built /\ ~In(NewSteps)
  /\ cfg' = UNION opts
  /\ Goto(t, "mmap")
  /\ UNCHANGED <<mapped, prot, view, dram, system, arch, built, locked, freed, bump, grants>>

\* NewBuffer returns the buffer, with the field locked set to l.
Built(t, l) == built' = TRUE /\ locked' = l /\ Goto(t, "idle")

\* What follows platformAlloc.
Allocated(t) ==
  \/ "lock" \in cfg /\ Goto(t, "mlock") /\ UNCHANGED <<built, locked>>
  \/ "lock" \notin cfg /\ Built(t, FALSE)

\* On a system without support every mapping fails.
mmap(t) ==
  /\ pc[t] = "mmap" /\ system # "other"
  /\ mapped' = TRUE
  /\ \/ "guard" \in cfg /\ Goto(t, "guardLow") /\ UNCHANGED <<built, locked>>
     \/ "guard" \notin cfg /\ Allocated(t)
  /\ UNCHANGED <<prot, view, dram, system, arch, cfg, freed, bump, grants>>

mmapFails(t) ==
  /\ pc[t] = "mmap"
  /\ Goto(t, "idle")
  /\ UNCHANGED <<mapped, prot, view, dram, fields, bump, grants>>

mprotect(t) ==
  /\ pc[t] \in Guards
  /\ prot' = prot \cup {pc[t]}
  /\ \/ pc[t] = "guardLow" /\ Goto(t, "guardHigh") /\ UNCHANGED <<built, locked>>
     \/ pc[t] = "guardHigh" /\ Allocated(t)
  /\ UNCHANGED <<mapped, view, dram, system, arch, cfg, freed, bump, grants>>

mprotectFails(t) ==
  /\ pc[t] \in Guards
  /\ Goto(t, "unmapNew")
  /\ UNCHANGED <<mapped, prot, view, dram, fields, bump, grants>>

\* The i-th call has succeeded, or is not needed: on with the next one.
Locked(t, i) ==
  \/ /\ i < Len(lockCalls[system])
     /\ Goto(t, lockCalls[system][i + 1])
     /\ UNCHANGED <<built, locked>>
  \/ i = Len(lockCalls[system]) /\ Built(t, TRUE)

lockPages(t) ==
  /\ \E i \in DOMAIN lockCalls[system] :
       pc[t] = lockCalls[system][i] /\ Locked(t, i)
  /\ prot' = prot \cup {pc[t]}
  /\ UNCHANGED <<mapped, view, dram, system, arch, cfg, freed, bump, grants>>

\* On Windows the dump exclusion is best effort.
Optional(call) == system = "windows" /\ call = "dontdump"

werExcludeFails(t) ==
  /\ pc[t] \in Locks /\ Optional(pc[t])
  /\ Locked(t, 2)
  /\ UNCHANGED <<mapped, prot, view, dram, system, arch, cfg, freed, bump, grants>>

\* lockPages takes back what it has done; NewBuffer goes on without the lock,
\* or unmaps.
rollbackMissing(p) == p \ {"dontdump"}
rollback(p) == p \ {"mlock", "dontdump"}

lockPagesFails(t) ==
  /\ pc[t] \in Locks /\ ~Optional(pc[t])
  /\ prot' = rollback(prot)
  /\ \/ "bestEffort" \in cfg /\ Built(t, FALSE)
     \/ "bestEffort" \notin cfg /\ Goto(t, "unmapNew") /\ UNCHANGED <<built, locked>>
  /\ UNCHANGED <<mapped, view, dram, system, arch, cfg, freed, bump, grants>>

platformFree(t) ==
  /\ mapped' = FALSE /\ prot' = {}
  /\ Goto(t, "idle")

unmapNew(t) ==
  /\ pc[t] = "unmapNew"
  /\ platformFree(t)
  /\ UNCHANGED <<view, dram, fields, bump, grants>>

-------------------------------------------------------------------------------
(* The arena in use.                                                       *)

\* Slices may be used: neither Reset nor Close has been called.
InUse == built /\ ~freed /\ ~In({"swap"} \cup ResetSteps)

\* len(data) bounds what Alloc grants.  Without that comparison the slice
\* expression goes by cap(data), which guard pages round up to whole pages.
FitsUnchecked(next) == next <= Cap + (IF "guard" \in cfg THEN 1 ELSE 0)
Fits(next) == next <= Cap

\* data[curr:next:next]; without its third index a slice would reach to the
\* end of the buffer.
SliceUncapped(curr, next) == <<curr, Cap>>
Slice(curr, next) == <<curr, next>>

\* Whether the slice expression is within bounds.
InBounds(curr, next) == 0 <= curr /\ curr <= next

\* The atomic add; what follows is local.  Sizes below one have no effect.
Reserve(t, n) ==
  /\ pc[t] = "idle" /\ built /\ ~In(ResetSteps)
  /\ off' = Wrap(off + n)
  /\ UNCHANGED <<mapped, prot, view, dram, fields, pc>>

\* A slice of an arena that was closed is not used.
AllocGrant(t, n) ==
  LET next == Wrap(off + n)
  IN /\ Reserve(t, n)
     /\ Fits(next) /\ InBounds(off, next)
     /\ \/ InUse /\ grants' = [grants EXCEPT ![t] = @ \cup {Slice(off, next)}]
        \/ ~InUse /\ UNCHANGED grants
     /\ UNCHANGED panicked

\* ErrOutOfMemory; the offset has moved all the same.
AllocExhausted(t, n) ==
  /\ Reserve(t, n)
  /\ ~Fits(Wrap(off + n))
  /\ UNCHANGED <<panicked, grants>>

\* The sum has wrapped and passes the comparison with len(data).
AllocPanic(t, n) ==
  /\ Reserve(t, n)
  /\ Fits(Wrap(off + n)) /\ ~InBounds(off, Wrap(off + n))
  /\ panicked' = TRUE
  /\ UNCHANGED grants

Alloc(t, n) == AllocGrant(t, n) \/ AllocExhausted(t, n) \/ AllocPanic(t, n)

\* A caller writes data into a slice of its own.
Write(t, i) ==
  /\ \E g \in grants[t] : g[1] <= i /\ i < g[2]
  /\ view' = view \cup {i}
  /\ UNCHANGED <<mapped, prot, dram, fields, bump, pc, grants>>

\* A cache line is written back on its own accord.
Evict(i) ==
  /\ mapped
  /\ dram' = IF i \in view THEN dram \cup {i} ELSE dram \ {i}
  /\ UNCHANGED <<mapped, prot, view, fields, bump, pc, grants>>

zeroBytesMissing == UNCHANGED view
zeroBytes == view' = {}

\* CLFLUSH or DC CIVAC, line by line; other architectures have no such
\* instruction and flushBytes does nothing there.
flushLines == dram' = view
flushBytes ==
  \/ arch = "asm" /\ flushLines
  \/ arch = "generic" /\ UNCHANGED dram

zeroizeIfAsked == IF "zeroize" \in cfg THEN zeroBytes ELSE UNCHANGED view
flushIfAsked == IF "flush" \in cfg THEN flushBytes ELSE UNCHANGED dram

EndUse == grants' = [t \in Threads |-> {}]

Reset(t) ==
  /\ built /\ ~freed /\ \A u \in Threads : pc[u] = "idle"
  /\ EndUse
  /\ Goto(t, "resetZero")
  /\ UNCHANGED <<mapped, prot, view, dram, fields, bump>>

resetZeroMissing(t) ==
  /\ pc[t] = "resetZero"
  /\ Goto(t, "resetFlush")
  /\ UNCHANGED <<mapped, prot, view, dram, fields, bump, grants>>
resetZero(t) ==
  /\ pc[t] = "resetZero"
  /\ zeroizeIfAsked
  /\ Goto(t, "resetFlush")
  /\ UNCHANGED <<mapped, prot, dram, fields, bump, grants>>

resetFlush(t) ==
  /\ pc[t] = "resetFlush"
  /\ flushIfAsked
  /\ Goto(t, "resetStore")
  /\ UNCHANGED <<mapped, prot, view, fields, bump, grants>>

resetStore(t) ==
  /\ pc[t] = "resetStore"
  /\ off' = 0 /\ panicked' = FALSE
  /\ Goto(t, "idle")
  /\ UNCHANGED <<mapped, prot, view, dram, fields, grants>>

-------------------------------------------------------------------------------
(* Close, which is Destroy.                                                *)

Close(t) ==
  /\ pc[t] = "idle" /\ built /\ ~In(ResetSteps)
  /\ EndUse
  /\ Goto(t, "swap")
  /\ UNCHANGED <<mapped, prot, view, dram, fields, bump>>

\* The first Destroy goes on, the others return.
SwapUnchecked(t) == Goto(t, "zero")
Swap(t) == Goto(t, IF freed THEN "idle" ELSE "zero")

DestroySwap(t) ==
  /\ pc[t] = "swap"
  /\ freed' = TRUE
  /\ Swap(t)
  /\ UNCHANGED <<mapped, prot, view, dram, system, arch, cfg, built, locked, bump, grants>>

DestroyZero(t) ==
  /\ pc[t] = "zero"
  /\ zeroizeIfAsked
  /\ Goto(t, "flush")
  /\ UNCHANGED <<mapped, prot, dram, fields, bump, grants>>

DestroyFlushMissing(t) ==
  /\ pc[t] = "flush"
  /\ Goto(t, "unlock")
  /\ UNCHANGED <<mapped, prot, view, dram, fields, bump, grants>>
DestroyFlush(t) ==
  /\ pc[t] = "flush"
  /\ flushIfAsked
  /\ Goto(t, "unlock")
  /\ UNCHANGED <<mapped, prot, view, fields, bump, grants>>

\* unlockPages leaves the pages unmergeable.
DestroyUnlock(t) ==
  /\ pc[t] = "unlock"
  /\ prot' = IF locked THEN prot \ {"dontdump", "mlock"} ELSE prot
  /\ Goto(t, "unmap")
  /\ UNCHANGED <<mapped, view, dram, fields, bump, grants>>

DestroyUnmap(t) ==
  /\ pc[t] = "unmap"
  /\ platformFree(t)
  /\ UNCHANGED <<view, dram, fields, bump, grants>>

-------------------------------------------------------------------------------

Step(t) ==
  \/ mmap(t) \/ mmapFails(t) \/ mprotect(t) \/ mprotectFails(t)
  \/ lockPages(t) \/ werExcludeFails(t) \/ lockPagesFails(t) \/ unmapNew(t)
  \/ resetZero(t) \/ resetFlush(t) \/ resetStore(t)
  \/ DestroySwap(t) \/ DestroyZero(t) \/ DestroyFlush(t)
  \/ DestroyUnlock(t) \/ DestroyUnmap(t)

Call(t) ==
  \/ \E opts \in SUBSET Options : NewBuffer(t, opts)
  \/ \E n \in Sizes : Alloc(t, n)
  \/ \E i \in Bytes : Write(t, i)
  \/ Reset(t) \/ Close(t)

Next == (\E t \in Threads : Step(t) \/ Call(t)) \/ \E i \in Bytes : Evict(i)

Spec == Init /\ [][Next]_vars

-------------------------------------------------------------------------------

\* The pages live as long as the buffer does: what Destroy and Reset touch is
\* mapped, by one goroutine at a time however many call Close, and a mapping
\* that no call is working on belongs to a buffer that was not destroyed, so a
\* NewBuffer that fails leaves none behind.
MappingLifetime ==
  /\ built /\ ~freed => mapped
  /\ \A t \in Threads : pc[t] \in DestroySteps \cup ResetSteps =>
       mapped /\ \A u \in Threads \ {t} : pc[u] \notin DestroySteps \cup ResetSteps
  /\ mapped /\ ~In(NewSteps \cup DestroySteps) => built /\ ~freed

\* What lockPages guarantees when it succeeds.
Guaranteed ==
  {lockCalls[system][i] : i \in DOMAIN lockCalls[system]}
    \ (IF system = "windows" THEN {"dontdump"} ELSE {})

\* NewBuffer leaves no half of a lock and no half of a guard, whichever of its
\* system calls failed: a buffer in use whose lock failed has none of the
\* protections of lockPages left on its pages, one whose caller insisted on the
\* lock has its pages in RAM, and one with guard pages has both.  Whether the
\* dump exclusion that the comment of Locked promises is there when Locked is
\* true is another matter: on macOS it is not.
NoPartialLock ==
  built /\ ~freed =>
    /\ ~locked => prot \cap Locks = {}
    /\ locked \/ ("lock" \in cfg /\ "bestEffort" \notin cfg) => "mlock" \in prot
    /\ "guard" \in cfg => Guards \subseteq prot

\* With the lock insisted on and zeroizing, data is never in pages that could
\* be swapped or, on Linux and FreeBSD, dumped, through any order of Destroy's
\* steps.
SecretsLocked ==
  mapped /\ view # {} /\ {"lock", "zeroize"} \subseteq cfg /\ "bestEffort" \notin cfg
    => Guaranteed \cap {"mlock", "dontdump"} \subseteq prot

\* Pages return to the system without data, if the caller asked for zeroizing,
\* whenever cache lines are written back.  If the caller also asked for the
\* flush, main memory has none either, where the architecture has a flush:
\* elsewhere WithFlush is the no-op that its comment says, and main memory may
\* keep what was written.
Sanitized ==
  built /\ ~mapped =>
    /\ "zeroize" \in cfg => view = {}
    /\ {"zeroize", "flush"} \subseteq cfg /\ arch = "asm" => dram = {}

\* The part of a zeroizing arena that Alloc has not handed out since the last
\* Reset holds no data, so no caller is given what another wrote, unless the
\* offset wrapped and an Alloc panicked since.
FreshSlices ==
  "zeroize" \in cfg /\ built /\ ~panicked => \A i \in view : i < off

\* Slices that callers may use are in the buffer, and no byte is in two of
\* them before an Alloc has panicked: an offset that refused requests have
\* driven around the int64 is caught by the slice expression before any byte is
\* handed out twice.  Who recovers that panic and goes on without a Reset has
\* no such promise: the offset climbs through the buffer again.
SlicesDisjoint ==
  \A t, u \in Threads : \A g \in grants[t], h \in grants[u] :
    /\ g[2] <= Cap
    /\ panicked \/ (t = u /\ g = h) \/ g[2] <= h[1] \/ h[2] <= g[1]
===============================================================================
