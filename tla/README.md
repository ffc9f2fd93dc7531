# Beaver in TLA+

A verification project for [gosuda/beaver](../src), a set of memory allocators
for Go: bump arenas, an `mmap` block allocator with lock-free bookkeeping, a
hybrid of the two, pinned reference-counted blocks, and buffers of locked
pages. The modules here model the allocators from their source, TLC checks them
on small instances, and TLAPS proves the safety properties for all instances, some
under hypotheses without which they fail.

## The system

| Part | Source | State | Operations |
|:--|:--|:--|:--|
| Block allocator | `balloc/core.go`, `balloc/tree.go` | bump pointers of the payload and metadata areas, free list of slots, search tree from address to size and owner mask, count of blocks, closed flag | `Alloc`, `Share`, `FreeVarying`, `Reset`, `Close` |
| Pure arena | `pure/arena.go` | slab, `int64` bump offset | `Alloc`, `Reset`, `Len` |
| Pool and middlewares | `pure/http.go`, `alloc/http.go`, `alloc/core.go` | a `sync.Pool`, the allocator in each request's context | `Get`, `Put`, one allocator per request |
| Buffers | `pure/buffer.go`, `alloc/buffer.go` | slice, read offset | `Write`, `Read`, `Reset` |
| Pinned arena | `arena/core.go`, `arena/tree.go` | map of pinned blocks under a mutex, lock-free tree of owner masks, closed flag | `Alloc`, `Share`, `FreeVarying`, `Close` |
| Hybrid | `alloc/hybrid.go` | per shard: mutex, slice of slabs, pool of slabs; one block allocator | `Alloc`, `Reset`, `Close` |
| Helpers | `alloc/generic.go`, `alloc/json.go`, `pure/json.go` | none of their own | `MakeSlice`, `MakeBytes`, `New`, `MarshalJSON` |
| Secure memory | `secure/*.go` | mapping, lock state, freed flag, bump offset | `NewBuffer`, `Destroy`, arena `Alloc`, `Reset`, `Close` |
| Topology | `*/topology.go`, `*/bootstrap.go` | constant tables | the bucket index `Alloc` returns |

The parts meet by calls: a middleware takes an allocator from a pool and puts it
in the request's context; helpers and buffers find it there and call `Alloc`;
the hybrid allocator calls the block allocator for large requests. Handlers may
use one allocator from several goroutines. There is no I/O, no message and no
persistence: what is hard in this code is concurrency (CAS loops, a free list
with the ABA problem, work split between a lock-free and a locked half, a slice
read while it is appended to), recycling (pools, free lists, reused addresses,
stale entries), and limits (areas that run out, offsets that pass the capacity or
wrap).

What makes each part correct:

- *search trees*: they behave as a map with atomic operations, and every
  search ends;
- *allocator pool*: an allocator serves one request; slices stay as they are
  while they may be used; a mapping is unmapped once; the pool hands out
  allocators that are open and empty;
- *block allocator*: no two live blocks overlap; a block is in one pair of
  hands; the owner mask is exact; no block is lost or listed twice; the CAS loops
  end;
- *pure arena and pool*: slices in use never overlap, in one request or between
  requests; a pooled arena is rewound and used by nobody;
- *buffers*: content survives growth, failed growth and reuse; reads return it
  in order;
- *pinned arena*: an object is pinned while it has an owner or an `Alloc` works
  on it, and not after;
- *hybrid*: slices in use never overlap, their slabs stay referenced, the slow
  path works on a whole list, every call ends;
- *secure memory*: pages are sanitized before they are released, and released
  once.

The hazards behind these are listed, each with its line, in `PROJECT.json`.

## Modules

| Module | Models | Checked by |
|:--|:--|:--|
| `Balloc` | `balloc/core.go`, `balloc/tree.go` | `MCBalloc` |
| `BallocInv` | its inductive invariants | `MCBalloc` |
| `BallocProofs` | theorems about it | TLAPS |
| `PureArena` | `pure/arena.go`, `pure/http.go` | `MCPureArena` |
| `PureArenaProofs` | theorems about it | TLAPS |
| `OwnerMap` | what the search trees promise | `MemTree` |
| `MemTree` | `balloc/tree.go`, `arena/tree.go`, link by link | itself |
| `MemTreeProofs` | theorems about it, the refinement included | TLAPS |
| `AllocPool` | `alloc/core.go`, `alloc/http.go`, `alloc/generic.go`, `alloc/json.go`, `balloc/mmap_unix.go` | `MCAllocPool` |
| `AllocPoolProofs` | theorems about it | TLAPS |
| `Buffer` | `pure/buffer.go`, `alloc/buffer.go` | itself |
| `BufferProofs` | theorems about the buffer of `pure` | TLAPS |
| `Arena` | `arena/core.go`, `arena/tree.go` | `MCArena` |
| `ArenaProofs` | theorems about it | TLAPS |
| `Hybrid` | `alloc/hybrid.go` | `MCHybrid` |
| `HybridProofs` | theorems about it | TLAPS |
| `Secure` | `secure/buffer.go`, `secure/arena.go`, `secure/sys_*.go` | `MCSecure` |
| `SecureProofs` | theorems about it | TLAPS |

An operator that stands just before another and extends its name is a faulty
variant of it (a dropped check, a missing reset). `PROJECT.json` pairs each
property with a variant for which TLC finds the property violated.

### Balloc

Variables have the names of the fields of `BlockAllocator`; `slots` is the part
of the metadata area that holds free slots, `pc` and `loc` are the program
counter and the locals of each goroutine's call, `held` and `avail` are history
variables (who owns which bits; which slots were pushed and not taken). Every
atomic operation whose interleaving matters is an action: `popFree` is
`popFreeEmpty`, `popFreeLoadHead`, `popFreeLoadNext`, and the three outcomes of
its CAS; `pushFree` is `pushFreeLoad`, `pushFreeRetry` and `LinkSlot`, used by
`FreeReturn` and, when a popped slot is too small, by `repushDone`. Three
things are coarser than the code, where a finer grain adds nothing: the CAS loop
of `clearOwner` has no effect between load and CAS and is one step; `pushFree`
loads the head and stores it in its slot in one step, since nobody else writes
that slot; the counter follows the CAS in the same step, since it is only
compared between calls. The search tree is the map it implements, as `MemTree`
shows. Addresses are real ones: sizes, alignment and the two areas are computed as `New` and `Alloc` do.

Callers release a bit once, share as owners with bits nobody has, and call
`Reset` and `Close` alone. These are the obligations the API puts on them; the
hazards list what happens otherwise.

### OwnerMap and MemTree

`OwnerMap` is the abstract specification: a map from block address to owner
mask, operations that take effect in one step between call and return, answers
that tell whether the address was found and which owners it has left. `Balloc`
and `Arena` use the tree as such a map.

`MemTree` is the tree: `insertNode` and `insertBelow` load the root or a link,
descend, and CAS a nil link; a CAS that is lost loads the link again (`rootLoad`,
`casRoot`, `casRootRetry`, `Descend`, `Bottom`, `casLink`, `casLinkRetry`).
`findNode` descends by its own comparisons (`findSide`, where the code's first
test is `<`; `insertSide`, where it is `>`). `Met` is the atomic update of the
mask of the node that was reached; between the search and the update nothing can
happen to the node but other updates. The refinement mapping, `treeOwners`,
gives each address the mask of its linked node; `Map` is `OwnerMap` with it. Linearization points: the CAS that links the node, the
update of the mask, and, for a search that finds nothing, the load of the nil
link. `span`, a history variable, is the set of keys whose search leads to a
node; it makes `SearchPaths` a statement about states. `Nodes` bounds the nodes that
may be carved: a call that would need one more does not start to link it.

### AllocPool

One allocator per request, from `Pool` or from a factory, of either backend. A
`balloc` allocator owns a mapping that `Reset` rewinds; an arena has memory of
the Go heap, and its wrapper's `Reset` closes it and opens another. Cells hold the
request that wrote them last, so contents tell who is looking at whose data.
Mappings are made, unmapped by `Close`, or unmapped by the cleanup when the
collector finds an allocator that `sync.Pool` dropped; a new mapping may lie
where an old one was. Handlers allocate with the helpers, write, close the
allocator of their context, return or panic. `Put` runs in every case and ignores
what `Reset` answers.

Three statements of the documentation are not what the code does. `New` promises "a
single zero-value T" (`alloc/generic.go:8`), and a recycled `balloc` allocator
returns what an earlier request wrote: `Make` takes the cells as they are, and no
property states the promise, which is false. The result of `MarshalJSON`, a "stable
Go-heap copy" in `docs/api-reference/alloc.md`, is a slice of the allocator unless the
allocator refuses; `SlicesIntact` lets it end with its request. A pool hands out
`balloc` allocators that refuse everything once a handler has closed one; `PoolReady`
excepts them.

### PureArena

One action per outcome of `Alloc`: granted, refused (the offset has moved all
the same), or a panic of the slice expression after the `int64` sum has wrapped.
A request is served by `Middleware` (its arena from the pool, or made when the
pool misses) or by `MiddlewareFactory`; its handler ends normally or in a panic,
and the deferred `Put` runs either way. The garbage collector may empty the pool.

### Buffer

The n-th byte written is the number n, so contents show where they come from.
The constant `Package` selects the slice `grow` gets: `pure` one of full length,
`alloc` one of length zero. `grownCap` is the set with the one capacity that
repeated doubling arrives at, so that no recursion is needed to speak of it.

### Arena

A section under the mutex is one step; `freeVarying`, which clears the mask
without the mutex, is a step of its own. `blocks` is the map and `pinned` the set of
objects with a pin: `Alloc` pins before it takes the mutex (`AllocCall`) and unpins
again when it finds the arena closed (`AllocClosed`); `FreeVarying` and `Close` unpin
what is in the map. The heap may give the address of a
block that is no longer pinned to a later `Alloc`. With `OpenShare` any
goroutine that knows an address may share it; without it only owners do.

### Hybrid

The fast path reads the slice of slabs while the slow path appends to it. That
is a data race, so the slice is modelled by its words: the reader loads pointer
and length in either order, the writer stores pointer, length and element in the
order the compiler emits for `s = append(s, x)`. On a machine with weaker
ordering more can happen, not less. Backing arrays are named by their capacity,
which only grows. What `Reset` leaves in them stays there. A goroutine uses any
shard of `shardsOf`, one per call, as its `threadID` says. A goroutine that
panics or reads beyond an array stops (`TryNil`, `TryWild`); under `net/http` others
go on. This happens before any `Reset` already, whenever a scan meets an `append` on
its shard: it finds the entry that was not stored yet, or takes the new length with
the old array. The 16 workers on 8 shards of `TestHybridP99LatencyConcurrent` can meet
it. No property says that the fast path does not panic; the properties say that the
race hands out no byte twice, loses no slab and does not disturb the slow path. With
`SharedAfterReset` calls overlap on a shard after a `Reset` too, which the list
does not survive (`hybrid_stale`); without it they overlap on a shard until
the first `Reset` only.

### Secure

The life of one arena, on each operating system (`system`, `lockCalls`):
`NewBuffer` is a step per system call, each of which may fail, with what `lockPages` and `NewBuffer` then undo; `Destroy` is the
swap of `freed` and a step each for zeroizing, flushing, unlocking and unmapping,
entered by any number of goroutines that call `Close`. `view` is the set of bytes
in which a load sees data and `dram` the set in which main memory has data; a
cache line may be written back at any time (`Evict`). `prot` is the set of
protections in force on the pages. `Alloc` runs during and after `Close`, as the
code lets it; on Windows the dump exclusion is best effort, on macOS there is
none, and on a system without support every mapping fails. The comment at
`secure/buffer.go:122` says that `Locked` reports "whether page locking and dump
exclusion are active"; on macOS, and on Windows when the exclusion failed, `locked` is
true without the exclusion, in the code and in the model. The comment is false there,
and no property states it. `NoPartialLock` says what holds on every system.

`off` is an `int64` of `IntMax`: refused requests advance it too, it wraps, and the
negative sum passes the comparison with the capacity. The slice expression then
panics (`AllocPanic`). A caller that recovers the panic and goes on without `Reset`
drives the offset through the buffer again, and bytes are handed out twice:
`FreshSlices` and `SlicesDisjoint` end with the first panic (`panicked`). `arch` tells
the builds for amd64 and arm64, which flush cache lines, from the others, for which
`flushBytes` does nothing (`flush_generic.go`) and `Sanitized` says nothing of main
memory. Slices are not used once `Reset` or `Close` has been called, and `Reset` runs
alone.

## Runs

| Run | Bounds | Shows |
|:--|:--|:--|
| `balloc` | 2 goroutines, 2 layers, sizes 0 (refused), 5 (rounded up to 8) and 16, 3 words of payload, metadata for 3 nodes, fairness | types and no empty block, no dangling pointer, blocks disjoint and in one pair of hands, masks exact, none lost, exact count, CAS loops end |
| `balloc_aba` | 3 goroutines, sizes 8 and 16 | **violated**: ABA through the slot pushed back |
| `pure_arena` | 2 requests, 2 arenas, 5-bit integers, slab of 4 bytes | slices disjoint, pool clean |
| `buffer_pure` | 14 bytes written, slab of 24 | content kept, reads in order |
| `buffer_alloc` | the same | **violated**: `alloc.Buffer` loses content when it grows |
| `arena_owned` | 3 goroutines, 2 layers, 2 addresses | pinned exactly while owned, no pin left by an `Alloc` that meets `Close`, no call panics |
| `arena_share` | the same, anybody shares | **violated**: `Share` during the last `FreeVarying` |
| `hybrid` | 2 goroutines that roam over 2 shards, 4 calls, 4 slabs, one `Reset` or `Close`, fairness | slices disjoint, slabs stay referenced, recycled without being in two places, the slow path stays inside a whole list, every `Alloc` ends, whatever the scan sees before the `Reset`; after it, one call at a time on a shard |
| `hybrid_stale` | 2 goroutines on one shard, calls overlap after a `Reset` | **violated**: the same bytes handed out twice |
| `mem_tree` | 2 goroutines, 3 addresses, fairness | one place per key, refinement of `OwnerMap`, every call ends |
| `alloc_pool` | 3 requests, 2 allocators, 4 regions of 2 cells, both backends | one user per allocator, slices intact, each mapping unmapped once, pooled allocators ready |
| `secure` | 3 goroutines, 2 bytes, sizes 1 and 3, 3-bit integers, all options, five systems, both kinds of architecture | pages released once, sanitized, none left behind; no half of a lock or guard; no data in unlocked pages; slices fresh and disjoint until an `Alloc` panics |

The violated ones are findings, with the line they contradict, in
`PROJECT.json`.

*Bounds.* The metadata area of the `Balloc` instances holds enough for blocks to
be freed, reused and freed again and is then exhausted, so the error paths of
`newNode` and `newFreeSlot` are taken; the payload holds two or three blocks and
is exhausted too. `MaxBump` stops new calls once the bump pointer has passed the
end. Two goroutines cannot produce the ABA (it needs one that sleeps, one that
pushes back and one that takes), three can, as `balloc_aba` shows; that three or
more goroutines with one aligned size cannot is proved (below). Three addresses
give trees with every shape a link can have around the two inserts that race for
it; the two nodes beyond the three needed leave room for a faulty variant to add
too many. With 3 requests for 2 allocators the pool hits and misses, a request
follows one that closed its allocator, and regions are reused. Requests are
interchangeable, so `alloc_pool` uses their symmetry. In `PureArena` a
size of 15 with 5-bit integers wraps the offset in a few requests. In `Hybrid`
slabs of two or three bytes are filled by one or two requests, so lists of several
slabs and arrays that grow twice occur. In `Secure` two bytes hold slices of two
goroutines, and two refused requests of size 3 wrap 3-bit integers (`IntMax` is 3).

*Deadlock* is not checked for `Balloc`, `Hybrid` and `AllocPool`: a closed
allocator, the bounds, requests that are all served, and goroutines that have
panicked really stop. For the others it is.

*Fairness.* `balloc` and `mem_tree`: weak fairness of each goroutine's steps inside a call,
which the preemptive scheduler of Go gives. Nothing is assumed of callers: they
may stop calling. The loops are lock-free, not wait-free; they end because a
bounded number of calls begins (`MaxBump`, and metadata that runs out). In
`MemTree` the number of calls is not bounded, and a call loses at most as many
CAS as there are addresses: a link is set once. `hybrid` adds strong fairness of taking the mutex: `sync.Mutex` hands
itself to a waiter that has waited for a millisecond.

## Proofs

All are for every value of the constants: any number of goroutines, layers,
sizes, addresses.

*Assumptions.* `GeometryAssumption` and `ParameterAssumption` (what `New`
checks of the length, an aligned mapping, bit 0 among the layers);
`WidthAssumption` and `ArenaAssumption` (an integer width, sizes and capacity of
that width); and of the other modules the one assumption each that says what kind of
value its constants are (positive capacities, a `Nil` that is nothing else). TLC evaluates all of them in the runs.

*Blocks never overlap* (`BallocProofs!Disjointness`). `BlocksDisjoint` speaks of
every block the allocator refers to: in the tree, in a slot, in a call's hands.
It is not inductive: a step that takes a block out of a slot needs the slot to
exist, and a new block is apart from the others only because they lie below the
bump pointer. `BaseInv` adds `PointersValid` (slots and nodes that are
dereferenced have been carved and filled in) and `BlocksCarved` (blocks lie below
the bump pointer and have aligned sizes). `TypeCorrect`, which includes that no node and no
slot is of an empty block, and `NoDanglingPointer` follow too. It holds for all sizes: the ABA of `balloc_aba` hands a block out
twice, but never two blocks that overlap.

*A block is in one pair of hands* (`BallocProofs!Exclusivity`), when all
requests round up to one size (`UniformSizes`). Then `popFree` never pushes a
slot back (`NeverTooSmall`), so a slot is pushed once and written only before.
`UniformInv` says: the slots pushed and not taken form a list without sharing
(`ListShape`), what a `popFree` has read of its slot is still true when its CAS
succeeds (`SlotsStable`), each block is available through one slot or in one
call's hands or owned (`BlocksExclusive`), and masks are exact
(`OwnersRecorded`, `FreeInProgress`). The parts need each other: a free pushes a
block that nobody else has because the mask that reached zero was exact, and the
mask of a block that is taken again is empty because nobody owned it.
`ExactOwners` is the second result. Without `UniformSizes` both fail, as
`balloc_aba` shows.

*No block is lost and the count is exact* (`BallocProofs!NothingLost`,
`ExactCount`), under the same hypothesis. `Listed` is what a walk of the free list
meets: the least set of slots with the head and with the successor of each of its
slots. `KeptInv` says that every such set has all slots pushed and not taken
(`ListComplete`; a push adds the head and a take removes it, so the sets before and
after the step correspond), that a block without owners is available or in a call's
hands (`BlocksKept`), and that `activeBlocks` counts the blocks with an owner and
those being released (`CountExact`), the latter because `FreeVarying` clears the
mask long before it counts. Both results end when the metadata area does: `newNode`
and `newFreeSlot` then drop the block they were called for.

*Slices are disjoint and the pool is clean* (`PureArenaProofs`). `ArenaInv`
adds to `GrantsDisjoint` that an arena is in one request or in the pool
(`ArenasExclusive`) and that the slices of a handler lie below its offset
until the offset wraps, after which the handler is unwinding (`GrantsBelow`).

*The search tree is a map* (`MemTreeProofs`). `TreeInv` adds to `SearchPaths` that
the tree has one root through which every key passes (`Rooted`), and that a search
in progress is at a node whose keys include the one it looks for (`OnPath`). From
the two, a search that loads a nil link has the only place where its key could be, so
that nobody's node was overlooked. `TreeIsMap` is the refinement of `OwnerMap`, action
by action: a CAS that links a node is the map's insert, `Met` is its update, the load
of a nil link is its failed lookup, and every other step stutters.

*An object is pinned while it has an owner* (`ArenaProofs!OwnersPinned`), *and not
after* (`Unpinned`): the pins of `Alloc` calls in progress included. `freeVarying` clears the mask without the mutex and the map
entry goes later, so neither follows from one section: `ArenaInv` has exact masks
(`MasksExact`), each `FreeVarying` in progress clearing bits of its own
(`ClearsOwn`), a map entry for each mask that is not empty and a goroutine on its way
to remove each other entry (`PinnedWhileOwned`), and, for every pin, an entry of the map or the
`Alloc` that took it, whose address nobody else has (`FreshAddresses`). The theorems are for `~OpenShare`: when anybody may share,
`arena_share` shows the first one fail.

*Secure memory* (`SecureProofs`): all properties of `Secure`, for every number of
goroutines, every capacity, every integer width and all options, systems and kinds of
architecture. `SecureInv` follows
`NewBuffer` call by call (`Construction`, `SoFar`: which protections are in force
after the i-th call), and the goroutine whose swap of `freed` succeeded through
`Destroy` (`Exclusion`, `Wiped`: what is zero and flushed at each step); `Slices` bounds
slices by the offset until an `Alloc` has panicked.

*The hybrid allocator's slabs* (`HybridProofs`): all safety properties of `Hybrid`,
while `CallsApart` holds: no `Reset` or `Close` was made yet, or the calls on a shard
do not overlap since (`hybrid_stale` shows what happens when they do). `GrantsDisjoint`
needs that a slice lies below the offset of its slab and that the slab is in a list, so
that nobody fetches and rewinds it (`GrantsBelow`, `Exclusive`). That in turn needs to
know what the racing fast path can get hold of. Before the first `Reset`, any entry of
any backing array, old or new, is nil or a slab of the list (`BeforeReset`): a stale or
torn header leads to a slab of the shard or to nothing. After one, arrays have entries of
slabs that went to the pool, and what keeps the fast path off them is that a call alone
on its shard has read the header as it is (`AfterReset`). `CallOK` says what a call knows
of its shard under the mutex, store by store through `append`, from which `SlowPathSafe`
follows (`SlowPathSound`); the list of an `append` in
progress counts up to the entry not yet stored (`Settled`, `List`). `HybridInv` is the
conjunction with the types.

*The pool of allocators* (`AllocPoolProofs`): all properties of `AllocPool`.
`SlicesIntact` is the hard one: a slice survives because its region is held by one
allocator at most, whose request the slice belongs to (`RegionsHeld`, `SlicesOwned`,
`Contexts`), because it lies below what that allocator has handed out, and because an
allocator has one user (`OneUser`). `PoolInv` is their
conjunction.

*The buffer of* `pure` *keeps its content* (`BufferProofs`), and reads are in order:
`ContentKept` and `ReadsInOrder` with the types are inductive. `Package = "pure"` is a
hypothesis because the buffer of `alloc` does not (`buffer_alloc`).

TLC has checked each inductive invariant on the instance of the component's run
(those of `Balloc` with two sizes that round up to one) before it was proved; they
are in no run, since the runs check what follows from them.

*Only model-checked*: liveness (`CallsReturn` of `Balloc` and `MemTree`,
`AllocReturns`), which is out of the prover's reach.

## Not modelled

- `HardenProcess`: system calls that change the process, without state here.
- Assembly for zeroing and flushing: its effect is one step.
- Topology and bootstrap tables: the bucket index `Alloc` returns is a pure
  function of constant tables, no state depends on it, and nothing is promised of
  it.
- JSON encoding and the functions of `pure/json.go`: thin wrappers of the
  standard library over the buffers.
- Wrap-around of `uintptr` sums in `balloc` and of `esz*cap` in `MakeSlice`: sizes
  of the model are those that a mapping can hold.
- What the Go heap keeps behind pointers that lie in mapped memory.
- Calls of `balloc` that overlap `Reset` or `Close`, and bits released twice:
  the obligations of callers, which the middlewares meet.
- The examples: demonstrations of the API.

## Plan

- An abstract allocator, in which a block is free or has a set of owners and `Alloc`,
  `Share` and `FreeVarying` each take one step, and `Balloc` shown to implement it
  under `UniformSizes`: `UniformInv` and `KeptInv` have the facts that the mapping needs.
- That `Capacities` leaves no array out: the guard of `appendPtr` holds whenever it is
  reached, which TLC shows on the instance (`AllocReturns`).
