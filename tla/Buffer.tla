-------------------------------- MODULE Buffer --------------------------------
(***************************************************************************)
(* The growable byte buffers of package pure (pure/buffer.go) and package  *)
(* alloc (alloc/buffer.go).  The two differ in the slice grow gets from    *)
(* the allocator: all of it, or none of it, is its length.                 *)
(*                                                                         *)
(* The n-th byte ever written is the number n, so that every byte shows    *)
(* where it comes from; memory nobody wrote is Junk.                       *)
(*                                                                         *)
(* growPureEmpty and ResetKeepsOffset are faulty variants of the operators *)
(* they precede, for which a property below fails.                         *)
(***************************************************************************)
EXTENDS Integers, Sequences

CONSTANTS
  Package,      \* "pure" or "alloc"
  WriteSizes,   \* lengths of the slices passed to Write
  ReadSizes,    \* lengths of the slices passed to Read
  FirstCap,     \* capacity of the first slice (64)
  SlabBytes,    \* bytes the allocator has to give
  MaxBytes      \* bound of the model: bytes written in all

ASSUME BufferAssumption ==
  /\ Package \in {"pure", "alloc"}
  /\ WriteSizes \subseteq Nat /\ ReadSizes \subseteq Nat
  /\ FirstCap \in Nat \ {0} /\ SlabBytes \in Nat /\ MaxBytes \in Nat

VARIABLES
  chunk,        \* the backing slice up to its capacity
  len,          \* the length of data
  rOff,         \* read offset
  used,         \* the allocator's offset, or SlabBytes + 1 when exhausted
  written,      \* history: bytes written in all
  base,         \* history: bytes written before the last Reset
  got           \* history: what Read has returned since the last Reset

vars == <<chunk, len, rOff, used, written, base, got>>

Junk == 0

Smaller(m, n) == IF m <= n THEN m ELSE n

Init ==
  /\ chunk = <<>> /\ len = 0 /\ rOff = 0
  /\ used = 0
  /\ written = 0 /\ base = 0 /\ got = <<>>

-------------------------------------------------------------------------------

\* The capacity grow asks for, the one element of this set: the capacity it has,
\* doubled until it is enough and no further.
grownCap(c, needed) ==
  LET first == IF c = 0 THEN FirstCap ELSE c
  IN {n \in needed .. first + 2 * needed :
        /\ n = first \/ n < 2 * needed
        /\ \E k \in 0 .. needed : n = first * 2 ^ k}

\* grow: what a new slice of capacity n holds after the copy.
growPureEmpty(n) == [i \in 1 .. n |-> Junk]
growPure(n) == [i \in 1 .. n |-> IF i <= len THEN chunk[i] ELSE Junk]

\* MakeBytes(ctx, 0, n) has length zero: copy copies nothing.
growAlloc(n) == [i \in 1 .. n |-> Junk]

grow(n) == IF Package = "pure" THEN growPure(n) ELSE growAlloc(n)

\* Write's last two lines: extend to the new length and copy p to the end.
append(slice, needed) ==
  [i \in DOMAIN slice |->
     IF len < i /\ i <= needed THEN written + (i - len) ELSE slice[i]]

\* Write of k bytes; an empty write has no effect.
WriteFits(k) ==
  /\ k > 0 /\ written + k <= MaxBytes
  /\ len + k <= Len(chunk)
  /\ chunk' = append(chunk, len + k)
  /\ len' = len + k
  /\ written' = written + k
  /\ UNCHANGED <<rOff, used, base, got>>

WriteGrows(k) ==
  /\ k > 0 /\ written + k <= MaxBytes
  /\ len + k > Len(chunk)
  /\ \E newCap \in grownCap(Len(chunk), len + k) :
       /\ used + newCap <= SlabBytes
       /\ used' = used + newCap
       /\ chunk' = append(grow(newCap), len + k)
  /\ len' = len + k
  /\ written' = written + k
  /\ UNCHANGED <<rOff, base, got>>

\* The allocator is exhausted: Write returns its error.
WriteFails(k) ==
  /\ k > 0
  /\ len + k > Len(chunk)
  /\ \E newCap \in grownCap(Len(chunk), len + k) : used + newCap > SlabBytes
  /\ used' = SlabBytes + 1
  /\ UNCHANGED <<chunk, len, rOff, written, base, got>>

\* Read into k bytes; at the end it returns io.EOF without any effect.
Read(k) ==
  LET n == Smaller(k, len - rOff)
  IN /\ rOff < len
     /\ got' = got \o SubSeq(chunk, rOff + 1, rOff + n)
     /\ rOff' = rOff + n
     /\ UNCHANGED <<chunk, len, used, written, base>>

\* Reset keeps the slice and, like the code, empties it and rewinds.
ResetKeepsOffset ==
  /\ len' = 0
  /\ base' = written /\ got' = <<>>
  /\ UNCHANGED <<chunk, rOff, used, written>>
Reset ==
  /\ len' = 0 /\ rOff' = 0
  /\ base' = written /\ got' = <<>>
  /\ UNCHANGED <<chunk, used, written>>

Next ==
  \/ \E k \in WriteSizes : WriteFits(k) \/ WriteGrows(k) \/ WriteFails(k)
  \/ \E k \in ReadSizes : Read(k)
  \/ Reset

Spec == Init /\ [][Next]_vars

-------------------------------------------------------------------------------

\* Bytes is what was written since the last Reset, in order, through every
\* growth of the buffer, every reuse of its slice and every failed Write.
ContentKept ==
  /\ len = written - base /\ len <= Len(chunk)
  /\ \A i \in 1 .. len : chunk[i] = base + i

\* However the reads and the growth interleave, Read hands out each written
\* byte once and in order.
ReadsInOrder ==
  /\ rOff = Len(got) /\ rOff <= written - base
  /\ \A i \in 1 .. Len(got) : got[i] = base + i
===============================================================================
