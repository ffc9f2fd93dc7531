----------------------------- MODULE BufferProofs -----------------------------
(***************************************************************************)
(* Proofs about the buffer of package pure, for every first capacity, slab *)
(* size and set of write and read sizes.  The buffer of package alloc has  *)
(* no such theorem: the buffer_alloc run shows that its grow loses what    *)
(* was written.                                                            *)
(***************************************************************************)
EXTENDS Buffer, SequenceTheorems, TLAPS

\* The slice and the history hold bytes, and the offsets are lengths.
BufferTypes ==
  /\ chunk \in Seq(Nat) /\ got \in Seq(Nat)
  /\ len \in Nat /\ rOff \in Nat /\ used \in Nat
  /\ written \in Nat /\ base \in Nat

\* Inductive: the reads are right because the content is, and the content of a
\* grown slice is right because the length copied is all that was written.
BufferInv == BufferTypes /\ ContentKept /\ ReadsInOrder

-------------------------------------------------------------------------------

\* The capacity that grow asks for holds what is to be written.
LEMMA CapacityEnough ==
  ASSUME NEW c \in Nat, NEW needed \in Nat, NEW n \in grownCap(c, needed)
  PROVE  n \in Nat /\ needed <= n
<1>. DEFINE first == IF c = 0 THEN FirstCap ELSE c
<1>1. first \in Nat
  BY BufferAssumption
<1>2. n \in needed .. first + 2 * needed
  BY DEF grownCap
<1>. QED
  BY <1>1, <1>2

\* Write's copy of the bytes passed to it, into a slice that holds the content
\* so far: the slice keeps its capacity and then holds the new content.
LEMMA Appended ==
  ASSUME BufferTypes, ContentKept,
         NEW slice \in Seq(Nat), NEW k \in Nat,
         len + k <= Len(slice),
         \A i \in 1 .. len : slice[i] = chunk[i]
  PROVE  /\ append(slice, len + k) \in Seq(Nat)
         /\ Len(append(slice, len + k)) = Len(slice)
         /\ \A i \in 1 .. len + k : append(slice, len + k)[i] = base + i
<1>. DEFINE new == append(slice, len + k)
<1>1. /\ len \in Nat /\ written \in Nat /\ base \in Nat
      /\ len = written - base
      /\ \A i \in 1 .. len : chunk[i] = base + i
  BY DEF BufferTypes, ContentKept
<1>2. /\ Len(slice) \in Nat /\ DOMAIN slice = 1 .. Len(slice)
      /\ \A i \in 1 .. Len(slice) : slice[i] \in Nat
  BY ElementOfSeq, LenProperties
<1>3. new = [i \in 1 .. Len(slice) |->
               IF len < i /\ i <= len + k THEN written + (i - len) ELSE slice[i]]
  BY <1>2 DEF append
<1>4. new \in [1 .. Len(slice) -> Nat]
  BY <1>1, <1>2, <1>3
<1>5. new \in Seq(Nat) /\ Len(new) = Len(slice)
  <2>. HIDE DEF new
  <2>. QED
    BY <1>2, <1>4
<1>6. ASSUME NEW i \in 1 .. len + k
      PROVE  new[i] = base + i
  <2>1. new[i] = IF len < i THEN written + (i - len) ELSE slice[i]
    BY <1>1, <1>2, <1>3
  <2>2. CASE len < i
    BY <1>1, <2>1, <2>2
  <2>3. CASE i <= len
    BY <1>1, <2>1, <2>3
  <2>. QED
    BY <1>1, <2>2, <2>3
<1>. QED
  BY <1>5, <1>6

\* The slice of package pure's grow starts with the content so far.
LEMMA Copied ==
  ASSUME BufferTypes, ContentKept, NEW n \in Nat, len <= n
  PROVE  /\ growPure(n) \in Seq(Nat) /\ Len(growPure(n)) = n
         /\ \A i \in 1 .. len : growPure(n)[i] = chunk[i]
<1>. DEFINE new == growPure(n)
<1>1. \A i \in 1 .. len : chunk[i] \in Nat
  BY DEF BufferTypes, ContentKept
<1>2. new \in [1 .. n -> Nat]
  BY <1>1 DEF growPure, Junk, BufferTypes
<1>3. new \in Seq(Nat) /\ Len(new) = n
  <2>. HIDE DEF new
  <2>. QED
    BY <1>2
<1>4. \A i \in 1 .. len : new[i] = chunk[i]
  BY DEF growPure, BufferTypes
<1>. QED
  BY <1>3, <1>4

\* A Write that succeeds, into the slice it has or the one grow got.
LEMMA WriteStep ==
  ASSUME BufferInv, NEW slice \in Seq(Nat), NEW k \in Nat,
         len + k <= Len(slice),
         \A i \in 1 .. len : slice[i] = chunk[i],
         chunk' = append(slice, len + k),
         len' = len + k, written' = written + k, used' \in Nat,
         UNCHANGED <<rOff, base, got>>
  PROVE  BufferInv'
<1>. DEFINE new == append(slice, len + k)
<1>1. /\ new \in Seq(Nat) /\ Len(new) = Len(slice)
      /\ \A i \in 1 .. len + k : new[i] = base + i
  BY Appended DEF BufferInv
<1>2. BufferTypes'
  BY <1>1 DEF BufferInv, BufferTypes
<1>3. ContentKept'
  <2>. HIDE DEF new
  <2>1. chunk' = new
    BY DEF new
  <2>. QED
    BY <1>1, <2>1 DEF BufferInv, BufferTypes, ContentKept
<1>4. ReadsInOrder'
  BY DEF BufferInv, BufferTypes, ContentKept, ReadsInOrder
<1>. QED
  BY <1>2, <1>3, <1>4 DEF BufferInv

LEMMA ReadStep ==
  ASSUME BufferInv, NEW k \in Nat, Read(k)
  PROVE  BufferInv'
<1>. DEFINE n == Smaller(k, len - rOff)
            part == SubSeq(chunk, rOff + 1, rOff + n)
<1>1. /\ chunk \in Seq(Nat) /\ got \in Seq(Nat)
      /\ len \in Nat /\ rOff \in Nat /\ written \in Nat /\ base \in Nat
      /\ rOff < len /\ len = written - base /\ len <= Len(chunk)
      /\ rOff = Len(got)
      /\ \A i \in 1 .. len : chunk[i] = base + i
      /\ \A i \in 1 .. rOff : got[i] = base + i
  BY DEF BufferInv, BufferTypes, ContentKept, ReadsInOrder, Read
<1>2. n \in Nat /\ rOff + n <= len
  BY <1>1 DEF Smaller
<1>3. got' = got \o part /\ rOff' = rOff + n
  BY DEF Read
<1>4. UNCHANGED <<chunk, len, used, written, base>>
  BY DEF Read
<1>. HIDE DEF n
<1>5. Len(chunk) \in Nat /\ rOff + n <= Len(chunk)
  BY <1>1, <1>2, LenProperties
<1>6. /\ part \in Seq(Nat) /\ Len(part) = n
      /\ \A i \in 1 .. n : part[i] = chunk[rOff + i]
  BY <1>1, <1>2, <1>5, SubSeqProperties
<1>. HIDE DEF part
<1>7. /\ got \o part \in Seq(Nat) /\ Len(got \o part) = rOff + n
      /\ \A i \in 1 .. rOff + n :
           (got \o part)[i] = IF i <= rOff THEN got[i] ELSE part[i - rOff]
  <2>1. /\ got \o part \in Seq(Nat) /\ Len(got \o part) = Len(got) + Len(part)
        /\ \A i \in 1 .. Len(got) + Len(part) :
             (got \o part)[i] = IF i <= Len(got) THEN got[i] ELSE part[i - Len(got)]
    BY <1>1, <1>6, ConcatProperties
  <2>. QED
    BY <1>1, <1>6, <2>1
<1>8. ASSUME NEW i \in 1 .. rOff + n
      PROVE  (got \o part)[i] = base + i
  <2>1. CASE i <= rOff
    BY <1>1, <1>2, <1>7, <2>1
  <2>2. CASE ~(i <= rOff)
    <3>1. i - rOff \in 1 .. n
      BY <1>1, <1>2, <2>2
    <3>2. (got \o part)[i] = part[i - rOff]
      BY <1>7, <2>2
    <3>3. part[i - rOff] = chunk[rOff + (i - rOff)]
      BY <1>6, <3>1
    <3>4. rOff + (i - rOff) = i /\ i \in 1 .. len
      BY <1>1, <1>2
    <3>. QED
      BY <1>1, <3>2, <3>3, <3>4
  <2>. QED
    BY <2>1, <2>2
<1>9. BufferTypes'
  BY <1>1, <1>2, <1>3, <1>4, <1>7 DEF BufferInv, BufferTypes
<1>10. ContentKept'
  BY <1>4 DEF BufferInv, ContentKept
<1>11. ReadsInOrder'
  <2>1. rOff' = Len(got') /\ rOff' <= written' - base'
    BY <1>1, <1>2, <1>3, <1>4, <1>7
  <2>2. \A i \in 1 .. Len(got') : got'[i] = base' + i
    BY <1>3, <1>4, <1>7, <1>8
  <2>. QED
    BY <2>1, <2>2 DEF ReadsInOrder
<1>. QED
  BY <1>9, <1>10, <1>11 DEF BufferInv

\* The invariant of package pure's buffer.
LEMMA BufferStep ==
  ASSUME Package = "pure", BufferInv, [Next]_vars
  PROVE  BufferInv'
<1>. USE BufferAssumption
<1>1. ASSUME NEW k \in WriteSizes, WriteFits(k)
      PROVE  BufferInv'
  BY <1>1, WriteStep DEF WriteFits, BufferInv, BufferTypes
<1>2. ASSUME NEW k \in WriteSizes, WriteGrows(k)
      PROVE  BufferInv'
  <2>1. PICK newCap \in grownCap(Len(chunk), len + k) :
          /\ used' = used + newCap
          /\ chunk' = append(grow(newCap), len + k)
    BY <1>2 DEF WriteGrows
  <2>2. /\ Len(chunk) \in Nat /\ len \in Nat /\ k \in Nat /\ used \in Nat
        /\ BufferTypes /\ ContentKept
    BY LenProperties DEF BufferInv, BufferTypes
  <2>3. newCap \in Nat /\ len + k <= newCap
    BY <2>2, CapacityEnough
  <2>4. grow(newCap) = growPure(newCap)
    BY DEF grow
  <2>5. /\ growPure(newCap) \in Seq(Nat) /\ Len(growPure(newCap)) = newCap
        /\ \A i \in 1 .. len : growPure(newCap)[i] = chunk[i]
    BY <2>2, <2>3, Copied
  <2>6. /\ len' = len + k /\ written' = written + k
        /\ UNCHANGED <<rOff, base, got>>
    BY <1>2 DEF WriteGrows
  <2>7. used' \in Nat
    BY <2>1, <2>2, <2>3
  <2>. QED
    BY <2>1, <2>2, <2>3, <2>4, <2>5, <2>6, <2>7, WriteStep
<1>3. ASSUME NEW k \in WriteSizes, WriteFails(k)
      PROVE  BufferInv'
  BY <1>3 DEF WriteFails, BufferInv, BufferTypes, ContentKept, ReadsInOrder
<1>4. ASSUME NEW k \in ReadSizes, Read(k)
      PROVE  BufferInv'
  BY <1>4, ReadStep
<1>5. CASE Reset
  BY <1>5 DEF Reset, BufferInv, BufferTypes, ContentKept, ReadsInOrder
<1>6. CASE UNCHANGED vars
  BY <1>6 DEF vars, BufferInv, BufferTypes, ContentKept, ReadsInOrder
<1>. QED
  BY <1>1, <1>2, <1>3, <1>4, <1>5, <1>6 DEF Next

LEMMA BufferInit == Init => BufferInv
BY DEF Init, BufferInv, BufferTypes, ContentKept, ReadsInOrder

\* Whatever is written, read and reset, the slice, its length and its offsets
\* agree with each other and with the bytes written.
LEMMA BufferInvariant == Package = "pure" => (Spec => []BufferInv)
<1>. SUFFICES ASSUME Package = "pure" PROVE Spec => []BufferInv
  OBVIOUS
<1>1. BufferInv /\ [Next]_vars => BufferInv'
  BY BufferStep
<1>. QED
  BY <1>1, BufferInit, PTL DEF Spec

\* pure.Buffer: Bytes is what was written since the last Reset, in order,
\* through every growth, every reuse of the slice and every failed Write.
THEOREM PureContentKept == Package = "pure" => (Spec => []ContentKept)
<1>1. BufferInv => ContentKept
  BY DEF BufferInv
<1>. QED
  BY <1>1, BufferInvariant, PTL

\* pure.Buffer: Read hands out each byte written since the last Reset once and
\* in order, however reads, writes and growth interleave.
THEOREM PureReadsInOrder == Package = "pure" => (Spec => []ReadsInOrder)
<1>1. BufferInv => ReadsInOrder
  BY DEF BufferInv
<1>. QED
  BY <1>1, BufferInvariant, PTL
===============================================================================
