------------------------- MODULE BlockAllocatorProofs -------------------------
(****************************************************************************)
(* Theorems about BlockAllocator, for every number and size of the blocks   *)
(* and every set of frames that fits the pool.                              *)
(*                                                                          *)
(* The inductive invariant is IInv: the invariants of the runs, and that    *)
(* every span starts on a block boundary and ends inside the pool. Without  *)
(* the latter remove() would compute the wrong block index from a span.     *)
(****************************************************************************)
EXTENDS BlockAllocator, FiniteSetTheorems, SequenceTheorems, TLAPS

-----------------------------------------------------------------------------
(* The two ways the code's vectors change: an element is erased and the     *)
(* later ones move up (RemoveAt), or an element is appended.                *)

\* Where the element at position i of RemoveAt(s, k) was in s.
Before(i, k) == IF i < k THEN i ELSE i + 1

(* Erasing the k-th element keeps the others and their order. *)
LEMMA RemoveAtProperties ==
    ASSUME NEW S, NEW s \in Seq(S), NEW k \in 1 .. Len(s)
    PROVE  /\ RemoveAt(s, k) \in Seq(S)
           /\ Len(RemoveAt(s, k)) = Len(s) - 1
           /\ \A i \in 1 .. (Len(s) - 1) :
                RemoveAt(s, k)[i] = s[Before(i, k)]
<1> DEFINE a == SubSeq(s, 1, k - 1)
           b == SubSeq(s, k + 1, Len(s))
<1>1. a \in Seq(S) /\ Len(a) = k - 1 /\ \A i \in 1 .. (k - 1) : a[i] = s[i]
  OBVIOUS
<1>2. /\ b \in Seq(S) /\ Len(b) = Len(s) - k
      /\ \A i \in 1 .. (Len(s) - k) : b[i] = s[k + i]
  OBVIOUS
<1>3. RemoveAt(s, k) = a \o b
  BY DEF RemoveAt
<1>4. Len(s) \in Nat /\ k \in Nat
  OBVIOUS
<1> HIDE DEF a, b
<1>5. /\ a \o b \in Seq(S)
      /\ Len(a \o b) = Len(a) + Len(b)
      /\ \A i \in 1 .. Len(a) + Len(b) :
            (a \o b)[i] = IF i <= Len(a) THEN a[i] ELSE b[i - Len(a)]
  BY <1>1, <1>2, ConcatProperties
<1>6. Len(a \o b) = Len(s) - 1
  BY <1>1, <1>2, <1>4, <1>5
<1>7. ASSUME NEW i \in 1 .. (Len(s) - 1)
      PROVE  (a \o b)[i] = s[Before(i, k)]
  <2>1. (a \o b)[i] = IF i <= k - 1 THEN a[i] ELSE b[i - (k - 1)]
    BY <1>1, <1>2, <1>4, <1>5
  <2>2. CASE i < k
    BY <1>1, <1>4, <2>1, <2>2 DEF Before
  <2>3. CASE ~(i < k)
    <3>1. /\ i - (k - 1) \in 1 .. (Len(s) - k)
          /\ k + (i - (k - 1)) = i + 1
      BY <1>4, <2>3
    <3>2. QED
      BY <1>2, <1>4, <2>1, <2>3, <3>1 DEF Before
  <2>4. QED
    BY <2>2, <2>3
<1>8. QED
  BY <1>3, <1>5, <1>6, <1>7

(* Different positions of the shorter vector come from different positions  *)
(* of the longer one, none of them the erased one.                          *)
LEMMA BeforeProperties ==
    ASSUME NEW n \in Nat, NEW k \in 1 .. n
    PROVE  /\ \A i \in 1 .. (n - 1) : Before(i, k) \in (1 .. n) \ {k}
           /\ \A i, j \in 1 .. (n - 1) : i # j => Before(i, k) # Before(j, k)
           /\ \A p \in (1 .. n) \ {k} : \E i \in 1 .. (n - 1) : p = Before(i, k)
<1>1. \A i \in 1 .. (n - 1) : Before(i, k) \in (1 .. n) \ {k}
  BY DEF Before
<1>2. \A i, j \in 1 .. (n - 1) : i # j => Before(i, k) # Before(j, k)
  BY DEF Before
<1>3. ASSUME NEW p \in (1 .. n) \ {k}
      PROVE  \E i \in 1 .. (n - 1) : p = Before(i, k)
  <2>1. CASE p < k
    <3>1. p \in 1 .. (n - 1) /\ Before(p, k) = p
      BY <2>1 DEF Before
    <3>2. QED
      BY <3>1
  <2>2. CASE p > k
    <3>1. (p - 1) \in 1 .. (n - 1) /\ Before(p - 1, k) = p
      BY <2>2 DEF Before
    <3>2. QED
      BY <3>1
  <2>3. QED
    BY <2>1, <2>2
<1>4. QED
  BY <1>1, <1>2, <1>3

-----------------------------------------------------------------------------

\* A span as add() makes them: on a block boundary, inside the pool.
WellPlaced(o) ==
    /\ o.offset = Index(o) * BLOCK_SIZE
    /\ Index(o) \in Nat
    /\ Extent(o) \subseteq Blocks

AllWellPlaced == \A k \in DOMAIN allocatedBlocks : WellPlaced(allocatedBlocks[k])

IInv == TypeOK /\ AllWellPlaced /\ ExtentsDisjoint /\ MapExact

-----------------------------------------------------------------------------

(* The blocks of a frame: at least one, and enough for its bytes. *)
LEMMA BlocksNeededBounds ==
    ASSUME NEW size \in Nat \ {0}
    PROVE  /\ BlocksNeeded(size) \in Nat
           /\ BlocksNeeded(size) >= 1
           /\ size <= BlocksNeeded(size) * BLOCK_SIZE
  BY SizesAssumption DEF BlocksNeeded

(* The block index computed from the offset of the i-th block is i. *)
LEMMA IndexOfOffset ==
    ASSUME NEW i \in Nat
    PROVE  (i * BLOCK_SIZE) \div BLOCK_SIZE = i
  BY SizesAssumption

(* A span at the start of a run of blocks inside the pool is well placed. *)
LEMMA NewSpan ==
    ASSUME NEW f \in Frames,
           NEW i \in 0 .. (MAX_BLOCKS - BlocksNeeded(Len(f)))
    PROVE  LET o == [offset |-> i * BLOCK_SIZE, size |-> Len(f)]
           IN  /\ o \in Span
               /\ WellPlaced(o)
               /\ Index(o) = i
               /\ Extent(o) = i .. (i + BlocksNeeded(Len(f)) - 1)
<1> DEFINE n == BlocksNeeded(Len(f))
           o == [offset |-> i * BLOCK_SIZE, size |-> Len(f)]
<1>1. Len(f) \in Nat \ {0}
  BY FramesAssumption
<1>2. n \in Nat /\ n >= 1
  BY <1>1, BlocksNeededBounds
<1>3. i \in Nat /\ i + n <= MAX_BLOCKS /\ MAX_BLOCKS \in Nat /\ BLOCK_SIZE \in Nat \ {0}
  BY <1>2, SizesAssumption
<1>4. Index(o) = i
  BY <1>3, IndexOfOffset DEF Index
<1>5. Extent(o) = i .. (i + n - 1)
  BY <1>4 DEF Extent
<1> HIDE DEF n
<1>6. Extent(o) \subseteq Blocks
  BY <1>2, <1>3, <1>5 DEF Blocks
<1>7. i * BLOCK_SIZE \in Offsets
  <2>1. i <= MAX_BLOCKS - 1
    BY <1>2, <1>3
  <2>2. i * BLOCK_SIZE <= (MAX_BLOCKS - 1) * BLOCK_SIZE
    BY <1>3, <2>1
  <2>3. (MAX_BLOCKS - 1) * BLOCK_SIZE <= MAX_BLOCKS * BLOCK_SIZE - 1
    BY <1>3
  <2>4. i * BLOCK_SIZE \in Nat /\ MAX_BLOCKS * BLOCK_SIZE \in Nat
    BY <1>3
  <2>5. QED
    BY <1>3, <2>2, <2>3, <2>4 DEF Offsets
<1>8. o \in Span
  BY <1>1, <1>7 DEF Span
<1>9. QED
  BY <1>3, <1>4, <1>5, <1>6, <1>8 DEF WellPlaced, n

(* The bytes a well placed span shows are bytes of the blocks it holds. *)
LEMMA SpanBytes ==
    ASSUME NEW o \in Span, WellPlaced(o), NEW b \in 1 .. o.size
    PROVE  /\ o.offset + b - 1 \in Offsets
           /\ o.offset + b - 1 >= Index(o) * BLOCK_SIZE
           /\ o.offset + b - 1 < (Index(o) + BlocksNeeded(o.size)) * BLOCK_SIZE
<1> DEFINE n == BlocksNeeded(o.size)
           i == Index(o)
<1>1. o.size \in Nat \ {0} /\ o.offset \in Nat
  BY SizesAssumption DEF Span, Offsets
<1>2. n \in Nat /\ n >= 1 /\ o.size <= n * BLOCK_SIZE
  BY <1>1, BlocksNeededBounds
<1>3. i \in Nat /\ o.offset = i * BLOCK_SIZE /\ i .. (i + n - 1) \subseteq Blocks
  BY DEF WellPlaced, Extent
<1>4. MAX_BLOCKS \in Nat /\ BLOCK_SIZE \in Nat \ {0}
  BY SizesAssumption
<1> HIDE DEF n, i
<1>5. i + n <= MAX_BLOCKS
  <2>1. i + n - 1 \in i .. (i + n - 1)
    BY <1>2, <1>3
  <2>2. i + n - 1 \in Blocks
    BY <1>3, <2>1
  <2>3. QED
    BY <1>2, <1>3, <1>4, <2>2 DEF Blocks
<1>6. (i + n) * BLOCK_SIZE = i * BLOCK_SIZE + n * BLOCK_SIZE
  BY <1>2, <1>3, <1>4
<1>7. (i + n) * BLOCK_SIZE <= MAX_BLOCKS * BLOCK_SIZE
  BY <1>2, <1>3, <1>4, <1>5
<1>8. n * BLOCK_SIZE \in Nat /\ i * BLOCK_SIZE \in Nat /\ MAX_BLOCKS * BLOCK_SIZE \in Nat
  BY <1>2, <1>3, <1>4
<1>9. /\ o.offset + b - 1 >= i * BLOCK_SIZE
      /\ o.offset + b - 1 < (i + n) * BLOCK_SIZE
  BY <1>1, <1>2, <1>3, <1>6, <1>8
<1>10. o.offset + b - 1 \in Offsets
  <2>1. (i + n) * BLOCK_SIZE \in Nat /\ b \in Nat
    BY <1>1, <1>2, <1>3, <1>4
  <2>2. o.offset + b - 1 \in Nat /\ o.offset + b - 1 <= MAX_BLOCKS * BLOCK_SIZE - 1
    BY <1>1, <1>7, <1>8, <1>9, <2>1
  <2>3. QED
    BY <1>8, <2>2 DEF Offsets
<1>11. QED
  BY <1>9, <1>10 DEF n, i

(* Two well placed spans that share no block share no byte. *)
LEMMA NoSharedByte ==
    ASSUME NEW o \in Span, WellPlaced(o), NEW p \in Span, WellPlaced(p),
           Extent(o) \cap Extent(p) = {},
           NEW b \in 1 .. o.size, NEW c \in 1 .. p.size
    PROVE  o.offset + b - 1 # p.offset + c - 1
<1> DEFINE n == BlocksNeeded(o.size)
           m == BlocksNeeded(p.size)
           i == Index(o)
           j == Index(p)
<1>1. /\ n \in Nat /\ n >= 1 /\ m \in Nat /\ m >= 1
      /\ i \in Nat /\ j \in Nat /\ BLOCK_SIZE \in Nat \ {0}
      /\ o.offset \in Nat /\ p.offset \in Nat
  BY BlocksNeededBounds, SizesAssumption DEF WellPlaced, Span, Offsets
<1>2. (i .. (i + n - 1)) \cap (j .. (j + m - 1)) = {}
  BY DEF Extent
<1>3. /\ o.offset + b - 1 >= i * BLOCK_SIZE
      /\ o.offset + b - 1 < (i + n) * BLOCK_SIZE
      /\ p.offset + c - 1 >= j * BLOCK_SIZE
      /\ p.offset + c - 1 < (j + m) * BLOCK_SIZE
  BY SpanBytes
<1> HIDE DEF n, m, i, j
<1>4. i + n <= j \/ j + m <= i
  <2>1. SUFFICES ASSUME i + n > j, j + m > i
                 PROVE  FALSE
    BY <1>1
  <2>2. CASE i <= j
    <3>1. j \in (i .. (i + n - 1)) \cap (j .. (j + m - 1))
      BY <1>1, <2>1, <2>2
    <3>2. QED
      BY <1>2, <3>1
  <2>3. CASE i > j
    <3>1. i \in (i .. (i + n - 1)) \cap (j .. (j + m - 1))
      BY <1>1, <2>1, <2>3
    <3>2. QED
      BY <1>2, <3>1
  <2>4. QED
    BY <1>1, <2>2, <2>3
<1>5. /\ i * BLOCK_SIZE \in Nat /\ j * BLOCK_SIZE \in Nat
      /\ (i + n) * BLOCK_SIZE \in Nat /\ (j + m) * BLOCK_SIZE \in Nat
  BY <1>1
<1>6. CASE i + n <= j
  <2>1. (i + n) * BLOCK_SIZE <= j * BLOCK_SIZE
    BY <1>1, <1>6
  <2>2. QED
    BY <1>1, <1>3, <1>5, <2>1
<1>7. CASE j + m <= i
  <2>1. (j + m) * BLOCK_SIZE <= i * BLOCK_SIZE
    BY <1>1, <1>7
  <2>2. QED
    BY <1>1, <1>3, <1>5, <2>1
<1>8. QED
  BY <1>4, <1>6, <1>7

(* Writing a frame through one span shows that frame there, and leaves what *)
(* every span of other blocks shows as it was.                              *)
LEMMA WriteThroughSpan ==
    ASSUME TypeOK,
           NEW f \in Frames, NEW o \in Span, WellPlaced(o), o.size = Len(f)
    PROVE  /\ Written(o.offset, f) \in [Offsets -> Byte]
           /\ [b \in 1 .. o.size |-> Written(o.offset, f)[o.offset + b - 1]] = f
           /\ \A p \in Span :
                WellPlaced(p) /\ Extent(o) \cap Extent(p) = {} =>
                    [b \in 1 .. p.size |-> Written(o.offset, f)[p.offset + b - 1]]
                        = Contents(p)
<1>1. f \in Seq(Byte) /\ Len(f) \in Nat /\ o.offset \in Nat /\ Offsets \subseteq Nat
  BY FramesAssumption, SizesAssumption DEF Span, Offsets
<1>2. Written(o.offset, f) \in [Offsets -> Byte]
  <2>1. ASSUME NEW b \in Offsets, b \in o.offset .. (o.offset + Len(f) - 1)
        PROVE  f[b - o.offset + 1] \in Byte
    <3>1. b - o.offset + 1 \in 1 .. Len(f)
      BY <1>1, <2>1
    <3>2. QED
      BY <1>1, <3>1
  <2>2. QED
    BY <2>1 DEF Written, TypeOK
<1>3. ASSUME NEW b \in 1 .. o.size
      PROVE  Written(o.offset, f)[o.offset + b - 1] = f[b]
  <2>1. o.offset + b - 1 \in Offsets
    BY SpanBytes
  <2>2. /\ o.offset + b - 1 \in o.offset .. (o.offset + Len(f) - 1)
        /\ (o.offset + b - 1) - o.offset + 1 = b
    BY <1>1
  <2>3. QED
    BY <2>1, <2>2 DEF Written
<1>4. [b \in 1 .. o.size |-> Written(o.offset, f)[o.offset + b - 1]] = f
  <2>1. f = [b \in 1 .. Len(f) |-> f[b]]
    BY <1>1
  <2>2. [b \in 1 .. o.size |-> Written(o.offset, f)[o.offset + b - 1]]
            = [b \in 1 .. o.size |-> f[b]]
    BY <1>3
  <2>3. QED
    BY <2>1, <2>2
<1>5. ASSUME NEW p \in Span, WellPlaced(p), Extent(o) \cap Extent(p) = {},
             NEW c \in 1 .. p.size
      PROVE  Written(o.offset, f)[p.offset + c - 1] = memoryPool[p.offset + c - 1]
  <2>1. p.offset + c - 1 \in Offsets
    BY <1>5, SpanBytes
  <2>2. p.offset + c - 1 \notin o.offset .. (o.offset + Len(f) - 1)
    <3>1. SUFFICES ASSUME p.offset + c - 1 \in o.offset .. (o.offset + Len(f) - 1)
                   PROVE  FALSE
      OBVIOUS
    <3> DEFINE b == p.offset + c - 1 - o.offset + 1
    <3>2. p.offset \in Nat
      BY SizesAssumption DEF Span, Offsets
    <3>3. b \in 1 .. o.size /\ o.offset + b - 1 = p.offset + c - 1
      BY <1>1, <3>1, <3>2, SMTT(30)
    <3>4. QED
      BY <1>5, <3>3, NoSharedByte
  <2>3. QED
    BY <2>1, <2>2 DEF Written
<1>6. QED
  BY <1>2, <1>4, <1>5 DEF Contents

-----------------------------------------------------------------------------

(* add() keeps the inductive invariant. *)
LEMMA AddKeepsIInv ==
    ASSUME IInv, NEW f \in Frames, Add(f)
    PROVE  IInv'
<1> USE DEF IInv
<1> DEFINE n == BlocksNeeded(Len(f))
<1>1. PICK i \in FreeRuns(n) :
        /\ allocationMap' = allocationMap \cup (i .. (i + n - 1))
        /\ memoryPool' = Written(i * BLOCK_SIZE, f)
        /\ allocatedBlocks' = Append(allocatedBlocks,
                [offset |-> i * BLOCK_SIZE, size |-> Len(f)])
  BY Zenon DEF Add
<1> DEFINE o == [offset |-> i * BLOCK_SIZE, size |-> Len(f)]
           L == Len(allocatedBlocks)
<1>2. /\ i \in 0 .. (MAX_BLOCKS - n)
      /\ \A j \in 0 .. (n - 1) : (i + j) \notin allocationMap
  BY <1>1 DEF FreeRuns
<1>3. /\ o \in Span /\ WellPlaced(o) /\ Extent(o) = i .. (i + n - 1)
      /\ o.offset = i * BLOCK_SIZE /\ o.size = Len(f)
  BY <1>2, NewSpan
<1>4. n \in Nat /\ n >= 1
  BY FramesAssumption, BlocksNeededBounds
<1> HIDE DEF o, n
<1>5. Extent(o) \cap allocationMap = {}
  <2>1. ASSUME NEW b \in Extent(o)
        PROVE  b \notin allocationMap
    <3>1. b - i \in 0 .. (n - 1) /\ i + (b - i) = b
      BY <1>2, <1>3, <1>4, <2>1, SizesAssumption
    <3>2. QED
      BY <1>2, <3>1
  <2>2. QED
    BY <2>1
<1>6. allocatedBlocks \in Seq(Span) /\ L \in Nat /\ DOMAIN allocatedBlocks = 1 .. L
  BY DEF TypeOK
<1>7. /\ allocatedBlocks' \in Seq(Span)
      /\ DOMAIN allocatedBlocks' = 1 .. (L + 1)
      /\ allocatedBlocks'[L + 1] = o
      /\ \A k \in 1 .. L : allocatedBlocks'[k] = allocatedBlocks[k]
  <2>1. allocatedBlocks' = Append(allocatedBlocks, o)
    BY <1>1 DEF o
  <2>2. QED
    BY <1>3, <1>6, <2>1
<1>8. \A k \in 1 .. L : Extent(allocatedBlocks[k]) \subseteq allocationMap
  BY <1>6 DEF MapExact
<1>9. TypeOK'
  <2>1. memoryPool' \in [Offsets -> Byte]
    BY <1>1, <1>3, WriteThroughSpan
  <2>2. allocationMap' \subseteq Blocks
    BY <1>1, <1>3 DEF TypeOK, WellPlaced
  <2>3. QED
    BY <1>7, <2>1, <2>2 DEF TypeOK
<1>10. AllWellPlaced'
  <2>1. ASSUME NEW k \in 1 .. (L + 1)
        PROVE  WellPlaced(allocatedBlocks'[k])
    <3>1. CASE k = L + 1
      BY <1>3, <1>7, <3>1
    <3>2. CASE k \in 1 .. L
      BY <1>6, <1>7, <3>2 DEF AllWellPlaced
    <3>3. QED
      BY <1>6, <3>1, <3>2
  <2>2. QED
    BY <1>7, <2>1 DEF AllWellPlaced, WellPlaced, Index, Extent
<1>11. ExtentsDisjoint'
  <2>1. ASSUME NEW j \in 1 .. (L + 1), NEW k \in 1 .. (L + 1), j # k
        PROVE  Extent(allocatedBlocks'[j]) \cap Extent(allocatedBlocks'[k]) = {}
    <3>1. CASE j = L + 1
      <4>1. k \in 1 .. L
        BY <1>6, <2>1, <3>1
      <4>2. QED
        BY <1>5, <1>7, <1>8, <3>1, <4>1
    <3>2. CASE k = L + 1
      <4>1. j \in 1 .. L
        BY <1>6, <2>1, <3>2
      <4>2. QED
        BY <1>5, <1>7, <1>8, <3>2, <4>1
    <3>3. CASE j \in 1 .. L /\ k \in 1 .. L
      BY <1>6, <1>7, <2>1, <3>3 DEF ExtentsDisjoint
    <3>4. QED
      BY <1>6, <3>1, <3>2, <3>3
  <2>2. QED
    BY <1>7, <2>1 DEF ExtentsDisjoint, Index, Extent
<1>12. MapExact'
  <2>1. allocationMap' = allocationMap \cup Extent(o)
    BY <1>1, <1>3
  <2>2. UNION {Extent(allocatedBlocks'[k]) : k \in 1 .. (L + 1)}
          = (UNION {Extent(allocatedBlocks[k]) : k \in 1 .. L}) \cup Extent(o)
    <3>1. 1 .. (L + 1) = 1 .. L \cup {L + 1}
      BY <1>6
    <3>2. QED
      BY <1>7, <3>1
  <2>3. QED
    BY <1>6, <1>7, <2>1, <2>2 DEF MapExact, Index, Extent
<1>13. QED
  BY <1>9, <1>10, <1>11, <1>12

(* remove() keeps the inductive invariant. *)
LEMMA RemoveKeepsIInv ==
    ASSUME IInv, NEW k \in DOMAIN allocatedBlocks, RemoveObject(k)
    PROVE  IInv'
<1> USE DEF IInv
<1> DEFINE L == Len(allocatedBlocks)
<1>1. allocatedBlocks \in Seq(Span) /\ L \in Nat /\ DOMAIN allocatedBlocks = 1 .. L
  BY DEF TypeOK
<1>2. k \in 1 .. L
  BY <1>1
<1>3. /\ memoryPool' = memoryPool
      /\ allocationMap' = allocationMap \ Extent(allocatedBlocks[k])
      /\ allocatedBlocks' = RemoveAt(allocatedBlocks, k)
  BY DEF RemoveObject
<1>4. /\ allocatedBlocks' \in Seq(Span)
      /\ Len(allocatedBlocks') = L - 1
      /\ DOMAIN allocatedBlocks' = 1 .. (L - 1)
      /\ \A i \in 1 .. (L - 1) : allocatedBlocks'[i] = allocatedBlocks[Before(i, k)]
  <2>1. /\ RemoveAt(allocatedBlocks, k) \in Seq(Span)
        /\ Len(RemoveAt(allocatedBlocks, k)) = L - 1
        /\ \A i \in 1 .. (L - 1) :
            RemoveAt(allocatedBlocks, k)[i] = allocatedBlocks[Before(i, k)]
    BY <1>1, <1>2, RemoveAtProperties
  <2>2. QED
    BY <1>3, <2>1
<1>5. /\ \A i \in 1 .. (L - 1) : Before(i, k) \in (1 .. L) \ {k}
      /\ \A i, j \in 1 .. (L - 1) : i # j => Before(i, k) # Before(j, k)
      /\ \A p \in (1 .. L) \ {k} : \E i \in 1 .. (L - 1) : p = Before(i, k)
  BY <1>1, <1>2, BeforeProperties
<1>6. TypeOK'
  BY <1>3, <1>4 DEF TypeOK
<1>7. AllWellPlaced'
  <2>1. ASSUME NEW i \in 1 .. (L - 1)
        PROVE  WellPlaced(allocatedBlocks'[i])
    BY <1>1, <1>4, <1>5 DEF AllWellPlaced
  <2>2. QED
    BY <1>4, <2>1 DEF AllWellPlaced, WellPlaced, Index, Extent
<1>8. ExtentsDisjoint'
  <2>1. ASSUME NEW i \in 1 .. (L - 1), NEW j \in 1 .. (L - 1), i # j
        PROVE  Extent(allocatedBlocks'[i]) \cap Extent(allocatedBlocks'[j]) = {}
    <3>1. /\ allocatedBlocks'[i] = allocatedBlocks[Before(i, k)]
          /\ allocatedBlocks'[j] = allocatedBlocks[Before(j, k)]
      BY <1>4
    <3>2. /\ Before(i, k) \in 1 .. L /\ Before(j, k) \in 1 .. L
          /\ Before(i, k) # Before(j, k)
      BY <1>5, <2>1
    <3>3. QED
      BY <1>1, <3>1, <3>2 DEF ExtentsDisjoint
  <2>2. QED
    BY <1>4, <2>1 DEF ExtentsDisjoint, Index, Extent
<1>9. MapExact'
  <2>1. allocationMap \ Extent(allocatedBlocks[k])
          = UNION {Extent(allocatedBlocks[p]) : p \in (1 .. L) \ {k}}
    <3>1. \A p \in (1 .. L) \ {k} :
            Extent(allocatedBlocks[p]) \cap Extent(allocatedBlocks[k]) = {}
      BY <1>1, <1>2 DEF ExtentsDisjoint
    <3>2. allocationMap = UNION {Extent(allocatedBlocks[p]) : p \in 1 .. L}
      BY <1>1 DEF MapExact
    <3>3. QED
      BY <1>2, <3>1, <3>2
  <2>2. {Extent(allocatedBlocks[p]) : p \in (1 .. L) \ {k}}
          = {Extent(allocatedBlocks'[i]) : i \in 1 .. (L - 1)}
    BY <1>4, <1>5
  <2>3. QED
    BY <1>3, <1>4, <2>1, <2>2 DEF MapExact, Index, Extent
<1>10. QED
  BY <1>6, <1>7, <1>8, <1>9

(* The inductive invariant holds initially and every step keeps it. *)
LEMMA Initially == Init => IInv
  BY DEF Init, IInv, TypeOK, AllWellPlaced, ExtentsDisjoint, MapExact

(* Every step preserves the inductive invariant. *)
LEMMA Inductive ==
    ASSUME IInv, [Next]_vars
    PROVE  IInv'
<1>1. CASE \E f \in Frames : Add(f)
  BY <1>1, AddKeepsIInv
<1>2. CASE \E k \in DOMAIN allocatedBlocks : RemoveObject(k)
  BY <1>2, RemoveKeepsIInv
<1>3. CASE \E k \in DOMAIN allocatedBlocks, f \in Frames : Update(k, f)
  <2>1. PICK k \in DOMAIN allocatedBlocks, f \in Frames : Update(k, f)
    BY <1>3
  <2>2. /\ allocatedBlocks[k] \in Span
        /\ WellPlaced(allocatedBlocks[k])
        /\ allocatedBlocks[k].size = Len(f)
    BY <2>1 DEF IInv, TypeOK, AllWellPlaced, Update
  <2>3. memoryPool' \in [Offsets -> Byte]
    BY <2>1, <2>2, WriteThroughSpan DEF IInv, Update
  <2>4. UNCHANGED <<allocationMap, allocatedBlocks>>
    BY <2>1 DEF Update
  <2>5. QED
    BY <2>3, <2>4 DEF IInv, TypeOK, AllWellPlaced, WellPlaced, ExtentsDisjoint,
        MapExact, Index, Extent
<1>4. CASE Clear
  BY <1>4 DEF Clear, IInv, TypeOK, AllWellPlaced, ExtentsDisjoint, MapExact
<1>5. CASE UNCHANGED vars
  BY <1>5 DEF vars, IInv, TypeOK, AllWellPlaced, WellPlaced, ExtentsDisjoint,
      MapExact, Index, Extent
<1>6. CASE \E f \in Frames : AddRefused(f)
  BY <1>5, <1>6 DEF AddRefused
<1>7. QED
  BY <1>1, <1>2, <1>3, <1>4, <1>5, <1>6 DEF Next

(* Whatever sequence of calls the pool has served, the invariant holds.     *)
LEMMA Invariance == Spec => []IInv
<1>1. QED
  BY Initially, Inductive, PTL DEF Spec

(* Every variable keeps its type: the bits set are bits of the map, and all *)
(* spans lie in the pool.                                                   *)
THEOREM TypeCorrect == Spec => []TypeOK
<1>1. IInv => TypeOK
  BY DEF IInv
<1>2. QED
  BY <1>1, Invariance, PTL

(* No two stored frames ever share a block. *)
THEOREM FramesNeverOverlap == Spec => []ExtentsDisjoint
<1>1. IInv => ExtentsDisjoint
  BY DEF IInv
<1>2. QED
  BY <1>1, Invariance, PTL

(* The bitset is at all times exactly the blocks of the stored frames. *)
THEOREM MapIsExact == Spec => []MapExact
<1>1. IInv => MapExact
  BY DEF IInv
<1>2. QED
  BY <1>1, Invariance, PTL

-----------------------------------------------------------------------------

(* There are never more objects than blocks, so that the push_back of add() *)
(* finds room in the vector: each object is counted by its first block.     *)
LEMMA ObjectsFitBlocks == IInv => WithinCapacity
<1> SUFFICES ASSUME IInv
             PROVE  WithinCapacity
  OBVIOUS
<1> DEFINE L == Len(allocatedBlocks)
           first == [k \in 1 .. L |-> Index(allocatedBlocks[k])]
<1>1. allocatedBlocks \in Seq(Span) /\ L \in Nat /\ DOMAIN allocatedBlocks = 1 .. L
  BY DEF IInv, TypeOK
<1>2. \A k \in 1 .. L : Index(allocatedBlocks[k]) \in Extent(allocatedBlocks[k])
  <2>1. SUFFICES ASSUME NEW k \in 1 .. L
                 PROVE  Index(allocatedBlocks[k]) \in Extent(allocatedBlocks[k])
    OBVIOUS
  <2>2. allocatedBlocks[k].size \in Nat \ {0} /\ Index(allocatedBlocks[k]) \in Nat
    <3>1. allocatedBlocks[k] \in Span
      BY <1>1
    <3>2. WellPlaced(allocatedBlocks[k])
      BY <1>1 DEF IInv, AllWellPlaced
    <3>3. QED
      BY <3>1, <3>2 DEF WellPlaced, Span
  <2>3. /\ BlocksNeeded(allocatedBlocks[k].size) \in Nat
        /\ BlocksNeeded(allocatedBlocks[k].size) >= 1
    BY <2>2, BlocksNeededBounds
  <2>4. QED
    BY <2>2, <2>3 DEF Extent
<1>3. first \in [1 .. L -> Blocks]
  BY <1>1, <1>2 DEF IInv, AllWellPlaced, WellPlaced
<1>4. \A j, k \in 1 .. L : first[j] = first[k] => j = k
  BY <1>1, <1>2 DEF IInv, ExtentsDisjoint
<1>5. first \in Injection(1 .. L, Blocks)
  BY <1>3, <1>4 DEF Injection, IsInjective
<1>6. IsFiniteSet(Blocks) /\ Cardinality(Blocks) = MAX_BLOCKS
  BY FS_Interval, SizesAssumption DEF Blocks
<1>7. Cardinality(1 .. L) <= MAX_BLOCKS
  BY <1>5, <1>6, FS_Injection
<1>8. Cardinality(1 .. L) = L
  BY <1>1, FS_Interval, SMTT(30)
<1>9. QED
  BY <1>7, <1>8 DEF WithinCapacity

(* The vector of objects is never overrun. *)
THEOREM NeverOverrun == Spec => []WithinCapacity
  BY ObjectsFitBlocks, Invariance, PTL

-----------------------------------------------------------------------------

\* The frames shown by the spans: the pool of the abstract specification.
View == [k \in DOMAIN allocatedBlocks |-> Contents(allocatedBlocks[k])]

(* Each span shows a sequence of bytes as long as the span. *)
LEMMA ViewType ==
    IInv => /\ View \in Seq(Seq(Byte))
            /\ Len(View) = Len(allocatedBlocks)
            /\ \A k \in DOMAIN allocatedBlocks :
                Len(View[k]) = allocatedBlocks[k].size
<1> SUFFICES ASSUME IInv
             PROVE  /\ View \in Seq(Seq(Byte))
                    /\ Len(View) = Len(allocatedBlocks)
                    /\ \A k \in DOMAIN allocatedBlocks :
                        Len(View[k]) = allocatedBlocks[k].size
  OBVIOUS
<1>1. /\ allocatedBlocks \in Seq(Span)
      /\ Len(allocatedBlocks) \in Nat
      /\ DOMAIN allocatedBlocks = 1 .. Len(allocatedBlocks)
  BY DEF IInv, TypeOK
<1>2. ASSUME NEW k \in DOMAIN allocatedBlocks
      PROVE  /\ Contents(allocatedBlocks[k]) \in Seq(Byte)
             /\ Len(Contents(allocatedBlocks[k])) = allocatedBlocks[k].size
  <2> DEFINE o == allocatedBlocks[k]
  <2>1. o \in Span /\ WellPlaced(o) /\ o.size \in Nat
    <3>1. o \in Span
      BY <1>1
    <3>2. WellPlaced(o)
      BY DEF IInv, AllWellPlaced
    <3>3. QED
      BY <3>1, <3>2 DEF Span
  <2> HIDE DEF o
  <2>2. \A b \in 1 .. o.size : memoryPool[o.offset + b - 1] \in Byte
    BY <2>1, SpanBytes DEF IInv, TypeOK
  <2>3. Contents(o) \in [1 .. o.size -> Byte]
    BY <2>2 DEF Contents
  <2>4. Contents(o) \in Seq(Byte) /\ Len(Contents(o)) = o.size
    BY <2>1, <2>3, SeqDef
  <2>5. QED
    BY <2>4 DEF o
<1>3. View \in [1 .. Len(allocatedBlocks) -> Seq(Byte)]
  BY <1>1, <1>2 DEF View
<1>4. QED
  BY <1>1, <1>2, <1>3 DEF View

(* The abstract view keeps its type. *)
LEMMA ViewTypeNext ==
    IInv' => (View \in Seq(Seq(Byte)) /\ Len(View) = Len(allocatedBlocks))'
<1>1. IInv => View \in Seq(Seq(Byte)) /\ Len(View) = Len(allocatedBlocks)
  BY ViewType
<1>2. QED
  BY <1>1, PTL

(* add() appends the frame to what the spans show. *)
LEMMA AddStores ==
    ASSUME IInv, IInv', NEW f \in Frames, Add(f)
    PROVE  View' = Append(View, f)
<1> DEFINE L == Len(allocatedBlocks)
           n == BlocksNeeded(Len(f))
<1>1. PICK i \in FreeRuns(n) :
        /\ allocationMap' = allocationMap \cup (i .. (i + n - 1))
        /\ memoryPool' = Written(i * BLOCK_SIZE, f)
        /\ allocatedBlocks' = Append(allocatedBlocks,
                [offset |-> i * BLOCK_SIZE, size |-> Len(f)])
  BY Zenon DEF Add
<1> DEFINE o == [offset |-> i * BLOCK_SIZE, size |-> Len(f)]
<1>2. o \in Span /\ WellPlaced(o) /\ o.offset = i * BLOCK_SIZE /\ o.size = Len(f)
  BY <1>1, NewSpan DEF FreeRuns
<1> HIDE DEF o, n
<1>3. allocatedBlocks \in Seq(Span) /\ L \in Nat /\ DOMAIN allocatedBlocks = 1 .. L
  BY DEF IInv, TypeOK
<1>4. /\ Len(allocatedBlocks') = L + 1
      /\ DOMAIN allocatedBlocks' = 1 .. (L + 1)
      /\ allocatedBlocks'[L + 1] = o
      /\ \A k \in 1 .. L : allocatedBlocks'[k] = allocatedBlocks[k]
  <2>1. allocatedBlocks' = Append(allocatedBlocks, o)
    BY <1>1 DEF o
  <2>2. QED
    BY <1>2, <1>3, <2>1
<1>5. \A k \in 1 .. L : Extent(o) \cap Extent(allocatedBlocks[k]) = {}
  <2>1. SUFFICES ASSUME NEW k \in 1 .. L
                 PROVE  Extent(o) \cap Extent(allocatedBlocks[k]) = {}
    OBVIOUS
  <2>2. /\ k \in DOMAIN allocatedBlocks' /\ L + 1 \in DOMAIN allocatedBlocks'
        /\ k # L + 1
    BY <1>3, <1>4
  <2>3. Extent(allocatedBlocks'[L + 1]) \cap Extent(allocatedBlocks'[k]) = {}
    BY <2>2 DEF IInv, ExtentsDisjoint, Extent, Index
  <2>4. QED
    BY <1>4, <2>3
<1>6. ASSUME NEW k \in 1 .. L
      PROVE  View'[k] = View[k]
  <2>1. View'[k] = [b \in 1 .. allocatedBlocks[k].size |->
                        Written(o.offset, f)[allocatedBlocks[k].offset + b - 1]]
    BY <1>1, <1>2, <1>3, <1>4 DEF View, Contents
  <2>2. allocatedBlocks[k] \in Span /\ WellPlaced(allocatedBlocks[k])
    BY <1>3 DEF IInv, AllWellPlaced
  <2>3. View[k] = Contents(allocatedBlocks[k])
    BY <1>3 DEF View
  <2>4. \A p \in Span :
            WellPlaced(p) /\ Extent(o) \cap Extent(p) = {} =>
                [b \in 1 .. p.size |-> Written(o.offset, f)[p.offset + b - 1]]
                    = Contents(p)
    BY <1>2, WriteThroughSpan DEF IInv
  <2>5. QED
    BY <1>5, <2>1, <2>2, <2>3, <2>4
<1>7. View'[L + 1] = f
  <2>1. View'[L + 1] = [b \in 1 .. o.size |-> Written(o.offset, f)[o.offset + b - 1]]
    <3>1. L + 1 \in DOMAIN allocatedBlocks'
      BY <1>3, <1>4
    <3>2. View' = [k \in DOMAIN allocatedBlocks' |->
                    [b \in 1 .. allocatedBlocks'[k].size |->
                        memoryPool'[allocatedBlocks'[k].offset + b - 1]]]
      BY DEF View, Contents
    <3>3. View'[L + 1] = [b \in 1 .. allocatedBlocks'[L + 1].size |->
                            memoryPool'[allocatedBlocks'[L + 1].offset + b - 1]]
      BY <3>1, <3>2
    <3>4. QED
      BY <1>1, <1>2, <1>4, <3>3
  <2>2. QED
    BY <1>2, <2>1, WriteThroughSpan DEF IInv
<1>8. View \in Seq(Seq(Byte)) /\ Len(View) = L /\ f \in Seq(Byte)
  BY ViewType, FramesAssumption
<1>9. View' \in Seq(Seq(Byte)) /\ Len(View') = L + 1
  BY <1>4, ViewTypeNext
<1>10. QED
  <2>1. /\ Append(View, f) \in Seq(Seq(Byte)) /\ Len(Append(View, f)) = L + 1
        /\ Append(View, f)[L + 1] = f
        /\ \A k \in 1 .. L : Append(View, f)[k] = View[k]
    BY <1>3, <1>8
  <2>2. \A k \in 1 .. Len(View') : View'[k] = Append(View, f)[k]
    BY <1>3, <1>6, <1>7, <1>9, <2>1
  <2>3. QED
    BY <1>9, <2>1, <2>2, SeqEqual

(* remove() takes one frame from what the spans show. *)
LEMMA RemoveDiscards ==
    ASSUME IInv, IInv', NEW k \in DOMAIN allocatedBlocks, RemoveObject(k)
    PROVE  k \in DOMAIN View /\ View' = RemoveAt(View, k)
<1> DEFINE L == Len(allocatedBlocks)
<1>1. allocatedBlocks \in Seq(Span) /\ L \in Nat /\ DOMAIN allocatedBlocks = 1 .. L
  BY DEF IInv, TypeOK
<1>2. /\ memoryPool' = memoryPool
      /\ allocatedBlocks' = RemoveAt(allocatedBlocks, k)
  BY DEF RemoveObject
<1>3. /\ Len(allocatedBlocks') = L - 1
      /\ DOMAIN allocatedBlocks' = 1 .. (L - 1)
      /\ \A i \in 1 .. (L - 1) : allocatedBlocks'[i] = allocatedBlocks[Before(i, k)]
  <2>1. /\ RemoveAt(allocatedBlocks, k) \in Seq(Span)
        /\ Len(RemoveAt(allocatedBlocks, k)) = L - 1
        /\ \A i \in 1 .. (L - 1) :
            RemoveAt(allocatedBlocks, k)[i] = allocatedBlocks[Before(i, k)]
    BY <1>1, RemoveAtProperties
  <2>2. QED
    BY <1>2, <2>1
<1>4. View \in Seq(Seq(Byte)) /\ Len(View) = L /\ DOMAIN View = 1 .. L
  BY <1>1, ViewType DEF View
<1>5. View' \in Seq(Seq(Byte)) /\ Len(View') = L - 1
  BY <1>3, ViewTypeNext
<1>6. /\ RemoveAt(View, k) \in Seq(Seq(Byte))
      /\ Len(RemoveAt(View, k)) = L - 1
      /\ \A i \in 1 .. (L - 1) : RemoveAt(View, k)[i] = View[Before(i, k)]
  BY <1>1, <1>4, RemoveAtProperties
<1>7. ASSUME NEW i \in 1 .. (L - 1)
      PROVE  View'[i] = View[Before(i, k)]
  <2>1. Before(i, k) \in 1 .. L
    BY <1>1, BeforeProperties
  <2>2. View' = [j \in DOMAIN allocatedBlocks' |->
                    [b \in 1 .. allocatedBlocks'[j].size |->
                        memoryPool'[allocatedBlocks'[j].offset + b - 1]]]
    BY DEF View, Contents
  <2>3. View'[i] = [b \in 1 .. allocatedBlocks'[i].size |->
                        memoryPool'[allocatedBlocks'[i].offset + b - 1]]
    BY <1>3, <2>2
  <2>4. View[Before(i, k)] = Contents(allocatedBlocks[Before(i, k)])
    BY <1>1, <2>1 DEF View
  <2>5. QED
    BY <1>2, <1>3, <2>3, <2>4 DEF Contents
<1>8. QED
  BY <1>1, <1>4, <1>5, <1>6, <1>7, SeqEqual

(* A setter edits one frame of what the spans show. *)
LEMMA UpdateEdits ==
    ASSUME IInv, IInv',
           NEW k \in DOMAIN allocatedBlocks, NEW f \in Frames, Update(k, f)
    PROVE  /\ k \in DOMAIN View
           /\ Len(f) = Len(View[k])
           /\ View' = [View EXCEPT ![k] = f]
<1> DEFINE L == Len(allocatedBlocks)
           o == allocatedBlocks[k]
<1>1. allocatedBlocks \in Seq(Span) /\ L \in Nat /\ DOMAIN allocatedBlocks = 1 .. L
  BY DEF IInv, TypeOK
<1>2. /\ Len(f) = o.size
      /\ memoryPool' = Written(o.offset, f)
      /\ allocatedBlocks' = allocatedBlocks
  BY DEF Update
<1>3. \A j \in 1 .. L : allocatedBlocks[j] \in Span /\ WellPlaced(allocatedBlocks[j])
  BY <1>1 DEF IInv, AllWellPlaced
<1>4. o \in Span /\ WellPlaced(o)
  BY <1>1, <1>3
<1>5. \A j \in 1 .. L : j # k => Extent(o) \cap Extent(allocatedBlocks[j]) = {}
  BY <1>1 DEF IInv, ExtentsDisjoint
<1> HIDE DEF o
<1>6. View' = [j \in 1 .. L |->
                [b \in 1 .. allocatedBlocks[j].size |->
                    Written(o.offset, f)[allocatedBlocks[j].offset + b - 1]]]
  BY <1>1, <1>2 DEF View, Contents
<1>7. /\ [b \in 1 .. o.size |-> Written(o.offset, f)[o.offset + b - 1]] = f
      /\ \A p \in Span :
            WellPlaced(p) /\ Extent(o) \cap Extent(p) = {} =>
                [b \in 1 .. p.size |-> Written(o.offset, f)[p.offset + b - 1]]
                    = Contents(p)
  BY <1>2, <1>4, WriteThroughSpan DEF IInv
<1>8. View'[k] = f
  BY <1>1, <1>6, <1>7 DEF o
<1>9. \A j \in 1 .. L : j # k => View'[j] = View[j]
  BY <1>1, <1>3, <1>5, <1>6, <1>7 DEF View
<1>10. DOMAIN View = 1 .. L /\ DOMAIN View' = 1 .. L
  BY <1>1, <1>6 DEF View
<1>11. View' = [View EXCEPT ![k] = f]
  BY <1>1, <1>6, <1>8, <1>9, <1>10 DEF View
<1>12. Len(f) = Len(View[k])
  BY <1>2, ViewType DEF o
<1>13. QED
  BY <1>1, <1>10, <1>11, <1>12

(* The allocator implements the pool of frames: whatever add, remove,       *)
(* setters and clear are called, the frames read through the spans are the  *)
(* ones that were put there, in the order they were put.                    *)
THEOREM Implements == Spec => StoredSpec
<1>1. Init => Stored!Init
  <2>1. SUFFICES ASSUME Init
                 PROVE  View = << >>
    BY DEF Stored!Init, View
  <2>2. allocatedBlocks = << >>
    BY <2>1 DEF Init
  <2>3. DOMAIN allocatedBlocks = {}
    BY <2>2
  <2>4. QED
    BY <2>3 DEF View
<1>2. IInv /\ IInv' /\ [Next]_vars => [Stored!Next]_View
  <2> SUFFICES ASSUME IInv, IInv', [Next]_vars
               PROVE  [Stored!Next]_View
    OBVIOUS
  <2> USE DEF Stored!Next, Stored!Store, Stored!Discard, Stored!Edit, Stored!Empty
  <2>1. ASSUME NEW f \in Frames, Add(f)
        PROVE  Stored!Next
    <3>1. View' = Append(View, f)
      BY <2>1, AddStores
    <3>2. QED
      BY <3>1 DEF View
  <2>2. ASSUME NEW k \in DOMAIN allocatedBlocks, RemoveObject(k)
        PROVE  Stored!Next
    <3>1. k \in DOMAIN View /\ View' = RemoveAt(View, k)
      BY <2>2, RemoveDiscards
    <3>2. View' = Stored!RemoveAt(View, k)
      BY <3>1 DEF RemoveAt, Stored!RemoveAt
    <3>3. QED
      BY <3>1, <3>2 DEF View
  <2>3. ASSUME NEW k \in DOMAIN allocatedBlocks, NEW f \in Frames, Update(k, f)
        PROVE  Stored!Next
    <3>1. /\ k \in DOMAIN View /\ Len(f) = Len(View[k])
          /\ View' = [View EXCEPT ![k] = f]
      BY <2>3, UpdateEdits
    <3>2. QED
      BY <3>1 DEF View
  <2>4. ASSUME Clear
        PROVE  Stored!Next
    <3>1. DOMAIN allocatedBlocks' = {}
      BY <2>4 DEF Clear
    <3>2. View' = << >>
      BY <3>1 DEF View
    <3>3. QED
      BY <3>2 DEF View
  <2>5. CASE UNCHANGED vars
    BY <2>5 DEF vars, View, Contents
  <2>6. ASSUME NEW f \in Frames, AddRefused(f)
        PROVE  View' = View
    BY <2>6 DEF AddRefused, vars, View, Contents
  <2>7. QED
    BY <2>1, <2>2, <2>3, <2>4, <2>5, <2>6 DEF Next
<1>3. QED
  BY <1>1, <1>2, Invariance, PTL DEF Spec, StoredSpec, Stored!Spec, View

=============================================================================
