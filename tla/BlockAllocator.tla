---------------------------- MODULE BlockAllocator ----------------------------
(****************************************************************************)
(* The transmit pool's memory (include/fanet/blockAllocator.hpp): frames of *)
(* different sizes live in one fixed array of MAX_BLOCKS blocks of          *)
(* BLOCK_SIZE bytes. A bitset tells which blocks are taken, and a vector    *)
(* holds one object per stored frame, whose span points into the array.     *)
(*                                                                          *)
(* Blocks and bytes are numbered from 0, as in the code.                    *)
(****************************************************************************)
EXTENDS Integers, Sequences, SequencesExt

CONSTANTS
    MAX_BLOCKS,     \* Number of blocks of the pool
    BLOCK_SIZE,     \* Bytes in a block
    Byte,           \* The values of a byte
    Frames          \* The frames callers add, each a sequence of bytes

\* A mutant: the size is rounded down.
WholeBlocks(size) == size \div BLOCK_SIZE

BlocksNeeded(size) == (size + BLOCK_SIZE - 1) \div BLOCK_SIZE

ASSUME SizesAssumption ==
    /\ MAX_BLOCKS \in Nat \ {0}
    /\ BLOCK_SIZE \in Nat \ {0}

\* A FANET frame is never longer than the pool: with a longer one the loop
\* bound MAX_BLOCKS - blocksNeeded of add() would wrap around. A frame is
\* never empty: see the README for what an empty one does.
ASSUME FramesAssumption ==
    /\ Frames \subseteq Seq(Byte)
    /\ \A f \in Frames : Len(f) > 0 /\ BlocksNeeded(Len(f)) <= MAX_BLOCKS

VARIABLES
    memoryPool,         \* Byte offset -> byte
    allocationMap,      \* The set of blocks whose bit is set
    allocatedBlocks     \* One record per stored frame: where its span is

vars == <<memoryPool, allocationMap, allocatedBlocks>>

Blocks == 0 .. (MAX_BLOCKS - 1)
Offsets == 0 .. (MAX_BLOCKS * BLOCK_SIZE - 1)
Span == [offset : Offsets, size : Nat \ {0}]

\* The block an object starts in, and all the blocks it holds.
Index(o) == o.offset \div BLOCK_SIZE
Extent(o) == Index(o) .. (Index(o) + BlocksNeeded(o.size) - 1)

\* The bytes an object's span shows.
Contents(o) == [b \in 1 .. o.size |-> memoryPool[o.offset + b - 1]]

\* The array after f was copied to it from byte start on.
Written(start, f) ==
    [b \in Offsets |-> IF b \in start .. (start + Len(f) - 1)
                       THEN f[b - start + 1]
                       ELSE memoryPool[b]]

Init ==
    /\ memoryPool \in [Offsets -> Byte]
    /\ allocationMap = {}
    /\ allocatedBlocks = << >>

-----------------------------------------------------------------------------

\* Mutants: the last block of the run is not looked at; the loop goes on to the
\* last block, wherever the run ends.
FreeRunsShort(n) ==
    {i \in 0 .. (MAX_BLOCKS - n) :
        \A j \in 0 .. (n - 2) : (i + j) \notin allocationMap}
FreeRunsBeyond(n) ==
    {i \in Blocks : \A j \in 0 .. (n - 1) : (i + j) \notin allocationMap}

\* Where a run of n free blocks starts.
FreeRuns(n) ==
    {i \in 0 .. (MAX_BLOCKS - n) :
        \A j \in 0 .. (n - 1) : (i + j) \notin allocationMap}

(* add() finds a run of free blocks: it takes the first one. *)
Add(f) ==
    LET n == BlocksNeeded(Len(f))
    IN  \E i \in FreeRuns(n) :
            /\ \A h \in FreeRuns(n) : i <= h
            /\ allocationMap' = allocationMap \cup (i .. (i + n - 1))
            /\ memoryPool' = Written(i * BLOCK_SIZE, f)
            /\ allocatedBlocks' = Append(allocatedBlocks,
                   [offset |-> i * BLOCK_SIZE, size |-> Len(f)])

(* add() returns false: there may be enough free blocks, but not in a row. *)
AddRefused(f) ==
    /\ FreeRuns(BlocksNeeded(Len(f))) = {}
    /\ UNCHANGED vars

\* Mutants: only the first block is freed; the last object takes the place of
\* the one removed.
RemoveFirstBlock(k) ==
    /\ allocationMap' = allocationMap \ {Index(allocatedBlocks[k])}
    /\ allocatedBlocks' = RemoveAt(allocatedBlocks, k)
    /\ UNCHANGED memoryPool
RemoveBySwap(k) ==
    /\ allocationMap' = allocationMap \ Extent(allocatedBlocks[k])
    /\ allocatedBlocks' = Front([allocatedBlocks EXCEPT ![k] = Last(allocatedBlocks)])
    /\ UNCHANGED memoryPool

(* remove() of the k-th object. *)
RemoveObject(k) ==
    LET o == allocatedBlocks[k]
    IN  /\ Index(o) < MAX_BLOCKS
        /\ allocationMap' = allocationMap \ Extent(o)
        /\ allocatedBlocks' = RemoveAt(allocatedBlocks, k)
        /\ UNCHANGED memoryPool

(* A setter of the k-th object writes through its span (TxFrame::forward). *)
Update(k, f) ==
    /\ Len(f) = allocatedBlocks[k].size
    /\ memoryPool' = Written(allocatedBlocks[k].offset, f)
    /\ UNCHANGED <<allocationMap, allocatedBlocks>>

(* clear(): the bytes stay where they are, nothing points to them. *)
Clear ==
    /\ allocationMap' = {}
    /\ allocatedBlocks' = << >>
    /\ UNCHANGED memoryPool

Next ==
    \/ \E f \in Frames : Add(f) \/ AddRefused(f)
    \/ \E k \in DOMAIN allocatedBlocks : RemoveObject(k)
    \/ \E k \in DOMAIN allocatedBlocks, f \in Frames : Update(k, f)
    \/ Clear

Spec == Init /\ [][Next]_vars

-----------------------------------------------------------------------------

(* Every variable has its type. *)
TypeOK ==
    /\ memoryPool \in [Offsets -> Byte]
    /\ allocationMap \subseteq Blocks
    /\ allocatedBlocks \in Seq(Span)

(* No two objects share a block: a setter or a copy through one span never  *)
(* reaches the bytes of another frame.                                      *)
ExtentsDisjoint ==
    \A j, k \in DOMAIN allocatedBlocks :
        j # k => Extent(allocatedBlocks[j]) \cap Extent(allocatedBlocks[k]) = {}

(* The bitset is exactly the blocks of the stored objects: add() never      *)
(* hands out a block in use, and remove() never leaks one.                  *)
MapExact ==
    allocationMap = UNION {Extent(allocatedBlocks[k]) : k \in DOMAIN allocatedBlocks}

(* The vector of objects, whose capacity is MAX_BLOCKS, is never overrun by *)
(* the push_back in add(), which does not look at it.                       *)
WithinCapacity == Len(allocatedBlocks) <= MAX_BLOCKS

(* The frames the objects show form the pool FramePool describes: what is   *)
(* read through a span is what was added or last written through it.        *)
Stored == INSTANCE FramePool WITH
    pool <- [k \in DOMAIN allocatedBlocks |-> Contents(allocatedBlocks[k])]

StoredSpec == Stored!Spec

=============================================================================
