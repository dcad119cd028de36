------------------------------ MODULE FramePool ------------------------------
(****************************************************************************)
(* What a pool of frames promises to the protocol that uses it: an ordered  *)
(* list of frames, each of which keeps the bytes it was added with until it *)
(* is edited in place or removed, whatever happens to the other frames.     *)
(* A frame that finds no room is refused, which changes nothing (a          *)
(* stuttering step).                                                        *)
(*                                                                          *)
(* BlockAllocator implements this specification over one fixed memory pool. *)
(****************************************************************************)
EXTENDS Naturals, Sequences, SequencesExt

CONSTANTS
    Frames      \* The frames that may be stored, each a sequence of bytes

VARIABLES
    pool        \* The stored frames, oldest first

Init == pool = << >>

-----------------------------------------------------------------------------

(* A frame is appended. *)
Store(f) == pool' = Append(pool, f)

(* The k-th frame leaves, the others keep their order. *)
Discard(k) == pool' = RemoveAt(pool, k)

(* The k-th frame is edited in place, its size cannot change. *)
Edit(k, f) ==
    /\ Len(f) = Len(pool[k])
    /\ pool' = [pool EXCEPT ![k] = f]

(* All frames leave at once. *)
Empty == pool' = << >>

Next ==
    \/ \E f \in Frames : Store(f)
    \/ \E k \in DOMAIN pool : Discard(k)
    \/ \E k \in DOMAIN pool, f \in Frames : Edit(k, f)
    \/ Empty

Spec == Init /\ [][Next]_pool

=============================================================================
