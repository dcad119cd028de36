--------------------------- MODULE MCBlockAllocator ---------------------------
(* A pool of four blocks of two bytes, frames of one to five bytes: one to  *)
(* three blocks, the last one full or half full.                            *)
EXTENDS BlockAllocator

CONSTANTS x, y      \* Two values of a byte

MCByte == {x, y}
MCFrames == {<<x>>, <<y>>, <<x, y>>, <<y, x, y>>, <<x, x, y, y, x>>}

=============================================================================
