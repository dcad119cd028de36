------------------------------- MODULE FrameTime -------------------------------
(****************************************************************************)
(* How long sendFrame() (include/fanet/protocol.hpp) takes a frame to be on *)
(* the air, for every length and number of neighbours, and how long the     *)
(* engine then waits.                                                       *)
(****************************************************************************)
EXTENDS AirtimeOps

CONSTANTS
    MAC_CODING48_THRESHOLD,
    MAC_TX_MINPREAMBLEHEADERTIME_MS,
    MAC_TX_TIMEPERBYTE_MS,
    MAX_BYTES,              \* The longest frame a LoRa radio sends
    MAX_NEIGHBOURS          \* Bound of the model

\* A frame is given at least the time the code gives it.
RadioAssumption ==
    /\ MAC_CODING48_THRESHOLD \in Nat
    /\ MAC_TX_MINPREAMBLEHEADERTIME_MS \in Nat /\ MAC_TX_MINPREAMBLEHEADERTIME_MS >= 15
    /\ MAC_TX_TIMEPERBYTE_MS \in Nat /\ MAC_TX_TIMEPERBYTE_MS >= 2
    /\ MAX_BYTES \in Nat /\ MAX_BYTES > 0
    /\ MAX_NEIGHBOURS \in Nat

VARIABLES
    lengthBytes,            \* Of the frame
    neighbours              \* Size of the neighbour table

vars == <<lengthBytes, neighbours>>

\* 4/8 when few would hear a broken frame, 4/5 when many share the channel.
CodingRate == IF neighbours < MAC_CODING48_THRESHOLD THEN 8 ELSE 5

AirTime == LoraAirtime(lengthBytes, 7, 250, CodingRate - 4)

Spacing == MAC_TX_MINPREAMBLEHEADERTIME_MS + lengthBytes * MAC_TX_TIMEPERBYTE_MS

-----------------------------------------------------------------------------

Init == lengthBytes = 1 /\ neighbours = 0

\* The next frame is one byte longer; the longest is followed by the shortest.
LongerFrame ==
    /\ lengthBytes' = (lengthBytes % MAX_BYTES) + 1
    /\ UNCHANGED neighbours

\* A neighbour is heard for the first time, or has left.
NeighboursChange ==
    /\ neighbours' \in {neighbours - 1, neighbours + 1} \cap (0 .. MAX_NEIGHBOURS)
    /\ UNCHANGED lengthBytes

Next == LongerFrame \/ NeighboursChange

Spec == Init /\ [][Next]_vars

-----------------------------------------------------------------------------

(* The engine offers no frame while its last one may still be on the air:   *)
(* the wait it computes from the bytes alone covers every frame at either   *)
(* coding rate.                                                             *)
SpacingCoversFrame == AirTime <= Spacing

\* A symbol lasts 128 / 250 ms. A block of 28 bits takes CodingRate symbols.
Fits(blocks) == 28 * blocks >= 8 * lengthBytes + 16
ExactQuarterSymbols ==
    LET blocks == CHOOSE b \in 0 .. lengthBytes :
                      Fits(b) /\ \A c \in 0 .. b - 1 : ~Fits(c)
    IN  49 + 4 * (8 + blocks * CodingRate)

(* The integer version is never more than the exact time of the frame, and  *)
(* less than two milliseconds below it.                                     *)
CloseToExact ==
    /\ AirTime * 1000 <= ExactQuarterSymbols * 128
    /\ ExactQuarterSymbols * 128 < (AirTime + 2) * 1000

=============================================================================
