--------------------------- MODULE MCNeighbourTable ---------------------------
(* Three devices and room for two; the clock runs for seven of its eight    *)
(* ticks, from two starts: one where it does not wrap and one where it does.*)
EXTENDS NeighbourTable

MCBootTicks == {1, 4}

=============================================================================
