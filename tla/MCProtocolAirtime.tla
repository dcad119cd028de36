--------------------------- MODULE MCProtocolAirtime ---------------------------
(****************************************************************************)
(* The device A under its airtime limit. Where the window is ten ticks long *)
(* it is the shortest in which a total of at least nine tenths may decay by *)
(* less than one in a tick, as the window of 30000 ms does. Where messages  *)
(* are followed until they leave it is three, which two frames close.       *)
(****************************************************************************)
EXTENDS ProtocolAirtime

CONSTANTS All, A, B, Nothing, Data

MCAddress == {All, A, B}
MCReserved == {All}
MCPayload == {Nothing, Data}

Packet(destination, type, ackType) ==
    [source |-> A, destination |-> destination, type |-> type, ackType |-> ackType,
     forward |-> FALSE, payload |-> Data, tagged |-> FALSE]

\* A message to a neighbour, and our own position.
BothPackets == {Packet(B, "OTHER", "SINGLEHOP"), Packet(All, "TRACKING", "NONE")}
Message == {Packet(B, "OTHER", "NONE")}

\* What B sends, to be sent on.
Broadcast ==
    [source |-> B, destination |-> All, type |-> "OTHER", ackType |-> "NONE",
     forward |-> TRUE, payload |-> Data]
RelayFrames == {Broadcast}
OwnAndRelayFrames == {Broadcast, [Broadcast EXCEPT !.source = A]}
NoFrames == {}
OtherAddress == {B}

NoAddress == {}
Weak == {-95}
ShortDelay == {1}
OneBackoff == [e \in 0 .. 0 |-> {1}]
Backoffs == [e \in 0 .. 1 |-> 1 .. (e + 1)]
AtOnce == {0}
FromZero == {0}
ForwardMaxRssi == -90
Twos == [cr \in {5, 8} |-> 2]
Threes == [cr \in {5, 8} |-> IF cr = 8 THEN 3 ELSE 2]

=============================================================================
