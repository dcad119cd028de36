------------------------------- MODULE MCNetwork -------------------------------
(* A line A - B - C, in which A and C need B, and a triangle. *)
EXTENDS Network

CONSTANTS All, Hello, Answer, Nothing

MCAddress == {All, A, B, C}
MCPayload == {Nothing, Hello, Answer}
Line == {{A, B}, {B, C}}
Triangle == {{A, B}, {B, C}, {A, C}}
Everybody == {A, B, C}

Packet(source, destination, type, ackType, forward, payload) ==
    [source |-> source, destination |-> destination, type |-> type,
     ackType |-> ackType, forward |-> forward, payload |-> payload, tagged |-> TRUE]

\* Through B and to be acknowledged all the way, and a broadcast of the receiver
\* that everybody relays.
MessageAndBroadcast == {Packet(A, C, "OTHER", "TWOHOP", FALSE, Hello),
                        Packet(C, All, "OTHER", "NONE", TRUE, Answer)}
\* Both ends to each other.
Crossing == {Packet(A, C, "OTHER", "TWOHOP", FALSE, Hello),
             Packet(C, A, "OTHER", "TWOHOP", FALSE, Answer)}
\* Two messages to one neighbour.
TwoToB == {Packet(A, B, "OTHER", "SINGLEHOP", FALSE, Hello),
           Packet(A, B, "OTHER", "SINGLEHOP", FALSE, Answer)}

Weak == {-95}
Delays == {1, 2, 3}
AtOnce == {0}
NoBackoff == [e \in 0 .. 0 |-> {0}]
ForwardMaxRssi == -90

=============================================================================
