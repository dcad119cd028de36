------------------------------ MODULE MCProtocol ------------------------------
(****************************************************************************)
(* The device A, its neighbours B and C, for TLC. Times are small: a tick   *)
(* of the model stands for the second of MAC_TX_RETRANSMISSION_TIME, and    *)
(* the clock wraps after TICK_MOD of them.                                  *)
(****************************************************************************)
EXTENDS ProtocolStats

CONSTANTS All, A, B, C, Nothing, Data

MCAddress == {All, A, B, C}
MCReserved == {All}
MCPayload == {Nothing, Data}

Packet(destination, type, ackType, tagged) ==
    [source |-> C, destination |-> destination, type |-> type, ackType |-> ackType,
     forward |-> FALSE, payload |-> Data, tagged |-> tagged]

Heard(source, destination, type, ackType, forward, payload) ==
    [source |-> source, destination |-> destination, type |-> type,
     ackType |-> ackType, forward |-> forward, payload |-> payload]

\* A message that asks for an ACK, and our own position.
OwnPackets == {Packet(B, "OTHER", "SINGLEHOP", TRUE), Packet(All, "TRACKING", "NONE", FALSE)}

\* What B and C send: a position and a message to be sent on, a message to be
\* acknowledged, ACKs; and a frame of A that comes back.
OthersFrames ==
    {Heard(B, All, "TRACKING", "NONE", TRUE, Data), Heard(B, C, "OTHER", "SINGLEHOP", TRUE, Data),
     Heard(C, A, "OTHER", "SINGLEHOP", FALSE, Data), Heard(B, A, "ACK", "NONE", FALSE, Nothing),
     Heard(C, A, "ACK", "NONE", FALSE, Nothing),
     Heard(A, All, "OTHER", "NONE", TRUE, Data)}
NoFrames == {}

NoAddress == {}
ReservedAddress == {All}
WeakAndStrong == {-120, -95}
NoDelay == {1}
NoBackoff == [e \in 0 .. 0 |-> {1}]
InNoTime == {0, 1}
FromZero == {0}
UpperHalf == {2}
ForwardMaxRssi == -90

=============================================================================
