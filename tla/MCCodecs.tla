-------------------------------- MODULE MCCodecs --------------------------------
(* What the objects of Codecs are filled with, for TLC.                     *)
EXTENDS Codecs

(* For every value with a scale bit the last that is written in the fine    *)
(* unit and one the setter clamps, for the signed ones the first in the     *)
(* coarse unit too; the south pole, the date line, and a track that rounds  *)
(* to a full turn.                                                          *)
MCLatitudes == {-90 * 93206}
MCLongitudes == {180 * 46603}
MCAltitudes == {2047, 9000}
MCSpeeds == {127, 700}
MCClimbRates == {-64, 63, 400}
MCTurnRates == {-62, 63, 254}
MCGroundTracks == {3599}
MCAircraftTypes == {7}

(* The bounds of every value and one the setter clamps; for the wind the    *)
(* last value in fifths, the first in km/h, and one that is clamped.        *)
MCTemperatures == {-200}
MCHeadings == {3599}
MCWindSpeeds == {127, 128, 700}
MCHumidities == {300}
MCPressures == {6600}
MCBatteries == {100}
MCExtendedHeaders == {165}

(* The south pole and a latitude just north of the equator, both sides of   *)
(* the date line, and types that have all the four bits or the first.       *)
MCGroundLatitudes == {-90 * 93206, 1}
MCGroundLongitudes == {-180 * 46603, 180 * 46603}
MCGroundTypes == {8, 15}
MCUnknowns == {5}

(* Two devices, the addresses of which have all octets different, and a     *)
(* signature the same; names and messages that fit and that do not; an ACK  *)
(* type, reserved bits and a message type this code never sends; a frame    *)
(* that is both signed and addressed, and a message without a sub-header.   *)
MCAddresses == {[manufacturer |-> 1, unique |-> 515], [manufacturer |-> 251, unique |-> 65280]}
MCSignatures == {<<4, 3, 2, 129>>}
MCTexts == {<<>>, <<65, 66, 67>>}
MCSubHeaders == {7}
MCReports == {[type |-> 1, body |-> <<9, 8, 7, 6, 5, 4>>], [type |-> 4, body |-> <<192>>]}

\* Bits of the first octet: 128 extended, 64 forward; of the fifth: 64 and 128
\* ACK type, 32 addressed, 16 signed, 14 reserved, 1 geographic.
MCHeard ==
    {<<128 + 64 + 3, 1, 3, 2, 192 + 32 + 16 + 14 + 1, 251, 0, 255, 129, 2, 3, 4, 7, 65, 66, 67>>,
     <<128 + 5, 251, 0, 255, 64 + 16 + 2, 129, 2, 3, 4, 1, 2>>,
     <<64 + 2, 1, 3, 2, 65, 66, 67>>,
     <<3, 1, 3, 2>>,
     <<128, 251, 0, 255, 32, 1, 3, 2>>}

\* Every border of every zone, half a degree and a degree on both sides of it,
\* and the equator and the zero meridian.
Around(borders) == UNION {(b - 2) .. (b + 2) : b \in borders}
MCParallels == Around({180, -180, -20, -96, 80, 10, 94, 42, 78, 68, 58, 0})
MCMeridians == Around({-60, -338, 358, 220, 178, 138, 292, 260, 248, 72, 68, 360, -360, 0})

=============================================================================
