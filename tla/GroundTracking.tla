---------------------------- MODULE GroundTracking ----------------------------
(* The report of somebody on the ground (include/fanet/groundTracking.hpp): *)
(* a position, what he is doing or needs, and whether he may be tracked. On *)
(* the air it is always 7 octets; the last is shared by the type, by three  *)
(* bits without a meaning, and by the tracking bit.                         *)
(* The application's floats are taken after roundf().                       *)
EXTENDS PayloadOps

CONSTANTS
    Latitudes, Longitudes,      \* What the application sets
    GroundTypes,
    Unknowns                    \* What other devices send in the three bits

InputsAssumption ==
    /\ Latitudes \cup Longitudes \subseteq Int
    /\ GroundTypes \subseteq 0 .. 15
    /\ Unknowns \subseteq 0 .. 7

VARIABLE payload                \* The object's fields

\* The type's four bits come first: the highest ones. Mutant: they come last.
LastOctetSwapped(p) == 128 * (IF p.tracking THEN 1 ELSE 0) + 16 * p.unk + p.groundType
LastOctet(p) == 16 * p.groundType + 2 * p.unk + (IF p.tracking THEN 1 ELSE 0)

\* serialize()
Written(p) ==
    Octets24(Bits(p.latitude, 24)) \o Octets24(Bits(p.longitude, 24)) \o <<LastOctet(p)>>

\* deserialize(): the getters extend the sign of the coordinates.
Parsed(o) ==
    [latitude |-> Number24(SubSeq(o, 1, 3)), longitude |-> Number24(SubSeq(o, 4, 6)),
     groundType |-> o[7] \div 16, unk |-> (o[7] \div 2) % 8, tracking |-> o[7] % 2 = 1]

\* What the getters return.
Read(p) ==
    [latitude |-> Coordinate(p.latitude), longitude |-> Coordinate(p.longitude),
     groundType |-> p.groundType, tracking |-> p.tracking]

-----------------------------------------------------------------------------

\* An object is made by the default constructor or by the one with all fields.
Init == payload \in [latitude : {0}, longitude : {0}, groundType : {0}, unk : {0} \cup Unknowns,
                     tracking : {FALSE}]

Latitude(v) == payload' = [payload EXCEPT !.latitude = LatitudeRaw(v)]
Longitude(v) == payload' = [payload EXCEPT !.longitude = LongitudeRaw(v)]
GroundType(v) == payload' = [payload EXCEPT !.groundType = v]
Tracking(v) == payload' = [payload EXCEPT !.tracking = v]
\* The object is replaced by what is read of its octets.
Receive == payload' = Parsed(Written(payload))

Next ==
    \/ \E v \in Latitudes : Latitude(v)
    \/ \E v \in Longitudes : Longitude(v)
    \/ \E v \in GroundTypes : GroundType(v)
    \/ \E v \in BOOLEAN : Tracking(v)
    \/ Receive

Spec == Init /\ [][Next]_payload

-----------------------------------------------------------------------------

(* Sent on as it was received, the report is the same, octet by octet, the  *)
(* three bits without a meaning and the negative coordinates too, and every *)
(* receiver on the way reads what the first sender set.                     *)
SentOn ==
    LET received == Parsed(Written(payload))
    IN  /\ Written(received) = Written(payload)
        /\ Read(received) = Read(payload)

(* A setter, or another transmission, changes what a receiver reads of one  *)
(* value at most, though three of them share an octet, and never the bits   *)
(* without a meaning.                                                       *)
OneValueAtATime ==
    \E next \in {payload'} :
        LET before == Read(Parsed(Written(payload)))
            after == Read(Parsed(Written(next)))
        IN  /\ \E x \in DOMAIN before : \A y \in DOMAIN before \ {x} : before[y] = after[y]
            /\ next.unk = payload.unk

=============================================================================
