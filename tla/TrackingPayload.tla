---------------------------- MODULE TrackingPayload ----------------------------
(****************************************************************************)
(* The position report of a flying device (include/fanet/tracking.hpp): an  *)
(* object the application fills with setters, in any order and as often as  *)
(* it likes, and that is written to and read from the air in 11 or 12       *)
(* bytes. Four values have few bits on the air: a scale bit tells that they *)
(* are in a coarser unit.                                                   *)
(*                                                                          *)
(* The application's floats are taken after roundf(), as integers in the    *)
(* fine unit of their field: 1/93206 and 1/46603 degrees, metres, half      *)
(* km/h, tenths of m/s, quarters of degrees/s, and tenths of degrees.       *)
(****************************************************************************)
EXTENDS PayloadOps

CONSTANTS
    Latitudes, Longitudes,                  \* What the application sets
    Altitudes, Speeds, ClimbRates, TurnRates,
    GroundTracks,
    AircraftTypes

InputsAssumption ==
    /\ Latitudes \cup Longitudes \subseteq Int
    /\ Altitudes \cup Speeds \cup ClimbRates \cup TurnRates \subseteq Int
    /\ GroundTracks \subseteq -3600 .. 7199
    /\ AircraftTypes \subseteq 0 .. 7

VARIABLES
    payload,    \* The object's fields
    asked       \* History: what each setter was called with last

vars == <<payload, asked>>

-----------------------------------------------------------------------------

\* The values with a scale bit: their range, the largest that is written in the
\* fine unit, and the fine units in a coarse one.
ScaledFields == {"altitude", "speed", "climbRate", "turnRate"}
Lowest == [altitude |-> 0, speed |-> 0, climbRate |-> -315, turnRate |-> -254]
Highest == [altitude |-> 8188, speed |-> 635, climbRate |-> 315, turnRate |-> 254]
Fine == [altitude |-> 2047, speed |-> 127, climbRate |-> 63, turnRate |-> 62]
Coarse == [altitude |-> 4, speed |-> 5, climbRate |-> 5, turnRate |-> 4]

InRange(x, v) == Clamp(v, Lowest[x], Highest[x])

\* Mutant: the coarse value is truncated.
StoredTruncated(field, x, v) ==
    IF Magnitude(InRange(x, v)) > Fine[x]
    THEN [raw |-> Quotient(InRange(x, v), Coarse[x]), scaled |-> TRUE]
    ELSE [field EXCEPT !.raw = InRange(x, v)]

\* What a setter makes of a field: it sets the scale bit and never clears it.
Stored(field, x, v) ==
    LET c == InRange(x, v)
    IN  IF Magnitude(c) > Fine[x]
        THEN [raw |-> Quotient(IF c < 0 THEN c - 2 ELSE c + 2, Coarse[x]), scaled |-> TRUE]
        ELSE [field EXCEPT !.raw = c]

\* What the getter returns.
Value(field, x) == IF field.scaled THEN field.raw * Coarse[x] ELSE field.raw

\* serialize(): every value in its bits, the altitude in two parts.
Written(p) ==
    [latitude |-> Bits(p.latitude, 24), longitude |-> Bits(p.longitude, 24),
     altitudeLow |-> Bits(p.altitude.raw, 8),
     tracking |-> p.tracking, aircraftType |-> Bits(p.aircraftType, 3),
     altitudeScaled |-> p.altitude.scaled, altitudeHigh |-> Bits(p.altitude.raw \div 256, 3),
     speed |-> [p.speed EXCEPT !.raw = Bits(@, 7)],
     climbRate |-> [p.climbRate EXCEPT !.raw = Bits(@, 7)],
     groundTrack |-> Bits(p.groundTrack, 8),
     turnRate |-> IF p.hasTurnRate THEN {[p.turnRate EXCEPT !.raw = Bits(@, 7)]} ELSE {}]

Unset == [raw |-> 0, scaled |-> FALSE]

\* deserialize(): hasTurnRate stays as the constructor leaves it.
Parsed(w) ==
    [latitude |-> w.latitude, longitude |-> w.longitude,
     altitude |-> [raw |-> w.altitudeLow + 256 * w.altitudeHigh, scaled |-> w.altitudeScaled],
     tracking |-> w.tracking, aircraftType |-> w.aircraftType,
     speed |-> w.speed,
     climbRate |-> [w.climbRate EXCEPT !.raw = Signed(@, 7)],
     groundTrack |-> w.groundTrack,
     turnRate |-> IF w.turnRate = {} THEN Unset
                  ELSE [(CHOOSE t \in w.turnRate : TRUE) EXCEPT !.raw = Signed(@, 7)],
     hasTurnRate |-> FALSE]

\* What all the getters return, hasTurnrate() excepted.
Read(p) ==
    [altitude |-> Value(p.altitude, "altitude"), speed |-> Value(p.speed, "speed"),
     climbRate |-> Value(p.climbRate, "climbRate"), turnRate |-> Value(p.turnRate, "turnRate"),
     latitude |-> Coordinate(p.latitude), longitude |-> Coordinate(p.longitude),
     tracking |-> p.tracking, aircraftType |-> p.aircraftType,
     groundTrack |-> p.groundTrack]

\* What the receiver of an object's frame reads.
ReadOnAir(p) == Read(Parsed(Written(p)))

-----------------------------------------------------------------------------

Init ==
    /\ payload = [latitude |-> 0, longitude |-> 0, altitude |-> Unset, tracking |-> FALSE,
                  aircraftType |-> 0, speed |-> Unset, climbRate |-> Unset,
                  groundTrack |-> 0, turnRate |-> Unset, hasTurnRate |-> FALSE]
    /\ asked = [latitude |-> 0, longitude |-> 0, altitude |-> 0, tracking |-> FALSE,
                aircraftType |-> 0, speed |-> 0, climbRate |-> 0, groundTrack |-> 0,
                turnRate |-> 0]

Asked(x, v) == asked' = [asked EXCEPT ![x] = v]

Latitude(v) ==
    /\ payload' = [payload EXCEPT !.latitude = LatitudeRaw(v)]
    /\ Asked("latitude", v)
Longitude(v) ==
    /\ payload' = [payload EXCEPT !.longitude = LongitudeRaw(v)]
    /\ Asked("longitude", v)

Altitude(v) ==
    /\ payload' = [payload EXCEPT !.altitude = Stored(@, "altitude", v)]
    /\ Asked("altitude", v)
Speed(v) ==
    /\ payload' = [payload EXCEPT !.speed = Stored(@, "speed", v)]
    /\ Asked("speed", v)
\* Mutant: the scale bit of the setter it was copied from.
ClimbRateOfSpeed(v) ==
    LET new == Stored(payload.climbRate, "climbRate", v)
    IN  /\ payload' = [payload EXCEPT !.climbRate.raw = new.raw,
                                      !.speed.scaled = @ \/ new.scaled]
        /\ Asked("climbRate", v)
ClimbRate(v) ==
    /\ payload' = [payload EXCEPT !.climbRate = Stored(@, "climbRate", v)]
    /\ Asked("climbRate", v)
TurnRate(v) ==
    /\ payload' = [payload EXCEPT !.turnRate = Stored(@, "turnRate", v),
                                  !.hasTurnRate = TRUE]
    /\ Asked("turnRate", v)

GroundTrack(v) ==
    /\ payload' = [payload EXCEPT !.groundTrack = TrackRaw(v)]
    /\ Asked("groundTrack", v)
Tracking(v) ==
    /\ payload' = [payload EXCEPT !.tracking = v]
    /\ Asked("tracking", v)
AircraftType(v) ==
    /\ payload' = [payload EXCEPT !.aircraftType = v]
    /\ Asked("aircraftType", v)

Next ==
    \/ \E v \in Latitudes : Latitude(v)
    \/ \E v \in Longitudes : Longitude(v)
    \/ \E v \in Altitudes : Altitude(v)
    \/ \E v \in Speeds : Speed(v)
    \/ \E v \in ClimbRates : ClimbRate(v)
    \/ \E v \in TurnRates : TurnRate(v)
    \/ \E v \in GroundTracks : GroundTrack(v)
    \/ \E v \in BOOLEAN : Tracking(v)
    \/ \E v \in AircraftTypes : AircraftType(v)

Spec == Init /\ [][Next]_vars

-----------------------------------------------------------------------------

(* Every raw value fits the bits it has on the air, but for the turn rate:  *)
(* 64, which the setter makes of 63.375 degrees/s and more, does not.       *)
TypeOK ==
    /\ payload.altitude \in [raw : 0 .. 2047, scaled : BOOLEAN]
    /\ payload.speed \in [raw : 0 .. 127, scaled : BOOLEAN]
    /\ payload.climbRate \in [raw : -63 .. 63, scaled : BOOLEAN]
    /\ payload.turnRate \in [raw : -64 .. 64, scaled : BOOLEAN]
    /\ payload.groundTrack \in 0 .. 255
    /\ payload.aircraftType \in 0 .. 7
    /\ payload.latitude \in -(2^23) .. (2^23 - 1)
    /\ payload.longitude \in -(2^23) .. (2^23 - 1)

\* The largest turn rate to the right has one bit more than there is.
TooWide(x) == x = "turnRate" /\ payload[x].raw = 64

(* The receiver reads what the sender's getters return, value by value,     *)
(* whatever shares a byte with it, but for one value that protocol.txt and  *)
(* the tests have: what the setter makes of a turn to the right of 63.375   *)
(* degrees/s and more is always received as a turn of 64 to the left.       *)
ReceivedIsSent ==
    LET sent == Read(payload)
        received == ReadOnAir(payload)
    IN  \A x \in DOMAIN sent :
            received[x] = IF TooWide(x) THEN -sent[x] ELSE sent[x]

(* Written again by a receiver, a report has the octets it came with, but   *)
(* never the last: the turn rate is read and not marked as set, so that the *)
(* octet is left out and the next receiver reads no turn.                   *)
WrittenAgain ==
    \E w \in {Written(payload)} : Written(Parsed(w)) = [w EXCEPT !.turnRate = {}]

\* The scale bit was set by an earlier call.
Stale(x) == payload[x].scaled /\ Magnitude(InRange(x, asked[x])) <= Fine[x]

\* The getter returns what the setter was given last, to half a coarse unit.
TakesEffect(x) == Magnitude(Value(payload[x], x) - InRange(x, asked[x])) <= Coarse[x] \div 2

(* However the setters were called before, a getter is wrong only when its  *)
(* scale bit is stale, and then by the scale: the receiver gets the raw     *)
(* value in the wrong unit, never a mixture.                                *)
WrongOnlyByScale ==
    \A x \in ScaledFields :
        IF Stale(x)
        THEN Value(payload[x], x) = Coarse[x] * InRange(x, asked[x])
        ELSE TakesEffect(x)

(* A setter changes what the receiver reads of the value it is called for,  *)
(* and of no other.                                                         *)
OneValueAtATime ==
    \E next \in {payload'} :
        \E before \in {ReadOnAir(payload)}, after \in {ReadOnAir(next)} :
            \E x \in DOMAIN before : \A y \in DOMAIN before \ {x} :
                before[y] = after[y] /\ asked'[y] = asked[y]

=============================================================================
