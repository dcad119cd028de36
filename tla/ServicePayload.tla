---------------------------- MODULE ServicePayload ----------------------------
(****************************************************************************)
(* The report of a ground station (include/fanet/service.hpp): weather,     *)
(* battery and whether it is a gateway. The header's flags tell which       *)
(* values follow, and are set by the setters of those values; the position  *)
(* has no flag of its own. It follows when a value does, and else it is the *)
(* size of the payload that tells the receiver.                             *)
(*                                                                          *)
(* The application's floats are taken after roundf(), in the unit of their  *)
(* field: half degrees, tenths of degrees of direction, fifths of km/h,     *)
(* 0.4 %, and tenths of hPa above 430; the battery's percents as they are.  *)
(****************************************************************************)
EXTENDS PayloadOps

CONSTANTS
    Latitudes, Longitudes,              \* What the application sets
    Temperatures, Headings, WindSpeeds,
    Humidities, Pressures, Batteries,
    ExtendedHeaders                     \* What other devices send as second header

InputsAssumption ==
    /\ Latitudes \cup Longitudes \cup Temperatures \cup WindSpeeds \subseteq Int
    /\ Humidities \cup Pressures \subseteq Int
    /\ Headings \subseteq -3600 .. 7199
    /\ Batteries \cup ExtendedHeaders \subseteq 0 .. 255

VARIABLES
    payload,    \* The object's fields
    asked       \* History: the wind and the gust that were set last

vars == <<payload, asked>>

-----------------------------------------------------------------------------

Flags == {"gateway", "temperature", "wind", "humidity", "barometric", "remoteConfig",
          "battery", "extended"}

\* header & 0b01111011: with one of these the position follows.
PlacedFlags == Flags \ {"gateway", "remoteConfig"}
HasPlace(header) == header \cap PlacedFlags # {}

\* A wind speed's octet: the scale bit is the highest.
WindOctet(w) == 128 * (IF w.scaled THEN 1 ELSE 0) + Bits(w.raw, 7)

\* The position is written.
Placed(p) == HasPlace(p.header) \/ p.bPosition

If(follows, octets) == IF follows THEN octets ELSE <<>>

\* serialize()
Written(p) ==
    [header |-> p.header,
     octets |-> If("extended" \in p.header, <<p.eHeader>>)
             \o If(Placed(p), Octets24(Bits(p.latitude, 24)) \o Octets24(Bits(p.longitude, 24)))
             \o If("temperature" \in p.header, <<Bits(p.temperature, 8)>>)
             \o If("wind" \in p.header,
                   <<p.windHeading, WindOctet(p.windSpeed), WindOctet(p.windGust)>>)
             \o If("humidity" \in p.header, <<p.humidity>>)
             \o If("barometric" \in p.header, Octets16(p.barometric))
             \o If("battery" \in p.header, <<p.battery>>)]

\* What deserialize() reads, in this order, and in how many octets.
Fields == <<"extended", "position", "temperature", "wind", "humidity", "barometric", "battery">>
Size == <<1, 6, 1, 3, 1, 2, 1>>

PayloadSize(w) == 1 + Len(w.octets)

FollowsByFlag(w, x) == IF x = "position" THEN HasPlace(w.header) ELSE x \in w.header  \* Mutant
\* What deserialize() expects to follow.
Expects(w, x) ==
    IF x = "position" THEN HasPlace(w.header) \/ PayloadSize(w) >= 7 ELSE x \in w.header

\* How many octets are read before each of the fields, and at last in all.
Reads(w) ==
    LET before[i \in 1 .. 8] ==
            IF i = 1 THEN 0
            ELSE before[i - 1] + IF Expects(w, Fields[i - 1]) THEN Size[i - 1] ELSE 0
    IN  before

\* The octets the i-th field is read from, zeros when it is not: it keeps its
\* default.
ReadFrom(w, i) ==
    LET first == Reads(w)[i]
    IN  IF Expects(w, Fields[i]) THEN SubSeq(w.octets, first + 1, first + Size[i])
                                 ELSE [k \in 1 .. Size[i] |-> 0]

Wind(o) == [raw |-> o % 128, scaled |-> o >= 128]

\* deserialize(): bPosition stays as the constructor leaves it.
Parsed(w) ==
    LET position == ReadFrom(w, 2)
        wind == ReadFrom(w, 4)
    IN  [header |-> w.header, eHeader |-> ReadFrom(w, 1)[1],
         latitude |-> Number24(SubSeq(position, 1, 3)),
         longitude |-> Number24(SubSeq(position, 4, 6)), bPosition |-> FALSE,
         temperature |-> Signed(ReadFrom(w, 3)[1], 8),
         windHeading |-> wind[1], windSpeed |-> Wind(wind[2]), windGust |-> Wind(wind[3]),
         humidity |-> ReadFrom(w, 5)[1],
         barometric |-> Number16(ReadFrom(w, 6)),
         battery |-> ReadFrom(w, 7)[1]]

\* A wind speed is set and read in fifths of km/h.
Strongest == 127 * 5
WindInRange(v) == Clamp(v, 0, Strongest)

\* What the setters of wind and gust make of the field: the scale bit is set and
\* never cleared, the coarse value truncated.
StoredWind(field, v) ==
    IF WindInRange(v) > 127
    THEN [raw |-> WindInRange(v) \div 5, scaled |-> TRUE]
    ELSE [field EXCEPT !.raw = WindInRange(v)]

WindValue(field) == IF field.scaled THEN 5 * field.raw ELSE field.raw

HighestPressure == 6554

\* In steps of 6.66 %, to the next whole percent when it is read.
BatteryRaw(percent) == Clamp((200 * percent + 666) \div 1332, 0, 15)
BatteryValue(raw) == (2 * 666 * raw + 100) \div 200

\* What the getters return, hasPosition() and the header's flags excepted.
Read(p) ==
    [latitude |-> Coordinate(p.latitude), longitude |-> Coordinate(p.longitude),
     temperature |-> p.temperature, windHeading |-> p.windHeading,
     windSpeed |-> WindValue(p.windSpeed), windGust |-> WindValue(p.windGust),
     humidity |-> p.humidity, barometric |-> p.barometric, battery |-> BatteryValue(p.battery)]

Received == Parsed(Written(payload))
ReadOnAir(p) == Read(Parsed(Written(p)))

-----------------------------------------------------------------------------

Calm == [raw |-> 0, scaled |-> FALSE]

New == [header |-> {}, eHeader |-> 0, latitude |-> 0, longitude |-> 0, bPosition |-> FALSE,
        temperature |-> 0, windHeading |-> 0, windSpeed |-> Calm, windGust |-> Calm,
        humidity |-> 0, barometric |-> 0, battery |-> 0]

Asked(speed, gust) == asked' = [windSpeed |-> speed, windGust |-> gust]

Init ==
    /\ payload = New
    /\ asked = [windSpeed |-> 0, windGust |-> 0]

Latitude(v) ==
    /\ payload' = [payload EXCEPT !.latitude = LatitudeRaw(v), !.bPosition = TRUE]
    /\ UNCHANGED asked
Longitude(v) ==
    /\ payload' = [payload EXCEPT !.longitude = LongitudeRaw(v), !.bPosition = TRUE]
    /\ UNCHANGED asked

\* A setter of a value sets the value's flag.
Set(flag, p) == payload' = [p EXCEPT !.header = @ \cup {flag}]

SetGateway(enabled) ==
    /\ payload' = [payload EXCEPT !.header = IF enabled THEN @ \cup {"gateway"}
                                                        ELSE @ \ {"gateway"}]
    /\ UNCHANGED asked
Temperature(v) ==
    /\ Set("temperature", [payload EXCEPT !.temperature = Clamp(v, -128, 127)])
    /\ UNCHANGED asked
WindHeading(v) ==
    /\ Set("wind", [payload EXCEPT !.windHeading = TrackRaw(v)])
    /\ UNCHANGED asked
WindSpeed(v) ==
    /\ Set("wind", [payload EXCEPT !.windSpeed = StoredWind(@, v)])
    /\ Asked(v, asked.windGust)
WindGust(v) ==
    /\ Set("wind", [payload EXCEPT !.windGust = StoredWind(@, v)])
    /\ Asked(asked.windSpeed, v)
Humidity(v) ==
    /\ Set("humidity", [payload EXCEPT !.humidity = Clamp(v, 0, 250)])
    /\ UNCHANGED asked
Barometric(v) ==
    /\ Set("barometric", [payload EXCEPT !.barometric = Clamp(v, 0, HighestPressure)])
    /\ UNCHANGED asked
Battery(percent) ==
    /\ Set("battery", [payload EXCEPT !.battery = BatteryRaw(percent)])
    /\ UNCHANGED asked

\* The object is replaced by what is read of its frame.
Receive ==
    /\ payload' = Received
    /\ UNCHANGED asked

\* It is replaced by what is read of another device's frame, with the flags that
\* have no setter: a second header, and nothing at the position.
ReceiveExtended(octet) ==
    /\ payload' = Parsed([header |-> {"extended", "remoteConfig"},
                          octets |-> <<octet, 0, 0, 0, 0, 0, 0>>])
    /\ asked' = [windSpeed |-> 0, windGust |-> 0]

Next ==
    \/ \E v \in Latitudes : Latitude(v)
    \/ \E v \in Longitudes : Longitude(v)
    \/ \E v \in BOOLEAN : SetGateway(v)
    \/ \E v \in Temperatures : Temperature(v)
    \/ \E v \in Headings : WindHeading(v)
    \/ \E v \in WindSpeeds : WindSpeed(v)
    \/ \E v \in WindSpeeds : WindGust(v)
    \/ \E v \in Humidities : Humidity(v)
    \/ \E v \in Pressures : Barometric(v)
    \/ \E v \in Batteries : Battery(v)
    \/ Receive
    \/ \E v \in ExtendedHeaders : ReceiveExtended(v)

Spec == Init /\ [][Next]_vars

-----------------------------------------------------------------------------

(* Every raw value fits the bits it has on the air, and a value that was    *)
(* set has its flag.                                                        *)
TypeOK ==
    /\ payload.header \subseteq Flags
    /\ payload.temperature \in -128 .. 127
    /\ payload.windSpeed \in [raw : 0 .. 127, scaled : BOOLEAN]
    /\ payload.windGust \in [raw : 0 .. 127, scaled : BOOLEAN]
    /\ payload.windHeading \in 0 .. 255
    /\ payload.humidity \in 0 .. 250
    /\ payload.barometric \in 0 .. HighestPressure
    /\ payload.battery \in 0 .. 15
    /\ {payload.latitude, payload.longitude} \subseteq -(2^23) .. (2^24 - 1)

(* The receiver finds the octets of every value whichever others are there, *)
(* and none is left over: it gets the header and the values of the sender,  *)
(* and the position where no flag tells of it. Only a position that was     *)
(* received alone is not sent on.                                           *)
ReceivedIsSent ==
    LET unsent == IF Placed(payload) THEN {} ELSE {"latitude", "longitude"}
        sent == Read(payload)
    IN  \A w \in {Written(payload)} : \A p \in {Parsed(w)} :
            /\ \A values \in {Read(p)} : \A x \in DOMAIN sent \ unsent : values[x] = sent[x]
            /\ p.header = payload.header
            /\ p.eHeader = payload.eHeader
            /\ Reads(w)[8] = Len(w.octets)

(* What was received and is written again is the same, but for a position   *)
(* that comes without any value: it is lost, as reading does not mark it.   *)
WrittenAgain ==
    LET w == Written(payload)
        again == Written(Received)
    IN  IF payload.bPosition /\ ~HasPlace(payload.header)
        THEN again = [w EXCEPT !.octets = <<>>]
        ELSE again = w

\* The scale bit was set by an earlier call.
Stale(x) == payload[x].scaled /\ WindInRange(asked[x]) <= 127

(* However the setters were called before, wind and gust are wrong only     *)
(* when their scale bit is stale, and then by the scale; else they are less *)
(* than a km/h below what was set.                                          *)
WrongOnlyByScale ==
    \A x \in {"windSpeed", "windGust"} :
        IF Stale(x)
        THEN WindValue(payload[x]) = 5 * WindInRange(asked[x])
        ELSE WindInRange(asked[x]) - WindValue(payload[x]) \in 0 .. 4

(* A setter changes what the receiver reads of one value at most, and it    *)
(* turns no flag off but the gateway's. With any value a position that was  *)
(* received alone comes back.                                               *)
OneValueAtATime ==
    \/ Receive
    \/ \E octet \in ExtendedHeaders : ReceiveExtended(octet)
    \/ \E next \in {payload'} :
          \E before \in {ReadOnAir(payload)}, after \in {ReadOnAir(next)} :
             LET unsent == IF Placed(payload) THEN {} ELSE {"latitude", "longitude"}
                 sent == DOMAIN before \ unsent
             IN  /\ \E x \in sent : \A y \in sent \ {x} : before[y] = after[y]
                 /\ payload.header \ next.header \subseteq {"gateway"}

=============================================================================
