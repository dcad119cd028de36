--------------------------------- MODULE Zones ---------------------------------
(* The radio zone at a position (include/fanet/zone.hpp). The zones are     *)
(* rectangles in whole degrees that lie in and over each other, searched in *)
(* the order of the table; the position is cut to whole degrees first,      *)
(* towards zero. Positions are in half degrees here.                        *)
EXTENDS PayloadOps

CONSTANTS Latitudes, Longitudes     \* What the application asks for

InputsAssumption == Latitudes \cup Longitudes \subseteq Int

VARIABLES
    position,   \* What the application asked for last
    zone        \* The index of the zone it was told

vars == <<position, zone>>

-----------------------------------------------------------------------------

\* North, south, east and west border. Mutant: a new zone is put at the end.
ZonesAppended ==
    << [north |->  90, south |-> -90, east |-> -30, west |-> -169],
       [north |-> -10, south |-> -48, east |-> 179, west |->  110],
       [north |->  40, south |->   5, east |->  89, west |->   69],
       [north |->  47, south |->  21, east |-> 146, west |->   89],
       [north |->  39, south |->  34, east |-> 130, west |->  124],
       [north |->  34, south |->  29, east |->  36, west |->   34],
       [north |->  90, south |-> -90, east |-> 180, west |-> -180],
       [north |->   0, south |->   0, east |->   0, west |->    0] >>

\* US920, AU920, IN866, KR923, AS920, IL918, EU868 as the catch-all, and UNK.
DefaultZones ==
    << [north |->  90, south |-> -90, east |-> -30, west |-> -169],
       [north |-> -10, south |-> -48, east |-> 179, west |->  110],
       [north |->  40, south |->   5, east |->  89, west |->   69],
       [north |->  39, south |->  34, east |-> 130, west |->  124],
       [north |->  47, south |->  21, east |-> 146, west |->   89],
       [north |->  34, south |->  29, east |->  36, west |->   34],
       [north |->  90, south |-> -90, east |-> 180, west |-> -180],
       [north |->   0, south |->   0, east |->   0, west |->    0] >>

Unknown == Len(DefaultZones)

Inside(z, latitude, longitude) ==
    /\ latitude >= z.south
    /\ latitude <= z.north
    /\ longitude >= z.west
    /\ longitude <= z.east

Rounded(halves) == (halves + 1) \div 2                      \* Mutant
\* static_cast<int16_t>
Degrees(halves) == Quotient(halves, 2)

Matches(latitude, longitude) ==
    {i \in DOMAIN DefaultZones : Inside(DefaultZones[i], Degrees(latitude), Degrees(longitude))}

\* The first match, or the last zone.
FindZone(latitude, longitude) ==
    LET found == Matches(latitude, longitude)
    IN  IF found = {} THEN Unknown ELSE CHOOSE i \in found : \A k \in found : i <= k

-----------------------------------------------------------------------------

Init ==
    /\ position = [latitude |-> 0, longitude |-> 0]
    /\ zone = FindZone(0, 0)

Ask(latitude, longitude) ==
    /\ position' = [latitude |-> latitude, longitude |-> longitude]
    /\ zone' = FindZone(latitude, longitude)

\* It asks again after it has moved along a meridian or a parallel.
Next ==
    \/ \E latitude \in Latitudes : Ask(latitude, position.longitude)
    \/ \E longitude \in Longitudes : Ask(position.latitude, longitude)

Spec == Init /\ [][Next]_vars

-----------------------------------------------------------------------------

\* A rectangle in half degrees.
Halved(i) ==
    LET z == DefaultZones[i]
    IN  [north |-> 2 * z.north, south |-> 2 * z.south, east |-> 2 * z.east, west |-> 2 * z.west]

Within(i, k) ==
    LET inner == DefaultZones[i]
        outer == DefaultZones[k]
    IN  Inside(outer, inner.north, inner.east) /\ Inside(outer, inner.south, inner.west)

(* Where zones lie in each other the innermost is found: no zone that holds *)
(* the position lies in the one that is told, so the order of the table     *)
(* never hides a country behind the region around it, nor a region behind   *)
(* the catch-all.                                                           *)
InnermostZone ==
    \A i \in 1 .. (Unknown - 1) :
        Inside(Halved(i), position.latitude, position.longitude)
            => (zone = i \/ ~Within(i, zone))

\* Beyond the borders, but by less than a degree, on the side away from zero.
AwayFromZero(v, low, high) ==
    \/ v \in low .. high
    \/ v > high /\ high >= 0 /\ v < high + 2
    \/ v < low /\ low <= 0 /\ v > low - 2

(* A position in a zone is never unknown, and one outside of the zone that  *)
(* is told is less than a degree away from it, on the side that is farther  *)
(* from the equator or the zero meridian: the cut to whole degrees moves    *)
(* borders outwards only.                                                   *)
WithinADegree ==
    IF zone = Unknown
    THEN \A i \in 1 .. (Unknown - 1) : ~Inside(Halved(i), position.latitude, position.longitude)
    ELSE LET told == Halved(zone)
         IN  /\ AwayFromZero(position.latitude, told.south, told.north)
             /\ AwayFromZero(position.longitude, told.west, told.east)

=============================================================================
