--------------------------------- MODULE Codecs ---------------------------------
(****************************************************************************)
(* The objects an application fills, sends and receives: the reports, the   *)
(* packet that carries one, the time a frame takes, and the zone of a       *)
(* position. They share no state, so a behaviour is about one of them, the  *)
(* object; the others stay as they were made.                               *)
(****************************************************************************)
EXTENDS Integers

CONSTANTS
    Latitudes, Longitudes,              \* What aircraft and stations set
    Altitudes, Speeds, ClimbRates, TurnRates, GroundTracks, AircraftTypes,
    Temperatures, Headings, WindSpeeds, Humidities, Pressures, Batteries,
    ExtendedHeaders,                    \* Second headers of other stations
    GroundLatitudes, GroundLongitudes,  \* What people on the ground set
    GroundTypes, Unknowns,
    Addresses, Signatures, Texts, SubHeaders, Reports, Heard, MaxFrameSize,
    MAC_CODING48_THRESHOLD, MAC_TX_MINPREAMBLEHEADERTIME_MS, MAC_TX_TIMEPERBYTE_MS,
    MAX_BYTES, MAX_NEIGHBOURS,
    Parallels, Meridians                \* Where a zone is asked for

VARIABLES
    object,             \* The object at hand
    tracking, set,      \* The position report, and what its setters were given
    service, given,     \* The ground station's report, likewise
    ground,             \* The report of somebody on the ground
    packet, frame,      \* A packet and a frame
    length, neighbours, \* Of a frame, and how many would hear it
    position, zone      \* A position and the zone it is in

vars == <<object, tracking, set, service, given, ground, packet, frame,
          length, neighbours, position, zone>>

-----------------------------------------------------------------------------

Tracking == INSTANCE TrackingPayload WITH payload <- tracking, asked <- set

Service == INSTANCE ServicePayload WITH payload <- service, asked <- given

Ground == INSTANCE GroundTracking WITH
    payload <- ground, Latitudes <- GroundLatitudes, Longitudes <- GroundLongitudes

Packet == INSTANCE PacketCodec

\* No clock runs here.
Radio == INSTANCE FrameTime WITH
    lengthBytes <- length, TICK_MOD <- 2147483647, WORD <- 2147483647, WINDOW <- 30000

Zone == INSTANCE Zones WITH Latitudes <- Parallels, Longitudes <- Meridians

ASSUME InputsAreLegal ==
    /\ Tracking!InputsAssumption /\ Service!InputsAssumption /\ Ground!InputsAssumption
    /\ Packet!InputsAssumption /\ Packet!HeardAssumption
    /\ Radio!RadioAssumption /\ Zone!InputsAssumption

-----------------------------------------------------------------------------

Objects == {"tracking", "service", "ground", "packet", "radio", "zone"}

Init ==
    /\ object \in Objects
    /\ Tracking!Init /\ Service!Init /\ Ground!Init /\ Packet!Init /\ Radio!Init /\ Zone!Init
    /\ object # "ground" => ground.unk = 0

TrackingStays == UNCHANGED <<tracking, set>>
ServiceStays == UNCHANGED <<service, given>>
GroundStays == UNCHANGED ground
PacketStays == UNCHANGED <<packet, frame>>
RadioStays == UNCHANGED <<length, neighbours>>
ZoneStays == UNCHANGED <<position, zone>>

Next ==
    /\ UNCHANGED object
    /\ \/ /\ object = "tracking" /\ Tracking!Next
          /\ ServiceStays /\ GroundStays /\ PacketStays /\ RadioStays /\ ZoneStays
       \/ /\ object = "service" /\ Service!Next
          /\ TrackingStays /\ GroundStays /\ PacketStays /\ RadioStays /\ ZoneStays
       \/ /\ object = "ground" /\ Ground!Next
          /\ TrackingStays /\ ServiceStays /\ PacketStays /\ RadioStays /\ ZoneStays
       \/ /\ object = "packet" /\ Packet!Next
          /\ TrackingStays /\ ServiceStays /\ GroundStays /\ RadioStays /\ ZoneStays
       \/ /\ object = "radio" /\ Radio!Next
          /\ TrackingStays /\ ServiceStays /\ GroundStays /\ PacketStays /\ ZoneStays
       \/ /\ object = "zone" /\ Zone!Next
          /\ TrackingStays /\ ServiceStays /\ GroundStays /\ PacketStays /\ RadioStays

Spec == Init /\ [][Next]_vars

-----------------------------------------------------------------------------

(* The fields keep to the bits they have on the air, and the flags of a     *)
(* packet and of a report tell what follows.                                *)
TypeOK ==
    /\ object \in Objects
    /\ object = "tracking" => Tracking!TypeOK
    /\ object = "service" => Service!TypeOK
    /\ object = "packet" => Packet!TypeOK

(* The receiver of a report reads what its sender reads, value by value,    *)
(* whatever shares an octet with it and whichever values are there. One     *)
(* value of the position report does not arrive, and the formula says what  *)
(* does: the largest turn rate, 64 degrees/s, is read as -64.               *)
ReceivedIsSent ==
    /\ object = "tracking" => Tracking!ReceivedIsSent
    /\ object = "service" => Service!ReceivedIsSent

(* However the setters were called before, a value is wrong only when its   *)
(* scale bit is stale, and then by the scale.                               *)
WrongOnlyByScale ==
    /\ object = "tracking" => Tracking!WrongOnlyByScale
    /\ object = "service" => Service!WrongOnlyByScale

(* A report that was received and is written again has the same octets, in  *)
(* all three kinds of report, with two exceptions. The position report      *)
(* loses the octet of its turn rate; the service report loses a position    *)
(* that came without any value after it.                                    *)
WrittenAgain ==
    /\ object = "tracking" => Tracking!WrittenAgain
    /\ object = "service" => Service!WrittenAgain
    /\ object = "ground" => Ground!SentOn

(* A setter changes what the receiver reads of one value at most, and in a  *)
(* position report of the value it is called for.                           *)
OneValueAtATime ==
    [][ /\ object = "tracking" => Tracking!OneValueAtATime
        /\ object = "service" => Service!OneValueAtATime
        /\ object = "ground" => Ground!OneValueAtATime ]_vars

(* Built and parsed, a packet is the same.                                  *)
ParsedIsBuilt == object = "packet" => Packet!ParsedIsBuilt

(* The frame in the pool and the parser read the same of the same octets.   *)
PoolReadsWhatTheParserReads == object = "packet" => Packet!PoolReadsWhatTheParserReads

(* A setter of a packet changes one field, whatever the others have made of *)
(* the extended header before; and a relay, in the buffer of the frame, the *)
(* forward bit and nothing else that is parsed.                             *)
OneFieldAtATime ==
    [][ object = "packet" => Packet!OneFieldAtATime /\ Packet!ForwardBitAlone ]_vars

(* The wait between two frames covers the longest time of the first.        *)
SpacingCoversFrame == object = "radio" => Radio!SpacingCoversFrame

(* The integer airtime is within two milliseconds of the exact one.         *)
CloseToExact == object = "radio" => Radio!CloseToExact

(* Where zones lie in each other the innermost is found.                    *)
InnermostZone == object = "zone" => Zone!InnermostZone

(* The cut to whole degrees moves a border by less than a degree, outwards. *)
WithinADegree == object = "zone" => Zone!WithinADegree

=============================================================================
