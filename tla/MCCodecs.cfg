SPECIFICATION Spec
INVARIANTS
    TypeOK
    ReceivedIsSent
    WrongOnlyByScale
    WrittenAgain
    ParsedIsBuilt
    PoolReadsWhatTheParserReads
    SpacingCoversFrame
    CloseToExact
    InnermostZone
    WithinADegree
PROPERTIES
    OneValueAtATime
    OneFieldAtATime
CONSTANTS
    Latitudes <- MCLatitudes
    Longitudes <- MCLongitudes
    Altitudes <- MCAltitudes
    Speeds <- MCSpeeds
    ClimbRates <- MCClimbRates
    TurnRates <- MCTurnRates
    GroundTracks <- MCGroundTracks
    AircraftTypes <- MCAircraftTypes
    Temperatures <- MCTemperatures
    Headings <- MCHeadings
    WindSpeeds <- MCWindSpeeds
    Humidities <- MCHumidities
    Pressures <- MCPressures
    Batteries <- MCBatteries
    ExtendedHeaders <- MCExtendedHeaders
    GroundLatitudes <- MCGroundLatitudes
    GroundLongitudes <- MCGroundLongitudes
    GroundTypes <- MCGroundTypes
    Unknowns <- MCUnknowns
    Addresses <- MCAddresses
    Signatures <- MCSignatures
    Texts <- MCTexts
    SubHeaders <- MCSubHeaders
    Reports <- MCReports
    Heard <- MCHeard
    Parallels <- MCParallels
    Meridians <- MCMeridians
    MaxFrameSize = 2
    MAC_CODING48_THRESHOLD = 8
    MAC_TX_MINPREAMBLEHEADERTIME_MS = 15
    MAC_TX_TIMEPERBYTE_MS = 2
    MAX_BYTES = 255
    MAX_NEIGHBOURS = 9
