\* A message through the relay and a broadcast, with losses and a restart.
SPECIFICATION FairSpec
CONSTANTS
    Address <- MCAddress
    FANET_MAX_NEIGHBORS = 2
    NEIGHBOR_MAX_TIMEOUT_MS = 1
    TICK_MOD = 4
    BROADCAST = All
    Payload <- MCPayload
    NO_PAYLOAD = Nothing
    Rssis <- Weak
    MAX_BLOCKS = 2
    MAC_TX_RETRANSMISSION_RETRYS = 1
    MAC_TX_RETRANSMISSION_TIME = 0
    MAC_TX_ACKTIMEOUT = 0
    MAC_FORWARD_MAX_RSSI_DBM <- ForwardMaxRssi
    MAC_FORWARD_MIN_DB_BOOST = 20
    MAC_MAXNEIGHBORS_4_TRACKING_2HOP = 3
    TX_TIME = 0
    ForwardDelays <- AtOnce
    BackoffDelays <- NoBackoff
    MAX_INPUTS = 40
    A = A
    B = B
    C = C
    All = All
    Hello = Hello
    Answer = Answer
    Nothing = Nothing
    Links <- Line
    Known <- Everybody
    Packets <- MessageAndBroadcast
    PATIENT = FALSE
    LOSSLESS = FALSE
    RESTARTS = 1
    LAST_SEND = 1
    LAST_TICK = 1
INVARIANTS
    TypeOK
    ConfirmedWasDelivered
    RelaysFollowTheSource
PROPERTIES
    NetworkFallsSilent
CHECK_DEADLOCK FALSE
