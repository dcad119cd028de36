\* Two messages to one device, one after the other, on a free channel.
SPECIFICATION Spec
CONSTANTS
    Address <- MCAddress
    FANET_MAX_NEIGHBORS = 3
    NEIGHBOR_MAX_TIMEOUT_MS = 60
    TICK_MOD = 128
    BROADCAST = All
    Payload <- MCPayload
    NO_PAYLOAD = Nothing
    Rssis <- Weak
    MAX_BLOCKS = 3
    MAC_TX_RETRANSMISSION_RETRYS = 3
    MAC_TX_RETRANSMISSION_TIME = 10
    MAC_TX_ACKTIMEOUT = 10
    MAC_FORWARD_MAX_RSSI_DBM <- ForwardMaxRssi
    MAC_FORWARD_MIN_DB_BOOST = 20
    MAC_MAXNEIGHBORS_4_TRACKING_2HOP = 3
    TX_TIME = 1
    ForwardDelays <- Delays
    BackoffDelays <- NoBackoff
    MAX_INPUTS = 40
    A = A
    B = B
    C = C
    All = All
    Hello = Hello
    Answer = Answer
    Nothing = Nothing
    Links <- Triangle
    Known <- Everybody
    Packets <- TwoToB
    PATIENT = TRUE
    LOSSLESS = TRUE
    RESTARTS = 0
    LAST_SEND = 8
    LAST_TICK = 24
INVARIANTS
    ReportedWasReceived
CHECK_DEADLOCK FALSE
