\* A clock that starts in its upper half.
SPECIFICATION StatsSpec
CONSTANTS
    All = All
    A = A
    B = B
    C = C
    Nothing = Nothing
    Data = Data
    Address <- MCAddress
    BROADCAST = All
    Reserved <- MCReserved
    DEFAULT_ADDRESS = A
    NewAddresses <- NoAddress
    Payload <- MCPayload
    NO_PAYLOAD = Nothing
    AppPackets <- OwnPackets
    StrictModes = {TRUE}
    RxFrames <- NoFrames
    Rssis <- WeakAndStrong
    FANET_MAX_NEIGHBORS = 2
    NEIGHBOR_MAX_TIMEOUT_MS = 1
    TICK_MOD = 4
    MAX_BLOCKS = 2
    MAC_TX_RETRANSMISSION_RETRYS = 3
    MAC_TX_RETRANSMISSION_TIME = 1
    MAC_TX_ACKTIMEOUT = 1
    MAC_TX_BACKOFF_EXP_MIN = 0
    MAC_TX_BACKOFF_EXP_MAX = 0
    MAC_FORWARD_MAX_RSSI_DBM <- ForwardMaxRssi
    MAC_FORWARD_MIN_DB_BOOST = 20
    MAC_MAXNEIGHBORS_4_TRACKING_2HOP = 1
    TX_TIME = 1
    ForwardDelays <- NoDelay
    BackoffDelays <- NoBackoff
    SendTimes <- InNoTime
    BootTicks <- UpperHalf
    COUNTER_MOD = 4
    MAX_INPUTS = 3
INVARIANTS
    FreshDeviceMaySend
