\* Polled at every tick: the gate stays closed.
SPECIFICATION GatedFairSpec
CONSTANTS
    All = All
    A = A
    B = B
    Nothing = Nothing
    Data = Data
    Address <- MCAddress
    BROADCAST = All
    Reserved <- MCReserved
    DEFAULT_ADDRESS = A
    NewAddresses <- NoAddress
    Payload <- MCPayload
    NO_PAYLOAD = Nothing
    AppPackets <- Message
    StrictModes = {TRUE}
    RxFrames <- NoFrames
    Rssis <- Weak
    FANET_MAX_NEIGHBORS = 1
    NEIGHBOR_MAX_TIMEOUT_MS = 1
    TICK_MOD = 32
    MAX_BLOCKS = 2
    MAC_TX_RETRANSMISSION_RETRYS = 3
    MAC_TX_RETRANSMISSION_TIME = 1
    MAC_TX_ACKTIMEOUT = 1
    MAC_TX_BACKOFF_EXP_MIN = 0
    MAC_TX_BACKOFF_EXP_MAX = 1
    MAC_FORWARD_MAX_RSSI_DBM <- ForwardMaxRssi
    MAC_FORWARD_MIN_DB_BOOST = 20
    MAC_MAXNEIGHBORS_4_TRACKING_2HOP = 1
    TX_TIME = 3
    ForwardDelays <- ShortDelay
    BackoffDelays <- Backoffs
    SendTimes <- AtOnce
    BootTicks <- FromZero
    MAX_INPUTS = 1
    WORD = 16001
    WINDOW = 10
    MAC_CODING48_THRESHOLD = 1
    MAC_DEFAULT_TX_BACKOFF = 2
    FrameAirtimes <- Threes
    POLLING = "at every tick"
PROPERTIES
    RegularPollingSends
