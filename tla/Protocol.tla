------------------------------- MODULE Protocol -------------------------------
(****************************************************************************)
(* The protocol engine of one device (include/fanet/protocol.hpp): the pool *)
(* of frames waiting for the radio, the neighbours heard, retransmission    *)
(* until an ACK, the answers to received frames and the relaying of other   *)
(* devices' frames. The application, the radio and the clock are the        *)
(* environment: the arguments of the actions and what they choose.          *)
(*                                                                          *)
(* An action is a whole call of a public method. The pool is a function     *)
(* from arrival numbers to frames: a frame keeps its number until it        *)
(* leaves, and the order of the numbers is the order of the pool's vector.  *)
(* A frame fills one block, so that the pool refuses a frame exactly when   *)
(* MAX_BLOCKS are stored (BlockAllocator models the blocks of longer ones). *)
(****************************************************************************)
EXTENDS NeighbourOps

CONSTANTS
    BROADCAST,          \* Address{}, the destination of a frame to everybody
    Reserved,           \* The addresses ownAddress() refuses
    DEFAULT_ADDRESS,    \* ownAddress_ before the application sets it
    NewAddresses,       \* The addresses the application sets
    Payload,            \* What a frame carries
    NO_PAYLOAD,         \* What an ACK carries
    AppPackets,         \* The packets the application sends
    StrictModes,        \* The values it gives to sendPacket's strict
    RxFrames,           \* The frames the radio receives
    Rssis               \* The signal strengths it receives them with, in dBm

CONSTANTS
    MAX_BLOCKS,                         \* Capacity of txPool, in frames
    MAC_TX_RETRANSMISSION_RETRYS,
    MAC_TX_RETRANSMISSION_TIME,
    MAC_TX_ACKTIMEOUT,
    MAC_TX_BACKOFF_EXP_MIN,
    MAC_TX_BACKOFF_EXP_MAX,
    MAC_FORWARD_MAX_RSSI_DBM,
    MAC_FORWARD_MIN_DB_BOOST,
    MAC_MAXNEIGHBORS_4_TRACKING_2HOP,
    TX_TIME,            \* MAC_TX_MINPREAMBLEHEADERTIME_MS and the bytes' time
    ForwardDelays,      \* MAC_FORWARD_DELAY_MIN .. MAC_FORWARD_DELAY_MAX
    BackoffDelays,      \* The delays of a backoff exponent
    SendTimes,          \* What the clock may advance by in fanet_sendFrame
    BootTicks,          \* What the clock may show at the start
    MAX_INPUTS          \* Bound of the model: calls other than handleTx

Types == {"TRACKING", "ACK", "OTHER"}       \* GROUND_TRACKING is TRACKING too
AckTypes == {"NONE", "SINGLEHOP", "TWOHOP", "RESERVED"}

\* The bytes of a frame; the application may give a packet an id.
RadioFrame == [source : Address, destination : Address, type : Types,
               ackType : AckTypes, forward : BOOLEAN, payload : Payload]
AppPacket == [source : Address, destination : Address, type : Types,
              ackType : AckTypes, forward : BOOLEAN, payload : Payload,
              tagged : BOOLEAN]

ASSUME AddressAssumption ==
    /\ BROADCAST \in Reserved
    /\ DEFAULT_ADDRESS \in Address \ Reserved
    /\ NewAddresses \subseteq Address
    /\ NO_PAYLOAD \in Payload

\* No device sends from the broadcast address. Packet::build() makes no ACK.
ASSUME InputAssumption ==
    /\ AppPackets \subseteq AppPacket
    /\ \A p \in AppPackets : p.type # "ACK"
    /\ StrictModes \subseteq BOOLEAN
    /\ RxFrames \subseteq RadioFrame
    /\ \A f \in RxFrames : f.source # BROADCAST
    /\ Rssis \subseteq Int
    /\ MAX_INPUTS \in Nat

ASSUME TimingAssumption ==
    /\ MAX_BLOCKS \in Nat
    /\ MAC_TX_RETRANSMISSION_RETRYS \in 1 .. 7
    /\ MAC_TX_RETRANSMISSION_TIME \in Nat
    /\ MAC_TX_ACKTIMEOUT \in Nat
    /\ MAC_TX_BACKOFF_EXP_MIN \in Nat
    /\ MAC_TX_BACKOFF_EXP_MAX \in Nat
    /\ MAC_TX_BACKOFF_EXP_MIN <= MAC_TX_BACKOFF_EXP_MAX
    /\ MAC_FORWARD_MAX_RSSI_DBM \in Int
    /\ MAC_FORWARD_MIN_DB_BOOST \in Int
    /\ MAC_MAXNEIGHBORS_4_TRACKING_2HOP \in Nat
    /\ TX_TIME \in Nat
    /\ ForwardDelays \subseteq Nat
    /\ \A e \in MAC_TX_BACKOFF_EXP_MIN .. MAC_TX_BACKOFF_EXP_MAX :
            BackoffDelays[e] \subseteq Nat
    /\ SendTimes \subseteq Nat
    /\ BootTicks \subseteq Ticks

VARIABLES
    txPool,             \* Arrival number -> frame
    neighborTable_,     \* Address -> lastSeen
    ownAddress_,
    cmcaNextTx,         \* No transmission before this tick
    carrierBackoffExp,
    tick,               \* What fanet_getTick() returns
    air,                \* What this step gave to fanet_sendFrame, or Silence
    inputs,             \* Calls made so far, numbers the arrivals
    sent,               \* History: how often each queued frame was sent
    acked,              \* The ids of the sent packets an ACK settled in this step
    reported            \* The ids this step gave to fanet_ackReceived

vars == <<txPool, neighborTable_, ownAddress_, cmcaNextTx, carrierBackoffExp,
          tick, air, inputs, sent, acked, reported>>

-----------------------------------------------------------------------------
(* Frames and the pool.                                                     *)

\* A signal strength is kept in a signed byte.
Int8(v) == ((v + 128) % 256) - 128

TxFrame(f, self, id, numTx, nextTx, rssi) ==
    [source |-> f.source, destination |-> f.destination, type |-> f.type,
     ackType |-> f.ackType, forward |-> f.forward, payload |-> f.payload,
     self |-> self, id |-> id, numTx |-> numTx, nextTx |-> nextTx, rssi |-> Int8(rssi)]

Silence == [sent |-> FALSE]

OwnTracking(f) == f.self /\ f.type = "TRACKING"

\* A mutant: the tick itself is not reached.
TimePassed(now, time) == now # time /\ 2 * ((now - time) % TICK_MOD) < TICK_MOD

\* timeReached(): the difference of two ticks as an int32_t.
TimeReached(now, time) == 2 * ((now - time) % TICK_MOD) < TICK_MOD

Later(delay) == (tick + delay) % TICK_MOD

\* A mutant: the pool takes one frame too many.
AddToFull(pool, n, f) ==
    IF Cardinality(DOMAIN pool) <= MAX_BLOCKS
    THEN [m \in DOMAIN pool \cup {n} |-> IF m = n THEN f ELSE pool[m]]
    ELSE pool

\* TxPool::add() and remove().
AfterAdd(pool, n, f) ==
    IF Cardinality(DOMAIN pool) < MAX_BLOCKS
    THEN [m \in DOMAIN pool \cup {n} |-> IF m = n THEN f ELSE pool[m]]
    ELSE pool
Without(pool, S) == Restrict(pool, DOMAIN pool \ S)

\* The numbers of the frames a call adds: its own answer, and a relayed frame.
Arrival == 2 * (inputs + 1)
RelayArrival == Arrival + 1

\* An extended header makes a frame longer.
HasExtendedHeader(f) == f.destination # BROADCAST \/ f.ackType # "NONE"

\* A mutant: the forward bit is compared.
MatchesBytes(f, other) ==
    /\ f.source = other.source /\ f.destination = other.destination
    /\ f.type = other.type /\ f.ackType = other.ackType
    /\ f.forward = other.forward /\ f.payload = other.payload

\* frameInTxPool(): neither the forward bit nor the kind of ACK is compared.
Matches(f, other) ==
    /\ f.source = other.source
    /\ HasExtendedHeader(f) <=> HasExtendedHeader(other)
    /\ f.destination = other.destination
    /\ f.type = other.type
    /\ f.payload = other.payload
FrameInTxPool(other) ==
    {n \in DOMAIN txPool :
        /\ Matches(txPool[n], other)
        /\ \A m \in DOMAIN txPool : Matches(txPool[m], other) => n <= m}

(* getNextTxFrame(): the best priority, then the lowest nextTx as a number, *)
(* then the first in the pool. The search starts as if it had a frame of    *)
(* priority 4 with the highest nextTx.                                      *)
Priority(f) ==
    CASE f.self -> 1
      [] ~f.self /\ f.type = "TRACKING" -> 2
      [] ~f.self /\ f.type = "ACK" -> 3
      [] OTHER -> 4
Due(f) == TimeReached(tick, f.nextTx)

Pickable(f) == Due(f) /\ (Priority(f) < 4 \/ f.nextTx < TICK_MOD - 1)
Precedes(pool, m, n) ==
    \/ Priority(pool[m]) < Priority(pool[n])
    \/ /\ Priority(pool[m]) = Priority(pool[n])
       /\ \/ pool[m].nextTx < pool[n].nextTx
          \/ pool[m].nextTx = pool[n].nextTx /\ m < n
NextTxFrame(pool) ==
    {n \in DOMAIN pool :
        /\ Pickable(pool[n])
        /\ \A m \in DOMAIN pool : Pickable(pool[m]) => ~Precedes(pool, m, n)}

\* A mutant: given up once the count has gone below 0.
NeverAckedBelow(f) == ~OwnTracking(f) /\ f.ackType # "NONE" /\ f.numTx < 0

\* The frames that one call of handleTx, which calls itself after each,
\* throws away because all their transmissions were made and no ACK came.
NeverAcked(f) == ~OwnTracking(f) /\ f.ackType # "NONE" /\ f.numTx = 0
GivenUp ==
    {n \in DOMAIN txPool :
        /\ Pickable(txPool[n]) /\ NeverAcked(txPool[n])
        /\ \A m \in DOMAIN txPool :
              Pickable(txPool[m]) /\ Precedes(txPool, m, n) => NeverAcked(txPool[m])}
Remaining == Without(txPool, GivenUp)

-----------------------------------------------------------------------------

Init ==
    /\ txPool = [n \in {} |-> 0]
    /\ neighborTable_ = NoNeighbours
    /\ ownAddress_ = DEFAULT_ADDRESS
    /\ cmcaNextTx = 0
    /\ carrierBackoffExp = MAC_TX_BACKOFF_EXP_MIN
    /\ tick \in BootTicks
    /\ air = Silence
    /\ inputs = 0
    /\ sent = [n \in {} |-> 0]
    /\ acked = {}
    /\ reported = {}

\* What every call other than handleTx does to the counters.
Input ==
    /\ inputs < MAX_INPUTS
    /\ inputs' = inputs + 1
    /\ UNCHANGED <<cmcaNextTx, carrierBackoffExp, tick>>

\* Nothing is said to the radio or to the application.
NothingSent == air' = Silence
NothingAcked == acked' = {} /\ reported' = {}

\* New frames were never sent, those that left are forgotten.
CountSent(n) ==
    sent' = [m \in DOMAIN txPool' |->
                IF m \notin DOMAIN sent THEN 0
                ELSE IF m = n THEN sent[m] + 1 ELSE sent[m]]
NoneSent == CountSent(0)

-----------------------------------------------------------------------------
(* The application's calls.                                                 *)

\* The packet as sendPacket changes it when it is strict.
StrictPacket(p) ==
    [p EXCEPT !.source = ownAddress_, !.forward = p.forward \/ p.ackType # "NONE"]

\* numTx is not initialised when strict is false: any value of its 3 bits.
NumTxOf(p, strict) ==
    IF strict
    THEN {IF p.ackType # "NONE" THEN MAC_TX_RETRANSMISSION_RETRYS ELSE 0}
    ELSE 0 .. 7

(* sendPacket(): the result of the pool's add is ignored. *)
SendPacket(p, strict) ==
    /\ Input
    /\ \E numTx \in NumTxOf(p, strict) :
          txPool' = AfterAdd(txPool, Arrival,
                        TxFrame(IF strict THEN StrictPacket(p) ELSE p, TRUE,
                                IF p.tagged THEN Arrival ELSE 0, numTx, tick, 0))
    /\ NoneSent
    /\ UNCHANGED <<neighborTable_, ownAddress_>>
    /\ NothingSent /\ NothingAcked

\* A mutant: the reserved addresses are not refused.
SetAnyAddress(a) ==
    /\ Input
    /\ ownAddress_' = a
    /\ UNCHANGED <<txPool, neighborTable_, sent>>
    /\ NothingSent /\ NothingAcked

(* ownAddress(): the frames in the pool keep the address they have. *)
SetOwnAddress(a) ==
    /\ Input
    /\ ownAddress_' = IF a \in Reserved THEN ownAddress_ ELSE a
    /\ UNCHANGED <<txPool, neighborTable_, sent>>
    /\ NothingSent /\ NothingAcked

(* init(): the state of the channel access stays. *)
Reinit ==
    /\ Input
    /\ neighborTable_' = NoNeighbours
    /\ txPool' = [n \in {} |-> 0]
    /\ NoneSent
    /\ UNCHANGED ownAddress_
    /\ NothingSent /\ NothingAcked

-----------------------------------------------------------------------------
(* handleRx(): a frame is received.                                         *)

Outdated == AfterRemoveOutdated(neighborTable_, tick)
HeardTables(f) == AfterAddOrUpdate(Outdated, f.source, tick)

(* A frame of ours comes back. *)
RxFromUs(f) ==
    /\ Input
    /\ f.source = ownAddress_
    /\ neighborTable_' = Outdated
    /\ UNCHANGED <<txPool, ownAddress_, sent>>
    /\ NothingSent /\ NothingAcked

(* A frame that is queued is heard from another device: it is removed when  *)
(* this one was much stronger, and has to wait again when it was not.       *)
RxEcho(f, rssi) ==
    /\ Input
    /\ f.source # ownAddress_
    /\ neighborTable_' \in HeardTables(f)
    /\ \E n \in FrameInTxPool(f) :
          IF rssi > txPool[n].rssi + MAC_FORWARD_MIN_DB_BOOST
          THEN txPool' = Without(txPool, {n})
          ELSE \E delay \in ForwardDelays :
                  txPool' = [txPool EXCEPT ![n].nextTx = Later(delay)]
    /\ NoneSent
    /\ UNCHANGED ownAddress_
    /\ NothingSent /\ NothingAcked

ForUs(f) == f.destination \in {BROADCAST, ownAddress_}

\* Mutants: any frame of a device settles what waits for its ACK; any ACK for us
\* settles all frames that wait for one; an ACK settles the first one alone.
AckedByAnyFrame(f) ==
    IF ForUs(f)
    THEN {n \in DOMAIN txPool :
            txPool[n].destination = f.source /\ txPool[n].ackType # "NONE"}
    ELSE {}

AckedByAnyone(f) ==
    IF ForUs(f) /\ f.type = "ACK"
    THEN {n \in DOMAIN txPool : txPool[n].ackType # "NONE"}
    ELSE {}

AckedOnce(f) ==
    {n \in AckedByAnyone(f) :
        /\ txPool[n].destination = f.source
        /\ \A m \in AckedByAnyone(f) : txPool[m].destination = f.source => n <= m}

\* removeDeleteAckedFrame(): the frames to f's source that asked for an ACK,
\* also those not sent yet and those relayed.
AckedFrames(f) ==
    IF ForUs(f) /\ f.type = "ACK"
    THEN {n \in DOMAIN txPool :
            txPool[n].destination = f.source /\ txPool[n].ackType # "NONE"}
    ELSE {}

\* A mutant: the id of the first one is kept.
FirstIds(S) == {txPool[n].id : n \in {m \in S : \A k \in S : m <= k}}

\* The id that removeDeleteAckedFrame() returns: that of the last one.
LastIds(S) == {txPool[n].id : n \in {m \in S : \A k \in S : k <= m}}

\* buildAck()
AckFrame(f) ==
    TxFrame([source |-> ownAddress_, destination |-> f.source, type |-> "ACK",
             ackType |-> "NONE", payload |-> NO_PAYLOAD,
             forward |-> f.ackType = "TWOHOP" /\ ~f.forward],
            FALSE, 0, 0, tick, 0)

\* The pool after the frame was answered: an ACK settles, a request is acked.
Answered(f) ==
    IF ForUs(f) /\ f.type # "ACK" /\ f.ackType # "NONE"
    THEN AfterAdd(txPool, Arrival, AckFrame(f))
    ELSE Without(txPool, AckedFrames(f))

\* A mutant: the forward bit stays set.
RelayUnchanged(f, rssi, delay) ==
    TxFrame(f, FALSE, 0, IF f.ackType # "NONE" THEN 1 ELSE 0, Later(delay), rssi)

\* A mutant: what is relayed is never given a transmission.
RelayWithoutCount(f, rssi, delay) ==
    TxFrame([f EXCEPT !.forward = FALSE], FALSE, 0, 0, Later(delay), rssi)

RelayFrame(f, rssi, delay) ==
    TxFrame([f EXCEPT !.forward = FALSE], FALSE, 0,
            IF f.ackType # "NONE" THEN 1 ELSE 0, Later(delay), rssi)
Relayable(f, rssi, table) ==
    /\ f.forward
    /\ rssi <= MAC_FORWARD_MAX_RSSI_DBM
    /\ f.destination = BROADCAST \/ LastSeen(table, f.destination) # 0
\* Recent airtime above a half forbids the relaying: it may or may not be.
Relayed(pool, f, rssi, table) ==
    {pool} \cup
    (IF Relayable(f, rssi, table)
     THEN {AfterAdd(pool, RelayArrival, RelayFrame(f, rssi, delay)) : delay \in ForwardDelays}
     ELSE {})

(* A frame that is not queued is heard. *)
RxNew(f, rssi) ==
    /\ Input
    /\ f.source # ownAddress_
    /\ FrameInTxPool(f) = {}
    /\ neighborTable_' \in HeardTables(f)
    /\ txPool' \in Relayed(Answered(f), f, rssi, neighborTable_')
    /\ acked' = {txPool[n].id : n \in {m \in AckedFrames(f) : sent[m] > 0}} \ {0}
    /\ reported' = LastIds(AckedFrames(f)) \ {0}
    /\ NoneSent
    /\ NothingSent
    /\ UNCHANGED ownAddress_

HandleRx(f, rssi) == RxFromUs(f) \/ RxEcho(f, rssi) \/ RxNew(f, rssi)

-----------------------------------------------------------------------------
(* handleTx(): the radio is offered at most one frame. Airtime may hold     *)
(* back every frame but our own tracking.                                   *)

\* The frame as it is sent, and as it stays in the pool.
Outgoing(f) ==
    [f EXCEPT !.forward =
        IF OwnTracking(f)
        THEN Cardinality(DOMAIN neighborTable_) < MAC_MAXNEIGHBORS_4_TRACKING_2HOP
        ELSE \/ f.forward
             \/ /\ f.destination # BROADCAST
                /\ LastSeen(neighborTable_, f.destination) = 0]

\* What the sending of a frame does to the channel access.
Spaced(from) ==
    /\ carrierBackoffExp' = MAC_TX_BACKOFF_EXP_MIN
    /\ cmcaNextTx' = (from + TX_TIME) % TICK_MOD

ClockMoves == \E spent \in SendTimes : tick' = Later(spent)

\* A mutant: the first retry comes at once.
RetryAtOnce(left) ==
    IF left > 0
    THEN MAC_TX_RETRANSMISSION_TIME * (MAC_TX_RETRANSMISSION_RETRYS - 1 - left)
    ELSE MAC_TX_ACKTIMEOUT

\* When a frame that waits for an ACK is due again, its numTx being left.
RetryAfter(left) ==
    IF left > 0
    THEN MAC_TX_RETRANSMISSION_TIME * (MAC_TX_RETRANSMISSION_RETRYS - left)
    ELSE MAC_TX_ACKTIMEOUT

TxCall ==
    /\ TimeReached(tick, cmcaNextTx)
    /\ UNCHANGED <<neighborTable_, ownAddress_, inputs>>
    /\ NothingAcked

(* It is not the time, or airtime holds the first frame back. *)
HandleTxWaits ==
    /\ \/ ~TimeReached(tick, cmcaNextTx)
       \/ \E n \in NextTxFrame(txPool) : ~OwnTracking(txPool[n])
    /\ NothingSent /\ NothingAcked
    /\ UNCHANGED <<txPool, neighborTable_, ownAddress_, cmcaNextTx,
                   carrierBackoffExp, tick, inputs, sent>>

(* No frame is due, or none after those given up. *)
HandleTxNothing ==
    /\ TxCall
    /\ NextTxFrame(Remaining) = {}
    /\ txPool' = Remaining
    /\ NothingSent
    /\ NoneSent
    /\ UNCHANGED <<cmcaNextTx, carrierBackoffExp, tick>>

(* Our own tracking leaves the pool, whether the radio accepts it or not.   *)
(* The spacing counts from the tick before the radio was called.            *)
HandleTxTracking(ok) ==
    /\ TxCall
    /\ \E n \in NextTxFrame(Remaining) :
          /\ OwnTracking(txPool[n])
          /\ air' = [sent |-> ok, frame |-> Outgoing(txPool[n])]
          /\ txPool' = Without(Remaining, {n})
    /\ Spaced(tick)
    /\ ClockMoves
    /\ NoneSent

(* The radio sends another frame: it leaves, unless it is ours and waits    *)
(* for an ACK.                                                              *)
HandleTxSent ==
    /\ TxCall
    /\ ClockMoves
    /\ Spaced(tick')
    /\ \E n \in NextTxFrame(Remaining) :
          LET f == Outgoing(txPool[n])
          IN  /\ ~OwnTracking(f)
              /\ air' = [sent |-> TRUE, frame |-> f]
              /\ txPool' =
                    IF f.ackType = "NONE" \/ f.source # ownAddress_
                    THEN Without(Remaining, {n})
                    ELSE [Remaining EXCEPT ![n] =
                            [f EXCEPT !.numTx = f.numTx - 1,
                                      !.nextTx = (tick' + RetryAfter(f.numTx - 1)) % TICK_MOD]]
              /\ CountSent(n)

\* A mutant: a refused transmission counts as one made.
HandleTxBusyCounts ==
    /\ TxCall
    /\ ClockMoves
    /\ UNCHANGED <<carrierBackoffExp, cmcaNextTx>>
    /\ \E n \in NextTxFrame(Remaining) :
          LET f == Outgoing(txPool[n])
          IN  /\ ~OwnTracking(f)
              /\ air' = [sent |-> FALSE, frame |-> f]
              /\ txPool' = [Remaining EXCEPT ![n] = [f EXCEPT !.numTx = (@ - 1) % 8]]
    /\ NoneSent

(* The radio does not accept it: the frame stays, the wait gets longer. *)
HandleTxBusy ==
    /\ TxCall
    /\ ClockMoves
    /\ carrierBackoffExp' =
          IF carrierBackoffExp < MAC_TX_BACKOFF_EXP_MAX
          THEN carrierBackoffExp + 1 ELSE carrierBackoffExp
    /\ \E delay \in BackoffDelays[carrierBackoffExp'] :
          cmcaNextTx' = (tick' + delay) % TICK_MOD
    /\ \E n \in NextTxFrame(Remaining) :
          LET f == Outgoing(txPool[n])
          IN  /\ ~OwnTracking(f)
              /\ air' = [sent |-> FALSE, frame |-> f]
              /\ txPool' = [Remaining EXCEPT ![n] = f]
    /\ NoneSent

HandleTx ==
    \/ HandleTxWaits
    \/ HandleTxNothing
    \/ \E ok \in BOOLEAN : HandleTxTracking(ok)
    \/ HandleTxSent
    \/ HandleTxBusy

-----------------------------------------------------------------------------

TimePasses ==
    /\ tick' = Later(1)
    /\ NothingSent /\ NothingAcked
    /\ UNCHANGED <<txPool, neighborTable_, ownAddress_, cmcaNextTx,
                   carrierBackoffExp, inputs, sent>>

Next ==
    \/ \E p \in AppPackets, strict \in StrictModes : SendPacket(p, strict)
    \/ \E a \in NewAddresses : SetOwnAddress(a)
    \/ Reinit
    \/ \E f \in RxFrames, rssi \in Rssis : HandleRx(f, rssi)
    \/ HandleTx
    \/ TimePasses

Spec == Init /\ [][Next]_vars

-----------------------------------------------------------------------------

Arrivals == 1 .. (2 * MAX_INPUTS + 1)

Frame == [source : Address, destination : Address, type : Types,
          ackType : AckTypes, forward : BOOLEAN, payload : Payload,
          self : BOOLEAN, id : {0} \cup Arrivals, numTx : 0 .. 7,
          nextTx : Ticks, rssi : Int]

(* Every variable has its type, the pool is never overfilled, and the       *)
(* arrival numbers still to come are larger than those of the pool.         *)
TypeOK ==
    /\ inputs \in 0 .. MAX_INPUTS
    /\ DOMAIN txPool \subseteq 1 .. (2 * inputs + 1)
    /\ txPool \in [DOMAIN txPool -> Frame]
    /\ Cardinality(DOMAIN txPool) <= MAX_BLOCKS
    /\ neighborTable_ \in Tables
    /\ Cardinality(DOMAIN neighborTable_) <= FANET_MAX_NEIGHBORS
    /\ ownAddress_ \in Address \ Reserved
    /\ cmcaNextTx \in Ticks
    /\ carrierBackoffExp \in MAC_TX_BACKOFF_EXP_MIN .. MAC_TX_BACKOFF_EXP_MAX
    /\ tick \in Ticks
    /\ sent \in [DOMAIN txPool -> Nat]
    /\ acked \subseteq Arrivals
    /\ reported \subseteq Arrivals

\* Our own frames that are repeated until an ACK comes.
WaitsForAck(f) == f.self /\ f.ackType # "NONE" /\ f.type # "TRACKING"
Waiting == {n \in DOMAIN txPool : WaitsForAck(txPool[n])}

(* Whatever the radio refuses, the ACKs that come late and the changes of   *)
(* address: the transmissions made and the numTx left of a strict packet    *)
(* always add up to MAC_TX_RETRANSMISSION_RETRYS, so that it is never sent  *)
(* more often and never given up before.                                    *)
RetryBudget ==
    \A n \in Waiting :
        sent[n] + txPool[n].numTx = MAC_TX_RETRANSMISSION_RETRYS

(* The device keeps what ReliableSend promises for the packets it waits     *)
(* with: none is lost to another frame, to an echo, to a relayed copy or to *)
(* the recursive cleanup of handleTx.                                       *)
Promise == INSTANCE ReliableSend WITH
    Messages <- Arrivals,
    RETRYS <- MAC_TX_RETRANSMISSION_RETRYS,
    waiting <- [n \in Waiting |->
                    [to |-> txPool[n].destination, attempts |-> sent[n]]]

PromiseKept == Promise!Spec

\* Why a step may end the waiting of the packet n.
Settled(n) ==
    \/ sent[n] = MAC_TX_RETRANSMISSION_RETRYS
    \/ Reinit
    \/ \E f \in RxFrames, rssi \in Rssis :
          /\ HandleRx(f, rssi)
          /\ f.type = "ACK" /\ f.source = txPool[n].destination
          /\ f.destination \in {BROADCAST, ownAddress_}

(* A packet stops waiting only when the device it went to sent an ACK to us *)
(* in this very step, when all its transmissions were made, or when the     *)
(* protocol is initialised again: an ACK settles nothing of others.         *)
LostForAReason == [][\A n \in Waiting \ Waiting' : Settled(n)]_vars

(* The id of a packet that was sent and is settled by an ACK is reported to *)
(* the application, unless a later frame for the same device waits for an   *)
(* ACK, too: then the one id that is reported is that of the last of them,  *)
(* though it was never sent, or 0 when it is relayed.                       *)
ReportedUnlessOvertaken ==
    [][ \A n \in acked' \ reported' :
            \E m \in DOMAIN txPool : /\ n < m
                                    /\ txPool[m].ackType # "NONE"
                                    /\ txPool[m].destination = txPool[n].destination ]_vars

\* Frames of other devices that wait to be sent on.
Relays == {n \in DOMAIN txPool : ~txPool[n].self /\ txPool[n].source # ownAddress_}

(* A frame heard from several neighbours is relayed once, not once for each *)
(* copy, while it is queued.                                                *)
NoDuplicateRelay ==
    \A m, n \in Relays : Matches(txPool[m], txPool[n]) => m = n

(* The device is never a neighbour of itself and so never relays a frame    *)
(* that was sent to it, nor one of its own that came back.                  *)
NotOwnNeighbour ==
    /\ ownAddress_ \notin DOMAIN neighborTable_
    /\ \A n \in DOMAIN txPool :
          ~txPool[n].self /\ txPool[n].type # "ACK" =>
              ownAddress_ \notin {txPool[n].source, txPool[n].destination}

(* A broadcast of another device is sent on with its forward bit cleared:   *)
(* no third device relays it, and it does not flood the network. The bit    *)
(* that handleTx sets again is for unicast frames alone.                    *)
BroadcastStopsHere ==
    air # Silence /\ ~air.frame.self /\ air.frame.destination = BROADCAST =>
        ~air.frame.forward

\* getNextTxFrame() does not see this frame, however long it has been due.
Overlooked(f) == Priority(f) = 4 /\ f.nextTx = TICK_MOD - 1

(* The comment of fanet_getTick(): "Does not matter if it's from epoch". A  *)
(* device nobody has used yet may send at once, whatever its clock shows.   *)
FreshDeviceMaySend == inputs = 0 => TimeReached(tick, cmcaNextTx)

=============================================================================
