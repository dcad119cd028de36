-------------------------------- MODULE Network --------------------------------
(****************************************************************************)
(* Three devices A, B and C that run the protocol engine (Protocol, one     *)
(* instance each) over a shared radio channel. A frame one of them sends is *)
(* heard by any of the devices in its range, or by all of them when the     *)
(* channel is lossless, and waits there until the application gives it to   *)
(* handleRx. A device may be restarted, and then has lost its pool and its  *)
(* neighbours. One clock serves all: it stands still in the runs that are   *)
(* about the order of events, and runs in those about time.                 *)
(*                                                                          *)
(* The packets to be sent and the restarts are bounded, the frames are not: *)
(* that a few packets do not keep the network busy for ever is one of the   *)
(* properties.                                                              *)
(****************************************************************************)
EXTENDS Integers, FiniteSets, Sequences, Functions

\* The constants of the devices.
CONSTANTS
    Address, FANET_MAX_NEIGHBORS, NEIGHBOR_MAX_TIMEOUT_MS, TICK_MOD,
    BROADCAST, Payload, NO_PAYLOAD, Rssis, MAX_BLOCKS,
    MAC_TX_RETRANSMISSION_RETRYS, MAC_TX_RETRANSMISSION_TIME, MAC_TX_ACKTIMEOUT,
    MAC_FORWARD_MAX_RSSI_DBM, MAC_FORWARD_MIN_DB_BOOST,
    MAC_MAXNEIGHBORS_4_TRACKING_2HOP, TX_TIME, ForwardDelays, BackoffDelays,
    MAX_INPUTS          \* Larger than the calls that can be made

CONSTANTS
    A, B, C,            \* The devices
    Links,              \* The pairs {d, e} of devices in range of each other
    Known,              \* The devices their neighbours have heard before
    Packets,            \* The packets to be sent, each by its source, once
    PATIENT,            \* Whether a device sends when its pool is empty only
    LOSSLESS,           \* Whether the channel is free and every frame is heard
    RESTARTS,           \* Bound of the model: restarts of a device
    LAST_SEND,          \* Bounds of the model: when packets are sent,
    LAST_TICK           \* and how long the clock runs

Devices == {A, B, C}
address == [d \in Devices |-> d]     \* ownAddress_, set once
BootTick == 1           \* 0 means unknown to lastSeen()

ASSUME NetworkAssumption ==
    /\ Cardinality(Devices) = 3 /\ Devices \subseteq Address
    /\ Links \subseteq SUBSET Devices
    /\ Known \subseteq Devices
    /\ \A p \in Packets : p.source \in Devices
    /\ \A p, q \in Packets : p.payload = q.payload => p = q
    /\ PATIENT \in BOOLEAN /\ LOSSLESS \in BOOLEAN
    /\ RESTARTS \in Nat
    /\ LAST_TICK \in BootTick .. TICK_MOD - 1
    /\ LAST_SEND \in BootTick .. LAST_TICK

VARIABLES
    poolA, poolB, poolC,        \* txPool
    tableA, tableB, tableC,     \* neighborTable_
    nextA, nextB, nextC,        \* cmcaNextTx
    sentA, sentB, sentC         \* How often each queued frame was sent

VARIABLES
    tick,
    air, acked, reported,       \* What the last step of any device did
    inputs,                     \* Calls made so far, numbers the arrivals of all
    inbox,                      \* Device -> frames heard and not yet handled
    unsent,                     \* The packets still to be sent
    restarts,
    delivered,                  \* History: payloads that came to their receivers
    confirmed,                  \* History: payloads whose ACK was reported
    shots                       \* History: how often each device sent a payload

common == <<tick, air, acked, reported, inputs>>
stateA == <<poolA, tableA, nextA, sentA>>
stateB == <<poolB, tableB, nextB, sentB>>
stateC == <<poolC, tableC, nextC, sentC>>
vars == <<stateA, stateB, stateC, common, inbox, unsent, restarts,
          delivered, confirmed, shots>>

DeviceA == INSTANCE Protocol WITH
    txPool <- poolA, neighborTable_ <- tableA, cmcaNextTx <- nextA, sent <- sentA,
    ownAddress_ <- address[A], carrierBackoffExp <- 0,
    DEFAULT_ADDRESS <- A, NewAddresses <- {}, Reserved <- {BROADCAST},
    AppPackets <- {}, RxFrames <- {}, StrictModes <- {TRUE}, SendTimes <- {0},
    BootTicks <- {BootTick}, MAC_TX_BACKOFF_EXP_MIN <- 0, MAC_TX_BACKOFF_EXP_MAX <- 0
DeviceB == INSTANCE Protocol WITH
    txPool <- poolB, neighborTable_ <- tableB, cmcaNextTx <- nextB, sent <- sentB,
    ownAddress_ <- address[B], carrierBackoffExp <- 0,
    DEFAULT_ADDRESS <- B, NewAddresses <- {}, Reserved <- {BROADCAST},
    AppPackets <- {}, RxFrames <- {}, StrictModes <- {TRUE}, SendTimes <- {0},
    BootTicks <- {BootTick}, MAC_TX_BACKOFF_EXP_MIN <- 0, MAC_TX_BACKOFF_EXP_MAX <- 0
DeviceC == INSTANCE Protocol WITH
    txPool <- poolC, neighborTable_ <- tableC, cmcaNextTx <- nextC, sent <- sentC,
    ownAddress_ <- address[C], carrierBackoffExp <- 0,
    DEFAULT_ADDRESS <- C, NewAddresses <- {}, Reserved <- {BROADCAST},
    AppPackets <- {}, RxFrames <- {}, StrictModes <- {TRUE}, SendTimes <- {0},
    BootTicks <- {BootTick}, MAC_TX_BACKOFF_EXP_MIN <- 0, MAC_TX_BACKOFF_EXP_MAX <- 0

-----------------------------------------------------------------------------

InRange(d) == {e \in Devices \ {d} : {d, e} \in Links}

\* What the devices assume of their constants; the packets are what an
\* application can build, and their payloads tell them from ACKs.
ASSUME DevicesAssumption ==
    /\ DeviceA!AddressAssumption /\ DeviceB!AddressAssumption /\ DeviceC!AddressAssumption
    /\ DeviceA!InputAssumption /\ DeviceA!TimingAssumption /\ DeviceA!TableAssumption
    /\ Packets \subseteq DeviceA!AppPacket
    /\ \A p \in Packets : p.type # "ACK" /\ p.payload # NO_PAYLOAD
    /\ \A d \in Devices : Cardinality(InRange(d) \cap Known) <= FANET_MAX_NEIGHBORS
pool == [d \in Devices |-> IF d = A THEN poolA ELSE IF d = B THEN poolB ELSE poolC]
Messages == Payload \ {NO_PAYLOAD}

OthersStay(d) ==
    /\ d # A => UNCHANGED stateA
    /\ d # B => UNCHANGED stateB
    /\ d # C => UNCHANGED stateC

HeardBefore(d) == [e \in InRange(d) \cap Known |-> BootTick]

Init ==
    /\ poolA = <<>> /\ poolB = <<>> /\ poolC = <<>>
    /\ sentA = <<>> /\ sentB = <<>> /\ sentC = <<>>
    /\ tableA = HeardBefore(A) /\ tableB = HeardBefore(B) /\ tableC = HeardBefore(C)
    /\ nextA = 0 /\ nextB = 0 /\ nextC = 0
    /\ tick = BootTick
    /\ air = DeviceA!Silence /\ acked = {} /\ reported = {}
    /\ inputs = 0
    /\ inbox = [d \in Devices |-> <<>>]
    /\ unsent = Packets
    /\ restarts = 0
    /\ delivered = {} /\ confirmed = {}
    /\ shots = [d \in Devices |-> [m \in Messages |-> 0]]

(* The application of a device sends a packet. *)
Send(p) ==
    /\ p \in unsent
    /\ PATIENT => pool[p.source] = <<>>
    /\ unsent' = unsent \ {p}
    /\ \/ p.source = A /\ DeviceA!SendPacket(p, TRUE)
       \/ p.source = B /\ DeviceB!SendPacket(p, TRUE)
       \/ p.source = C /\ DeviceC!SendPacket(p, TRUE)
    /\ OthersStay(p.source)
    /\ UNCHANGED <<inbox, restarts, delivered, confirmed, shots>>

\* On a quiet channel airtime does not keep a device from relaying.
table == [d \in Devices |-> IF d = A THEN tableA ELSE IF d = B THEN tableB ELSE tableC]
RelaysIfAsked(d, f, rssi) ==
    f.source # d /\ DeviceA!Relayable(f, rssi, table'[d]) =>
        \E n \in DOMAIN pool'[d] : DeviceA!Matches(pool'[d][n], f)

(* A device handles a frame it heard, which was weak or strong. *)
Receive(d) ==
    /\ inbox[d] # <<>>
    /\ LET f == Head(inbox[d])
       IN  /\ \E rssi \in Rssis :
                 /\ \/ d = A /\ DeviceA!HandleRx(f, rssi)
                    \/ d = B /\ DeviceB!HandleRx(f, rssi)
                    \/ d = C /\ DeviceC!HandleRx(f, rssi)
                 /\ OthersStay(d)
                 /\ LOSSLESS => RelaysIfAsked(d, f, rssi)
           /\ delivered' = IF f.destination \in {d, BROADCAST}
                           THEN delivered \cup {<<d, f.payload>>} ELSE delivered
    /\ inbox' = [inbox EXCEPT ![d] = Tail(@)]
    /\ confirmed' = confirmed \cup
          {pool[d][n].payload : n \in {m \in DOMAIN pool[d] : pool[d][m].id \in reported'}}
    /\ UNCHANGED <<unsent, restarts, shots>>

OnAir(f) == [source |-> f.source, destination |-> f.destination, type |-> f.type,
             ackType |-> f.ackType, forward |-> f.forward, payload |-> f.payload]

\* What the other devices hear of a frame; the channel loses it for some.
Heard(d, f) ==
    \E S \in IF LOSSLESS THEN {InRange(d)} ELSE SUBSET InRange(d) :
        inbox' = [e \in Devices |->
                    IF e \in S THEN Append(inbox[e], OnAir(f)) ELSE inbox[e]]

\* What the radio may say to a position; it stays in no pool either way.
Accepted == IF LOSSLESS THEN {TRUE} ELSE BOOLEAN

HandleTx(d) ==
    \/ /\ d = A
       /\ \/ DeviceA!HandleTxNothing
          \/ \E ok \in Accepted : DeviceA!HandleTxTracking(ok)
          \/ DeviceA!HandleTxSent
          \/ ~LOSSLESS /\ DeviceA!HandleTxBusy
    \/ /\ d = B
       /\ \/ DeviceB!HandleTxNothing
          \/ \E ok \in Accepted : DeviceB!HandleTxTracking(ok)
          \/ DeviceB!HandleTxSent
          \/ ~LOSSLESS /\ DeviceB!HandleTxBusy
    \/ /\ d = C
       /\ \/ DeviceC!HandleTxNothing
          \/ \E ok \in Accepted : DeviceC!HandleTxTracking(ok)
          \/ DeviceC!HandleTxSent
          \/ ~LOSSLESS /\ DeviceC!HandleTxBusy

(* A device polls handleTx, with something in its pool. *)
Transmit(d) ==
    /\ HandleTx(d)
    /\ OthersStay(d)
    /\ IF air'.sent
       THEN LET f == air'.frame
            IN  /\ Heard(d, f)
                /\ shots' = IF f.payload = NO_PAYLOAD THEN shots
                            ELSE [shots EXCEPT ![d][f.payload] = @ + 1]
       ELSE UNCHANGED <<inbox, shots>>
    /\ UNCHANGED <<unsent, restarts, delivered, confirmed>>

(* A device is initialised again. *)
Restart(d) ==
    /\ restarts < RESTARTS
    /\ restarts' = restarts + 1
    /\ \/ d = A /\ DeviceA!Reinit
       \/ d = B /\ DeviceB!Reinit
       \/ d = C /\ DeviceC!Reinit
    /\ OthersStay(d)
    /\ UNCHANGED <<inbox, unsent, delivered, confirmed, shots>>

(* Time passes when nobody has anything left to do at this tick: a device   *)
(* is polled often and handles what it hears at once.                       *)
Idle(d) ==
    /\ inbox[d] = <<>>
    /\ \A f \in {pool[d][n] : n \in DOMAIN pool[d]} :
          ~DeviceA!TimeReached(tick, f.nextTx)
          \/ ~DeviceA!TimeReached(tick, IF d = A THEN nextA ELSE IF d = B THEN nextB ELSE nextC)

TimePasses ==
    /\ tick < LAST_TICK
    /\ tick < LAST_SEND \/ unsent = {}
    /\ \A d \in Devices : Idle(d)
    /\ tick' = tick + 1
    /\ air' = DeviceA!Silence /\ acked' = {} /\ reported' = {}
    /\ UNCHANGED <<stateA, stateB, stateC, inputs, inbox, unsent, restarts,
                   delivered, confirmed, shots>>

Next ==
    \/ \E p \in Packets : Send(p)
    \/ \E d \in Devices : Receive(d) \/ Transmit(d) \/ Restart(d)
    \/ TimePasses

Spec == Init /\ [][Next]_vars

(* Some device that has something to do does it in the end: an application  *)
(* sends, a device handles what it heard, a frame leaves a pool or is sent  *)
(* when its device polls and the channel is free; and the clock runs.       *)
Progress(d) == Transmit(d) /\ (air'.sent \/ DOMAIN pool'[d] # DOMAIN pool[d])

Fairness ==
    /\ WF_vars(\E p \in Packets : Send(p))
    /\ WF_vars(\E d \in Devices : Receive(d))
    /\ WF_vars(\E d \in Devices : Progress(d))
    /\ WF_vars(TimePasses)

FairSpec == Spec /\ Fairness

-----------------------------------------------------------------------------

TypeOK ==
    /\ DeviceA!TypeOK /\ DeviceB!TypeOK /\ DeviceC!TypeOK
    /\ inbox \in [Devices -> Seq(DeviceA!RadioFrame)]
    /\ unsent \subseteq Packets
    /\ restarts \in 0 .. RESTARTS
    /\ delivered \subseteq Devices \X Payload
    /\ confirmed \subseteq Payload

Delivered(p) == <<p.destination, p.payload>> \in delivered

\* The only packet that asks its destination for an ACK to its source.
Alone(p) ==
    \A q \in Packets \ {p} :
        q.ackType # "NONE" /\ q.source = p.source =>
            q.destination \notin {p.destination, BROADCAST}

(* An ACK says no more than who sent it to whom. Yet an application that    *)
(* waits for one packet to a device at a time is told the truth: whatever   *)
(* is lost, relayed, repeated or restarted, a packet whose ACK is reported  *)
(* was handled by the device it went to.                                    *)
ConfirmedWasDelivered ==
    \A p \in Packets : Alone(p) /\ p.payload \in confirmed => Delivered(p)

(* No device sends a packet of another one on more often than that one sent *)
(* it, and that one sends it no more often than it may: relays do not feed  *)
(* each other, however the copies are lost, delayed and heard again.        *)
RelaysFollowTheSource ==
    \A p \in Packets, d \in Devices :
        /\ shots[d][p.payload] <= shots[p.source][p.payload]
        /\ shots[p.source][p.payload] <=
              IF p.ackType = "NONE" THEN 1 ELSE MAC_TX_RETRANSMISSION_RETRYS

(* A few packets do not keep the network busy for ever: the pools are empty *)
(* in the end, and no device hears anything more.                           *)
NetworkFallsSilent ==
    <>[](\A d \in Devices : pool[d] = <<>> /\ inbox[d] = <<>>)

(* On a free channel that loses nothing the times fit together: a message   *)
(* is confirmed, also through a relay that waits before it sends on and     *)
(* before it sends the ACK back, and no sender loses patience before.       *)
SentOnce == \A p \in Packets : shots[p.source][p.payload] <= 1
ConfirmedInTheEnd ==
    \A p \in Packets : p.ackType # "NONE" => <>(p.payload \in confirmed)

(* The README: "When received by 0x08158C and ack is send back,             *)
(* fanet_ackReceived will be called with the id of 12". No packet that was  *)
(* not received is reported.                                                *)
ReportedWasReceived ==
    \A p \in Packets : p.payload \in confirmed => Delivered(p)

=============================================================================
