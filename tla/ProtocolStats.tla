----------------------------- MODULE ProtocolStats -----------------------------
(****************************************************************************)
(* What the protocol engine says of its relaying: the counters it keeps     *)
(* beside the work (Stats in include/fanet/protocol.hpp), compared with     *)
(* what became of the frames of others. Every step is a step of Protocol.   *)
(*                                                                          *)
(* Of the thirteen counters those about frames taken into the pool are      *)
(* here: the others count calls and refusals one by one.                    *)
(****************************************************************************)
EXTENDS Protocol

CONSTANT COUNTER_MOD        \* Values of a counter: 2^32 in the code

ASSUME CounterAssumption == COUNTER_MOD \in Nat \ {0}

VARIABLES
    stats_,     \* forwarded and fwdDbBoostDrop
    passedOn    \* History: the relayed frames that were sent

statsVars == <<vars, stats_, passedOn>>

-----------------------------------------------------------------------------

StatsInit ==
    /\ Init
    /\ stats_ = [forwarded |-> 0, fwdDbBoostDrop |-> 0]
    /\ passedOn = 0

Count(name) == stats_' = [stats_ EXCEPT ![name] = (@ + 1) % COUNTER_MOD]

\* Mutant: the frame is counted as dropped when it only waits again.
StatsRxEchoDrops(f, rssi) ==
    /\ RxEcho(f, rssi)
    /\ Count("fwdDbBoostDrop")
    /\ UNCHANGED passedOn

(* handleRx() of a frame that is queued. *)
StatsRxEcho(f, rssi) ==
    /\ RxEcho(f, rssi)
    /\ IF DOMAIN txPool' # DOMAIN txPool THEN Count("fwdDbBoostDrop") ELSE UNCHANGED stats_
    /\ UNCHANGED passedOn

\* A frame that is relayed is counted, whether the pool takes it or not.
Forwards(f, rssi) ==
    /\ Relayable(f, rssi, neighborTable_')
    /\ \E delay \in ForwardDelays :
          txPool' = AfterAdd(Answered(f), RelayArrival, RelayFrame(f, rssi, delay))
    /\ Count("forwarded")
KeepsBack(f) ==
    /\ txPool' = Answered(f)
    /\ UNCHANGED stats_

(* handleRx() of another frame; that airtime keeps it back is possible. *)
StatsRxNew(f, rssi) ==
    /\ RxNew(f, rssi)
    /\ Forwards(f, rssi) \/ KeepsBack(f)
    /\ UNCHANGED passedOn

ByOthers(f) == ~f.self /\ f.source # ownAddress_

(* handleTx(), when the radio takes a frame. *)
StatsSent ==
    /\ HandleTxSent
    /\ passedOn' = IF ByOthers(air'.frame) THEN passedOn + 1 ELSE passedOn
    /\ UNCHANGED stats_

StatsNext ==
    \/ /\ \/ \E p \in AppPackets, strict \in StrictModes : SendPacket(p, strict)
          \/ \E a \in NewAddresses : SetOwnAddress(a)
          \/ Reinit
          \/ HandleTxWaits
          \/ HandleTxNothing
          \/ \E ok \in BOOLEAN : HandleTxTracking(ok)
          \/ HandleTxBusy
          \/ TimePasses
       /\ UNCHANGED <<stats_, passedOn>>
    \/ \E f \in RxFrames, rssi \in Rssis :
          \/ RxFromUs(f) /\ UNCHANGED <<stats_, passedOn>>
          \/ StatsRxEcho(f, rssi)
          \/ StatsRxNew(f, rssi)
    \/ StatsSent

StatsSpec == StatsInit /\ [][StatsNext]_statsVars

-----------------------------------------------------------------------------

\* The frames of others that wait to be relayed.
RelaysWaiting == {n \in DOMAIN txPool : ByOthers(txPool[n])}

(* As long as no counter wraps and the address stays: no frame of another   *)
(* device is relayed that was not counted, nor twice; those that wait, that *)
(* were sent and that were dropped for a good echo are all in forwarded.    *)
(* The counter may be higher: it counts frames the full pool refused, too.  *)
RelaysAreCounted ==
    inputs < COUNTER_MOD =>
        Cardinality(RelaysWaiting) + passedOn + stats_.fwdDbBoostDrop <= stats_.forwarded

=============================================================================
