---------------------------- MODULE ProtocolAirtime ----------------------------
(****************************************************************************)
(* The protocol engine with its airtime: what Protocol leaves open, whether *)
(* recent airtime holds a frame back, is decided here by the total that     *)
(* AirtimeOps computes, and handleTx returns the tick at which it asks to   *)
(* be called again. Every step is a step of Protocol, so that what is       *)
(* proved of Protocol holds here.                                           *)
(*                                                                          *)
(* The application calls handleTx at any time, at every tick, or exactly    *)
(* when the tick has come that the last call returned: the comment of       *)
(* handleTx allows regular intervals and the last.                          *)
(****************************************************************************)
EXTENDS Protocol

CONSTANTS
    WORD,                       \* Values of the uint32_t of the total
    WINDOW,                     \* The window of the airtime
    MAC_CODING48_THRESHOLD,
    MAC_DEFAULT_TX_BACKOFF,
    FrameAirtimes,              \* Coding rate -> airtime of a frame
    POLLING                     \* When handleTx is called

INSTANCE AirtimeOps

ASSUME GateAssumption ==
    /\ WINDOW \in Nat \ {0} /\ WORD \in Nat \ {0}
    /\ MAC_CODING48_THRESHOLD \in Nat
    /\ MAC_DEFAULT_TX_BACKOFF \in Nat
    /\ FrameAirtimes \in [{5, 8} -> Nat]
    /\ POLLING \in {"at any time", "at every tick", "as told"}

VARIABLES
    airtime,    \* totalAirtime and lastCleanupTime
    wake        \* When the application calls handleTx next

gatedVars == <<vars, airtime, wake>>

-----------------------------------------------------------------------------

AirtimeNow == Cleaned(airtime, tick)

\* Mutant: the gate does not close.
GateAlwaysOpen == Average(AirtimeNow) >= 0

TxGateOpen == Average(AirtimeNow) < 900
RelayGateOpen == Average(AirtimeNow) <= 500

\* sendFrame(): a frame counts whether the radio accepts it or not.
CountFrame ==
    LET codingRate == IF Cardinality(DOMAIN neighborTable_) < MAC_CODING48_THRESHOLD
                      THEN 8 ELSE 5
    IN  airtime' = Counted(airtime, tick, FrameAirtimes[codingRate])

GatedInit == Init /\ airtime = NoAirtime /\ wake = tick

(* The calls that do not look at the airtime. *)
Elsewhere == UNCHANGED <<airtime, wake>>

(* handleRx(): only a frame that could be relayed looks at the airtime. *)
GatedRxNew(f, rssi) ==
    /\ RxNew(f, rssi)
    /\ IF Relayable(f, rssi, neighborTable_')
       THEN /\ airtime' = AirtimeNow
            /\ IF RelayGateOpen
               THEN \E delay \in ForwardDelays :
                       txPool' = AfterAdd(Answered(f), RelayArrival, RelayFrame(f, rssi, delay))
               ELSE txPool' = Answered(f)
       ELSE UNCHANGED airtime
    /\ UNCHANGED wake

\* A frame that was never acked leaves the pool when the gate is open.
GivesUp == GivenUp # {} => TxGateOpen

\* What handleTx returns, and what the application makes of it.
Returns(next) ==
    wake' = CASE POLLING = "at any time" -> wake
              [] POLLING = "at every tick" -> Later(1)
              [] POLLING = "as told" -> next

(* handleTx(), called now. *)
ChannelWait ==
    /\ ~TimeReached(tick, cmcaNextTx)
    /\ HandleTxWaits
    /\ Returns(cmcaNextTx)
    /\ UNCHANGED airtime

GateWait ==
    /\ TimeReached(tick, cmcaNextTx)
    /\ ~TxGateOpen
    /\ HandleTxWaits
    /\ Returns(Later(MAC_DEFAULT_TX_BACKOFF))
    /\ airtime' = AirtimeNow

GatedNothing ==
    /\ HandleTxNothing
    /\ GivesUp
    /\ Returns(Later(MAC_DEFAULT_TX_BACKOFF))
    /\ airtime' = IF GivenUp = {} THEN airtime ELSE AirtimeNow

GatedTracking(ok) ==
    /\ HandleTxTracking(ok)
    /\ GivesUp
    /\ Returns(cmcaNextTx')
    /\ CountFrame

GatedSent ==
    /\ HandleTxSent
    /\ TxGateOpen
    /\ Returns(cmcaNextTx')
    /\ CountFrame

GatedBusy ==
    /\ HandleTxBusy
    /\ TxGateOpen
    /\ Returns(cmcaNextTx')
    /\ CountFrame

GatedTx ==
    \/ ChannelWait
    \/ GateWait
    \/ GatedNothing
    \/ \E ok \in BOOLEAN : GatedTracking(ok)
    \/ GatedSent
    \/ GatedBusy

Poll(call) == (POLLING # "at any time" => TimeReached(tick, wake)) /\ call
Sleep == (POLLING # "at any time" => ~TimeReached(tick, wake)) /\ TimePasses

GatedNext ==
    \/ /\ \/ \E p \in AppPackets, strict \in StrictModes : SendPacket(p, strict)
          \/ \E a \in NewAddresses : SetOwnAddress(a)
          \/ Reinit
          \/ \E f \in RxFrames, rssi \in Rssis : RxFromUs(f) \/ RxEcho(f, rssi)
          \/ Sleep
       /\ Elsewhere
    \/ \E f \in RxFrames, rssi \in Rssis : GatedRxNew(f, rssi)
    \/ Poll(GatedTx)

GatedSpec == GatedInit /\ [][GatedNext]_gatedVars

(* The clock runs, the application polls, and a radio that is offered a     *)
(* frame again and again accepts it in the end. That the gate opens again   *)
(* is not assumed here.                                                     *)
GatedFairness ==
    /\ WF_gatedVars(Sleep /\ Elsewhere)
    /\ SF_gatedVars(Poll(GatedTx))
    /\ SF_gatedVars(Poll(GatedSent))
    /\ SF_gatedVars(Poll(\E ok \in BOOLEAN : GatedTracking(ok)))

GatedFairSpec == GatedSpec /\ GatedFairness

-----------------------------------------------------------------------------

(* The variables have their types, and the total stays within a window and  *)
(* two frames: the gates and the spacing of the engine keep it from         *)
(* overflowing, although refused frames count and our own tracking is never *)
(* refused. Beyond the wrap of the clock that is so for the inputs of a run *)
(* and not in general, see TypeOK of Airtime.                                *)
GatedTypeOK ==
    /\ TypeOK
    /\ wake \in Ticks
    /\ airtime \in [total : 0 .. WINDOW + 2 * FrameAirtimes[8], last : Ticks]

\* The ticks at which both a frame is due and the channel is free, counted.
CommonTicks(f) ==
    LET apart == (f.nextTx - cmcaNextTx) % TICK_MOD
    IN  TICK_MOD \div 2 - (IF 2 * apart < TICK_MOD THEN apart ELSE TICK_MOD - apart)

\* They are so few, half a turn of the clock after the last transmission, that
\* they may be over before the gate opens and handleTx is called again.
MayBeMissed(n) ==
    /\ n \in DOMAIN txPool
    /\ \E f \in {txPool[n]} : Overlooked(f) \/ CommonTicks(f) <= WINDOW

(* Polled as handleTx asks for it, no frame stays in the pool for ever: the *)
(* total decays and the gate opens again, whatever was refused. The         *)
(* accidents of the wrapping clock are excepted.                            *)
GatedFramesLeave ==
    \A n \in Arrivals :
        \/ <>[](n \notin DOMAIN txPool)
        \/ <>[]MayBeMissed(n)

(* The comment of handleTx: "This can be called at regular intervals". The  *)
(* same is promised of a device that calls it at every tick.                *)
RegularPollingSends == GatedFramesLeave

=============================================================================
