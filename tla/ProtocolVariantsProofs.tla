----------------------- MODULE ProtocolVariantsProofs -----------------------
(****************************************************************************)
(* The two extensions of the engine. With its airtime it implements the     *)
(* engine without: what is proved of Protocol, where airtime holds back     *)
(* what it likes, is true of the gates as they are, for every limit, window *)
(* and rate of polling. The total of the airtime is bounded until the clock *)
(* wraps: TotalInv relates it to the tick of the next transmission.         *)
(*                                                                          *)
(* The counters of its relaying are right, for any devices, packets,        *)
(* capacities and width of the counters. The inductive invariant is         *)
(* StatsInv: a frame that an echo removes is a relayed one only because our *)
(* own frames have our address, and a counter has not wrapped because it    *)
(* never exceeds the number of calls.                                       *)
(****************************************************************************)
EXTENDS ProtocolAirtime, ProtocolStats, ProtocolProofs

(* Neither what the application is told nor the total adds a step: each     *)
(* call of the gated engine is the same call of Protocol.                   *)
LEMMA GatedCall ==
    ASSUME GatedNext
    PROVE  Next
<1>1. CASE \/ \E p \in AppPackets, strict \in StrictModes : SendPacket(p, strict)
           \/ \E a \in NewAddresses : SetOwnAddress(a)
           \/ Reinit
  BY <1>1 DEF Next
<1>2. CASE \E f \in RxFrames, rssi \in Rssis :
              RxFromUs(f) \/ RxEcho(f, rssi) \/ GatedRxNew(f, rssi)
  <2>1. PICK f \in RxFrames, rssi \in Rssis :
              RxFromUs(f) \/ RxEcho(f, rssi) \/ GatedRxNew(f, rssi)
    BY <1>2
  <2>2. HandleRx(f, rssi)
    BY <2>1 DEF GatedRxNew, HandleRx
  <2>3. QED
    BY <2>2 DEF Next
<1>3. CASE Poll(GatedTx)
  <2>1. HandleTx
    BY <1>3 DEF Poll, GatedTx, ChannelWait, GateWait, GatedNothing, GatedTracking,
                GatedSent, GatedBusy, HandleTx
  <2>2. QED
    BY <2>1 DEF Next
<1>4. CASE Sleep
  BY <1>4 DEF Sleep, Next
<1>5. QED
  BY <1>1, <1>2, <1>3, <1>4 DEF GatedNext

(* Whatever airtime the gates see, the engine with them does nothing that   *)
(* the engine of Protocol does not do.                                      *)
THEOREM GatesOnlyHoldBack == GatedSpec => Spec
<1>1. GatedInit => Init
  BY DEF GatedInit
<1>2. [GatedNext]_gatedVars => [Next]_vars
  BY GatedCall DEF gatedVars
<1>3. QED
  BY <1>1, <1>2, PTL DEF GatedSpec, Spec

(* With the gates as they are, and refused frames counted as sent: a strict *)
(* packet is sent as often as it should be, and the pool keeps its types.   *)
THEOREM GatedRetryBudget ==
    ASSUME Strict
    PROVE  GatedSpec => [](TypeOK /\ RetryBudget)
<1>1. Spec => []TypeOK
  BY TypeCorrect
<1>2. Spec => []RetryBudget
  BY TransmissionsCounted
<1>3. QED
  BY <1>1, <1>2, GatesOnlyHoldBack, PTL

(* The gated engine keeps the promise of ReliableSend: a gate that closes   *)
(* while a packet waits delays its retries and drops none.                  *)
THEOREM GatedPromiseKept ==
    ASSUME Strict, AddressFixed
    PROVE  GatedSpec => PromiseKept
<1>1. Spec => PromiseKept
  BY PromiseIsKept
<1>2. QED
  BY <1>1, GatesOnlyHoldBack, PTL

-----------------------------------------------------------------------------
(* The counters.                                                            *)

Names == {"forwarded", "fwdDbBoostDrop"}

CountersOK ==
    /\ passedOn \in Nat
    /\ stats_ \in [Names -> Nat]
    /\ \A name \in Names : stats_[name] <= inputs

StatsInv == PromiseInv /\ CountersOK /\ RelaysAreCounted

-----------------------------------------------------------------------------

(* Counting is all that is added to the calls of Protocol. *)
LEMMA StatsCall ==
    ASSUME StatsNext
    PROVE  Next
<1>1. CASE \/ \E p \in AppPackets, strict \in StrictModes : SendPacket(p, strict)
           \/ \E a \in NewAddresses : SetOwnAddress(a)
           \/ Reinit
           \/ TimePasses
  BY <1>1 DEF Next
<1>2. CASE \E f \in RxFrames, rssi \in Rssis :
              RxFromUs(f) \/ StatsRxEcho(f, rssi) \/ StatsRxNew(f, rssi)
  BY <1>2 DEF Next, HandleRx, StatsRxEcho, StatsRxNew
<1>3. CASE \/ HandleTxWaits \/ HandleTxNothing \/ HandleTxBusy \/ StatsSent
           \/ \E ok \in BOOLEAN : HandleTxTracking(ok)
  BY <1>3 DEF Next, HandleTx, StatsSent
<1>4. QED
  BY <1>1, <1>2, <1>3 DEF StatsNext

(* The frames the counters are compared with are the relays of Protocol. *)
LEMMA WaitingAreRelays ==
    /\ RelaysWaiting = Relays
    /\ RelaysWaiting' = Relays'
  BY DEF RelaysWaiting, Relays, ByOthers

(* The relays in the pool can be counted. *)
LEMMA RelaysFinite ==
    ASSUME TypeOK
    PROVE  IsFiniteSet(Relays) /\ Cardinality(Relays) \in Nat
<1>1. IsFiniteSet(DOMAIN txPool)
  BY PoolFacts, PoolFinite
<1>2. Relays \in SUBSET (DOMAIN txPool)
  BY DEF Relays
<1>3. IsFiniteSet(Relays)
  BY <1>1, <1>2, FS_Subset
<1>4. QED
  BY <1>3, FS_CardinalityType

(* No relay comes. *)
LEMMA NoneComes ==
    ASSUME TypeOK, Relays' \subseteq Relays
    PROVE  Cardinality(Relays') \in Nat /\ Cardinality(Relays') <= Cardinality(Relays)
<1>1. IsFiniteSet(Relays) /\ Relays' \in SUBSET Relays
  BY RelaysFinite
<1>2. IsFiniteSet(Relays') /\ Cardinality(Relays') <= Cardinality(Relays)
  BY <1>1, FS_Subset, Zenon
<1>3. QED
  BY <1>2, FS_CardinalityType

(* A relay leaves and none comes. *)
LEMMA OneLeaves ==
    ASSUME TypeOK, NEW n \in Relays, Relays' \subseteq Relays \ {n}
    PROVE  Cardinality(Relays') \in Nat /\ Cardinality(Relays') + 1 <= Cardinality(Relays)
<1>1. IsFiniteSet(Relays) /\ Cardinality(Relays) \in Nat
  BY RelaysFinite
<1>2. IsFiniteSet(Relays \ {n}) /\ Cardinality(Relays \ {n}) = Cardinality(Relays) - 1
  BY <1>1, FS_RemoveElement
<1>3. Relays' \in SUBSET (Relays \ {n})
  OBVIOUS
<1>4. IsFiniteSet(Relays') /\ Cardinality(Relays') <= Cardinality(Relays \ {n})
  BY <1>2, <1>3, FS_Subset, Zenon
<1>5. Cardinality(Relays') \in Nat
  BY <1>4, FS_CardinalityType
<1>6. QED
  BY <1>1, <1>2, <1>4, <1>5

(* At most one relay comes. *)
LEMMA OneComes ==
    ASSUME TypeOK, NEW n, Relays' \subseteq Relays \cup {n}
    PROVE  Cardinality(Relays') \in Nat /\ Cardinality(Relays') <= Cardinality(Relays) + 1
<1>1. IsFiniteSet(Relays) /\ Cardinality(Relays) \in Nat
  BY RelaysFinite
<1>2. /\ IsFiniteSet(Relays \cup {n})
      /\ Cardinality(Relays \cup {n}) <= Cardinality(Relays) + 1
  <2>1. /\ IsFiniteSet(Relays \cup {n})
        /\ Cardinality(Relays \cup {n}) =
              IF n \in Relays THEN Cardinality(Relays) ELSE Cardinality(Relays) + 1
    BY <1>1, FS_AddElement, Zenon
  <2>2. QED
    BY <1>1, <2>1
<1>3. Relays' \in SUBSET (Relays \cup {n})
  OBVIOUS
<1>4. IsFiniteSet(Relays') /\ Cardinality(Relays') <= Cardinality(Relays \cup {n})
  BY <1>2, <1>3, FS_Subset, Zenon
<1>5. Cardinality(Relays') \in Nat /\ Cardinality(Relays \cup {n}) \in Nat
  BY <1>2, <1>4, FS_CardinalityType
<1>6. QED
  BY <1>1, <1>2, <1>4, <1>5

-----------------------------------------------------------------------------
(* What each call does to the relays of the pool.                           *)

(* A frame that stays and is a relay was one before, and the calls other    *)
(* than handleRx bring none.                                                *)
LEMMA NoRelayComes ==
    ASSUME AddressFixed, TypeOK, [Next]_vars, \A n \in DOMAIN txPool' :
               Stays(n) \/ Submitted(txPool'[n]) \/ Answer(txPool'[n])
    PROVE  Relays' \subseteq Relays
<1> SUFFICES ASSUME NEW n \in Relays'
             PROVE  n \in Relays
  OBVIOUS
<1>1. n \in DOMAIN txPool' /\ ownAddress_' = ownAddress_
  BY AddressStays DEF Relays
<1>2. CASE Stays(n)
  BY <1>2, StaysRelay
<1>3. CASE Submitted(txPool'[n]) \/ Answer(txPool'[n])
  BY <1>1, <1>3 DEF Submitted, Answer, Relays
<1>4. QED
  BY <1>1, <1>2, <1>3

(* The calls that count nothing bring no relay. *)
LEMMA QuietCalls ==
    ASSUME AddressFixed, TypeOK, [Next]_vars,
           \/ \E p \in AppPackets, strict \in StrictModes : SendPacket(p, strict)
           \/ \E a \in NewAddresses : SetOwnAddress(a)
           \/ Reinit
           \/ \E f \in RxFrames : RxFromUs(f)
           \/ HandleTxWaits \/ HandleTxNothing \/ HandleTxBusy \/ HandleTxSent
           \/ \E ok \in BOOLEAN : HandleTxTracking(ok)
           \/ TimePasses
           \/ UNCHANGED vars
    PROVE  Relays' \subseteq Relays
<1>1. CASE \E p \in AppPackets, strict \in StrictModes : SendPacket(p, strict)
  BY <1>1, SendPacketFrames, NoRelayComes
<1>2. CASE Reinit
  BY <1>2 DEF Reinit, Relays
<1>3. CASE \/ HandleTxNothing \/ HandleTxSent \/ HandleTxBusy
           \/ \E ok \in BOOLEAN : HandleTxTracking(ok)
  BY <1>3, HandleTxFrames, NoRelayComes
<1>4. CASE \/ HandleTxWaits \/ TimePasses \/ UNCHANGED vars
           \/ \E f \in RxFrames : RxFromUs(f)
           \/ \E a \in NewAddresses : SetOwnAddress(a)
  <2>1. UNCHANGED <<txPool, sent>>
    BY <1>4 DEF HandleTxWaits, TimePasses, vars, RxFromUs, SetOwnAddress
  <2>2. \A n \in DOMAIN txPool' : Stays(n)
    BY <2>1, Untouched
  <2>3. QED
    BY <2>2, NoRelayComes
<1>5. QED
  BY <1>1, <1>2, <1>3, <1>4

(* An echo that takes a frame out takes a relay out. *)
LEMMA EchoTakesRelay ==
    ASSUME PromiseInv, NEW f \in RxFrames, NEW rssi \in Rssis, RxEcho(f, rssi),
           DOMAIN txPool' # DOMAIN txPool
    PROVE  \E n \in Relays : n \notin DOMAIN txPool'
<1>1. PICK n \in FrameInTxPool(f) :
          \/ txPool' = Without(txPool, {n})
          \/ \E delay \in ForwardDelays :
                txPool' = [txPool EXCEPT ![n].nextTx = Later(delay)]
  BY DEF RxEcho
<1>2. txPool' = Without(txPool, {n})
  BY <1>1
<1>3. n \in DOMAIN txPool /\ n \notin DOMAIN txPool'
  BY <1>2 DEF FrameInTxPool, Without, Restrict
<1>4. txPool[n].source = f.source /\ f.source # ownAddress_
  BY DEF FrameInTxPool, Matches, RxEcho
<1>5. n \in Relays
  BY <1>3, <1>4, PoolFacts DEF PromiseInv, OwnSource, Relays
<1>6. QED
  BY <1>3, <1>5

(* A frame of another device that was sent leaves. *)
LEMMA SentRelayLeaves ==
    ASSUME TypeOK, HandleTxSent, ByOthers(air'.frame)
    PROVE  \E n \in Relays : n \notin DOMAIN txPool'
<1>1. PICK n \in NextTxFrame(Remaining) :
          LET f == Outgoing(txPool[n])
          IN  /\ air' = [sent |-> TRUE, frame |-> f]
              /\ txPool' =
                    IF f.ackType = "NONE" \/ f.source # ownAddress_
                    THEN Without(Remaining, {n})
                    ELSE [Remaining EXCEPT ![n] =
                            [f EXCEPT !.numTx = f.numTx - 1,
                                      !.nextTx = (tick' + RetryAfter(f.numTx - 1)) % TICK_MOD]]
  BY DEF HandleTxSent
<1>2. n \in DOMAIN txPool /\ txPool[n] \in Frame
  BY RemainingProperties, PoolFacts DEF NextTxFrame
<1>3. /\ Outgoing(txPool[n]).source = txPool[n].source
      /\ Outgoing(txPool[n]).self = txPool[n].self
  BY <1>2, OutgoingProperties
<1>4. ~txPool[n].self /\ txPool[n].source # ownAddress_
  BY <1>1, <1>3 DEF ByOthers
<1>5. txPool' = Without(Remaining, {n})
  BY <1>1, <1>3, <1>4
<1>6. n \notin DOMAIN txPool'
  BY <1>5 DEF Without, Restrict
<1>7. QED
  BY <1>2, <1>4, <1>6 DEF Relays

(* A new frame brings one relay at most, and none if it is kept back. *)
LEMMA NewBringsOne ==
    ASSUME AddressFixed, TypeOK, NEW f \in RxFrames, NEW rssi \in Rssis, RxNew(f, rssi)
    PROVE  /\ Relays' \subseteq Relays \cup {RelayArrival}
           /\ KeepsBack(f) => Relays' \subseteq Relays
<1>1. [Next]_vars
  BY DEF Next, HandleRx
<1>2. ASSUME NEW n \in Relays'
      PROVE  n \in Relays \/ n = RelayArrival
  BY <1>1, <1>2, RxNewFrames, StaysRelay, ComesRelay DEF Relays
<1>3. ASSUME KeepsBack(f), RelayArrival \in Relays'
      PROVE  FALSE
  <2>1. Input /\ RelayArrival \in DOMAIN Answered(f)
    BY <1>3 DEF RxNew, KeepsBack, Relays
  <2>2. RelayArrival \notin DOMAIN txPool /\ Arrival # RelayArrival
    BY <2>1, InputFacts
  <2>3. QED
    BY <2>1, <2>2, AnsweredProperties
<1>4. QED
  BY <1>2, <1>3

-----------------------------------------------------------------------------
(* The counters.                                                            *)

(* A counter that counts the calls at most goes up by one, or wraps. *)
LEMMA CountOne ==
    ASSUME TypeOK, CountersOK, Input, UNCHANGED passedOn, NEW name \in Names, Count(name)
    PROVE  /\ CountersOK'
           /\ inputs' < COUNTER_MOD => stats_'[name] = stats_[name] + 1
           /\ \A other \in Names \ {name} : stats_'[other] = stats_[other]
<1>1. /\ inputs \in Nat /\ inputs' = inputs + 1
      /\ stats_[name] \in Nat /\ stats_[name] <= inputs
  BY PoolFacts DEF Input, CountersOK
<1>2. stats_' = [stats_ EXCEPT ![name] = (stats_[name] + 1) % COUNTER_MOD]
  BY DEF Count
<1>3. /\ (stats_[name] + 1) % COUNTER_MOD \in Nat
      /\ (stats_[name] + 1) % COUNTER_MOD <= stats_[name] + 1
      /\ stats_[name] + 1 < COUNTER_MOD
           => (stats_[name] + 1) % COUNTER_MOD = stats_[name] + 1
  <2> DEFINE next == stats_[name] + 1
  <2>1. next \in Nat
    BY <1>1
  <2> HIDE DEF next
  <2>2. /\ next % COUNTER_MOD \in 0 .. (COUNTER_MOD - 1)
        /\ next % COUNTER_MOD <= next
        /\ next < COUNTER_MOD => next % COUNTER_MOD = next
    BY <2>1, Reduced, CounterAssumption
  <2>3. QED
    BY <2>1, <2>2, CounterAssumption DEF next
<1>4. /\ stats_'[name] = (stats_[name] + 1) % COUNTER_MOD
      /\ \A other \in Names \ {name} : stats_'[other] = stats_[other]
      /\ stats_' \in [Names -> Nat]
  BY <1>2, <1>3 DEF CountersOK
<1>5. inputs' < COUNTER_MOD => stats_'[name] = stats_[name] + 1
  BY <1>1, <1>3, <1>4, CounterAssumption
<1>6. \A other \in Names : stats_'[other] <= inputs'
  BY <1>1, <1>3, <1>4 DEF CountersOK
<1>7. QED
  BY <1>4, <1>5, <1>6 DEF CountersOK

(* The number of calls never goes down. *)
LEMMA InputsGrow ==
    ASSUME TypeOK, [Next]_vars
    PROVE  inputs \in Nat /\ inputs' \in Nat /\ inputs <= inputs'
<1>1. inputs \in Nat /\ (inputs' = inputs \/ inputs' = inputs + 1)
  BY PoolFacts DEF Next, vars, Input, SendPacket, SetOwnAddress, Reinit, HandleRx, RxFromUs,
         RxEcho, RxNew, HandleTx, HandleTxWaits, HandleTxNothing, HandleTxTracking,
         HandleTxSent, HandleTxBusy, TxCall, TimePasses
<1>2. QED
  BY <1>1

(* Without a count the counters stay below the number of calls. *)
LEMMA CountNone ==
    ASSUME TypeOK, CountersOK, [Next]_vars, UNCHANGED stats_, passedOn' \in Nat
    PROVE  CountersOK'
<1>1. inputs \in Nat /\ inputs' \in Nat /\ inputs <= inputs'
  BY InputsGrow
<1>2. ASSUME NEW name \in Names
      PROVE  stats_'[name] <= inputs'
  BY <1>1 DEF CountersOK
<1>3. QED
  BY <1>2 DEF CountersOK

(* The values the counters have. *)
LEMMA CounterValues ==
    ASSUME CountersOK
    PROVE  /\ passedOn \in Nat
           /\ stats_["forwarded"] \in Nat /\ stats_["fwdDbBoostDrop"] \in Nat
  BY DEF CountersOK, Names

(* Relays stay counted by a step that counts what it adds to them. *)
LEMMA StillCounted ==
    ASSUME StatsInv, [Next]_vars, CountersOK', Cardinality(Relays') \in Nat,
           inputs' < COUNTER_MOD =>
               Cardinality(Relays') + passedOn' + stats_'["fwdDbBoostDrop"] + stats_["forwarded"]
                 <= Cardinality(Relays) + passedOn + stats_["fwdDbBoostDrop"]
                      + stats_'["forwarded"]
    PROVE  RelaysAreCounted'
<1>1. /\ passedOn \in Nat /\ stats_["forwarded"] \in Nat /\ stats_["fwdDbBoostDrop"] \in Nat
      /\ passedOn' \in Nat
      /\ stats_'["forwarded"] \in Nat /\ stats_'["fwdDbBoostDrop"] \in Nat
  BY DEF StatsInv, CountersOK, Names
<1>2. Cardinality(Relays) \in Nat /\ inputs \in Nat /\ inputs' \in Nat /\ inputs <= inputs'
  BY RelaysFinite, InputsGrow DEF StatsInv, PromiseInv
<1>3. inputs < COUNTER_MOD =>
          Cardinality(Relays) + passedOn + stats_["fwdDbBoostDrop"] <= stats_["forwarded"]
  BY WaitingAreRelays DEF StatsInv, RelaysAreCounted
<1>4. inputs' < COUNTER_MOD =>
          Cardinality(Relays') + passedOn' + stats_'["fwdDbBoostDrop"] <= stats_'["forwarded"]
  BY <1>1, <1>2, <1>3, CounterAssumption
<1>5. QED
  BY <1>4, WaitingAreRelays DEF RelaysAreCounted

-----------------------------------------------------------------------------

(* At the start nothing waits and nothing has been counted. *)
LEMMA CountedInitially ==
    ASSUME StatsInit
    PROVE  StatsInv
<1>1. TypeOK /\ txPool = [n \in {} |-> 0] /\ DOMAIN txPool = {} /\ inputs = 0
  BY TypeInitially, EmptyPool DEF StatsInit, Init
<1>2. PromiseInv
  BY <1>1 DEF PromiseInv, RetryBudget, Waiting, OwnSource
<1>3. /\ stats_ \in [Names -> Nat] /\ \A name \in Names : stats_[name] = 0
      /\ passedOn = 0
  BY DEF StatsInit, Names
<1>4. CountersOK
  BY <1>1, <1>3 DEF CountersOK
<1>5. Cardinality(Relays) = 0
  BY <1>1, FS_EmptySet DEF Relays
<1>6. RelaysAreCounted
  BY <1>3, <1>5, WaitingAreRelays DEF RelaysAreCounted, Names
<1>7. QED
  BY <1>2, <1>4, <1>6 DEF StatsInv

(* Every call preserves the counting. *)
LEMMA CountedPreserved ==
    ASSUME Strict, AddressFixed, StatsInv, [StatsNext]_statsVars
    PROVE  StatsInv'
<1>1. [Next]_vars
  BY StatsCall DEF statsVars
<1>2. PromiseInv'
  BY <1>1, PromiseInvPreserved DEF StatsInv
<1>3. TypeOK /\ PromiseInv /\ CountersOK
  BY DEF StatsInv, PromiseInv
<1>4. /\ passedOn \in Nat /\ stats_["forwarded"] \in Nat /\ stats_["fwdDbBoostDrop"] \in Nat
      /\ Cardinality(Relays) \in Nat
  BY <1>3, CounterValues, RelaysFinite
<1>5. ASSUME Relays' \subseteq Relays, UNCHANGED <<stats_, passedOn>>
      PROVE  CountersOK' /\ RelaysAreCounted'
  <2>1. CountersOK'
    BY <1>1, <1>3, <1>4, <1>5, CountNone
  <2>2. Cardinality(Relays') \in Nat /\ Cardinality(Relays') <= Cardinality(Relays)
    BY <1>3, <1>5, NoneComes
  <2>3. QED
    BY <1>1, <1>4, <1>5, <2>1, <2>2, StillCounted
<1>6. ASSUME NEW f \in RxFrames, NEW rssi \in Rssis, StatsRxEcho(f, rssi)
      PROVE  CountersOK' /\ RelaysAreCounted'
  <2>1. RxEcho(f, rssi) /\ UNCHANGED passedOn
    BY <1>6 DEF StatsRxEcho
  <2>2. Relays' \subseteq Relays
    BY <1>1, <1>3, <2>1, RxEchoFrames, NoRelayComes
  <2>3. CASE DOMAIN txPool' = DOMAIN txPool
    BY <1>5, <1>6, <2>2, <2>3 DEF StatsRxEcho
  <2>4. CASE DOMAIN txPool' # DOMAIN txPool
    <3>1. Count("fwdDbBoostDrop") /\ Input
      BY <1>6, <2>4 DEF StatsRxEcho, RxEcho
    <3>2. PICK n \in Relays : n \notin DOMAIN txPool'
      BY <1>3, <2>1, <2>4, EchoTakesRelay
    <3>3. Relays' \subseteq Relays \ {n}
      BY <2>2, <3>2 DEF Relays
    <3>4. Cardinality(Relays') \in Nat /\ Cardinality(Relays') + 1 <= Cardinality(Relays)
      BY <1>3, <3>3, OneLeaves
    <3>5. /\ CountersOK'
          /\ inputs' < COUNTER_MOD => stats_'["fwdDbBoostDrop"] = stats_["fwdDbBoostDrop"] + 1
          /\ stats_'["forwarded"] = stats_["forwarded"]
      BY <1>3, <2>1, <3>1, CountOne DEF Names
    <3>6. QED
      BY <1>1, <1>4, <2>1, <3>4, <3>5, StillCounted
  <2>5. QED
    BY <2>3, <2>4
<1>7. ASSUME NEW f \in RxFrames, NEW rssi \in Rssis, StatsRxNew(f, rssi)
      PROVE  CountersOK' /\ RelaysAreCounted'
  <2>1. RxNew(f, rssi) /\ Input /\ UNCHANGED passedOn
    BY <1>7 DEF StatsRxNew, RxNew
  <2>2. CASE KeepsBack(f)
    <3>1. Relays' \subseteq Relays
      BY <1>3, <2>1, <2>2, NewBringsOne
    <3>2. QED
      BY <1>5, <2>1, <2>2, <3>1 DEF KeepsBack
  <2>3. CASE Forwards(f, rssi)
    <3>1. Relays' \subseteq Relays \cup {RelayArrival} /\ Count("forwarded")
      BY <1>3, <2>1, <2>3, NewBringsOne DEF Forwards
    <3>2. Cardinality(Relays') \in Nat /\ Cardinality(Relays') <= Cardinality(Relays) + 1
      BY <1>3, <3>1, OneComes
    <3>3. /\ CountersOK'
          /\ inputs' < COUNTER_MOD => stats_'["forwarded"] = stats_["forwarded"] + 1
          /\ stats_'["fwdDbBoostDrop"] = stats_["fwdDbBoostDrop"]
      BY <1>3, <2>1, <3>1, CountOne DEF Names
    <3>4. QED
      BY <1>1, <1>4, <2>1, <3>2, <3>3, StillCounted
  <2>4. QED
    BY <1>7, <2>2, <2>3 DEF StatsRxNew
<1>8. ASSUME StatsSent
      PROVE  CountersOK' /\ RelaysAreCounted'
  <2>1. HandleTxSent /\ UNCHANGED stats_
    BY <1>8 DEF StatsSent
  <2>2. Relays' \subseteq Relays
    BY <1>1, <1>3, <2>1, QuietCalls
  <2>3. CASE ByOthers(air'.frame)
    <3>1. passedOn' = passedOn + 1
      BY <1>8, <2>3 DEF StatsSent
    <3>2. PICK n \in Relays : n \notin DOMAIN txPool'
      BY <1>3, <2>1, <2>3, SentRelayLeaves
    <3>3. Relays' \subseteq Relays \ {n}
      BY <2>2, <3>2 DEF Relays
    <3>4. Cardinality(Relays') \in Nat /\ Cardinality(Relays') + 1 <= Cardinality(Relays)
      BY <1>3, <3>3, OneLeaves
    <3>5. CountersOK'
      BY <1>1, <1>3, <1>4, <2>1, <3>1, CountNone
    <3>6. QED
      BY <1>1, <1>4, <2>1, <3>1, <3>4, <3>5, StillCounted
  <2>4. CASE ~ByOthers(air'.frame)
    BY <1>5, <1>8, <2>2, <2>4 DEF StatsSent
  <2>5. QED
    BY <2>3, <2>4
<1>9. ASSUME StatsNext
      PROVE  CountersOK' /\ RelaysAreCounted'
  <2>1. CASE /\ \/ \E p \in AppPackets, strict \in StrictModes : SendPacket(p, strict)
                \/ \E a \in NewAddresses : SetOwnAddress(a)
                \/ Reinit
                \/ \E f \in RxFrames : RxFromUs(f)
                \/ HandleTxWaits \/ HandleTxNothing \/ HandleTxBusy
                \/ \E ok \in BOOLEAN : HandleTxTracking(ok)
                \/ TimePasses
             /\ UNCHANGED <<stats_, passedOn>>
    BY <1>1, <1>3, <1>5, <2>1, QuietCalls
  <2>2. QED
    BY <1>6, <1>7, <1>8, <1>9, <2>1 DEF StatsNext
<1>10. ASSUME UNCHANGED statsVars
       PROVE  CountersOK' /\ RelaysAreCounted'
  <2>1. UNCHANGED vars /\ UNCHANGED <<stats_, passedOn>>
    BY <1>10 DEF statsVars
  <2>2. QED
    BY <1>1, <1>3, <1>5, <2>1, QuietCalls
<1>11. CountersOK' /\ RelaysAreCounted'
  BY <1>9, <1>10
<1>12. QED
  BY <1>2, <1>11 DEF StatsInv

(* Until a counter wraps, with strict packets and a fixed address: the      *)
(* frames of others that wait, that were sent on and that were dropped for  *)
(* a good echo are all in forwarded; handleTx and handleRx neither relay a  *)
(* frame twice nor one that was not counted.                                *)
THEOREM RelayingIsCounted ==
    ASSUME Strict, AddressFixed
    PROVE  StatsSpec => []RelaysAreCounted
<1>1. StatsInit => StatsInv
  BY CountedInitially
<1>2. StatsInv /\ [StatsNext]_statsVars => StatsInv'
  BY CountedPreserved
<1>3. StatsInv => RelaysAreCounted
  BY DEF StatsInv
<1>4. QED
  BY <1>1, <1>2, <1>3, PTL DEF StatsSpec

-----------------------------------------------------------------------------
(* The total of the gated engine. The bounds of a cleanup and of an open    *)
(* gate are those of AirtimeProofs, for frames of the longest airtime.      *)

Total == INSTANCE AirtimeProofs WITH
    LONGEST <- FrameAirtimes[8], FrameTimes <- {}, BootClocks <- {}, MAX_CLOCK <- 0,
    clock <- tick, free <- tick, looked <- tick, counted <- {}

\* The frames as the radio has them: the engine is silent for as long as the
\* frame is on the air, waits before it tries again, and the times are short
\* against half a turn of the clock and fit a word.
FramesSpaced ==
    /\ WINDOW < TICK_MOD
    /\ FrameAirtimes[5] <= FrameAirtimes[8] /\ FrameAirtimes[8] <= TX_TIME
    /\ TX_TIME # 0 /\ 2 * TX_TIME <= TICK_MOD
    /\ (WINDOW + 2 * FrameAirtimes[8]) * WINDOW < WORD
    /\ (WINDOW + 2 * FrameAirtimes[8]) * 1000 < WORD
    /\ \A spent \in SendTimes : 2 * (TX_TIME + spent) <= TICK_MOD
    /\ \A e \in MAC_TX_BACKOFF_EXP_MIN .. MAC_TX_BACKOFF_EXP_MAX :
          \A delay \in BackoffDelays[e], spent \in SendTimes :
             delay # 0 /\ 2 * (delay + spent) <= TICK_MOD

\* How long, from now on, no frame is offered to the radio.
Quiet(now, next) == IF TimeReached(now, next) THEN 0 ELSE (next - now) % TICK_MOD

\* The total exceeds a window and a frame only while the last frame is sent; a
\* cleanup at tick 0, which counts as none, leaves next to nothing.
TotalInv ==
    /\ wake \in Ticks
    /\ airtime \in [total : 0 .. WINDOW + 2 * FrameAirtimes[8], last : Ticks]
    /\ airtime.last <= tick
    /\ airtime.last = 0 =>
          /\ airtime.total <= FrameAirtimes[8]
          /\ airtime.total = 0 \/ ~TimeReached(0, cmcaNextTx)
    /\ airtime.total <= WINDOW + FrameAirtimes[8] + Quiet(airtime.last, cmcaNextTx)

(* The constants, and the assumptions of AirtimeProofs. *)
LEMMA GateConstants ==
    ASSUME FramesSpaced
    PROVE  /\ TICK_MOD \in Nat \ {0} /\ WINDOW \in Nat \ {0} /\ WORD \in Nat \ {0}
           /\ Ticks = 0 .. TICK_MOD - 1
           /\ FrameAirtimes[5] \in Nat /\ FrameAirtimes[8] \in Nat /\ TX_TIME \in Nat
           /\ Total!AirtimeAssumption /\ Total!FramesAssumption
<1>1. TICK_MOD \in Nat \ {0} /\ Ticks = 0 .. TICK_MOD - 1
  BY TableAssumption DEF Ticks
<1>2. /\ WINDOW \in Nat \ {0} /\ WORD \in Nat \ {0} /\ TX_TIME \in Nat
      /\ FrameAirtimes[5] \in Nat /\ FrameAirtimes[8] \in Nat
  BY GateAssumption, TimingAssumption
<1>3. Total!AirtimeAssumption
  BY <1>1, <1>2 DEF FramesSpaced, Total!AirtimeAssumption
<1>4. Total!FramesAssumption
  BY <1>1, <1>2 DEF FramesSpaced, Total!FramesAssumption
<1>5. QED
  BY <1>1, <1>2, <1>3, <1>4

(* The tick that a device waits for comes by waiting. *)
LEMMA QuietShrinks ==
    ASSUME FramesSpaced, NEW now \in Ticks, NEW later \in Ticks, now <= later,
           NEW next \in Ticks
    PROVE  /\ Quiet(now, next) \in Nat /\ Quiet(later, next) \in Nat
           /\ Quiet(now, next) <= Quiet(later, next) + (later - now)
<1>1. TICK_MOD \in Nat \ {0} /\ Ticks = 0 .. TICK_MOD - 1
  BY GateConstants
<1>2. ASSUME NEW t \in Ticks
      PROVE  /\ t <= next => (next - t) % TICK_MOD = next - t
             /\ t > next => (next - t) % TICK_MOD = TICK_MOD + next - t
             /\ next <= t => (t - next) % TICK_MOD = t - next
             /\ next > t => (t - next) % TICK_MOD = TICK_MOD + t - next
  <2>1. \A r \in 0 .. TICK_MOD - 1 : r % TICK_MOD = r /\ (r - TICK_MOD) % TICK_MOD = r
    <3> TAKE r \in 0 .. TICK_MOD - 1
    <3>1. (TICK_MOD * 0 + r) % TICK_MOD = r /\ (TICK_MOD * (-1) + r) % TICK_MOD = r
      BY <1>1, Remainder
    <3>2. QED
      BY <1>1, <3>1
  <2>2. t \in 0 .. TICK_MOD - 1 /\ next \in 0 .. TICK_MOD - 1
    BY <1>1
  <2>3. QED
    BY <1>1, <2>1, <2>2
<1>3. ASSUME NEW t \in Ticks
      PROVE  Quiet(t, next) =
                IF next > t
                THEN IF 2 * (next - t) <= TICK_MOD THEN next - t ELSE 0
                ELSE IF 2 * (t - next) >= TICK_MOD THEN TICK_MOD + next - t ELSE 0
  <2>1. t \in 0 .. TICK_MOD - 1 /\ next \in 0 .. TICK_MOD - 1
    BY <1>1
  <2>2. CASE next > t
    <3>1. TimeReached(t, next) <=> 2 * (TICK_MOD + t - next) < TICK_MOD
      BY <1>2, <2>2 DEF TimeReached
    <3>2. (next - t) % TICK_MOD = next - t
      BY <1>2, <2>1, <2>2
    <3>3. QED
      BY <1>1, <2>1, <2>2, <3>1, <3>2 DEF Quiet
  <2>3. CASE ~(next > t)
    <3>1. TimeReached(t, next) <=> 2 * (t - next) < TICK_MOD
      BY <1>1, <1>2, <2>1, <2>3 DEF TimeReached
    <3>2. t # next => (next - t) % TICK_MOD = TICK_MOD + next - t
      BY <1>2, <2>1, <2>3
    <3>3. QED
      BY <1>1, <2>1, <2>3, <3>1, <3>2 DEF Quiet
  <2>4. QED
    BY <2>2, <2>3
<1>4. QED
  BY <1>1, <1>3

(* A device that has just set the tick of its next transmission waits. *)
LEMMA QuietAfter ==
    ASSUME FramesSpaced, NEW now \in Ticks, NEW delay \in Nat \ {0}, 2 * delay <= TICK_MOD
    PROVE  /\ ~TimeReached(now, (now + delay) % TICK_MOD)
           /\ Quiet(now, (now + delay) % TICK_MOD) = delay
<1> DEFINE next == (now + delay) % TICK_MOD
<1>1. TICK_MOD \in Nat \ {0} /\ Ticks = 0 .. TICK_MOD - 1
  BY GateConstants
<1>2. delay < TICK_MOD /\ now \in Int /\ now + delay \in Int /\ now % TICK_MOD = now
  <2>1. now \in Nat /\ now < TICK_MOD
    BY <1>1
  <2>2. now % TICK_MOD = now
    BY <1>1, <2>1, Reduced
  <2>3. QED
    BY <1>1, <2>1, <2>2
<1>3. (now - next) % TICK_MOD = TICK_MOD - delay
  <2>1. ((now % TICK_MOD) - next) % TICK_MOD = (now - (now + delay)) % TICK_MOD
    BY <1>1, <1>2, TickDifference
  <2>2. (TICK_MOD * (-1) + (TICK_MOD - delay)) % TICK_MOD = TICK_MOD - delay
    BY <1>1, <1>2, Remainder
  <2>3. TICK_MOD * (-1) + (TICK_MOD - delay) = now - (now + delay)
    BY <1>1, <1>2
  <2> HIDE DEF next
  <2>4. QED
    BY <1>2, <2>1, <2>2, <2>3
<1>4. (next - now) % TICK_MOD = delay
  <2>1. (next - (now % TICK_MOD)) % TICK_MOD = ((now + delay) - now) % TICK_MOD
    BY <1>1, <1>2, TickDifference
  <2>2. delay % TICK_MOD = delay
    BY <1>1, <1>2, Reduced
  <2>3. (now + delay) - now = delay
    BY <1>2
  <2> HIDE DEF next
  <2>4. QED
    BY <1>2, <2>1, <2>2, <2>3
<1> HIDE DEF next
<1>5. ~TimeReached(now, next)
  BY <1>1, <1>2, <1>3 DEF TimeReached
<1>6. QED
  BY <1>4, <1>5 DEF Quiet, next

(* What a call that looks at the total now finds. *)
LEMMA FoundTotal ==
    ASSUME FramesSpaced, TypeOK, TotalInv
    PROVE  /\ AirtimeNow = [total |-> AirtimeNow.total, last |-> tick]
           /\ AirtimeNow.total \in 0 .. airtime.total
           /\ AirtimeNow.total <= WINDOW + FrameAirtimes[8] + Quiet(tick, cmcaNextTx)
           /\ airtime.last = 0 => AirtimeNow.total = airtime.total
<1>0. Total!AirtimeAssumption /\ Total!FramesAssumption
  BY GateConstants
<1>1. /\ TICK_MOD \in Nat \ {0} /\ Ticks = 0 .. TICK_MOD - 1 /\ WINDOW \in Nat
      /\ FrameAirtimes[8] \in Nat
  BY GateConstants
<1>2. tick \in Ticks /\ cmcaNextTx \in Ticks
  BY DEF TypeOK
<1>3. /\ airtime \in [total : 0 .. WINDOW + 2 * FrameAirtimes[8], last : Ticks]
      /\ airtime.last \in Ticks /\ airtime.total \in Nat /\ airtime.last <= tick
      /\ airtime.total <= WINDOW + FrameAirtimes[8] + Quiet(airtime.last, cmcaNextTx)
  BY <1>1 DEF TotalInv
<1>4. AirtimeNow = [total |-> AirtimeNow.total, last |-> tick]
  BY DEF AirtimeNow, Cleaned
<1>5. /\ Quiet(airtime.last, cmcaNextTx) \in Nat /\ Quiet(tick, cmcaNextTx) \in Nat
      /\ Quiet(airtime.last, cmcaNextTx) <= Quiet(tick, cmcaNextTx) + (tick - airtime.last)
  BY <1>2, <1>3, QuietShrinks
<1> DEFINE bound == WINDOW + FrameAirtimes[8]
           then == Quiet(airtime.last, cmcaNextTx)
           still == Quiet(tick, cmcaNextTx)
<1>6. /\ bound \in Nat /\ then \in Nat /\ still \in Nat /\ airtime.total \in Nat
      /\ airtime.total <= bound + then
  <2>1. bound \in Nat
    BY <1>1
  <2>2. QED
    BY <1>3, <1>5, <2>1
<1>7. CASE airtime.last = 0
  <2>1. AirtimeNow.total = airtime.total
    BY <1>7 DEF AirtimeNow, Cleaned
  <2>2. airtime.total <= bound
    BY <1>1, <1>3, <1>7 DEF TotalInv
  <2> HIDE DEF bound, then, still
  <2>3. AirtimeNow.total \in 0 .. airtime.total /\ AirtimeNow.total <= bound + still
    BY <1>6, <2>1, <2>2
  <2>4. QED
    BY <1>4, <2>1, <2>3 DEF bound, still
<1>8. CASE airtime.last # 0
  <2>1. AirtimeNow.total = Total!Cleaned(airtime, tick).total
    BY DEF AirtimeNow, Cleaned, Total!Cleaned, Decay, Total!Decay, Elapsed, Total!Elapsed
  <2>2. /\ Total!Cleaned(airtime, tick).total \in 0 .. airtime.total
        /\ \/ Total!Cleaned(airtime, tick).total <= WINDOW
           \/ Total!Cleaned(airtime, tick).total <= airtime.total - (tick - airtime.last)
    BY <1>0, <1>1, <1>2, <1>3, <1>8, Total!DecayBounds
  <2>3. WINDOW <= bound /\ tick \in Nat /\ airtime.last \in Nat
    BY <1>1, <1>2, <1>3
  <2>4. then <= still + (tick - airtime.last)
    BY <1>5
  <2> HIDE DEF bound, then, still
  <2>5. AirtimeNow.total \in 0 .. airtime.total /\ AirtimeNow.total <= bound + still
    <3>1. WINDOW \in Nat
      BY <1>1
    <3>2. QED
      BY <1>6, <2>1, <2>2, <2>3, <2>4, <3>1
  <2>6. QED
    BY <1>4, <1>8, <2>5 DEF bound, still
<1>9. QED
  BY <1>7, <1>8

(* An open gate means that less than a window was counted. *)
LEMMA OpenGate ==
    ASSUME FramesSpaced, TypeOK, TotalInv, TxGateOpen
    PROVE  AirtimeNow.total < WINDOW
<1>0. Total!AirtimeAssumption /\ Total!FramesAssumption
  BY GateConstants
<1>1. WINDOW \in Nat /\ FrameAirtimes[8] \in Nat
  BY GateConstants
<1>2. AirtimeNow.total \in 0 .. WINDOW + 2 * FrameAirtimes[8]
  <2>1. airtime.total \in 0 .. WINDOW + 2 * FrameAirtimes[8]
    BY DEF TotalInv
  <2>2. QED
    BY <1>1, <2>1, FoundTotal
<1>3. Total!GateOpen(AirtimeNow)
  BY DEF TxGateOpen, Total!GateOpen, Average, Total!Average
<1>4. QED
  BY <1>0, <1>1, <1>2, <1>3, Total!OpenBelowWindow

-----------------------------------------------------------------------------
(* The steps.                                                               *)

(* A call that counts no frame. *)
LEMMA NothingCounted ==
    ASSUME FramesSpaced, TypeOK, TypeOK', TotalInv, wake' \in Ticks, tick <= tick',
           airtime' = airtime \/ airtime' = AirtimeNow, UNCHANGED cmcaNextTx
    PROVE  TotalInv'
<1>1. /\ TICK_MOD \in Nat \ {0} /\ Ticks = 0 .. TICK_MOD - 1 /\ WINDOW \in Nat
      /\ FrameAirtimes[8] \in Nat
  BY GateConstants
<1>2. tick \in Ticks /\ tick' \in Ticks
  BY DEF TypeOK
<1>3. CASE airtime' = airtime
  BY <1>1, <1>2, <1>3 DEF TotalInv
<1>4. CASE airtime' = AirtimeNow
  <2>1. /\ airtime' = [total |-> airtime'.total, last |-> tick]
        /\ airtime'.total \in 0 .. airtime.total
        /\ airtime'.total <= WINDOW + FrameAirtimes[8] + Quiet(tick, cmcaNextTx)
        /\ airtime.last = 0 => airtime'.total = airtime.total
    BY <1>4, FoundTotal
  <2>2. airtime'.last = tick
    BY <2>1
  <2>3. /\ airtime.total \in 0 .. WINDOW + 2 * FrameAirtimes[8]
        /\ airtime.last \in Ticks /\ airtime.last <= tick
    BY DEF TotalInv
  <2>4. airtime' \in [total : 0 .. WINDOW + 2 * FrameAirtimes[8], last : Ticks]
    BY <1>1, <1>2, <2>1, <2>3
  <2>5. airtime'.last = 0 => airtime.last = 0 /\ airtime'.total = airtime.total
    BY <1>1, <1>2, <2>1, <2>2, <2>3
  <2>6. QED
    BY <1>1, <1>2, <2>1, <2>2, <2>4, <2>5 DEF TotalInv
<1>5. QED
  BY <1>3, <1>4

(* What is counted on top of a window and a frame fits a word. *)
LEMMA SumFits ==
    ASSUME NEW window \in Nat, NEW frame \in Nat, NEW word \in Nat \ {0},
           (window + 2 * frame) * 1000 < word,
           NEW t \in Nat, t <= window + frame, NEW ms \in Nat, ms <= frame
    PROVE  (t + ms) % word = t + ms
<1>1. t + ms \in Nat /\ t + ms < word
  OBVIOUS
<1>2. QED
  BY <1>1, Reduced

(* A call that counts one, and sets the tick of the next. *)
LEMMA OneCounted ==
    ASSUME FramesSpaced, TypeOK, TypeOK', TotalInv, wake' \in Ticks, tick <= tick',
           CountFrame, TimeReached(tick, cmcaNextTx),
           NEW delay \in Nat \ {0}, 2 * delay <= TICK_MOD,
           cmcaNextTx' = (tick + delay) % TICK_MOD,
           TxGateOpen \/ FrameAirtimes[8] <= delay
    PROVE  TotalInv'
<1>1. /\ TICK_MOD \in Nat \ {0} /\ Ticks = 0 .. TICK_MOD - 1
      /\ WINDOW \in Nat \ {0} /\ WORD \in Nat \ {0}
      /\ FrameAirtimes[5] \in Nat /\ FrameAirtimes[8] \in Nat
      /\ FrameAirtimes[5] <= FrameAirtimes[8]
  BY GateConstants DEF FramesSpaced
<1>2. tick \in Ticks /\ tick' \in Ticks
  BY DEF TypeOK
<1>3. PICK ms \in {FrameAirtimes[5], FrameAirtimes[8]} : airtime' = Counted(airtime, tick, ms)
  BY DEF CountFrame
<1> DEFINE t == AirtimeNow.total
<1>4. airtime' = [total |-> (t + ms) % WORD, last |-> tick]
  BY <1>3 DEF Counted, AirtimeNow
<1>5. /\ ~TimeReached(tick, cmcaNextTx') /\ Quiet(tick, cmcaNextTx') = delay
  BY <1>2, QuietAfter
<1>6. /\ t \in 0 .. airtime.total /\ t <= WINDOW + FrameAirtimes[8]
      /\ airtime.last = 0 => t = airtime.total
  BY <1>1, FoundTotal DEF Quiet
<1>7. t < WINDOW \/ FrameAirtimes[8] <= delay
  BY OpenGate
<1>8. /\ airtime.total \in Nat /\ airtime.last \in Ticks /\ airtime.last <= tick
      /\ airtime.last = 0 => airtime.total = 0 \/ ~TimeReached(0, cmcaNextTx)
  BY <1>1 DEF TotalInv
<1> HIDE DEF t
<1>9. ms \in Nat /\ ms <= FrameAirtimes[8] /\ t \in Nat
  <2>1. ms \in Nat /\ ms <= FrameAirtimes[8]
    BY <1>1
  <2>2. QED
    BY <1>6, <1>8, <2>1
<1>10. (t + ms) % WORD = t + ms
  <2>1. (WINDOW + 2 * FrameAirtimes[8]) * 1000 < WORD
    BY DEF FramesSpaced
  <2>2. t <= WINDOW + FrameAirtimes[8]
    BY <1>6
  <2>3. WINDOW \in Nat /\ FrameAirtimes[8] \in Nat /\ WORD \in Nat \ {0}
    BY <1>1
  <2>4. QED
    BY <1>9, <2>1, <2>2, <2>3, SumFits
<1>11. tick = 0 => t = 0
  <2>1. tick = 0 => airtime.last = 0
    BY <1>1, <1>2, <1>8
  <2>2. QED
    BY <1>6, <1>8, <2>1
<1>12. airtime'.total = t + ms /\ airtime'.last = tick
  BY <1>4, <1>10
<1>13. airtime' \in [total : 0 .. WINDOW + 2 * FrameAirtimes[8], last : Ticks]
  <2>1. t + ms \in 0 .. WINDOW + 2 * FrameAirtimes[8]
    BY <1>1, <1>6, <1>9
  <2>2. QED
    BY <1>2, <1>4, <1>10, <2>1
<1>14. airtime'.last = 0 => airtime'.total <= FrameAirtimes[8] /\ ~TimeReached(0, cmcaNextTx')
  BY <1>5, <1>9, <1>11, <1>12
<1>15. airtime'.total <= WINDOW + FrameAirtimes[8] + Quiet(airtime'.last, cmcaNextTx')
  <2>1. t + ms <= WINDOW + FrameAirtimes[8] + delay
    <3>1. WINDOW \in Nat /\ FrameAirtimes[8] \in Nat /\ t <= WINDOW + FrameAirtimes[8]
      BY <1>1, <1>6
    <3>2. QED
      BY <1>7, <1>9, <3>1
  <2>2. QED
    BY <1>5, <1>12, <2>1
<1>16. airtime'.last <= tick'
  BY <1>12
<1>17. QED
  BY <1>13, <1>14, <1>15, <1>16 DEF TotalInv

(* When handleTx is called again. *)
LEMMA WakeType ==
    ASSUME TypeOK, wake \in Ticks, NEW next \in Ticks, Returns(next)
    PROVE  wake' \in Ticks
<1>1. Later(1) \in Ticks
  BY LaterType, PoolFacts
<1>2. QED
  BY <1>1, GateAssumption DEF Returns

(* The clock after a call of the radio, as long as it does not wrap. *)
LEMMA ClockAfter ==
    ASSUME FramesSpaced, TypeOK, tick <= tick', NEW spent \in Nat, 2 * spent <= TICK_MOD,
           tick' = Later(spent)
    PROVE  tick' = tick + spent
<1>1. TICK_MOD \in Nat \ {0} /\ Ticks = 0 .. TICK_MOD - 1
  BY GateConstants
<1>2. tick \in 0 .. TICK_MOD - 1 /\ spent < TICK_MOD
  BY <1>1 DEF TypeOK
<1>3. CASE tick + spent < TICK_MOD
  <2>1. tick + spent \in Nat
    BY <1>1, <1>2
  <2>2. QED
    BY <1>1, <1>3, <2>1, Reduced DEF Later
<1>4. CASE tick + spent >= TICK_MOD
  <2>1. (TICK_MOD * 1 + (tick + spent - TICK_MOD)) % TICK_MOD = tick + spent - TICK_MOD
    BY <1>1, <1>2, <1>4, Remainder
  <2>2. tick' = tick + spent - TICK_MOD
    <3>1. TICK_MOD * 1 + (tick + spent - TICK_MOD) = tick + spent
      BY <1>1, <1>2
    <3>2. QED
      BY <2>1, <3>1 DEF Later
  <2>3. QED
    BY <1>1, <1>2, <2>2
<1>5. QED
  BY <1>1, <1>2, <1>3, <1>4

(* handleTx() *)
LEMMA TotalAfterTx ==
    ASSUME FramesSpaced, TypeOK, TypeOK', TotalInv, GatedTx, tick <= tick'
    PROVE  TotalInv'
<1>1. /\ TICK_MOD \in Nat \ {0} /\ Ticks = 0 .. TICK_MOD - 1 /\ TX_TIME \in Nat
      /\ FrameAirtimes[8] <= TX_TIME /\ TX_TIME # 0 /\ 2 * TX_TIME <= TICK_MOD
      /\ \A spent \in SendTimes : spent \in Nat /\ 2 * (TX_TIME + spent) <= TICK_MOD
  BY GateConstants, TimingAssumption DEF FramesSpaced
<1>2. /\ cmcaNextTx \in Ticks /\ cmcaNextTx' \in Ticks /\ tick \in Ticks /\ wake \in Ticks
      /\ Later(MAC_DEFAULT_TX_BACKOFF) \in Ticks
  BY LaterType, PoolFacts, GateAssumption DEF TypeOK, TotalInv
<1>3. CASE ChannelWait
  <2>1. wake' \in Ticks /\ UNCHANGED <<airtime, cmcaNextTx>>
    BY <1>2, <1>3, WakeType DEF ChannelWait, HandleTxWaits
  <2>2. QED
    BY <2>1, NothingCounted
<1>4. CASE GateWait
  <2>1. wake' \in Ticks /\ airtime' = AirtimeNow /\ UNCHANGED cmcaNextTx
    BY <1>2, <1>4, WakeType DEF GateWait, HandleTxWaits
  <2>2. QED
    BY <2>1, NothingCounted
<1>5. CASE GatedNothing
  <2>1. /\ wake' \in Ticks
        /\ airtime' = airtime \/ airtime' = AirtimeNow
        /\ UNCHANGED cmcaNextTx
    BY <1>2, <1>5, WakeType DEF GatedNothing, HandleTxNothing
  <2>2. QED
    BY <2>1, NothingCounted
<1>6. ASSUME NEW ok \in BOOLEAN, GatedTracking(ok)
      PROVE  TotalInv'
  <2>1. wake' \in Ticks
    BY <1>2, <1>6, WakeType DEF GatedTracking
  <2>2. /\ CountFrame /\ TimeReached(tick, cmcaNextTx)
        /\ cmcaNextTx' = (tick + TX_TIME) % TICK_MOD
    BY <1>6 DEF GatedTracking, HandleTxTracking, TxCall, Spaced
  <2>3. QED
    BY <1>1, <2>1, <2>2, OneCounted
<1>7. CASE GatedSent
  <2>1. wake' \in Ticks
    BY <1>2, <1>7, WakeType DEF GatedSent
  <2>2. PICK spent \in SendTimes : tick' = Later(spent)
    BY <1>7 DEF GatedSent, HandleTxSent, ClockMoves
  <2>3. /\ CountFrame /\ TimeReached(tick, cmcaNextTx) /\ TxGateOpen
        /\ cmcaNextTx' = (tick' + TX_TIME) % TICK_MOD
    BY <1>7 DEF GatedSent, HandleTxSent, TxCall, Spaced
  <2>4. tick' = tick + spent
    BY <1>1, <2>2, ClockAfter
  <2>5. (tick + spent) + TX_TIME = tick + (spent + TX_TIME)
    BY <1>1, <1>2
  <2>6. /\ spent + TX_TIME \in Nat \ {0} /\ 2 * (spent + TX_TIME) <= TICK_MOD
    BY <1>1
  <2>7. QED
    BY <2>1, <2>3, <2>4, <2>5, <2>6, OneCounted
<1>8. CASE GatedBusy
  <2>1. wake' \in Ticks
    BY <1>2, <1>8, WakeType DEF GatedBusy
  <2>2. PICK spent \in SendTimes : tick' = Later(spent)
    BY <1>8 DEF GatedBusy, HandleTxBusy, ClockMoves
  <2>3. /\ CountFrame /\ TimeReached(tick, cmcaNextTx) /\ TxGateOpen
    BY <1>8 DEF GatedBusy, HandleTxBusy, TxCall
  <2>4. PICK delay \in BackoffDelays[carrierBackoffExp'] :
               cmcaNextTx' = (tick' + delay) % TICK_MOD
    BY <1>8 DEF GatedBusy, HandleTxBusy
  <2>5. /\ delay \in Nat \ {0} /\ 2 * (delay + spent) <= TICK_MOD
    BY <2>2, TimingAssumption DEF FramesSpaced, TypeOK
  <2>6. tick' = tick + spent
    BY <1>1, <2>2, ClockAfter
  <2>7. (tick + spent) + delay = tick + (delay + spent)
    BY <1>1, <1>2, <2>5
  <2>8. delay + spent \in Nat \ {0}
    BY <1>1, <2>5
  <2>9. QED
    BY <2>1, <2>3, <2>4, <2>5, <2>6, <2>7, <2>8, OneCounted
<1>9. QED
  BY <1>3, <1>4, <1>5, <1>6, <1>7, <1>8 DEF GatedTx

(* Every step. *)
LEMMA TotalPreserved ==
    ASSUME FramesSpaced, TypeOK, TypeOK', TotalInv, [GatedNext]_gatedVars, tick <= tick'
    PROVE  TotalInv'
<1>1. wake \in Ticks
  BY DEF TotalInv
<1>2. CASE Elsewhere /\ UNCHANGED cmcaNextTx
  BY <1>1, <1>2, NothingCounted DEF Elsewhere
<1>3. CASE /\ \/ \E p \in AppPackets, strict \in StrictModes : SendPacket(p, strict)
              \/ \E a \in NewAddresses : SetOwnAddress(a)
              \/ Reinit
              \/ \E f \in RxFrames, rssi \in Rssis : RxFromUs(f) \/ RxEcho(f, rssi)
              \/ Sleep
           /\ Elsewhere
  <2>1. UNCHANGED cmcaNextTx
    BY <1>3 DEF SendPacket, SetOwnAddress, Reinit, RxFromUs, RxEcho, Input, Sleep, TimePasses
  <2>2. QED
    BY <1>2, <1>3, <2>1
<1>4. ASSUME NEW f \in RxFrames, NEW rssi \in Rssis, GatedRxNew(f, rssi)
      PROVE  TotalInv'
  <2>1. UNCHANGED <<cmcaNextTx, wake>> /\ (airtime' = airtime \/ airtime' = AirtimeNow)
    BY <1>4 DEF GatedRxNew, RxNew, Input
  <2>2. QED
    BY <1>1, <2>1, NothingCounted
<1>5. CASE Poll(GatedTx)
  BY <1>5, TotalAfterTx DEF Poll
<1>6. CASE UNCHANGED gatedVars
  BY <1>2, <1>6 DEF gatedVars, vars, Elsewhere
<1>7. QED
  BY <1>3, <1>4, <1>5, <1>6 DEF GatedNext

LEMMA TotalInitially ==
    ASSUME FramesSpaced, TypeOK, GatedInit
    PROVE  TotalInv
<1>1. /\ TICK_MOD \in Nat \ {0} /\ Ticks = 0 .. TICK_MOD - 1 /\ WINDOW \in Nat
      /\ FrameAirtimes[8] \in Nat
  BY GateConstants
<1>2. tick \in Ticks /\ wake = tick /\ airtime = NoAirtime /\ cmcaNextTx \in Ticks
  BY DEF GatedInit, TypeOK
<1>3. Quiet(0, cmcaNextTx) \in Nat
  BY <1>1, <1>2, QuietShrinks
<1>4. QED
  BY <1>1, <1>2, <1>3 DEF TotalInv, NoAirtime

\* 49 days at the most.
ClockRunsOn == [][tick <= tick']_gatedVars

(* Until the clock wraps: whatever is received and refused, however often   *)
(* handleTx is called and although our own tracking passes a closed gate,   *)
(* the spacing of the frames keeps the total of the engine within a window  *)
(* and two frames, so that no product of it overflows.                      *)
THEOREM TotalIsBounded ==
    ASSUME FramesSpaced
    PROVE  GatedSpec /\ ClockRunsOn => []GatedTypeOK
<1>1. Spec => []TypeOK
  BY TypeCorrect
<1>2. GatedInit /\ TypeOK => TotalInv
  BY TotalInitially
<1>3. TypeOK /\ TypeOK' /\ TotalInv /\ [GatedNext]_gatedVars /\ [tick <= tick']_gatedVars
      => TotalInv'
  <2> SUFFICES ASSUME TypeOK, TypeOK', TotalInv, [GatedNext]_gatedVars,
                      [tick <= tick']_gatedVars
               PROVE  TotalInv'
    OBVIOUS
  <2>1. tick <= tick'
    <3>1. tick \in Nat
      BY PoolFacts
    <3>2. CASE UNCHANGED gatedVars
      BY <3>1, <3>2 DEF gatedVars, vars
    <3>3. QED
      BY <3>2
  <2>2. QED
    BY <2>1, TotalPreserved
<1>4. TypeOK /\ TotalInv => GatedTypeOK
  BY DEF TotalInv, GatedTypeOK
<1>5. QED
  BY <1>1, <1>2, <1>3, <1>4, GatesOnlyHoldBack, PTL DEF GatedSpec, ClockRunsOn

=============================================================================
