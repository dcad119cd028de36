---------------------------- MODULE ProtocolProofs ----------------------------
(****************************************************************************)
(* Theorems about Protocol, for any devices, packets, times and capacities. *)
(****************************************************************************)
EXTENDS Protocol, NeighbourLemmas, WellFoundedInduction

(* What TypeOK says of the pool, for a pool whose arrival numbers reach top.*)
PoolOK(pool, top) ==
    /\ DOMAIN pool \subseteq 1 .. top
    /\ pool \in [DOMAIN pool -> Frame]
    /\ Cardinality(DOMAIN pool) <= MAX_BLOCKS

-----------------------------------------------------------------------------
(* The operations on the pool.                                              *)

(* A pool is finite. *)
LEMMA PoolFinite ==
    ASSUME NEW top \in Nat, NEW pool, PoolOK(pool, top)
    PROVE  IsFiniteSet(DOMAIN pool) /\ Cardinality(DOMAIN pool) \in Nat
<1>1. IsFiniteSet(1 .. top)
  BY FS_Interval
<1>2. DOMAIN pool \in SUBSET (1 .. top)
  BY DEF PoolOK
<1>3. IsFiniteSet(DOMAIN pool)
  BY <1>1, <1>2, FS_Subset
<1>4. QED
  BY <1>3, FS_CardinalityType

(* Frames taken out: the others stay as they are. *)
LEMMA WithoutProperties ==
    ASSUME NEW top \in Nat, NEW pool, PoolOK(pool, top), NEW S
    PROVE  /\ PoolOK(Without(pool, S), top)
           /\ DOMAIN Without(pool, S) = DOMAIN pool \ S
           /\ \A n \in DOMAIN pool \ S : Without(pool, S)[n] = pool[n]
<1>1. /\ DOMAIN Without(pool, S) = DOMAIN pool \ S
      /\ \A n \in DOMAIN pool \ S : Without(pool, S)[n] = pool[n]
  BY DEF Without, Restrict
<1>2. Without(pool, S) \in [DOMAIN pool \ S -> Frame]
  BY DEF Without, Restrict, PoolOK
<1>3. Cardinality(DOMAIN pool \ S) <= MAX_BLOCKS
  <2>1. IsFiniteSet(DOMAIN pool) /\ Cardinality(DOMAIN pool) \in Nat
    BY PoolFinite
  <2>2. /\ Cardinality(DOMAIN pool \ S) <= Cardinality(DOMAIN pool)
        /\ IsFiniteSet(DOMAIN pool \ S)
    BY <2>1, FS_Subset
  <2>3. Cardinality(DOMAIN pool \ S) \in Nat
    BY <2>2, FS_CardinalityType
  <2>4. QED
    BY <2>1, <2>2, <2>3, TimingAssumption DEF PoolOK
<1>4. QED
  BY <1>1, <1>2, <1>3 DEF PoolOK

(* A frame added: it is in the pool, or the pool was full and stays.        *)
LEMMA AddProperties ==
    ASSUME NEW top \in Nat, NEW pool, PoolOK(pool, top),
           NEW n \in 1 .. top, NEW f \in Frame
    PROVE  /\ PoolOK(AfterAdd(pool, n, f), top)
           /\ \A m \in DOMAIN AfterAdd(pool, n, f) \ {n} :
                 m \in DOMAIN pool /\ AfterAdd(pool, n, f)[m] = pool[m]
           /\ DOMAIN pool \subseteq DOMAIN AfterAdd(pool, n, f)
           /\ n \in DOMAIN AfterAdd(pool, n, f) \ DOMAIN pool
                 => AfterAdd(pool, n, f)[n] = f
<1> DEFINE new == AfterAdd(pool, n, f)
<1>1. CASE Cardinality(DOMAIN pool) < MAX_BLOCKS
  <2>1. /\ DOMAIN new = DOMAIN pool \cup {n}
        /\ \A m \in DOMAIN pool \cup {n} : new[m] = IF m = n THEN f ELSE pool[m]
    BY <1>1 DEF AfterAdd
  <2>2. new \in [DOMAIN pool \cup {n} -> Frame]
    BY <1>1 DEF AfterAdd, PoolOK
  <2>3. Cardinality(DOMAIN pool \cup {n}) <= MAX_BLOCKS
    BY <1>1, PoolFinite, FS_AddElement, TimingAssumption
  <2>4. QED
    BY <2>1, <2>2, <2>3 DEF PoolOK
<1>2. CASE ~(Cardinality(DOMAIN pool) < MAX_BLOCKS)
  BY <1>2 DEF AfterAdd
<1>3. QED
  BY <1>1, <1>2

(* A frame edited in place. *)
LEMMA EditProperties ==
    ASSUME NEW top \in Nat, NEW pool, PoolOK(pool, top),
           NEW n \in DOMAIN pool, NEW f \in Frame
    PROVE  /\ PoolOK([pool EXCEPT ![n] = f], top)
           /\ DOMAIN [pool EXCEPT ![n] = f] = DOMAIN pool
           /\ [pool EXCEPT ![n] = f][n] = f
           /\ \A m \in DOMAIN pool \ {n} : [pool EXCEPT ![n] = f][m] = pool[m]
  BY DEF PoolOK

(* A frame built by the protocol is a frame. *)
LEMMA TxFrameType ==
    ASSUME NEW f \in RadioFrame \cup AppPacket, NEW self \in BOOLEAN,
           NEW id \in {0} \cup Arrivals, NEW numTx \in 0 .. 7,
           NEW nextTx \in Ticks, NEW rssi \in Int
    PROVE  TxFrame(f, self, id, numTx, nextTx, rssi) \in Frame
  BY DEF TxFrame, Int8, Frame, RadioFrame, AppPacket

(* A sum of ticks and delays, reduced. *)
LEMMA TickType ==
    ASSUME NEW i \in Int
    PROVE  i % TICK_MOD \in Ticks
  BY Division, TableAssumption DEF Ticks

-----------------------------------------------------------------------------
(* What handleTx reads before it sends.                                     *)

(* What TypeOK says of the pool and of the counters beside it. *)
LEMMA PoolFacts ==
    ASSUME TypeOK
    PROVE  /\ inputs \in Nat /\ 2 * inputs + 1 \in Nat
           /\ PoolOK(txPool, 2 * inputs + 1)
           /\ \A n \in DOMAIN txPool : txPool[n] \in Frame
           /\ tick \in Ticks /\ tick \in Nat
  BY TableAssumption, InputAssumption DEF TypeOK, PoolOK, Ticks

(* The pool after the frames given up are part of it. *)
LEMMA RemainingProperties ==
    ASSUME TypeOK
    PROVE  /\ PoolOK(Remaining, 2 * inputs + 1)
           /\ DOMAIN Remaining = DOMAIN txPool \ GivenUp
           /\ \A n \in DOMAIN Remaining : Remaining[n] = txPool[n]
<1>1. /\ PoolOK(Without(txPool, GivenUp), 2 * inputs + 1)
      /\ DOMAIN Without(txPool, GivenUp) = DOMAIN txPool \ GivenUp
      /\ \A n \in DOMAIN txPool \ GivenUp : Without(txPool, GivenUp)[n] = txPool[n]
  <2>1. 2 * inputs + 1 \in Nat /\ PoolOK(txPool, 2 * inputs + 1)
    BY PoolFacts
  <2>2. QED
    BY <2>1, WithoutProperties
<1>2. QED
  BY <1>1 DEF Remaining

(* The recursion of handleTx ends at a frame that may still be sent. *)
LEMMA PickedMayBeSent ==
    ASSUME TypeOK, NEW n \in NextTxFrame(Remaining)
    PROVE  /\ n \in DOMAIN Remaining /\ n \in DOMAIN txPool
           /\ Remaining[n] = txPool[n]
           /\ ~NeverAcked(txPool[n])
<1>1. /\ n \in DOMAIN Remaining /\ Pickable(Remaining[n])
      /\ \A m \in DOMAIN Remaining : Pickable(Remaining[m]) => ~Precedes(Remaining, m, n)
  BY DEF NextTxFrame
<1>2. /\ n \in DOMAIN txPool /\ n \notin GivenUp
      /\ Remaining[n] = txPool[n]
  BY <1>1, RemainingProperties
<1>3. ASSUME NeverAcked(txPool[n])
      PROVE  FALSE
  <2>1. ASSUME NEW m \in DOMAIN txPool, Pickable(txPool[m]), Precedes(txPool, m, n)
        PROVE  NeverAcked(txPool[m])
    <3>1. CASE m \in GivenUp
      BY <3>1 DEF GivenUp
    <3>2. CASE m \notin GivenUp
      <4>1. m \in DOMAIN Remaining /\ Remaining[m] = txPool[m]
        BY <3>2, RemainingProperties
      <4>2. Precedes(Remaining, m, n)
        BY <2>1, <4>1, <1>2 DEF Precedes
      <4>3. QED
        BY <1>1, <2>1, <4>1, <4>2
    <3>3. QED
      BY <3>1, <3>2
  <2>2. n \in GivenUp
    BY <1>1, <1>2, <1>3, <2>1 DEF GivenUp
  <2>3. QED
    BY <1>2, <2>2
<1>4. QED
  BY <1>1, <1>2, <1>3

(* Sending changes the forward bit of a frame and nothing else. *)
LEMMA OutgoingProperties ==
    ASSUME NEW f \in Frame
    PROVE  /\ Outgoing(f) \in Frame
           /\ Outgoing(f).source = f.source
           /\ Outgoing(f).destination = f.destination
           /\ Outgoing(f).type = f.type
           /\ Outgoing(f).ackType = f.ackType
           /\ Outgoing(f).payload = f.payload
           /\ Outgoing(f).self = f.self
           /\ Outgoing(f).id = f.id
           /\ Outgoing(f).numTx = f.numTx
           /\ ~f.self /\ f.destination = BROADCAST => Outgoing(f).forward = f.forward
<1> DEFINE b == IF OwnTracking(f)
                THEN Cardinality(DOMAIN neighborTable_) < MAC_MAXNEIGHBORS_4_TRACKING_2HOP
                ELSE \/ f.forward
                     \/ /\ f.destination # BROADCAST
                        /\ LastSeen(neighborTable_, f.destination) = 0
<1>1. Outgoing(f) = [f EXCEPT !.forward = b]
  BY DEF Outgoing
<1>2. b \in BOOLEAN
  <2>1. (Cardinality(DOMAIN neighborTable_) < MAC_MAXNEIGHBORS_4_TRACKING_2HOP) \in BOOLEAN
    BY SMT
  <2>2. (\/ f.forward
         \/ /\ f.destination # BROADCAST
            /\ LastSeen(neighborTable_, f.destination) = 0) \in BOOLEAN
    BY SMT
  <2>3. QED
    BY <2>1, <2>2, Zenon
<1>3. ~f.self /\ f.destination = BROADCAST => b = f.forward
  <2>1. f.forward \in BOOLEAN
    BY DEF Frame
  <2>2. ~f.self /\ f.destination = BROADCAST => (b <=> f.forward)
    BY DEF OwnTracking
  <2>3. QED
    BY <1>2, <2>1, <2>2
<1> HIDE DEF b
<1>4. QED
  BY <1>1, <1>2, <1>3 DEF Frame

(* The counters of transmissions follow the pool. *)
LEMMA CountSentType ==
    ASSUME sent \in [DOMAIN txPool -> Nat], NEW n, CountSent(n)
    PROVE  /\ sent' \in [DOMAIN txPool' -> Nat]
           /\ \A m \in DOMAIN txPool' :
                 sent'[m] = IF m \notin DOMAIN txPool THEN 0
                            ELSE IF m = n THEN sent[m] + 1 ELSE sent[m]
  BY DEF CountSent

(* The channel waits until some tick. *)
LEMMA SpacedType ==
    ASSUME NEW from \in Ticks, Spaced(from)
    PROVE  /\ cmcaNextTx' \in Ticks
           /\ carrierBackoffExp' \in MAC_TX_BACKOFF_EXP_MIN .. MAC_TX_BACKOFF_EXP_MAX
<1>1. from + TX_TIME \in Int
  BY TimingAssumption, TableAssumption DEF Ticks
<1>2. (from + TX_TIME) % TICK_MOD \in Ticks
  BY <1>1, TickType
<1>3. QED
  BY <1>2, TimingAssumption DEF Spaced

(* The clock stays a tick. *)
LEMMA LaterType ==
    ASSUME tick \in Ticks, NEW delay \in Nat
    PROVE  Later(delay) \in Ticks
<1>1. tick + delay \in Int
  BY TableAssumption DEF Ticks
<1>2. QED
  BY <1>1, TickType DEF Later

-----------------------------------------------------------------------------
(* Every action preserves the types.                                        *)

(* TypeOK in the next state, part by part. *)
LEMMA TypeAssembled ==
    ASSUME inputs' \in 0 .. MAX_INPUTS,
           PoolOK(txPool', 2 * inputs' + 1),
           neighborTable_' \in Tables,
           Cardinality(DOMAIN neighborTable_') <= FANET_MAX_NEIGHBORS,
           ownAddress_' \in Address \ Reserved,
           cmcaNextTx' \in Ticks,
           carrierBackoffExp' \in MAC_TX_BACKOFF_EXP_MIN .. MAC_TX_BACKOFF_EXP_MAX,
           tick' \in Ticks,
           sent' \in [DOMAIN txPool' -> Nat],
           acked' \subseteq Arrivals, reported' \subseteq Arrivals
    PROVE  TypeOK'
  BY DEF TypeOK, PoolOK

(* A call other than handleTx takes two new arrival numbers. *)
LEMMA InputFacts ==
    ASSUME TypeOK, Input
    PROVE  /\ inputs' \in 0 .. MAX_INPUTS
           /\ 2 * inputs' + 1 \in Nat
           /\ PoolOK(txPool, 2 * inputs' + 1)
           /\ Arrival \in 1 .. (2 * inputs' + 1) /\ RelayArrival \in 1 .. (2 * inputs' + 1)
           /\ Arrival \notin DOMAIN txPool /\ RelayArrival \notin DOMAIN txPool
           /\ Arrival # RelayArrival
           /\ Arrival \in Arrivals
           /\ cmcaNextTx' \in Ticks
           /\ carrierBackoffExp' \in MAC_TX_BACKOFF_EXP_MIN .. MAC_TX_BACKOFF_EXP_MAX
           /\ tick' \in Ticks
<1>1. /\ inputs \in 0 .. MAX_INPUTS /\ inputs < MAX_INPUTS /\ inputs' = inputs + 1
      /\ DOMAIN txPool \subseteq 1 .. (2 * inputs + 1)
      /\ UNCHANGED <<cmcaNextTx, carrierBackoffExp, tick>>
  BY DEF TypeOK, Input
<1>2. PoolOK(txPool, 2 * inputs' + 1)
  BY <1>1, InputAssumption DEF TypeOK, PoolOK
<1>3. QED
  BY <1>1, <1>2, InputAssumption DEF TypeOK, Arrival, RelayArrival, Arrivals

(* The history after a step that sends nothing. *)
LEMMA NoneSentType ==
    ASSUME TypeOK, NoneSent
    PROVE  sent' \in [DOMAIN txPool' -> Nat]
  BY CountSentType DEF NoneSent, TypeOK

(* A step that tells the application nothing. *)
LEMMA NothingAckedType ==
    ASSUME NothingAcked
    PROVE  acked' \subseteq Arrivals /\ reported' \subseteq Arrivals
  BY DEF NothingAcked

(* A packet of the application becomes a frame of the pool. *)
LEMMA SubmittedType ==
    ASSUME TypeOK, NEW p \in AppPackets, NEW strict \in BOOLEAN,
           NEW numTx \in NumTxOf(p, strict), NEW id \in {0} \cup Arrivals
    PROVE  TxFrame(IF strict THEN StrictPacket(p) ELSE p, TRUE, id, numTx, tick, 0) \in Frame
<1>1. p \in AppPacket
  BY InputAssumption
<1>2. numTx \in 0 .. 7
  BY TimingAssumption DEF NumTxOf
<1>3. StrictPacket(p) \in AppPacket
  <2> DEFINE b == p.forward \/ p.ackType # "NONE"
  <2>1. b \in BOOLEAN
    BY SMT
  <2>2. StrictPacket(p) = [p EXCEPT !.source = ownAddress_, !.forward = b]
    BY DEF StrictPacket
  <2> HIDE DEF b
  <2>3. QED
    BY <1>1, <2>1, <2>2 DEF AppPacket, TypeOK
<1> DEFINE f == IF strict THEN StrictPacket(p) ELSE p
<1>4. f \in RadioFrame \cup AppPacket /\ tick \in Ticks /\ 0 \in Int /\ TRUE \in BOOLEAN
  BY <1>1, <1>3, PoolFacts
<1> HIDE DEF f
<1>5. TxFrame(f, TRUE, id, numTx, tick, 0) \in Frame
  BY <1>2, <1>4, TxFrameType
<1>6. QED
  BY <1>5 DEF f

(* sendPacket() preserves the types. *)
LEMMA SendPacketType ==
    ASSUME TypeOK, NEW p \in AppPackets, NEW strict \in BOOLEAN, SendPacket(p, strict)
    PROVE  TypeOK'
<1> USE DEF SendPacket
<1>1. PICK numTx \in NumTxOf(p, strict) :
          txPool' = AfterAdd(txPool, Arrival,
                        TxFrame(IF strict THEN StrictPacket(p) ELSE p, TRUE,
                                IF p.tagged THEN Arrival ELSE 0, numTx, tick, 0))
  OBVIOUS
<1>2. (IF p.tagged THEN Arrival ELSE 0) \in {0} \cup Arrivals
  BY InputFacts
<1> DEFINE f == TxFrame(IF strict THEN StrictPacket(p) ELSE p, TRUE,
                        IF p.tagged THEN Arrival ELSE 0, numTx, tick, 0)
<1>3. f \in Frame
  BY <1>2, SubmittedType
<1>4. PoolOK(txPool', 2 * inputs' + 1)
  <2>1. txPool' = AfterAdd(txPool, Arrival, f)
    BY <1>1
  <2> HIDE DEF f
  <2>2. /\ 2 * inputs' + 1 \in Nat
        /\ PoolOK(txPool, 2 * inputs' + 1)
        /\ Arrival \in 1 .. (2 * inputs' + 1)
    BY InputFacts
  <2>3. QED
    BY <1>3, <2>1, <2>2, AddProperties
<1>5. neighborTable_' = neighborTable_ /\ ownAddress_' = ownAddress_
  OBVIOUS
<1>6. QED
  BY <1>4, <1>5, InputFacts, NoneSentType, NothingAckedType, TypeAssembled DEF TypeOK

(* ownAddress() preserves the types. *)
LEMMA SetOwnAddressType ==
    ASSUME TypeOK, NEW a \in NewAddresses, SetOwnAddress(a)
    PROVE  TypeOK'
<1>1. ownAddress_' \in Address \ Reserved
  BY AddressAssumption DEF SetOwnAddress, TypeOK
<1>2. QED
  BY <1>1, InputFacts, NothingAckedType, TypeAssembled DEF SetOwnAddress, TypeOK

(* The empty pool. *)
LEMMA EmptyPool ==
    ASSUME NEW top \in Nat, NEW pool, pool = [n \in {} |-> 0]
    PROVE  PoolOK(pool, top) /\ DOMAIN pool = {}
  BY FS_EmptySet, TimingAssumption DEF PoolOK

(* init() preserves the types. *)
LEMMA ReinitType ==
    ASSUME TypeOK, Reinit
    PROVE  TypeOK'
<1>1. PoolOK(txPool', 2 * inputs' + 1)
  BY EmptyPool, InputFacts DEF Reinit
<1>2. ownAddress_' = ownAddress_ /\ neighborTable_' = NoNeighbours
  BY DEF Reinit
<1>3. QED
  BY <1>1, <1>2, EmptyTable, InputFacts, NoneSentType, NothingAckedType, TypeAssembled
     DEF Reinit, TypeOK

(* The neighbours after a reception. *)
LEMMA OutdatedType ==
    ASSUME TypeOK
    PROVE  Outdated \in Tables /\ Cardinality(DOMAIN Outdated) <= FANET_MAX_NEIGHBORS
<1> DEFINE S == {a \in DOMAIN neighborTable_ :
                    (tick - neighborTable_[a]) % TICK_MOD <= NEIGHBOR_MAX_TIMEOUT_MS}
<1>1. /\ neighborTable_ \in Tables
      /\ Cardinality(DOMAIN neighborTable_) <= FANET_MAX_NEIGHBORS
  BY DEF TypeOK
<1>2. S \in SUBSET DOMAIN neighborTable_ /\ Outdated = Restrict(neighborTable_, S)
  BY DEF Outdated, AfterRemoveOutdated
<1> HIDE DEF S
<1>3. QED
  BY <1>1, <1>2, RestrictProperties

(* After a frame is heard, its source is in the table and others are at most as before. *)
LEMMA HeardType ==
    ASSUME TypeOK, NEW f \in RxFrames, NEW table \in HeardTables(f)
    PROVE  /\ table \in Tables /\ Cardinality(DOMAIN table) <= FANET_MAX_NEIGHBORS
           /\ f.source \in DOMAIN table
           /\ \A b \in DOMAIN table \ {f.source} : b \in DOMAIN neighborTable_
<1>1. /\ Outdated \in Tables /\ Cardinality(DOMAIN Outdated) <= FANET_MAX_NEIGHBORS
      /\ tick \in Ticks /\ f.source \in Address
      /\ table \in AfterAddOrUpdate(Outdated, f.source, tick)
  BY OutdatedType, PoolFacts, InputAssumption DEF RadioFrame, HeardTables
<1>2. DOMAIN Outdated \subseteq DOMAIN neighborTable_
  BY DEF Outdated, AfterRemoveOutdated, Restrict
<1>3. QED
  BY <1>1, <1>2, AddOrUpdateProperties

(* handleRx() of a frame of ours preserves the types. *)
LEMMA RxFromUsType ==
    ASSUME TypeOK, NEW f \in RxFrames, RxFromUs(f)
    PROVE  TypeOK'
<1>1. ownAddress_' = ownAddress_ /\ sent' = sent /\ txPool' = txPool /\ neighborTable_' = Outdated
  BY DEF RxFromUs
<1>2. QED
  BY <1>1, OutdatedType, InputFacts, NothingAckedType, TypeAssembled DEF RxFromUs, TypeOK

(* A delayed frame is a frame that differs in its time. *)
LEMMA DelayedProperties ==
    ASSUME NEW f \in Frame, NEW t \in Ticks
    PROVE  [f EXCEPT !.nextTx = t] \in Frame
  BY DEF Frame

(* handleRx() of a frame that is queued preserves the types. *)
LEMMA RxEchoType ==
    ASSUME TypeOK, NEW f \in RxFrames, NEW rssi \in Rssis, RxEcho(f, rssi)
    PROVE  TypeOK'
<1>1. PICK n \in FrameInTxPool(f) :
          \/ txPool' = Without(txPool, {n})
          \/ \E delay \in ForwardDelays :
                txPool' = [txPool EXCEPT ![n].nextTx = Later(delay)]
  BY DEF RxEcho
<1>2. n \in DOMAIN txPool /\ txPool[n] \in Frame
  BY PoolFacts DEF FrameInTxPool
<1>3. PoolOK(txPool', 2 * inputs' + 1)
  <2>1. 2 * inputs' + 1 \in Nat /\ PoolOK(txPool, 2 * inputs' + 1)
    BY InputFacts DEF RxEcho
  <2>2. CASE txPool' = Without(txPool, {n})
    BY <2>1, <2>2, WithoutProperties
  <2>3. ASSUME NEW delay \in ForwardDelays,
               txPool' = [txPool EXCEPT ![n].nextTx = Later(delay)]
        PROVE  PoolOK(txPool', 2 * inputs' + 1)
    <3> DEFINE g == [txPool[n] EXCEPT !.nextTx = Later(delay)]
    <3>1. g \in Frame
      BY <1>2, LaterType, PoolFacts, DelayedProperties, TimingAssumption
    <3>2. txPool' = [txPool EXCEPT ![n] = g]
      BY <1>2, <2>3
    <3> HIDE DEF g
    <3>3. QED
      BY <1>2, <2>1, <3>1, <3>2, EditProperties
  <2>4. QED
    BY <1>1, <2>2, <2>3
<1>4. neighborTable_' \in HeardTables(f) /\ ownAddress_' = ownAddress_
  BY DEF RxEcho
<1>5. QED
  BY <1>3, <1>4, HeardType, InputFacts, NoneSentType, NothingAckedType, TypeAssembled
     DEF RxEcho, TypeOK

(* The frames handleRx makes: the answer and the relayed copy. *)
LEMMA AckFrameType ==
    ASSUME TypeOK, NEW f \in RxFrames
    PROVE  AckFrame(f) \in Frame
<1> DEFINE b == f.ackType = "TWOHOP" /\ ~f.forward
           g == [source |-> ownAddress_, destination |-> f.source, type |-> "ACK",
                 ackType |-> "NONE", payload |-> NO_PAYLOAD, forward |-> b]
<1>1. b \in BOOLEAN
  BY SMT
<1>2. g \in RadioFrame
  <2> HIDE DEF b
  <2>1. ownAddress_ \in Address /\ f.source \in Address /\ NO_PAYLOAD \in Payload
    BY InputAssumption, AddressAssumption DEF TypeOK, RadioFrame
  <2>2. QED
    BY <1>1, <2>1 DEF RadioFrame, Types, AckTypes
<1>3. AckFrame(f) = TxFrame(g, FALSE, 0, 0, tick, 0)
  BY DEF AckFrame
<1> HIDE DEF g
<1>4. g \in RadioFrame \cup AppPacket /\ FALSE \in BOOLEAN /\ 0 \in {0} \cup Arrivals
      /\ 0 \in 0 .. 7 /\ tick \in Ticks /\ 0 \in Int
  BY <1>2, PoolFacts
<1>5. QED
  BY <1>3, <1>4, TxFrameType

(* A relayed copy is a frame. *)
LEMMA RelayFrameType ==
    ASSUME TypeOK, NEW f \in RxFrames, NEW rssi \in Rssis, NEW delay \in ForwardDelays
    PROVE  RelayFrame(f, rssi, delay) \in Frame
<1> DEFINE g == [f EXCEPT !.forward = FALSE]
           k == IF f.ackType # "NONE" THEN 1 ELSE 0
<1>1. g \in RadioFrame
  BY InputAssumption DEF RadioFrame
<1>2. Later(delay) \in Ticks
  BY LaterType, PoolFacts, TimingAssumption
<1>3. RelayFrame(f, rssi, delay) = TxFrame(g, FALSE, 0, k, Later(delay), rssi)
  BY DEF RelayFrame
<1>4. k \in 0 .. 7
  OBVIOUS
<1> HIDE DEF g, k
<1>5. g \in RadioFrame \cup AppPacket /\ FALSE \in BOOLEAN /\ 0 \in {0} \cup Arrivals
      /\ rssi \in Int
  BY <1>1, InputAssumption
<1>6. QED
  BY <1>2, <1>3, <1>4, <1>5, TxFrameType

(* The pool after the answer, and after the relaying. *)
LEMMA AnsweredType ==
    ASSUME TypeOK, Input, NEW f \in RxFrames
    PROVE  PoolOK(Answered(f), 2 * inputs' + 1)
<1>1. /\ 2 * inputs' + 1 \in Nat
      /\ PoolOK(txPool, 2 * inputs' + 1)
      /\ Arrival \in 1 .. (2 * inputs' + 1)
      /\ AckFrame(f) \in Frame
  BY InputFacts, AckFrameType
<1>2. PoolOK(AfterAdd(txPool, Arrival, AckFrame(f)), 2 * inputs' + 1)
  BY <1>1, AddProperties
<1>3. PoolOK(Without(txPool, AckedFrames(f)), 2 * inputs' + 1)
  BY <1>1, WithoutProperties
<1>4. QED
  BY <1>2, <1>3 DEF Answered

(* The pool with or without the relayed copy is a pool. *)
LEMMA RelayedType ==
    ASSUME TypeOK, Input, NEW f \in RxFrames, NEW rssi \in Rssis,
           NEW pool, PoolOK(pool, 2 * inputs' + 1),
           NEW table, NEW new \in Relayed(pool, f, rssi, table)
    PROVE  PoolOK(new, 2 * inputs' + 1)
<1>1. CASE new = pool
  BY <1>1
<1>2. ASSUME NEW delay \in ForwardDelays,
             new = AfterAdd(pool, RelayArrival, RelayFrame(f, rssi, delay))
      PROVE  PoolOK(new, 2 * inputs' + 1)
  <2>1. /\ 2 * inputs' + 1 \in Nat
        /\ RelayArrival \in 1 .. (2 * inputs' + 1)
        /\ RelayFrame(f, rssi, delay) \in Frame
    BY InputFacts, RelayFrameType
  <2>2. QED
    BY <1>2, <2>1, AddProperties
<1>3. QED
  BY <1>1, <1>2 DEF Relayed

(* handleRx() of a new frame preserves the types. *)
LEMMA RxNewType ==
    ASSUME TypeOK, NEW f \in RxFrames, NEW rssi \in Rssis, RxNew(f, rssi)
    PROVE  TypeOK'
<1>1. /\ Input /\ ownAddress_' = ownAddress_
      /\ neighborTable_' \in HeardTables(f)
      /\ txPool' \in Relayed(Answered(f), f, rssi, neighborTable_')
      /\ acked' = {txPool[n].id : n \in {m \in AckedFrames(f) : sent[m] > 0}} \ {0}
      /\ reported' = LastIds(AckedFrames(f)) \ {0}
      /\ NoneSent
  BY DEF RxNew
<1>2. PoolOK(txPool', 2 * inputs' + 1)
  BY <1>1, AnsweredType, RelayedType
<1>3. AckedFrames(f) \subseteq DOMAIN txPool
  BY DEF AckedFrames
<1>4. \A n \in DOMAIN txPool : txPool[n].id \in {0} \cup Arrivals
  BY PoolFacts DEF Frame
<1>5. acked' \subseteq Arrivals /\ reported' \subseteq Arrivals
  BY <1>1, <1>3, <1>4 DEF LastIds
<1>6. QED
  BY <1>1, <1>2, <1>5, HeardType, InputFacts, NoneSentType, TypeAssembled DEF TypeOK

(* The parts of the state handleTx leaves alone keep their types. *)
LEMMA TxCallFacts ==
    ASSUME TypeOK, TxCall
    PROVE  /\ inputs' = inputs /\ inputs' \in 0 .. MAX_INPUTS
           /\ ownAddress_' = ownAddress_ /\ ownAddress_' \in Address \ Reserved
           /\ neighborTable_' \in Tables
           /\ Cardinality(DOMAIN neighborTable_') <= FANET_MAX_NEIGHBORS
           /\ acked' \subseteq Arrivals /\ reported' \subseteq Arrivals
           /\ 2 * inputs + 1 \in Nat
           /\ PoolOK(Remaining, 2 * inputs + 1)
  BY PoolFacts, RemainingProperties, NothingAckedType DEF TxCall, TypeOK

(* handleTx() that sends nothing preserves the types. *)
LEMMA HandleTxNothingType ==
    ASSUME TypeOK, HandleTxNothing
    PROVE  TypeOK'
<1>1. /\ TxCall /\ NoneSent /\ txPool' = Remaining
      /\ UNCHANGED <<cmcaNextTx, carrierBackoffExp, tick>>
  BY DEF HandleTxNothing
<1>2. PoolOK(txPool', 2 * inputs' + 1)
  BY <1>1, TxCallFacts
<1>3. QED
  BY <1>1, <1>2, TxCallFacts, NoneSentType, TypeAssembled DEF TypeOK

(* The clock stays a tick while the radio sends. *)
LEMMA ClockMovesType ==
    ASSUME TypeOK, ClockMoves
    PROVE  tick' \in Ticks
  BY LaterType, TimingAssumption DEF TypeOK, ClockMoves

(* handleTx() with our own tracking preserves the types. *)
LEMMA HandleTxTrackingType ==
    ASSUME TypeOK, NEW ok \in BOOLEAN, HandleTxTracking(ok)
    PROVE  TypeOK'
<1>1. PICK n \in NextTxFrame(Remaining) : txPool' = Without(Remaining, {n})
  BY DEF HandleTxTracking
<1>2. TxCall /\ NoneSent /\ ClockMoves /\ Spaced(tick)
  BY DEF HandleTxTracking
<1>3. PoolOK(txPool', 2 * inputs' + 1)
  BY <1>1, <1>2, TxCallFacts, WithoutProperties
<1>4. tick' \in Ticks /\ tick \in Ticks
  BY <1>2, ClockMovesType DEF TypeOK
<1>5. QED
  BY <1>2, <1>3, <1>4, SpacedType, TxCallFacts, NoneSentType, TypeAssembled

(* A frame sent and kept is still a frame. *)
LEMMA RetriedProperties ==
    ASSUME TypeOK, NEW n \in NextTxFrame(Remaining), ~OwnTracking(Outgoing(txPool[n])),
           Outgoing(txPool[n]).ackType # "NONE", NEW now \in Ticks
    PROVE  LET f == Outgoing(txPool[n])
               g == [f EXCEPT !.numTx = f.numTx - 1,
                              !.nextTx = (now + RetryAfter(f.numTx - 1)) % TICK_MOD]
           IN  /\ g \in Frame
               /\ g.numTx = txPool[n].numTx - 1
               /\ g.self = txPool[n].self /\ g.source = txPool[n].source
               /\ g.destination = txPool[n].destination /\ g.type = txPool[n].type
               /\ g.ackType = txPool[n].ackType /\ g.payload = txPool[n].payload
               /\ g.id = txPool[n].id
               /\ ~txPool[n].self /\ txPool[n].destination = BROADCAST
                    => g.forward = txPool[n].forward
<1> DEFINE f == Outgoing(txPool[n])
           t == (now + RetryAfter(f.numTx - 1)) % TICK_MOD
           g == [f EXCEPT !.numTx = f.numTx - 1, !.nextTx = t]
<1>1. txPool[n] \in Frame /\ ~NeverAcked(txPool[n])
  BY PickedMayBeSent, PoolFacts
<1>2. /\ f \in Frame
      /\ f.numTx = txPool[n].numTx /\ f.self = txPool[n].self
      /\ f.source = txPool[n].source /\ f.destination = txPool[n].destination
      /\ f.type = txPool[n].type /\ f.ackType = txPool[n].ackType
      /\ f.payload = txPool[n].payload /\ f.id = txPool[n].id
      /\ ~txPool[n].self /\ txPool[n].destination = BROADCAST
            => f.forward = txPool[n].forward
  BY <1>1, OutgoingProperties
<1>3. f.numTx # 0
  BY <1>1, <1>2 DEF NeverAcked, OwnTracking
<1>4. f.numTx \in 0 .. 7 /\ f.numTx - 1 \in 0 .. 7
  BY <1>2, <1>3 DEF Frame
<1>5. RetryAfter(f.numTx - 1) \in Int
  BY <1>4, TimingAssumption DEF RetryAfter
<1>6. t \in Ticks
  <2>1. now + RetryAfter(f.numTx - 1) \in Int
    BY <1>5, TableAssumption DEF Ticks
  <2>2. QED
    BY <2>1, TickType
<1> HIDE DEF f, t
<1>7. /\ g \in Frame /\ g.numTx = f.numTx - 1 /\ g.self = f.self /\ g.source = f.source
      /\ g.destination = f.destination /\ g.type = f.type /\ g.ackType = f.ackType
      /\ g.payload = f.payload /\ g.forward = f.forward /\ g.id = f.id
  BY <1>2, <1>4, <1>6 DEF Frame
<1>8. QED
  BY <1>2, <1>7 DEF f, t

(* handleTx() with a frame that is sent preserves the types. *)
LEMMA HandleTxSentType ==
    ASSUME TypeOK, HandleTxSent
    PROVE  TypeOK'
<1>1. TxCall /\ ClockMoves /\ Spaced(tick')
  BY DEF HandleTxSent
<1>2. PICK n \in NextTxFrame(Remaining) :
          LET f == Outgoing(txPool[n])
          IN  /\ ~OwnTracking(f)
              /\ txPool' =
                    IF f.ackType = "NONE" \/ f.source # ownAddress_
                    THEN Without(Remaining, {n})
                    ELSE [Remaining EXCEPT ![n] =
                            [f EXCEPT !.numTx = f.numTx - 1,
                                      !.nextTx = (tick' + RetryAfter(f.numTx - 1)) % TICK_MOD]]
              /\ CountSent(n)
  BY DEF HandleTxSent
<1>3. tick' \in Ticks
  BY <1>1, ClockMovesType
<1> DEFINE f == Outgoing(txPool[n])
           g == [f EXCEPT !.numTx = f.numTx - 1,
                          !.nextTx = (tick' + RetryAfter(f.numTx - 1)) % TICK_MOD]
<1>4. PoolOK(txPool', 2 * inputs' + 1)
  <2>1. CASE f.ackType = "NONE" \/ f.source # ownAddress_
    <3>1. txPool' = Without(Remaining, {n})
      BY <1>2, <2>1
    <3>2. QED
      BY <1>1, <3>1, TxCallFacts, WithoutProperties
  <2>2. CASE ~(f.ackType = "NONE" \/ f.source # ownAddress_)
    <3>1. txPool' = [Remaining EXCEPT ![n] = g]
      BY <1>2, <2>2
    <3>2. g \in Frame
      BY <1>2, <1>3, <2>2, RetriedProperties
    <3>3. n \in DOMAIN Remaining
      BY PickedMayBeSent
    <3> HIDE DEF g
    <3>4. QED
      BY <1>1, <3>1, <3>2, <3>3, TxCallFacts, EditProperties
  <2>3. QED
    BY <2>1, <2>2
<1>5. sent' \in [DOMAIN txPool' -> Nat]
  BY <1>2, CountSentType DEF TypeOK
<1>6. QED
  BY <1>1, <1>3, <1>4, <1>5, SpacedType, TxCallFacts, TypeAssembled

(* handleTx() with a busy radio preserves the types. *)
LEMMA HandleTxBusyType ==
    ASSUME TypeOK, HandleTxBusy
    PROVE  TypeOK'
<1>1. TxCall /\ ClockMoves /\ NoneSent
  BY DEF HandleTxBusy
<1>2. PICK n \in NextTxFrame(Remaining) :
          txPool' = [Remaining EXCEPT ![n] = Outgoing(txPool[n])]
  BY DEF HandleTxBusy
<1>3. PoolOK(txPool', 2 * inputs' + 1)
  <2>1. n \in DOMAIN Remaining /\ Outgoing(txPool[n]) \in Frame
    BY PickedMayBeSent, PoolFacts, OutgoingProperties
  <2>2. QED
    BY <1>1, <1>2, <2>1, TxCallFacts, EditProperties
<1>4. tick' \in Ticks
  BY <1>1, ClockMovesType
<1>5. carrierBackoffExp' \in MAC_TX_BACKOFF_EXP_MIN .. MAC_TX_BACKOFF_EXP_MAX
  BY TimingAssumption DEF HandleTxBusy, TypeOK
<1>6. cmcaNextTx' \in Ticks
  <2>1. PICK delay \in BackoffDelays[carrierBackoffExp'] :
            cmcaNextTx' = (tick' + delay) % TICK_MOD
    BY DEF HandleTxBusy
  <2>2. delay \in Nat
    BY <1>5, TimingAssumption
  <2>3. tick' + delay \in Int
    BY <1>4, <2>2, TableAssumption DEF Ticks
  <2>4. QED
    BY <2>1, <2>3, TickType
<1>7. QED
  BY <1>1, <1>3, <1>4, <1>5, <1>6, TxCallFacts, NoneSentType, TypeAssembled

(* handleTx() that waits preserves the types. *)
LEMMA WaitingType ==
    ASSUME TypeOK, HandleTxWaits \/ TimePasses \/ UNCHANGED vars
    PROVE  TypeOK'
<1>1. tick' \in Ticks
  BY LaterType DEF TypeOK, HandleTxWaits, TimePasses, vars
<1>2. /\ UNCHANGED <<txPool, neighborTable_, ownAddress_, cmcaNextTx,
                     carrierBackoffExp, inputs, sent>>
      /\ acked' \subseteq Arrivals /\ reported' \subseteq Arrivals
  BY NothingAckedType DEF TypeOK, HandleTxWaits, TimePasses, vars
<1>3. QED
  BY <1>1, <1>2 DEF TypeOK

(* The types hold at the start. *)
LEMMA TypeInitially == Init => TypeOK
<1> SUFFICES ASSUME Init
             PROVE  TypeOK
  OBVIOUS
<1>1. PoolOK(txPool, 1) /\ DOMAIN txPool = {}
  BY EmptyPool DEF Init
<1>2. inputs \in 0 .. MAX_INPUTS /\ inputs = 0
  BY InputAssumption DEF Init
<1>3. 0 \in Ticks
  BY TableAssumption DEF Ticks
<1>4. QED
  BY <1>1, <1>2, <1>3, EmptyTable, AddressAssumption, TimingAssumption
     DEF Init, TypeOK, PoolOK

(* Every step preserves the types. *)
LEMMA TypePreserved ==
    ASSUME TypeOK, [Next]_vars
    PROVE  TypeOK'
<1>1. ASSUME NEW p \in AppPackets, NEW strict \in StrictModes, SendPacket(p, strict)
      PROVE  TypeOK'
  BY <1>1, SendPacketType, InputAssumption
<1>2. ASSUME NEW a \in NewAddresses, SetOwnAddress(a)
      PROVE  TypeOK'
  BY <1>2, SetOwnAddressType
<1>3. ASSUME NEW f \in RxFrames, NEW rssi \in Rssis, HandleRx(f, rssi)
      PROVE  TypeOK'
  BY <1>3, RxFromUsType, RxEchoType, RxNewType DEF HandleRx
<1>4. CASE HandleTx
  BY <1>4, WaitingType, HandleTxNothingType, HandleTxTrackingType, HandleTxSentType,
     HandleTxBusyType DEF HandleTx
<1>5. CASE Reinit
  BY <1>5, ReinitType
<1>6. CASE TimePasses \/ UNCHANGED vars
  BY <1>6, WaitingType
<1>7. QED
  BY <1>1, <1>2, <1>3, <1>4, <1>5, <1>6 DEF Next

(* The types hold: the pool is never overfilled, the table of neighbours    *)
(* neither, the device never takes a reserved address, and no frame's numTx *)
(* leaves the three bits it is kept in.                                     *)
THEOREM TypeCorrect == Spec => []TypeOK
<1>1. QED
  BY TypeInitially, TypePreserved, PTL DEF Spec

-----------------------------------------------------------------------------
(* What a step does to a frame of the pool.                                 *)

Strict == StrictModes \subseteq {TRUE}

\* A frame that stays is the same message.
SameMessage(f, g) ==
    /\ g.self = f.self /\ g.source = f.source /\ g.destination = f.destination
    /\ g.type = f.type /\ g.ackType = f.ackType /\ g.payload = f.payload
    /\ g.id = f.id
    /\ ~f.self /\ f.destination = BROADCAST => g.forward = f.forward

Stays(n) ==
    /\ n \in DOMAIN txPool
    /\ SameMessage(txPool[n], txPool'[n])
    /\ \/ txPool'[n].numTx = txPool[n].numTx /\ sent'[n] = sent[n]
       \/ txPool'[n].numTx = txPool[n].numTx - 1 /\ sent'[n] = sent[n] + 1

\* A frame that is new is a packet of ours, an answer or a relayed copy.
Submitted(f) ==
    /\ f.self /\ f.id \in {0, Arrival}
    /\ Strict => f.source = ownAddress_
    /\ Strict /\ f.ackType # "NONE" => f.numTx = MAC_TX_RETRANSMISSION_RETRYS
Answer(f) ==
    /\ ~f.self /\ f.id = 0 /\ f.type = "ACK"
    /\ f.source = ownAddress_ /\ f.destination # BROADCAST
Copy(f) ==
    /\ ~f.self /\ f.id = 0 /\ ~f.forward
    /\ f.source # ownAddress_
    /\ f.destination = BROADCAST \/ f.destination \in DOMAIN neighborTable_'
    /\ \A m \in DOMAIN txPool : ~Matches(txPool[m], f)

Comes(n) ==
    /\ n \notin DOMAIN txPool
    /\ sent'[n] = 0
    /\ \/ n = Arrival /\ Submitted(txPool'[n])
       \/ Answer(txPool'[n])
       \/ n = RelayArrival /\ Copy(txPool'[n])

(* A step that keeps a frame and its counter as they are. *)
LEMMA Untouched ==
    ASSUME TypeOK, NEW n \in DOMAIN txPool, txPool'[n] = txPool[n], sent'[n] = sent[n]
    PROVE  Stays(n)
  BY DEF Stays, SameMessage

(* The counters of a step that sends nothing. *)
LEMMA NoneSentCounts ==
    ASSUME TypeOK, NoneSent, NEW n \in DOMAIN txPool'
    PROVE  sent'[n] = IF n \in DOMAIN txPool THEN sent[n] ELSE 0
<1>1. DOMAIN sent = DOMAIN txPool
  BY DEF TypeOK
<1>2. n \in DOMAIN txPool => n # 0
  BY DEF TypeOK
<1>3. QED
  BY <1>1, <1>2 DEF NoneSent, CountSent

(* sendPacket() adds a frame of ours and leaves the others. *)
LEMMA SendPacketFrames ==
    ASSUME TypeOK, NEW p \in AppPackets, NEW strict \in StrictModes, SendPacket(p, strict),
           NEW n \in DOMAIN txPool'
    PROVE  Stays(n) \/ (Comes(n) /\ n = Arrival /\ Submitted(txPool'[n]))
<1>1. PICK numTx \in NumTxOf(p, strict) :
          txPool' = AfterAdd(txPool, Arrival,
                        TxFrame(IF strict THEN StrictPacket(p) ELSE p, TRUE,
                                IF p.tagged THEN Arrival ELSE 0, numTx, tick, 0))
  BY DEF SendPacket
<1> DEFINE f == TxFrame(IF strict THEN StrictPacket(p) ELSE p, TRUE,
                        IF p.tagged THEN Arrival ELSE 0, numTx, tick, 0)
<1>2. Input /\ NoneSent /\ strict \in BOOLEAN
  BY InputAssumption DEF SendPacket
<1>3. f \in Frame
  <2>1. (IF p.tagged THEN Arrival ELSE 0) \in {0} \cup Arrivals
    BY <1>2, InputFacts
  <2>2. QED
    BY <1>2, <2>1, SubmittedType
<1>4. Submitted(f)
  <2>1. f.self = TRUE /\ f.numTx = numTx /\ f.id \in {0, Arrival}
    BY DEF TxFrame
  <2>2. ASSUME Strict
        PROVE  /\ f.source = ownAddress_
               /\ f.ackType # "NONE" => f.numTx = MAC_TX_RETRANSMISSION_RETRYS
    <3>1. strict = TRUE
      BY <2>2 DEF Strict
    <3>2. p \in AppPacket
      BY InputAssumption
    <3>3. StrictPacket(p).source = ownAddress_ /\ StrictPacket(p).ackType = p.ackType
      BY <3>2 DEF StrictPacket, AppPacket
    <3>4. f.source = StrictPacket(p).source /\ f.ackType = StrictPacket(p).ackType
      BY <3>1 DEF TxFrame
    <3>5. numTx = IF p.ackType # "NONE" THEN MAC_TX_RETRANSMISSION_RETRYS ELSE 0
      BY <3>1 DEF NumTxOf
    <3>6. QED
      BY <2>1, <3>3, <3>4, <3>5
  <2> HIDE DEF f
  <2>3. QED
    BY <2>1, <2>2 DEF Submitted
<1>5. /\ txPool' = AfterAdd(txPool, Arrival, f)
  BY <1>1
<1> HIDE DEF f
<1>6. /\ \A m \in DOMAIN txPool' \ {Arrival} : m \in DOMAIN txPool /\ txPool'[m] = txPool[m]
      /\ Arrival \notin DOMAIN txPool
      /\ Arrival \in DOMAIN txPool' => txPool'[Arrival] = f
  <2>1. /\ 2 * inputs' + 1 \in Nat /\ PoolOK(txPool, 2 * inputs' + 1)
        /\ Arrival \in 1 .. (2 * inputs' + 1) /\ Arrival \notin DOMAIN txPool
    BY <1>2, InputFacts
  <2>2. QED
    BY <1>3, <1>5, <2>1, AddProperties
<1>7. CASE n = Arrival
  BY <1>2, <1>4, <1>6, <1>7, NoneSentCounts DEF Comes
<1>8. CASE n # Arrival
  BY <1>2, <1>6, <1>8, NoneSentCounts, Untouched
<1>9. QED
  BY <1>7, <1>8

(* An echo changes no frame beyond its nextTx. *)
LEMMA RxEchoFrames ==
    ASSUME TypeOK, NEW f \in RxFrames, NEW rssi \in Rssis, RxEcho(f, rssi),
           NEW n \in DOMAIN txPool'
    PROVE  Stays(n)
<1>1. PICK k \in FrameInTxPool(f) :
          \/ txPool' = Without(txPool, {k})
          \/ \E delay \in ForwardDelays :
                txPool' = [txPool EXCEPT ![k].nextTx = Later(delay)]
  BY DEF RxEcho
<1>2. k \in DOMAIN txPool /\ txPool[k] \in Frame
  BY PoolFacts DEF FrameInTxPool
<1>3. n \in DOMAIN txPool => sent'[n] = sent[n]
  BY NoneSentCounts DEF RxEcho
<1>4. CASE txPool' = Without(txPool, {k})
  <2>1. n \in DOMAIN txPool /\ txPool'[n] = txPool[n]
    BY <1>4 DEF Without, Restrict
  <2>2. QED
    BY <1>3, <2>1, Untouched
<1>5. ASSUME NEW delay \in ForwardDelays,
             txPool' = [txPool EXCEPT ![k].nextTx = Later(delay)]
      PROVE  Stays(n)
  <2>1. n \in DOMAIN txPool
    BY <1>5
  <2>2. CASE n # k
    BY <1>3, <1>5, <2>1, <2>2, Untouched
  <2>3. CASE n = k
    <3>1. txPool'[n] = [txPool[n] EXCEPT !.nextTx = Later(delay)]
      BY <1>5, <2>1, <2>3
    <3>2. SameMessage(txPool[n], txPool'[n]) /\ txPool'[n].numTx = txPool[n].numTx
      BY <1>2, <2>3, <3>1 DEF SameMessage, Frame
    <3>3. QED
      BY <1>3, <2>1, <3>2 DEF Stays
  <2>4. QED
    BY <2>2, <2>3
<1>6. QED
  BY <1>1, <1>4, <1>5

(* The answer to a frame: only an ACK takes frames out, only a request adds *)
(* one.                                                                     *)
LEMMA AnsweredProperties ==
    ASSUME TypeOK, Input, NEW f \in RxFrames
    PROVE  /\ \A n \in DOMAIN Answered(f) \ {Arrival} :
                 /\ n \in DOMAIN txPool \ AckedFrames(f)
                 /\ Answered(f)[n] = txPool[n]
           /\ DOMAIN txPool \ AckedFrames(f) \subseteq DOMAIN Answered(f)
           /\ Arrival \in DOMAIN Answered(f) => Answer(Answered(f)[Arrival])
<1>1. /\ 2 * inputs' + 1 \in Nat
      /\ PoolOK(txPool, 2 * inputs' + 1)
      /\ Arrival \in 1 .. (2 * inputs' + 1) /\ Arrival \notin DOMAIN txPool
      /\ AckFrame(f) \in Frame
  BY InputFacts, AckFrameType
<1>2. CASE ForUs(f) /\ f.type # "ACK" /\ f.ackType # "NONE"
  <2>1. Answered(f) = AfterAdd(txPool, Arrival, AckFrame(f)) /\ AckedFrames(f) = {}
    BY <1>2 DEF Answered, AckedFrames
  <2>2. Answer(AckFrame(f))
    BY InputAssumption DEF Answer, AckFrame, TxFrame
  <2>3. QED
    BY <1>1, <2>1, <2>2, AddProperties
<1>3. CASE ~(ForUs(f) /\ f.type # "ACK" /\ f.ackType # "NONE")
  <2>1. Answered(f) = Without(txPool, AckedFrames(f))
    BY <1>3 DEF Answered
  <2>2. /\ DOMAIN Answered(f) = DOMAIN txPool \ AckedFrames(f)
        /\ \A n \in DOMAIN txPool \ AckedFrames(f) : Answered(f)[n] = txPool[n]
    BY <2>1 DEF Without, Restrict
  <2>3. QED
    BY <1>1, <2>2
<1>4. QED
  BY <1>2, <1>3

(* A copy is the frame it was made of, without the forward bit. *)
LEMMA RelayFrameProperties ==
    ASSUME NEW f \in RxFrames, NEW rssi \in Rssis, NEW delay \in ForwardDelays
    PROVE  /\ RelayFrame(f, rssi, delay).self = FALSE
           /\ RelayFrame(f, rssi, delay).id = 0
           /\ RelayFrame(f, rssi, delay).forward = FALSE
           /\ RelayFrame(f, rssi, delay).source = f.source
           /\ RelayFrame(f, rssi, delay).destination = f.destination
           /\ RelayFrame(f, rssi, delay).type = f.type
           /\ RelayFrame(f, rssi, delay).ackType = f.ackType
           /\ RelayFrame(f, rssi, delay).payload = f.payload
<1>1. f \in RadioFrame
  BY InputAssumption
<1>2. QED
  BY <1>1 DEF RelayFrame, TxFrame, RadioFrame

(* A set of numbers that is not empty has a least one. *)
LEMMA LeastElement ==
    ASSUME NEW T \in SUBSET Nat, T # {}
    PROVE  \E n \in T : \A m \in T : n <= m
<1> DEFINE R == {ss \in Nat \X Nat : ss[1] < ss[2]}
<1>1. IsWellFoundedOn(R, Nat)
  BY NatLessThanWellFounded, Zenon DEF OpToRel
<1> HIDE DEF R
<1>2. PICK x \in T : \A y \in T : ~ (<<y, x>> \in R)
  BY <1>1, WFMin, Zenon
<1>3. \A y \in Nat, z \in Nat : y < z => <<y, z>> \in R
  BY DEF R
<1>4. \A y \in T : ~(y < x)
  BY <1>2, <1>3
<1>5. QED
  BY <1>4

(* When the search finds no frame, there is none: it would find the first. *)
LEMMA NothingMatches ==
    ASSUME TypeOK, NEW f, FrameInTxPool(f) = {}, NEW m \in DOMAIN txPool
    PROVE  ~Matches(txPool[m], f)
<1> SUFFICES ASSUME Matches(txPool[m], f)
             PROVE  FALSE
  OBVIOUS
<1> DEFINE S == {n \in DOMAIN txPool : Matches(txPool[n], f)}
<1>1. S \in SUBSET Nat /\ S # {}
  <2>1. DOMAIN txPool \subseteq Nat
    BY DEF TypeOK
  <2>2. m \in S
    OBVIOUS
  <2>3. QED
    BY <2>1, <2>2
<1>2. PICK n \in S : \A k \in S : n <= k
  BY <1>1, LeastElement
<1>3. n \in FrameInTxPool(f)
  BY <1>2 DEF FrameInTxPool
<1>4. QED
  BY <1>3

(* The relaying adds one frame or none. *)
LEMMA RelayedProperties ==
    ASSUME TypeOK, Input, NEW f \in RxFrames, NEW rssi \in Rssis,
           NEW pool, PoolOK(pool, 2 * inputs' + 1),
           NEW table, NEW new \in Relayed(pool, f, rssi, table)
    PROVE  /\ \A n \in DOMAIN new \ {RelayArrival} : n \in DOMAIN pool /\ new[n] = pool[n]
           /\ DOMAIN pool \subseteq DOMAIN new
           /\ RelayArrival \in DOMAIN new \ DOMAIN pool =>
                /\ Relayable(f, rssi, table)
                /\ \E delay \in ForwardDelays : new[RelayArrival] = RelayFrame(f, rssi, delay)
<1>1. CASE new = pool
  BY <1>1
<1>2. ASSUME NEW delay \in ForwardDelays, Relayable(f, rssi, table),
             new = AfterAdd(pool, RelayArrival, RelayFrame(f, rssi, delay))
      PROVE  /\ \A n \in DOMAIN new \ {RelayArrival} : n \in DOMAIN pool /\ new[n] = pool[n]
             /\ DOMAIN pool \subseteq DOMAIN new
             /\ RelayArrival \in DOMAIN new \ DOMAIN pool =>
                    new[RelayArrival] = RelayFrame(f, rssi, delay)
  <2>1. /\ 2 * inputs' + 1 \in Nat
        /\ RelayArrival \in 1 .. (2 * inputs' + 1)
        /\ RelayFrame(f, rssi, delay) \in Frame
    BY InputFacts, RelayFrameType
  <2>2. QED
    BY <1>2, <2>1, AddProperties
<1>3. QED
  BY <1>1, <1>2 DEF Relayed

(* A new frame removes what it acknowledges, adds an answer or a copy, and leaves the rest. *)
LEMMA RxNewFrames ==
    ASSUME TypeOK, NEW f \in RxFrames, NEW rssi \in Rssis, RxNew(f, rssi)
    PROVE  /\ \A n \in DOMAIN txPool' :
                 \/ n \in DOMAIN txPool \ AckedFrames(f) /\ txPool'[n] = txPool[n] /\ Stays(n)
                 \/ Comes(n) /\ (Answer(txPool'[n]) \/ Copy(txPool'[n]))
           /\ DOMAIN txPool \ AckedFrames(f) \subseteq DOMAIN txPool'
<1>1. /\ Input /\ NoneSent /\ f.source # ownAddress_
      /\ FrameInTxPool(f) = {}
      /\ neighborTable_' \in HeardTables(f)
      /\ txPool' \in Relayed(Answered(f), f, rssi, neighborTable_')
  BY DEF RxNew
<1>2. /\ \A n \in DOMAIN txPool' \ {RelayArrival} :
            n \in DOMAIN Answered(f) /\ txPool'[n] = Answered(f)[n]
      /\ DOMAIN Answered(f) \subseteq DOMAIN txPool'
      /\ RelayArrival \in DOMAIN txPool' \ DOMAIN Answered(f) =>
            /\ Relayable(f, rssi, neighborTable_')
            /\ \E delay \in ForwardDelays : txPool'[RelayArrival] = RelayFrame(f, rssi, delay)
  BY <1>1, AnsweredType, RelayedProperties
<1>3. /\ Arrival \notin DOMAIN txPool /\ RelayArrival \notin DOMAIN txPool
      /\ Arrival # RelayArrival
  BY <1>1, InputFacts
<1>4. RelayArrival \notin DOMAIN Answered(f)
  BY <1>1, <1>3, AnsweredProperties
<1>5. ASSUME RelayArrival \in DOMAIN txPool'
      PROVE  Comes(RelayArrival) /\ Copy(txPool'[RelayArrival])
  <2>1. /\ Relayable(f, rssi, neighborTable_')
        /\ \E delay \in ForwardDelays : txPool'[RelayArrival] = RelayFrame(f, rssi, delay)
    BY <1>2, <1>4, <1>5
  <2>2. f.destination = BROADCAST \/ f.destination \in DOMAIN neighborTable_'
    BY <2>1 DEF Relayable, LastSeen
  <2>3. Copy(txPool'[RelayArrival])
    <3>1. PICK delay \in ForwardDelays : txPool'[RelayArrival] = RelayFrame(f, rssi, delay)
      BY <2>1
    <3> DEFINE g == RelayFrame(f, rssi, delay)
    <3>2. /\ ~g.self /\ g.id = 0 /\ ~g.forward /\ g.source = f.source
          /\ g.destination = f.destination /\ g.type = f.type
          /\ g.ackType = f.ackType /\ g.payload = f.payload
      BY RelayFrameProperties
    <3> HIDE DEF g
    <3>3. ASSUME NEW m \in DOMAIN txPool
          PROVE  ~Matches(txPool[m], g)
      <4>1. ~Matches(txPool[m], f)
        BY <1>1, NothingMatches
      <4>2. QED
        BY <3>2, <4>1 DEF Matches, HasExtendedHeader
    <3>4. QED
      BY <1>1, <2>2, <3>1, <3>2, <3>3 DEF Copy, g
  <2>4. QED
    BY <1>1, <1>3, <1>5, <2>3, NoneSentCounts DEF Comes
<1>6. ASSUME Arrival \in DOMAIN txPool'
      PROVE  Comes(Arrival) /\ Answer(txPool'[Arrival])
  <2>1. Arrival \in DOMAIN Answered(f) /\ txPool'[Arrival] = Answered(f)[Arrival]
    BY <1>2, <1>3, <1>6
  <2>2. Answer(txPool'[Arrival])
    BY <1>1, <2>1, AnsweredProperties
  <2>3. QED
    BY <1>1, <1>3, <1>6, <2>2, NoneSentCounts DEF Comes
<1>7. ASSUME NEW n \in DOMAIN txPool' \ {Arrival, RelayArrival}
      PROVE  n \in DOMAIN txPool \ AckedFrames(f) /\ txPool'[n] = txPool[n] /\ Stays(n)
  <2>1. n \in DOMAIN txPool \ AckedFrames(f) /\ txPool'[n] = txPool[n]
    BY <1>1, <1>2, AnsweredProperties
  <2>2. QED
    BY <1>1, <2>1, NoneSentCounts, Untouched
<1>8. DOMAIN txPool \ AckedFrames(f) \subseteq DOMAIN txPool'
  BY <1>1, <1>2, AnsweredProperties
<1>9. QED
  BY <1>5, <1>6, <1>7, <1>8

(* handleTx adds no frame. Those it gives up leave, the one it sends may    *)
(* leave, and the rest stay.                                                *)
LEMMA HandleTxFrames ==
    ASSUME TypeOK, HandleTxNothing \/ (\E ok \in BOOLEAN : HandleTxTracking(ok))
                       \/ HandleTxSent \/ HandleTxBusy,
           NEW n \in DOMAIN txPool'
    PROVE  n \in DOMAIN txPool \ GivenUp /\ Stays(n)
<1>1. CASE HandleTxNothing
  <2>1. txPool' = Remaining /\ NoneSent
    BY <1>1 DEF HandleTxNothing
  <2>2. n \in DOMAIN txPool \ GivenUp /\ txPool'[n] = txPool[n]
    BY <2>1, RemainingProperties
  <2>3. QED
    BY <2>1, <2>2, NoneSentCounts, Untouched
<1>2. ASSUME NEW ok \in BOOLEAN, HandleTxTracking(ok)
      PROVE  n \in DOMAIN txPool \ GivenUp /\ Stays(n)
  <2>1. NoneSent /\ \E k \in NextTxFrame(Remaining) : txPool' = Without(Remaining, {k})
    BY <1>2 DEF HandleTxTracking
  <2>2. n \in DOMAIN Remaining /\ txPool'[n] = Remaining[n]
    BY <2>1 DEF Without, Restrict
  <2>3. n \in DOMAIN txPool \ GivenUp /\ txPool'[n] = txPool[n]
    BY <2>2, RemainingProperties
  <2>4. QED
    BY <2>1, <2>3, NoneSentCounts, Untouched
<1>3. CASE HandleTxSent
  <2>1. PICK k \in NextTxFrame(Remaining) :
          LET f == Outgoing(txPool[k])
          IN  /\ ~OwnTracking(f)
              /\ txPool' =
                    IF f.ackType = "NONE" \/ f.source # ownAddress_
                    THEN Without(Remaining, {k})
                    ELSE [Remaining EXCEPT ![k] =
                            [f EXCEPT !.numTx = f.numTx - 1,
                                      !.nextTx = (tick' + RetryAfter(f.numTx - 1)) % TICK_MOD]]
              /\ CountSent(k)
    BY <1>3 DEF HandleTxSent
  <2> DEFINE f == Outgoing(txPool[k])
             g == [f EXCEPT !.numTx = f.numTx - 1,
                            !.nextTx = (tick' + RetryAfter(f.numTx - 1)) % TICK_MOD]
  <2>2. \A m \in DOMAIN txPool' :
            sent'[m] = IF m \notin DOMAIN txPool THEN 0
                       ELSE IF m = k THEN sent[m] + 1 ELSE sent[m]
    BY <2>1, CountSentType DEF TypeOK
  <2>3. tick' \in Ticks
    BY <1>3, ClockMovesType DEF HandleTxSent
  <2>4. CASE f.ackType = "NONE" \/ f.source # ownAddress_
    <3>1. txPool' = Without(Remaining, {k})
      BY <2>1, <2>4
    <3>2. n \in DOMAIN Remaining /\ n # k /\ txPool'[n] = Remaining[n]
      BY <3>1 DEF Without, Restrict
    <3>3. n \in DOMAIN txPool \ GivenUp /\ txPool'[n] = txPool[n]
      BY <3>2, RemainingProperties
    <3>4. QED
      BY <2>2, <3>2, <3>3, Untouched
  <2>5. CASE ~(f.ackType = "NONE" \/ f.source # ownAddress_)
    <3>1. txPool' = [Remaining EXCEPT ![k] = g]
      BY <2>1, <2>5
    <3>2. k \in DOMAIN Remaining
      BY PickedMayBeSent
    <3>3. n \in DOMAIN Remaining /\ n \in DOMAIN txPool \ GivenUp /\ Remaining[n] = txPool[n]
      BY <3>1, RemainingProperties
    <3>4. CASE n = k
      <4>1. txPool'[n] = g
        BY <3>1, <3>2, <3>4
      <4>2. /\ g.numTx = txPool[k].numTx - 1
            /\ g.self = txPool[k].self /\ g.source = txPool[k].source
            /\ g.destination = txPool[k].destination /\ g.type = txPool[k].type
            /\ g.ackType = txPool[k].ackType /\ g.payload = txPool[k].payload
            /\ g.id = txPool[k].id
            /\ ~txPool[k].self /\ txPool[k].destination = BROADCAST
                  => g.forward = txPool[k].forward
        BY <2>1, <2>3, <2>5, RetriedProperties
      <4> HIDE DEF g
      <4>3. SameMessage(txPool[n], txPool'[n]) /\ txPool'[n].numTx = txPool[n].numTx - 1
        BY <3>4, <4>1, <4>2 DEF SameMessage
      <4>4. QED
        BY <2>2, <3>3, <3>4, <4>3 DEF Stays
    <3>5. CASE n # k
      <4>1. txPool'[n] = txPool[n]
        BY <3>1, <3>3, <3>5
      <4>2. QED
        BY <2>2, <3>3, <3>5, <4>1, Untouched
    <3>6. QED
      BY <3>4, <3>5
  <2>6. QED
    BY <2>4, <2>5
<1>4. CASE HandleTxBusy
  <2>1. PICK k \in NextTxFrame(Remaining) :
            txPool' = [Remaining EXCEPT ![k] = Outgoing(txPool[k])]
    BY <1>4 DEF HandleTxBusy
  <2>2. NoneSent
    BY <1>4 DEF HandleTxBusy
  <2>3. n \in DOMAIN Remaining /\ n \in DOMAIN txPool \ GivenUp /\ Remaining[n] = txPool[n]
    BY <2>1, RemainingProperties
  <2>4. CASE n = k
    <3>1. txPool'[n] = Outgoing(txPool[n]) /\ txPool[n] \in Frame
      BY <2>1, <2>3, <2>4, PoolFacts
    <3>2. SameMessage(txPool[n], txPool'[n]) /\ txPool'[n].numTx = txPool[n].numTx
      BY <3>1, OutgoingProperties DEF SameMessage
    <3>3. QED
      BY <2>2, <2>3, <3>2, NoneSentCounts DEF Stays
  <2>5. CASE n # k
    <3>1. txPool'[n] = txPool[n]
      BY <2>1, <2>3, <2>5
    <3>2. QED
      BY <2>2, <2>3, <3>1, NoneSentCounts, Untouched
  <2>6. QED
    BY <2>4, <2>5
<1>5. QED
  BY <1>1, <1>2, <1>3, <1>4

(* Every frame of the next pool stayed or came. *)
LEMMA PoolSteps ==
    ASSUME TypeOK, [Next]_vars, NEW n \in DOMAIN txPool'
    PROVE  Stays(n) \/ Comes(n)
<1>1. ASSUME NEW p \in AppPackets, NEW strict \in StrictModes, SendPacket(p, strict)
      PROVE  Stays(n) \/ Comes(n)
  BY <1>1, SendPacketFrames
<1>2. ASSUME UNCHANGED <<txPool, sent>>
      PROVE  Stays(n)
  BY <1>2, Untouched
<1>3. ASSUME NEW f \in RxFrames, NEW rssi \in Rssis, HandleRx(f, rssi)
      PROVE  Stays(n) \/ Comes(n)
  <2>1. CASE RxFromUs(f)
    BY <1>2, <2>1 DEF RxFromUs
  <2>2. QED
    BY <1>3, <2>1, RxEchoFrames, RxNewFrames DEF HandleRx
<1>4. CASE HandleTx
  <2>1. CASE HandleTxWaits
    BY <1>2, <2>1 DEF HandleTxWaits
  <2>2. QED
    BY <1>4, <2>1, HandleTxFrames DEF HandleTx
<1>5. CASE Reinit
  BY <1>5 DEF Reinit
<1>6. CASE TimePasses \/ UNCHANGED vars \/ \E a \in NewAddresses : SetOwnAddress(a)
  BY <1>2, <1>6 DEF TimePasses, vars, SetOwnAddress
<1>7. QED
  BY <1>1, <1>3, <1>4, <1>5, <1>6 DEF Next

-----------------------------------------------------------------------------
(* The transmissions of our own packets.                                    *)

(* Every step preserves the budget of transmissions. *)
LEMMA BudgetPreserved ==
    ASSUME Strict, TypeOK, RetryBudget, [Next]_vars
    PROVE  RetryBudget'
<1> SUFFICES ASSUME NEW n \in DOMAIN txPool', WaitsForAck(txPool'[n])
             PROVE  sent'[n] + txPool'[n].numTx = MAC_TX_RETRANSMISSION_RETRYS
  BY DEF RetryBudget, Waiting
<1>1. CASE Stays(n)
  <2>1. n \in Waiting
    BY <1>1 DEF Stays, SameMessage, Waiting, WaitsForAck
  <2>2. sent[n] + txPool[n].numTx = MAC_TX_RETRANSMISSION_RETRYS
    BY <2>1 DEF RetryBudget
  <2>3. sent[n] \in Nat /\ txPool[n].numTx \in 0 .. 7
    BY <1>1, PoolFacts DEF Stays, TypeOK, Frame
  <2>4. QED
    BY <1>1, <2>2, <2>3 DEF Stays
<1>2. CASE Comes(n)
  <2>1. Submitted(txPool'[n]) /\ sent'[n] = 0
    BY <1>2 DEF Comes, Answer, Copy, WaitsForAck
  <2>2. txPool'[n].numTx = MAC_TX_RETRANSMISSION_RETRYS
    BY <2>1 DEF Submitted, WaitsForAck
  <2>3. QED
    BY <2>1, <2>2, TimingAssumption
<1>3. QED
  BY <1>1, <1>2, PoolSteps

(* While every packet is strict, the transmissions made of a packet that    *)
(* waits for an ACK and those left are MAC_TX_RETRANSMISSION_RETRYS: the    *)
(* numTx of handleTx and of sendPacket count what they are meant to count.  *)
THEOREM TransmissionsCounted ==
    ASSUME Strict
    PROVE  Spec => []RetryBudget
<1>1. Init => RetryBudget
  BY EmptyPool DEF Init, RetryBudget, Waiting
<1>2. TypeOK /\ RetryBudget /\ [Next]_vars => RetryBudget'
  BY BudgetPreserved
<1>3. QED
  BY <1>1, <1>2, TypeCorrect, PTL DEF Spec

-----------------------------------------------------------------------------
(* The device and its own address.                                          *)

\* The application sets no other address than the one the device has.
AddressFixed == NewAddresses \subseteq Reserved

(* With no other address to set, the address stays. *)
LEMMA AddressStays ==
    ASSUME AddressFixed, [Next]_vars
    PROVE  ownAddress_' = ownAddress_
  BY DEF AddressFixed, Next, vars, SendPacket, SetOwnAddress, Reinit, HandleRx, RxFromUs,
         RxEcho, RxNew, HandleTx, HandleTxWaits, HandleTxNothing, HandleTxTracking,
         HandleTxSent, HandleTxBusy, TxCall, TimePasses

(* No step enters the own address into the table. *)
LEMMA NeighboursAreOthers ==
    ASSUME TypeOK, ownAddress_ \notin DOMAIN neighborTable_, [Next]_vars
    PROVE  ownAddress_ \notin DOMAIN neighborTable_'
<1>1. ASSUME NEW f \in RxFrames, NEW rssi \in Rssis, HandleRx(f, rssi)
      PROVE  ownAddress_ \notin DOMAIN neighborTable_'
  <2>1. CASE RxFromUs(f)
    <3>1. neighborTable_' = Outdated
      BY <2>1 DEF RxFromUs
    <3>2. DOMAIN Outdated \subseteq DOMAIN neighborTable_
      BY DEF Outdated, AfterRemoveOutdated, Restrict
    <3>3. QED
      BY <3>1, <3>2
  <2>2. CASE RxEcho(f, rssi) \/ RxNew(f, rssi)
    <3>1. neighborTable_' \in HeardTables(f) /\ f.source # ownAddress_
      BY <2>2 DEF RxEcho, RxNew
    <3>2. QED
      BY <3>1, HeardType
  <2>3. QED
    BY <1>1, <2>1, <2>2 DEF HandleRx
<1>2. CASE Reinit
  BY <1>2, EmptyTable DEF Reinit
<1>3. CASE HandleTx \/ TimePasses \/ UNCHANGED vars
  BY <1>3 DEF HandleTx, HandleTxWaits, HandleTxNothing, HandleTxTracking, HandleTxSent,
              HandleTxBusy, TxCall, TimePasses, vars
<1>4. ASSUME NEW p \in AppPackets, NEW strict \in StrictModes, SendPacket(p, strict)
      PROVE  ownAddress_ \notin DOMAIN neighborTable_'
  BY <1>4 DEF SendPacket
<1>5. ASSUME NEW a \in NewAddresses, SetOwnAddress(a)
      PROVE  ownAddress_ \notin DOMAIN neighborTable_'
  BY <1>5 DEF SetOwnAddress
<1>6. QED
  BY <1>1, <1>2, <1>3, <1>4, <1>5 DEF Next

(* Every step preserves NotOwnNeighbour. *)
LEMMA NotOwnPreserved ==
    ASSUME AddressFixed, TypeOK, NotOwnNeighbour, [Next]_vars
    PROVE  NotOwnNeighbour'
<1>1. ownAddress_' = ownAddress_ /\ ownAddress_ \notin DOMAIN neighborTable_'
  BY AddressStays, NeighboursAreOthers DEF NotOwnNeighbour
<1>2. ownAddress_ # BROADCAST
  BY AddressAssumption DEF TypeOK
<1>3. ASSUME NEW n \in DOMAIN txPool', ~txPool'[n].self, txPool'[n].type # "ACK"
      PROVE  ownAddress_ \notin {txPool'[n].source, txPool'[n].destination}
  <2>1. CASE Stays(n)
    BY <1>3, <2>1 DEF NotOwnNeighbour, Stays, SameMessage
  <2>2. CASE Comes(n)
    BY <1>1, <1>2, <1>3, <2>2 DEF Comes, Submitted, Answer, Copy
  <2>3. QED
    BY <2>1, <2>2, PoolSteps
<1>4. QED
  BY <1>1, <1>3 DEF NotOwnNeighbour

(* A device whose address stays the same is never in its own table, so that *)
(* lastSeen of its address is 0 and handleRx never relays what is addressed *)
(* to the device itself.                                                    *)
THEOREM NeverRelaysOwn ==
    ASSUME AddressFixed
    PROVE  Spec => []NotOwnNeighbour
<1>1. Init => NotOwnNeighbour
  BY EmptyTable DEF Init, NotOwnNeighbour
<1>2. TypeOK /\ NotOwnNeighbour /\ [Next]_vars => NotOwnNeighbour'
  BY NotOwnPreserved
<1>3. QED
  BY <1>1, <1>2, TypeCorrect, PTL DEF Spec

-----------------------------------------------------------------------------
(* The frames of other devices.                                             *)

\* Of the broadcasts of other devices that wait, none asks to be relayed.
RelaysStop ==
    \A n \in DOMAIN txPool :
        ~txPool[n].self /\ txPool[n].destination = BROADCAST => ~txPool[n].forward

(* Every step preserves RelaysStop. *)
LEMMA RelaysStopPreserved ==
    ASSUME TypeOK, RelaysStop, [Next]_vars
    PROVE  RelaysStop'
<1> SUFFICES ASSUME NEW n \in DOMAIN txPool',
                    ~txPool'[n].self, txPool'[n].destination = BROADCAST
             PROVE  ~txPool'[n].forward
  BY DEF RelaysStop
<1>1. CASE Stays(n)
  BY <1>1 DEF RelaysStop, Stays, SameMessage
<1>2. CASE Comes(n)
  BY <1>2 DEF Comes, Submitted, Answer, Copy
<1>3. QED
  BY <1>1, <1>2, PoolSteps

(* What a call of handleTx gives to the radio is a frame of the pool. *)
LEMMA AirFromPool ==
    ASSUME TypeOK, [Next]_vars, air' # air, air' # Silence
    PROVE  \E k \in DOMAIN txPool : air'.frame = Outgoing(txPool[k])
<1>1. CASE HandleTxSent \/ HandleTxBusy
  <2>1. PICK k \in NextTxFrame(Remaining), ok \in BOOLEAN :
            air' = [sent |-> ok, frame |-> Outgoing(txPool[k])]
    BY <1>1 DEF HandleTxSent, HandleTxBusy
  <2>2. QED
    BY <2>1, PickedMayBeSent
<1>2. ASSUME NEW ok \in BOOLEAN, HandleTxTracking(ok)
      PROVE  \E k \in DOMAIN txPool : air'.frame = Outgoing(txPool[k])
  <2>1. PICK k \in NextTxFrame(Remaining) :
            air' = [sent |-> ok, frame |-> Outgoing(txPool[k])]
    BY <1>2 DEF HandleTxTracking
  <2>2. QED
    BY <2>1, PickedMayBeSent
<1>3. CASE ~(HandleTxSent \/ HandleTxBusy \/ \E ok \in BOOLEAN : HandleTxTracking(ok))
  BY <1>3 DEF Next, vars, SendPacket, SetOwnAddress, Reinit, HandleRx, RxFromUs, RxEcho,
              RxNew, HandleTx, HandleTxWaits, HandleTxNothing, TimePasses, NothingSent
<1>4. QED
  BY <1>1, <1>2, <1>3

(* Every step preserves BroadcastStopsHere. *)
LEMMA StopsPreserved ==
    ASSUME TypeOK, RelaysStop, BroadcastStopsHere, [Next]_vars
    PROVE  BroadcastStopsHere'
<1>1. CASE air' = air
  BY <1>1 DEF BroadcastStopsHere, Silence
<1>2. CASE air' # air /\ air' # Silence
  <2>1. PICK k \in DOMAIN txPool : air'.frame = Outgoing(txPool[k])
    BY <1>2, AirFromPool
  <2>2. /\ air'.frame.self = txPool[k].self
        /\ air'.frame.destination = txPool[k].destination
        /\ ~txPool[k].self /\ txPool[k].destination = BROADCAST
              => air'.frame.forward = txPool[k].forward
    BY <2>1, PoolFacts, OutgoingProperties
  <2>3. QED
    BY <2>2 DEF RelaysStop, BroadcastStopsHere
<1>3. CASE air' = Silence
  BY <1>3 DEF BroadcastStopsHere, Silence
<1>4. QED
  BY <1>1, <1>2, <1>3

(* Whatever is received, the radio is never given a broadcast of another    *)
(* device that asks to be relayed once more: the bit that handleRx clears   *)
(* in the copy is set again by nothing that handleTx does.                  *)
THEOREM BroadcastsStop == Spec => []BroadcastStopsHere
<1>1. Init => RelaysStop /\ BroadcastStopsHere
  BY EmptyPool DEF Init, RelaysStop, BroadcastStopsHere
<1>2. TypeOK /\ RelaysStop /\ BroadcastStopsHere /\ [Next]_vars
        => RelaysStop' /\ BroadcastStopsHere'
  BY RelaysStopPreserved, StopsPreserved
<1>3. QED
  BY <1>1, <1>2, TypeCorrect, PTL DEF Spec

(* A frame that stays was already a relay when it is one. *)
LEMMA StaysRelay ==
    ASSUME AddressFixed, [Next]_vars, NEW n \in Relays', Stays(n)
    PROVE  n \in Relays
<1>1. ownAddress_' = ownAddress_
  BY AddressStays
<1>2. QED
  BY <1>1 DEF Relays, Stays, SameMessage

(* The only frame that becomes a relay is the copy handleRx makes, and it   *)
(* is like no frame of the pool before the step.                            *)
LEMMA ComesRelay ==
    ASSUME AddressFixed, [Next]_vars, NEW n \in Relays', Comes(n)
    PROVE  n = RelayArrival /\ \A m \in DOMAIN txPool : ~Matches(txPool[m], txPool'[n])
<1>1. ownAddress_' = ownAddress_
  BY AddressStays
<1>2. Copy(txPool'[n]) /\ n = RelayArrival
  BY <1>1 DEF Relays, Comes, Submitted, Answer
<1>3. QED
  BY <1>2 DEF Copy

(* Every step preserves NoDuplicateRelay. *)
LEMMA NoDuplicatePreserved ==
    ASSUME AddressFixed, TypeOK, NoDuplicateRelay, [Next]_vars
    PROVE  NoDuplicateRelay'
<1> SUFFICES ASSUME NEW m \in Relays', NEW n \in Relays', Matches(txPool'[m], txPool'[n])
             PROVE  m = n
  BY DEF NoDuplicateRelay
<1>1. (Stays(m) \/ Comes(m)) /\ (Stays(n) \/ Comes(n))
  BY PoolSteps DEF Relays
<1>2. CASE Stays(m) /\ Stays(n)
  <2>1. m \in Relays /\ n \in Relays
    BY <1>2, StaysRelay
  <2>2. Matches(txPool[m], txPool[n])
    BY <1>2 DEF Stays, SameMessage, Matches, HasExtendedHeader
  <2>3. QED
    BY <2>1, <2>2 DEF NoDuplicateRelay
<1>3. CASE Comes(m) /\ Comes(n)
  BY <1>3, ComesRelay
<1>4. CASE Stays(m) /\ Comes(n)
  <2>1. m \in DOMAIN txPool /\ ~Matches(txPool[m], txPool'[n])
    BY <1>4, ComesRelay DEF Stays
  <2>2. QED
    BY <1>4, <2>1 DEF Stays, SameMessage, Matches, HasExtendedHeader
<1>5. CASE Comes(m) /\ Stays(n)
  <2>1. n \in DOMAIN txPool /\ ~Matches(txPool[n], txPool'[m])
    BY <1>5, ComesRelay DEF Stays
  <2>2. QED
    BY <1>5, <2>1 DEF Stays, SameMessage, Matches, HasExtendedHeader
<1>6. QED
  BY <1>1, <1>2, <1>3, <1>4, <1>5

(* While the address stays the same, no two frames of other devices that    *)
(* wait in the pool are alike for frameInTxPool(): the copies of a frame    *)
(* heard from several neighbours meet the one that waits, wherever it is.   *)
THEOREM RelayedOnce ==
    ASSUME AddressFixed
    PROVE  Spec => []NoDuplicateRelay
<1>1. Init => NoDuplicateRelay
  BY EmptyPool DEF Init, NoDuplicateRelay, Relays
<1>2. TypeOK /\ NoDuplicateRelay /\ [Next]_vars => NoDuplicateRelay'
  BY NoDuplicatePreserved
<1>3. QED
  BY <1>1, <1>2, TypeCorrect, PTL DEF Spec

-----------------------------------------------------------------------------
(* The protocol keeps the promise of ReliableSend.                          *)

\* Our own frames carry our address.
OwnSource == \A n \in DOMAIN txPool : txPool[n].self => txPool[n].source = ownAddress_

PromiseInv == TypeOK /\ RetryBudget /\ OwnSource

\* The messages the application waits for, as ReliableSend sees them.
Book == [n \in Waiting |-> [to |-> txPool[n].destination, attempts |-> sent[n]]]

(* Every step preserves what the refinement rests on. *)
LEMMA PromiseInvPreserved ==
    ASSUME Strict, AddressFixed, PromiseInv, [Next]_vars
    PROVE  PromiseInv'
<1>1. ownAddress_' = ownAddress_
  BY AddressStays
<1>2. ASSUME NEW n \in DOMAIN txPool', txPool'[n].self
      PROVE  txPool'[n].source = ownAddress_
  <2>1. CASE Stays(n)
    BY <1>2, <2>1 DEF PromiseInv, OwnSource, Stays, SameMessage
  <2>2. CASE Comes(n)
    BY <1>2, <2>2 DEF Comes, Submitted, Answer, Copy
  <2>3. QED
    BY <2>1, <2>2, PoolSteps DEF PromiseInv
<1>3. OwnSource'
  BY <1>1, <1>2 DEF OwnSource
<1>4. QED
  BY <1>3, TypePreserved, BudgetPreserved DEF PromiseInv

(* When some of the messages stay as they are, the book is restricted.      *)
LEMMA BookRestricted ==
    ASSUME NEW S \in SUBSET Waiting, Waiting' = S,
           \A n \in S : /\ txPool'[n].destination = txPool[n].destination
                        /\ sent'[n] = sent[n]
    PROVE  Book' = Restrict(Book, S)
  BY DEF Book, Restrict

(* When all messages stay as they are, the book stays. *)
LEMMA BookKept ==
    ASSUME Waiting' = Waiting,
           \A n \in Waiting : /\ txPool'[n].destination = txPool[n].destination
                              /\ sent'[n] = sent[n]
    PROVE  Book' = Book
  BY DEF Book

(* A frame that stays waits as before. *)
LEMMA StaysWaiting ==
    ASSUME NEW n, n \in DOMAIN txPool', Stays(n)
    PROVE  /\ n \in Waiting' <=> n \in Waiting
           /\ txPool'[n].destination = txPool[n].destination
  BY DEF Stays, SameMessage, Waiting, WaitsForAck

(* The answers and the copies wait for nothing. *)
LEMMA OthersDoNotWait ==
    ASSUME NEW n, Answer(txPool'[n]) \/ Copy(txPool'[n])
    PROVE  n \notin Waiting'
  BY DEF Answer, Copy, Waiting, WaitsForAck

(* sendPacket() accepts a message or changes nothing. *)
LEMMA SubmitKeepsPromise ==
    ASSUME PromiseInv, NEW p \in AppPackets, NEW strict \in StrictModes,
           SendPacket(p, strict)
    PROVE  \/ Book' = Book
           \/ Arrival \in Arrivals /\ \E a \in Address : Promise!Accept(Arrival, a)
<1>1. /\ TypeOK /\ Input /\ NoneSent
      /\ Arrival \in Arrivals /\ Arrival \notin DOMAIN txPool
  BY InputFacts DEF PromiseInv, SendPacket
<1>2. \A n \in DOMAIN txPool' \ {Arrival} : Stays(n)
  BY <1>1, SendPacketFrames
<1>3. DOMAIN txPool \subseteq DOMAIN txPool'
  BY DEF SendPacket, AfterAdd
<1>4. ASSUME NEW n \in DOMAIN txPool
      PROVE  /\ n \in Waiting' <=> n \in Waiting
             /\ txPool'[n].destination = txPool[n].destination
             /\ sent'[n] = sent[n]
  <2>1. n \in DOMAIN txPool' /\ Stays(n)
    BY <1>1, <1>2, <1>3
  <2>2. QED
    BY <1>1, <2>1, StaysWaiting, NoneSentCounts
<1>5. Waiting \subseteq DOMAIN txPool /\ Waiting' \subseteq DOMAIN txPool \cup {Arrival}
  BY <1>2 DEF Waiting, Stays
<1>6. CASE Arrival \notin Waiting'
  <2>1. Waiting' = Waiting
    BY <1>4, <1>5, <1>6
  <2>2. QED
    BY <1>4, <1>5, <2>1, BookKept
<1>7. CASE Arrival \in Waiting'
  <2>1. Waiting' = Waiting \cup {Arrival} /\ Arrival \notin Waiting
    BY <1>1, <1>4, <1>5, <1>7
  <2>2. Arrival \in DOMAIN txPool' /\ sent'[Arrival] = 0
    BY <1>1, <1>7, NoneSentCounts DEF Waiting
  <2>3. PICK a \in Address : a = txPool'[Arrival].destination
    BY <2>2, TypePreserved, <1>1 DEF TypeOK, Frame, Next
  <2>4. Book' = [k \in Waiting \cup {Arrival} |->
                    IF k = Arrival THEN [to |-> a, attempts |-> 0] ELSE Book[k]]
    BY <1>4, <1>5, <2>1, <2>2, <2>3 DEF Book
  <2>5. DOMAIN Book = Waiting
    BY DEF Book
  <2>6. Promise!Accept(Arrival, a)
    BY <2>1, <2>4, <2>5 DEF Promise!Accept, Book
  <2>7. QED
    BY <1>1, <2>6, Zenon
<1>8. QED
  BY <1>6, <1>7

(* An echo of another device's frame settles nothing of ours. *)
LEMMA EchoKeepsPromise ==
    ASSUME PromiseInv, NEW f \in RxFrames, NEW rssi \in Rssis, RxEcho(f, rssi)
    PROVE  Book' = Book
<1>1. PICK k \in FrameInTxPool(f) :
          \/ txPool' = Without(txPool, {k})
          \/ \E delay \in ForwardDelays :
                txPool' = [txPool EXCEPT ![k].nextTx = Later(delay)]
  BY DEF RxEcho
<1>2. k \in DOMAIN txPool /\ txPool[k].source = f.source
  BY DEF FrameInTxPool, Matches
<1>3. f.source # ownAddress_ /\ NoneSent
  BY DEF RxEcho
<1>4. k \notin Waiting
  BY <1>2, <1>3 DEF PromiseInv, OwnSource, Waiting, WaitsForAck
<1>5. DOMAIN txPool \ {k} \subseteq DOMAIN txPool'
  BY <1>1 DEF Without, Restrict
<1>6. \A n \in DOMAIN txPool' : Stays(n)
  BY RxEchoFrames DEF PromiseInv
<1>7. Waiting \subseteq DOMAIN txPool /\ Waiting' \subseteq DOMAIN txPool'
  BY DEF Waiting
<1>8. Waiting' = Waiting
  BY <1>4, <1>5, <1>6, <1>7, StaysWaiting
<1>9. \A n \in Waiting : /\ txPool'[n].destination = txPool[n].destination
                         /\ sent'[n] = sent[n]
  <2> SUFFICES ASSUME NEW n \in Waiting
               PROVE  /\ txPool'[n].destination = txPool[n].destination
                      /\ sent'[n] = sent[n]
    OBVIOUS
  <2>1. n \in DOMAIN txPool' /\ n \in DOMAIN txPool /\ Stays(n)
    BY <1>4, <1>5, <1>6, <1>7
  <2>2. QED
    BY <1>3, <2>1, StaysWaiting, NoneSentCounts DEF PromiseInv
<1>10. QED
  BY <1>8, <1>9, BookKept

(* What an ACK settles stops waiting, everything else goes on. *)
LEMMA NewWaiting ==
    ASSUME PromiseInv, NEW f \in RxFrames, NEW rssi \in Rssis, RxNew(f, rssi)
    PROVE  /\ Waiting' = Waiting \ AckedFrames(f)
           /\ \A n \in Waiting \ AckedFrames(f) :
                  /\ txPool'[n].destination = txPool[n].destination
                  /\ sent'[n] = sent[n]
<1>1. TypeOK /\ NoneSent
  BY DEF PromiseInv, RxNew
<1>2. /\ \A n \in DOMAIN txPool' :
            \/ n \in DOMAIN txPool \ AckedFrames(f) /\ txPool'[n] = txPool[n] /\ Stays(n)
            \/ Comes(n) /\ (Answer(txPool'[n]) \/ Copy(txPool'[n]))
      /\ DOMAIN txPool \ AckedFrames(f) \subseteq DOMAIN txPool'
  BY <1>1, RxNewFrames
<1>3. ASSUME NEW n \in Waiting \ AckedFrames(f)
      PROVE  /\ n \in Waiting'
             /\ txPool'[n].destination = txPool[n].destination
             /\ sent'[n] = sent[n]
  <2>1. n \in DOMAIN txPool /\ n \in DOMAIN txPool'
    BY <1>2, <1>3 DEF Waiting
  <2>2. Stays(n)
    BY <1>2, <2>1 DEF Comes
  <2>3. QED
    BY <1>1, <1>3, <2>1, <2>2, StaysWaiting, NoneSentCounts
<1>4. ASSUME NEW n \in Waiting'
      PROVE  n \in Waiting \ AckedFrames(f)
  <2>1. n \in DOMAIN txPool'
    BY DEF Waiting
  <2>2. n \in DOMAIN txPool \ AckedFrames(f) /\ Stays(n)
    BY <1>2, <2>1, <1>4, OthersDoNotWait
  <2>3. QED
    BY <1>4, <2>1, <2>2, StaysWaiting
<1>5. QED
  BY <1>3, <1>4

(* An ACK confirms what waits for its source; nothing else does. *)
LEMMA NewKeepsPromise ==
    ASSUME PromiseInv, NEW f \in RxFrames, NEW rssi \in Rssis, RxNew(f, rssi)
    PROVE  Book' = Book \/ \E a \in Address : Promise!Confirm(a)
<1>5. /\ Waiting' = Waiting \ AckedFrames(f)
      /\ \A n \in Waiting \ AckedFrames(f) :
            /\ txPool'[n].destination = txPool[n].destination
            /\ sent'[n] = sent[n]
  BY NewWaiting
<1>6. Book' = Restrict(Book, Waiting \ AckedFrames(f))
  BY <1>5, BookRestricted
<1>7. CASE ForUs(f) /\ f.type = "ACK"
  <2>1. \A n \in Waiting : n \in AckedFrames(f) <=> txPool[n].destination = f.source
    BY <1>7 DEF AckedFrames, Waiting, WaitsForAck
  <2>2. DOMAIN Book = Waiting /\ \A n \in Waiting : Book[n].to = txPool[n].destination
    BY DEF Book
  <2>3. Waiting \ AckedFrames(f) = {m \in DOMAIN Book : Book[m].to # f.source}
    BY <2>1, <2>2
  <2>4. PICK a \in Address : a = f.source
    BY InputAssumption DEF RadioFrame
  <2>5. Book' = Restrict(Book, {m \in DOMAIN Book : Book[m].to # a})
    BY <1>6, <2>3, <2>4
  <2>6. Promise!Confirm(a)
    BY <2>5 DEF Promise!Confirm, Promise!Restrict, Restrict, Book
  <2>7. QED
    BY <2>6, Zenon
<1>8. CASE ~(ForUs(f) /\ f.type = "ACK")
  <2>1. AckedFrames(f) = {}
    BY <1>8 DEF AckedFrames
  <2>2. Waiting' = Waiting
    BY <1>5, <2>1
  <2>3. QED
    BY <1>5, <2>1, <2>2, BookKept
<1>9. QED
  BY <1>7, <1>8

(* What handleTx gives up was sent as often as it should. *)
LEMMA GivenUpIsExhausted ==
    ASSUME PromiseInv
    PROVE  GivenUp \cap Waiting \in SUBSET Promise!Exhausted
<1> SUFFICES ASSUME NEW n \in GivenUp \cap Waiting
             PROVE  n \in Promise!Exhausted
  OBVIOUS
<1>1. txPool[n].numTx = 0
  BY DEF GivenUp, NeverAcked
<1>2. sent[n] + txPool[n].numTx = MAC_TX_RETRANSMISSION_RETRYS /\ sent[n] \in Nat
  BY DEF PromiseInv, RetryBudget, Waiting, TypeOK
<1>3. sent[n] = MAC_TX_RETRANSMISSION_RETRYS
  BY <1>1, <1>2
<1>4. QED
  BY <1>3 DEF Promise!Exhausted

\* The calls of handleTx that look for a frame.
Serves == HandleTxNothing \/ (\E ok \in BOOLEAN : HandleTxTracking(ok))
              \/ HandleTxSent \/ HandleTxBusy

(* Nothing but what is given up stops waiting. *)
LEMMA ServedWaiting ==
    ASSUME PromiseInv, Serves
    PROVE  /\ Waiting' = Waiting \ GivenUp
           /\ \A n \in Waiting' : txPool'[n].destination = txPool[n].destination
<1>1. TypeOK
  BY DEF PromiseInv
<1>2. \A n \in DOMAIN txPool' : n \in DOMAIN txPool \ GivenUp /\ Stays(n)
  BY <1>1, HandleTxFrames DEF Serves
<1>3. DOMAIN Remaining = DOMAIN txPool \ GivenUp
  BY <1>1, RemainingProperties
<1>4. Waiting \ GivenUp \subseteq DOMAIN txPool'
  <2>1. CASE HandleTxNothing
    BY <1>3, <2>1 DEF HandleTxNothing, Waiting
  <2>2. ASSUME NEW ok \in BOOLEAN, HandleTxTracking(ok)
        PROVE  Waiting \ GivenUp \subseteq DOMAIN txPool'
    <3>1. PICK k \in NextTxFrame(Remaining) :
              OwnTracking(txPool[k]) /\ txPool' = Without(Remaining, {k})
      BY <2>2 DEF HandleTxTracking
    <3>2. k \notin Waiting
      BY <3>1 DEF Waiting, WaitsForAck, OwnTracking
    <3>3. DOMAIN txPool' = DOMAIN Remaining \ {k}
      BY <3>1 DEF Without, Restrict
    <3>4. QED
      BY <1>3, <3>2, <3>3 DEF Waiting
  <2>3. CASE HandleTxSent
    <3>1. PICK k \in NextTxFrame(Remaining) :
            LET f == Outgoing(txPool[k])
            IN  txPool' =
                    IF f.ackType = "NONE" \/ f.source # ownAddress_
                    THEN Without(Remaining, {k})
                    ELSE [Remaining EXCEPT ![k] =
                            [f EXCEPT !.numTx = f.numTx - 1,
                                      !.nextTx = (tick' + RetryAfter(f.numTx - 1)) % TICK_MOD]]
      BY <2>3 DEF HandleTxSent
    <3>2. k \in DOMAIN txPool /\ txPool[k] \in Frame
      BY <1>1, PickedMayBeSent, PoolFacts
    <3>3. /\ Outgoing(txPool[k]).ackType = txPool[k].ackType
          /\ Outgoing(txPool[k]).source = txPool[k].source
      BY <3>2, OutgoingProperties
    <3>4. CASE k \in Waiting
      <4>1. txPool[k].ackType # "NONE" /\ txPool[k].source = ownAddress_
        BY <3>2, <3>4 DEF Waiting, WaitsForAck, PromiseInv, OwnSource
      <4>2. DOMAIN txPool' = DOMAIN Remaining
        BY <3>1, <3>3, <4>1
      <4>3. QED
        BY <1>3, <4>2 DEF Waiting
    <3>5. CASE k \notin Waiting
      <4>1. DOMAIN Remaining \ {k} \subseteq DOMAIN txPool'
        BY <3>1 DEF Without, Restrict
      <4>2. QED
        BY <1>3, <3>5, <4>1 DEF Waiting
    <3>6. QED
      BY <3>4, <3>5
  <2>4. CASE HandleTxBusy
    <3>1. DOMAIN txPool' = DOMAIN Remaining
      BY <2>4 DEF HandleTxBusy
    <3>2. QED
      BY <1>3, <3>1 DEF Waiting
  <2>5. QED
    BY <2>1, <2>2, <2>3, <2>4 DEF Serves
<1>5. Waiting \subseteq DOMAIN txPool /\ Waiting' \subseteq DOMAIN txPool'
  BY DEF Waiting
<1>6. QED
  BY <1>2, <1>4, <1>5, StaysWaiting

(* A call of handleTx gives up exhausted messages and sends at most one of  *)
(* those that are not.                                                      *)
LEMMA ServeKeepsPromise ==
    ASSUME PromiseInv, Serves
    PROVE  \E gone \in SUBSET Promise!Exhausted :
              \/ Promise!GiveUp(gone)
              \/ \E m \in Waiting \ Promise!Exhausted : Promise!Attempt(gone, m)
<1>1. TypeOK
  BY DEF PromiseInv
<1>2. PICK gone \in SUBSET Promise!Exhausted : gone = GivenUp \cap Waiting
  BY GivenUpIsExhausted
<1>3. /\ Waiting' = Waiting \ gone
      /\ \A n \in Waiting' : txPool'[n].destination = txPool[n].destination
  BY <1>2, ServedWaiting
<1>4. DOMAIN Book = Waiting
  BY DEF Book
<1>5. ASSUME \A n \in Waiting' : sent'[n] = sent[n]
      PROVE  Promise!GiveUp(gone)
  <2>1. Book' = Restrict(Book, Waiting \ gone)
    BY <1>3, <1>5, BookRestricted
  <2>2. Book' = Restrict(Book, DOMAIN Book \ gone)
    BY <1>4, <2>1
  <2>3. QED
    BY <2>2 DEF Promise!GiveUp, Promise!Restrict, Restrict, Book
<1>6. CASE ~HandleTxSent
  <2>1. NoneSent
    BY <1>6 DEF Serves, HandleTxNothing, HandleTxTracking, HandleTxBusy
  <2>2. \A n \in Waiting' : n \in DOMAIN txPool' /\ n \in DOMAIN txPool
    BY <1>3 DEF Waiting
  <2>3. \A n \in Waiting' : sent'[n] = sent[n]
    BY <1>1, <2>1, <2>2, NoneSentCounts
  <2>4. QED
    BY <1>5, <2>3, Zenon
<1>7. CASE HandleTxSent
  <2>1. PICK k \in NextTxFrame(Remaining) : CountSent(k)
    BY <1>7 DEF HandleTxSent
  <2>2. /\ \A m \in Waiting' : sent'[m] = IF m = k THEN sent[m] + 1 ELSE sent[m]
        /\ k \in DOMAIN Remaining /\ k \notin GivenUp /\ ~NeverAcked(txPool[k])
    <3>1. \A m \in Waiting' : m \in DOMAIN txPool' /\ m \in DOMAIN txPool
      BY <1>3 DEF Waiting
    <3>2. QED
      BY <1>1, <2>1, <3>1, CountSentType, PickedMayBeSent, RemainingProperties DEF TypeOK
  <2>3. CASE k \notin Waiting
    <3>1. \A n \in Waiting' : sent'[n] = sent[n]
      BY <1>3, <2>2, <2>3
    <3>2. QED
      BY <1>5, <3>1, Zenon
  <2>4. CASE k \in Waiting
    <3>1. txPool[k].numTx # 0
      BY <2>2, <2>4 DEF NeverAcked, OwnTracking, Waiting, WaitsForAck
    <3>2. /\ sent[k] + txPool[k].numTx = MAC_TX_RETRANSMISSION_RETRYS
          /\ sent[k] \in Nat /\ txPool[k].numTx \in 0 .. 7
      BY <1>1, <2>4, PoolFacts DEF PromiseInv, RetryBudget, Waiting, TypeOK, Frame
    <3>3. sent[k] # MAC_TX_RETRANSMISSION_RETRYS
      BY <3>1, <3>2, TimingAssumption
    <3>4. k \in Waiting \ Promise!Exhausted
      BY <2>4, <3>3 DEF Promise!Exhausted
    <3>5. Book' = [n \in Waiting \ gone |->
                      IF n = k THEN [Book[n] EXCEPT !.attempts = @ + 1] ELSE Book[n]]
      BY <1>3, <2>2 DEF Book
    <3>6. Promise!Attempt(gone, k)
      BY <1>4, <3>5 DEF Promise!Attempt, Book
    <3>7. QED
      BY <3>4, <3>6, Zenon
  <2>5. QED
    BY <2>3, <2>4
<1>8. QED
  BY <1>6, <1>7

(* A step that leaves the pool alone changes nothing the application sees.  *)
LEMMA OthersKeepPromise ==
    ASSUME UNCHANGED <<txPool, sent>>
    PROVE  Book' = Book
  BY DEF Book, Waiting

(* After init() nothing waits. *)
LEMMA ReinitKeepsPromise ==
    ASSUME Reinit
    PROVE  Promise!Reset
<1>1. txPool' = [n \in {} |-> 0]
  BY DEF Reinit
<1>2. Waiting' = {}
  BY <1>1 DEF Waiting
<1>3. QED
  BY <1>2 DEF Promise!Reset

(* Every step of the protocol is a step of the promise, or none. *)
LEMMA StepKeepsPromise ==
    ASSUME PromiseInv, [Next]_vars
    PROVE  [Promise!Next]_Book
<1>1. ASSUME NEW p \in AppPackets, NEW strict \in StrictModes, SendPacket(p, strict)
      PROVE  Book' = Book \/ Promise!Next
  <2>1. CASE Book' = Book
    BY <2>1
  <2>2. CASE Arrival \in Arrivals /\ \E a \in Address : Promise!Accept(Arrival, a)
    <3>1. \E m \in Arrivals, a \in Address : Promise!Accept(m, a)
      BY <2>2, Zenon
    <3>2. QED
      BY <3>1, Zenon DEF Promise!Next
  <2>3. QED
    BY <1>1, <2>1, <2>2, SubmitKeepsPromise
<1>2. ASSUME NEW f \in RxFrames, NEW rssi \in Rssis, HandleRx(f, rssi)
      PROVE  Book' = Book \/ Promise!Next
  <2>1. CASE RxFromUs(f)
    BY <2>1, OthersKeepPromise DEF RxFromUs
  <2>2. CASE RxEcho(f, rssi)
    BY <2>2, EchoKeepsPromise
  <2>3. CASE RxNew(f, rssi)
    <3>1. Book' = Book \/ \E a \in Address : Promise!Confirm(a)
      BY <2>3, NewKeepsPromise
    <3>2. QED
      BY <3>1, Zenon DEF Promise!Next
  <2>4. QED
    BY <1>2, <2>1, <2>2, <2>3 DEF HandleRx
<1>3. CASE HandleTx
  <2>1. CASE HandleTxWaits
    BY <2>1, OthersKeepPromise DEF HandleTxWaits
  <2>2. CASE Serves
    <3>1. \E gone \in SUBSET Promise!Exhausted :
              \/ Promise!GiveUp(gone)
              \/ \E m \in Waiting \ Promise!Exhausted : Promise!Attempt(gone, m)
      BY <2>2, ServeKeepsPromise
    <3>2. DOMAIN Book = Waiting
      BY DEF Book
    <3>3. Promise!Next
      BY <3>1, <3>2, Zenon DEF Promise!Next, Book
    <3>4. QED
      BY <3>3
  <2>3. QED
    BY <1>3, <2>1, <2>2 DEF HandleTx, Serves
<1>4. CASE Reinit
  BY <1>4, ReinitKeepsPromise DEF Promise!Next
<1>5. CASE TimePasses \/ UNCHANGED vars \/ \E a \in NewAddresses : SetOwnAddress(a)
  BY <1>5, OthersKeepPromise DEF TimePasses, vars, SetOwnAddress
<1>6. QED
  BY <1>1, <1>2, <1>3, <1>4, <1>5 DEF Next

(* A packet the device took over with a request for an ACK is sent no more  *)
(* than MAC_TX_RETRANSMISSION_RETRYS times and leaves the pool only by an   *)
(* ACK from where it went, or when it was sent that often: neither an echo, *)
(* a relayed copy, another packet nor the clean-up of handleTx loses it.    *)
THEOREM PromiseIsKept ==
    ASSUME Strict, AddressFixed
    PROVE  Spec => PromiseKept
<1>1. Init => PromiseInv /\ Promise!Init
  <2>1. Init => TypeOK /\ RetryBudget /\ OwnSource
    BY TypeInitially, EmptyPool DEF Init, RetryBudget, Waiting, OwnSource
  <2>2. Init => Waiting = {}
    BY EmptyPool DEF Init, Waiting
  <2>3. QED
    BY <2>1, <2>2 DEF PromiseInv, Promise!Init
<1>2. PromiseInv /\ [Next]_vars => PromiseInv'
  BY PromiseInvPreserved
<1>3. PromiseInv /\ [Next]_vars => [Promise!Next]_Book
  BY StepKeepsPromise
<1>4. QED
  BY <1>1, <1>2, <1>3, PTL DEF Spec, PromiseKept, Promise!Spec, Book

(* A step that ends the waiting of a packet is one that settles it. *)
LEMMA StepSettles ==
    ASSUME PromiseInv, [Next]_vars, NEW n \in Waiting \ Waiting'
    PROVE  Settled(n)
<1>1. Book' # Book
  <2>1. DOMAIN Book = Waiting /\ DOMAIN Book' = Waiting'
    BY DEF Book
  <2>2. QED
    BY <2>1
<1>2. ASSUME NEW p \in AppPackets, NEW strict \in StrictModes, SendPacket(p, strict)
      PROVE  FALSE
  <2>1. PICK a \in Address : Promise!Accept(Arrival, a)
    BY <1>1, <1>2, SubmitKeepsPromise
  <2>2. DOMAIN Book = Waiting /\ DOMAIN Book' = Waiting'
    BY DEF Book
  <2>3. DOMAIN Book' = DOMAIN Book \cup {Arrival}
    BY <2>1 DEF Promise!Accept, Book
  <2>4. QED
    BY <2>2, <2>3
<1>3. ASSUME NEW f \in RxFrames, NEW rssi \in Rssis, HandleRx(f, rssi)
      PROVE  Settled(n)
  <2>1. RxNew(f, rssi)
    BY <1>1, <1>3, OthersKeepPromise, EchoKeepsPromise DEF HandleRx, RxFromUs
  <2>2. n \in AckedFrames(f)
    BY <2>1, NewWaiting
  <2>3. /\ f.type = "ACK" /\ f.source = txPool[n].destination
        /\ f.destination \in {BROADCAST, ownAddress_}
    BY <2>2 DEF AckedFrames, ForUs
  <2>4. QED
    BY <1>3, <2>3 DEF Settled
<1>4. CASE HandleTx
  <2>1. CASE HandleTxWaits
    BY <1>1, <2>1, OthersKeepPromise DEF HandleTxWaits
  <2>2. CASE Serves
    <3>1. n \in GivenUp \cap Waiting
      BY <2>2, ServedWaiting
    <3>2. n \in Promise!Exhausted
      BY <3>1, GivenUpIsExhausted
    <3>3. sent[n] = MAC_TX_RETRANSMISSION_RETRYS
      BY <3>2 DEF Promise!Exhausted
    <3>4. QED
      BY <3>3 DEF Settled
  <2>3. QED
    BY <1>4, <2>1, <2>2 DEF HandleTx, Serves
<1>5. CASE Reinit
  BY <1>5 DEF Settled
<1>6. CASE TimePasses \/ UNCHANGED vars \/ \E a \in NewAddresses : SetOwnAddress(a)
  BY <1>1, <1>6, OthersKeepPromise DEF TimePasses, vars, SetOwnAddress
<1>7. QED
  BY <1>2, <1>3, <1>4, <1>5, <1>6 DEF Next

(* No packet is lost to another device's ACK, to an echo or to a relayed    *)
(* copy: what stops waiting was acknowledged by the device it went to, was  *)
(* sent as often as it should, or went with the whole pool.                 *)
THEOREM WaitingEndsForAReason ==
    ASSUME Strict, AddressFixed
    PROVE  Spec => LostForAReason
<1>1. Init => PromiseInv
  BY TypeInitially, EmptyPool DEF Init, RetryBudget, Waiting, OwnSource, PromiseInv
<1>2. PromiseInv /\ [Next]_vars => PromiseInv'
  BY PromiseInvPreserved
<1>3. PromiseInv /\ [Next]_vars => [\A n \in Waiting \ Waiting' : Settled(n)]_vars
  BY StepSettles
<1>4. QED
  BY <1>1, <1>2, <1>3, PTL DEF Spec, LostForAReason

-----------------------------------------------------------------------------
(* What the application is told.                                            *)

\* A packet with an id has its arrival number for it.
IdsAreArrivals == \A n \in DOMAIN txPool : txPool[n].id \in {0, n}

(* No frame changes its id, and what comes has its own number or none. *)
LEMMA IdsPreserved ==
    ASSUME TypeOK, IdsAreArrivals, [Next]_vars
    PROVE  IdsAreArrivals'
<1> SUFFICES ASSUME NEW n \in DOMAIN txPool'
             PROVE  txPool'[n].id \in {0, n}
  BY DEF IdsAreArrivals
<1>1. CASE Stays(n)
  BY <1>1 DEF Stays, SameMessage, IdsAreArrivals
<1>2. CASE Comes(n)
  BY <1>2 DEF Comes, Submitted, Answer, Copy
<1>3. QED
  BY <1>1, <1>2, PoolSteps

(* removeDeleteAckedFrame() reports the last of the frames it removes: one  *)
(* that goes unreported has another after it, that waits for the same ACK.  *)
LEMMA UnreportedIsOvertaken ==
    ASSUME TypeOK, IdsAreArrivals, NEW f \in RxFrames, NEW rssi \in Rssis, RxNew(f, rssi),
           NEW n \in acked' \ reported'
    PROVE  \E m \in DOMAIN txPool : /\ n < m
                                    /\ txPool[m].ackType # "NONE"
                                    /\ txPool[m].destination = txPool[n].destination
<1>1. /\ acked' = {txPool[k].id : k \in {m \in AckedFrames(f) : sent[m] > 0}} \ {0}
      /\ reported' = LastIds(AckedFrames(f)) \ {0}
  BY DEF RxNew
<1>2. PICK k \in AckedFrames(f) : txPool[k].id = n /\ n # 0
  BY <1>1
<1>3. /\ AckedFrames(f) \subseteq DOMAIN txPool
      /\ \A m \in AckedFrames(f) :
            txPool[m].destination = f.source /\ txPool[m].ackType # "NONE"
  BY DEF AckedFrames
<1>4. k = n
  BY <1>2, <1>3 DEF IdsAreArrivals
<1>5. PICK m \in AckedFrames(f) : ~(m <= n)
  <2>1. n \notin LastIds(AckedFrames(f))
    BY <1>1, <1>2
  <2>2. QED
    BY <1>2, <1>4, <2>1 DEF LastIds
<1>6. n < m
  <2>1. DOMAIN txPool \subseteq Nat
    BY PoolFacts DEF PoolOK
  <2>2. QED
    BY <1>3, <1>4, <1>5, <2>1
<1>7. QED
  BY <1>3, <1>4, <1>5, <1>6

(* Only a new frame settles anything. *)
LEMMA StepReports ==
    ASSUME TypeOK, IdsAreArrivals, Next, NEW n \in acked' \ reported'
    PROVE  \E m \in DOMAIN txPool : /\ n < m
                                    /\ txPool[m].ackType # "NONE"
                                    /\ txPool[m].destination = txPool[n].destination
<1>1. ASSUME NEW f \in RxFrames, NEW rssi \in Rssis, RxNew(f, rssi)
      PROVE  \E m \in DOMAIN txPool : /\ n < m
                                      /\ txPool[m].ackType # "NONE"
                                      /\ txPool[m].destination = txPool[n].destination
  BY <1>1, UnreportedIsOvertaken
<1>2. ~NothingAcked
  BY DEF NothingAcked
<1>3. QED
  BY <1>1, <1>2 DEF Next, SendPacket, SetOwnAddress, Reinit, HandleRx, RxFromUs, RxEcho,
         HandleTx, HandleTxWaits, HandleTxNothing, HandleTxTracking, HandleTxSent,
         HandleTxBusy, TxCall, TimePasses

(* The application learns of every packet that was sent and settled by an   *)
(* ACK, but for those overtaken by a later frame for the same device.       *)
THEOREM AckIsReported == Spec => ReportedUnlessOvertaken
<1>1. Init => IdsAreArrivals
  BY EmptyPool DEF Init, IdsAreArrivals
<1>2. TypeOK /\ IdsAreArrivals /\ [Next]_vars => IdsAreArrivals'
  BY IdsPreserved
<1>3. TypeOK /\ IdsAreArrivals /\ [Next]_vars
        => [ \A n \in acked' \ reported' :
                \E m \in DOMAIN txPool : /\ n < m
                                        /\ txPool[m].ackType # "NONE"
                                        /\ txPool[m].destination = txPool[n].destination ]_vars
  BY StepReports
<1>4. QED
  BY <1>1, <1>2, <1>3, TypeCorrect, PTL DEF Spec, ReportedUnlessOvertaken

-----------------------------------------------------------------------------
(* What a step does, for those who look at the device from outside.         *)

\* The frames stay, but for their times and the bit that handleTx sets.
FramesStay(S) ==
    \A n \in S : /\ n \in DOMAIN txPool /\ SameMessage(txPool[n], txPool'[n])
                 /\ txPool'[n].numTx = txPool[n].numTx

(* sendPacket() adds the packet, or nothing. *)
LEMMA SubmittedSeen ==
    ASSUME TypeOK, NEW p \in AppPackets, SendPacket(p, TRUE)
    PROVE  /\ ~air'.sent /\ reported' = {}
           /\ UNCHANGED neighborTable_
           /\ Arrival \notin DOMAIN txPool
           /\ FramesStay(DOMAIN txPool' \ {Arrival})
           /\ Arrival \in DOMAIN txPool' =>
                 LET f == txPool'[Arrival]
                 IN  /\ f.self /\ f.source = ownAddress_
                     /\ f.destination = p.destination /\ f.type = p.type
                     /\ f.ackType = p.ackType /\ f.payload = p.payload
                     /\ f.ackType # "NONE" => f.numTx = MAC_TX_RETRANSMISSION_RETRYS
<1> DEFINE k == IF p.ackType # "NONE" THEN MAC_TX_RETRANSMISSION_RETRYS ELSE 0
           id == IF p.tagged THEN Arrival ELSE 0
           f == TxFrame(StrictPacket(p), TRUE, id, k, tick, 0)
<1>1. Input /\ NothingSent /\ NothingAcked /\ UNCHANGED neighborTable_
  BY DEF SendPacket
<1>2. txPool' = AfterAdd(txPool, Arrival, f)
  <2>1. PICK numTx \in NumTxOf(p, TRUE) :
            txPool' = AfterAdd(txPool, Arrival,
                               TxFrame(IF TRUE THEN StrictPacket(p) ELSE p, TRUE, id, numTx, tick, 0))
    BY DEF SendPacket
  <2>2. numTx = k
    BY DEF NumTxOf
  <2>3. QED
    BY <2>1, <2>2
<1>3. f \in Frame
  <2>1. k \in NumTxOf(p, TRUE) /\ id \in {0} \cup Arrivals
    BY <1>1, InputFacts DEF NumTxOf
  <2>2. TxFrame(IF TRUE THEN StrictPacket(p) ELSE p, TRUE, id, k, tick, 0) \in Frame
    BY <2>1, SubmittedType
  <2>3. QED
    BY <2>2
<1>4. /\ f.self /\ f.source = ownAddress_ /\ f.destination = p.destination /\ f.type = p.type
      /\ f.ackType = p.ackType /\ f.payload = p.payload /\ f.numTx = k
  <2>1. p \in AppPacket
    BY InputAssumption
  <2>2. /\ StrictPacket(p).source = ownAddress_ /\ StrictPacket(p).destination = p.destination
        /\ StrictPacket(p).type = p.type /\ StrictPacket(p).ackType = p.ackType
        /\ StrictPacket(p).payload = p.payload
    BY <2>1 DEF StrictPacket, AppPacket
  <2>3. QED
    BY <2>2 DEF TxFrame
<1> HIDE DEF f
<1>5. /\ Arrival \notin DOMAIN txPool
      /\ \A m \in DOMAIN txPool' \ {Arrival} : m \in DOMAIN txPool /\ txPool'[m] = txPool[m]
      /\ Arrival \in DOMAIN txPool' => txPool'[Arrival] = f
  <2>1. /\ 2 * inputs' + 1 \in Nat /\ PoolOK(txPool, 2 * inputs' + 1)
        /\ Arrival \in 1 .. (2 * inputs' + 1) /\ Arrival \notin DOMAIN txPool
    BY <1>1, InputFacts
  <2>2. QED
    BY <1>2, <1>3, <2>1, AddProperties
<1>6. ~air'.sent /\ reported' = {}
  BY <1>1 DEF NothingSent, NothingAcked, Silence
<1>7. QED
  BY <1>1, <1>4, <1>5, <1>6 DEF FramesStay, SameMessage

\* The answer to f, which asked for one.
AnswerTo(f, g) ==
    /\ ForUs(f) /\ f.type # "ACK" /\ f.ackType # "NONE"
    /\ ~g.self /\ g.id = 0
    /\ g.source = ownAddress_ /\ g.destination = f.source /\ g.type = "ACK"
    /\ g.ackType = "NONE" /\ g.payload = NO_PAYLOAD

\* The copy of f, which is not queued yet.
CopyOf(f, g) ==
    /\ f.forward /\ f.source # ownAddress_
    /\ f.destination = BROADCAST \/ f.destination \in DOMAIN neighborTable_'
    /\ ~g.self /\ g.id = 0 /\ ~g.forward
    /\ g.source = f.source /\ g.destination = f.destination /\ g.type = f.type
    /\ g.ackType = f.ackType /\ g.payload = f.payload
    /\ \A m \in DOMAIN txPool : ~Matches(txPool[m], f)

(* A frame that is not queued brings an answer or a copy, and reports ids   *)
(* of frames it settled alone.                                              *)
LEMMA NewSeen ==
    ASSUME TypeOK, IdsAreArrivals, NEW f \in RxFrames, NEW rssi \in Rssis, RxNew(f, rssi)
    PROVE  /\ FramesStay(DOMAIN txPool' \ {Arrival, RelayArrival})
           /\ Arrival \notin DOMAIN txPool /\ RelayArrival \notin DOMAIN txPool
           /\ Arrival \in DOMAIN txPool' => AnswerTo(f, txPool'[Arrival])
           /\ RelayArrival \in DOMAIN txPool' => CopyOf(f, txPool'[RelayArrival])
           /\ \A n \in DOMAIN txPool : txPool[n].id \in reported' => n \in AckedFrames(f)
<1>1. /\ Input /\ f.source # ownAddress_
      /\ FrameInTxPool(f) = {}
      /\ txPool' \in Relayed(Answered(f), f, rssi, neighborTable_')
      /\ reported' = LastIds(AckedFrames(f)) \ {0}
  BY DEF RxNew
<1>2. /\ \A n \in DOMAIN txPool' \ {RelayArrival} :
            n \in DOMAIN Answered(f) /\ txPool'[n] = Answered(f)[n]
      /\ RelayArrival \in DOMAIN txPool' \ DOMAIN Answered(f) =>
            /\ Relayable(f, rssi, neighborTable_')
            /\ \E delay \in ForwardDelays : txPool'[RelayArrival] = RelayFrame(f, rssi, delay)
  BY <1>1, AnsweredType, RelayedProperties
<1>3. /\ Arrival \notin DOMAIN txPool /\ RelayArrival \notin DOMAIN txPool
      /\ Arrival # RelayArrival
  BY <1>1, InputFacts
<1>4. RelayArrival \notin DOMAIN Answered(f)
  BY <1>1, <1>3, AnsweredProperties
<1>5. FramesStay(DOMAIN txPool' \ {Arrival, RelayArrival})
  BY <1>1, <1>2, AnsweredProperties DEF FramesStay, SameMessage
<1>6. ASSUME Arrival \in DOMAIN txPool'
      PROVE  AnswerTo(f, txPool'[Arrival])
  <2>1. Arrival \in DOMAIN Answered(f) /\ txPool'[Arrival] = Answered(f)[Arrival]
    BY <1>2, <1>3, <1>6
  <2>2. ForUs(f) /\ f.type # "ACK" /\ f.ackType # "NONE"
    <3>1. SUFFICES ASSUME ~(ForUs(f) /\ f.type # "ACK" /\ f.ackType # "NONE")
                   PROVE  FALSE
      OBVIOUS
    <3>2. DOMAIN Answered(f) \subseteq DOMAIN txPool
      BY <3>1 DEF Answered, Without, Restrict
    <3>3. QED
      BY <1>3, <2>1, <3>2
  <2>3. Answered(f)[Arrival] = AckFrame(f)
    <3> DEFINE g == AckFrame(f)
    <3>1. Answered(f) = AfterAdd(txPool, Arrival, g)
      BY <2>2 DEF Answered
    <3> HIDE DEF g
    <3>2. Answered(f)[Arrival] = g
      BY <1>3, <2>1, <3>1 DEF AfterAdd
    <3>3. QED
      BY <3>2 DEF g
  <2>4. QED
    BY <2>1, <2>2, <2>3 DEF AnswerTo, AckFrame, TxFrame
<1>7. ASSUME RelayArrival \in DOMAIN txPool'
      PROVE  CopyOf(f, txPool'[RelayArrival])
  <2>1. PICK delay \in ForwardDelays : txPool'[RelayArrival] = RelayFrame(f, rssi, delay)
    BY <1>2, <1>4, <1>7
  <2>2. /\ f.forward
        /\ f.destination = BROADCAST \/ f.destination \in DOMAIN neighborTable_'
    BY <1>2, <1>4, <1>7 DEF Relayable, LastSeen
  <2>3. \A m \in DOMAIN txPool : ~Matches(txPool[m], f)
    BY <1>1, NothingMatches
  <2> DEFINE g == RelayFrame(f, rssi, delay)
  <2>4. /\ ~g.self /\ g.id = 0 /\ ~g.forward
        /\ g.source = f.source /\ g.destination = f.destination /\ g.type = f.type
        /\ g.ackType = f.ackType /\ g.payload = f.payload
    BY RelayFrameProperties
  <2> HIDE DEF g
  <2>5. CopyOf(f, g)
    BY <1>1, <2>2, <2>3, <2>4 DEF CopyOf
  <2>6. QED
    BY <2>1, <2>5 DEF g
<1>8. ASSUME NEW n \in DOMAIN txPool, txPool[n].id \in reported'
      PROVE  n \in AckedFrames(f)
  <2>1. PICK m \in AckedFrames(f) : txPool[m].id = txPool[n].id /\ txPool[n].id # 0
    BY <1>1, <1>8 DEF LastIds
  <2>2. m \in DOMAIN txPool
    BY <2>1 DEF AckedFrames
  <2>3. m = n
    BY <2>1, <2>2 DEF IdsAreArrivals
  <2>4. QED
    BY <2>1, <2>3
<1>9. QED
  BY <1>3, <1>5, <1>6, <1>7, <1>8

(* handleRx() reads a frame and sends none. *)
LEMMA ReceivedSeen ==
    ASSUME TypeOK, IdsAreArrivals, NEW f \in RxFrames, NEW rssi \in Rssis, HandleRx(f, rssi)
    PROVE  /\ ~air'.sent
           /\ DOMAIN neighborTable_' \subseteq DOMAIN neighborTable_ \cup {f.source}
           /\ Arrival \notin DOMAIN txPool /\ RelayArrival \notin DOMAIN txPool
           /\ FramesStay(DOMAIN txPool' \ {Arrival, RelayArrival})
           /\ Arrival \in DOMAIN txPool' => AnswerTo(f, txPool'[Arrival])
           /\ RelayArrival \in DOMAIN txPool' => CopyOf(f, txPool'[RelayArrival])
           /\ \A n \in DOMAIN txPool : txPool[n].id \in reported' => n \in AckedFrames(f)
<1>1. Input /\ NothingSent
  BY DEF HandleRx, RxFromUs, RxEcho, RxNew
<1>2. ~air'.sent /\ Arrival \notin DOMAIN txPool /\ RelayArrival \notin DOMAIN txPool
  BY <1>1, InputFacts DEF NothingSent, Silence
<1>3. DOMAIN neighborTable_' \subseteq DOMAIN neighborTable_ \cup {f.source}
  <2>1. CASE RxFromUs(f)
    BY <2>1 DEF RxFromUs, Outdated, AfterRemoveOutdated, Restrict
  <2>2. CASE neighborTable_' \in HeardTables(f)
    BY <2>2, HeardType
  <2>3. QED
    BY <2>1, <2>2 DEF HandleRx, RxEcho, RxNew
<1>4. CASE RxFromUs(f)
  <2>1. txPool' = txPool /\ reported' = {}
    BY <1>4 DEF RxFromUs, NothingAcked
  <2>2. QED
    BY <1>2, <1>3, <2>1 DEF FramesStay, SameMessage
<1>5. CASE RxEcho(f, rssi)
  <2>1. PICK k \in FrameInTxPool(f) :
            \/ txPool' = Without(txPool, {k})
            \/ \E delay \in ForwardDelays :
                  txPool' = [txPool EXCEPT ![k].nextTx = Later(delay)]
    BY <1>5 DEF RxEcho
  <2>2. k \in DOMAIN txPool /\ reported' = {}
    BY <1>5 DEF FrameInTxPool, RxEcho, NothingAcked
  <2>3. ASSUME NEW n \in DOMAIN txPool'
        PROVE  /\ n \in DOMAIN txPool /\ SameMessage(txPool[n], txPool'[n])
               /\ txPool'[n].numTx = txPool[n].numTx
    <3>1. CASE txPool' = Without(txPool, {k})
      BY <2>3, <3>1 DEF Without, Restrict, SameMessage
    <3>2. ASSUME NEW delay \in ForwardDelays,
                 txPool' = [txPool EXCEPT ![k].nextTx = Later(delay)]
          PROVE  /\ n \in DOMAIN txPool /\ SameMessage(txPool[n], txPool'[n])
                 /\ txPool'[n].numTx = txPool[n].numTx
      <4>1. n \in DOMAIN txPool /\ txPool[n] \in Frame
        BY <2>3, <3>2, PoolFacts
      <4>2. txPool'[n] = txPool[n] \/ txPool'[n] = [txPool[n] EXCEPT !.nextTx = Later(delay)]
        BY <3>2, <4>1
      <4>3. QED
        BY <4>1, <4>2 DEF Frame, SameMessage
    <3>3. QED
      BY <2>1, <3>1, <3>2
  <2>4. QED
    BY <1>2, <1>3, <2>2, <2>3 DEF FramesStay
<1>6. CASE RxNew(f, rssi)
  BY <1>2, <1>3, <1>6, NewSeen
<1>7. QED
  BY <1>4, <1>5, <1>6 DEF HandleRx

\* handleTx() with the frame n of the pool: it leaves, unless it is ours, waits
\* for an ACK and has transmissions left.
Leaves(n) ==
    /\ n \in DOMAIN txPool /\ SameMessage(txPool[n], air'.frame) /\ air'.frame \in Frame
    /\ FramesStay(DOMAIN txPool' \ {n})
    /\ IF OwnTracking(txPool[n]) \/ txPool[n].ackType = "NONE" \/ txPool[n].source # ownAddress_
       THEN n \notin DOMAIN txPool'
       ELSE /\ txPool[n].numTx # 0
            /\ n \in DOMAIN txPool' => /\ SameMessage(txPool[n], txPool'[n])
                                      /\ txPool'[n].numTx = txPool[n].numTx - 1

(* handleTx() sends one frame of the pool or none. *)
LEMMA TransmittedSeen ==
    ASSUME TypeOK, HandleTxNothing \/ (\E ok \in BOOLEAN : HandleTxTracking(ok))
                       \/ HandleTxSent \/ HandleTxBusy
    PROVE  /\ reported' = {} /\ UNCHANGED neighborTable_
           /\ IF air'.sent THEN \E n \in DOMAIN txPool : Leaves(n) ELSE FramesStay(DOMAIN txPool')
<1>1. reported' = {} /\ UNCHANGED neighborTable_
  BY DEF HandleTxNothing, HandleTxTracking, HandleTxSent, HandleTxBusy, TxCall, NothingAcked
<1>2. /\ DOMAIN Remaining \subseteq DOMAIN txPool
      /\ \A n \in DOMAIN Remaining : Remaining[n] = txPool[n]
  BY RemainingProperties
<1>3. CASE HandleTxNothing
  <2>1. txPool' = Remaining /\ ~air'.sent
    BY <1>3 DEF HandleTxNothing, NothingSent, Silence
  <2>2. QED
    BY <1>1, <1>2, <2>1 DEF FramesStay, SameMessage
<1>4. ASSUME NEW ok \in BOOLEAN, HandleTxTracking(ok)
      PROVE  IF air'.sent THEN \E n \in DOMAIN txPool : Leaves(n) ELSE FramesStay(DOMAIN txPool')
  <2>1. PICK n \in NextTxFrame(Remaining) :
            /\ OwnTracking(txPool[n])
            /\ air' = [sent |-> ok, frame |-> Outgoing(txPool[n])]
            /\ txPool' = Without(Remaining, {n})
    BY <1>4 DEF HandleTxTracking
  <2>2. n \in DOMAIN txPool /\ txPool[n] \in Frame
    BY PickedMayBeSent, PoolFacts
  <2>3. SameMessage(txPool[n], air'.frame) /\ air'.frame \in Frame
    BY <2>1, <2>2, OutgoingProperties DEF SameMessage
  <2>4. n \notin DOMAIN txPool' /\ FramesStay(DOMAIN txPool')
    BY <1>2, <2>1 DEF Without, Restrict, FramesStay, SameMessage
  <2>5. Leaves(n)
    BY <2>1, <2>2, <2>3, <2>4 DEF Leaves, FramesStay
  <2>6. QED
    BY <2>2, <2>4, <2>5
<1>5. CASE HandleTxSent
  <2>1. PICK n \in NextTxFrame(Remaining) :
          LET f == Outgoing(txPool[n])
          IN  /\ ~OwnTracking(f)
              /\ air' = [sent |-> TRUE, frame |-> f]
              /\ txPool' =
                    IF f.ackType = "NONE" \/ f.source # ownAddress_
                    THEN Without(Remaining, {n})
                    ELSE [Remaining EXCEPT ![n] =
                            [f EXCEPT !.numTx = f.numTx - 1,
                                      !.nextTx = (tick' + RetryAfter(f.numTx - 1)) % TICK_MOD]]
    BY <1>5 DEF HandleTxSent
  <2> DEFINE f == Outgoing(txPool[n])
             g == [f EXCEPT !.numTx = f.numTx - 1,
                            !.nextTx = (tick' + RetryAfter(f.numTx - 1)) % TICK_MOD]
  <2>2. /\ n \in DOMAIN txPool /\ n \in DOMAIN Remaining /\ txPool[n] \in Frame
        /\ ~NeverAcked(txPool[n])
    BY PickedMayBeSent, PoolFacts
  <2>3. /\ SameMessage(txPool[n], f) /\ f \in Frame
        /\ f.ackType = txPool[n].ackType /\ f.source = txPool[n].source
        /\ ~OwnTracking(txPool[n])
    BY <2>1, <2>2, OutgoingProperties DEF SameMessage, OwnTracking
  <2>4. air'.sent /\ air'.frame = f
    BY <2>1
  <2>5. tick' \in Ticks
    BY <1>5, ClockMovesType DEF HandleTxSent
  <2>6. CASE f.ackType = "NONE" \/ f.source # ownAddress_
    <3>1. txPool' = Without(Remaining, {n})
      BY <2>1, <2>6
    <3>2. n \notin DOMAIN txPool' /\ FramesStay(DOMAIN txPool' \ {n})
      BY <1>2, <3>1 DEF Without, Restrict, FramesStay, SameMessage
    <3> HIDE DEF f
    <3>3. Leaves(n)
      <4>1. SameMessage(txPool[n], air'.frame) /\ air'.frame \in Frame
        BY <2>3, <2>4
      <4>2. txPool[n].ackType = "NONE" \/ txPool[n].source # ownAddress_
        BY <2>3, <2>6
      <4>3. QED
        BY <2>2, <3>2, <4>1, <4>2, Zenon DEF Leaves
    <3>4. QED
      BY <1>1, <2>2, <2>4, <3>3
  <2>7. CASE ~(f.ackType = "NONE" \/ f.source # ownAddress_)
    <3>1. txPool' = [Remaining EXCEPT ![n] = g]
      BY <2>1, <2>7
    <3>2. SameMessage(txPool[n], g) /\ g.numTx = txPool[n].numTx - 1
      BY <2>1, <2>5, <2>7, RetriedProperties DEF SameMessage
    <3>3. txPool[n].numTx # 0
      BY <2>2, <2>3, <2>7 DEF NeverAcked
    <3> HIDE DEF f, g
    <3>4. txPool'[n] = g /\ FramesStay(DOMAIN txPool' \ {n})
      BY <1>2, <2>2, <3>1 DEF FramesStay, SameMessage
    <3>5. Leaves(n)
      <4>1. SameMessage(txPool[n], air'.frame) /\ air'.frame \in Frame
        BY <2>3, <2>4
      <4>2. ~(OwnTracking(txPool[n]) \/ txPool[n].ackType = "NONE" \/ txPool[n].source # ownAddress_)
        BY <2>3, <2>7
      <4>3. SameMessage(txPool[n], txPool'[n]) /\ txPool'[n].numTx = txPool[n].numTx - 1
        BY <3>2, <3>4
      <4>4. QED
        BY <2>2, <3>3, <3>4, <4>1, <4>2, <4>3, Zenon DEF Leaves
    <3>6. QED
      BY <1>1, <2>2, <2>4, <3>5
  <2>8. QED
    BY <2>6, <2>7
<1>6. CASE HandleTxBusy
  <2>1. PICK n \in NextTxFrame(Remaining) :
            /\ air' = [sent |-> FALSE, frame |-> Outgoing(txPool[n])]
            /\ txPool' = [Remaining EXCEPT ![n] = Outgoing(txPool[n])]
    BY <1>6 DEF HandleTxBusy
  <2>2. n \in DOMAIN txPool /\ n \in DOMAIN Remaining /\ txPool[n] \in Frame
    BY PickedMayBeSent, PoolFacts
  <2>3. /\ SameMessage(txPool[n], Outgoing(txPool[n]))
        /\ Outgoing(txPool[n]).numTx = txPool[n].numTx
    BY <2>2, OutgoingProperties DEF SameMessage
  <2>4. ~air'.sent /\ FramesStay(DOMAIN txPool')
    <3> DEFINE f == Outgoing(txPool[n])
    <3>1. ~air'.sent /\ txPool' = [Remaining EXCEPT ![n] = f]
      BY <2>1
    <3> HIDE DEF f
    <3>2. SameMessage(txPool[n], f) /\ f.numTx = txPool[n].numTx
      BY <2>3 DEF f
    <3>3. ASSUME NEW m \in DOMAIN txPool'
          PROVE  /\ m \in DOMAIN txPool /\ SameMessage(txPool[m], txPool'[m])
                 /\ txPool'[m].numTx = txPool[m].numTx
      <4>1. CASE m = n
        BY <2>2, <3>1, <3>2, <4>1
      <4>2. CASE m # n
        BY <1>2, <3>1, <3>3, <4>2 DEF SameMessage
      <4>3. QED
        BY <4>1, <4>2
    <3>4. QED
      BY <3>1, <3>3 DEF FramesStay
  <2>5. QED
    BY <1>1, <2>4
<1>7. QED
  BY <1>1, <1>3, <1>4, <1>5, <1>6

(* What is said of a device whose address stays, and which takes its turns  *)
(* with others: the clock, the counter of calls and the answers are those   *)
(* of the last step of any of them.                                         *)
DeviceSound == TypeOK /\ NotOwnNeighbour /\ RelaysStop /\ IdsAreArrivals

(* It is true of the device after a step of its own, *)
LEMMA OwnStep ==
    ASSUME AddressFixed, DeviceSound, [Next]_vars
    PROVE  DeviceSound' /\ inputs <= inputs'
<1>1. DeviceSound'
  BY TypePreserved, NotOwnPreserved, RelaysStopPreserved, IdsPreserved DEF DeviceSound
<1>2. inputs' = inputs \/ inputs' = inputs + 1
  BY DEF Next, vars, SendPacket, SetOwnAddress, Reinit, HandleRx, RxFromUs, RxEcho, RxNew,
         HandleTx, HandleTxWaits, HandleTxNothing, HandleTxTracking, HandleTxSent,
         HandleTxBusy, TxCall, TimePasses, Input
<1>3. inputs \in Nat
  BY InputAssumption DEF DeviceSound, TypeOK
<1>4. QED
  BY <1>1, <1>2, <1>3

\* A step of another device.
OtherStep ==
    /\ UNCHANGED <<txPool, neighborTable_, ownAddress_, cmcaNextTx, carrierBackoffExp, sent>>
    /\ tick' \in Ticks
    /\ inputs' \in 0 .. MAX_INPUTS /\ inputs <= inputs'
    /\ acked' \subseteq Arrivals /\ reported' \subseteq Arrivals

(* and after a step of another device. *)
LEMMA Bystander ==
    ASSUME DeviceSound, OtherStep
    PROVE  DeviceSound'
<1>1. /\ txPool' = txPool /\ neighborTable_' = neighborTable_ /\ ownAddress_' = ownAddress_
      /\ cmcaNextTx' = cmcaNextTx /\ carrierBackoffExp' = carrierBackoffExp /\ sent' = sent
  BY DEF OtherStep
<1>2. TypeOK'
  <2>1. inputs \in Nat /\ inputs' \in Nat /\ inputs <= inputs'
    BY InputAssumption DEF OtherStep, DeviceSound, TypeOK
  <2>2. 1 .. (2 * inputs + 1) \subseteq 1 .. (2 * inputs' + 1)
    <3>1. \A a, b \in Nat : a <= b => 1 .. (2 * a + 1) \subseteq 1 .. (2 * b + 1)
      OBVIOUS
    <3>2. QED
      BY <2>1, <3>1
  <2>3. PoolOK(txPool', 2 * inputs' + 1)
    BY <1>1, <2>2 DEF DeviceSound, TypeOK, PoolOK
  <2>4. QED
    BY <1>1, <2>3, TypeAssembled DEF OtherStep, DeviceSound, TypeOK
<1>3. QED
  BY <1>1, <1>2 DEF DeviceSound, NotOwnNeighbour, RelaysStop, IdsAreArrivals

=============================================================================
