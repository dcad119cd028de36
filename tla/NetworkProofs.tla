----------------------------- MODULE NetworkProofs -----------------------------
(****************************************************************************)
(* Theorems about Network, for any packets, links, losses and restarts.     *)
(*                                                                          *)
(* The proof of the network knows a device by what it shows to the others   *)
(* (KnownPools and Shown): what can be in its pool, and how a step changes  *)
(* it. The last sections prove that the three devices do show that: an      *)
(* instance of ProtocolProofs for each, given the packets and frames of the *)
(* network, takes the steps that the device takes in Network.               *)
(****************************************************************************)
EXTENDS Network, SequenceTheorems, FiniteSetTheorems, TLAPS

\* The frames a device can hear.
HeardFrames == {f \in DeviceA!RadioFrame : f.source # BROADCAST}

-----------------------------------------------------------------------------
(* What a device shows of a step.                                           *)

\* The frame stays, but for its time and the bit that handleTx sets.
SameMessage(f, g) ==
    /\ g.self = f.self /\ g.source = f.source /\ g.destination = f.destination
    /\ g.type = f.type /\ g.ackType = f.ackType /\ g.payload = f.payload
    /\ g.id = f.id
    /\ ~f.self /\ f.destination = BROADCAST => g.forward = f.forward

Kept(d, S) ==
    \A n \in S : /\ n \in DOMAIN pool[d] /\ SameMessage(pool[d][n], pool'[d][n])
                 /\ pool'[d][n].numTx = pool[d][n].numTx

\* The application's packet p, with the transmissions it is given.
FromPacket(d, p, f) ==
    /\ f.self /\ f.source = d
    /\ f.destination = p.destination /\ f.type = p.type
    /\ f.ackType = p.ackType /\ f.payload = p.payload
    /\ f.ackType # "NONE" => f.numTx = MAC_TX_RETRANSMISSION_RETRYS

Submits(d, p) ==
    /\ ~air'.sent /\ reported' = {} /\ table'[d] = table[d]
    /\ \E k : /\ k \notin DOMAIN pool[d]
              /\ Kept(d, DOMAIN pool'[d] \ {k})
              /\ k \in DOMAIN pool'[d] => FromPacket(d, p, pool'[d][k])

\* The ACK to the frame f, and the relayed copy of it.
AnswerTo(d, f, g) ==
    /\ f.destination \in {BROADCAST, d} /\ f.type # "ACK" /\ f.ackType # "NONE"
    /\ ~g.self /\ g.id = 0
    /\ g.source = d /\ g.destination = f.source /\ g.type = "ACK"
    /\ g.ackType = "NONE" /\ g.payload = NO_PAYLOAD

CopyOf(d, f, g) ==
    /\ f.forward /\ f.source # d
    /\ f.destination = BROADCAST \/ f.destination \in DOMAIN table'[d]
    /\ ~g.self /\ g.id = 0
    /\ g.source = f.source /\ g.destination = f.destination /\ g.type = f.type
    /\ g.ackType = f.ackType /\ g.payload = f.payload
    /\ \A n \in DOMAIN pool[d] : ~DeviceA!Matches(pool[d][n], f)

\* The frame g waits for the ACK that f is.
SettledBy(d, f, g) ==
    /\ f.destination \in {BROADCAST, d} /\ f.type = "ACK"
    /\ g.destination = f.source /\ g.ackType # "NONE"

Handles(d, f) ==
    /\ ~air'.sent
    /\ DOMAIN table'[d] \subseteq DOMAIN table[d] \cup {f.source}
    /\ \A n \in DOMAIN pool[d] : pool[d][n].id \in reported' => SettledBy(d, f, pool[d][n])
    /\ \E k, l : /\ k \notin DOMAIN pool[d] /\ l \notin DOMAIN pool[d] /\ k # l
                 /\ Kept(d, DOMAIN pool'[d] \ {k, l})
                 /\ k \in DOMAIN pool'[d] => AnswerTo(d, f, pool'[d][k])
                 /\ l \in DOMAIN pool'[d] => CopyOf(d, f, pool'[d][l])

\* The frame n of the pool is sent: it leaves, unless it waits for an ACK.
Sends(d, n) ==
    LET f == pool[d][n]
    IN  /\ n \in DOMAIN pool[d]
        /\ SameMessage(f, air'.frame) /\ air'.frame \in DeviceA!Frame
        /\ Kept(d, DOMAIN pool'[d] \ {n})
        /\ IF (f.self /\ f.type = "TRACKING") \/ f.ackType = "NONE" \/ f.source # d
           THEN n \notin DOMAIN pool'[d]
           ELSE /\ f.numTx # 0
                /\ n \in DOMAIN pool'[d] => /\ SameMessage(f, pool'[d][n])
                                            /\ pool'[d][n].numTx = f.numTx - 1

Polls(d) ==
    /\ reported' = {} /\ table'[d] = table[d]
    /\ IF air'.sent THEN \E n \in DOMAIN pool[d] : Sends(d, n) ELSE Kept(d, DOMAIN pool'[d])

Forgets(d) ==
    /\ ~air'.sent /\ reported' = {}
    /\ DOMAIN pool'[d] = {} /\ DOMAIN table'[d] = {}

\* A pool holds frames; what is not the device's own is not for it either,
\* and is a broadcast only when it is not to be relayed again.
KnownFrame(d, g) ==
    /\ g \in DeviceA!Frame
    /\ ~g.self /\ g.type # "ACK" => d \notin {g.source, g.destination}
    /\ ~g.self /\ g.destination = BROADCAST => ~g.forward

KnownPools == \A d \in Devices : \A n \in DOMAIN pool[d] : KnownFrame(d, pool[d][n])

\* The other devices are as they were.
OthersSame(d) == \A e \in Devices \ {d} : pool'[e] = pool[e] /\ table'[e] = table[e]

\* A step of a device, or of the clock, shows nothing else.
Shown ==
    /\ \A p \in Packets : Send(p) => OthersSame(p.source) /\ Submits(p.source, p)
    /\ \A d \in Devices :
          /\ Receive(d) => OthersSame(d) /\ Handles(d, Head(inbox[d]))
          /\ Transmit(d) => OthersSame(d) /\ Polls(d)
          /\ Restart(d) => OthersSame(d) /\ Forgets(d)
    /\ TimePasses \/ UNCHANGED vars => pool' = pool /\ table' = table
    /\ 0 \notin reported'
    /\ KnownPools'


-----------------------------------------------------------------------------
(* Devices, packets, frames and queues.                                     *)

(* There are three of them. *)
LEMMA ThreeDevices == A # B /\ A # C /\ B # C
<1>1. \A x, y : Cardinality({x, y}) # 3
  <2> SUFFICES ASSUME NEW x, NEW y PROVE Cardinality({x, y}) # 3
    OBVIOUS
  <2>1. IsFiniteSet({x}) /\ Cardinality({x}) = 1
    BY FS_Singleton
  <2>2. Cardinality({x} \cup {y}) \in {1, 2}
    BY <2>1, FS_AddElement
  <2>3. {x, y} = {x} \cup {y}
    OBVIOUS
  <2>4. QED
    BY <2>2, <2>3
<1>2. A = B => Devices = {A, C}
  BY DEF Devices
<1>3. A = C => Devices = {A, B}
  BY DEF Devices
<1>4. B = C => Devices = {A, B}
  BY DEF Devices
<1>5. QED
  BY <1>1, <1>2, <1>3, <1>4, NetworkAssumption

(* Their state under the names that go by device. *)
LEMMA Views ==
    /\ pool[A] = poolA /\ pool[B] = poolB /\ pool[C] = poolC
    /\ pool'[A] = poolA' /\ pool'[B] = poolB' /\ pool'[C] = poolC'
    /\ table[A] = tableA /\ table[B] = tableB /\ table[C] = tableC
    /\ table'[A] = tableA' /\ table'[B] = tableB' /\ table'[C] = tableC'
  BY ThreeDevices DEF pool, table, Devices

LEMMA Addresses == address[A] = A /\ address[B] = B /\ address[C] = C
  BY DEF address, Devices

LEMMA DevicesAreAddresses == Devices \subseteq Address /\ BROADCAST \notin Devices
<1>1. /\ BROADCAST \notin {A, B, C}
  BY DevicesAssumption DEF DeviceA!AddressAssumption, DeviceB!AddressAssumption,
                           DeviceC!AddressAssumption
<1>2. QED
  BY <1>1, NetworkAssumption DEF Devices

LEMMA PacketFacts ==
    ASSUME NEW p \in Packets
    PROVE  /\ p.source \in Devices /\ p.destination \in Address
           /\ p.type \in DeviceA!Types \ {"ACK"} /\ p.ackType \in DeviceA!AckTypes
           /\ p.payload \in Messages
           /\ \A q \in Packets : q.payload = p.payload => q = p
<1>1. p \in DeviceA!AppPacket /\ p.type # "ACK" /\ p.payload # NO_PAYLOAD
  BY DevicesAssumption
<1>2. p.source \in Devices /\ \A q \in Packets : q.payload = p.payload => q = p
  BY NetworkAssumption
<1>3. QED
  BY <1>1, <1>2 DEF DeviceA!AppPacket, Messages

-----------------------------------------------------------------------------
(* The inductive invariant.                                                 *)

\* The frame is the packet p, or a copy of it.
IsOf(f, p) ==
    /\ f.source = p.source /\ f.destination = p.destination
    /\ f.type = p.type /\ f.ackType = p.ackType /\ f.payload = p.payload

\* The frame is an ACK to a packet that came to where the ACK comes from.
IsAnswer(f, log) ==
    /\ f.type = "ACK" /\ f.payload = NO_PAYLOAD
    /\ \E q \in Packets :
          /\ q.ackType # "NONE" /\ q.source = f.destination
          /\ q.destination \in {f.source, BROADCAST}
          /\ <<f.source, q.payload>> \in log

\* No frame is made up: it is a packet of an application, or an answer to one.
Genuine(f, log) == IsAnswer(f, log) \/ \E p \in Packets : IsOf(f, p)

\* In a pool only the packets of its own application are known as its own.
InPlace(d, f, log) ==
    /\ Genuine(f, log)
    /\ f.self => f.source = d /\ f.payload # NO_PAYLOAD
    /\ f.source = d /\ f.payload # NO_PAYLOAD => f.self
    /\ f.id # 0 => f.self

PoolsGenuine ==
    \A d \in Devices : \A n \in DOMAIN pool[d] : InPlace(d, pool[d][n], delivered)

GenuineFrames(log) == {f \in DeviceA!RadioFrame : Genuine(f, log)}
ChannelGenuine == inbox \in [Devices -> Seq(GenuineFrames(delivered))]

NeighboursAreDevices == \A d \in Devices : DOMAIN table[d] \subseteq Devices

\* The variables of the network alone.
DataOK ==
    /\ unsent \subseteq Packets
    /\ restarts \in 0 .. RESTARTS
    /\ delivered \subseteq Devices \X Payload
    /\ confirmed \subseteq Payload
    /\ shots \in [Devices -> [Messages -> Nat]]

Traffic == KnownPools /\ DataOK /\ PoolsGenuine /\ ChannelGenuine /\ NeighboursAreDevices

Queued(d, m) == {n \in DOMAIN pool[d] : pool[d][n].payload = m}

\* Heard and not yet handled, with the bit that asks to be relayed.
FreshIn(queue, m) == {i \in DOMAIN queue : queue[i].payload = m /\ queue[i].forward}
Fresh(d, m) == Cardinality(FreshIn(inbox[d], m))

\* A packet that leaves the pool of its source when it is sent.
SentOnceOnly(p) == p.ackType = "NONE" \/ p.type = "TRACKING"

(* The source of a packet has it in its pool at most once, and has sent it  *)
(* as often as its numTx says.                                              *)
SourceOK(p) ==
    LET s == p.source
        m == p.payload
    IN  /\ p \in unsent => shots[s][m] = 0 /\ Queued(s, m) = {}
        /\ \A k, n \in Queued(s, m) : k = n
        /\ \A n \in Queued(s, m) :
              IF SentOnceOnly(p) THEN shots[s][m] = 0
              ELSE shots[s][m] + pool[s][n].numTx <= MAC_TX_RETRANSMISSION_RETRYS
        /\ shots[s][m] <= IF p.ackType = "NONE" THEN 1 ELSE MAC_TX_RETRANSMISSION_RETRYS

\* A third device, that may relay the packet.
MayRelay(p, d) ==
    d \notin {p.source, p.destination} /\ p.destination \in Devices \cup {BROADCAST}

RelayLoad(d, m) == shots[d][m] + Fresh(d, m) + (IF Queued(d, m) = {} THEN 0 ELSE 1)

(* A third device holds the packet once, and what it has sent, holds and    *)
(* could still relay is no more than the source has sent.                   *)
RelayOK(p, d) ==
    LET m == p.payload
    IN  /\ \A k, n \in Queued(d, m) : k = n
        /\ MayRelay(p, d) => RelayLoad(d, m) <= shots[p.source][m]
        /\ ~MayRelay(p, d) => shots[d][m] = 0 /\ Queued(d, m) = {}

\* What a device sends to itself two relays may send on to each other.
NobodyWritesToItself == \A p \in Packets : p.destination # p.source

SourcesOK == \A p \in Packets : SourceOK(p)
RelaysOK == \A p \in Packets : \A d \in Devices \ {p.source} : RelayOK(p, d)

LEMMA PoolFacts ==
    ASSUME KnownPools, NEW d \in Devices, NEW n \in DOMAIN pool[d]
    PROVE  KnownFrame(d, pool[d][n])
  BY DEF KnownPools

\* A frame that carries a message is of the packet with that message.
LEMMA GenuineMessage ==
    ASSUME NEW f, NEW log, Genuine(f, log), NEW p \in Packets, f.payload = p.payload
    PROVE  IsOf(f, p)
  BY PacketFacts DEF Genuine, IsAnswer, IsOf, Messages

LEMMA GenuineAck ==
    ASSUME NEW f, NEW log, Genuine(f, log), f.type = "ACK"
    PROVE  IsAnswer(f, log)
  BY PacketFacts DEF Genuine, IsOf

\* What was delivered stays so.
LEMMA GenuineStays ==
    ASSUME NEW log, NEW log2, log \subseteq log2, NEW f, Genuine(f, log)
    PROVE  Genuine(f, log2)
  BY DEF Genuine, IsAnswer

LEMMA GenuineSource ==
    ASSUME NEW log, log \subseteq Devices \X Payload, NEW f, Genuine(f, log)
    PROVE  f.source \in Devices
  BY PacketFacts, Zenon DEF Genuine, IsAnswer, IsOf

LEMMA GenuineAreHeard ==
    ASSUME NEW log, log \subseteq Devices \X Payload
    PROVE  GenuineFrames(log) \subseteq HeardFrames
  BY GenuineSource, DevicesAreAddresses DEF GenuineFrames, HeardFrames

LEMMA GenuineCopy ==
    ASSUME NEW log, NEW f, NEW g, Genuine(f, log),
           g.source = f.source, g.destination = f.destination, g.type = f.type,
           g.ackType = f.ackType, g.payload = f.payload
    PROVE  Genuine(g, log)
  BY DEF Genuine, IsAnswer, IsOf

\* The frames that ask to be relayed, when one more is heard
LEMMA FreshFinite ==
    ASSUME NEW S, NEW queue \in Seq(S), NEW m
    PROVE  IsFiniteSet(FreshIn(queue, m)) /\ Cardinality(FreshIn(queue, m)) \in Nat
<1>1. FreshIn(queue, m) \in SUBSET (1 .. Len(queue)) /\ Len(queue) \in Nat
  BY LenProperties DEF FreshIn
<1>2. IsFiniteSet(1 .. Len(queue))
  BY <1>1, FS_Interval
<1>3. IsFiniteSet(FreshIn(queue, m))
  BY <1>1, <1>2, FS_Subset
<1>4. QED
  BY <1>3, FS_CardinalityType

LEMMA FreshAppend ==
    ASSUME NEW S, NEW queue \in Seq(S), NEW x \in S, NEW m
    PROVE  /\ Cardinality(FreshIn(Append(queue, x), m)) <= Cardinality(FreshIn(queue, m)) + 1
           /\ ~(x.payload = m /\ x.forward) =>
                 FreshIn(Append(queue, x), m) = FreshIn(queue, m)
<1> DEFINE longer == Append(queue, x)
           k == Len(queue) + 1
<1>1. /\ Len(queue) \in Nat /\ DOMAIN queue = 1 .. Len(queue)
      /\ DOMAIN longer = 1 .. k
      /\ \A i \in 1 .. Len(queue) : longer[i] = queue[i]
      /\ longer[k] = x
  <2>1. longer \in Seq(S) /\ Len(longer) = Len(queue) + 1
    BY AppendProperties
  <2>2. DOMAIN longer = 1 .. k
    BY <2>1, LenProperties
  <2>3. QED
    BY <2>2, LenProperties, AppendProperties
<1> HIDE DEF longer
<1>2. 1 .. k = (1 .. Len(queue)) \cup {k} /\ k \notin 1 .. Len(queue)
  BY <1>1
<1> HIDE DEF k
<1>3. FreshIn(longer, m) \in SUBSET (FreshIn(queue, m) \cup {k})
  BY <1>1, <1>2 DEF FreshIn
<1>4. /\ IsFiniteSet(FreshIn(queue, m)) /\ Cardinality(FreshIn(queue, m)) \in Nat
  BY FreshFinite
<1>5. /\ IsFiniteSet(FreshIn(queue, m) \cup {k})
      /\ Cardinality(FreshIn(queue, m) \cup {k}) <= Cardinality(FreshIn(queue, m)) + 1
  <2>1. /\ IsFiniteSet(FreshIn(queue, m) \cup {k})
        /\ Cardinality(FreshIn(queue, m) \cup {k}) =
              IF k \in FreshIn(queue, m) THEN Cardinality(FreshIn(queue, m))
                                        ELSE Cardinality(FreshIn(queue, m)) + 1
    BY <1>4, FS_AddElement
  <2>2. QED
    BY <1>4, <2>1
<1>6. /\ IsFiniteSet(FreshIn(longer, m))
      /\ Cardinality(FreshIn(longer, m)) <= Cardinality(FreshIn(queue, m) \cup {k})
  BY <1>3, <1>5, FS_Subset
<1>7. /\ Cardinality(FreshIn(longer, m)) \in Nat
      /\ Cardinality(FreshIn(queue, m) \cup {k}) \in Nat
  BY <1>5, <1>6, FS_CardinalityType
<1>8. Cardinality(FreshIn(longer, m)) <= Cardinality(FreshIn(queue, m)) + 1
  BY <1>4, <1>5, <1>6, <1>7
<1>9. ASSUME ~(x.payload = m /\ x.forward)
      PROVE  FreshIn(longer, m) = FreshIn(queue, m)
  <2>1. k \notin FreshIn(longer, m)
    BY <1>1, <1>9 DEF FreshIn
  <2>2. ASSUME NEW i \in 1 .. Len(queue)
        PROVE  i \in FreshIn(longer, m) <=> i \in FreshIn(queue, m)
    <3>1. i \in DOMAIN longer /\ i \in DOMAIN queue /\ longer[i] = queue[i]
      BY <1>1, <1>2
    <3>2. QED
      BY <3>1, Zenon DEF FreshIn
  <2>3. \A i \in FreshIn(longer, m) : i \in 1 .. Len(queue)
    BY <1>1, <1>2, <2>1 DEF FreshIn
  <2>4. \A i \in FreshIn(queue, m) : i \in 1 .. Len(queue)
    BY <1>1 DEF FreshIn
  <2>5. QED
    BY <2>2, <2>3, <2>4, Zenon
<1>10. QED
  BY <1>8, <1>9 DEF longer

\* and when the first of the queue is handled.
LEMMA FreshTail ==
    ASSUME NEW S, NEW queue \in Seq(S), queue # <<>>, NEW m
    PROVE  Cardinality(FreshIn(Tail(queue), m)) +
              (IF Head(queue).payload = m /\ Head(queue).forward THEN 1 ELSE 0)
                <= Cardinality(FreshIn(queue, m))
<1> DEFINE rest == Tail(queue)
           old == FreshIn(queue, m)
           new == FreshIn(rest, m)
           next == [i \in new |-> i + 1]
<1>1. /\ Len(queue) \in Nat \ {0} /\ DOMAIN queue = 1 .. Len(queue)
      /\ DOMAIN rest = 1 .. (Len(queue) - 1)
      /\ \A i \in 1 .. (Len(queue) - 1) : rest[i] = queue[i + 1]
      /\ Head(queue) = queue[1]
  <2>1. Len(queue) \in Nat \ {0} /\ DOMAIN queue = 1 .. Len(queue)
    BY LenProperties, EmptySeq
  <2>2. /\ rest \in Seq(S) /\ Len(rest) = Len(queue) - 1
        /\ \A i \in 1 .. Len(rest) : rest[i] = queue[i + 1]
    BY HeadTailProperties
  <2>3. DOMAIN rest = 1 .. Len(rest)
    BY <2>2, LenProperties
  <2>4. QED
    BY <2>1, <2>2, <2>3
<1> HIDE DEF rest
<1>2. /\ IsFiniteSet(old) /\ Cardinality(old) \in Nat
  BY FreshFinite
<1>3. /\ IsFiniteSet(old \ {1})
      /\ Cardinality(old \ {1}) = IF 1 \in old THEN Cardinality(old) - 1 ELSE Cardinality(old)
  BY <1>2, FS_RemoveElement
<1>4. (1 \in old) <=> (Head(queue).payload = m /\ Head(queue).forward)
  BY <1>1 DEF FreshIn
<1>5. next \in Injection(new, old \ {1})
  <2>1. \A i \in new : i \in Nat /\ i + 1 \in old \ {1}
    BY <1>1 DEF FreshIn
  <2>2. QED
    BY <2>1 DEF Injection, IsInjective
<1>6. IsFiniteSet(new) /\ Cardinality(new) <= Cardinality(old \ {1})
  BY <1>3, <1>5, FS_Injection
<1>7. Cardinality(new) \in Nat
  BY <1>6, FS_CardinalityType
<1> HIDE DEF old, new
<1>8. Cardinality(new) + (IF 1 \in old THEN 1 ELSE 0) <= Cardinality(old)
  BY <1>2, <1>3, <1>6, <1>7
<1>9. QED
  BY <1>4, <1>8 DEF old, new, rest

-----------------------------------------------------------------------------
(* No frame is made up: no step changes that.                               *)

LEMMA InPlaceStays ==
    ASSUME NEW d, NEW log, NEW log2, log \subseteq log2, NEW f, NEW g,
           InPlace(d, f, log), SameMessage(f, g)
    PROVE  InPlace(d, g, log2)
<1>1. Genuine(f, log2)
  BY GenuineStays DEF InPlace
<1>2. Genuine(g, log2)
  BY <1>1, GenuineCopy DEF SameMessage
<1>3. QED
  BY <1>2 DEF InPlace, SameMessage

(* One device changes its pool, and puts nothing there that is made up. *)
LEMMA PoolsStayGenuine ==
    ASSUME PoolsGenuine, delivered \subseteq delivered', NEW d \in Devices, OthersSame(d),
           \A n \in DOMAIN pool'[d] :
              \/ n \in DOMAIN pool[d] /\ SameMessage(pool[d][n], pool'[d][n])
              \/ InPlace(d, pool'[d][n], delivered')
    PROVE  PoolsGenuine'
<1> SUFFICES ASSUME NEW e \in Devices, NEW n \in DOMAIN pool'[e]
             PROVE  InPlace(e, pool'[e][n], delivered')
  BY DEF PoolsGenuine
<1>1. CASE e # d
  <2>1. n \in DOMAIN pool[e] /\ pool'[e][n] = pool[e][n]
    BY <1>1 DEF OthersSame
  <2>2. SameMessage(pool[e][n], pool'[e][n])
    BY <2>1 DEF SameMessage
  <2>3. QED
    BY <2>1, <2>2, InPlaceStays DEF PoolsGenuine
<1>2. CASE e = d
  <2>1. CASE n \in DOMAIN pool[d] /\ SameMessage(pool[d][n], pool'[d][n])
    <3>1. InPlace(d, pool[d][n], delivered)
      BY <2>1 DEF PoolsGenuine
    <3>2. QED
      BY <1>2, <2>1, <3>1, InPlaceStays
  <2>2. QED
    BY <1>2, <2>1
<1>3. QED
  BY <1>1, <1>2

LEMMA ChannelStaysGenuine ==
    ASSUME ChannelGenuine, delivered \subseteq delivered', NEW S,
           S = GenuineFrames(delivered')
    PROVE  inbox \in [Devices -> Seq(S)]
<1>1. GenuineFrames(delivered) \subseteq S
  BY GenuineStays DEF GenuineFrames
<1>2. \A d \in Devices : inbox[d] \in Seq(S)
  <2> SUFFICES ASSUME NEW d \in Devices PROVE inbox[d] \in Seq(S)
    OBVIOUS
  <2>1. inbox[d] \in Seq(GenuineFrames(delivered))
    BY DEF ChannelGenuine
  <2>2. QED
    BY <1>1, <2>1, SeqMonotonic
<1>3. QED
  BY <1>2 DEF ChannelGenuine

LEMMA SendTraffic ==
    ASSUME Traffic, Shown, NEW p \in Packets, Send(p)
    PROVE  Traffic'
<1> DEFINE d == p.source
<1>1. /\ KnownPools' /\ OthersSame(d) /\ Submits(d, p) /\ d \in Devices
  BY PacketFacts DEF Shown
<1>2. UNCHANGED <<inbox, restarts, delivered, confirmed, shots>> /\ unsent' \subseteq unsent
  BY DEF Send
<1>3. PICK k : /\ Kept(d, DOMAIN pool'[d] \ {k})
               /\ k \in DOMAIN pool'[d] => FromPacket(d, p, pool'[d][k])
  BY <1>1, Zenon DEF Submits
<1>4. k \in DOMAIN pool'[d] => InPlace(d, pool'[d][k], delivered')
  BY <1>1, <1>3, PacketFacts DEF FromPacket, InPlace, Genuine, IsOf, Messages
<1>5. PoolsGenuine'
  <2>1. \A n \in DOMAIN pool'[d] :
              \/ n \in DOMAIN pool[d] /\ SameMessage(pool[d][n], pool'[d][n])
              \/ InPlace(d, pool'[d][n], delivered')
    BY <1>3, <1>4 DEF Kept
  <2> HIDE DEF d
  <2>2. QED
    BY <1>1, <1>2, <2>1, PoolsStayGenuine DEF Traffic
<1>6. NeighboursAreDevices'
  BY <1>1 DEF Traffic, NeighboursAreDevices, OthersSame, Submits
<1>7. DataOK' /\ ChannelGenuine'
  BY <1>2 DEF Traffic, DataOK, ChannelGenuine
<1>8. QED
  BY <1>1, <1>5, <1>6, <1>7 DEF Traffic

\* The first of the frames a device heard.
LEMMA FirstHeard ==
    ASSUME Traffic, NEW d \in Devices, inbox[d] # <<>>
    PROVE  /\ Head(inbox[d]) \in GenuineFrames(delivered)
           /\ Head(inbox[d]) \in HeardFrames
<1>1. inbox[d] \in Seq(GenuineFrames(delivered))
  BY DEF Traffic, ChannelGenuine
<1>2. Head(inbox[d]) \in GenuineFrames(delivered)
  BY <1>1, HeadTailProperties
<1>3. QED
  BY <1>2, GenuineAreHeard DEF Traffic, DataOK

LEMMA ReceiveTraffic ==
    ASSUME Traffic, Shown, NEW d \in Devices, Receive(d)
    PROVE  Traffic'
<1> DEFINE f == Head(inbox[d])
<1>1. inbox[d] # <<>> /\ f \in GenuineFrames(delivered) /\ f \in HeardFrames
  BY FirstHeard DEF Receive
<1>2. KnownPools' /\ OthersSame(d) /\ Handles(d, f)
  BY <1>1 DEF Shown
<1>3. /\ delivered' = IF f.destination \in {d, BROADCAST}
                      THEN delivered \cup {<<d, f.payload>>} ELSE delivered
      /\ inbox' = [inbox EXCEPT ![d] = Tail(@)]
      /\ confirmed' = confirmed \cup
            {pool[d][n].payload : n \in {m \in DOMAIN pool[d] : pool[d][m].id \in reported'}}
      /\ UNCHANGED <<unsent, restarts, shots>>
  BY DEF Receive
<1> HIDE DEF f
<1>4. Genuine(f, delivered) /\ f.payload \in Payload /\ f.source \in Devices
  <2>1. Genuine(f, delivered) /\ f.payload \in Payload
    BY <1>1 DEF GenuineFrames, DeviceA!RadioFrame
  <2>2. QED
    BY <2>1, GenuineSource DEF Traffic, DataOK
<1>5. delivered \subseteq delivered'
  BY <1>3
<1>6. PICK k, l : /\ Kept(d, DOMAIN pool'[d] \ {k, l})
                  /\ k \in DOMAIN pool'[d] => AnswerTo(d, f, pool'[d][k])
                  /\ l \in DOMAIN pool'[d] => CopyOf(d, f, pool'[d][l])
  BY <1>2, Zenon DEF Handles
<1>7. ASSUME NEW g, AnswerTo(d, f, g)
      PROVE  InPlace(d, g, delivered')
  <2>1. PICK q \in Packets : IsOf(f, q)
    BY <1>4, <1>7 DEF Genuine, IsAnswer, AnswerTo
  <2>2. <<d, q.payload>> \in delivered'
    BY <1>3, <1>7, <2>1 DEF AnswerTo, IsOf
  <2>3. IsAnswer(g, delivered')
    BY <1>7, <2>1, <2>2 DEF AnswerTo, IsAnswer, IsOf
  <2>4. QED
    BY <1>7, <2>3 DEF InPlace, Genuine, AnswerTo
<1>8. ASSUME NEW g, CopyOf(d, f, g)
      PROVE  InPlace(d, g, delivered')
  <2>1. Genuine(f, delivered')
    BY <1>4, <1>5, GenuineStays
  <2>2. Genuine(g, delivered')
    BY <1>8, <2>1, GenuineCopy DEF CopyOf
  <2>3. QED
    BY <1>8, <2>2 DEF InPlace, CopyOf
<1>9. PoolsGenuine'
  <2>1. \A n \in DOMAIN pool'[d] :
              \/ n \in DOMAIN pool[d] /\ SameMessage(pool[d][n], pool'[d][n])
              \/ InPlace(d, pool'[d][n], delivered')
    BY <1>6, <1>7, <1>8 DEF Kept
  <2>2. QED
    BY <1>2, <1>5, <2>1, PoolsStayGenuine DEF Traffic
<1>10. NeighboursAreDevices'
  BY <1>2, <1>4 DEF Traffic, NeighboursAreDevices, OthersSame, Handles
<1>11. ChannelGenuine'
  <2> DEFINE S == GenuineFrames(delivered')
  <2>1. inbox \in [Devices -> Seq(S)]
    BY <1>5, ChannelStaysGenuine DEF Traffic
  <2> HIDE DEF S
  <2>2. Tail(inbox[d]) \in Seq(S)
    BY <1>1, <2>1, HeadTailProperties
  <2>3. inbox' \in [Devices -> Seq(S)]
    BY <1>3, <2>1, <2>2
  <2>4. QED
    BY <2>3 DEF ChannelGenuine, S
<1>12. DataOK'
  <2>1. \A n \in DOMAIN pool[d] : pool[d][n].payload \in Payload
    BY PoolFacts DEF KnownFrame, Traffic, DeviceA!Frame
  <2>2. QED
    BY <1>3, <1>4, <2>1 DEF Traffic, DataOK
<1>13. QED
  BY <1>2, <1>9, <1>10, <1>11, <1>12 DEF Traffic

\* The frame that is sent is one of the pool.
LEMMA SentIsGenuine ==
    ASSUME Traffic, NEW d \in Devices, NEW n, Sends(d, n)
    PROVE  /\ Genuine(air'.frame, delivered)
           /\ air'.frame \in DeviceA!Frame
           /\ OnAir(air'.frame) \in GenuineFrames(delivered)
<1> DEFINE f == air'.frame
<1>1. n \in DOMAIN pool[d] /\ SameMessage(pool[d][n], f) /\ f \in DeviceA!Frame
  BY DEF Sends
<1> HIDE DEF f
<1>2. InPlace(d, pool[d][n], delivered)
  BY <1>1 DEF Traffic, PoolsGenuine
<1>3. Genuine(f, delivered)
  BY <1>1, <1>2, GenuineCopy DEF InPlace, SameMessage
<1>4. OnAir(f) \in DeviceA!RadioFrame
  BY <1>1 DEF OnAir, DeviceA!Frame, DeviceA!RadioFrame
<1>5. Genuine(OnAir(f), delivered)
  BY <1>3, GenuineCopy DEF OnAir
<1>6. QED
  BY <1>1, <1>3, <1>4, <1>5 DEF GenuineFrames, f

LEMMA TransmitTraffic ==
    ASSUME Traffic, Shown, NEW d \in Devices, Transmit(d)
    PROVE  Traffic'
<1>1. KnownPools' /\ OthersSame(d) /\ Polls(d)
  BY DEF Shown
<1>2. /\ UNCHANGED <<unsent, restarts, delivered, confirmed>>
      /\ air'.sent => /\ Heard(d, air'.frame)
                      /\ shots' = IF air'.frame.payload = NO_PAYLOAD THEN shots
                                  ELSE [shots EXCEPT ![d][air'.frame.payload] = @ + 1]
      /\ ~air'.sent => UNCHANGED <<inbox, shots>>
  BY DEF Transmit
<1>3. NeighboursAreDevices'
  BY <1>1 DEF Traffic, NeighboursAreDevices, OthersSame, Polls
<1>4. CASE ~air'.sent
  <2>1. Kept(d, DOMAIN pool'[d])
    BY <1>1, <1>4 DEF Polls
  <2>2. \A n \in DOMAIN pool'[d] : n \in DOMAIN pool[d] /\ SameMessage(pool[d][n], pool'[d][n])
    BY <2>1 DEF Kept
  <2>3. PoolsGenuine'
    BY <1>1, <1>2, <2>2, PoolsStayGenuine DEF Traffic
  <2>4. DataOK' /\ ChannelGenuine'
    BY <1>2, <1>4 DEF Traffic, DataOK, ChannelGenuine
  <2>5. QED
    BY <1>1, <1>3, <2>3, <2>4 DEF Traffic
<1>5. CASE air'.sent
  <2>1. PICK n \in DOMAIN pool[d] : Sends(d, n)
    BY <1>1, <1>5 DEF Polls
  <2> DEFINE f == air'.frame
  <2>2. /\ f \in DeviceA!Frame /\ OnAir(f) \in GenuineFrames(delivered)
    BY <2>1, SentIsGenuine
  <2>3. Heard(d, f)
    BY <1>2, <1>5
  <2>4. shots' = IF f.payload = NO_PAYLOAD THEN shots
                 ELSE [shots EXCEPT ![d][f.payload] = @ + 1]
    BY <1>2, <1>5
  <2> HIDE DEF f
  <2>5. \A m \in DOMAIN pool'[d] : m \in DOMAIN pool[d] /\ SameMessage(pool[d][m], pool'[d][m])
    BY <2>1 DEF Sends, Kept
  <2>6. PoolsGenuine'
    BY <1>1, <1>2, <2>5, PoolsStayGenuine DEF Traffic
  <2>7. ChannelGenuine'
    <3> DEFINE S == GenuineFrames(delivered)
    <3>1. inbox \in [Devices -> Seq(S)] /\ OnAir(f) \in S
      BY <2>2 DEF Traffic, ChannelGenuine
    <3> HIDE DEF S
    <3>2. \A e \in Devices : Append(inbox[e], OnAir(f)) \in Seq(S)
      BY <3>1, AppendProperties
    <3>3. inbox' \in [Devices -> Seq(S)]
      BY <2>3, <3>1, <3>2 DEF Heard
    <3>4. QED
      BY <1>2, <3>3 DEF ChannelGenuine, S
  <2>8. shots' \in [Devices -> [Messages -> Nat]]
    <3>1. f.payload # NO_PAYLOAD => f.payload \in Messages
      BY <2>2 DEF DeviceA!Frame, Messages
    <3>2. QED
      BY <2>4, <3>1 DEF Traffic, DataOK
  <2>9. DataOK'
    BY <1>2, <2>8 DEF Traffic, DataOK
  <2>10. QED
    BY <1>1, <1>3, <2>6, <2>7, <2>9 DEF Traffic
<1>6. QED
  BY <1>4, <1>5

LEMMA RestartTraffic ==
    ASSUME Traffic, Shown, NEW d \in Devices, Restart(d)
    PROVE  Traffic'
<1>1. KnownPools' /\ OthersSame(d) /\ Forgets(d)
  BY DEF Shown
<1>2. /\ UNCHANGED <<inbox, unsent, delivered, confirmed, shots>>
      /\ restarts < RESTARTS /\ restarts' = restarts + 1
  BY DEF Restart
<1>3. PoolsGenuine'
  BY <1>1, <1>2, PoolsStayGenuine DEF Traffic, Forgets
<1>4. NeighboursAreDevices'
  BY <1>1 DEF Traffic, NeighboursAreDevices, OthersSame, Forgets
<1>5. DataOK' /\ ChannelGenuine'
  BY <1>2, NetworkAssumption DEF Traffic, DataOK, ChannelGenuine
<1>6. QED
  BY <1>1, <1>3, <1>4, <1>5 DEF Traffic

LEMMA QuietTraffic ==
    ASSUME Traffic, Shown, TimePasses \/ UNCHANGED vars
    PROVE  Traffic'
<1>1. KnownPools' /\ pool' = pool /\ table' = table
  BY DEF Shown
<1>2. UNCHANGED <<inbox, unsent, restarts, delivered, confirmed, shots>>
  BY DEF TimePasses, vars
<1>3. PoolsGenuine' /\ NeighboursAreDevices' /\ DataOK' /\ ChannelGenuine'
  BY <1>1, <1>2 DEF Traffic, PoolsGenuine, NeighboursAreDevices, DataOK, ChannelGenuine
<1>4. QED
  BY <1>1, <1>3 DEF Traffic

LEMMA TrafficPreserved ==
    ASSUME Traffic, Shown, [Next]_vars
    PROVE  Traffic'
  BY SendTraffic, ReceiveTraffic, TransmitTraffic, RestartTraffic, QuietTraffic DEF Next

-----------------------------------------------------------------------------
(* An ACK that is reported.                                                 *)

\* Only a device's own frames are settled, by ACKs that nobody made up.
LEMMA ReportedFrame ==
    ASSUME Traffic, Shown, NEW d \in Devices, Receive(d),
           NEW n \in DOMAIN pool[d], pool[d][n].id \in reported',
           NEW p \in Packets, Alone(p), pool[d][n].payload = p.payload
    PROVE  Delivered(p)
<1> DEFINE f == Head(inbox[d])
           g == pool[d][n]
<1>1. f \in GenuineFrames(delivered) /\ f \in HeardFrames
  BY FirstHeard DEF Receive
<1>2. KnownPools' /\ Handles(d, f)
  BY <1>1 DEF Shown
<1> HIDE DEF f
<1>3. g.id # 0
  BY DEF Shown
<1>4. InPlace(d, g, delivered)
  BY DEF Traffic, PoolsGenuine
<1> HIDE DEF g
<1>5. g.payload = p.payload
  BY DEF g
<1>6. SettledBy(d, f, g)
  BY <1>2 DEF Handles, g
<1>7. g.source = d /\ IsOf(g, p)
  BY <1>3, <1>4, <1>5, GenuineMessage DEF InPlace
<1>8. IsAnswer(f, delivered)
  BY <1>1, <1>6, GenuineAck DEF GenuineFrames, SettledBy
<1>9. PICK q \in Packets :
          /\ q.ackType # "NONE" /\ q.source = f.destination
          /\ q.destination \in {f.source, BROADCAST}
          /\ <<f.source, q.payload>> \in delivered
  BY <1>8, Zenon DEF IsAnswer
<1>10. q.source = p.source /\ q.destination \in {p.destination, BROADCAST}
       /\ p.destination = f.source
  BY <1>6, <1>7, <1>9, PacketFacts, DevicesAreAddresses DEF SettledBy, IsOf
<1>11. q = p
  BY <1>9, <1>10 DEF Alone
<1>12. QED
  BY <1>9, <1>10, <1>11 DEF Delivered

LEMMA ConfirmedPreserved ==
    ASSUME Traffic, Shown, ConfirmedWasDelivered, [Next]_vars
    PROVE  ConfirmedWasDelivered'
<1> SUFFICES ASSUME NEW p \in Packets, Alone(p), p.payload \in confirmed'
             PROVE  Delivered(p)'
  BY DEF ConfirmedWasDelivered, Alone
<1>1. CASE UNCHANGED <<delivered, confirmed>>
  BY <1>1 DEF ConfirmedWasDelivered, Delivered
<1>2. CASE \E d \in Devices : Receive(d)
  <2>1. PICK d \in Devices : Receive(d)
    BY <1>2
  <2>2. /\ delivered \subseteq delivered'
        /\ confirmed' = confirmed \cup
              {pool[d][n].payload : n \in {m \in DOMAIN pool[d] : pool[d][m].id \in reported'}}
    BY <2>1 DEF Receive
  <2>3. CASE p.payload \in confirmed
    BY <2>2, <2>3 DEF ConfirmedWasDelivered, Delivered
  <2>4. CASE p.payload \notin confirmed
    <3>1. PICK n \in DOMAIN pool[d] : pool[d][n].id \in reported' /\ pool[d][n].payload = p.payload
      BY <2>2, <2>4
    <3>2. Delivered(p)
      BY <2>1, <3>1, ReportedFrame
    <3>3. QED
      BY <2>2, <3>2 DEF Delivered
  <2>5. QED
    BY <2>3, <2>4
<1>3. QED
  BY <1>1, <1>2, Zenon DEF Next, Send, Transmit, Restart, TimePasses, vars

-----------------------------------------------------------------------------
(* The source of a packet.                                                  *)

\* A frame of a pool with the message of a packet is that packet.
LEMMA QueuedIsOf ==
    ASSUME Traffic, NEW p \in Packets, NEW d \in Devices, NEW n \in Queued(d, p.payload)
    PROVE  /\ n \in DOMAIN pool[d] /\ IsOf(pool[d][n], p)
           /\ pool[d][n].self <=> d = p.source
<1>1. n \in DOMAIN pool[d] /\ pool[d][n].payload = p.payload
  BY DEF Queued
<1>2. InPlace(d, pool[d][n], delivered)
  BY <1>1 DEF Traffic, PoolsGenuine
<1>3. IsOf(pool[d][n], p)
  BY <1>1, <1>2, GenuineMessage DEF InPlace
<1>4. QED
  BY <1>1, <1>2, <1>3, PacketFacts DEF InPlace, IsOf, Messages

\* Nothing that carries the message m comes to the pool of d, and what stays
\* keeps its numTx.
NothingNew(d, m) ==
    \A n \in DOMAIN pool'[d] : pool'[d][n].payload = m =>
        /\ n \in DOMAIN pool[d] /\ pool[d][n].payload = m
        /\ pool'[d][n].numTx = pool[d][n].numTx

LEMMA NothingNewQueued ==
    ASSUME NEW d \in Devices, NEW m, NothingNew(d, m)
    PROVE  /\ Queued(d, m)' \subseteq Queued(d, m)
           /\ \A n \in Queued(d, m)' : pool'[d][n].numTx = pool[d][n].numTx
  BY DEF NothingNew, Queued

\* Which steps bring nothing new: those of other devices,
LEMMA OthersBringNothing ==
    ASSUME NEW d, OthersSame(d), NEW e \in Devices \ {d}, NEW m
    PROVE  NothingNew(e, m)
  BY DEF OthersSame, NothingNew

\* other packets of the application,
LEMMA SendBringsNothing ==
    ASSUME Traffic, Shown, NEW p \in Packets, NEW q \in Packets \ {p}, Send(q), NEW d \in Devices
    PROVE  NothingNew(d, p.payload)
<1> DEFINE m == p.payload
<1>1. OthersSame(q.source) /\ Submits(q.source, q)
  BY DEF Shown
<1>2. q.payload # m
  BY PacketFacts
<1>3. CASE d # q.source
  BY <1>1, <1>3, OthersBringNothing
<1>4. CASE d = q.source
  <2>1. PICK k : /\ Kept(d, DOMAIN pool'[d] \ {k})
                 /\ k \in DOMAIN pool'[d] => FromPacket(d, q, pool'[d][k])
    BY <1>1, <1>4, Zenon DEF Submits
  <2> HIDE DEF m
  <2>2. NothingNew(d, m)
    BY <1>2, <2>1 DEF NothingNew, Kept, SameMessage, FromPacket
  <2>3. QED
    BY <2>2 DEF m
<1>5. QED
  BY <1>3, <1>4

\* a frame that is handled, unless the device relays a copy of it,
LEMMA ReceiveBringsCopy ==
    ASSUME Traffic, Shown, NEW p \in Packets, NEW d \in Devices, Receive(d)
    PROVE  \/ NothingNew(d, p.payload)
           \/ /\ Head(inbox[d]).payload = p.payload /\ Head(inbox[d]).forward
              /\ d # p.source /\ Queued(d, p.payload) = {}
              /\ p.destination = BROADCAST \/ p.destination \in DOMAIN table'[d]
              /\ \E l : Queued(d, p.payload)' \subseteq {l}
<1> DEFINE f == Head(inbox[d])
           m == p.payload
<1>1. f \in GenuineFrames(delivered) /\ f \in HeardFrames
  BY FirstHeard DEF Receive
<1>2. Handles(d, f)
  BY <1>1 DEF Shown
<1>3. m # NO_PAYLOAD
  BY PacketFacts DEF Messages
<1> HIDE DEF f
<1>4. PICK k, l : /\ Kept(d, DOMAIN pool'[d] \ {k, l})
                  /\ k \in DOMAIN pool'[d] => AnswerTo(d, f, pool'[d][k])
                  /\ l \in DOMAIN pool'[d] => CopyOf(d, f, pool'[d][l])
  BY <1>2, Zenon DEF Handles
<1>5. CASE l \in DOMAIN pool'[d] /\ pool'[d][l].payload = m
  <2>1. CopyOf(d, f, pool'[d][l]) /\ f.payload = m
    BY <1>4, <1>5 DEF CopyOf
  <2>2. IsOf(f, p)
    BY <1>1, <2>1, GenuineMessage DEF GenuineFrames
  <2>3. Queued(d, m) = {}
    <3> SUFFICES ASSUME NEW n \in Queued(d, m) PROVE FALSE
      OBVIOUS
    <3>1. n \in DOMAIN pool[d] /\ IsOf(pool[d][n], p)
      BY QueuedIsOf
    <3>2. DeviceA!Matches(pool[d][n], f)
      BY <2>2, <3>1 DEF IsOf, DeviceA!Matches, DeviceA!HasExtendedHeader
    <3>3. QED
      BY <2>1, <3>1, <3>2 DEF CopyOf
  <2>4. Queued(d, m)' \subseteq {l}
    BY <1>3, <1>4, <2>3 DEF Queued, Kept, SameMessage, AnswerTo
  <2>5. f.forward /\ d # p.source /\ (p.destination = BROADCAST \/ p.destination \in DOMAIN table'[d])
    BY <2>1, <2>2 DEF CopyOf, IsOf
  <2>6. QED
    BY <2>1, <2>3, <2>4, <2>5 DEF f
<1>6. CASE ~(l \in DOMAIN pool'[d] /\ pool'[d][l].payload = m)
  <2>1. NothingNew(d, m)
    BY <1>3, <1>4, <1>6 DEF NothingNew, Kept, SameMessage, AnswerTo
  <2>2. QED
    BY <2>1
<1>7. QED
  BY <1>5, <1>6

\* and a poll, unless that frame is sent.
LEMMA PollBringsNothing ==
    ASSUME Traffic, Shown, NEW d \in Devices, Transmit(d), NEW m,
           ~air'.sent \/ air'.frame.payload # m
    PROVE  NothingNew(d, m)
<1>1. Polls(d)
  BY DEF Shown
<1>2. CASE ~air'.sent
  BY <1>1, <1>2 DEF Polls, Kept, NothingNew, SameMessage
<1>3. CASE air'.sent
  <2>1. PICK n \in DOMAIN pool[d] : Sends(d, n)
    BY <1>1, <1>3 DEF Polls
  <2>2. pool[d][n].payload # m
    BY <1>3, <2>1 DEF Sends, SameMessage
  <2>3. n \in DOMAIN pool'[d] => pool'[d][n].payload # m
    BY <2>1, <2>2 DEF Sends, SameMessage
  <2>4. QED
    BY <2>1, <2>3 DEF Sends, Kept, NothingNew, SameMessage
<1>4. QED
  BY <1>2, <1>3

\* What is sent with the message of a packet is in the pool of the sender, and
\* stays there only when it waits for an ACK.
LEMMA PollSends ==
    ASSUME Traffic, Shown, NEW p \in Packets, NEW d \in Devices, Transmit(d),
           air'.sent, air'.frame.payload = p.payload,
           \A k, n \in Queued(d, p.payload) : k = n
    PROVE  \E n \in Queued(d, p.payload) :
              /\ SameMessage(pool[d][n], air'.frame)
              /\ Queued(d, p.payload)' \subseteq {n}
              /\ IF d # p.source \/ SentOnceOnly(p) THEN Queued(d, p.payload)' = {}
                 ELSE /\ pool[d][n].numTx # 0
                      /\ n \in DOMAIN pool'[d] => pool'[d][n].numTx = pool[d][n].numTx - 1
<1> DEFINE m == p.payload
<1>1. PICK n \in DOMAIN pool[d] : Sends(d, n)
  BY DEF Shown, Polls
<1>2. n \in Queued(d, m) /\ SameMessage(pool[d][n], air'.frame)
  BY <1>1 DEF Queued, Sends, SameMessage
<1>3. IsOf(pool[d][n], p) /\ (pool[d][n].self <=> d = p.source)
  BY <1>2, QueuedIsOf
<1>4. Queued(d, m)' \subseteq {n}
  BY <1>1, <1>2 DEF Queued, Sends, Kept, SameMessage
<1>5. CASE d # p.source \/ SentOnceOnly(p)
  <2>1. (pool[d][n].self /\ pool[d][n].type = "TRACKING") \/ pool[d][n].ackType = "NONE"
           \/ pool[d][n].source # d
    BY <1>3, <1>5 DEF IsOf, SentOnceOnly
  <2>2. n \notin DOMAIN pool'[d]
    BY <1>1, <2>1 DEF Sends
  <2>3. Queued(d, m)' = {}
    BY <1>4, <2>2 DEF Queued
  <2>4. QED
    BY <1>2, <1>5, <2>3
<1>6. CASE ~(d # p.source \/ SentOnceOnly(p))
  <2>1. ~((pool[d][n].self /\ pool[d][n].type = "TRACKING") \/ pool[d][n].ackType = "NONE"
           \/ pool[d][n].source # d)
    BY <1>3, <1>6 DEF IsOf, SentOnceOnly
  <2>2. /\ pool[d][n].numTx # 0
        /\ n \in DOMAIN pool'[d] => pool'[d][n].numTx = pool[d][n].numTx - 1
    BY <1>1, <2>1 DEF Sends
  <2>3. QED
    BY <1>2, <1>4, <1>6, <2>2
<1>7. QED
  BY <1>5, <1>6

\* How often a device sent a message, after a poll.
LEMMA PollShots ==
    ASSUME Traffic, Shown, NEW d \in Devices, Transmit(d), NEW e \in Devices, NEW m \in Messages
    PROVE  shots'[e][m] = IF e = d /\ air'.sent /\ air'.frame.payload = m
                          THEN shots[e][m] + 1 ELSE shots[e][m]
<1>1. shots \in [Devices -> [Messages -> Nat]] /\ NO_PAYLOAD \notin Messages
  BY Zenon DEF Traffic, DataOK, Messages
<1>2. CASE ~air'.sent
  BY <1>2 DEF Transmit
<1>3. CASE air'.sent
  <2> DEFINE k == air'.frame.payload
  <2>1. shots' = IF k = NO_PAYLOAD THEN shots ELSE [shots EXCEPT ![d][k] = @ + 1]
    BY <1>3 DEF Transmit
  <2>2. k # NO_PAYLOAD => k \in Messages
    <3>1. PICK n \in DOMAIN pool[d] : Sends(d, n)
      BY <1>3 DEF Shown, Polls
    <3>2. air'.frame \in DeviceA!Frame
      BY <3>1, SentIsGenuine
    <3>3. QED
      BY <3>2 DEF DeviceA!Frame, Messages
  <2> HIDE DEF k
  <2>3. CASE k = NO_PAYLOAD
    BY <1>1, <2>1, <2>3 DEF k
  <2>4. CASE k # NO_PAYLOAD
    <3>1. k \in Messages /\ shots' = [shots EXCEPT ![d][k] = @ + 1]
      BY <2>1, <2>2, <2>4
    <3>2. shots'[e][m] = IF e = d /\ k = m THEN shots[e][m] + 1 ELSE shots[e][m]
      BY <1>1, <3>1
    <3>3. QED
      BY <1>3, <3>2 DEF k
  <2>5. QED
    BY <2>3, <2>4
<1>4. QED
  BY <1>2, <1>3

LEMMA SourceStays ==
    ASSUME NEW p \in Packets, SourceOK(p), NothingNew(p.source, p.payload),
           shots'[p.source][p.payload] = shots[p.source][p.payload], unsent' \subseteq unsent
    PROVE  SourceOK(p)'
<1>1. /\ Queued(p.source, p.payload)' \subseteq Queued(p.source, p.payload)
      /\ \A n \in Queued(p.source, p.payload)' : pool'[p.source][n].numTx = pool[p.source][n].numTx
  BY PacketFacts, NothingNewQueued
<1>2. QED
  BY <1>1 DEF SourceOK, SentOnceOnly

LEMMA SourceSends ==
    ASSUME Traffic, Shown, NEW p \in Packets, SourceOK(p), Send(p)
    PROVE  SourceOK(p)'
<1> DEFINE s == p.source
           m == p.payload
<1>1. Submits(s, p)
  BY DEF Shown
<1>2. p \in unsent /\ unsent' = unsent \ {p} /\ shots' = shots
  BY DEF Send
<1>3. shots[s][m] = 0 /\ Queued(s, m) = {}
  BY <1>2 DEF SourceOK
<1>4. PICK k : /\ Kept(s, DOMAIN pool'[s] \ {k})
               /\ k \in DOMAIN pool'[s] => FromPacket(s, p, pool'[s][k])
  BY <1>1, Zenon DEF Submits
<1>5. Queued(s, m)' \subseteq {k}
  BY <1>3, <1>4 DEF Queued, Kept, SameMessage
<1>6. \A n \in Queued(s, m)' :
          p.ackType # "NONE" => pool'[s][n].numTx = MAC_TX_RETRANSMISSION_RETRYS
  BY <1>4, <1>5 DEF Queued, FromPacket
<1>7. MAC_TX_RETRANSMISSION_RETRYS \in Nat
  BY DevicesAssumption DEF DeviceA!TimingAssumption
<1>8. QED
  BY <1>2, <1>3, <1>5, <1>6, <1>7 DEF SourceOK, SentOnceOnly

LEMMA SourceTransmits ==
    ASSUME Traffic, Shown, NEW p \in Packets, SourceOK(p), Transmit(p.source),
           air'.sent, air'.frame.payload = p.payload
    PROVE  SourceOK(p)'
<1> DEFINE s == p.source
           m == p.payload
<1>1. s \in Devices /\ m \in Messages
  BY PacketFacts
<1>2. PICK n \in Queued(s, m) :
          /\ Queued(s, m)' \subseteq {n}
          /\ IF SentOnceOnly(p) THEN Queued(s, m)' = {}
             ELSE /\ pool[s][n].numTx # 0
                  /\ n \in DOMAIN pool'[s] => pool'[s][n].numTx = pool[s][n].numTx - 1
  BY <1>1, PollSends DEF SourceOK
<1>3. shots'[s][m] = shots[s][m] + 1 /\ shots[s][m] \in Nat
  BY <1>1, PollShots DEF Traffic, DataOK
<1>4. p \notin unsent'
  BY <1>2 DEF SourceOK, Transmit
<1>5. pool[s][n].numTx \in Nat
  BY <1>1, PoolFacts DEF KnownFrame, Traffic, DeviceA!Frame, Queued
<1>6. MAC_TX_RETRANSMISSION_RETRYS \in Nat \ {0}
  BY DevicesAssumption DEF DeviceA!TimingAssumption
<1>7. CASE SentOnceOnly(p)
  <2>1. shots[s][m] = 0 /\ Queued(s, m)' = {}
    BY <1>2, <1>7 DEF SourceOK
  <2>2. shots'[s][m] = 1
    BY <1>3, <2>1
  <2>3. QED
    BY <1>4, <1>6, <2>1, <2>2 DEF SourceOK, SentOnceOnly
<1>8. CASE ~SentOnceOnly(p)
  <2>1. shots[s][m] + pool[s][n].numTx <= MAC_TX_RETRANSMISSION_RETRYS /\ p.ackType # "NONE"
    BY <1>2, <1>8 DEF SourceOK, SentOnceOnly
  <2>2. shots'[s][m] <= MAC_TX_RETRANSMISSION_RETRYS
    BY <1>2, <1>3, <1>5, <1>6, <1>8, <2>1
  <2>3. \A k \in Queued(s, m)' :
            k = n /\ shots'[s][m] + pool'[s][k].numTx <= MAC_TX_RETRANSMISSION_RETRYS
    <3>1. \A k \in Queued(s, m)' : k = n /\ pool'[s][k].numTx = pool[s][n].numTx - 1
      BY <1>2, <1>8 DEF Queued
    <3>2. shots'[s][m] + (pool[s][n].numTx - 1) <= MAC_TX_RETRANSMISSION_RETRYS
      BY <1>3, <1>5, <1>6, <2>1
    <3>3. QED
      BY <3>1, <3>2
  <2>4. QED
    BY <1>4, <1>8, <2>1, <2>2, <2>3 DEF SourceOK, SentOnceOnly
<1>9. QED
  BY <1>7, <1>8

LEMMA SourcesPreserved ==
    ASSUME Traffic, Shown, SourcesOK, [Next]_vars
    PROVE  SourcesOK'
<1> SUFFICES ASSUME NEW p \in Packets
             PROVE  SourceOK(p)'
  BY DEF SourcesOK
<1> DEFINE s == p.source
           m == p.payload
<1>1. SourceOK(p) /\ s \in Devices /\ m \in Messages
  BY PacketFacts DEF SourcesOK
<1>2. ASSUME NEW q \in Packets, Send(q)
      PROVE  SourceOK(p)'
  <2>1. CASE q = p
    BY <1>1, <1>2, <2>1, SourceSends
  <2>2. CASE q # p
    <3>1. NothingNew(s, m)
      BY <1>1, <1>2, <2>2, SendBringsNothing
    <3>2. shots' = shots /\ unsent' \subseteq unsent
      BY <1>2 DEF Send
    <3>3. QED
      BY <1>1, <3>1, <3>2, SourceStays
  <2>3. QED
    BY <2>1, <2>2
<1>3. ASSUME NEW d \in Devices, Receive(d)
      PROVE  SourceOK(p)'
  <2>1. NothingNew(s, m)
    <3>1. CASE d = s
      BY <1>3, <3>1, ReceiveBringsCopy
    <3>2. CASE d # s
      <4>1. OthersSame(d)
        BY <1>3, FirstHeard, Zenon DEF Shown, Receive
      <4>2. QED
        BY <1>1, <3>2, <4>1, OthersBringNothing
    <3>3. QED
      BY <3>1, <3>2
  <2>2. shots' = shots /\ unsent' \subseteq unsent
    BY <1>3 DEF Receive
  <2>3. QED
    BY <1>1, <2>1, <2>2, SourceStays
<1>4. ASSUME NEW d \in Devices, Transmit(d)
      PROVE  SourceOK(p)'
  <2>1. CASE d = s /\ air'.sent /\ air'.frame.payload = m
    BY <1>1, <1>4, <2>1, SourceTransmits
  <2>2. CASE ~(d = s /\ air'.sent /\ air'.frame.payload = m)
    <3>1. NothingNew(s, m)
      <4>1. CASE d = s
        BY <1>4, <2>2, <4>1, PollBringsNothing
      <4>2. CASE d # s
        <5>1. OthersSame(d)
          BY <1>4 DEF Shown
        <5>2. QED
          BY <1>1, <4>2, <5>1, OthersBringNothing
      <4>3. QED
        BY <4>1, <4>2
    <3>2. shots'[s][m] = shots[s][m]
      BY <1>1, <1>4, <2>2, PollShots
    <3>3. unsent' \subseteq unsent
      BY <1>4 DEF Transmit
    <3>4. QED
      BY <1>1, <3>1, <3>2, <3>3, SourceStays
  <2>3. QED
    BY <2>1, <2>2
<1>5. ASSUME NEW d \in Devices, Restart(d)
      PROVE  SourceOK(p)'
  <2>1. OthersSame(d) /\ Forgets(d)
    BY <1>5 DEF Shown
  <2>2. NothingNew(s, m)
    BY <1>1, <2>1, OthersBringNothing DEF Forgets, NothingNew
  <2>3. shots' = shots /\ unsent' \subseteq unsent
    BY <1>5 DEF Restart
  <2>4. QED
    BY <1>1, <2>2, <2>3, SourceStays
<1>6. ASSUME TimePasses \/ UNCHANGED vars
      PROVE  SourceOK(p)'
  <2>1. NothingNew(s, m)
    BY <1>6 DEF Shown, NothingNew
  <2>2. shots' = shots /\ unsent' \subseteq unsent
    BY <1>6 DEF TimePasses, vars
  <2>3. QED
    BY <1>1, <2>1, <2>2, SourceStays
<1>7. QED
  BY <1>2, <1>3, <1>4, <1>5, <1>6 DEF Next

-----------------------------------------------------------------------------
(* The relays.                                                              *)

\* How many frames there are to relay; and the receiver of a packet has none.
FreshCounted == \A d \in Devices : \A m \in Messages : Fresh(d, m) \in Nat
ReceiversRelayNothing ==
    \A p \in Packets : \A d \in Devices \ {p.source} :
        Queued(d, p.payload) # {} => d # p.destination

LEMMA TrafficFacts == Traffic => FreshCounted /\ ReceiversRelayNothing
<1>1. ASSUME Traffic PROVE FreshCounted
  BY <1>1, FreshFinite DEF Traffic, ChannelGenuine, FreshCounted, Fresh
<1>2. ASSUME Traffic PROVE ReceiversRelayNothing
  <2> SUFFICES ASSUME NEW p \in Packets, NEW d \in Devices \ {p.source},
                      NEW n \in Queued(d, p.payload)
               PROVE  d # p.destination
    BY DEF ReceiversRelayNothing
  <2>1. n \in DOMAIN pool[d] /\ IsOf(pool[d][n], p) /\ ~pool[d][n].self
    BY <1>2, QueuedIsOf
  <2>2. pool[d][n].type # "ACK"
    BY <2>1, PacketFacts DEF IsOf
  <2>3. QED
    BY <1>2, <2>1, <2>2, PoolFacts DEF KnownFrame, Traffic, IsOf
<1>3. QED
  BY <1>1, <1>2

LEMMA TrafficFactsAfter == Traffic' => FreshCounted' /\ ReceiversRelayNothing'
  BY TrafficFacts, PTL

LEMMA RelayStays ==
    ASSUME Traffic, Traffic', NEW p \in Packets, NEW d \in Devices \ {p.source}, RelayOK(p, d),
           NothingNew(d, p.payload),
           shots'[d][p.payload] = shots[d][p.payload],
           MayRelay(p, d) => Fresh(d, p.payload)' + shots[p.source][p.payload]
                                <= Fresh(d, p.payload) + shots'[p.source][p.payload]
    PROVE  RelayOK(p, d)'
<1> DEFINE m == p.payload
           s == p.source
<1>1. Queued(d, m)' \subseteq Queued(d, m)
  BY NothingNewQueued
<1>2. m \in Messages /\ s \in Devices
  BY PacketFacts
<1>3. /\ Fresh(d, m) \in Nat /\ Fresh(d, m)' \in Nat
      /\ shots[s][m] \in Nat /\ shots'[s][m] \in Nat /\ shots[d][m] \in Nat
  <2>1. FreshCounted /\ FreshCounted'
    BY TrafficFacts, TrafficFactsAfter
  <2>2. QED
    BY <1>2, <2>1 DEF FreshCounted, Traffic, DataOK
<1>4. ASSUME MayRelay(p, d)
      PROVE  RelayLoad(d, m)' <= shots'[s][m]
  <2>1. RelayLoad(d, m) <= shots[s][m]
    BY <1>4 DEF RelayOK
  <2>2. Fresh(d, m)' + shots[s][m] <= Fresh(d, m) + shots'[s][m]
    BY <1>4
  <2>3. (IF Queued(d, m)' = {} THEN 0 ELSE 1) <= (IF Queued(d, m) = {} THEN 0 ELSE 1)
    BY <1>1
  <2> HIDE DEF m, s
  <2>4. shots'[d][m] = shots[d][m]
    BY DEF m
  <2>5. QED
    BY <1>3, <2>1, <2>2, <2>3, <2>4 DEF RelayLoad
<1>5. QED
  BY <1>1, <1>4 DEF RelayOK, MayRelay

\* What the others hear of a frame that is sent.
LEMMA HeardFresh ==
    ASSUME Traffic, Shown, NEW d \in Devices, Transmit(d), NEW e \in Devices, NEW m
    PROVE  IF air'.sent /\ e # d /\ air'.frame.payload = m /\ air'.frame.forward
           THEN Fresh(e, m)' <= Fresh(e, m) + 1
           ELSE Fresh(e, m)' = Fresh(e, m)
<1>1. inbox[e] \in Seq(GenuineFrames(delivered))
  BY DEF Traffic, ChannelGenuine
<1>2. CASE inbox'[e] = inbox[e]
  <2>1. Fresh(e, m) \in Nat
    BY <1>1, FreshFinite DEF Fresh
  <2>2. Fresh(e, m)' = Fresh(e, m)
    BY <1>2 DEF Fresh
  <2>3. QED
    BY <2>1, <2>2
<1>3. CASE inbox'[e] # inbox[e]
  <2>1. air'.sent
    BY <1>3 DEF Transmit
  <2> DEFINE f == air'.frame
  <2>2. Heard(d, f)
    BY <2>1 DEF Transmit
  <2>3. PICK n \in DOMAIN pool[d] : Sends(d, n)
    BY <2>1 DEF Shown, Polls
  <2>4. OnAir(f) \in GenuineFrames(delivered)
    BY <2>3, SentIsGenuine
  <2>5. e # d /\ inbox'[e] = Append(inbox[e], OnAir(f))
    BY <1>3, <2>2, Zenon DEF Heard, InRange
  <2>6. OnAir(f).payload = f.payload /\ OnAir(f).forward = f.forward
    BY DEF OnAir
  <2> HIDE DEF f
  <2>7. /\ Fresh(e, m)' <= Fresh(e, m) + 1
        /\ ~(OnAir(f).payload = m /\ OnAir(f).forward) => Fresh(e, m)' = Fresh(e, m)
    BY <1>1, <2>4, <2>5, FreshAppend DEF Fresh
  <2>8. QED
    BY <2>1, <2>5, <2>6, <2>7, Zenon DEF f
<1>4. QED
  BY <1>2, <1>3

\* A third device sends what no other third device relays again.
LEMMA RelayTransmits ==
    ASSUME Traffic, Shown, NobodyWritesToItself, NEW p \in Packets, NEW d \in Devices \ {p.source},
           Transmit(d), air'.sent, air'.frame.payload = p.payload, RelayOK(p, d)
    PROVE  /\ Queued(d, p.payload) # {} /\ Queued(d, p.payload)' = {}
           /\ \A e \in Devices \ {d, p.source} : MayRelay(p, e) => ~air'.frame.forward
<1> DEFINE m == p.payload
<1>1. PICK n \in Queued(d, m) :
          SameMessage(pool[d][n], air'.frame) /\ Queued(d, m)' = {}
  BY PollSends DEF RelayOK
<1>2. n \in DOMAIN pool[d] /\ IsOf(pool[d][n], p) /\ ~pool[d][n].self
  BY QueuedIsOf
<1>3. MayRelay(p, d)
  BY <1>1 DEF RelayOK
<1>4. ASSUME NEW e \in Devices \ {d, p.source}, MayRelay(p, e)
      PROVE  ~air'.frame.forward
  <2>1. Devices = {p.source, d, e}
    BY <1>4, PacketFacts, ThreeDevices DEF Devices
  <2>2. p.destination = BROADCAST
    BY <1>3, <1>4, <2>1 DEF MayRelay, NobodyWritesToItself
  <2>3. ~pool[d][n].forward
    BY <1>2, <2>2, PoolFacts DEF KnownFrame, Traffic, IsOf
  <2>4. air'.frame.forward = pool[d][n].forward
    BY <1>1, <1>2, <2>2 DEF SameMessage, IsOf
  <2>5. QED
    BY <2>3, <2>4
<1>5. QED
  BY <1>1, <1>4

LEMMA RelaysReceive ==
    ASSUME Traffic, Traffic', Shown, NEW p \in Packets, NEW d \in Devices \ {p.source}, RelayOK(p, d),
           Receive(d)
    PROVE  RelayOK(p, d)'
<1> DEFINE m == p.payload
           s == p.source
           f == Head(inbox[d])
<1>1. m \in Messages /\ s \in Devices
  BY PacketFacts
<1>2. inbox[d] # <<>> /\ inbox' = [inbox EXCEPT ![d] = Tail(@)] /\ shots' = shots
  BY DEF Receive
<1>3. Fresh(d, m)' + (IF f.payload = m /\ f.forward THEN 1 ELSE 0) <= Fresh(d, m)
  <2>1. inbox[d] \in Seq(GenuineFrames(delivered)) /\ inbox'[d] = Tail(inbox[d])
    BY <1>2 DEF Traffic, ChannelGenuine
  <2>2. QED
    BY <1>2, <2>1, FreshTail DEF Fresh
<1>4. /\ Fresh(d, m) \in Nat /\ Fresh(d, m)' \in Nat
      /\ shots[s][m] \in Nat /\ shots[d][m] \in Nat
  <2>1. FreshCounted /\ FreshCounted'
    BY TrafficFacts, TrafficFactsAfter
  <2>2. QED
    BY <1>1, <2>1 DEF FreshCounted, Traffic, DataOK
<1> HIDE DEF f
<1>5. CASE NothingNew(d, m)
  <2>1. Fresh(d, m)' <= Fresh(d, m)
    BY <1>3, <1>4
  <2>2. Fresh(d, m)' + shots[s][m] <= Fresh(d, m) + shots'[s][m]
    BY <1>2, <1>4, <2>1
  <2>3. QED
    BY <1>2, <1>5, <2>2, RelayStays
<1>6. CASE ~NothingNew(d, m)
  <2>1. /\ f.payload = m /\ f.forward /\ Queued(d, m) = {}
        /\ p.destination = BROADCAST \/ p.destination \in DOMAIN table'[d]
        /\ \E l : Queued(d, m)' \subseteq {l}
    BY <1>6, ReceiveBringsCopy DEF f
  <2>2. p.destination \in Devices \cup {BROADCAST}
    BY <2>1 DEF Traffic, NeighboursAreDevices
  <2>3. ~MayRelay(p, d) => Queued(d, m)' = {}
    <3>1. ~MayRelay(p, d) => d = p.destination
      BY <2>2 DEF MayRelay
    <3>2. ReceiversRelayNothing'
      BY TrafficFactsAfter
    <3>3. QED
      BY <3>1, <3>2 DEF ReceiversRelayNothing
  <2>4. ASSUME MayRelay(p, d)
        PROVE  RelayLoad(d, m)' <= shots'[s][m]
    <3>1. shots[d][m] + Fresh(d, m) + 0 <= shots[s][m]
      BY <2>1, <2>4 DEF RelayOK, RelayLoad
    <3>2. Fresh(d, m)' + 1 <= Fresh(d, m)
      BY <1>3, <2>1
    <3>3. (IF Queued(d, m)' = {} THEN 0 ELSE 1) <= 1
      OBVIOUS
    <3> HIDE DEF m, s
    <3>4. QED
      BY <1>2, <1>4, <3>1, <3>2, <3>3 DEF RelayLoad
  <2>5. QED
    BY <1>2, <2>1, <2>3, <2>4 DEF RelayOK, MayRelay
<1>7. QED
  BY <1>5, <1>6

LEMMA RelaysHear ==
    ASSUME Traffic, Traffic', Shown, NobodyWritesToItself, RelaysOK,
           NEW p \in Packets, NEW d \in Devices \ {p.source}, NEW e \in Devices, Transmit(e)
    PROVE  RelayOK(p, d)'
<1> DEFINE m == p.payload
           s == p.source
<1>1. m \in Messages /\ s \in Devices /\ RelayOK(p, d)
  BY PacketFacts DEF RelaysOK
<1>2. /\ Fresh(d, m) \in Nat /\ Fresh(d, m)' \in Nat
      /\ shots[s][m] \in Nat /\ shots[d][m] \in Nat
  <2>1. FreshCounted /\ FreshCounted'
    BY TrafficFacts, TrafficFactsAfter
  <2>2. QED
    BY <1>1, <2>1 DEF FreshCounted, Traffic, DataOK
<1>3. OthersSame(e)
  BY DEF Shown
<1>4. CASE e = d /\ air'.sent /\ air'.frame.payload = m
  <2>1. Queued(d, m) # {} /\ Queued(d, m)' = {}
    BY <1>1, <1>4, RelayTransmits
  <2>2. /\ shots'[d][m] = shots[d][m] + 1 /\ shots'[s][m] = shots[s][m]
        /\ Fresh(d, m)' = Fresh(d, m)
    BY <1>1, <1>4, PollShots, HeardFresh
  <2>3. MayRelay(p, d) /\ RelayLoad(d, m) <= shots[s][m]
    BY <1>1, <2>1 DEF RelayOK
  <2>4. RelayLoad(d, m)' <= shots'[s][m]
    <3> HIDE DEF m, s
    <3>1. QED
      BY <1>2, <2>1, <2>2, <2>3 DEF RelayLoad
  <2>5. QED
    BY <2>1, <2>3, <2>4 DEF RelayOK, MayRelay
<1>5. CASE ~(e = d /\ air'.sent /\ air'.frame.payload = m)
  <2>1. NothingNew(d, m)
    <3>1. CASE e = d
      BY <1>5, <3>1, PollBringsNothing
    <3>2. CASE e # d
      BY <1>3, <3>2, OthersBringNothing
    <3>3. QED
      BY <3>1, <3>2
  <2>2. shots'[d][m] = shots[d][m]
    BY <1>1, <1>5, PollShots
  <2>3. ASSUME MayRelay(p, d)
        PROVE  Fresh(d, m)' + shots[s][m] <= Fresh(d, m) + shots'[s][m]
    <3>1. CASE e = s /\ air'.sent /\ air'.frame.payload = m
      <4>1. shots'[s][m] = shots[s][m] + 1
        BY <1>1, <3>1, PollShots
      <4>2. Fresh(d, m)' <= Fresh(d, m) + 1
        BY <1>2, HeardFresh
      <4>3. QED
        BY <1>2, <4>1, <4>2
    <3>2. CASE ~(e = s /\ air'.sent /\ air'.frame.payload = m)
      <4>1. shots'[s][m] = shots[s][m]
        BY <1>1, <3>2, PollShots
      <4>2. Fresh(d, m)' = Fresh(d, m)
        <5>1. CASE air'.sent /\ air'.frame.payload = m
          <6>1. e # s /\ e # d
            BY <1>5, <3>2, <5>1
          <6>2. RelayOK(p, e)
            BY <6>1 DEF RelaysOK
          <6>3. ~air'.frame.forward
            BY <2>3, <5>1, <6>1, <6>2, RelayTransmits
          <6>4. QED
            BY <6>3, HeardFresh
        <5>2. CASE ~(air'.sent /\ air'.frame.payload = m)
          BY <5>2, HeardFresh
        <5>3. QED
          BY <5>1, <5>2
      <4>3. QED
        BY <1>2, <4>1, <4>2
    <3>3. QED
      BY <3>1, <3>2
  <2>4. QED
    BY <1>1, <2>1, <2>2, <2>3, RelayStays
<1>6. QED
  BY <1>4, <1>5

LEMMA RelaysPreserved ==
    ASSUME Traffic, Traffic', Shown, NobodyWritesToItself, RelaysOK, [Next]_vars
    PROVE  RelaysOK'
<1> SUFFICES ASSUME NEW p \in Packets, NEW d \in Devices \ {p.source}
             PROVE  RelayOK(p, d)'
  BY DEF RelaysOK
<1> DEFINE m == p.payload
           s == p.source
<1>1. m \in Messages /\ s \in Devices /\ RelayOK(p, d)
  BY PacketFacts DEF RelaysOK
<1>2. Fresh(d, m) \in Nat /\ shots[s][m] \in Nat
  BY <1>1, TrafficFacts DEF FreshCounted, Traffic, DataOK
\* The device takes no part, or forgets what it has.
<1>3. ASSUME NothingNew(d, m), shots' = shots, inbox'[d] = inbox[d]
      PROVE  RelayOK(p, d)'
  <2>1. Fresh(d, m)' = Fresh(d, m)
    BY <1>3 DEF Fresh
  <2>2. Fresh(d, m)' + shots[s][m] <= Fresh(d, m) + shots'[s][m]
    BY <1>2, <1>3, <2>1
  <2>3. QED
    BY <1>1, <1>3, <2>2, RelayStays
<1>4. ASSUME NEW q \in Packets, Send(q)
      PROVE  RelayOK(p, d)'
  <2>1. NothingNew(d, m)
    <3>1. CASE q = p
      <4>1. OthersSame(s)
        BY <1>4, <3>1 DEF Shown
      <4>2. QED
        BY <4>1, OthersBringNothing
    <3>2. CASE q # p
      BY <1>4, <3>2, SendBringsNothing
    <3>3. QED
      BY <3>1, <3>2
  <2>2. shots' = shots /\ inbox' = inbox
    BY <1>4 DEF Send
  <2>3. QED
    BY <1>3, <2>1, <2>2
<1>5. ASSUME NEW e \in Devices, Receive(e)
      PROVE  RelayOK(p, d)'
  <2>1. CASE e = d
    BY <1>1, <1>5, <2>1, RelaysReceive
  <2>2. CASE e # d
    <3>1. OthersSame(e)
      BY <1>5, FirstHeard DEF Shown, Receive
    <3>2. NothingNew(d, m)
      BY <2>2, <3>1, OthersBringNothing
    <3>3. shots' = shots /\ inbox'[d] = inbox[d]
      BY <1>5, <2>2 DEF Receive, Traffic, ChannelGenuine
    <3>4. QED
      BY <1>3, <3>2, <3>3
  <2>3. QED
    BY <2>1, <2>2
<1>6. ASSUME NEW e \in Devices, Transmit(e)
      PROVE  RelayOK(p, d)'
  BY <1>6, RelaysHear
<1>7. ASSUME NEW e \in Devices, Restart(e)
      PROVE  RelayOK(p, d)'
  <2>1. OthersSame(e) /\ Forgets(e)
    BY <1>7 DEF Shown
  <2>2. NothingNew(d, m)
    BY <2>1, OthersBringNothing DEF Forgets, NothingNew
  <2>3. shots' = shots /\ inbox' = inbox
    BY <1>7 DEF Restart
  <2>4. QED
    BY <1>3, <2>2, <2>3
<1>8. ASSUME TimePasses \/ UNCHANGED vars
      PROVE  RelayOK(p, d)'
  <2>1. NothingNew(d, m)
    BY <1>8 DEF Shown, NothingNew
  <2>2. shots' = shots /\ inbox' = inbox
    BY <1>8 DEF TimePasses, vars
  <2>3. QED
    BY <1>3, <2>1, <2>2
<1>9. QED
  BY <1>4, <1>5, <1>6, <1>7, <1>8 DEF Next

-----------------------------------------------------------------------------
(* In the beginning.                                                        *)

-----------------------------------------------------------------------------
(* In the beginning.                                                        *)

LEMMA NothingYet ==
    /\ DOMAIN <<>> = {}
    /\ \A S : <<>> \in [{} -> S] /\ <<>> \in Seq(S)
<1>1. \A S : <<>> \in Seq(S) /\ Len(<<>>) = 0
  BY EmptySeq
<1>2. \A S : <<>> \in [1 .. 0 -> S] /\ DOMAIN <<>> = 1 .. 0
  BY <1>1, LenProperties
<1>3. 1 .. 0 = {}
  OBVIOUS
<1>4. QED
  BY <1>1, <1>2, <1>3

\* The neighbours a device heard before.
LEMMA HeardBeforeType ==
    ASSUME NEW d \in Devices
    PROVE  /\ HeardBefore(d) \in DeviceA!Tables
           /\ DOMAIN HeardBefore(d) \subseteq Devices \ {d}
           /\ Cardinality(DOMAIN HeardBefore(d)) <= FANET_MAX_NEIGHBORS
<1> DEFINE S == InRange(d) \cap Known
<1>1. S \subseteq Devices \ {d} /\ S \subseteq Address
  BY DevicesAreAddresses DEF InRange
<1>2. BootTick \in DeviceA!Ticks
  <2>1. LAST_TICK \in 1 .. TICK_MOD - 1 /\ TICK_MOD \in Nat
    BY NetworkAssumption, DevicesAssumption DEF BootTick, DeviceA!TableAssumption
  <2>2. QED
    BY <2>1 DEF DeviceA!Ticks, BootTick
<1>3. Cardinality(S) <= FANET_MAX_NEIGHBORS
  BY DevicesAssumption
<1>4. HeardBefore(d) \in [S -> DeviceA!Ticks] /\ DOMAIN HeardBefore(d) = S
  BY <1>2 DEF HeardBefore
<1> HIDE DEF S
<1>5. QED
  BY <1>1, <1>3, <1>4 DEF DeviceA!Tables

LEMMA TrafficInitially == Init => Traffic
<1> SUFFICES ASSUME Init PROVE Traffic
  OBVIOUS
<1>1. KnownPools
  BY NothingYet, Views DEF Init, KnownPools, Devices
<1>2. \A d \in Devices : DOMAIN pool[d] = {} /\ DOMAIN table[d] \subseteq Devices
  <2>1. DOMAIN poolA = {} /\ DOMAIN poolB = {} /\ DOMAIN poolC = {}
    BY NothingYet DEF Init
  <2>2. /\ DOMAIN tableA \subseteq Devices /\ DOMAIN tableB \subseteq Devices
        /\ DOMAIN tableC \subseteq Devices
    BY HeardBeforeType DEF Init, Devices
  <2>3. QED
    BY <2>1, <2>2, Views DEF Devices
<1>3. inbox = [d \in Devices |-> <<>>]
  BY DEF Init
<1>4. ChannelGenuine
  BY <1>3, NothingYet DEF ChannelGenuine
<1>5. DataOK
  BY NetworkAssumption DEF Init, DataOK
<1>6. QED
  BY <1>1, <1>2, <1>4, <1>5 DEF Traffic, PoolsGenuine, NeighboursAreDevices

LEMMA CountsInitially == Init => ConfirmedWasDelivered /\ SourcesOK /\ RelaysOK
<1> SUFFICES ASSUME Init PROVE ConfirmedWasDelivered /\ SourcesOK /\ RelaysOK
  OBVIOUS
<1>1. \A d \in Devices : DOMAIN pool[d] = {}
  BY NothingYet, Views DEF Init, Devices
<1>2. \A d \in Devices : \A m : Queued(d, m) = {}
  BY <1>1 DEF Queued
<1>3. \A d \in Devices : \A m \in Messages : shots[d][m] = 0
  BY DEF Init
<1>4. \A d \in Devices : \A m : Fresh(d, m) = 0
  <2> SUFFICES ASSUME NEW d \in Devices, NEW m PROVE Fresh(d, m) = 0
    OBVIOUS
  <2>1. FreshIn(inbox[d], m) = {}
    BY NothingYet DEF Init, FreshIn
  <2>2. QED
    BY <2>1, FS_EmptySet DEF Fresh
<1>5. MAC_TX_RETRANSMISSION_RETRYS \in Nat
  BY DevicesAssumption DEF DeviceA!TimingAssumption
<1>6. SourcesOK
  BY <1>2, <1>3, <1>5, PacketFacts DEF SourcesOK, SourceOK
<1>7. RelaysOK
  BY <1>2, <1>3, <1>4, PacketFacts DEF RelaysOK, RelayOK, RelayLoad
<1>8. ConfirmedWasDelivered
  BY DEF Init, ConfirmedWasDelivered
<1>9. QED
  BY <1>6, <1>7, <1>8

(* The bound follows from what is counted. *)
LEMMA BoundKept ==
    ASSUME Traffic, SourcesOK, RelaysOK
    PROVE  RelaysFollowTheSource
<1> SUFFICES ASSUME NEW p \in Packets, NEW d \in Devices
             PROVE  /\ shots[d][p.payload] <= shots[p.source][p.payload]
                    /\ shots[p.source][p.payload] <=
                          IF p.ackType = "NONE" THEN 1 ELSE MAC_TX_RETRANSMISSION_RETRYS
  BY DEF RelaysFollowTheSource
<1> DEFINE m == p.payload
           s == p.source
<1>1. SourceOK(p) /\ m \in Messages /\ s \in Devices
  BY PacketFacts DEF SourcesOK
<1>2. shots[d][m] \in Nat /\ shots[s][m] \in Nat /\ Fresh(d, m) \in Nat
  BY <1>1, TrafficFacts DEF Traffic, DataOK, FreshCounted
<1>3. shots[d][m] <= shots[s][m]
  <2>1. CASE d = s
    BY <1>2, <2>1
  <2>2. CASE d # s
    <3>1. RelayOK(p, d)
      BY <2>2 DEF RelaysOK
    <3>2. CASE MayRelay(p, d)
      <4>1. RelayLoad(d, m) <= shots[s][m]
        BY <3>1, <3>2 DEF RelayOK
      <4> HIDE DEF m, s
      <4>2. QED
        BY <1>2, <4>1 DEF RelayLoad
    <3>3. CASE ~MayRelay(p, d)
      BY <1>2, <3>1, <3>3 DEF RelayOK
    <3>4. QED
      BY <3>2, <3>3
  <2>3. QED
    BY <2>1, <2>2
<1>4. QED
  BY <1>1, <1>3 DEF SourceOK

-----------------------------------------------------------------------------
(* The devices.                                                             *)

\* What the devices share.
SharedOK ==
    /\ tick \in DeviceA!Ticks
    /\ inputs \in 0 .. MAX_INPUTS
    /\ acked \subseteq DeviceA!Arrivals /\ reported \subseteq DeviceA!Arrivals

-----------------------------------------------------------------------------
(* The steps of device A.                                                   *)

PA == INSTANCE ProtocolProofs WITH
    txPool <- poolA, neighborTable_ <- tableA, cmcaNextTx <- nextA, sent <- sentA,
    ownAddress_ <- address[A], carrierBackoffExp <- 0,
    DEFAULT_ADDRESS <- A, NewAddresses <- {}, Reserved <- {BROADCAST},
    AppPackets <- Packets, RxFrames <- HeardFrames, StrictModes <- {TRUE}, SendTimes <- {0},
    BootTicks <- {BootTick}, MAC_TX_BACKOFF_EXP_MIN <- 0, MAC_TX_BACKOFF_EXP_MAX <- 0

(* The instance of the theorems is one of the device: its assumptions hold, *)
LEMMA AssumptionsOfA ==
    /\ PA!AddressAssumption /\ PA!InputAssumption /\ PA!TimingAssumption /\ PA!TableAssumption
    /\ PA!AddressFixed
<1>1. PA!AddressAssumption
  BY DevicesAssumption DEF DeviceA!AddressAssumption, PA!AddressAssumption
<1>2. PA!InputAssumption
  <2>1. Packets \subseteq PA!AppPacket /\ \A p \in Packets : p.type # "ACK"
    BY DevicesAssumption DEF DeviceA!AppPacket, PA!AppPacket, DeviceA!Types, PA!Types,
                             DeviceA!AckTypes, PA!AckTypes
  <2>2. HeardFrames \subseteq PA!RadioFrame /\ \A f \in HeardFrames : f.source # BROADCAST
    BY DEF HeardFrames, DeviceA!RadioFrame, PA!RadioFrame, DeviceA!Types, PA!Types,
           DeviceA!AckTypes, PA!AckTypes
  <2>3. Rssis \subseteq Int /\ MAX_INPUTS \in Nat
    BY DevicesAssumption DEF DeviceA!InputAssumption
  <2>4. {TRUE} \subseteq BOOLEAN
    OBVIOUS
  <2>5. QED
    BY <2>1, <2>2, <2>3, <2>4, Zenon DEF PA!InputAssumption
<1>3. PA!TimingAssumption
  <2>1. BootTick \in PA!Ticks
    <3>1. LAST_TICK \in 1 .. TICK_MOD - 1 /\ LAST_SEND \in 1 .. LAST_TICK
      BY NetworkAssumption DEF BootTick
    <3>2. TICK_MOD \in Nat
      BY DevicesAssumption DEF DeviceA!TableAssumption
    <3>3. QED
      BY <3>1, <3>2 DEF PA!Ticks, BootTick
  <2>2. QED
    BY <2>1, DevicesAssumption DEF DeviceA!TimingAssumption, PA!TimingAssumption
<1>4. PA!TableAssumption
  BY DevicesAssumption DEF DeviceA!TableAssumption, PA!TableAssumption,
                           DeviceA!IsFiniteSet, PA!IsFiniteSet
<1>5. PA!AddressFixed
  BY DEF PA!AddressFixed
<1>6. QED
  BY <1>1, <1>2, <1>3, <1>4, <1>5

(* and what the device does, the instance does. *)
LEMMA StepsOfA ==
    /\ \A p : DeviceA!SendPacket(p, TRUE) => PA!SendPacket(p, TRUE)
    /\ \A f, rssi : DeviceA!HandleRx(f, rssi) => PA!HandleRx(f, rssi)
    /\ DeviceA!HandleTxNothing => PA!HandleTxNothing
    /\ \A ok : DeviceA!HandleTxTracking(ok) => PA!HandleTxTracking(ok)
    /\ DeviceA!HandleTxSent => PA!HandleTxSent
    /\ DeviceA!HandleTxBusy => PA!HandleTxBusy
    /\ DeviceA!Reinit => PA!Reinit
<1> USE DEF DeviceA!Arrival, PA!Arrival, DeviceA!RelayArrival, PA!RelayArrival,
           DeviceA!Cardinality, PA!Cardinality, DeviceA!Input, PA!Input, DeviceA!AfterAdd,
           PA!AfterAdd, DeviceA!Without, PA!Without, DeviceA!Restrict, PA!Restrict,
           DeviceA!Int8, PA!Int8, DeviceA!TxFrame, PA!TxFrame, DeviceA!Silence,
           PA!Silence, DeviceA!Later, PA!Later,
           DeviceA!NothingSent, PA!NothingSent, DeviceA!NothingAcked, PA!NothingAcked,
           DeviceA!CountSent, PA!CountSent, DeviceA!NoneSent, PA!NoneSent, DeviceA!NumTxOf,
           PA!NumTxOf, DeviceA!StrictPacket, PA!StrictPacket, DeviceA!RxFromUs, PA!RxFromUs,
           DeviceA!RxEcho, PA!RxEcho, DeviceA!RxNew, PA!RxNew, DeviceA!Outdated, PA!Outdated,
           DeviceA!HeardTables, PA!HeardTables, DeviceA!FrameInTxPool, PA!FrameInTxPool,
           DeviceA!Matches, PA!Matches, DeviceA!HasExtendedHeader, PA!HasExtendedHeader,
           DeviceA!Relayed, PA!Relayed, DeviceA!Answered, PA!Answered, DeviceA!ForUs, PA!ForUs,
           DeviceA!AckFrame, PA!AckFrame, DeviceA!Relayable, PA!Relayable, DeviceA!RelayFrame,
           PA!RelayFrame, DeviceA!AckedFrames, PA!AckedFrames, DeviceA!LastIds, PA!LastIds,
           DeviceA!LastSeen, PA!LastSeen, DeviceA!NoNeighbours, PA!NoNeighbours,
           DeviceA!AfterRemoveOutdated, PA!AfterRemoveOutdated, DeviceA!AfterAddOrUpdate,
           PA!AfterAddOrUpdate, DeviceA!WithEntry, PA!WithEntry, DeviceA!AfterRemoveOldest,
           PA!AfterRemoveOldest, DeviceA!AfterRemove, PA!AfterRemove, DeviceA!Oldest,
           PA!Oldest, DeviceA!Newest, PA!Newest, DeviceA!Full, PA!Full, DeviceA!TxCall,
           PA!TxCall, DeviceA!TimeReached, PA!TimeReached, DeviceA!Remaining, PA!Remaining,
           DeviceA!GivenUp, PA!GivenUp, DeviceA!Pickable, PA!Pickable, DeviceA!Due, PA!Due,
           DeviceA!Priority, PA!Priority, DeviceA!Precedes, PA!Precedes, DeviceA!NeverAcked,
           PA!NeverAcked, DeviceA!OwnTracking, PA!OwnTracking, DeviceA!NextTxFrame,
           PA!NextTxFrame, DeviceA!Outgoing, PA!Outgoing, DeviceA!Spaced, PA!Spaced,
           DeviceA!ClockMoves, PA!ClockMoves, DeviceA!RetryAfter, PA!RetryAfter
<1>1. ASSUME NEW p, DeviceA!SendPacket(p, TRUE) PROVE PA!SendPacket(p, TRUE)
  BY <1>1, Zenon DEF DeviceA!SendPacket, PA!SendPacket
<1>2. ASSUME NEW f, NEW rssi, DeviceA!HandleRx(f, rssi) PROVE PA!HandleRx(f, rssi)
  BY <1>2, Zenon DEF DeviceA!HandleRx, PA!HandleRx
<1>3. ASSUME DeviceA!HandleTxNothing PROVE PA!HandleTxNothing
  BY <1>3, Zenon DEF DeviceA!HandleTxNothing, PA!HandleTxNothing
<1>4. ASSUME NEW ok, DeviceA!HandleTxTracking(ok) PROVE PA!HandleTxTracking(ok)
  BY <1>4, Zenon DEF DeviceA!HandleTxTracking, PA!HandleTxTracking
<1>5. ASSUME DeviceA!HandleTxSent PROVE PA!HandleTxSent
  BY <1>5, Zenon DEF DeviceA!HandleTxSent, PA!HandleTxSent
<1>6. ASSUME DeviceA!HandleTxBusy PROVE PA!HandleTxBusy
  BY <1>6, Zenon DEF DeviceA!HandleTxBusy, PA!HandleTxBusy
<1>7. ASSUME DeviceA!Reinit PROVE PA!Reinit
  BY <1>7, Zenon DEF DeviceA!Reinit, PA!Reinit
<1>8. QED
  BY <1>1, <1>2, <1>3, <1>4, <1>5, <1>6, <1>7, Zenon

LEMMA SubmitA ==
    ASSUME PA!DeviceSound, NEW p \in Packets, DeviceA!SendPacket(p, TRUE)
    PROVE  PA!DeviceSound' /\ inputs <= inputs' /\ Submits(A, p)
<1>1. PA!SendPacket(p, TRUE) /\ PA!TypeOK
  BY StepsOfA, Zenon DEF PA!DeviceSound
<1>2. PA!Next
  BY <1>1 DEF PA!Next
<1>3. PA!DeviceSound' /\ inputs <= inputs'
  BY <1>2, AssumptionsOfA, PA!OwnStep
<1> DEFINE k == PA!Arrival
<1>4. /\ ~air'.sent /\ reported' = {} /\ tableA' = tableA
      /\ k \notin DOMAIN poolA /\ PA!FramesStay(DOMAIN poolA' \ {k})
      /\ k \in DOMAIN poolA' =>
            LET f == poolA'[k]
            IN  /\ f.self /\ f.source = address[A]
                /\ f.destination = p.destination /\ f.type = p.type
                /\ f.ackType = p.ackType /\ f.payload = p.payload
                /\ f.ackType # "NONE" => f.numTx = MAC_TX_RETRANSMISSION_RETRYS
  BY <1>1, AssumptionsOfA, PA!SubmittedSeen, Zenon
<1> HIDE DEF k
<1>5. Kept(A, DOMAIN pool'[A] \ {k})
  BY <1>4, Views DEF Kept, PA!FramesStay, SameMessage, PA!SameMessage
<1>6. QED
  BY <1>3, <1>4, <1>5, Views, Addresses, Zenon DEF Submits, FromPacket

LEMMA HandleA ==
    ASSUME PA!DeviceSound, NEW f \in HeardFrames, NEW rssi \in Rssis, DeviceA!HandleRx(f, rssi)
    PROVE  PA!DeviceSound' /\ inputs <= inputs' /\ Handles(A, f)
<1>1. PA!HandleRx(f, rssi) /\ PA!TypeOK /\ PA!IdsAreArrivals
  BY StepsOfA DEF PA!DeviceSound
<1>2. PA!Next
  BY <1>1, Zenon DEF PA!Next
<1>3. PA!DeviceSound' /\ inputs <= inputs'
  BY <1>2, AssumptionsOfA, PA!OwnStep
<1> DEFINE k == PA!Arrival
           l == PA!RelayArrival
<1>4. /\ ~air'.sent
      /\ DOMAIN tableA' \subseteq DOMAIN tableA \cup {f.source}
      /\ k \notin DOMAIN poolA /\ l \notin DOMAIN poolA
      /\ PA!FramesStay(DOMAIN poolA' \ {k, l})
      /\ k \in DOMAIN poolA' => PA!AnswerTo(f, poolA'[k])
      /\ l \in DOMAIN poolA' => PA!CopyOf(f, poolA'[l])
      /\ \A n \in DOMAIN poolA : poolA[n].id \in reported' => n \in PA!AckedFrames(f)
  BY <1>1, AssumptionsOfA, PA!ReceivedSeen, Zenon
<1>5. k # l
  <2>1. inputs \in Nat
    BY <1>1, AssumptionsOfA DEF PA!TypeOK, PA!InputAssumption
  <2>2. QED
    BY <2>1 DEF PA!Arrival, PA!RelayArrival
<1> HIDE DEF k, l
<1>6. Kept(A, DOMAIN pool'[A] \ {k, l})
  BY <1>4, Views DEF Kept, PA!FramesStay, SameMessage, PA!SameMessage
<1>7. k \in DOMAIN pool'[A] => AnswerTo(A, f, pool'[A][k])
  BY <1>4, Views, Addresses DEF AnswerTo, PA!AnswerTo, PA!ForUs
<1>8. l \in DOMAIN pool'[A] => CopyOf(A, f, pool'[A][l])
  BY <1>4, Views, Addresses DEF CopyOf, PA!CopyOf, PA!Matches, DeviceA!Matches,
     PA!HasExtendedHeader, DeviceA!HasExtendedHeader
<1>9. ASSUME NEW n \in DOMAIN pool[A], pool[A][n].id \in reported'
      PROVE  SettledBy(A, f, pool[A][n])
  BY <1>4, <1>9, Views, Addresses DEF SettledBy, PA!AckedFrames, PA!ForUs
<1>10. QED
  BY <1>3, <1>4, <1>5, <1>6, <1>7, <1>8, <1>9, Views DEF Handles

LEMMA PollA ==
    ASSUME PA!DeviceSound,
           DeviceA!HandleTxNothing \/ (\E ok \in BOOLEAN : DeviceA!HandleTxTracking(ok))
               \/ DeviceA!HandleTxSent \/ DeviceA!HandleTxBusy
    PROVE  PA!DeviceSound' /\ inputs <= inputs' /\ Polls(A)
<1>1. /\ PA!TypeOK
      /\ PA!HandleTxNothing \/ (\E ok \in BOOLEAN : PA!HandleTxTracking(ok))
             \/ PA!HandleTxSent \/ PA!HandleTxBusy
  BY StepsOfA DEF PA!DeviceSound
<1>2. PA!Next
  BY <1>1 DEF PA!Next, PA!HandleTx
<1>3. PA!DeviceSound' /\ inputs <= inputs'
  BY <1>2, AssumptionsOfA, PA!OwnStep
<1>4. /\ reported' = {} /\ tableA' = tableA
      /\ IF air'.sent THEN \E n \in DOMAIN poolA : PA!Leaves(n)
                      ELSE PA!FramesStay(DOMAIN poolA')
  BY <1>1, AssumptionsOfA, PA!TransmittedSeen
<1>5. ASSUME NEW n \in DOMAIN poolA, PA!Leaves(n)
      PROVE  Sends(A, n)
  <2>1. /\ n \in DOMAIN poolA /\ SameMessage(poolA[n], air'.frame) /\ air'.frame \in DeviceA!Frame
    BY <1>5 DEF PA!Leaves, SameMessage, PA!SameMessage, PA!Frame, DeviceA!Frame,
                PA!Types, DeviceA!Types, PA!AckTypes, DeviceA!AckTypes,
                PA!Arrivals, DeviceA!Arrivals, PA!Ticks, DeviceA!Ticks
  <2>2. Kept(A, DOMAIN pool'[A] \ {n})
    BY <1>5, Views DEF PA!Leaves, Kept, PA!FramesStay, SameMessage, PA!SameMessage
  <2>3. IF (poolA[n].self /\ poolA[n].type = "TRACKING") \/ poolA[n].ackType = "NONE"
           \/ poolA[n].source # A
        THEN n \notin DOMAIN poolA'
        ELSE /\ poolA[n].numTx # 0
             /\ n \in DOMAIN poolA' => /\ SameMessage(poolA[n], poolA'[n])
                                       /\ poolA'[n].numTx = poolA[n].numTx - 1
    BY <1>5, Addresses DEF PA!Leaves, PA!OwnTracking, SameMessage, PA!SameMessage
  <2>4. QED
    BY <2>1, <2>2, <2>3, Views DEF Sends
<1>6. ~air'.sent => Kept(A, DOMAIN pool'[A])
  BY <1>4, Views DEF Kept, PA!FramesStay, SameMessage, PA!SameMessage
<1>7. QED
  BY <1>3, <1>4, <1>5, <1>6, Views DEF Polls

LEMMA ForgetA ==
    ASSUME PA!DeviceSound, DeviceA!Reinit
    PROVE  PA!DeviceSound' /\ inputs <= inputs' /\ Forgets(A)
<1>1. PA!Reinit
  BY StepsOfA
<1>2. PA!Next
  BY <1>1 DEF PA!Next
<1>3. PA!DeviceSound' /\ inputs <= inputs'
  BY <1>2, AssumptionsOfA, PA!OwnStep
<1>4. /\ poolA' = [n \in {} |-> 0] /\ tableA' = [a \in {} |-> 0]
      /\ ~air'.sent /\ reported' = {}
  BY <1>1 DEF PA!Reinit, PA!NothingSent, PA!NothingAcked, PA!Silence, PA!NoNeighbours
<1>5. QED
  BY <1>3, <1>4, Views DEF Forgets

(* When it takes no part in a step it is as sound as before. *)
LEMMA BystanderA ==
    ASSUME PA!DeviceSound, UNCHANGED stateA, SharedOK', inputs <= inputs'
    PROVE  PA!DeviceSound'
<1>1. PA!OtherStep
  BY DEF PA!OtherStep, stateA, SharedOK, address, Devices, PA!Ticks, DeviceA!Ticks,
         PA!Arrivals, DeviceA!Arrivals
<1>2. QED
  BY <1>1, AssumptionsOfA, PA!Bystander

(* It counts as we do, *)
LEMMA CountedByA ==
    \A S : PA!Cardinality(S) = Cardinality(S) /\ DeviceA!Cardinality(S) = Cardinality(S)
  BY Zenon DEF Cardinality, PA!Cardinality, DeviceA!Cardinality,
               IsFiniteSet, PA!IsFiniteSet, DeviceA!IsFiniteSet

(* starts sound, *)
LEMMA InitA == Init => PA!DeviceSound
<1> SUFFICES ASSUME Init PROVE PA!DeviceSound
  OBVIOUS
<1>1. /\ poolA = <<>> /\ sentA = <<>> /\ tableA = HeardBefore(A) /\ nextA = 0
      /\ tick = BootTick /\ acked = {} /\ reported = {} /\ inputs = 0
  BY DEF Init
<1>2. DOMAIN poolA = {} /\ poolA \in [DOMAIN poolA -> PA!Frame] /\ sentA \in [DOMAIN poolA -> Nat]
  BY <1>1, NothingYet
<1>3. Cardinality(DOMAIN poolA) <= MAX_BLOCKS
  BY <1>2, FS_EmptySet, DevicesAssumption DEF DeviceA!TimingAssumption
<1>4. /\ tableA \in PA!Tables /\ A \notin DOMAIN tableA
      /\ Cardinality(DOMAIN tableA) <= FANET_MAX_NEIGHBORS
  <2>1. A \in Devices
    BY DEF Devices
  <2>2. QED
    BY <1>1, <2>1, HeardBeforeType DEF PA!Tables, DeviceA!Tables, PA!Ticks, DeviceA!Ticks
<1>5. address[A] \in Address \ {BROADCAST}
  BY DevicesAreAddresses, Addresses DEF Devices
<1>6. 0 \in PA!Ticks /\ BootTick \in PA!Ticks
  <2>1. LAST_TICK \in 1 .. TICK_MOD - 1 /\ TICK_MOD \in Nat
    BY NetworkAssumption, DevicesAssumption DEF BootTick, DeviceA!TableAssumption
  <2>2. QED
    BY <2>1 DEF PA!Ticks, BootTick
<1>7. 0 \in 0 .. MAX_INPUTS
  BY DevicesAssumption DEF DeviceA!InputAssumption
<1>8. PA!TypeOK
  <2>1. DOMAIN poolA \subseteq 1 .. (2 * inputs + 1)
    BY <1>2
  <2>2. /\ acked \subseteq PA!Arrivals /\ reported \subseteq PA!Arrivals
        /\ 0 \in 0 .. 0
    BY <1>1
  <2>3. PA!Cardinality(DOMAIN poolA) <= MAX_BLOCKS
    BY <1>3, CountedByA
  <2>4. PA!Cardinality(DOMAIN tableA) <= FANET_MAX_NEIGHBORS
    BY <1>4, CountedByA
  <2>5. QED
    BY <1>1, <1>2, <1>4, <1>5, <1>6, <1>7, <2>1, <2>2, <2>3, <2>4, Zenon DEF PA!TypeOK
<1>9. PA!NotOwnNeighbour /\ PA!RelaysStop /\ PA!IdsAreArrivals
  BY <1>2, <1>4, Addresses DEF PA!NotOwnNeighbour, PA!RelaysStop, PA!IdsAreArrivals
<1>10. QED
  BY <1>8, <1>9 DEF PA!DeviceSound

(* what its pool can hold, and its types, are those of its instance. *)
LEMMA SharedByA == PA!DeviceSound => SharedOK
  BY DEF SharedOK, PA!DeviceSound, PA!TypeOK, PA!Ticks, DeviceA!Ticks, PA!Arrivals, DeviceA!Arrivals

LEMMA KnownByA ==
    ASSUME PA!DeviceSound, NEW n \in DOMAIN pool[A]
    PROVE  KnownFrame(A, pool[A][n])
<1>1. PA!TypeOK /\ PA!NotOwnNeighbour /\ PA!RelaysStop /\ n \in DOMAIN poolA
  BY Views DEF PA!DeviceSound
<1>2. poolA[n] \in DeviceA!Frame
  BY <1>1 DEF PA!TypeOK, PA!Frame, DeviceA!Frame, PA!Types, DeviceA!Types, PA!AckTypes,
              DeviceA!AckTypes, PA!Arrivals, DeviceA!Arrivals, PA!Ticks, DeviceA!Ticks
<1>3. QED
  BY <1>1, <1>2, Views, Addresses DEF KnownFrame, PA!NotOwnNeighbour, PA!RelaysStop

LEMMA TypedByA ==
    ASSUME PA!DeviceSound
    PROVE  DeviceA!TypeOK
<1>1. PA!TypeOK
  BY DEF PA!DeviceSound
<1>2. QED
  BY <1>1, CountedByA, Zenon
     DEF PA!TypeOK, DeviceA!TypeOK,
       PA!Frame, DeviceA!Frame, PA!Types, DeviceA!Types, PA!AckTypes, DeviceA!AckTypes,
       PA!Arrivals, DeviceA!Arrivals, PA!Ticks, DeviceA!Ticks, PA!Tables,
       DeviceA!Tables

-----------------------------------------------------------------------------
(* The steps of device B.                                                   *)

PB == INSTANCE ProtocolProofs WITH
    txPool <- poolB, neighborTable_ <- tableB, cmcaNextTx <- nextB, sent <- sentB,
    ownAddress_ <- address[B], carrierBackoffExp <- 0,
    DEFAULT_ADDRESS <- B, NewAddresses <- {}, Reserved <- {BROADCAST},
    AppPackets <- Packets, RxFrames <- HeardFrames, StrictModes <- {TRUE}, SendTimes <- {0},
    BootTicks <- {BootTick}, MAC_TX_BACKOFF_EXP_MIN <- 0, MAC_TX_BACKOFF_EXP_MAX <- 0

(* The instance of the theorems is one of the device: its assumptions hold, *)
LEMMA AssumptionsOfB ==
    /\ PB!AddressAssumption /\ PB!InputAssumption /\ PB!TimingAssumption /\ PB!TableAssumption
    /\ PB!AddressFixed
<1>1. PB!AddressAssumption
  BY DevicesAssumption DEF DeviceB!AddressAssumption, PB!AddressAssumption
<1>2. PB!InputAssumption
  <2>1. Packets \subseteq PB!AppPacket /\ \A p \in Packets : p.type # "ACK"
    BY DevicesAssumption DEF DeviceA!AppPacket, PB!AppPacket, DeviceA!Types, PB!Types,
                             DeviceA!AckTypes, PB!AckTypes
  <2>2. HeardFrames \subseteq PB!RadioFrame /\ \A f \in HeardFrames : f.source # BROADCAST
    BY DEF HeardFrames, DeviceA!RadioFrame, PB!RadioFrame, DeviceA!Types, PB!Types,
           DeviceA!AckTypes, PB!AckTypes
  <2>3. Rssis \subseteq Int /\ MAX_INPUTS \in Nat
    BY DevicesAssumption DEF DeviceA!InputAssumption
  <2>4. {TRUE} \subseteq BOOLEAN
    OBVIOUS
  <2>5. QED
    BY <2>1, <2>2, <2>3, <2>4, Zenon DEF PB!InputAssumption
<1>3. PB!TimingAssumption
  <2>1. BootTick \in PB!Ticks
    <3>1. LAST_TICK \in 1 .. TICK_MOD - 1 /\ LAST_SEND \in 1 .. LAST_TICK
      BY NetworkAssumption DEF BootTick
    <3>2. TICK_MOD \in Nat
      BY DevicesAssumption DEF DeviceA!TableAssumption
    <3>3. QED
      BY <3>1, <3>2 DEF PB!Ticks, BootTick
  <2>2. QED
    BY <2>1, DevicesAssumption DEF DeviceA!TimingAssumption, PB!TimingAssumption
<1>4. PB!TableAssumption
  BY DevicesAssumption DEF DeviceA!TableAssumption, PB!TableAssumption,
                           DeviceA!IsFiniteSet, PB!IsFiniteSet
<1>5. PB!AddressFixed
  BY DEF PB!AddressFixed
<1>6. QED
  BY <1>1, <1>2, <1>3, <1>4, <1>5

(* and what the device does, the instance does. *)
LEMMA StepsOfB ==
    /\ \A p : DeviceB!SendPacket(p, TRUE) => PB!SendPacket(p, TRUE)
    /\ \A f, rssi : DeviceB!HandleRx(f, rssi) => PB!HandleRx(f, rssi)
    /\ DeviceB!HandleTxNothing => PB!HandleTxNothing
    /\ \A ok : DeviceB!HandleTxTracking(ok) => PB!HandleTxTracking(ok)
    /\ DeviceB!HandleTxSent => PB!HandleTxSent
    /\ DeviceB!HandleTxBusy => PB!HandleTxBusy
    /\ DeviceB!Reinit => PB!Reinit
<1> USE DEF DeviceB!Arrival, PB!Arrival, DeviceB!RelayArrival, PB!RelayArrival,
           DeviceB!Cardinality, PB!Cardinality, DeviceB!Input, PB!Input, DeviceB!AfterAdd,
           PB!AfterAdd, DeviceB!Without, PB!Without, DeviceB!Restrict, PB!Restrict,
           DeviceB!Int8, PB!Int8, DeviceB!TxFrame, PB!TxFrame, DeviceB!Silence,
           PB!Silence, DeviceB!Later, PB!Later,
           DeviceB!NothingSent, PB!NothingSent, DeviceB!NothingAcked, PB!NothingAcked,
           DeviceB!CountSent, PB!CountSent, DeviceB!NoneSent, PB!NoneSent, DeviceB!NumTxOf,
           PB!NumTxOf, DeviceB!StrictPacket, PB!StrictPacket, DeviceB!RxFromUs, PB!RxFromUs,
           DeviceB!RxEcho, PB!RxEcho, DeviceB!RxNew, PB!RxNew, DeviceB!Outdated, PB!Outdated,
           DeviceB!HeardTables, PB!HeardTables, DeviceB!FrameInTxPool, PB!FrameInTxPool,
           DeviceB!Matches, PB!Matches, DeviceB!HasExtendedHeader, PB!HasExtendedHeader,
           DeviceB!Relayed, PB!Relayed, DeviceB!Answered, PB!Answered, DeviceB!ForUs, PB!ForUs,
           DeviceB!AckFrame, PB!AckFrame, DeviceB!Relayable, PB!Relayable, DeviceB!RelayFrame,
           PB!RelayFrame, DeviceB!AckedFrames, PB!AckedFrames, DeviceB!LastIds, PB!LastIds,
           DeviceB!LastSeen, PB!LastSeen, DeviceB!NoNeighbours, PB!NoNeighbours,
           DeviceB!AfterRemoveOutdated, PB!AfterRemoveOutdated, DeviceB!AfterAddOrUpdate,
           PB!AfterAddOrUpdate, DeviceB!WithEntry, PB!WithEntry, DeviceB!AfterRemoveOldest,
           PB!AfterRemoveOldest, DeviceB!AfterRemove, PB!AfterRemove, DeviceB!Oldest,
           PB!Oldest, DeviceB!Newest, PB!Newest, DeviceB!Full, PB!Full, DeviceB!TxCall,
           PB!TxCall, DeviceB!TimeReached, PB!TimeReached, DeviceB!Remaining, PB!Remaining,
           DeviceB!GivenUp, PB!GivenUp, DeviceB!Pickable, PB!Pickable, DeviceB!Due, PB!Due,
           DeviceB!Priority, PB!Priority, DeviceB!Precedes, PB!Precedes, DeviceB!NeverAcked,
           PB!NeverAcked, DeviceB!OwnTracking, PB!OwnTracking, DeviceB!NextTxFrame,
           PB!NextTxFrame, DeviceB!Outgoing, PB!Outgoing, DeviceB!Spaced, PB!Spaced,
           DeviceB!ClockMoves, PB!ClockMoves, DeviceB!RetryAfter, PB!RetryAfter
<1>1. ASSUME NEW p, DeviceB!SendPacket(p, TRUE) PROVE PB!SendPacket(p, TRUE)
  BY <1>1, Zenon DEF DeviceB!SendPacket, PB!SendPacket
<1>2. ASSUME NEW f, NEW rssi, DeviceB!HandleRx(f, rssi) PROVE PB!HandleRx(f, rssi)
  BY <1>2, Zenon DEF DeviceB!HandleRx, PB!HandleRx
<1>3. ASSUME DeviceB!HandleTxNothing PROVE PB!HandleTxNothing
  BY <1>3, Zenon DEF DeviceB!HandleTxNothing, PB!HandleTxNothing
<1>4. ASSUME NEW ok, DeviceB!HandleTxTracking(ok) PROVE PB!HandleTxTracking(ok)
  BY <1>4, Zenon DEF DeviceB!HandleTxTracking, PB!HandleTxTracking
<1>5. ASSUME DeviceB!HandleTxSent PROVE PB!HandleTxSent
  BY <1>5, Zenon DEF DeviceB!HandleTxSent, PB!HandleTxSent
<1>6. ASSUME DeviceB!HandleTxBusy PROVE PB!HandleTxBusy
  BY <1>6, Zenon DEF DeviceB!HandleTxBusy, PB!HandleTxBusy
<1>7. ASSUME DeviceB!Reinit PROVE PB!Reinit
  BY <1>7, Zenon DEF DeviceB!Reinit, PB!Reinit
<1>8. QED
  BY <1>1, <1>2, <1>3, <1>4, <1>5, <1>6, <1>7, Zenon

LEMMA SubmitB ==
    ASSUME PB!DeviceSound, NEW p \in Packets, DeviceB!SendPacket(p, TRUE)
    PROVE  PB!DeviceSound' /\ inputs <= inputs' /\ Submits(B, p)
<1>1. PB!SendPacket(p, TRUE) /\ PB!TypeOK
  BY StepsOfB, Zenon DEF PB!DeviceSound
<1>2. PB!Next
  BY <1>1 DEF PB!Next
<1>3. PB!DeviceSound' /\ inputs <= inputs'
  BY <1>2, AssumptionsOfB, PB!OwnStep
<1> DEFINE k == PB!Arrival
<1>4. /\ ~air'.sent /\ reported' = {} /\ tableB' = tableB
      /\ k \notin DOMAIN poolB /\ PB!FramesStay(DOMAIN poolB' \ {k})
      /\ k \in DOMAIN poolB' =>
            LET f == poolB'[k]
            IN  /\ f.self /\ f.source = address[B]
                /\ f.destination = p.destination /\ f.type = p.type
                /\ f.ackType = p.ackType /\ f.payload = p.payload
                /\ f.ackType # "NONE" => f.numTx = MAC_TX_RETRANSMISSION_RETRYS
  BY <1>1, AssumptionsOfB, PB!SubmittedSeen, Zenon
<1> HIDE DEF k
<1>5. Kept(B, DOMAIN pool'[B] \ {k})
  BY <1>4, Views DEF Kept, PB!FramesStay, SameMessage, PB!SameMessage
<1>6. QED
  BY <1>3, <1>4, <1>5, Views, Addresses, Zenon DEF Submits, FromPacket

LEMMA HandleB ==
    ASSUME PB!DeviceSound, NEW f \in HeardFrames, NEW rssi \in Rssis, DeviceB!HandleRx(f, rssi)
    PROVE  PB!DeviceSound' /\ inputs <= inputs' /\ Handles(B, f)
<1>1. PB!HandleRx(f, rssi) /\ PB!TypeOK /\ PB!IdsAreArrivals
  BY StepsOfB DEF PB!DeviceSound
<1>2. PB!Next
  BY <1>1, Zenon DEF PB!Next
<1>3. PB!DeviceSound' /\ inputs <= inputs'
  BY <1>2, AssumptionsOfB, PB!OwnStep
<1> DEFINE k == PB!Arrival
           l == PB!RelayArrival
<1>4. /\ ~air'.sent
      /\ DOMAIN tableB' \subseteq DOMAIN tableB \cup {f.source}
      /\ k \notin DOMAIN poolB /\ l \notin DOMAIN poolB
      /\ PB!FramesStay(DOMAIN poolB' \ {k, l})
      /\ k \in DOMAIN poolB' => PB!AnswerTo(f, poolB'[k])
      /\ l \in DOMAIN poolB' => PB!CopyOf(f, poolB'[l])
      /\ \A n \in DOMAIN poolB : poolB[n].id \in reported' => n \in PB!AckedFrames(f)
  BY <1>1, AssumptionsOfB, PB!ReceivedSeen, Zenon
<1>5. k # l
  <2>1. inputs \in Nat
    BY <1>1, AssumptionsOfB DEF PB!TypeOK, PB!InputAssumption
  <2>2. QED
    BY <2>1 DEF PB!Arrival, PB!RelayArrival
<1> HIDE DEF k, l
<1>6. Kept(B, DOMAIN pool'[B] \ {k, l})
  BY <1>4, Views DEF Kept, PB!FramesStay, SameMessage, PB!SameMessage
<1>7. k \in DOMAIN pool'[B] => AnswerTo(B, f, pool'[B][k])
  BY <1>4, Views, Addresses DEF AnswerTo, PB!AnswerTo, PB!ForUs
<1>8. l \in DOMAIN pool'[B] => CopyOf(B, f, pool'[B][l])
  BY <1>4, Views, Addresses DEF CopyOf, PB!CopyOf, PB!Matches, DeviceA!Matches,
     PB!HasExtendedHeader, DeviceA!HasExtendedHeader
<1>9. ASSUME NEW n \in DOMAIN pool[B], pool[B][n].id \in reported'
      PROVE  SettledBy(B, f, pool[B][n])
  BY <1>4, <1>9, Views, Addresses DEF SettledBy, PB!AckedFrames, PB!ForUs
<1>10. QED
  BY <1>3, <1>4, <1>5, <1>6, <1>7, <1>8, <1>9, Views, Zenon DEF Handles

LEMMA PollB ==
    ASSUME PB!DeviceSound,
           DeviceB!HandleTxNothing \/ (\E ok \in BOOLEAN : DeviceB!HandleTxTracking(ok))
               \/ DeviceB!HandleTxSent \/ DeviceB!HandleTxBusy
    PROVE  PB!DeviceSound' /\ inputs <= inputs' /\ Polls(B)
<1>1. /\ PB!TypeOK
      /\ PB!HandleTxNothing \/ (\E ok \in BOOLEAN : PB!HandleTxTracking(ok))
             \/ PB!HandleTxSent \/ PB!HandleTxBusy
  BY StepsOfB DEF PB!DeviceSound
<1>2. PB!Next
  BY <1>1 DEF PB!Next, PB!HandleTx
<1>3. PB!DeviceSound' /\ inputs <= inputs'
  BY <1>2, AssumptionsOfB, PB!OwnStep
<1>4. /\ reported' = {} /\ tableB' = tableB
      /\ IF air'.sent THEN \E n \in DOMAIN poolB : PB!Leaves(n)
                      ELSE PB!FramesStay(DOMAIN poolB')
  BY <1>1, AssumptionsOfB, PB!TransmittedSeen
<1>5. ASSUME NEW n \in DOMAIN poolB, PB!Leaves(n)
      PROVE  Sends(B, n)
  <2>1. /\ n \in DOMAIN poolB /\ SameMessage(poolB[n], air'.frame) /\ air'.frame \in DeviceA!Frame
    BY <1>5 DEF PB!Leaves, SameMessage, PB!SameMessage, PB!Frame, DeviceA!Frame,
                PB!Types, DeviceA!Types, PB!AckTypes, DeviceA!AckTypes,
                PB!Arrivals, DeviceA!Arrivals, PB!Ticks, DeviceA!Ticks
  <2>2. Kept(B, DOMAIN pool'[B] \ {n})
    BY <1>5, Views DEF PB!Leaves, Kept, PB!FramesStay, SameMessage, PB!SameMessage
  <2>3. IF (poolB[n].self /\ poolB[n].type = "TRACKING") \/ poolB[n].ackType = "NONE"
           \/ poolB[n].source # B
        THEN n \notin DOMAIN poolB'
        ELSE /\ poolB[n].numTx # 0
             /\ n \in DOMAIN poolB' => /\ SameMessage(poolB[n], poolB'[n])
                                       /\ poolB'[n].numTx = poolB[n].numTx - 1
    BY <1>5, Addresses DEF PB!Leaves, PB!OwnTracking, SameMessage, PB!SameMessage
  <2>4. QED
    BY <2>1, <2>2, <2>3, Views DEF Sends
<1>6. ~air'.sent => Kept(B, DOMAIN pool'[B])
  BY <1>4, Views DEF Kept, PB!FramesStay, SameMessage, PB!SameMessage
<1>7. QED
  BY <1>3, <1>4, <1>5, <1>6, Views DEF Polls

LEMMA ForgetB ==
    ASSUME PB!DeviceSound, DeviceB!Reinit
    PROVE  PB!DeviceSound' /\ inputs <= inputs' /\ Forgets(B)
<1>1. PB!Reinit
  BY StepsOfB
<1>2. PB!Next
  BY <1>1 DEF PB!Next
<1>3. PB!DeviceSound' /\ inputs <= inputs'
  BY <1>2, AssumptionsOfB, PB!OwnStep
<1>4. /\ poolB' = [n \in {} |-> 0] /\ tableB' = [a \in {} |-> 0]
      /\ ~air'.sent /\ reported' = {}
  BY <1>1 DEF PB!Reinit, PB!NothingSent, PB!NothingAcked, PB!Silence, PB!NoNeighbours
<1>5. QED
  BY <1>3, <1>4, Views DEF Forgets

(* When it takes no part in a step it is as sound as before. *)
LEMMA BystanderB ==
    ASSUME PB!DeviceSound, UNCHANGED stateB, SharedOK', inputs <= inputs'
    PROVE  PB!DeviceSound'
<1>1. PB!OtherStep
  BY DEF PB!OtherStep, stateB, SharedOK, address, Devices, PB!Ticks, DeviceA!Ticks,
         PB!Arrivals, DeviceA!Arrivals
<1>2. QED
  BY <1>1, AssumptionsOfB, PB!Bystander

(* It counts as we do, *)
LEMMA CountedByB ==
    \A S : PB!Cardinality(S) = Cardinality(S) /\ DeviceB!Cardinality(S) = Cardinality(S)
  BY Zenon DEF Cardinality, PB!Cardinality, DeviceB!Cardinality,
               IsFiniteSet, PB!IsFiniteSet, DeviceB!IsFiniteSet

(* starts sound, *)
LEMMA InitB == Init => PB!DeviceSound
<1> SUFFICES ASSUME Init PROVE PB!DeviceSound
  OBVIOUS
<1>1. /\ poolB = <<>> /\ sentB = <<>> /\ tableB = HeardBefore(B) /\ nextB = 0
      /\ tick = BootTick /\ acked = {} /\ reported = {} /\ inputs = 0
  BY DEF Init
<1>2. DOMAIN poolB = {} /\ poolB \in [DOMAIN poolB -> PB!Frame] /\ sentB \in [DOMAIN poolB -> Nat]
  BY <1>1, NothingYet
<1>3. Cardinality(DOMAIN poolB) <= MAX_BLOCKS
  BY <1>2, FS_EmptySet, DevicesAssumption DEF DeviceA!TimingAssumption
<1>4. /\ tableB \in PB!Tables /\ B \notin DOMAIN tableB
      /\ Cardinality(DOMAIN tableB) <= FANET_MAX_NEIGHBORS
  <2>1. B \in Devices
    BY DEF Devices
  <2>2. QED
    BY <1>1, <2>1, HeardBeforeType DEF PB!Tables, DeviceA!Tables, PB!Ticks, DeviceA!Ticks
<1>5. address[B] \in Address \ {BROADCAST}
  BY DevicesAreAddresses, Addresses DEF Devices
<1>6. 0 \in PB!Ticks /\ BootTick \in PB!Ticks
  <2>1. LAST_TICK \in 1 .. TICK_MOD - 1 /\ TICK_MOD \in Nat
    BY NetworkAssumption, DevicesAssumption DEF BootTick, DeviceA!TableAssumption
  <2>2. QED
    BY <2>1 DEF PB!Ticks, BootTick
<1>7. 0 \in 0 .. MAX_INPUTS
  BY DevicesAssumption DEF DeviceA!InputAssumption
<1>8. PB!TypeOK
  <2>1. DOMAIN poolB \subseteq 1 .. (2 * inputs + 1)
    BY <1>2
  <2>2. /\ acked \subseteq PB!Arrivals /\ reported \subseteq PB!Arrivals
        /\ 0 \in 0 .. 0
    BY <1>1
  <2>3. PB!Cardinality(DOMAIN poolB) <= MAX_BLOCKS
    BY <1>3, CountedByB
  <2>4. PB!Cardinality(DOMAIN tableB) <= FANET_MAX_NEIGHBORS
    BY <1>4, CountedByB
  <2>5. QED
    BY <1>1, <1>2, <1>4, <1>5, <1>6, <1>7, <2>1, <2>2, <2>3, <2>4, Zenon DEF PB!TypeOK
<1>9. PB!NotOwnNeighbour /\ PB!RelaysStop /\ PB!IdsAreArrivals
  BY <1>2, <1>4, Addresses DEF PB!NotOwnNeighbour, PB!RelaysStop, PB!IdsAreArrivals
<1>10. QED
  BY <1>8, <1>9 DEF PB!DeviceSound

(* what its pool can hold, and its types, are those of its instance. *)
LEMMA SharedByB == PB!DeviceSound => SharedOK
  BY DEF SharedOK, PB!DeviceSound, PB!TypeOK, PB!Ticks, DeviceA!Ticks, PB!Arrivals, DeviceA!Arrivals

LEMMA KnownByB ==
    ASSUME PB!DeviceSound, NEW n \in DOMAIN pool[B]
    PROVE  KnownFrame(B, pool[B][n])
<1>1. PB!TypeOK /\ PB!NotOwnNeighbour /\ PB!RelaysStop /\ n \in DOMAIN poolB
  BY Views DEF PB!DeviceSound
<1>2. poolB[n] \in DeviceA!Frame
  BY <1>1 DEF PB!TypeOK, PB!Frame, DeviceA!Frame, PB!Types, DeviceA!Types, PB!AckTypes,
              DeviceA!AckTypes, PB!Arrivals, DeviceA!Arrivals, PB!Ticks, DeviceA!Ticks
<1>3. QED
  BY <1>1, <1>2, Views, Addresses DEF KnownFrame, PB!NotOwnNeighbour, PB!RelaysStop

LEMMA TypedByB ==
    ASSUME PB!DeviceSound
    PROVE  DeviceB!TypeOK
<1>1. PB!TypeOK
  BY DEF PB!DeviceSound
<1>2. QED
  BY <1>1, CountedByB, Zenon
     DEF PB!TypeOK, DeviceB!TypeOK,
       PB!Frame, DeviceB!Frame, PB!Types, DeviceB!Types, PB!AckTypes, DeviceB!AckTypes,
       PB!Arrivals, DeviceB!Arrivals, PB!Ticks, DeviceB!Ticks, PB!Tables,
       DeviceB!Tables

-----------------------------------------------------------------------------
(* The steps of device C.                                                   *)

PC == INSTANCE ProtocolProofs WITH
    txPool <- poolC, neighborTable_ <- tableC, cmcaNextTx <- nextC, sent <- sentC,
    ownAddress_ <- address[C], carrierBackoffExp <- 0,
    DEFAULT_ADDRESS <- C, NewAddresses <- {}, Reserved <- {BROADCAST},
    AppPackets <- Packets, RxFrames <- HeardFrames, StrictModes <- {TRUE}, SendTimes <- {0},
    BootTicks <- {BootTick}, MAC_TX_BACKOFF_EXP_MIN <- 0, MAC_TX_BACKOFF_EXP_MAX <- 0

(* The instance of the theorems is one of the device: its assumptions hold, *)
LEMMA AssumptionsOfC ==
    /\ PC!AddressAssumption /\ PC!InputAssumption /\ PC!TimingAssumption /\ PC!TableAssumption
    /\ PC!AddressFixed
<1>1. PC!AddressAssumption
  BY DevicesAssumption DEF DeviceC!AddressAssumption, PC!AddressAssumption
<1>2. PC!InputAssumption
  <2>1. Packets \subseteq PC!AppPacket /\ \A p \in Packets : p.type # "ACK"
    BY DevicesAssumption DEF DeviceA!AppPacket, PC!AppPacket, DeviceA!Types, PC!Types,
                             DeviceA!AckTypes, PC!AckTypes
  <2>2. HeardFrames \subseteq PC!RadioFrame /\ \A f \in HeardFrames : f.source # BROADCAST
    BY DEF HeardFrames, DeviceA!RadioFrame, PC!RadioFrame, DeviceA!Types, PC!Types,
           DeviceA!AckTypes, PC!AckTypes
  <2>3. Rssis \subseteq Int /\ MAX_INPUTS \in Nat
    BY DevicesAssumption DEF DeviceA!InputAssumption
  <2>4. {TRUE} \subseteq BOOLEAN
    OBVIOUS
  <2>5. QED
    BY <2>1, <2>2, <2>3, <2>4, Zenon DEF PC!InputAssumption
<1>3. PC!TimingAssumption
  <2>1. BootTick \in PC!Ticks
    <3>1. LAST_TICK \in 1 .. TICK_MOD - 1 /\ LAST_SEND \in 1 .. LAST_TICK
      BY NetworkAssumption DEF BootTick
    <3>2. TICK_MOD \in Nat
      BY DevicesAssumption DEF DeviceA!TableAssumption
    <3>3. QED
      BY <3>1, <3>2 DEF PC!Ticks, BootTick
  <2>2. QED
    BY <2>1, DevicesAssumption DEF DeviceA!TimingAssumption, PC!TimingAssumption
<1>4. PC!TableAssumption
  BY DevicesAssumption DEF DeviceA!TableAssumption, PC!TableAssumption,
                           DeviceA!IsFiniteSet, PC!IsFiniteSet
<1>5. PC!AddressFixed
  BY DEF PC!AddressFixed
<1>6. QED
  BY <1>1, <1>2, <1>3, <1>4, <1>5

(* and what the device does, the instance does. *)
LEMMA StepsOfC ==
    /\ \A p : DeviceC!SendPacket(p, TRUE) => PC!SendPacket(p, TRUE)
    /\ \A f, rssi : DeviceC!HandleRx(f, rssi) => PC!HandleRx(f, rssi)
    /\ DeviceC!HandleTxNothing => PC!HandleTxNothing
    /\ \A ok : DeviceC!HandleTxTracking(ok) => PC!HandleTxTracking(ok)
    /\ DeviceC!HandleTxSent => PC!HandleTxSent
    /\ DeviceC!HandleTxBusy => PC!HandleTxBusy
    /\ DeviceC!Reinit => PC!Reinit
<1> USE DEF DeviceC!Arrival, PC!Arrival, DeviceC!RelayArrival, PC!RelayArrival,
           DeviceC!Cardinality, PC!Cardinality, DeviceC!Input, PC!Input, DeviceC!AfterAdd,
           PC!AfterAdd, DeviceC!Without, PC!Without, DeviceC!Restrict, PC!Restrict,
           DeviceC!Int8, PC!Int8, DeviceC!TxFrame, PC!TxFrame, DeviceC!Silence,
           PC!Silence, DeviceC!Later, PC!Later,
           DeviceC!NothingSent, PC!NothingSent, DeviceC!NothingAcked, PC!NothingAcked,
           DeviceC!CountSent, PC!CountSent, DeviceC!NoneSent, PC!NoneSent, DeviceC!NumTxOf,
           PC!NumTxOf, DeviceC!StrictPacket, PC!StrictPacket, DeviceC!RxFromUs, PC!RxFromUs,
           DeviceC!RxEcho, PC!RxEcho, DeviceC!RxNew, PC!RxNew, DeviceC!Outdated, PC!Outdated,
           DeviceC!HeardTables, PC!HeardTables, DeviceC!FrameInTxPool, PC!FrameInTxPool,
           DeviceC!Matches, PC!Matches, DeviceC!HasExtendedHeader, PC!HasExtendedHeader,
           DeviceC!Relayed, PC!Relayed, DeviceC!Answered, PC!Answered, DeviceC!ForUs, PC!ForUs,
           DeviceC!AckFrame, PC!AckFrame, DeviceC!Relayable, PC!Relayable, DeviceC!RelayFrame,
           PC!RelayFrame, DeviceC!AckedFrames, PC!AckedFrames, DeviceC!LastIds, PC!LastIds,
           DeviceC!LastSeen, PC!LastSeen, DeviceC!NoNeighbours, PC!NoNeighbours,
           DeviceC!AfterRemoveOutdated, PC!AfterRemoveOutdated, DeviceC!AfterAddOrUpdate,
           PC!AfterAddOrUpdate, DeviceC!WithEntry, PC!WithEntry, DeviceC!AfterRemoveOldest,
           PC!AfterRemoveOldest, DeviceC!AfterRemove, PC!AfterRemove, DeviceC!Oldest,
           PC!Oldest, DeviceC!Newest, PC!Newest, DeviceC!Full, PC!Full, DeviceC!TxCall,
           PC!TxCall, DeviceC!TimeReached, PC!TimeReached, DeviceC!Remaining, PC!Remaining,
           DeviceC!GivenUp, PC!GivenUp, DeviceC!Pickable, PC!Pickable, DeviceC!Due, PC!Due,
           DeviceC!Priority, PC!Priority, DeviceC!Precedes, PC!Precedes, DeviceC!NeverAcked,
           PC!NeverAcked, DeviceC!OwnTracking, PC!OwnTracking, DeviceC!NextTxFrame,
           PC!NextTxFrame, DeviceC!Outgoing, PC!Outgoing, DeviceC!Spaced, PC!Spaced,
           DeviceC!ClockMoves, PC!ClockMoves, DeviceC!RetryAfter, PC!RetryAfter
<1>1. ASSUME NEW p, DeviceC!SendPacket(p, TRUE) PROVE PC!SendPacket(p, TRUE)
  BY <1>1, Zenon DEF DeviceC!SendPacket, PC!SendPacket
<1>2. ASSUME NEW f, NEW rssi, DeviceC!HandleRx(f, rssi) PROVE PC!HandleRx(f, rssi)
  BY <1>2, Zenon DEF DeviceC!HandleRx, PC!HandleRx
<1>3. ASSUME DeviceC!HandleTxNothing PROVE PC!HandleTxNothing
  BY <1>3, Zenon DEF DeviceC!HandleTxNothing, PC!HandleTxNothing
<1>4. ASSUME NEW ok, DeviceC!HandleTxTracking(ok) PROVE PC!HandleTxTracking(ok)
  BY <1>4, Zenon DEF DeviceC!HandleTxTracking, PC!HandleTxTracking
<1>5. ASSUME DeviceC!HandleTxSent PROVE PC!HandleTxSent
  BY <1>5, Zenon DEF DeviceC!HandleTxSent, PC!HandleTxSent
<1>6. ASSUME DeviceC!HandleTxBusy PROVE PC!HandleTxBusy
  BY <1>6, Zenon DEF DeviceC!HandleTxBusy, PC!HandleTxBusy
<1>7. ASSUME DeviceC!Reinit PROVE PC!Reinit
  BY <1>7, Zenon DEF DeviceC!Reinit, PC!Reinit
<1>8. QED
  BY <1>1, <1>2, <1>3, <1>4, <1>5, <1>6, <1>7, Zenon

LEMMA SubmitC ==
    ASSUME PC!DeviceSound, NEW p \in Packets, DeviceC!SendPacket(p, TRUE)
    PROVE  PC!DeviceSound' /\ inputs <= inputs' /\ Submits(C, p)
<1>1. PC!SendPacket(p, TRUE) /\ PC!TypeOK
  BY StepsOfC, Zenon DEF PC!DeviceSound
<1>2. PC!Next
  BY <1>1 DEF PC!Next
<1>3. PC!DeviceSound' /\ inputs <= inputs'
  BY <1>2, AssumptionsOfC, PC!OwnStep
<1> DEFINE k == PC!Arrival
<1>4. /\ ~air'.sent /\ reported' = {} /\ tableC' = tableC
      /\ k \notin DOMAIN poolC /\ PC!FramesStay(DOMAIN poolC' \ {k})
      /\ k \in DOMAIN poolC' =>
            LET f == poolC'[k]
            IN  /\ f.self /\ f.source = address[C]
                /\ f.destination = p.destination /\ f.type = p.type
                /\ f.ackType = p.ackType /\ f.payload = p.payload
                /\ f.ackType # "NONE" => f.numTx = MAC_TX_RETRANSMISSION_RETRYS
  BY <1>1, AssumptionsOfC, PC!SubmittedSeen, Zenon
<1> HIDE DEF k
<1>5. Kept(C, DOMAIN pool'[C] \ {k})
  BY <1>4, Views DEF Kept, PC!FramesStay, SameMessage, PC!SameMessage
<1>6. QED
  BY <1>3, <1>4, <1>5, Views, Addresses, Zenon DEF Submits, FromPacket

LEMMA HandleC ==
    ASSUME PC!DeviceSound, NEW f \in HeardFrames, NEW rssi \in Rssis, DeviceC!HandleRx(f, rssi)
    PROVE  PC!DeviceSound' /\ inputs <= inputs' /\ Handles(C, f)
<1>1. PC!HandleRx(f, rssi) /\ PC!TypeOK /\ PC!IdsAreArrivals
  BY StepsOfC DEF PC!DeviceSound
<1>2. PC!Next
  BY <1>1, Zenon DEF PC!Next
<1>3. PC!DeviceSound' /\ inputs <= inputs'
  BY <1>2, AssumptionsOfC, PC!OwnStep
<1> DEFINE k == PC!Arrival
           l == PC!RelayArrival
<1>4. /\ ~air'.sent
      /\ DOMAIN tableC' \subseteq DOMAIN tableC \cup {f.source}
      /\ k \notin DOMAIN poolC /\ l \notin DOMAIN poolC
      /\ PC!FramesStay(DOMAIN poolC' \ {k, l})
      /\ k \in DOMAIN poolC' => PC!AnswerTo(f, poolC'[k])
      /\ l \in DOMAIN poolC' => PC!CopyOf(f, poolC'[l])
      /\ \A n \in DOMAIN poolC : poolC[n].id \in reported' => n \in PC!AckedFrames(f)
  BY <1>1, AssumptionsOfC, PC!ReceivedSeen, Zenon
<1>5. k # l
  <2>1. inputs \in Nat
    BY <1>1, AssumptionsOfC DEF PC!TypeOK, PC!InputAssumption
  <2>2. QED
    BY <2>1 DEF PC!Arrival, PC!RelayArrival
<1> HIDE DEF k, l
<1>6. Kept(C, DOMAIN pool'[C] \ {k, l})
  BY <1>4, Views DEF Kept, PC!FramesStay, SameMessage, PC!SameMessage
<1>7. k \in DOMAIN pool'[C] => AnswerTo(C, f, pool'[C][k])
  BY <1>4, Views, Addresses DEF AnswerTo, PC!AnswerTo, PC!ForUs
<1>8. l \in DOMAIN pool'[C] => CopyOf(C, f, pool'[C][l])
  BY <1>4, Views, Addresses DEF CopyOf, PC!CopyOf, PC!Matches, DeviceA!Matches,
     PC!HasExtendedHeader, DeviceA!HasExtendedHeader
<1>9. ASSUME NEW n \in DOMAIN pool[C], pool[C][n].id \in reported'
      PROVE  SettledBy(C, f, pool[C][n])
  BY <1>4, <1>9, Views, Addresses DEF SettledBy, PC!AckedFrames, PC!ForUs
<1>10. QED
  BY <1>3, <1>4, <1>5, <1>6, <1>7, <1>8, <1>9, Views, Zenon DEF Handles

LEMMA PollC ==
    ASSUME PC!DeviceSound,
           DeviceC!HandleTxNothing \/ (\E ok \in BOOLEAN : DeviceC!HandleTxTracking(ok))
               \/ DeviceC!HandleTxSent \/ DeviceC!HandleTxBusy
    PROVE  PC!DeviceSound' /\ inputs <= inputs' /\ Polls(C)
<1>1. /\ PC!TypeOK
      /\ PC!HandleTxNothing \/ (\E ok \in BOOLEAN : PC!HandleTxTracking(ok))
             \/ PC!HandleTxSent \/ PC!HandleTxBusy
  BY StepsOfC DEF PC!DeviceSound
<1>2. PC!Next
  BY <1>1 DEF PC!Next, PC!HandleTx
<1>3. PC!DeviceSound' /\ inputs <= inputs'
  BY <1>2, AssumptionsOfC, PC!OwnStep
<1>4. /\ reported' = {} /\ tableC' = tableC
      /\ IF air'.sent THEN \E n \in DOMAIN poolC : PC!Leaves(n)
                      ELSE PC!FramesStay(DOMAIN poolC')
  BY <1>1, AssumptionsOfC, PC!TransmittedSeen
<1>5. ASSUME NEW n \in DOMAIN poolC, PC!Leaves(n)
      PROVE  Sends(C, n)
  <2>1. /\ n \in DOMAIN poolC /\ SameMessage(poolC[n], air'.frame) /\ air'.frame \in DeviceA!Frame
    BY <1>5 DEF PC!Leaves, SameMessage, PC!SameMessage, PC!Frame, DeviceA!Frame,
                PC!Types, DeviceA!Types, PC!AckTypes, DeviceA!AckTypes,
                PC!Arrivals, DeviceA!Arrivals, PC!Ticks, DeviceA!Ticks
  <2>2. Kept(C, DOMAIN pool'[C] \ {n})
    BY <1>5, Views DEF PC!Leaves, Kept, PC!FramesStay, SameMessage, PC!SameMessage
  <2>3. IF (poolC[n].self /\ poolC[n].type = "TRACKING") \/ poolC[n].ackType = "NONE"
           \/ poolC[n].source # C
        THEN n \notin DOMAIN poolC'
        ELSE /\ poolC[n].numTx # 0
             /\ n \in DOMAIN poolC' => /\ SameMessage(poolC[n], poolC'[n])
                                       /\ poolC'[n].numTx = poolC[n].numTx - 1
    BY <1>5, Addresses DEF PC!Leaves, PC!OwnTracking, SameMessage, PC!SameMessage
  <2>4. QED
    BY <2>1, <2>2, <2>3, Views DEF Sends
<1>6. ~air'.sent => Kept(C, DOMAIN pool'[C])
  BY <1>4, Views DEF Kept, PC!FramesStay, SameMessage, PC!SameMessage
<1>7. QED
  BY <1>3, <1>4, <1>5, <1>6, Views DEF Polls

LEMMA ForgetC ==
    ASSUME PC!DeviceSound, DeviceC!Reinit
    PROVE  PC!DeviceSound' /\ inputs <= inputs' /\ Forgets(C)
<1>1. PC!Reinit
  BY StepsOfC
<1>2. PC!Next
  BY <1>1 DEF PC!Next
<1>3. PC!DeviceSound' /\ inputs <= inputs'
  BY <1>2, AssumptionsOfC, PC!OwnStep
<1>4. /\ poolC' = [n \in {} |-> 0] /\ tableC' = [a \in {} |-> 0]
      /\ ~air'.sent /\ reported' = {}
  BY <1>1 DEF PC!Reinit, PC!NothingSent, PC!NothingAcked, PC!Silence, PC!NoNeighbours
<1>5. QED
  BY <1>3, <1>4, Views DEF Forgets

(* When it takes no part in a step it is as sound as before. *)
LEMMA BystanderC ==
    ASSUME PC!DeviceSound, UNCHANGED stateC, SharedOK', inputs <= inputs'
    PROVE  PC!DeviceSound'
<1>1. PC!OtherStep
  BY DEF PC!OtherStep, stateC, SharedOK, address, Devices, PC!Ticks, DeviceA!Ticks,
         PC!Arrivals, DeviceA!Arrivals
<1>2. QED
  BY <1>1, AssumptionsOfC, PC!Bystander

(* It counts as we do, *)
LEMMA CountedByC ==
    \A S : PC!Cardinality(S) = Cardinality(S) /\ DeviceC!Cardinality(S) = Cardinality(S)
  BY Zenon DEF Cardinality, PC!Cardinality, DeviceC!Cardinality,
               IsFiniteSet, PC!IsFiniteSet, DeviceC!IsFiniteSet

(* starts sound, *)
LEMMA InitC == Init => PC!DeviceSound
<1> SUFFICES ASSUME Init PROVE PC!DeviceSound
  OBVIOUS
<1>1. /\ poolC = <<>> /\ sentC = <<>> /\ tableC = HeardBefore(C) /\ nextC = 0
      /\ tick = BootTick /\ acked = {} /\ reported = {} /\ inputs = 0
  BY DEF Init
<1>2. DOMAIN poolC = {} /\ poolC \in [DOMAIN poolC -> PC!Frame] /\ sentC \in [DOMAIN poolC -> Nat]
  BY <1>1, NothingYet
<1>3. Cardinality(DOMAIN poolC) <= MAX_BLOCKS
  BY <1>2, FS_EmptySet, DevicesAssumption DEF DeviceA!TimingAssumption
<1>4. /\ tableC \in PC!Tables /\ C \notin DOMAIN tableC
      /\ Cardinality(DOMAIN tableC) <= FANET_MAX_NEIGHBORS
  <2>1. C \in Devices
    BY DEF Devices
  <2>2. QED
    BY <1>1, <2>1, HeardBeforeType DEF PC!Tables, DeviceA!Tables, PC!Ticks, DeviceA!Ticks
<1>5. address[C] \in Address \ {BROADCAST}
  BY DevicesAreAddresses, Addresses DEF Devices
<1>6. 0 \in PC!Ticks /\ BootTick \in PC!Ticks
  <2>1. LAST_TICK \in 1 .. TICK_MOD - 1 /\ TICK_MOD \in Nat
    BY NetworkAssumption, DevicesAssumption DEF BootTick, DeviceA!TableAssumption
  <2>2. QED
    BY <2>1 DEF PC!Ticks, BootTick
<1>7. 0 \in 0 .. MAX_INPUTS
  BY DevicesAssumption DEF DeviceA!InputAssumption
<1>8. PC!TypeOK
  <2>1. DOMAIN poolC \subseteq 1 .. (2 * inputs + 1)
    BY <1>2
  <2>2. /\ acked \subseteq PC!Arrivals /\ reported \subseteq PC!Arrivals
        /\ 0 \in 0 .. 0
    BY <1>1
  <2>3. PC!Cardinality(DOMAIN poolC) <= MAX_BLOCKS
    BY <1>3, CountedByC
  <2>4. PC!Cardinality(DOMAIN tableC) <= FANET_MAX_NEIGHBORS
    BY <1>4, CountedByC
  <2>5. QED
    BY <1>1, <1>2, <1>4, <1>5, <1>6, <1>7, <2>1, <2>2, <2>3, <2>4, Zenon DEF PC!TypeOK
<1>9. PC!NotOwnNeighbour /\ PC!RelaysStop /\ PC!IdsAreArrivals
  BY <1>2, <1>4, Addresses DEF PC!NotOwnNeighbour, PC!RelaysStop, PC!IdsAreArrivals
<1>10. QED
  BY <1>8, <1>9 DEF PC!DeviceSound

(* what its pool can hold, and its types, are those of its instance. *)
LEMMA SharedByC == PC!DeviceSound => SharedOK
  BY DEF SharedOK, PC!DeviceSound, PC!TypeOK, PC!Ticks, DeviceA!Ticks, PC!Arrivals, DeviceA!Arrivals

LEMMA KnownByC ==
    ASSUME PC!DeviceSound, NEW n \in DOMAIN pool[C]
    PROVE  KnownFrame(C, pool[C][n])
<1>1. PC!TypeOK /\ PC!NotOwnNeighbour /\ PC!RelaysStop /\ n \in DOMAIN poolC
  BY Views DEF PC!DeviceSound
<1>2. poolC[n] \in DeviceA!Frame
  BY <1>1 DEF PC!TypeOK, PC!Frame, DeviceA!Frame, PC!Types, DeviceA!Types, PC!AckTypes,
              DeviceA!AckTypes, PC!Arrivals, DeviceA!Arrivals, PC!Ticks, DeviceA!Ticks
<1>3. QED
  BY <1>1, <1>2, Views, Addresses DEF KnownFrame, PC!NotOwnNeighbour, PC!RelaysStop

LEMMA TypedByC ==
    ASSUME PC!DeviceSound
    PROVE  DeviceC!TypeOK
<1>1. PC!TypeOK
  BY DEF PC!DeviceSound
<1>2. QED
  BY <1>1, CountedByC, Zenon
     DEF PC!TypeOK, DeviceC!TypeOK,
       PC!Frame, DeviceC!Frame, PC!Types, DeviceC!Types, PC!AckTypes, DeviceC!AckTypes,
       PC!Arrivals, DeviceC!Arrivals, PC!Ticks, DeviceC!Ticks, PC!Tables,
       DeviceC!Tables

-----------------------------------------------------------------------------
(* The steps of the network.                                                *)

AllSound == PA!DeviceSound /\ PB!DeviceSound /\ PC!DeviceSound

(* One device takes a step, the others none. *)
LEMMA OneSteps ==
    ASSUME AllSound, NEW d \in Devices, OthersStay(d), inputs <= inputs',
           d = A => PA!DeviceSound', d = B => PB!DeviceSound', d = C => PC!DeviceSound'
    PROVE  AllSound'
<1>1. d = A \/ d = B \/ d = C
  BY DEF Devices
<1>2. SharedOK'
  <2>1. /\ PA!DeviceSound' => SharedOK'
        /\ PB!DeviceSound' => SharedOK'
        /\ PC!DeviceSound' => SharedOK'
    BY SharedByA, SharedByB, SharedByC, PTL
  <2>2. QED
    BY <1>1, <2>1
<1>3. PA!DeviceSound'
  BY <1>2, BystanderA DEF AllSound, OthersStay
<1>4. PB!DeviceSound'
  BY <1>2, BystanderB DEF AllSound, OthersStay
<1>5. PC!DeviceSound'
  BY <1>2, BystanderC DEF AllSound, OthersStay
<1>6. QED
  BY <1>3, <1>4, <1>5 DEF AllSound

LEMMA OthersStaySame ==
    ASSUME NEW d \in Devices, OthersStay(d)
    PROVE  OthersSame(d)
  BY Views, ThreeDevices DEF OthersSame, OthersStay, stateA, stateB, stateC, Devices

LEMMA SendStep ==
    ASSUME AllSound, NEW p \in Packets, Send(p)
    PROVE  AllSound' /\ OthersSame(p.source) /\ Submits(p.source, p)
<1>1. p.source \in Devices /\ OthersStay(p.source)
  BY NetworkAssumption DEF Send
<1>2. CASE p.source = A /\ DeviceA!SendPacket(p, TRUE)
  <2>1. PA!DeviceSound' /\ inputs <= inputs' /\ Submits(A, p)
    BY <1>2, SubmitA, Zenon DEF AllSound
  <2>2. AllSound'
    BY <1>1, <1>2, <2>1, ThreeDevices, OneSteps
  <2>3. QED
    BY <1>1, <1>2, <2>1, <2>2, OthersStaySame
<1>3. CASE p.source = B /\ DeviceB!SendPacket(p, TRUE)
  <2>1. PB!DeviceSound' /\ inputs <= inputs' /\ Submits(B, p)
    BY <1>3, SubmitB, Zenon DEF AllSound
  <2>2. AllSound'
    BY <1>1, <1>3, <2>1, ThreeDevices, OneSteps
  <2>3. QED
    BY <1>1, <1>3, <2>1, <2>2, OthersStaySame
<1>4. CASE p.source = C /\ DeviceC!SendPacket(p, TRUE)
  <2>1. PC!DeviceSound' /\ inputs <= inputs' /\ Submits(C, p)
    BY <1>4, SubmitC DEF AllSound
  <2>2. AllSound'
    BY <1>1, <1>4, <2>1, ThreeDevices, OneSteps
  <2>3. QED
    BY <1>1, <1>4, <2>1, <2>2, OthersStaySame
<1>5. QED
  BY <1>2, <1>3, <1>4, Zenon DEF Send

LEMMA ReceiveStep ==
    ASSUME AllSound, NEW d \in Devices, Receive(d), Head(inbox[d]) \in HeardFrames
    PROVE  AllSound' /\ OthersSame(d) /\ Handles(d, Head(inbox[d]))
<1> DEFINE f == Head(inbox[d])
<1>1. PICK rssi \in Rssis :
          /\ \/ d = A /\ DeviceA!HandleRx(f, rssi)
             \/ d = B /\ DeviceB!HandleRx(f, rssi)
             \/ d = C /\ DeviceC!HandleRx(f, rssi)
          /\ OthersStay(d)
  BY DEF Receive
<1> HIDE DEF f
<1>2. CASE d = A /\ DeviceA!HandleRx(f, rssi)
  <2>1. PA!DeviceSound' /\ inputs <= inputs' /\ Handles(A, f)
    BY <1>2, HandleA DEF AllSound, f
  <2>2. AllSound'
    BY <1>1, <1>2, <2>1, ThreeDevices, OneSteps
  <2>3. QED
    BY <1>1, <1>2, <2>1, <2>2, OthersStaySame DEF f
<1>3. CASE d = B /\ DeviceB!HandleRx(f, rssi)
  <2>1. PB!DeviceSound' /\ inputs <= inputs' /\ Handles(B, f)
    BY <1>3, HandleB DEF AllSound, f
  <2>2. AllSound'
    BY <1>1, <1>3, <2>1, ThreeDevices, OneSteps
  <2>3. QED
    BY <1>1, <1>3, <2>1, <2>2, OthersStaySame DEF f
<1>4. CASE d = C /\ DeviceC!HandleRx(f, rssi)
  <2>1. PC!DeviceSound' /\ inputs <= inputs' /\ Handles(C, f)
    BY <1>4, HandleC DEF AllSound, f
  <2>2. AllSound'
    BY <1>1, <1>4, <2>1, ThreeDevices, OneSteps
  <2>3. QED
    BY <1>1, <1>4, <2>1, <2>2, OthersStaySame DEF f
<1>5. QED
  BY <1>1, <1>2, <1>3, <1>4

LEMMA TransmitStep ==
    ASSUME AllSound, NEW d \in Devices, Transmit(d)
    PROVE  AllSound' /\ OthersSame(d) /\ Polls(d)
<1>1. OthersStay(d) /\ HandleTx(d)
  BY DEF Transmit
<1>2. CASE d = A
  <2>1. DeviceA!HandleTxNothing \/ (\E ok \in BOOLEAN : DeviceA!HandleTxTracking(ok))
            \/ DeviceA!HandleTxSent \/ DeviceA!HandleTxBusy
    BY <1>1, <1>2, ThreeDevices, Zenon DEF HandleTx, Accepted
  <2>2. PA!DeviceSound' /\ inputs <= inputs' /\ Polls(A)
    BY <2>1, PollA DEF AllSound
  <2>3. AllSound'
    BY <1>1, <1>2, <2>2, ThreeDevices, OneSteps
  <2>4. QED
    BY <1>1, <1>2, <2>2, <2>3, OthersStaySame
<1>3. CASE d = B
  <2>1. DeviceB!HandleTxNothing \/ (\E ok \in BOOLEAN : DeviceB!HandleTxTracking(ok))
            \/ DeviceB!HandleTxSent \/ DeviceB!HandleTxBusy
    BY <1>1, <1>3, ThreeDevices, Zenon DEF HandleTx, Accepted
  <2>2. PB!DeviceSound' /\ inputs <= inputs' /\ Polls(B)
    BY <2>1, PollB DEF AllSound
  <2>3. AllSound'
    BY <1>1, <1>3, <2>2, ThreeDevices, OneSteps
  <2>4. QED
    BY <1>1, <1>3, <2>2, <2>3, OthersStaySame
<1>4. CASE d = C
  <2>1. DeviceC!HandleTxNothing \/ (\E ok \in BOOLEAN : DeviceC!HandleTxTracking(ok))
            \/ DeviceC!HandleTxSent \/ DeviceC!HandleTxBusy
    BY <1>1, <1>4, ThreeDevices, Zenon DEF HandleTx, Accepted
  <2>2. PC!DeviceSound' /\ inputs <= inputs' /\ Polls(C)
    BY <2>1, PollC DEF AllSound
  <2>3. AllSound'
    BY <1>1, <1>4, <2>2, ThreeDevices, OneSteps
  <2>4. QED
    BY <1>1, <1>4, <2>2, <2>3, OthersStaySame
<1>5. QED
  BY <1>2, <1>3, <1>4 DEF Devices

LEMMA RestartStep ==
    ASSUME AllSound, NEW d \in Devices, Restart(d)
    PROVE  AllSound' /\ OthersSame(d) /\ Forgets(d)
<1>1. OthersStay(d)
  BY DEF Restart
<1>2. CASE d = A /\ DeviceA!Reinit
  <2>1. PA!DeviceSound' /\ inputs <= inputs' /\ Forgets(A)
    BY <1>2, ForgetA DEF AllSound
  <2>2. AllSound'
    BY <1>1, <1>2, <2>1, ThreeDevices, OneSteps
  <2>3. QED
    BY <1>1, <1>2, <2>1, <2>2, OthersStaySame
<1>3. CASE d = B /\ DeviceB!Reinit
  <2>1. PB!DeviceSound' /\ inputs <= inputs' /\ Forgets(B)
    BY <1>3, ForgetB DEF AllSound
  <2>2. AllSound'
    BY <1>1, <1>3, <2>1, ThreeDevices, OneSteps
  <2>3. QED
    BY <1>1, <1>3, <2>1, <2>2, OthersStaySame
<1>4. CASE d = C /\ DeviceC!Reinit
  <2>1. PC!DeviceSound' /\ inputs <= inputs' /\ Forgets(C)
    BY <1>4, ForgetC DEF AllSound
  <2>2. AllSound'
    BY <1>1, <1>4, <2>1, ThreeDevices, OneSteps
  <2>3. QED
    BY <1>1, <1>4, <2>1, <2>2, OthersStaySame
<1>5. QED
  BY <1>2, <1>3, <1>4 DEF Restart

\* When time passes, and when nothing happens, all devices stay as they are.
LEMMA QuietStep ==
    ASSUME AllSound, TimePasses \/ UNCHANGED vars
    PROVE  AllSound' /\ pool' = pool /\ table' = table
<1>1. UNCHANGED <<stateA, stateB, stateC>> /\ inputs' = inputs
  BY DEF TimePasses, vars, common
<1>2. SharedOK'
  <2>1. SharedOK
    BY SharedByA DEF AllSound
  <2>2. CASE TimePasses
    <3>1. /\ tick < LAST_TICK /\ tick' = tick + 1 /\ acked' = {} /\ reported' = {}
      BY <2>2 DEF TimePasses
    <3>2. LAST_TICK \in BootTick .. TICK_MOD - 1 /\ TICK_MOD \in Nat
      BY NetworkAssumption, DevicesAssumption DEF DeviceA!TableAssumption
    <3>3. QED
      BY <1>1, <2>1, <3>1, <3>2 DEF SharedOK, DeviceA!Ticks, BootTick
  <2>3. CASE UNCHANGED vars
    BY <2>1, <2>3 DEF SharedOK, vars, common
  <2>4. QED
    BY <2>2, <2>3
<1>3. inputs <= inputs'
  <2>1. inputs' \in Int
    BY <1>2, DevicesAssumption DEF SharedOK, DeviceA!InputAssumption
  <2>2. QED
    BY <1>1, <2>1
<1>4. AllSound'
  BY <1>1, <1>2, <1>3, BystanderA, BystanderB, BystanderC DEF AllSound
<1>5. pool' = pool /\ table' = table
  BY <1>1 DEF pool, table, stateA, stateB, stateC
<1>6. QED
  BY <1>4, <1>5



LEMMA PoolsAreKnown == AllSound => KnownPools
  BY KnownByA, KnownByB, KnownByC DEF AllSound, KnownPools, Devices

(* A sound device shows no more than the proof of the network knows. *)
LEMMA StepsAreShown ==
    ASSUME AllSound, Traffic, [Next]_vars
    PROVE  AllSound' /\ Shown
<1>1. ASSUME NEW p \in Packets, Send(p)
      PROVE  AllSound' /\ OthersSame(p.source) /\ Submits(p.source, p)
  BY <1>1, SendStep
<1>2. ASSUME NEW d \in Devices, Receive(d)
      PROVE  AllSound' /\ OthersSame(d) /\ Handles(d, Head(inbox[d]))
  <2>1. Head(inbox[d]) \in HeardFrames
    BY <1>2, FirstHeard DEF Receive
  <2>2. QED
    BY <1>2, <2>1, ReceiveStep
<1>3. ASSUME NEW d \in Devices, Transmit(d)
      PROVE  AllSound' /\ OthersSame(d) /\ Polls(d)
  BY <1>3, TransmitStep
<1>4. ASSUME NEW d \in Devices, Restart(d)
      PROVE  AllSound' /\ OthersSame(d) /\ Forgets(d)
  BY <1>4, RestartStep
<1>5. ASSUME TimePasses \/ UNCHANGED vars
      PROVE  AllSound' /\ pool' = pool /\ table' = table
  BY <1>5, QuietStep
<1>6. AllSound'
  BY <1>1, <1>2, <1>3, <1>4, <1>5 DEF Next
<1>7. KnownPools'
  <2>1. AllSound' => KnownPools'
    BY PoolsAreKnown, PTL
  <2>2. QED
    BY <1>6, <2>1
<1>8. 0 \notin reported'
  <2>1. PA!DeviceSound' => SharedOK'
    BY SharedByA, PTL
  <2>2. SharedOK'
    BY <1>6, <2>1 DEF AllSound
  <2>3. QED
    BY <2>2, DevicesAssumption DEF SharedOK, DeviceA!Arrivals, DeviceA!InputAssumption
<1>9. QED
  BY <1>1, <1>2, <1>3, <1>4, <1>5, <1>6, <1>7, <1>8 DEF Shown

-----------------------------------------------------------------------------
(* The theorems.                                                            *)

LEMMA TrafficAlways == Spec => [](AllSound /\ Traffic)
<1>1. Init => AllSound /\ Traffic
  BY InitA, InitB, InitC, TrafficInitially DEF AllSound
<1>2. AllSound /\ Traffic /\ [Next]_vars => AllSound' /\ Traffic' /\ Shown
  BY StepsAreShown, TrafficPreserved
<1>3. QED
  BY <1>1, <1>2, PTL DEF Spec

LEMMA TypesOfTheNetwork == AllSound /\ Traffic => TypeOK
<1> SUFFICES ASSUME AllSound, Traffic PROVE TypeOK
  OBVIOUS
<1>1. DeviceA!TypeOK /\ DeviceB!TypeOK /\ DeviceC!TypeOK
  BY TypedByA, TypedByB, TypedByC DEF AllSound
<1>2. inbox \in [Devices -> Seq(DeviceA!RadioFrame)]
  <2> DEFINE S == GenuineFrames(delivered)
             T == DeviceA!RadioFrame
  <2>1. S \subseteq T
    BY DEF GenuineFrames
  <2>2. inbox \in [Devices -> Seq(S)]
    BY DEF Traffic, ChannelGenuine
  <2> HIDE DEF S, T
  <2>3. \A d \in Devices : inbox[d] \in Seq(T)
    BY <2>1, <2>2, SeqMonotonic
  <2>4. inbox \in [Devices -> Seq(T)]
    BY <2>2, <2>3
  <2>5. QED
    BY <2>4 DEF T
<1>3. QED
  BY <1>1, <1>2 DEF TypeOK, Traffic, DataOK

(* Every device and the channel between them keep their types: the packets  *)
(* the applications build and the frames the devices make of them are all   *)
(* that is ever heard.                                                      *)
THEOREM TypeCorrect == Spec => []TypeOK
  BY TrafficAlways, TypesOfTheNetwork, PTL

(* Whatever is lost, relayed, repeated or restarted: when the ACK of a      *)
(* packet is reported to an application that waits for no other one from    *)
(* there, the packet was handled by the device it went to.                  *)
THEOREM ConfirmedTruly == Spec => []ConfirmedWasDelivered
<1>1. AllSound /\ Traffic /\ ConfirmedWasDelivered /\ [Next]_vars => ConfirmedWasDelivered'
  BY StepsAreShown, ConfirmedPreserved
<1>2. QED
  BY <1>1, TrafficAlways, CountsInitially, PTL DEF Spec

(* The relays send a packet on no more often than its source sent it, and   *)
(* that is no more often than it may, when no application sends a packet to *)
(* its own device.                                                          *)
THEOREM RelaysAreBounded ==
    ASSUME NobodyWritesToItself
    PROVE  Spec => []RelaysFollowTheSource
<1>1. AllSound /\ Traffic /\ SourcesOK /\ [Next]_vars => SourcesOK'
  BY StepsAreShown, SourcesPreserved
<1>2. AllSound /\ Traffic /\ Traffic' /\ RelaysOK /\ [Next]_vars => RelaysOK'
  BY StepsAreShown, RelaysPreserved
<1>3. Traffic /\ SourcesOK /\ RelaysOK => RelaysFollowTheSource
  BY BoundKept
<1>4. QED
  BY <1>1, <1>2, <1>3, TrafficAlways, CountsInitially, PTL DEF Spec

=============================================================================
