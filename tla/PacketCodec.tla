------------------------------ MODULE PacketCodec ------------------------------
(****************************************************************************)
(* A packet and its octets on the air: the builder (packet.hpp with the     *)
(* headers, addresses, names and messages it writes), the parser            *)
(* (packetParser.hpp), and the second reader of the same octets, the frame  *)
(* in the pool (txFrame.hpp), which takes source, destination, type and     *)
(* payload from fixed places and sets the forward bit in the buffer.        *)
(*                                                                          *)
(* An application holds one packet object: it calls the setters in any      *)
(* order, builds a frame or an ACK of it, or has it replaced by what the    *)
(* parser makes of a frame. Optional fields are sets of at most one         *)
(* element. The payloads of fixed layout are their octets here: the modules *)
(* TrackingPayload, ServicePayload and GroundTracking tell what is in them. *)
(****************************************************************************)
EXTENDS Integers, SequencesExt

CONSTANTS
    Addresses,      \* Manufacturer and number of the devices
    Signatures,     \* Four octets, the highest first
    Texts,          \* Names and messages the application sets
    SubHeaders,     \* and the message's sub-header
    Reports,        \* Tracking, ground tracking and service payloads
    Heard,          \* Frames of other devices
    MaxFrameSize    \* Octets of a name or message an object has room for

ACK == 0
TRACKING == 1
NAME == 2
MESSAGE == 3
SERVICE == 4
GROUND_TRACKING == 7

NONE == 0
SINGLEHOP == 1
TWOHOP == 2

Octets == 0 .. 255

InputsAssumption ==
    /\ Addresses \subseteq [manufacturer : Octets, unique : 0 .. 2^16 - 1]
    /\ Signatures \subseteq [1 .. 4 -> Octets]
    /\ \A text \in Texts : text \in Seq(Octets)
    /\ SubHeaders \subseteq Octets
    /\ Reports \subseteq [type : {TRACKING, SERVICE, GROUND_TRACKING}, body : Seq(Octets)]
    /\ MaxFrameSize \in Nat

VARIABLES
    packet,     \* The application's packet object
    frame       \* The frame at hand, <<>> when the packet was changed since

vars == <<packet, frame>>

-----------------------------------------------------------------------------

Cut(text) == SubSeq(text, 1, IF Len(text) < MaxFrameSize THEN Len(text) ELSE MaxFrameSize)

\* Payload objects: what does not fit is left out.
Name(text) == [type |-> NAME, body |-> Cut(text)]
Message(subHeader, text) == [type |-> MESSAGE, body |-> <<subHeader>> \o Cut(text)]

\* Their deserialize(), and that of the payloads of fixed layout.
ParsedName(octets) == Name(octets)
ParsedMessage(octets) ==
    IF octets = <<>> THEN Message(0, <<>>) ELSE Message(Head(octets), Tail(octets))
ParsedPayload(type, octets) ==
    CASE type = NAME -> {ParsedName(octets)}
      [] type = MESSAGE -> {ParsedMessage(octets)}
      [] type \in {TRACKING, SERVICE, GROUND_TRACKING} -> {[type |-> type, body |-> octets]}
      [] OTHER -> {}

Weight(flag, weight) == IF flag THEN weight ELSE 0
Bit(octet, weight) == (octet \div weight) % 2 = 1

AddressBigEndian(a) == <<a.manufacturer, a.unique \div 256, a.unique % 256>>  \* Mutant
AddressOctets(a) == <<a.manufacturer, a.unique % 256, a.unique \div 256>>
AddressAt(f, i) == [manufacturer |-> f[i], unique |-> f[i + 1] + 256 * f[i + 2]]

HeaderOctet(p) == Weight(p.extended, 128) + Weight(p.forward, 64) + p.type
\* The reserved bits are written as zeros.
ExtendedOctet(e) ==
    64 * e.ack + Weight(e.unicast, 32) + Weight(e.signature, 16) + Weight(e.geoForward, 1)
ExtendedAt(f, i) ==
    [ack |-> f[i] \div 64, unicast |-> Bit(f[i], 32), signature |-> Bit(f[i], 16),
     reserved |-> (f[i] \div 2) % 8, geoForward |-> Bit(f[i], 1)]

\* An optional field's octets.
Optional(field, Write(_)) == IF field = {} THEN <<>> ELSE Write(CHOOSE x \in field : TRUE)

\* serializeHeader()
HeaderOctets(p) ==
    <<HeaderOctet(p)>> \o AddressOctets(p.source)
        \o (IF p.extendedHeader = {} THEN <<>>
            ELSE Optional(p.extendedHeader, LAMBDA e : <<ExtendedOctet(e)>>)
                    \o Optional(p.destination, AddressOctets)
                    \o Optional(p.signature, Reverse))

\* build(): nothing for an ACK or without a payload.
Built(p) ==
    IF p.type = ACK \/ p.payload = {} THEN <<>>
    ELSE HeaderOctets(p) \o Optional(p.payload, LAMBDA x : x.body)

\* What a frame's flags tell of its header.
IsExtended(f) == Bit(f[1], 128)
IsUnicast(f) == IsExtended(f) /\ Bit(f[5], 32)
IsSigned(f) == IsExtended(f) /\ Bit(f[5], 16)
HeaderSize(f) == 4 + Weight(IsExtended(f), 1) + Weight(IsUnicast(f), 3) + Weight(IsSigned(f), 4)

\* PacketParser::parse()
Parsed(f) ==
    LET extended == IsExtended(f)
        unicast == IsUnicast(f)
        signed == IsSigned(f)
        afterDestination == 6 + Weight(unicast, 3)
        type == f[1] % 64
    IN  [extended |-> extended, forward |-> Bit(f[1], 64), type |-> type,
         source |-> AddressAt(f, 2),
         extendedHeader |-> IF extended THEN {ExtendedAt(f, 5)} ELSE {},
         destination |-> IF unicast THEN {AddressAt(f, 6)} ELSE {},
         signature |-> IF signed
                       THEN {Reverse(SubSeq(f, afterDestination, afterDestination + 3))} ELSE {},
         payload |-> ParsedPayload(type, SubSeq(f, HeaderSize(f) + 1, Len(f)))]

\* The parser does not look where a frame ends: it has the octets of its header.
Whole(f) ==
    /\ f \in Seq(Octets) /\ Len(f) >= 4
    /\ IsExtended(f) => Len(f) >= 5
    /\ Len(f) >= HeaderSize(f)

HeardAssumption == \A f \in Heard : Whole(f)

-----------------------------------------------------------------------------
(* The frame in the pool.                                                   *)

NoAddress == [manufacturer |-> 0, unique |-> 0]

PayloadPositionSwapped == <<4, 4, 4, 4, 5, 8, 9, 12>>         \* Mutant
PayloadPosition == <<4, 4, 4, 4, 5, 9, 8, 12>>

FrameType(f) == f[1] % 64
FrameForward(f) == Bit(f[1], 64)
FrameSource(f) == AddressAt(f, 2)
FrameAckType(f) == IF Bit(f[1], 128) THEN f[5] \div 64 ELSE NONE
FrameDestination(f) ==
    IF Bit(f[1], 128) /\ Bit(f[5], 32) THEN AddressAt(f, 6) ELSE NoAddress
FramePayload(f) ==
    LET extended == Bit(f[1], 128)
        bits == Weight(extended, 4) + Weight(extended /\ Bit(f[5], 32), 2)
                                    + Weight(extended /\ Bit(f[5], 16), 1)
    IN  SubSeq(f, PayloadPosition[bits + 1] + 1, Len(f))

\* TxFrame::forward(): block_[0] |= 0x40 or &= ~0x40.
WithForward(f, on) == [f EXCEPT ![1] = @ - Weight(FrameForward(f), 64) + Weight(on, 64)]

-----------------------------------------------------------------------------

Init ==
    /\ packet = [extended |-> FALSE, forward |-> FALSE, type |-> ACK, source |-> NoAddress,
                 extendedHeader |-> {}, destination |-> {}, signature |-> {}, payload |-> {}]
    /\ frame = <<>>

Change(p) == packet' = p /\ frame' = <<>>

\* The extended header, a new one when the packet has none yet.
NewExtendedHeader ==
    [ack |-> NONE, unicast |-> FALSE, signature |-> FALSE, reserved |-> 0, geoForward |-> FALSE]
ExtendedHeaderOf(p) ==
    IF p.extendedHeader = {} THEN NewExtendedHeader ELSE CHOOSE e \in p.extendedHeader : TRUE
WithExtended(p, e) == [p EXCEPT !.extendedHeader = {e}, !.extended = TRUE]

Source(address) == Change([packet EXCEPT !.source = address])
Forward(on) == Change([packet EXCEPT !.forward = on])

\* NONE needs no extended header: it is ignored.
Ack(ackType) ==
    Change(IF ackType = NONE THEN packet
           ELSE WithExtended(packet, [ExtendedHeaderOf(packet) EXCEPT !.ack = ackType]))

\* Mutants: the extended header that is there is forgotten; the flag is.
DestinationAfresh(address) ==
    Change([WithExtended(packet, [NewExtendedHeader EXCEPT !.unicast = TRUE])
                EXCEPT !.destination = {address}])
DestinationUnmarked(address) ==
    Change([WithExtended(packet, ExtendedHeaderOf(packet)) EXCEPT !.destination = {address}])
Destination(address) ==
    Change([WithExtended(packet, [ExtendedHeaderOf(packet) EXCEPT !.unicast = TRUE])
                EXCEPT !.destination = {address}])

Signature(octets) ==
    Change([WithExtended(packet, [ExtendedHeaderOf(packet) EXCEPT !.signature = TRUE])
                EXCEPT !.signature = {octets}])

IsGeoForward ==
    Change(WithExtended(packet, [ExtendedHeaderOf(packet) EXCEPT !.geoForward = TRUE]))

Payload(p) == Change([packet EXCEPT !.type = p.type, !.payload = {p}])

Build ==
    /\ frame' = Built(packet)
    /\ UNCHANGED packet

\* buildAck() makes an ACK of the packet for good.
BuildAck ==
    /\ packet' = [packet EXCEPT !.type = ACK]
    /\ frame' = HeaderOctets(packet')

Hear(f) ==
    /\ frame' = f
    /\ UNCHANGED packet

Parse ==
    /\ frame # <<>>
    /\ packet' = Parsed(frame)
    /\ UNCHANGED frame

SetForward(on) ==
    /\ frame # <<>>
    /\ frame' = WithForward(frame, on)
    /\ UNCHANGED packet

Next ==
    \/ \E a \in Addresses : Source(a)
    \/ \E on \in BOOLEAN : Forward(on)
    \/ \E ackType \in {NONE, SINGLEHOP, TWOHOP} : Ack(ackType)
    \/ \E a \in Addresses : Destination(a)
    \/ \E s \in Signatures : Signature(s)
    \/ IsGeoForward
    \/ \E text \in Texts : Payload(Name(text))
    \/ \E text \in Texts, subHeader \in SubHeaders : Payload(Message(subHeader, text))
    \/ \E report \in Reports : Payload(report)
    \/ Build
    \/ BuildAck
    \/ \E f \in Heard : Hear(f)
    \/ Parse
    \/ \E on \in BOOLEAN : SetForward(on)

Spec == Init /\ [][Next]_vars

-----------------------------------------------------------------------------

ExtendedHeaderValues ==
    [ack : 0 .. 3, unicast : BOOLEAN, signature : BOOLEAN, reserved : 0 .. 7, geoForward : BOOLEAN]

(* Whatever was called, the flags tell what follows: the extended bit of    *)
(* the extended header, its bits of destination and signature; and a        *)
(* payload is of the packet's type, but in a packet that was made an ACK.   *)
TypeOK ==
    /\ packet.extended = (packet.extendedHeader # {})
    /\ packet.extendedHeader \subseteq ExtendedHeaderValues
    /\ \A e \in packet.extendedHeader :
          /\ e.unicast = (packet.destination # {})
          /\ e.signature = (packet.signature # {})
    /\ packet.extendedHeader = {} => packet.destination \cup packet.signature = {}
    /\ \A p \in packet.payload : packet.type \in {p.type, ACK}
    /\ frame \in Seq(Octets)

\* The reserved bits are not sent.
Sent(p) ==
    [p EXCEPT !.extendedHeader = {[e EXCEPT !.reserved = 0] : e \in p.extendedHeader}]

(* Built and parsed, a packet is the same, whichever optional fields it     *)
(* has and in whatever order they were set; an ACK is without its payload.  *)
ParsedIsBuilt ==
    /\ Built(packet) # <<>> => Parsed(Built(packet)) = Sent(packet)
    /\ \A p \in {[packet EXCEPT !.type = ACK]} :
          Parsed(HeaderOctets(p)) = [Sent(p) EXCEPT !.payload = {}]

Room(type) == CASE type = NAME -> MaxFrameSize [] type = MESSAGE -> MaxFrameSize + 1
                [] OTHER -> Len(frame)

(* The pool's frame and the parser read the same of the same octets, of     *)
(* other devices' frames too: source, destination, type, forward bit,       *)
(* requested ACK, and the payload at the place where the parser finds it,   *)
(* as far as a payload object has room for it.                              *)
PoolReadsWhatTheParserReads ==
    frame # <<>> =>
        LET p == Parsed(frame)
            octets == FramePayload(frame)
        IN  /\ FrameSource(frame) = p.source
            /\ FrameType(frame) = p.type
            /\ FrameForward(frame) = p.forward
            /\ {FrameAckType(frame)} = IF p.extended THEN {e.ack : e \in p.extendedHeader}
                                                     ELSE {NONE}
            /\ {FrameDestination(frame)} = IF p.destination = {} THEN {NoAddress}
                                                                 ELSE p.destination
            /\ \A payload \in p.payload :
                  octets # <<>> =>
                      payload.body = SubSeq(octets, 1, IF Len(octets) <= Room(p.type)
                                                       THEN Len(octets) ELSE Room(p.type))

(* A relay changes the forward bit in the buffer and nothing else of what   *)
(* the next receiver parses.                                                *)
ForwardBitAlone ==
    \A on \in BOOLEAN :
        SetForward(on) => Parsed(frame') = [Parsed(frame) EXCEPT !.forward = on]

\* The fields of a packet that the setters set one by one.
Fields(p) ==
    [source |-> p.source, forward |-> p.forward, destination |-> p.destination,
     signature |-> p.signature, ack |-> ExtendedHeaderOf(p).ack,
     geoForward |-> ExtendedHeaderOf(p).geoForward, payload |-> p.payload]

(* A setter that finds or makes the extended header leaves what others have *)
(* put there: one field of the packet changes at a time, and none is taken  *)
(* away. Only the parser makes another packet.                              *)
OneFieldAtATime ==
    \/ Parse
    \/ \E p \in {packet'} :
          LET before == Fields(packet)
              after == Fields(p)
          IN  /\ \E x \in DOMAIN before : \A y \in DOMAIN before \ {x} : before[y] = after[y]
              /\ packet.extended => p.extended

=============================================================================
