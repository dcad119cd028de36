# FANET: specifications, model checking and proofs

This directory holds TLA+ specifications of the FANET library in `../src`: a
C++ header library with which small aircraft and ground stations talk over a
LoRa mesh. An application drives it from one thread: it hands in packets
(`sendPacket`), received frames (`handleRx`) and polls for transmissions
(`handleTx`). The library calls back through `Connector` for the clock, the
radio and the report of an ACK.

Contents: [the system](#the-system) · [modules](#modules) ·
[abstractions](#abstractions) · [runs](#runs) · [fairness](#fairness) ·
[proofs](#proofs) · [disagreements](#where-code-and-documents-disagree) ·
[not modelled](#not-modelled) · [plan](#plan)

## The system

| Component (`src/include/fanet/`) | State | Operations | What makes it correct |
|---|---|---|---|
| Protocol engine, `protocol.hpp` | pool of frames, neighbour table, own address, time of the next transmission, backoff exponent, airtime | `sendPacket`, `handleRx`, `handleTx`, `ownAddress`, `init` | retries are counted exactly; nothing but an ACK or the last retry ends a packet's waiting; no duplicate relays, no flooding, no relaying of own frames; every queued frame leaves |
| Pool memory, `blockAllocator.hpp` | byte array, bitmap of blocks, vector of objects with spans | `add`, `remove`, `clear`, in-place edits | spans never overlap, the bitmap is exact, the order of arrival is kept |
| Transmit frame, `txFrame.hpp` | a span, `nextTx`, `numTx`, `self`, `rssi`, `id` | setters and getters over the bytes | edits stay in the span; fields keep their widths |
| Neighbour table, `neighbourTable.hpp` | up to 30 pairs of address and last tick | `addOrUpdate`, `remove`, `removeOutdated`, `clear`, `lastSeen` | entries are current; who is forgotten, and when, also across the wrap of the clock |
| Position report, `tracking.hpp` | raw fields and scale bits | setters, getters, `serialize`, `deserialize` | the receiver reads what the sender set, within the resolution |
| Packet builder, headers, addresses, `packet.hpp`, `header.hpp`, `extendedHeader.hpp`, `address.hpp` | one packet object with optional fields | setters in any order, `build`, `buildAck` | flags and fields agree; the receiver parses what was built |
| Packet parser, `packetParser.hpp` | – | `parse` | it reads the octets as the pool's getters (`txFrame.hpp`) read them |
| Name and message payloads, `name.hpp`, `message.hpp` | text of limited size | setters, `serialize`, `deserialize` | what fits arrives |
| Service payload, `service.hpp` | header flags, values, scale bits | setters, getters, `serialize`, `deserialize` | each value is found whichever others are there; written again it is the same |
| Ground tracking payload, `groundTracking.hpp` | position and three values in one octet | as above | a value touches no other; a report can be passed on unchanged |
| Airtime, `utils.hpp` | decaying sum and the tick of its last decay | `set`, `get`, `LoraAirtime` | it never forgets too early, does not overflow, and lets frames pass again |
| Statistics, `protocol.hpp` | thirteen counters | in `handleRx`, `handleTx` | they count what became of the frames |
| A network of such devices | – | – | a reported ACK means delivery; relays do not feed each other; traffic ends |
| Zones, `zone.hpp` | constant table | `findZone` | the innermost zone is found |
| Connector, `connector.hpp` | – | `fanet_getTick`, `fanet_sendFrame`, `fanet_ackReceived` | the environment |

The components interact by plain calls. `Protocol` owns a `BlockAllocator` of
`TxFrame`s and a `NeighbourTable`; every handler runs to its end before the
next one starts, so that a step of the model is a call. What is hard here is not
threads but **sequences**: received frames, ACKs, echoes, polls and the
application's calls in any order; a radio that refuses; ACKs that are late,
repeated or lost; a pool that is full; a 32-bit millisecond clock that wraps
and that is compared as a number in some places and as a difference in others.

## Modules

| Module | Models | Used by |
|---|---|---|
| `FramePool` | what a pool of frames promises: an ordered list whose elements keep their bytes | `BlockAllocator` |
| `BlockAllocator` | the memory of the pool, implements `FramePool` | `MCBlockAllocator`, proofs |
| `NeighbourOps` | the neighbour table as a value: what each call makes of it | `NeighbourTable`, `Protocol` |
| `NeighbourTable` | the table on its own, with a history of real time | `MCNeighbourTable`, proofs |
| `ReliableSend` | what the protocol promises an application that asks for an ACK | `Protocol` |
| `Protocol` | the protocol engine of one device, implements `ReliableSend` | `MCProtocol`, proofs |
| `AirtimeOps` | `LoraAirtime` and the class `Airtime` as operators on its two fields | `Airtime`, `FrameTime`, `ProtocolAirtime` |
| `Airtime` | the sum under any pattern of frames, refusals and looks, with the true history beside it | `MCAirtime`, proofs |
| `FrameTime` | the airtime of every frame length beside the wait `handleTx` computes | `Codecs` |
| `ProtocolAirtime` | the engine whose gates are decided by the sum, and the tick that `handleTx` returns; implements `Protocol` | `MCProtocolAirtime`, proofs |
| `ProtocolStats` | the engine with its counters of relayed frames | `MCProtocol`, proofs |
| `Network` | three instances of `Protocol`, a channel that loses frames, restarts, one clock | `MCNetwork`, proofs |
| `PayloadOps` | octets, scaled and clamped numbers, coordinates | the payload modules |
| `TrackingPayload`, `ServicePayload`, `GroundTracking` | a report object and its octets | `Codecs` |
| `PacketCodec` | the packet object, its octets, the parser, and the getters of the frame in the pool | `Codecs` |
| `Zones` | the table and the search | `Codecs` |
| `Codecs` | the objects of the five modules above and of `FrameTime`, one per behaviour: they share no state | `MCCodecs`, proofs |
| `NeighbourLemmas` | lemmas: the clock's arithmetic, table operations | `NeighbourTableProofs`, `ProtocolProofs` |
| `BlockAllocatorProofs`, `NeighbourTableProofs`, `ProtocolProofs`, `ProtocolVariantsProofs`, `AirtimeProofs`, `CodecProofs`, `NetworkProofs` | the theorems | |
| `MC…` | finite instances | the runs |

Next to some operators stands a variant whose comment calls it a mutant: a
plausible mistake in the same code. No specification uses it; with it in place
of the operator that follows it, one of the properties fails.

### Protocol: state and actions

| Model | Code |
|---|---|
| `txPool`, a function from arrival numbers to frames | `txPool`; the order of the numbers is the order of the vector |
| `neighborTable_`, `ownAddress_`, `cmcaNextTx`, `carrierBackoffExp` | the members of the same names |
| `tick` | what `fanet_getTick()` returns |
| `air` | the frame given to `fanet_sendFrame` in this step, and its answer |
| `acked`, `reported` | ids of the sent packets settled in this step; ids given to `fanet_ackReceived` |
| `sent` | history: how often each frame was sent |
| `inputs` | bound of the model, and source of arrival numbers |

| Action | Call |
|---|---|
| `SendPacket(p, strict)` | `sendPacket`, with `numTx` any of 0..7 when `strict` is false, because the code leaves it uninitialised |
| `SetOwnAddress(a)`, `Reinit` | `ownAddress`, `init` |
| `RxFromUs`, `RxEcho`, `RxNew` | `handleRx` along its three branches: our own frame, a frame that is queued, any other. `RxNew` includes the answer (an ACK settles, a request is acknowledged) and the relaying that follow in the same call |
| `HandleTxWaits` | `handleTx` returns early: not the time yet, or airtime holds the frame back |
| `HandleTxNothing` | no frame is due, after the ones given up were removed |
| `HandleTxTracking(ok)`, `HandleTxSent`, `HandleTxBusy` | one frame is offered to the radio, which accepts or refuses it |
| `TimePasses` | the clock |

The recursion of `handleTx` (it calls itself after removing a frame that was
never acknowledged) is closed: `GivenUp` is the set of all frames one call
removes, `Remaining` the pool the last of the nested calls works on.

### ProtocolAirtime and ProtocolStats

Both extend `Protocol` and conjoin each of its actions with what the code does
besides. In `ProtocolAirtime` the free choices of the gates are replaced by
comparisons with the sum (500 thousandths for relaying in `handleRx`, 900 for
frames other than our own tracking in `handleTx`), `CountFrame` is the call of
`airtime.set` in `sendFrame`, made before the radio is asked, and `wake` is the
tick an application calls `handleTx` next: at any time, at every tick, or when
the last call said (`POLLING`). `ProtocolStats` adds two of the counters, of the
frames taken to be relayed and of those dropped for a good echo; its history
`passedOn` counts the relayed frames the radio took. The other eleven counters
count calls and refusals one by one.

### Network

`DeviceA`, `DeviceB` and `DeviceC` are instances of `Protocol` with variables of
their own. `inbox[d]` holds what a device has heard and its application has not
yet handed to `handleRx`. `Transmit(d)` is a call of `handleTx`; the frame sent
is put into the inboxes of any of the devices in range, or of all of them on a
lossless channel. `Restart(d)` is `init` and forgets pool and table, while
frames and ACKs for the device are still under way. The histories `delivered`,
`confirmed` and `shots` say which packets their receivers handled, which ids
were reported, and how often each device sent each packet.

### PacketCodec and the payloads

A packet or report is the record of the object's members, and each setter is an
action that may be called at any time, again and in any order. `Built`,
`Written` and `Parsed` work on sequences of octets, with the byte orders and bit
positions of the code. A frame at hand is parsed into the same object (`Parse`,
`Receive`), which may then be changed and sent on. `PacketCodec` has the second
reader of the same octets as well, the getters of `TxFrame`, which take the
fields from places of a table and change the forward bit in the buffer.

## Abstractions

- **One block per frame** in `Protocol`. The pool refuses a frame when
  `MAX_BLOCKS` frames are stored. `BlockAllocator` has frames of several blocks
  and shows when a refusal comes earlier; every refusal leaves the pool as it
  was, in both.
- **Ids** of packets are distinct (the arrival number) or 0. An application that
  reuses ids sees less.
- **Airtime** is a choice in `Protocol`: the gates of `handleRx` (relaying) and
  `handleTx` may be open or closed. `ProtocolAirtime` decides them, and
  implements `Protocol` (a theorem), so that all its safety properties hold.
- **The clock** has `TICK_MOD` ticks. With 4 of them the runs pass the wrap and
  the half turn many times. All comparisons are the code's: modulo where it
  subtracts as `uint32_t`, as numbers where it compares directly.
- **Time moves only in `TimePasses` and during `fanet_sendFrame`** (`SendTimes`),
  where `handleTx` reads the clock again. The nested calls of `handleTx` read
  it too; a tick that passes between two of them is a `TimePasses` between two
  calls in the model.
- **Addresses**: no frame comes from the broadcast address. `Address{}`, `0x0`
  and `0xFFFFFF` are not told apart: the model has one reserved address, the
  destination of broadcasts.
- **A frame** is its header fields and a payload value. `Matches` compares what
  `frameInTxPool` compares: source, destination, type, payload and the size,
  which tells whether there is an extended header. Signatures and the geo-forward
  bit are left out of `Protocol`, and so are frames whose extended header has
  nothing else in it (`PacketCodec` has the signatures).
- **Random delays** are any value of their range.
- **Counters** of `ProtocolStats` wrap at `COUNTER_MOD`; the property about them
  speaks of runs with fewer calls than that. `doForward`, which no method sets
  to false, and printing are left out.
- **Empty frames**: `Packet::build()` of a packet without payload returns an
  empty buffer, and `sendPacket` stores a frame of no bytes whose getters then
  read outside of it. `BlockAllocator` assumes frames with bytes
  (`FramesAssumption`), `Protocol` packets with a payload.
- **Payloads**: floats are taken after `roundf`, in units of the field, and the
  getters' divisions are compared as integers. What `roundf` does to a float
  is the compiler's.
- **Frames are well-formed**: as long as their headers say, and they fit the
  buffers of builder and parser. In `PacketCodec` an optional member is a set of
  at most one element; only names and messages are longer than their room.
- **Payloads in `PacketCodec`** of fixed layout are octets; what is in them is
  the matter of the payload modules.
- **Zones**: positions are in half degrees, the coarsest grid on which the cut to
  whole degrees can be told from the position.
- **Network**: frames reach a device in the order they were sent, no two collide,
  and who is in range of whom does not change. The airtime gates stay open
  on the lossless channel and are free on the other.

## Runs

`tlc -config <cfg> <module>`. The bounds are in the cfgs; each is named here
when it matters.

| Run | cfg | Question and result | Size |
|---|---|---|---|
| allocator | `MCBlockAllocator` | Are spans disjoint, is the bitmap exact, is the vector never overrun, is it a `FramePool`? Four blocks of two bytes, frames of one to three blocks: enough for holes of every size between frames. | 34 876 states |
| table | `MCNeighbourTable` | Are entries current, is the eviction order right before the wrap and the clean-up exact across it? Three devices, room for two, 8 ticks, starts with and without a wrap. | 7 654 states |
| engine | `MCProtocol` | Own messages and positions, frames to be relayed, requests and ACKs of two neighbours, weak and strong, copies, our own frame coming back, a radio that refuses, a reserved address, restarts, a pool of two. Are the retries counted, is `ReliableSend` implemented, does every packet that stops waiting do so for a reason, and is its ACK reported? No duplicate relays, no relays of own frames, broadcasts stop after one hop, every relayed frame is counted. | 523 080 states |
| gate | `MCProtocolAirtimeGate` | The engine under its gates, polled at any time, with messages, own tracking, relays, echoes and a new address. Is the sum bounded in the engine too, where our own tracking passes a closed gate and refused frames count? | 1 874 016 states |
| live | `MCProtocolAirtimeLive` | Polled as `handleTx` asks for, does every frame leave, with a gate that closes? Messages to a neighbour, own positions and relayed frames, two of them, so that several wait behind a closed gate or are given up in one call. | 178 506 states |
| airtime | `MCAirtime` | A window of ten ticks, frames of one and three, looked at in any pattern, across the wrap. Is the sum bounded until the wrap (so that no product leaves 32 bits), and does it never, also beyond it, say less than the frames of the last window weighted by their age? | 2 483 679 states |
| net | `MCNetwork` | A message through the relay, to be acknowledged all the way back, and a relayed broadcast, over a channel that loses frames, with a restart of any device at any time. Was what is confirmed delivered, does no device send a packet more often than its source, and does the traffic end? | 60 960 states |
| net_timed | `MCNetworkTimed` | Two messages that cross in the relay, on a free channel, a tick being 100 ms. Do relaying delays and retry times fit together: confirmed with one transmission? | 58 109 states |
| codecs | `MCCodecs` | *Reports*: setters in any order, each value at its bounds, clamped, and on both sides of its scale, all 256 headers of the service payload. Does the receiver read what the sender reads, can a value be wrong in any other way than by a stale scale bit, does a setter touch one value, is what was received written again the same? Yes, with three exceptions that the properties state: a turn rate of 64 is received as -64, a position report that is written again loses its turn rate, a service report a position that came alone. *Packets*: two devices, all setters, frames of others with bits this code never sends. Do builder, parser and pool agree on every octet? *Frames*: 1 to 255 bytes, zero to nine neighbours, the numbers of the code. Does the wait after a frame cover its time on the air, and is the integer computation within 2 ms of the exact one? *Zones*: positions at every border of every zone, half a degree and a degree off. Is the innermost zone found, and how far does the cut move a border? | 98 856 states |

Three more runs (`boot`, `gate_frozen`, `net_late_ack`) each check one statement
of a document or comment that the code does not keep; see
[below](#where-code-and-documents-disagree).

*Why the bounds are enough.* Three inputs in `engine` allow two frames in a
pool of two with an ACK, an echo or a third frame that finds it full; all
transmissions of a packet (two; three in `net_timed`, one in `gate` and `net`) and
several turns of the clock take place, since only inputs are bounded and polls
and ticks are not. The clock of four ticks also moves inside `fanet_sendFrame`. `gate` has two inputs, enough for a packet and a change of
address, an own and a relayed frame, or a relayed frame and its echo. `live` has
two as well: two frames due behind a closed gate, a message with our own
tracking behind it, two frames given up in one call; one backoff exponent,
because the liveness graph is large. What the bounds leave out is a long train
of inputs, and changes of the address to another usable one while packets wait
(`engine` tries a reserved one): there the proofs take over, which have no bounds.

`airtime` runs for almost two windows and across the wrap; a frame of three in a
window of ten closes the gate, as a long frame in a device that sends all the
time would. `gate` and `gate_frozen` have frames of three in the same window, so
that three of them close it, and a wait of 3 after each. `live` has frames of two
in a window of three, which two of them close, a wait of 1 after each, and a
clock of 12 ticks, four windows, because a clock as short as a window would
itself make frames miss their turn.

In `net` every delay is 0, so that all orders of events are possible, also those
that need an ACK to be slower than all retries; `inputs` is never the limit
there, packets and restarts are. A packet has one transmission in it; that the
retries of a source do not multiply on their way is the theorem
`RelaysAreBounded`, which has any number of them. `net_timed` and `net_late_ack` take the delays
of the code, in ticks of 100 ms, for two seconds. `codecs` needs no length:
objects have no history but the scale bits and flags that earlier calls left,
and the run reaches all their states.

## Fairness

`GatedFairSpec` (`live`): the clock runs (weak fairness); `handleTx` is called when
its time has come (strong fairness, since the call is disabled by a clock that
wraps meanwhile); and a radio that is offered a frame again and again takes it,
because the channel becomes free (strong fairness of the calls that send). That
the airtime gate opens again is not assumed, it follows from the decay.
`GatedFramesLeave` excepts two accidents of the wrapping clock: `Overlooked`, a
frame of the lowest priority due at the highest tick, which `getNextTxFrame`
never finds, and a frame and the channel access waiting for ticks so far apart
that the ticks at which both are reached are fewer than a window
(`CommonTicks`). With a clock of 2³² ms that is a frame that waits within 30 s of
half a turn away from the channel access. Echoes without end are excluded
because inputs are bounded; with them a relayed frame could be postponed for
ever, by the code as well; no property claims otherwise.

`FairSpec` of `Network` (`net`, `net_timed`) is weak fairness of applications that
send, of devices that handle what they heard, of polls that make progress, and
of the clock. It does not say which device is served; it suffices for the
network to fall silent because each of these steps uses up something.

## Proofs

Checked by TLAPS for all values of the constants that satisfy the named
assumptions of the modules.

**BlockAllocator.** The inductive invariant is `TypeOK`, every object starts at
a block boundary and ends within the pool (`AllWellPlaced`), `ExtentsDisjoint`
and `MapExact`. The last two need each other: `add` looks at the bitmap and not
at the objects, so disjointness of a new object follows from the exactness of
the bitmap, and clearing an object's bits keeps the bitmap exact only because
no other object has them. `NeverOverrun` counts: mapping each object to its
first block is injective into `MAX_BLOCKS` blocks. `Implements` needs
`NoSharedByte`, the arithmetic from disjoint blocks to disjoint bytes, and
`RemoveAtProperties`: erasing from the vector moves the later elements up.

**NeighbourTable.** `TypeOK`, `EntriesAreCurrent` and `HeardInPast` are
inductive. `EvictionOrder` rests on the order of ticks being the order of times
before the wrap, `CleanupAcrossWrap` on `ElapsedTicks`: differences of ticks
modulo `TICK_MOD` are differences of times, if less than a turn has passed
(`MAX_TIME < TICK_MOD`, the assumption of that theorem).

**Protocol.** `TypeCorrect` includes that `numTx` stays in its three bits,
which is not evident: `numTx - 1` is taken only after frames with 0 left that
wait for an ACK were removed (`PickedMayBeSent`). For the rest, `PoolSteps`
says once for every action which frames stay, come and leave, and what stays of
them. Then:
`TransmissionsCounted` (`RetryBudget` is inductive with `TypeOK`, if all packets
are strict); `NeverRelaysOwn` (if the address stays: a frame in the pool may
have been relayed under an earlier one); and with `PromiseInv` (`TypeOK`,
`RetryBudget`, and our own frames have our address) the refinement
`PromiseIsKept` and `WaitingEndsForAReason`. `ReliableSend` allows a restart at
any time and an ACK from anyone at any time, since these are the environment's;
`LostForAReason` is the other half: the step that ends the waiting *is* such an
ACK or restart.
`BroadcastsStop` follows from `RelaysStop` (a queued broadcast of another device
has no forward bit), which `handleTx` could break but does not: the bit it sets
is that of unicast frames. `RelayedOnce` needs that `frameInTxPool` finds a
match whenever there is one (`NothingMatches`: it looks for the first, and a
set of numbers has a least one), that the copy is the only frame of another
device a step can add, and that nothing `handleTx` changes in a frame counts
for `Matches`. `AckIsReported` rests on `IdsAreArrivals`: no frame changes its
id and none gets that of another, so an id that is settled and not reported
belongs to a packet with a later one behind it.

**Airtime.** `Bounded`: the sum is a word and, until the clock wraps, stays
within the window and two of the longest frames. The invariant has to say why a
second frame cannot come at once: the engine waits after each frame for as long
as it lasts, and the sum may exceed a window and a frame only while the last
frame is on the air (`Paced`); a special case is tick 0, which the code takes
for "never looked at" (`Untouched`). Beyond the wrap the bound is not true: a
look that falls on tick 0 counts as none, and what it should have taken off
stays. With the clock of `airtime` let run to 27, two turns of 13 ticks, TLC
finds a sum of 17, one more than a window and two frames. So the bound of
`TypeOK` is one for the first turn, 49 days.

`Covers`: the sum never says less than the frames of the last window, each
weighted by its age. The invariant `Covered` states it at the tick of the last
decay, in products so that nothing is rounded in it. Two facts keep it. What a
frame still counts for falls by its length at every tick, so the shares together
fall at least as fast as the part of them that a decay may take off
(`SharesFall`); and what `cleanup` takes off is at most that part of the total,
whatever the division drops (`TakesItsShare`). The property has a sum over a set
of frames, which the library defines by recursion. It is proved about without
that definition being computed: `SumsUpTo` says what a sum is by the set of its
elements' removals, and a least counterexample on the number of elements does
what an induction would. `CoversWhileItFits` has no assumption about the clock,
starts and wraps are any, and only one about the sum, that its word has room for
one more frame (`Fits`): a product may overflow, since a remainder is never more
than the product itself, and then too little is taken off. `Covers` needs no
such assumption: in the first turn of the clock `Bounded` gives it.

**ProtocolAirtime** (in `ProtocolVariantsProofs`). `GatesOnlyHoldBack`: `GatedSpec => Spec`, each call with the
gates is the same call without. `GatedRetryBudget` and `GatedPromiseKept` carry
the theorems of `Protocol` over; the others follow in the same way.

`TotalIsBounded` proves `GatedTypeOK` until the clock wraps (`ClockRunsOn`). In
`Airtime` the engine is silent after a frame by assumption; here that is what
`cmcaNextTx` does. Our own tracking passes a closed gate, so the total can exceed
a window, but not by more than a frame *and* the time that the channel access
still keeps the engine quiet (`TotalInv`): a total above the window loses one at
least in every tick, and so does that time (`QuietShrinks`). A refused frame may
be offered again much sooner than it is long; the open gate bounds the total
before it (`OpenGate`). The bounds of a decay and of an open gate are the lemmas
of `AirtimeProofs`, taken by an instance. The times are compared as the code
compares ticks, so `FramesSpaced` asks that none is longer than half a turn of
the clock, besides what the constants of the code give: 15 ms and 2 ms a byte
are more than the airtime of any frame, no backoff is 0, and a window and two
frames fit the products.

**ProtocolStats** (in `ProtocolVariantsProofs`). `RelayingIsCounted`. The invariant `StatsInv` adds two facts to
`RelaysAreCounted`: our own frames have our address (in `PromiseInv`), so that
what an echo takes out of the pool is a relayed frame and was counted, and no
counter exceeds the number of calls (`CountersOK`), so that none has wrapped
before `COUNTER_MOD` calls. Each call then changes the number of relayed frames
in the pool by one at most (`NewBringsOne`, `EchoTakesRelay`,
`SentRelayLeaves`), and counts it; `PoolSteps` and its parts give the rest.

The two assumptions of the theorems about `Protocol` are real. A packet that is
not strict has a `numTx` that was never set and is sent any number of times, and
may have any address as its source; after a change of
address, an old packet is no longer recognised as ours and is removed after one
more transmission, so that `PromiseKept` would not hold; `RetryBudget`, which is
about the packets that still wait, needs strict packets alone. ACKs queued
under an earlier address count as frames of another device, and there may be
two alike of them, so `RelayedOnce` assumes a fixed address too.

**Network.** `TypeCorrect`, `ConfirmedTruly` and `RelaysAreBounded`, for any packets
of the applications, any ranges, neighbours, losses, orders of handling,
restarts and delays. The proof has two layers.

*One device.* `PA`, `PB` and `PC` are instances of `ProtocolProofs` that are given the
packets and frames of the network (`AssumptionsOfA`: its assumptions are
theorems here, from `DevicesAssumption`), and a step of a device in `Network` is a
step of its instance (`StepsOfA`). So each device is sound (`DeviceSound`: the type,
`NotOwnNeighbour`, `RelaysStop`, `IdsAreArrivals`), also while the others move
(`Bystander`). Of all that the rest of the proof uses only `KnownPools`, what a pool
can hold, and `Shown`, what a step of a device shows to the others: which frames
come to its pool and stay there, which one is sent, and whose ids are reported.

*The network.* The inductive invariant `Traffic` says where frames come from. No
frame in a pool or on the channel is made up: it is the packet of an
application, or an ACK that answers a packet which *was* handled by the
device that sends the ACK (`Genuine`, with `delivered` as the log); a device takes
only its own packets for its own (`InPlace`). That gives `TypeCorrect` (only
such frames are ever heard) and, with the fact that `handleRx` reports only ids of
frames that the ACK settles (`SettledBy`), `ConfirmedTruly`. The property speaks
of packets that are `Alone`, the only one that asks its destination for an ACK
to its source. A broadcast that asks for one counts among the others, because
the ACK of any receiver settles a message to that receiver: an earlier form of
the property left broadcasts out of account, and the proof did not go through.

`RelaysAreBounded` needs to count. `SourceOK`: what the source has sent and may
still send of a packet is no more than its retries. `RelayOK`: what a third
device has sent, has in its pool, and has heard with the bit that asks to be
relayed and not yet handled is no more than what the source has sent
(`RelayLoad`). Handling such a frame moves one from the inbox to the pool;
sending moves one from the pool to the count; and what a relay sends asks no
third device to relay, because a broadcast's bit is cleared and because a
packet to one of three devices has one relay only. The theorem assumes
`NobodyWritesToItself`, and that is needed: with a packet whose destination is
its source, TLC finds that a relay which has lost the source from its table
meanwhile sets the bit again, and that the other relay, which hears it, sends
the packet a second time.

**Codecs.** All properties of the run `codecs` are theorems:
`CodecTypeCorrect`, `ReceiverReadsTheSender`, `ValuesAreWrongByScale`,
`ReportsAreSentOn`, `SettersChangeOneValue`, `BuiltIsParsed`,
`PoolAndParserAgree`, `PacketChangesOneField`, `FramesAreApart`,
`AirtimeIsClose`, `InnermostIsFound`, `BordersAreClose`. The run has a few values
of each input; the theorems have all integers a setter may be given, all octets,
addresses, signatures and texts. They assume what `InputsAreLegal` says: inputs
are numbers, octets are octets, and a frame that is heard is as long as its
headers say (`HeardAssumption`).

The inductive invariant `CodecInv` is the type of every object and, since
setters come in any order, what earlier calls left behind:

- in a position report (`TrackingInv`) a turn rate that was never set is
  `Unset`, and *values are wrong only by scale*, which is inductive itself: a
  setter sets the scale bit and never clears it, so a value is either as it was
  asked for or read in the coarse unit;
- in a service report (`ServiceInv`) a member whose header bit is not set has its
  default (`Defaults`), which `serialize` relies on by leaving it out and
  `deserialize` by not touching it;
- of a packet (`PacketInv`) that the flags tell what follows: a destination or a
  signature only in a packet with an extended header whose bits say so
  (`FlagsTell`); the frame at hand is as long as its headers say.

Two of the theorems state what the code does and documents do not want.
`ReceiverReadsTheSender` says of the turn rate of 64 that it is read as -64
(`TrackingBits`: every other raw value comes back from its bits), and
`ReportsAreSentOn` that a report loses its turn rate when it is written again and
nothing else (`TrackingSentOn`).

From the invariant each property is one about values at an instant. The octets of a
service report are written by a chain of appends; `Appended` and the lemmas after
it say what stands where, and that reading at the place a chain of lengths gives
finds it. `PacketParsedIsBuilt` and `PacketPoolReads` go through the combinations
of headers: the table of `TxFrame::payload` and the sequence of reads in `parse`
come to the same place in each of them. `FramesAreApart` and `AirtimeIsClose`
have the numbers of the code, and all lengths. `InnermostIsFound` rests on
`ZonesInOrder`: no row of the table lies in an earlier one.

**Only model-checked**, and why:

- `GatedFramesLeave`, `NetworkFallsSilent` and `ConfirmedInTheEnd`:
  liveness under fairness is beyond the prover.
- `ProtocolAirtime.GatedTypeOK` beyond the wrap of the clock. In all behaviours
  it is no consequence of what a step does: as in `Airtime`, a last look at tick 0
  counts as none, so that an engine that looks only there, once in a turn of the
  clock (49 days), would never take anything off. The runs cross the wrap with so
  few inputs that nothing comes of it. `TotalIsBounded` proves it until then.
- `NeverUnderestimates` beyond the wrap, when the total has grown to fill its
  word, which takes many turns of that kind.
- `Network.SentOnce` is a matter of the delays: that an ACK through a relay comes
  before the first retry holds for the times of the code on a free channel, and
  the run has those.

## Where code and documents disagree

Three statements are refuted by a run of their own:

| Run | Document | Code |
|---|---|---|
| boot | `connector.hpp:16` "Does not matter if it's from epoch" | a clock that starts at 2³¹ or later blocks sending until it wraps |
| gate_frozen | `protocol.hpp:482` "called at regular intervals" | called each millisecond with the gate closed, each decay rounds to 0 and the gate stays closed |
| net_late_ack | `README.md:105` "When received by 0x08158C" | the second ACK of one message, caused by a relayed copy, reports the next message, which was never sent |

Others were met while modelling. The models behave as the code does, and the
properties say what holds all the same:

| Document | Code | In the model |
|---|---|---|
| `README.md:207` "Prevents fragmentation" | a frame is refused with enough free blocks, because they are apart | `FreeRuns` is empty, `AddRefused` |
| `neighbourTable.hpp:36` "lastSeen will always return a value" | 0 for a device heard at tick 0, the value that means unknown | `LastSeen` |
| `README.md:105` "fanet_ackReceived will be called with the id" | an ACK removes all frames to its sender and reports one id, possibly that of one never sent, or none when the last is a relayed one | the exception of `ReportedUnlessOvertaken` |
| `protocol.hpp:203` "nullptr if no frame is available" | a due frame with the highest tick is not found | `Overlooked`, excepted in `GatedFramesLeave` |
| `test/tracking_tests.cpp:63` sets one object again and again | setters never clear a scale bit: 2047 m after 9000 m reads 8188 m | the exception of `WrongOnlyByScale` |
| `tracking.hpp:286` "True if the turn rate is set" | false for every received report; written again, it loses the turn rate | `Parsed` of `TrackingPayload`; the exception of `WrittenAgain` |
| `protocol.txt:147` "max +/- 64deg/s"; `test/tracking_tests.cpp:128` sets 100 and wants 64 | from 63.375 degrees/s on the raw value is 64, which 7 signed bits hold as -64: the receiver reads the hardest turn to the right as one to the left (`tracking.hpp:310`, `350`, `385`) | `TooWide`, the exception of `ReceivedIsSent` |
| `protocol.hpp:532` "time for any other frames" | the gate that closes for a message of ours holds our own tracking behind it back too | `GateWait` |
| `protocol.hpp:485` "until the next packet can be sent" | a tick is returned, and one that may lie well after the frames that wait | `GatedNothing` |
| `utils.hpp:159` "the time on air" | a frame the radio refused is counted | `GatedBusy` |
| `protocol.hpp:551` "not a direct neighbor" | the source of a relayed frame is taken for a neighbour, and answers to it are not relayed | `HeardTables` in `RxNew` |
| `protocol.hpp:41` "All packets that were forwarded" | counts frames the full pool refused | the inequality of `RelaysAreCounted` |

## Not modelled

- **What depends on buffers and not on the protocol**: the sizes of the buffers
  of `Packet`, frames shorter than their headers say, the const cast when a
  received buffer is relayed. Frames are taken to be well-formed and to fit.
- **Custom zone tables** given to the constructor of `Zone`, and the radio
  settings a zone carries (frequency, power, bandwidth), which are data.
- **The radio channel**: collisions, ranges that change, signal strength as a
  function of distance. The runs have any strength.
- **`LoraAirtime` with other settings** than those `sendFrame` passes.
- **An application that reuses ids, or calls the library from several threads**,
  which it does not support.
- **Printing, the umbrella header `fanet.hpp`, build files and tests**: no
  behaviour of their own; the tests were read for what they expect.

## Plan

Done, in this order, the most important first: the pool memory, the neighbour
table, the protocol engine with retransmission and relaying, its contract, the
position report; airtime on its own and in the engine, the network of three
devices, the payloads, the packet's octets, the zones, the counters.

All safety properties that the runs check are proved but `SentOnce`, and those of
the airtime until the clock wraps (see [only model-checked](#proofs)). What is
left:

1. `TotalIsBounded` across the wrap of the clock, for an engine that looks more
   often than once in a turn, which the code does not ask of it.
2. More than three devices. `RelaysFollowTheSource` needs that no packet has two
   relays that hear each other's copies with the bit set, which with four
   devices is a matter of who is in range of whom.
