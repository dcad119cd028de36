-------------------------------- MODULE Airtime --------------------------------
(****************************************************************************)
(* The device's view of its own time on the air (class Airtime of           *)
(* include/fanet/utils.hpp) as the protocol engine drives it: every frame   *)
(* offered to the radio is counted, also one the radio refuses; our own     *)
(* tracking is offered whatever the total is, other frames while it is      *)
(* below 900 thousandths; relaying asks for the average as well. After a    *)
(* frame the engine waits for at least as long as it is on the air, after a *)
(* refusal for at least one tick.                                           *)
(****************************************************************************)
EXTENDS AirtimeOps, FiniteSetsExt

CONSTANTS
    FrameTimes,     \* How long the frames are on the air
    LONGEST,        \* The longest of them
    BootClocks,     \* What the clock may show at the start
    MAX_CLOCK       \* Bound of the model: how long it runs

ASSUME FramesAssumption ==
    /\ LONGEST \in Nat
    /\ FrameTimes \subseteq 1 .. LONGEST
    /\ BootClocks \subseteq Nat
    /\ (WINDOW + 2 * LONGEST) * WINDOW < WORD
    /\ (WINDOW + 2 * LONGEST) * 1000 < WORD

VARIABLES
    airtime,    \* totalAirtime and lastCleanupTime
    clock,      \* Time since the start; the tick is what the device sees of it
    free,       \* When the engine offers the next frame
    looked,     \* History: when the total was cleaned up last
    counted     \* History: the frames counted in the last window, and when

vars == <<airtime, clock, free, looked, counted>>

tick == clock % TICK_MOD

\* Mutant: the gate of handleTx does not close.
AlwaysOpen(a) == Average(a) >= 0

GateOpen(a) == Average(a) < 900

Recent(history) == {h \in history : clock' - h.at < WINDOW}

Init ==
    /\ airtime = NoAirtime
    /\ clock \in BootClocks
    /\ free = clock
    /\ looked = clock
    /\ counted = {}

(* sendFrame(), the engine then being silent for a while. *)
SendFrame(ms, silent) ==
    /\ clock >= free
    /\ airtime' = Counted(airtime, tick, ms)
    /\ counted' = counted \cup {[at |-> clock, ms |-> ms]}
    /\ free' = clock + silent
    /\ looked' = clock
    /\ UNCHANGED clock

(* Our own tracking is not held back. *)
SendTracking(ms) == SendFrame(ms, ms)

(* Another frame, which the radio sends or refuses. *)
SendOther(ms) ==
    /\ GateOpen(Cleaned(airtime, tick))
    /\ \E silent \in {1, ms} : SendFrame(ms, silent)

(* The average is looked at, and nothing is sent. *)
Look ==
    /\ airtime' = Cleaned(airtime, tick)
    /\ looked' = clock
    /\ UNCHANGED <<clock, free, counted>>

\* The device sends or looks at least once in a turn of the clock, 49 days.
TimePasses ==
    /\ clock < MAX_CLOCK
    /\ clock - looked < TICK_MOD - 1
    /\ clock' = clock + 1
    /\ counted' = Recent(counted)
    /\ UNCHANGED <<airtime, free, looked>>

Next ==
    \/ \E ms \in FrameTimes : SendTracking(ms) \/ SendOther(ms)
    \/ Look
    \/ TimePasses

Spec == Init /\ [][Next]_vars

-----------------------------------------------------------------------------

(* Until the clock wraps the total stays within a window and two frames,    *)
(* whatever is looked at and refused in between, so that no product of it   *)
(* overflows a uint32_t. A look at tick 0 counts as none: after it, what    *)
(* should have been taken off stays, once in a turn of the clock.           *)
TypeOK ==
    /\ airtime \in [total : 0 .. WORD - 1, last : 0 .. TICK_MOD - 1]
    /\ clock < TICK_MOD => airtime.total <= WINDOW + 2 * LONGEST
    /\ clock \in Nat
    /\ free \in Nat
    /\ looked \in Nat
    /\ counted \subseteq [at : Nat, ms : FrameTimes]

(* The share of the window a frame counts for falls linearly with its age.  *)
Weighted ==
    MapThenSumSet(LAMBDA h : h.ms * (WINDOW - (clock - h.at)), counted)

(* The total never says less than the frames of the last window, weighted   *)
(* by their age: however often it is looked at, whatever is rounded and     *)
(* wherever the clock wraps, the gates err on the side of silence.          *)
NeverUnderestimates ==
    Cleaned(airtime, tick).total * WINDOW >= Weighted

=============================================================================
