------------------------------ MODULE AirtimeOps ------------------------------
(****************************************************************************)
(* The airtime of include/fanet/utils.hpp as operators: how long a frame is *)
(* on the air, and the decaying total that the protocol's gates look at. A  *)
(* call of get() decays the total too, so that how often it is asked        *)
(* changes what it says.                                                    *)
(****************************************************************************)
EXTENDS Integers

CONSTANTS
    TICK_MOD,       \* Ticks before the clock wraps, 2^32
    WORD,           \* Values of a uint32_t, 2^32 as well
    WINDOW          \* windowMs

ASSUME AirtimeAssumption ==
    /\ TICK_MOD \in Nat /\ WORD \in Nat /\ WINDOW \in Nat
    /\ 0 < WINDOW /\ WINDOW < TICK_MOD
    /\ 0 < WORD

NoAirtime == [total |-> 0, last |-> 0]

Elapsed(airtime, now) == (now - airtime.last) % TICK_MOD

\* Mutant: a part of a window takes off twice its share.
DecayTwice(airtime, now) ==
    IF Elapsed(airtime, now) >= WINDOW THEN airtime.total
    ELSE ((airtime.total * Elapsed(airtime, now) * 2) % WORD) \div WINDOW

\* What the time since the last cleanup takes off the total.
Decay(airtime, now) ==
    IF Elapsed(airtime, now) >= WINDOW THEN airtime.total
    ELSE ((airtime.total * Elapsed(airtime, now)) % WORD) \div WINDOW

\* Mutant: the clock is set before the time since its last setting is taken.
ClockSetFirst(airtime, now) == [airtime EXCEPT !.last = now]

(* cleanup(): a last cleanup at tick 0 counts as none. What is taken off is *)
(* never more than there is: the product loses whole words alone.           *)
Cleaned(airtime, now) ==
    [total |-> IF airtime.last = 0 THEN airtime.total
               ELSE airtime.total - Decay(airtime, now),
     last |-> now]

(* set() *)
Counted(airtime, now, ms) ==
    [total |-> (Cleaned(airtime, now).total + ms) % WORD, last |-> now]

(* getAverage(), in thousandths of the window. *)
Average(airtime) == ((airtime.total * 1000) % WORD) \div WINDOW

-----------------------------------------------------------------------------
(* LoraAirtime(), in ms: size in bytes, bandwidth in kHz, coding rate 4/5   *)
(* to 4/8 as cr 1 to 4, the explicit header and the preamble of 8 symbols   *)
(* it has by default, no low data rate optimisation.                        *)

CeilQuotient(v, n) == -((-v) \div n)

\* Mutant: rounded down, as an integer division would.
PayloadSymbolsDown(size, sf, cr) ==
    LET blocks == (8 * size - 4 * sf + 44) \div (4 * sf)
    IN  8 + (IF blocks > 0 THEN blocks * (cr + 4) ELSE 0)

PayloadSymbols(size, sf, cr) ==
    LET blocks == CeilQuotient(8 * size - 4 * sf + 44, 4 * sf)
    IN  8 + (IF blocks > 0 THEN blocks * (cr + 4) ELSE 0)

\* Mutant: four times the preamble.
PreambleQuarters(sf, bw) == (49 * 2^sf) \div bw

\* 8 symbols and 4.25 more.
PreambleTime(sf, bw) == (49 * 2^sf) \div (4 * bw)

LoraAirtime(size, sf, bw, cr) ==
    PreambleTime(sf, bw) + (PayloadSymbols(size, sf, cr) * 2^sf) \div bw

=============================================================================
