----------------------------- MODULE AirtimeProofs -----------------------------
(****************************************************************************)
(* The airtime total, for any window, frames and pace of the calls: it is   *)
(* bounded until the clock wraps, and as long as it fits a word it never    *)
(* says less than the frames of the last window, by their age, come to.     *)
(****************************************************************************)
EXTENDS Airtime, FiniteSetTheorems, WellFoundedInduction, TLAPS

\* Before the first call at another tick than 0, next to nothing was counted.
Untouched ==
    airtime.last = 0 => airtime.total <= LONGEST /\ (airtime.total = 0 \/ free >= 1)

\* The total exceeds a window and a frame only while the last frame is sent.
Paced ==
    \/ airtime.total <= WINDOW + LONGEST
    \/ airtime.total <= WINDOW + LONGEST + (free - looked)

\* In the first turn of the clock.
IInv ==
    /\ TypeOK
    /\ clock < TICK_MOD
    /\ looked <= clock
    /\ free <= looked + LONGEST
    /\ airtime.last # 0 => airtime.last = looked
    /\ Untouched
    /\ Paced

-----------------------------------------------------------------------------
(* Products and quotients.                                                  *)

(* Division with remainder. *)
LEMMA Division ==
    ASSUME NEW x \in Int, NEW M \in Nat \ {0}
    PROVE  /\ x \div M \in Int /\ x % M \in Int
           /\ 0 <= x % M /\ x % M < M
           /\ x = M * (x \div M) + (x % M)
  OBVIOUS

(* The remainder is determined by its range. *)
LEMMA Remainder ==
    ASSUME NEW q \in Int, NEW r \in Int, NEW M \in Nat \ {0}, 0 <= r, r < M
    PROVE  (M * q + r) % M = r
  OBVIOUS

LEMMA ProductMonotone ==
    ASSUME NEW a \in Nat, NEW b \in Nat, NEW c \in Nat, NEW d \in Nat,
           a <= c, b <= d
    PROVE  a * b \in Nat /\ a * b <= c * d
<1>1. a * b \in Nat
  OBVIOUS
<1>2. (c - a) * b >= 0 /\ c * (d - b) >= 0
  OBVIOUS
<1>3. c * d - a * b = (c - a) * b + c * (d - b)
  OBVIOUS
<1>4. QED
  BY <1>1, <1>2, <1>3

(* A quotient is at least what its numerator is a multiple for, and at most *)
(* the numerator's bound.                                                   *)
LEMMA QuotientAtLeast ==
    ASSUME NEW p \in Nat, NEW w \in Nat \ {0}, NEW e \in Nat, p >= w * e
    PROVE  p \div w >= e
<1> DEFINE q == p \div w
<1>1. q \in Int /\ p % w \in Int /\ p % w < w /\ p = w * q + (p % w)
  BY Division
<1>2. SUFFICES ASSUME q < e
               PROVE  FALSE
  BY <1>1
<1> HIDE DEF q
<1>3. w * (e - q) >= w
  BY <1>1, <1>2
<1>4. w * e - w * q >= w
  BY <1>1, <1>3
<1>5. QED
  BY <1>1, <1>4

LEMMA QuotientAtMost ==
    ASSUME NEW p \in Nat, NEW w \in Nat \ {0}, NEW e \in Nat, p <= w * e
    PROVE  p \div w \in Nat /\ p \div w <= e
<1> DEFINE q == p \div w
<1>1. q \in Int /\ p % w \in Int /\ 0 <= p % w /\ p % w < w /\ p = w * q + (p % w)
  BY Division
<1> HIDE DEF q
<1>2. w * q <= w * e
  BY <1>1
<1>3. q <= e
  <2>1. SUFFICES ASSUME q > e
                 PROVE  FALSE
    BY <1>1
  <2>2. w * (q - e) >= w
    BY <1>1, <2>1
  <2>3. w * q - w * e >= w
    BY <1>1, <2>2
  <2>4. QED
    BY <1>1, <1>2, <2>3
<1>4. q >= 0
  <2>1. SUFFICES ASSUME q <= -1
                 PROVE  FALSE
    BY <1>1
  <2>2. w * (-1 - q) >= 0
    BY <1>1, <2>1
  <2>3. w * q <= -w
    BY <1>1, <2>2
  <2>4. QED
    BY <1>1, <2>3
<1>5. QED
  BY <1>1, <1>3, <1>4 DEF q

(* What is taken off a total is no more than its share of the window, even  *)
(* where the product loses words.                                           *)
LEMMA TakesItsShare ==
    ASSUME NEW t \in Nat, NEW e \in Nat, e < WINDOW
    PROVE  /\ ((t * e) % WORD) \div WINDOW \in 0 .. t
           /\ (t - ((t * e) % WORD) \div WINDOW) * WINDOW >= t * (WINDOW - e)
<1> DEFINE product == t * e
           kept == product % WORD
           d == kept \div WINDOW
<1>1. WINDOW \in Nat \ {0} /\ WORD \in Nat \ {0}
  BY AirtimeAssumption
<1>2. product \in Nat /\ product <= t * WINDOW
  BY <1>1, ProductMonotone
<1>3. kept \in Nat /\ kept <= product
  <2>1. /\ product \div WORD \in Int /\ kept \in Int /\ 0 <= kept /\ kept < WORD
        /\ product = WORD * (product \div WORD) + kept
    <3> HIDE DEF product
    <3>1. QED
      BY <1>1, <1>2, Division
  <2> DEFINE w == product \div WORD
  <2>2. w \in Int /\ kept \in Int /\ product = WORD * w + kept
    BY <2>1
  <2> HIDE DEF w, kept, product
  <2>3. w >= 0
    <3>1. SUFFICES ASSUME w <= -1
                   PROVE  FALSE
      BY <2>2
    <3>2. WORD * (-1 - w) >= 0
      BY <1>1, <2>2, <3>1
    <3>3. WORD * w <= -WORD
      BY <1>1, <2>2, <3>2
    <3>4. QED
      BY <1>1, <1>2, <2>1, <2>2, <3>3
  <2>4. WORD * w >= 0
    BY <1>1, <2>2, <2>3
  <2>5. QED
    BY <1>1, <1>2, <2>1, <2>2, <2>4
<1>4. kept <= WINDOW * t
  <2> HIDE DEF kept, product
  <2>1. QED
    BY <1>1, <1>2, <1>3
<1>5. d \in Nat /\ d <= t
  <2> HIDE DEF kept
  <2>1. QED
    BY <1>1, <1>3, <1>4, QuotientAtMost
<1>6. WINDOW * d <= kept
  <2>1. kept % WINDOW \in Int /\ 0 <= kept % WINDOW /\ kept = WINDOW * d + (kept % WINDOW)
    <3> HIDE DEF kept
    <3>1. QED
      BY <1>1, <1>3, Division
  <2> HIDE DEF kept, d
  <2>2. QED
    BY <1>1, <1>3, <1>5, <2>1
<1>7. (t - d) * WINDOW >= t * (WINDOW - e)
  <2>1. (t - d) * WINDOW = t * WINDOW - WINDOW * d
    <3> HIDE DEF d
    <3>1. QED
      BY <1>1, <1>5
  <2>2. t * (WINDOW - e) = t * WINDOW - product
    BY <1>1
  <2> HIDE DEF d, kept, product
  <2>3. QED
    BY <1>1, <1>2, <1>3, <1>5, <1>6, <2>1, <2>2
<1>8. QED
  BY <1>5, <1>7

-----------------------------------------------------------------------------
(* What a cleanup leaves of a total that is within bounds.                  *)
LEMMA DecayBounds ==
    ASSUME NEW a \in [total : 0 .. WINDOW + 2 * LONGEST, last : 0 .. TICK_MOD - 1],
           NEW now \in 0 .. TICK_MOD - 1, a.last # 0, a.last <= now
    PROVE  /\ Cleaned(a, now).total \in 0 .. a.total
           /\ \/ Cleaned(a, now).total <= WINDOW
              \/ Cleaned(a, now).total <= a.total - (now - a.last)
<1> DEFINE e == Elapsed(a, now)
           d == Decay(a, now)
<1>1. WINDOW \in Nat \ {0} /\ TICK_MOD \in Nat \ {0} /\ WORD \in Nat \ {0} /\ LONGEST \in Nat
  BY AirtimeAssumption, FramesAssumption
<1>2. e = now - a.last
  <2>1. now - a.last \in Int /\ 0 <= now - a.last /\ now - a.last < TICK_MOD
    BY <1>1
  <2>2. (TICK_MOD * 0 + (now - a.last)) % TICK_MOD = now - a.last
    BY <1>1, <2>1, Remainder
  <2>3. QED
    BY <1>1, <2>1, <2>2 DEF Elapsed
<1>3. e \in Nat /\ a.total \in Nat
  BY <1>1, <1>2
<1>4. Cleaned(a, now).total = a.total - d
  BY DEF Cleaned
<1>5. CASE e >= WINDOW
  <2>1. d = a.total
    BY <1>5 DEF Decay
  <2>2. QED
    BY <1>1, <1>3, <1>4, <2>1
<1>6. CASE e < WINDOW
  <2> DEFINE product == a.total * e
  <2>1. product \in Nat /\ product <= (WINDOW + 2 * LONGEST) * WINDOW
    BY <1>1, <1>3, <1>6, ProductMonotone
  <2>2. product < WORD
    BY <1>1, <2>1, FramesAssumption
  <2>3. product % WORD = product
    <3>1. (WORD * 0 + product) % WORD = product
      BY <1>1, <2>1, <2>2, Remainder
    <3>2. QED
      BY <1>1, <2>1, <3>1
  <2>4. d = product \div WINDOW
    <3>1. ~(e >= WINDOW)
      BY <1>1, <1>3, <1>6
    <3>2. QED
      BY <2>3, <3>1 DEF Decay
  <2>5. product <= WINDOW * a.total
    <3>1. product <= a.total * WINDOW
      BY <1>1, <1>3, <1>6, ProductMonotone
    <3>2. QED
      BY <1>1, <1>3, <3>1
  <2>6. d \in Nat /\ d <= a.total
    <3> HIDE DEF product
    <3>1. QED
      BY <1>1, <1>3, <2>1, <2>4, <2>5, QuotientAtMost
  <2>7. a.total >= WINDOW => d >= e
    <3>1. SUFFICES ASSUME a.total >= WINDOW
                   PROVE  d >= e
      OBVIOUS
    <3>2. product >= WINDOW * e
      BY <1>1, <1>3, <3>1, ProductMonotone
    <3> HIDE DEF product
    <3>3. QED
      BY <1>1, <1>3, <2>1, <2>4, <3>2, QuotientAtLeast
  <2> HIDE DEF product, d, e
  <2>8. QED
    BY <1>1, <1>2, <1>3, <1>4, <2>6, <2>7
<1>7. QED
  BY <1>1, <1>3, <1>5, <1>6

(* What is taken off is never more than there is, whatever the product      *)
(* loses.                                                                   *)
LEMMA CleanedAtMost ==
    ASSUME NEW a, a.total \in Nat, a.last \in Int, NEW now \in Int
    PROVE  Cleaned(a, now).total \in 0 .. a.total
<1> DEFINE e == Elapsed(a, now)
<1>1. WINDOW \in Nat \ {0} /\ TICK_MOD \in Nat \ {0} /\ WORD \in Nat \ {0}
  BY AirtimeAssumption
<1>2. CASE a.last = 0 \/ e >= WINDOW
  BY <1>2 DEF Cleaned, Decay
<1>3. CASE a.last # 0 /\ ~(e >= WINDOW)
  <2>1. Cleaned(a, now).total = a.total - ((a.total * e) % WORD) \div WINDOW
    BY <1>3 DEF Cleaned, Decay
  <2>2. e \in Nat /\ e < WINDOW
    <3>1. now - a.last \in Int
      OBVIOUS
    <3>2. e \in Int /\ 0 <= e
      BY <1>1, <3>1, Division DEF Elapsed
    <3>3. QED
      BY <1>1, <1>3, <3>2
  <2> HIDE DEF e
  <2>3. ((a.total * e) % WORD) \div WINDOW \in 0 .. a.total
    BY <2>2, TakesItsShare
  <2>4. QED
    BY <2>1, <2>3
<1>4. QED
  BY <1>2, <1>3

(* The total in the first turn. *)
LEMMA EarlyTotal ==
    ASSUME IInv
    PROVE  /\ airtime \in [total : 0 .. WINDOW + 2 * LONGEST, last : 0 .. TICK_MOD - 1]
           /\ airtime.total \in 0 .. WINDOW + 2 * LONGEST
           /\ airtime.last \in 0 .. TICK_MOD - 1
<1>1. /\ airtime \in [total : 0 .. WORD - 1, last : 0 .. TICK_MOD - 1]
      /\ airtime.total <= WINDOW + 2 * LONGEST
  BY DEF IInv, TypeOK
<1>2. WINDOW \in Nat /\ LONGEST \in Nat /\ WORD \in Nat
  BY AirtimeAssumption, FramesAssumption
<1>3. airtime.total \in 0 .. WINDOW + 2 * LONGEST
  BY <1>1, <1>2
<1>4. QED
  BY <1>1, <1>3

(* The same for the state between two steps, whether the total was cleaned  *)
(* up before or not.                                                        *)
LEMMA CleanedBounds ==
    ASSUME IInv
    PROVE  /\ Cleaned(airtime, tick).last = clock
           /\ Cleaned(airtime, tick).total \in 0 .. airtime.total
           /\ \/ Cleaned(airtime, tick).total <= WINDOW + LONGEST
              \/ Cleaned(airtime, tick).total <= WINDOW + LONGEST + (free - clock)
           /\ airtime.last = 0 => Cleaned(airtime, tick).total = airtime.total
<1>1. WINDOW \in Nat \ {0} /\ TICK_MOD \in Nat \ {0} /\ LONGEST \in Nat
  BY AirtimeAssumption, FramesAssumption
<1>2. /\ airtime \in [total : 0 .. WINDOW + 2 * LONGEST, last : 0 .. TICK_MOD - 1]
      /\ clock \in Nat /\ free \in Nat /\ looked \in Nat /\ clock < TICK_MOD
  BY EarlyTotal DEF IInv, TypeOK
<1>3. tick = clock
  <2>1. (TICK_MOD * 0 + clock) % TICK_MOD = clock
    BY <1>1, <1>2, Remainder
  <2>2. QED
    BY <1>1, <1>2, <2>1 DEF tick
<1>4. Cleaned(airtime, tick).last = clock
  BY <1>3 DEF Cleaned
<1>5. CASE airtime.last = 0
  <2>1. Cleaned(airtime, tick).total = airtime.total
    BY <1>5 DEF Cleaned
  <2>2. QED
    BY <1>1, <1>2, <1>4, <1>5, <2>1 DEF IInv, Untouched
<1>6. CASE airtime.last # 0
  <2>1. airtime.last = looked /\ looked <= clock
    BY <1>6 DEF IInv
  <2> DEFINE t == Cleaned(airtime, tick).total
  <2>2. /\ t \in 0 .. airtime.total
        /\ t <= WINDOW \/ t <= airtime.total - (clock - looked)
    <3>1. clock \in 0 .. TICK_MOD - 1
      BY <1>1, <1>2
    <3>2. QED
      BY <1>2, <1>3, <1>6, <2>1, <3>1, DecayBounds
  <2> HIDE DEF t
  <2>3. t <= WINDOW + LONGEST \/ t <= WINDOW + LONGEST + (free - clock)
    BY <1>1, <1>2, <2>2 DEF IInv, Paced
  <2>4. QED
    BY <1>4, <1>6, <2>2, <2>3 DEF t
<1>7. QED
  BY <1>5, <1>6

(* An open gate means that less than a window was counted. *)
LEMMA OpenBelowWindow ==
    ASSUME NEW a, a.total \in 0 .. WINDOW + 2 * LONGEST, GateOpen(a)
    PROVE  a.total < WINDOW
<1>1. WINDOW \in Nat \ {0} /\ WORD \in Nat \ {0} /\ LONGEST \in Nat
  BY AirtimeAssumption, FramesAssumption
<1> DEFINE product == a.total * 1000
<1>2. product \in Nat /\ product < WORD
  BY <1>1, FramesAssumption
<1>3. product % WORD = product
  <2>1. (WORD * 0 + product) % WORD = product
    BY <1>1, <1>2, Remainder
  <2>2. QED
    BY <1>1, <1>2, <2>1
<1>4. product \div WINDOW < 900
  BY <1>3 DEF GateOpen, Average
<1>5. SUFFICES ASSUME a.total >= WINDOW
               PROVE  FALSE
  BY <1>1
<1>6. product >= WINDOW * 1000
  BY <1>1, <1>5
<1> HIDE DEF product
<1>7. product \div WINDOW >= 1000
  BY <1>1, <1>2, <1>6, QuotientAtLeast
<1>8. QED
  BY <1>1, <1>2, <1>4, <1>7, Division

-----------------------------------------------------------------------------

LEMMA Initially == Init => TypeOK /\ (clock < TICK_MOD => IInv)
<1> SUFFICES ASSUME Init
             PROVE  TypeOK /\ (clock < TICK_MOD => IInv)
  OBVIOUS
<1>1. /\ WINDOW \in Nat \ {0} /\ TICK_MOD \in Nat \ {0} /\ LONGEST \in Nat
      /\ WORD \in Nat \ {0} /\ BootClocks \subseteq Nat
  BY AirtimeAssumption, FramesAssumption
<1>2. TypeOK
  BY <1>1 DEF Init, TypeOK, NoAirtime
<1>3. QED
  BY <1>1, <1>2 DEF Init, IInv, NoAirtime, Untouched, Paced

(* Counting a frame. *)
LEMMA SendFrameKeepsIInv ==
    ASSUME IInv, NEW ms \in FrameTimes, NEW silent \in {1, ms}, SendFrame(ms, silent),
           silent = ms \/ GateOpen(Cleaned(airtime, tick))
    PROVE  IInv'
<1>1. WINDOW \in Nat \ {0} /\ TICK_MOD \in Nat \ {0} /\ WORD \in Nat \ {0} /\ LONGEST \in Nat
  BY AirtimeAssumption, FramesAssumption
<1>2. ms \in 1 .. LONGEST /\ silent \in 1 .. LONGEST
  BY <1>1, FramesAssumption
<1>3. /\ airtime.total \in 0 .. WINDOW + 2 * LONGEST
      /\ clock \in Nat /\ free \in Nat /\ looked \in Nat /\ clock < TICK_MOD
      /\ counted \subseteq [at : Nat, ms : FrameTimes]
  BY EarlyTotal DEF IInv, TypeOK
<1> DEFINE t == Cleaned(airtime, tick).total
<1>4. /\ t \in 0 .. airtime.total /\ t <= WINDOW + LONGEST
      /\ airtime.last = 0 => t = airtime.total
  BY <1>1, <1>3, CleanedBounds DEF SendFrame
<1>5. tick = clock
  BY CleanedBounds DEF Cleaned
<1>6. (t + ms) % WORD = t + ms
  <2>1. WINDOW + 2 * LONGEST < WORD
    BY <1>1, FramesAssumption
  <2>2. t + ms \in Nat /\ t + ms < WORD
    BY <1>1, <1>2, <1>3, <1>4, <2>1
  <2>3. (WORD * 0 + (t + ms)) % WORD = t + ms
    BY <1>1, <2>2, Remainder
  <2>4. QED
    BY <1>1, <2>2, <2>3
<1>7. /\ airtime' = [total |-> t + ms, last |-> clock]
      /\ clock' = clock /\ looked' = clock /\ free' = clock + silent
      /\ counted' = counted \cup {[at |-> clock, ms |-> ms]}
  BY <1>5, <1>6 DEF SendFrame, Counted
<1>8. t + ms <= WINDOW + LONGEST \/ silent = ms
  <2>1. CASE GateOpen(Cleaned(airtime, tick))
    <3>1. Cleaned(airtime, tick).total < WINDOW
      BY <1>1, <1>3, <1>4, <2>1, OpenBelowWindow
    <3>2. QED
      BY <1>1, <1>2, <1>3, <1>4, <3>1
  <2>2. QED
    BY <2>1
<1>9. airtime.last = 0 /\ clock = 0 => t = 0
  BY <1>3, <1>4, CleanedBounds DEF IInv, Untouched, SendFrame
<1>10. clock >= free
  BY DEF SendFrame
<1>11. clock = 0 => airtime.last = 0
  BY <1>3 DEF IInv, TypeOK
<1> HIDE DEF t
<1>12. TypeOK'
  <2>1. WINDOW + 2 * LONGEST < WORD
    BY <1>1, FramesAssumption
  <2>2. t + ms \in 0 .. WORD - 1 /\ t + ms <= WINDOW + 2 * LONGEST
    BY <1>1, <1>2, <1>3, <1>4, <2>1
  <2>3. clock \in 0 .. TICK_MOD - 1
    BY <1>1, <1>3
  <2>4. /\ airtime' \in [total : 0 .. WORD - 1, last : 0 .. TICK_MOD - 1]
        /\ airtime'.total <= WINDOW + 2 * LONGEST
    BY <1>7, <2>2, <2>3
  <2>5. clock' \in Nat /\ free' \in Nat /\ looked' \in Nat
        /\ counted' \subseteq [at : Nat, ms : FrameTimes]
    BY <1>1, <1>2, <1>3, <1>7
  <2>6. QED
    BY <2>4, <2>5 DEF TypeOK
<1>13. Untouched'
  BY <1>1, <1>2, <1>3, <1>4, <1>7, <1>9, <1>11 DEF Untouched
<1>14. Paced'
  BY <1>1, <1>2, <1>3, <1>4, <1>7, <1>8 DEF Paced
<1>15. QED
  BY <1>1, <1>2, <1>3, <1>7, <1>12, <1>13, <1>14 DEF IInv

(* The step of each action. *)
LEMMA Stepwise == IInv /\ [Next]_vars /\ clock' < TICK_MOD => IInv'
<1> SUFFICES ASSUME IInv, [Next]_vars, clock' < TICK_MOD
             PROVE  IInv'
  OBVIOUS
<1>1. WINDOW \in Nat \ {0} /\ TICK_MOD \in Nat \ {0} /\ LONGEST \in Nat
  BY AirtimeAssumption, FramesAssumption
<1>2. ASSUME NEW ms \in FrameTimes, SendTracking(ms)
      PROVE  IInv'
  BY <1>2, SendFrameKeepsIInv DEF SendTracking
<1>3. ASSUME NEW ms \in FrameTimes, SendOther(ms)
      PROVE  IInv'
  BY <1>3, SendFrameKeepsIInv DEF SendOther
<1>4. CASE Look
  <2>1. /\ airtime' = Cleaned(airtime, tick) /\ looked' = clock
        /\ UNCHANGED <<clock, free, counted>>
    BY <1>4 DEF Look
  <2>2. /\ airtime.total \in 0 .. WINDOW + 2 * LONGEST
        /\ clock \in Nat /\ free \in Nat /\ clock < TICK_MOD /\ looked \in Nat
        /\ looked <= clock /\ free <= looked + LONGEST
    BY EarlyTotal DEF IInv, TypeOK
  <2>3. /\ airtime'.last = clock
        /\ airtime'.total \in 0 .. airtime.total
        /\ \/ airtime'.total <= WINDOW + LONGEST
           \/ airtime'.total <= WINDOW + LONGEST + (free - clock)
        /\ airtime.last = 0 => airtime'.total = airtime.total
    BY <2>1, CleanedBounds
  <2>4. airtime' = [total |-> airtime'.total, last |-> airtime'.last]
    BY <2>1 DEF Cleaned
  <2>5. TypeOK'
    <3>1. /\ airtime.total \in 0 .. WORD - 1 /\ airtime'.total \in 0 .. WORD - 1
          /\ airtime'.total <= WINDOW + 2 * LONGEST /\ airtime'.last \in 0 .. TICK_MOD - 1
      BY <1>1, <2>2, <2>3, AirtimeAssumption DEF IInv, TypeOK
    <3>2. airtime' \in [total : 0 .. WORD - 1, last : 0 .. TICK_MOD - 1]
      BY <2>4, <3>1
    <3>3. QED
      BY <1>1, <2>1, <3>1, <3>2 DEF IInv, TypeOK
  <2>6. Untouched'
    BY <1>1, <2>1, <2>2, <2>3 DEF IInv, TypeOK, Untouched
  <2>7. Paced'
    BY <1>1, <2>1, <2>2, <2>3 DEF Paced
  <2>8. QED
    BY <1>1, <2>1, <2>2, <2>3, <2>5, <2>6, <2>7 DEF IInv
<1>5. CASE TimePasses
  <2>1. /\ clock' = clock + 1 /\ clock < MAX_CLOCK /\ counted' \subseteq counted
        /\ UNCHANGED <<airtime, free, looked>>
    BY <1>5 DEF TimePasses, Recent
  <2>2. TypeOK'
    BY <2>1 DEF IInv, TypeOK
  <2>3. QED
    BY <1>1, <2>1, <2>2 DEF IInv, TypeOK, Untouched, Paced
<1>6. CASE UNCHANGED vars
  BY <1>6 DEF vars, IInv, TypeOK, Untouched, Paced
<1>7. QED
  BY <1>2, <1>3, <1>4, <1>5, <1>6 DEF Next

(* Later on the total is a word still. *)
LEMMA StaysTyped ==
    TypeOK /\ [Next]_vars /\ (clock' < TICK_MOD => TypeOK') => TypeOK'
<1> SUFFICES ASSUME TypeOK, [Next]_vars, ~(clock' < TICK_MOD)
             PROVE  TypeOK'
  OBVIOUS
<1>1. TICK_MOD \in Nat \ {0} /\ WORD \in Nat \ {0} /\ FrameTimes \subseteq Nat
  BY AirtimeAssumption, FramesAssumption
<1>2. /\ airtime.total \in 0 .. WORD - 1 /\ airtime.last \in Int
      /\ clock \in Nat /\ free \in Nat /\ looked \in Nat
      /\ counted \subseteq [at : Nat, ms : FrameTimes]
  BY <1>1 DEF TypeOK
<1>3. tick \in 0 .. TICK_MOD - 1
  <2>1. tick \in Int /\ 0 <= tick /\ tick < TICK_MOD
    BY <1>1, <1>2, Division DEF tick
  <2>2. QED
    BY <1>1, <2>1
<1>4. Cleaned(airtime, tick).total \in 0 .. WORD - 1
  <2>1. Cleaned(airtime, tick).total \in 0 .. airtime.total
    BY <1>1, <1>2, <1>3, CleanedAtMost
  <2>2. QED
    BY <1>1, <1>2, <2>1
<1>5. ASSUME NEW ms \in FrameTimes, NEW silent \in {1, ms}, SendFrame(ms, silent)
      PROVE  TypeOK'
  <2>1. /\ airtime' = [total |-> (Cleaned(airtime, tick).total + ms) % WORD, last |-> tick]
        /\ clock' = clock /\ looked' = clock /\ free' = clock + silent
        /\ counted' = counted \cup {[at |-> clock, ms |-> ms]}
    BY <1>5 DEF SendFrame, Counted
  <2>2. (Cleaned(airtime, tick).total + ms) % WORD \in 0 .. WORD - 1
    <3> DEFINE sum == Cleaned(airtime, tick).total + ms
    <3>1. sum \in Int
      BY <1>1, <1>4
    <3> HIDE DEF sum
    <3>2. sum % WORD \in Int /\ 0 <= sum % WORD /\ sum % WORD < WORD
      BY <1>1, <3>1, Division
    <3>3. sum % WORD \in 0 .. WORD - 1
      BY <1>1, <3>2
    <3>4. QED
      BY <3>3 DEF sum
  <2>3. airtime' \in [total : 0 .. WORD - 1, last : 0 .. TICK_MOD - 1]
    BY <1>3, <2>1, <2>2
  <2>4. /\ clock' \in Nat /\ free' \in Nat /\ looked' \in Nat
        /\ counted' \subseteq [at : Nat, ms : FrameTimes]
    BY <1>1, <1>2, <2>1
  <2>5. QED
    BY <2>3, <2>4 DEF TypeOK
<1>6. CASE Look
  <2>1. airtime' \in [total : 0 .. WORD - 1, last : 0 .. TICK_MOD - 1]
    BY <1>3, <1>4, <1>6 DEF Look, Cleaned
  <2>2. QED
    BY <1>2, <1>6, <2>1 DEF Look, TypeOK
<1>7. CASE TimePasses
  BY <1>2, <1>7 DEF TimePasses, Recent, TypeOK
<1>8. CASE UNCHANGED vars
  BY <1>8 DEF vars, TypeOK
<1>9. QED
  BY <1>5, <1>6, <1>7, <1>8 DEF Next, SendTracking, SendOther

(* The clock does not run back. *)
LEMMA TimeForward ==
    ASSUME TypeOK, [Next]_vars
    PROVE  clock \in Nat /\ clock' \in Nat /\ clock <= clock'
  BY DEF TypeOK, Next, vars, SendTracking, SendOther, SendFrame, Look, TimePasses

(* Until the clock wraps the total never exceeds a window and two frames,   *)
(* however often it is looked at and whatever the radio refuses.            *)
THEOREM Bounded == Spec => []TypeOK
<1> DEFINE Inv == TypeOK /\ (clock < TICK_MOD => IInv)
<1>1. Init => Inv
  BY Initially
<1>2. Inv /\ [Next]_vars => Inv'
  <2> SUFFICES ASSUME Inv, [Next]_vars
               PROVE  Inv'
    OBVIOUS
  <2>1. clock' < TICK_MOD => IInv'
    <3>1. clock' < TICK_MOD => clock < TICK_MOD
      BY TimeForward, AirtimeAssumption
    <3>2. QED
      BY <3>1, Stepwise
  <2>2. TypeOK'
    BY <2>1, StaysTyped DEF IInv
  <2>3. QED
    BY <2>1, <2>2
<1>3. QED
  BY <1>1, <1>2, PTL DEF Spec

-----------------------------------------------------------------------------
(* Sums over a finite set. MapThenSumSet takes the elements in the order    *)
(* CHOOSE gives them; what it computes does not depend on that order.       *)

\* The equation the sums f of F over the subsets of S are defined by.
Summing(f, F, S) ==
    f = [s \in SUBSET S |->
            IF s = {} THEN 0
            ELSE F[CHOOSE x \in s : TRUE] + f[s \ {CHOOSE x \in s : TRUE}]]

\* The same for the subsets of at most n elements.
SummingUpTo(f, F, S, n) ==
    f = [s \in {r \in SUBSET S : Cardinality(r) <= n} |->
            IF s = {} THEN 0
            ELSE F[CHOOSE x \in s : TRUE] + f[s \ {CHOOSE x \in s : TRUE}]]

\* The elements in any order.
Additive(f, F, S) ==
    /\ f \in [SUBSET S -> Int]
    /\ f[{}] = 0
    /\ \A s \in SUBSET S : \A x \in s : f[s] = F[x] + f[s \ {x}]

(* A set of numbers with 0 and every successor is all of them. *)
LEMMA Successors ==
    ASSUME NEW N \in SUBSET Nat, 0 \in N, \A n \in N : n + 1 \in N
    PROVE  \A n \in Nat : n \in N
<1> DEFINE R == {ss \in Nat \X Nat : ss[1] < ss[2]}
           T == Nat \ N
<1>1. SUFFICES ASSUME T # {}
               PROVE  FALSE
  OBVIOUS
<1>2. IsWellFoundedOn(R, Nat)
  BY NatLessThanWellFounded, Zenon DEF OpToRel
<1>3. \A y \in Nat, z \in Nat : y < z => <<y, z>> \in R
  OBVIOUS
<1>4. T \in SUBSET Nat
  OBVIOUS
<1> HIDE DEF R
<1>5. PICK n \in T : \A y \in T : ~ (<<y, n>> \in R)
  <2> HIDE DEF T
  <2>1. QED
    BY <1>1, <1>2, <1>4, WFMin, Zenon
<1>6. n \in Nat /\ n # 0 /\ n \notin N
  OBVIOUS
<1>7. n - 1 \in Nat /\ <<n - 1, n>> \in R
  BY <1>3, <1>6
<1>8. n - 1 \in N
  BY <1>5, <1>7
<1>9. (n - 1) + 1 \in N
  BY <1>8
<1>10. QED
  BY <1>6, <1>9

(* What is left of a finite set without one of its elements. *)
LEMMA OneLess ==
    ASSUME NEW s, IsFiniteSet(s), NEW x \in s
    PROVE  /\ IsFiniteSet(s \ {x})
           /\ Cardinality(s) \in Nat /\ Cardinality(s) # 0
           /\ Cardinality(s \ {x}) = Cardinality(s) - 1
  BY FS_RemoveElement, FS_CardinalityType, FS_EmptySet

(* The sums of the subsets exist, for one more element at a time. *)
LEMMA SumsUpTo ==
    ASSUME NEW F, NEW S, IsFiniteSet(S)
    PROVE  \A n \in Nat : \E f : SummingUpTo(f, F, S, n)
<1> DEFINE N == {n \in Nat : \E f : SummingUpTo(f, F, S, n)}
           First(s) == CHOOSE x \in s : TRUE
           Upto(n) == {r \in SUBSET S : Cardinality(r) <= n}
<1>0. \A r \in SUBSET S : IsFiniteSet(r) /\ Cardinality(r) \in Nat
  BY FS_Subset, FS_CardinalityType
<1>1. 0 \in N
  <2> DEFINE f == [s \in Upto(0) |-> 0]
  <2>1. \A s \in Upto(0) : s = {}
    BY <1>0, FS_EmptySet
  <2>2. SummingUpTo(f, F, S, 0)
    BY <2>1 DEF SummingUpTo
  <2>3. QED
    BY <2>2
<1>2. ASSUME NEW n \in N
      PROVE  n + 1 \in N
  <2>1. PICK f : SummingUpTo(f, F, S, n)
    OBVIOUS
  <2> DEFINE g == [s \in Upto(n + 1) |->
                     IF s = {} THEN 0 ELSE F[First(s)] + f[s \ {First(s)}]]
  <2>2. \A r \in Upto(n) : r \in Upto(n + 1)
    BY <1>0
  <2>3. ASSUME NEW r \in Upto(n)
        PROVE  f[r] = g[r]
    <3>1. f[r] = IF r = {} THEN 0 ELSE F[First(r)] + f[r \ {First(r)}]
      BY <2>1, Zenon DEF SummingUpTo
    <3>2. QED
      BY <2>2, <3>1
  <2>4. ASSUME NEW s \in Upto(n + 1), s # {}
        PROVE  g[s] = F[First(s)] + g[s \ {First(s)}]
    <3>1. First(s) \in s
      BY <2>4
    <3>2. s \ {First(s)} \in Upto(n)
      <4> HIDE DEF First
      <4>1. Cardinality(s \ {First(s)}) = Cardinality(s) - 1
        BY <1>0, <3>1, OneLess
      <4>2. QED
        BY <1>0, <4>1
    <3>3. f[s \ {First(s)}] = g[s \ {First(s)}]
      BY <2>3, <3>2
    <3>4. g[s] = F[First(s)] + f[s \ {First(s)}]
      BY <2>4
    <3>5. QED
      BY <3>3, <3>4
  <2>5. \A s \in Upto(n + 1) :
           g[s] = IF s = {} THEN 0 ELSE F[First(s)] + g[s \ {First(s)}]
    <3> SUFFICES ASSUME NEW s \in Upto(n + 1)
                 PROVE  g[s] = IF s = {} THEN 0 ELSE F[First(s)] + g[s \ {First(s)}]
      OBVIOUS
    <3>1. CASE s = {}
      BY <3>1
    <3>2. CASE s # {}
      <4>1. g[s] = F[First(s)] + g[s \ {First(s)}]
        BY <2>4, <3>2
      <4> HIDE DEF g, First
      <4>2. QED
        BY <3>2, <4>1
    <3>3. QED
      BY <3>1, <3>2
  <2>6. SummingUpTo(g, F, S, n + 1)
    <3>1. g = [s \in Upto(n + 1) |-> g[s]]
      OBVIOUS
    <3> HIDE DEF g
    <3>2. g = [s \in Upto(n + 1) |->
                 IF s = {} THEN 0 ELSE F[First(s)] + g[s \ {First(s)}]]
      <4> HIDE DEF First, Upto
      <4>1. QED
        BY <2>5, <3>1, Zenon
    <3>3. QED
      BY <3>2, Zenon DEF SummingUpTo
  <2> HIDE DEF g
  <2>7. QED
    BY <2>6
<1>3. N \in SUBSET Nat
  OBVIOUS
<1>4. \A n \in Nat : n \in N
  <2> HIDE DEF N
  <2>1. QED
    BY <1>1, <1>2, <1>3, Successors
<1>5. QED
  BY <1>4

LEMMA SumsExist ==
    ASSUME NEW F, NEW S, IsFiniteSet(S)
    PROVE  \E f : Summing(f, F, S)
<1> DEFINE n == Cardinality(S)
<1>1. n \in Nat /\ {r \in SUBSET S : Cardinality(r) <= n} = SUBSET S
  BY FS_Subset, FS_CardinalityType
<1>2. PICK f : SummingUpTo(f, F, S, n)
  BY <1>1, SumsUpTo
<1>3. Summing(f, F, S)
  BY <1>1, <1>2, Zenon DEF Summing, SummingUpTo
<1>4. QED
  BY <1>3

(* They are numbers, and the order of the elements makes no difference. *)
LEMMA SumsAdd ==
    ASSUME NEW S, IsFiniteSet(S), NEW F \in [S -> Int], NEW f, Summing(f, F, S)
    PROVE  Additive(f, F, S)
<1> DEFINE First(s) == CHOOSE x \in s : TRUE
           OK(s) == f[s] \in Int /\ \A x \in s : f[s] = F[x] + f[s \ {x}]
           N == {n \in Nat : \A s \in SUBSET S : Cardinality(s) <= n => OK(s)}
<1>0. \A r \in SUBSET S : IsFiniteSet(r) /\ Cardinality(r) \in Nat
  BY FS_Subset, FS_CardinalityType
<1>1. f[{}] = 0
  BY Zenon DEF Summing
<1>2. ASSUME NEW s \in SUBSET S, s # {}
      PROVE  First(s) \in s /\ f[s] = F[First(s)] + f[s \ {First(s)}]
  <2>1. First(s) \in s
    BY <1>2
  <2>2. f[s] = IF s = {} THEN 0 ELSE F[First(s)] + f[s \ {First(s)}]
    BY Zenon DEF Summing
  <2> HIDE DEF First
  <2>3. QED
    BY <1>2, <2>1, <2>2
<1> HIDE DEF First
<1>3. 0 \in N
  <2>1. OK({})
    BY <1>1
  <2>2. \A s \in SUBSET S : Cardinality(s) <= 0 => s = {}
    BY <1>0, FS_EmptySet
  <2> HIDE DEF OK
  <2>3. QED
    BY <2>1, <2>2
<1>4. ASSUME NEW n \in N
      PROVE  n + 1 \in N
  <2>1. SUFFICES ASSUME NEW s \in SUBSET S, Cardinality(s) <= n + 1, s # {}
                 PROVE  OK(s)
    <3>1. OK({})
      BY <1>1
    <3> HIDE DEF OK
    <3>2. QED
      BY <3>1
  <2> DEFINE c == First(s)
  <2>2. c \in s /\ f[s] = F[c] + f[s \ {c}]
    BY <1>2, <2>1
  <2>3. \A x \in s : s \ {x} \in SUBSET S /\ OK(s \ {x})
    <3> SUFFICES ASSUME NEW x \in s
                 PROVE  s \ {x} \in SUBSET S /\ OK(s \ {x})
      OBVIOUS
    <3>1. Cardinality(s \ {x}) <= n
      <4>1. Cardinality(s \ {x}) = Cardinality(s) - 1
        BY <1>0, OneLess
      <4>2. QED
        BY <1>0, <2>1, <4>1
    <3> HIDE DEF OK
    <3>2. QED
      BY <3>1
  <2>4. \A x \in s : F[x] \in Int
    OBVIOUS
  <2>7. f[s] \in Int
    <3>1. f[s \ {c}] \in Int /\ F[c] \in Int
      BY <2>2, <2>3, <2>4
    <3> HIDE DEF c
    <3>2. QED
      BY <2>2, <3>1
  <2>5. ASSUME NEW x \in s, x # c
        PROVE  f[s] = F[x] + f[s \ {x}]
    <3>1. (s \ {c}) \ {x} = (s \ {x}) \ {c}
      OBVIOUS
    <3>2. f[s \ {c}] = F[x] + f[(s \ {c}) \ {x}]
      BY <2>2, <2>3, <2>5
    <3>3. f[s \ {x}] = F[c] + f[(s \ {x}) \ {c}]
      BY <2>2, <2>3, <2>5
    <3>4. F[x] \in Int /\ F[c] \in Int
      BY <2>2, <2>4
    <3>5. f[(s \ {c}) \ {x}] \in Int
      <4>1. s \ {c} \in SUBSET S /\ x \in s \ {c} /\ c \in s
        BY <2>2, <2>5
      <4>2. (s \ {c}) \ {x} \in SUBSET S
        OBVIOUS
      <4>3. Cardinality((s \ {c}) \ {x}) <= n
        <5>1. Cardinality(s \ {c}) = Cardinality(s) - 1
          BY <1>0, <4>1, OneLess
        <5>2. Cardinality((s \ {c}) \ {x}) = Cardinality(s \ {c}) - 1
          BY <1>0, <4>1, OneLess
        <5>3. QED
          BY <1>0, <2>1, <5>1, <5>2
      <4>4. OK((s \ {c}) \ {x})
        <5> HIDE DEF OK
        <5>1. QED
          BY <4>2, <4>3
      <4>5. QED
        BY <4>4
    <3>6. F[c] + (F[x] + f[(s \ {c}) \ {x}]) = F[x] + (F[c] + f[(s \ {c}) \ {x}])
      <4> HIDE DEF c
      <4>1. QED
        BY <3>4, <3>5
    <3> HIDE DEF c
    <3>7. QED
      BY <2>2, <3>1, <3>2, <3>3, <3>6
  <2>6. QED
    BY <2>2, <2>7, <2>5
<1>5. \A n \in Nat : n \in N
  <2>1. N \in SUBSET Nat
    OBVIOUS
  <2> HIDE DEF N
  <2>2. QED
    BY <1>3, <1>4, <2>1, Successors
<1>6. \A s \in SUBSET S : OK(s)
  <2> HIDE DEF OK
  <2>1. QED
    BY <1>0, <1>5
<1>7. f \in [SUBSET S -> Int]
  <2>1. f = [s \in SUBSET S |-> f[s]]
    BY Zenon DEF Summing
  <2>2. QED
    BY <1>6, <2>1
<1>8. QED
  BY <1>1, <1>6, <1>7 DEF Additive

\* a times f is at most b times g there.
AtMost(a, f, b, g, x) == a * f[x] <= b * g[x]

(* Sums compare as their terms do, up to a factor. *)
LEMMA SumsCompare ==
    ASSUME NEW S, IsFiniteSet(S), NEW F \in [S -> Int], NEW G \in [S -> Int],
           NEW f, Additive(f, F, S), NEW g, Additive(g, G, S),
           NEW a \in Int, NEW b \in Int, \A x \in S : AtMost(a, F, b, G, x)
    PROVE  \A s \in SUBSET S : AtMost(a, f, b, g, s)
<1> USE DEF AtMost
<1> DEFINE OK(s) == a * f[s] <= b * g[s]
           N == {n \in Nat : \A s \in SUBSET S : Cardinality(s) <= n => OK(s)}
<1>0. \A r \in SUBSET S : IsFiniteSet(r) /\ Cardinality(r) \in Nat
  BY FS_Subset, FS_CardinalityType
<1>1. a * f[{}] <= b * g[{}]
  BY DEF Additive
<1>2. 0 \in N
  <2>1. \A s \in SUBSET S : Cardinality(s) <= 0 => s = {}
    BY <1>0, FS_EmptySet
  <2>2. QED
    BY <1>1, <2>1
<1>3. ASSUME NEW n \in N
      PROVE  n + 1 \in N
  <2>1. SUFFICES ASSUME NEW s \in SUBSET S, Cardinality(s) <= n + 1, s # {}
                 PROVE  OK(s)
    <3>1. OK({})
      BY <1>1
    <3> HIDE DEF OK
    <3>2. QED
      BY <3>1
  <2>2. PICK x \in s : TRUE
    BY <2>1
  <2> DEFINE r == s \ {x}
  <2>3. r \in SUBSET S /\ Cardinality(r) <= n
    <3>1. Cardinality(r) = Cardinality(s) - 1
      BY <1>0, OneLess
    <3>2. QED
      BY <1>0, <2>1, <3>1
  <2>4. a * f[r] <= b * g[r]
    BY <2>3
  <2>5. f[s] = F[x] + f[r] /\ g[s] = G[x] + g[r]
    BY DEF Additive
  <2>6. F[x] \in Int /\ G[x] \in Int /\ a * F[x] <= b * G[x]
    OBVIOUS
  <2>7. f[r] \in Int /\ g[r] \in Int
    BY <2>3 DEF Additive
  <2> HIDE DEF r
  <2>8. a * f[s] = a * F[x] + a * f[r] /\ b * g[s] = b * G[x] + b * g[r]
    BY <2>5, <2>6, <2>7
  <2>9. a * F[x] \in Int /\ a * f[r] \in Int /\ b * G[x] \in Int /\ b * g[r] \in Int
    BY <2>6, <2>7
  <2>10. QED
    BY <2>4, <2>6, <2>8, <2>9
<1>4. \A n \in Nat : n \in N
  <2>1. N \in SUBSET Nat
    OBVIOUS
  <2> HIDE DEF N
  <2>2. QED
    BY <1>2, <1>3, <2>1, Successors
<1>5. QED
  BY <1>0, <1>4

(* The sum of fewer terms, none of them negative, is no more. *)
LEMMA SumsGrow ==
    ASSUME NEW S, IsFiniteSet(S), NEW F \in [S -> Int], \A x \in S : F[x] >= 0,
           NEW f, Additive(f, F, S), NEW s \in SUBSET S
    PROVE  \A t \in SUBSET S : s \subseteq t => f[s] <= f[t]
<1> DEFINE N == {n \in Nat : \A t \in SUBSET S :
                               s \subseteq t /\ Cardinality(t) <= n => f[s] <= f[t]}
<1>0. \A r \in SUBSET S : IsFiniteSet(r) /\ Cardinality(r) \in Nat /\ f[r] \in Int
  <2>1. \A r \in SUBSET S : IsFiniteSet(r) /\ Cardinality(r) \in Nat
    BY FS_Subset, FS_CardinalityType
  <2>2. QED
    BY <2>1 DEF Additive
<1>1. 0 \in N
  <2>1. SUFFICES ASSUME NEW t \in SUBSET S, s \subseteq t, Cardinality(t) <= 0
                 PROVE  f[s] <= f[t]
    OBVIOUS
  <2>2. s = t
    <3>1. IsFiniteSet(t) /\ Cardinality(t) = 0
      BY <1>0, <2>1
    <3>2. t = {}
      BY <3>1, FS_EmptySet
    <3>3. QED
      BY <2>1, <3>2
  <2>3. QED
    BY <1>0, <2>2
<1>2. ASSUME NEW n \in N
      PROVE  n + 1 \in N
  <2>1. SUFFICES ASSUME NEW t \in SUBSET S, s \subseteq t, Cardinality(t) <= n + 1, t # s
                 PROVE  f[s] <= f[t]
    BY <1>0
  <2>2. PICK x \in t : x \notin s
    BY <2>1
  <2> DEFINE r == t \ {x}
  <2>3. r \in SUBSET S /\ s \subseteq r /\ Cardinality(r) <= n
    <3>1. Cardinality(r) = Cardinality(t) - 1
      BY <1>0, OneLess
    <3>2. QED
      BY <1>0, <2>1, <2>2, <3>1
  <2>4. f[s] <= f[r]
    BY <2>3
  <2>5. f[t] = F[x] + f[r] /\ F[x] \in Int /\ F[x] >= 0
    BY DEF Additive
  <2>6. f[r] \in Int /\ f[s] \in Int
    BY <1>0, <2>3
  <2> HIDE DEF r
  <2>7. QED
    BY <2>4, <2>5, <2>6
<1>3. \A n \in Nat : n \in N
  <2>1. N \in SUBSET Nat
    OBVIOUS
  <2> HIDE DEF N
  <2>2. QED
    BY <1>1, <1>2, <2>1, Successors
<1>4. QED
  BY <1>0, <1>3

(* A sum does not depend on what it is a part of. *)
LEMMA SumsRestrict ==
    ASSUME NEW S, IsFiniteSet(S), NEW F \in [S -> Int], NEW f, Additive(f, F, S),
           NEW K \in SUBSET S, NEW G \in [K -> Int], NEW g, Additive(g, G, K),
           \A x \in K : F[x] = G[x]
    PROVE  f[K] = g[K]
<1> DEFINE r == [s \in SUBSET K |-> f[s]]
<1>1. IsFiniteSet(K)
  BY FS_Subset
<1>2. Additive(r, G, K)
  <2>1. \A s \in SUBSET K : s \in SUBSET S /\ r[s] = f[s] /\ f[s] \in Int
    BY DEF Additive
  <2>2. r \in [SUBSET K -> Int] /\ r[{}] = 0
    BY <2>1 DEF Additive
  <2>3. ASSUME NEW s \in SUBSET K, NEW x \in s
        PROVE  r[s] = G[x] + r[s \ {x}]
    <3>1. f[s] = F[x] + f[s \ {x}]
      BY <2>1 DEF Additive
    <3>2. r[s] = f[s] /\ r[s \ {x}] = f[s \ {x}] /\ F[x] = G[x]
      BY <2>1
    <3> HIDE DEF r
    <3>3. QED
      BY <3>1, <3>2
  <2> HIDE DEF r
  <2>4. QED
    BY <2>2, <2>3 DEF Additive
<1>3. r[K] = f[K]
  OBVIOUS
<1> HIDE DEF r
<1>4. \A x \in K : AtMost(1, G, 1, G, x)
  BY DEF AtMost
<1>5. AtMost(1, r, 1, g, K)
  BY <1>1, <1>2, <1>4, SumsCompare
<1>6. AtMost(1, g, 1, r, K)
  BY <1>1, <1>2, <1>4, SumsCompare
<1>7. r[K] \in Int /\ g[K] \in Int
  BY <1>2 DEF Additive
<1>8. QED
  BY <1>3, <1>5, <1>6, <1>7 DEF AtMost

-----------------------------------------------------------------------------
\* What a frame counts for at a time.
Share(h, now) == h.ms * (WINDOW - (now - h.at))

Shares(H, now) == [h \in H |-> Share(h, now)]

\* Weighted for any time and any set of frames.
WeightedAt(H, now) == MapThenSumSet(LAMBDA h : h.ms * (WINDOW - (now - h.at)), H)

LEMMA SharesType ==
    ASSUME NEW H, H \subseteq [at : Nat, ms : FrameTimes], NEW now \in Nat
    PROVE  /\ Shares(H, now) \in [H -> Int]
           /\ \A h \in H : Shares(H, now)[h] = Share(h, now) /\ Share(h, now) \in Int
<1>1. \A h \in H : h.ms \in Int /\ h.at \in Int /\ WINDOW \in Int
  <2>1. \A x \in FrameTimes : x \in Int
    BY FramesAssumption
  <2>2. QED
    BY <2>1, AirtimeAssumption
<1>2. \A h \in H : Share(h, now) \in Int
  BY <1>1 DEF Share
<1>3. QED
  BY <1>2 DEF Shares

(* It is what the sums of the shares say. *)
LEMMA WeightedIsSum ==
    ASSUME NEW H, IsFiniteSet(H), H \subseteq [at : Nat, ms : FrameTimes], NEW now \in Nat
    PROVE  \E f : Additive(f, Shares(H, now), H) /\ WeightedAt(H, now) = f[H]
<1> DEFINE First(s) == CHOOSE x \in s : TRUE
           Term(s) == First(s).ms * (WINDOW - (now - First(s).at))
           Sums(f) == f = [s \in SUBSET H |->
                             IF s = {} THEN 0 ELSE Term(s) + f[s \ {First(s)}]]
           iter == CHOOSE f : Sums(f)
<1>1. WeightedAt(H, now) = iter[H]
  BY DEF WeightedAt, MapThenSumSet, MapThenFoldSet
<1>2. ASSUME NEW f, Summing(f, Shares(H, now), H)
      PROVE  Sums(f)
  <2>1. \A s \in SUBSET H : s # {} => Shares(H, now)[First(s)] = Term(s)
    BY DEF Shares, Share
  <2>2. f = [s \in SUBSET H |->
               IF s = {} THEN 0 ELSE Shares(H, now)[First(s)] + f[s \ {First(s)}]]
    BY <1>2, Zenon DEF Summing
  <2> HIDE DEF First, Term
  <2>3. f = [s \in SUBSET H |->
               IF s = {} THEN 0 ELSE Term(s) + f[s \ {First(s)}]]
    BY <2>1, <2>2
  <2>4. QED
    BY <2>3
<1>3. ASSUME NEW f, Sums(f)
      PROVE  Summing(f, Shares(H, now), H)
  <2>1. \A s \in SUBSET H : s # {} => Shares(H, now)[First(s)] = Term(s)
    BY DEF Shares, Share
  <2> DEFINE shares == Shares(H, now)
  <2> HIDE DEF Term, shares
  <2>2. f = [s \in SUBSET H |->
               IF s = {} THEN 0 ELSE shares[First(s)] + f[s \ {First(s)}]]
    BY <1>3, <2>1 DEF shares
  <2>3. QED
    BY <2>2, Zenon DEF Summing, shares
<1>4. \E f : Sums(f)
  <2> HIDE DEF Sums
  <2>1. QED
    BY <1>2, SumsExist
<1>5. Sums(iter)
  <2> HIDE DEF Sums
  <2>1. QED
    BY <1>4, Zenon
<1>6. Summing(iter, Shares(H, now), H)
  <2> HIDE DEF iter
  <2>1. QED
    BY <1>3, <1>5
<1> HIDE DEF iter
<1>7. Shares(H, now) \in [H -> Int]
  BY SharesType
<1>8. Additive(iter, Shares(H, now), H)
  BY <1>6, <1>7, SumsAdd, Zenon
<1>9. QED
  BY <1>1, <1>8

\* Finitely many frames, as counted holds them.
Frames(H) == IsFiniteSet(H) /\ H \subseteq [at : Nat, ms : FrameTimes]

(* The frames at two times: if their shares compare, so does the whole. *)
LEMMA WeightedCompare ==
    ASSUME NEW H, Frames(H), NEW now \in Nat, NEW later \in Nat, NEW a \in Int, NEW b \in Int,
           \A h \in H : a * Share(h, later) <= b * Share(h, now)
    PROVE  /\ WeightedAt(H, now) \in Int /\ WeightedAt(H, later) \in Int
           /\ a * WeightedAt(H, later) <= b * WeightedAt(H, now)
<1>1. PICK f : Additive(f, Shares(H, later), H) /\ WeightedAt(H, later) = f[H]
  BY WeightedIsSum DEF Frames
<1>2. PICK g : Additive(g, Shares(H, now), H) /\ WeightedAt(H, now) = g[H]
  BY WeightedIsSum DEF Frames
<1> DEFINE F == Shares(H, later)
           G == Shares(H, now)
<1>3. /\ F \in [H -> Int] /\ G \in [H -> Int] /\ IsFiniteSet(H)
      /\ Additive(f, F, H) /\ Additive(g, G, H)
  BY <1>1, <1>2, SharesType DEF Frames
<1>4. \A h \in H : AtMost(a, F, b, G, h)
  BY SharesType DEF Frames, AtMost
<1> HIDE DEF F, G
<1>5. AtMost(a, f, b, g, H)
  BY <1>3, <1>4, SumsCompare
<1>6. f[H] \in Int /\ g[H] \in Int
  BY <1>3 DEF Additive
<1>7. QED
  BY <1>1, <1>2, <1>5, <1>6 DEF AtMost

(* Fewer frames, none of which counts for less than nothing. *)
LEMMA WeightedGrows ==
    ASSUME NEW H, Frames(H), NEW K \in SUBSET H, NEW now \in Nat,
           \A h \in H : Share(h, now) >= 0
    PROVE  /\ WeightedAt(H, now) \in Int /\ WeightedAt(K, now) \in Int
           /\ WeightedAt(K, now) <= WeightedAt(H, now)
<1>1. Frames(K)
  BY FS_Subset DEF Frames
<1>2. PICK f : Additive(f, Shares(H, now), H) /\ WeightedAt(H, now) = f[H]
  BY WeightedIsSum DEF Frames
<1>3. PICK g : Additive(g, Shares(K, now), K) /\ WeightedAt(K, now) = g[K]
  BY <1>1, WeightedIsSum DEF Frames
<1> DEFINE F == Shares(H, now)
           G == Shares(K, now)
<1>4. /\ F \in [H -> Int] /\ G \in [K -> Int] /\ IsFiniteSet(H)
      /\ Additive(f, F, H) /\ Additive(g, G, K)
  BY <1>1, <1>2, <1>3, SharesType DEF Frames
<1>5. (\A h \in K : F[h] = G[h]) /\ (\A h \in H : F[h] >= 0)
  <2>1. \A h \in H : F[h] = Share(h, now)
    BY SharesType DEF Frames
  <2>2. \A h \in K : G[h] = Share(h, now)
    BY <1>1, SharesType DEF Frames
  <2> HIDE DEF F, G
  <2>3. QED
    BY <2>1, <2>2
<1> HIDE DEF F, G
<1>6. f[K] = g[K]
  BY <1>4, <1>5, SumsRestrict
<1>7. f[K] <= f[H]
  <2>1. \A t \in SUBSET H : K \subseteq t => f[K] <= f[t]
    BY <1>4, <1>5, SumsGrow, Zenon
  <2>2. QED
    BY <2>1
<1>8. f[H] \in Int /\ g[K] \in Int
  BY <1>4 DEF Additive
<1>9. QED
  BY <1>2, <1>3, <1>6, <1>7, <1>8

(* One more frame, which may be among them already. *)
LEMMA WeightedOneMore ==
    ASSUME NEW H, Frames(H), NEW h \in [at : Nat, ms : FrameTimes], NEW now \in Nat,
           Share(h, now) >= 0
    PROVE  /\ Frames(H \cup {h})
           /\ WeightedAt(H, now) \in Int /\ WeightedAt(H \cup {h}, now) \in Int
           /\ WeightedAt(H \cup {h}, now) <= Share(h, now) + WeightedAt(H, now)
<1> DEFINE L == H \cup {h}
<1>1. Frames(L)
  BY FS_AddElement DEF Frames
<1>2. PICK f : Additive(f, Shares(L, now), L) /\ WeightedAt(L, now) = f[L]
  BY <1>1, WeightedIsSum DEF Frames
<1>3. PICK g : Additive(g, Shares(H, now), H) /\ WeightedAt(H, now) = g[H]
  BY WeightedIsSum DEF Frames
<1> DEFINE F == Shares(L, now)
           G == Shares(H, now)
<1>4. /\ F \in [L -> Int] /\ G \in [H -> Int] /\ IsFiniteSet(L) /\ H \in SUBSET L
      /\ Additive(f, F, L) /\ Additive(g, G, H)
  BY <1>1, <1>2, <1>3, SharesType DEF Frames
<1>5. /\ \A x \in H : F[x] = G[x]
      /\ F[h] = Share(h, now) /\ Share(h, now) \in Int
  <2>1. \A x \in L : F[x] = Share(x, now) /\ Share(x, now) \in Int
    BY <1>1, SharesType DEF Frames
  <2>2. \A x \in H : G[x] = Share(x, now)
    BY SharesType DEF Frames
  <2> HIDE DEF F, G
  <2>3. QED
    BY <2>1, <2>2
<1>6. h \in L /\ (h \in H => L = H) /\ (h \notin H => L \ {h} = H)
  OBVIOUS
<1>7. SUFFICES /\ WeightedAt(H, now) \in Int /\ WeightedAt(L, now) \in Int
               /\ WeightedAt(L, now) <= Share(h, now) + WeightedAt(H, now)
  BY <1>1
<1> HIDE DEF F, G, L
<1>8. f[H] = g[H]
  BY <1>4, <1>5, SumsRestrict
<1>9. f[L] \in Int /\ g[H] \in Int
  BY <1>4 DEF Additive
<1>10. f[L] <= Share(h, now) + g[H]
  <2>1. CASE h \in H
    BY <1>5, <1>6, <1>8, <1>9, <2>1
  <2>2. CASE h \notin H
    <3>1. f[L] = F[h] + f[L \ {h}]
      BY <1>4, <1>6 DEF Additive
    <3>2. QED
      BY <1>5, <1>6, <1>8, <1>9, <2>2, <3>1
  <2>3. QED
    BY <2>1, <2>2
<1>11. QED
  BY <1>2, <1>3, <1>9, <1>10

-----------------------------------------------------------------------------
\* The total, as it was cleaned up last, covers what the frames counted for then.
Covered ==
    /\ Frames(counted)
    /\ looked <= clock /\ clock - looked < TICK_MOD
    /\ airtime.last = 0 \/ airtime.last = looked % TICK_MOD
    /\ \A h \in counted : h.at <= looked /\ clock - h.at < WINDOW
    /\ airtime.total * WINDOW >= WeightedAt(counted, looked)

(* The device sees the time since it looked last, also across a wrap of its *)
(* clock.                                                                   *)
LEMMA ElapsedIsTime ==
    ASSUME NEW now \in Nat, NEW then \in Nat, then <= now, now - then < TICK_MOD
    PROVE  ((now % TICK_MOD) - (then % TICK_MOD)) % TICK_MOD = now - then
<1> DEFINE M == TICK_MOD
           q == now \div M
           p == then \div M
           r == now % M
           t == then % M
<1>1. M \in Nat \ {0}
  BY AirtimeAssumption
<1>2. /\ q \in Int /\ r \in Int /\ now = M * q + r
      /\ p \in Int /\ t \in Int /\ then = M * p + t
  BY <1>1, Division
<1> HIDE DEF q, p, r, t
<1>3. r - t = M * (p - q) + (now - then)
  BY <1>1, <1>2
<1>4. p - q \in Int /\ now - then \in Int /\ 0 <= now - then
  BY <1>2
<1>5. (M * (p - q) + (now - then)) % M = now - then
  BY <1>1, <1>4, Remainder
<1>6. (r - t) % M = now - then
  BY <1>3, <1>5
<1>7. QED
  BY <1>6 DEF r, t

(* The share of a frame falls at least as fast as the total is taken off.   *)
LEMMA SharesFall ==
    ASSUME NEW W \in Nat, NEW age \in Nat, NEW e \in Nat, NEW ms \in Nat
    PROVE  W * (ms * (W - (age + e))) <= (W - e) * (ms * (W - age))
<1>1. (W - e) * (W - age) = W * (W - (age + e)) + e * age
  OBVIOUS
<1>2. ms * (e * age) >= 0
  <2>1. e * age \in Nat
    OBVIOUS
  <2>2. QED
    BY <2>1
<1> DEFINE x == W - e
           y == W - age
           z == W - (age + e)
           k == e * age
<1>3. x \in Int /\ y \in Int /\ z \in Int /\ k \in Int
  OBVIOUS
<1>4. x * y = W * z + k /\ ms * k >= 0
  BY <1>1, <1>2
<1> HIDE DEF x, y, z, k
<1>5. x * (ms * y) = ms * (x * y) /\ W * (ms * z) = ms * (W * z)
  BY <1>3
<1>6. ms * (x * y) = ms * (W * z) + ms * k
  BY <1>3, <1>4
<1>7. W * (ms * z) <= x * (ms * y)
  BY <1>3, <1>4, <1>5, <1>6
<1>8. QED
  BY <1>7 DEF x, y, z

(* The shares of the counted frames are not negative. *)
LEMMA SharesCount ==
    ASSUME TypeOK, Covered
    PROVE  \A h \in counted : /\ h.ms \in Nat /\ h.at \in Nat
                              /\ Share(h, looked) \in Nat /\ Share(h, clock) \in Nat
                              /\ Share(h, clock) <= Share(h, looked)
<1> SUFFICES ASSUME NEW h \in counted
             PROVE  /\ h.ms \in Nat /\ h.at \in Nat
                    /\ Share(h, looked) \in Nat /\ Share(h, clock) \in Nat
                    /\ Share(h, clock) <= Share(h, looked)
  OBVIOUS
<1>1. WINDOW \in Nat /\ clock \in Nat /\ looked \in Nat
  BY AirtimeAssumption DEF TypeOK
<1>2. FrameTimes \subseteq Nat
  BY FramesAssumption
<1>3. h.ms \in Nat /\ h.at \in Nat
  BY <1>2 DEF TypeOK
<1> DEFINE x == WINDOW - (looked - h.at)
           y == WINDOW - (clock - h.at)
<1>4. x \in Nat /\ y \in Nat /\ y <= x
  BY <1>1, <1>3 DEF Covered
<1> HIDE DEF x, y
<1>5. h.ms * x \in Nat /\ h.ms * y \in Nat /\ h.ms * y <= h.ms * x
  BY <1>3, <1>4, ProductMonotone
<1>6. QED
  BY <1>3, <1>5 DEF Share, x, y

(* Cleaned up, the total covers what the frames count for by now. *)
LEMMA CleanedCovers ==
    ASSUME TypeOK, Covered
    PROVE  /\ Cleaned(airtime, tick).total \in 0 .. airtime.total
           /\ WeightedAt(counted, clock) \in Int
           /\ Cleaned(airtime, tick).total * WINDOW >= WeightedAt(counted, clock)
<1> DEFINE T == airtime.total
           W == WINDOW
           e == clock - looked
           was == WeightedAt(counted, looked)
           is == WeightedAt(counted, clock)
           t == Cleaned(airtime, tick).total
<1>1. W \in Nat \ {0} /\ TICK_MOD \in Nat \ {0} /\ WORD \in Nat \ {0} /\ LONGEST \in Nat
  BY AirtimeAssumption, FramesAssumption
<1>2. T \in Nat /\ clock \in Nat /\ looked \in Nat /\ e \in Nat /\ e < TICK_MOD
  BY <1>1 DEF TypeOK, Covered
<1>3. Frames(counted) /\ T * W >= was
  BY DEF Covered
<1>4. was \in Int /\ is \in Int /\ is <= was
  <2> DEFINE one == 1
  <2>1. \A h \in counted : one * Share(h, clock) <= one * Share(h, looked)
    BY SharesCount
  <2>2. one \in Int /\ \A n \in Int : one * n = n
    OBVIOUS
  <2> HIDE DEF one
  <2>3. was \in Int /\ is \in Int /\ one * is <= one * was
    BY <1>2, <1>3, <2>1, <2>2, WeightedCompare
  <2>4. QED
    BY <2>2, <2>3
<1>5. CASE airtime.last = 0
  <2>1. t = T
    BY <1>5 DEF Cleaned
  <2> HIDE DEF T, t, is, was
  <2>2. QED
    BY <1>1, <1>2, <1>3, <1>4, <2>1 DEF T, t, is
<1>6. CASE airtime.last # 0
  <2>1. Elapsed(airtime, tick) = e
    <3>1. airtime.last = looked % TICK_MOD
      BY <1>6 DEF Covered
    <3>2. QED
      BY <1>2, <3>1, ElapsedIsTime DEF Elapsed, tick, Covered
  <2>2. CASE e >= W
    <3>1. t = 0
      BY <1>2, <1>6, <2>1, <2>2 DEF Cleaned, Decay
    <3>2. counted = {}
      <4>1. \A h \in counted : FALSE
        BY <1>1, <1>2, <2>2, SharesCount DEF Covered
      <4>2. QED
        BY <4>1
    <3>3. is = 0
      <4>1. PICK f : Additive(f, Shares(counted, clock), counted) /\ is = f[counted]
        BY <1>2, <1>3, WeightedIsSum DEF Frames
      <4>2. QED
        BY <3>2, <4>1 DEF Additive
    <3> HIDE DEF T, t, is
    <3>4. QED
      BY <1>1, <1>2, <3>1, <3>3 DEF T, t, is
  <2>3. CASE e < W
    <3>1. t = T - ((T * e) % WORD) \div W
      <4>1. ~(e >= W)
        BY <1>1, <1>2, <2>3
      <4>2. QED
        BY <1>6, <2>1, <4>1 DEF Cleaned, Decay
    <3>2. t \in 0 .. T /\ t * W >= T * (W - e)
      <4> DEFINE d == ((T * e) % WORD) \div W
      <4>1. d \in 0 .. T /\ (T - d) * W >= T * (W - e)
        <5> HIDE DEF T, e
        <5>1. QED
          BY <1>2, <2>3, TakesItsShare
      <4> HIDE DEF d, T, t, e
      <4>2. QED
        BY <1>1, <1>2, <3>1, <4>1 DEF d
    <3>3. \A h \in counted : W * Share(h, clock) <= (W - e) * Share(h, looked)
      <4> SUFFICES ASSUME NEW h \in counted
                   PROVE  W * Share(h, clock) <= (W - e) * Share(h, looked)
        OBVIOUS
      <4> DEFINE age == looked - h.at
      <4>1. h.ms \in Nat /\ age \in Nat /\ age + e = clock - h.at
        BY <1>2, SharesCount DEF Covered
      <4>2. W * (h.ms * (W - (age + e))) <= (W - e) * (h.ms * (W - age))
        <5> HIDE DEF age, e
        <5>1. QED
          BY <1>1, <1>2, <4>1, SharesFall
      <4>3. QED
        <5> HIDE DEF e
        <5>1. Share(h, clock) = h.ms * (W - (age + e)) /\ Share(h, looked) = h.ms * (W - age)
          BY <4>1 DEF Share
        <5> HIDE DEF age
        <5>2. QED
          BY <4>2, <5>1
    <3>4. W - e \in Nat
      BY <1>1, <1>2, <2>3
    <3>5. W * is <= (W - e) * was
      <4> DEFINE b == W - e
      <4>1. b \in Int /\ W \in Int
        BY <1>1, <3>4
      <4>2. \A h \in counted : W * Share(h, clock) <= b * Share(h, looked)
        BY <3>3
      <4> HIDE DEF b
      <4>3. W * is <= b * was
        BY <1>2, <1>3, <4>1, <4>2, WeightedCompare
      <4>4. QED
        BY <4>3 DEF b
    <3> HIDE DEF T, t, is, was, e
    <3>6. (W - e) * was <= (W - e) * (T * W)
      <4> DEFINE b == W - e
                 full == T * W
      <4>1. b \in Nat /\ full \in Int /\ full - was >= 0
        BY <1>1, <1>2, <1>3, <1>4, <3>4
      <4> HIDE DEF b, full
      <4>2. b * (full - was) >= 0
        BY <1>4, <4>1
      <4>3. b * was <= b * full
        BY <1>4, <4>1, <4>2
      <4>4. QED
        BY <4>3 DEF b, full
    <3>7. (W - e) * (T * W) = W * (T * (W - e))
      BY <1>1, <1>2
    <3> DEFINE rest == T * (W - e)
               now == t * W
    <3>8. rest \in Int /\ now \in Int /\ now >= rest
      BY <1>1, <1>2, <3>2, <3>4
    <3>9. W * is <= W * rest
      <4>1. W * is \in Int /\ (W - e) * was \in Int /\ W * rest \in Int
        BY <1>1, <1>2, <1>4, <3>4, <3>8
      <4>2. (W - e) * was <= W * rest
        BY <3>6, <3>7
      <4> HIDE DEF rest
      <4>3. QED
        BY <3>5, <4>1, <4>2
    <3> HIDE DEF rest, now
    <3>10. is <= rest
      <4>1. SUFFICES ASSUME is - rest >= 1
                     PROVE  FALSE
        BY <1>4, <3>8
      <4>2. W * (is - rest) >= W
        BY <1>1, <1>4, <3>8, <4>1
      <4>3. QED
        BY <1>1, <1>4, <3>8, <3>9, <4>2
    <3>11. QED
      BY <1>4, <3>2, <3>8, <3>10 DEF T, t, is, now
  <2>4. QED
    BY <1>1, <1>2, <2>2, <2>3
<1>7. QED
  BY <1>5, <1>6

LEMMA CoveredInitially == Init => Covered
<1> SUFFICES ASSUME Init
             PROVE  Covered
  OBVIOUS
<1>1. WINDOW \in Nat /\ TICK_MOD \in Nat \ {0}
  BY AirtimeAssumption
<1>2. clock \in Nat /\ looked = clock /\ counted = {} /\ airtime = NoAirtime
  BY FramesAssumption DEF Init
<1>3. Frames(counted)
  BY <1>2, FS_EmptySet DEF Frames
<1>4. PICK f : Additive(f, Shares(counted, looked), counted)
               /\ WeightedAt(counted, looked) = f[counted]
  BY <1>2, <1>3, WeightedIsSum DEF Frames
<1>5. WeightedAt(counted, looked) = 0
  BY <1>2, <1>4 DEF Additive
<1>6. QED
  BY <1>1, <1>2, <1>3, <1>5 DEF Covered, NoAirtime

\* The uint32_t has room for one more frame: less than 49 days were counted.
Fits == airtime.total + LONGEST < WORD

(* Counting a frame. *)
LEMMA SendFrameCovers ==
    ASSUME TypeOK, Fits, Covered, NEW ms \in FrameTimes, NEW silent \in {1, ms},
           SendFrame(ms, silent)
    PROVE  Covered'
<1> DEFINE t == Cleaned(airtime, tick).total
           h == [at |-> clock, ms |-> ms]
           is == WeightedAt(counted, clock)
<1>1. WINDOW \in Nat \ {0} /\ WORD \in Nat \ {0} /\ LONGEST \in Nat /\ TICK_MOD \in Nat \ {0}
  BY AirtimeAssumption, FramesAssumption
<1>2. airtime.total \in Nat /\ clock \in Nat /\ looked \in Nat
  BY DEF TypeOK
<1>3. ms \in 1 .. LONGEST
  BY FramesAssumption
<1>4. t \in 0 .. airtime.total /\ is \in Int /\ t * WINDOW >= is
  BY CleanedCovers
<1>5. /\ airtime' = [total |-> (t + ms) % WORD, last |-> tick]
      /\ clock' = clock /\ looked' = clock /\ counted' = counted \cup {h}
  BY DEF SendFrame, Counted
<1>6. Share(h, clock) = ms * WINDOW
  <2>1. clock - clock = 0 /\ WINDOW - 0 = WINDOW
    BY <1>1, <1>2
  <2>2. QED
    BY <2>1 DEF Share
<1>7. /\ Frames(counted \cup {h}) /\ WeightedAt(counted \cup {h}, clock) \in Int
      /\ WeightedAt(counted \cup {h}, clock) <= ms * WINDOW + is
  <2>1. h \in [at : Nat, ms : FrameTimes]
    BY <1>2
  <2>2. Share(h, clock) >= 0
    BY <1>1, <1>3, <1>6
  <2>3. Frames(counted)
    BY DEF Covered
  <2> HIDE DEF h
  <2>4. QED
    BY <1>2, <1>6, <2>1, <2>2, <2>3, WeightedOneMore
<1>8. (t + ms) % WORD = t + ms
  <2>1. airtime.total + LONGEST < WORD
    BY DEF Fits
  <2> HIDE DEF t
  <2>2. t + ms \in Nat /\ t + ms < WORD
    BY <1>1, <1>2, <1>3, <1>4, <2>1
  <2>3. (WORD * 0 + (t + ms)) % WORD = t + ms
    BY <1>1, <2>2, Remainder
  <2>4. QED
    BY <1>1, <2>2, <2>3
<1>9. \A x \in counted \cup {h} : x.at <= clock /\ clock - x.at < WINDOW
  <2>1. \A x \in counted : x.at <= clock /\ clock - x.at < WINDOW
    BY <1>2, SharesCount DEF Covered
  <2>2. QED
    BY <1>1, <1>2, <2>1
<1>10. (t + ms) * WINDOW >= WeightedAt(counted \cup {h}, clock)
  <2> HIDE DEF t, h, is
  <2>1. (t + ms) * WINDOW = t * WINDOW + ms * WINDOW /\ t * WINDOW \in Int /\ ms * WINDOW \in Int
    BY <1>1, <1>2, <1>3, <1>4
  <2>2. QED
    BY <1>4, <1>7, <2>1
<1> HIDE DEF t, h, is
<1>11. WeightedAt(counted', looked') = WeightedAt(counted \cup {h}, clock)
  BY <1>5
<1>12. QED
  BY <1>1, <1>2, <1>5, <1>7, <1>8, <1>9, <1>10, <1>11 DEF Covered, tick

LEMMA CoveredStepwise == TypeOK /\ Fits /\ Covered /\ [Next]_vars => Covered'
<1> SUFFICES ASSUME TypeOK, Fits, Covered, [Next]_vars
             PROVE  Covered'
  OBVIOUS
<1>1. WINDOW \in Nat \ {0} /\ TICK_MOD \in Nat \ {0}
  BY AirtimeAssumption
<1>2. clock \in Nat /\ looked \in Nat
  BY DEF TypeOK
<1>3. ASSUME NEW ms \in FrameTimes, SendTracking(ms)
      PROVE  Covered'
  BY <1>3, SendFrameCovers DEF SendTracking
<1>4. ASSUME NEW ms \in FrameTimes, SendOther(ms)
      PROVE  Covered'
  BY <1>4, SendFrameCovers DEF SendOther
<1>5. CASE Look
  <2>1. /\ airtime' = Cleaned(airtime, tick) /\ looked' = clock
        /\ clock' = clock /\ counted' = counted
    BY <1>5 DEF Look
  <2>2. airtime'.last = clock % TICK_MOD
    BY <2>1 DEF Cleaned, tick
  <2>3. airtime'.total * WINDOW >= WeightedAt(counted, clock)
    BY <2>1, CleanedCovers
  <2>4. WeightedAt(counted', looked') = WeightedAt(counted, clock)
    BY <2>1
  <2>5. \A h \in counted : h.at <= clock /\ clock - h.at < WINDOW
    BY <1>2, SharesCount DEF Covered
  <2>6. QED
    BY <1>1, <1>2, <2>1, <2>2, <2>3, <2>4, <2>5 DEF Covered
<1>6. CASE TimePasses
  <2>1. /\ clock' = clock + 1 /\ clock - looked < TICK_MOD - 1
        /\ airtime' = airtime /\ looked' = looked
        /\ counted' \in SUBSET counted
        /\ \A h \in counted' : clock' - h.at < WINDOW
    BY <1>6 DEF TimePasses, Recent
  <2>2. Frames(counted) /\ Frames(counted')
    BY <2>1, FS_Subset DEF Covered, Frames
  <2>3. /\ WeightedAt(counted, looked) \in Int /\ WeightedAt(counted', looked) \in Int
        /\ WeightedAt(counted', looked) <= WeightedAt(counted, looked)
    <3>1. \A h \in counted : Share(h, looked) >= 0
      BY SharesCount
    <3> DEFINE K == counted'
    <3>2. K \in SUBSET counted
      BY <2>1
    <3> HIDE DEF K
    <3>3. /\ WeightedAt(counted, looked) \in Int /\ WeightedAt(K, looked) \in Int
          /\ WeightedAt(K, looked) <= WeightedAt(counted, looked)
      BY <1>2, <2>2, <3>1, <3>2, WeightedGrows
    <3>4. QED
      BY <3>3 DEF K
  <2>4. airtime.total * WINDOW \in Int
    BY <1>1 DEF TypeOK
  <2>5. airtime'.total * WINDOW >= WeightedAt(counted', looked')
    <3>1. airtime.total * WINDOW >= WeightedAt(counted', looked)
      BY <2>3, <2>4 DEF Covered
    <3>2. QED
      BY <2>1, <3>1
  <2>6. QED
    BY <1>1, <1>2, <2>1, <2>2, <2>5 DEF Covered
<1>7. CASE UNCHANGED vars
  <2>1. /\ airtime' = airtime /\ clock' = clock /\ looked' = looked /\ counted' = counted
    BY <1>7 DEF vars
  <2>2. QED
    BY <2>1 DEF Covered
<1>8. QED
  BY <1>3, <1>4, <1>5, <1>6, <1>7 DEF Next

LEMMA CoveredIsEnough == TypeOK /\ Covered => NeverUnderestimates
<1>1. Weighted = WeightedAt(counted, clock)
  BY DEF Weighted, WeightedAt
<1>2. QED
  BY <1>1, CleanedCovers DEF NeverUnderestimates

(* As long as the total fits a word, it never says less than the frames of  *)
(* the last window, weighted by their age: wherever the clock starts and    *)
(* wraps, however often it is looked at, whatever is rounded and even if a  *)
(* product overflows.                                                       *)
THEOREM CoversWhileItFits == Spec /\ []Fits => []NeverUnderestimates
<1>1. Init => Covered
  BY CoveredInitially
<1>2. TypeOK /\ Fits /\ Covered /\ [Next]_vars => Covered'
  BY CoveredStepwise
<1>3. TypeOK /\ Covered => NeverUnderestimates
  BY CoveredIsEnough
<1>4. QED
  BY <1>1, <1>2, <1>3, Bounded, PTL DEF Spec

(* It fits in the first turn of the clock, so that nothing is assumed       *)
(* there.                                                                   *)
THEOREM Covers == Spec => [](clock < TICK_MOD => NeverUnderestimates)
<1> DEFINE Inv == clock < TICK_MOD => Covered
<1>1. Init => Inv
  BY CoveredInitially
<1>2. TypeOK /\ Inv /\ [Next]_vars => Inv'
  <2> SUFFICES ASSUME TypeOK, Inv, [Next]_vars, clock' < TICK_MOD
               PROVE  Covered'
    OBVIOUS
  <2>1. clock < TICK_MOD
    BY TimeForward, AirtimeAssumption
  <2>2. Fits
    <3>1. /\ WINDOW \in Nat \ {0} /\ LONGEST \in Nat /\ WORD \in Nat
          /\ (WINDOW + 2 * LONGEST) * 1000 < WORD
      BY AirtimeAssumption, FramesAssumption
    <3>2. airtime.total \in Nat /\ airtime.total <= WINDOW + 2 * LONGEST
      BY <2>1 DEF TypeOK
    <3>3. QED
      BY <3>1, <3>2 DEF Fits
  <2>3. QED
    BY <2>1, <2>2, CoveredStepwise
<1>3. TypeOK /\ Inv => (clock < TICK_MOD => NeverUnderestimates)
  BY CoveredIsEnough
<1>4. QED
  BY <1>1, <1>2, <1>3, Bounded, PTL DEF Spec

=============================================================================
