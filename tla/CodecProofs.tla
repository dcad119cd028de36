------------------------------- MODULE CodecProofs -------------------------------
(****************************************************************************)
(* What is written of a report is read as it was, and a packet is parsed    *)
(* as it was built, by the parser and by the pool, for whatever the         *)
(* application sets and frames of any length; what the setters store is     *)
(* close to what they were given; and the time of a frame and the zone of a *)
(* position are right wherever they are asked for.                          *)
(****************************************************************************)
EXTENDS Codecs, SequenceTheorems, TLAPS

-----------------------------------------------------------------------------
(* Octets in a row.                                                         *)

(* What follows does not change what is read in front of it. *)
LEMMA ReadInFront ==
    ASSUME NEW S, NEW s \in Seq(S), NEW t \in Seq(S), NEW m \in Nat, NEW n \in Nat,
           1 <= m, n <= Len(s)
    PROVE  SubSeq(s \o t, m, n) = SubSeq(s, m, n)
<1>1. /\ s \o t \in Seq(S) /\ Len(s \o t) = Len(s) + Len(t)
      /\ \A i \in 1 .. Len(s) : (s \o t)[i] = s[i]
  BY ConcatProperties
<1>2. \A i \in m .. n : s[i] \in S /\ (s \o t)[i] = s[i]
  BY <1>1
<1>3. /\ SubSeq(s, m, n) \in Seq(S)
      /\ Len(SubSeq(s, m, n)) = IF m <= n THEN n - m + 1 ELSE 0
      /\ \A i \in 1 .. n - m + 1 : SubSeq(s, m, n)[i] = s[m + i - 1]
  BY <1>2, SubSeqProperties
<1>4. /\ SubSeq(s \o t, m, n) \in Seq(S)
      /\ Len(SubSeq(s \o t, m, n)) = IF m <= n THEN n - m + 1 ELSE 0
      /\ \A i \in 1 .. n - m + 1 : SubSeq(s \o t, m, n)[i] = (s \o t)[m + i - 1]
  BY <1>2, SubSeqProperties
<1>5. ASSUME NEW i \in 1 .. Len(SubSeq(s, m, n))
      PROVE  SubSeq(s \o t, m, n)[i] = SubSeq(s, m, n)[i]
  <2>1. m <= n /\ i \in 1 .. n - m + 1 /\ m + i - 1 \in m .. n
    BY <1>3
  <2>2. QED
    BY <2>1, <1>2, <1>3, <1>4
<1>6. QED
  BY <1>3, <1>4, <1>5, SeqEqual

(* What was written last is read at the end. *)
LEMMA ReadAtEnd ==
    ASSUME NEW S, NEW s \in Seq(S), NEW t \in Seq(S)
    PROVE  SubSeq(s \o t, Len(s) + 1, Len(s) + Len(t)) = t
<1>1. /\ s \o t \in Seq(S) /\ Len(s \o t) = Len(s) + Len(t)
      /\ Len(s) \in Nat /\ Len(t) \in Nat
      /\ \A i \in 1 .. Len(s) + Len(t) :
            (s \o t)[i] = IF i <= Len(s) THEN s[i] ELSE t[i - Len(s)]
  BY ConcatProperties
<1> DEFINE m == Len(s) + 1
           n == Len(s) + Len(t)
<1>2. \A i \in m .. n : (s \o t)[i] = t[i - Len(s)] /\ (s \o t)[i] \in S
  BY <1>1
<1>3. /\ SubSeq(s \o t, m, n) \in Seq(S)
      /\ Len(SubSeq(s \o t, m, n)) = IF m <= n THEN n - m + 1 ELSE 0
      /\ \A i \in 1 .. n - m + 1 : SubSeq(s \o t, m, n)[i] = (s \o t)[m + i - 1]
  BY <1>1, <1>2, SubSeqProperties
<1>4. Len(SubSeq(s \o t, m, n)) = Len(t)
  BY <1>1, <1>3
<1>5. ASSUME NEW i \in 1 .. Len(t)
      PROVE  SubSeq(s \o t, m, n)[i] = t[i]
  <2>1. i \in 1 .. n - m + 1 /\ m + i - 1 \in m .. n /\ (m + i - 1) - Len(s) = i
    BY <1>1
  <2>2. QED
    BY <2>1, <1>2, <1>3
<1>6. QED
  BY <1>3, <1>4, <1>5, SeqEqual

(* Two parts in a row, octet by octet. *)
LEMMA Joined ==
    ASSUME NEW S, NEW a \in Seq(S), NEW b \in Seq(S), NEW o, o = a \o b
    PROVE  /\ o \in Seq(S) /\ Len(o) = Len(a) + Len(b)
           /\ Len(a) \in Nat /\ Len(b) \in Nat
           /\ \A i \in 1 .. Len(a) : o[i] = a[i]
           /\ \A i \in 1 .. Len(b) : o[Len(a) + i] = b[i]
<1>1. /\ a \o b \in Seq(S) /\ Len(a \o b) = Len(a) + Len(b)
      /\ \A i \in 1 .. Len(a) + Len(b) : (a \o b)[i] = IF i <= Len(a) THEN a[i] ELSE b[i - Len(a)]
  BY ConcatProperties
<1>2. Len(a) \in Nat /\ Len(b) \in Nat
  BY LenProperties
<1>3. ASSUME NEW i \in 1 .. Len(b)
      PROVE  (a \o b)[Len(a) + i] = b[i]
  BY <1>1, <1>2
<1>4. QED
  BY <1>1, <1>2, <1>3

(* What is in front moves what is read behind it. *)
LEMMA ReadBehind ==
    ASSUME NEW S, NEW s \in Seq(S), NEW t \in Seq(S), NEW o, o = s \o t,
           NEW m \in Nat, NEW n \in Nat, 1 <= m, n <= Len(t),
           NEW a, a = Len(s) + m, NEW b, b = Len(s) + n
    PROVE  SubSeq(o, a, b) = SubSeq(t, m, n)
<1>1. /\ o \in Seq(S) /\ Len(o) = Len(s) + Len(t) /\ Len(s) \in Nat /\ Len(t) \in Nat
      /\ \A i \in 1 .. Len(t) : o[Len(s) + i] = t[i]
  BY Joined
<1>2. \A i \in 1 .. Len(t) : t[i] \in S
  BY ElementOfSeq
<1>3. \A i \in m .. n : t[i] \in S
  BY <1>1, <1>2
<1>4. \A i \in Len(s) + m .. Len(s) + n : o[i] = t[i - Len(s)] /\ o[i] \in S
  <2> TAKE i \in Len(s) + m .. Len(s) + n
  <2>1. i - Len(s) \in 1 .. Len(t) /\ Len(s) + (i - Len(s)) = i
    BY <1>1
  <2>2. QED
    BY <1>1, <1>2, <2>1
<1>5. /\ SubSeq(t, m, n) \in Seq(S)
      /\ Len(SubSeq(t, m, n)) = IF m <= n THEN n - m + 1 ELSE 0
      /\ \A i \in 1 .. n - m + 1 : SubSeq(t, m, n)[i] = t[m + i - 1]
  BY <1>3, SubSeqProperties
<1>6. a \in Int /\ b \in Int /\ (a <= b) = (m <= n) /\ b - a + 1 = n - m + 1
  BY <1>1
<1>7. /\ SubSeq(o, a, b) \in Seq(S)
      /\ Len(SubSeq(o, a, b)) = IF a <= b THEN b - a + 1 ELSE 0
      /\ \A i \in 1 .. b - a + 1 : SubSeq(o, a, b)[i] = o[a + i - 1]
  <2>1. \A i \in a .. b : o[i] \in S
    BY <1>4
  <2>2. QED
    BY <1>6, <2>1, SubSeqProperties, SMTT(40)
<1>8. ASSUME NEW i \in 1 .. Len(SubSeq(t, m, n))
      PROVE  SubSeq(o, a, b)[i] = SubSeq(t, m, n)[i]
  <2>1. m <= n /\ i \in 1 .. n - m + 1 /\ i \in 1 .. b - a + 1
    BY <1>5, <1>6
  <2>2. SubSeq(o, a, b)[i] = o[a + i - 1] /\ SubSeq(t, m, n)[i] = t[m + i - 1]
    BY <1>5, <1>7, <2>1
  <2>3. a + i - 1 \in Len(s) + m .. Len(s) + n /\ a + i - 1 - Len(s) = m + i - 1
    BY <1>1, <2>1
  <2>4. QED
    BY <1>4, <2>2, <2>3
<1>9. SubSeq(o, a, b) = SubSeq(t, m, n)
  <2>1. Len(SubSeq(o, a, b)) = Len(SubSeq(t, m, n))
    BY <1>5, <1>6, <1>7
  <2>2. QED
    BY <1>5, <1>7, <1>8, <2>1, SeqEqual
<1>10. QED
  BY <1>9

(* Three parts in a row are read one by one. *)
LEMMA ReadInTurn ==
    ASSUME NEW S, NEW a \in Seq(S), NEW b \in Seq(S), NEW c \in Seq(S),
           NEW o, o = a \o b \o c
    PROVE  /\ o \in Seq(S) /\ Len(o) = Len(a) + Len(b) + Len(c)
           /\ SubSeq(o, 1, Len(a)) = a
           /\ SubSeq(o, Len(a) + 1, Len(a) + Len(b)) = b
           /\ SubSeq(o, Len(a) + Len(b) + 1, Len(a) + Len(b) + Len(c)) = c
<1>1. a \o b \in Seq(S) /\ Len(a \o b) = Len(a) + Len(b)
  BY ConcatProperties
<1>2. (a \o b) \o c \in Seq(S) /\ Len((a \o b) \o c) = Len(a) + Len(b) + Len(c)
  BY <1>1, ConcatProperties
<1>3. Len(a) \in Nat /\ Len(b) \in Nat
  BY LenProperties
<1>4. SubSeq(a, 1, Len(a)) = a
  BY SubSeqFull
<1>5. SubSeq(a \o b, 1, Len(a)) = a
  BY <1>3, <1>4, ReadInFront
<1>6. SubSeq((a \o b) \o c, 1, Len(a)) = a
  BY <1>1, <1>3, <1>5, ReadInFront
<1>7. SubSeq(a \o b, Len(a) + 1, Len(a) + Len(b)) = b
  BY ReadAtEnd
<1>8. SubSeq((a \o b) \o c, Len(a) + 1, Len(a) + Len(b)) = b
  BY <1>1, <1>3, <1>7, ReadInFront
<1>9. SubSeq((a \o b) \o c, Len(a \o b) + 1, Len(a \o b) + Len(c)) = c
  BY <1>1, ReadAtEnd
<1>10. QED
  BY <1>1, <1>2, <1>6, <1>8, <1>9

-----------------------------------------------------------------------------
(* The position report.                                                     *)

TrackingRaws ==
    [altitude |-> 0 .. 2047, speed |-> 0 .. 127, climbRate |-> -63 .. 63, turnRate |-> -64 .. 64]
TrackingField(x) == [raw : TrackingRaws[x], scaled : BOOLEAN]
Coordinates == -(2^23) .. (2^23 - 1)

TrackingReports ==
    [latitude : Coordinates, longitude : Coordinates,
     altitude : TrackingField("altitude"), tracking : BOOLEAN, aircraftType : 0 .. 7,
     speed : TrackingField("speed"), climbRate : TrackingField("climbRate"),
     groundTrack : 0 .. 255, turnRate : TrackingField("turnRate"), hasTurnRate : BOOLEAN]

TrackingInputs ==
    [latitude : Int, longitude : Int, altitude : Int, tracking : BOOLEAN, aircraftType : Int,
     speed : Int, climbRate : Int, groundTrack : Int, turnRate : Int]

\* A turn rate that was never set is not written, and read as zero.
TrackingInv ==
    /\ tracking \in TrackingReports
    /\ set \in TrackingInputs
    /\ tracking.hasTurnRate \/ tracking.turnRate = Tracking!Unset
    /\ Tracking!WrongOnlyByScale

(* A coarse value, rounded away from zero, is within two fine units. *)
LEMMA CoarseIsClose ==
    ASSUME NEW c \in Int, NEW n \in {4, 5}
    PROVE  LET q == Tracking!Quotient(IF c < 0 THEN c - 2 ELSE c + 2, n)
           IN  q \in Int /\ q * n - c \in -2 .. 2
<1>1. CASE n = 4
  <2>1. CASE c < 0
    <3>1. ((-(c - 2)) \div 4) * 4 + c \in -2 .. 2
      BY <2>1
    <3>2. QED
      BY <1>1, <2>1, <3>1 DEF Tracking!Quotient
  <2>2. CASE c >= 0
    BY <1>1, <2>2 DEF Tracking!Quotient
  <2>3. QED
    BY <2>1, <2>2
<1>2. CASE n = 5
  <2>1. CASE c < 0
    <3>1. ((-(c - 2)) \div 5) * 5 + c \in -2 .. 2
      BY <2>1
    <3>2. QED
      BY <1>2, <2>1, <3>1 DEF Tracking!Quotient
  <2>2. CASE c >= 0
    BY <1>2, <2>2 DEF Tracking!Quotient
  <2>3. QED
    BY <2>1, <2>2
<1>3. QED
  BY <1>1, <1>2

(* The bounds of the values with a scale bit. *)
LEMMA ScaledBounds ==
    ASSUME NEW x \in Tracking!ScaledFields
    PROVE  /\ Tracking!Coarse[x] \in {4, 5}
           /\ {Tracking!Lowest[x], Tracking!Highest[x]} \subseteq Int
           /\ Tracking!Fine[x] \in Nat
           /\ Tracking!Lowest[x] <= Tracking!Highest[x]
           /\ TrackingRaws[x] \subseteq Int
           /\ \A c \in Int :
                 Tracking!Lowest[x] <= c /\ c <= Tracking!Highest[x] =>
                    /\ Tracking!Magnitude(c) <= Tracking!Fine[x] => c \in TrackingRaws[x]
                    /\ \A q \in Int :
                          -2 <= q * Tracking!Coarse[x] - c /\ q * Tracking!Coarse[x] - c <= 2
                             => q \in TrackingRaws[x]
<1> DEFINE Table(coarse, low, high, fine) ==
             /\ Tracking!Coarse[x] = coarse /\ Tracking!Fine[x] = fine
             /\ Tracking!Lowest[x] = low /\ Tracking!Highest[x] = high
<1>1. CASE x = "altitude"
  <2>1. Table(4, 0, 8188, 2047) /\ TrackingRaws[x] = 0 .. 2047
    BY <1>1 DEF Tracking!Lowest, Tracking!Highest, Tracking!Fine, Tracking!Coarse, TrackingRaws
  <2>2. ASSUME NEW c \in Int, 0 <= c, c <= 8188
        PROVE  /\ Tracking!Magnitude(c) <= 2047 => c \in 0 .. 2047
               /\ \A q \in Int : -2 <= q * 4 - c /\ q * 4 - c <= 2 => q \in 0 .. 2047
    BY <2>2 DEF Tracking!Magnitude
  <2>3. /\ Tracking!Coarse[x] \in {4, 5}
        /\ {Tracking!Lowest[x], Tracking!Highest[x]} \subseteq Int
        /\ Tracking!Fine[x] \in Nat
        /\ Tracking!Lowest[x] <= Tracking!Highest[x]
        /\ TrackingRaws[x] \subseteq Int
    BY <2>1
  <2>4. ASSUME NEW c \in Int, Tracking!Lowest[x] <= c, c <= Tracking!Highest[x]
        PROVE  /\ Tracking!Magnitude(c) <= Tracking!Fine[x] => c \in TrackingRaws[x]
               /\ \A q \in Int :
                     -2 <= q * Tracking!Coarse[x] - c /\ q * Tracking!Coarse[x] - c <= 2
                             => q \in TrackingRaws[x]
    <3>1. 0 <= c /\ c <= 8188
      BY <2>1, <2>4
    <3>2. /\ Tracking!Magnitude(c) <= 2047 => c \in 0 .. 2047
          /\ \A q \in Int : -2 <= q * 4 - c /\ q * 4 - c <= 2 => q \in 0 .. 2047
      BY <3>1, <2>2
    <3>3. QED
      BY <3>2, <2>1
  <2>5. QED
    BY <2>3, <2>4
<1>2. CASE x = "speed"
  <2>1. Table(5, 0, 635, 127) /\ TrackingRaws[x] = 0 .. 127
    BY <1>2 DEF Tracking!Lowest, Tracking!Highest, Tracking!Fine, Tracking!Coarse, TrackingRaws
  <2>2. ASSUME NEW c \in Int, 0 <= c, c <= 635
        PROVE  /\ Tracking!Magnitude(c) <= 127 => c \in 0 .. 127
               /\ \A q \in Int : -2 <= q * 5 - c /\ q * 5 - c <= 2 => q \in 0 .. 127
    BY <2>2 DEF Tracking!Magnitude
  <2>3. QED
    BY <2>1, <2>2
<1>3. CASE x = "climbRate"
  <2>1. Table(5, -315, 315, 63) /\ TrackingRaws[x] = -63 .. 63
    BY <1>3 DEF Tracking!Lowest, Tracking!Highest, Tracking!Fine, Tracking!Coarse, TrackingRaws
  <2>2. ASSUME NEW c \in Int, -315 <= c, c <= 315
        PROVE  /\ Tracking!Magnitude(c) <= 63 => c \in -63 .. 63
               /\ \A q \in Int : -2 <= q * 5 - c /\ q * 5 - c <= 2 => q \in -63 .. 63
    BY <2>2 DEF Tracking!Magnitude
  <2>3. QED
    BY <2>1, <2>2
<1>4. CASE x = "turnRate"
  <2>1. Table(4, -254, 254, 62) /\ TrackingRaws[x] = -64 .. 64
    BY <1>4 DEF Tracking!Lowest, Tracking!Highest, Tracking!Fine, Tracking!Coarse, TrackingRaws
  <2>2. ASSUME NEW c \in Int, -254 <= c, c <= 254
        PROVE  /\ Tracking!Magnitude(c) <= 62 => c \in -64 .. 64
               /\ \A q \in Int : -2 <= q * 4 - c /\ q * 4 - c <= 2 => q \in -64 .. 64
    BY <2>2 DEF Tracking!Magnitude
  <2>3. QED
    BY <2>1, <2>2
<1>5. QED
  BY <1>1, <1>2, <1>3, <1>4 DEF Tracking!ScaledFields

(* What a setter stores fits the bits of its field; it is off by two fine   *)
(* units at most, or the scale bit is stale.                                *)
LEMMA StoredIsClose ==
    ASSUME NEW x \in Tracking!ScaledFields, NEW v \in Int, NEW field \in TrackingField(x)
    PROVE  LET stored == Tracking!Stored(field, x, v)
               c == Tracking!InRange(x, v)
           IN  /\ stored \in TrackingField(x)
               /\ IF stored.scaled /\ Tracking!Magnitude(c) <= Tracking!Fine[x]
                  THEN stored.raw = c
                  ELSE Tracking!Value(stored, x) - c \in -2 .. 2
<1> DEFINE c == Tracking!InRange(x, v)
           q == Tracking!Quotient(IF c < 0 THEN c - 2 ELSE c + 2, Tracking!Coarse[x])
<1>1. Tracking!Lowest[x] <= c /\ c <= Tracking!Highest[x]
  BY ScaledBounds DEF Tracking!InRange, Tracking!Clamp
<1>2. c \in Int
  BY ScaledBounds DEF Tracking!InRange, Tracking!Clamp
<1>3. q \in Int /\ q * Tracking!Coarse[x] - c \in -2 .. 2
  BY <1>2, CoarseIsClose, ScaledBounds
<1>4. Tracking!Magnitude(c) \in Nat
  BY <1>2 DEF Tracking!Magnitude
<1>5. CASE Tracking!Magnitude(c) > Tracking!Fine[x]
  <2>1. Tracking!Stored(field, x, v) = [raw |-> q, scaled |-> TRUE]
    BY <1>5 DEF Tracking!Stored
  <2>2. q \in TrackingRaws[x]
    <3>1. -2 <= q * Tracking!Coarse[x] - c /\ q * Tracking!Coarse[x] - c <= 2
      BY <1>3
    <3>2. QED
      BY <1>1, <1>2, <1>3, <3>1, ScaledBounds
  <2>3. ~ Tracking!Magnitude(c) <= Tracking!Fine[x]
    BY <1>4, <1>5, ScaledBounds
  <2>4. QED
    BY <1>3, <2>1, <2>2, <2>3 DEF TrackingField, Tracking!Value
<1>6. CASE ~ Tracking!Magnitude(c) > Tracking!Fine[x]
  <2>1. Tracking!Stored(field, x, v) = [field EXCEPT !.raw = c]
    BY <1>6 DEF Tracking!Stored
  <2>2. c \in TrackingRaws[x]
    BY <1>1, <1>2, <1>4, <1>6, ScaledBounds
  <2>3. QED
    BY <1>2, <1>4, <1>6, <2>1, <2>2, ScaledBounds DEF TrackingField, Tracking!Value
<1>7. QED
  BY <1>5, <1>6

(* Coordinates and directions fit too. *)
LEMMA TrackingRawFits ==
    ASSUME NEW v \in Int
    PROVE  /\ Tracking!LatitudeRaw(v) \in Coordinates
           /\ Tracking!LongitudeRaw(v) \in Coordinates
           /\ Tracking!TrackRaw(v) \in 0 .. 255
BY DEF Tracking!LatitudeRaw, Tracking!LongitudeRaw, Tracking!TrackRaw, Tracking!Clamp, Coordinates

(* A value is close to what was asked of it, or off by its stale scale.     *)
LEMMA CloseOrScaled ==
    ASSUME NEW x \in Tracking!ScaledFields, NEW field \in TrackingField(x), NEW v \in Int
    PROVE  LET stored == Tracking!Stored(field, x, v)
               c == Tracking!InRange(x, v)
           IN  IF stored.scaled /\ Tracking!Magnitude(c) <= Tracking!Fine[x]
               THEN Tracking!Value(stored, x) = Tracking!Coarse[x] * c
               ELSE Tracking!Magnitude(Tracking!Value(stored, x) - c) <= Tracking!Coarse[x] \div 2
<1> DEFINE stored == Tracking!Stored(field, x, v)
           c == Tracking!InRange(x, v)
<1>1. c \in Int /\ Tracking!Coarse[x] \in {4, 5}
  BY ScaledBounds DEF Tracking!InRange, Tracking!Clamp
<1>2. CASE stored.scaled /\ Tracking!Magnitude(c) <= Tracking!Fine[x]
  <2>1. stored.raw = c
    BY <1>2, StoredIsClose
  <2>2. Tracking!Value(stored, x) = Tracking!Coarse[x] * c
    BY <1>1, <1>2, <2>1 DEF Tracking!Value
  <2>3. QED
    BY <1>2, <2>2
<1>3. CASE ~ (stored.scaled /\ Tracking!Magnitude(c) <= Tracking!Fine[x])
  <2>1. Tracking!Value(stored, x) - c \in -2 .. 2
    BY <1>3, StoredIsClose
  <2>2. Tracking!Magnitude(Tracking!Value(stored, x) - c) <= 2
    BY <2>1 DEF Tracking!Magnitude
  <2>3. Tracking!Coarse[x] \div 2 = 2
    BY <1>1
  <2>4. QED
    BY <1>3, <2>2, <2>3
<1>4. QED
  BY <1>2, <1>3

(* A setter of a value with a scale bit leaves the others as they were.     *)
LEMMA ScaledSetter ==
    ASSUME TrackingInv,
           NEW x \in Tracking!ScaledFields, NEW v \in Int,
           tracking[x] \in TrackingField(x),
           tracking'[x] = Tracking!Stored(tracking[x], x, v), set'[x] = v,
           \A y \in Tracking!ScaledFields \ {x} : tracking'[y] = tracking[y] /\ set'[y] = set[y]
    PROVE  Tracking!WrongOnlyByScale'
<1>1. ASSUME NEW y \in Tracking!ScaledFields
      PROVE  IF Tracking!Stale(y)'
             THEN Tracking!Value(tracking'[y], y)
                    = Tracking!Coarse[y] * Tracking!InRange(y, set'[y])
             ELSE Tracking!TakesEffect(y)'
  <2>1. CASE y = x
    BY <2>1, CloseOrScaled DEF Tracking!Stale, Tracking!TakesEffect
  <2>2. CASE y # x
    BY <2>2 DEF TrackingInv, Tracking!WrongOnlyByScale, Tracking!Stale, Tracking!TakesEffect
  <2>3. QED
    BY <2>1, <2>2
<1>2. QED
  BY <1>1 DEF Tracking!WrongOnlyByScale

LEMMA TrackingInit ==
    ASSUME Tracking!Init
    PROVE  TrackingInv
<1>1. tracking \in TrackingReports /\ set \in TrackingInputs
  <2>1. 0 \in Coordinates
    BY DEF Coordinates
  <2>2. \A x \in Tracking!ScaledFields : Tracking!Unset \in TrackingField(x)
    BY DEF Tracking!Unset, TrackingField, TrackingRaws, Tracking!ScaledFields
  <2>3. QED
    BY <2>1, <2>2 DEF Tracking!Init, TrackingReports, TrackingInputs, Tracking!ScaledFields
<1>2. Tracking!WrongOnlyByScale
  BY DEF Tracking!Init, Tracking!Unset, Tracking!WrongOnlyByScale, Tracking!Stale,
         Tracking!TakesEffect, Tracking!Value, Tracking!Magnitude, Tracking!InRange,
         Tracking!Clamp, Tracking!Lowest, Tracking!Highest, Tracking!Coarse, Tracking!ScaledFields
<1>3. QED
  BY <1>1, <1>2 DEF TrackingInv, Tracking!Init

(* The values without a scale bit share nothing with those that have one.   *)
LEMMA PlainSetter ==
    ASSUME TrackingInv,
           \A y \in Tracking!ScaledFields : tracking'[y] = tracking[y] /\ set'[y] = set[y]
    PROVE  Tracking!WrongOnlyByScale'
<1>1. ASSUME NEW y \in Tracking!ScaledFields
      PROVE  IF Tracking!Stale(y)'
             THEN Tracking!Value(tracking'[y], y)
                    = Tracking!Coarse[y] * Tracking!InRange(y, set'[y])
             ELSE Tracking!TakesEffect(y)'
  BY DEF TrackingInv, Tracking!WrongOnlyByScale, Tracking!Stale, Tracking!TakesEffect
<1>2. QED
  BY <1>1 DEF Tracking!WrongOnlyByScale

(* With its turn rate marked as set the report is the same else. *)
LEMMA MarkedReport ==
    ASSUME NEW r \in TrackingReports
    PROVE  /\ [r EXCEPT !.hasTurnRate = TRUE] \in TrackingReports
           /\ \A y \in Tracking!ScaledFields : [r EXCEPT !.hasTurnRate = TRUE][y] = r[y]
<1>1. \A b \in BOOLEAN :
         /\ [r EXCEPT !.hasTurnRate = b] \in TrackingReports
         /\ \A y \in Tracking!ScaledFields : [r EXCEPT !.hasTurnRate = b][y] = r[y]
  BY DEF TrackingReports, Tracking!ScaledFields
<1>2. TRUE \in BOOLEAN
  OBVIOUS
<1>3. QED
  BY <1>1, <1>2, Zenon

(* Every setter keeps what is said of the report. *)
LEMMA TrackingStep ==
    ASSUME TrackingInv, Tracking!Next
    PROVE  TrackingInv'
<1> USE InputsAreLegal DEF Tracking!InputsAssumption
<1>1. \A x \in Tracking!ScaledFields : tracking[x] \in TrackingField(x)
  BY DEF TrackingInv, TrackingReports, Tracking!ScaledFields
<1>2. CASE \E v \in Latitudes : Tracking!Latitude(v)
  <2>1. PICK v \in Latitudes : Tracking!Latitude(v)
    BY <1>2
  <2>2. tracking' \in TrackingReports /\ set' \in TrackingInputs
    BY <2>1, TrackingRawFits, SMTT(40) DEF Tracking!Latitude, Tracking!Asked, TrackingInv, TrackingReports, TrackingInputs
  <2>3. Tracking!WrongOnlyByScale'
    BY <2>1, PlainSetter DEF Tracking!Latitude, Tracking!Asked, TrackingInv, TrackingReports, TrackingInputs, Tracking!ScaledFields
  <2>4. QED
    BY <2>1, <2>2, <2>3, SMTT(40) DEF Tracking!Latitude, Tracking!Asked, TrackingInv, TrackingReports
<1>3. CASE \E v \in Longitudes : Tracking!Longitude(v)
  <2>1. PICK v \in Longitudes : Tracking!Longitude(v)
    BY <1>3
  <2>2. tracking' \in TrackingReports /\ set' \in TrackingInputs
    BY <2>1, TrackingRawFits, SMTT(40) DEF Tracking!Longitude, Tracking!Asked, TrackingInv, TrackingReports, TrackingInputs
  <2>3. Tracking!WrongOnlyByScale'
    BY <2>1, PlainSetter, SMTT(40) DEF Tracking!Longitude, Tracking!Asked, TrackingInv, TrackingReports, TrackingInputs, Tracking!ScaledFields
  <2>4. QED
    BY <2>1, <2>2, <2>3, SMTT(40) DEF Tracking!Longitude, Tracking!Asked, TrackingInv, TrackingReports
<1>4. CASE \E v \in Altitudes : Tracking!Altitude(v)
  <2>1. PICK v \in Altitudes : Tracking!Altitude(v)
    BY <1>4
  <2>2. Tracking!Stored(tracking.altitude, "altitude", v) \in TrackingField("altitude")
    BY <1>1, StoredIsClose DEF Tracking!ScaledFields
  <2>3. tracking' \in TrackingReports /\ set' \in TrackingInputs
    BY <2>1, <2>2, SMTT(40) DEF Tracking!Altitude, Tracking!Asked, TrackingInv, TrackingReports, TrackingInputs
  <2>4. Tracking!WrongOnlyByScale'
    <3>1. "altitude" \in Tracking!ScaledFields /\ v \in Int
      BY DEF Tracking!ScaledFields
    <3>2. tracking'["altitude"] = Tracking!Stored(tracking["altitude"], "altitude", v) /\ set'["altitude"] = v
      BY <2>1, SMTT(40) DEF Tracking!Altitude, Tracking!Asked, TrackingInv, TrackingReports, TrackingInputs
    <3>3. \A y \in Tracking!ScaledFields \ {"altitude"} :
             tracking'[y] = tracking[y] /\ set'[y] = set[y]
      BY <2>1 DEF Tracking!Altitude, Tracking!Asked, TrackingInv, TrackingReports, TrackingInputs, Tracking!ScaledFields
    <3>4. QED
      BY <1>1, <3>1, <3>2, <3>3, ScaledSetter
  <2>5. QED
    BY <2>1, <2>3, <2>4, SMTT(40) DEF Tracking!Altitude, Tracking!Asked, TrackingInv, TrackingReports
<1>5. CASE \E v \in Speeds : Tracking!Speed(v)
  <2>1. PICK v \in Speeds : Tracking!Speed(v)
    BY <1>5
  <2>2. Tracking!Stored(tracking.speed, "speed", v) \in TrackingField("speed")
    BY <1>1, StoredIsClose DEF Tracking!ScaledFields
  <2>3. tracking' \in TrackingReports /\ set' \in TrackingInputs
    BY <2>1, <2>2, SMTT(40) DEF Tracking!Speed, Tracking!Asked, TrackingInv, TrackingReports, TrackingInputs
  <2>4. Tracking!WrongOnlyByScale'
    <3>1. "speed" \in Tracking!ScaledFields /\ v \in Int
      BY DEF Tracking!ScaledFields
    <3>2. tracking'["speed"] = Tracking!Stored(tracking["speed"], "speed", v) /\ set'["speed"] = v
      BY <2>1, SMTT(40) DEF Tracking!Speed, Tracking!Asked, TrackingInv, TrackingReports, TrackingInputs
    <3>3. \A y \in Tracking!ScaledFields \ {"speed"} :
             tracking'[y] = tracking[y] /\ set'[y] = set[y]
      BY <2>1, SMTT(40) DEF Tracking!Speed, Tracking!Asked, TrackingInv, TrackingReports, TrackingInputs, Tracking!ScaledFields
    <3>4. QED
      BY <1>1, <3>1, <3>2, <3>3, ScaledSetter
  <2>5. QED
    BY <2>1, <2>3, <2>4, SMTT(40) DEF Tracking!Speed, Tracking!Asked, TrackingInv, TrackingReports
<1>6. CASE \E v \in ClimbRates : Tracking!ClimbRate(v)
  <2>1. PICK v \in ClimbRates : Tracking!ClimbRate(v)
    BY <1>6
  <2>2. Tracking!Stored(tracking.climbRate, "climbRate", v) \in TrackingField("climbRate")
    BY <1>1, StoredIsClose DEF Tracking!ScaledFields
  <2>3. tracking' \in TrackingReports /\ set' \in TrackingInputs
    BY <2>1, <2>2, SMTT(40) DEF Tracking!ClimbRate, Tracking!Asked, TrackingInv, TrackingReports, TrackingInputs
  <2>4. Tracking!WrongOnlyByScale'
    <3>1. "climbRate" \in Tracking!ScaledFields /\ v \in Int
      BY DEF Tracking!ScaledFields
    <3>2. tracking'["climbRate"] = Tracking!Stored(tracking["climbRate"], "climbRate", v) /\ set'["climbRate"] = v
      BY <2>1, SMTT(40) DEF Tracking!ClimbRate, Tracking!Asked, TrackingInv, TrackingReports, TrackingInputs
    <3>3. \A y \in Tracking!ScaledFields \ {"climbRate"} :
             tracking'[y] = tracking[y] /\ set'[y] = set[y]
      BY <2>1, SMTT(40) DEF Tracking!ClimbRate, Tracking!Asked, TrackingInv, TrackingReports, TrackingInputs, Tracking!ScaledFields
    <3>4. QED
      BY <1>1, <3>1, <3>2, <3>3, ScaledSetter
  <2>5. QED
    BY <2>1, <2>3, <2>4, SMTT(40) DEF Tracking!ClimbRate, Tracking!Asked, TrackingInv, TrackingReports
<1>7. CASE \E v \in TurnRates : Tracking!TurnRate(v)
  <2>1. PICK v \in TurnRates : Tracking!TurnRate(v)
    BY <1>7
  <2> DEFINE report == [tracking EXCEPT !.turnRate = Tracking!Stored(@, "turnRate", v)]
  <2>2. Tracking!Stored(tracking.turnRate, "turnRate", v) \in TrackingField("turnRate")
    BY <1>1, StoredIsClose DEF Tracking!ScaledFields
  <2>3. tracking' \in TrackingReports /\ set' \in TrackingInputs
    <3>1. set' \in TrackingInputs
      BY <2>1, SMTT(40) DEF Tracking!TurnRate, Tracking!Asked, TrackingInv, TrackingInputs
    <3>2. report \in TrackingReports
      BY <2>2, SMTT(40) DEF TrackingInv, TrackingReports
    <3>3. tracking' = [report EXCEPT !.hasTurnRate = TRUE]
      BY <2>1 DEF Tracking!TurnRate
    <3>4. tracking' \in TrackingReports
      <4> HIDE DEF report
      <4>1. [report EXCEPT !.hasTurnRate = TRUE] \in TrackingReports
        BY <3>2, MarkedReport
      <4>2. QED
        BY <3>3, <4>1
    <3>5. QED
      BY <3>1, <3>4
  <2>4. Tracking!WrongOnlyByScale'
    <3>1. "turnRate" \in Tracking!ScaledFields /\ v \in Int
      BY DEF Tracking!ScaledFields
    <3>2. tracking'["turnRate"] = Tracking!Stored(tracking["turnRate"], "turnRate", v) /\ set'["turnRate"] = v
      BY <2>1, SMTT(40) DEF Tracking!TurnRate, Tracking!Asked, TrackingInv, TrackingReports, TrackingInputs
    <3>3. \A y \in Tracking!ScaledFields \ {"turnRate"} :
             tracking'[y] = tracking[y] /\ set'[y] = set[y]
      <4>1. report \in TrackingReports
        BY <2>2, SMTT(40) DEF TrackingInv, TrackingReports
      <4>2. tracking' = [report EXCEPT !.hasTurnRate = TRUE]
        BY <2>1 DEF Tracking!TurnRate
      <4>3. \A y \in Tracking!ScaledFields : tracking'[y] = report[y]
        <5> DEFINE marked == [report EXCEPT !.hasTurnRate = TRUE]
        <5> HIDE DEF report
        <5>1. tracking' = marked /\ \A y \in Tracking!ScaledFields : marked[y] = report[y]
          BY <4>1, <4>2, MarkedReport
        <5> HIDE DEF marked
        <5>2. QED
          BY <5>1
      <4>4. \A y \in Tracking!ScaledFields \ {"turnRate"} :
               report[y] = tracking[y] /\ set'[y] = set[y]
        BY <2>1, SMTT(40) DEF Tracking!TurnRate, Tracking!Asked, TrackingInv, TrackingReports,
                    TrackingInputs, Tracking!ScaledFields
      <4>5. QED
        BY <4>3, <4>4
    <3>4. QED
      BY <1>1, <3>1, <3>2, <3>3, ScaledSetter
  <2>5. QED
    BY <2>1, <2>3, <2>4, SMTT(40) DEF Tracking!TurnRate, Tracking!Asked, TrackingInv, TrackingReports
<1>8. CASE \E v \in GroundTracks : Tracking!GroundTrack(v)
  <2>1. PICK v \in GroundTracks : Tracking!GroundTrack(v)
    BY <1>8
  <2>2. tracking' \in TrackingReports /\ set' \in TrackingInputs
    <3>1. v \in Int
      OBVIOUS
    <3>2. QED
      BY <2>1, <3>1, TrackingRawFits, SMTT(40) DEF Tracking!GroundTrack, Tracking!Asked, TrackingInv, TrackingReports, TrackingInputs
  <2>3. Tracking!WrongOnlyByScale'
    BY <2>1, PlainSetter, SMTT(40) DEF Tracking!GroundTrack, Tracking!Asked, TrackingInv, TrackingReports, TrackingInputs, Tracking!ScaledFields
  <2>4. QED
    BY <2>1, <2>2, <2>3, SMTT(40) DEF Tracking!GroundTrack, Tracking!Asked, TrackingInv, TrackingReports
<1>9. CASE \E v \in BOOLEAN : Tracking!Tracking(v)
  <2>1. PICK v \in BOOLEAN : Tracking!Tracking(v)
    BY <1>9
  <2>2. tracking' \in TrackingReports /\ set' \in TrackingInputs
    BY <2>1, SMTT(40) DEF Tracking!Tracking, Tracking!Asked, TrackingInv, TrackingReports, TrackingInputs
  <2>3. Tracking!WrongOnlyByScale'
    BY <2>1, PlainSetter, SMTT(40) DEF Tracking!Tracking, Tracking!Asked, TrackingInv, TrackingReports, TrackingInputs, Tracking!ScaledFields
  <2>4. QED
    BY <2>1, <2>2, <2>3, SMTT(40) DEF Tracking!Tracking, Tracking!Asked, TrackingInv, TrackingReports
<1>10. CASE \E v \in AircraftTypes : Tracking!AircraftType(v)
  <2>1. PICK v \in AircraftTypes : Tracking!AircraftType(v)
    BY <1>10
  <2>2. tracking' \in TrackingReports /\ set' \in TrackingInputs
    BY <2>1, SMTT(40) DEF Tracking!AircraftType, Tracking!Asked, TrackingInv, TrackingReports, TrackingInputs
  <2>3. Tracking!WrongOnlyByScale'
    BY <2>1, PlainSetter, SMTT(40) DEF Tracking!AircraftType, Tracking!Asked, TrackingInv, TrackingReports, TrackingInputs, Tracking!ScaledFields
  <2>4. QED
    BY <2>1, <2>2, <2>3, SMTT(40) DEF Tracking!AircraftType, Tracking!Asked, TrackingInv, TrackingReports
<1>11. QED
  BY <1>2, <1>3, <1>4, <1>5, <1>6, <1>7, <1>8, <1>9, <1>10 DEF Tracking!Next

(* Values that have the bits of their field come back from the air; 64 in   *)
(* seven bits with a sign is -64.                                           *)
LEMMA TrackingBits ==
    /\ \A v \in Int : Tracking!Coordinate(Tracking!Bits(v, 24)) = Tracking!Coordinate(v)
    /\ \A v \in 0 .. 2047 :
          Tracking!Bits(v, 8) + 256 * Tracking!Bits(v \div 256, 3) = v
    /\ \A v \in 0 .. 127 : Tracking!Bits(v, 7) = v
    /\ \A v \in -64 .. 63 : Tracking!Signed(Tracking!Bits(v, 7), 7) = v
    /\ Tracking!Signed(Tracking!Bits(64, 7), 7) = -64
    /\ \A v \in 0 .. 255 : Tracking!Bits(v, 8) = v
    /\ \A v \in 0 .. 7 : Tracking!Bits(v, 3) = v
<1>1. 2^3 = 8 /\ 2^6 = 64 /\ 2^7 = 128 /\ 2^8 = 256 /\ 2^(7 - 1) = 64
  OBVIOUS
<1>2. \A v \in Int : (v % 2^24) % 2^24 = v % 2^24
  OBVIOUS
<1>3. \A v \in Int : Tracking!Coordinate(Tracking!Bits(v, 24)) = Tracking!Coordinate(v)
  BY <1>2 DEF Tracking!Coordinate, Tracking!Bits
<1>4. ASSUME NEW v \in 0 .. 2047
      PROVE  Tracking!Bits(v, 8) + 256 * Tracking!Bits(v \div 256, 3) = v
  BY <1>1 DEF Tracking!Bits
<1>5. \A v \in -64 .. 63 : Tracking!Signed(Tracking!Bits(v, 7), 7) = v
  BY <1>1 DEF Tracking!Bits, Tracking!Signed
<1>6. Tracking!Signed(Tracking!Bits(64, 7), 7) = -64
  BY <1>1 DEF Tracking!Bits, Tracking!Signed
<1>7. QED
  BY <1>1, <1>3, <1>4, <1>5, <1>6 DEF Tracking!Bits

LEMMA CoordinatesAreNumbers == Coordinates \subseteq Int
<1>1. 2^23 \in Int
  OBVIOUS
<1>2. \A k \in Int : -k .. (k - 1) \subseteq Int
  OBVIOUS
<1>3. QED
  BY <1>1, <1>2 DEF Coordinates

\* What is read on the air of a field with a sign.
SignedOnAir(field) ==
    LET written == [field EXCEPT !.raw = Tracking!Bits(@, 7)]
    IN  [written EXCEPT !.raw = Tracking!Signed(@, 7)]

LEMMA SignedFieldOnAir ==
    ASSUME NEW field \in [raw : -64 .. 64, scaled : BOOLEAN]
    PROVE  /\ SignedOnAir(field).scaled = field.scaled
           /\ SignedOnAir(field).raw = IF field.raw = 64 THEN -64 ELSE field.raw
<1>1. SignedOnAir(field).scaled = field.scaled
  BY DEF SignedOnAir
<1>2. SignedOnAir(field).raw = Tracking!Signed(Tracking!Bits(field.raw, 7), 7)
  BY DEF SignedOnAir
<1>3. QED
  BY <1>1, <1>2, TrackingBits

\* What is read on the air of a turn rate.
TurnRateOnAir(field) ==
    IF field.raw = 64 THEN -Tracking!Value(field, "turnRate") ELSE Tracking!Value(field, "turnRate")

(* The receiver of a report reads what its getters return, but for a turn   *)
(* rate of 64.                                                              *)
LEMMA TrackingOnAir ==
    ASSUME NEW p \in TrackingReports, p.hasTurnRate \/ p.turnRate = Tracking!Unset
    PROVE  Tracking!ReadOnAir(p) =
               [altitude |-> Tracking!Value(p.altitude, "altitude"),
                speed |-> Tracking!Value(p.speed, "speed"),
                climbRate |-> Tracking!Value(p.climbRate, "climbRate"),
                turnRate |-> TurnRateOnAir(p.turnRate),
                latitude |-> Tracking!Coordinate(p.latitude),
                longitude |-> Tracking!Coordinate(p.longitude),
                tracking |-> p.tracking, aircraftType |-> p.aircraftType,
                groundTrack |-> p.groundTrack]
<1> DEFINE w == Tracking!Written(p)
           r == Tracking!Parsed(w)
<1>1. Tracking!Value(r.altitude, "altitude") = Tracking!Value(p.altitude, "altitude")
  <2>1. r.altitude.scaled = p.altitude.scaled /\ r.altitude.raw = p.altitude.raw
    BY TrackingBits, SMTT(40) DEF Tracking!Parsed, Tracking!Written, TrackingReports, TrackingField, TrackingRaws
  <2>2. QED
    BY <2>1 DEF Tracking!Value
<1>2. Tracking!Value(r.speed, "speed") = Tracking!Value(p.speed, "speed")
  <2>1. r.speed.scaled = p.speed.scaled /\ r.speed.raw = p.speed.raw
    BY TrackingBits DEF Tracking!Parsed, Tracking!Written, TrackingReports, TrackingField, TrackingRaws
  <2>2. QED
    BY <2>1 DEF Tracking!Value
<1>3. Tracking!Value(r.climbRate, "climbRate") = Tracking!Value(p.climbRate, "climbRate")
  <2>1. p.climbRate \in [raw : -63 .. 63, scaled : BOOLEAN]
    BY DEF TrackingReports, TrackingField, TrackingRaws
  <2>2. r.climbRate = SignedOnAir(p.climbRate)
    BY DEF Tracking!Parsed, Tracking!Written, SignedOnAir
  <2>3. QED
    BY <2>1, <2>2, SignedFieldOnAir DEF Tracking!Value
<1>4. Tracking!Value(r.turnRate, "turnRate") = TurnRateOnAir(p.turnRate)
  <2>1. p.turnRate \in [raw : -64 .. 64, scaled : BOOLEAN]
    BY DEF TrackingReports, TrackingField, TrackingRaws
  <2>2. CASE p.hasTurnRate
    <3> DEFINE t == [p.turnRate EXCEPT !.raw = Tracking!Bits(@, 7)]
    <3>1. w.turnRate = {t}
      BY <2>2 DEF Tracking!Written
    <3>2. (CHOOSE u \in w.turnRate : TRUE) = t
      BY <3>1
    <3>3. r.turnRate = SignedOnAir(p.turnRate)
      BY <3>1, <3>2 DEF Tracking!Parsed, SignedOnAir
    <3>4. QED
      BY <2>1, <3>3, SignedFieldOnAir DEF Tracking!Value, TurnRateOnAir, Tracking!Coarse
  <2>3. CASE ~p.hasTurnRate
    <3>1. r.turnRate = Tracking!Unset
      BY <2>3 DEF Tracking!Parsed, Tracking!Written
    <3>2. QED
      BY <2>3, <3>1 DEF Tracking!Unset, Tracking!Value, TurnRateOnAir
  <2>4. QED
    BY <2>2, <2>3 DEF TrackingReports
<1>5. /\ Tracking!Coordinate(r.latitude) = Tracking!Coordinate(p.latitude)
      /\ Tracking!Coordinate(r.longitude) = Tracking!Coordinate(p.longitude)
  <2>1. p.latitude \in Int /\ p.longitude \in Int
    BY CoordinatesAreNumbers DEF TrackingReports
  <2>2. /\ r.latitude = Tracking!Bits(p.latitude, 24)
        /\ r.longitude = Tracking!Bits(p.longitude, 24)
    BY DEF Tracking!Parsed, Tracking!Written
  <2>3. QED
    BY <2>1, <2>2, TrackingBits
<1>6. /\ r.tracking = p.tracking
      /\ r.aircraftType = p.aircraftType
      /\ r.groundTrack = p.groundTrack
  BY TrackingBits DEF Tracking!Parsed, Tracking!Written, TrackingReports
<1>7. QED
  BY <1>1, <1>2, <1>3, <1>4, <1>5, <1>6 DEF Tracking!ReadOnAir, Tracking!Read

(* Cut to its bits twice, a value is cut once, with or without a sign. *)
LEMMA BitsTwice ==
    /\ \A v \in Int : /\ Tracking!Bits(Tracking!Bits(v, 24), 24) = Tracking!Bits(v, 24)
                      /\ Tracking!Bits(Tracking!Bits(v, 8), 8) = Tracking!Bits(v, 8)
                      /\ Tracking!Bits(Tracking!Bits(v, 7), 7) = Tracking!Bits(v, 7)
                      /\ Tracking!Bits(Tracking!Bits(v, 3), 3) = Tracking!Bits(v, 3)
    /\ \A v \in -64 .. 63 :
          Tracking!Bits(Tracking!Signed(Tracking!Bits(v, 7), 7), 7) = Tracking!Bits(v, 7)
<1>1. 2^3 = 8 /\ 2^7 = 128 /\ 2^8 = 256
  OBVIOUS
<1>2. \A v \in Int : (v % 2^24) % 2^24 = v % 2^24
  OBVIOUS
<1>3. \A v \in Int : /\ (v % 256) % 256 = v % 256
                     /\ (v % 128) % 128 = v % 128
                     /\ (v % 8) % 8 = v % 8
  OBVIOUS
<1>4. \A v \in Int : /\ Tracking!Bits(v, 3) = v % 8
                     /\ Tracking!Bits(v, 7) = v % 128
                     /\ Tracking!Bits(v, 8) = v % 256
                     /\ Tracking!Bits(v, 24) = v % 2^24
  BY <1>1 DEF Tracking!Bits
<1>5. \A v \in Int : v % 8 \in Int /\ v % 128 \in Int /\ v % 256 \in Int /\ v % 2^24 \in Int
  OBVIOUS
<1>6. \A v \in Int : /\ Tracking!Bits(Tracking!Bits(v, 24), 24) = Tracking!Bits(v, 24)
                     /\ Tracking!Bits(Tracking!Bits(v, 8), 8) = Tracking!Bits(v, 8)
                     /\ Tracking!Bits(Tracking!Bits(v, 7), 7) = Tracking!Bits(v, 7)
                     /\ Tracking!Bits(Tracking!Bits(v, 3), 3) = Tracking!Bits(v, 3)
  BY <1>2, <1>3, <1>4, <1>5
<1>7. \A v \in -64 .. 63 :
          Tracking!Bits(Tracking!Signed(Tracking!Bits(v, 7), 7), 7) = Tracking!Bits(v, 7)
  BY TrackingBits
<1>8. QED
  BY <1>6, <1>7

(* The altitude is put together of its two parts. *)
LEMMA AltitudeOnAir ==
    ASSUME NEW field \in [raw : 0 .. 2047, scaled : BOOLEAN]
    PROVE  [raw |-> Tracking!Bits(field.raw, 8) + 256 * Tracking!Bits(field.raw \div 256, 3),
            scaled |-> field.scaled] = field
<1>1. 2^3 = 8 /\ 2^8 = 256
  OBVIOUS
<1>2. \A v \in 0 .. 2047 : (v % 256) + 256 * ((v \div 256) % 8) = v
  OBVIOUS
<1>3. field.raw \in 0 .. 2047 /\ field = [raw |-> field.raw, scaled |-> field.scaled]
  OBVIOUS
<1>4. (field.raw % 256) + 256 * ((field.raw \div 256) % 8) = field.raw
  BY <1>2, <1>3
<1>5. Tracking!Bits(field.raw, 8) + 256 * Tracking!Bits(field.raw \div 256, 3) = field.raw
  BY <1>1, <1>4 DEF Tracking!Bits
<1>6. QED
  BY <1>3, <1>5

(* Taking the turn rate from an encoded report leaves the rest. *)
LEMMA WithoutTurnRate ==
    ASSUME NEW a, NEW b, NEW c, NEW d, NEW e, NEW f, NEW g, NEW h, NEW i, NEW j, NEW k
    PROVE  [[latitude |-> a, longitude |-> b, altitudeLow |-> c, tracking |-> d,
             aircraftType |-> e, altitudeScaled |-> f, altitudeHigh |-> g, speed |-> h,
             climbRate |-> i, groundTrack |-> j, turnRate |-> k] EXCEPT !.turnRate = {}]
           = [latitude |-> a, longitude |-> b, altitudeLow |-> c, tracking |-> d,
              aircraftType |-> e, altitudeScaled |-> f, altitudeHigh |-> g, speed |-> h,
              climbRate |-> i, groundTrack |-> j, turnRate |-> {}]
  OBVIOUS

(* Received and written again, a report is the same without its turn rate. *)
LEMMA TrackingSentOn ==
    ASSUME NEW p \in TrackingReports
    PROVE  Tracking!Written(Tracking!Parsed(Tracking!Written(p)))
               = [Tracking!Written(p) EXCEPT !.turnRate = {}]
<1> DEFINE w == Tracking!Written(p)
           r == Tracking!Parsed(w)
           again == Tracking!Written(r)
<1>1. /\ r.latitude = Tracking!Bits(p.latitude, 24)
      /\ r.longitude = Tracking!Bits(p.longitude, 24)
      /\ r.tracking = p.tracking
      /\ r.aircraftType = Tracking!Bits(p.aircraftType, 3)
      /\ r.groundTrack = Tracking!Bits(p.groundTrack, 8)
      /\ r.hasTurnRate = FALSE
  BY DEF Tracking!Parsed, Tracking!Written
<1>2. r.altitude = p.altitude
  <2>1. p.altitude \in [raw : 0 .. 2047, scaled : BOOLEAN]
    BY DEF TrackingReports, TrackingField, TrackingRaws
  <2>2. r.altitude = [raw |-> Tracking!Bits(p.altitude.raw, 8)
                                 + 256 * Tracking!Bits(p.altitude.raw \div 256, 3),
                      scaled |-> p.altitude.scaled]
    BY DEF Tracking!Parsed, Tracking!Written
  <2>3. QED
    BY <2>1, <2>2, AltitudeOnAir
<1>3. r.speed = p.speed
  <2>1. p.speed \in [raw : 0 .. 127, scaled : BOOLEAN]
    BY DEF TrackingReports, TrackingField, TrackingRaws
  <2>2. r.speed = [p.speed EXCEPT !.raw = Tracking!Bits(@, 7)]
    BY DEF Tracking!Parsed, Tracking!Written
  <2>3. QED
    BY <2>1, <2>2, TrackingBits
<1>4. r.climbRate = p.climbRate
  <2>1. p.climbRate \in [raw : -63 .. 63, scaled : BOOLEAN]
    BY DEF TrackingReports, TrackingField, TrackingRaws
  <2>2. r.climbRate = SignedOnAir(p.climbRate)
    BY DEF Tracking!Parsed, Tracking!Written, SignedOnAir
  <2>3. Tracking!Signed(Tracking!Bits(p.climbRate.raw, 7), 7) = p.climbRate.raw
    BY <2>1, TrackingBits
  <2>4. SignedOnAir(p.climbRate)
            = [p.climbRate EXCEPT !.raw = Tracking!Signed(Tracking!Bits(p.climbRate.raw, 7), 7)]
    BY <2>1 DEF SignedOnAir
  <2>5. QED
    BY <2>1, <2>2, <2>3, <2>4
<1>5. /\ Tracking!Bits(r.latitude, 24) = Tracking!Bits(p.latitude, 24)
      /\ Tracking!Bits(r.longitude, 24) = Tracking!Bits(p.longitude, 24)
  <2>1. p.latitude \in Int /\ p.longitude \in Int
    BY CoordinatesAreNumbers DEF TrackingReports
  <2>2. QED
    BY <1>1, <2>1, BitsTwice
<1>6. /\ Tracking!Bits(r.aircraftType, 3) = Tracking!Bits(p.aircraftType, 3)
      /\ Tracking!Bits(r.groundTrack, 8) = Tracking!Bits(p.groundTrack, 8)
  <2>1. p.aircraftType \in Int /\ p.groundTrack \in Int
    BY DEF TrackingReports
  <2>2. QED
    BY <1>1, <2>1, BitsTwice
<1> SUFFICES Tracking!Written(r) = [w EXCEPT !.turnRate = {}]
  OBVIOUS
<1>7. [w EXCEPT !.turnRate = {}] =
          [latitude |-> Tracking!Bits(p.latitude, 24),
           longitude |-> Tracking!Bits(p.longitude, 24),
           altitudeLow |-> Tracking!Bits(p.altitude.raw, 8),
           tracking |-> p.tracking, aircraftType |-> Tracking!Bits(p.aircraftType, 3),
           altitudeScaled |-> p.altitude.scaled,
           altitudeHigh |-> Tracking!Bits(p.altitude.raw \div 256, 3),
           speed |-> [p.speed EXCEPT !.raw = Tracking!Bits(@, 7)],
           climbRate |-> [p.climbRate EXCEPT !.raw = Tracking!Bits(@, 7)],
           groundTrack |-> Tracking!Bits(p.groundTrack, 8), turnRate |-> {}]
  BY WithoutTurnRate DEF Tracking!Written
<1> HIDE DEF w, r
<1>8. Tracking!Written(r) =
          [latitude |-> Tracking!Bits(r.latitude, 24),
           longitude |-> Tracking!Bits(r.longitude, 24),
           altitudeLow |-> Tracking!Bits(r.altitude.raw, 8),
           tracking |-> r.tracking, aircraftType |-> Tracking!Bits(r.aircraftType, 3),
           altitudeScaled |-> r.altitude.scaled,
           altitudeHigh |-> Tracking!Bits(r.altitude.raw \div 256, 3),
           speed |-> [r.speed EXCEPT !.raw = Tracking!Bits(@, 7)],
           climbRate |-> [r.climbRate EXCEPT !.raw = Tracking!Bits(@, 7)],
           groundTrack |-> Tracking!Bits(r.groundTrack, 8), turnRate |-> {}]
  BY <1>1 DEF Tracking!Written
<1>9. QED
  BY <1>1, <1>2, <1>3, <1>4, <1>5, <1>6, <1>7, <1>8

(* What TrackingInv says is what TypeOK, ReceivedIsSent and WrittenAgain    *)
(* ask for.                                                                 *)
LEMMA TrackingIsRight ==
    ASSUME TrackingInv
    PROVE  /\ Tracking!TypeOK /\ Tracking!ReceivedIsSent /\ Tracking!WrongOnlyByScale
           /\ Tracking!WrittenAgain
<1>1. Tracking!TypeOK
  <2>1. /\ tracking.latitude \in Coordinates /\ tracking.longitude \in Coordinates
        /\ tracking.groundTrack \in 0 .. 255 /\ tracking.aircraftType \in 0 .. 7
    BY DEF TrackingInv, TrackingReports
  <2>2. /\ tracking.altitude \in [raw : 0 .. 2047, scaled : BOOLEAN]
        /\ tracking.speed \in [raw : 0 .. 127, scaled : BOOLEAN]
        /\ tracking.climbRate \in [raw : -63 .. 63, scaled : BOOLEAN]
        /\ tracking.turnRate \in [raw : -64 .. 64, scaled : BOOLEAN]
    BY DEF TrackingInv, TrackingReports, TrackingField, TrackingRaws
  <2>3. QED
    BY <2>1, <2>2, SMTT(40) DEF Tracking!TypeOK, Coordinates
<1>2. Tracking!ReceivedIsSent
  <2>1. tracking \in TrackingReports /\ (tracking.hasTurnRate \/ tracking.turnRate = Tracking!Unset)
    BY DEF TrackingInv
  <2>2. QED
    BY <2>1, TrackingOnAir DEF Tracking!ReceivedIsSent, Tracking!TooWide, Tracking!Read, TurnRateOnAir
<1>3. Tracking!WrittenAgain
  <2>1. tracking \in TrackingReports
    BY DEF TrackingInv
  <2>2. QED
    BY <2>1, TrackingSentOn DEF Tracking!WrittenAgain
<1>4. QED
  BY <1>1, <1>2, <1>3 DEF TrackingInv

\* The values a report is made of, and all but one stay.
TrackingValues == {"altitude", "speed", "climbRate", "turnRate", "latitude", "longitude",
                   "tracking", "aircraftType", "groundTrack"}
OthersStay(x) == \A y \in TrackingValues \ {x} : tracking'[y] = tracking[y] /\ set'[y] = set[y]

(* A setter leaves the other values alone, and it is called for its own. *)
LEMMA TrackingOthersStay ==
    ASSUME TrackingInv, Tracking!Next
    PROVE  \E x \in TrackingValues : OthersStay(x)
<1>1. tracking \in TrackingReports /\ set \in TrackingInputs
  BY DEF TrackingInv
<1>2. CASE \E v \in Latitudes : Tracking!Latitude(v)
  <2>1. OthersStay("latitude")
    BY <1>1, <1>2 DEF Tracking!Latitude, Tracking!Asked,
                    TrackingReports, TrackingInputs, TrackingValues, OthersStay
  <2>2. QED
    BY <2>1 DEF TrackingValues
<1>3. CASE \E v \in Longitudes : Tracking!Longitude(v)
  <2>1. OthersStay("longitude")
    BY <1>1, <1>3 DEF Tracking!Longitude, Tracking!Asked,
                    TrackingReports, TrackingInputs, TrackingValues, OthersStay
  <2>2. QED
    BY <2>1 DEF TrackingValues
<1>4. CASE \E v \in Altitudes : Tracking!Altitude(v)
  <2>1. OthersStay("altitude")
    BY <1>1, <1>4 DEF Tracking!Altitude, Tracking!Asked,
                    TrackingReports, TrackingInputs, TrackingValues, OthersStay
  <2>2. QED
    BY <2>1 DEF TrackingValues
<1>5. CASE \E v \in Speeds : Tracking!Speed(v)
  <2>1. OthersStay("speed")
    BY <1>1, <1>5 DEF Tracking!Speed, Tracking!Asked,
                    TrackingReports, TrackingInputs, TrackingValues, OthersStay
  <2>2. QED
    BY <2>1 DEF TrackingValues
<1>6. CASE \E v \in ClimbRates : Tracking!ClimbRate(v)
  <2>1. OthersStay("climbRate")
    BY <1>1, <1>6 DEF Tracking!ClimbRate, Tracking!Asked,
                    TrackingReports, TrackingInputs, TrackingValues, OthersStay
  <2>2. QED
    BY <2>1 DEF TrackingValues
<1>7. CASE \E v \in TurnRates : Tracking!TurnRate(v)
  <2>1. OthersStay("turnRate")
    BY <1>1, <1>7 DEF Tracking!TurnRate, Tracking!Asked,
                    TrackingReports, TrackingInputs, TrackingValues, OthersStay
  <2>2. QED
    BY <2>1 DEF TrackingValues
<1>8. CASE \E v \in GroundTracks : Tracking!GroundTrack(v)
  <2>1. OthersStay("groundTrack")
    BY <1>1, <1>8 DEF Tracking!GroundTrack, Tracking!Asked,
                    TrackingReports, TrackingInputs, TrackingValues, OthersStay
  <2>2. QED
    BY <2>1 DEF TrackingValues
<1>9. CASE \E v \in BOOLEAN : Tracking!Tracking(v)
  <2>1. OthersStay("tracking")
    BY <1>1, <1>9 DEF Tracking!Tracking, Tracking!Asked,
                    TrackingReports, TrackingInputs, TrackingValues, OthersStay
  <2>2. QED
    BY <2>1 DEF TrackingValues
<1>10. CASE \E v \in AircraftTypes : Tracking!AircraftType(v)
  <2>1. OthersStay("aircraftType")
    BY <1>1, <1>10 DEF Tracking!AircraftType, Tracking!Asked,
                    TrackingReports, TrackingInputs, TrackingValues, OthersStay
  <2>2. QED
    BY <2>1 DEF TrackingValues
<1>11. QED
  BY <1>2, <1>3, <1>4, <1>5, <1>6, <1>7, <1>8, <1>9, <1>10 DEF Tracking!Next

(* A step of the report changes at most one value of what is received. *)
LEMMA TrackingOneValue ==
    ASSUME TrackingInv, Tracking!Next
    PROVE  Tracking!OneValueAtATime
<1> DEFINE before == Tracking!ReadOnAir(tracking)
           after == Tracking!ReadOnAir(tracking')
<1>1. TrackingInv'
  BY TrackingStep
<1>2. \E x \in DOMAIN before : \A y \in DOMAIN before \ {x} :
          before[y] = after[y] /\ set'[y] = set[y]
  <2>1. PICK x \in TrackingValues : OthersStay(x)
    BY TrackingOthersStay
  <2>2. /\ tracking \in TrackingReports /\ tracking' \in TrackingReports
        /\ tracking.hasTurnRate \/ tracking.turnRate = Tracking!Unset
        /\ tracking'.hasTurnRate \/ tracking'.turnRate = Tracking!Unset
    BY <1>1 DEF TrackingInv, Tracking!Unset
  <2>3. DOMAIN before = TrackingValues
    BY <2>2, TrackingOnAir DEF TrackingValues
  <2>4. ASSUME NEW y \in TrackingValues \ {x}
        PROVE  before[y] = after[y] /\ set'[y] = set[y]
    BY <2>1, <2>2, TrackingOnAir DEF TrackingValues, OthersStay
  <2>5. QED
    BY <2>3, <2>4
<1>3. QED
  BY <1>2 DEF Tracking!OneValueAtATime

-----------------------------------------------------------------------------
(* The report of somebody on the ground.                                    *)

GroundReports ==
    [latitude : Int, longitude : Int, groundType : 0 .. 15, unk : 0 .. 7, tracking : BOOLEAN]

Octets == 0 .. 255

(* Three octets of a coordinate and the number they are read as. *)
LEMMA Coordinate24 ==
    ASSUME NEW v \in Int
    PROVE  LET o == Ground!Octets24(Ground!Bits(v, 24))
           IN  /\ o \in Seq(Octets) /\ Len(o) = 3
               /\ Ground!Number24(o) = Ground!Bits(v, 24)
<1> DEFINE b == Ground!Bits(v, 24)
<1>1. 2^24 = 256 * 65536 /\ 2^24 \in Nat
  OBVIOUS
<1>2. \A k \in Nat : k > 0 => v % k \in Nat /\ v % k < k
  OBVIOUS
<1>3. b \in Nat /\ b < 256 * 65536
  BY <1>1, <1>2 DEF Ground!Bits
<1> HIDE DEF b
<1>4. /\ b % 256 \in 0 .. 255 /\ (b \div 256) % 256 \in 0 .. 255
      /\ (b \div 65536) % 256 \in 0 .. 255
      /\ (b % 256) + 256 * ((b \div 256) % 256) + 65536 * ((b \div 65536) % 256) = b
  BY <1>3
<1>5. QED
  BY <1>4 DEF Ground!Octets24, Ground!Number24, Octets, b

(* Cut to its bits a coordinate is the same to the getter, and cut again. *)
LEMMA CutCoordinate ==
    ASSUME NEW v \in Int
    PROVE  /\ Ground!Bits(v, 24) \in Int
           /\ Ground!Bits(Ground!Bits(v, 24), 24) = Ground!Bits(v, 24)
           /\ Ground!Coordinate(Ground!Bits(v, 24)) = Ground!Coordinate(v)
<1>1. v % 2^24 \in Int /\ (v % 2^24) % 2^24 = v % 2^24
  OBVIOUS
<1>2. QED
  BY <1>1 DEF Ground!Coordinate, Ground!Bits

(* The three values of the last octet. *)
LEMMA LastOctetRead ==
    ASSUME NEW p \in GroundReports
    PROVE  LET o == Ground!LastOctet(p)
           IN  /\ o \in Octets /\ o \div 16 = p.groundType
               /\ (o \div 2) % 8 = p.unk /\ (o % 2 = 1) = p.tracking
<1>1. \A t \in 0 .. 15, u \in 0 .. 7, b \in 0 .. 1 :
         LET o == 16 * t + 2 * u + b
         IN  o \in 0 .. 255 /\ o \div 16 = t /\ (o \div 2) % 8 = u /\ o % 2 = b
  OBVIOUS
<1>2. p.groundType \in 0 .. 15 /\ p.unk \in 0 .. 7 /\ p.tracking \in BOOLEAN
  BY DEF GroundReports
<1> DEFINE b == IF p.tracking THEN 1 ELSE 0
<1>3. b \in 0 .. 1 /\ (b = 1) = p.tracking
  BY <1>2
<1>4. Ground!LastOctet(p) = 16 * p.groundType + 2 * p.unk + b
  BY DEF Ground!LastOctet
<1> HIDE DEF b
<1>5. /\ Ground!LastOctet(p) \in 0 .. 255 /\ Ground!LastOctet(p) \div 16 = p.groundType
      /\ (Ground!LastOctet(p) \div 2) % 8 = p.unk /\ Ground!LastOctet(p) % 2 = b
  BY <1>1, <1>2, <1>3, <1>4
<1>6. QED
  BY <1>3, <1>5 DEF Octets

(* What is read of a report's octets. *)
LEMMA GroundOnAir ==
    ASSUME NEW p \in GroundReports
    PROVE  Ground!Parsed(Ground!Written(p)) =
               [latitude |-> Ground!Bits(p.latitude, 24), longitude |-> Ground!Bits(p.longitude, 24),
                groundType |-> p.groundType, unk |-> p.unk, tracking |-> p.tracking]
<1> DEFINE a == Ground!Octets24(Ground!Bits(p.latitude, 24))
           b == Ground!Octets24(Ground!Bits(p.longitude, 24))
           l == Ground!LastOctet(p)
           c == <<l>>
           o == a \o b \o c
<1>1. p.latitude \in Int /\ p.longitude \in Int
  BY DEF GroundReports
<1>2. /\ a \in Seq(Octets) /\ Len(a) = 3 /\ Ground!Number24(a) = Ground!Bits(p.latitude, 24)
      /\ b \in Seq(Octets) /\ Len(b) = 3 /\ Ground!Number24(b) = Ground!Bits(p.longitude, 24)
  BY <1>1, Coordinate24
<1>3. c \in Seq(Octets) /\ Len(c) = 1 /\ c[1] = l
  BY LastOctetRead
<1>4. Ground!Written(p) = o
  BY DEF Ground!Written
<1> HIDE DEF a, b, c
<1>5. a \in Seq(Octets) /\ b \in Seq(Octets) /\ c \in Seq(Octets)
  BY <1>2, <1>3
<1>6. Len(a) = 3 /\ Len(b) = 3 /\ Len(c) = 1
  BY <1>2, <1>3
<1>7. /\ SubSeq(o, 1, 3) = a /\ SubSeq(o, 4, 6) = b /\ SubSeq(o, 7, 7) = c
      /\ o \in Seq(Octets) /\ Len(o) = 7
  <2>1. /\ o \in Seq(Octets) /\ Len(o) = Len(a) + Len(b) + Len(c)
        /\ SubSeq(o, 1, Len(a)) = a
        /\ SubSeq(o, Len(a) + 1, Len(a) + Len(b)) = b
        /\ SubSeq(o, Len(a) + Len(b) + 1, Len(a) + Len(b) + Len(c)) = c
    BY <1>5, ReadInTurn
  <2> HIDE DEF o
  <2>2. QED
    BY <1>6, <2>1
<1> HIDE DEF o
<1>8. o[7] = l
  <2>1. o \in Seq(Octets) /\ Len(o) = 7
    BY <1>7
  <2>2. \A i \in 1 .. Len(o) : o[i] \in Octets
    BY <2>1, ElementOfSeq
  <2>3. \A i \in 7 .. 7 : o[i] \in Octets
    BY <2>1, <2>2
  <2>4. SubSeq(o, 7, 7)[1] = o[7 + 1 - 1]
    BY <2>3, SubSeqProperties
  <2>5. QED
    BY <1>3, <1>7, <2>4
<1>9. QED
  <2>1. Ground!Parsed(o) =
          [latitude |-> Ground!Number24(a), longitude |-> Ground!Number24(b),
           groundType |-> l \div 16, unk |-> (l \div 2) % 8, tracking |-> l % 2 = 1]
    BY <1>7, <1>8 DEF Ground!Parsed
  <2>2. l \div 16 = p.groundType /\ (l \div 2) % 8 = p.unk /\ (l % 2 = 1) = p.tracking
    BY LastOctetRead DEF l
  <2>3. QED
    BY <1>2, <1>4, <2>1, <2>2

\* What is read of a report is a report.
ReceivedGround(p) ==
    [latitude |-> Ground!Bits(p.latitude, 24), longitude |-> Ground!Bits(p.longitude, 24),
     groundType |-> p.groundType, unk |-> p.unk, tracking |-> p.tracking]

LEMMA GroundStep ==
    ASSUME ground \in GroundReports, Ground!Next
    PROVE  ground' \in GroundReports
<1> USE InputsAreLegal DEF Ground!InputsAssumption
<1>1. CASE \E v \in GroundLatitudes : Ground!Latitude(v)
  BY <1>1 DEF Ground!Latitude, Ground!LatitudeRaw, Ground!Clamp, GroundReports
<1>2. CASE \E v \in GroundLongitudes : Ground!Longitude(v)
  BY <1>2 DEF Ground!Longitude, Ground!LongitudeRaw, Ground!Clamp, GroundReports
<1>3. CASE \E v \in GroundTypes : Ground!GroundType(v)
  BY <1>3 DEF Ground!GroundType, GroundReports
<1>4. CASE \E v \in BOOLEAN : Ground!Tracking(v)
  BY <1>4 DEF Ground!Tracking, GroundReports
<1>5. CASE Ground!Receive
  BY <1>5, GroundOnAir, CutCoordinate DEF Ground!Receive, GroundReports
<1>6. QED
  BY <1>1, <1>2, <1>3, <1>4, <1>5 DEF Ground!Next

(* What is received is read and written as what was sent. *)
LEMMA GroundReadBack ==
    ASSUME NEW p \in GroundReports
    PROVE  LET received == Ground!Parsed(Ground!Written(p))
           IN  /\ Ground!Written(received) = Ground!Written(p)
               /\ Ground!Read(received) = Ground!Read(p)
<1> DEFINE received == Ground!Parsed(Ground!Written(p))
<1>1. received = ReceivedGround(p)
  BY GroundOnAir DEF ReceivedGround
<1>2. p.latitude \in Int /\ p.longitude \in Int
  BY DEF GroundReports
<1> HIDE DEF received
<1>3. /\ Ground!Bits(received.latitude, 24) = Ground!Bits(p.latitude, 24)
      /\ Ground!Bits(received.longitude, 24) = Ground!Bits(p.longitude, 24)
      /\ Ground!Coordinate(received.latitude) = Ground!Coordinate(p.latitude)
      /\ Ground!Coordinate(received.longitude) = Ground!Coordinate(p.longitude)
  BY <1>1, <1>2, CutCoordinate DEF ReceivedGround
<1>4. Ground!LastOctet(received) = Ground!LastOctet(p)
  BY <1>1 DEF ReceivedGround, Ground!LastOctet
<1>5. Ground!Written(received) = Ground!Written(p)
  BY <1>3, <1>4 DEF Ground!Written
<1>6. Ground!Read(received) = Ground!Read(p)
  BY <1>1, <1>3 DEF ReceivedGround, Ground!Read
<1>7. QED
  BY <1>5, <1>6 DEF received

LEMMA GroundSentOn ==
    ASSUME ground \in GroundReports
    PROVE  Ground!SentOn
BY GroundReadBack DEF Ground!SentOn

\* What the getters return, and all but one value stay.
GroundValues == {"latitude", "longitude", "groundType", "tracking"}

(* A setter changes one value of a report, and a transmission none. *)
LEMMA GroundOneValue ==
    ASSUME ground \in GroundReports, Ground!Next
    PROVE  Ground!OneValueAtATime
<1> DEFINE before == Ground!Read(Ground!Parsed(Ground!Written(ground)))
           after == Ground!Read(Ground!Parsed(Ground!Written(ground')))
<1>1. ground' \in GroundReports
  BY GroundStep
<1>2. before = Ground!Read(ground) /\ after = Ground!Read(ground')
  BY <1>1, GroundReadBack
<1>3. DOMAIN before = GroundValues
  BY <1>2 DEF Ground!Read, GroundValues
<1> HIDE DEF before, after
<1>4. /\ ground'.unk = ground.unk
      /\ \E x \in DOMAIN before : \A y \in DOMAIN before \ {x} : before[y] = after[y]
  <2>1. CASE \E v \in GroundLatitudes : Ground!Latitude(v)
    <3>1. /\ ground'.unk = ground.unk
          /\ \A y \in GroundValues \ {"latitude"} : after[y] = before[y]
      BY <1>2, <2>1 DEF Ground!Latitude, GroundReports, Ground!Read, GroundValues
    <3>2. QED
      BY <1>3, <3>1 DEF GroundValues
  <2>2. CASE \E v \in GroundLongitudes : Ground!Longitude(v)
    <3>1. /\ ground'.unk = ground.unk
          /\ \A y \in GroundValues \ {"longitude"} : after[y] = before[y]
      BY <1>2, <2>2 DEF Ground!Longitude, GroundReports, Ground!Read, GroundValues
    <3>2. QED
      BY <1>3, <3>1 DEF GroundValues
  <2>3. CASE \E v \in GroundTypes : Ground!GroundType(v)
    <3>1. /\ ground'.unk = ground.unk
          /\ \A y \in GroundValues \ {"groundType"} : after[y] = before[y]
      BY <1>2, <2>3 DEF Ground!GroundType, GroundReports, Ground!Read, GroundValues
    <3>2. QED
      BY <1>3, <3>1 DEF GroundValues
  <2>4. CASE \E v \in BOOLEAN : Ground!Tracking(v)
    <3>1. /\ ground'.unk = ground.unk
          /\ \A y \in GroundValues \ {"tracking"} : after[y] = before[y]
      BY <1>2, <2>4 DEF Ground!Tracking, GroundReports, Ground!Read, GroundValues
    <3>2. QED
      BY <1>3, <3>1 DEF GroundValues
  <2>5. CASE Ground!Receive
    <3>1. ground' = Ground!Parsed(Ground!Written(ground))
      BY <2>5 DEF Ground!Receive
    <3>2. after = before
      BY <1>2, <3>1, GroundReadBack
    <3>3. ground'.unk = ground.unk
      BY <3>1, GroundOnAir
    <3>4. QED
      BY <1>3, <3>2, <3>3 DEF GroundValues
  <2>6. QED
    BY <2>1, <2>2, <2>3, <2>4, <2>5 DEF Ground!Next
<1>5. QED
  BY <1>4 DEF Ground!OneValueAtATime, before, after

-----------------------------------------------------------------------------
(* The time of a frame.                                                     *)

RadioInv == length \in 1 .. MAX_BYTES /\ neighbours \in 0 .. MAX_NEIGHBOURS

LEMMA RadioStep ==
    ASSUME RadioInv, Radio!Next
    PROVE  RadioInv'
<1> USE InputsAreLegal DEF Radio!RadioAssumption
<1>1. CASE Radio!LongerFrame
  <2>1. length % MAX_BYTES \in 0 .. MAX_BYTES - 1
    BY DEF RadioInv
  <2>2. QED
    BY <1>1, <2>1 DEF Radio!LongerFrame, RadioInv
<1>2. CASE Radio!NeighboursChange
  BY <1>2 DEF Radio!NeighboursChange, RadioInv
<1>3. QED
  BY <1>1, <1>2 DEF Radio!Next

\* The blocks of 28 bits that a frame's payload and checksum are sent in.
Blocks == Radio!CeilQuotient(8 * length - 4 * 7 + 44, 4 * 7)

LEMMA BlocksHoldTheFrame ==
    ASSUME RadioInv
    PROVE  /\ Blocks \in 1 .. length
           /\ 28 * Blocks >= 8 * length + 16
           /\ 28 * Blocks < 8 * length + 44
<1>1. length \in Int /\ length >= 1
  BY InputsAreLegal DEF RadioInv, Radio!RadioAssumption
<1>2. Blocks = -((-(8 * length + 16)) \div 28)
  BY <1>1 DEF Blocks, Radio!CeilQuotient
<1>3. \A v \in Int : LET q == (-v) \div 28
                    IN  q \in Int /\ 28 * q <= -v /\ -v < 28 * q + 28
  OBVIOUS
<1>4. LET q == (-(8 * length + 16)) \div 28
      IN  q \in Int /\ 28 * q <= -(8 * length + 16) /\ -(8 * length + 16) < 28 * q + 28
  BY <1>1, <1>3
<1>5. /\ Blocks \in Int /\ 28 * Blocks >= 8 * length + 16
      /\ 28 * Blocks < 8 * length + 44
  BY <1>1, <1>2, <1>4
<1>6. Blocks >= 1 /\ Blocks <= length
  BY <1>1, <1>5
<1>7. QED
  BY <1>1, <1>5, <1>6

\* The symbols of a frame, its preamble excepted.
Symbols == 8 + Blocks * Radio!CodingRate

LEMMA AirTimeOfSymbols ==
    ASSUME RadioInv
    PROVE  /\ Symbols \in Nat
           /\ Radio!AirTime \in Int
           /\ 250 * (Radio!AirTime - 6) <= 128 * Symbols
           /\ 128 * Symbols < 250 * (Radio!AirTime - 5)
<1>1. Blocks \in Int /\ Blocks >= 1
  BY BlocksHoldTheFrame, InputsAreLegal DEF RadioInv, Radio!RadioAssumption
<1>2. Radio!CodingRate \in {5, 8}
  BY DEF Radio!CodingRate
<1>3. Symbols \in Nat
  BY <1>1, <1>2 DEF Symbols
<1>4. Radio!PayloadSymbols(length, 7, Radio!CodingRate - 4) = Symbols
  BY <1>1, <1>2 DEF Radio!PayloadSymbols, Symbols, Blocks
<1>5. 2^7 = 128 /\ (49 * 128) \div 1000 = 6
  OBVIOUS
<1>6. Radio!AirTime = 6 + (Symbols * 128) \div 250
  BY <1>4, <1>5 DEF Radio!AirTime, Radio!LoraAirtime, Radio!PreambleTime
<1>7. \A v \in Int : LET q == v \div 250 IN q \in Int /\ 250 * q <= v /\ v < 250 * q + 250
  OBVIOUS
<1>8. LET q == (Symbols * 128) \div 250
      IN  q \in Int /\ 250 * q <= Symbols * 128 /\ Symbols * 128 < 250 * q + 250
  BY <1>3, <1>7
<1>9. QED
  BY <1>3, <1>6, <1>8

(* The wait covers the frame at either coding rate. *)
LEMMA RadioSpacing ==
    ASSUME RadioInv
    PROVE  Radio!SpacingCoversFrame
<1>1. /\ length \in Int /\ length >= 1
      /\ MAC_TX_MINPREAMBLEHEADERTIME_MS \in Int /\ MAC_TX_MINPREAMBLEHEADERTIME_MS >= 15
      /\ MAC_TX_TIMEPERBYTE_MS \in Int /\ MAC_TX_TIMEPERBYTE_MS >= 2
  BY InputsAreLegal DEF RadioInv, Radio!RadioAssumption
<1>2. length * MAC_TX_TIMEPERBYTE_MS >= 2 * length
  <2>1. \A l, k \in Int : l >= 1 /\ k >= 0 => l * k >= 0
    OBVIOUS
  <2>2. length * (MAC_TX_TIMEPERBYTE_MS - 2) >= 0
    BY <1>1, <2>1
  <2>3. QED
    BY <1>1, <2>2
<1>3. Symbols <= 8 + 8 * Blocks
  BY BlocksHoldTheFrame, <1>1 DEF Symbols, Radio!CodingRate
<1>4. 28 * Blocks < 8 * length + 44 /\ Blocks \in Int
  BY BlocksHoldTheFrame, <1>1
<1>5. 250 * (Radio!AirTime - 6) <= 128 * Symbols /\ Radio!AirTime \in Int /\ Symbols \in Int
  BY AirTimeOfSymbols
<1>6. Radio!AirTime <= 15 + 2 * length
  <2>1. 250 * Radio!AirTime <= 2524 + 1024 * Blocks
    BY <1>3, <1>4, <1>5
  <2>2. CASE length = 1
    <3>1. Blocks <= 1
      BY <1>4, <2>2
    <3>2. 250 * Radio!AirTime <= 3548
      BY <1>4, <1>5, <2>1, <3>1
    <3>3. QED
      BY <1>5, <2>2, <3>2
  <2>3. CASE length >= 2
    BY <1>1, <1>4, <1>5, <2>1, <2>3
  <2>4. QED
    BY <1>1, <2>2, <2>3
<1>7. QED
  BY <1>1, <1>2, <1>5, <1>6 DEF Radio!SpacingCoversFrame, Radio!Spacing

(* The exact time counts the same blocks, the fewest the frame fits in. *)
LEMMA RadioClose ==
    ASSUME RadioInv
    PROVE  Radio!CloseToExact
<1>1. length \in Int /\ length >= 1
  BY InputsAreLegal DEF RadioInv, Radio!RadioAssumption
<1> DEFINE Fewest(b) == Radio!Fits(b) /\ \A c \in 0 .. b - 1 : ~Radio!Fits(c)
<1>2. Blocks \in 0 .. length /\ Fewest(Blocks)
  BY <1>1, BlocksHoldTheFrame DEF Radio!Fits
<1>3. ASSUME NEW b \in 0 .. length, Fewest(b)
      PROVE  b = Blocks
  <2>1. ~(b < Blocks)
    BY <1>1, <1>2, <1>3
  <2>2. ~(Blocks < b)
    BY <1>1, <1>2, <1>3
  <2>3. QED
    BY <1>1, <1>2, <2>1, <2>2
<1>4. (CHOOSE b \in 0 .. length : Fewest(b)) = Blocks
  BY <1>2, <1>3
<1>5. Radio!ExactQuarterSymbols = 49 + 4 * Symbols
  BY <1>4 DEF Radio!ExactQuarterSymbols, Symbols
<1>6. QED
  BY <1>5, AirTimeOfSymbols DEF Radio!CloseToExact

-----------------------------------------------------------------------------
(* The zone of a position.                                                  *)

ZoneInv ==
    /\ position \in [latitude : Int, longitude : Int]
    /\ zone = Zone!FindZone(position.latitude, position.longitude)

\* The zone's borders are whole degrees.
Rectangle(z) == z.north \in Int /\ z.south \in Int /\ z.east \in Int /\ z.west \in Int

(* The table: no zone lies in one that is searched before it. *)
LEMMA ZonesInOrder ==
    /\ DOMAIN Zone!DefaultZones = 1 .. 8 /\ Zone!Unknown = 8
    /\ \A i \in 1 .. 8 : Rectangle(Zone!DefaultZones[i])
    /\ \A i \in 1 .. 7 : \A k \in 1 .. i - 1 : ~Zone!Within(i, k)
<1>1. DOMAIN Zone!DefaultZones = 1 .. 8 /\ Zone!Unknown = 8
  BY DEF Zone!DefaultZones, Zone!Unknown
<1>2. ASSUME NEW i \in 1 .. 8
      PROVE  Rectangle(Zone!DefaultZones[i])
  BY DEF Zone!DefaultZones, Rectangle
<1>3. ASSUME NEW i \in 1 .. 7, NEW k \in 1 .. i - 1
      PROVE  ~Zone!Within(i, k)
  BY DEF Zone!DefaultZones, Zone!Within, Zone!Inside
<1>4. QED
  BY <1>1, <1>2, <1>3

LEMMA ZoneStep ==
    ASSUME ZoneInv, Zone!Next
    PROVE  ZoneInv'
<1> USE InputsAreLegal DEF Zone!InputsAssumption
<1>1. CASE \E v \in Parallels : Zone!Ask(v, position.longitude)
  BY <1>1 DEF Zone!Ask, ZoneInv
<1>2. CASE \E v \in Meridians : Zone!Ask(position.latitude, v)
  BY <1>2 DEF Zone!Ask, ZoneInv
<1>3. QED
  BY <1>1, <1>2 DEF Zone!Next

(* The cut towards zero keeps what is within borders of whole degrees, and  *)
(* takes in what is beyond them by less than a degree, away from zero.      *)
LEMMA CutToDegrees ==
    ASSUME NEW v \in Int, NEW low \in Int, NEW high \in Int
    PROVE  /\ 2 * low <= v /\ v <= 2 * high
                => low <= Zone!Degrees(v) /\ Zone!Degrees(v) <= high
           /\ low <= Zone!Degrees(v) /\ Zone!Degrees(v) <= high
                => Zone!AwayFromZero(v, 2 * low, 2 * high)
<1> DEFINE d == Zone!Degrees(v)
<1>1. /\ d \in Int
      /\ IF v < 0 THEN v <= 2 * d /\ 2 * d < v + 2 /\ d <= 0
                  ELSE 2 * d <= v /\ v < 2 * d + 2 /\ 0 <= d
  BY DEF Zone!Degrees, Zone!Quotient
<1> HIDE DEF d
<1>2. 2 * low <= v /\ v <= 2 * high => low <= d /\ d <= high
  BY <1>1
<1>3. low <= d /\ d <= high => Zone!AwayFromZero(v, 2 * low, 2 * high)
  BY <1>1 DEF Zone!AwayFromZero
<1>4. QED
  BY <1>2, <1>3 DEF d

\* The zones that hold the position, and those that hold it in whole degrees.
Holds(i) == Zone!Inside(Zone!Halved(i), position.latitude, position.longitude)
Matching == Zone!Matches(position.latitude, position.longitude)

(* What holds the position matches, and what matches is less than a degree  *)
(* from it.                                                                 *)
LEMMA MatchesHold ==
    ASSUME ZoneInv, NEW i \in 1 .. 8
    PROVE  /\ Holds(i) => i \in Matching
           /\ i \in Matching =>
                 /\ Zone!AwayFromZero(position.latitude, Zone!Halved(i).south, Zone!Halved(i).north)
                 /\ Zone!AwayFromZero(position.longitude, Zone!Halved(i).west, Zone!Halved(i).east)
<1> DEFINE z == Zone!DefaultZones[i]
           a == position.latitude
           o == position.longitude
<1>1. /\ z.north \in Int /\ z.south \in Int /\ z.east \in Int /\ z.west \in Int
      /\ i \in DOMAIN Zone!DefaultZones
  BY ZonesInOrder DEF Rectangle
<1>2. a \in Int /\ o \in Int
  BY DEF ZoneInv
<1>3. /\ Zone!Halved(i).north = 2 * z.north /\ Zone!Halved(i).south = 2 * z.south
      /\ Zone!Halved(i).east = 2 * z.east /\ Zone!Halved(i).west = 2 * z.west
  BY DEF Zone!Halved
<1>4. i \in Matching <=>
         /\ z.south <= Zone!Degrees(a) /\ Zone!Degrees(a) <= z.north
         /\ z.west <= Zone!Degrees(o) /\ Zone!Degrees(o) <= z.east
  <2>1. Zone!Degrees(a) \in Int /\ Zone!Degrees(o) \in Int
    BY <1>2 DEF Zone!Degrees, Zone!Quotient
  <2>2. QED
    BY <1>1, <2>1 DEF Matching, Zone!Matches, Zone!Inside
<1>5. Holds(i) <=> /\ 2 * z.south <= a /\ a <= 2 * z.north
                   /\ 2 * z.west <= o /\ o <= 2 * z.east
  BY <1>1, <1>2, <1>3 DEF Holds, Zone!Inside
<1>6. Holds(i) => i \in Matching
  BY <1>1, <1>2, <1>4, <1>5, CutToDegrees
<1>7. i \in Matching =>
         /\ Zone!AwayFromZero(a, 2 * z.south, 2 * z.north)
         /\ Zone!AwayFromZero(o, 2 * z.west, 2 * z.east)
  BY <1>1, <1>2, <1>4, CutToDegrees
<1>8. QED
  BY <1>3, <1>6, <1>7

(* The zone that is told is the first that matches. *)
LEMMA FirstMatch ==
    ASSUME ZoneInv
    PROVE  \/ /\ zone \in Matching /\ zone \in 1 .. 8
              /\ \A i \in Matching : zone <= i
           \/ zone = 8 /\ Matching = {}
<1>1. Matching \subseteq 1 .. 8
  BY ZonesInOrder DEF Matching, Zone!Matches
<1>2. zone = IF Matching = {} THEN 8 ELSE CHOOSE i \in Matching : \A k \in Matching : i <= k
  BY ZonesInOrder DEF ZoneInv, Zone!FindZone, Matching
<1>3. ASSUME Matching # {}
      PROVE  \E i \in Matching : \A k \in Matching : i <= k
  <2>1. PICK m \in Matching : TRUE
    BY <1>3
  <2>2. ASSUME \A i \in Matching : \E k \in Matching : k < i
        PROVE  FALSE
    BY <1>1, <2>1, <2>2
  <2>3. QED
    BY <1>1, <2>2
<1>4. QED
  BY <1>1, <1>2, <1>3

(* The innermost zone is found, and one that is less than a degree away. *)
LEMMA ZoneIsRight ==
    ASSUME ZoneInv
    PROVE  Zone!InnermostZone /\ Zone!WithinADegree
<1>1. Zone!InnermostZone
  <2>1. ASSUME NEW i \in 1 .. 7, Holds(i)
        PROVE  zone = i \/ ~Zone!Within(i, zone)
    <3>1. i \in Matching
      BY <2>1, MatchesHold
    <3>2. zone \in 1 .. 8 /\ zone <= i
      BY <3>1, FirstMatch
    <3>3. QED
      BY <3>2, ZonesInOrder
  <2>2. QED
    BY <2>1, ZonesInOrder DEF Zone!InnermostZone, Holds
<1>2. CASE zone = 8
  <2>1. ASSUME NEW i \in 1 .. 7
        PROVE  ~Holds(i)
    BY <1>2, MatchesHold, FirstMatch
  <2>2. QED
    BY <1>1, <1>2, <2>1, ZonesInOrder DEF Zone!WithinADegree, Holds
<1>3. CASE zone # 8
  <2>1. zone \in Matching /\ zone \in 1 .. 8
    BY <1>3, FirstMatch
  <2>2. QED
    BY <1>1, <1>3, <2>1, MatchesHold, ZonesInOrder DEF Zone!WithinADegree
<1>4. QED
  BY <1>2, <1>3

-----------------------------------------------------------------------------
(* The report of a ground station.                                          *)

Winds == [raw : 0 .. 127, scaled : BOOLEAN]
PressureRaws == 0 .. Service!HighestPressure
Positions == -(2^23) .. (2^24 - 1)

LEMMA PositionsAreNumbers == Positions \subseteq Int
<1>1. -(2^23) \in Int /\ 2^24 - 1 \in Int
  OBVIOUS
<1>2. \A a, b \in Int : a .. b \subseteq Int
  OBVIOUS
<1>3. QED
  BY <1>1, <1>2 DEF Positions

ServiceReports ==
    [header : SUBSET Service!Flags, eHeader : Octets,
     latitude : Positions, longitude : Positions, bPosition : BOOLEAN,
     temperature : -128 .. 127, windHeading : 0 .. 255, windSpeed : Winds, windGust : Winds,
     humidity : 0 .. 250, barometric : PressureRaws, battery : 0 .. 15]

\* A value without its flag was never set.
Defaults(p) ==
    /\ "extended" \notin p.header => p.eHeader = 0
    /\ "temperature" \notin p.header => p.temperature = 0
    /\ "wind" \notin p.header =>
          p.windHeading = 0 /\ p.windSpeed = Service!Calm /\ p.windGust = Service!Calm
    /\ "humidity" \notin p.header => p.humidity = 0
    /\ "barometric" \notin p.header => p.barometric = 0
    /\ "battery" \notin p.header => p.battery = 0

ServiceInv ==
    /\ service \in ServiceReports /\ Defaults(service)
    /\ given \in [windSpeed : Int, windGust : Int]
    /\ Service!WrongOnlyByScale

\* The octets c are in o behind the first n.
At(o, n, c) == n + Len(c) <= Len(o) /\ SubSeq(o, n + 1, n + Len(c)) = c

\* What is appended is at the end, and what was there stays where it was.
IsAppended(o, s, c) ==
    /\ o \in Seq(Octets) /\ Len(o) = Len(s) + Len(c) /\ At(o, Len(s), c)
    /\ \A n \in Nat, d \in Seq(Octets) : At(s, n, d) => At(o, n, d)

(* Octets behind others. *)
LEMMA Appended ==
    ASSUME NEW s \in Seq(Octets), NEW c \in Seq(Octets), NEW o, o = s \o c
    PROVE  IsAppended(o, s, c)
<1>1. /\ o \in Seq(Octets) /\ Len(o) = Len(s) + Len(c) /\ Len(s) \in Nat /\ Len(c) \in Nat
  BY Joined
<1>2. SubSeq(o, Len(s) + 1, Len(s) + Len(c)) = c
  BY ReadAtEnd
<1>3. ASSUME NEW n \in Nat, NEW d \in Seq(Octets), At(s, n, d)
      PROVE  At(o, n, d)
  <2> DEFINE a == n + 1
             b == n + Len(d)
  <2>1. Len(d) \in Nat
    BY LenProperties
  <2>2. a \in Nat /\ b \in Nat /\ 1 <= a /\ b <= Len(s) /\ SubSeq(s, a, b) = d
    BY <1>3, <2>1 DEF At
  <2> HIDE DEF a, b
  <2>3. SubSeq(s \o c, a, b) = SubSeq(s, a, b)
    BY <2>2, ReadInFront
  <2>4. n + Len(d) <= Len(o) /\ SubSeq(o, n + 1, n + Len(d)) = d
    BY <1>1, <2>1, <2>2, <2>3 DEF a, b
  <2>5. QED
    BY <2>4 DEF At
<1>4. QED
  BY <1>1, <1>2, <1>3 DEF At, IsAppended

\* How many octets the i-th field takes of what follows.
Taken(w, i) == IF Service!Expects(w, Service!Fields[i]) THEN Service!Size[i] ELSE 0

(* The fields are read one behind the other. *)
LEMMA ReadsOneByOne ==
    ASSUME NEW w
    PROVE  LET r == Service!Reads(w)
           IN  /\ r[1] = 0
               /\ r[2] = r[1] + Taken(w, 1) /\ r[3] = r[2] + Taken(w, 2)
               /\ r[4] = r[3] + Taken(w, 3) /\ r[5] = r[4] + Taken(w, 4)
               /\ r[6] = r[5] + Taken(w, 5) /\ r[7] = r[6] + Taken(w, 6)
               /\ r[8] = r[7] + Taken(w, 7)
<1> DEFINE F(f) == [i \in 1 .. 8 |-> IF i = 1 THEN 0 ELSE f[i - 1] + Taken(w, i - 1)]
           r == Service!Reads(w)
<1>1. r = CHOOSE f : f = F(f)
  BY DEF Service!Reads, Taken
<1> DEFINE a2 == 0 + Taken(w, 1)
           a3 == a2 + Taken(w, 2)
           a4 == a3 + Taken(w, 3)
           a5 == a4 + Taken(w, 4)
           a6 == a5 + Taken(w, 5)
           a7 == a6 + Taken(w, 6)
           a8 == a7 + Taken(w, 7)
           g == [i \in 1 .. 8 |-> CASE i = 1 -> 0 [] i = 2 -> a2 [] i = 3 -> a3 [] i = 4 -> a4
                                    [] i = 5 -> a5 [] i = 6 -> a6 [] i = 7 -> a7 [] OTHER -> a8]
<1>2. g = F(g)
  <2>1. ASSUME NEW i \in 1 .. 8
        PROVE  g[i] = IF i = 1 THEN 0 ELSE g[i - 1] + Taken(w, i - 1)
    <3>1. g[1] = 0 /\ g[2] = a2 /\ g[3] = a3 /\ g[4] = a4 /\ g[5] = a5 /\ g[6] = a6 /\ g[7] = a7
          /\ g[8] = a8
      OBVIOUS
    <3> HIDE DEF g
    <3>2. i = 1 \/ i = 2 \/ i = 3 \/ i = 4 \/ i = 5 \/ i = 6 \/ i = 7 \/ i = 8
      OBVIOUS
    <3>3. QED
      BY <3>1, <3>2
  <2>2. QED
    BY <2>1
<1> HIDE DEF F, g, a2, a3, a4, a5, a6, a7, a8
<1>3. r = F(r)
  BY <1>1, <1>2
<1> HIDE DEF r
<1>4. \A i \in 1 .. 8 : r[i] = IF i = 1 THEN 0 ELSE r[i - 1] + Taken(w, i - 1)
  BY <1>3 DEF F
<1>5. QED
  BY <1>4 DEF r

\* The two coordinates of a position, one behind the other.
PlaceOctets(u, v) ==
    Service!Octets24(Service!Bits(u, 24)) \o Service!Octets24(Service!Bits(v, 24))

\* The octets of the fields, none where the field does not follow.
ExtendedOctets(p) == Service!If("extended" \in p.header, <<p.eHeader>>)
PositionOctets(p) ==
    Service!If(Service!Placed(p), PlaceOctets(p.latitude, p.longitude))
TemperatureOctets(p) ==
    Service!If("temperature" \in p.header, <<Service!Bits(p.temperature, 8)>>)
WindOctets(p) ==
    Service!If("wind" \in p.header,
               <<p.windHeading, Service!WindOctet(p.windSpeed), Service!WindOctet(p.windGust)>>)
HumidityOctets(p) == Service!If("humidity" \in p.header, <<p.humidity>>)
PressureOctets(p) == Service!If("barometric" \in p.header, Service!Octets16(p.barometric))
BatteryOctets(p) == Service!If("battery" \in p.header, <<p.battery>>)

\* c is n octets where the field follows.
IsChunk(c, follows, n) == c \in Seq(Octets) /\ Len(c) = IF follows THEN n ELSE 0

(* A wind speed's octet, and a temperature's, are read as they were written. *)
LEMMA WindRead ==
    ASSUME NEW x \in Winds
    PROVE  Service!WindOctet(x) \in Octets /\ Service!Wind(Service!WindOctet(x)) = x
<1>1. \A k \in 0 .. 1, v \in 0 .. 127 :
         LET o == 128 * k + v IN o \in 0 .. 255 /\ o % 128 = v /\ (o >= 128) = (k = 1)
  OBVIOUS
<1>2. x.raw \in 0 .. 127 /\ x.scaled \in BOOLEAN /\ x = [raw |-> x.raw, scaled |-> x.scaled]
  BY DEF Winds
<1> DEFINE k == IF x.scaled THEN 1 ELSE 0
           o == Service!WindOctet(x)
<1>3. k \in 0 .. 1 /\ (k = 1) = x.scaled
  BY <1>2
<1>4. \A v \in 0 .. 127 : v % 2^7 = v
  OBVIOUS
<1>5. o = 128 * k + x.raw
  BY <1>2, <1>4 DEF Service!WindOctet, Service!Bits
<1> HIDE DEF k, o
<1>6. o \in 0 .. 255 /\ o % 128 = x.raw /\ (o >= 128) = x.scaled
  BY <1>1, <1>2, <1>3, <1>5
<1>7. QED
  BY <1>2, <1>6 DEF Service!Wind, Octets, o

LEMMA TemperatureRead ==
    ASSUME NEW v \in -128 .. 127
    PROVE  /\ Service!Bits(v, 8) \in Octets
           /\ Service!Signed(Service!Bits(v, 8), 8) = v
<1>1. 2^8 = 256 /\ 2^(8 - 1) = 128
  OBVIOUS
<1>2. v % 256 \in 0 .. 255 /\ (IF v % 256 < 128 THEN v % 256 ELSE (v % 256) - 256) = v
  OBVIOUS
<1>3. QED
  BY <1>1, <1>2 DEF Service!Bits, Service!Signed, Octets

LEMMA PressureRead ==
    ASSUME NEW v \in PressureRaws
    PROVE  /\ Service!Octets16(v) \in Seq(Octets) /\ Len(Service!Octets16(v)) = 2
           /\ Service!Number16(Service!Octets16(v)) = v
<1>1. /\ v % 256 \in 0 .. 255 /\ (v \div 256) % 256 \in 0 .. 255
      /\ (v % 256) + 256 * ((v \div 256) % 256) = v
  BY SMTT(40) DEF PressureRaws, Service!HighestPressure
<1>2. QED
  BY <1>1 DEF Service!Octets16, Service!Number16, Octets

(* Both coordinates of a position are read as they were written.            *)
LEMMA PositionRead ==
    ASSUME NEW u \in Int, NEW v \in Int
    PROVE  /\ PlaceOctets(u, v) \in Seq(Octets) /\ Len(PlaceOctets(u, v)) = 6
           /\ Service!Number24(SubSeq(PlaceOctets(u, v), 1, 3)) = Service!Bits(u, 24)
           /\ Service!Number24(SubSeq(PlaceOctets(u, v), 4, 6)) = Service!Bits(v, 24)
<1> DEFINE o == PlaceOctets(u, v)
           a == Service!Octets24(Service!Bits(u, 24))
           b == Service!Octets24(Service!Bits(v, 24))
<1>1. \A x \in Int : Service!Octets24(Service!Bits(x, 24)) = Ground!Octets24(Ground!Bits(x, 24))
  BY DEF Service!Octets24, Service!Bits, Ground!Octets24, Ground!Bits
<1>2. \A x \in Int : Service!Bits(x, 24) = Ground!Bits(x, 24)
  BY DEF Service!Bits, Ground!Bits
<1>3. \A x : Service!Number24(x) = Ground!Number24(x)
  BY DEF Service!Number24, Ground!Number24
<1>4. /\ a \in Seq(Octets) /\ Len(a) = 3 /\ Service!Number24(a) = Service!Bits(u, 24)
      /\ b \in Seq(Octets) /\ Len(b) = 3 /\ Service!Number24(b) = Service!Bits(v, 24)
  BY <1>1, <1>2, <1>3, Coordinate24
<1> HIDE DEF a, b, o
<1>5. /\ o \in Seq(Octets) /\ Len(o) = 6
      /\ SubSeq(o, 1, 3) = a /\ SubSeq(o, 4, 6) = b
  <2>1. a \in Seq(Octets) /\ b \in Seq(Octets)
    BY <1>4
  <2>2. /\ o \in Seq(Octets) /\ Len(o) = Len(a) + Len(b) /\ At(o, Len(a), b)
        /\ \A n \in Nat, d \in Seq(Octets) : At(a, n, d) => At(o, n, d)
    <3>1. o = a \o b
      BY DEF a, b, o, PlaceOctets
    <3>2. IsAppended(o, a, b)
      BY <2>1, <3>1, Appended
    <3>3. QED
      BY <3>2 DEF IsAppended
  <2>3. At(a, 0, a)
    <3>1. SubSeq(a, 1, Len(a)) = a
      BY <2>1, SubSeqFull
    <3>2. QED
      BY <1>4, <3>1 DEF At
  <2>4. At(o, 0, a)
    BY <2>1, <2>2, <2>3
  <2>5. QED
    BY <1>4, <2>2, <2>4 DEF At
<1>6. QED
  BY <1>4, <1>5 DEF o

(* Every field has the octets that are read of it.                          *)
LEMMA ServiceChunks ==
    ASSUME NEW p \in ServiceReports
    PROVE  /\ IsChunk(ExtendedOctets(p), "extended" \in p.header, 1)
           /\ IsChunk(PositionOctets(p), Service!Placed(p), 6)
           /\ IsChunk(TemperatureOctets(p), "temperature" \in p.header, 1)
           /\ IsChunk(WindOctets(p), "wind" \in p.header, 3)
           /\ IsChunk(HumidityOctets(p), "humidity" \in p.header, 1)
           /\ IsChunk(PressureOctets(p), "barometric" \in p.header, 2)
           /\ IsChunk(BatteryOctets(p), "battery" \in p.header, 1)
<1>1. /\ p.eHeader \in Octets /\ p.latitude \in Int /\ p.longitude \in Int
      /\ p.temperature \in -128 .. 127
      /\ p.windHeading \in Octets /\ p.windSpeed \in Winds /\ p.windGust \in Winds
      /\ p.humidity \in Octets /\ p.barometric \in PressureRaws /\ p.battery \in Octets
  <2>1. p.latitude \in Int /\ p.longitude \in Int
    <3>1. p.latitude \in Positions /\ p.longitude \in Positions
      BY DEF ServiceReports
    <3>2. QED
      BY <3>1, PositionsAreNumbers
  <2>2. /\ p.eHeader \in Octets /\ p.temperature \in -128 .. 127
        /\ p.windHeading \in 0 .. 255 /\ p.windSpeed \in Winds /\ p.windGust \in Winds
        /\ p.humidity \in 0 .. 250 /\ p.barometric \in PressureRaws /\ p.battery \in 0 .. 15
    BY DEF ServiceReports
  <2>3. QED
    BY <2>1, <2>2 DEF Octets
<1>2. <<>> \in Seq(Octets) /\ Len(<<>>) = 0
  OBVIOUS
<1>3. ASSUME NEW follows, NEW c \in Seq(Octets), NEW n, Len(c) = n
      PROVE  IsChunk(Service!If(follows, c), follows, n)
  BY <1>2, <1>3 DEF IsChunk, Service!If
<1>4. \A x \in Octets : <<x>> \in Seq(Octets) /\ Len(<<x>>) = 1
  OBVIOUS
<1>5. IsChunk(ExtendedOctets(p), "extended" \in p.header, 1)
  <2> DEFINE o == <<p.eHeader>>
  <2>1. o \in Seq(Octets) /\ Len(o) = 1
    BY <1>1, <1>4
  <2>2. ExtendedOctets(p) = Service!If("extended" \in p.header, o)
    BY DEF ExtendedOctets
  <2> HIDE DEF o
  <2>3. QED
    BY <1>3, <2>1, <2>2
<1>6. IsChunk(PositionOctets(p), Service!Placed(p), 6)
  <2> DEFINE o == PlaceOctets(p.latitude, p.longitude)
  <2>1. o \in Seq(Octets) /\ Len(o) = 6
    BY <1>1, PositionRead
  <2>2. PositionOctets(p) = Service!If(Service!Placed(p), o)
    BY DEF PositionOctets
  <2> HIDE DEF o
  <2>3. QED
    BY <1>3, <2>1, <2>2
<1>7. IsChunk(TemperatureOctets(p), "temperature" \in p.header, 1)
  <2> DEFINE o == <<Service!Bits(p.temperature, 8)>>
  <2>1. o \in Seq(Octets) /\ Len(o) = 1
    BY <1>1, <1>4, TemperatureRead
  <2>2. TemperatureOctets(p) = Service!If("temperature" \in p.header, o)
    BY DEF TemperatureOctets
  <2> HIDE DEF o
  <2>3. QED
    BY <1>3, <2>1, <2>2
<1>8. IsChunk(WindOctets(p), "wind" \in p.header, 3)
  <2> DEFINE o == <<p.windHeading, Service!WindOctet(p.windSpeed), Service!WindOctet(p.windGust)>>
  <2>1. o \in Seq(Octets) /\ Len(o) = 3
    BY <1>1, WindRead
  <2>2. WindOctets(p) = Service!If("wind" \in p.header, o)
    BY DEF WindOctets
  <2> HIDE DEF o
  <2>3. QED
    BY <1>3, <2>1, <2>2
<1>9. IsChunk(HumidityOctets(p), "humidity" \in p.header, 1)
  <2> DEFINE o == <<p.humidity>>
  <2>1. o \in Seq(Octets) /\ Len(o) = 1
    BY <1>1, <1>4
  <2>2. HumidityOctets(p) = Service!If("humidity" \in p.header, o)
    BY DEF HumidityOctets
  <2> HIDE DEF o
  <2>3. QED
    BY <1>3, <2>1, <2>2
<1>10. IsChunk(PressureOctets(p), "barometric" \in p.header, 2)
  <2> DEFINE o == Service!Octets16(p.barometric)
  <2>1. o \in Seq(Octets) /\ Len(o) = 2
    BY <1>1, PressureRead
  <2>2. PressureOctets(p) = Service!If("barometric" \in p.header, o)
    BY DEF PressureOctets
  <2> HIDE DEF o
  <2>3. QED
    BY <1>3, <2>1, <2>2
<1>11. IsChunk(BatteryOctets(p), "battery" \in p.header, 1)
  <2> DEFINE o == <<p.battery>>
  <2>1. o \in Seq(Octets) /\ Len(o) = 1
    BY <1>1, <1>4
  <2>2. BatteryOctets(p) = Service!If("battery" \in p.header, o)
    BY DEF BatteryOctets
  <2> HIDE DEF o
  <2>3. QED
    BY <1>3, <2>1, <2>2
<1>12. QED
  BY <1>5, <1>6, <1>7, <1>8, <1>9, <1>10, <1>11

\* The i-th field is read from the octets c where it follows, and else zeros.
FieldRead(w, i, c, follows) ==
    /\ Service!Expects(w, Service!Fields[i]) = follows
    /\ Service!ReadFrom(w, i) = IF follows THEN c ELSE [k \in 1 .. Service!Size[i] |-> 0]

(* The receiver finds the octets of every field, and none is left over.     *)
LEMMA ServiceOctetsRead ==
    ASSUME NEW p \in ServiceReports, NEW w, w = Service!Written(p)
    PROVE  /\ w.header = p.header
           /\ FieldRead(w, 1, ExtendedOctets(p), "extended" \in p.header)
           /\ FieldRead(w, 2, PositionOctets(p), Service!Placed(p))
           /\ FieldRead(w, 3, TemperatureOctets(p), "temperature" \in p.header)
           /\ FieldRead(w, 4, WindOctets(p), "wind" \in p.header)
           /\ FieldRead(w, 5, HumidityOctets(p), "humidity" \in p.header)
           /\ FieldRead(w, 6, PressureOctets(p), "barometric" \in p.header)
           /\ FieldRead(w, 7, BatteryOctets(p), "battery" \in p.header)
           /\ Service!Reads(w)[8] = Len(w.octets)
<1> DEFINE c1 == ExtendedOctets(p)
           c2 == PositionOctets(p)
           c3 == TemperatureOctets(p)
           c4 == WindOctets(p)
           c5 == HumidityOctets(p)
           c6 == PressureOctets(p)
           c7 == BatteryOctets(p)
           f1 == "extended" \in p.header
           f2 == Service!Placed(p)
           f3 == "temperature" \in p.header
           f4 == "wind" \in p.header
           f5 == "humidity" \in p.header
           f6 == "barometric" \in p.header
           f7 == "battery" \in p.header
           p2 == c1 \o c2
           p3 == p2 \o c3
           p4 == p3 \o c4
           p5 == p4 \o c5
           p6 == p5 \o c6
           o == p6 \o c7
<1>1. w.header = p.header /\ w.octets = o
  BY DEF Service!Written, ExtendedOctets, PositionOctets, PlaceOctets, TemperatureOctets,
         WindOctets, HumidityOctets, PressureOctets, BatteryOctets
<1>2. /\ IsChunk(c1, f1, 1) /\ IsChunk(c2, f2, 6) /\ IsChunk(c3, f3, 1) /\ IsChunk(c4, f4, 3)
      /\ IsChunk(c5, f5, 1) /\ IsChunk(c6, f6, 2) /\ IsChunk(c7, f7, 1)
  BY ServiceChunks
<1>3. /\ f1 \in BOOLEAN /\ f2 \in BOOLEAN /\ f3 \in BOOLEAN /\ f4 \in BOOLEAN
      /\ f5 \in BOOLEAN /\ f6 \in BOOLEAN /\ f7 \in BOOLEAN
      /\ f1 \/ f3 \/ f4 \/ f5 \/ f6 \/ f7 => f2
      /\ f2 = (Service!HasPlace(p.header) \/ p.bPosition)
      /\ Service!HasPlace(p.header) = (f1 \/ f3 \/ f4 \/ f5 \/ f6 \/ f7)
  <2>1. p.bPosition \in BOOLEAN /\ p.header \subseteq Service!Flags
    BY DEF ServiceReports
  <2>2. Service!HasPlace(p.header) = (f1 \/ f3 \/ f4 \/ f5 \/ f6 \/ f7)
    BY <2>1 DEF Service!HasPlace, Service!PlacedFlags, Service!Flags
  <2>3. Service!HasPlace(p.header) \in BOOLEAN
    BY DEF Service!HasPlace
  <2>4. f2 = (Service!HasPlace(p.header) \/ p.bPosition)
    BY DEF Service!Placed
  <2>5. f2 \in BOOLEAN
    BY <2>1, <2>3, <2>4
  <2>6. /\ f1 \in BOOLEAN /\ f3 \in BOOLEAN /\ f4 \in BOOLEAN
        /\ f5 \in BOOLEAN /\ f6 \in BOOLEAN /\ f7 \in BOOLEAN
    OBVIOUS
  <2> HIDE DEF f1, f2, f3, f4, f5, f6, f7
  <2>7. QED
    BY <2>2, <2>3, <2>4, <2>5, <2>6
<1>4. /\ p2 = c1 \o c2 /\ p3 = p2 \o c3 /\ p4 = p3 \o c4 /\ p5 = p4 \o c5 /\ p6 = p5 \o c6
      /\ o = p6 \o c7
  OBVIOUS
<1> HIDE DEF c1, c2, c3, c4, c5, c6, c7, p2, p3, p4, p5, p6, o
<1>5. /\ c1 \in Seq(Octets) /\ c2 \in Seq(Octets) /\ c3 \in Seq(Octets) /\ c4 \in Seq(Octets)
      /\ c5 \in Seq(Octets) /\ c6 \in Seq(Octets) /\ c7 \in Seq(Octets)
  BY <1>2 DEF IsChunk
<1>6. /\ Len(c1) = (IF f1 THEN 1 ELSE 0) /\ Len(c2) = (IF f2 THEN 6 ELSE 0)
      /\ Len(c3) = (IF f3 THEN 1 ELSE 0) /\ Len(c4) = (IF f4 THEN 3 ELSE 0)
      /\ Len(c5) = (IF f5 THEN 1 ELSE 0) /\ Len(c6) = (IF f6 THEN 2 ELSE 0)
      /\ Len(c7) = (IF f7 THEN 1 ELSE 0)
  BY <1>2 DEF IsChunk
<1> HIDE DEF f1, f2, f3, f4, f5, f6, f7
<1>7. At(c1, 0, c1)
  <2>1. SubSeq(c1, 1, Len(c1)) = c1
    BY <1>5, SubSeqFull
  <2>2. Len(c1) \in Nat
    BY <1>6
  <2>3. QED
    BY <2>1, <2>2 DEF At
<1>8. /\ p2 \in Seq(Octets) /\ Len(p2) = Len(c1) + Len(c2) /\ At(p2, Len(c1), c2)
      /\ \A n \in Nat, d \in Seq(Octets) : At(c1, n, d) => At(p2, n, d)
  <2>1. IsAppended(p2, c1, c2)
    BY <1>4, <1>5, Appended
  <2>2. QED
    BY <2>1 DEF IsAppended
<1>9. /\ p3 \in Seq(Octets) /\ Len(p3) = Len(p2) + Len(c3) /\ At(p3, Len(p2), c3)
      /\ \A n \in Nat, d \in Seq(Octets) : At(p2, n, d) => At(p3, n, d)
  <2>1. IsAppended(p3, p2, c3)
    BY <1>4, <1>5, <1>8, Appended
  <2>2. QED
    BY <2>1 DEF IsAppended
<1>10. /\ p4 \in Seq(Octets) /\ Len(p4) = Len(p3) + Len(c4) /\ At(p4, Len(p3), c4)
       /\ \A n \in Nat, d \in Seq(Octets) : At(p3, n, d) => At(p4, n, d)
  <2>1. IsAppended(p4, p3, c4)
    BY <1>4, <1>5, <1>9, Appended
  <2>2. QED
    BY <2>1 DEF IsAppended
<1>11. /\ p5 \in Seq(Octets) /\ Len(p5) = Len(p4) + Len(c5) /\ At(p5, Len(p4), c5)
       /\ \A n \in Nat, d \in Seq(Octets) : At(p4, n, d) => At(p5, n, d)
  <2>1. IsAppended(p5, p4, c5)
    BY <1>4, <1>5, <1>10, Appended
  <2>2. QED
    BY <2>1 DEF IsAppended
<1>12. /\ p6 \in Seq(Octets) /\ Len(p6) = Len(p5) + Len(c6) /\ At(p6, Len(p5), c6)
       /\ \A n \in Nat, d \in Seq(Octets) : At(p5, n, d) => At(p6, n, d)
  <2>1. IsAppended(p6, p5, c6)
    BY <1>4, <1>5, <1>11, Appended
  <2>2. QED
    BY <2>1 DEF IsAppended
<1>13. /\ o \in Seq(Octets) /\ Len(o) = Len(p6) + Len(c7) /\ At(o, Len(p6), c7)
       /\ \A n \in Nat, d \in Seq(Octets) : At(p6, n, d) => At(o, n, d)
  <2>1. IsAppended(o, p6, c7)
    BY <1>4, <1>5, <1>12, Appended
  <2>2. QED
    BY <2>1 DEF IsAppended
<1>14. /\ Len(c1) \in Nat /\ Len(p2) \in Nat /\ Len(p3) \in Nat /\ Len(p4) \in Nat
       /\ Len(p5) \in Nat /\ Len(p6) \in Nat /\ Len(o) \in Nat
  BY <1>5, <1>8, <1>9, <1>10, <1>11, <1>12, <1>13, LenProperties
<1>15. /\ At(o, 0, c1) /\ At(o, Len(c1), c2) /\ At(o, Len(p2), c3) /\ At(o, Len(p3), c4)
       /\ At(o, Len(p4), c5) /\ At(o, Len(p5), c6) /\ At(o, Len(p6), c7)
  <2>1. At(p2, 0, c1)
    BY <1>5, <1>7, <1>8
  <2>2. At(p3, 0, c1) /\ At(p3, Len(c1), c2)
    BY <1>5, <1>8, <1>9, <1>14, <2>1
  <2>3. At(p4, 0, c1) /\ At(p4, Len(c1), c2) /\ At(p4, Len(p2), c3)
    BY <1>5, <1>9, <1>10, <1>14, <2>2
  <2>4. At(p5, 0, c1) /\ At(p5, Len(c1), c2) /\ At(p5, Len(p2), c3) /\ At(p5, Len(p3), c4)
    BY <1>5, <1>10, <1>11, <1>14, <2>3
  <2>5. /\ At(p6, 0, c1) /\ At(p6, Len(c1), c2) /\ At(p6, Len(p2), c3) /\ At(p6, Len(p3), c4)
        /\ At(p6, Len(p4), c5)
    BY <1>5, <1>11, <1>12, <1>14, <2>4
  <2>6. QED
    BY <1>5, <1>12, <1>13, <1>14, <2>5
<1>16. Len(o) = Len(c1) + Len(c2) + Len(c3) + Len(c4) + Len(c5) + Len(c6) + Len(c7)
  BY <1>6, <1>8, <1>9, <1>10, <1>11, <1>12, <1>13, <1>14
<1>17. /\ Service!Expects(w, Service!Fields[1]) = f1 /\ Service!Expects(w, Service!Fields[2]) = f2
       /\ Service!Expects(w, Service!Fields[3]) = f3 /\ Service!Expects(w, Service!Fields[4]) = f4
       /\ Service!Expects(w, Service!Fields[5]) = f5 /\ Service!Expects(w, Service!Fields[6]) = f6
       /\ Service!Expects(w, Service!Fields[7]) = f7
  <2>1. Service!PayloadSize(w) >= 7 => f2
    <3>1. ~f2 => Len(o) = 0
      BY <1>3, <1>6, <1>16
    <3>2. QED
      BY <1>1, <3>1 DEF Service!PayloadSize
  <2>2. f2 => Service!PayloadSize(w) >= 7
    <3>1. f2 => Len(o) >= 6
      BY <1>3, <1>6, <1>16
    <3>2. QED
      BY <1>1, <1>14, <3>1 DEF Service!PayloadSize
  <2>3. Service!Expects(w, "position") = f2
    <3>1. Service!Expects(w, "position") =
             (Service!HasPlace(p.header) \/ Service!PayloadSize(w) >= 7)
      BY <1>1 DEF Service!Expects
    <3>2. Service!HasPlace(p.header) => f2
      BY <1>3
    <3>3. QED
      BY <1>3, <2>1, <2>2, <3>1, <3>2
  <2>4. \A x : x # "position" => Service!Expects(w, x) = (x \in p.header)
    BY <1>1 DEF Service!Expects
  <2>5. QED
    BY <2>3, <2>4 DEF Service!Fields, f1, f3, f4, f5, f6, f7
<1>18. /\ Service!Size[1] = 1 /\ Service!Size[2] = 6 /\ Service!Size[3] = 1 /\ Service!Size[4] = 3
       /\ Service!Size[5] = 1 /\ Service!Size[6] = 2 /\ Service!Size[7] = 1
  BY DEF Service!Size
<1>19. /\ Taken(w, 1) = Len(c1) /\ Taken(w, 2) = Len(c2) /\ Taken(w, 3) = Len(c3)
       /\ Taken(w, 4) = Len(c4) /\ Taken(w, 5) = Len(c5) /\ Taken(w, 6) = Len(c6)
       /\ Taken(w, 7) = Len(c7)
  BY <1>6, <1>17, <1>18 DEF Taken
<1> DEFINE r == Service!Reads(w)
<1>20. /\ r[1] = 0 /\ r[2] = Len(c1) /\ r[3] = Len(p2) /\ r[4] = Len(p3) /\ r[5] = Len(p4)
       /\ r[6] = Len(p5) /\ r[7] = Len(p6) /\ r[8] = Len(o)
  <2>1. /\ r[1] = 0 /\ r[2] = r[1] + Len(c1) /\ r[3] = r[2] + Len(c2) /\ r[4] = r[3] + Len(c3)
        /\ r[5] = r[4] + Len(c4) /\ r[6] = r[5] + Len(c5) /\ r[7] = r[6] + Len(c6)
        /\ r[8] = r[7] + Len(c7)
    BY <1>19, ReadsOneByOne
  <2> HIDE DEF r
  <2>2. QED
    BY <1>6, <1>8, <1>9, <1>10, <1>11, <1>12, <1>13, <1>14, <2>1
<1>21. ASSUME NEW i, NEW c, NEW f \in BOOLEAN, Service!Expects(w, Service!Fields[i]) = f,
              At(o, r[i], c), f => Len(c) = Service!Size[i]
       PROVE  FieldRead(w, i, c, f)
  <2>1. CASE f
    <3>1. Service!ReadFrom(w, i) = SubSeq(o, r[i] + 1, r[i] + Service!Size[i])
      BY <1>1, <1>21, <2>1 DEF Service!ReadFrom
    <3>2. QED
      BY <1>21, <2>1, <3>1 DEF At, FieldRead
  <2>2. CASE ~f
    BY <1>21, <2>2 DEF Service!ReadFrom, FieldRead
  <2>3. QED
    BY <2>1, <2>2
<1> HIDE DEF r
<1>22. FieldRead(w, 1, c1, f1)
  BY <1>3, <1>6, <1>15, <1>17, <1>18, <1>20, <1>21
<1>23. FieldRead(w, 2, c2, f2)
  BY <1>3, <1>6, <1>15, <1>17, <1>18, <1>20, <1>21
<1>24. FieldRead(w, 3, c3, f3)
  BY <1>3, <1>6, <1>15, <1>17, <1>18, <1>20, <1>21
<1>25. FieldRead(w, 4, c4, f4)
  BY <1>3, <1>6, <1>15, <1>17, <1>18, <1>20, <1>21
<1>26. FieldRead(w, 5, c5, f5)
  BY <1>3, <1>6, <1>15, <1>17, <1>18, <1>20, <1>21
<1>27. FieldRead(w, 6, c6, f6)
  BY <1>3, <1>6, <1>15, <1>17, <1>18, <1>20, <1>21
<1>28. FieldRead(w, 7, c7, f7)
  BY <1>3, <1>6, <1>15, <1>17, <1>18, <1>20, <1>21
<1>29. QED
  BY <1>1, <1>20, <1>22, <1>23, <1>24, <1>25, <1>26, <1>27, <1>28
     DEF c1, c2, c3, c4, c5, c6, c7, f1, f2, f3, f4, f5, f6, f7, r

\* The report as it is received: bPosition stays as the constructor leaves it.
ReceivedService(p) ==
    [header |-> p.header, eHeader |-> p.eHeader,
     latitude |-> IF Service!Placed(p) THEN Service!Bits(p.latitude, 24) ELSE 0,
     longitude |-> IF Service!Placed(p) THEN Service!Bits(p.longitude, 24) ELSE 0,
     bPosition |-> FALSE, temperature |-> p.temperature,
     windHeading |-> p.windHeading, windSpeed |-> p.windSpeed, windGust |-> p.windGust,
     humidity |-> p.humidity, barometric |-> p.barometric, battery |-> p.battery]

(* A field of zeros is read as zeros. *)
LEMMA ZerosRead ==
    ASSUME NEW o, o = [k \in 1 .. 6 |-> 0]
    PROVE  /\ Service!Number24(SubSeq(o, 1, 3)) = 0
           /\ Service!Number24(SubSeq(o, 4, 6)) = 0
<1>1. o \in Seq(Int) /\ Len(o) = 6 /\ \A i \in 1 .. 6 : o[i] = 0
  OBVIOUS
<1>2. ASSUME NEW m \in {1, 4}, NEW n, n = m + 2
      PROVE  Service!Number24(SubSeq(o, m, n)) = 0
  <2>1. m \in Int /\ n \in Int /\ n - m + 1 = 3 /\ \A i \in m .. n : o[i] = 0
    BY <1>1, <1>2
  <2>2. \A i \in m .. n : o[i] \in Int
    BY <2>1
  <2>3. \A i \in 1 .. n - m + 1 : SubSeq(o, m, n)[i] = o[m + i - 1]
    BY <2>1, <2>2, SubSeqProperties
  <2>4. /\ SubSeq(o, m, n)[1] = 0 /\ SubSeq(o, m, n)[2] = 0 /\ SubSeq(o, m, n)[3] = 0
    BY <1>2, <2>1, <2>3
  <2> DEFINE t == SubSeq(o, m, n)
  <2>5. t[1] = 0 /\ t[2] = 0 /\ t[3] = 0
    BY <2>4
  <2> HIDE DEF t
  <2>6. Service!Number24(t) = 0
    BY <2>5 DEF Service!Number24
  <2>7. QED
    BY <2>6 DEF t
<1>3. QED
  BY <1>2

(* What is received of a report is the report. *)
LEMMA ServiceOnAir ==
    ASSUME NEW p \in ServiceReports, Defaults(p)
    PROVE  Service!Parsed(Service!Written(p)) = ReceivedService(p)
<1> DEFINE w == Service!Written(p)
<1>1. /\ w.header = p.header
      /\ FieldRead(w, 1, ExtendedOctets(p), "extended" \in p.header)
      /\ FieldRead(w, 2, PositionOctets(p), Service!Placed(p))
      /\ FieldRead(w, 3, TemperatureOctets(p), "temperature" \in p.header)
      /\ FieldRead(w, 4, WindOctets(p), "wind" \in p.header)
      /\ FieldRead(w, 5, HumidityOctets(p), "humidity" \in p.header)
      /\ FieldRead(w, 6, PressureOctets(p), "barometric" \in p.header)
      /\ FieldRead(w, 7, BatteryOctets(p), "battery" \in p.header)
  BY ServiceOctetsRead
<1> HIDE DEF w
<1>2. /\ p.eHeader \in Octets /\ p.temperature \in -128 .. 127
      /\ p.windHeading \in 0 .. 255 /\ p.windSpeed \in Winds /\ p.windGust \in Winds
      /\ p.humidity \in 0 .. 250 /\ p.barometric \in PressureRaws /\ p.battery \in 0 .. 15
      /\ p.latitude \in Positions /\ p.longitude \in Positions
  BY DEF ServiceReports
<1>3. /\ Service!Size[1] = 1 /\ Service!Size[2] = 6 /\ Service!Size[3] = 1 /\ Service!Size[4] = 3
      /\ Service!Size[5] = 1 /\ Service!Size[6] = 2 /\ Service!Size[7] = 1
  BY DEF Service!Size
<1>4. Service!ReadFrom(w, 1)[1] = p.eHeader
  <2>1. CASE "extended" \in p.header
    BY <1>1, <2>1 DEF FieldRead, ExtendedOctets, Service!If
  <2>2. CASE "extended" \notin p.header
    <3>1. Service!ReadFrom(w, 1) = [k \in 1 .. 1 |-> 0]
      BY <1>1, <1>3, <2>2 DEF FieldRead
    <3>2. QED
      BY <2>2, <3>1 DEF Defaults
  <2>3. QED
    BY <2>1, <2>2
<1>5. /\ Service!Number24(SubSeq(Service!ReadFrom(w, 2), 1, 3)) =
            IF Service!Placed(p) THEN Service!Bits(p.latitude, 24) ELSE 0
      /\ Service!Number24(SubSeq(Service!ReadFrom(w, 2), 4, 6)) =
            IF Service!Placed(p) THEN Service!Bits(p.longitude, 24) ELSE 0
  <2>1. CASE Service!Placed(p)
    <3>1. Service!ReadFrom(w, 2) = PlaceOctets(p.latitude, p.longitude)
      BY <1>1, <2>1 DEF FieldRead, PositionOctets, Service!If
    <3>2. p.latitude \in Int /\ p.longitude \in Int
      BY <1>2, PositionsAreNumbers
    <3>3. QED
      BY <2>1, <3>1, <3>2, PositionRead
  <2>2. CASE ~Service!Placed(p)
    <3>1. Service!ReadFrom(w, 2) = [k \in 1 .. 6 |-> 0]
      BY <1>1, <1>3, <2>2 DEF FieldRead
    <3>2. QED
      BY <2>2, <3>1, ZerosRead
  <2>3. QED
    BY <2>1, <2>2
<1>6. Service!Signed(Service!ReadFrom(w, 3)[1], 8) = p.temperature
  <2>1. CASE "temperature" \in p.header
    <3>1. Service!ReadFrom(w, 3)[1] = Service!Bits(p.temperature, 8)
      BY <1>1, <2>1 DEF FieldRead, TemperatureOctets, Service!If
    <3>2. QED
      BY <1>2, <3>1, TemperatureRead
  <2>2. CASE "temperature" \notin p.header
    <3>1. Service!ReadFrom(w, 3) = [k \in 1 .. 1 |-> 0]
      BY <1>1, <1>3, <2>2 DEF FieldRead
    <3>2. Service!ReadFrom(w, 3)[1] = 0
      BY <3>1
    <3>3. 2^(8 - 1) = 128
      OBVIOUS
    <3>4. QED
      BY <2>2, <3>2, <3>3 DEF Defaults, Service!Signed
  <2>3. QED
    BY <2>1, <2>2
<1>7. /\ Service!ReadFrom(w, 4)[1] = p.windHeading
      /\ Service!Wind(Service!ReadFrom(w, 4)[2]) = p.windSpeed
      /\ Service!Wind(Service!ReadFrom(w, 4)[3]) = p.windGust
  <2>1. CASE "wind" \in p.header
    <3>1. Service!ReadFrom(w, 4) =
            <<p.windHeading, Service!WindOctet(p.windSpeed), Service!WindOctet(p.windGust)>>
      BY <1>1, <2>1 DEF FieldRead, WindOctets, Service!If
    <3>2. /\ Service!ReadFrom(w, 4)[1] = p.windHeading
          /\ Service!ReadFrom(w, 4)[2] = Service!WindOctet(p.windSpeed)
          /\ Service!ReadFrom(w, 4)[3] = Service!WindOctet(p.windGust)
      BY <3>1
    <3>3. QED
      BY <1>2, <3>2, WindRead
  <2>2. CASE "wind" \notin p.header
    <3>1. Service!ReadFrom(w, 4) = [k \in 1 .. 3 |-> 0]
      BY <1>1, <1>3, <2>2 DEF FieldRead
    <3>2. /\ Service!ReadFrom(w, 4)[1] = 0 /\ Service!ReadFrom(w, 4)[2] = 0
          /\ Service!ReadFrom(w, 4)[3] = 0
      BY <3>1
    <3>3. Service!Wind(0) = Service!Calm
      <4>1. 0 % 128 = 0 /\ (0 >= 128) = FALSE
        OBVIOUS
      <4>2. Service!Wind(0) = [raw |-> 0 % 128, scaled |-> 0 >= 128]
        BY DEF Service!Wind
      <4>3. QED
        BY <4>1, <4>2, Zenon DEF Service!Calm
    <3>4. QED
      BY <2>2, <3>2, <3>3 DEF Defaults
  <2>3. QED
    BY <2>1, <2>2
<1>8. Service!ReadFrom(w, 5)[1] = p.humidity
  <2>1. CASE "humidity" \in p.header
    BY <1>1, <2>1 DEF FieldRead, HumidityOctets, Service!If
  <2>2. CASE "humidity" \notin p.header
    <3>1. Service!ReadFrom(w, 5) = [k \in 1 .. 1 |-> 0]
      BY <1>1, <1>3, <2>2 DEF FieldRead
    <3>2. QED
      BY <2>2, <3>1 DEF Defaults
  <2>3. QED
    BY <2>1, <2>2
<1>9. Service!Number16(Service!ReadFrom(w, 6)) = p.barometric
  <2>1. CASE "barometric" \in p.header
    <3>1. Service!ReadFrom(w, 6) = Service!Octets16(p.barometric)
      BY <1>1, <2>1 DEF FieldRead, PressureOctets, Service!If
    <3>2. QED
      BY <1>2, <3>1, PressureRead
  <2>2. CASE "barometric" \notin p.header
    <3>1. Service!ReadFrom(w, 6) = [k \in 1 .. 2 |-> 0]
      BY <1>1, <1>3, <2>2 DEF FieldRead
    <3>2. Service!ReadFrom(w, 6)[1] = 0 /\ Service!ReadFrom(w, 6)[2] = 0
      BY <3>1
    <3>3. QED
      BY <2>2, <3>2 DEF Defaults, Service!Number16
  <2>3. QED
    BY <2>1, <2>2
<1>10. Service!ReadFrom(w, 7)[1] = p.battery
  <2>1. CASE "battery" \in p.header
    BY <1>1, <2>1 DEF FieldRead, BatteryOctets, Service!If
  <2>2. CASE "battery" \notin p.header
    <3>1. Service!ReadFrom(w, 7) = [k \in 1 .. 1 |-> 0]
      BY <1>1, <1>3, <2>2 DEF FieldRead
    <3>2. QED
      BY <2>2, <3>1 DEF Defaults
  <2>3. QED
    BY <2>1, <2>2
<1>11. Service!Parsed(w) = ReceivedService(p)
  BY <1>1, <1>4, <1>5, <1>6, <1>7, <1>8, <1>9, <1>10 DEF Service!Parsed, ReceivedService
<1>12. QED
  BY <1>11 DEF w

(* Cut to its bits a coordinate is a position's, as every coordinate that   *)
(* is set.                                                                  *)
LEMMA PositionFits ==
    ASSUME NEW v \in Int
    PROVE  /\ Service!Bits(v, 24) \in Positions /\ 0 \in Positions
           /\ Service!LatitudeRaw(v) \in Positions /\ Service!LongitudeRaw(v) \in Positions
           /\ Service!Bits(Service!Bits(v, 24), 24) = Service!Bits(v, 24)
           /\ Service!Coordinate(Service!Bits(v, 24)) = Service!Coordinate(v)
<1>1. 2^24 \in Nat /\ 2^24 > 0 /\ -(2^23) \in Int /\ -(2^23) <= 0
  OBVIOUS
<1>2. \A k \in Nat : k > 0 => v % k \in 0 .. k - 1 /\ (v % k) % k = v % k
  OBVIOUS
<1>3. \A a \in Int, k \in Nat : a <= 0 /\ k > 0 =>
         0 \in a .. k - 1 /\ \A x \in 0 .. k - 1 : x \in a .. k - 1
  OBVIOUS
<1>4. Service!Bits(v, 24) \in Positions /\ 0 \in Positions
  BY <1>1, <1>2, <1>3 DEF Service!Bits, Positions
<1>5. Service!LatitudeRaw(v) \in Positions /\ Service!LongitudeRaw(v) \in Positions
  <2>1. 2^23 = 8388608 /\ 2^24 = 16777216
    OBVIOUS
  <2>2. /\ Service!LatitudeRaw(v) \in Int /\ Service!LongitudeRaw(v) \in Int
        /\ -8388540 <= Service!LatitudeRaw(v) /\ Service!LatitudeRaw(v) <= 8388540
        /\ -8388540 <= Service!LongitudeRaw(v) /\ Service!LongitudeRaw(v) <= 8388540
    BY DEF Service!LatitudeRaw, Service!LongitudeRaw, Service!Clamp
  <2>3. QED
    BY <2>1, <2>2 DEF Positions
<1>6. Service!Bits(Service!Bits(v, 24), 24) = Service!Bits(v, 24)
  BY <1>1, <1>2 DEF Service!Bits
<1>7. Service!Coordinate(Service!Bits(v, 24)) = Service!Coordinate(v)
  BY <1>6 DEF Service!Coordinate
<1>8. QED
  BY <1>4, <1>5, <1>6, <1>7

(* What is received is a report again. *)
LEMMA ReceivedIsReport ==
    ASSUME NEW p \in ServiceReports, Defaults(p)
    PROVE  ReceivedService(p) \in ServiceReports /\ Defaults(ReceivedService(p))
<1> DEFINE u == IF Service!Placed(p) THEN Service!Bits(p.latitude, 24) ELSE 0
           v == IF Service!Placed(p) THEN Service!Bits(p.longitude, 24) ELSE 0
<1>1. u \in Positions /\ v \in Positions
  <2>1. p.latitude \in Int /\ p.longitude \in Int
    BY PositionsAreNumbers DEF ServiceReports
  <2>2. QED
    BY <2>1, PositionFits
<1>2. ReceivedService(p) =
         [header |-> p.header, eHeader |-> p.eHeader, latitude |-> u, longitude |-> v,
          bPosition |-> FALSE, temperature |-> p.temperature,
          windHeading |-> p.windHeading, windSpeed |-> p.windSpeed, windGust |-> p.windGust,
          humidity |-> p.humidity, barometric |-> p.barometric, battery |-> p.battery]
  BY DEF ReceivedService
<1> HIDE DEF u, v
<1>3. ReceivedService(p) \in ServiceReports
  BY <1>1, <1>2 DEF ServiceReports
<1>4. Defaults(ReceivedService(p))
  BY <1>2 DEF Defaults
<1>5. QED
  BY <1>3, <1>4

(* What the getters return of a received report, and its octets.            *)
LEMMA ServiceReadBack ==
    ASSUME NEW p \in ServiceReports, Defaults(p), NEW q, q = ReceivedService(p)
    PROVE  /\ q.header = p.header /\ q.eHeader = p.eHeader
           /\ \A x \in {"temperature", "windHeading", "windSpeed", "windGust", "humidity",
                        "barometric", "battery"} : Service!Read(q)[x] = Service!Read(p)[x]
           /\ Service!Placed(p) =>
                 Service!Read(q)["latitude"] = Service!Read(p)["latitude"]
                 /\ Service!Read(q)["longitude"] = Service!Read(p)["longitude"]
           /\ Service!HasPlace(p.header) \/ ~p.bPosition => Service!Written(q) = Service!Written(p)
           /\ ~Service!HasPlace(p.header) => Service!Written(q) =
                 [header |-> p.header, octets |-> <<>>]
<1>1. p.latitude \in Int /\ p.longitude \in Int /\ p.bPosition \in BOOLEAN
      /\ p.header \subseteq Service!Flags
  BY PositionsAreNumbers DEF ServiceReports
<1>2. /\ q.header = p.header /\ q.eHeader = p.eHeader /\ q.bPosition = FALSE
      /\ q.temperature = p.temperature /\ q.windHeading = p.windHeading
      /\ q.windSpeed = p.windSpeed /\ q.windGust = p.windGust /\ q.humidity = p.humidity
      /\ q.barometric = p.barometric /\ q.battery = p.battery
      /\ Service!Placed(p) => q.latitude = Service!Bits(p.latitude, 24)
                              /\ q.longitude = Service!Bits(p.longitude, 24)
  BY DEF ReceivedService
<1>3. \A x \in {"temperature", "windHeading", "windSpeed", "windGust", "humidity",
                "barometric", "battery"} : Service!Read(q)[x] = Service!Read(p)[x]
  BY <1>2 DEF Service!Read
<1>4. Service!Placed(p) =>
         Service!Read(q)["latitude"] = Service!Read(p)["latitude"]
         /\ Service!Read(q)["longitude"] = Service!Read(p)["longitude"]
  <2> HAVE Service!Placed(p)
  <2>1. /\ Service!Coordinate(q.latitude) = Service!Coordinate(p.latitude)
        /\ Service!Coordinate(q.longitude) = Service!Coordinate(p.longitude)
    BY <1>1, <1>2, PositionFits
  <2>2. QED
    BY <2>1 DEF Service!Read
<1>5. /\ ExtendedOctets(q) = ExtendedOctets(p) /\ TemperatureOctets(q) = TemperatureOctets(p)
      /\ WindOctets(q) = WindOctets(p) /\ HumidityOctets(q) = HumidityOctets(p)
      /\ PressureOctets(q) = PressureOctets(p) /\ BatteryOctets(q) = BatteryOctets(p)
  BY <1>2 DEF ExtendedOctets, TemperatureOctets, WindOctets, HumidityOctets, PressureOctets,
              BatteryOctets
<1>6. \A x \in {p, q} : Service!Written(x) =
         [header |-> x.header,
          octets |-> ExtendedOctets(x) \o PositionOctets(x) \o TemperatureOctets(x)
                     \o WindOctets(x) \o HumidityOctets(x) \o PressureOctets(x)
                     \o BatteryOctets(x)]
  BY DEF Service!Written, ExtendedOctets, PositionOctets, PlaceOctets, TemperatureOctets,
         WindOctets, HumidityOctets, PressureOctets, BatteryOctets
<1>7. Service!HasPlace(p.header) \/ ~p.bPosition => Service!Written(q) = Service!Written(p)
  <2> HAVE Service!HasPlace(p.header) \/ ~p.bPosition
  <2>1. PositionOctets(q) = PositionOctets(p)
    <3>1. CASE Service!HasPlace(p.header)
      <4>1. Service!Placed(p) /\ Service!Placed(q)
        BY <1>2, <3>1 DEF Service!Placed
      <4>2. PlaceOctets(q.latitude, q.longitude) = PlaceOctets(p.latitude, p.longitude)
        BY <1>1, <1>2, <4>1, PositionFits DEF PlaceOctets
      <4>3. QED
        BY <4>1, <4>2 DEF PositionOctets, Service!If
    <3>2. CASE ~Service!HasPlace(p.header)
      <4>1. ~Service!Placed(p) /\ ~Service!Placed(q)
        BY <1>2, <3>2 DEF Service!Placed
      <4>2. QED
        BY <4>1 DEF PositionOctets, Service!If
    <3>3. QED
      BY <3>1, <3>2
  <2>2. QED
    BY <1>2, <1>5, <1>6, <2>1
<1>8. ~Service!HasPlace(p.header) => Service!Written(q) = [header |-> p.header, octets |-> <<>>]
  <2> HAVE ~Service!HasPlace(p.header)
  <2>1. ~Service!Placed(q)
    BY <1>2 DEF Service!Placed
  <2>2. /\ "extended" \notin p.header /\ "temperature" \notin p.header /\ "wind" \notin p.header
        /\ "humidity" \notin p.header /\ "barometric" \notin p.header
        /\ "battery" \notin p.header
    BY DEF Service!HasPlace, Service!PlacedFlags, Service!Flags
  <2>3. /\ ExtendedOctets(q) = <<>> /\ PositionOctets(q) = <<>> /\ TemperatureOctets(q) = <<>>
        /\ WindOctets(q) = <<>> /\ HumidityOctets(q) = <<>> /\ PressureOctets(q) = <<>>
        /\ BatteryOctets(q) = <<>>
    BY <1>2, <2>1, <2>2 DEF ExtendedOctets, PositionOctets, TemperatureOctets, WindOctets,
       HumidityOctets, PressureOctets, BatteryOctets, Service!If
  <2>4. <<>> \o <<>> = <<>>
    OBVIOUS
  <2>5. QED
    BY <1>2, <1>6, <2>3, <2>4
<1>9. QED
  BY <1>2, <1>3, <1>4, <1>7, <1>8

\* What the getters return.
ServiceValues ==
    {"latitude", "longitude", "temperature", "windHeading", "windSpeed", "windGust",
     "humidity", "barometric", "battery"}
Unsent(p) == IF Service!Placed(p) THEN {} ELSE {"latitude", "longitude"}

(* The receiver reads the values of the sender, and what it writes again is *)
(* what it has received.                                                    *)
LEMMA ServiceIsRight ==
    ASSUME ServiceInv
    PROVE  Service!TypeOK /\ Service!ReceivedIsSent /\ Service!WrittenAgain
<1> DEFINE w == Service!Written(service)
           q == Service!Parsed(w)
<1>1. service \in ServiceReports /\ Defaults(service)
  BY DEF ServiceInv
<1>2. q = ReceivedService(service)
  BY <1>1, ServiceOnAir
<1>3. w.header = service.header /\ Service!Reads(w)[8] = Len(w.octets)
  BY <1>1, ServiceOctetsRead
<1> HIDE DEF q, w
<1>4. Service!TypeOK
  <2>1. /\ service.header \subseteq Service!Flags /\ service.temperature \in -128 .. 127
        /\ service.windSpeed \in Winds /\ service.windGust \in Winds
        /\ service.windHeading \in 0 .. 255 /\ service.humidity \in 0 .. 250
        /\ service.barometric \in PressureRaws /\ service.battery \in 0 .. 15
        /\ service.latitude \in Positions /\ service.longitude \in Positions
    BY <1>1 DEF ServiceReports
  <2>2. {service.latitude, service.longitude} \subseteq Positions
    BY <2>1
  <2>3. {service.latitude, service.longitude} \subseteq -(2^23) .. (2^24 - 1)
    BY <2>2 DEF Positions
  <2>4. service.barometric \in 0 .. Service!HighestPressure
    BY <2>1 DEF PressureRaws
  <2>5. /\ service.windSpeed \in [raw : 0 .. 127, scaled : BOOLEAN]
        /\ service.windGust \in [raw : 0 .. 127, scaled : BOOLEAN]
    BY <2>1 DEF Winds
  <2>6. /\ service.header \subseteq Service!Flags /\ service.temperature \in -128 .. 127
        /\ service.windHeading \in 0 .. 255 /\ service.humidity \in 0 .. 250
        /\ service.battery \in 0 .. 15
    BY <2>1
  <2>7. QED
    BY <2>3, <2>4, <2>5, <2>6, Zenon DEF Service!TypeOK
<1>5. Service!ReceivedIsSent
  <2> DEFINE sent == Service!Read(service)
  <2>1. DOMAIN sent = ServiceValues
    BY DEF Service!Read, ServiceValues
  <2>2. \A x \in ServiceValues \ Unsent(service) : Service!Read(q)[x] = sent[x]
    BY <1>1, <1>2, ServiceReadBack DEF Unsent, ServiceValues
  <2>3. q.header = service.header /\ q.eHeader = service.eHeader
    BY <1>1, <1>2, ServiceReadBack
  <2> HIDE DEF sent
  <2>4. \A x \in DOMAIN sent \ Unsent(service) : Service!Read(q)[x] = sent[x]
    BY <2>1, <2>2
  <2>5. QED
    BY <1>3, <2>3, <2>4 DEF Service!ReceivedIsSent, sent, q, w, Unsent
<1>6. Service!WrittenAgain
  <2>1. Service!Received = q /\ w = Service!Written(service)
    BY DEF Service!Received, q, w
  <2>2. service.bPosition \in BOOLEAN
    BY <1>1 DEF ServiceReports
  <2>3. CASE service.bPosition /\ ~Service!HasPlace(service.header)
    <3>1. Service!Written(q) = [header |-> service.header, octets |-> <<>>]
      BY <1>1, <1>2, <2>3, ServiceReadBack
    <3>2. \A o : [w EXCEPT !.octets = o] = [header |-> w.header, octets |-> o]
      BY DEF w, Service!Written
    <3>3. QED
      BY <1>3, <2>1, <2>3, <3>1, <3>2 DEF Service!WrittenAgain
  <2>4. CASE ~(service.bPosition /\ ~Service!HasPlace(service.header))
    <3>1. Service!Written(q) = w
      BY <1>1, <1>2, <2>1, <2>2, <2>4, ServiceReadBack
    <3>2. QED
      BY <2>1, <2>4, <3>1 DEF Service!WrittenAgain
  <2>5. QED
    BY <2>3, <2>4
<1>7. QED
  BY <1>4, <1>5, <1>6

(* What a setter of wind stores fits the octet, and is less than a km/h     *)
(* below what was set, or off by its stale scale.                           *)
LEMMA WindStored ==
    ASSUME NEW field \in Winds, NEW v \in Int
    PROVE  LET stored == Service!StoredWind(field, v)
               c == Service!WindInRange(v)
           IN  /\ stored \in Winds /\ c \in Int
               /\ IF stored.scaled /\ c <= 127
                  THEN Service!WindValue(stored) = 5 * c
                  ELSE c - Service!WindValue(stored) \in 0 .. 4
<1> DEFINE c == Service!WindInRange(v)
           stored == Service!StoredWind(field, v)
<1>1. c \in 0 .. 635
  BY DEF Service!WindInRange, Service!Clamp, Service!Strongest
<1>2. c \div 5 \in 0 .. 127 /\ c - 5 * (c \div 5) \in 0 .. 4
  BY <1>1
<1>3. CASE c > 127
  <2>1. stored = [raw |-> c \div 5, scaled |-> TRUE]
    BY <1>3 DEF Service!StoredWind
  <2>2. \A b \in BOOLEAN :
           LET s == [raw |-> c \div 5, scaled |-> b]
           IN  s \in Winds /\ s.raw = c \div 5 /\ s.scaled = b
    BY <1>2 DEF Winds
  <2>3. stored \in Winds /\ stored.raw = c \div 5 /\ stored.scaled = TRUE
    BY <2>1, <2>2
  <2> HIDE DEF c, stored
  <2>4. Service!WindValue(stored) = 5 * (c \div 5)
    BY <2>3 DEF Service!WindValue
  <2>5. ~(c <= 127)
    BY <1>1, <1>3
  <2>6. QED
    BY <1>1, <1>2, <2>3, <2>4, <2>5 DEF c, stored
<1>4. CASE ~(c > 127)
  <2>1. stored = [field EXCEPT !.raw = c] /\ c \in 0 .. 127
    BY <1>1, <1>4 DEF Service!StoredWind
  <2>2. stored \in Winds /\ stored.raw = c /\ stored.scaled = field.scaled
    BY <2>1 DEF Winds
  <2>3. field.scaled \in BOOLEAN
    BY DEF Winds
  <2> HIDE DEF c, stored
  <2>4. Service!WindValue(stored) = IF stored.scaled THEN 5 * c ELSE c
    BY <2>2 DEF Service!WindValue
  <2>5. QED
    BY <2>1, <2>2, <2>3, <2>4 DEF c, stored
<1>5. QED
  BY <1>3, <1>4

LEMMA ServiceInit ==
    ASSUME Service!Init
    PROVE  ServiceInv
<1>1. service = Service!New /\ given = [windSpeed |-> 0, windGust |-> 0]
  BY DEF Service!Init
<1>2. \A b \in BOOLEAN : [raw |-> 0, scaled |-> b] \in Winds
  BY DEF Winds
<1>3. Service!Calm \in Winds /\ Service!Calm.raw = 0 /\ Service!Calm.scaled = FALSE
  BY <1>2 DEF Service!Calm
<1>4. 0 \in Positions /\ 0 \in Octets /\ 0 \in PressureRaws
  <2>1. 0 \in Int
    OBVIOUS
  <2>2. QED
    BY <2>1, PositionFits DEF Octets, PressureRaws, Service!HighestPressure
<1>5. \A b \in BOOLEAN :
        [header |-> {}, eHeader |-> 0, latitude |-> 0, longitude |-> 0, bPosition |-> b,
         temperature |-> 0, windHeading |-> 0, windSpeed |-> Service!Calm,
         windGust |-> Service!Calm, humidity |-> 0, barometric |-> 0, battery |-> 0]
          \in ServiceReports
  BY <1>3, <1>4 DEF ServiceReports
<1>6. service \in ServiceReports
  BY <1>1, <1>5 DEF Service!New
<1>7. Defaults(service)
  BY <1>1 DEF Service!New, Defaults
<1>8. given \in [windSpeed : Int, windGust : Int]
  BY <1>1
<1>9. Service!WrongOnlyByScale
  <2>1. \A x \in {"windSpeed", "windGust"} : service[x] = Service!Calm /\ given[x] = 0
    BY <1>1 DEF Service!New
  <2>2. Service!WindValue(Service!Calm) = 0 /\ Service!WindInRange(0) = 0
    BY <1>3 DEF Service!WindValue, Service!WindInRange, Service!Clamp, Service!Strongest
  <2>3. QED
    BY <1>3, <2>1, <2>2 DEF Service!WrongOnlyByScale, Service!Stale
<1>10. QED
  BY <1>6, <1>7, <1>8, <1>9 DEF ServiceInv

\* The flag that tells of a value.
FlagOf(x) == CASE x = "temperature" -> "temperature"
               [] x \in {"windHeading", "windSpeed", "windGust"} -> "wind"
               [] x = "humidity" -> "humidity" [] x = "barometric" -> "barometric"
               [] x = "battery" -> "battery"
FlaggedValues == ServiceValues \ {"latitude", "longitude"}

\* All values but one stay, and all the flags but the gateway's.
OthersKept(x) ==
    /\ \A y \in ServiceValues \ {x} : service'[y] = service[y]
    /\ service.header \ service'.header \subseteq {"gateway"}
    /\ service.bPosition => service'.bPosition

(* A setter of a value with a flag.                                         *)
LEMMA FlaggedSetter ==
    ASSUME ServiceInv, NEW x \in FlaggedValues, NEW p \in ServiceReports,
           p.header = service.header, p.eHeader = service.eHeader,
           p.bPosition = service.bPosition,
           \A y \in ServiceValues \ {x} : p[y] = service[y],
           Service!Set(FlagOf(x), p)
    PROVE  /\ service' \in ServiceReports /\ Defaults(service') /\ OthersKept(x)
           /\ service'[x] = p[x]
<1> DEFINE f == FlagOf(x)
           h == service.header \cup {f}
<1>1. service \in ServiceReports /\ Defaults(service) /\ service.header \subseteq Service!Flags
  BY DEF ServiceInv, ServiceReports
<1>2. f \in Service!Flags
  BY DEF FlaggedValues, ServiceValues, FlagOf, Service!Flags
<1>3. h \in SUBSET Service!Flags /\ service.header \subseteq h /\ f \in h
  BY <1>1, <1>2
<1>4. service' = [p EXCEPT !.header = h]
  BY DEF Service!Set
<1> HIDE DEF f, h
<1>5. /\ service' \in ServiceReports /\ service'.header = h
      /\ service'.eHeader = p.eHeader /\ service'.bPosition = p.bPosition
      /\ service'.latitude = p.latitude /\ service'.longitude = p.longitude
      /\ service'.temperature = p.temperature /\ service'.windHeading = p.windHeading
      /\ service'.windSpeed = p.windSpeed /\ service'.windGust = p.windGust
      /\ service'.humidity = p.humidity /\ service'.barometric = p.barometric
      /\ service'.battery = p.battery
  BY <1>3, <1>4 DEF ServiceReports
<1>6. \A y \in ServiceValues : service'[y] = p[y]
  BY <1>5 DEF ServiceValues
<1>7. Defaults(service')
  <2>1. ASSUME NEW y \in FlaggedValues, FlagOf(y) \notin h
        PROVE  y # x
    BY <1>3, <2>1 DEF f
  <2>2. "temperature" \notin h => service'.temperature = 0
    <3>1. "temperature" \in FlaggedValues /\ FlagOf("temperature") = "temperature"
      BY DEF FlaggedValues, ServiceValues, FlagOf
    <3>2. QED
      BY <1>1, <1>3, <1>5, <2>1, <3>1 DEF Defaults, FlaggedValues
  <2>3. "wind" \notin h => /\ service'.windHeading = 0 /\ service'.windSpeed = Service!Calm
                           /\ service'.windGust = Service!Calm
    <3>1. /\ {"windHeading", "windSpeed", "windGust"} \subseteq FlaggedValues
          /\ FlagOf("windHeading") = "wind" /\ FlagOf("windSpeed") = "wind"
          /\ FlagOf("windGust") = "wind"
      BY DEF FlaggedValues, ServiceValues, FlagOf
    <3>2. QED
      BY <1>1, <1>3, <1>5, <2>1, <3>1 DEF Defaults, FlaggedValues
  <2>4. "humidity" \notin h => service'.humidity = 0
    <3>1. "humidity" \in FlaggedValues /\ FlagOf("humidity") = "humidity"
      BY DEF FlaggedValues, ServiceValues, FlagOf
    <3>2. QED
      BY <1>1, <1>3, <1>5, <2>1, <3>1 DEF Defaults, FlaggedValues
  <2>5. "barometric" \notin h => service'.barometric = 0
    <3>1. "barometric" \in FlaggedValues /\ FlagOf("barometric") = "barometric"
      BY DEF FlaggedValues, ServiceValues, FlagOf
    <3>2. QED
      BY <1>1, <1>3, <1>5, <2>1, <3>1 DEF Defaults, FlaggedValues
  <2>6. "battery" \notin h => service'.battery = 0
    <3>1. "battery" \in FlaggedValues /\ FlagOf("battery") = "battery"
      BY DEF FlaggedValues, ServiceValues, FlagOf
    <3>2. QED
      BY <1>1, <1>3, <1>5, <2>1, <3>1 DEF Defaults, FlaggedValues
  <2>7. "extended" \notin h => service'.eHeader = 0
    BY <1>1, <1>3, <1>5 DEF Defaults
  <2>8. QED
    BY <1>5, <2>2, <2>3, <2>4, <2>5, <2>6, <2>7 DEF Defaults
<1>8. OthersKept(x)
  BY <1>3, <1>5, <1>6 DEF OthersKept
<1>9. QED
  BY <1>5, <1>6, <1>7, <1>8 DEF FlaggedValues

(* Wind and gust are wrong by a stale scale alone.                          *)
LEMMA WindSetter ==
    ASSUME ServiceInv,
           \A x \in {"windSpeed", "windGust"} :
              \/ service'[x] = service[x] /\ given'[x] = given[x]
              \/ \E v \in Int : service'[x] = Service!StoredWind(service[x], v) /\ given'[x] = v
    PROVE  Service!WrongOnlyByScale'
<1>1. ASSUME NEW x \in {"windSpeed", "windGust"}
      PROVE  IF service'[x].scaled /\ Service!WindInRange(given'[x]) <= 127
             THEN Service!WindValue(service'[x]) = 5 * Service!WindInRange(given'[x])
             ELSE Service!WindInRange(given'[x]) - Service!WindValue(service'[x]) \in 0 .. 4
  <2>1. CASE service'[x] = service[x] /\ given'[x] = given[x]
    BY <2>1 DEF ServiceInv, Service!WrongOnlyByScale, Service!Stale
  <2>2. CASE \E v \in Int : service'[x] = Service!StoredWind(service[x], v) /\ given'[x] = v
    <3>1. PICK v \in Int : service'[x] = Service!StoredWind(service[x], v) /\ given'[x] = v
      BY <2>2
    <3>2. service[x] \in Winds
      BY DEF ServiceInv, ServiceReports
    <3>3. QED
      BY <3>1, <3>2, WindStored, ZenonT(60)
  <2>3. QED
    BY <2>1, <2>2
<1>2. QED
  BY <1>1 DEF Service!WrongOnlyByScale, Service!Stale

\* A report with a new place of its own.
IsMoved(p, x, b) ==
    /\ p \in ServiceReports /\ p.header = service.header
    /\ p.bPosition = b /\ p.eHeader = service.eHeader
    /\ \A y \in ServiceValues \ {x} : p[y] = service[y]

LEMMA MovedReports ==
    ASSUME service \in ServiceReports, NEW c \in Positions, NEW b \in BOOLEAN, NEW p
    PROVE  /\ p = [service EXCEPT !.latitude = c, !.bPosition = b] => IsMoved(p, "latitude", b)
           /\ p = [service EXCEPT !.longitude = c, !.bPosition = b] => IsMoved(p, "longitude", b)
<1> DEFINE H == SUBSET Service!Flags
           E == Octets
           B == BOOLEAN
           T == -128 .. 127
           D == 0 .. 255
           U == 0 .. 250
           C == 0 .. 15
           Reports12 == [header : H, eHeader : E, latitude : Positions, longitude : Positions,
                         bPosition : B, temperature : T, windHeading : D, windSpeed : Winds,
                         windGust : Winds, humidity : U, barometric : PressureRaws, battery : C]
<1>1. b \in B /\ service \in Reports12 /\ ServiceReports = Reports12
  BY DEF ServiceReports
<1> HIDE DEF H, E, B, T, D, U, C
<1>2. ASSUME p = [service EXCEPT !.latitude = c, !.bPosition = b]
      PROVE  IsMoved(p, "latitude", b)
  <2>1. /\ p.header = service.header /\ p.bPosition = b /\ p.eHeader = service.eHeader
        /\ p.longitude = service.longitude /\ p.temperature = service.temperature
        /\ p.windHeading = service.windHeading /\ p.windSpeed = service.windSpeed
        /\ p.windGust = service.windGust /\ p.humidity = service.humidity
        /\ p.barometric = service.barometric /\ p.battery = service.battery
    BY <1>1, <1>2
  <2>2. p \in Reports12
    BY <1>1, <1>2
  <2> HIDE DEF Reports12
  <2>3. QED
    BY <1>1, <2>1, <2>2 DEF IsMoved, ServiceValues
<1>3. ASSUME p = [service EXCEPT !.longitude = c, !.bPosition = b]
      PROVE  IsMoved(p, "longitude", b)
  <2>1. /\ p.header = service.header /\ p.bPosition = b /\ p.eHeader = service.eHeader
        /\ p.latitude = service.latitude /\ p.temperature = service.temperature
        /\ p.windHeading = service.windHeading /\ p.windSpeed = service.windSpeed
        /\ p.windGust = service.windGust /\ p.humidity = service.humidity
        /\ p.barometric = service.barometric /\ p.battery = service.battery
    BY <1>1, <1>3
  <2>2. p \in Reports12
    BY <1>1, <1>3
  <2> HIDE DEF Reports12
  <2>3. QED
    BY <1>1, <2>1, <2>2 DEF IsMoved, ServiceValues
<1>4. QED
  BY <1>2, <1>3

\* The same of a report that is marked as placed.
IsPlaced(p, x) ==
    /\ p \in ServiceReports /\ p.header = service.header
    /\ p.bPosition /\ p.eHeader = service.eHeader
    /\ \A y \in ServiceValues \ {x} : p[y] = service[y]

LEMMA PlaceSet ==
    ASSUME service \in ServiceReports, NEW c \in Positions
    PROVE  /\ service' = [service EXCEPT !.latitude = c, !.bPosition = TRUE] =>
                 IsPlaced(service', "latitude")
           /\ service' = [service EXCEPT !.longitude = c, !.bPosition = TRUE] =>
                 IsPlaced(service', "longitude")
<1>1. PICK b \in BOOLEAN : b = TRUE
  OBVIOUS
<1>2. /\ service' = [service EXCEPT !.latitude = c, !.bPosition = b] =>
            IsMoved(service', "latitude", b)
      /\ service' = [service EXCEPT !.longitude = c, !.bPosition = b] =>
            IsMoved(service', "longitude", b)
  BY MovedReports
<1>3. b /\ \A x : IsMoved(service', x, b) => IsPlaced(service', x)
  BY <1>1, Zenon DEF IsMoved, IsPlaced
<1>4. QED
  BY <1>1, <1>2, <1>3, Zenon

LEMMA LatitudeSet ==
    ASSUME service \in ServiceReports, NEW v \in Int, Service!Latitude(v)
    PROVE  IsPlaced(service', "latitude") /\ given' = given
<1>1. Service!LatitudeRaw(v) \in Positions
  BY PositionFits
<1>2. /\ service' = [service EXCEPT !.latitude = Service!LatitudeRaw(v), !.bPosition = TRUE]
      /\ given' = given
  BY Zenon DEF Service!Latitude
<1>3. QED
  BY <1>1, <1>2, PlaceSet, Zenon

LEMMA LongitudeSet ==
    ASSUME service \in ServiceReports, NEW v \in Int, Service!Longitude(v)
    PROVE  IsPlaced(service', "longitude") /\ given' = given
<1>1. Service!LongitudeRaw(v) \in Positions
  BY PositionFits
<1>2. /\ service' = [service EXCEPT !.longitude = Service!LongitudeRaw(v), !.bPosition = TRUE]
      /\ given' = given
  BY Zenon DEF Service!Longitude
<1>3. QED
  BY <1>1, <1>2, PlaceSet, Zenon

LEMMA PlaceKept ==
    ASSUME ServiceInv, NEW x \in {"latitude", "longitude"}, IsPlaced(service', x),
           given' = given
    PROVE  ServiceInv' /\ OthersKept(x)
<1>1. /\ service' \in ServiceReports /\ service'.header = service.header
      /\ service'.bPosition /\ service'.eHeader = service.eHeader
      /\ \A y \in ServiceValues \ {x} : service'[y] = service[y]
  BY Zenon DEF IsPlaced
<1>2. /\ service' \in ServiceReports /\ service'.header = service.header
      /\ service'.eHeader = service.eHeader
      /\ \A y \in FlaggedValues : service'[y] = service[y]
  BY <1>1 DEF FlaggedValues
<1>3. Defaults(service')
  BY <1>2 DEF ServiceInv, Defaults, FlaggedValues, ServiceValues
<1>4. OthersKept(x)
  BY <1>1 DEF OthersKept
<1>5. Service!WrongOnlyByScale'
  BY <1>2, WindSetter DEF FlaggedValues, ServiceValues
<1>6. QED
  BY <1>2, <1>3, <1>4, <1>5 DEF ServiceInv

\* The setters, each with the value it is about.
ServiceSetters ==
    \/ \E v \in Latitudes : Service!Latitude(v)
    \/ \E v \in Longitudes : Service!Longitude(v)
    \/ \E v \in BOOLEAN : Service!SetGateway(v)
    \/ \E v \in Temperatures : Service!Temperature(v)
    \/ \E v \in Headings : Service!WindHeading(v)
    \/ \E v \in WindSpeeds : Service!WindSpeed(v)
    \/ \E v \in WindSpeeds : Service!WindGust(v)
    \/ \E v \in Humidities : Service!Humidity(v)
    \/ \E v \in Pressures : Service!Barometric(v)
    \/ \E v \in Batteries : Service!Battery(v)

(* A setter changes one value, and the report stays one.                    *)
LEMMA ServiceSet ==
    ASSUME ServiceInv, ServiceSetters
    PROVE  ServiceInv' /\ \E x \in ServiceValues : OthersKept(x)
<1> USE InputsAreLegal DEF Service!InputsAssumption
<1>1. /\ service \in ServiceReports /\ Defaults(service)
      /\ service.header \subseteq Service!Flags
      /\ given \in [windSpeed : Int, windGust : Int]
      /\ service.windSpeed \in Winds /\ service.windGust \in Winds
  BY DEF ServiceInv, ServiceReports
<1>2. ASSUME NEW x \in FlaggedValues \ {"windSpeed", "windGust"}, NEW p \in ServiceReports,
             p.header = service.header, p.eHeader = service.eHeader,
             p.bPosition = service.bPosition,
             \A y \in ServiceValues \ {x} : p[y] = service[y],
             Service!Set(FlagOf(x), p), given' = given
      PROVE  ServiceInv' /\ \E y \in ServiceValues : OthersKept(y)
  <2>1. service' \in ServiceReports /\ Defaults(service') /\ OthersKept(x)
    BY <1>2, FlaggedSetter
  <2>2. Service!WrongOnlyByScale'
    BY <1>2, <2>1, WindSetter DEF OthersKept, ServiceValues
  <2>3. QED
    BY <1>1, <1>2, <2>1, <2>2 DEF ServiceInv, FlaggedValues
<1>3. ASSUME service' \in ServiceReports, Defaults(service'), given' = given,
             NEW x \in ServiceValues \ {"windSpeed", "windGust"}, OthersKept(x)
      PROVE  ServiceInv' /\ \E y \in ServiceValues : OthersKept(y)
  <2>1. Service!WrongOnlyByScale'
    BY <1>3, WindSetter DEF OthersKept, ServiceValues
  <2>2. QED
    BY <1>1, <1>3, <2>1 DEF ServiceInv
<1>4. CASE \E v \in Latitudes : Service!Latitude(v)
  <2>1. PICK v \in Latitudes : Service!Latitude(v)
    BY <1>4
  <2>2. v \in Int /\ service \in ServiceReports
    BY <1>1
  <2>3. IsPlaced(service', "latitude") /\ given' = given
    BY <2>1, <2>2, LatitudeSet
  <2>4. ServiceInv' /\ OthersKept("latitude")
    BY <2>3, PlaceKept
  <2>5. QED
    BY <2>4 DEF ServiceValues
<1>5. CASE \E v \in Longitudes : Service!Longitude(v)
  <2>1. PICK v \in Longitudes : Service!Longitude(v)
    BY <1>5
  <2>2. v \in Int /\ service \in ServiceReports
    BY <1>1
  <2>3. IsPlaced(service', "longitude") /\ given' = given
    BY <2>1, <2>2, LongitudeSet
  <2>4. ServiceInv' /\ OthersKept("longitude")
    BY <2>3, PlaceKept
  <2>5. QED
    BY <2>4 DEF ServiceValues
<1>6. CASE \E v \in BOOLEAN : Service!SetGateway(v)
  <2>1. PICK h \in {service.header \cup {"gateway"}, service.header \ {"gateway"}} :
           service' = [service EXCEPT !.header = h] /\ given' = given
    <3>1. PICK v \in BOOLEAN : Service!SetGateway(v)
      BY <1>6
    <3>2. given' = given
      BY <3>1 DEF Service!SetGateway
    <3>3. CASE v
      <4>1. service' = [service EXCEPT !.header = service.header \cup {"gateway"}]
        BY <3>1, <3>3 DEF Service!SetGateway
      <4>2. QED
        BY <3>2, <4>1
    <3>4. CASE ~v
      <4>1. service' = [service EXCEPT !.header = service.header \ {"gateway"}]
        BY <3>1, <3>4 DEF Service!SetGateway
      <4>2. QED
        BY <3>2, <4>1
    <3>5. QED
      BY <3>3, <3>4
  <2>2. h \in SUBSET Service!Flags /\ service.header \ h \subseteq {"gateway"}
    BY <1>1, <2>1 DEF Service!Flags
  <2>3. \A y \in Service!Flags \ {"gateway"} : y \in h <=> y \in service.header
    BY <2>1
  <2>4. /\ service' \in ServiceReports /\ service'.header = h
        /\ service'.bPosition = service.bPosition /\ service'.eHeader = service.eHeader
        /\ \A y \in ServiceValues : service'[y] = service[y]
    BY <1>1, <2>1, <2>2, SMTT(40) DEF ServiceReports, ServiceValues
  <2>5. Defaults(service')
    BY <1>1, <2>3, <2>4 DEF Defaults, ServiceValues, Service!Flags
  <2>6. OthersKept("temperature")
    BY <2>2, <2>4 DEF OthersKept
  <2>7. "temperature" \in ServiceValues \ {"windSpeed", "windGust"}
    BY DEF ServiceValues
  <2>8. QED
    BY <1>3, <2>1, <2>4, <2>5, <2>6, <2>7
<1>7. CASE \E v \in Temperatures : Service!Temperature(v)
  <2>1. PICK v \in Temperatures : Service!Temperature(v)
    BY <1>7
  <2> DEFINE c == Service!Clamp(v, -128, 127)
             p == [service EXCEPT !.temperature = c]
  <2>2. c \in -128 .. 127
    BY DEF Service!Clamp
  <2>3. Service!Set("temperature", p) /\ given' = given
    BY <2>1 DEF Service!Temperature
  <2> HIDE DEF c
  <2>4. /\ p \in ServiceReports /\ p.header = service.header /\ p.eHeader = service.eHeader
        /\ p.bPosition = service.bPosition
        /\ \A y \in ServiceValues \ {"temperature"} : p[y] = service[y]
    BY <1>1, <2>2, SMTT(40) DEF ServiceReports, ServiceValues
  <2>5. "temperature" \in FlaggedValues \ {"windSpeed", "windGust"} /\ FlagOf("temperature") = "temperature"
    BY DEF FlaggedValues, ServiceValues, FlagOf
  <2> HIDE DEF p
  <2>6. QED
    BY <1>2, <2>3, <2>4, <2>5
<1>8. CASE \E v \in Headings : Service!WindHeading(v)
  <2>1. PICK v \in Headings : Service!WindHeading(v)
    BY <1>8
  <2> DEFINE c == Service!TrackRaw(v)
             p == [service EXCEPT !.windHeading = c]
  <2>2. c \in 0 .. 255
    BY SMTT(40) DEF Service!TrackRaw, Service!Clamp
  <2>3. Service!Set("wind", p) /\ given' = given
    BY <2>1 DEF Service!WindHeading
  <2> HIDE DEF c
  <2>4. /\ p \in ServiceReports /\ p.header = service.header /\ p.eHeader = service.eHeader
        /\ p.bPosition = service.bPosition
        /\ \A y \in ServiceValues \ {"windHeading"} : p[y] = service[y]
    BY <1>1, <2>2, SMTT(40) DEF ServiceReports, ServiceValues
  <2>5. "windHeading" \in FlaggedValues \ {"windSpeed", "windGust"} /\ FlagOf("windHeading") = "wind"
    BY DEF FlaggedValues, ServiceValues, FlagOf
  <2> HIDE DEF p
  <2>6. QED
    BY <1>2, <2>3, <2>4, <2>5
<1>9. CASE \E v \in Humidities : Service!Humidity(v)
  <2>1. PICK v \in Humidities : Service!Humidity(v)
    BY <1>9
  <2> DEFINE c == Service!Clamp(v, 0, 250)
             p == [service EXCEPT !.humidity = c]
  <2>2. c \in 0 .. 250
    BY DEF Service!Clamp
  <2>3. Service!Set("humidity", p) /\ given' = given
    BY <2>1 DEF Service!Humidity
  <2> HIDE DEF c
  <2>4. /\ p \in ServiceReports /\ p.header = service.header /\ p.eHeader = service.eHeader
        /\ p.bPosition = service.bPosition
        /\ \A y \in ServiceValues \ {"humidity"} : p[y] = service[y]
    BY <1>1, <2>2, SMTT(40) DEF ServiceReports, ServiceValues
  <2>5. "humidity" \in FlaggedValues \ {"windSpeed", "windGust"} /\ FlagOf("humidity") = "humidity"
    BY DEF FlaggedValues, ServiceValues, FlagOf
  <2> HIDE DEF p
  <2>6. QED
    BY <1>2, <2>3, <2>4, <2>5
<1>10. CASE \E v \in Pressures : Service!Barometric(v)
  <2>1. PICK v \in Pressures : Service!Barometric(v)
    BY <1>10
  <2> DEFINE c == Service!Clamp(v, 0, Service!HighestPressure)
             p == [service EXCEPT !.barometric = c]
  <2>2. c \in PressureRaws
    <3>1. v \in Int
      OBVIOUS
    <3>2. Service!HighestPressure \in Nat
      BY DEF Service!HighestPressure
    <3>3. QED
      BY <3>1, <3>2 DEF Service!Clamp, PressureRaws
  <2>3. Service!Set("barometric", p) /\ given' = given
    BY <2>1 DEF Service!Barometric
  <2> HIDE DEF c
  <2>4. /\ p \in ServiceReports /\ p.header = service.header /\ p.eHeader = service.eHeader
        /\ p.bPosition = service.bPosition
        /\ \A y \in ServiceValues \ {"barometric"} : p[y] = service[y]
    BY <1>1, <2>2, SMTT(40) DEF ServiceReports, ServiceValues
  <2>5. "barometric" \in FlaggedValues \ {"windSpeed", "windGust"} /\ FlagOf("barometric") = "barometric"
    BY DEF FlaggedValues, ServiceValues, FlagOf
  <2> HIDE DEF p
  <2>6. QED
    BY <1>2, <2>3, <2>4, <2>5
<1>11. CASE \E v \in Batteries : Service!Battery(v)
  <2>1. PICK v \in Batteries : Service!Battery(v)
    BY <1>11
  <2> DEFINE c == Service!BatteryRaw(v)
             p == [service EXCEPT !.battery = c]
  <2>2. c \in 0 .. 15
    <3>1. v \in Int
      OBVIOUS
    <3>2. (200 * v + 666) \div 1332 \in Int
      BY <3>1
    <3>3. \A k \in Int : Service!Clamp(k, 0, 15) \in 0 .. 15
      BY DEF Service!Clamp
    <3>4. c = Service!Clamp((200 * v + 666) \div 1332, 0, 15)
      BY DEF Service!BatteryRaw
    <3>5. QED
      BY <3>2, <3>3, <3>4
  <2>3. Service!Set("battery", p) /\ given' = given
    BY <2>1 DEF Service!Battery
  <2> HIDE DEF c
  <2>4. /\ p \in ServiceReports /\ p.header = service.header /\ p.eHeader = service.eHeader
        /\ p.bPosition = service.bPosition
        /\ \A y \in ServiceValues \ {"battery"} : p[y] = service[y]
    BY <1>1, <2>2, SMTT(40) DEF ServiceReports, ServiceValues
  <2>5. "battery" \in FlaggedValues \ {"windSpeed", "windGust"} /\ FlagOf("battery") = "battery"
    BY DEF FlaggedValues, ServiceValues, FlagOf
  <2> HIDE DEF p
  <2>6. QED
    BY <1>2, <2>3, <2>4, <2>5
<1>12. CASE \E v \in WindSpeeds : Service!WindSpeed(v)
  <2>1. PICK v \in WindSpeeds : Service!WindSpeed(v)
    BY <1>12
  <2> DEFINE c == Service!StoredWind(service.windSpeed, v)
             p == [service EXCEPT !.windSpeed = c]
  <2>2. c \in Winds /\ v \in Int
    BY <1>1, WindStored, SMTT(40)
  <2>3. Service!Set("wind", p)
    BY <2>1 DEF Service!WindSpeed
  <2>4. given' \in [windSpeed : Int, windGust : Int]
        /\ given'.windSpeed = v /\ given'.windGust = given.windGust
    BY <1>1, <2>1, <2>2 DEF Service!WindSpeed, Service!Asked
  <2>5. c = Service!StoredWind(service["windSpeed"], v)
    OBVIOUS
  <2> HIDE DEF c
  <2>6. /\ p \in ServiceReports /\ p.header = service.header /\ p.eHeader = service.eHeader
        /\ p.bPosition = service.bPosition /\ p.windSpeed = c
        /\ \A y \in ServiceValues \ {"windSpeed"} : p[y] = service[y]
    BY <1>1, <2>2, SMTT(40) DEF ServiceReports, ServiceValues
  <2>7. "windSpeed" \in FlaggedValues /\ FlagOf("windSpeed") = "wind"
    BY DEF FlaggedValues, ServiceValues, FlagOf
  <2> HIDE DEF p
  <2>8. /\ service' \in ServiceReports /\ Defaults(service') /\ OthersKept("windSpeed")
        /\ service'["windSpeed"] = c
    BY <2>3, <2>6, <2>7, FlaggedSetter
  <2>9. Service!WrongOnlyByScale'
    <3>1. service'["windSpeed"] = Service!StoredWind(service["windSpeed"], v) /\ given'["windSpeed"] = v
      BY <2>4, <2>5, <2>8
    <3>2. service'["windGust"] = service["windGust"] /\ given'["windGust"] = given["windGust"]
      BY <2>4, <2>8 DEF OthersKept, ServiceValues
    <3>3. QED
      BY <2>2, <3>1, <3>2, WindSetter
  <2>10. QED
    BY <2>4, <2>7, <2>8, <2>9 DEF ServiceInv, FlaggedValues
<1>13. CASE \E v \in WindSpeeds : Service!WindGust(v)
  <2>1. PICK v \in WindSpeeds : Service!WindGust(v)
    BY <1>13
  <2> DEFINE c == Service!StoredWind(service.windGust, v)
             p == [service EXCEPT !.windGust = c]
  <2>2. c \in Winds /\ v \in Int
    BY <1>1, WindStored, SMTT(40)
  <2>3. Service!Set("wind", p)
    BY <2>1 DEF Service!WindGust
  <2>4. given' \in [windSpeed : Int, windGust : Int]
        /\ given'.windGust = v /\ given'.windSpeed = given.windSpeed
    BY <1>1, <2>1, <2>2 DEF Service!WindGust, Service!Asked
  <2>5. c = Service!StoredWind(service["windGust"], v)
    OBVIOUS
  <2> HIDE DEF c
  <2>6. /\ p \in ServiceReports /\ p.header = service.header /\ p.eHeader = service.eHeader
        /\ p.bPosition = service.bPosition /\ p.windGust = c
        /\ \A y \in ServiceValues \ {"windGust"} : p[y] = service[y]
    BY <1>1, <2>2, SMTT(40) DEF ServiceReports, ServiceValues
  <2>7. "windGust" \in FlaggedValues /\ FlagOf("windGust") = "wind"
    BY DEF FlaggedValues, ServiceValues, FlagOf
  <2> HIDE DEF p
  <2>8. /\ service' \in ServiceReports /\ Defaults(service') /\ OthersKept("windGust")
        /\ service'["windGust"] = c
    BY <2>3, <2>6, <2>7, FlaggedSetter
  <2>9. Service!WrongOnlyByScale'
    <3>1. service'["windGust"] = Service!StoredWind(service["windGust"], v) /\ given'["windGust"] = v
      BY <2>4, <2>5, <2>8
    <3>2. service'["windSpeed"] = service["windSpeed"] /\ given'["windSpeed"] = given["windSpeed"]
      BY <2>4, <2>8 DEF OthersKept, ServiceValues
    <3>3. QED
      BY <2>2, <3>1, <3>2, WindSetter
  <2>10. QED
    BY <2>4, <2>7, <2>8, <2>9 DEF ServiceInv, FlaggedValues
<1>14. QED
  BY <1>4, <1>5, <1>6, <1>7, <1>8, <1>9, <1>10, <1>11, <1>12, <1>13 DEF ServiceSetters

(* Six zeros behind an octet. *)
LEMMA ZerosBehind ==
    ASSUME NEW a \in Int
    PROVE  <<a>> \o (<<0, 0, 0>> \o <<0, 0, 0>>) = <<a, 0, 0, 0, 0, 0, 0>>
<1> DEFINE s == <<0, 0, 0>>
           z == s \o s
           t == <<a>>
           o == t \o z
           w == <<a, 0, 0, 0, 0, 0, 0>>
<1>1. s \in Seq(Int) /\ Len(s) = 3 /\ \A i \in 1 .. 3 : s[i] = 0
  OBVIOUS
<1>2. t \in Seq(Int) /\ Len(t) = 1 /\ t[1] = a
  OBVIOUS
<1>3. w \in Seq(Int) /\ Len(w) = 7 /\ \A i \in 1 .. 7 : w[i] = IF i = 1 THEN a ELSE 0
  OBVIOUS
<1> HIDE DEF s, t, w
<1>4. /\ z \in Seq(Int) /\ Len(z) = Len(s) + Len(s)
      /\ \A i \in 1 .. Len(s) + Len(s) : z[i] = IF i <= Len(s) THEN s[i] ELSE s[i - Len(s)]
  BY <1>1, ConcatProperties
<1> HIDE DEF z
<1>5. Len(z) = 6 /\ \A i \in 1 .. 6 : z[i] = 0
  BY <1>1, <1>4
<1>6. /\ o \in Seq(Int) /\ Len(o) = Len(t) + Len(z)
      /\ \A i \in 1 .. Len(t) + Len(z) : o[i] = IF i <= Len(t) THEN t[i] ELSE z[i - Len(t)]
  <2>1. t \in Seq(Int) /\ z \in Seq(Int)
    BY <1>2, <1>4
  <2>2. QED
    BY <2>1, ConcatProperties
<1> HIDE DEF o
<1>7. Len(o) = 7 /\ \A i \in 1 .. 7 : o[i] = IF i = 1 THEN a ELSE 0
  BY <1>2, <1>5, <1>6
<1>8. Len(o) = Len(w) /\ \A i \in 1 .. Len(o) : o[i] = w[i]
  BY <1>3, <1>7
<1>9. o = w
  BY <1>3, <1>6, <1>8, SeqEqual
<1>10. QED
  BY <1>9 DEF o, z, s, t, w

\* What a ground station with a second header and no values has.
Bare(octet, b) ==
    [header |-> {"extended", "remoteConfig"}, eHeader |-> octet, latitude |-> 0, longitude |-> 0,
     bPosition |-> b, temperature |-> 0, windHeading |-> 0, windSpeed |-> Service!Calm,
     windGust |-> Service!Calm, humidity |-> 0, barometric |-> 0, battery |-> 0]

(* Its octets are those another device sends.                               *)
LEMMA BareReport ==
    ASSUME NEW octet \in Octets, NEW b \in BOOLEAN
    PROVE  /\ Bare(octet, b) \in ServiceReports /\ Defaults(Bare(octet, b))
           /\ Service!Parsed([header |-> {"extended", "remoteConfig"},
                              octets |-> <<octet, 0, 0, 0, 0, 0, 0>>])
                 = ReceivedService(Bare(octet, b))
<1> DEFINE x == Bare(octet, b)
           h == {"extended", "remoteConfig"}
<1>1. Service!Calm \in Winds
  <2>1. \A c \in BOOLEAN : [raw |-> 0, scaled |-> c] \in Winds
    BY DEF Winds
  <2>2. QED
    BY <2>1 DEF Service!Calm
<1>2. 0 \in Positions /\ 0 \in PressureRaws
  <2>1. 0 \in Int
    OBVIOUS
  <2>2. QED
    BY <2>1, PositionFits DEF PressureRaws, Service!HighestPressure
<1>3. h \in SUBSET Service!Flags
  BY DEF Service!Flags
<1>4. /\ "extended" \in h /\ "temperature" \notin h /\ "wind" \notin h /\ "humidity" \notin h
      /\ "barometric" \notin h /\ "battery" \notin h
  OBVIOUS
<1> HIDE DEF h
<1>5. x = [header |-> h, eHeader |-> octet, latitude |-> 0, longitude |-> 0, bPosition |-> b,
           temperature |-> 0, windHeading |-> 0, windSpeed |-> Service!Calm,
           windGust |-> Service!Calm, humidity |-> 0, barometric |-> 0, battery |-> 0]
  BY DEF Bare, h
<1>6. /\ x.header = h /\ x.eHeader = octet /\ x.latitude = 0 /\ x.longitude = 0
      /\ x.temperature = 0 /\ x.windHeading = 0 /\ x.windSpeed = Service!Calm
      /\ x.windGust = Service!Calm /\ x.humidity = 0 /\ x.barometric = 0 /\ x.battery = 0
  BY <1>5
<1>7. x \in ServiceReports
  BY <1>1, <1>2, <1>3, <1>5 DEF ServiceReports
<1> HIDE DEF x
<1>8. Defaults(x)
  BY <1>4, <1>6 DEF Defaults
<1>9. Service!Written(x) = [header |-> h, octets |-> <<octet, 0, 0, 0, 0, 0, 0>>]
  <2> DEFINE c1 == <<octet>>
             c2 == <<0, 0, 0>> \o <<0, 0, 0>>
             o == <<octet, 0, 0, 0, 0, 0, 0>>
  <2>1. Service!Placed(x)
    BY <1>4, <1>6 DEF Service!Placed, Service!HasPlace, Service!PlacedFlags, Service!Flags
  <2>2. Service!Octets24(Service!Bits(0, 24)) = <<0, 0, 0>>
    <3>1. Service!Bits(0, 24) = 0
      BY DEF Service!Bits
    <3>2. QED
      BY <3>1 DEF Service!Octets24
  <2>3. c1 \o c2 = o /\ o \in Seq(Int)
    <3>1. octet \in Int
      BY DEF Octets
    <3>2. o \in Seq(Int)
      BY <3>1
    <3>3. QED
      BY <3>1, <3>2, ZerosBehind
  <2> HIDE DEF c1, c2, o
  <2>4. Service!Written(x) =
           [header |-> h, octets |-> c1 \o c2 \o <<>> \o <<>> \o <<>> \o <<>> \o <<>>]
    BY <1>4, <1>6, <2>1, <2>2 DEF Service!Written, Service!If, c1, c2
  <2>5. o \o <<>> = o
    BY <2>3, ConcatEmptySeq
  <2>6. QED
    BY <2>3, <2>4, <2>5 DEF o
<1>10. QED
  BY <1>7, <1>8, <1>9, ServiceOnAir DEF x, h


(* A report that is received stays one.                                     *)
LEMMA ServiceReceive ==
    ASSUME ServiceInv, Service!Receive
    PROVE  ServiceInv'
<1>1. /\ service \in ServiceReports /\ Defaults(service)
      /\ given \in [windSpeed : Int, windGust : Int]
  BY DEF ServiceInv
<1>2. service' = ReceivedService(service) /\ given' = given
  BY <1>1, ServiceOnAir DEF Service!Receive, Service!Received
<1>3. service' \in ServiceReports /\ Defaults(service')
  BY <1>1, <1>2, ReceivedIsReport
<1>4. service'.windSpeed = service.windSpeed /\ service'.windGust = service.windGust
  BY <1>2 DEF ReceivedService
<1>5. Service!WrongOnlyByScale'
  BY <1>2, <1>4, WindSetter
<1>6. QED
  BY <1>1, <1>2, <1>3, <1>5 DEF ServiceInv

LEMMA ServiceReceiveExtended ==
    ASSUME NEW octet \in ExtendedHeaders, Service!ReceiveExtended(octet)
    PROVE  ServiceInv'
<1>1. octet \in Octets
  BY InputsAreLegal DEF Service!InputsAssumption, Octets
<1>2. PICK b \in BOOLEAN : TRUE
  OBVIOUS
<1> DEFINE x == Bare(octet, b)
<1>3. x \in ServiceReports /\ Defaults(x)
  BY <1>1, BareReport
<1>4. service' = ReceivedService(x) /\ given' = [windSpeed |-> 0, windGust |-> 0]
  BY <1>1, BareReport DEF Service!ReceiveExtended
<1>5. x.windSpeed = Service!Calm /\ x.windGust = Service!Calm
  BY DEF Bare
<1> HIDE DEF x
<1>6. service' \in ServiceReports /\ Defaults(service')
  BY <1>3, <1>4, ReceivedIsReport
<1>7. \A y \in {"windSpeed", "windGust"} : service'[y] = Service!Calm /\ given'[y] = 0
  BY <1>4, <1>5 DEF ReceivedService
<1>8. Service!WrongOnlyByScale'
  <2>1. /\ \A c \in BOOLEAN : [raw |-> 0, scaled |-> c].raw = 0
        /\ \A c \in BOOLEAN : [raw |-> 0, scaled |-> c].scaled = c
    OBVIOUS
  <2>2. Service!Calm.raw = 0 /\ Service!Calm.scaled = FALSE
    BY <2>1 DEF Service!Calm
  <2>3. Service!WindValue(Service!Calm) = 0 /\ Service!WindInRange(0) = 0
    BY <2>2 DEF Service!WindValue, Service!WindInRange, Service!Clamp, Service!Strongest
  <2>4. QED
    BY <1>7, <2>2, <2>3 DEF Service!WrongOnlyByScale, Service!Stale
<1>9. given' \in [windSpeed : Int, windGust : Int]
  BY <1>4
<1>10. QED
  BY <1>6, <1>8, <1>9 DEF ServiceInv

LEMMA ServiceStep ==
    ASSUME ServiceInv, Service!Next
    PROVE  /\ ServiceInv'
           /\ \/ Service!Receive
              \/ \E octet \in ExtendedHeaders : Service!ReceiveExtended(octet)
              \/ \E x \in ServiceValues : OthersKept(x)
<1>1. CASE ServiceSetters
  BY <1>1, ServiceSet
<1>2. CASE Service!Receive
  BY <1>2, ServiceReceive
<1>3. CASE \E octet \in ExtendedHeaders : Service!ReceiveExtended(octet)
  BY <1>3, ServiceReceiveExtended
<1>4. QED
  BY <1>1, <1>2, <1>3 DEF Service!Next, ServiceSetters

LEMMA ServiceKept ==
    ASSUME ServiceInv, ServiceStays
    PROVE  ServiceInv'
<1>1. service' = service /\ given' = given
  BY DEF ServiceStays
<1>2. Service!WrongOnlyByScale'
  BY <1>1, WindSetter
<1>3. QED
  BY <1>1, <1>2 DEF ServiceInv, Defaults

(* A setter changes what the receiver reads of one value.                   *)
LEMMA ServiceOneValue ==
    ASSUME ServiceInv, Service!Next
    PROVE  Service!OneValueAtATime
<1>1. ServiceInv' /\ \/ Service!Receive
                     \/ \E octet \in ExtendedHeaders : Service!ReceiveExtended(octet)
                     \/ \E x \in ServiceValues : OthersKept(x)
  BY ServiceStep
<1>2. ASSUME NEW z \in ServiceValues, OthersKept(z)
      PROVE  Service!OneValueAtATime
  <2> DEFINE before == Service!ReadOnAir(service)
             after == Service!ReadOnAir(service')
             p == ReceivedService(service)
             q == ReceivedService(service')
  <2>1. /\ service \in ServiceReports /\ Defaults(service)
        /\ service' \in ServiceReports /\ Defaults(service')
    BY <1>1 DEF ServiceInv
  <2>2. before = Service!Read(p) /\ after = Service!Read(q)
    BY <2>1, ServiceOnAir DEF Service!ReadOnAir
  <2>3. DOMAIN before = ServiceValues
    BY <2>2 DEF Service!Read, ServiceValues
  <2>4. Service!Placed(service) => Service!Placed(service')
    <3>1. service.header \ service'.header \subseteq {"gateway"}
      BY <1>2 DEF OthersKept
    <3>2. Service!HasPlace(service.header) => Service!HasPlace(service'.header)
      BY <3>1 DEF Service!HasPlace, Service!PlacedFlags
    <3>3. service.bPosition => service'.bPosition
      BY <1>2 DEF OthersKept
    <3>4. QED
      BY <3>2, <3>3 DEF Service!Placed
  <2>5. ASSUME NEW y \in ServiceValues \ {z}, y \notin Unsent(service)
        PROVE  before[y] = after[y]
    <3>1. service'[y] = service[y]
      BY <1>2, <2>5 DEF OthersKept
    <3>2. y \in {"latitude", "longitude"} => Service!Placed(service)
      BY <2>5 DEF Unsent
    <3>3. p[y] = q[y]
      <4>1. CASE y \in {"latitude", "longitude"}
        BY <2>4, <3>1, <3>2, <4>1 DEF ReceivedService
      <4>2. CASE y \notin {"latitude", "longitude"}
        BY <3>1, <4>2 DEF ReceivedService, ServiceValues
      <4>3. QED
        BY <4>1, <4>2
    <3> HIDE DEF p, q
    <3>4. Service!Read(p)[y] = Service!Read(q)[y]
      BY <3>3 DEF Service!Read, ServiceValues
    <3>5. QED
      BY <2>2, <3>4
  <2>6. service.header \ service'.header \subseteq {"gateway"}
    BY <1>2 DEF OthersKept
  <2> DEFINE sent == DOMAIN before \ Unsent(service)
  <2>7. \E x \in sent : \A y \in sent \ {x} : before[y] = after[y]
    <3>1. "temperature" \in sent
      BY <2>3 DEF ServiceValues, Unsent
    <3>2. \A y \in sent \ {z} : before[y] = after[y]
      BY <2>3, <2>5
    <3> HIDE DEF sent, before, after
    <3>3. CASE z \in sent
      BY <3>2, <3>3
    <3>4. CASE z \notin sent
      BY <3>1, <3>2, <3>4
    <3>5. QED
      BY <3>3, <3>4
  <2> HIDE DEF p, q
  <2>8. QED
    BY <2>6, <2>7 DEF Service!OneValueAtATime, Unsent
<1>3. QED
  BY <1>1, <1>2 DEF Service!OneValueAtATime

-----------------------------------------------------------------------------
(* The packet and its frame.                                                *)

\* Optional fields have an element or none.
Optionals(T) == {{}} \cup {{x} : x \in T}

PacketAddresses == [manufacturer : Packet!Octets, unique : 0 .. 2^16 - 1]
PacketSignatures == {s \in Seq(Packet!Octets) : Len(s) = 4}

\* A name or message has as many octets as its object has room for.
PacketPayloads ==
    {p \in [type : {1, 2, 3, 4, 7}, body : Seq(Packet!Octets)] :
        /\ p.type = 2 => Len(p.body) <= MaxFrameSize
        /\ p.type = 3 => 1 <= Len(p.body) /\ Len(p.body) <= MaxFrameSize + 1}

Packets ==
    [extended : BOOLEAN, forward : BOOLEAN, type : 0 .. 63, source : PacketAddresses,
     extendedHeader : Optionals(Packet!ExtendedHeaderValues), destination : Optionals(PacketAddresses),
     signature : Optionals(PacketSignatures), payload : Optionals(PacketPayloads)]

\* The flags tell what follows.
FlagsTell(p) ==
    /\ p.extended = (p.extendedHeader # {})
    /\ p.extendedHeader = {} => p.destination = {} /\ p.signature = {}
    /\ \A e \in p.extendedHeader :
          /\ e.unicast = (p.destination # {})
          /\ e.signature = (p.signature # {})
    /\ \A x \in p.payload : p.type \in {x.type, 0}

PacketInv ==
    /\ packet \in Packets /\ FlagsTell(packet)
    /\ frame = <<>> \/ Packet!Whole(frame)

(* The first octet, the fifth, and an address are read as they were written. *)
LEMMA HeaderOctetRead ==
    ASSUME NEW p \in Packets
    PROVE  LET o == Packet!HeaderOctet(p)
           IN  /\ o \in Packet!Octets
               /\ Packet!Bit(o, 128) = p.extended /\ Packet!Bit(o, 64) = p.forward
               /\ o % 64 = p.type
<1>1. \A a \in 0 .. 1, b \in 0 .. 1, t \in 0 .. 63 :
         LET o == 128 * a + 64 * b + t
         IN  /\ o \in 0 .. 255 /\ (o \div 128) % 2 = a /\ (o \div 64) % 2 = b
             /\ o % 64 = t
  OBVIOUS
<1>2. p.extended \in BOOLEAN /\ p.forward \in BOOLEAN /\ p.type \in 0 .. 63
  BY DEF Packets
<1> DEFINE a == IF p.extended THEN 1 ELSE 0
           b == IF p.forward THEN 1 ELSE 0
<1>3. a \in 0 .. 1 /\ b \in 0 .. 1 /\ (a = 1) = p.extended /\ (b = 1) = p.forward
  BY <1>2
<1>4. Packet!HeaderOctet(p) = 128 * a + 64 * b + p.type
  BY <1>2 DEF Packet!HeaderOctet, Packet!Weight
<1> HIDE DEF a, b
<1>5. QED
  BY <1>1, <1>2, <1>3, <1>4 DEF Packet!Octets, Packet!Bit

LEMMA ExtendedOctetRead ==
    ASSUME NEW e \in Packet!ExtendedHeaderValues
    PROVE  LET o == Packet!ExtendedOctet(e)
           IN  /\ o \in Packet!Octets /\ o \div 64 = e.ack
               /\ Packet!Bit(o, 32) = e.unicast /\ Packet!Bit(o, 16) = e.signature
               /\ (o \div 2) % 8 = 0 /\ Packet!Bit(o, 1) = e.geoForward
<1>1. \A k \in 0 .. 3, a \in 0 .. 1, b \in 0 .. 1, c \in 0 .. 1 :
         LET o == 64 * k + 32 * a + 16 * b + c
         IN  /\ o \in 0 .. 255 /\ o \div 64 = k
             /\ (o \div 32) % 2 = a /\ (o \div 16) % 2 = b
             /\ (o \div 2) % 8 = 0 /\ (o \div 1) % 2 = c
  OBVIOUS
<1>2. /\ e.ack \in 0 .. 3 /\ e.unicast \in BOOLEAN /\ e.signature \in BOOLEAN
      /\ e.geoForward \in BOOLEAN
  BY DEF Packet!ExtendedHeaderValues
<1> DEFINE a == IF e.unicast THEN 1 ELSE 0
           b == IF e.signature THEN 1 ELSE 0
           c == IF e.geoForward THEN 1 ELSE 0
<1>3. /\ a \in 0 .. 1 /\ (a = 1) = e.unicast
      /\ b \in 0 .. 1 /\ (b = 1) = e.signature
      /\ c \in 0 .. 1 /\ (c = 1) = e.geoForward
  BY <1>2
<1>4. Packet!ExtendedOctet(e) = 64 * e.ack + 32 * a + 16 * b + c
  BY <1>2 DEF Packet!ExtendedOctet, Packet!Weight
<1> HIDE DEF a, b, c
<1>5. QED
  BY <1>1, <1>2, <1>3, <1>4 DEF Packet!Octets, Packet!Bit

LEMMA AddressRead ==
    ASSUME NEW a \in PacketAddresses
    PROVE  LET o == Packet!AddressOctets(a)
           IN  /\ o \in Seq(Packet!Octets) /\ Len(o) = 3
               /\ o[1] = a.manufacturer /\ o[2] + 256 * o[3] = a.unique
<1>1. \A u \in 0 .. 2^16 - 1 :
         u % 256 \in 0 .. 255 /\ u \div 256 \in 0 .. 255 /\ (u % 256) + 256 * (u \div 256) = u
  OBVIOUS
<1>2. a.manufacturer \in Packet!Octets /\ a.unique \in 0 .. 2^16 - 1
  BY DEF PacketAddresses
<1> DEFINE u == a.unique
<1>3. /\ u % 256 \in Packet!Octets /\ u \div 256 \in Packet!Octets
      /\ (u % 256) + 256 * (u \div 256) = u
  BY <1>1, <1>2 DEF Packet!Octets
<1>4. Packet!AddressOctets(a) = <<a.manufacturer, u % 256, u \div 256>>
  BY DEF Packet!AddressOctets
<1>5. QED
  BY <1>2, <1>3, <1>4

(* A sequence that is reversed and reversed again is the same. *)
LEMMA ReversedTwice ==
    ASSUME NEW S, NEW s \in Seq(S)
    PROVE  /\ Packet!Reverse(s) \in Seq(S) /\ Len(Packet!Reverse(s)) = Len(s)
           /\ Packet!Reverse(Packet!Reverse(s)) = s
<1>1. ASSUME NEW t \in Seq(S)
      PROVE  /\ Packet!Reverse(t) \in Seq(S) /\ Len(Packet!Reverse(t)) = Len(t)
             /\ \A i \in 1 .. Len(t) : Packet!Reverse(t)[i] = t[Len(t) - i + 1]
  <2>1. Len(t) \in Nat /\ \A i \in 1 .. Len(t) : t[i] \in S
    BY LenProperties, ElementOfSeq
  <2>2. Packet!Reverse(t) = [i \in 1 .. Len(t) |-> t[(Len(t) - i) + 1]]
    BY DEF Packet!Reverse
  <2>3. \A i \in 1 .. Len(t) : t[(Len(t) - i) + 1] \in S
    BY <2>1
  <2>4. QED
    BY <2>1, <2>2, <2>3
<1>2. \A i \in 1 .. Len(s) : Packet!Reverse(Packet!Reverse(s))[i] = s[i]
  <2> TAKE i \in 1 .. Len(s)
  <2>1. Len(s) \in Nat /\ Len(s) - i + 1 \in 1 .. Len(s)
    BY LenProperties
  <2>2. Packet!Reverse(Packet!Reverse(s))[i] = Packet!Reverse(s)[Len(s) - i + 1]
    BY <1>1, <2>1
  <2>3. Packet!Reverse(s)[Len(s) - i + 1] = s[Len(s) - (Len(s) - i + 1) + 1]
    BY <1>1, <2>1
  <2>4. QED
    BY <2>1, <2>2, <2>3
<1>3. QED
  BY <1>1, <1>2, SeqEqual

\* The optional parts of a header.
DestinationOctets(p) ==
    IF p.destination = {} THEN <<>>
    ELSE Packet!AddressOctets(CHOOSE x \in p.destination : TRUE)
SignatureOctets(p) ==
    IF p.signature = {} THEN <<>>
    ELSE Packet!Reverse(CHOOSE x \in p.signature : TRUE)

FirstOctets(p) == <<Packet!HeaderOctet(p)>> \o Packet!AddressOctets(p.source)

(* A header's parts in a row. *)
LEMMA HeaderParts ==
    ASSUME NEW p \in Packets
    PROVE  /\ p.extendedHeader = {} => Packet!HeaderOctets(p) = FirstOctets(p) \o <<>>
           /\ \A e : p.extendedHeader = {e} =>
                 Packet!HeaderOctets(p) =
                    FirstOctets(p) \o (<<Packet!ExtendedOctet(e)>> \o DestinationOctets(p)
                                          \o SignatureOctets(p))
<1>1. \A x : (CHOOSE y \in {x} : TRUE) = x
  OBVIOUS
<1>2. QED
  BY <1>1 DEF Packet!HeaderOctets, Packet!Optional, FirstOctets, DestinationOctets, SignatureOctets

(* The parts of a header one by one. *)
LEMMA FirstOctetsRead ==
    ASSUME NEW p \in Packets
    PROVE  /\ FirstOctets(p) \in Seq(Packet!Octets) /\ Len(FirstOctets(p)) = 4
           /\ FirstOctets(p)[1] = Packet!HeaderOctet(p)
           /\ Packet!AddressAt(FirstOctets(p), 2) = p.source
<1> DEFINE h == <<Packet!HeaderOctet(p)>>
           a == Packet!AddressOctets(p.source)
<1>1. h \in Seq(Packet!Octets) /\ Len(h) = 1 /\ h[1] = Packet!HeaderOctet(p)
  BY HeaderOctetRead
<1>2. p.source \in PacketAddresses
  BY DEF Packets
<1>3. /\ a \in Seq(Packet!Octets) /\ Len(a) = 3
      /\ a[1] = p.source.manufacturer /\ a[2] + 256 * a[3] = p.source.unique
  BY <1>2, AddressRead
<1>4. FirstOctets(p) = h \o a
  BY DEF FirstOctets
<1> HIDE DEF h, a
<1>5. /\ h \o a \in Seq(Packet!Octets) /\ Len(h \o a) = Len(h) + Len(a)
      /\ \A i \in 1 .. Len(h) + Len(a) : (h \o a)[i] = IF i <= Len(h) THEN h[i] ELSE a[i - Len(h)]
  BY <1>1, <1>3, ConcatProperties, ZenonT(60)
<1>6. /\ Len(h \o a) = 4 /\ (h \o a)[1] = h[1] /\ (h \o a)[2] = a[1]
      /\ (h \o a)[3] = a[2] /\ (h \o a)[4] = a[3]
  BY <1>1, <1>3, <1>5
<1>7. Packet!AddressAt(FirstOctets(p), 2) =
         [manufacturer |-> p.source.manufacturer, unique |-> p.source.unique]
  BY <1>3, <1>4, <1>6 DEF Packet!AddressAt
<1>8. QED
  BY <1>1, <1>2, <1>4, <1>5, <1>6, <1>7 DEF PacketAddresses

LEMMA OptionalOctetsRead ==
    ASSUME NEW p \in Packets
    PROVE  /\ DestinationOctets(p) \in Seq(Packet!Octets)
           /\ Len(DestinationOctets(p)) = Packet!Weight(p.destination # {}, 3)
           /\ \A d \in p.destination : DestinationOctets(p) = Packet!AddressOctets(d)
           /\ SignatureOctets(p) \in Seq(Packet!Octets)
           /\ Len(SignatureOctets(p)) = Packet!Weight(p.signature # {}, 4)
           /\ \A s \in p.signature : SignatureOctets(p) = Packet!Reverse(s)
<1>1. \A x : (CHOOSE y \in {x} : TRUE) = x
  OBVIOUS
<1>2. p.destination = {} \/ \E d \in PacketAddresses : p.destination = {d}
  BY DEF Packets, Optionals
<1>3. p.signature = {} \/ \E s \in PacketSignatures : p.signature = {s}
  BY DEF Packets, Optionals
<1>4. <<>> \in Seq(Packet!Octets) /\ Len(<<>>) = 0
  OBVIOUS
<1>5. /\ DestinationOctets(p) \in Seq(Packet!Octets)
      /\ Len(DestinationOctets(p)) = Packet!Weight(p.destination # {}, 3)
      /\ \A d \in p.destination : DestinationOctets(p) = Packet!AddressOctets(d)
  <2>1. CASE p.destination = {}
    BY <1>4, <2>1 DEF DestinationOctets, Packet!Weight
  <2>2. ASSUME NEW d \in PacketAddresses, p.destination = {d}
        PROVE  <1>5
    <3>1. DestinationOctets(p) = Packet!AddressOctets(d)
      BY <1>1, <2>2 DEF DestinationOctets
    <3>2. QED
      BY <2>2, <3>1, AddressRead DEF Packet!Weight
  <2>3. QED
    BY <1>2, <2>1, <2>2
<1>6. /\ SignatureOctets(p) \in Seq(Packet!Octets)
      /\ Len(SignatureOctets(p)) = Packet!Weight(p.signature # {}, 4)
      /\ \A s \in p.signature : SignatureOctets(p) = Packet!Reverse(s)
  <2>1. CASE p.signature = {}
    BY <1>4, <2>1 DEF SignatureOctets, Packet!Weight
  <2>2. ASSUME NEW s \in PacketSignatures, p.signature = {s}
        PROVE  <1>6
    <3>1. SignatureOctets(p) = Packet!Reverse(s)
      BY <1>1, <2>2 DEF SignatureOctets
    <3>2. s \in Seq(Packet!Octets) /\ Len(s) = 4
      BY DEF PacketSignatures
    <3>3. QED
      BY <2>2, <3>1, <3>2, ReversedTwice DEF Packet!Weight
  <2>3. QED
    BY <1>3, <2>1, <2>2
<1>7. QED
  BY <1>5, <1>6

\* Where the octets of a packet's header are.
IsHeaderOf(h, p) ==
    /\ h \in Seq(Packet!Octets)
    /\ Len(h) = 4 + Packet!Weight(p.extended, 1) + Packet!Weight(p.destination # {}, 3)
                  + Packet!Weight(p.signature # {}, 4)
    /\ h[1] = Packet!HeaderOctet(p)
    /\ Packet!AddressAt(h, 2) = p.source
    /\ \A e \in p.extendedHeader : h[5] = Packet!ExtendedOctet(e)
    /\ \A d \in p.destination : Packet!AddressAt(h, 6) = d
    /\ \A s \in p.signature, i \in {6 + Packet!Weight(p.destination # {}, 3)} :
          SubSeq(h, i, i + 3) = Packet!Reverse(s)

LEMMA HeaderWritten ==
    ASSUME NEW p \in Packets, FlagsTell(p)
    PROVE  IsHeaderOf(Packet!HeaderOctets(p), p)
<1> DEFINE h == Packet!HeaderOctets(p)
           f == FirstOctets(p)
           d == DestinationOctets(p)
           s == SignatureOctets(p)
<1>1. /\ f \in Seq(Packet!Octets) /\ Len(f) = 4
      /\ f[1] = Packet!HeaderOctet(p) /\ Packet!AddressAt(f, 2) = p.source
  BY FirstOctetsRead
<1>2. /\ d \in Seq(Packet!Octets) /\ Len(d) = Packet!Weight(p.destination # {}, 3)
      /\ \A x \in p.destination : d = Packet!AddressOctets(x)
      /\ s \in Seq(Packet!Octets) /\ Len(s) = Packet!Weight(p.signature # {}, 4)
      /\ \A x \in p.signature : s = Packet!Reverse(x)
  BY OptionalOctetsRead
<1>3. p.extendedHeader = {} \/ \E e \in Packet!ExtendedHeaderValues : p.extendedHeader = {e}
  BY DEF Packets, Optionals
<1>4. CASE p.extendedHeader = {}
  <2>1. h = f \o <<>>
    BY <1>4, HeaderParts
  <2>2. h = f
    BY <1>1, <2>1, ConcatEmptySeq
  <2>3. p.destination = {} /\ p.signature = {} /\ ~p.extended
    BY <1>4 DEF FlagsTell
  <2>4. QED
    BY <1>1, <1>4, <2>2, <2>3 DEF IsHeaderOf, Packet!Weight
<1>5. ASSUME NEW e \in Packet!ExtendedHeaderValues, p.extendedHeader = {e}
      PROVE  IsHeaderOf(h, p)
  <2> DEFINE x == <<Packet!ExtendedOctet(e)>>
             xd == x \o d
             rest == xd \o s
  <2>1. x \in Seq(Packet!Octets) /\ Len(x) = 1 /\ x[1] = Packet!ExtendedOctet(e)
    BY ExtendedOctetRead
  <2>2. h = f \o rest /\ rest = xd \o s /\ xd = x \o d
    BY <1>5, HeaderParts
  <2> HIDE DEF h, f, d, s, x, xd, rest
  <2>3. p.extended
    BY <1>5 DEF FlagsTell
  <2>4. /\ xd \in Seq(Packet!Octets) /\ Len(xd) = 1 + Len(d)
        /\ xd[1] = x[1] /\ Len(d) \in Nat
        /\ \A i \in 1 .. Len(d) : xd[1 + i] = d[i]
    <3>1. /\ xd \in Seq(Packet!Octets) /\ Len(xd) = Len(x) + Len(d) /\ Len(d) \in Nat
          /\ \A i \in 1 .. Len(x) : xd[i] = x[i]
          /\ \A i \in 1 .. Len(d) : xd[Len(x) + i] = d[i]
      <4>1. x \in Seq(Packet!Octets) /\ d \in Seq(Packet!Octets)
        BY <1>2, <2>1
      <4>2. xd = x \o d
        BY <2>2
      <4>3. QED
        BY <4>1, <4>2, Joined
    <3>2. QED
      BY <2>1, <3>1
  <2>5. /\ rest \in Seq(Packet!Octets) /\ Len(rest) = 1 + Len(d) + Len(s) /\ Len(s) \in Nat
        /\ \A i \in 1 .. 1 + Len(d) : rest[i] = xd[i]
    <3>1. /\ rest \in Seq(Packet!Octets) /\ Len(rest) = Len(xd) + Len(s) /\ Len(s) \in Nat
          /\ \A i \in 1 .. Len(xd) : rest[i] = xd[i]
      <4>1. xd \in Seq(Packet!Octets) /\ s \in Seq(Packet!Octets)
        BY <1>2, <2>4
      <4>2. rest = xd \o s
        BY <2>2
      <4>3. QED
        BY <4>1, <4>2, Joined
    <3>2. QED
      BY <2>4, <3>1
  <2>6. SubSeq(rest, 1 + Len(d) + 1, 1 + Len(d) + Len(s)) = s
    BY <1>2, <2>2, <2>4, ReadAtEnd
  <2>7. /\ h \in Seq(Packet!Octets) /\ Len(h) = 5 + Len(d) + Len(s)
        /\ \A i \in 1 .. 4 : h[i] = f[i]
        /\ \A i \in 1 .. 1 + Len(d) + Len(s) : h[4 + i] = rest[i]
    <3>1. /\ h \in Seq(Packet!Octets) /\ Len(h) = Len(f) + Len(rest)
          /\ \A i \in 1 .. Len(f) : h[i] = f[i]
          /\ \A i \in 1 .. Len(rest) : h[Len(f) + i] = rest[i]
      <4>1. f \in Seq(Packet!Octets) /\ rest \in Seq(Packet!Octets)
        BY <1>1, <2>5
      <4>2. h = f \o rest
        BY <2>2
      <4>3. QED
        BY <4>1, <4>2, Joined
    <3>2. QED
      BY <1>1, <2>4, <2>5, <3>1
  <2>8. Len(h) = 4 + Packet!Weight(p.extended, 1) + Packet!Weight(p.destination # {}, 3)
                   + Packet!Weight(p.signature # {}, 4)
    BY <1>2, <2>3, <2>4, <2>5, <2>7 DEF Packet!Weight
  <2>9. /\ h[1] = Packet!HeaderOctet(p) /\ Packet!AddressAt(h, 2) = p.source
        /\ h[5] = Packet!ExtendedOctet(e)
    <3>1. h[1] = f[1] /\ h[2] = f[2] /\ h[3] = f[3] /\ h[4] = f[4]
      BY <2>7
    <3>2. h[5] = x[1]
      <4>1. h[4 + 1] = rest[1] /\ rest[1] = xd[1]
        BY <2>4, <2>5, <2>7
      <4>2. QED
        BY <2>4, <4>1
    <3>3. QED
      BY <1>1, <2>1, <3>1, <3>2 DEF Packet!AddressAt
  <2>10. ASSUME NEW y \in p.destination
         PROVE  Packet!AddressAt(h, 6) = y
    <3>1. y \in PacketAddresses
      BY DEF Packets, Optionals
    <3>2. Len(d) = 3 /\ d = Packet!AddressOctets(y)
      BY <1>2, <2>10 DEF Packet!Weight
    <3>3. d[1] = y.manufacturer /\ d[2] + 256 * d[3] = y.unique
      BY <3>1, <3>2, AddressRead
    <3>4. \A i \in 1 .. 3 : h[5 + i] = d[i]
      <4> TAKE i \in 1 .. 3
      <4>1. h[4 + (1 + i)] = rest[1 + i] /\ rest[1 + i] = xd[1 + i]
        BY <2>4, <2>5, <2>7, <3>2
      <4>2. QED
        BY <2>4, <3>2, <4>1
    <3>5. h[6] = d[1] /\ h[6 + 1] = d[2] /\ h[6 + 2] = d[3]
      BY <3>4
    <3>6. Packet!AddressAt(h, 6) = [manufacturer |-> y.manufacturer, unique |-> y.unique]
      BY <3>3, <3>5 DEF Packet!AddressAt
    <3>7. QED
      BY <3>1, <3>6 DEF PacketAddresses
  <2>11. ASSUME NEW y \in p.signature, NEW i \in {6 + Packet!Weight(p.destination # {}, 3)}
         PROVE  SubSeq(h, i, i + 3) = Packet!Reverse(y)
    <3>1. i = 6 + Len(d) /\ Len(s) = 4 /\ s = Packet!Reverse(y)
      BY <1>2, <2>11 DEF Packet!Weight
    <3> DEFINE m == 1 + Len(d) + 1
               n == 1 + Len(d) + Len(s)
    <3>2. /\ m \in Nat /\ n \in Nat /\ 1 <= m /\ n <= Len(rest)
          /\ Len(f) + m = i /\ Len(f) + n = i + 3
      BY <1>1, <2>4, <2>5, <3>1
    <3>3. SubSeq(rest, m, n) = s
      BY <2>6
    <3> HIDE DEF m, n
    <3>4. SubSeq(h, i, i + 3) = SubSeq(rest, m, n)
      <4>1. f \in Seq(Packet!Octets) /\ rest \in Seq(Packet!Octets) /\ h = f \o rest
        BY <1>1, <2>2, <2>5
      <4>2. /\ m \in Nat /\ n \in Nat /\ 1 <= m /\ n <= Len(rest)
            /\ i = Len(f) + m /\ i + 3 = Len(f) + n
        BY <3>2
      <4>3. QED
        BY <4>1, <4>2, ReadBehind, SMTT(40)
    <3>5. QED
      BY <3>1, <3>3, <3>4
  <2>12. QED
    BY <1>5, <2>7, <2>8, <2>9, <2>10, <2>11 DEF IsHeaderOf
<1>6. QED
  BY <1>3, <1>4, <1>5

(* A frame of a packet's header and any octets is parsed into what was      *)
(* written, and into the payload that the octets are.                       *)
LEMMA FrameParsed ==
    ASSUME NEW p \in Packets, FlagsTell(p), NEW body \in Seq(Packet!Octets),
           NEW f, f = Packet!HeaderOctets(p) \o body
    PROVE  /\ Packet!Whole(f)
           /\ SubSeq(f, Packet!HeaderSize(f) + 1, Len(f)) = body
           /\ Packet!Parsed(f) =
                [Packet!Sent(p) EXCEPT !.payload = Packet!ParsedPayload(p.type, body)]
<1> DEFINE h == Packet!HeaderOctets(p)
           u == Packet!Weight(p.destination # {}, 3)
           g == Packet!Weight(p.signature # {}, 4)
           x == Packet!Weight(p.extended, 1)
<1>1. IsHeaderOf(h, p)
  BY HeaderWritten
<1>2. /\ p.extended \in BOOLEAN /\ p.forward \in BOOLEAN /\ p.source \in PacketAddresses
      /\ p.extendedHeader = {} \/ \E e \in Packet!ExtendedHeaderValues : p.extendedHeader = {e}
      /\ p.destination = {} \/ \E d \in PacketAddresses : p.destination = {d}
      /\ p.signature = {} \/ \E s \in PacketSignatures : p.signature = {s}
  BY DEF Packets, Optionals
<1>3. /\ p.extended = (p.extendedHeader # {})
      /\ p.extendedHeader = {} => p.destination = {} /\ p.signature = {}
      /\ \A e \in p.extendedHeader :
            e.unicast = (p.destination # {}) /\ e.signature = (p.signature # {})
  BY DEF FlagsTell
<1>4. /\ u = 0 \/ u = 3
      /\ g = 0 \/ g = 4
      /\ x = 0 \/ x = 1
      /\ p.extended => x = 1
      /\ p.destination # {} => u = 3
      /\ p.signature # {} => g = 4
      /\ p.extendedHeader # {} => x = 1
      /\ p.extendedHeader = {} => x = 0 /\ u = 0 /\ g = 0
  BY <1>2, <1>3 DEF Packet!Weight
<1> HIDE DEF h, u, g, x
<1>5. h \in Seq(Packet!Octets) /\ Len(h) = 4 + x + u + g
  BY <1>1 DEF IsHeaderOf, x, u, g
<1>6. /\ f \in Seq(Packet!Octets) /\ Len(f) = Len(h) + Len(body) /\ Len(body) \in Nat
      /\ \A i \in 1 .. Len(h) : f[i] = h[i]
  <2>1. h \in Seq(Packet!Octets) /\ f = h \o body
    BY <1>5 DEF h
  <2>2. QED
    BY <2>1, Joined
<1>7. f[1] = Packet!HeaderOctet(p) /\ Packet!AddressAt(f, 2) = p.source
  <2>1. f[1] = h[1] /\ f[2] = h[2] /\ f[3] = h[3] /\ f[4] = h[4]
    BY <1>4, <1>5, <1>6, SMTT(40)
  <2>2. h[1] = Packet!HeaderOctet(p) /\ Packet!AddressAt(h, 2) = p.source
    BY <1>1 DEF IsHeaderOf
  <2>3. Packet!AddressAt(f, 2) = [manufacturer |-> f[2], unique |-> f[3] + 256 * f[4]]
    BY DEF Packet!AddressAt
  <2>4. Packet!AddressAt(h, 2) = [manufacturer |-> h[2], unique |-> h[3] + 256 * h[4]]
    BY DEF Packet!AddressAt
  <2>5. Packet!AddressAt(f, 2) = Packet!AddressAt(h, 2)
    BY <2>1, <2>3, <2>4
  <2>6. QED
    BY <2>1, <2>2, <2>5
<1>8. /\ Packet!IsExtended(f) = p.extended /\ Packet!Bit(f[1], 64) = p.forward
      /\ f[1] % 64 = p.type
  BY <1>7, HeaderOctetRead DEF Packet!IsExtended
<1>9. ASSUME NEW e \in Packet!ExtendedHeaderValues, p.extendedHeader = {e}
      PROVE  /\ Packet!ExtendedAt(f, 5) = [e EXCEPT !.reserved = 0]
             /\ Packet!Bit(f[5], 32) = (p.destination # {})
             /\ Packet!Bit(f[5], 16) = (p.signature # {})
  <2>1. f[5] = h[5]
    BY <1>4, <1>5, <1>6, <1>9
  <2>2. f[5] = Packet!ExtendedOctet(e)
    BY <1>1, <1>9, <2>1 DEF IsHeaderOf
  <2>3. Packet!ExtendedAt(f, 5) = [ack |-> e.ack, unicast |-> e.unicast, signature |-> e.signature,
                                   reserved |-> 0, geoForward |-> e.geoForward]
    BY <2>2, ExtendedOctetRead DEF Packet!ExtendedAt
  <2>4. QED
    BY <1>3, <1>9, <2>2, <2>3, ExtendedOctetRead DEF Packet!ExtendedHeaderValues
<1>10. /\ Packet!IsUnicast(f) = (p.destination # {}) /\ Packet!IsSigned(f) = (p.signature # {})
       /\ Packet!HeaderSize(f) = Len(h)
  <2>1. /\ Packet!IsUnicast(f) = (p.destination # {})
        /\ Packet!IsSigned(f) = (p.signature # {})
    BY <1>2, <1>3, <1>8, <1>9 DEF Packet!IsUnicast, Packet!IsSigned
  <2>2. QED
    BY <1>5, <1>8, <2>1 DEF Packet!HeaderSize, x, u, g
<1>11. Packet!Whole(f)
  <2>1. Len(h) \in Nat /\ Len(h) >= 4 /\ (p.extended => Len(h) >= 5)
    BY <1>4, <1>5
  <2>2. f \in Seq(Packet!Octets) /\ Len(f) >= 4 /\ (p.extended => Len(f) >= 5) /\ Len(f) >= Len(h)
    BY <1>6, <2>1
  <2>3. QED
    BY <1>8, <1>10, <2>2 DEF Packet!Whole
<1>12. SubSeq(f, Packet!HeaderSize(f) + 1, Len(f)) = body
  <2>1. h \in Seq(Packet!Octets) /\ f = h \o body
    BY <1>5 DEF h
  <2>2. SubSeq(h \o body, Len(h) + 1, Len(h) + Len(body)) = body
    BY <2>1, ReadAtEnd
  <2>3. QED
    BY <1>6, <1>10, <2>1, <2>2
<1>13. ASSUME NEW d, p.destination = {d}
       PROVE  Packet!AddressAt(f, 6) = d
  <2>1. f[6] = h[6] /\ f[6 + 1] = h[6 + 1] /\ f[6 + 2] = h[6 + 2]
    <3>1. Len(h) >= 8 /\ Len(h) \in Nat
      BY <1>3, <1>4, <1>5, <1>13
    <3>2. QED
      BY <1>6, <3>1
  <2>2. Packet!AddressAt(h, 6) = d
    BY <1>1, <1>13 DEF IsHeaderOf
  <2>3. QED
    BY <2>1, <2>2 DEF Packet!AddressAt
<1>14. ASSUME NEW s \in PacketSignatures, p.signature = {s}
       PROVE  Packet!Reverse(SubSeq(f, 6 + u, 6 + u + 3)) = s
  <2>1. 6 + u \in Nat /\ 1 <= 6 + u /\ 6 + u + 3 \in Nat /\ 6 + u + 3 <= Len(h)
    BY <1>3, <1>4, <1>5, <1>14
  <2>2. SubSeq(h, 6 + u, 6 + u + 3) = Packet!Reverse(s)
    BY <1>1, <1>14 DEF IsHeaderOf, u
  <2>3. SubSeq(h \o body, 6 + u, 6 + u + 3) = SubSeq(h, 6 + u, 6 + u + 3)
    BY <1>5, <2>1, ReadInFront
  <2>4. f = h \o body
    BY DEF h
  <2>5. Packet!Reverse(Packet!Reverse(s)) = s
    BY ReversedTwice DEF PacketSignatures
  <2>6. QED
    BY <2>2, <2>3, <2>4, <2>5
<1>15. Packet!Parsed(f) =
         [extended |-> p.extended, forward |-> p.forward, type |-> p.type, source |-> p.source,
          extendedHeader |-> {[e EXCEPT !.reserved = 0] : e \in p.extendedHeader},
          destination |-> p.destination, signature |-> p.signature,
          payload |-> Packet!ParsedPayload(p.type, body)]
  <2>1. (IF Packet!IsExtended(f) THEN {Packet!ExtendedAt(f, 5)} ELSE {}) =
            {[e EXCEPT !.reserved = 0] : e \in p.extendedHeader}
    <3>1. CASE p.extendedHeader = {}
      BY <1>3, <1>8, <3>1
    <3>2. ASSUME NEW e \in Packet!ExtendedHeaderValues, p.extendedHeader = {e}
          PROVE  <2>1
      <4>1. Packet!ExtendedAt(f, 5) = [e EXCEPT !.reserved = 0] /\ Packet!IsExtended(f)
        BY <1>3, <1>8, <1>9, <3>2
      <4>2. {[other EXCEPT !.reserved = 0] : other \in {e}} = {[e EXCEPT !.reserved = 0]}
        OBVIOUS
      <4>3. QED
        BY <3>2, <4>1, <4>2
    <3>3. QED
      BY <1>2, <3>1, <3>2
  <2>2. (IF Packet!IsUnicast(f) THEN {Packet!AddressAt(f, 6)} ELSE {}) = p.destination
    BY <1>2, <1>10, <1>13
  <2>3. (IF Packet!IsSigned(f) THEN {Packet!Reverse(SubSeq(f, 6 + u, 6 + u + 3))} ELSE {}) = p.signature
    BY <1>2, <1>10, <1>14
  <2>4. Packet!Weight(Packet!IsUnicast(f), 3) = u
    BY <1>10 DEF u
  <2>5. QED
    BY <1>7, <1>8, <1>12, <2>1, <2>2, <2>3, <2>4 DEF Packet!Parsed
<1> DEFINE X == {[e EXCEPT !.reserved = 0] : e \in p.extendedHeader}
           Y == Packet!ParsedPayload(p.type, body)
<1>16. Packet!Sent(p) = [p EXCEPT !.extendedHeader = X]
  BY DEF Packet!Sent
<1> HIDE DEF X, Y
<1>17. Packet!Sent(p) =
         [extended |-> p.extended, forward |-> p.forward, type |-> p.type, source |-> p.source,
          extendedHeader |-> X, destination |-> p.destination, signature |-> p.signature,
          payload |-> p.payload]
  BY <1>16 DEF Packets
<1>18. [Packet!Sent(p) EXCEPT !.payload = Y] =
         [extended |-> p.extended, forward |-> p.forward, type |-> p.type, source |-> p.source,
          extendedHeader |-> X, destination |-> p.destination, signature |-> p.signature,
          payload |-> Y]
  BY <1>17
<1>19. QED
  BY <1>11, <1>12, <1>15, <1>18 DEF X, Y

(* A name or a message is cut to the room there is. *)
LEMMA CutFits ==
    ASSUME NEW text \in Seq(Packet!Octets)
    PROVE  /\ Packet!Cut(text) \in Seq(Packet!Octets)
           /\ Len(Packet!Cut(text)) <= MaxFrameSize /\ Len(Packet!Cut(text)) \in Nat
           /\ Len(text) <= MaxFrameSize => Packet!Cut(text) = text
<1>1. MaxFrameSize \in Nat
  BY InputsAreLegal DEF Packet!InputsAssumption
<1>2. Len(text) \in Nat /\ \A i \in 1 .. Len(text) : text[i] \in Packet!Octets
  BY LenProperties, ElementOfSeq
<1> DEFINE n == IF Len(text) < MaxFrameSize THEN Len(text) ELSE MaxFrameSize
<1>3. n \in Nat /\ n <= Len(text) /\ n <= MaxFrameSize /\ (Len(text) <= MaxFrameSize => n = Len(text))
  BY <1>1, <1>2
<1>4. Packet!Cut(text) = SubSeq(text, 1, n)
  BY DEF Packet!Cut
<1> HIDE DEF n
<1>5. \A i \in 1 .. n : text[i] \in Packet!Octets
  BY <1>2, <1>3
<1>6. SubSeq(text, 1, n) \in Seq(Packet!Octets) /\ Len(SubSeq(text, 1, n)) = IF 1 <= n THEN n - 1 + 1 ELSE 0
  BY <1>3, <1>5, SubSeqProperties
<1>7. Len(SubSeq(text, 1, n)) = n
  BY <1>3, <1>6
<1>8. SubSeq(text, 1, Len(text)) = text
  BY SubSeqFull
<1>9. Len(text) <= MaxFrameSize => Packet!Cut(text) = text
  BY <1>3, <1>4, <1>8
<1>10. QED
  BY <1>3, <1>4, <1>6, <1>7, <1>9

(* The first octet and the others are the sequence. *)
LEMMA HeadAndTail ==
    ASSUME NEW S, NEW s \in Seq(S), s # <<>>
    PROVE  /\ <<Head(s)>> \o Tail(s) = s
           /\ Head(s) \in S /\ Tail(s) \in Seq(S) /\ Len(Tail(s)) = Len(s) - 1
<1>1. /\ Head(s) \in S /\ Tail(s) \in Seq(S) /\ Len(Tail(s)) = Len(s) - 1
      /\ \A i \in 1 .. Len(Tail(s)) : Tail(s)[i] = s[i + 1]
  BY HeadTailProperties
<1>2. Len(s) \in Nat /\ Len(s) >= 1 /\ Head(s) = s[1]
  BY EmptySeq, LenProperties
<1> DEFINE h == <<Head(s)>>
           t == Tail(s)
           o == h \o t
<1>3. h \in Seq(S) /\ t \in Seq(S) /\ Len(h) = 1 /\ h[1] = s[1] /\ Len(t) = Len(s) - 1
  BY <1>1, <1>2
<1>4. o = h \o t
  OBVIOUS
<1> HIDE DEF h, t, o
<1>5. /\ o \in Seq(S) /\ Len(o) = Len(h) + Len(t)
      /\ \A i \in 1 .. Len(h) : o[i] = h[i]
      /\ \A i \in 1 .. Len(t) : o[Len(h) + i] = t[i]
  <2>1. h \in Seq(S) /\ t \in Seq(S)
    BY <1>3
  <2>2. QED
    BY <2>1, <1>4, Joined
<1>6. Len(o) = Len(s)
  BY <1>2, <1>3, <1>5
<1>7. ASSUME NEW i \in 1 .. Len(o)
      PROVE  o[i] = s[i]
  <2>1. CASE i = 1
    BY <1>3, <1>5, <2>1
  <2>2. CASE i # 1
    <3> DEFINE k == i - 1
    <3>1. k \in 1 .. Len(t) /\ i = 1 + k
      BY <1>2, <1>3, <1>6, <2>2
    <3> HIDE DEF k
    <3>2. o[1 + k] = t[k] /\ t[k] = s[k + 1]
      BY <1>1, <1>3, <1>5, <3>1 DEF t
    <3>3. QED
      BY <3>1, <3>2
  <2>3. QED
    BY <2>1, <2>2
<1>8. o = s
  BY <1>5, <1>6, <1>7, SeqEqual
<1>9. QED
  BY <1>1, <1>8 DEF o, h, t

\* The payload types.
PayloadTypes == {1, 2, 3, 4, 7}

(* A payload object is one of the payloads, and is read as it was written. *)
LEMMA NamesFit ==
    ASSUME NEW text \in Seq(Packet!Octets)
    PROVE  /\ Packet!Name(text) \in PacketPayloads /\ Packet!Name(text).type = 2
           /\ \A o \in Packet!Octets :
                 Packet!Message(o, text) \in PacketPayloads /\ Packet!Message(o, text).type = 3
<1>1. MaxFrameSize \in Nat
  BY InputsAreLegal DEF Packet!InputsAssumption
<1> DEFINE c == Packet!Cut(text)
<1>2. c \in Seq(Packet!Octets) /\ Len(c) <= MaxFrameSize /\ Len(c) \in Nat
  BY CutFits
<1>3. Packet!Name(text) = [type |-> 2, body |-> c]
  BY DEF Packet!Name, Packet!NAME
<1>4. ASSUME NEW o \in Packet!Octets
      PROVE  Packet!Message(o, text) \in PacketPayloads /\ Packet!Message(o, text).type = 3
  <2> DEFINE h == <<o>>
             b == h \o c
  <2>1. h \in Seq(Packet!Octets) /\ Len(h) = 1
    OBVIOUS
  <2>2. Packet!Message(o, text) = [type |-> 3, body |-> b]
    BY DEF Packet!Message, Packet!MESSAGE
  <2>0. b = h \o c
    OBVIOUS
  <2> HIDE DEF h, c, b
  <2>3. b \in Seq(Packet!Octets) /\ Len(b) = Len(h) + Len(c)
    <3>1. h \in Seq(Packet!Octets) /\ c \in Seq(Packet!Octets)
      BY <1>2, <2>1
    <3>2. QED
      BY <2>0, <3>1, Joined
  <2>4. Len(b) >= 1 /\ Len(b) <= MaxFrameSize + 1
    BY <1>1, <1>2, <2>1, <2>3
  <2>5. QED
    BY <2>2, <2>3, <2>4 DEF PacketPayloads
<1> HIDE DEF c
<1>5. QED
  BY <1>2, <1>3, <1>4 DEF PacketPayloads

LEMMA PayloadParsed ==
    ASSUME NEW type \in 0 .. 63, NEW octets \in Seq(Packet!Octets)
    PROVE  /\ Packet!ParsedPayload(type, octets) \in Optionals(PacketPayloads)
           /\ \A x \in Packet!ParsedPayload(type, octets) : x.type = type
           /\ type = 0 => Packet!ParsedPayload(type, octets) = {}
<1> USE DEF Packet!TRACKING, Packet!SERVICE, Packet!GROUND_TRACKING, Packet!NAME, Packet!MESSAGE
<1>1. CASE type = 2
  <2>1. Packet!ParsedPayload(type, octets) = {Packet!Name(octets)}
    BY <1>1 DEF Packet!ParsedPayload, Packet!ParsedName
  <2>2. QED
    BY <1>1, <2>1, NamesFit DEF Optionals
<1>2. CASE type = 3
  <2>1. Packet!ParsedPayload(type, octets) = {Packet!ParsedMessage(octets)}
    BY <1>2 DEF Packet!ParsedPayload
  <2>2. CASE octets = <<>>
    <3>1. Packet!ParsedMessage(octets) = Packet!Message(0, <<>>) /\ 0 \in Packet!Octets
      BY <2>2 DEF Packet!ParsedMessage, Packet!Octets
    <3>2. <<>> \in Seq(Packet!Octets)
      OBVIOUS
    <3>3. Packet!Message(0, <<>>) \in PacketPayloads /\ Packet!Message(0, <<>>).type = 3
      BY <3>1, <3>2, NamesFit
    <3>4. QED
      BY <1>2, <2>1, <3>1, <3>3 DEF Optionals
  <2>3. CASE octets # <<>>
    <3>1. Head(octets) \in Packet!Octets /\ Tail(octets) \in Seq(Packet!Octets)
      BY <2>3, HeadAndTail
    <3>2. Packet!ParsedMessage(octets) = Packet!Message(Head(octets), Tail(octets))
      BY <2>3 DEF Packet!ParsedMessage
    <3>3. /\ Packet!Message(Head(octets), Tail(octets)) \in PacketPayloads
          /\ Packet!Message(Head(octets), Tail(octets)).type = 3
      BY <3>1, NamesFit
    <3>4. QED
      BY <1>2, <2>1, <3>2, <3>3 DEF Optionals
  <2>4. QED
    BY <2>2, <2>3
<1>3. CASE type \in {1, 4, 7}
  <2>1. Packet!ParsedPayload(type, octets) = {[type |-> type, body |-> octets]}
    BY <1>3 DEF Packet!ParsedPayload
  <2>2. [type |-> type, body |-> octets] \in PacketPayloads
    BY <1>3 DEF PacketPayloads
  <2>3. QED
    BY <1>3, <2>1, <2>2 DEF Optionals
<1>4. CASE type \notin PayloadTypes
  <2>1. Packet!ParsedPayload(type, octets) = {}
    BY <1>4 DEF Packet!ParsedPayload, PayloadTypes
  <2>2. QED
    BY <2>1 DEF Optionals
<1>5. QED
  BY <1>1, <1>2, <1>3, <1>4 DEF PayloadTypes

LEMMA PayloadReadBack ==
    ASSUME NEW x \in PacketPayloads
    PROVE  Packet!ParsedPayload(x.type, x.body) = {x}
<1> USE DEF Packet!TRACKING, Packet!SERVICE, Packet!GROUND_TRACKING, Packet!NAME, Packet!MESSAGE
<1>1. /\ x.type \in PayloadTypes /\ x.body \in Seq(Packet!Octets)
      /\ x = [type |-> x.type, body |-> x.body]
      /\ x.type = 2 => Len(x.body) <= MaxFrameSize
      /\ x.type = 3 => 1 <= Len(x.body) /\ Len(x.body) <= MaxFrameSize + 1
  BY DEF PacketPayloads, PayloadTypes
<1>2. CASE x.type = 2
  <2>1. Packet!Cut(x.body) = x.body
    BY <1>1, <1>2, CutFits
  <2>2. Packet!ParsedPayload(x.type, x.body) = {[type |-> 2, body |-> x.body]}
    BY <1>2, <2>1 DEF Packet!ParsedPayload, Packet!ParsedName, Packet!Name
  <2>3. QED
    BY <1>1, <1>2, <2>2
<1>3. CASE x.type = 3
  <2>1. x.body # <<>>
    BY <1>1, <1>3
  <2>2. /\ <<Head(x.body)>> \o Tail(x.body) = x.body
        /\ Tail(x.body) \in Seq(Packet!Octets) /\ Len(Tail(x.body)) = Len(x.body) - 1
    BY <1>1, <2>1, HeadAndTail
  <2>3. Packet!Cut(Tail(x.body)) = Tail(x.body)
    <3>1. Len(x.body) \in Nat /\ MaxFrameSize \in Nat
      BY <1>1, LenProperties, InputsAreLegal DEF Packet!InputsAssumption
    <3>2. Len(Tail(x.body)) <= MaxFrameSize
      BY <1>1, <1>3, <2>2, <3>1
    <3>3. QED
      BY <2>2, <3>2, CutFits
  <2>4. Packet!ParsedPayload(x.type, x.body) =
          {[type |-> 3, body |-> <<Head(x.body)>> \o Packet!Cut(Tail(x.body))]}
    BY <1>3, <2>1 DEF Packet!ParsedPayload, Packet!ParsedMessage, Packet!Message
  <2>5. QED
    BY <1>1, <1>3, <2>2, <2>3, <2>4
<1>4. CASE x.type \in {1, 4, 7}
  BY <1>1, <1>4 DEF Packet!ParsedPayload
<1>5. QED
  BY <1>1, <1>2, <1>3, <1>4 DEF PayloadTypes

(* What is parsed of a frame that is long enough is a packet the flags of   *)
(* which tell what follows.                                                 *)
LEMMA ParsedWhole ==
    ASSUME NEW f, Packet!Whole(f)
    PROVE  Packet!Parsed(f) \in Packets /\ FlagsTell(Packet!Parsed(f))
<1> DEFINE x == Packet!Weight(Packet!IsExtended(f), 1)
           u == Packet!Weight(Packet!IsUnicast(f), 3)
           g == Packet!Weight(Packet!IsSigned(f), 4)
           n == 4 + x + u + g
           t == f[1] % 64
           body == SubSeq(f, n + 1, Len(f))
           s == SubSeq(f, 6 + u, 6 + u + 3)
<1>1. /\ f \in Seq(Packet!Octets) /\ Len(f) \in Nat /\ Len(f) >= 4
      /\ Packet!IsExtended(f) => Len(f) >= 5
      /\ Packet!HeaderSize(f) = n /\ n <= Len(f)
  <2>1. f \in Seq(Packet!Octets) /\ Packet!HeaderSize(f) = n
    BY DEF Packet!Whole, Packet!HeaderSize
  <2>2. Len(f) \in Nat
    BY <2>1, LenProperties
  <2>3. QED
    BY <2>1, <2>2 DEF Packet!Whole
<1>2. \A i \in 1 .. Len(f) : f[i] \in Packet!Octets
  BY <1>1, ElementOfSeq
<1>3. /\ u = 0 \/ u = 3
      /\ g = 0 \/ g = 4
      /\ x = 0 \/ x = 1
      /\ Packet!IsExtended(f) => x = 1
      /\ Packet!IsUnicast(f) => Packet!IsExtended(f) /\ u = 3
      /\ Packet!IsSigned(f) => Packet!IsExtended(f) /\ g = 4
  BY DEF Packet!Weight, Packet!IsUnicast, Packet!IsSigned
<1> HIDE DEF x, u, g, n, s, body
<1>4. /\ n \in Nat /\ n >= 4
      /\ Packet!IsExtended(f) => n >= 5
      /\ Packet!IsUnicast(f) => n >= 8
      /\ Packet!IsSigned(f) => 6 + u + 3 <= n /\ 6 + u \in Nat
  BY <1>3 DEF n
<1>5. body \in Seq(Packet!Octets)
  <2>1. \A i \in n + 1 .. Len(f) : f[i] \in Packet!Octets
    BY <1>2, <1>4
  <2>2. n + 1 \in Int /\ Len(f) \in Int
    BY <1>1, <1>4
  <2>3. QED
    BY <2>1, <2>2, SubSeqProperties DEF body
<1>6. \A i \in {2, 6} : i + 2 <= Len(f) => Packet!AddressAt(f, i) \in PacketAddresses
  <2> TAKE i \in {2, 6}
  <2> HAVE i + 2 <= Len(f)
  <2>1. f[i] \in Packet!Octets /\ f[i + 1] \in Packet!Octets /\ f[i + 2] \in Packet!Octets
    BY <1>1, <1>2
  <2>2. \A a \in Packet!Octets, b \in Packet!Octets : a + 256 * b \in 0 .. 2^16 - 1
    BY DEF Packet!Octets
  <2>3. QED
    BY <2>1, <2>2 DEF Packet!AddressAt, PacketAddresses
<1>7. t \in 0 .. 63 /\ Packet!Bit(f[1], 64) \in BOOLEAN /\ Packet!IsExtended(f) \in BOOLEAN
  <2>1. f[1] \in Packet!Octets
    BY <1>1, <1>2
  <2>2. \A a \in Packet!Octets : a % 64 \in 0 .. 63
    BY DEF Packet!Octets
  <2>3. QED
    BY <2>1, <2>2 DEF Packet!Bit, Packet!IsExtended
<1>8. ASSUME Packet!IsExtended(f)
      PROVE  /\ Packet!ExtendedAt(f, 5) \in Packet!ExtendedHeaderValues
             /\ Packet!ExtendedAt(f, 5).unicast = Packet!IsUnicast(f)
             /\ Packet!ExtendedAt(f, 5).signature = Packet!IsSigned(f)
  <2>1. f[5] \in Packet!Octets
    BY <1>1, <1>2, <1>8
  <2>2. \A a \in Packet!Octets : a \div 64 \in 0 .. 3 /\ (a \div 2) % 8 \in 0 .. 7
    BY DEF Packet!Octets
  <2>3. Packet!ExtendedAt(f, 5) \in Packet!ExtendedHeaderValues
    BY <2>1, <2>2 DEF Packet!ExtendedAt, Packet!ExtendedHeaderValues, Packet!Bit
  <2>4. /\ Packet!ExtendedAt(f, 5).unicast = Packet!Bit(f[5], 32)
        /\ Packet!ExtendedAt(f, 5).signature = Packet!Bit(f[5], 16)
    BY DEF Packet!ExtendedAt
  <2>5. /\ Packet!IsUnicast(f) = Packet!Bit(f[5], 32)
        /\ Packet!IsSigned(f) = Packet!Bit(f[5], 16)
    BY <1>8 DEF Packet!IsUnicast, Packet!IsSigned, Packet!Bit
  <2>6. QED
    BY <2>3, <2>4, <2>5
<1>9. ASSUME Packet!IsSigned(f)
      PROVE  Packet!Reverse(s) \in PacketSignatures
  <2> DEFINE a == 6 + u
             b == 6 + u + 3
  <2>1. a \in Int /\ b \in Int /\ a >= 1 /\ b <= Len(f) /\ b - a + 1 = 4 /\ a <= b
    BY <1>1, <1>3, <1>4, <1>9
  <2>2. s = SubSeq(f, a, b)
    BY DEF s
  <2> HIDE DEF a, b
  <2>3. \A i \in a .. b : f[i] \in Packet!Octets
    BY <1>1, <1>2, <2>1
  <2>4. s \in Seq(Packet!Octets) /\ Len(s) = 4
    BY <2>1, <2>2, <2>3, SubSeqProperties
  <2>5. QED
    BY <2>4, ReversedTwice DEF PacketSignatures
<1>10. /\ Packet!ParsedPayload(t, body) \in Optionals(PacketPayloads)
       /\ \A p \in Packet!ParsedPayload(t, body) : p.type = t
  BY <1>5, <1>7, PayloadParsed
<1> DEFINE E == IF Packet!IsExtended(f) THEN {Packet!ExtendedAt(f, 5)} ELSE {}
           D == IF Packet!IsUnicast(f) THEN {Packet!AddressAt(f, 6)} ELSE {}
           S == IF Packet!IsSigned(f) THEN {Packet!Reverse(s)} ELSE {}
           P == Packet!ParsedPayload(t, body)
<1>11. Packet!Parsed(f) =
         [extended |-> Packet!IsExtended(f), forward |-> Packet!Bit(f[1], 64), type |-> t,
          source |-> Packet!AddressAt(f, 2), extendedHeader |-> E, destination |-> D,
          signature |-> S, payload |-> P]
  <2>1. body = SubSeq(f, Packet!HeaderSize(f) + 1, Len(f))
    BY <1>1 DEF body
  <2>2. QED
    BY <2>1 DEF Packet!Parsed, u, s
<1> HIDE DEF t, P
<1>12. /\ E \in Optionals(Packet!ExtendedHeaderValues)
       /\ D \in Optionals(PacketAddresses) /\ S \in Optionals(PacketSignatures)
       /\ P \in Optionals(PacketPayloads)
  <2>1. E \in Optionals(Packet!ExtendedHeaderValues)
    BY <1>8 DEF Optionals
  <2>2. D \in Optionals(PacketAddresses)
    <3>1. Packet!IsUnicast(f) => Packet!AddressAt(f, 6) \in PacketAddresses
      BY <1>1, <1>4, <1>6
    <3>2. QED
      BY <3>1 DEF Optionals
  <2>3. S \in Optionals(PacketSignatures)
    BY <1>9 DEF Optionals
  <2>4. QED
    BY <2>1, <2>2, <2>3, <1>10 DEF P
<1>13. Packet!AddressAt(f, 2) \in PacketAddresses
  BY <1>1, <1>6
<1>14. /\ Packet!IsExtended(f) = (E # {})
       /\ E = {} => D = {} /\ S = {}
       /\ \A e \in E : e.unicast = (D # {}) /\ e.signature = (S # {})
       /\ \A p \in P : t \in {p.type, 0}
  <2>1. CASE Packet!IsExtended(f)
    <3>1. E = {Packet!ExtendedAt(f, 5)}
      BY <2>1
    <3>2. Packet!IsUnicast(f) = (D # {}) /\ Packet!IsSigned(f) = (S # {})
      BY <1>3 DEF Packet!IsUnicast, Packet!IsSigned
    <3>3. QED
      BY <1>8, <1>10, <2>1, <3>1, <3>2 DEF P
  <2>2. CASE ~Packet!IsExtended(f)
    <3>1. Packet!IsExtended(f) = FALSE /\ ~Packet!IsUnicast(f) /\ ~Packet!IsSigned(f)
      BY <1>7, <2>2 DEF Packet!IsUnicast, Packet!IsSigned
    <3>2. E = {} /\ D = {} /\ S = {}
      BY <3>1
    <3>3. QED
      BY <1>10, <3>1, <3>2 DEF P
  <2>3. QED
    BY <2>1, <2>2
<1> HIDE DEF E, D, S
<1>15. Packet!Parsed(f) \in Packets
  BY <1>7, <1>11, <1>12, <1>13 DEF Packets, t
<1>16. FlagsTell(Packet!Parsed(f))
  BY <1>11, <1>14 DEF FlagsTell
<1>17. QED
  BY <1>15, <1>16

(* What is built of a packet. *)
LEMMA PacketBuilt ==
    ASSUME NEW p \in Packets, FlagsTell(p)
    PROVE  /\ Packet!Built(p) # <<>> =>
                 /\ Packet!Whole(Packet!Built(p))
                 /\ Packet!Parsed(Packet!Built(p)) = Packet!Sent(p)
           /\ Packet!Whole(Packet!HeaderOctets([p EXCEPT !.type = 0]))
           /\ Packet!Parsed(Packet!HeaderOctets([p EXCEPT !.type = 0])) =
                 [Packet!Sent([p EXCEPT !.type = 0]) EXCEPT !.payload = {}]
<1>1. \A x : (CHOOSE y \in {x} : TRUE) = x
  OBVIOUS
<1>2. p.payload = {} \/ \E x \in PacketPayloads : p.payload = {x}
  BY DEF Packets, Optionals
<1>3. ASSUME Packet!Built(p) # <<>>
      PROVE  /\ Packet!Whole(Packet!Built(p))
             /\ Packet!Parsed(Packet!Built(p)) = Packet!Sent(p)
  <2>1. p.type # 0 /\ p.payload # {}
    BY <1>3 DEF Packet!Built, Packet!ACK
  <2>2. PICK x \in PacketPayloads : p.payload = {x}
    BY <1>2, <2>1
  <2>3. p.type = x.type /\ x.body \in Seq(Packet!Octets)
    BY <2>1, <2>2 DEF FlagsTell, PacketPayloads
  <2>4. Packet!Built(p) = Packet!HeaderOctets(p) \o x.body
    BY <1>1, <2>1, <2>2 DEF Packet!Built, Packet!Optional, Packet!ACK
  <2>5. /\ Packet!Whole(Packet!Built(p))
        /\ Packet!Parsed(Packet!Built(p)) =
              [Packet!Sent(p) EXCEPT !.payload = Packet!ParsedPayload(p.type, x.body)]
    BY <2>3, <2>4, FrameParsed
  <2>6. Packet!ParsedPayload(p.type, x.body) = p.payload
    BY <2>2, <2>3, PayloadReadBack
  <2> DEFINE X == {[e EXCEPT !.reserved = 0] : e \in p.extendedHeader}
  <2>7. Packet!Sent(p) = [p EXCEPT !.extendedHeader = X]
    BY DEF Packet!Sent
  <2> HIDE DEF X
  <2>8. [Packet!Sent(p) EXCEPT !.payload = p.payload] = Packet!Sent(p)
    BY <2>7 DEF Packets
  <2>9. QED
    BY <2>5, <2>6, <2>8
<1>4. /\ Packet!Whole(Packet!HeaderOctets([p EXCEPT !.type = 0]))
      /\ Packet!Parsed(Packet!HeaderOctets([p EXCEPT !.type = 0])) =
            [Packet!Sent([p EXCEPT !.type = 0]) EXCEPT !.payload = {}]
  <2> DEFINE a == [p EXCEPT !.type = 0]
             h == Packet!HeaderOctets(a)
  <2>1. a \in Packets /\ a.type = 0
    BY DEF Packets
  <2>2. FlagsTell(a)
    BY DEF FlagsTell, Packets
  <2> HIDE DEF a
  <2>3. h \in Seq(Packet!Octets)
    BY <2>1, <2>2, HeaderWritten DEF IsHeaderOf
  <2>4. h = h \o <<>> /\ <<>> \in Seq(Packet!Octets)
    BY <2>3, ConcatEmptySeq
  <2>5. /\ Packet!Whole(h)
        /\ Packet!Parsed(h) = [Packet!Sent(a) EXCEPT !.payload = Packet!ParsedPayload(a.type, <<>>)]
    BY <2>1, <2>2, <2>4, FrameParsed
  <2>6. Packet!ParsedPayload(a.type, <<>>) = {}
    <3>1. 0 \in 0 .. 63
      OBVIOUS
    <3>2. Packet!ParsedPayload(0, <<>>) = {}
      BY <2>4, <3>1, PayloadParsed
    <3>3. QED
      BY <2>1, <3>2
  <2>7. QED
    BY <2>5, <2>6 DEF a
<1>5. QED
  BY <1>3, <1>4

LEMMA PacketParsedIsBuilt ==
    ASSUME PacketInv
    PROVE  Packet!ParsedIsBuilt
BY PacketBuilt DEF PacketInv, Packet!ParsedIsBuilt, Packet!ACK

(* What the packet is filled with. *)
LEMMA PacketInputs ==
    /\ Addresses \subseteq PacketAddresses /\ Signatures \subseteq PacketSignatures
    /\ \A text \in Texts : Packet!Name(text) \in PacketPayloads /\ Packet!Name(text).type = 2
    /\ \A text \in Texts, o \in SubHeaders :
          Packet!Message(o, text) \in PacketPayloads /\ Packet!Message(o, text).type = 3
    /\ \A r \in Reports : r \in PacketPayloads /\ r.type \in {1, 4, 7}
    /\ \A f \in Heard : Packet!Whole(f)
<1>1. /\ Addresses \subseteq [manufacturer : Packet!Octets, unique : 0 .. 2^16 - 1]
      /\ Signatures \subseteq [1 .. 4 -> Packet!Octets]
      /\ \A text \in Texts : text \in Seq(Packet!Octets)
      /\ SubHeaders \subseteq Packet!Octets
      /\ Reports \subseteq [type : {1, 4, 7}, body : Seq(Packet!Octets)]
      /\ \A f \in Heard : Packet!Whole(f)
  BY InputsAreLegal
     DEF Packet!InputsAssumption, Packet!HeardAssumption, Packet!TRACKING, Packet!SERVICE,
         Packet!GROUND_TRACKING
<1>2. ASSUME NEW s \in Signatures
      PROVE  s \in PacketSignatures
  <2>1. s = [i \in 1 .. 4 |-> s[i]] /\ \A i \in 1 .. 4 : s[i] \in Packet!Octets
    BY <1>1
  <2>2. s \in Seq(Packet!Octets) /\ Len(s) = 4
    BY <2>1
  <2>3. QED
    BY <2>2 DEF PacketSignatures
<1>3. ASSUME NEW r \in Reports
      PROVE  r \in PacketPayloads /\ r.type \in {1, 4, 7}
  <2>1. r.type \in {1, 4, 7} /\ r \in [type : {1, 2, 3, 4, 7}, body : Seq(Packet!Octets)]
    BY <1>1
  <2>2. QED
    BY <2>1 DEF PacketPayloads
<1>4. QED
  BY <1>1, <1>2, <1>3, NamesFit DEF PacketAddresses

(* The extended header of a packet, or the new one, has the bits of what    *)
(* follows.                                                                 *)
LEMMA ExtendedHeaderKept ==
    ASSUME NEW p \in Packets, FlagsTell(p)
    PROVE  LET e == Packet!ExtendedHeaderOf(p)
           IN  /\ e \in Packet!ExtendedHeaderValues
               /\ e.unicast = (p.destination # {}) /\ e.signature = (p.signature # {})
<1>1. p.extendedHeader = {} \/ \E e \in Packet!ExtendedHeaderValues : p.extendedHeader = {e}
  BY DEF Packets, Optionals
<1>2. CASE p.extendedHeader = {}
  <2>1. Packet!ExtendedHeaderOf(p) = Packet!NewExtendedHeader
    BY <1>2 DEF Packet!ExtendedHeaderOf
  <2>2. p.destination = {} /\ p.signature = {}
    BY <1>2 DEF FlagsTell
  <2>3. \A b \in BOOLEAN : [ack |-> 0, unicast |-> b, signature |-> b, reserved |-> 0,
                             geoForward |-> b] \in Packet!ExtendedHeaderValues
    BY DEF Packet!ExtendedHeaderValues
  <2>4. Packet!NewExtendedHeader \in Packet!ExtendedHeaderValues
    BY <2>3 DEF Packet!NewExtendedHeader, Packet!NONE
  <2>5. Packet!NewExtendedHeader.unicast = FALSE /\ Packet!NewExtendedHeader.signature = FALSE
    BY DEF Packet!NewExtendedHeader
  <2>6. QED
    BY <2>1, <2>2, <2>4, <2>5
<1>3. ASSUME NEW e \in Packet!ExtendedHeaderValues, p.extendedHeader = {e}
      PROVE  Packet!ExtendedHeaderOf(p) = e
  BY <1>3 DEF Packet!ExtendedHeaderOf
<1>4. QED
  BY <1>1, <1>2, <1>3 DEF FlagsTell

\* The bits tell of a destination and of a signature.
Marks(e, D, S) == e.unicast = (D # {}) /\ e.signature = (S # {})

\* A packet with another extended header, and what its bits tell of.
Anew(p, e, D, S) ==
    [p EXCEPT !.extendedHeader = {e}, !.extended = TRUE, !.destination = D, !.signature = S]

(* Where the bits tell the truth, so does the packet, and the rest stays.   *)
LEMMA ExtendedAnew ==
    ASSUME NEW p \in Packets, FlagsTell(p), NEW e \in Packet!ExtendedHeaderValues,
           NEW D \in Optionals(PacketAddresses), NEW S \in Optionals(PacketSignatures),
           Marks(e, D, S), NEW q, q = Anew(p, e, D, S)
    PROVE  /\ q \in Packets /\ FlagsTell(q) /\ q.extended
           /\ Packet!ExtendedHeaderOf(q) = e /\ q.destination = D /\ q.signature = S
           /\ q.source = p.source /\ q.forward = p.forward /\ q.payload = p.payload
<1>1. {e} \in Optionals(Packet!ExtendedHeaderValues)
  BY DEF Optionals
<1>2. \A b \in BOOLEAN : [p EXCEPT !.extendedHeader = {e}, !.extended = b,
                                   !.destination = D, !.signature = S] \in Packets
  BY <1>1 DEF Packets
<1>3. q \in Packets
  BY <1>2 DEF Anew
<1>4. /\ q.extended = TRUE /\ q.extendedHeader = {e} /\ q.destination = D /\ q.signature = S
      /\ q.source = p.source /\ q.forward = p.forward /\ q.payload = p.payload
      /\ q.type = p.type
  BY DEF Packets, Anew
<1>5. FlagsTell(q)
  BY <1>4 DEF FlagsTell, Marks
<1>6. Packet!ExtendedHeaderOf(q) = e
  BY <1>4 DEF Packet!ExtendedHeaderOf
<1>7. QED
  BY <1>3, <1>4, <1>5, <1>6

\* At most one field is different, and the extended header stays.
OneField(p, q) ==
    LET before == Packet!Fields(p)
        after == Packet!Fields(q)
    IN  /\ \E x \in DOMAIN before : \A y \in DOMAIN before \ {x} : before[y] = after[y]
        /\ p.extended => q.extended

FieldNames ==
    {"source", "forward", "destination", "signature", "ack", "geoForward", "payload"}

(* Two packets that are the same in all fields but one. *)
LEMMA OneFieldIs ==
    ASSUME NEW p, NEW q, p.extended => q.extended, NEW x \in FieldNames,
           x # "source" => p.source = q.source,
           x # "forward" => p.forward = q.forward,
           x # "destination" => p.destination = q.destination,
           x # "signature" => p.signature = q.signature,
           x # "ack" => Packet!ExtendedHeaderOf(p).ack = Packet!ExtendedHeaderOf(q).ack,
           x # "geoForward" =>
              Packet!ExtendedHeaderOf(p).geoForward = Packet!ExtendedHeaderOf(q).geoForward,
           x # "payload" => p.payload = q.payload
    PROVE  OneField(p, q)
<1>1. DOMAIN Packet!Fields(p) = FieldNames
  BY DEF Packet!Fields, FieldNames
<1>2. \A y \in FieldNames \ {x} : Packet!Fields(p)[y] = Packet!Fields(q)[y]
  BY DEF Packet!Fields, FieldNames
<1>3. QED
  BY <1>1, <1>2 DEF OneField

\* The setters, and what makes a frame of the packet or takes one.
PacketSetters ==
    \/ \E a \in Addresses : Packet!Source(a)
    \/ \E on \in BOOLEAN : Packet!Forward(on)
    \/ \E ackType \in {0, 1, 2} : Packet!Ack(ackType)
    \/ \E a \in Addresses : Packet!Destination(a)
    \/ \E s \in Signatures : Packet!Signature(s)
    \/ Packet!IsGeoForward
    \/ \E text \in Texts : Packet!Payload(Packet!Name(text))
    \/ \E text \in Texts, o \in SubHeaders : Packet!Payload(Packet!Message(o, text))
    \/ \E report \in Reports : Packet!Payload(report)
PacketFrames ==
    \/ Packet!Build
    \/ Packet!BuildAck
    \/ \E f \in Heard : Packet!Hear(f)
    \/ \E on \in BOOLEAN : Packet!SetForward(on)

(* A setter makes a packet the flags of which tell what follows, and        *)
(* changes one field.                                                       *)
LEMMA PacketSet ==
    ASSUME PacketInv, PacketSetters
    PROVE  packet' \in Packets /\ FlagsTell(packet') /\ OneField(packet, packet') /\ frame' = <<>>
<1> DEFINE e == Packet!ExtendedHeaderOf(packet)
<1>1. packet \in Packets /\ FlagsTell(packet)
  BY DEF PacketInv
<1>2. /\ e \in Packet!ExtendedHeaderValues
      /\ e.unicast = (packet.destination # {}) /\ e.signature = (packet.signature # {})
  BY <1>1, ExtendedHeaderKept
<1>3. /\ packet.destination \in Optionals(PacketAddresses)
      /\ packet.signature \in Optionals(PacketSignatures)
  BY <1>1 DEF Packets
<1>4. ASSUME NEW p, Packet!Change(p), p \in Packets, FlagsTell(p), OneField(packet, p)
      PROVE  packet' \in Packets /\ FlagsTell(packet') /\ OneField(packet, packet') /\ frame' = <<>>
  BY <1>4 DEF Packet!Change
<1>5. ASSUME NEW a \in Addresses, Packet!Source(a)
      PROVE  packet' \in Packets /\ FlagsTell(packet') /\ OneField(packet, packet') /\ frame' = <<>>
  <2> DEFINE p == [packet EXCEPT !.source = a]
  <2>1. p \in Packets
    BY <1>1, PacketInputs DEF Packets
  <2>2. /\ p.extended = packet.extended /\ p.extendedHeader = packet.extendedHeader
        /\ p.destination = packet.destination /\ p.signature = packet.signature
        /\ p.payload = packet.payload /\ p.type = packet.type /\ p.forward = packet.forward
    BY <1>1 DEF Packets
  <2>3. Packet!Change(p)
    BY <1>5 DEF Packet!Source
  <2> HIDE DEF p
  <2>4. FlagsTell(p)
    BY <1>1, <2>2 DEF FlagsTell
  <2>5. Packet!ExtendedHeaderOf(p) = e
    BY <2>2 DEF Packet!ExtendedHeaderOf
  <2>6. OneField(packet, p)
    <3>1. "source" \in FieldNames
      BY DEF FieldNames
    <3>2. QED
      BY <2>2, <2>5, <3>1, OneFieldIs
  <2>7. QED
    BY <1>4, <2>1, <2>3, <2>4, <2>6
<1>6. ASSUME NEW on \in BOOLEAN, Packet!Forward(on)
      PROVE  packet' \in Packets /\ FlagsTell(packet') /\ OneField(packet, packet') /\ frame' = <<>>
  <2> DEFINE p == [packet EXCEPT !.forward = on]
  <2>1. p \in Packets
    BY <1>1 DEF Packets
  <2>2. /\ p.extended = packet.extended /\ p.extendedHeader = packet.extendedHeader
        /\ p.destination = packet.destination /\ p.signature = packet.signature
        /\ p.payload = packet.payload /\ p.type = packet.type /\ p.source = packet.source
    BY <1>1 DEF Packets
  <2>3. Packet!Change(p)
    BY <1>6 DEF Packet!Forward
  <2> HIDE DEF p
  <2>4. FlagsTell(p)
    BY <1>1, <2>2 DEF FlagsTell
  <2>5. Packet!ExtendedHeaderOf(p) = e
    BY <2>2 DEF Packet!ExtendedHeaderOf
  <2>6. OneField(packet, p)
    <3>1. "forward" \in FieldNames
      BY DEF FieldNames
    <3>2. QED
      BY <2>2, <2>5, <3>1, OneFieldIs
  <2>7. QED
    BY <1>4, <2>1, <2>3, <2>4, <2>6
<1>7. ASSUME NEW x \in FieldNames, NEW n \in Packet!ExtendedHeaderValues,
             NEW D \in Optionals(PacketAddresses), NEW S \in Optionals(PacketSignatures),
             Marks(n, D, S),
             x \notin {"source", "forward", "payload"},
             x # "destination" => D = packet.destination,
             x # "signature" => S = packet.signature,
             x # "ack" => n.ack = e.ack, x # "geoForward" => n.geoForward = e.geoForward,
             Packet!Change(Anew(packet, n, D, S))
      PROVE  packet' \in Packets /\ FlagsTell(packet') /\ OneField(packet, packet') /\ frame' = <<>>
  <2> DEFINE p == Anew(packet, n, D, S)
  <2>1. p = Anew(packet, n, D, S) /\ Marks(n, D, S) /\ Packet!Change(p)
    BY <1>7
  <2> HIDE DEF p
  <2>2. /\ p \in Packets /\ FlagsTell(p) /\ p.extended
        /\ Packet!ExtendedHeaderOf(p) = n /\ p.destination = D /\ p.signature = S
        /\ p.source = packet.source /\ p.forward = packet.forward /\ p.payload = packet.payload
    BY <1>1, <2>1, ExtendedAnew
  <2>3. OneField(packet, p)
    BY <1>7, <2>2, OneFieldIs
  <2>4. QED
    BY <1>4, <2>1, <2>2, <2>3
<1>9. ASSUME NEW ackType \in {0, 1, 2}, Packet!Ack(ackType)
      PROVE  packet' \in Packets /\ FlagsTell(packet') /\ OneField(packet, packet') /\ frame' = <<>>
  <2>1. CASE ackType = 0
    <3>1. Packet!Change(packet)
      BY <1>9, <2>1 DEF Packet!Ack, Packet!NONE
    <3>2. OneField(packet, packet)
      BY OneFieldIs DEF FieldNames
    <3>3. QED
      BY <1>1, <1>4, <3>1, <3>2
  <2>2. CASE ackType # 0
    <3> DEFINE n == [e EXCEPT !.ack = ackType]
    <3>1. /\ n \in Packet!ExtendedHeaderValues /\ n.unicast = e.unicast /\ n.signature = e.signature
          /\ n.geoForward = e.geoForward
      BY <1>2 DEF Packet!ExtendedHeaderValues
    <3>2. Packet!Change([packet EXCEPT !.extendedHeader = {n}, !.extended = TRUE])
      BY <1>9, <2>2 DEF Packet!Ack, Packet!WithExtended, Packet!NONE
    <3> HIDE DEF n, e
    <3>3. [packet EXCEPT !.extendedHeader = {n}, !.extended = TRUE] =
             Anew(packet, n, packet.destination, packet.signature)
      BY <1>1 DEF Packets, Anew
    <3>4. "ack" \in FieldNames
      BY DEF FieldNames
    <3>5. Marks(n, packet.destination, packet.signature)
      BY <1>2, <3>1 DEF Marks
    <3>6. QED
      BY <1>3, <1>7, <3>1, <3>2, <3>3, <3>4, <3>5
  <2>3. QED
    BY <2>1, <2>2
<1>10. ASSUME NEW a \in Addresses, Packet!Destination(a)
       PROVE  packet' \in Packets /\ FlagsTell(packet') /\ OneField(packet, packet') /\ frame' = <<>>
  <2> DEFINE n == [e EXCEPT !.unicast = TRUE]
  <2>1. /\ n.unicast = TRUE /\ n.signature = e.signature
        /\ n.geoForward = e.geoForward /\ n.ack = e.ack
    BY <1>2 DEF Packet!ExtendedHeaderValues
  <2>2. n \in Packet!ExtendedHeaderValues
    <3>1. \A b \in BOOLEAN : [e EXCEPT !.unicast = b] \in Packet!ExtendedHeaderValues
      BY <1>2 DEF Packet!ExtendedHeaderValues
    <3>2. QED
      BY <3>1
  <2>3. Packet!Change([[packet EXCEPT !.extendedHeader = {n}, !.extended = TRUE]
                          EXCEPT !.destination = {a}])
    BY <1>10 DEF Packet!Destination, Packet!WithExtended
  <2> HIDE DEF n, e
  <2>4. [[packet EXCEPT !.extendedHeader = {n}, !.extended = TRUE] EXCEPT !.destination = {a}] =
           Anew(packet, n, {a}, packet.signature)
    BY <1>1 DEF Packets, Anew
  <2>5. {a} \in Optionals(PacketAddresses) /\ "destination" \in FieldNames
    BY PacketInputs DEF Optionals, FieldNames
  <2>6. Marks(n, {a}, packet.signature)
    BY <1>2, <2>1 DEF Marks
  <2>7. QED
    BY <1>3, <1>7, <2>1, <2>2, <2>3, <2>4, <2>5, <2>6
<1>11. ASSUME NEW s \in Signatures, Packet!Signature(s)
       PROVE  packet' \in Packets /\ FlagsTell(packet') /\ OneField(packet, packet') /\ frame' = <<>>
  <2> DEFINE n == [e EXCEPT !.signature = TRUE]
  <2>1. /\ n.unicast = e.unicast /\ n.signature = TRUE
        /\ n.geoForward = e.geoForward /\ n.ack = e.ack
    BY <1>2 DEF Packet!ExtendedHeaderValues
  <2>2. n \in Packet!ExtendedHeaderValues
    <3>1. \A b \in BOOLEAN : [e EXCEPT !.signature = b] \in Packet!ExtendedHeaderValues
      BY <1>2 DEF Packet!ExtendedHeaderValues
    <3>2. QED
      BY <3>1
  <2>3. Packet!Change([[packet EXCEPT !.extendedHeader = {n}, !.extended = TRUE]
                          EXCEPT !.signature = {s}])
    BY <1>11 DEF Packet!Signature, Packet!WithExtended
  <2> HIDE DEF n, e
  <2>4. [[packet EXCEPT !.extendedHeader = {n}, !.extended = TRUE] EXCEPT !.signature = {s}] =
           Anew(packet, n, packet.destination, {s})
    BY <1>1 DEF Packets, Anew
  <2>5. {s} \in Optionals(PacketSignatures) /\ "signature" \in FieldNames
    BY PacketInputs DEF Optionals, FieldNames
  <2>6. Marks(n, packet.destination, {s})
    BY <1>2, <2>1 DEF Marks
  <2>7. QED
    BY <1>3, <1>7, <2>1, <2>2, <2>3, <2>4, <2>5, <2>6
<1>12. ASSUME Packet!IsGeoForward
       PROVE  packet' \in Packets /\ FlagsTell(packet') /\ OneField(packet, packet') /\ frame' = <<>>
  <2> DEFINE n == [e EXCEPT !.geoForward = TRUE]
  <2>1. /\ n.unicast = e.unicast /\ n.signature = e.signature /\ n.ack = e.ack
    BY <1>2 DEF Packet!ExtendedHeaderValues
  <2>2. n \in Packet!ExtendedHeaderValues
    <3>1. \A b \in BOOLEAN : [e EXCEPT !.geoForward = b] \in Packet!ExtendedHeaderValues
      BY <1>2 DEF Packet!ExtendedHeaderValues
    <3>2. QED
      BY <3>1
  <2>3. Packet!Change([packet EXCEPT !.extendedHeader = {n}, !.extended = TRUE])
    BY <1>12 DEF Packet!IsGeoForward, Packet!WithExtended
  <2> HIDE DEF n, e
  <2>4. [packet EXCEPT !.extendedHeader = {n}, !.extended = TRUE] =
           Anew(packet, n, packet.destination, packet.signature)
    BY <1>1 DEF Packets, Anew
  <2>5. "geoForward" \in FieldNames
    BY DEF FieldNames
  <2>6. Marks(n, packet.destination, packet.signature)
    BY <1>2, <2>1 DEF Marks
  <2>7. QED
    BY <1>3, <1>7, <2>1, <2>2, <2>3, <2>4, <2>5, <2>6
<1>13. ASSUME NEW x \in PacketPayloads, Packet!Payload(x)
       PROVE  packet' \in Packets /\ FlagsTell(packet') /\ OneField(packet, packet') /\ frame' = <<>>
  <2> DEFINE p == [packet EXCEPT !.type = x.type, !.payload = {x}]
  <2>1. x.type \in 0 .. 63 /\ {x} \in Optionals(PacketPayloads)
    <3>1. x \in [type : {1, 2, 3, 4, 7}, body : Seq(Packet!Octets)]
      BY DEF PacketPayloads
    <3>2. x.type \in 0 .. 63
      BY <3>1
    <3>3. QED
      BY <3>2 DEF Optionals
  <2>2. p \in Packets
    BY <1>1, <2>1 DEF Packets
  <2>3. /\ p.extended = packet.extended /\ p.extendedHeader = packet.extendedHeader
        /\ p.destination = packet.destination /\ p.signature = packet.signature
        /\ p.payload = {x} /\ p.type = x.type
        /\ p.forward = packet.forward /\ p.source = packet.source
    BY <1>1 DEF Packets
  <2>4. Packet!Change(p)
    BY <1>13 DEF Packet!Payload
  <2> HIDE DEF p
  <2>5. FlagsTell(p)
    BY <1>1, <2>3 DEF FlagsTell
  <2>6. Packet!ExtendedHeaderOf(p) = e
    BY <2>3 DEF Packet!ExtendedHeaderOf
  <2>7. OneField(packet, p)
    <3>1. "payload" \in FieldNames
      BY DEF FieldNames
    <3>2. QED
      BY <2>3, <2>6, <3>1, OneFieldIs
  <2>8. QED
    BY <1>4, <2>2, <2>4, <2>5, <2>7
<1>14. QED
  BY <1>5, <1>6, <1>9, <1>10, <1>11, <1>12, <1>13, PacketInputs DEF PacketSetters

(* Two sequences that differ in the first octet alone are the same behind.  *)
LEMMA SameBehind ==
    ASSUME NEW f \in Seq(Packet!Octets), NEW g \in Seq(Packet!Octets), Len(g) = Len(f),
           \A i \in 2 .. Len(f) : g[i] = f[i],
           NEW a \in Nat, a >= 2, NEW b \in Nat, b <= Len(f)
    PROVE  SubSeq(g, a, b) = SubSeq(f, a, b)
<1>1. Len(f) \in Nat
  BY LenProperties
<1>2. /\ \A i \in a .. b : f[i] \in Packet!Octets
      /\ \A i \in a .. b : g[i] \in Packet!Octets
  BY <1>1, ElementOfSeq
<1>3. a \in Int /\ b \in Int
  OBVIOUS
<1> DEFINE s == SubSeq(f, a, b)
           t == SubSeq(g, a, b)
<1>4. /\ s \in Seq(Packet!Octets) /\ Len(s) = (IF a <= b THEN b - a + 1 ELSE 0)
      /\ \A i \in 1 .. b - a + 1 : s[i] = f[a + i - 1]
  BY <1>2, <1>3, SubSeqProperties
<1>5. /\ t \in Seq(Packet!Octets) /\ Len(t) = (IF a <= b THEN b - a + 1 ELSE 0)
      /\ \A i \in 1 .. b - a + 1 : t[i] = g[a + i - 1]
  BY <1>2, <1>3, SubSeqProperties
<1> HIDE DEF s, t
<1>6. ASSUME NEW i \in 1 .. Len(s)
      PROVE  t[i] = s[i]
  <2> DEFINE k == a + i - 1
  <2>1. k \in 2 .. Len(f) /\ i \in 1 .. b - a + 1
    BY <1>1, <1>4
  <2>2. s[i] = f[k] /\ t[i] = g[k]
    BY <1>4, <1>5, <2>1
  <2>3. g[k] = f[k]
    BY <2>1
  <2>4. QED
    BY <2>2, <2>3
<1>7. t = s
  BY <1>4, <1>5, <1>6, SeqEqual
<1>8. QED
  BY <1>7 DEF s, t

(* The forward bit is set in the first octet, and the others stay.          *)
LEMMA ForwardOctet ==
    ASSUME NEW f, Packet!Whole(f), NEW on \in BOOLEAN, NEW g, g = Packet!WithForward(f, on)
    PROVE  /\ g \in Seq(Packet!Octets) /\ Len(g) = Len(f)
           /\ \A i \in 2 .. Len(f) : g[i] = f[i]
           /\ Packet!Bit(g[1], 128) = Packet!Bit(f[1], 128)
           /\ Packet!Bit(g[1], 64) = on
           /\ g[1] % 64 = f[1] % 64
<1>1. f \in Seq(Packet!Octets) /\ Len(f) \in Nat /\ Len(f) >= 4
  <2>1. f \in Seq(Packet!Octets)
    BY DEF Packet!Whole
  <2>2. QED
    BY <2>1, LenProperties DEF Packet!Whole
<1>2. f[1] \in Packet!Octets
  BY <1>1, ElementOfSeq
<1>3. \A o \in 0 .. 255 : \E a \in 0 .. 1, b \in 0 .. 1, c \in 0 .. 63 : o = 128 * a + 64 * b + c
  <2> TAKE o \in 0 .. 255
  <2> WITNESS o \div 128 \in 0 .. 1, (o \div 64) % 2 \in 0 .. 1, o % 64 \in 0 .. 63
  <2>1. QED
    OBVIOUS
<1>4. \A a \in 0 .. 1, b \in 0 .. 1, t \in 0 .. 63 :
         LET o == 128 * a + 64 * b + t
         IN  /\ o \in 0 .. 255 /\ (o \div 128) % 2 = a /\ (o \div 64) % 2 = b
             /\ o % 64 = t
  OBVIOUS
<1>5. PICK a \in 0 .. 1, b \in 0 .. 1, c \in 0 .. 63 : f[1] = 128 * a + 64 * b + c
  BY <1>2, <1>3 DEF Packet!Octets
<1> DEFINE d == IF on THEN 1 ELSE 0
           o == 128 * a + 64 * d + c
<1>6. d \in 0 .. 1 /\ (d = 1) = on
  OBVIOUS
<1>7. /\ (f[1] \div 128) % 2 = a /\ (f[1] \div 64) % 2 = b /\ f[1] % 64 = c
  BY <1>4, <1>5
<1>8. f[1] - Packet!Weight(Packet!FrameForward(f), 64) + Packet!Weight(on, 64) = o
  <2>1. Packet!Weight(Packet!FrameForward(f), 64) = 64 * b
    BY <1>7 DEF Packet!Weight, Packet!FrameForward, Packet!Bit
  <2>2. Packet!Weight(on, 64) = 64 * d
    BY DEF Packet!Weight
  <2>3. QED
    BY <1>5, <1>6, <2>1, <2>2
<1> HIDE DEF d
<1>9. o \in 0 .. 255 /\ (o \div 128) % 2 = a /\ (o \div 64) % 2 = d /\ o % 64 = c
  BY <1>4, <1>6
<1> HIDE DEF o
<1>10. g = [f EXCEPT ![1] = o]
  BY <1>8 DEF Packet!WithForward
<1>11. g \in Seq(Packet!Octets) /\ Len(g) = Len(f)
  <2>1. o \in Packet!Octets
    BY <1>9 DEF Packet!Octets
  <2>2. QED
    BY <1>1, <1>10, <2>1
<1>12. g[1] = o /\ \A i \in 2 .. Len(f) : g[i] = f[i]
  BY <1>1, <1>10
<1>13. QED
  BY <1>6, <1>7, <1>9, <1>11, <1>12 DEF Packet!Bit

(* A frame with another forward bit is whole, and the bit is all that is    *)
(* parsed differently of it.                                                *)
LEMMA ForwardParsed ==
    ASSUME NEW f, Packet!Whole(f), NEW on \in BOOLEAN
    PROVE  /\ Packet!Whole(Packet!WithForward(f, on))
           /\ Packet!Parsed(Packet!WithForward(f, on)) = [Packet!Parsed(f) EXCEPT !.forward = on]
<1> DEFINE g == Packet!WithForward(f, on)
<1>1. /\ g \in Seq(Packet!Octets) /\ Len(g) = Len(f)
      /\ \A i \in 2 .. Len(f) : g[i] = f[i]
      /\ Packet!Bit(g[1], 128) = Packet!Bit(f[1], 128)
      /\ Packet!Bit(g[1], 64) = on
      /\ g[1] % 64 = f[1] % 64
  BY ForwardOctet
<1> HIDE DEF g
<1>2. /\ f \in Seq(Packet!Octets) /\ Len(f) \in Nat /\ Len(f) >= 4
      /\ Packet!IsExtended(f) => Len(f) >= 5
  <2>1. f \in Seq(Packet!Octets)
    BY DEF Packet!Whole
  <2>2. QED
    BY <2>1, LenProperties DEF Packet!Whole
<1>3. /\ Packet!IsExtended(g) = Packet!IsExtended(f)
      /\ Packet!IsUnicast(g) = Packet!IsUnicast(f) /\ Packet!IsSigned(g) = Packet!IsSigned(f)
  <2>1. Packet!IsExtended(g) = Packet!IsExtended(f)
    BY <1>1 DEF Packet!IsExtended
  <2>2. CASE Packet!IsExtended(f)
    <3>1. g[5] = f[5]
      BY <1>1, <1>2, <2>2
    <3>2. QED
      BY <2>1, <3>1 DEF Packet!IsUnicast, Packet!IsSigned
  <2>3. CASE ~Packet!IsExtended(f)
    BY <2>1, <2>3 DEF Packet!IsUnicast, Packet!IsSigned
  <2>4. QED
    BY <2>1, <2>2, <2>3
<1> DEFINE n == Packet!HeaderSize(f)
           u == Packet!Weight(Packet!IsUnicast(f), 3)
<1>4. Packet!HeaderSize(g) = n /\ n \in Nat /\ n >= 4 /\ Len(f) >= n
  <2>1. Packet!HeaderSize(g) = n
    BY <1>3 DEF Packet!HeaderSize
  <2>2. n \in Nat /\ n >= 4
    BY DEF Packet!HeaderSize, Packet!Weight
  <2>3. QED
    BY <2>1, <2>2 DEF Packet!Whole
<1>5. Packet!Whole(g)
  BY <1>1, <1>2, <1>3, <1>4 DEF Packet!Whole
<1>6. u \in {0, 3} /\ (Packet!IsUnicast(f) => u = 3 /\ n >= 8)
      /\ (Packet!IsSigned(f) => n >= 6 + u + 3)
  BY DEF Packet!HeaderSize, Packet!Weight, Packet!IsUnicast, Packet!IsSigned
<1> HIDE DEF n, u
<1>7. SubSeq(g, n + 1, Len(g)) = SubSeq(f, n + 1, Len(f))
  <2> DEFINE a == n + 1
  <2>1. a \in Nat /\ a >= 2
    BY <1>4
  <2> HIDE DEF a
  <2>2. SubSeq(g, a, Len(f)) = SubSeq(f, a, Len(f))
    BY <1>1, <1>2, <2>1, SameBehind, SMTT(40)
  <2>3. QED
    BY <1>1, <2>2 DEF a
<1>8. Packet!IsSigned(f) => SubSeq(g, 6 + u, 6 + u + 3) = SubSeq(f, 6 + u, 6 + u + 3)
  <2> HAVE Packet!IsSigned(f)
  <2> DEFINE a == 6 + u
             b == 6 + u + 3
  <2>1. a \in Nat /\ a >= 2 /\ b \in Nat /\ b <= Len(f)
    BY <1>2, <1>4, <1>6
  <2> HIDE DEF a, b
  <2>2. SubSeq(g, a, b) = SubSeq(f, a, b)
    BY <1>1, <1>2, <2>1, SameBehind
  <2>3. QED
    BY <2>2 DEF a, b
<1>9. /\ Packet!AddressAt(g, 2) = Packet!AddressAt(f, 2)
      /\ Packet!IsUnicast(f) => Packet!AddressAt(g, 6) = Packet!AddressAt(f, 6)
      /\ Packet!IsExtended(f) => Packet!ExtendedAt(g, 5) = Packet!ExtendedAt(f, 5)
  <2>1. g[2] = f[2] /\ g[3] = f[3] /\ g[4] = f[4]
    BY <1>1, <1>2
  <2>2. Packet!AddressAt(g, 2) = Packet!AddressAt(f, 2)
    BY <2>1 DEF Packet!AddressAt
  <2>3. Packet!IsUnicast(f) => g[6] = f[6] /\ g[7] = f[7] /\ g[8] = f[8]
    BY <1>1, <1>2, <1>4, <1>6
  <2>4. Packet!IsUnicast(f) => Packet!AddressAt(g, 6) = Packet!AddressAt(f, 6)
    BY <2>3 DEF Packet!AddressAt
  <2>5. Packet!IsExtended(f) => g[5] = f[5]
    BY <1>1, <1>2
  <2>6. Packet!IsExtended(f) => Packet!ExtendedAt(g, 5) = Packet!ExtendedAt(f, 5)
    BY <2>5 DEF Packet!ExtendedAt
  <2>7. QED
    BY <2>2, <2>4, <2>6
<1> DEFINE t == f[1] % 64
           E == IF Packet!IsExtended(f) THEN {Packet!ExtendedAt(f, 5)} ELSE {}
           D == IF Packet!IsUnicast(f) THEN {Packet!AddressAt(f, 6)} ELSE {}
           S == IF Packet!IsSigned(f) THEN {Packet!Reverse(SubSeq(f, 6 + u, 6 + u + 3))} ELSE {}
           P == Packet!ParsedPayload(t, SubSeq(f, n + 1, Len(f)))
<1>10. Packet!Parsed(f) =
         [extended |-> Packet!IsExtended(f), forward |-> Packet!Bit(f[1], 64), type |-> t,
          source |-> Packet!AddressAt(f, 2), extendedHeader |-> E, destination |-> D,
          signature |-> S, payload |-> P]
  BY DEF Packet!Parsed, u, n
<1>11. Packet!Parsed(g) =
         [extended |-> Packet!IsExtended(f), forward |-> on, type |-> t,
          source |-> Packet!AddressAt(f, 2), extendedHeader |-> E, destination |-> D,
          signature |-> S, payload |-> P]
  <2> DEFINE F == IF Packet!IsExtended(g) THEN {Packet!ExtendedAt(g, 5)} ELSE {}
             B == IF Packet!IsUnicast(g) THEN {Packet!AddressAt(g, 6)} ELSE {}
             v == Packet!Weight(Packet!IsUnicast(g), 3)
             R == IF Packet!IsSigned(g) THEN {Packet!Reverse(SubSeq(g, 6 + v, 6 + v + 3))} ELSE {}
             Q == Packet!ParsedPayload(g[1] % 64, SubSeq(g, Packet!HeaderSize(g) + 1, Len(g)))
  <2>1. Packet!Parsed(g) =
         [extended |-> Packet!IsExtended(g), forward |-> Packet!Bit(g[1], 64), type |-> g[1] % 64,
          source |-> Packet!AddressAt(g, 2), extendedHeader |-> F, destination |-> B,
          signature |-> R, payload |-> Q]
    BY DEF Packet!Parsed
  <2>2. F = E /\ B = D
    BY <1>3, <1>9
  <2>3. v = u
    BY <1>3 DEF u
  <2>4. R = S
    BY <1>3, <1>8, <2>3
  <2>5. Q = P
    BY <1>1, <1>4, <1>7
  <2> HIDE DEF F, B, R, Q, v
  <2>6. QED
    BY <1>1, <1>3, <1>9, <2>1, <2>2, <2>4, <2>5
<1> HIDE DEF t, E, D, S, P
<1>12. \A X \in BOOLEAN : [Packet!Parsed(f) EXCEPT !.forward = X] =
         [extended |-> Packet!IsExtended(f), forward |-> X, type |-> t,
          source |-> Packet!AddressAt(f, 2), extendedHeader |-> E, destination |-> D,
          signature |-> S, payload |-> P]
  BY <1>10
<1>13. Packet!Parsed(g) = [Packet!Parsed(f) EXCEPT !.forward = on]
  BY <1>11, <1>12
<1>14. QED
  BY <1>5, <1>13 DEF g

(* Every step leaves a packet the flags of which tell what follows and a    *)
(* whole frame; but for the parser, it changes one field of the packet.     *)
LEMMA PacketStep ==
    ASSUME PacketInv, Packet!Next
    PROVE  PacketInv' /\ Packet!OneFieldAtATime
<1>1. packet \in Packets /\ FlagsTell(packet) /\ (frame = <<>> \/ Packet!Whole(frame))
  BY DEF PacketInv
<1>2. OneField(packet, packet')  => Packet!OneFieldAtATime
  BY DEF OneField, Packet!OneFieldAtATime
<1>3. OneField(packet, packet)
  BY OneFieldIs DEF FieldNames
<1>4. CASE PacketSetters
  BY <1>2, <1>4, PacketSet DEF PacketInv
<1>5. ASSUME packet' = packet, Packet!Whole(frame') \/ frame' = <<>>
      PROVE  PacketInv' /\ Packet!OneFieldAtATime
  BY <1>1, <1>2, <1>3, <1>5 DEF PacketInv
<1>6. CASE Packet!Build
  <2>1. packet' = packet /\ frame' = Packet!Built(packet)
    BY <1>6 DEF Packet!Build
  <2>2. QED
    BY <1>1, <1>5, <2>1, PacketBuilt
<1>7. CASE Packet!BuildAck
  <2> DEFINE p == [packet EXCEPT !.type = 0]
  <2>1. packet' = p /\ frame' = Packet!HeaderOctets(p)
    BY <1>7 DEF Packet!BuildAck, Packet!ACK
  <2>2. Packet!Whole(Packet!HeaderOctets(p))
    BY <1>1, PacketBuilt
  <2>3. p \in Packets /\ p.type = 0
    BY <1>1 DEF Packets
  <2>4. /\ p.extended = packet.extended /\ p.extendedHeader = packet.extendedHeader
        /\ p.destination = packet.destination /\ p.signature = packet.signature
        /\ p.payload = packet.payload /\ p.source = packet.source /\ p.forward = packet.forward
    BY <1>1 DEF Packets
  <2> HIDE DEF p
  <2>5. FlagsTell(p)
    BY <1>1, <2>3, <2>4 DEF FlagsTell
  <2>6. Packet!ExtendedHeaderOf(p) = Packet!ExtendedHeaderOf(packet)
    BY <2>4 DEF Packet!ExtendedHeaderOf
  <2>7. OneField(packet, p)
    <3>1. "payload" \in FieldNames
      BY DEF FieldNames
    <3>2. QED
      BY <2>4, <2>6, <3>1, OneFieldIs
  <2>8. QED
    BY <1>2, <2>1, <2>2, <2>3, <2>5, <2>7 DEF PacketInv
<1>8. CASE \E f \in Heard : Packet!Hear(f)
  <2>1. PICK f \in Heard : frame' = f /\ packet' = packet
    BY <1>8 DEF Packet!Hear
  <2>2. QED
    BY <1>5, <2>1, PacketInputs
<1>9. CASE Packet!Parse
  <2>1. packet' = Packet!Parsed(frame) /\ frame' = frame /\ Packet!Whole(frame)
    BY <1>1, <1>9 DEF Packet!Parse
  <2>2. packet' \in Packets /\ FlagsTell(packet')
    BY <2>1, ParsedWhole
  <2>3. QED
    BY <1>9, <2>1, <2>2 DEF PacketInv, Packet!OneFieldAtATime
<1>10. CASE \E on \in BOOLEAN : Packet!SetForward(on)
  <2>1. PICK on \in BOOLEAN :
           frame # <<>> /\ frame' = Packet!WithForward(frame, on) /\ packet' = packet
    BY <1>10 DEF Packet!SetForward
  <2>2. QED
    BY <1>1, <1>5, <2>1, ForwardParsed
<1>11. PacketSetters \/ PacketFrames \/ Packet!Parse
  BY DEF Packet!Next, PacketSetters, PacketFrames, Packet!NONE, Packet!SINGLEHOP, Packet!TWOHOP
<1>12. QED
  BY <1>4, <1>6, <1>7, <1>8, <1>9, <1>10, <1>11 DEF PacketFrames

(* A relay changes the forward bit in the buffer and nothing else.          *)
LEMMA PacketForwardBit ==
    ASSUME PacketInv
    PROVE  Packet!ForwardBitAlone
<1> SUFFICES ASSUME NEW on \in BOOLEAN, Packet!SetForward(on)
             PROVE  Packet!Parsed(frame') = [Packet!Parsed(frame) EXCEPT !.forward = on]
  BY DEF Packet!ForwardBitAlone
<1>1. Packet!Whole(frame) /\ frame' = Packet!WithForward(frame, on)
  BY DEF PacketInv, Packet!SetForward
<1>2. QED
  BY <1>1, ForwardParsed

(* The flags of the packet tell what follows. *)
LEMMA PacketTypeOK ==
    ASSUME PacketInv
    PROVE  Packet!TypeOK
<1>1. packet \in Packets /\ FlagsTell(packet) /\ (frame = <<>> \/ Packet!Whole(frame))
  BY DEF PacketInv
<1>2. packet.extendedHeader \subseteq Packet!ExtendedHeaderValues
  BY <1>1 DEF Packets, Optionals
<1>3. frame \in Seq(Packet!Octets)
  <2>1. <<>> \in Seq(Packet!Octets)
    OBVIOUS
  <2>2. Packet!Whole(frame) => frame \in Seq(Packet!Octets)
    BY DEF Packet!Whole
  <2>3. QED
    BY <1>1, <2>1, <2>2
<1>4. QED
  BY <1>1, <1>2, <1>3 DEF FlagsTell, Packet!TypeOK, Packet!ACK

(* The pool takes the payload from where the parser's header ends.          *)
LEMMA SamePayload ==
    ASSUME NEW f, Packet!Whole(f)
    PROVE  Packet!FramePayload(f) = SubSeq(f, Packet!HeaderSize(f) + 1, Len(f))
<1> DEFINE x == Packet!Bit(f[1], 128)
           u == x /\ Packet!Bit(f[5], 32)
           g == x /\ Packet!Bit(f[5], 16)
           bits == Packet!Weight(x, 4) + Packet!Weight(u, 2) + Packet!Weight(g, 1)
<1>1. Packet!HeaderSize(f) = 4 + Packet!Weight(x, 1) + Packet!Weight(u, 3) + Packet!Weight(g, 4)
  BY DEF Packet!HeaderSize, Packet!IsExtended, Packet!IsUnicast, Packet!IsSigned
<1>2. Packet!FramePayload(f) = SubSeq(f, Packet!PayloadPosition[bits + 1] + 1, Len(f))
  BY DEF Packet!FramePayload
<1>3. x \in BOOLEAN /\ u \in BOOLEAN /\ g \in BOOLEAN /\ (u => x) /\ (g => x)
  BY DEF Packet!Bit
<1> HIDE DEF x, u, g
<1>4. Packet!PayloadPosition[bits + 1] = Packet!HeaderSize(f)
  <2>1. CASE ~x
    <3>1. bits = 0 /\ Packet!HeaderSize(f) = 4
      BY <1>1, <1>3, <2>1 DEF Packet!Weight
    <3>2. QED
      BY <3>1 DEF Packet!PayloadPosition
  <2>2. CASE x /\ ~u /\ ~g
    <3>1. bits = 4 /\ Packet!HeaderSize(f) = 5
      BY <1>1, <1>3, <2>2 DEF Packet!Weight
    <3>2. QED
      BY <3>1 DEF Packet!PayloadPosition
  <2>3. CASE x /\ ~u /\ g
    <3>1. bits = 5 /\ Packet!HeaderSize(f) = 9
      BY <1>1, <1>3, <2>3 DEF Packet!Weight
    <3>2. QED
      BY <3>1 DEF Packet!PayloadPosition
  <2>4. CASE x /\ u /\ ~g
    <3>1. bits = 6 /\ Packet!HeaderSize(f) = 8
      BY <1>1, <1>3, <2>4 DEF Packet!Weight
    <3>2. QED
      BY <3>1 DEF Packet!PayloadPosition
  <2>5. CASE x /\ u /\ g
    <3>1. bits = 7 /\ Packet!HeaderSize(f) = 12
      BY <1>1, <1>3, <2>5 DEF Packet!Weight
    <3>2. QED
      BY <3>1 DEF Packet!PayloadPosition
  <2>6. QED
    BY <1>3, <2>1, <2>2, <2>3, <2>4, <2>5
<1>5. QED
  BY <1>2, <1>4

\* What is read of a payload's octets: as much as its object has room for.
Fitting(octets, room) == SubSeq(octets, 1, IF Len(octets) <= room THEN Len(octets) ELSE room)

(* The payload that is parsed has the octets that are there, as far as they *)
(* fit.                                                                     *)
LEMMA PayloadFits ==
    ASSUME NEW type \in 0 .. 63, NEW octets \in Seq(Packet!Octets), octets # <<>>,
           NEW room, type = 2 => room = MaxFrameSize, type = 3 => room = MaxFrameSize + 1,
           type \notin {2, 3} => room = Len(octets),
           NEW x \in Packet!ParsedPayload(type, octets)
    PROVE  x.body = Fitting(octets, room)
<1> USE DEF Packet!TRACKING, Packet!SERVICE, Packet!GROUND_TRACKING, Packet!NAME, Packet!MESSAGE
<1>1. MaxFrameSize \in Nat
  BY InputsAreLegal DEF Packet!InputsAssumption
<1>2. CASE type = 2
  <2>1. x = Packet!Name(octets) /\ room = MaxFrameSize
    BY <1>2 DEF Packet!ParsedPayload, Packet!ParsedName
  <2>2. x.body = Packet!Cut(octets)
    BY <2>1 DEF Packet!Name
  <2>3. Len(octets) \in Nat
    BY LenProperties
  <2>4. (IF Len(octets) < MaxFrameSize THEN Len(octets) ELSE MaxFrameSize) =
          (IF Len(octets) <= room THEN Len(octets) ELSE room)
    BY <1>1, <2>1, <2>3
  <2>5. QED
    BY <2>2, <2>4 DEF Packet!Cut, Fitting
<1>3. CASE type = 3
  <2> DEFINE h == <<Head(octets)>>
             t == Tail(octets)
             c == Packet!Cut(t)
             b == h \o c
             n == IF Len(t) < MaxFrameSize THEN Len(t) ELSE MaxFrameSize
             m == IF Len(octets) <= room THEN Len(octets) ELSE room
             w == SubSeq(octets, 1, m)
  <2>1. x = Packet!Message(Head(octets), Tail(octets)) /\ room = MaxFrameSize + 1
    BY <1>3 DEF Packet!ParsedPayload, Packet!ParsedMessage
  <2>2. x.body = b
    BY <2>1 DEF Packet!Message
  <2>3. /\ Head(octets) \in Packet!Octets /\ t \in Seq(Packet!Octets) /\ Len(t) = Len(octets) - 1
        /\ Head(octets) = octets[1]
        /\ \A i \in 1 .. Len(t) : t[i] = octets[i + 1]
    <3>1. /\ Head(octets) \in Packet!Octets /\ t \in Seq(Packet!Octets)
          /\ Len(t) = Len(octets) - 1
      BY HeadAndTail
    <3>2. \A i \in 1 .. Len(t) : t[i] = octets[i + 1]
      BY HeadTailProperties
    <3>3. QED
      BY <3>1, <3>2
  <2>4. Len(octets) \in Nat /\ Len(octets) >= 1 /\ \A i \in 1 .. Len(octets) : octets[i] \in Packet!Octets
    BY LenProperties, EmptySeq, ElementOfSeq
  <2>5. n \in Nat /\ n <= Len(t) /\ m = n + 1 /\ m \in Nat /\ m <= Len(octets)
    <3>1. Len(t) \in Nat /\ Len(octets) = Len(t) + 1 /\ room = MaxFrameSize + 1
      BY <2>1, <2>3, <2>4
    <3>2. \A i \in Nat, k \in Nat :
             LET low == IF i < k THEN i ELSE k
                 high == IF i + 1 <= k + 1 THEN i + 1 ELSE k + 1
             IN  low \in Nat /\ low <= i /\ high = low + 1 /\ high \in Nat /\ high <= i + 1
      OBVIOUS
    <3> HIDE DEF t
    <3>3. QED
      BY <1>1, <3>1, <3>2
  <2>6. c = SubSeq(t, 1, n)
    BY DEF Packet!Cut
  <2>7. h \in Seq(Packet!Octets) /\ Len(h) = 1 /\ h[1] = octets[1]
    BY <2>3
  <2>8. b = h \o c
    OBVIOUS
  <2> HIDE DEF h, t, c, b, n, m
  <2>9. /\ c \in Seq(Packet!Octets) /\ Len(c) = n
        /\ \A i \in 1 .. n : c[i] = t[i]
    <3>1. \A i \in 1 .. n : t[i] \in Packet!Octets
      BY <2>3, <2>5, ElementOfSeq
    <3>2. 1 \in Int /\ n \in Int
      BY <2>5
    <3>3. /\ SubSeq(t, 1, n) \in Seq(Packet!Octets)
          /\ Len(SubSeq(t, 1, n)) = (IF 1 <= n THEN n - 1 + 1 ELSE 0)
          /\ \A i \in 1 .. n - 1 + 1 : SubSeq(t, 1, n)[i] = t[1 + i - 1]
      BY <3>1, <3>2, SubSeqProperties
    <3>4. n - 1 + 1 = n /\ \A i \in 1 .. n : 1 + i - 1 = i
      BY <2>5
    <3>5. QED
      BY <2>5, <2>6, <3>3, <3>4
  <2>10. /\ b \in Seq(Packet!Octets) /\ Len(b) = 1 + n
         /\ b[1] = octets[1]
         /\ \A i \in 1 .. n : b[1 + i] = c[i]
    <3>1. h \in Seq(Packet!Octets) /\ c \in Seq(Packet!Octets)
      BY <2>7, <2>9
    <3>2. /\ b \in Seq(Packet!Octets) /\ Len(b) = Len(h) + Len(c)
          /\ \A i \in 1 .. Len(h) : b[i] = h[i]
          /\ \A i \in 1 .. Len(c) : b[Len(h) + i] = c[i]
      BY <2>8, <3>1, Joined
    <3>3. QED
      BY <2>5, <2>7, <2>9, <3>2
  <2>11. /\ w \in Seq(Packet!Octets) /\ Len(w) = m
         /\ \A i \in 1 .. m : w[i] = octets[i]
    <3>1. \A i \in 1 .. m : octets[i] \in Packet!Octets
      BY <2>4, <2>5
    <3>2. 1 \in Int /\ m \in Int
      BY <2>5
    <3>3. /\ SubSeq(octets, 1, m) \in Seq(Packet!Octets)
          /\ Len(SubSeq(octets, 1, m)) = (IF 1 <= m THEN m - 1 + 1 ELSE 0)
          /\ \A i \in 1 .. m - 1 + 1 : SubSeq(octets, 1, m)[i] = octets[1 + i - 1]
      BY <3>1, <3>2, SubSeqProperties
    <3>4. m - 1 + 1 = m /\ \A i \in 1 .. m : 1 + i - 1 = i
      BY <2>5
    <3>5. QED
      BY <2>5, <3>3, <3>4
  <2> HIDE DEF w
  <2>12. ASSUME NEW i \in 1 .. Len(w)
         PROVE  b[i] = w[i]
    <3>1. CASE i = 1
      BY <2>10, <2>11, <3>1
    <3>2. CASE i # 1
      <4> DEFINE k == i - 1
      <4>1. k \in 1 .. n /\ i = 1 + k /\ k \in 1 .. Len(t) /\ k + 1 = i
        BY <2>5, <2>11, <3>2
      <4> HIDE DEF k
      <4>2. b[1 + k] = c[k] /\ c[k] = t[k] /\ t[k] = octets[k + 1]
        BY <2>3, <2>9, <2>10, <4>1 DEF t
      <4>3. w[i] = octets[i]
        BY <2>11
      <4>4. QED
        BY <4>1, <4>2, <4>3
    <3>3. QED
      BY <3>1, <3>2
  <2>13. b = w
    BY <2>5, <2>10, <2>11, <2>12, SeqEqual
  <2>14. QED
    BY <2>2, <2>13 DEF w, m, Fitting
<1>4. CASE type \notin {2, 3}
  <2>1. x.body = octets /\ room = Len(octets)
    <3>1. x = [type |-> type, body |-> octets]
      BY <1>4 DEF Packet!ParsedPayload
    <3>2. QED
      BY <1>4, <3>1
  <2>2. Len(octets) \in Nat
    BY LenProperties
  <2>3. SubSeq(octets, 1, Len(octets)) = octets
    BY SubSeqFull
  <2>4. QED
    BY <2>1, <2>2, <2>3 DEF Fitting
<1>5. QED
  BY <1>2, <1>3, <1>4

(* The pool's frame and the parser read the same of the same octets.        *)
LEMMA PacketPoolReads ==
    ASSUME PacketInv
    PROVE  Packet!PoolReadsWhatTheParserReads
<1> SUFFICES ASSUME frame # <<>>, Packet!Whole(frame)
             PROVE  Packet!PoolReadsWhatTheParserReads
  BY DEF PacketInv, Packet!PoolReadsWhatTheParserReads
<1> DEFINE p == Packet!Parsed(frame)
           octets == Packet!FramePayload(frame)
<1>1. /\ p.extended = Packet!IsExtended(frame) /\ p.forward = Packet!Bit(frame[1], 64)
      /\ p.type = frame[1] % 64 /\ p.source = Packet!AddressAt(frame, 2)
      /\ p.extendedHeader =
           IF Packet!IsExtended(frame) THEN {Packet!ExtendedAt(frame, 5)} ELSE {}
      /\ p.destination = IF Packet!IsUnicast(frame) THEN {Packet!AddressAt(frame, 6)} ELSE {}
      /\ p.payload = Packet!ParsedPayload(p.type, octets)
  BY SamePayload DEF Packet!Parsed
<1>2. p.type \in 0 .. 63 /\ octets \in Seq(Packet!Octets) /\ Len(octets) <= Len(frame)
  <2>1. frame \in Seq(Packet!Octets) /\ Len(frame) >= 4 /\ Len(frame) >= Packet!HeaderSize(frame)
    BY DEF Packet!Whole
  <2>2. Len(frame) \in Nat /\ \A i \in 1 .. Len(frame) : frame[i] \in Packet!Octets
    BY <2>1, LenProperties, ElementOfSeq
  <2>3. \A o \in Packet!Octets : o % 64 \in 0 .. 63
    BY DEF Packet!Octets
  <2>4. p.type \in 0 .. 63
    <3>1. frame[1] \in Packet!Octets
      BY <2>1, <2>2
    <3>2. QED
      BY <1>1, <2>3, <3>1
  <2> DEFINE a == Packet!HeaderSize(frame) + 1
             b == Len(frame)
  <2>5. a \in Int /\ a >= 1 /\ b \in Int /\ a <= b + 1
    <3>1. Packet!HeaderSize(frame) \in Nat
      BY DEF Packet!HeaderSize, Packet!Weight
    <3>2. QED
      BY <2>1, <2>2, <3>1
  <2>6. octets = SubSeq(frame, a, b)
    BY SamePayload
  <2>7. \A i \in a .. b : frame[i] \in Packet!Octets
    BY <2>2, <2>5
  <2> HIDE DEF a, b, octets
  <2>8. octets \in Seq(Packet!Octets) /\ Len(octets) = (IF a <= b THEN b - a + 1 ELSE 0)
    BY <2>5, <2>6, <2>7, SubSeqProperties
  <2>9. Len(octets) <= b
    BY <2>2, <2>5, <2>8 DEF b
  <2>10. QED
    BY <2>4, <2>8, <2>9 DEF b
<1> HIDE DEF p, octets
<1>3. /\ Packet!FrameSource(frame) = p.source /\ Packet!FrameType(frame) = p.type
      /\ Packet!FrameForward(frame) = p.forward
  BY <1>1 DEF Packet!FrameSource, Packet!FrameType, Packet!FrameForward
<1>4. {Packet!FrameAckType(frame)} =
        IF p.extended THEN {e.ack : e \in p.extendedHeader} ELSE {Packet!NONE}
  <2>1. CASE Packet!IsExtended(frame)
    <3>1. p.extendedHeader = {Packet!ExtendedAt(frame, 5)} /\ p.extended
      BY <1>1, <2>1
    <3>2. Packet!ExtendedAt(frame, 5).ack = frame[5] \div 64
      BY DEF Packet!ExtendedAt
    <3>3. Packet!FrameAckType(frame) = frame[5] \div 64
      BY <2>1 DEF Packet!FrameAckType, Packet!IsExtended
    <3>4. QED
      BY <3>1, <3>2, <3>3
  <2>2. CASE ~Packet!IsExtended(frame)
    BY <1>1, <2>2 DEF Packet!FrameAckType, Packet!IsExtended
  <2>3. QED
    BY <2>1, <2>2
<1>5. {Packet!FrameDestination(frame)} =
        IF p.destination = {} THEN {Packet!NoAddress} ELSE p.destination
  BY <1>1 DEF Packet!FrameDestination, Packet!IsUnicast, Packet!IsExtended
<1>6. ASSUME NEW x \in p.payload, octets # <<>>
      PROVE  x.body = SubSeq(octets, 1, IF Len(octets) <= Packet!Room(p.type)
                                        THEN Len(octets) ELSE Packet!Room(p.type))
  <2>1. CASE p.type \in {2, 3}
    <3> DEFINE room == Packet!Room(p.type)
    <3>1. /\ p.type = 2 => room = MaxFrameSize
          /\ p.type = 3 => room = MaxFrameSize + 1
          /\ p.type \notin {2, 3} => room = Len(octets)
      BY <2>1 DEF Packet!Room, Packet!NAME, Packet!MESSAGE
    <3> HIDE DEF room
    <3>2. x.body = Fitting(octets, room)
      BY <1>1, <1>2, <1>6, <3>1, PayloadFits, ZenonT(60)
    <3>3. QED
      BY <3>2 DEF Fitting, room
  <2>2. CASE p.type \notin {2, 3}
    <3> DEFINE room == Len(octets)
    <3>1. /\ p.type = 2 => room = MaxFrameSize
          /\ p.type = 3 => room = MaxFrameSize + 1
          /\ p.type \notin {2, 3} => room = Len(octets)
      BY <2>2
    <3> HIDE DEF room
    <3>2. x.body = Fitting(octets, room)
      BY <1>1, <1>2, <1>6, <3>1, PayloadFits, ZenonT(60)
    <3>3. Packet!Room(p.type) = Len(frame)
      BY <2>2 DEF Packet!Room, Packet!NAME, Packet!MESSAGE
    <3>4. Len(octets) \in Nat /\ Len(octets) <= Len(frame)
      BY <1>2, LenProperties
    <3>5. Len(frame) \in Nat
      <4>1. frame \in Seq(Packet!Octets)
        BY DEF Packet!Whole
      <4>2. QED
        BY <4>1, LenProperties
    <3>6. QED
      BY <3>2, <3>3, <3>4, <3>5 DEF Fitting, room
  <2>3. QED
    BY <2>1, <2>2
<1>7. QED
  BY <1>3, <1>4, <1>5, <1>6 DEF Packet!PoolReadsWhatTheParserReads, p, octets


(* A new packet.                                                            *)
LEMMA PacketInit ==
    ASSUME Packet!Init
    PROVE  PacketInv
<1>1. /\ frame = <<>>
      /\ packet = [extended |-> FALSE, forward |-> FALSE, type |-> 0, source |-> Packet!NoAddress,
                   extendedHeader |-> {}, destination |-> {}, signature |-> {}, payload |-> {}]
  BY DEF Packet!Init, Packet!ACK
<1>2. Packet!NoAddress \in PacketAddresses
  BY DEF Packet!NoAddress, PacketAddresses, Packet!Octets
<1>3. \A S : {} \in Optionals(S)
  BY DEF Optionals
<1>4. \A b \in BOOLEAN :
         [extended |-> b, forward |-> b, type |-> 0, source |-> Packet!NoAddress,
          extendedHeader |-> {}, destination |-> {}, signature |-> {}, payload |-> {}] \in Packets
  BY <1>2, <1>3 DEF Packets
<1>5. packet \in Packets
  BY <1>1, <1>4
<1>6. FlagsTell(packet)
  BY <1>1 DEF FlagsTell
<1>7. QED
  BY <1>1, <1>5, <1>6 DEF PacketInv

(****************************************************************************)
(* The composition: every object keeps to its own invariant, whichever is   *)
(* at hand.                                                                 *)
(****************************************************************************)
CodecInv ==
    /\ object \in Objects
    /\ TrackingInv /\ ServiceInv /\ ground \in GroundReports /\ PacketInv
    /\ RadioInv /\ ZoneInv

LEMMA GroundInit ==
    ASSUME Ground!Init
    PROVE  ground \in GroundReports
<1>1. {0} \subseteq Int /\ {0} \subseteq 0 .. 15 /\ {0} \cup Unknowns \subseteq 0 .. 7
      /\ {FALSE} \subseteq BOOLEAN
  BY InputsAreLegal DEF Ground!InputsAssumption
<1>2. \A A, B, C, D, E : A \subseteq Int /\ B \subseteq Int /\ C \subseteq 0 .. 15 /\ D \subseteq 0 .. 7
                        /\ E \subseteq BOOLEAN =>
         [latitude : A, longitude : B, groundType : C, unk : D, tracking : E]
           \subseteq GroundReports
  BY DEF GroundReports
<1>3. QED
  BY <1>1, <1>2, ZenonT(60) DEF Ground!Init

LEMMA RadioInit ==
    ASSUME Radio!Init
    PROVE  RadioInv
BY InputsAreLegal DEF Radio!Init, Radio!RadioAssumption, RadioInv

LEMMA ZoneInit ==
    ASSUME Zone!Init
    PROVE  ZoneInv
BY DEF Zone!Init, ZoneInv

LEMMA CodecInit ==
    ASSUME Init
    PROVE  CodecInv
BY TrackingInit, ServiceInit, GroundInit, PacketInit, RadioInit, ZoneInit DEF Init, CodecInv

LEMMA TrackingKept ==
    ASSUME TrackingInv, TrackingStays
    PROVE  TrackingInv'
<1>1. tracking' = tracking /\ set' = set
  BY DEF TrackingStays
<1>2. Tracking!WrongOnlyByScale'
  BY <1>1 DEF TrackingInv, Tracking!WrongOnlyByScale, Tracking!Stale, Tracking!TakesEffect
<1>3. QED
  BY <1>1, <1>2 DEF TrackingInv

LEMMA PacketKept ==
    ASSUME PacketInv, PacketStays
    PROVE  PacketInv'
BY DEF PacketInv, PacketStays

LEMMA RadioKept ==
    ASSUME RadioInv, RadioStays
    PROVE  RadioInv'
BY DEF RadioInv, RadioStays

LEMMA ZoneKept ==
    ASSUME ZoneInv, ZoneStays
    PROVE  ZoneInv'
BY DEF ZoneInv, ZoneStays

(* A step is one of the object at hand.                                     *)
LEMMA CodecStep ==
    ASSUME CodecInv, Next
    PROVE  CodecInv'
<1>1. /\ object' = object /\ object \in Objects
      /\ TrackingInv /\ ServiceInv /\ ground \in GroundReports /\ PacketInv
      /\ RadioInv /\ ZoneInv
  BY DEF Next, CodecInv
<1>2. TrackingStays \/ (object = "tracking" /\ Tracking!Next)
  BY DEF Next
<1>3. ServiceStays \/ (object = "service" /\ Service!Next)
  BY DEF Next
<1>4. GroundStays \/ (object = "ground" /\ Ground!Next)
  BY DEF Next
<1>5. PacketStays \/ (object = "packet" /\ Packet!Next)
  BY DEF Next
<1>6. RadioStays \/ (object = "radio" /\ Radio!Next)
  BY DEF Next
<1>7. ZoneStays \/ (object = "zone" /\ Zone!Next)
  BY DEF Next
<1>8. TrackingInv'
  BY <1>1, <1>2, TrackingKept, TrackingStep
<1>9. ServiceInv'
  BY <1>1, <1>3, ServiceKept, ServiceStep
<1>10. ground' \in GroundReports
  BY <1>1, <1>4, GroundStep DEF GroundStays
<1>11. PacketInv'
  BY <1>1, <1>5, PacketKept, PacketStep
<1>12. RadioInv'
  BY <1>1, <1>6, RadioKept, RadioStep
<1>13. ZoneInv'
  BY <1>1, <1>7, ZoneKept, ZoneStep
<1>14. QED
  BY <1>1, <1>8, <1>9, <1>10, <1>11, <1>12, <1>13 DEF CodecInv

LEMMA CodecStutter ==
    ASSUME CodecInv, UNCHANGED vars
    PROVE  CodecInv'
<1>1. /\ object' = object /\ TrackingStays /\ ServiceStays /\ GroundStays /\ PacketStays
      /\ RadioStays /\ ZoneStays
  BY DEF vars, TrackingStays, ServiceStays, GroundStays, PacketStays, RadioStays, ZoneStays
<1>2. TrackingInv' /\ ServiceInv' /\ PacketInv' /\ RadioInv' /\ ZoneInv'
  BY <1>1, TrackingKept, ServiceKept, PacketKept, RadioKept, ZoneKept DEF CodecInv
<1>3. QED
  BY <1>1, <1>2 DEF CodecInv, GroundStays

(* The fields of every object fit their bits, and flags tell what follows.  *)
THEOREM CodecInvariant == Spec => []CodecInv
<1>1. Init => CodecInv
  BY CodecInit
<1>2. CodecInv /\ [Next]_vars => CodecInv'
  BY CodecStep, CodecStutter
<1>3. QED
  BY <1>1, <1>2, PTL DEF Spec


(* The fields keep to the bits they have on the air, and flags tell what    *)
(* follows (TypeOK).                                                        *)
THEOREM CodecTypeCorrect == Spec => []TypeOK
<1>1. CodecInv => TypeOK
  BY TrackingIsRight, ServiceIsRight, PacketTypeOK DEF CodecInv, TypeOK
<1>2. QED
  BY <1>1, CodecInvariant, PTL

(* The receiver of a position report or of a ground station's report reads  *)
(* what its sender reads, whatever shares an octet with it and whichever    *)
(* values are there, with one exception: a turn rate of 64, the largest,    *)
(* is always read as -64.                                                   *)
THEOREM ReceiverReadsTheSender == Spec => []ReceivedIsSent
<1>1. CodecInv => ReceivedIsSent
  BY TrackingIsRight, ServiceIsRight DEF CodecInv, ReceivedIsSent
<1>2. QED
  BY <1>1, CodecInvariant, PTL

(* However the setters were called before, a value is wrong only when its   *)
(* scale bit is stale, and then by the scale.                               *)
THEOREM ValuesAreWrongByScale == Spec => []WrongOnlyByScale
<1>1. CodecInv => WrongOnlyByScale
  BY TrackingIsRight DEF CodecInv, WrongOnlyByScale, ServiceInv
<1>2. QED
  BY <1>1, CodecInvariant, PTL

(* A position report that was received and is written again has the same    *)
(* octets but that of the turn rate, which is always lost; a ground         *)
(* station's has the same but for a position that came without any value;   *)
(* the report of somebody on the ground has the same.                       *)
THEOREM ReportsAreSentOn == Spec => []WrittenAgain
<1>1. CodecInv => WrittenAgain
  BY TrackingIsRight, ServiceIsRight, GroundSentOn DEF CodecInv, WrittenAgain
<1>2. QED
  BY <1>1, CodecInvariant, PTL

(* A setter changes what the receiver reads of one value at most, and in a  *)
(* position report of the value it is called for.                           *)
THEOREM SettersChangeOneValue == Spec => OneValueAtATime
<1> DEFINE A == /\ object = "tracking" => Tracking!OneValueAtATime
                /\ object = "service" => Service!OneValueAtATime
                /\ object = "ground" => Ground!OneValueAtATime
<1>1. CodecInv /\ [Next]_vars => [A]_vars
  <2> SUFFICES ASSUME CodecInv, Next
               PROVE  A
    OBVIOUS
  <2>1. object = "tracking" => Tracking!Next
    BY DEF Next
  <2>2. object = "service" => Service!Next
    BY DEF Next
  <2>3. object = "ground" => Ground!Next
    BY DEF Next
  <2>4. TrackingInv /\ ServiceInv /\ ground \in GroundReports
    BY DEF CodecInv
  <2>5. QED
    BY <2>1, <2>2, <2>3, <2>4, TrackingOneValue, ServiceOneValue, GroundOneValue
<1>2. QED
  BY <1>1, CodecInvariant, PTL DEF Spec, OneValueAtATime

(* What is built of a packet is parsed to the packet.                       *)
THEOREM BuiltIsParsed == Spec => []ParsedIsBuilt
<1>1. CodecInv => ParsedIsBuilt
  BY PacketParsedIsBuilt DEF CodecInv, ParsedIsBuilt
<1>2. QED
  BY <1>1, CodecInvariant, PTL

(* The frame in the pool and the parser read the same of the same octets.   *)
THEOREM PoolAndParserAgree == Spec => []PoolReadsWhatTheParserReads
<1>1. CodecInv => PoolReadsWhatTheParserReads
  BY PacketPoolReads DEF CodecInv, PoolReadsWhatTheParserReads
<1>2. QED
  BY <1>1, CodecInvariant, PTL

(* A setter of a packet changes one field, and a relay the forward bit.     *)
THEOREM PacketChangesOneField == Spec => OneFieldAtATime
<1> DEFINE A == object = "packet" => Packet!OneFieldAtATime /\ Packet!ForwardBitAlone
<1>1. CodecInv /\ [Next]_vars => [A]_vars
  <2> SUFFICES ASSUME CodecInv, Next
               PROVE  A
    OBVIOUS
  <2>1. object = "packet" => Packet!Next
    BY DEF Next
  <2>2. QED
    BY <2>1, PacketStep, PacketForwardBit DEF CodecInv
<1>2. QED
  BY <1>1, CodecInvariant, PTL DEF Spec, OneFieldAtATime

(* The wait between two frames covers the longest time of the first.        *)
THEOREM FramesAreApart == Spec => []SpacingCoversFrame
<1>1. CodecInv => SpacingCoversFrame
  BY RadioSpacing DEF CodecInv, SpacingCoversFrame
<1>2. QED
  BY <1>1, CodecInvariant, PTL

(* The integer airtime is within two milliseconds of the exact one.         *)
THEOREM AirtimeIsClose == Spec => []CloseToExact
<1>1. CodecInv => CloseToExact
  BY RadioClose DEF CodecInv, CloseToExact
<1>2. QED
  BY <1>1, CodecInvariant, PTL

(* Where zones lie in each other the innermost is found.                    *)
THEOREM InnermostIsFound == Spec => []InnermostZone
<1>1. CodecInv => InnermostZone
  BY ZoneIsRight DEF CodecInv, InnermostZone
<1>2. QED
  BY <1>1, CodecInvariant, PTL

(* The cut to whole degrees moves a border by less than a degree, outwards. *)
THEOREM BordersAreClose == Spec => []WithinADegree
<1>1. CodecInv => WithinADegree
  BY ZoneIsRight DEF CodecInv, WithinADegree
<1>2. QED
  BY <1>1, CodecInvariant, PTL

=============================================================================
