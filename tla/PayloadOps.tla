------------------------------ MODULE PayloadOps -------------------------------
(* What the payload classes share: the arithmetic of C++, values cut to     *)
(* their bits, coordinates of 24 bits in three octets, and directions of    *)
(* which a turn has 256.                                                    *)
EXTENDS Integers, Sequences

Clamp(v, low, high) == IF v < low THEN low ELSE IF v > high THEN high ELSE v
Magnitude(v) == IF v < 0 THEN -v ELSE v
\* Division in C++ truncates, a cast to n bits and back keeps the low ones.
Quotient(v, n) == IF v < 0 THEN -((-v) \div n) ELSE v \div n
Bits(v, n) == v % 2^n
Signed(v, n) == IF v < 2^(n - 1) THEN v ELSE v - 2^n

\* A coordinate is kept in 24 bits, extended by its getter.
Coordinate(raw) == Signed(Bits(raw, 24), 24)

\* Latitudes are clamped in units of 1/93206, longitudes of 1/46603 degrees.
LatitudeRaw(v) == Clamp(v, -90 * 93206, 90 * 93206)
LongitudeRaw(v) == Clamp(v, -180 * 46603, 180 * 46603)

\* A direction, given in tenths of a degree, in 1/256 of a turn: 359.5 degrees
\* and more are 255 too.
TrackRaw(v) ==
    LET g == IF v < 0 THEN v + 3600 ELSE IF v >= 3600 THEN v - 3600 ELSE v
    IN  Clamp((2 * g * 256 + 3600) \div 7200, 0, 255)

\* reverse_bytes() before the write: the low octet goes first.
Octets24(v) == <<v % 256, (v \div 256) % 256, (v \div 65536) % 256>>
Octets16(v) == <<v % 256, (v \div 256) % 256>>
Number16(o) == o[1] + 256 * o[2]
Number24(o) == o[1] + 256 * o[2] + 65536 * o[3]

=============================================================================
