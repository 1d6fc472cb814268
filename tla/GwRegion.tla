------------------------------ MODULE GwRegion -------------------------------
(***************************************************************************)
(* Regions of the frame in src/gw_rules.c: read from "x,y,w,h" into parts  *)
(* per million, and turned into pixels for every frame.                    *)
(*                                                                         *)
(* A text is its coordinates and whether they are four, comma separated    *)
(* and followed by nothing; a coordinate is its digits before and after    *)
(* the point.  Ppm is a power of ten, GW_PPM in the code.                  *)
(*                                                                         *)
(* Definitions marked "Mutant:" are one-line bugs put in place of the      *)
(* operator that follows them, to show that a property notices.            *)
(***************************************************************************)
EXTENDS Integers, Sequences

CONSTANT Ppm

ASSUME PpmAssumption == Ppm \in Nat \ {0}

\* The digits after the point, each worth a tenth of the one before it; scale
\* is what the last one was worth.
Fraction(digits) ==
  LET upto[k \in 0 .. Len(digits)] ==
        IF k = 0 THEN [scale |-> Ppm, sum |-> 0, fits |-> TRUE]
        ELSE LET before == upto[k - 1]
                 scale  == before.scale \div 10
             IN  [ scale |-> scale, sum |-> before.sum + digits[k] * scale,
                   fits  |-> before.fits /\ before.scale # 1 ]
  IN  upto[Len(digits)]

\* A number between 0 and 1 with no digit smaller than a millionth.
CoordinateMeans(c) ==
  /\ c.well /\ c.whole <= 1
  /\ Fraction(c.frac).fits
  /\ c.whole = 1 => Fraction(c.frac).sum = 0

DecimalPpm(c) == IF c.whole = 1 THEN Ppm ELSE Fraction(c.frac).sum

WholeFrame == [x |-> 0, y |-> 0, w |-> Ppm, h |-> Ppm]

RegionOf(text) ==
  LET v == [k \in 1 .. 4 |-> DecimalPpm(text.values[k])]
  IN  [x |-> v[1], y |-> v[2], w |-> v[3], h |-> v[4]]

\* A rectangle of some size that does not leave the frame.
RegionMeans(text) ==
  /\ text.four
  /\ \A k \in 1 .. 4 : CoordinateMeans(text.values[k])
  /\ LET r == RegionOf(text)
     IN  r.w # 0 /\ r.h # 0 /\ r.x + r.w <= Ppm /\ r.y + r.h <= Ppm

-----------------------------------------------------------------------------
(***************************************************************************)
(* gw_region_pixels, one axis of a frame of n pixels at a time.            *)
(***************************************************************************)
Pixels(part, n) == (part * n) \div Ppm

Start(at, n) == IF Pixels(at, n) >= n THEN n - 1 ELSE Pixels(at, n)

\* Mutant: a region thinner than a pixel is rounded away.
ExtentRoundedAway(at, size, n) ==
  IF Start(at, n) + Pixels(size, n) > n THEN n - Start(at, n) ELSE Pixels(size, n)

\* At least one pixel, and none outside the frame.
Extent(at, size, n) ==
  LET wanted == IF Pixels(size, n) = 0 THEN 1 ELSE Pixels(size, n)
  IN  IF Start(at, n) + wanted > n THEN n - Start(at, n) ELSE wanted

RegionPixels(r, width, height) ==
  [ x |-> Start(r.x, width), w |-> Extent(r.x, r.w, width),
    y |-> Start(r.y, height), h |-> Extent(r.y, r.h, height) ]

\* Pixels first .. first + count - 1 of n show the part at .. at + size of the
\* frame: they are some, inside the frame, start in the pixel that holds the
\* part's edge, and end where a neighbour beginning at the other edge starts, or
\* one pixel before; a part thinner than a pixel has just one.
Shows(first, count, at, size, n) ==
  /\ count >= 1 /\ first >= 0 /\ first + count <= n
  /\ first * Ppm <= at * n /\ at * n < (first + 1) * Ppm
  /\ IF size * n < Ppm THEN count = 1
     ELSE Pixels(at + size, n) - (first + count) \in {0, 1}
=============================================================================
