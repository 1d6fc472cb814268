---------------------------- MODULE GwTextProofs ----------------------------
(***************************************************************************)
(* The texts that go in and come out: sentences and regions that become    *)
(* rules, and events that become records.  Both are recursive over their   *)
(* letters or words, so the module begins with induction and recursion,    *)
(* stated of sets and functions: a property is the set of the numbers that *)
(* have it, and a loop is a function on 0 .. N that exists and is unrolled *)
(* by its equations.                                                       *)
(*                                                                         *)
(* GwRegion: a crop shows the region, in exact arithmetic.                 *)
(* GwSentence: the first check that refuses decides, what passes all of    *)
(* them is a rule of the core, and the scan for durations passes none over.*)
(* GwEvent: the bounded writer; a reader that follows the record letter by *)
(* letter and finds what was said; ids taken apart from the right; dates   *)
(* and times, down to the arithmetic of leap years.                        *)
(***************************************************************************)
EXTENDS GwSentence, GwEvent, FiniteSetTheorems, SequenceTheorems, WellFoundedInduction, TLAPS

-----------------------------------------------------------------------------
\* Induction over the naturals, for the set of those that have a property.
LEMMA Induction ==
  ASSUME NEW S, 0 \in S, \A n \in Nat : n \in S => n + 1 \in S
  PROVE  Nat \subseteq S
<1> DEFINE R == {p \in Nat \X Nat : p[1] < p[2]}
           T == Nat \ S
<1>1. SUFFICES ASSUME T # {} PROVE FALSE
  OBVIOUS
<1>2. IsWellFoundedOn(R, Nat)
  BY NatLessThanWellFounded DEF OpToRel
<1>3. T \subseteq Nat
  OBVIOUS
<1>4. \E x \in T : \A y \in T : ~ (<<y, x>> \in R)
  <2> HIDE DEF R, T
  <2> QED BY <1>1, <1>2, <1>3, WFMin
<1>5. PICK x \in T : \A y \in T : ~ (<<y, x>> \in R)
  BY <1>4
<1>6. x \in Nat /\ x # 0 /\ x - 1 \in Nat
  OBVIOUS
<1>7. x - 1 \in T
  BY <1>6
<1>8. <<x - 1, x>> \in R
  BY <1>6
<1> QED
  BY <1>5, <1>7, <1>8

\* The same up to a bound.
LEMMA BoundedInduction ==
  ASSUME NEW N \in Nat, NEW S, 0 \in S, \A n \in 0 .. N - 1 : n \in S => n + 1 \in S
  PROVE  0 .. N \subseteq S
<1> DEFINE T == {n \in Nat : n <= N => n \in S}
<1>1. 0 \in T
  OBVIOUS
<1>2. \A n \in Nat : n \in T => n + 1 \in T
  OBVIOUS
<1>3. Nat \subseteq T
  <2> HIDE DEF T
  <2> QED BY <1>1, <1>2, Induction
<1> QED
  BY <1>3

\* f is what the recursion  f[0] = a, f[k] = step[k][f[k - 1]]  computes in T.
Unfolds(f, N, T, a, step) ==
  /\ f \in [0 .. N -> T]
  /\ f[0] = a
  /\ \A k \in 1 .. N : f[k] = step[k][f[k - 1]]

\* What a loop over 1 .. N computes exists.
LEMMA Recursion ==
  ASSUME NEW N \in Nat, NEW T, NEW a \in T, NEW step \in [1 .. N -> [T -> T]]
  PROVE  \E f : Unfolds(f, N, T, a, step)
<1> DEFINE Unrolled(n, f) == f[0] = a /\ \A k \in 1 .. n : f[k] = step[k][f[k - 1]]
           S == {n \in 0 .. N : \E f \in [0 .. n -> T] : Unrolled(n, f)}
<1>1. 0 \in S
  <2>1. [k \in 0 .. 0 |-> a] \in [0 .. 0 -> T] /\ Unrolled(0, [k \in 0 .. 0 |-> a])
    OBVIOUS
  <2> HIDE DEF Unrolled
  <2> QED BY <2>1
<1>2. ASSUME NEW n \in 0 .. N - 1, n \in S PROVE n + 1 \in S
  <2>1. PICK f \in [0 .. n -> T] : Unrolled(n, f)
    BY <1>2
  <2>2. step[n + 1][f[n]] \in T
    OBVIOUS
  <2> DEFINE g == [k \in 0 .. n + 1 |-> IF k <= n THEN f[k] ELSE step[n + 1][f[n]]]
  <2>3. g \in [0 .. n + 1 -> T]
    BY <2>2
  <2>4. Unrolled(n + 1, g)
    BY <2>1
  <2>5. n + 1 \in 0 .. N
    OBVIOUS
  <2> HIDE DEF Unrolled
  <2> QED BY <2>3, <2>4, <2>5
<1>3. 0 .. N \subseteq S
  <2> HIDE DEF S
  <2> QED BY <1>1, <1>2, BoundedInduction
<1> QED
  BY <1>3 DEF Unfolds

Follows(h, N, T, a, step) ==
  /\ h[0] = a
  /\ \A k \in 1 .. N : h[k - 1] \in T => h[k] = step[k][h[k - 1]]

\* A value that every step of a loop keeps in T stays in T.
LEMMA RecursionStays ==
  ASSUME NEW N \in Nat, NEW T, NEW a \in T, NEW step \in [1 .. N -> [T -> T]], NEW h,
         Follows(h, N, T, a, step)
  PROVE  \A k \in 0 .. N : h[k] \in T
<1> DEFINE S == {n \in 0 .. N : h[n] \in T}
<1>1. 0 \in S
  BY DEF Follows
<1>2. ASSUME NEW n \in 0 .. N - 1, n \in S PROVE n + 1 \in S
  <2>1. n + 1 \in 1 .. N /\ (n + 1) - 1 = n
    OBVIOUS
  <2>2. h[n + 1] = step[n + 1][h[n]]
    BY <1>2, <2>1 DEF Follows
  <2> QED
    BY <1>2, <2>1, <2>2
<1>3. 0 .. N \subseteq S
  <2> HIDE DEF S
  <2> QED BY <1>1, <1>2, BoundedInduction
<1> QED
  BY <1>3


\* Rounding down to whole pixels.
LEMMA PixelsRoundsDown ==
  ASSUME NEW part \in Nat, NEW n \in Nat
  PROVE  /\ Pixels(part, n) \in Nat
         /\ Pixels(part, n) * Ppm <= part * n
         /\ part * n < (Pixels(part, n) + 1) * Ppm
<1>1. Ppm \in Nat /\ Ppm > 0
  BY PpmAssumption
<1>2. part * n \in Nat
  OBVIOUS
<1> DEFINE m == part * n
<1>3. m \in Nat
  BY <1>2
<1>4. /\ m \div Ppm \in Nat
      /\ (m \div Ppm) * Ppm <= m
      /\ m < ((m \div Ppm) + 1) * Ppm
  <2> HIDE DEF m
  <2> QED BY <1>1, <1>3
<1> QED
  BY <1>4 DEF Pixels

\* What is known of a product that is less than another with the same factor.
LEMMA CancelLess ==
  ASSUME NEW a \in Int, NEW b \in Int, a * Ppm < b * Ppm
  PROVE  a < b
<1>1. Ppm \in Nat /\ Ppm > 0
  BY PpmAssumption
<1>2. SUFFICES ASSUME b <= a PROVE b * Ppm <= a * Ppm
  BY <1>1
<1>3. (a - b) * Ppm >= 0
  BY <1>1, <1>2
<1> QED
  BY <1>1, <1>3

\* A part inside the frame starts at a pixel of the frame, the one it begins in.
LEMMA StartIsInside ==
  ASSUME NEW at \in Nat, NEW n \in Nat \ {0}, at < Ppm
  PROVE  /\ Start(at, n) = Pixels(at, n)
         /\ Start(at, n) \in 0 .. n - 1
<1>1. Ppm \in Nat
  BY PpmAssumption
<1>2. at * n < n * Ppm
  <2>1. (Ppm - at) * n > 0
    BY <1>1
  <2> QED BY <1>1, <2>1
<1>3. /\ Pixels(at, n) \in Nat
      /\ Pixels(at, n) * Ppm <= at * n
  BY PixelsRoundsDown
<1>4. Pixels(at, n) * Ppm < n * Ppm
  BY <1>1, <1>2, <1>3
<1>5. Pixels(at, n) < n
  BY <1>3, <1>4, CancelLess
<1> QED
  BY <1>3, <1>5 DEF Start

\* Rounding two lengths down one by one loses at most a pixel against their sum.
LEMMA PixelsAdd ==
  ASSUME NEW a \in Nat, NEW b \in Nat, NEW n \in Nat
  PROVE  Pixels(a + b, n) - (Pixels(a, n) + Pixels(b, n)) \in {0, 1}
<1> DEFINE p == Pixels(a, n)
           q == Pixels(b, n)
           s == Pixels(a + b, n)
<1>1. Ppm \in Nat
  BY PpmAssumption
<1>2. p \in Nat /\ p * Ppm <= a * n /\ a * n < (p + 1) * Ppm
  BY PixelsRoundsDown
<1>3. q \in Nat /\ q * Ppm <= b * n /\ b * n < (q + 1) * Ppm
  BY PixelsRoundsDown
<1>4. s \in Nat /\ s * Ppm <= (a + b) * n /\ (a + b) * n < (s + 1) * Ppm
  <2>1. a + b \in Nat
    OBVIOUS
  <2> QED BY <2>1, PixelsRoundsDown
<1>5. (a + b) * n = a * n + b * n
  OBVIOUS
<1> HIDE DEF p, q, s
<1>6. (p + q) * Ppm < (s + 1) * Ppm
  BY <1>1, <1>2, <1>3, <1>4, <1>5
<1>7. s * Ppm < (p + q + 2) * Ppm
  BY <1>1, <1>2, <1>3, <1>4, <1>5
<1>8. p + q < s + 1 /\ s < p + q + 2
  BY <1>2, <1>3, <1>4, <1>6, <1>7, CancelLess
<1>9. s - (p + q) \in {0, 1}
  BY <1>2, <1>3, <1>4, <1>8
<1> QED
  BY <1>9 DEF p, q, s

\* A part that ends inside the frame ends, in whole pixels, inside it.
LEMMA PixelsInside ==
  ASSUME NEW part \in Nat, NEW n \in Nat, part <= Ppm
  PROVE  Pixels(part, n) <= n
<1>1. Ppm \in Nat /\ Ppm > 0
  BY PpmAssumption
<1>2. part * n <= n * Ppm
  <2>1. (Ppm - part) * n >= 0
    BY <1>1
  <2> QED BY <1>1, <2>1
<1>3. Pixels(part, n) \in Nat /\ Pixels(part, n) * Ppm <= part * n
  BY PixelsRoundsDown
<1>4. Pixels(part, n) * Ppm < (n + 1) * Ppm
  BY <1>1, <1>2, <1>3
<1> QED
  BY <1>3, <1>4, CancelLess

\* Less than a pixel rounds to none, and no pixels is less than one.
LEMMA NoPixels ==
  ASSUME NEW part \in Nat, NEW n \in Nat
  PROVE  part * n < Ppm <=> Pixels(part, n) = 0
<1>1. Ppm \in Nat /\ Ppm > 0
  BY PpmAssumption
<1>2. /\ Pixels(part, n) \in Nat
      /\ Pixels(part, n) * Ppm <= part * n
      /\ part * n < (Pixels(part, n) + 1) * Ppm
  BY PixelsRoundsDown
<1>3. ASSUME part * n < Ppm PROVE Pixels(part, n) = 0
  <2>1. Pixels(part, n) * Ppm < 1 * Ppm
    BY <1>1, <1>2, <1>3
  <2>2. Pixels(part, n) < 1
    BY <1>2, <2>1, CancelLess
  <2> QED BY <1>2, <2>2
<1>4. ASSUME Pixels(part, n) = 0 PROVE part * n < Ppm
  BY <1>1, <1>2, <1>4
<1> QED
  BY <1>3, <1>4

\* gw_rule.h:67, for every region RegionMeans lets through and every frame: the
\* pixels an axis is cropped to are at least one, inside the frame, and show the
\* part asked for.
THEOREM PixelsShowTheRegion ==
  ASSUME NEW at \in Nat, NEW size \in Nat \ {0}, NEW n \in Nat \ {0}, at + size <= Ppm
  PROVE  Shows(Start(at, n), Extent(at, size, n), at, size, n)
<1> DEFINE p == Pixels(at, n)
           q == Pixels(size, n)
           s == Pixels(at + size, n)
<1>1. Ppm \in Nat
  BY PpmAssumption
<1>2. at < Ppm
  BY <1>1
<1>3. Start(at, n) = p /\ p \in 0 .. n - 1
  BY <1>2, StartIsInside
<1>4. p * Ppm <= at * n /\ at * n < (p + 1) * Ppm
  BY PixelsRoundsDown
<1>5. q \in Nat
  BY PixelsRoundsDown
<1>6. s - (p + q) \in {0, 1}
  BY PixelsAdd
<1>7. s \in Nat /\ s <= n
  <2>1. at + size \in Nat
    OBVIOUS
  <2> QED BY <2>1, PixelsInside, PixelsRoundsDown
<1>8. size * n < Ppm <=> q = 0
  BY NoPixels
<1>9. Extent(at, size, n) = IF q = 0 THEN 1 ELSE q
  <2>1. p + (IF q = 0 THEN 1 ELSE q) <= n
    <3> HIDE DEF p, q, s
    <3> QED BY <1>3, <1>5, <1>6, <1>7
  <2>2. ~(p + (IF q = 0 THEN 1 ELSE q) > n)
    <3> HIDE DEF p, q, s
    <3> QED BY <1>3, <1>5, <2>1
  <2> QED BY <1>3, <2>2 DEF Extent
<1> DEFINE count == Extent(at, size, n)
<1>10. count >= 1 /\ p >= 0 /\ p + count <= n
  <2> HIDE DEF p, q, s, count
  <2>1. count = IF q = 0 THEN 1 ELSE q
    BY <1>9 DEF count, q
  <2> QED BY <1>3, <1>5, <1>6, <1>7, <2>1
<1>11. IF size * n < Ppm THEN count = 1 ELSE s - (p + count) \in {0, 1}
  BY <1>6, <1>8, <1>9
<1> QED
  BY <1>3, <1>4, <1>10, <1>11 DEF Shows

FractionStep(before, digit) ==
  LET scale  == before.scale \div 10
  IN  [ scale |-> scale, sum |-> before.sum + digit * scale,
                   fits  |-> before.fits /\ before.scale # 1 ]

\* The digits after the point add up to a natural number.
LEMMA FractionIsNatural ==
  ASSUME NEW digits \in Seq(0 .. 9)
  PROVE  Fraction(digits).sum \in Nat
<1> DEFINE N == Len(digits)
           start == [scale |-> Ppm, sum |-> 0, fits |-> TRUE]
           T == [scale : Nat, sum : Nat, fits : BOOLEAN]
           step == [k \in 1 .. N |-> [x \in T |-> FractionStep(x, digits[k])]]
           Is(f) == f = [k \in 0 .. N |-> IF k = 0 THEN start ELSE FractionStep(f[k - 1], digits[k])]
           h == CHOOSE f : Is(f)
<1>0. N \in Nat
  OBVIOUS
<1>1. start \in T
  BY PpmAssumption
<1>2. \A x \in T, k \in 1 .. N : FractionStep(x, digits[k]) \in T
  <2> TAKE x \in T, k \in 1 .. N
  <2>1. digits[k] \in 0 .. 9
    OBVIOUS
  <2>2. x.scale \in Nat /\ x.sum \in Nat /\ x.fits \in BOOLEAN
    OBVIOUS
  <2> DEFINE scale == x.scale \div 10
  <2>3. scale \in Nat
    BY <2>2
  <2>4. digits[k] * scale \in Nat
    <3> HIDE DEF scale
    <3> QED BY <2>1, <2>3
  <2>5. x.sum + digits[k] * scale \in Nat
    <3> HIDE DEF scale
    <3> QED BY <2>2, <2>4
  <2> QED BY <2>2, <2>3, <2>5 DEF FractionStep
<1>3. step \in [1 .. N -> [T -> T]]
  <2> HIDE DEF T
  <2> QED BY <1>2
<1>4. PICK f : Unfolds(f, N, T, start, step)
  <2> HIDE DEF step, T, start, N
  <2> QED BY <1>0, <1>1, <1>3, Recursion
<1>5. Is(f)
  <2>1. \A k \in 1 .. N : f[k - 1] \in T
    BY <1>4 DEF Unfolds
  <2>2. \A k \in 1 .. N : f[k] = FractionStep(f[k - 1], digits[k])
    <3> HIDE DEF T, start
    <3> QED BY <1>4, <2>1 DEF Unfolds
  <2> HIDE DEF step, T, start
  <2> QED BY <1>4, <2>2 DEF Unfolds
<1>6. Is(h)
  <2> HIDE DEF Is
  <2> QED BY <1>5
<1>7. Fraction(digits) = h[N]
  BY DEF Fraction, FractionStep
<1>8. Follows(h, N, T, start, step)
  <2> HIDE DEF h, T, start
  <2> QED BY <1>0, <1>6 DEF Follows
<1>9. \A k \in 0 .. N : h[k] \in T
  <2> HIDE DEF step, T, start, N, h
  <2> QED BY <1>0, <1>1, <1>3, <1>8, RecursionStays
<1> QED
  BY <1>7, <1>9


JoinStep(parts, between, before, k) ==
  IF k = 1 THEN parts[1] ELSE before \o between \o parts[k]

\* Parts joined are a sequence of what the parts are sequences of.
LEMMA JoinIsASequence ==
  ASSUME NEW X, NEW parts \in Seq(Seq(X)), NEW between \in Seq(X)
  PROVE  Join(parts, between) \in Seq(X)
<1> DEFINE N == Len(parts)
           T == Seq(X)
           step == [k \in 1 .. N |-> [x \in T |-> JoinStep(parts, between, x, k)]]
           Is(f) == f = [k \in 0 .. N |-> CASE k = 0 -> <<>>
                                            [] k = 1 -> parts[1]
                                            [] OTHER -> f[k - 1] \o between \o parts[k]]
           h == CHOOSE f : Is(f)
<1>1. N \in Nat /\ <<>> \in T
  OBVIOUS
<1>2. \A x \in T, k \in 1 .. N : JoinStep(parts, between, x, k) \in T
  <2> TAKE x \in T, k \in 1 .. N
  <2>1. parts[k] \in T /\ (k = 1 => parts[1] \in T)
    OBVIOUS
  <2>2. x \o between \o parts[k] \in T
    BY <2>1
  <2> QED BY <2>1, <2>2 DEF JoinStep
<1>3. step \in [1 .. N -> [T -> T]]
  <2> HIDE DEF T
  <2> QED BY <1>2
<1>4. PICK f : Unfolds(f, N, T, <<>>, step)
  <2> HIDE DEF step, T, N
  <2> QED BY <1>1, <1>3, Recursion
<1>5. Is(f)
  <2>1. \A k \in 1 .. N : f[k - 1] \in T
    <3> HIDE DEF T, N
    <3> QED BY <1>1, <1>4 DEF Unfolds
  <2>2. \A k \in 1 .. N : f[k] = JoinStep(parts, between, f[k - 1], k)
    <3> HIDE DEF T
    <3> QED BY <1>4, <2>1 DEF Unfolds
  <2>3. f = [k \in 0 .. N |-> f[k]]
    BY <1>4 DEF Unfolds
  <2>4. f[0] = <<>>
    BY <1>4 DEF Unfolds
  <2>5. \A k \in 0 .. N : f[k] = CASE k = 0 -> <<>>
                                   [] k = 1 -> parts[1]
                                   [] OTHER -> f[k - 1] \o between \o parts[k]
    BY <2>2, <2>4 DEF JoinStep
  <2> HIDE DEF step, T
  <2> QED BY <2>3, <2>5
<1>6. Is(h)
  <2> HIDE DEF Is
  <2> QED BY <1>5
<1>7. Join(parts, between) = h[N]
  BY DEF Join
<1>8. Follows(h, N, T, <<>>, step)
  <2> HIDE DEF h, T
  <2> QED BY <1>1, <1>6 DEF Follows, JoinStep
<1>9. \A k \in 0 .. N : h[k] \in T
  <2> HIDE DEF step, T, N, h
  <2> QED BY <1>1, <1>3, <1>8, RecursionStays
<1>10. h[N] \in T
  <2> HIDE DEF T, N, h
  <2> QED BY <1>1, <1>9
<1> QED
  BY <1>7, <1>10

\* The refusals are fourteen; two of them decide what the properties speak of.
LEMMA RefusalsAre ==
  ASSUME NEW req
  PROVE  /\ DOMAIN Refusals(req) = 1 .. 14
         /\ Refusals(req)[7][1] <=> Ambiguous(Words(req.sentence))
         /\ Refusals(req)[2][1] <=> \E text \in req.region : ~RegionMeans(text)
BY DEF Refusals
\* Each refusal has a status that is not OK, and only the last blames the core.
LEMMA RefusalsAre2 ==
  ASSUME NEW req
  PROVE  /\ \A k \in 1 .. 14 : Refusals(req)[k][2] \in {"INVALID_ARG", "LIMIT"}
         /\ \A k \in 1 .. 13 : Refusals(req)[k][3] # "core"
BY DEF Refusals

-----------------------------------------------------------------------------
(***************************************************************************)
(* Durations: the scan finds no duration that is none, and where no word   *)
(* is number and unit at once, it passes over none.                        *)
(***************************************************************************)
LEMMA UnitIsNatural ==
  ASSUME NEW word
  PROVE  UnitSeconds(word) \in Nat
BY DEF UnitSeconds

\* A word is worth an integer as a number, or -1.
LEMMA NumberIsInteger ==
  ASSUME NEW word
  PROVE  Number(word) \in Int
<1>1. LeadingDigits(word) \in Int
  BY LeadingAssumption DEF LeadingDigits
<1>2. \A e \in Numerals : e[1] \in Int
  BY DEF Numerals
<1>3. WordNumber(word) \in Int
  <2>1. CASE \E e \in Numerals : word \in e[2]
    <3>1. (CHOOSE e \in Numerals : word \in e[2]) \in Numerals
      <4> HIDE DEF Numerals
      <4> QED BY <2>1
    <3> QED BY <1>2, <2>1, <3>1 DEF WordNumber
  <2>2. CASE ~\E e \in Numerals : word \in e[2]
    BY <2>2 DEF WordNumber
  <2> QED BY <2>1, <2>2
<1> QED
  BY <1>1, <1>3 DEF Number

\* What a number and a unit say is a natural number of seconds.
LEMMA SecondsAreNatural ==
  ASSUME NEW words, NEW k
  PROVE  SecondsAt(words, k) \in Nat
<1>1. UnitAt(words, k) \in Nat
  <2>1. CASE Joined(words[k])
    BY <2>1, UnitIsNatural DEF UnitAt
  <2>2. CASE ~Joined(words[k]) /\ k < Len(words)
    BY <2>2, UnitIsNatural DEF UnitAt
  <2>3. CASE ~Joined(words[k]) /\ ~(k < Len(words))
    BY <2>3 DEF UnitAt
  <2> QED BY <2>1, <2>2, <2>3
<1>2. Number(words[k]) \in Int
  BY NumberIsInteger
<1> DEFINE n == Number(words[k])
           u == UnitAt(words, k)
<1>3. n > 0 => n * u \in Nat
  <2> HIDE DEF n, u
  <2>1. n \in Int /\ u \in Nat
    BY <1>1, <1>2 DEF n, u
  <2> QED BY <2>1
<1> QED
  BY <1>3 DEF SecondsAt

Duration(words, k) == IF SecondsAt(words, k) > 0 THEN <<SecondsAt(words, k)>> ELSE <<>>

ScanStep(words, f, k) ==
  IF k > Len(words) THEN <<>>
  ELSE Duration(words, k) \o f[IF TakesNext(words, k) THEN k + 2 ELSE k + 1]

\* The scan for durations, unrolled from the end of the sentence.
LEMMA ScanUnfolds ==
  ASSUME NEW words, Len(words) \in Nat
  PROVE  \E h : /\ Scan(words) = h[1]
                /\ \A k \in 1 .. Len(words) + 2 : h[k] = ScanStep(words, h, k)
<1> DEFINE N == Len(words)
           Is(f, n) == f = [k \in N + 2 - n .. N + 2 |-> ScanStep(words, f, k)]
           S == {n \in 0 .. N + 1 : \E f : Is(f, n)}
<1>1. 0 \in S
  <2> DEFINE f == [k \in N + 2 .. N + 2 |-> <<>>]
  <2>1. \A k \in N + 2 .. N + 2 : ScanStep(words, f, k) = <<>>
    BY DEF ScanStep
  <2>2. Is(f, 0)
    BY <2>1
  <2> HIDE DEF Is, f
  <2> QED BY <2>2
<1>2. ASSUME NEW n \in 0 .. (N + 1) - 1, n \in S PROVE n + 1 \in S
  <2>1. PICK f : Is(f, n)
    BY <1>2
  <2> DEFINE m == N + 2 - n
             g == [k \in m - 1 .. N + 2 |-> IF k >= m THEN f[k] ELSE ScanStep(words, f, k)]
  <2>2. \A k \in m .. N + 2 : g[k] = f[k]
    OBVIOUS
  <2>3. \A k \in m - 1 .. N + 2 : ScanStep(words, g, k) = ScanStep(words, f, k)
    <3> TAKE k \in m - 1 .. N + 2
    <3>1. CASE k > N
      BY <3>1 DEF ScanStep
    <3>2. CASE ~(k > N)
      <4>1. k + 1 \in m .. N + 2 /\ k + 2 \in m .. N + 2
        BY <3>2
      <4>2. g[k + 1] = f[k + 1] /\ g[k + 2] = f[k + 2]
        BY <2>2, <4>1
      <4> HIDE DEF g
      <4> QED BY <3>2, <4>2 DEF ScanStep
    <3> QED BY <3>1, <3>2
  <2>4. \A k \in m .. N + 2 : f[k] = ScanStep(words, f, k)
    BY <2>1
  <2>5. \A k \in m - 1 .. N + 2 : g[k] = ScanStep(words, f, k)
    BY <2>4
  <2>6. g = [k \in m - 1 .. N + 2 |-> ScanStep(words, g, k)]
    <3>1. g = [k \in m - 1 .. N + 2 |-> g[k]]
      OBVIOUS
    <3> HIDE DEF g, m
    <3> QED BY <2>3, <2>5, <3>1
  <2>7. m - 1 = N + 2 - (n + 1)
    OBVIOUS
  <2>8. Is(g, n + 1)
    <3> HIDE DEF g, m
    <3> QED BY <2>6, <2>7
  <2> HIDE DEF Is, g
  <2> QED BY <2>8
<1>3. 0 .. N + 1 \subseteq S
  <2>1. N + 1 \in Nat
    OBVIOUS
  <2> HIDE DEF S, N
  <2> QED BY <1>1, <1>2, <2>1, BoundedInduction
<1>4. PICK f : Is(f, N + 1)
  BY <1>3
<1> DEFINE Scanned(g) == g = [k \in 1 .. N + 2 |-> ScanStep(words, g, k)]
           h == CHOOSE g : Scanned(g)
<1>5. Scanned(f)
  <2>1. N + 2 - (N + 1) = 1
    OBVIOUS
  <2> QED BY <1>4, <2>1
<1>6. Scanned(h)
  <2> HIDE DEF Scanned
  <2> QED BY <1>5
<1>7. Scan(words) = h[1]
  BY DEF Scan, ScanStep, Duration
<1>8. \A k \in 1 .. N + 2 : h[k] = ScanStep(words, h, k)
  <2> HIDE DEF h
  <2> QED BY <1>6
<1> QED
  BY <1>7, <1>8

\* What holds of the scan from every word holds of the scan of all.
LEMMA ScanBackwards ==
  ASSUME NEW N \in Nat, NEW S, N + 1 \in S, N + 2 \in S,
         \A k \in 1 .. N : k + 1 \in S /\ k + 2 \in S => k \in S
  PROVE  1 \in S
<1> DEFINE R == {n \in 0 .. N : N + 1 - n \in S /\ N + 2 - n \in S}
<1>1. 0 \in R
  OBVIOUS
<1>2. ASSUME NEW n \in 0 .. N - 1, n \in R PROVE n + 1 \in R
  <2> DEFINE k == N - n
  <2>1. k \in 1 .. N /\ k + 1 = N + 1 - n /\ k + 2 = N + 2 - n
    OBVIOUS
  <2>2. k \in S
    <3> HIDE DEF k
    <3> QED BY <1>2, <2>1
  <2>3. N + 1 - (n + 1) = k /\ N + 2 - (n + 1) = N + 1 - n
    OBVIOUS
  <2> QED BY <1>2, <2>2, <2>3
<1>3. 0 .. N \subseteq R
  <2> HIDE DEF R
  <2> QED BY <1>1, <1>2, BoundedInduction
<1>4. N \in R /\ N + 1 - N = 1
  BY <1>3
<1> QED
  BY <1>4

\* What a word says of a duration is positive or nothing.
LEMMA DurationIsPositive ==
  ASSUME NEW words, NEW k
  PROVE  Duration(words, k) \in Seq(Nat \ {0})
<1>1. CASE SecondsAt(words, k) > 0
  <2> DEFINE n == SecondsAt(words, k)
  <2>1. n \in Nat \ {0}
    BY <1>1, SecondsAreNatural
  <2>2. <<n>> \in Seq(Nat \ {0})
    <3> HIDE DEF n
    <3> QED BY <2>1
  <2> QED BY <1>1, <2>2 DEF Duration
<1>2. CASE ~(SecondsAt(words, k) > 0)
  BY <1>2 DEF Duration
<1> QED
  BY <1>1, <1>2

\* So is everything the scan collects.
LEMMA ScanIsPositive ==
  ASSUME NEW words, Len(words) \in Nat
  PROVE  Scan(words) \in Seq(Nat \ {0})
<1> DEFINE N == Len(words)
           P == Seq(Nat \ {0})
<1>1. PICK h : /\ Scan(words) = h[1]
               /\ \A k \in 1 .. N + 2 : h[k] = ScanStep(words, h, k)
  BY ScanUnfolds
<1> DEFINE S == {k \in 1 .. N + 2 : h[k] \in P}
<1>2. N + 1 \in S /\ N + 2 \in S
  <2>1. h[N + 1] = <<>> /\ h[N + 2] = <<>>
    BY <1>1 DEF ScanStep
  <2>2. <<>> \in P
    OBVIOUS
  <2> HIDE DEF P
  <2> QED BY <2>1, <2>2
<1>3. \A k \in 1 .. N : k + 1 \in S /\ k + 2 \in S => k \in S
  <2> TAKE k \in 1 .. N
  <2> HAVE k + 1 \in S /\ k + 2 \in S
  <2>1. Duration(words, k) \in P
    BY DurationIsPositive
  <2>2. h[k + 1] \in P /\ h[k + 2] \in P
    OBVIOUS
  <2>3. Duration(words, k) \o h[k + 1] \in P /\ Duration(words, k) \o h[k + 2] \in P
    BY <2>1, <2>2, ConcatProperties
  <2>4. h[k] = ScanStep(words, h, k)
    BY <1>1
  <2>5. h[k] \in P
    <3> HIDE DEF P
    <3> QED BY <2>3, <2>4 DEF ScanStep
  <2> QED BY <2>5
<1>4. 1 \in S
  <2>1. N \in Nat
    OBVIOUS
  <2> HIDE DEF S, N
  <2> QED BY <1>2, <1>3, <2>1, ScanBackwards
<1> QED
  BY <1>1, <1>4

\* The numbers with a unit from word k on.
CountedFrom(words, k) == {j \in Counted(words) : j >= k}

\* s says the one duration of the set of words C, or that there is none, or that
\* there are several.
Says(words, s, C) ==
  /\ s = <<>> => C = {}
  /\ Len(s) = 1 => \E j : C = {j} /\ s = <<SecondsAt(words, j)>>

\* When no word is number and unit in one, the scan collects exactly the durations
\* that some word begins.
LEMMA ScanPassesNoneOver ==
  ASSUME NEW words \in Seq(STRING), \A k \in DOMAIN words : ~NumberAndUnit(words[k])
  PROVE  Says(words, Scan(words), Counted(words))
<1> DEFINE N == Len(words)
<1>0. N \in Nat /\ DOMAIN words = 1 .. N
  OBVIOUS
<1>1. PICK h : /\ Scan(words) = h[1]
               /\ \A k \in 1 .. N + 2 : h[k] = ScanStep(words, h, k)
  BY <1>0, ScanUnfolds
<1> DEFINE P == Seq(Nat \ {0})
           S == {k \in 1 .. N + 2 : h[k] \in P /\ Says(words, h[k], CountedFrom(words, k))}
<1>2. N + 1 \in S /\ N + 2 \in S
  <2>1. h[N + 1] = <<>> /\ h[N + 2] = <<>>
    BY <1>0, <1>1 DEF ScanStep
  <2>2. CountedFrom(words, N + 1) = {} /\ CountedFrom(words, N + 2) = {}
    BY <1>0 DEF CountedFrom, Counted
  <2>3. <<>> \in P /\ Says(words, <<>>, {})
    BY DEF Says
  <2>4. /\ h[N + 1] \in P /\ Says(words, h[N + 1], CountedFrom(words, N + 1))
        /\ h[N + 2] \in P /\ Says(words, h[N + 2], CountedFrom(words, N + 2))
    <3> HIDE DEF P, N
    <3> QED BY <2>1, <2>2, <2>3
  <2>5. N + 1 \in 1 .. N + 2 /\ N + 2 \in 1 .. N + 2
    BY <1>0
  <2> HIDE DEF P, N
  <2> QED BY <2>4, <2>5
<1>3. ASSUME NEW k \in 1 .. N, k + 1 \in S, k + 2 \in S PROVE k \in S
  <2> DEFINE next == IF TakesNext(words, k) THEN k + 2 ELSE k + 1
             s == h[next]
             d == Duration(words, k)
             C == CountedFrom(words, next)
  <2>1. s \in P /\ Says(words, s, C)
    BY <1>3
  <2>2. h[k] = d \o s
    <3>1. h[k] = ScanStep(words, h, k) /\ ~(k > Len(words))
      BY <1>0, <1>1
    <3> QED BY <3>1 DEF ScanStep
  <2>3. SecondsAt(words, k) \in Nat
    BY SecondsAreNatural
  <2>4. d \in P
    BY DurationIsPositive
  <2>5. h[k] \in P
    BY <2>1, <2>2, <2>4, ConcatProperties
  <2>6. TakesNext(words, k) => k + 1 \notin Counted(words)
    <3> SUFFICES ASSUME TakesNext(words, k) PROVE k + 1 \notin Counted(words)
      OBVIOUS
    <3>1. ~Joined(words[k]) /\ UnitAt(words, k) > 0
      BY DEF TakesNext
    <3>2. k < N /\ UnitAt(words, k) = UnitSeconds(words[k + 1])
      BY <3>1 DEF UnitAt
    <3>3. k + 1 \in DOMAIN words
      BY <1>0, <3>2
    <3>4. ~(Number(words[k + 1]) >= 0)
      BY <3>1, <3>2, <3>3 DEF NumberAndUnit
    <3>5. Number(words[k + 1]) \in Int
      BY NumberIsInteger
    <3>6. SecondsAt(words, k + 1) = 0
      BY <3>4, <3>5 DEF SecondsAt
    <3> QED BY <3>6 DEF Counted
  <2>7. CountedFrom(words, k) = C \cup (IF SecondsAt(words, k) > 0 THEN {k} ELSE {})
    BY <1>0, <2>6 DEF CountedFrom, Counted
  <2>8. CASE SecondsAt(words, k) > 0
    <3>1. d = <<SecondsAt(words, k)>> /\ CountedFrom(words, k) = C \cup {k}
      BY <2>7, <2>8 DEF Duration
    <3>2. Len(h[k]) = 1 + Len(s)
      BY <2>1, <2>2, <2>4, <3>1, ConcatProperties
    <3>3. h[k] # <<>>
      BY <2>1, <2>5, <3>2
    <3>4. ASSUME Len(h[k]) = 1
          PROVE  CountedFrom(words, k) = {k} /\ h[k] = <<SecondsAt(words, k)>>
      <4>1. s = <<>>
        <5>1. Len(s) \in Nat /\ (s # <<>> => Len(s) \in Nat \ {0})
          <6> HIDE DEF s
          <6> QED BY <2>1, EmptySeq, LenProperties
        <5>2. 1 = 1 + Len(s)
          BY <3>2, <3>4
        <5>3. Len(s) = 0
          <6> DEFINE n == Len(s)
          <6>1. n \in Nat /\ 1 = 1 + n
            BY <5>1, <5>2
          <6> HIDE DEF n
          <6>2. n = 0
            BY <6>1
          <6> QED BY <6>2 DEF n
        <5> HIDE DEF s
        <5> QED BY <5>1, <5>3
      <4>2. C = {}
        BY <2>1, <4>1 DEF Says
      <4>3. h[k] = d
        BY <2>2, <2>4, <4>1, ConcatEmptySeq
      <4> QED BY <3>1, <4>2, <4>3
    <3>5. Says(words, h[k], CountedFrom(words, k))
      BY <3>3, <3>4 DEF Says
    <3> QED BY <1>0, <2>5, <3>5
  <2>9. CASE ~(SecondsAt(words, k) > 0)
    <3>1. d = <<>> /\ CountedFrom(words, k) = C
      BY <2>7, <2>9 DEF Duration
    <3>2. h[k] = s
      BY <2>1, <2>2, <3>1, ConcatEmptySeq
    <3>3. Says(words, h[k], CountedFrom(words, k))
      BY <2>1, <3>1, <3>2
    <3> QED BY <1>0, <2>5, <3>3
  <2> QED BY <2>8, <2>9
<1>4. 1 \in S
  <2> HIDE DEF S, N
  <2> QED BY <1>0, <1>2, <1>3, ScanBackwards
<1>5. CountedFrom(words, 1) = Counted(words)
  BY <1>0 DEF CountedFrom, Counted
<1> QED
  BY <1>1, <1>4, <1>5

-----------------------------------------------------------------------------
(***************************************************************************)
(* gw_rule_compile: the first check that refuses decides, and what passes  *)
(* all of them is a rule of the core.                                      *)
(***************************************************************************)
LEMMA LeastElement ==
  ASSUME NEW S, S \subseteq Nat, S # {}
  PROVE  \E m \in S : \A n \in S : m <= n
<1> DEFINE R == {p \in Nat \X Nat : p[1] < p[2]}
<1>1. IsWellFoundedOn(R, Nat)
  BY NatLessThanWellFounded DEF OpToRel
<1>2. PICK m \in S : \A n \in S : ~ (<<n, m>> \in R)
  <2> HIDE DEF R
  <2> QED BY <1>1, WFMin
<1>3. \A n \in S : ~(n < m)
  BY <1>2
<1> QED
  BY <1>3

Passes(req) == \A k \in 1 .. 14 : ~Refusals(req)[k][1]

RefusedAt(req, first) ==
  /\ Refusals(req)[first][1]
  /\ \A j \in 1 .. first - 1 : ~Refusals(req)[j][1]

\* The answer is that of the first check that refuses, or the rule.
LEMMA FirstCheckDecides ==
  ASSUME NEW req
  PROVE  \/ Passes(req) /\ Compiled(req).status = "OK"
         \/ \E first \in 1 .. 14 :
              /\ RefusedAt(req, first)
              /\ Compiled(req) = [ status |-> Refusals(req)[first][2],
                                   why    |-> Refusals(req)[first][3] ]
<1> DEFINE checks == Refusals(req)
           refused == {k \in DOMAIN checks : checks[k][1]}
           first == CHOOSE k \in refused : \A j \in refused : k <= j
<1>1. DOMAIN checks = 1 .. 14
  BY RefusalsAre
<1>2. CASE refused = {}
  <2>1. Passes(req)
    BY <1>1, <1>2 DEF Passes
  <2>2. Compiled(req).status = "OK"
    BY <1>2 DEF Compiled
  <2> QED BY <2>1, <2>2
<1>3. CASE refused # {}
  <2>1. refused \subseteq 1 .. 14
    BY <1>1
  <2>2. \E m \in refused : \A j \in refused : m <= j
    <3>1. refused \subseteq Nat
      BY <2>1
    <3> HIDE DEF refused
    <3> QED BY <1>3, <3>1, LeastElement
  <2>3. first \in refused /\ \A j \in refused : first <= j
    <3> HIDE DEF refused
    <3> QED BY <2>2
  <2>4. Compiled(req) = [status |-> checks[first][2], why |-> checks[first][3]]
    BY <1>3 DEF Compiled
  <2> HIDE DEF first
  <2>5. first \in 1 .. 14 /\ checks[first][1]
    BY <1>1, <2>3
  <2>6. \A j \in 1 .. first - 1 : ~checks[j][1]
    BY <1>1, <2>3, <2>5
  <2> HIDE DEF checks
  <2> QED BY <2>4, <2>5, <2>6 DEF RefusedAt, checks
<1> QED
  BY <1>2, <1>3

\* What is compiled has passed every check.
LEMMA AcceptedPasses ==
  ASSUME NEW req, Compiled(req).status = "OK"
  PROVE  Passes(req)
<1> SUFFICES ASSUME NEW first \in 1 .. 14,
                    Compiled(req) = [ status |-> Refusals(req)[first][2],
                                      why    |-> Refusals(req)[first][3] ]
             PROVE  FALSE
  BY FirstCheckDecides
<1>1. Refusals(req)[first][2] \in {"INVALID_ARG", "LIMIT"}
  BY RefusalsAre2
<1>2. Compiled(req).status = Refusals(req)[first][2]
  OBVIOUS
<1> QED
  BY <1>1, <1>2

\* What gw_rule_compile writes when nothing is refused.
LEMMA CompiledRule ==
  ASSUME NEW req, Passes(req)
  PROVE  LET hit == CHOOSE t \in Hits(Words(req.sentence)) : TRUE
         IN  Compiled(req) =
               [ status |-> "OK", template |-> hit,
                 lang   |-> LangOf(hit, Words(req.sentence)),
                 timing |-> Timing(req, hit, Scan(Words(req.sentence))),
                 region |-> IF req.region = {} THEN WholeFrame
                            ELSE RegionOf(CHOOSE text \in req.region : TRUE) ]
<1>1. {k \in DOMAIN Refusals(req) : Refusals(req)[k][1]} = {}
  BY RefusalsAre DEF Passes
<1> QED
  BY <1>1 DEF Compiled

\* A sentence has words.
LEMMA WordsAreWords ==
  ASSUME NEW req \in Requests
  PROVE  Words(req.sentence) \in Seq(STRING)
<1> DEFINE parts == [k \in DOMAIN req.sentence |-> WordsIn[req.sentence[k]]]
           W == STRING
<1>1. req.sentence \in Seq(DOMAIN Spelling)
  BY RequestsAssumption DEF Askable
<1>2. parts \in Seq(Seq(W))
  <2>1. \A k \in 1 .. Len(req.sentence) : WordsIn[req.sentence[k]] \in Seq(W)
    BY <1>1, WordsInAssumption
  <2>2. DOMAIN req.sentence = 1 .. Len(req.sentence) /\ Len(req.sentence) \in Nat
    BY <1>1
  <2> HIDE DEF W
  <2> QED BY <2>1, <2>2
<1>3. <<>> \in Seq(W)
  OBVIOUS
<1>4. Join(parts, <<>>) \in Seq(W)
  <2> HIDE DEF parts, W
  <2> QED BY <1>2, <1>3, JoinIsASequence
<1> QED
  BY <1>4 DEF Words

\* The two templates of the code, in numbers.
LEMMA TemplatesAre ==
  /\ DOMAIN Template = {"doorstep_package", "door_open"}
  /\ LET t == Template["doorstep_package"]
     IN  /\ t.kind = "appeared" /\ t.target = "yes" /\ t.takes_duration = FALSE
         /\ t.confirm_count = 3 /\ t.confirm_window = 10 /\ t.max_gap = 15 /\ t.sustain = 0
  /\ LET t == Template["door_open"]
     IN  /\ t.kind = "sustained" /\ t.target = "yes" /\ t.takes_duration = TRUE
         /\ t.confirm_count = 2 /\ t.confirm_window = 2 /\ t.max_gap = 15 /\ t.sustain = 300
BY DEF Template

\* Every check of the sentence and the parameters, when it does not refuse.
LEMMA ChecksAre ==
  ASSUME NEW req
  PROVE  LET words == Words(req.sentence)
             hits  == Hits(words)
             said  == Scan(words)
             c     == Refusals(req)
         IN  /\ ~c[1][1] => IdOk(req.id)
             /\ ~c[2][1] => \A text \in req.region : RegionMeans(text)
             /\ ~c[3][1] => \A n \in {req.confirm_window, req.max_gap, req.sustain} : ~(n < 0)
             /\ ~c[6][1] => \A k \in DOMAIN words : words[k] \notin Negations
             /\ ~c[7][1] => ~Ambiguous(words)
             /\ ~c[8][1] => hits # {}
             /\ ~c[9][1] => ~(Len(said) > 1)
             /\ ~c[10][1] => ~TooMuchSaid(hits, said)
             /\ ~c[12][1] => ~(req.sustain > 0 /\ \E t \in hits : ~Template[t].takes_duration)
             /\ ~c[13][1] => ~(req.sustain > 0 /\ Len(said) = 1 /\ said # <<req.sustain>>)
             /\ c[14][1] => \E t \in hits : ~Usable(Timing(req, t, said))
BY DEF Refusals

\* gw_rules.c:692: a rule that every earlier check lets through is one the core
\* takes.
LEMMA TimingIsUsable ==
  ASSUME NEW req \in Requests, \A k \in 1 .. 13 : ~Refusals(req)[k][1],
         NEW t \in Hits(Words(req.sentence))
  PROVE  Usable(Timing(req, t, Scan(Words(req.sentence))))
<1> DEFINE words == Words(req.sentence)
           hits  == Hits(words)
           said  == Scan(words)
           cfg   == Timing(req, t, said)
<1>1. /\ req.confirm_count \in Nat
      /\ req.confirm_window \in Int /\ req.max_gap \in Int /\ req.sustain \in Int
  BY RequestsAssumption DEF Askable
<1>2. /\ ~(req.confirm_window < 0) /\ ~(req.max_gap < 0) /\ ~(req.sustain < 0)
  BY ChecksAre
<1>3. ~(Len(said) > 1) /\ ~TooMuchSaid(hits, said)
  BY ChecksAre
<1>4. ~(req.sustain > 0 /\ \E h \in hits : ~Template[h].takes_duration)
  BY ChecksAre
<1>5. said \in Seq(Nat \ {0})
  BY WordsAreWords, ScanIsPositive
<1>6. t \in {"doorstep_package", "door_open"}
  BY TemplatesAre DEF Hits
<1>7. /\ cfg.kind = Template[t].kind /\ cfg.target = Template[t].target
      /\ cfg.confirm_count = Or(req.confirm_count, Template[t].confirm_count)
      /\ cfg.confirm_window = Or(req.confirm_window, Template[t].confirm_window)
      /\ cfg.max_gap = Or(req.max_gap, Template[t].max_gap)
      /\ cfg.sustain = Sustain(req, t, said)
  BY DEF Timing
<1>0. t \in hits
  OBVIOUS
<1> HIDE DEF words, hits, said, cfg
<1>8. /\ cfg.target \in {"yes", "no"}
      /\ cfg.confirm_count > 0 /\ cfg.confirm_window >= 0 /\ cfg.max_gap > 0
  BY <1>1, <1>2, <1>6, <1>7, TemplatesAre DEF Or
<1>9. CASE t = "doorstep_package"
  <2>1. ~Template[t].takes_duration
    BY <1>9, TemplatesAre
  <2>2. Len(said) # 1
    BY <1>0, <1>3, <2>1 DEF TooMuchSaid
  <2>3. ~(req.sustain > 0)
    BY <1>0, <1>4, <2>1
  <2>4. cfg.sustain = 0 /\ cfg.kind = "appeared"
    BY <1>1, <1>7, <1>9, <2>2, <2>3, TemplatesAre DEF Sustain
  <2> QED BY <1>8, <2>4 DEF Usable, cfg, words, hits, said
<1>10. CASE t = "door_open"
  <2>1. cfg.kind = "sustained" /\ Template[t].sustain = 300
    BY <1>7, <1>10, TemplatesAre
  <2>2. CASE req.sustain > 0
    <3>1. cfg.sustain > 0
      BY <1>1, <1>7, <2>2 DEF Sustain
    <3> QED BY <1>8, <2>1, <3>1 DEF Usable, cfg, words, hits, said
  <2>3. CASE ~(req.sustain > 0) /\ Len(said) = 1
    <3>0. 1 \in 1 .. Len(said)
      BY <2>3
    <3>1. said[1] \in Nat \ {0}
      BY <1>5, <3>0, ElementOfSeq
    <3>2. cfg.sustain > 0
      BY <1>1, <1>7, <2>3, <3>1 DEF Sustain
    <3> QED BY <1>8, <2>1, <3>2 DEF Usable, cfg, words, hits, said
  <2>4. CASE ~(req.sustain > 0) /\ Len(said) # 1
    <3>1. cfg.sustain > 0
      BY <1>1, <1>7, <2>1, <2>4 DEF Sustain
    <3> QED BY <1>8, <2>1, <3>1 DEF Usable, cfg, words, hits, said
  <2> QED BY <2>2, <2>3, <2>4
<1> QED
  BY <1>6, <1>9, <1>10

-----------------------------------------------------------------------------
(***************************************************************************)
(* The specification: a request is compiled once, and every crop is one of *)
(* the region compiled.                                                    *)
(***************************************************************************)
Cropped ==
  frame # <<0, 0>> =>
    /\ result.status = "OK"
    /\ frame[1] \in Nat \ {0} /\ frame[2] \in Nat \ {0}
    /\ rect = RegionPixels(result.region, frame[1], frame[2])

CompileInv ==
  /\ request \in Requests
  /\ result = Pending \/ result = Compiled(request)
  /\ Cropped

\* A result is always that of the request.
LEMMA CompileInvHolds == CSpec => []CompileInv
<1>1. CInit => CompileInv
  BY DEF CInit, CompileInv, Cropped
<1>2. CompileInv /\ [CNext]_cvars => CompileInv'
  <2> SUFFICES ASSUME CompileInv, [CNext]_cvars PROVE CompileInv'
    OBVIOUS
  <2>1. CASE Compile
    <3>1. /\ request' = request /\ frame' = frame /\ rect' = rect
          /\ result = Pending /\ result' = Compiled(request)
      BY <2>1 DEF Compile
    <3>2. frame = <<0, 0>>
      BY <3>1 DEF CompileInv, Cropped, Pending
    <3> QED BY <3>1, <3>2 DEF CompileInv, Cropped
  <2>2. CASE Crop
    <3>1. PICK width \in Sizes \ {0}, height \in Sizes \ {0} :
            frame' = <<width, height>> /\ rect' = RegionPixels(result.region, width, height)
      BY <2>2 DEF Crop
    <3>2. width \in Nat \ {0} /\ height \in Nat \ {0}
      BY <3>1, SizesAssumption
    <3>3. result.status = "OK" /\ result' = result /\ request' = request
      BY <2>2 DEF Crop
    <3>4. frame'[1] = width /\ frame'[2] = height
      BY <3>1
    <3> QED BY <3>1, <3>2, <3>3, <3>4 DEF CompileInv, Cropped
  <2>3. CASE UNCHANGED cvars
    BY <2>3 DEF CompileInv, Cropped, cvars
  <2> QED BY <2>1, <2>2, <2>3 DEF CNext
<1> QED
  BY <1>1, <1>2, PTL DEF CSpec

\* gw_rules.c:692: no sentence and no parameters get as far as a refusal of the
\* core, and what is compiled is a rule the core takes.
LEMMA CoreTakesWhatIsCompiled ==
  CompileInv => CoreNeverRefuses
<1> SUFFICES ASSUME CompileInv, Done PROVE
      /\ result.status # "OK" => result.why # "core"
      /\ Good => Usable(result.timing) /\ CopyIdStatus(result.timing.id) = "OK"
  BY DEF CoreNeverRefuses
<1>1. request \in Requests /\ result = Compiled(request)
  BY DEF CompileInv, Done
<1> DEFINE words == Words(request.sentence)
           hits  == Hits(words)
           said  == Scan(words)
<1>2. CASE Passes(request)
  <2> DEFINE hit == CHOOSE t \in hits : TRUE
  <2>1. result.status = "OK" /\ result.timing = Timing(request, hit, said)
    BY <1>1, <1>2, CompiledRule
  <2>2. hits # {} /\ IdOk(request.id)
    BY <1>2, ChecksAre DEF Passes
  <2>3. hit \in hits
    <3> HIDE DEF hits
    <3> QED BY <2>2
  <2>4. Usable(Timing(request, hit, said))
    <3>1. \A k \in 1 .. 13 : ~Refusals(request)[k][1]
      BY <1>2 DEF Passes
    <3> HIDE DEF hit
    <3> QED BY <1>1, <3>1, <2>3, TimingIsUsable
  <2>5. Timing(request, hit, said).id = request.id
    BY DEF Timing
  <2> QED BY <2>1, <2>2, <2>4, <2>5 DEF IdOk
<1>3. CASE \E first \in 1 .. 14 :
             /\ RefusedAt(request, first)
             /\ Compiled(request) = [ status |-> Refusals(request)[first][2],
                                      why    |-> Refusals(request)[first][3] ]
  <2>1. PICK first \in 1 .. 14 :
             /\ RefusedAt(request, first)
             /\ Compiled(request) = [ status |-> Refusals(request)[first][2],
                                      why    |-> Refusals(request)[first][3] ]
    BY <1>3
  <2>2. first # 14
    <3> SUFFICES ASSUME first = 14 PROVE FALSE
      OBVIOUS
    <3>1. Refusals(request)[14][1] /\ \A k \in 1 .. 13 : ~Refusals(request)[k][1]
      BY <2>1 DEF RefusedAt
    <3>2. PICK t \in hits : ~Usable(Timing(request, t, said))
      BY <3>1, ChecksAre
    <3> QED BY <1>1, <3>1, <3>2, TimingIsUsable
  <2>3. first \in 1 .. 13
    BY <2>2
  <2>4. Refusals(request)[first][3] # "core" /\ Refusals(request)[first][2] # "OK"
    BY <2>3, RefusalsAre2
  <2>5. result.why = Refusals(request)[first][3] /\ result.status = Refusals(request)[first][2]
    BY <1>1, <2>1
  <2> QED BY <2>4, <2>5 DEF Good
<1> QED
  BY <1>2, <1>3, FirstCheckDecides

\* gw_rules.c:692: the trial of gw_add_rule at the end of compilation never fails, and
\* what is compiled is a rule that the core accepts.
THEOREM NothingLeftToTheCore == CSpec => []CoreNeverRefuses
BY CompileInvHolds, CoreTakesWhatIsCompiled, PTL

\* What a compiled rule and its sentence have to do with each other.
LEMMA GoodIsCompiled ==
  ASSUME CompileInv, Good
  PROVE  LET words == Words(request.sentence)
         IN  /\ request \in Requests /\ Passes(request)
             /\ result.template = CHOOSE t \in Hits(words) : TRUE
             /\ result.lang = LangOf(result.template, words)
             /\ result.timing = Timing(request, result.template, Scan(words))
             /\ result.region = IF request.region = {} THEN WholeFrame
                                ELSE RegionOf(CHOOSE text \in request.region : TRUE)
<1>1. request \in Requests /\ result = Compiled(request)
  BY DEF CompileInv, Good, Pending
<1>2. Passes(request)
  BY <1>1, AcceptedPasses DEF Good
<1> QED
  BY <1>1, <1>2, CompiledRule

\* gw_rules.c:21: the words of a compiled sentence ask, in one language, for the
\* rule that is armed, and in none for another.
LEMMA ArmedAsSaid ==
  CompileInv => ArmsWhatItSays
<1> SUFFICES ASSUME CompileInv, Good PROVE ArmsWhatItSays
  BY DEF ArmsWhatItSays
<1> DEFINE words == Words(request.sentence)
           hits  == Hits(words)
           hit   == result.template
<1>1. /\ Passes(request)
      /\ hit = CHOOSE t \in hits : TRUE
      /\ result.lang = LangOf(hit, words)
  BY GoodIsCompiled
<1>2. ~Ambiguous(words) /\ hits # {} /\ \A k \in DOMAIN words : words[k] \notin Negations
  <2>1. \A k \in 1 .. 14 : ~Refusals(request)[k][1]
    BY <1>1 DEF Passes
  <2>2. /\ ~Refusals(request)[6][1] /\ ~Refusals(request)[7][1]
        /\ ~Refusals(request)[8][1]
    BY <2>1
  <2> QED BY <2>2, ChecksAre
<1>3. hit \in hits
  <2> HIDE DEF hits
  <2> QED BY <1>1, <1>2
<1>4. IsFiniteSet(hits)
  <2>1. hits \in SUBSET {"doorstep_package", "door_open"}
    BY TemplatesAre DEF Hits
  <2>2. IsFiniteSet({} \cup {"doorstep_package"} \cup {"door_open"})
    BY FS_EmptySet, FS_AddElement
  <2>3. IsFiniteSet({"doorstep_package", "door_open"})
    <3>1. {} \cup {"doorstep_package"} \cup {"door_open"} = {"doorstep_package", "door_open"}
      OBVIOUS
    <3> QED BY <2>2, <3>1
  <2> HIDE DEF hits
  <2> QED BY <2>1, <2>3, FS_Subset
<1>5. \A t \in hits : t = hit
  <2> SUFFICES ASSUME NEW t \in hits, t # hit PROVE FALSE
    OBVIOUS
  <2> HIDE DEF hits, hit
  <2>1. IsFiniteSet({hit}) /\ Cardinality({hit}) = 1
    BY FS_Singleton
  <2>2. IsFiniteSet({hit} \cup {t}) /\ Cardinality({hit} \cup {t}) = 2
    BY <2>1, FS_AddElement
  <2>3. ({hit} \cup {t}) \in SUBSET hits
    BY <1>3
  <2>4. Cardinality({hit} \cup {t}) <= Cardinality(hits) /\ Cardinality(hits) \in Nat
    BY <1>4, <2>3, FS_Subset, FS_CardinalityType
  <2>5. Cardinality(hits) > 1
    BY <2>2, <2>4
  <2> QED BY <1>2, <2>5 DEF Ambiguous, hits
<1>6. \A t \in DOMAIN Template : (\E lang \in Lang : Matches(t, words, lang)) => t = hit
  BY <1>5 DEF Hits
<1>7. hit \notin BothTongues(words)
  BY <1>2 DEF Ambiguous
<1>8. ~\A lang \in Lang : Matches(hit, words, lang)
  BY <1>3, <1>7 DEF BothTongues
<1>9. \E lang \in Lang : Matches(hit, words, lang)
  BY <1>3 DEF Hits
<1>10. \A lang \in Lang : Matches(hit, words, lang) <=> lang = result.lang
  <2>1. CASE Matches(hit, words, "en")
    <3>1. ~Matches(hit, words, "de") /\ result.lang = "en"
      BY <1>1, <1>8, <2>1 DEF LangOf, Lang
    <3> HIDE DEF words, hit
    <3> QED BY <2>1, <3>1 DEF Lang
  <2>2. CASE ~Matches(hit, words, "en")
    <3>1. Matches(hit, words, "de") /\ result.lang = "de"
      BY <1>1, <1>9, <2>2 DEF LangOf, Lang
    <3> HIDE DEF words, hit
    <3> QED BY <2>2, <3>1 DEF Lang
  <2> QED BY <2>1, <2>2
<1>11. hit \in DOMAIN Template
  BY <1>3 DEF Hits
<1>12. \A t \in DOMAIN Template, lang \in Lang :
         Matches(t, words, lang) <=> t = hit /\ lang = result.lang
  <2> TAKE t \in DOMAIN Template, lang \in Lang
  <2>1. CASE t = hit
    BY <1>10, <2>1
  <2>2. CASE t # hit
    <3>1. ~Matches(t, words, lang)
      BY <1>6, <2>2
    <3> QED BY <2>2, <3>1
  <2> QED BY <2>1, <2>2
<1> QED
  BY <1>2, <1>12 DEF ArmsWhatItSays

\* gw_rules.c:21: what is compiled was asked for by the words of one language, by no
\* words of another template in any language, and nothing in the sentence negates.
THEOREM ArmsNoOtherRule == CSpec => []ArmsWhatItSays
BY CompileInvHolds, ArmedAsSaid, PTL

\* test_rules.c:238: the rule waits for the one duration the sentence or the
\* parameter says, and only where neither says one for the template's own.
LEMMA MeantAsSaid ==
  CompileInv => SaidIsMeant
<1> DEFINE words   == Words(request.sentence)
           counted == Counted(words)
           scanned == Scan(words)
           hit     == result.template
           given   == IF request.sustain > 0 THEN {request.sustain} ELSE {}
           said    == {SecondsAt(words, k) : k \in counted} \cup given
           sustain == result.timing.sustain
<1> SUFFICES ASSUME CompileInv, Good, \A k \in DOMAIN words : ~NumberAndUnit(words[k])
             PROVE  /\ Cardinality(counted) <= 1
                    /\ said = {} => sustain = Template[hit].sustain
                    /\ said # {} => said = {sustain}
  BY DEF SaidIsMeant
<1>1. request \in Requests /\ Passes(request) /\ result.timing = Timing(request, hit, scanned)
  BY GoodIsCompiled
<1>2. request.sustain \in Int
  BY <1>1, RequestsAssumption DEF Askable
<1>3. words \in Seq(STRING)
  BY <1>1, WordsAreWords
<1>4. scanned \in Seq(Nat \ {0}) /\ Len(scanned) \in Nat
  BY <1>3, ScanIsPositive, LenProperties
<1>5. Says(words, scanned, counted)
  BY <1>3, ScanPassesNoneOver
<1>6. ~(Len(scanned) > 1) /\ ~(request.sustain > 0 /\ Len(scanned) = 1 /\ scanned # <<request.sustain>>)
  <2>1. ~Refusals(request)[9][1] /\ ~Refusals(request)[13][1]
    BY <1>1 DEF Passes
  <2> QED BY <2>1, ChecksAre
<1>7. sustain = Sustain(request, hit, scanned)
  BY <1>1 DEF Timing
<1> HIDE DEF words, counted, scanned, hit, sustain
<1>8. CASE Len(scanned) = 0
  <2>1. scanned = <<>>
    BY <1>4, <1>8, EmptySeq
  <2>2. counted = {}
    BY <1>5, <2>1 DEF Says
  <2>3. Cardinality(counted) = 0
    BY <2>2, FS_EmptySet
  <2>4. said = given
    BY <2>2
  <2>5. CASE request.sustain > 0
    <3>1. sustain = request.sustain
      BY <1>2, <1>7, <2>5 DEF Sustain
    <3> QED BY <2>3, <2>4, <2>5, <3>1
  <2>6. CASE ~(request.sustain > 0)
    <3>1. sustain = Template[hit].sustain
      BY <1>2, <1>7, <1>8, <2>6 DEF Sustain
    <3> QED BY <2>3, <2>4, <2>6, <3>1
  <2> QED BY <2>5, <2>6
<1>9. CASE Len(scanned) = 1
  <2>1. PICK j : counted = {j} /\ scanned = <<SecondsAt(words, j)>>
    BY <1>5, <1>9 DEF Says
  <2>2. Cardinality(counted) = 1
    BY <2>1, FS_Singleton
  <2>3. {SecondsAt(words, k) : k \in counted} = {scanned[1]}
    BY <2>1
  <2>4. CASE request.sustain > 0
    <3>1. scanned = <<request.sustain>>
      BY <1>6, <1>9, <2>4
    <3>2. sustain = request.sustain /\ scanned[1] = request.sustain
      BY <1>2, <1>7, <2>4, <3>1 DEF Sustain
    <3>3. said = {sustain}
      BY <2>3, <2>4, <3>2
    <3> QED BY <2>2, <3>3
  <2>5. CASE ~(request.sustain > 0)
    <3>1. sustain = scanned[1]
      BY <1>2, <1>7, <1>9, <2>5 DEF Sustain
    <3>2. said = {sustain}
      BY <2>3, <2>5, <3>1
    <3> QED BY <2>2, <3>2
  <2> QED BY <2>4, <2>5
<1>10. Len(scanned) = 0 \/ Len(scanned) = 1
  <2> DEFINE n == Len(scanned)
  <2>1. n \in Nat /\ ~(n > 1)
    BY <1>4, <1>6
  <2> HIDE DEF n
  <2>2. n = 0 \/ n = 1
    BY <2>1
  <2> QED BY <2>2 DEF n
<1> HIDE DEF said
<1> QED
  BY <1>8, <1>9, <1>10

\* gw_rules.c: the rule waits for the duration said, in the sentence or the
\* parameter; when none is said, and only then, for the template's own.
THEOREM DurationIsMeant == CSpec => []SaidIsMeant
BY CompileInvHolds, MeantAsSaid, PTL

\* A region of some size inside the frame, in parts per million.
IsRegion(r) ==
  /\ r.x \in Nat /\ r.w \in Nat \ {0} /\ r.x + r.w <= Ppm
  /\ r.y \in Nat /\ r.h \in Nat \ {0} /\ r.y + r.h <= Ppm

\* The region of a compiled rule is one of percentages that fit.
LEMMA CompiledRegion ==
  ASSUME CompileInv, Good
  PROVE  IsRegion(result.region)
<1>1. /\ request \in Requests /\ Passes(request)
      /\ result.region = IF request.region = {} THEN WholeFrame
                         ELSE RegionOf(CHOOSE text \in request.region : TRUE)
  BY GoodIsCompiled
<1>2. Ppm \in Nat \ {0}
  BY PpmAssumption
<1>3. CASE request.region = {}
  BY <1>1, <1>2, <1>3 DEF IsRegion, WholeFrame
<1>4. CASE request.region # {}
  <2>1. PICK text \in request.region : result.region = RegionOf(text)
    BY <1>1, <1>4
  <2>2. RegionMeans(text)
    <3>1. ~Refusals(request)[2][1]
      BY <1>1 DEF Passes
    <3> QED BY <3>1, ChecksAre
  <2>3. \A k \in 1 .. 4 : text.values[k].whole \in Nat /\ text.values[k].frac \in Seq(0 .. 9)
    BY <1>1, RequestsAssumption DEF Askable
  <2>4. \A k \in 1 .. 4 : DecimalPpm(text.values[k]) \in Nat
    BY <1>2, <2>3, FractionIsNatural DEF DecimalPpm
  <2> DEFINE r == RegionOf(text)
  <2>5. /\ r.x = DecimalPpm(text.values[1]) /\ r.y = DecimalPpm(text.values[2])
        /\ r.w = DecimalPpm(text.values[3]) /\ r.h = DecimalPpm(text.values[4])
    BY DEF RegionOf
  <2>6. r.x \in Nat /\ r.y \in Nat /\ r.w \in Nat /\ r.h \in Nat
    BY <2>4, <2>5
  <2>7. r.w # 0 /\ r.h # 0 /\ r.x + r.w <= Ppm /\ r.y + r.h <= Ppm
    BY <2>2 DEF RegionMeans
  <2> HIDE DEF r
  <2>8. IsRegion(r)
    BY <2>6, <2>7 DEF IsRegion
  <2> QED BY <2>1, <2>8 DEF r
<1> QED
  BY <1>3, <1>4

\* gw_rule.h:67, of every frame cropped: the pixels are some, inside the frame,
\* and show the region of the rule.
LEMMA CroppedAsAsked ==
  CompileInv => RegionIsShown
<1> SUFFICES ASSUME CompileInv, frame # <<0, 0>> PROVE RegionIsShown
  BY DEF RegionIsShown
<1> DEFINE r == result.region
<1>1. /\ result.status = "OK"
      /\ frame[1] \in Nat \ {0} /\ frame[2] \in Nat \ {0}
      /\ rect = RegionPixels(r, frame[1], frame[2])
  BY DEF CompileInv, Cropped
<1>2. IsRegion(r)
  BY <1>1, CompiledRegion DEF Good
<1>3. /\ rect.x = Start(r.x, frame[1]) /\ rect.w = Extent(r.x, r.w, frame[1])
      /\ rect.y = Start(r.y, frame[2]) /\ rect.h = Extent(r.y, r.h, frame[2])
  BY <1>1 DEF RegionPixels
<1>4. /\ r.x \in Nat /\ r.w \in Nat \ {0} /\ r.x + r.w <= Ppm
      /\ r.y \in Nat /\ r.h \in Nat \ {0} /\ r.y + r.h <= Ppm
  BY <1>2 DEF IsRegion
<1> HIDE DEF r
<1>5. Shows(Start(r.x, frame[1]), Extent(r.x, r.w, frame[1]), r.x, r.w, frame[1])
  BY <1>1, <1>4, PixelsShowTheRegion
<1>6. Shows(Start(r.y, frame[2]), Extent(r.y, r.h, frame[2]), r.y, r.h, frame[2])
  BY <1>1, <1>4, PixelsShowTheRegion
<1> QED
  BY <1>3, <1>5, <1>6 DEF RegionIsShown, r

\* gw_rule.h:67: what a frame is cropped to is never empty, never outside the frame,
\* and shows the region of the rule, whatever the size of the frame.
THEOREM FramesShowTheRegion == CSpec => []RegionIsShown
BY CompileInvHolds, CroppedAsAsked, PTL

-----------------------------------------------------------------------------
(***************************************************************************)
(* What a record is written in.                                            *)
(***************************************************************************)
DigitChars == {"0", "1", "2", "3", "4", "5", "6", "7", "8", "9"}

Keys ==
  { "{schema_version:", ",event_id:", ",camera_id:", ",rule_id:", ",event_type:",
    ",observed_at:", ",emitted_at:", ",confirmations:", ",sustained_ms:", "}" }

Marks ==
  { Quote, Backslash, Nul, "n", "r", "t", "u", "b", "-", "T", ":", ".", "Z",
    "LF", "CR", "TAB", "SOH", "ESC" }

Letters == STRING \cup DigitChars \cup Keys \cup Marks
Text == Seq(Letters)

\* Two texts in a row are a text.
LEMMA TextConcat ==
  ASSUME NEW s \in Text, NEW t \in Text
  PROVE  s \o t \in Text
BY ConcatProperties DEF Text

\* A letter is a text of length one.
LEMMA TextOfOne ==
  ASSUME NEW ch \in Letters
  PROVE  <<ch>> \in Text
<1> HIDE DEF Letters
<1> QED BY DEF Text

\* What a caller puts into ids is text.
LEMMA IdsAreText ==
  ASSUME NEW s \in Seq(STRING)
  PROVE  s \in Text
<1>1. STRING \subseteq Letters
  BY DEF Letters
<1> QED
  BY <1>1, SeqMonotonic DEF Text

\* So are digits.
LEMMA DigitsAreText ==
  ASSUME NEW s \in Seq(DigitChars)
  PROVE  s \in Text
<1>1. DigitChars \subseteq Letters
  BY DEF Letters
<1> QED
  BY <1>1, SeqMonotonic DEF Text

\* The ten digits are ten.
LEMMA DigitsAre ==
  /\ \A i \in 1 .. 10 : Digits[i] \in DigitChars
  /\ \A i, j \in 1 .. 10 : Digits[i] = Digits[j] => i = j
  /\ \A c \in DigitChars : \E i \in 1 .. 10 : Digits[i] = c
BY DEF Digits, DigitChars

\* A number without its last digits is divided by ten as often.
LEMMA ShiftedIs ==
  ASSUME NEW value \in Int
  PROVE  /\ Shifted(value)[0] = value
         /\ \A k \in 0 .. MaxDigits : Shifted(value)[k] \in Int
         /\ \A k \in 1 .. MaxDigits : Shifted(value)[k] = Shifted(value)[k - 1] \div 10
<1> DEFINE N == MaxDigits
           step == [k \in 1 .. N |-> [x \in Int |-> x \div 10]]
           Is(f) == f = [k \in 0 .. N |-> IF k = 0 THEN value ELSE f[k - 1] \div 10]
           h == CHOOSE f : Is(f)
<1>1. N \in Nat /\ 0 \in 0 .. N
  BY DEF MaxDigits
<1>2. \A x \in Int : x \div 10 \in Int
  OBVIOUS
<1>3. step \in [1 .. N -> [Int -> Int]]
  BY <1>2
<1>4. PICK f : Unfolds(f, N, Int, value, step)
  <2> HIDE DEF step, N
  <2> QED BY <1>1, <1>3, Recursion
<1>5. Is(f)
  <2> HIDE DEF N
  <2>1. \A k \in 1 .. N : f[k - 1] \in Int
    BY <1>1, <1>4 DEF Unfolds
  <2>2. \A k \in 1 .. N : f[k] = f[k - 1] \div 10
    BY <1>4, <2>1 DEF Unfolds
  <2> HIDE DEF step
  <2> QED BY <1>4, <2>2 DEF Unfolds
<1>6. Is(h)
  <2> HIDE DEF Is
  <2> QED BY <1>5
<1>7. Shifted(value) = h
  BY DEF Shifted
<1>8. h[0] = value /\ \A k \in 1 .. N : h[k] = h[k - 1] \div 10
  <2> HIDE DEF h, N
  <2> QED BY <1>1, <1>6
<1>9. Follows(h, N, Int, value, step)
  <2> HIDE DEF h, N
  <2> QED BY <1>8 DEF Follows
<1>10. \A k \in 0 .. N : h[k] \in Int
  <2> HIDE DEF step, N, h
  <2> QED BY <1>1, <1>3, <1>9, RecursionStays
<1> QED
  BY <1>7, <1>8, <1>10

\* It stays a natural number.
LEMMA ShiftedStaysNatural ==
  ASSUME NEW value \in Nat
  PROVE  \A k \in 0 .. MaxDigits : Shifted(value)[k] \in Nat
<1> DEFINE N == MaxDigits
           S == {k \in 0 .. N : Shifted(value)[k] \in Nat}
<1>1. N \in Nat /\ 0 \in S
  BY ShiftedIs DEF MaxDigits
<1>2. ASSUME NEW k \in 0 .. N - 1, k \in S PROVE k + 1 \in S
  <2>1. k + 1 \in 1 .. N /\ (k + 1) - 1 = k
    BY <1>1
  <2>2. Shifted(value)[k + 1] = Shifted(value)[k] \div 10
    BY <2>1, ShiftedIs
  <2> DEFINE x == Shifted(value)[k]
  <2>3. x \in Nat
    BY <1>2
  <2>4. x \div 10 \in Nat
    <3> HIDE DEF x
    <3> QED BY <2>3
  <2> QED BY <2>1, <2>2, <2>4
<1>3. 0 .. N \subseteq S
  <2> HIDE DEF S, N
  <2> QED BY <1>1, <1>2, BoundedInduction
<1> QED
  BY <1>3

\* A padded number has the digits asked for.
LEMMA PaddedIsDigits ==
  ASSUME NEW value \in Int, NEW n \in 0 .. MaxDigits
  PROVE  /\ Padded(value, n) \in Seq(DigitChars)
         /\ Len(Padded(value, n)) = n
         /\ \A k \in 1 .. n : Padded(value, n)[k] = Digits[(Shifted(value)[n - k] % 10) + 1]
<1>1. \A k \in 1 .. n : Digits[(Shifted(value)[n - k] % 10) + 1] \in DigitChars
  <2> TAKE k \in 1 .. n
  <2> DEFINE x == Shifted(value)[n - k]
  <2>1. x \in Int
    <3>1. n - k \in 0 .. MaxDigits
      BY DEF MaxDigits
    <3> QED BY <3>1, ShiftedIs
  <2>2. (x % 10) + 1 \in 1 .. 10
    <3> HIDE DEF x
    <3> QED BY <2>1
  <2> QED BY <2>2, DigitsAre
<1>2. n \in Nat
  BY DEF MaxDigits
<1> DEFINE d == [k \in 1 .. n |-> Digits[(Shifted(value)[n - k] % 10) + 1]]
<1>3. d \in Seq(DigitChars) /\ Len(d) = n
  <2> HIDE DEF DigitChars, Digits
  <2> QED BY <1>1, <1>2
<1> QED
  BY <1>3 DEF Padded

\* The places of a number are enough for it.
LEMMA PlacesAre ==
  ASSUME NEW value \in Nat, Shifted(value)[MaxDigits] = 0
  PROVE  /\ Places(value) \in 1 .. MaxDigits
         /\ Shifted(value)[Places(value)] = 0
<1> DEFINE S == {n \in 1 .. MaxDigits : Shifted(value)[n] = 0}
<1>1. S \subseteq Nat /\ MaxDigits \in S
  BY DEF MaxDigits
<1>2. PICK m \in S : \A n \in S : m <= n
  <2> HIDE DEF S
  <2> QED BY <1>1, LeastElement
<1>3. m \in 1 .. MaxDigits /\ Shifted(value)[m] = 0
  OBVIOUS
<1>4. m > 1 => Shifted(value)[m - 1] # 0
  <2> SUFFICES ASSUME m > 1, Shifted(value)[m - 1] = 0 PROVE FALSE
    OBVIOUS
  <2>1. m - 1 \in S
    BY <1>3 DEF MaxDigits
  <2>2. m <= m - 1
    BY <1>2, <2>1
  <2> QED BY <1>3, <2>2 DEF MaxDigits
<1> DEFINE Fit(n) == Shifted(value)[n] = 0 /\ (n > 1 => Shifted(value)[n - 1] # 0)
<1>5. \E n \in 1 .. MaxDigits : Fit(n)
  BY <1>3, <1>4
<1>6. Places(value) = CHOOSE n \in 1 .. MaxDigits : Fit(n)
  BY DEF Places
<1>7. Places(value) \in 1 .. MaxDigits /\ Fit(Places(value))
  <2> HIDE DEF Fit
  <2> QED BY <1>5, <1>6
<1> QED
  BY <1>7

\* A number that a record holds.
Countable(n) == n \in Nat /\ Shifted(n)[MaxDigits] = 0

\* A number is written in digits, one for each place.
LEMMA DecimalIsDigits ==
  ASSUME NEW value, Countable(value)
  PROVE  Decimal(value) \in Seq(DigitChars) /\ Len(Decimal(value)) = Places(value)
<1>1. Places(value) \in 0 .. MaxDigits /\ value \in Int
  BY PlacesAre DEF Countable
<1> QED
  BY <1>1, PaddedIsDigits DEF Decimal

\* Times.
LEMMA ClockIs ==
  /\ Minute \in Nat \ {0} /\ Hour \in Nat \ {0} /\ Day \in Nat \ {0}
  /\ Sixty \in Nat \ {0} /\ HoursPerDay \in Nat \ {0}
  /\ NsPerSecond \in Nat \ {0} /\ NsPerMilli \in Nat \ {0}
<1>1. /\ Sixty \in Nat \ {0} /\ HoursPerDay \in Nat \ {0}
      /\ NsPerSecond \in Nat \ {0} /\ NsPerMilli \in Nat \ {0}
  BY ClockAssumption
<1>2. \A a, b \in Nat \ {0} : a * b \in Nat \ {0}
  <2> TAKE a, b \in Nat \ {0}
  <2>1. a * b \in Nat
    OBVIOUS
  <2>2. a * b > 0
    OBVIOUS
  <2> QED BY <2>1, <2>2
<1>3. Minute \in Nat \ {0}
  BY <1>1 DEF Minute
<1>4. Hour \in Nat \ {0}
  BY <1>1, <1>2, <1>3 DEF Hour
<1>5. Day \in Nat \ {0}
  BY <1>1, <1>2, <1>4 DEF Day
<1> QED
  BY <1>1, <1>3, <1>4, <1>5

\* Division as C does it gives integers.
LEMMA TruncDivIsInteger ==
  ASSUME NEW a \in Int, NEW b \in Nat \ {0}
  PROVE  TruncDiv(a, b) \in Int /\ TruncMod(a, b) \in Int
<1>1. a \div b \in Int /\ (-a) \div b \in Int
  OBVIOUS
<1>2. TruncDiv(a, b) \in Int
  BY <1>1 DEF TruncDiv
<1> QED
  BY <1>2 DEF TruncMod

\* So do seconds,
LEMMA SecondsAreIntegers ==
  ASSUME NEW ns \in Int
  PROVE  SecondsOf(ns).secs \in Int /\ SecondsOf(ns).rem \in Int
<1>1. TruncDiv(ns, NsPerSecond) \in Int /\ TruncMod(ns, NsPerSecond) \in Int
  BY ClockIs, TruncDivIsInteger
<1>2. NsPerSecond \in Int
  BY ClockIs
<1> QED
  BY <1>1, <1>2 DEF SecondsOf

\* days,
LEMMA DaysAreIntegers ==
  ASSUME NEW secs \in Int
  PROVE  DaysOf(secs) \in Int
<1>1. Day \in Nat \ {0} /\ secs - (Day - 1) \in Int
  BY ClockIs
<1> QED
  BY <1>1, TruncDivIsInteger DEF DaysOf

\* and dates.
LEMMA CivilIsIntegers ==
  ASSUME NEW days \in Int
  PROVE  Civil(days).y \in Int /\ Civil(days).mo \in Int /\ Civil(days).d \in Int
<1> DEFINE z     == days + 719468
           era   == TruncDiv(IF z >= 0 THEN z ELSE z - 146096, 146097)
           doe   == z - era * 146097
           yoe   == YearOfEra(doe)
           doy   == doe - (365 * yoe + yoe \div 4 - yoe \div 100)
           mp    == (5 * doy + 2) \div 153
           month == IF mp < 10 THEN mp + 3 ELSE mp - 9
<1>1. z \in Int
  OBVIOUS
<1>2. era \in Int
  <2> HIDE DEF z
  <2> QED BY <1>1, TruncDivIsInteger
<1>3. doe \in Int
  <2> HIDE DEF z, era
  <2> QED BY <1>1, <1>2
<1>4. yoe \in Int
  <2> HIDE DEF z, era, doe
  <2> QED BY <1>3 DEF YearOfEra
<1>5. doy \in Int
  <2> HIDE DEF z, era, doe, yoe
  <2> QED BY <1>3, <1>4
<1>6. mp \in Int
  <2> HIDE DEF z, era, doe, yoe, doy
  <2> QED BY <1>5
<1>7. month \in Int
  <2> HIDE DEF z, era, doe, yoe, doy, mp
  <2> QED BY <1>6
<1>8. Civil(days) = [ y |-> yoe + era * 400 + (IF month <= 2 THEN 1 ELSE 0),
                      mo |-> month, d |-> doy - (153 * mp + 2) \div 5 + 1 ]
  BY DEF Civil
<1> HIDE DEF z, era, doe, yoe, doy, mp, month
<1> QED
  BY <1>2, <1>4, <1>5, <1>6, <1>7, <1>8

\* A time is text.
LEMMA TimesAreText ==
  ASSUME NEW ns \in Int
  PROVE  Rfc3339(ns) \in Text
<1> DEFINE s    == SecondsOf(ns)
           days == DaysOf(s.secs)
           sod  == s.secs - days * Day
           date == Civil(days)
<1>1. s.secs \in Int /\ s.rem \in Int
  BY SecondsAreIntegers
<1>2. days \in Int
  <2> HIDE DEF s
  <2> QED BY <1>1, DaysAreIntegers
<1>3. date.y \in Int /\ date.mo \in Int /\ date.d \in Int
  <2> HIDE DEF days
  <2> QED BY <1>2, CivilIsIntegers
<1>4. sod \in Int
  <2> HIDE DEF s, days
  <2> QED BY <1>1, <1>2, ClockIs
<1>5. sod \div Hour \in Int /\ (sod \div Sixty) % Sixty \in Int /\ sod % Sixty \in Int
  <2> HIDE DEF sod
  <2>1. sod \div Sixty \in Int
    BY <1>4, ClockIs
  <2> DEFINE minutes == sod \div Sixty
  <2>2. minutes % Sixty \in Int
    <3>1. minutes \in Int
      BY <2>1
    <3> HIDE DEF minutes
    <3> QED BY <3>1, ClockIs
  <2> QED BY <1>4, <2>2, ClockIs
<1>6. s.rem \div NsPerMilli \in Int
  <2> HIDE DEF s
  <2> QED BY <1>1, ClockIs
<1>7. \A v \in Int, n \in 0 .. 4 : Padded(v, n) \in Text
  <2> TAKE v \in Int, n \in 0 .. 4
  <2>1. n \in 0 .. MaxDigits
    BY DEF MaxDigits
  <2> QED BY <2>1, PaddedIsDigits, DigitsAreText
<1>8. \A m \in {"-", "T", ":", ".", "Z"} : <<m>> \in Text
  <2> TAKE m \in {"-", "T", ":", ".", "Z"}
  <2>1. m \in Letters
    BY DEF Letters, Marks
  <2> QED BY <2>1, TextOfOne
<1> DEFINE d1 == Padded(date.y, 4)
           d2 == Padded(date.mo, 2)
           d3 == Padded(date.d, 2)
           d4 == Padded(sod \div Hour, 2)
           d5 == Padded((sod \div Sixty) % Sixty, 2)
           d6 == Padded(sod % Sixty, 2)
           d7 == Padded(s.rem \div NsPerMilli, 3)
<1>9. /\ d1 \in Text /\ d2 \in Text /\ d3 \in Text /\ d4 \in Text
      /\ d5 \in Text /\ d6 \in Text /\ d7 \in Text
  <2> HIDE DEF s, days, sod, date
  <2> QED BY <1>3, <1>5, <1>6, <1>7
<1>10. /\ <<"-">> \in Text /\ <<"T">> \in Text /\ <<":">> \in Text
       /\ <<".">> \in Text /\ <<"Z">> \in Text
  BY <1>8
<1>11. Rfc3339(ns) = d1 \o <<"-">> \o d2 \o <<"-">> \o d3 \o <<"T">> \o d4 \o <<":">>
                       \o d5 \o <<":">> \o d6 \o <<".">> \o d7 \o <<"Z">>
  BY DEF Rfc3339
<1> DEFINE date3 == d1 \o <<"-">> \o d2 \o <<"-">> \o d3
           time1 == date3 \o <<"T">> \o d4 \o <<":">>
           time2 == time1 \o d5 \o <<":">> \o d6
           time3 == time2 \o <<".">> \o d7 \o <<"Z">>
<1> HIDE DEF d1, d2, d3, d4, d5, d6, d7
<1>12. date3 \in Text
  BY <1>9, <1>10, TextConcat
<1>13. time1 \in Text
  <2> HIDE DEF date3
  <2> QED BY <1>9, <1>10, <1>12, TextConcat
<1>14. time2 \in Text
  <2> HIDE DEF time1
  <2> QED BY <1>9, <1>10, <1>13, TextConcat
<1>15. time3 \in Text
  <2> HIDE DEF time2
  <2> QED BY <1>9, <1>10, <1>14, TextConcat
<1> QED
  BY <1>11, <1>15

\* Quotes, backslashes and control characters have one escape each.
LEMMA SpecialsAreApart ==
  /\ Quote \notin DOMAIN Short /\ Quote \notin DOMAIN Hex
  /\ Backslash \notin DOMAIN Short /\ Backslash \notin DOMAIN Hex
  /\ \A ch \in DOMAIN Short : ch \notin DOMAIN Hex
  /\ Quote # Backslash
BY DEF Quote, Backslash, Short, Hex

\* An escaped letter is text,
LEMMA EscapeIsText ==
  ASSUME NEW ch \in Letters
  PROVE  Escape(ch) \in Text
<1>1. Backslash \in Letters
  BY DEF Letters, Marks
<1>2. /\ "u" \in Letters /\ "0" \in Letters /\ "1" \in Letters /\ "b" \in Letters
      /\ "n" \in Letters /\ "r" \in Letters /\ "t" \in Letters
  BY DEF Letters, Marks, DigitChars
<1>3. \A a, b \in Letters : <<a, b>> \in Text
  <2> HIDE DEF Letters
  <2> QED BY DEF Text
<1>4. \A c \in DOMAIN Short : Short[c] \in Letters
  BY <1>2 DEF Short
<1>5. \A c \in DOMAIN Hex : Hex[c] \in Text
  <2>1. \A a, b, c, d \in Letters : <<a, b, c, d>> \in Text
    <3> HIDE DEF Letters
    <3> QED BY DEF Text
  <2>2. <<"0", "0", "0", "1">> \in Text /\ <<"0", "0", "1", "b">> \in Text
    <3> HIDE DEF Letters
    <3> QED BY <1>2, <2>1
  <2> HIDE DEF Letters, Text
  <2> QED BY <2>2 DEF Hex
<1>6. CASE ch \in {Quote, Backslash}
  <2>1. Escape(ch) = <<Backslash, ch>>
    BY <1>6, SpecialsAreApart DEF Escape
  <2> QED BY <1>1, <1>3, <2>1
<1>7. CASE ch \notin {Quote, Backslash} /\ ch \in DOMAIN Short
  <2>1. Escape(ch) = <<Backslash, Short[ch]>>
    BY <1>7, SpecialsAreApart DEF Escape
  <2> QED BY <1>1, <1>3, <1>4, <1>7, <2>1
<1>8. CASE ch \notin {Quote, Backslash} /\ ch \notin DOMAIN Short /\ ch \in DOMAIN Hex
  <2>1. Escape(ch) = <<Backslash, "u">> \o Hex[ch]
    BY <1>8 DEF Escape
  <2> QED BY <1>1, <1>2, <1>3, <1>5, <1>8, <2>1, TextConcat
<1>9. CASE ch \notin {Quote, Backslash} /\ ch \notin DOMAIN Short /\ ch \notin DOMAIN Hex
  BY <1>9, TextOfOne DEF Escape
<1> QED
  BY <1>6, <1>7, <1>8, <1>9

\* The escaped text, character by character.
LEMMA EscapedUnfolds ==
  ASSUME NEW text \in Text
  PROVE  \E h : /\ Escaped(text) = h[Len(text)]
                /\ h[0] = <<>>
                /\ \A k \in 0 .. Len(text) : h[k] \in Text
                /\ \A k \in 1 .. Len(text) : h[k] = h[k - 1] \o Escape(text[k])
<1> DEFINE N == Len(text)
           step == [k \in 1 .. N |-> [x \in Text |-> x \o Escape(text[k])]]
           Item(f, k) == IF k = 0 THEN <<>> ELSE f[k - 1] \o Escape(text[k])
           Is(f) == f = [k \in 0 .. N |-> Item(f, k)]
           h == CHOOSE f : Is(f)
<1>1. N \in Nat /\ \A k \in 1 .. N : text[k] \in Letters
  BY LenProperties DEF Text
<1>2. \A x \in Text, k \in 1 .. N : x \o Escape(text[k]) \in Text
  <2> TAKE x \in Text, k \in 1 .. N
  <2>1. Escape(text[k]) \in Text
    BY <1>1, EscapeIsText
  <2> QED BY <2>1, TextConcat
<1>3. step \in [1 .. N -> [Text -> Text]]
  <2> HIDE DEF N
  <2> QED BY <1>2
<1>4. <<>> \in Text
  BY DEF Text
<1>5. PICK f : Unfolds(f, N, Text, <<>>, step)
  <2> HIDE DEF step, N
  <2> QED BY <1>1, <1>3, <1>4, Recursion
<1>6. Is(f)
  <2> HIDE DEF N
  <2>1. \A k \in 1 .. N : f[k - 1] \in Text
    BY <1>1, <1>5 DEF Unfolds
  <2>2. \A k \in 1 .. N : f[k] = f[k - 1] \o Escape(text[k])
    BY <1>5, <2>1 DEF Unfolds
  <2> HIDE DEF step
  <2>3. \A k \in 0 .. N : f[k] = Item(f, k)
    <3> TAKE k \in 0 .. N
    <3>1. CASE k = 0
      BY <1>5, <3>1 DEF Unfolds
    <3>2. CASE k # 0
      <4>1. k \in 1 .. N
        BY <1>1, <3>2
      <4> QED BY <2>2, <3>2, <4>1
    <3> QED BY <3>1, <3>2
  <2> HIDE DEF Item
  <2> QED BY <1>5, <2>3 DEF Unfolds
<1>7. Is(h)
  <2> HIDE DEF Is
  <2> QED BY <1>6
<1>8. Escaped(text) = h[N]
  BY DEF Escaped
<1>9. h[0] = <<>> /\ \A k \in 1 .. N : h[k] = h[k - 1] \o Escape(text[k])
  <2> HIDE DEF h, N
  <2>1. \A k \in 0 .. N : h[k] = Item(h, k)
    <3> HIDE DEF Item
    <3> QED BY <1>7
  <2>2. h[0] = <<>>
    <3>1. h[0] = Item(h, 0)
      BY <1>1, <2>1
    <3> QED BY <3>1
  <2>3. ASSUME NEW k \in 1 .. N PROVE h[k] = h[k - 1] \o Escape(text[k])
    <3>1. k \in 0 .. N /\ k # 0
      BY <1>1
    <3>2. h[k] = Item(h, k)
      BY <2>1, <3>1
    <3> QED BY <3>1, <3>2
  <2> QED BY <2>2, <2>3
<1>10. Follows(h, N, Text, <<>>, step)
  <2> HIDE DEF h, N
  <2> QED BY <1>9 DEF Follows
<1>11. \A k \in 0 .. N : h[k] \in Text
  <2> HIDE DEF step, N, h
  <2> QED BY <1>1, <1>3, <1>4, <1>10, RecursionStays
<1> HIDE DEF h
<1> QED
  BY <1>8, <1>9, <1>11

\* and so is an escaped text.
LEMMA EscapedIsText ==
  ASSUME NEW text \in Text
  PROVE  Escaped(text) \in Text
<1>1. PICK h : /\ Escaped(text) = h[Len(text)]
               /\ \A k \in 0 .. Len(text) : h[k] \in Text
  BY EscapedUnfolds
<1>2. Len(text) \in Nat
  BY LenProperties DEF Text
<1> QED
  BY <1>1, <1>2

\* What a record says, and that it is text.
IsEvent(ev) ==
  /\ ev.camera_id \in Text /\ ev.rule_id \in Text /\ ev.event_type \in Text
  /\ Countable(ev.sequence) /\ Countable(ev.confirmations) /\ Countable(ev.sustained)
  /\ ev.observed_at \in Int /\ ev.emitted_at \in Int

\* What a caller may say is an event.
LEMMA OccurrencesAreEvents ==
  ASSUME NEW ev \in Occurrences
  PROVE  IsEvent(ev)
<1>1. Tellable(ev)
  BY EventsAssumption
<1> QED
  BY <1>1, IdsAreText DEF Tellable, IsEvent, Countable

\* A field of the record is text,
LEMMA FieldIsText ==
  ASSUME NEW key \in Letters, NEW value \in Text
  PROVE  StringField(key, value) \in Text
<1>1. Quote \in Letters
  BY DEF Letters, Marks
<1>2. <<key, Quote>> \in Text
  <2> HIDE DEF Letters
  <2> QED BY <1>1 DEF Text
<1>3. <<Quote>> \in Text /\ Escaped(value) \in Text
  BY <1>1, TextOfOne, EscapedIsText
<1> QED
  BY <1>2, <1>3, TextConcat DEF StringField

\* and so is an event's id.
LEMMA EventIdIsText ==
  ASSUME NEW ev, IsEvent(ev)
  PROVE  EventId(ev) \in Text
<1>1. ":" \in Letters
  BY DEF Letters, Marks
<1>2. <<":">> \in Text
  BY <1>1, TextOfOne
<1>3. Decimal(ev.sequence) \in Text
  BY DecimalIsDigits, DigitsAreText DEF IsEvent
<1>4. ev.camera_id \in Text /\ ev.rule_id \in Text
  BY DEF IsEvent
<1> QED
  BY <1>2, <1>3, <1>4, TextConcat DEF EventId

\* Dividing does not add digits.
LEMMA ShiftedIsMonotonic ==
  ASSUME NEW a \in Nat, NEW b \in Nat, a <= b
  PROVE  \A k \in 0 .. MaxDigits : Shifted(a)[k] <= Shifted(b)[k]
<1> DEFINE N == MaxDigits
           S == {k \in 0 .. N : Shifted(a)[k] <= Shifted(b)[k]}
<1>1. N \in Nat /\ 0 \in S
  BY ShiftedIs DEF MaxDigits
<1>2. ASSUME NEW k \in 0 .. N - 1, k \in S PROVE k + 1 \in S
  <2>1. k + 1 \in 1 .. N /\ (k + 1) - 1 = k /\ k \in 0 .. N
    BY <1>1
  <2> DEFINE x == Shifted(a)[k]
             y == Shifted(b)[k]
  <2>2. Shifted(a)[k + 1] = x \div 10 /\ Shifted(b)[k + 1] = y \div 10
    BY <2>1, ShiftedIs
  <2>3. x \in Nat /\ y \in Nat /\ x <= y
    BY <1>2, <2>1, ShiftedStaysNatural
  <2>4. x \div 10 <= y \div 10
    <3> HIDE DEF x, y
    <3> QED BY <2>3
  <2> QED BY <2>1, <2>2, <2>4
<1>3. 0 .. N \subseteq S
  <2> HIDE DEF S, N
  <2> QED BY <1>1, <1>2, BoundedInduction
<1> QED
  BY <1>3

\* Twenty places are enough for what is smaller than a number they are enough for.
LEMMA SmallerIsCountable ==
  ASSUME NEW a \in Nat, NEW b, Countable(b), a <= b
  PROVE  Countable(a)
<1>1. MaxDigits \in 0 .. MaxDigits /\ b \in Nat
  BY DEF MaxDigits, Countable
<1>2. Shifted(a)[MaxDigits] \in Nat /\ Shifted(b)[MaxDigits] = 0
  BY <1>1, ShiftedStaysNatural DEF Countable
<1>3. Shifted(a)[MaxDigits] <= Shifted(b)[MaxDigits]
  BY <1>1, ShiftedIsMonotonic
<1> QED
  BY <1>2, <1>3 DEF Countable

\* They are enough for the schema's version,
LEMMA OneIsCountable == Countable(1)
<1> DEFINE N == MaxDigits
           S == {k \in 0 .. N : /\ Shifted(1)[k] \in {0, 1}
                                /\ k > 0 => Shifted(1)[k] = 0}
<1>1. N \in Nat /\ 0 \in S
  BY ShiftedIs DEF MaxDigits
<1>2. ASSUME NEW k \in 0 .. N - 1, k \in S PROVE k + 1 \in S
  <2>1. k + 1 \in 1 .. N /\ (k + 1) - 1 = k
    BY <1>1
  <2> DEFINE x == Shifted(1)[k]
  <2>2. Shifted(1)[k + 1] = x \div 10
    BY <2>1, ShiftedIs
  <2>3. x \in {0, 1}
    BY <1>2
  <2>4. x \div 10 = 0
    <3> HIDE DEF x
    <3> QED BY <2>3
  <2> QED BY <2>1, <2>2, <2>4
<1>3. 0 .. N \subseteq S
  <2> HIDE DEF S, N
  <2> QED BY <1>1, <1>2, BoundedInduction
<1>4. N \in S /\ N > 0
  BY <1>1, <1>3 DEF MaxDigits
<1> QED
  BY <1>4 DEF Countable

\* and for the counts of an event.
LEMMA CountsAreCountable ==
  ASSUME NEW ev, IsEvent(ev)
  PROVE  /\ ev.sustained \div NsPerMilli \in Nat
         /\ Countable(ev.sustained \div NsPerMilli)
         /\ InMilli(ev.sustained, ev.sustained \div NsPerMilli)
<1> DEFINE s == ev.sustained
<1>1. s \in Nat /\ Countable(s)
  BY DEF IsEvent, Countable
<1>2. /\ s \div NsPerMilli \in Nat
      /\ InMilli(s, s \div NsPerMilli)
      /\ s \div NsPerMilli <= s
  <2> HIDE DEF s
  <2>1. NsPerMilli \in Nat \ {0}
    BY ClockIs
  <2> DEFINE q == s \div NsPerMilli
  <2>2. q \in Nat /\ q * NsPerMilli <= s /\ s < (q + 1) * NsPerMilli
    BY <1>1, <2>1
  <2>3. q <= q * NsPerMilli
    <3> HIDE DEF q
    <3>1. q * (NsPerMilli - 1) >= 0
      BY <2>1, <2>2
    <3> QED BY <2>1, <2>2, <3>1
  <2>4. q * NsPerMilli \in Nat
    <3> HIDE DEF q
    <3> QED BY <2>1, <2>2
  <2> HIDE DEF q
  <2>5. q <= s
    BY <1>1, <2>2, <2>3, <2>4
  <2> QED BY <2>2, <2>5 DEF InMilli, q
<1>3. Countable(s \div NsPerMilli)
  <2> HIDE DEF s
  <2> QED BY <1>1, <1>2, SmallerIsCountable
<1> QED
  BY <1>2, <1>3

\* The pieces of a record, in their order.
LEMMA RecordIsText ==
  ASSUME NEW ev, IsEvent(ev)
  PROVE  Record(ev) \in Text
<1>1. /\ <<"{schema_version:">> \in Text /\ <<",confirmations:">> \in Text
      /\ <<",sustained_ms:">> \in Text /\ <<"}">> \in Text
  <2>1. /\ "{schema_version:" \in Letters /\ ",confirmations:" \in Letters
        /\ ",sustained_ms:" \in Letters /\ "}" \in Letters
    BY DEF Letters, Keys
  <2> QED BY <2>1, TextOfOne
<1>2. /\ ",event_id:" \in Letters /\ ",camera_id:" \in Letters /\ ",rule_id:" \in Letters
      /\ ",event_type:" \in Letters /\ ",observed_at:" \in Letters /\ ",emitted_at:" \in Letters
  BY DEF Letters, Keys
<1>3. /\ Decimal(1) \in Text /\ Decimal(ev.confirmations) \in Text
      /\ Decimal(ev.sustained \div NsPerMilli) \in Text
  BY OneIsCountable, CountsAreCountable, DecimalIsDigits, DigitsAreText DEF IsEvent
<1> DEFINE f1 == StringField(",event_id:", EventId(ev))
           f2 == StringField(",camera_id:", ev.camera_id)
           f3 == StringField(",rule_id:", ev.rule_id)
           f4 == StringField(",event_type:", ev.event_type)
           f5 == StringField(",observed_at:", Rfc3339(ev.observed_at))
           f6 == StringField(",emitted_at:", Rfc3339(ev.emitted_at))
           n1 == Decimal(1)
           n2 == Decimal(ev.confirmations)
           n3 == Decimal(ev.sustained \div NsPerMilli)
<1>4. f1 \in Text
  BY <1>2, EventIdIsText, FieldIsText
<1>5. f2 \in Text /\ f3 \in Text /\ f4 \in Text
  BY <1>2, FieldIsText DEF IsEvent
<1>6. f5 \in Text /\ f6 \in Text
  BY <1>2, TimesAreText, FieldIsText DEF IsEvent
<1>7. Record(ev) = <<"{schema_version:">> \o n1 \o f1 \o f2 \o f3 \o f4 \o f5 \o f6
                     \o <<",confirmations:">> \o n2 \o <<",sustained_ms:">> \o n3 \o <<"}">>
  BY DEF Record
<1> DEFINE r1 == <<"{schema_version:">> \o n1 \o f1 \o f2
           r2 == r1 \o f3 \o f4 \o f5 \o f6
           r3 == r2 \o <<",confirmations:">> \o n2 \o <<",sustained_ms:">> \o n3 \o <<"}">>
<1>8. n1 \in Text /\ n2 \in Text /\ n3 \in Text
  BY <1>3
<1> HIDE DEF f1, f2, f3, f4, f5, f6, n1, n2, n3
<1>9. r1 \in Text
  BY <1>1, <1>4, <1>5, <1>8, TextConcat
<1>10. r2 \in Text
  <2> HIDE DEF r1
  <2> QED BY <1>5, <1>6, <1>9, TextConcat
<1>11. r3 \in Text
  <2> HIDE DEF r2
  <2> QED BY <1>1, <1>8, <1>10, TextConcat
<1> QED
  BY <1>7, <1>11

-----------------------------------------------------------------------------
(***************************************************************************)
(* The bounded writer counts every character and writes those that fit in  *)
(* front of the terminator.                                                *)
(***************************************************************************)
Writer == [len : Nat, buf : Text]

\* A letter put into the buffer is counted, and written if it fits.
LEMMA PutStays ==
  ASSUME NEW size, NEW w \in Writer, NEW ch \in Letters
  PROVE  /\ Put(size, w, ch) \in Writer
         /\ Put(size, w, ch).len = w.len + 1
         /\ w.len + 1 < size => Put(size, w, ch).buf = Append(w.buf, ch)
         /\ ~(w.len + 1 < size) => Put(size, w, ch).buf = w.buf
<1>1. w.len \in Nat /\ w.buf \in Text
  BY DEF Writer
<1>2. Append(w.buf, ch) \in Text
  BY <1>1, AppendProperties DEF Text
<1>3. w.len + 1 \in Nat
  BY <1>1
<1> HIDE DEF Text
<1> QED
  BY <1>1, <1>2, <1>3 DEF Put, Writer

\* The writer, unrolled letter by letter.
LEMMA WrittenUnfolds ==
  ASSUME NEW size, NEW text \in Text
  PROVE  \E h : /\ Written(size, text) = h[Len(text)]
                /\ h[0] = [len |-> 0, buf |-> <<>>]
                /\ \A k \in 0 .. Len(text) : h[k] \in Writer
                /\ \A k \in 1 .. Len(text) : h[k] = Put(size, h[k - 1], text[k])
<1> DEFINE N == Len(text)
           start == [len |-> 0, buf |-> <<>>]
           step == [k \in 1 .. N |-> [x \in Writer |-> Put(size, x, text[k])]]
           Item(f, k) == IF k = 0 THEN start ELSE Put(size, f[k - 1], text[k])
           Is(f) == f = [k \in 0 .. N |-> Item(f, k)]
           h == CHOOSE f : Is(f)
<1>1. N \in Nat /\ \A k \in 1 .. N : text[k] \in Letters
  BY LenProperties DEF Text
<1>2. \A x \in Writer, k \in 1 .. N : Put(size, x, text[k]) \in Writer
  BY <1>1, PutStays
<1>3. step \in [1 .. N -> [Writer -> Writer]]
  <2> HIDE DEF N
  <2> QED BY <1>2
<1>4. start \in Writer
  BY DEF Writer, Text
<1>5. PICK f : Unfolds(f, N, Writer, start, step)
  <2> HIDE DEF step, N, start
  <2> QED BY <1>1, <1>3, <1>4, Recursion
<1>6. Is(f)
  <2> HIDE DEF N, start
  <2>1. \A k \in 1 .. N : f[k - 1] \in Writer
    BY <1>1, <1>5 DEF Unfolds
  <2>2. \A k \in 1 .. N : f[k] = Put(size, f[k - 1], text[k])
    BY <1>5, <2>1 DEF Unfolds
  <2> HIDE DEF step
  <2>3. \A k \in 0 .. N : f[k] = Item(f, k)
    <3> TAKE k \in 0 .. N
    <3>1. CASE k = 0
      BY <1>5, <3>1 DEF Unfolds
    <3>2. CASE k # 0
      <4>1. k \in 1 .. N
        BY <1>1, <3>2
      <4> QED BY <2>2, <3>2, <4>1
    <3> QED BY <3>1, <3>2
  <2> HIDE DEF Item
  <2> QED BY <1>5, <2>3 DEF Unfolds
<1>7. Is(h)
  <2> HIDE DEF Is
  <2> QED BY <1>6
<1>8. Written(size, text) = h[N]
  BY DEF Written
<1>9. h[0] = start /\ \A k \in 1 .. N : h[k] = Put(size, h[k - 1], text[k])
  <2> HIDE DEF h, N, start
  <2>1. \A k \in 0 .. N : h[k] = Item(h, k)
    <3> HIDE DEF Item
    <3> QED BY <1>7
  <2>2. h[0] = start
    <3>1. h[0] = Item(h, 0)
      BY <1>1, <2>1
    <3> QED BY <3>1
  <2>3. ASSUME NEW k \in 1 .. N PROVE h[k] = Put(size, h[k - 1], text[k])
    <3>1. k \in 0 .. N /\ k # 0
      BY <1>1
    <3>2. h[k] = Item(h, k)
      BY <2>1, <3>1
    <3> QED BY <3>1, <3>2
  <2> QED BY <2>2, <2>3
<1>10. Follows(h, N, Writer, start, step)
  <2> HIDE DEF h, N, start
  <2> QED BY <1>9 DEF Follows
<1>11. \A k \in 0 .. N : h[k] \in Writer
  <2> HIDE DEF step, N, h, start
  <2> QED BY <1>1, <1>3, <1>4, <1>10, RecursionStays
<1> HIDE DEF h
<1> QED
  BY <1>8, <1>9, <1>11

\* The writer counts the whole text, and writes it whole when it fits.
LEMMA WrittenIs ==
  ASSUME NEW size \in Nat, NEW text \in Text
  PROVE  LET w == Written(size, text)
         IN  /\ w.len = Len(text) /\ w.buf \in Text
             /\ Len(text) + 1 <= size => w.buf = text
             /\ size > 0 => Len(w.buf) < size
             /\ size = 0 => w.buf = <<>>
<1> DEFINE N == Len(text)
<1>1. PICK h : /\ Written(size, text) = h[N]
               /\ h[0] = [len |-> 0, buf |-> <<>>]
               /\ \A k \in 0 .. N : h[k] \in Writer
               /\ \A k \in 1 .. N : h[k] = Put(size, h[k - 1], text[k])
  BY WrittenUnfolds
<1>2. N \in Nat /\ \A k \in 1 .. N : text[k] \in Letters
  BY LenProperties DEF Text
<1>3. \A k \in 0 .. N : h[k].len \in Nat /\ h[k].buf \in Text /\ Len(h[k].buf) \in Nat
  BY <1>1, LenProperties DEF Writer, Text
<1> DEFINE Good1(k) == h[k].len = k /\ (k < size => h[k].buf = SubSeq(text, 1, k))
           Good2(k) == (size > 0 => Len(h[k].buf) < size) /\ (size = 0 => h[k].buf = <<>>)
           Good3(k) == k < size => Len(h[k].buf) = k
           S == {k \in 0 .. N : Good1(k) /\ Good2(k) /\ Good3(k)}
<1>4. 0 \in S
  <2>1. SubSeq(text, 1, 0) = <<>>
    BY SubSeqEmpty
  <2>2. h[0].len = 0 /\ h[0].buf = <<>> /\ Len(h[0].buf) = 0
    BY <1>1
  <2>3. Good1(0)
    BY <2>1, <2>2
  <2>4. Good2(0)
    BY <2>2
  <2>5. Good3(0)
    BY <2>2
  <2>6. 0 \in 0 .. N
    BY <1>2
  <2> HIDE DEF Good1, Good2, Good3
  <2> QED BY <2>3, <2>4, <2>5, <2>6
<1>5. ASSUME NEW k \in 0 .. N - 1, k \in S PROVE k + 1 \in S
  <2>1. k + 1 \in 1 .. N /\ (k + 1) - 1 = k /\ k \in 0 .. N
    BY <1>2
  <2> DEFINE w == h[k]
             v == h[k + 1]
             ch == text[k + 1]
  <2>2. v = Put(size, w, ch) /\ w \in Writer /\ ch \in Letters
    BY <1>1, <1>2, <2>1
  <2>3. Good1(k) /\ Good2(k) /\ Good3(k)
    BY <1>5
  <2>4. w.len = k
    BY <2>3
  <2> HIDE DEF w, v, ch
  <2>5. v.len = k + 1
    BY <2>2, <2>4, PutStays
  <2>6. CASE k + 1 < size
    <3>1. v.buf = Append(w.buf, ch)
      BY <2>2, <2>4, <2>6, PutStays
    <3>2. w.buf = SubSeq(text, 1, k) /\ Len(w.buf) = k
      BY <2>3, <2>6 DEF w
    <3>3. Len(v.buf) = k + 1
      <4>1. w.buf \in Text
        BY <1>3, <2>1 DEF w
      <4> QED BY <2>2, <3>1, <3>2, <4>1, AppendProperties DEF Text
    <3>4. v.buf = SubSeq(text, 1, k + 1)
      <4>1. SubSeq(text, 1, k + 1) = SubSeq(text, 1, (k + 1) - 1) \o <<text[k + 1]>>
        <5>1. 1 \in 1 .. Len(text) /\ k + 1 \in 1 .. Len(text)
          BY <2>1
        <5> QED BY <5>1, SubSeqRecursiveSecond DEF Text
      <4>2. Append(w.buf, ch) = w.buf \o <<ch>>
        <5>1. w.buf \in Text
          BY <1>3, <2>1 DEF w
        <5> QED BY <2>2, <5>1, AppendIsConcat DEF Text
      <4> QED BY <2>1, <3>1, <3>2, <4>1, <4>2 DEF ch
    <3>5. Good1(k + 1) /\ Good2(k + 1) /\ Good3(k + 1)
      BY <2>5, <2>6, <3>3, <3>4 DEF v
    <3> QED BY <2>1, <3>5
  <2>7. CASE ~(k + 1 < size)
    <3>1. v.buf = w.buf
      BY <2>2, <2>4, <2>7, PutStays
    <3>2. Good1(k + 1) /\ Good2(k + 1) /\ Good3(k + 1)
      BY <2>3, <2>5, <2>7, <3>1 DEF v, w
    <3> QED BY <2>1, <3>2
  <2> QED BY <2>6, <2>7
<1>6. 0 .. N \subseteq S
  <2> HIDE DEF S, N
  <2> QED BY <1>2, <1>4, <1>5, BoundedInduction
<1>7. N \in 0 .. N
  BY <1>2
<1>8. Good1(N) /\ Good2(N)
  BY <1>6, <1>7
<1>9. SubSeq(text, 1, N) = text
  BY SubSeqFull DEF Text
<1>10. N + 1 <= size => N < size
  BY <1>2
<1> HIDE DEF N
<1>11. h[N].buf \in Text
  BY <1>3, <1>7
<1> QED
  BY <1>1, <1>8, <1>9, <1>10, <1>11 DEF N

-----------------------------------------------------------------------------
(***************************************************************************)
(* The renderer and its caller: what stands in the buffer at every step.   *)
(***************************************************************************)
Line == [event : Occurrences, line : Text]

EventInv ==
  /\ todo \in Seq(Occurrences)
  /\ cap \in Nat /\ required \in Nat
  /\ buffer \in Text
  /\ sent \in Seq(Line)
  /\ \A k \in 1 .. Len(sent) : sent[k].line = Record(sent[k].event)
  /\ status \in {"none", "OK", "LIMIT"}
  /\ status = "LIMIT" => todo # <<>>
  /\ status = "OK" => sent # <<>>
  /\ RecordWholeOrNothing

\* The invariant of the renderer.
LEMMA EventInvHolds == ESpec => []EventInv
<1>1. EInit => EventInv
  <2> SUFFICES ASSUME EInit PROVE EventInv
    OBVIOUS
  <2>1. todo \in Seq(Occurrences)
    BY BatchesAssumption DEF EInit
  <2>2. cap \in Nat /\ required \in Nat
    BY BufferSizesAssumption DEF EInit
  <2>3. buffer = <<>> /\ sent = <<>> /\ status = "none"
    BY DEF EInit
  <2>4. buffer \in Text /\ sent \in Seq(Line) /\ Len(buffer) = 0 /\ Len(sent) = 0
    BY <2>3 DEF Text
  <2>5. RecordWholeOrNothing
    BY <2>2, <2>3, <2>4 DEF RecordWholeOrNothing
  <2> QED BY <2>1, <2>2, <2>3, <2>4, <2>5 DEF EventInv
<1>2. EventInv /\ [ENext]_evars => EventInv'
  <2> SUFFICES ASSUME EventInv, [ENext]_evars PROVE EventInv'
    OBVIOUS
  <2> USE DEF EventInv
  <2>1. CASE Render
    <3> DEFINE ev == Head(todo)
               text == Record(ev)
               w == Written(cap, text)
    <3>1. todo \in Seq(Occurrences) /\ todo # <<>>
      BY <2>1 DEF Render
    <3>2. ev \in Occurrences /\ Tail(todo) \in Seq(Occurrences)
      BY <3>1, HeadTailProperties
    <3>3. text \in Text
      BY <3>2, OccurrencesAreEvents, RecordIsText
    <3>4. /\ w.len = Len(text) /\ w.buf \in Text
          /\ Len(text) + 1 <= cap => w.buf = text
          /\ cap > 0 => Len(w.buf) < cap
          /\ cap = 0 => w.buf = <<>>
      <4> HIDE DEF text
      <4> QED BY <3>3, WrittenIs
    <3>5. Len(text) \in Nat /\ Len(w.buf) \in Nat
      BY <3>3, <3>4, LenProperties DEF Text
    <3>6. /\ required' = w.len + 1 /\ cap' = cap
          /\ IF w.len + 1 > cap THEN TooLong(w) ELSE Whole(w)
      BY <2>1 DEF Render
    <3>7. Nul \in Letters
      BY DEF Letters, Marks
    <3> HIDE DEF w
    <3>8. CASE w.len + 1 > cap
      <4>1. TooLong(w)
        BY <3>6, <3>8
      <4>2. /\ status' = "LIMIT" /\ todo' = todo /\ sent' = sent
            /\ buffer' = IF cap = 0 THEN <<>> ELSE <<Nul>> \o SubSeq(w.buf, 2, Len(w.buf))
        BY <4>1 DEF TooLong
      <4>3. Len(text) + 1 = required' /\ required' > cap' /\ required' \in Nat
        <5> HIDE DEF text
        <5> QED BY <3>4, <3>5, <3>6, <3>8
      <4>4. /\ buffer' \in Text /\ Len(buffer') <= cap'
            /\ cap' > 0 => buffer'[1] = Nul
        <5>1. CASE cap = 0
          BY <3>6, <4>2, <5>1 DEF Text
        <5>2. CASE cap # 0
          <6> DEFINE rest == SubSeq(w.buf, 2, Len(w.buf))
          <6>1. /\ rest \in Text
                /\ Len(rest) = IF 2 <= Len(w.buf) THEN Len(w.buf) - 1 ELSE 0
            <7>1. \A i \in 2 .. Len(w.buf) : w.buf[i] \in Letters
              BY <3>4, <3>5, ElementOfSeq DEF Text
            <7> HIDE DEF Letters
            <7> QED BY <3>5, <7>1, SubSeqProperties DEF Text
          <6>2. <<Nul>> \in Text /\ Len(<<Nul>>) = 1
            BY <3>7, TextOfOne
          <6> HIDE DEF rest
          <6>3. /\ <<Nul>> \o rest \in Text
                /\ Len(<<Nul>> \o rest) = 1 + Len(rest)
                /\ (<<Nul>> \o rest)[1] = Nul
            <7>1. Len(rest) \in Nat
              BY <6>1, LenProperties DEF Text
            <7>2. 1 \in 1 .. Len(<<Nul>>) + Len(rest) /\ 1 <= Len(<<Nul>>)
              BY <6>2, <7>1
            <7>3. <<Nul>>[1] = Nul
              OBVIOUS
            <7> HIDE DEF Letters
            <7> QED BY <6>1, <6>2, <7>2, <7>3, ConcatProperties DEF Text
          <6>4. buffer' = <<Nul>> \o rest
            BY <4>2, <5>2 DEF rest
          <6>5. 1 + Len(rest) <= cap
            BY <3>4, <3>5, <5>2, <6>1
          <6> QED BY <3>6, <6>3, <6>4, <6>5
        <5> QED BY <5>1, <5>2
      <4>5. RecordWholeOrNothing'
        <5>1. Head(todo') = ev
          BY <4>2
        <5>2. required' = Len(Record(Head(todo'))) + 1
          BY <3>5, <4>3, <5>1
        <5> QED BY <4>2, <4>3, <4>4, <5>2 DEF RecordWholeOrNothing
      <4> QED BY <3>1, <3>6, <4>2, <4>3, <4>4, <4>5
    <3>9. CASE ~(w.len + 1 > cap)
      <4>1. Whole(w)
        BY <3>6, <3>9
      <4>2. w.buf = text
        <5> HIDE DEF text
        <5> QED BY <3>4, <3>5, <3>9
      <4> DEFINE said == [event |-> ev, line |-> w.buf]
      <4>3. /\ status' = "OK" /\ todo' = Tail(todo)
            /\ buffer' = Append(w.buf, Nul) /\ sent' = Append(sent, said)
        BY <4>1 DEF Whole
      <4>4. said \in Line
        BY <3>2, <3>4 DEF Line
      <4>5. said.event = ev /\ said.line = Record(ev)
        BY <4>2
      <4> HIDE DEF said, ev
      <4>6. /\ sent' \in Seq(Line) /\ sent' # <<>> /\ Len(sent') = Len(sent) + 1
            /\ \A i \in 1 .. Len(sent) : sent'[i] = sent[i]
            /\ sent'[Len(sent')] = said
        BY <4>3, <4>4, AppendProperties
      <4>7. \A k \in 1 .. Len(sent') : sent'[k].line = Record(sent'[k].event)
        <5> TAKE k \in 1 .. Len(sent')
        <5>1. CASE k = Len(sent')
          BY <4>5, <4>6, <5>1
        <5>2. CASE k # Len(sent')
          <6>1. k \in 1 .. Len(sent)
            <7>1. Len(sent) \in Nat
              BY LenProperties
            <7> QED BY <4>6, <5>2, <7>1
          <6> QED BY <4>6, <6>1
        <5> QED BY <5>1, <5>2
      <4>8. buffer' \in Text /\ Len(buffer') <= cap'
        <5>1. buffer' \in Text /\ Len(buffer') = Len(w.buf) + 1
          <6> HIDE DEF Letters
          <6> QED BY <3>4, <3>7, <4>3, AppendProperties DEF Text
        <5>2. Len(w.buf) + 1 <= cap
          BY <3>4, <3>5, <3>9, <4>2
        <5> QED BY <3>6, <5>1, <5>2
      <4>9. RecordWholeOrNothing'
        <5>1. buffer' = Append(Record(sent'[Len(sent')].event), Nul)
          BY <4>2, <4>3, <4>5, <4>6
        <5> QED BY <4>3, <4>8, <5>1 DEF RecordWholeOrNothing
      <4>10. required' \in Nat
        BY <3>4, <3>5, <3>6
      <4> QED BY <3>2, <3>6, <4>3, <4>6, <4>7, <4>8, <4>9, <4>10
    <3> QED BY <3>8, <3>9
  <2>2. CASE SizeUp
    <3>1. /\ status = "LIMIT" /\ cap' = required /\ status' = "none" /\ todo' = todo
          /\ buffer' = buffer /\ required' = required /\ sent' = sent
      BY <2>2 DEF SizeUp
    <3>2. Len(buffer) \in Nat
      BY LenProperties DEF Text
    <3>3. Len(buffer) <= required
      BY <3>1, <3>2 DEF RecordWholeOrNothing
    <3>4. RecordWholeOrNothing'
      BY <3>1, <3>3 DEF RecordWholeOrNothing
    <3> QED BY <3>1, <3>4
  <2>3. CASE UNCHANGED evars
    BY <2>3 DEF evars, RecordWholeOrNothing
  <2> QED BY <2>1, <2>2, <2>3 DEF ENext
<1> QED
  BY <1>1, <1>2, PTL DEF ESpec

\* RecordWholeOrNothing: a record that does not fit leaves an empty string and
\* the size it needs, and the buffer sized up by it takes the whole record.
THEOREM NoTruncatedLine == ESpec => []RecordWholeOrNothing
<1>1. EventInv => RecordWholeOrNothing
  BY DEF EventInv
<1> QED
  BY <1>1, EventInvHolds, PTL

-----------------------------------------------------------------------------
(***************************************************************************)
(* The reader of records, letter by letter.                                *)
(***************************************************************************)

Modes == {"outside", "number", "string", "escape", "hex", "bad"}
Reader == [mode : Modes, strings : Seq(Text), numbers : Seq(Text), hex : Text]

\* A reader that has come to a mode with these strings and numbers.
At(r, mode, strings, numbers) ==
  /\ r \in Reader
  /\ r.mode = mode /\ r.strings = strings /\ r.numbers = numbers

\* A letter added to the last of some texts leaves texts,
LEMMA ExtendedIs ==
  ASSUME NEW s \in Seq(Text), NEW ch \in Letters
  PROVE  Extended(s, ch) \in Seq(Text)
<1>1. Len(s) \in Nat /\ DOMAIN s = 1 .. Len(s) /\ \A i \in 1 .. Len(s) : s[i] \in Text
  BY LenProperties, ElementOfSeq
<1>2. \A i \in 1 .. Len(s) : Append(s[i], ch) \in Text
  <2> HIDE DEF Letters
  <2> QED BY <1>1, AppendProperties DEF Text
<1> DEFINE e == Extended(s, ch)
<1>3. DOMAIN e = 1 .. Len(s) /\ \A i \in 1 .. Len(s) : e[i] \in Text
  <2> HIDE DEF Text
  <2> QED BY <1>1, <1>2 DEF Extended
<1>4. e \in [1 .. Len(s) -> Text]
  <2> HIDE DEF Text
  <2>1. e = [i \in 1 .. Len(s) |-> e[i]]
    BY <1>1 DEF Extended
  <2> HIDE DEF e
  <2> QED BY <1>3, <2>1
<1> HIDE DEF Text
<1> QED
  BY <1>1, <1>4

\* and is added to that one.
LEMMA ExtendedLast ==
  ASSUME NEW s \in Seq(Text), NEW x \in Text, NEW ch \in Letters
  PROVE  Extended(Append(s, x), ch) = Append(s, Append(x, ch))
<1> DEFINE a == Append(s, x)
           e == Extended(a, ch)
           b == Append(s, Append(x, ch))
           n == Len(s) + 1
<1>1. Append(x, ch) \in Text
  <2> HIDE DEF Letters
  <2> QED BY AppendProperties DEF Text
<1>2. /\ a \in Seq(Text) /\ Len(a) = n /\ a[n] = x
      /\ \A i \in 1 .. Len(s) : a[i] = s[i]
  <2> HIDE DEF Text
  <2> QED BY AppendProperties
<1>3. /\ b \in Seq(Text) /\ Len(b) = n /\ b[n] = Append(x, ch)
      /\ \A i \in 1 .. Len(s) : b[i] = s[i]
  <2> HIDE DEF Text
  <2> QED BY <1>1, AppendProperties
<1>4. Len(s) \in Nat
  BY LenProperties
<1>5. e = [a EXCEPT ![n] = Append(@, ch)]
  BY <1>2 DEF Extended
<1>6. DOMAIN a = 1 .. n
  BY <1>2, LenProperties
<1>7. e \in Seq(Text)
  BY <1>2, ExtendedIs
<1> HIDE DEF a, b
<1>8. DOMAIN e = 1 .. n
  BY <1>5, <1>6
<1>9. Len(e) = n
  <2> HIDE DEF e
  <2>1. DOMAIN e = 1 .. Len(e) /\ Len(e) \in Nat
    BY <1>7, LenProperties
  <2> QED BY <1>4, <1>8, <2>1
<1>10. \A i \in 1 .. n : e[i] = b[i]
  <2> TAKE i \in 1 .. n
  <2>1. CASE i = n
    BY <1>2, <1>3, <1>4, <1>5, <1>6, <2>1
  <2>2. CASE i # n
    <3>1. i \in 1 .. Len(s)
      BY <1>4, <2>2
    <3> QED BY <1>2, <1>3, <1>5, <1>6, <2>2, <3>1
  <2> QED BY <2>1, <2>2
<1> HIDE DEF e
<1>11. e = b
  <2>1. Len(e) = Len(b) /\ \A i \in 1 .. Len(e) : e[i] = b[i]
    BY <1>3, <1>9, <1>10
  <2> HIDE DEF Text
  <2> QED BY <1>3, <1>7, <2>1, SeqEqual
<1> QED
  BY <1>11 DEF e, a, b

\* The fields of a reader, named once.
LEMMA ReaderFields ==
  ASSUME NEW r \in Reader
  PROVE  /\ r.mode \in Modes /\ r.strings \in Seq(Text) /\ r.numbers \in Seq(Text)
         /\ r.hex \in Text
BY DEF Reader

\* No digit is a quote.
LEMMA DigitsAreNoQuote ==
  Quote \notin DigitChars /\ \A k \in 1 .. 10 : Digits[k] # Quote
<1>1. Quote \notin DigitChars
  BY DEF DigitChars, Quote
<1> QED
  BY <1>1, DigitsAre

\* What a letter outside of strings does to a reader.
LEMMA OutsideStays ==
  ASSUME NEW r \in Reader, NEW ch \in Letters
  PROVE  /\ ReadOutside(r, ch) \in Reader
         /\ ch = Quote => At(ReadOutside(r, ch), "string", Append(r.strings, <<>>), r.numbers)
         /\ ch \in DigitChars /\ r.mode = "number" =>
              At(ReadOutside(r, ch), "number", r.strings, Extended(r.numbers, ch))
         /\ ch \in DigitChars /\ r.mode # "number" =>
              At(ReadOutside(r, ch), "number", r.strings, Append(r.numbers, <<ch>>))
         /\ ch # Quote /\ ch \notin DigitChars =>
              At(ReadOutside(r, ch), "outside", r.strings, r.numbers)
<1> DEFINE isDigit == \E k \in 1 .. 10 : Digits[k] = ch
<1>1. isDigit <=> ch \in DigitChars
  BY DigitsAre
<1>2. ch = Quote => ~isDigit
  BY DigitsAreNoQuote
<1>3. /\ r.mode \in Modes /\ r.strings \in Seq(Text) /\ r.numbers \in Seq(Text)
      /\ r.hex \in Text
  BY ReaderFields
<1>4. <<>> \in Text /\ <<ch>> \in Text
  <2> HIDE DEF Letters
  <2> QED BY DEF Text
<1>5. /\ Append(r.strings, <<>>) \in Seq(Text) /\ Append(r.numbers, <<ch>>) \in Seq(Text)
      /\ Extended(r.numbers, ch) \in Seq(Text)
  <2>1. Extended(r.numbers, ch) \in Seq(Text)
    BY <1>3, ExtendedIs
  <2> HIDE DEF Text
  <2> QED BY <1>3, <1>4, <2>1, AppendProperties
<1> DEFINE r1 == [r EXCEPT !.mode = "string", !.strings = Append(@, <<>>)]
           r2 == [r EXCEPT !.numbers = Extended(@, ch)]
           r3 == [r EXCEPT !.mode = "number", !.numbers = Append(@, <<ch>>)]
           r4 == [r EXCEPT !.mode = "outside"]
<1>6. At(r1, "string", Append(r.strings, <<>>), r.numbers)
  <2> HIDE DEF Text
  <2> QED BY <1>5 DEF At, Reader, Modes
<1>7. At(r2, r.mode, r.strings, Extended(r.numbers, ch))
  <2> HIDE DEF Text, Extended
  <2> QED BY <1>5 DEF At, Reader, Modes
<1>8. At(r3, "number", r.strings, Append(r.numbers, <<ch>>))
  <2> HIDE DEF Text
  <2> QED BY <1>5 DEF At, Reader, Modes
<1>9. At(r4, "outside", r.strings, r.numbers)
  <2> HIDE DEF Text
  <2> QED BY DEF At, Reader, Modes
<1>10. ReadOutside(r, ch) = CASE ch = Quote -> r1
                              [] isDigit -> IF r.mode = "number" THEN r2 ELSE r3
                              [] OTHER -> r4
  BY DEF ReadOutside
<1> HIDE DEF isDigit, r1, r2, r3, r4
<1>11. ch = Quote => ReadOutside(r, ch) = r1
  BY <1>2, <1>10
<1>12. ch \in DigitChars => ReadOutside(r, ch) = IF r.mode = "number" THEN r2 ELSE r3
  BY <1>1, <1>2, <1>10
<1>13. ch # Quote /\ ch \notin DigitChars => ReadOutside(r, ch) = r4
  BY <1>1, <1>10
<1>14. r1 \in Reader /\ r2 \in Reader /\ r3 \in Reader /\ r4 \in Reader
  BY <1>6, <1>7, <1>8, <1>9 DEF At
<1>15. ReadOutside(r, ch) \in Reader
  BY <1>11, <1>12, <1>13, <1>14
<1> QED
  BY <1>6, <1>7, <1>8, <1>9, <1>11, <1>12, <1>13, <1>15

\* What a letter inside of a string does to a reader.
LEMMA InsideStays ==
  ASSUME NEW r \in Reader, NEW ch \in Letters
  PROVE  /\ ReadInside(r, ch) \in Reader
         /\ ch = Quote => At(ReadInside(r, ch), "outside", r.strings, r.numbers)
         /\ ch = Backslash => At(ReadInside(r, ch), "escape", r.strings, r.numbers)
         /\ (/\ r.mode = "string" /\ ch \notin {Quote, Backslash}
             /\ ch \notin DOMAIN Short /\ ch \notin DOMAIN Hex) =>
              At(ReadInside(r, ch), "string", Extended(r.strings, ch), r.numbers)
<1>1. /\ r.mode \in Modes /\ r.strings \in Seq(Text) /\ r.numbers \in Seq(Text)
      /\ r.hex \in Text /\ Extended(r.strings, ch) \in Seq(Text)
  BY ReaderFields, ExtendedIs
<1> DEFINE r1 == [r EXCEPT !.mode = "outside"]
           r2 == [r EXCEPT !.mode = "escape"]
           r3 == [r EXCEPT !.mode = "bad"]
           r4 == [r EXCEPT !.strings = Extended(@, ch)]
<1> HIDE DEF Text
<1>2. At(r1, "outside", r.strings, r.numbers) /\ At(r2, "escape", r.strings, r.numbers)
  BY DEF At, Reader, Modes
<1>3. r3 \in Reader
  BY DEF Reader, Modes
<1>4. At(r4, r.mode, Extended(r.strings, ch), r.numbers)
  <2> HIDE DEF Extended
  <2> QED BY <1>1 DEF At, Reader, Modes
<1>5. ReadInside(r, ch) = CASE ch = Quote -> r1
                            [] ch = Backslash -> r2
                            [] ch \in DOMAIN Short \cup DOMAIN Hex -> r3
                            [] OTHER -> r4
  BY DEF ReadInside
<1> HIDE DEF r1, r2, r3, r4
<1>6. ch = Quote => ReadInside(r, ch) = r1
  BY <1>5, SpecialsAreApart
<1>7. ch = Backslash => ReadInside(r, ch) = r2
  BY <1>5, SpecialsAreApart
<1>8. ch \notin {Quote, Backslash} /\ ch \in DOMAIN Short \cup DOMAIN Hex =>
        ReadInside(r, ch) = r3
  BY <1>5, SpecialsAreApart
<1>9. ch \notin {Quote, Backslash} /\ ch \notin DOMAIN Short \cup DOMAIN Hex =>
        ReadInside(r, ch) = r4
  BY <1>5
<1>10. r1 \in Reader /\ r2 \in Reader /\ r4 \in Reader
  BY <1>2, <1>4 DEF At
<1>11. ReadInside(r, ch) \in Reader
  BY <1>3, <1>6, <1>7, <1>8, <1>9, <1>10
<1> QED
  BY <1>2, <1>4, <1>6, <1>7, <1>9, <1>11

\* The control characters and their escapes, one by one.
LEMMA ShortAndHex ==
  /\ DOMAIN Short = {"LF", "CR", "TAB"} /\ DOMAIN Hex = {"SOH", "ESC"}
  /\ Short["LF"] = "n" /\ Short["CR"] = "r" /\ Short["TAB"] = "t"
  /\ Hex["SOH"] = <<"0", "0", "0", "1">> /\ Hex["ESC"] = <<"0", "0", "1", "b">>
  /\ DOMAIN Short \subseteq Letters /\ DOMAIN Hex \subseteq Letters
BY DEF Short, Hex, Letters, Marks

\* What a letter behind a backslash does to a reader.
LEMMA EscapeStays ==
  ASSUME NEW r \in Reader, NEW ch \in Letters
  PROVE  /\ ReadEscape(r, ch) \in Reader
         /\ ch \in {Quote, Backslash} =>
              At(ReadEscape(r, ch), "string", Extended(r.strings, ch), r.numbers)
         /\ \A c \in DOMAIN Short : ch = Short[c] =>
              At(ReadEscape(r, ch), "string", Extended(r.strings, c), r.numbers)
         /\ ch = "u" => /\ At(ReadEscape(r, ch), "hex", r.strings, r.numbers)
                        /\ ReadEscape(r, ch).hex = <<>>
<1> DEFINE isShort == \E c \in DOMAIN Short : Short[c] = ch
           c == CHOOSE d \in DOMAIN Short : Short[d] = ch
           r1 == [r EXCEPT !.mode = "string", !.strings = Extended(@, ch)]
           r2 == [r EXCEPT !.mode = "string", !.strings = Extended(@, c)]
           r3 == [r EXCEPT !.mode = "hex", !.hex = <<>>]
           r4 == [r EXCEPT !.mode = "bad"]
<1>1. /\ ch \in {Quote, Backslash} => ~isShort /\ ch # "u"
      /\ isShort => ch # "u"
  BY ShortAndHex DEF Quote, Backslash
<1>2. isShort => c \in DOMAIN Short /\ Short[c] = ch /\ c \in Letters
  <2> SUFFICES ASSUME isShort PROVE c \in DOMAIN Short /\ Short[c] = ch
    BY ShortAndHex
  <2> HIDE DEF Letters
  <2> QED OBVIOUS
<1>3. \A d \in DOMAIN Short : ch = Short[d] => isShort /\ c = d
  <2> SUFFICES ASSUME NEW d \in DOMAIN Short, ch = Short[d] PROVE isShort /\ c = d
    OBVIOUS
  <2>1. isShort
    OBVIOUS
  <2>2. c \in DOMAIN Short /\ Short[c] = Short[d]
    BY <1>2, <2>1
  <2> HIDE DEF c
  <2> QED BY <2>1, <2>2, ShortAndHex
<1>4. /\ r.mode \in Modes /\ r.strings \in Seq(Text) /\ r.numbers \in Seq(Text)
      /\ r.hex \in Text /\ Extended(r.strings, ch) \in Seq(Text)
  BY ReaderFields, ExtendedIs
<1>5. isShort => Extended(r.strings, c) \in Seq(Text)
  <2> HIDE DEF c, isShort
  <2> QED BY <1>2, <1>4, ExtendedIs
<1>6. <<>> \in Text
  BY DEF Text
<1>7. ReadEscape(r, ch) = CASE ch \in {Quote, Backslash} -> r1
                            [] isShort -> r2
                            [] ch = "u" -> r3
                            [] OTHER -> r4
  BY DEF ReadEscape
<1> HIDE DEF isShort, c, Text
<1>8. At(r1, "string", Extended(r.strings, ch), r.numbers)
  <2> HIDE DEF Extended
  <2> QED BY <1>4 DEF At, Reader, Modes
<1>9. isShort => At(r2, "string", Extended(r.strings, c), r.numbers)
  <2> HIDE DEF Extended
  <2> QED BY <1>4, <1>5 DEF At, Reader, Modes
<1>10. At(r3, "hex", r.strings, r.numbers) /\ r3.hex = <<>>
  BY <1>6 DEF At, Reader, Modes
<1>11. r4 \in Reader
  BY DEF Reader, Modes
<1> HIDE DEF r1, r2, r3, r4
<1>12. ch \in {Quote, Backslash} => ReadEscape(r, ch) = r1
  BY <1>1, <1>7
<1>13. isShort => ReadEscape(r, ch) = r2
  BY <1>1, <1>7
<1>14. ch = "u" => ReadEscape(r, ch) = r3
  BY <1>1, <1>7
<1>15. ch \notin {Quote, Backslash} /\ ~isShort /\ ch # "u" => ReadEscape(r, ch) = r4
  BY <1>7
<1>16. r1 \in Reader /\ (isShort => r2 \in Reader) /\ r3 \in Reader
  BY <1>8, <1>9, <1>10 DEF At
<1>17. ReadEscape(r, ch) \in Reader
  BY <1>11, <1>12, <1>13, <1>14, <1>15, <1>16
<1>18. \A d \in DOMAIN Short : ch = Short[d] =>
         At(ReadEscape(r, ch), "string", Extended(r.strings, d), r.numbers)
  BY <1>3, <1>9, <1>13
<1> QED
  BY <1>8, <1>10, <1>12, <1>14, <1>17, <1>18

\* What a digit of a hexadecimal escape does to a reader.
LEMMA HexStays ==
  ASSUME NEW r \in Reader, NEW ch \in Letters
  PROVE  /\ ReadHex(r, ch) \in Reader
         /\ Len(r.hex) < 3 /\ r.mode = "hex" =>
              /\ At(ReadHex(r, ch), "hex", r.strings, r.numbers)
              /\ ReadHex(r, ch).hex = Append(r.hex, ch)
         /\ Len(r.hex) = 3 => \A c \in DOMAIN Hex : Append(r.hex, ch) = Hex[c] =>
              At(ReadHex(r, ch), "string", Extended(r.strings, c), r.numbers)
<1> DEFINE hex == Append(r.hex, ch)
           isHex == Len(hex) = 4 /\ (\E c \in DOMAIN Hex : Hex[c] = hex)
           c == CHOOSE d \in DOMAIN Hex : Hex[d] = hex
           r1 == [r EXCEPT !.hex = hex]
           r2 == [r EXCEPT !.mode = "string", !.strings = Extended(@, c)]
           r3 == [r EXCEPT !.mode = "bad"]
<1>1. /\ r.mode \in Modes /\ r.strings \in Seq(Text) /\ r.numbers \in Seq(Text)
      /\ r.hex \in Text
  BY ReaderFields
<1>2. hex \in Text /\ Len(hex) = Len(r.hex) + 1 /\ Len(r.hex) \in Nat
  <2> HIDE DEF Letters
  <2> QED BY <1>1, AppendProperties, LenProperties DEF Text
<1> HIDE DEF hex
<1>3. isHex => c \in DOMAIN Hex /\ Hex[c] = hex /\ c \in Letters
  <2> SUFFICES ASSUME isHex PROVE c \in DOMAIN Hex /\ Hex[c] = hex
    BY ShortAndHex
  <2> HIDE DEF Letters
  <2> QED OBVIOUS
<1>4. ASSUME NEW d \in DOMAIN Hex, Len(hex) = 4, hex = Hex[d] PROVE isHex /\ c = d
  <2>1. isHex
    BY <1>4
  <2>2. c \in DOMAIN Hex /\ Hex[c] = Hex[d]
    BY <1>3, <1>4, <2>1
  <2>3. Hex["SOH"] # Hex["ESC"]
    <3>1. <<"0", "0", "0", "1">>[3] # <<"0", "0", "1", "b">>[3]
      OBVIOUS
    <3> QED BY <3>1, ShortAndHex
  <2> HIDE DEF c
  <2>4. c = d
    BY <2>2, <2>3, ShortAndHex
  <2> QED BY <2>1, <2>4
<1>5. isHex => Extended(r.strings, c) \in Seq(Text)
  <2> HIDE DEF c, isHex
  <2> QED BY <1>1, <1>3, ExtendedIs
<1>6. ReadHex(r, ch) = CASE Len(hex) < 4 -> r1
                         [] isHex -> r2
                         [] OTHER -> r3
  BY DEF ReadHex, hex
<1>7. isHex => ~(Len(hex) < 4)
  <2> SUFFICES ASSUME isHex PROVE ~(Len(hex) < 4)
    OBVIOUS
  <2>1. Len(hex) = 4
    OBVIOUS
  <2> QED BY <2>1
<1> HIDE DEF isHex, c, Text
<1>8. At(r1, r.mode, r.strings, r.numbers) /\ r1.hex = hex
  BY <1>2 DEF At, Reader, Modes
<1>9. isHex => At(r2, "string", Extended(r.strings, c), r.numbers)
  <2> HIDE DEF Extended
  <2> QED BY <1>1, <1>5 DEF At, Reader, Modes
<1>10. r3 \in Reader
  BY DEF Reader, Modes
<1> HIDE DEF r1, r2, r3
<1>11. Len(hex) < 4 => ReadHex(r, ch) = r1
  BY <1>6, <1>7
<1>12. isHex => ReadHex(r, ch) = r2
  BY <1>6, <1>7
<1>13. ~(Len(hex) < 4) /\ ~isHex => ReadHex(r, ch) = r3
  BY <1>6
<1>14. r1 \in Reader /\ (isHex => r2 \in Reader)
  BY <1>8, <1>9 DEF At
<1>15. ReadHex(r, ch) \in Reader
  BY <1>10, <1>11, <1>12, <1>13, <1>14
<1>16. Len(r.hex) < 3 /\ r.mode = "hex" =>
         /\ At(ReadHex(r, ch), "hex", r.strings, r.numbers)
         /\ ReadHex(r, ch).hex = Append(r.hex, ch)
  <2> SUFFICES ASSUME Len(r.hex) < 3, r.mode = "hex"
               PROVE  /\ At(ReadHex(r, ch), "hex", r.strings, r.numbers)
                      /\ ReadHex(r, ch).hex = Append(r.hex, ch)
    OBVIOUS
  <2>1. Len(hex) < 4
    BY <1>2
  <2> QED BY <1>8, <1>11, <2>1 DEF hex
<1>17. ASSUME Len(r.hex) = 3, NEW d \in DOMAIN Hex, Append(r.hex, ch) = Hex[d]
       PROVE  At(ReadHex(r, ch), "string", Extended(r.strings, d), r.numbers)
  <2>1. Len(hex) = 4 /\ hex = Hex[d]
    BY <1>2, <1>17 DEF hex
  <2>2. isHex /\ c = d
    BY <1>4, <2>1
  <2> QED BY <1>9, <1>12, <2>2
<1> QED
  BY <1>15, <1>16, <1>17

\* What a letter does to a reader, by what it is reading.
LEMMA ReadOneIs ==
  ASSUME NEW r \in Reader, NEW ch \in Letters
  PROVE  /\ ReadOne(r, ch) \in Reader
         /\ r.mode \in {"outside", "number"} => ReadOne(r, ch) = ReadOutside(r, ch)
         /\ r.mode = "string" => ReadOne(r, ch) = ReadInside(r, ch)
         /\ r.mode = "escape" => ReadOne(r, ch) = ReadEscape(r, ch)
         /\ r.mode = "hex" => ReadOne(r, ch) = ReadHex(r, ch)
<1> DEFINE r1 == ReadOutside(r, ch)
           r2 == ReadInside(r, ch)
           r3 == ReadEscape(r, ch)
           r4 == ReadHex(r, ch)
<1>1. r1 \in Reader /\ r2 \in Reader /\ r3 \in Reader /\ r4 \in Reader
  BY OutsideStays, InsideStays, EscapeStays, HexStays
<1>2. ReadOne(r, ch) = CASE r.mode \in {"outside", "number"} -> r1
                         [] r.mode = "string" -> r2
                         [] r.mode = "escape" -> r3
                         [] r.mode = "hex" -> r4
                         [] OTHER -> r
  BY DEF ReadOne
<1> HIDE DEF r1, r2, r3, r4
<1>3. r.mode \in Modes
  BY ReaderFields
<1>4. /\ r.mode \in {"outside", "number"} => ReadOne(r, ch) = r1
      /\ r.mode = "string" => ReadOne(r, ch) = r2
      /\ r.mode = "escape" => ReadOne(r, ch) = r3
      /\ r.mode = "hex" => ReadOne(r, ch) = r4
  BY <1>2
<1>5. r.mode = "bad" => ReadOne(r, ch) = r
  BY <1>2
<1>6. ReadOne(r, ch) \in Reader
  BY <1>1, <1>3, <1>4, <1>5 DEF Modes
<1> QED
  BY <1>4, <1>6 DEF r1, r2, r3, r4

\* Reading a text from where the reader is.
Read(r, text) ==
  LET upto[k \in 0 .. Len(text)] == IF k = 0 THEN r ELSE ReadOne(upto[k - 1], text[k])
  IN  upto[Len(text)]

Reads(h, r, text) ==
  /\ h[0] = r
  /\ \A k \in 0 .. Len(text) : h[k] \in Reader
  /\ \A k \in 1 .. Len(text) : h[k] = ReadOne(h[k - 1], text[k])

\* The reader, unrolled letter by letter.
LEMMA ReadUnfolds ==
  ASSUME NEW r \in Reader, NEW text \in Text
  PROVE  \E h : Read(r, text) = h[Len(text)] /\ Reads(h, r, text)
<1> DEFINE N == Len(text)
           step == [k \in 1 .. N |-> [x \in Reader |-> ReadOne(x, text[k])]]
           Item(f, k) == IF k = 0 THEN r ELSE ReadOne(f[k - 1], text[k])
           Is(f) == f = [k \in 0 .. N |-> Item(f, k)]
           h == CHOOSE f : Is(f)
<1>1. N \in Nat /\ \A k \in 1 .. N : text[k] \in Letters
  BY LenProperties DEF Text
<1>2. \A x \in Reader, k \in 1 .. N : ReadOne(x, text[k]) \in Reader
  BY <1>1, ReadOneIs
<1>3. step \in [1 .. N -> [Reader -> Reader]]
  <2> HIDE DEF N, Reader
  <2> QED BY <1>2
<1>4. PICK f : Unfolds(f, N, Reader, r, step)
  <2> HIDE DEF step, N
  <2> QED BY <1>1, <1>3, Recursion
<1>5. Is(f)
  <2> HIDE DEF N, Reader
  <2>1. \A k \in 1 .. N : f[k - 1] \in Reader
    BY <1>1, <1>4 DEF Unfolds
  <2>2. \A k \in 1 .. N : f[k] = ReadOne(f[k - 1], text[k])
    BY <1>4, <2>1 DEF Unfolds
  <2> HIDE DEF step
  <2>3. \A k \in 0 .. N : f[k] = Item(f, k)
    <3> TAKE k \in 0 .. N
    <3>1. CASE k = 0
      BY <1>4, <3>1 DEF Unfolds
    <3>2. CASE k # 0
      <4>1. k \in 1 .. N
        BY <1>1, <3>2
      <4> QED BY <2>2, <3>2, <4>1
    <3> QED BY <3>1, <3>2
  <2> HIDE DEF Item
  <2> QED BY <1>4, <2>3 DEF Unfolds
<1>6. Is(h)
  <2> HIDE DEF Is
  <2> QED BY <1>5
<1>7. Read(r, text) = h[N]
  BY DEF Read
<1>8. h[0] = r /\ \A k \in 1 .. N : h[k] = ReadOne(h[k - 1], text[k])
  <2> HIDE DEF h, N
  <2>1. \A k \in 0 .. N : h[k] = Item(h, k)
    <3> HIDE DEF Item
    <3> QED BY <1>6
  <2>2. h[0] = r
    <3>1. h[0] = Item(h, 0)
      BY <1>1, <2>1
    <3> QED BY <3>1
  <2>3. ASSUME NEW k \in 1 .. N PROVE h[k] = ReadOne(h[k - 1], text[k])
    <3>1. k \in 0 .. N /\ k # 0
      BY <1>1
    <3>2. h[k] = Item(h, k)
      BY <2>1, <3>1
    <3> QED BY <3>1, <3>2
  <2> QED BY <2>2, <2>3
<1>9. Follows(h, N, Reader, r, step)
  <2> HIDE DEF h, N, Reader
  <2> QED BY <1>8 DEF Follows
<1>10. \A k \in 0 .. N : h[k] \in Reader
  <2> HIDE DEF step, N, h, Reader
  <2> QED BY <1>1, <1>3, <1>9, RecursionStays
<1> HIDE DEF h
<1> QED
  BY <1>7, <1>8, <1>10 DEF Reads

\* A text determines what is read of it.
LEMMA ReadsOneWay ==
  ASSUME NEW r \in Reader, NEW text \in Text, NEW h, Reads(h, r, text),
         NEW n \in 0 .. Len(text), NEW g,
         g[0] = r, \A k \in 1 .. n : g[k] = ReadOne(g[k - 1], text[k])
  PROVE  g[n] = h[n]
<1> DEFINE S == {k \in 0 .. n : g[k] = h[k]}
<1>1. Len(text) \in Nat /\ n \in Nat
  BY LenProperties DEF Text
<1>2. 0 \in S
  BY <1>1 DEF Reads
<1>3. ASSUME NEW k \in 0 .. n - 1, k \in S PROVE k + 1 \in S
  <2>1. k + 1 \in 1 .. n /\ k + 1 \in 1 .. Len(text) /\ (k + 1) - 1 = k
    BY <1>1
  <2>2. g[k + 1] = ReadOne(g[k], text[k + 1]) /\ h[k + 1] = ReadOne(h[k], text[k + 1])
    BY <2>1 DEF Reads
  <2> QED BY <1>3, <2>1, <2>2
<1>4. 0 .. n \subseteq S
  <2> HIDE DEF S
  <2> QED BY <1>1, <1>2, <1>3, BoundedInduction
<1> QED
  BY <1>1, <1>4

\* A reader that reads on stays a reader.
LEMMA ReadStays ==
  ASSUME NEW r \in Reader, NEW text \in Text
  PROVE  Read(r, text) \in Reader
<1>1. PICK h : Read(r, text) = h[Len(text)] /\ Reads(h, r, text)
  BY ReadUnfolds
<1>2. Len(text) \in 0 .. Len(text)
  BY LenProperties DEF Text
<1> QED
  BY <1>1, <1>2 DEF Reads

\* Reading two texts in a row is reading one and then the other.
LEMMA ReadConcat ==
  ASSUME NEW r \in Reader, NEW s \in Text, NEW t \in Text
  PROVE  Read(r, s \o t) = Read(Read(r, s), t)
<1> DEFINE st == s \o t
           m == Len(s)
           n == Len(t)
<1>1. /\ st \in Text /\ Len(st) = m + n /\ m \in Nat /\ n \in Nat
      /\ \A i \in 1 .. m : st[i] = s[i]
      /\ \A i \in 1 .. n : st[m + i] = t[i]
  <2>1. m \in Nat /\ n \in Nat
    BY LenProperties DEF Text
  <2>2. /\ st \in Text /\ Len(st) = m + n
        /\ \A i \in 1 .. m + n : st[i] = IF i <= m THEN s[i] ELSE t[i - m]
    BY ConcatProperties DEF Text
  <2> HIDE DEF st, m, n
  <2>3. ASSUME NEW i \in 1 .. n PROVE st[m + i] = t[i]
    <3>1. m + i \in 1 .. m + n /\ ~(m + i <= m) /\ (m + i) - m = i
      BY <2>1
    <3> QED BY <2>2, <3>1
  <2> QED BY <2>1, <2>2, <2>3
<1>2. PICK h : Read(r, st) = h[Len(st)] /\ Reads(h, r, st)
  BY <1>1, ReadUnfolds
<1>3. PICK f : Read(r, s) = f[m] /\ Reads(f, r, s)
  BY ReadUnfolds
<1>4. Read(r, s) \in Reader
  BY ReadStays
<1>5. PICK g : Read(Read(r, s), t) = g[n] /\ Reads(g, Read(r, s), t)
  BY <1>4, ReadUnfolds
<1> HIDE DEF st, m, n
<1>6. h[m] = f[m]
  <2>1. f[0] = r /\ \A k \in 1 .. m : f[k] = ReadOne(f[k - 1], st[k])
    BY <1>1, <1>3 DEF Reads, m
  <2>2. m \in 0 .. Len(st)
    BY <1>1
  <2> QED BY <1>1, <1>2, <2>1, <2>2, ReadsOneWay
<1> DEFINE S == {k \in 0 .. n : h[m + k] = g[k]}
<1>7. 0 \in S
  BY <1>1, <1>3, <1>5, <1>6 DEF Reads
<1>8. ASSUME NEW k \in 0 .. n - 1, k \in S PROVE k + 1 \in S
  <2>1. /\ k + 1 \in 1 .. n /\ m + (k + 1) \in 1 .. Len(st)
        /\ (k + 1) - 1 = k /\ (m + (k + 1)) - 1 = m + k
    BY <1>1
  <2>2. g[k + 1] = ReadOne(g[k], t[k + 1])
    BY <1>5, <2>1 DEF Reads, n
  <2>3. h[m + (k + 1)] = ReadOne(h[m + k], st[m + (k + 1)])
    BY <1>2, <2>1 DEF Reads
  <2>4. st[m + (k + 1)] = t[k + 1]
    BY <1>1, <2>1
  <2> QED BY <1>8, <2>1, <2>2, <2>3, <2>4
<1>9. 0 .. n \subseteq S
  <2> HIDE DEF S
  <2> QED BY <1>1, <1>7, <1>8, BoundedInduction
<1>10. h[m + n] = g[n]
  BY <1>1, <1>9
<1> QED
  BY <1>1, <1>2, <1>5, <1>10 DEF st

\* Reading a text of one letter is one step,
LEMMA ReadLetter ==
  ASSUME NEW r \in Reader, NEW ch \in Letters
  PROVE  Read(r, <<ch>>) = ReadOne(r, ch)
<1>1. <<ch>> \in Text
  BY TextOfOne
<1>2. PICK h : Read(r, <<ch>>) = h[Len(<<ch>>)] /\ Reads(h, r, <<ch>>)
  BY <1>1, ReadUnfolds
<1>3. Len(<<ch>>) = 1 /\ <<ch>>[1] = ch
  OBVIOUS
<1>4. h[0] = r /\ h[1] = ReadOne(h[1 - 1], <<ch>>[1])
  BY <1>2, <1>3 DEF Reads
<1> QED
  BY <1>2, <1>3, <1>4

\* reading an empty one is none.
LEMMA ReadNothing ==
  ASSUME NEW r \in Reader
  PROVE  Read(r, <<>>) = r
<1>1. <<>> \in Text
  BY DEF Text
<1>2. PICK h : Read(r, <<>>) = h[Len(<<>>)] /\ Reads(h, r, <<>>)
  BY <1>1, ReadUnfolds
<1> QED
  BY <1>2 DEF Reads

\* Appending to short tuples.
LEMMA AppendTuples ==
  ASSUME NEW S, NEW a \in S, NEW b \in S, NEW c \in S, NEW d \in S
  PROVE  /\ Append(<<a>>, b) = <<a, b>>
         /\ Append(<<a, b>>, c) = <<a, b, c>>
         /\ Append(<<a, b, c>>, d) = <<a, b, c, d>>
<1>1. /\ <<a>> \in Seq(S) /\ <<a, b>> \in Seq(S) /\ <<a, b, c>> \in Seq(S)
      /\ <<a, b, c, d>> \in Seq(S)
  OBVIOUS
<1>2. /\ Len(<<a>>) = 1 /\ Len(<<a, b>>) = 2 /\ Len(<<a, b, c>>) = 3
      /\ Len(<<a, b, c, d>>) = 4
  OBVIOUS
<1>3. Append(<<a>>, b) = <<a, b>>
  <2> DEFINE s == Append(<<a>>, b)
  <2>1. s \in Seq(S) /\ Len(s) = 2 /\ s[1] = a /\ s[2] = b
    <3>1. /\ s \in Seq(S) /\ Len(s) = Len(<<a>>) + 1 /\ s[Len(<<a>>) + 1] = b
          /\ \A i \in 1 .. Len(<<a>>) : s[i] = <<a>>[i]
      BY <1>1, AppendProperties
    <3> HIDE DEF s
    <3>2. 1 + 1 = 2 /\ 1 \in 1 .. 1
      OBVIOUS
    <3> QED BY <1>2, <3>1, <3>2
  <2> HIDE DEF s
  <2>2. \A i \in 1 .. Len(s) : s[i] = <<a, b>>[i]
    BY <2>1
  <2>3. s = <<a, b>>
    BY <1>1, <1>2, <2>1, <2>2, SeqEqual
  <2> QED BY <2>3 DEF s
<1>4. Append(<<a, b>>, c) = <<a, b, c>>
  <2> DEFINE s == Append(<<a, b>>, c)
  <2>1. s \in Seq(S) /\ Len(s) = 3 /\ s[1] = a /\ s[2] = b /\ s[3] = c
    <3>1. /\ s \in Seq(S) /\ Len(s) = Len(<<a, b>>) + 1 /\ s[Len(<<a, b>>) + 1] = c
          /\ \A i \in 1 .. Len(<<a, b>>) : s[i] = <<a, b>>[i]
      BY <1>1, AppendProperties
    <3> HIDE DEF s
    <3>2. 2 + 1 = 3 /\ 1 \in 1 .. 2 /\ 2 \in 1 .. 2
      OBVIOUS
    <3> QED BY <1>2, <3>1, <3>2
  <2> HIDE DEF s
  <2>2. \A i \in 1 .. Len(s) : s[i] = <<a, b, c>>[i]
    BY <2>1
  <2>3. s = <<a, b, c>>
    BY <1>1, <1>2, <2>1, <2>2, SeqEqual
  <2> QED BY <2>3 DEF s
<1>5. Append(<<a, b, c>>, d) = <<a, b, c, d>>
  <2> DEFINE s == Append(<<a, b, c>>, d)
  <2>1. s \in Seq(S) /\ Len(s) = 4 /\ s[1] = a /\ s[2] = b /\ s[3] = c /\ s[4] = d
    <3>1. /\ s \in Seq(S) /\ Len(s) = Len(<<a, b, c>>) + 1 /\ s[Len(<<a, b, c>>) + 1] = d
          /\ \A i \in 1 .. Len(<<a, b, c>>) : s[i] = <<a, b, c>>[i]
      BY <1>1, AppendProperties
    <3> HIDE DEF s
    <3>2. 3 + 1 = 4 /\ 1 \in 1 .. 3 /\ 2 \in 1 .. 3 /\ 3 \in 1 .. 3
      OBVIOUS
    <3> QED BY <1>2, <3>1, <3>2
  <2> HIDE DEF s
  <2>2. \A i \in 1 .. Len(s) : s[i] = <<a, b, c, d>>[i]
    BY <2>1
  <2>3. s = <<a, b, c, d>>
    BY <1>1, <1>2, <2>1, <2>2, SeqEqual
  <2> QED BY <2>3 DEF s
<1> QED
  BY <1>3, <1>4, <1>5

\* What two to four letters are, put together one after the other.
LEMMA ConcatTuples ==
  ASSUME NEW S, NEW a \in S, NEW b \in S, NEW c \in S, NEW d \in S
  PROVE  /\ <<a>> \o <<b>> = <<a, b>>
         /\ <<a, b>> \o <<c>> = <<a, b, c>>
         /\ <<a, b, c>> \o <<d>> = <<a, b, c, d>>
<1>1. /\ <<a>> \in Seq(S) /\ <<a, b>> \in Seq(S) /\ <<a, b, c>> \in Seq(S)
  OBVIOUS
<1>2. \A s \in Seq(S), x \in S : Append(s, x) = s \o <<x>>
  BY AppendIsConcat
<1>3. /\ Append(<<a>>, b) = <<a>> \o <<b>>
      /\ Append(<<a, b>>, c) = <<a, b>> \o <<c>>
      /\ Append(<<a, b, c>>, d) = <<a, b, c>> \o <<d>>
  <2>1. Append(<<a>>, b) = <<a>> \o <<b>>
    BY <1>1, <1>2, Zenon
  <2>2. Append(<<a, b>>, c) = <<a, b>> \o <<c>>
    BY <1>1, <1>2, Zenon
  <2>3. Append(<<a, b, c>>, d) = <<a, b, c>> \o <<d>>
    BY <1>1, <1>2, Zenon
  <2> QED BY <2>1, <2>2, <2>3, Zenon
<1>4. /\ Append(<<a>>, b) = <<a, b>>
      /\ Append(<<a, b>>, c) = <<a, b, c>>
      /\ Append(<<a, b, c>>, d) = <<a, b, c, d>>
  BY AppendTuples
<1> QED
  BY <1>3, <1>4, Zenon

\* Every escape is read as the character it stands for.
LEMMA EscapeReads ==
  ASSUME NEW r, NEW strings \in Seq(Text), NEW x \in Text, NEW numbers, NEW ch \in Letters,
         At(r, "string", Append(strings, x), numbers)
  PROVE  At(Read(r, Escape(ch)), "string", Append(strings, Append(x, ch)), numbers)
<1>1. r \in Reader
  BY DEF At
<1>2. ASSUME NEW c \in Letters
      PROVE  Extended(Append(strings, x), c) = Append(strings, Append(x, c))
  BY ExtendedLast
<1>3. Backslash \in Letters /\ "u" \in Letters
  BY DEF Letters, Marks
<1> DEFINE e == ReadOne(r, Backslash)
<1>4. At(e, "escape", r.strings, r.numbers)
  BY <1>1, <1>3, ReadOneIs, InsideStays DEF At
<1>5. e \in Reader /\ e.mode = "escape" /\ e.strings = Append(strings, x) /\ e.numbers = numbers
  BY <1>4 DEF At
<1>6. ASSUME NEW c \in Letters PROVE Read(r, <<Backslash, c>>) = ReadEscape(e, c)
  <2>1. <<Backslash>> \o <<c>> = <<Backslash, c>>
    BY <1>3, ConcatTuples
  <2>2. Read(r, <<Backslash>>) = e
    BY <1>1, <1>3, ReadLetter
  <2>3. Read(e, <<c>>) = ReadOne(e, c)
    BY <1>5, ReadLetter
  <2>4. ReadOne(e, c) = ReadEscape(e, c)
    BY <1>5, ReadOneIs
  <2>5. <<Backslash>> \in Text /\ <<c>> \in Text
    BY <1>3, TextOfOne
  <2>6. Read(r, <<Backslash>> \o <<c>>) = Read(Read(r, <<Backslash>>), <<c>>)
    BY <1>1, <2>5, ReadConcat
  <2> HIDE DEF e
  <2> QED BY <2>1, <2>2, <2>3, <2>4, <2>6
<1> HIDE DEF e
<1>7. CASE ch \in {Quote, Backslash}
  <2>1. Escape(ch) = <<Backslash, ch>>
    BY <1>7, SpecialsAreApart DEF Escape
  <2>2. At(ReadEscape(e, ch), "string", Extended(e.strings, ch), e.numbers)
    BY <1>5, <1>7, EscapeStays
  <2> QED BY <1>2, <1>5, <1>6, <2>1, <2>2
<1>8. CASE ch \notin {Quote, Backslash} /\ ch \in DOMAIN Short
  <2>1. Escape(ch) = <<Backslash, Short[ch]>>
    BY <1>8, SpecialsAreApart DEF Escape
  <2>2. Short[ch] \in Letters
    <3>1. "n" \in Letters /\ "r" \in Letters /\ "t" \in Letters
      BY DEF Letters, Marks
    <3> QED BY <1>8, <3>1, ShortAndHex
  <2>3. At(ReadEscape(e, Short[ch]), "string", Extended(e.strings, ch), e.numbers)
    BY <1>5, <1>8, <2>2, EscapeStays
  <2> QED BY <1>2, <1>5, <1>6, <2>1, <2>2, <2>3
<1>9. CASE ch \notin {Quote, Backslash} /\ ch \notin DOMAIN Short /\ ch \in DOMAIN Hex
  <2>1. Escape(ch) = <<Backslash, "u">> \o Hex[ch]
    BY <1>9 DEF Escape
  <2> DEFINE u == ReadEscape(e, "u")
  <2>2. At(u, "hex", e.strings, e.numbers) /\ u.hex = <<>>
    BY <1>3, <1>5, EscapeStays
  <2>3. Read(r, <<Backslash, "u">>) = u
    BY <1>3, <1>6
  <2> HIDE DEF u
  <2>4. ASSUME NEW a \in Letters, NEW b \in Letters, NEW c \in Letters, NEW d \in Letters,
               Hex[ch] = <<a, b, c, d>>
        PROVE  At(Read(u, Hex[ch]), "string", Extended(e.strings, ch), e.numbers)
    <3> DEFINE h1 == ReadOne(u, a)
               h2 == ReadOne(h1, b)
               h3 == ReadOne(h2, c)
               h4 == ReadOne(h3, d)
    <3>1. <<a>> \in Text /\ <<b>> \in Text /\ <<c>> \in Text /\ <<d>> \in Text
      BY TextOfOne
    <3>2. At(h1, "hex", e.strings, e.numbers) /\ h1.hex = <<a>>
      <4>1. u \in Reader /\ u.mode = "hex" /\ u.strings = e.strings /\ u.numbers = e.numbers
            /\ Len(u.hex) = 0 /\ Append(u.hex, a) = <<a>>
        BY <2>2 DEF At
      <4>2. h1 = ReadHex(u, a)
        BY <4>1, ReadOneIs
      <4>3. At(ReadHex(u, a), "hex", u.strings, u.numbers) /\ ReadHex(u, a).hex = Append(u.hex, a)
        BY <4>1, HexStays
      <4> HIDE DEF h1
      <4> QED BY <4>1, <4>2, <4>3
    <3> HIDE DEF h1
    <3>3. At(h2, "hex", e.strings, e.numbers) /\ h2.hex = <<a, b>>
      <4>1. h1 \in Reader /\ h1.mode = "hex" /\ h1.strings = e.strings /\ h1.numbers = e.numbers
            /\ Len(h1.hex) = 1 /\ Append(h1.hex, b) = <<a, b>>
        <5>1. Len(<<a>>) = 1 /\ Append(<<a>>, b) = <<a, b>>
          BY AppendTuples
        <5>2. h1.hex = <<a>>
          BY <3>2
        <5>3. h1 \in Reader /\ h1.mode = "hex" /\ h1.strings = e.strings /\ h1.numbers = e.numbers
          BY <3>2 DEF At
        <5> QED BY <5>1, <5>2, <5>3, Zenon
      <4>2. h2 = ReadHex(h1, b)
        BY <4>1, ReadOneIs
      <4>3. At(ReadHex(h1, b), "hex", h1.strings, h1.numbers)
            /\ ReadHex(h1, b).hex = Append(h1.hex, b)
        <5>1. Len(h1.hex) < 3
          BY <4>1
        <5>2. h1 \in Reader /\ h1.mode = "hex"
          BY <4>1
        <5> QED BY <5>1, <5>2, HexStays
      <4> HIDE DEF h2
      <4> QED BY <4>1, <4>2, <4>3, Zenon
    <3> HIDE DEF h2
    <3>4. At(h3, "hex", e.strings, e.numbers) /\ h3.hex = <<a, b, c>>
      <4>1. h2 \in Reader /\ h2.mode = "hex" /\ h2.strings = e.strings /\ h2.numbers = e.numbers
            /\ Len(h2.hex) = 2 /\ Append(h2.hex, c) = <<a, b, c>>
        <5>1. Len(<<a, b>>) = 2 /\ Append(<<a, b>>, c) = <<a, b, c>>
          BY AppendTuples
        <5>2. h2.hex = <<a, b>>
          BY <3>3
        <5>3. h2 \in Reader /\ h2.mode = "hex" /\ h2.strings = e.strings /\ h2.numbers = e.numbers
          BY <3>3 DEF At
        <5> QED BY <5>1, <5>2, <5>3, Zenon
      <4>2. h3 = ReadHex(h2, c)
        BY <4>1, ReadOneIs
      <4>3. At(ReadHex(h2, c), "hex", h2.strings, h2.numbers)
            /\ ReadHex(h2, c).hex = Append(h2.hex, c)
        <5>1. Len(h2.hex) < 3
          BY <4>1
        <5>2. h2 \in Reader /\ h2.mode = "hex"
          BY <4>1
        <5> QED BY <5>1, <5>2, HexStays
      <4> HIDE DEF h3
      <4> QED BY <4>1, <4>2, <4>3, Zenon
    <3> HIDE DEF h3
    <3>5. At(h4, "string", Extended(e.strings, ch), e.numbers)
      <4>1. h3 \in Reader /\ h3.mode = "hex" /\ h3.strings = e.strings /\ h3.numbers = e.numbers
            /\ Len(h3.hex) = 3 /\ Append(h3.hex, d) = Hex[ch]
        <5>1. Append(<<a, b, c>>, d) = <<a, b, c, d>>
          <6>1. /\ Append(<<a>>, b) = <<a, b>>
                /\ Append(<<a, b>>, c) = <<a, b, c>>
                /\ Append(<<a, b, c>>, d) = <<a, b, c, d>>
            BY AppendTuples
          <6> QED BY <6>1
        <5>4. Len(<<a, b, c>>) = 3
          OBVIOUS
        <5>2. h3.hex = <<a, b, c>>
          BY <3>4
        <5>3. h3 \in Reader /\ h3.mode = "hex" /\ h3.strings = e.strings /\ h3.numbers = e.numbers
          BY <3>4 DEF At
        <5> QED BY <2>4, <5>1, <5>2, <5>3, <5>4, Zenon
      <4>2. h4 = ReadHex(h3, d)
        BY <4>1, ReadOneIs
      <4>3. At(ReadHex(h3, d), "string", Extended(h3.strings, ch), h3.numbers)
        BY <1>9, <4>1, HexStays
      <4> HIDE DEF h4
      <4> QED BY <4>1, <4>2, <4>3
    <3>6. Read(u, <<a>> \o <<b>> \o <<c>> \o <<d>>) = h4
      <4>1. u \in Reader /\ h1 \in Reader /\ h2 \in Reader /\ h3 \in Reader
        BY <2>2, <3>2, <3>3, <3>4 DEF At
      <4>2. Read(u, <<a>>) = h1 /\ Read(h1, <<b>>) = h2 /\ Read(h2, <<c>>) = h3
            /\ Read(h3, <<d>>) = h4
        BY <4>1, ReadLetter DEF h1, h2, h3
      <4> DEFINE p1 == <<a>> \o <<b>>
                 p2 == p1 \o <<c>>
      <4>3. p1 \in Text /\ Read(u, p1) = h2
        BY <3>1, <4>1, <4>2, TextConcat, ReadConcat
      <4> HIDE DEF p1, h4
      <4>4. p2 \in Text /\ Read(u, p2) = h3
        BY <3>1, <4>1, <4>2, <4>3, TextConcat, ReadConcat
      <4> HIDE DEF p2
      <4>5. Read(u, p2 \o <<d>>) = h4
        BY <3>1, <4>1, <4>2, <4>4, ReadConcat
      <4> QED BY <4>5 DEF p1, p2
    <3>7. <<a>> \o <<b>> \o <<c>> \o <<d>> = <<a, b, c, d>>
      <4>1. /\ <<a>> \o <<b>> = <<a, b>> /\ <<a, b>> \o <<c>> = <<a, b, c>>
            /\ <<a, b, c>> \o <<d>> = <<a, b, c, d>>
        BY ConcatTuples
      <4> QED BY <4>1, Zenon
    <3> HIDE DEF h4
    <3> QED BY <2>4, <3>5, <3>6, <3>7
  <2>5. At(Read(u, Hex[ch]), "string", Extended(e.strings, ch), e.numbers)
    <3>1. "0" \in Letters /\ "1" \in Letters /\ "b" \in Letters
      BY DEF Letters, Marks, DigitChars
    <3>2. Hex[ch] = <<"0", "0", "0", "1">> \/ Hex[ch] = <<"0", "0", "1", "b">>
      BY <1>9, ShortAndHex
    <3> HIDE DEF Letters
    <3> QED BY <2>4, <3>1, <3>2
  <2>6. Read(r, Escape(ch)) = Read(u, Hex[ch])
    <3>1. <<Backslash, "u">> \in Text
      <4> HIDE DEF Letters
      <4> QED BY <1>3 DEF Text
    <3>2. Hex[ch] \in Text
      <4>1. \A a, b, c, d \in Letters : <<a, b, c, d>> \in Text
        <5> HIDE DEF Letters
        <5> QED BY DEF Text
      <4>2. "0" \in Letters /\ "1" \in Letters /\ "b" \in Letters
        BY DEF Letters, Marks, DigitChars
      <4>3. Hex[ch] = <<"0", "0", "0", "1">> \/ Hex[ch] = <<"0", "0", "1", "b">>
        BY <1>9, ShortAndHex
      <4> HIDE DEF Letters, Text
      <4> QED BY <4>1, <4>2, <4>3
    <3> QED BY <1>1, <2>1, <2>3, <3>1, <3>2, ReadConcat
  <2> QED BY <1>2, <1>5, <2>5, <2>6
<1>10. CASE ch \notin {Quote, Backslash} /\ ch \notin DOMAIN Short /\ ch \notin DOMAIN Hex
  <2>1. Escape(ch) = <<ch>>
    BY <1>10 DEF Escape
  <2>2. Read(r, <<ch>>) = ReadInside(r, ch)
    BY <1>1, ReadLetter, ReadOneIs DEF At
  <2>3. At(ReadInside(r, ch), "string", Extended(r.strings, ch), r.numbers)
    BY <1>1, <1>10, InsideStays DEF At
  <2>4. r.strings = Append(strings, x) /\ r.numbers = numbers
    BY DEF At
  <2> QED BY <1>2, <2>1, <2>2, <2>3, <2>4
<1> QED
  BY <1>7, <1>8, <1>9, <1>10

\* Inside a string, an escaped text is read as the text it was.
LEMMA EscapedReads ==
  ASSUME NEW r, NEW strings \in Seq(Text), NEW numbers, NEW value \in Text,
         At(r, "string", Append(strings, <<>>), numbers)
  PROVE  At(Read(r, Escaped(value)), "string", Append(strings, value), numbers)
<1> DEFINE N == Len(value)
           x(k) == SubSeq(value, 1, k)
           ReadSoFar(h, k) == At(Read(r, h[k]), "string", Append(strings, x(k)), numbers)
<1>1. N \in Nat /\ \A k \in 1 .. N : value[k] \in Letters
  BY LenProperties DEF Text
<1>2. PICK h : /\ Escaped(value) = h[N] /\ h[0] = <<>>
               /\ \A k \in 0 .. N : h[k] \in Text
               /\ \A k \in 1 .. N : h[k] = h[k - 1] \o Escape(value[k])
  BY EscapedUnfolds
<1>3. r \in Reader
  BY DEF At
<1> DEFINE S == {k \in 0 .. N : ReadSoFar(h, k)}
<1>4. 0 \in S
  <2>1. x(0) = <<>>
    BY SubSeqEmpty
  <2>2. Read(r, h[0]) = r
    BY <1>2, <1>3, ReadNothing
  <2> HIDE DEF x
  <2> QED BY <1>1, <2>1, <2>2
<1>5. ASSUME NEW k \in 0 .. N - 1, k \in S PROVE k + 1 \in S
  <2>1. k + 1 \in 1 .. N /\ (k + 1) - 1 = k /\ k \in 0 .. N
    BY <1>1
  <2> DEFINE ch == value[k + 1]
  <2>2. ch \in Letters /\ h[k] \in Text /\ h[k + 1] = h[k] \o Escape(ch)
    BY <1>1, <1>2, <2>1
  <2>3. x(k) \in Text
    <3>1. \A i \in 1 .. k : value[i] \in Letters
      BY <1>1, <2>1
    <3> HIDE DEF Letters
    <3> QED BY <2>1, <3>1, SubSeqProperties DEF Text
  <2>4. x(k + 1) = Append(x(k), ch)
    <3>1. 1 \in 1 .. Len(value) /\ k + 1 \in 1 .. Len(value)
      BY <2>1
    <3>2. SubSeq(value, 1, k + 1) = SubSeq(value, 1, (k + 1) - 1) \o <<value[k + 1]>>
      BY <3>1, SubSeqRecursiveSecond DEF Text
    <3>3. Append(x(k), ch) = x(k) \o <<ch>>
      <4> HIDE DEF x, ch
      <4> QED BY <2>2, <2>3, AppendIsConcat DEF Text
    <3> QED BY <2>1, <3>2, <3>3
  <2>5. ReadSoFar(h, k)
    BY <1>5
  <2> HIDE DEF ch
  <2>6. Escape(ch) \in Text
    BY <2>2, EscapeIsText
  <2>7. Read(r, h[k + 1]) = Read(Read(r, h[k]), Escape(ch))
    BY <1>3, <2>2, <2>6, ReadConcat
  <2>8. At(Read(Read(r, h[k]), Escape(ch)), "string", Append(strings, Append(x(k), ch)), numbers)
    <3> HIDE DEF x
    <3> QED BY <2>2, <2>3, <2>5, EscapeReads
  <2>9. ReadSoFar(h, k + 1)
    <3> HIDE DEF x
    <3> QED BY <2>4, <2>7, <2>8
  <2> HIDE DEF ReadSoFar
  <2> QED BY <2>1, <2>9
<1>6. 0 .. N \subseteq S
  <2> HIDE DEF S, N
  <2> QED BY <1>1, <1>4, <1>5, BoundedInduction
<1>7. ReadSoFar(h, N)
  <2> HIDE DEF ReadSoFar
  <2> QED BY <1>1, <1>6
<1>8. x(N) = value
  BY SubSeqFull DEF Text
<1> HIDE DEF x
<1> QED
  BY <1>2, <1>7, <1>8

\* Keys are read as nothing, and end a number.
LEMMA KeyReads ==
  ASSUME NEW r, NEW strings, NEW numbers, NEW mode \in {"outside", "number"},
         NEW key \in Keys, At(r, mode, strings, numbers)
  PROVE  At(Read(r, <<key>>), "outside", strings, numbers)
<1>1. key \in Letters /\ key # Quote /\ key \notin DigitChars
  BY DEF Letters, Keys, Quote, DigitChars
<1>2. r \in Reader /\ r.mode = mode /\ r.strings = strings /\ r.numbers = numbers
  BY DEF At
<1>3. Read(r, <<key>>) = ReadOutside(r, key)
  BY <1>1, <1>2, ReadLetter, ReadOneIs
<1>4. At(ReadOutside(r, key), "outside", r.strings, r.numbers)
  BY <1>1, <1>2, OutsideStays
<1> QED
  BY <1>2, <1>3, <1>4

\* A field is read as the text it was made of.
LEMMA FieldReads ==
  ASSUME NEW r, NEW strings \in Seq(Text), NEW numbers, NEW mode \in {"outside", "number"},
         NEW key \in Keys, NEW value \in Text, At(r, mode, strings, numbers)
  PROVE  At(Read(r, StringField(key, value)), "outside", Append(strings, value), numbers)
<1>1. key \in Letters /\ Quote \in Letters
  BY DEF Letters, Keys, Marks
<1>2. <<key>> \in Text /\ <<Quote>> \in Text /\ Escaped(value) \in Text
  BY <1>1, TextOfOne, EscapedIsText
<1> DEFINE r1 == Read(r, <<key>>)
           r2 == Read(r1, <<Quote>>)
           r3 == Read(r2, Escaped(value))
           r4 == Read(r3, <<Quote>>)
<1>3. At(r1, "outside", strings, numbers)
  BY KeyReads
<1> HIDE DEF r1
<1>4. At(r2, "string", Append(strings, <<>>), numbers)
  <2>1. r1 \in Reader /\ r1.mode = "outside" /\ r1.strings = strings /\ r1.numbers = numbers
    BY <1>3 DEF At
  <2>2. r2 = ReadOutside(r1, Quote)
    BY <1>1, <2>1, ReadLetter, ReadOneIs
  <2>3. At(ReadOutside(r1, Quote), "string", Append(r1.strings, <<>>), r1.numbers)
    BY <1>1, <2>1, OutsideStays
  <2> HIDE DEF r2
  <2> QED BY <2>1, <2>2, <2>3
<1> HIDE DEF r2
<1>5. At(r3, "string", Append(strings, value), numbers)
  BY <1>4, EscapedReads
<1> HIDE DEF r3
<1>6. At(r4, "outside", Append(strings, value), numbers)
  <2>1. /\ r3 \in Reader /\ r3.mode = "string" /\ r3.strings = Append(strings, value)
        /\ r3.numbers = numbers
    BY <1>5 DEF At
  <2>2. r4 = ReadInside(r3, Quote)
    BY <1>1, <2>1, ReadLetter, ReadOneIs
  <2>3. At(ReadInside(r3, Quote), "outside", r3.strings, r3.numbers)
    BY <1>1, <2>1, InsideStays
  <2> HIDE DEF r4
  <2> QED BY <2>1, <2>2, <2>3
<1>7. Read(r, StringField(key, value)) = r4
  <2>1. <<key, Quote>> = <<key>> \o <<Quote>>
    BY <1>1, ConcatTuples
  <2> DEFINE f == <<key>> \o <<Quote>>
  <2>2. StringField(key, value) = f \o Escaped(value) \o <<Quote>>
    <3>1. StringField(key, value) = <<key, Quote>> \o Escaped(value) \o <<Quote>>
      BY DEF StringField
    <3> QED BY <2>1, <3>1, Zenon
  <2>3. r \in Reader /\ r1 \in Reader /\ r2 \in Reader /\ r3 \in Reader
    BY <1>3, <1>4, <1>5 DEF At
  <2>4. f \in Text /\ Read(r, f) = r2
    BY <1>2, <2>3, TextConcat, ReadConcat DEF r1, r2
  <2> HIDE DEF f
  <2>5. f \o Escaped(value) \in Text /\ Read(r, f \o Escaped(value)) = r3
    BY <1>2, <2>3, <2>4, TextConcat, ReadConcat DEF r3
  <2>6. Read(r, f \o Escaped(value) \o <<Quote>>) = r4
    BY <1>2, <2>3, <2>5, ReadConcat
  <2> QED BY <2>2, <2>6
<1> QED
  BY <1>6, <1>7

\* Digits are read as one number.
LEMMA NumberReads ==
  ASSUME NEW r, NEW strings, NEW numbers \in Seq(Text),
         NEW digits \in Seq(DigitChars), digits # <<>>, At(r, "outside", strings, numbers)
  PROVE  At(Read(r, digits), "number", strings, Append(numbers, digits))
<1> DEFINE N == Len(digits)
           x(k) == SubSeq(digits, 1, k + 1)
           ReadSoFar(k) == At(Read(r, x(k)), "number", strings, Append(numbers, x(k)))
           S == {k \in 0 .. N - 1 : ReadSoFar(k)}
<1>1. N \in Nat \ {0} /\ \A k \in 1 .. N : digits[k] \in DigitChars
  <2>1. digits # <<>> => Len(digits) # 0
    BY EmptySeq
  <2> QED BY <2>1, LenProperties
<1>2. DigitChars \subseteq Letters
  BY DEF Letters
<1>3. r \in Reader /\ r.mode = "outside" /\ r.strings = strings /\ r.numbers = numbers
  BY DEF At
<1>4. \A k \in 0 .. N - 1 : x(k) \in Seq(DigitChars) /\ x(k) \in Text
  <2> TAKE k \in 0 .. N - 1
  <2>1. \A i \in 1 .. k + 1 : digits[i] \in DigitChars
    BY <1>1
  <2>2. x(k) \in Seq(DigitChars)
    <3> HIDE DEF DigitChars
    <3> QED BY <1>1, <2>1, SubSeqProperties
  <2> HIDE DEF x
  <2> QED BY <2>2, DigitsAreText
<1>5. \A k \in 0 .. N - 1 : x(k) = SubSeq(digits, 1, k) \o <<digits[k + 1]>>
  <2> TAKE k \in 0 .. N - 1
  <2>1. 1 \in 1 .. Len(digits) /\ k + 1 \in 1 .. Len(digits) /\ 1 <= k + 1 /\ (k + 1) - 1 = k
    BY <1>1
  <2>2. SubSeq(digits, 1, k + 1) = SubSeq(digits, 1, (k + 1) - 1) \o <<digits[k + 1]>>
    <3> HIDE DEF DigitChars
    <3> QED BY <2>1, SubSeqRecursiveSecond
  <2> QED BY <2>1, <2>2
<1>6. 0 \in S
  <2>1. x(0) = <<digits[1]>>
    <3>1. SubSeq(digits, 1, 0) = <<>>
      BY SubSeqEmpty
    <3>2. x(0) = <<>> \o <<digits[1]>>
      <4>1. 0 \in 0 .. N - 1 /\ 0 + 1 = 1
        BY <1>1
      <4>2. x(0) = SubSeq(digits, 1, 0) \o <<digits[0 + 1]>>
        <5> HIDE DEF x
        <5> QED BY <1>5, <4>1
      <4> HIDE DEF x
      <4> QED BY <3>1, <4>1, <4>2
    <3>3. <<digits[1]>> \in Text
      BY <1>1, <1>2, TextOfOne
    <3>4. <<>> \o <<digits[1]>> = <<digits[1]>>
      BY <3>3, ConcatEmptySeq DEF Text
    <3> HIDE DEF x
    <3> QED BY <3>2, <3>4
  <2> DEFINE ch == digits[1]
  <2>2. ch \in DigitChars /\ ch \in Letters
    BY <1>1, <1>2
  <2> HIDE DEF ch
  <2>3. Read(r, <<ch>>) = ReadOutside(r, ch)
    BY <1>3, <2>2, ReadLetter, ReadOneIs
  <2>4. At(ReadOutside(r, ch), "number", r.strings, Append(r.numbers, <<ch>>))
    BY <1>3, <2>2, OutsideStays
  <2>5. ReadSoFar(0)
    BY <1>3, <2>1, <2>3, <2>4 DEF ch
  <2> HIDE DEF ReadSoFar
  <2> QED BY <1>1, <2>5
<1>7. ASSUME NEW k \in 0 .. (N - 1) - 1, k \in S PROVE k + 1 \in S
  <2>1. k \in 0 .. N - 1 /\ k + 1 \in 0 .. N - 1 /\ (k + 1) + 1 \in 1 .. N
    BY <1>1
  <2> DEFINE ch == digits[(k + 1) + 1]
             q == Read(r, x(k))
  <2>2. ch \in DigitChars /\ ch \in Letters
    BY <1>1, <1>2, <2>1
  <2>3. At(q, "number", strings, Append(numbers, x(k)))
    BY <1>7
  <2>4. x(k) \in Text
    BY <1>4, <2>1
  <2>5. x(k + 1) = x(k) \o <<ch>>
    BY <1>5, <2>1
  <2>6. Append(x(k), ch) = x(k) \o <<ch>>
    <3> HIDE DEF x, ch
    <3> QED BY <2>2, <2>4, AppendIsConcat DEF Text
  <2> HIDE DEF ch, x
  <2>7. Read(r, x(k + 1)) = ReadOutside(q, ch)
    <3>1. Read(r, x(k) \o <<ch>>) = Read(q, <<ch>>)
      BY <1>3, <2>2, <2>4, TextOfOne, ReadConcat
    <3>2. q \in Reader /\ q.mode = "number"
      BY <2>3 DEF At
    <3> HIDE DEF q
    <3> QED BY <2>2, <2>5, <3>1, <3>2, ReadLetter, ReadOneIs
  <2> HIDE DEF q
  <2>8. /\ q \in Reader /\ q.mode = "number" /\ q.strings = strings
        /\ q.numbers = Append(numbers, x(k))
    BY <2>3 DEF At
  <2>9. At(ReadOutside(q, ch), "number", q.strings, Extended(q.numbers, ch))
    BY <2>2, <2>8, OutsideStays
  <2>10. Extended(Append(numbers, x(k)), ch) = Append(numbers, Append(x(k), ch))
    BY <2>2, <2>4, ExtendedLast
  <2>11. ReadSoFar(k + 1)
    BY <2>5, <2>6, <2>7, <2>8, <2>9, <2>10
  <2> HIDE DEF ReadSoFar
  <2> QED BY <2>1, <2>11
<1>8. 0 .. N - 1 \subseteq S
  <2>1. N - 1 \in Nat
    BY <1>1
  <2> DEFINE M == N - 1
  <2> HIDE DEF S, N
  <2>2. \A k \in 0 .. M - 1 : k \in S => k + 1 \in S
    BY <1>7
  <2>3. M \in Nat
    BY <2>1
  <2> HIDE DEF M
  <2>4. 0 .. M \subseteq S
    BY <1>6, <2>2, <2>3, BoundedInduction
  <2> QED BY <2>4 DEF M
<1>9. ReadSoFar(N - 1)
  <2> HIDE DEF ReadSoFar
  <2> QED BY <1>1, <1>8
<1>10. x(N - 1) = digits
  <2>1. (N - 1) + 1 = N
    BY <1>1
  <2>2. SubSeq(digits, 1, N) = digits
    <3> HIDE DEF DigitChars
    <3> QED BY SubSeqFull
  <2> QED BY <2>1, <2>2
<1> HIDE DEF x
<1> QED
  BY <1>9, <1>10

Six(a, b, c, d, e, f) ==
  Append(Append(Append(Append(Append(Append(<<>>, a), b), c), d), e), f)

AreSix(s, a, b, c, d, e, f) ==
  /\ Len(s) = 6 /\ s[1] = a /\ s[5] = e /\ s[6] = f
  /\ SubSeq(s, 2, 4) = <<b, c, d>>

\* What stands in a sequence that grew by six.
LEMMA SixAppended ==
  ASSUME NEW S, NEW a \in S, NEW b \in S, NEW c \in S, NEW d \in S, NEW e \in S, NEW f \in S
  PROVE  AreSix(Six(a, b, c, d, e, f), a, b, c, d, e, f)
<1>1. \A t \in Seq(S), x \in S :
        /\ Append(t, x) \in Seq(S) /\ Len(Append(t, x)) = Len(t) + 1
        /\ \A i \in 1 .. Len(t) : Append(t, x)[i] = t[i]
        /\ Append(t, x)[Len(t) + 1] = x
  BY AppendProperties
<1> DEFINE s == Six(a, b, c, d, e, f)
           s0 == <<>>
           s1 == Append(s0, a)
           s2 == Append(s1, b)
           s3 == Append(s2, c)
           s4 == Append(s3, d)
           s5 == Append(s4, e)
<1>2. s = Append(s5, f)
  BY DEF Six
<1>3. s0 \in Seq(S) /\ Len(s0) = 0
  OBVIOUS
<1> HIDE DEF s, s0, s1, s2, s3, s4, s5
<1>4. s1 \in Seq(S) /\ Len(s1) = 1 /\ s1[1] = a
  <2>1. s1 = Append(s0, a)
    BY DEF s1
  <2>2. /\ s1 \in Seq(S) /\ Len(s1) = Len(s0) + 1 /\ s1[Len(s0) + 1] = a
        /\ \A i \in 1 .. Len(s0) : s1[i] = s0[i]
    BY <1>1, <1>3, <2>1
  <2> QED BY <1>3, <2>2
<1>5. s2 \in Seq(S) /\ Len(s2) = 2 /\ s2[1] = a /\ s2[2] = b
  <2>1. s2 = Append(s1, b)
    BY DEF s2
  <2>2. /\ s2 \in Seq(S) /\ Len(s2) = Len(s1) + 1 /\ s2[Len(s1) + 1] = b
        /\ \A i \in 1 .. Len(s1) : s2[i] = s1[i]
    BY <1>1, <1>4, <2>1
  <2> QED BY <1>4, <2>2
<1>6. s3 \in Seq(S) /\ Len(s3) = 3 /\ s3[1] = a /\ s3[2] = b /\ s3[3] = c
  <2>1. s3 = Append(s2, c)
    BY DEF s3
  <2>2. /\ s3 \in Seq(S) /\ Len(s3) = Len(s2) + 1 /\ s3[Len(s2) + 1] = c
        /\ \A i \in 1 .. Len(s2) : s3[i] = s2[i]
    BY <1>1, <1>5, <2>1
  <2> QED BY <1>5, <2>2
<1>7. s4 \in Seq(S) /\ Len(s4) = 4 /\ s4[1] = a /\ s4[2] = b /\ s4[3] = c /\ s4[4] = d
  <2>1. s4 = Append(s3, d)
    BY DEF s4
  <2>2. /\ s4 \in Seq(S) /\ Len(s4) = Len(s3) + 1 /\ s4[Len(s3) + 1] = d
        /\ \A i \in 1 .. Len(s3) : s4[i] = s3[i]
    BY <1>1, <1>6, <2>1
  <2> QED BY <1>6, <2>2
<1>8. s5 \in Seq(S) /\ Len(s5) = 5 /\ s5[1] = a /\ s5[2] = b /\ s5[3] = c /\ s5[4] = d /\ s5[5] = e
  <2>1. s5 = Append(s4, e)
    BY DEF s5
  <2>2. /\ s5 \in Seq(S) /\ Len(s5) = Len(s4) + 1 /\ s5[Len(s4) + 1] = e
        /\ \A i \in 1 .. Len(s4) : s5[i] = s4[i]
    BY <1>1, <1>7, <2>1
  <2> QED BY <1>7, <2>2
<1>9. s \in Seq(S) /\ Len(s) = 6 /\ s[1] = a /\ s[2] = b /\ s[3] = c /\ s[4] = d /\ s[5] = e /\ s[6] = f
  <2>1. s = Append(s5, f)
    BY <1>2
  <2>2. /\ s \in Seq(S) /\ Len(s) = Len(s5) + 1 /\ s[Len(s5) + 1] = f
        /\ \A i \in 1 .. Len(s5) : s[i] = s5[i]
    BY <1>1, <1>8, <2>1
  <2> QED BY <1>8, <2>2
<1>10. SubSeq(s, 2, 4) = <<b, c, d>>
  <2> DEFINE t == SubSeq(s, 2, 4)
  <2>1. \A i \in 2 .. 4 : s[i] \in S
    BY <1>9
  <2>2. /\ t \in Seq(S) /\ Len(t) = 3 /\ \A i \in 1 .. (4 - 2) + 1 : t[i] = s[(2 + i) - 1]
    <3>1. /\ t \in Seq(S) /\ Len(t) = IF 2 <= 4 THEN (4 - 2) + 1 ELSE 0
          /\ \A i \in 1 .. (4 - 2) + 1 : t[i] = s[(2 + i) - 1]
      BY <2>1, SubSeqProperties
    <3> HIDE DEF t
    <3> QED BY <3>1
  <2> HIDE DEF t
  <2>3. t[1] = b /\ t[2] = c /\ t[3] = d
    BY <1>9, <2>2
  <2>4. <<b, c, d>> \in Seq(S) /\ Len(<<b, c, d>>) = 3
    OBVIOUS
  <2>5. \A i \in 1 .. Len(t) : t[i] = <<b, c, d>>[i]
    BY <2>2, <2>3
  <2>6. t = <<b, c, d>>
    BY <2>2, <2>4, <2>5, SeqEqual
  <2> QED BY <2>6 DEF t
<1> QED
  BY <1>9, <1>10, Zenon DEF s, AreSix

\* And by three.
LEMMA ThreeAppended ==
  ASSUME NEW S, NEW a \in S, NEW b \in S, NEW c \in S,
         NEW s, s = Append(Append(Append(<<>>, a), b), c)
  PROVE  s \in Seq(S) /\ Len(s) = 3 /\ s[1] = a /\ s[2] = b /\ s[3] = c
<1>1. \A t \in Seq(S), x \in S :
        /\ Append(t, x) \in Seq(S) /\ Len(Append(t, x)) = Len(t) + 1
        /\ \A i \in 1 .. Len(t) : Append(t, x)[i] = t[i]
        /\ Append(t, x)[Len(t) + 1] = x
  BY AppendProperties
<1> DEFINE s0 == <<>>
           s1 == Append(s0, a)
           s2 == Append(s1, b)
<1>2. s = Append(s2, c)
  OBVIOUS
<1>3. s0 \in Seq(S) /\ Len(s0) = 0
  OBVIOUS
<1> HIDE DEF s0, s1, s2
<1>4. s1 \in Seq(S) /\ Len(s1) = 1 /\ s1[1] = a
  <2>1. s1 = Append(s0, a)
    BY DEF s1
  <2>2. /\ s1 \in Seq(S) /\ Len(s1) = Len(s0) + 1 /\ s1[Len(s0) + 1] = a
        /\ \A i \in 1 .. Len(s0) : s1[i] = s0[i]
    BY <1>1, <1>3, <2>1
  <2> QED BY <1>3, <2>2
<1>5. s2 \in Seq(S) /\ Len(s2) = 2 /\ s2[1] = a /\ s2[2] = b
  <2>1. s2 = Append(s1, b)
    BY DEF s2
  <2>2. /\ s2 \in Seq(S) /\ Len(s2) = Len(s1) + 1 /\ s2[Len(s1) + 1] = b
        /\ \A i \in 1 .. Len(s1) : s2[i] = s1[i]
    BY <1>1, <1>4, <2>1
  <2> QED BY <1>4, <2>2
<1>6. s \in Seq(S) /\ Len(s) = 3 /\ s[1] = a /\ s[2] = b /\ s[3] = c
  <2>1. s = Append(s2, c)
    BY <1>2
  <2>2. /\ s \in Seq(S) /\ Len(s) = Len(s2) + 1 /\ s[Len(s2) + 1] = c
        /\ \A i \in 1 .. Len(s2) : s[i] = s2[i]
    BY <1>1, <1>5, <2>1
  <2> QED BY <1>5, <2>2
<1> QED
  BY <1>6

DigitOf(ch) == CHOOSE n \in 0 .. 9 : Digits[n + 1] = ch

\* A digit is worth its place among the ten.
LEMMA DigitOfDigit ==
  /\ \A ch \in DigitChars : DigitOf(ch) \in 0 .. 9
  /\ \A x \in 0 .. 9 : DigitOf(Digits[x + 1]) = x
<1>1. ASSUME NEW ch \in DigitChars
      PROVE  DigitOf(ch) \in 0 .. 9 /\ Digits[DigitOf(ch) + 1] = ch
  <2>1. PICK i \in 1 .. 10 : Digits[i] = ch
    BY DigitsAre
  <2>2. i - 1 \in 0 .. 9 /\ (i - 1) + 1 = i
    OBVIOUS
  <2>3. \E n \in 0 .. 9 : Digits[n + 1] = ch
    BY <2>1, <2>2
  <2> QED BY <2>3 DEF DigitOf
<1>2. ASSUME NEW x \in 0 .. 9 PROVE DigitOf(Digits[x + 1]) = x
  <2>1. x + 1 \in 1 .. 10 /\ Digits[x + 1] \in DigitChars
    BY DigitsAre
  <2> DEFINE y == DigitOf(Digits[x + 1])
  <2>2. y \in 0 .. 9 /\ Digits[y + 1] = Digits[x + 1]
    BY <1>1, <2>1
  <2> HIDE DEF y
  <2>3. y + 1 = x + 1
    BY <2>1, <2>2, DigitsAre
  <2> QED BY <2>2, <2>3 DEF y
<1> QED
  BY <1>1, <1>2

\* The value of a text of digits, unrolled digit by digit.
LEMMA ValueUnfolds ==
  ASSUME NEW text \in Seq(DigitChars)
  PROVE  \E h : /\ ValueOf(text) = h[Len(text)]
                /\ h[0] = 0
                /\ \A k \in 0 .. Len(text) : h[k] \in Int
                /\ \A k \in 1 .. Len(text) : h[k] = 10 * h[k - 1] + DigitOf(text[k])
<1> DEFINE N == Len(text)
           zero == 0
           step == [k \in 1 .. N |-> [x \in Int |-> 10 * x + DigitOf(text[k])]]
           Item(f, k) == IF k = 0 THEN 0 ELSE 10 * f[k - 1] + DigitOf(text[k])
           Is(f) == f = [k \in 0 .. N |-> Item(f, k)]
           h == CHOOSE f : Is(f)
<1>1. N \in Nat /\ \A k \in 1 .. N : DigitOf(text[k]) \in Int
  <2>1. N \in Nat /\ \A k \in 1 .. N : text[k] \in DigitChars
    BY LenProperties
  <2>2. \A ch \in DigitChars : DigitOf(ch) \in Int
    BY DigitOfDigit
  <2> QED BY <2>1, <2>2
<1>2. \A x \in Int, k \in 1 .. N : 10 * x + DigitOf(text[k]) \in Int
  <2> TAKE x \in Int, k \in 1 .. N
  <2> DEFINE d == DigitOf(text[k])
  <2>1. d \in Int
    BY <1>1
  <2>2. 10 * x + d \in Int
    <3> HIDE DEF d
    <3> QED BY <2>1
  <2> QED BY <2>2
<1>3. step \in [1 .. N -> [Int -> Int]]
  <2> HIDE DEF N
  <2> QED BY <1>2
<1>4. PICK f : Unfolds(f, N, Int, zero, step)
  <2>1. zero \in Int
    OBVIOUS
  <2> HIDE DEF step, N, zero
  <2> QED BY <1>1, <1>3, <2>1, Recursion
<1>5. Is(f)
  <2> HIDE DEF N
  <2>1. \A k \in 1 .. N : f[k - 1] \in Int
    BY <1>1, <1>4 DEF Unfolds
  <2>2. \A k \in 1 .. N : f[k] = 10 * f[k - 1] + DigitOf(text[k])
    BY <1>4, <2>1 DEF Unfolds
  <2> HIDE DEF step
  <2>3. \A k \in 0 .. N : f[k] = Item(f, k)
    <3> TAKE k \in 0 .. N
    <3>1. CASE k = 0
      BY <1>4, <3>1 DEF Unfolds
    <3>2. CASE k # 0
      <4>1. k \in 1 .. N
        BY <1>1, <3>2
      <4> QED BY <2>2, <3>2, <4>1
    <3> QED BY <3>1, <3>2
  <2> HIDE DEF Item
  <2> QED BY <1>4, <2>3 DEF Unfolds
<1>6. Is(h)
  <2> HIDE DEF Is
  <2> QED BY <1>5
<1>7. ValueOf(text) = h[N]
  BY DEF ValueOf, DigitOf
<1>8. h[0] = 0 /\ \A k \in 1 .. N : h[k] = 10 * h[k - 1] + DigitOf(text[k])
  <2> HIDE DEF h, N
  <2>1. \A k \in 0 .. N : h[k] = Item(h, k)
    <3> HIDE DEF Item
    <3> QED BY <1>6
  <2>2. h[0] = 0
    <3>1. h[0] = Item(h, 0)
      BY <1>1, <2>1
    <3> QED BY <3>1
  <2>3. ASSUME NEW k \in 1 .. N PROVE h[k] = 10 * h[k - 1] + DigitOf(text[k])
    <3>1. k \in 0 .. N /\ k # 0
      BY <1>1
    <3>2. h[k] = Item(h, k)
      BY <2>1, <3>1
    <3> QED BY <3>1, <3>2
  <2> QED BY <2>2, <2>3
<1>9. Follows(h, N, Int, zero, step)
  <2> HIDE DEF h, N
  <2> QED BY <1>8 DEF Follows
<1>10. \A k \in 0 .. N : h[k] \in Int
  <2>1. zero \in Int
    OBVIOUS
  <2> HIDE DEF step, N, h, zero
  <2> QED BY <1>1, <1>3, <1>9, <2>1, RecursionStays
<1> HIDE DEF h
<1> QED
  BY <1>7, <1>8, <1>10

\* The digits of a number are worth the number, when they are enough.
LEMMA PaddedIsWorth ==
  ASSUME NEW value \in Int, NEW n \in 0 .. MaxDigits, Shifted(value)[n] = 0
  PROVE  ValueOf(Padded(value, n)) = value
<1> DEFINE text == Padded(value, n)
           sh == Shifted(value)
<1>1. /\ text \in Seq(DigitChars) /\ Len(text) = n
      /\ \A k \in 1 .. n : text[k] = Digits[(sh[n - k] % 10) + 1]
  BY PaddedIsDigits
<1>2. /\ sh[0] = value /\ sh[n] = 0
      /\ \A k \in 0 .. MaxDigits : sh[k] \in Int
      /\ \A k \in 1 .. MaxDigits : sh[k] = sh[k - 1] \div 10
  BY ShiftedIs
<1>3. PICK h : /\ ValueOf(text) = h[Len(text)]
               /\ h[0] = 0
               /\ \A k \in 1 .. Len(text) : h[k] = 10 * h[k - 1] + DigitOf(text[k])
  <2>1. text \in Seq(DigitChars)
    BY <1>1
  <2> HIDE DEF text
  <2> QED BY <2>1, ValueUnfolds
<1> HIDE DEF text, sh
<1>4. n \in Nat /\ n <= MaxDigits /\ MaxDigits \in Nat
  BY DEF MaxDigits
<1> DEFINE S == {k \in 0 .. n : h[k] = sh[n - k]}
<1>5. 0 \in S
  BY <1>2, <1>3, <1>4
<1>6. ASSUME NEW k \in 0 .. n - 1, k \in S PROVE k + 1 \in S
  <2>1. /\ k + 1 \in 1 .. n /\ (k + 1) - 1 = k /\ n - k \in 1 .. MaxDigits
        /\ (n - k) - 1 = n - (k + 1) /\ n - (k + 1) \in 0 .. MaxDigits
    BY <1>4
  <2> DEFINE x == sh[n - (k + 1)]
  <2>2. x \in Int /\ sh[n - k] = x \div 10
    BY <1>2, <2>1
  <2>3. text[k + 1] = Digits[(x % 10) + 1]
    BY <1>1, <2>1
  <2>4. h[k + 1] = 10 * h[k] + DigitOf(text[k + 1])
    BY <1>1, <1>3, <2>1
  <2>5. h[k] = x \div 10
    BY <1>6, <2>2
  <2> HIDE DEF x
  <2>6. x % 10 \in 0 .. 9
    BY <2>2
  <2>7. DigitOf(text[k + 1]) = x % 10
    BY <2>3, <2>6, DigitOfDigit
  <2>8. h[k + 1] = x
    <3>1. 10 * (x \div 10) + (x % 10) = x
      BY <2>2
    <3> QED BY <2>4, <2>5, <2>7, <3>1
  <2> QED BY <2>1, <2>8 DEF x
<1>7. 0 .. n \subseteq S
  <2> HIDE DEF S
  <2> QED BY <1>4, <1>5, <1>6, BoundedInduction
<1>8. h[n] = sh[0]
  <2>1. n \in S /\ n - n = 0
    BY <1>4, <1>7
  <2> QED BY <2>1
<1> QED
  BY <1>1, <1>2, <1>3, <1>8 DEF text

\* A number written out is worth the number.
LEMMA DecimalIsWorth ==
  ASSUME NEW value, Countable(value)
  PROVE  ValueOf(Decimal(value)) = value /\ Decimal(value) # <<>>
<1>1. Places(value) \in 1 .. MaxDigits /\ Shifted(value)[Places(value)] = 0 /\ value \in Int
  BY PlacesAre DEF Countable
<1>2. Places(value) \in 0 .. MaxDigits
  BY <1>1 DEF MaxDigits
<1>3. ValueOf(Decimal(value)) = value
  BY <1>1, <1>2, PaddedIsWorth DEF Decimal
<1>4. Len(Decimal(value)) # 0
  BY <1>1, DecimalIsDigits DEF MaxDigits
<1>5. Len(<<>>) = 0
  OBVIOUS
<1> HIDE DEF Decimal
<1> QED
  BY <1>3, <1>4, <1>5

-----------------------------------------------------------------------------
FreshReader == [mode |-> "outside", strings |-> <<>>, numbers |-> <<>>, hex |-> <<>>]

\* A line is read from the start.
LEMMA ReadBackIs ==
  ASSUME NEW line
  PROVE  ReadBack(line) = Read(FreshReader, line)
BY DEF ReadBack, Read, FreshReader

\* What the reader finds in a record.
SaidIn(ev, r) ==
  /\ r.mode = "outside"
  /\ Len(r.strings) = 6 /\ Len(r.numbers) = 3
  /\ r.strings[1] = EventId(ev)
  /\ SubSeq(r.strings, 2, 4) = <<ev.camera_id, ev.rule_id, ev.event_type>>
  /\ r.strings[5] = Rfc3339(ev.observed_at) /\ r.strings[6] = Rfc3339(ev.emitted_at)
  /\ r.numbers[2] = Decimal(ev.confirmations)
  /\ r.numbers[3] = Decimal(ev.sustained \div NsPerMilli)

\* A reader finds in a record what the event says.
LEMMA RecordIsRead ==
  ASSUME NEW ev, IsEvent(ev)
  PROVE  SaidIn(ev, ReadBack(Record(ev)))
<1> DEFINE k0 == "{schema_version:"
           k7 == ",confirmations:"
           k8 == ",sustained_ms:"
           k9 == "}"
           n1 == Decimal(1)
           n2 == Decimal(ev.confirmations)
           n3 == Decimal(ev.sustained \div NsPerMilli)
           v1 == EventId(ev)
           v2 == ev.camera_id
           v3 == ev.rule_id
           v4 == ev.event_type
           v5 == Rfc3339(ev.observed_at)
           v6 == Rfc3339(ev.emitted_at)
           f1 == StringField(",event_id:", v1)
           f2 == StringField(",camera_id:", v2)
           f3 == StringField(",rule_id:", v3)
           f4 == StringField(",event_type:", v4)
           f5 == StringField(",observed_at:", v5)
           f6 == StringField(",emitted_at:", v6)
<1>1. /\ k0 \in Keys /\ k7 \in Keys /\ k8 \in Keys /\ k9 \in Keys
      /\ ",event_id:" \in Keys /\ ",camera_id:" \in Keys /\ ",rule_id:" \in Keys
      /\ ",event_type:" \in Keys /\ ",observed_at:" \in Keys /\ ",emitted_at:" \in Keys
  BY DEF Keys
<1>2. Keys \subseteq Letters
  BY DEF Letters
<1>3. /\ n1 \in Seq(DigitChars) /\ n2 \in Seq(DigitChars) /\ n3 \in Seq(DigitChars)
      /\ n1 # <<>> /\ n2 # <<>> /\ n3 # <<>>
  BY OneIsCountable, CountsAreCountable, DecimalIsDigits, DecimalIsWorth DEF IsEvent
<1>4. n1 \in Text /\ n2 \in Text /\ n3 \in Text
  BY <1>3, DigitsAreText
<1>5. v1 \in Text /\ v2 \in Text /\ v3 \in Text /\ v4 \in Text /\ v5 \in Text /\ v6 \in Text
  BY EventIdIsText, TimesAreText DEF IsEvent
<1> HIDE DEF n1, n2, n3, v1, v2, v3, v4, v5, v6
<1>6. /\ f1 \in Text /\ f2 \in Text /\ f3 \in Text /\ f4 \in Text /\ f5 \in Text /\ f6 \in Text
  BY <1>1, <1>2, <1>5, FieldIsText
<1>7. <<k0>> \in Text /\ <<k7>> \in Text /\ <<k8>> \in Text /\ <<k9>> \in Text
  BY <1>1, <1>2, TextOfOne
<1>8. Record(ev) = <<k0>> \o n1 \o f1 \o f2 \o f3 \o f4 \o f5 \o f6
                     \o <<k7>> \o n2 \o <<k8>> \o n3 \o <<k9>>
  BY DEF Record, n1, n2, n3, v1, v2, v3, v4, v5, v6
<1> DEFINE s1 == Append(<<>>, v1)
           s2 == Append(s1, v2)
           s3 == Append(s2, v3)
           s4 == Append(s3, v4)
           s5 == Append(s4, v5)
           s6 == Append(s5, v6)
           m1 == Append(<<>>, n1)
           m2 == Append(m1, n2)
           m3 == Append(m2, n3)
<1>9. <<>> \in Seq(Text)
  OBVIOUS
<1>10. /\ s1 \in Seq(Text) /\ s2 \in Seq(Text) /\ s3 \in Seq(Text) /\ s4 \in Seq(Text)
       /\ s5 \in Seq(Text) /\ m1 \in Seq(Text) /\ m2 \in Seq(Text)
  <2>1. \A s \in Seq(Text), t \in Text : Append(s, t) \in Seq(Text)
    <3> HIDE DEF Text
    <3> QED BY AppendProperties
  <2> HIDE DEF Text
  <2> QED BY <1>4, <1>5, <1>9, <2>1
<1>11. FreshReader \in Reader /\ At(FreshReader, "outside", <<>>, <<>>)
  <2>1. <<>> \in Text
    BY DEF Text
  <2> HIDE DEF Text
  <2> QED BY <1>9, <2>1 DEF FreshReader, Reader, Modes, At
<1> DEFINE t1 == <<k0>> \o n1
           t2 == t1 \o f1
           t3 == t2 \o f2
           t4 == t3 \o f3
           t5 == t4 \o f4
           t6 == t5 \o f5
           t7 == t6 \o f6
           t8 == t7 \o <<k7>>
           t9 == t8 \o n2
           t10 == t9 \o <<k8>>
           t11 == t10 \o n3
           t12 == t11 \o <<k9>>
<1>12. Record(ev) = t12
  BY <1>8
<1> HIDE DEF f1, f2, f3, f4, f5, f6, k0, k7, k8, k9
<1>13. \A s \in Text, t \in Text : s \o t \in Text /\ Read(FreshReader, s \o t) = Read(Read(FreshReader, s), t)
  BY <1>11, TextConcat, ReadConcat
<1>14. t1 \in Text /\ At(Read(FreshReader, t1), "number", <<>>, m1)
  <2>1. At(Read(FreshReader, <<k0>>), "outside", <<>>, <<>>)
    BY <1>1, <1>11, KeyReads
  <2>2. At(Read(Read(FreshReader, <<k0>>), n1), "number", <<>>, m1)
    BY <1>3, <1>9, <2>1, NumberReads
  <2> HIDE DEF m1
  <2> QED BY <1>4, <1>7, <1>13, <2>2
<1> HIDE DEF t1, m1, m2, s1, s2, s3, s4, s5
<1>15. t2 \in Text /\ At(Read(FreshReader, t2), "outside", s1, m1)
  <2>1. At(Read(Read(FreshReader, t1), f1), "outside", s1, m1)
    BY <1>1, <1>5, <1>9, <1>14, FieldReads DEF f1, s1
  <2> QED BY <1>6, <1>13, <1>14, <2>1
<1> HIDE DEF t2
<1>16. t3 \in Text /\ At(Read(FreshReader, t3), "outside", s2, m1)
  <2>1. At(Read(Read(FreshReader, t2), f2), "outside", s2, m1)
    BY <1>1, <1>5, <1>10, <1>15, FieldReads DEF f2, s2
  <2> QED BY <1>6, <1>13, <1>15, <2>1
<1> HIDE DEF t3
<1>17. t4 \in Text /\ At(Read(FreshReader, t4), "outside", s3, m1)
  <2>1. At(Read(Read(FreshReader, t3), f3), "outside", s3, m1)
    BY <1>1, <1>5, <1>10, <1>16, FieldReads DEF f3, s3
  <2> QED BY <1>6, <1>13, <1>16, <2>1
<1> HIDE DEF t4
<1>18. t5 \in Text /\ At(Read(FreshReader, t5), "outside", s4, m1)
  <2>1. At(Read(Read(FreshReader, t4), f4), "outside", s4, m1)
    BY <1>1, <1>5, <1>10, <1>17, FieldReads DEF f4, s4
  <2> QED BY <1>6, <1>13, <1>17, <2>1
<1> HIDE DEF t5
<1>19. t6 \in Text /\ At(Read(FreshReader, t6), "outside", s5, m1)
  <2>1. At(Read(Read(FreshReader, t5), f5), "outside", s5, m1)
    BY <1>1, <1>5, <1>10, <1>18, FieldReads DEF f5, s5
  <2> QED BY <1>6, <1>13, <1>18, <2>1
<1> HIDE DEF t6
<1>20. t7 \in Text /\ At(Read(FreshReader, t7), "outside", s6, m1)
  <2>1. At(Read(Read(FreshReader, t6), f6), "outside", s6, m1)
    BY <1>1, <1>5, <1>10, <1>19, FieldReads DEF f6
  <2> HIDE DEF s6
  <2> QED BY <1>6, <1>13, <1>19, <2>1
<1> HIDE DEF t7, s6
<1>21. t8 \in Text /\ At(Read(FreshReader, t8), "outside", s6, m1)
  <2>1. At(Read(Read(FreshReader, t7), <<k7>>), "outside", s6, m1)
    BY <1>1, <1>20, KeyReads
  <2> QED BY <1>7, <1>13, <1>20, <2>1
<1> HIDE DEF t8
<1>22. t9 \in Text /\ At(Read(FreshReader, t9), "number", s6, m2)
  <2>1. At(Read(Read(FreshReader, t8), n2), "number", s6, m2)
    BY <1>3, <1>10, <1>21, NumberReads DEF m2
  <2> QED BY <1>4, <1>13, <1>21, <2>1
<1> HIDE DEF t9
<1>23. t10 \in Text /\ At(Read(FreshReader, t10), "outside", s6, m2)
  <2>1. At(Read(Read(FreshReader, t9), <<k8>>), "outside", s6, m2)
    BY <1>1, <1>22, KeyReads
  <2> QED BY <1>7, <1>13, <1>22, <2>1
<1> HIDE DEF t10
<1>24. t11 \in Text /\ At(Read(FreshReader, t11), "number", s6, m3)
  <2>1. At(Read(Read(FreshReader, t10), n3), "number", s6, m3)
    BY <1>3, <1>10, <1>23, NumberReads
  <2> HIDE DEF m3
  <2> QED BY <1>4, <1>13, <1>23, <2>1
<1> HIDE DEF t11, m3
<1>25. At(Read(FreshReader, t12), "outside", s6, m3)
  <2>1. At(Read(Read(FreshReader, t11), <<k9>>), "outside", s6, m3)
    BY <1>1, <1>24, KeyReads
  <2> QED BY <1>7, <1>13, <1>24, <2>1
<1> DEFINE r == ReadBack(Record(ev))
<1>26. r = Read(FreshReader, t12)
  BY <1>12, ReadBackIs
<1> HIDE DEF r, t12
<1>27. r.mode = "outside" /\ r.strings = s6 /\ r.numbers = m3
  BY <1>25, <1>26 DEF At
<1>28. /\ Len(s6) = 6 /\ s6[1] = v1 /\ s6[5] = v5 /\ s6[6] = v6
       /\ SubSeq(s6, 2, 4) = <<v2, v3, v4>>
  <2>1. s6 = Six(v1, v2, v3, v4, v5, v6)
    BY DEF s6, s5, s4, s3, s2, s1, Six
  <2>2. AreSix(Six(v1, v2, v3, v4, v5, v6), v1, v2, v3, v4, v5, v6)
    <3> HIDE DEF Text
    <3> QED BY <1>5, SixAppended
  <2> QED BY <2>1, <2>2, Zenon DEF AreSix
<1>29. Len(m3) = 3 /\ m3[2] = n2 /\ m3[3] = n3
  <2>1. m3 = Append(Append(Append(<<>>, n1), n2), n3)
    BY DEF m3, m2, m1
  <2> HIDE DEF Text
  <2> QED BY <1>4, <2>1, ThreeAppended
<1>30. SubSeq(r.strings, 2, 4) = <<ev.camera_id, ev.rule_id, ev.event_type>>
  BY <1>27, <1>28, Zenon DEF v2, v3, v4
<1>31. /\ Len(r.strings) = 6 /\ Len(r.numbers) = 3 /\ r.strings[1] = v1
       /\ r.strings[5] = v5 /\ r.strings[6] = v6 /\ r.numbers[2] = n2 /\ r.numbers[3] = n3
  BY <1>27, <1>28, <1>29, Zenon
<1>32. SaidIn(ev, r)
  BY <1>27, <1>30, <1>31, Zenon DEF SaidIn, v1, v5, v6, n2, n3
<1> QED
  BY <1>32 DEF r

\* Every line that was sent is the record of its event.
LEMMA SentIsRecord ==
  ASSUME EventInv, NEW k \in DOMAIN sent
  PROVE  /\ sent[k].event \in Occurrences /\ IsEvent(sent[k].event)
         /\ SaidIn(sent[k].event, ReadBack(sent[k].line))
<1>1. DOMAIN sent = 1 .. Len(sent) /\ sent \in Seq(Line)
  BY LenProperties DEF EventInv
<1>2. sent[k] \in Line /\ sent[k].line = Record(sent[k].event)
  BY <1>1, ElementOfSeq DEF EventInv
<1>3. sent[k].event \in Occurrences
  BY <1>2 DEF Line
<1> QED
  BY <1>2, <1>3, OccurrencesAreEvents, RecordIsRead

\* RecordReadsBack: whatever the ids hold, every line a caller got is read back
\* as the event it was made of.
THEOREM LinesReadBack == ESpec => []RecordReadsBack
<1>1. EventInv => RecordReadsBack
  <2> SUFFICES ASSUME EventInv, NEW k \in DOMAIN sent
               PROVE  LET ev == sent[k].event
                          r  == ReadBack(sent[k].line)
                      IN  /\ r.mode = "outside"
                          /\ Len(r.strings) = 6 /\ Len(r.numbers) = 3
                          /\ SubSeq(r.strings, 2, 4) = <<ev.camera_id, ev.rule_id, ev.event_type>>
                          /\ ValueOf(r.numbers[2]) = ev.confirmations
                          /\ InMilli(ev.sustained, ValueOf(r.numbers[3]))
    BY DEF RecordReadsBack
  <2> DEFINE ev == sent[k].event
             r  == ReadBack(sent[k].line)
  <2>1. IsEvent(ev) /\ SaidIn(ev, r)
    BY SentIsRecord
  <2> HIDE DEF ev, r
  <2>2. Countable(ev.confirmations) /\ Countable(ev.sustained \div NsPerMilli)
        /\ InMilli(ev.sustained, ev.sustained \div NsPerMilli)
    BY <2>1, CountsAreCountable DEF IsEvent
  <2>3. ValueOf(r.numbers[2]) = ev.confirmations
    BY <2>1, <2>2, DecimalIsWorth DEF SaidIn
  <2>4. ValueOf(r.numbers[3]) = ev.sustained \div NsPerMilli
    BY <2>1, <2>2, DecimalIsWorth DEF SaidIn
  <2>5. InMilli(ev.sustained, ValueOf(r.numbers[3]))
    BY <2>2, <2>4
  <2>6. /\ r.mode = "outside" /\ Len(r.strings) = 6 /\ Len(r.numbers) = 3
        /\ SubSeq(r.strings, 2, 4) = <<ev.camera_id, ev.rule_id, ev.event_type>>
    BY <2>1, Zenon DEF SaidIn
  <2> QED BY <2>3, <2>5, <2>6, Zenon DEF ev, r
<1> QED
  BY <1>1, EventInvHolds, PTL

-----------------------------------------------------------------------------
(***************************************************************************)
(* Event ids are taken apart from the right.                               *)
(***************************************************************************)
NoneIn(text, ch) == \A k \in 1 .. Len(text) : text[k] # ch

\* What follows the last ch is never the longer of two, so it is the same.
LEMMA NotLonger ==
  ASSUME NEW ch \in Letters, NEW s \in Text, NEW u \in Text, NEW t \in Text, NEW v \in Text,
         NoneIn(v, ch), s \o <<ch>> \o u = t \o <<ch>> \o v
  PROVE  Len(v) <= Len(u)
<1> DEFINE a == s \o <<ch>>
           b == t \o <<ch>>
           w == a \o u
<1>1. Len(s) \in Nat /\ Len(u) \in Nat /\ Len(t) \in Nat /\ Len(v) \in Nat
  BY LenProperties DEF Text
<1>2. <<ch>> \in Text /\ Len(<<ch>>) = 1 /\ <<ch>>[1] = ch
  BY TextOfOne
<1>3. /\ a \in Text /\ Len(a) = Len(s) + 1 /\ a[Len(s) + 1] = ch
      /\ b \in Text /\ Len(b) = Len(t) + 1
  <2>1. /\ a \in Text /\ Len(a) = Len(s) + 1
        /\ \A i \in 1 .. Len(s) + 1 : a[i] = IF i <= Len(s) THEN s[i] ELSE <<ch>>[i - Len(s)]
    <3> HIDE DEF Letters
    <3> QED BY <1>2, ConcatProperties DEF Text
  <2>2. b \in Text /\ Len(b) = Len(t) + 1
    <3> HIDE DEF Letters
    <3> QED BY <1>2, ConcatProperties DEF Text
  <2>3. Len(s) + 1 \in 1 .. Len(s) + 1 /\ ~(Len(s) + 1 <= Len(s)) /\ (Len(s) + 1) - Len(s) = 1
    BY <1>1
  <2> HIDE DEF a, b
  <2>4. a[Len(s) + 1] = ch
    BY <1>2, <2>1, <2>3
  <2> QED BY <2>1, <2>2, <2>4
<1>4. w = b \o v
  OBVIOUS
<1> HIDE DEF a, b
<1>5. /\ Len(w) = Len(a) + Len(u)
      /\ \A i \in 1 .. Len(a) + Len(u) : w[i] = IF i <= Len(a) THEN a[i] ELSE u[i - Len(a)]
  <2> HIDE DEF Letters
  <2> QED BY <1>3, ConcatProperties DEF Text
<1> HIDE DEF w
<1>6. /\ Len(w) = Len(b) + Len(v)
      /\ \A i \in 1 .. Len(b) + Len(v) : w[i] = IF i <= Len(b) THEN b[i] ELSE v[i - Len(b)]
  <2> HIDE DEF Letters
  <2> QED BY <1>3, <1>4, ConcatProperties DEF Text
<1>7. SUFFICES ASSUME Len(v) > Len(u) PROVE FALSE
  BY <1>1
<1> DEFINE i == Len(s) + 1
           j == i - Len(b)
<1>8. /\ i \in 1 .. Len(a) + Len(u) /\ i <= Len(a) /\ i \in 1 .. Len(b) + Len(v)
      /\ ~(i <= Len(b)) /\ j \in 1 .. Len(v)
  BY <1>1, <1>3, <1>5, <1>6, <1>7
<1>9. w[i] = ch
  BY <1>3, <1>5, <1>8
<1>10. w[i] = v[j]
  BY <1>6, <1>8
<1> HIDE DEF i, j
<1> QED
  BY <1>8, <1>9, <1>10 DEF NoneIn

\* Texts with the same last mark are equal before it and behind it.
LEMMA LastParts ==
  ASSUME NEW ch \in Letters, NEW s \in Text, NEW u \in Text, NEW t \in Text, NEW v \in Text,
         NoneIn(u, ch), NoneIn(v, ch), s \o <<ch>> \o u = t \o <<ch>> \o v
  PROVE  s = t /\ u = v
<1> DEFINE a == s \o <<ch>>
           b == t \o <<ch>>
           w == a \o u
<1>1. Len(s) \in Nat /\ Len(u) \in Nat /\ Len(t) \in Nat /\ Len(v) \in Nat
  BY LenProperties DEF Text
<1>2. Len(u) = Len(v)
  <2>1. Len(v) <= Len(u)
    BY NotLonger
  <2>2. Len(u) <= Len(v)
    BY NotLonger
  <2> QED BY <1>1, <2>1, <2>2
<1>3. <<ch>> \in Text /\ Len(<<ch>>) = 1
  BY TextOfOne
<1>4. /\ a \in Text /\ Len(a) = Len(s) + 1 /\ \A i \in 1 .. Len(s) : a[i] = s[i]
  <2>1. /\ a \in Text /\ Len(a) = Len(s) + 1
        /\ \A i \in 1 .. Len(s) + 1 : a[i] = IF i <= Len(s) THEN s[i] ELSE <<ch>>[i - Len(s)]
    <3> HIDE DEF Letters
    <3> QED BY <1>3, ConcatProperties DEF Text
  <2> HIDE DEF a
  <2> QED BY <1>1, <2>1
<1>5. /\ b \in Text /\ Len(b) = Len(t) + 1 /\ \A i \in 1 .. Len(t) : b[i] = t[i]
  <2>1. /\ b \in Text /\ Len(b) = Len(t) + 1
        /\ \A i \in 1 .. Len(t) + 1 : b[i] = IF i <= Len(t) THEN t[i] ELSE <<ch>>[i - Len(t)]
    <3> HIDE DEF Letters
    <3> QED BY <1>3, ConcatProperties DEF Text
  <2> HIDE DEF b
  <2> QED BY <1>1, <2>1
<1>6. w = b \o v
  OBVIOUS
<1> HIDE DEF a, b
<1>7. /\ Len(w) = Len(a) + Len(u)
      /\ \A i \in 1 .. Len(a) + Len(u) : w[i] = IF i <= Len(a) THEN a[i] ELSE u[i - Len(a)]
  <2> HIDE DEF Letters
  <2> QED BY <1>4, ConcatProperties DEF Text
<1> HIDE DEF w
<1>8. /\ Len(w) = Len(b) + Len(v)
      /\ \A i \in 1 .. Len(b) + Len(v) : w[i] = IF i <= Len(b) THEN b[i] ELSE v[i - Len(b)]
  <2> HIDE DEF Letters
  <2> QED BY <1>5, <1>6, ConcatProperties DEF Text
<1>9. Len(a) = Len(b) /\ Len(s) = Len(t)
  BY <1>1, <1>2, <1>4, <1>5, <1>7, <1>8
<1>10. \A i \in 1 .. Len(s) : s[i] = t[i]
  <2> TAKE i \in 1 .. Len(s)
  <2>1. /\ i \in 1 .. Len(a) + Len(u) /\ i <= Len(a) /\ i \in 1 .. Len(b) + Len(v) /\ i <= Len(b)
        /\ i \in 1 .. Len(t)
    BY <1>1, <1>4, <1>5, <1>9
  <2> QED BY <1>4, <1>5, <1>7, <1>8, <2>1
<1>11. \A i \in 1 .. Len(u) : u[i] = v[i]
  <2> TAKE i \in 1 .. Len(u)
  <2> DEFINE m == Len(a) + i
  <2>1. /\ m \in 1 .. Len(a) + Len(u) /\ ~(m <= Len(a)) /\ m \in 1 .. Len(b) + Len(v)
        /\ ~(m <= Len(b)) /\ m - Len(a) = i /\ m - Len(b) = i
    <3>1. Len(a) \in Nat /\ Len(b) = Len(a) /\ Len(v) = Len(u) /\ Len(u) \in Nat
      BY <1>1, <1>2, <1>4, <1>9
    <3> DEFINE la == Len(a)
               lu == Len(u)
    <3>2. la \in Nat /\ lu \in Nat /\ i \in 1 .. lu
      BY <3>1
    <3> HIDE DEF la, lu
    <3>3. la + i \in 1 .. la + lu /\ ~(la + i <= la) /\ (la + i) - la = i
      BY <3>2
    <3> QED BY <3>1, <3>3 DEF la, lu
  <2> HIDE DEF m
  <2> QED BY <1>7, <1>8, <2>1
<1>12. s = t
  <2> HIDE DEF Letters
  <2> QED BY <1>9, <1>10, SeqEqual DEF Text
<1>13. u = v
  <2> HIDE DEF Letters
  <2> QED BY <1>2, <1>11, SeqEqual DEF Text
<1> QED
  BY <1>12, <1>13

\* Events of one id are of one camera, one rule and one sequence number.
LEMMA EventIdsDiffer ==
  ASSUME NEW a, NEW b, IsEvent(a), IsEvent(b), NoneIn(a.rule_id, ":"), NoneIn(b.rule_id, ":"),
         EventId(a) = EventId(b)
  PROVE  a.camera_id = b.camera_id /\ a.rule_id = b.rule_id /\ a.sequence = b.sequence
<1>1. ":" \in Letters
  BY DEF Letters, Marks
<1>2. /\ a.camera_id \in Text /\ a.rule_id \in Text /\ Countable(a.sequence)
      /\ b.camera_id \in Text /\ b.rule_id \in Text /\ Countable(b.sequence)
  BY DEF IsEvent
<1> DEFINE m == Decimal(a.sequence)
           n == Decimal(b.sequence)
           s == a.camera_id \o <<":">> \o a.rule_id
           t == b.camera_id \o <<":">> \o b.rule_id
<1>3. m \in Text /\ n \in Text /\ m \in Seq(DigitChars) /\ n \in Seq(DigitChars)
  BY <1>2, DecimalIsDigits, DigitsAreText
<1>4. s \in Text /\ t \in Text
  <2>1. <<":">> \in Text
    BY <1>1, TextOfOne
  <2> HIDE DEF Text
  <2> QED BY <1>2, <2>1, TextConcat
<1>5. EventId(a) = s \o <<":">> \o m /\ EventId(b) = t \o <<":">> \o n
  BY DEF EventId
<1> HIDE DEF m, n
<1>6. NoneIn(m, ":") /\ NoneIn(n, ":")
  <2>1. \A c \in DigitChars : c # ":"
    BY DEF DigitChars
  <2>2. /\ \A k \in 1 .. Len(m) : m[k] \in DigitChars
        /\ \A k \in 1 .. Len(n) : n[k] \in DigitChars
    BY <1>3, ElementOfSeq
  <2> HIDE DEF DigitChars
  <2> QED BY <2>1, <2>2 DEF NoneIn
<1>7. s = t /\ m = n
  <2> HIDE DEF s, t
  <2> QED BY <1>1, <1>3, <1>4, <1>5, <1>6, LastParts
<1>8. a.camera_id = b.camera_id /\ a.rule_id = b.rule_id
  BY <1>1, <1>2, <1>7, LastParts
<1>9. a.sequence = b.sequence
  <2>1. ValueOf(m) = a.sequence /\ ValueOf(n) = b.sequence
    BY <1>2, DecimalIsWorth DEF m, n
  <2> QED BY <1>7, <2>1
<1> QED
  BY <1>8, <1>9

\* EventIdsTellApart: an event_id says which camera, rule and number it is of.
THEOREM NoIdTwice == ESpec => []EventIdsTellApart
<1>1. EventInv => EventIdsTellApart
  <2> SUFFICES ASSUME EventInv, NEW j \in DOMAIN sent, NEW k \in DOMAIN sent,
                      NoColon(sent[j].event.rule_id), NoColon(sent[k].event.rule_id),
                      ReadBack(sent[j].line).strings[1] = ReadBack(sent[k].line).strings[1]
               PROVE  LET a == sent[j].event
                          b == sent[k].event
                      IN  <<a.camera_id, a.rule_id, a.sequence>>
                            = <<b.camera_id, b.rule_id, b.sequence>>
    BY Zenon DEF EventIdsTellApart
  <2> DEFINE a == sent[j].event
             b == sent[k].event
  <2>1. IsEvent(a) /\ SaidIn(a, ReadBack(sent[j].line))
        /\ IsEvent(b) /\ SaidIn(b, ReadBack(sent[k].line))
    BY SentIsRecord
  <2> HIDE DEF a, b
  <2>2. EventId(a) = EventId(b)
    BY <2>1 DEF SaidIn
  <2>3. NoneIn(a.rule_id, ":") /\ NoneIn(b.rule_id, ":")
    <3>1. a.rule_id \in Text /\ b.rule_id \in Text
      BY <2>1 DEF IsEvent
    <3>2. DOMAIN a.rule_id = 1 .. Len(a.rule_id) /\ DOMAIN b.rule_id = 1 .. Len(b.rule_id)
      BY <3>1, LenProperties DEF Text
    <3>3. NoColon(a.rule_id) /\ NoColon(b.rule_id)
      BY DEF a, b
    <3> QED BY <3>2, <3>3 DEF NoColon, NoneIn
  <2>4. a.camera_id = b.camera_id /\ a.rule_id = b.rule_id /\ a.sequence = b.sequence
    BY <2>1, <2>2, <2>3, EventIdsDiffer
  <2> QED BY <2>4, Zenon DEF a, b
<1> QED
  BY <1>1, EventInvHolds, PTL

-----------------------------------------------------------------------------
(***************************************************************************)
(* Dates: what a day of the calendar is, and that Civil finds it.          *)
(***************************************************************************)

\* Day doe of an era, as centuries, leap cycles, years and days.
InYear(doe, c, q, a, b) ==
  /\ c \in 0 .. 3 /\ q \in 0 .. 24 /\ a \in 0 .. 3 /\ b \in 0 .. 365
  /\ doe = 36524 * c + 1461 * q + 365 * a + b
  /\ b = 365 => a = 3 /\ (q < 24 \/ c = 3)

\* A year of the era that begins in March, counted down from its centuries.
LEMMA YearsOfEra ==
  ASSUME NEW doe \in Nat, doe < 146097
  PROVE  \E c, q, a, b : InYear(doe, c, q, a, b)
<1>1. PICK c \in 0 .. 3, r \in Nat : doe = 36524 * c + r /\ r < 36525 /\ (c < 3 => r < 36524)
  <2>1. CASE doe < 36524
    <3>1. 0 \in 0 .. 3 /\ doe \in Nat /\ doe < 36524 /\ doe = 36524 * 0 + doe
      BY <2>1, SMT
    <3> QED BY <2>1, <3>1, SMT
  <2>2. CASE doe >= 36524 /\ doe < 73048
    <3>1. 1 \in 0 .. 3 /\ doe - 36524 \in Nat /\ doe - 36524 < 36524 /\ doe = 36524 * 1 + (doe - 36524)
      BY <2>2, SMT
    <3> QED BY <3>1, SMT
  <2>3. CASE doe >= 73048 /\ doe < 109572
    <3>1. 2 \in 0 .. 3 /\ doe - 73048 \in Nat /\ doe - 73048 < 36524 /\ doe = 36524 * 2 + (doe - 73048)
      BY <2>3, SMT
    <3> QED BY <3>1, SMT
  <2>4. CASE doe >= 109572
    <3>1. 3 \in 0 .. 3 /\ doe - 109572 \in Nat /\ doe - 109572 < 36525 /\ doe = 36524 * 3 + (doe - 109572)
      BY <2>4, SMT
    <3> QED BY <3>1, SMT
  <2> QED BY <2>1, <2>2, <2>3, <2>4, SMT
<1> DEFINE q == r \div 1461
           s == r % 1461
<1>2. q \in 0 .. 24 /\ s \in Nat /\ s < 1461 /\ r = 1461 * q + s
  BY <1>1, SMT
<1>3. q = 24 /\ c < 3 => s < 1460
  BY <1>1, <1>2, SMT
<1> HIDE DEF q, s
<1>4. PICK a \in 0 .. 3, b \in 0 .. 365 : s = 365 * a + b /\ (b = 365 => a = 3 /\ s = 1460)
  <2>1. CASE s < 365
    <3>1. 0 \in 0 .. 3 /\ s \in 0 .. 364 /\ s = 365 * 0 + s
      BY <1>2, <2>1, SMT
    <3> QED BY <3>1, SMT
  <2>2. CASE s >= 365 /\ s < 730
    <3>1. 1 \in 0 .. 3 /\ s - 365 \in 0 .. 364 /\ s = 365 * 1 + (s - 365)
      BY <1>2, <2>2, SMT
    <3> QED BY <3>1, SMT
  <2>3. CASE s >= 730 /\ s < 1095
    <3>1. 2 \in 0 .. 3 /\ s - 730 \in 0 .. 364 /\ s = 365 * 2 + (s - 730)
      BY <1>2, <2>3, SMT
    <3> QED BY <3>1, SMT
  <2>4. CASE s >= 1095
    <3>1. 3 \in 0 .. 3 /\ s - 1095 \in 0 .. 365 /\ s = 365 * 3 + (s - 1095)
      BY <1>2, <2>4, SMT
    <3>2. s - 1095 = 365 => s = 1460
      BY <1>2, SMT
    <3> QED BY <3>1, <3>2, SMT
  <2> QED BY <1>2, <2>1, <2>2, <2>3, <2>4, SMT
<1>5. doe = 36524 * c + 1461 * q + 365 * a + b
  BY <1>1, <1>2, <1>4, SMT
<1>6. b = 365 => a = 3 /\ (q < 24 \/ c = 3)
  BY <1>1, <1>2, <1>3, <1>4, SMT
<1>7. InYear(doe, c, q, a, b)
  BY <1>2, <1>4, <1>5, <1>6, SMT DEF InYear
<1> QED
  BY <1>7

\* The divisions of civil_from_days find the year: leap days are taken out first.
LEMMA YearOfEraIs ==
  ASSUME NEW doe, NEW c, NEW q, NEW a, NEW b, InYear(doe, c, q, a, b)
  PROVE  YearOfEra(doe) = 100 * c + 4 * q + a
<1> DEFINE e == IF a = 3 /\ 24 * c + q + b >= 365 THEN 1 ELSE 0
<1> USE DEF InYear
<1>1. doe \div 1460 = 25 * c + q + e
  <2> DEFINE m == 24 * c + q + 365 * a + b - 1460 * e
  <2>1. m \in Nat /\ m < 1460
    <3>1. CASE a = 3
      BY <3>1, SMT
    <3>2. CASE a # 3
      BY <3>2, SMT
    <3> QED BY <3>1, <3>2, SMT
  <2>2. doe = 1460 * (25 * c + q + e) + m
    BY SMT
  <2> HIDE DEF m
  <2> DEFINE k == 25 * c + q + e
  <2>3. k \in Int
    BY SMT
  <2> HIDE DEF k
  <2>4. doe = 1460 * k + m
    BY <2>2, SMT DEF k
  <2>5. doe \div 1460 = k
    BY <2>1, <2>3, <2>4, SMT
  <2> QED BY <2>5, SMT DEF k
<1>2. doe \div 36524 - doe \div 146096 = c
  <2>1. CASE doe = 146096
    <3>1. c = 3
      BY <2>1, SMT
    <3>2. doe \div 36524 = 4 /\ doe \div 146096 = 1
      BY <2>1, SMT
    <3> QED BY <3>1, <3>2, SMT
  <2>2. CASE doe # 146096
    <3> DEFINE r == 1461 * q + 365 * a + b
    <3>1. r \in Nat /\ r < 36525 /\ (r = 36524 => c = 3) /\ doe = 36524 * c + r
      BY SMT
    <3>2. r # 36524
      BY <2>2, <3>1, SMT
    <3> HIDE DEF r
    <3>3. doe \in Nat /\ doe < 146096 /\ doe \div 36524 = c
      BY <3>1, <3>2, SMT
    <3>4. doe \div 146096 = 0
      BY <3>3, SMT
    <3> QED BY <3>3, <3>4, SMT
  <2> QED BY <2>1, <2>2, SMT
<1> DEFINE y == 100 * c + 4 * q + a
<1>3. doe - doe \div 1460 + doe \div 36524 - doe \div 146096 = 365 * y + (b - e)
  <2>1. doe \in Int
    BY SMT
  <2>2. doe = 36524 * c + 1461 * q + 365 * a + b
    BY SMT
  <2> DEFINE k1 == doe \div 1460
             k2 == doe \div 36524
             k3 == doe \div 146096
  <2>3. k1 \in Int /\ k2 \in Int /\ k3 \in Int
    <3> HIDE DEF InYear
    <3> QED BY <2>1, SMT
  <2>4. k1 = 25 * c + q + e /\ k2 - k3 = c /\ e \in 0 .. 1
    BY <1>1, <1>2, SMT
  <2> HIDE DEF k1, k2, k3, e
  <2>5. doe - k1 + k2 - k3 = 365 * y + (b - e)
    BY <2>1, <2>2, <2>3, <2>4, SMT
  <2> QED BY <2>5, SMT DEF k1, k2, k3
<1>4. b - e \in 0 .. 364
  BY SMT
<1>5. y \in Int
  BY SMT
<1> DEFINE n == b - e
<1> HIDE DEF y, n
<1>6. (365 * y + n) \div 365 = y
  BY <1>4, <1>5, SMT DEF n
<1>7. YearOfEra(doe) = y
  BY <1>3, <1>6, SMT DEF YearOfEra, n
<1> QED
  BY <1>7, SMT DEF y

\* The days of the calendar, as the numbers they are.
LEMMA DaysAre ==
  ASSUME NEW days \in Days
  PROVE  days \in Int /\ -106752 <= days /\ days <= 106751
<1>1. FirstDay \in Int /\ LastDay \in Int
  BY DEF FirstDay, LastDay
<1>2. days \in Int /\ FirstDay <= days /\ days <= LastDay
  BY <1>1 DEF Days
<1> QED
  BY <1>2 DEF FirstDay, LastDay

\* Division that calendars count with, done with C's.
LEMMA FloorIs ==
  ASSUME NEW a \in Int, NEW b \in Nat \ {0}
  PROVE  LET q == TruncDiv(IF a >= 0 THEN a ELSE a - (b - 1), b)
         IN  q \in Int /\ q * b <= a /\ a < q * b + b
<1>1. CASE a >= 0
  <2> DEFINE q == a \div b
  <2>1. TruncDiv(IF a >= 0 THEN a ELSE a - (b - 1), b) = q
    BY <1>1 DEF TruncDiv
  <2>2. q \in Int /\ q * b <= a /\ a < q * b + b
    BY <1>1
  <2> HIDE DEF q
  <2> QED BY <2>1, <2>2
<1>2. CASE ~(a >= 0)
  <2> DEFINE n == (-a) + (b - 1)
             p == n \div b
  <2>1. n \in Nat /\ -(a - (b - 1)) = n /\ ~(a - (b - 1) >= 0)
    BY <1>2
  <2>2. TruncDiv(IF a >= 0 THEN a ELSE a - (b - 1), b) = -p
    <3> HIDE DEF n
    <3> QED BY <1>2, <2>1 DEF TruncDiv
  <2>3. p \in Int /\ p * b <= n /\ n < p * b + b
    <3> HIDE DEF n
    <3> QED BY <2>1
  <2> HIDE DEF p
  <2> DEFINE pb == p * b
  <2>4. pb \in Int /\ pb <= n /\ n < pb + b
    BY <2>3
  <2>5. (-p) * b = -pb
    BY <2>3
  <2> HIDE DEF pb
  <2>6. -pb <= a /\ a < -pb + b
    BY <2>4
  <2> QED BY <2>2, <2>3, <2>5, <2>6
<1> QED
  BY <1>1, <1>2

\* Nanoseconds as whole seconds and what is left of them.
LEMMA SecondsAre ==
  ASSUME NEW ns \in Int
  PROVE  LET s == SecondsOf(ns)
         IN  /\ s.secs \in Int /\ s.rem \in Nat /\ s.rem < NsPerSecond
             /\ ns = s.secs * NsPerSecond + s.rem
<1> DEFINE N == NsPerSecond
           secs == TruncDiv(ns, N)
           rem == ns - N * secs
<1>1. N \in Nat \ {0}
  BY ClockIs
<1>2. TruncMod(ns, NsPerSecond) = rem
  BY DEF TruncMod
<1>3. SecondsOf(ns) = IF rem < 0 THEN [secs |-> secs - 1, rem |-> rem + N]
                                 ELSE [secs |-> secs, rem |-> rem]
  BY <1>2 DEF SecondsOf
<1>4. secs \in Int /\ -N < ns - secs * N /\ ns - secs * N < N
  <2>1. CASE ns >= 0
    <3> DEFINE q == ns \div N
    <3>1. secs = q
      BY <2>1 DEF TruncDiv
    <3>2. q \in Int /\ q * N <= ns /\ ns < q * N + N
      <4> HIDE DEF N
      <4> QED BY <1>1, <2>1
    <3> HIDE DEF q, N, secs
    <3> DEFINE qn == q * N
    <3>3. qn \in Int /\ qn <= ns /\ ns < qn + N
      BY <1>1, <3>2
    <3>4. secs * N = qn
      BY <3>1
    <3> HIDE DEF qn
    <3> QED BY <1>1, <3>1, <3>2, <3>3, <3>4
  <2>2. CASE ~(ns >= 0)
    <3> DEFINE m == -ns
               q == m \div N
    <3>1. secs = -q
      BY <2>2 DEF TruncDiv
    <3>2. m \in Nat
      BY <2>2
    <3>3. q \in Int /\ q * N <= m /\ m < q * N + N
      <4> HIDE DEF N, m
      <4> QED BY <1>1, <3>2
    <3> HIDE DEF q, N, secs
    <3> DEFINE qn == q * N
    <3>4. qn \in Int /\ qn <= m /\ m < qn + N
      <4> HIDE DEF m
      <4> QED BY <1>1, <3>2, <3>3
    <3>5. secs * N = -qn
      BY <1>1, <3>1, <3>3
    <3> HIDE DEF qn
    <3> QED BY <1>1, <3>1, <3>3, <3>4, <3>5
  <2> QED BY <2>1, <2>2
<1> HIDE DEF secs, N
<1>5. N * secs = secs * N /\ secs * N \in Int /\ (secs - 1) * N = secs * N - N
  BY <1>1, <1>4
<1> DEFINE sn == secs * N
<1>6. sn \in Int /\ rem = ns - sn /\ (secs - 1) * N = sn - N
  BY <1>5
<1>7. -N < ns - sn /\ ns - sn < N
  BY <1>4
<1> HIDE DEF sn, rem
<1>8. CASE rem < 0
  <2>1. SecondsOf(ns).secs = secs - 1 /\ SecondsOf(ns).rem = rem + N
    BY <1>3, <1>8
  <2>2. secs - 1 \in Int /\ rem + N \in Nat /\ rem + N < N
    BY <1>1, <1>4, <1>6, <1>7, <1>8
  <2>3. ns = (sn - N) + (rem + N)
    BY <1>1, <1>6
  <2> QED BY <1>6, <2>1, <2>2, <2>3 DEF N
<1>9. CASE ~(rem < 0)
  <2>1. SecondsOf(ns).secs = secs /\ SecondsOf(ns).rem = rem
    BY <1>3, <1>9
  <2>2. rem \in Nat /\ rem < N
    BY <1>1, <1>6, <1>7, <1>9
  <2>3. ns = sn + rem
    BY <1>6
  <2> QED BY <1>4, <2>1, <2>2, <2>3 DEF N, sn
<1> QED
  BY <1>8, <1>9

\* Seconds as whole days and what is left of them.
LEMMA DayAndTime ==
  ASSUME NEW secs \in Int
  PROVE  /\ DaysOf(secs) \in Int
         /\ secs - DaysOf(secs) * Day \in Nat /\ secs - DaysOf(secs) * Day < Day
<1> DEFINE q == DaysOf(secs)
<1>1. Day \in Nat \ {0}
  BY ClockIs
<1>2. q \in Int /\ q * Day <= secs /\ secs < q * Day + Day
  BY <1>1, FloorIs DEF DaysOf
<1> HIDE DEF q
<1> DEFINE n == q * Day
<1>3. n \in Int /\ n <= secs /\ secs < n + Day
  BY <1>1, <1>2
<1> HIDE DEF n
<1>4. secs - n \in Nat /\ secs - n < Day
  BY <1>1, <1>3
<1> QED
  BY <1>2, <1>4 DEF n, q

\* How many days a year has before its last month, one by one.
LeapDay(y) == IF Leap(y) THEN 1 ELSE 0

\* How many days a month has.
LEMMA MonthDaysAre ==
  ASSUME NEW y \in Int
  PROVE  /\ \A m \in Int : MonthDays(y, m) \in Int
         /\ MonthDays(y, 2) = 28 + LeapDay(y) /\ LeapDay(y) \in 0 .. 1
         /\ \A m \in {4, 6, 9, 11} : MonthDays(y, m) = 30
         /\ \A m \in {1, 3, 5, 7, 8, 10, 12} : MonthDays(y, m) = 31
<1>1. MonthDays(y, 2) = 28 + LeapDay(y) /\ LeapDay(y) \in 0 .. 1
  BY DEF MonthDays, LeapDay
<1>2. \A m : m # 2 /\ m \in {4, 6, 9, 11} => MonthDays(y, m) = 30
  BY DEF MonthDays
<1>3. \A m : m # 2 /\ m \notin {4, 6, 9, 11} => MonthDays(y, m) = 31
  BY DEF MonthDays
<1>4. ASSUME NEW m \in Int PROVE MonthDays(y, m) \in Int
  <2>1. CASE m = 2
    BY <1>1, <2>1
  <2>2. CASE m # 2 /\ m \in {4, 6, 9, 11}
    BY <1>2, <2>2
  <2>3. CASE m # 2 /\ m \notin {4, 6, 9, 11}
    BY <1>3, <2>3
  <2> QED BY <2>1, <2>2, <2>3
<1>5. \A m \in {4, 6, 9, 11} : MonthDays(y, m) = 30
  BY <1>2
<1>6. \A m \in {1, 3, 5, 7, 8, 10, 12} : MonthDays(y, m) = 31
  BY <1>3
<1> QED
  BY <1>1, <1>4, <1>5, <1>6

\* The days before a month, month by month.
LEMMA MonthsUnfold ==
  ASSUME NEW y \in Int, NEW month \in 1 .. 12
  PROVE  \E h : /\ DaysBeforeMonth(y, month) = h[month - 1]
                /\ h[0] = 0
                /\ \A k \in 1 .. month - 1 : h[k] = h[k - 1] + MonthDays(y, k)
<1> DEFINE N == month - 1
           zero == 0
           step == [k \in 1 .. N |-> [x \in Int |-> x + MonthDays(y, k)]]
           Item(f, k) == IF k = 0 THEN 0 ELSE f[k - 1] + MonthDays(y, k)
           Is(f) == f = [k \in 0 .. N |-> Item(f, k)]
           h == CHOOSE f : Is(f)
<1>1. N \in Nat /\ zero \in Int
  OBVIOUS
<1>2. step \in [1 .. N -> [Int -> Int]]
  <2>1. \A k \in 1 .. N : MonthDays(y, k) \in Int
    BY MonthDaysAre
  <2>2. \A k \in 1 .. N, x \in Int : x + MonthDays(y, k) \in Int
    <3> TAKE k \in 1 .. N, x \in Int
    <3> DEFINE d == MonthDays(y, k)
    <3>1. d \in Int
      BY <2>1
    <3>2. x + d \in Int
      <4> HIDE DEF d
      <4> QED BY <3>1
    <3> QED BY <3>2
  <2> HIDE DEF N
  <2> QED BY <2>2
<1>3. PICK f : Unfolds(f, N, Int, zero, step)
  <2> HIDE DEF step, N, zero
  <2> QED BY <1>1, <1>2, Recursion
<1>4. Is(f)
  <2> HIDE DEF N
  <2>1. \A k \in 1 .. N : f[k - 1] \in Int
    BY <1>1, <1>3 DEF Unfolds
  <2>2. \A k \in 1 .. N : f[k] = f[k - 1] + MonthDays(y, k)
    BY <1>3, <2>1 DEF Unfolds
  <2> HIDE DEF step
  <2>3. \A k \in 0 .. N : f[k] = Item(f, k)
    <3> TAKE k \in 0 .. N
    <3>1. CASE k = 0
      BY <1>3, <3>1 DEF Unfolds
    <3>2. CASE k # 0
      <4>1. k \in 1 .. N
        BY <1>1, <3>2
      <4> QED BY <2>2, <3>2, <4>1
    <3> QED BY <3>1, <3>2
  <2> HIDE DEF Item
  <2> QED BY <1>3, <2>3 DEF Unfolds
<1>5. Is(h)
  <2> HIDE DEF Is
  <2> QED BY <1>4
<1>6. DaysBeforeMonth(y, month) = h[N]
  BY DEF DaysBeforeMonth
<1>7. h[0] = 0 /\ \A k \in 1 .. N : h[k] = h[k - 1] + MonthDays(y, k)
  <2> HIDE DEF h, N
  <2>1. \A k \in 0 .. N : h[k] = Item(h, k)
    <3> HIDE DEF Item
    <3> QED BY <1>5
  <2>2. h[0] = 0
    <3>1. h[0] = Item(h, 0)
      BY <1>1, <2>1
    <3> QED BY <3>1
  <2>3. ASSUME NEW k \in 1 .. N PROVE h[k] = h[k - 1] + MonthDays(y, k)
    <3>1. k \in 0 .. N /\ k # 0
      BY <1>1
    <3>2. h[k] = Item(h, k)
      BY <2>1, <3>1
    <3> QED BY <3>1, <3>2
  <2> QED BY <2>2, <2>3
<1> HIDE DEF h
<1> QED
  BY <1>6, <1>7

\* The days before each month, in numbers.
LEMMA MonthsBefore ==
  ASSUME NEW y \in Int, NEW month \in 1 .. 12
  PROVE  /\ month = 1 => DaysBeforeMonth(y, month) = 0
         /\ month = 2 => DaysBeforeMonth(y, month) = 31
         /\ month = 3 => DaysBeforeMonth(y, month) = 59 + LeapDay(y)
         /\ month = 4 => DaysBeforeMonth(y, month) = 90 + LeapDay(y)
         /\ month = 5 => DaysBeforeMonth(y, month) = 120 + LeapDay(y)
         /\ month = 6 => DaysBeforeMonth(y, month) = 151 + LeapDay(y)
         /\ month = 7 => DaysBeforeMonth(y, month) = 181 + LeapDay(y)
         /\ month = 8 => DaysBeforeMonth(y, month) = 212 + LeapDay(y)
         /\ month = 9 => DaysBeforeMonth(y, month) = 243 + LeapDay(y)
         /\ month = 10 => DaysBeforeMonth(y, month) = 273 + LeapDay(y)
         /\ month = 11 => DaysBeforeMonth(y, month) = 304 + LeapDay(y)
         /\ month = 12 => DaysBeforeMonth(y, month) = 334 + LeapDay(y)
<1>1. PICK h : /\ DaysBeforeMonth(y, month) = h[month - 1]
               /\ h[0] = 0
               /\ \A k \in 1 .. month - 1 : h[k] = h[k - 1] + MonthDays(y, k)
  BY MonthsUnfold
<1>2. LeapDay(y) \in 0 .. 1
  BY MonthDaysAre
<1>3. month > 1 => h[1] = 31
  <2> SUFFICES ASSUME month > 1 PROVE h[1] = 31
    OBVIOUS
  <2>1. 1 \in 1 .. month - 1 /\ 1 - 1 = 0
    OBVIOUS
  <2>2. h[1] = h[0] + MonthDays(y, 1)
    BY <1>1, <2>1
  <2>3. MonthDays(y, 1) = 31
    BY MonthDaysAre
  <2> QED BY <1>2, <1>1, <2>2, <2>3
<1>4. month > 2 => h[2] = 59 + LeapDay(y)
  <2> SUFFICES ASSUME month > 2 PROVE h[2] = 59 + LeapDay(y)
    OBVIOUS
  <2>1. 2 \in 1 .. month - 1 /\ 2 - 1 = 1
    OBVIOUS
  <2>2. h[2] = h[1] + MonthDays(y, 2)
    BY <1>1, <2>1
  <2>3. MonthDays(y, 2) = 28 + LeapDay(y)
    BY MonthDaysAre
  <2> QED BY <1>2, <1>3, <2>2, <2>3
<1>5. month > 3 => h[3] = 90 + LeapDay(y)
  <2> SUFFICES ASSUME month > 3 PROVE h[3] = 90 + LeapDay(y)
    OBVIOUS
  <2>1. 3 \in 1 .. month - 1 /\ 3 - 1 = 2
    OBVIOUS
  <2>2. h[3] = h[2] + MonthDays(y, 3)
    BY <1>1, <2>1
  <2>3. MonthDays(y, 3) = 31
    BY MonthDaysAre
  <2> QED BY <1>2, <1>4, <2>2, <2>3
<1>6. month > 4 => h[4] = 120 + LeapDay(y)
  <2> SUFFICES ASSUME month > 4 PROVE h[4] = 120 + LeapDay(y)
    OBVIOUS
  <2>1. 4 \in 1 .. month - 1 /\ 4 - 1 = 3
    OBVIOUS
  <2>2. h[4] = h[3] + MonthDays(y, 4)
    BY <1>1, <2>1
  <2>3. MonthDays(y, 4) = 30
    BY MonthDaysAre
  <2> QED BY <1>2, <1>5, <2>2, <2>3
<1>7. month > 5 => h[5] = 151 + LeapDay(y)
  <2> SUFFICES ASSUME month > 5 PROVE h[5] = 151 + LeapDay(y)
    OBVIOUS
  <2>1. 5 \in 1 .. month - 1 /\ 5 - 1 = 4
    OBVIOUS
  <2>2. h[5] = h[4] + MonthDays(y, 5)
    BY <1>1, <2>1
  <2>3. MonthDays(y, 5) = 31
    BY MonthDaysAre
  <2> QED BY <1>2, <1>6, <2>2, <2>3
<1>8. month > 6 => h[6] = 181 + LeapDay(y)
  <2> SUFFICES ASSUME month > 6 PROVE h[6] = 181 + LeapDay(y)
    OBVIOUS
  <2>1. 6 \in 1 .. month - 1 /\ 6 - 1 = 5
    OBVIOUS
  <2>2. h[6] = h[5] + MonthDays(y, 6)
    BY <1>1, <2>1
  <2>3. MonthDays(y, 6) = 30
    BY MonthDaysAre
  <2> QED BY <1>2, <1>7, <2>2, <2>3
<1>9. month > 7 => h[7] = 212 + LeapDay(y)
  <2> SUFFICES ASSUME month > 7 PROVE h[7] = 212 + LeapDay(y)
    OBVIOUS
  <2>1. 7 \in 1 .. month - 1 /\ 7 - 1 = 6
    OBVIOUS
  <2>2. h[7] = h[6] + MonthDays(y, 7)
    BY <1>1, <2>1
  <2>3. MonthDays(y, 7) = 31
    BY MonthDaysAre
  <2> QED BY <1>2, <1>8, <2>2, <2>3
<1>10. month > 8 => h[8] = 243 + LeapDay(y)
  <2> SUFFICES ASSUME month > 8 PROVE h[8] = 243 + LeapDay(y)
    OBVIOUS
  <2>1. 8 \in 1 .. month - 1 /\ 8 - 1 = 7
    OBVIOUS
  <2>2. h[8] = h[7] + MonthDays(y, 8)
    BY <1>1, <2>1
  <2>3. MonthDays(y, 8) = 31
    BY MonthDaysAre
  <2> QED BY <1>2, <1>9, <2>2, <2>3
<1>11. month > 9 => h[9] = 273 + LeapDay(y)
  <2> SUFFICES ASSUME month > 9 PROVE h[9] = 273 + LeapDay(y)
    OBVIOUS
  <2>1. 9 \in 1 .. month - 1 /\ 9 - 1 = 8
    OBVIOUS
  <2>2. h[9] = h[8] + MonthDays(y, 9)
    BY <1>1, <2>1
  <2>3. MonthDays(y, 9) = 30
    BY MonthDaysAre
  <2> QED BY <1>2, <1>10, <2>2, <2>3
<1>12. month > 10 => h[10] = 304 + LeapDay(y)
  <2> SUFFICES ASSUME month > 10 PROVE h[10] = 304 + LeapDay(y)
    OBVIOUS
  <2>1. 10 \in 1 .. month - 1 /\ 10 - 1 = 9
    OBVIOUS
  <2>2. h[10] = h[9] + MonthDays(y, 10)
    BY <1>1, <2>1
  <2>3. MonthDays(y, 10) = 31
    BY MonthDaysAre
  <2> QED BY <1>2, <1>11, <2>2, <2>3
<1>13. month > 11 => h[11] = 334 + LeapDay(y)
  <2> SUFFICES ASSUME month > 11 PROVE h[11] = 334 + LeapDay(y)
    OBVIOUS
  <2>1. 11 \in 1 .. month - 1 /\ 11 - 1 = 10
    OBVIOUS
  <2>2. h[11] = h[10] + MonthDays(y, 11)
    BY <1>1, <2>1
  <2>3. MonthDays(y, 11) = 30
    BY MonthDaysAre
  <2> QED BY <1>2, <1>12, <2>2, <2>3
<1>14. DaysBeforeMonth(y, month) = h[month - 1]
  BY <1>1
<1> QED
  BY <1>1, <1>3, <1>4, <1>5, <1>6, <1>7, <1>8, <1>9, <1>10, <1>11, <1>12, <1>13, <1>14

\* Where a day of the year that begins in March stands in its month.
MonthNo(b) == (5 * b + 2) \div 153
DayNo(b)   == b - (153 * MonthNo(b) + 2) \div 5

FallsIn(b) ==
  /\ MonthNo(b) \in 0 .. 11 /\ DayNo(b) \in 0 .. 30
  /\ MonthNo(b) = 0 => DayNo(b) = b - 0 /\ DayNo(b) < 31
  /\ MonthNo(b) = 1 => DayNo(b) = b - 31 /\ DayNo(b) < 30
  /\ MonthNo(b) = 2 => DayNo(b) = b - 61 /\ DayNo(b) < 31
  /\ MonthNo(b) = 3 => DayNo(b) = b - 92 /\ DayNo(b) < 30
  /\ MonthNo(b) = 4 => DayNo(b) = b - 122 /\ DayNo(b) < 31
  /\ MonthNo(b) = 5 => DayNo(b) = b - 153 /\ DayNo(b) < 31
  /\ MonthNo(b) = 6 => DayNo(b) = b - 184 /\ DayNo(b) < 30
  /\ MonthNo(b) = 7 => DayNo(b) = b - 214 /\ DayNo(b) < 31
  /\ MonthNo(b) = 8 => DayNo(b) = b - 245 /\ DayNo(b) < 30
  /\ MonthNo(b) = 9 => DayNo(b) = b - 275 /\ DayNo(b) < 31
  /\ MonthNo(b) = 10 => DayNo(b) = b - 306 /\ DayNo(b) < 31
  /\ MonthNo(b) = 11 => DayNo(b) = b - 337 /\ DayNo(b) < 29

\* The divisions of civil_from_days find the month and its day.
LEMMA MonthsFromMarch ==
  ASSUME NEW b \in 0 .. 365
  PROVE  FallsIn(b)
<1>1. MonthNo(b) \in 0 .. 11
  BY SMT DEF MonthNo
<1>2. MonthNo(b) = 0 => DayNo(b) = b - 0 /\ DayNo(b) \in 0 .. 30
  <2> SUFFICES ASSUME MonthNo(b) = 0 PROVE DayNo(b) = b - 0 /\ DayNo(b) \in 0 .. 30
    OBVIOUS
  <2>1. DayNo(b) = b - 0
    BY SMT DEF DayNo
  <2>2. b - 0 \in 0 .. 30
    BY SMT DEF MonthNo
  <2> QED BY <2>1, <2>2
<1>3. MonthNo(b) = 1 => DayNo(b) = b - 31 /\ DayNo(b) \in 0 .. 29
  <2> SUFFICES ASSUME MonthNo(b) = 1 PROVE DayNo(b) = b - 31 /\ DayNo(b) \in 0 .. 29
    OBVIOUS
  <2>1. DayNo(b) = b - 31
    BY SMT DEF DayNo
  <2>2. b - 31 \in 0 .. 29
    BY SMT DEF MonthNo
  <2> QED BY <2>1, <2>2
<1>4. MonthNo(b) = 2 => DayNo(b) = b - 61 /\ DayNo(b) \in 0 .. 30
  <2> SUFFICES ASSUME MonthNo(b) = 2 PROVE DayNo(b) = b - 61 /\ DayNo(b) \in 0 .. 30
    OBVIOUS
  <2>1. DayNo(b) = b - 61
    BY SMT DEF DayNo
  <2>2. b - 61 \in 0 .. 30
    BY SMT DEF MonthNo
  <2> QED BY <2>1, <2>2
<1>5. MonthNo(b) = 3 => DayNo(b) = b - 92 /\ DayNo(b) \in 0 .. 29
  <2> SUFFICES ASSUME MonthNo(b) = 3 PROVE DayNo(b) = b - 92 /\ DayNo(b) \in 0 .. 29
    OBVIOUS
  <2>1. DayNo(b) = b - 92
    BY SMT DEF DayNo
  <2>2. b - 92 \in 0 .. 29
    BY SMT DEF MonthNo
  <2> QED BY <2>1, <2>2
<1>6. MonthNo(b) = 4 => DayNo(b) = b - 122 /\ DayNo(b) \in 0 .. 30
  <2> SUFFICES ASSUME MonthNo(b) = 4 PROVE DayNo(b) = b - 122 /\ DayNo(b) \in 0 .. 30
    OBVIOUS
  <2>1. DayNo(b) = b - 122
    BY SMT DEF DayNo
  <2>2. b - 122 \in 0 .. 30
    BY SMT DEF MonthNo
  <2> QED BY <2>1, <2>2
<1>7. MonthNo(b) = 5 => DayNo(b) = b - 153 /\ DayNo(b) \in 0 .. 30
  <2> SUFFICES ASSUME MonthNo(b) = 5 PROVE DayNo(b) = b - 153 /\ DayNo(b) \in 0 .. 30
    OBVIOUS
  <2>1. DayNo(b) = b - 153
    BY SMT DEF DayNo
  <2>2. b - 153 \in 0 .. 30
    BY SMT DEF MonthNo
  <2> QED BY <2>1, <2>2
<1>8. MonthNo(b) = 6 => DayNo(b) = b - 184 /\ DayNo(b) \in 0 .. 29
  <2> SUFFICES ASSUME MonthNo(b) = 6 PROVE DayNo(b) = b - 184 /\ DayNo(b) \in 0 .. 29
    OBVIOUS
  <2>1. DayNo(b) = b - 184
    BY SMT DEF DayNo
  <2>2. b - 184 \in 0 .. 29
    BY SMT DEF MonthNo
  <2> QED BY <2>1, <2>2
<1>9. MonthNo(b) = 7 => DayNo(b) = b - 214 /\ DayNo(b) \in 0 .. 30
  <2> SUFFICES ASSUME MonthNo(b) = 7 PROVE DayNo(b) = b - 214 /\ DayNo(b) \in 0 .. 30
    OBVIOUS
  <2>1. DayNo(b) = b - 214
    BY SMT DEF DayNo
  <2>2. b - 214 \in 0 .. 30
    BY SMT DEF MonthNo
  <2> QED BY <2>1, <2>2
<1>10. MonthNo(b) = 8 => DayNo(b) = b - 245 /\ DayNo(b) \in 0 .. 29
  <2> SUFFICES ASSUME MonthNo(b) = 8 PROVE DayNo(b) = b - 245 /\ DayNo(b) \in 0 .. 29
    OBVIOUS
  <2>1. DayNo(b) = b - 245
    BY SMT DEF DayNo
  <2>2. b - 245 \in 0 .. 29
    BY SMT DEF MonthNo
  <2> QED BY <2>1, <2>2
<1>11. MonthNo(b) = 9 => DayNo(b) = b - 275 /\ DayNo(b) \in 0 .. 30
  <2> SUFFICES ASSUME MonthNo(b) = 9 PROVE DayNo(b) = b - 275 /\ DayNo(b) \in 0 .. 30
    OBVIOUS
  <2>1. DayNo(b) = b - 275
    BY SMT DEF DayNo
  <2>2. b - 275 \in 0 .. 30
    BY SMT DEF MonthNo
  <2> QED BY <2>1, <2>2
<1>12. MonthNo(b) = 10 => DayNo(b) = b - 306 /\ DayNo(b) \in 0 .. 30
  <2> SUFFICES ASSUME MonthNo(b) = 10 PROVE DayNo(b) = b - 306 /\ DayNo(b) \in 0 .. 30
    OBVIOUS
  <2>1. DayNo(b) = b - 306
    BY SMT DEF DayNo
  <2>2. b - 306 \in 0 .. 30
    BY SMT DEF MonthNo
  <2> QED BY <2>1, <2>2
<1>13. MonthNo(b) = 11 => DayNo(b) = b - 337 /\ DayNo(b) \in 0 .. 28
  <2> SUFFICES ASSUME MonthNo(b) = 11 PROVE DayNo(b) = b - 337 /\ DayNo(b) \in 0 .. 28
    OBVIOUS
  <2>1. DayNo(b) = b - 337
    BY SMT DEF DayNo
  <2>2. b - 337 \in 0 .. 28
    BY SMT DEF MonthNo
  <2> QED BY <2>1, <2>2
<1>14. DayNo(b) \in 0 .. 30
  BY <1>1, <1>2, <1>3, <1>4, <1>5, <1>6, <1>7, <1>8, <1>9, <1>10, <1>11, <1>12, <1>13, SMT
<1> QED
  BY <1>1, <1>2, <1>3, <1>4, <1>5, <1>6, <1>7, <1>8, <1>9, <1>10, <1>11, <1>12, <1>13, <1>14, SMT DEF FallsIn

\* The leap years before a year, and whether it is one.
LEMMA YearCount ==
  ASSUME NEW n \in Nat, n > 0, NEW c \in 0 .. 3, NEW q \in 0 .. 24, NEW a \in 0 .. 3
  PROVE  LET Y == 400 * n + 100 * c + 4 * q + a
             s == 146097 * n + 36524 * c + 1461 * q + 365 * a
         IN  /\ DaysBeforeYear(Y) + LeapDay(Y) = s
             /\ DaysBeforeYear(Y + 1) = s + 365
             /\ a = 3 /\ (q < 24 \/ c = 3) => LeapDay(Y + 1) = 1
<1> DEFINE Y == 400 * n + 100 * c + 4 * q + a
<1>1. Y \in Nat
  BY SMT
<1>2. Y \div 4 = 100 * n + 25 * c + q /\ Y \div 100 = 4 * n + c /\ Y \div 400 = n
  BY SMT
<1>3. /\ (Y % 4 = 0) <=> (a = 0)
      /\ (Y % 100 = 0) <=> (a = 0 /\ q = 0)
      /\ (Y % 400 = 0) <=> (a = 0 /\ q = 0 /\ c = 0)
  BY SMT
<1>4. DaysBeforeYear(Y + 1) = 365 * (Y + 1) + Y \div 4 - Y \div 100 + Y \div 400
  <2>1. (Y + 1) - 1 = Y
    BY <1>1, SMT
  <2> HIDE DEF Y
  <2> QED BY <2>1 DEF DaysBeforeYear
<1>5. DaysBeforeYear(Y + 1) = 146097 * n + 36524 * c + 1461 * q + 365 * a + 365
  BY <1>2, <1>4, SMT
<1>6. ASSUME a # 0
      PROVE  DaysBeforeYear(Y) + LeapDay(Y) = 146097 * n + 36524 * c + 1461 * q + 365 * a
  <2>1. (Y - 1) \div 4 = 100 * n + 25 * c + q /\ (Y - 1) \div 100 = 4 * n + c /\ (Y - 1) \div 400 = n
    BY <1>6, SMT
  <2>2. LeapDay(Y) = 0
    <3> HIDE DEF Y
    <3> QED BY <1>3, <1>6 DEF LeapDay, Leap
  <2> QED BY <2>1, <2>2, SMT DEF DaysBeforeYear
<1>7. ASSUME a = 0 /\ q # 0
      PROVE  DaysBeforeYear(Y) + LeapDay(Y) = 146097 * n + 36524 * c + 1461 * q + 365 * a
  <2>1. (Y - 1) \div 4 = 100 * n + 25 * c + q - 1 /\ (Y - 1) \div 100 = 4 * n + c /\ (Y - 1) \div 400 = n
    BY <1>7, SMT
  <2>2. LeapDay(Y) = 1
    <3> HIDE DEF Y
    <3> QED BY <1>3, <1>7 DEF LeapDay, Leap
  <2> QED BY <1>7, <2>1, <2>2, SMT DEF DaysBeforeYear
<1>8. ASSUME a = 0 /\ q = 0 /\ c # 0
      PROVE  DaysBeforeYear(Y) + LeapDay(Y) = 146097 * n + 36524 * c + 1461 * q + 365 * a
  <2>1. (Y - 1) \div 4 = 100 * n + 25 * c - 1 /\ (Y - 1) \div 100 = 4 * n + c - 1 /\ (Y - 1) \div 400 = n
    BY <1>8, SMT
  <2>2. LeapDay(Y) = 0
    <3> HIDE DEF Y
    <3> QED BY <1>3, <1>8 DEF LeapDay, Leap
  <2> QED BY <1>8, <2>1, <2>2, SMT DEF DaysBeforeYear
<1>9. ASSUME a = 0 /\ q = 0 /\ c = 0
      PROVE  DaysBeforeYear(Y) + LeapDay(Y) = 146097 * n + 36524 * c + 1461 * q + 365 * a
  <2>1. (Y - 1) \div 4 = 100 * n - 1 /\ (Y - 1) \div 100 = 4 * n - 1 /\ (Y - 1) \div 400 = n - 1
    BY <1>9, SMT
  <2>2. LeapDay(Y) = 1
    <3> HIDE DEF Y
    <3> QED BY <1>3, <1>9 DEF LeapDay, Leap
  <2> QED BY <1>9, <2>1, <2>2, SMT DEF DaysBeforeYear
<1>10. a = 3 /\ (q < 24 \/ c = 3) => LeapDay(Y + 1) = 1
  <2> SUFFICES ASSUME a = 3, q < 24 \/ c = 3 PROVE LeapDay(Y + 1) = 1
    OBVIOUS
  <2>1. (Y + 1) % 4 = 0
    BY SMT
  <2>2. (Y + 1) % 100 # 0 \/ (Y + 1) % 400 = 0
    <3>1. CASE q < 24
      BY <3>1, SMT
    <3>2. CASE q = 24 /\ c = 3
      BY <3>2, SMT
    <3> QED BY <3>1, <3>2, SMT
  <2> HIDE DEF Y
  <2> QED BY <2>1, <2>2 DEF LeapDay, Leap
<1>11. DaysBeforeYear(Y) + LeapDay(Y) = 146097 * n + 36524 * c + 1461 * q + 365 * a
  BY <1>6, <1>7, <1>8, <1>9, SMT
<1> QED
  BY <1>5, <1>10, <1>11

\* A date of the calendar, and the day it is.
IsDate(date, days) ==
  /\ date.y \in Nat /\ date.y < 10000
  /\ date.mo \in 1 .. 12
  /\ date.d \in 1 .. 31 /\ date.d <= MonthDays(date.y, date.mo)
  /\ DayNumber(date.y, date.mo, date.d) = days

\* The number of a day, with the epoch's put in.
LEMMA DayNumberIs ==
  ASSUME NEW y \in Int, NEW mo, NEW d
  PROVE  DayNumber(y, mo, d) = DaysBeforeYear(y) - 719527 + DaysBeforeMonth(y, mo) + d - 1
<1>1. DaysBeforeYear(1970) = 719527
  BY SMT DEF DaysBeforeYear
<1> QED
  BY <1>1, SMT DEF DayNumber

\* The date found is that of the day, when it is March or later,
LEMMA MarchToDecember ==
  ASSUME NEW n \in Nat, n > 0, n < 10, NEW doe, NEW c, NEW q, NEW a, NEW b, InYear(doe, c, q, a, b),
         MonthNo(b) < 10,
         NEW y, y = 400 * n + 100 * c + 4 * q + a,
         NEW date, date = [y |-> y, mo |-> MonthNo(b) + 3, d |-> DayNo(b) + 1]
  PROVE  IsDate(date, 146097 * n + doe - 719468)
<1> DEFINE days == 146097 * n + doe - 719468
           L == LeapDay(y)
           Y == DaysBeforeYear(y)
           m == MonthNo(b)
           d == DayNo(b) + 1
<1>1. y \in Nat /\ y < 10000 /\ b \in 0 .. 365 /\ c \in 0 .. 3 /\ q \in 0 .. 24 /\ a \in 0 .. 3
  BY SMT DEF InYear
<1>0. FallsIn(b)
  BY <1>1, MonthsFromMarch
<1>2. m \in 0 .. 11 /\ d \in 1 .. 31
  BY <1>0, SMT DEF FallsIn
<1>3. L \in 0 .. 1
  BY <1>1, MonthDaysAre, SMT
<1>4. Y \in Int
  BY <1>1, SMT DEF DaysBeforeYear
<1>5. Y + L = 146097 * n + 36524 * c + 1461 * q + 365 * a
  BY <1>1, YearCount, SMT
<1>6. days \in Int /\ Y + L + b - 719468 = days
  BY <1>1, <1>4, <1>5, SMT DEF InYear
<1> HIDE DEF L, Y, days
<1>7. CASE MonthNo(b) = 0
  <2>1. d = b - 0 + 1 /\ d <= 31
    BY <1>0, <1>1, <1>7, SMT DEF FallsIn
  <2>2. DaysBeforeMonth(y, 3) = 59 + L
    BY <1>1, MonthsBefore, SMT DEF L
  <2>3. MonthDays(y, 3) = 31
    BY <1>1, MonthDaysAre, SMT
  <2>4. 59 + L \in Int /\ Y + (59 + L) + d - 1 - 719527 = days
    BY <1>1, <1>2, <1>3, <1>4, <1>6, <2>1, SMT
  <2>5. date.y = y /\ date.mo = 3 /\ date.d = d
    BY <1>7
  <2>6. DayNumber(y, 3, d) = days
    <3> HIDE DEF d
    <3> QED BY <1>1, <1>2, <1>3, <1>4, <2>2, <2>4, DayNumberIs, SMT DEF Y
  <2>7. 3 \in 1 .. 12 /\ d <= MonthDays(y, 3)
    BY <2>1, <2>3, SMT
  <2>8. IsDate(date, days)
    <3> HIDE DEF d
    <3> QED BY <1>1, <1>2, <2>5, <2>6, <2>7 DEF IsDate
  <2> QED BY <2>8, SMT DEF days
<1>8. CASE MonthNo(b) = 1
  <2>1. d = b - 31 + 1 /\ d <= 30
    BY <1>0, <1>1, <1>8, SMT DEF FallsIn
  <2>2. DaysBeforeMonth(y, 4) = 90 + L
    BY <1>1, MonthsBefore, SMT DEF L
  <2>3. MonthDays(y, 4) = 30
    BY <1>1, MonthDaysAre, SMT
  <2>4. 90 + L \in Int /\ Y + (90 + L) + d - 1 - 719527 = days
    BY <1>1, <1>2, <1>3, <1>4, <1>6, <2>1, SMT
  <2>5. date.y = y /\ date.mo = 4 /\ date.d = d
    BY <1>8
  <2>6. DayNumber(y, 4, d) = days
    <3> HIDE DEF d
    <3> QED BY <1>1, <1>2, <1>3, <1>4, <2>2, <2>4, DayNumberIs, SMT DEF Y
  <2>7. 4 \in 1 .. 12 /\ d <= MonthDays(y, 4)
    BY <2>1, <2>3, SMT
  <2>8. IsDate(date, days)
    <3> HIDE DEF d
    <3> QED BY <1>1, <1>2, <2>5, <2>6, <2>7 DEF IsDate
  <2> QED BY <2>8, SMT DEF days
<1>9. CASE MonthNo(b) = 2
  <2>1. d = b - 61 + 1 /\ d <= 31
    BY <1>0, <1>1, <1>9, SMT DEF FallsIn
  <2>2. DaysBeforeMonth(y, 5) = 120 + L
    BY <1>1, MonthsBefore, SMT DEF L
  <2>3. MonthDays(y, 5) = 31
    BY <1>1, MonthDaysAre, SMT
  <2>4. 120 + L \in Int /\ Y + (120 + L) + d - 1 - 719527 = days
    BY <1>1, <1>2, <1>3, <1>4, <1>6, <2>1, SMT
  <2>5. date.y = y /\ date.mo = 5 /\ date.d = d
    BY <1>9
  <2>6. DayNumber(y, 5, d) = days
    <3> HIDE DEF d
    <3> QED BY <1>1, <1>2, <1>3, <1>4, <2>2, <2>4, DayNumberIs, SMT DEF Y
  <2>7. 5 \in 1 .. 12 /\ d <= MonthDays(y, 5)
    BY <2>1, <2>3, SMT
  <2>8. IsDate(date, days)
    <3> HIDE DEF d
    <3> QED BY <1>1, <1>2, <2>5, <2>6, <2>7 DEF IsDate
  <2> QED BY <2>8, SMT DEF days
<1>10. CASE MonthNo(b) = 3
  <2>1. d = b - 92 + 1 /\ d <= 30
    BY <1>0, <1>1, <1>10, SMT DEF FallsIn
  <2>2. DaysBeforeMonth(y, 6) = 151 + L
    BY <1>1, MonthsBefore, SMT DEF L
  <2>3. MonthDays(y, 6) = 30
    BY <1>1, MonthDaysAre, SMT
  <2>4. 151 + L \in Int /\ Y + (151 + L) + d - 1 - 719527 = days
    BY <1>1, <1>2, <1>3, <1>4, <1>6, <2>1, SMT
  <2>5. date.y = y /\ date.mo = 6 /\ date.d = d
    BY <1>10
  <2>6. DayNumber(y, 6, d) = days
    <3> HIDE DEF d
    <3> QED BY <1>1, <1>2, <1>3, <1>4, <2>2, <2>4, DayNumberIs, SMT DEF Y
  <2>7. 6 \in 1 .. 12 /\ d <= MonthDays(y, 6)
    BY <2>1, <2>3, SMT
  <2>8. IsDate(date, days)
    <3> HIDE DEF d
    <3> QED BY <1>1, <1>2, <2>5, <2>6, <2>7 DEF IsDate
  <2> QED BY <2>8, SMT DEF days
<1>11. CASE MonthNo(b) = 4
  <2>1. d = b - 122 + 1 /\ d <= 31
    BY <1>0, <1>1, <1>11, SMT DEF FallsIn
  <2>2. DaysBeforeMonth(y, 7) = 181 + L
    BY <1>1, MonthsBefore, SMT DEF L
  <2>3. MonthDays(y, 7) = 31
    BY <1>1, MonthDaysAre, SMT
  <2>4. 181 + L \in Int /\ Y + (181 + L) + d - 1 - 719527 = days
    BY <1>1, <1>2, <1>3, <1>4, <1>6, <2>1, SMT
  <2>5. date.y = y /\ date.mo = 7 /\ date.d = d
    BY <1>11
  <2>6. DayNumber(y, 7, d) = days
    <3> HIDE DEF d
    <3> QED BY <1>1, <1>2, <1>3, <1>4, <2>2, <2>4, DayNumberIs, SMT DEF Y
  <2>7. 7 \in 1 .. 12 /\ d <= MonthDays(y, 7)
    BY <2>1, <2>3, SMT
  <2>8. IsDate(date, days)
    <3> HIDE DEF d
    <3> QED BY <1>1, <1>2, <2>5, <2>6, <2>7 DEF IsDate
  <2> QED BY <2>8, SMT DEF days
<1>12. CASE MonthNo(b) = 5
  <2>1. d = b - 153 + 1 /\ d <= 31
    BY <1>0, <1>1, <1>12, SMT DEF FallsIn
  <2>2. DaysBeforeMonth(y, 8) = 212 + L
    BY <1>1, MonthsBefore, SMT DEF L
  <2>3. MonthDays(y, 8) = 31
    BY <1>1, MonthDaysAre, SMT
  <2>4. 212 + L \in Int /\ Y + (212 + L) + d - 1 - 719527 = days
    BY <1>1, <1>2, <1>3, <1>4, <1>6, <2>1, SMT
  <2>5. date.y = y /\ date.mo = 8 /\ date.d = d
    BY <1>12
  <2>6. DayNumber(y, 8, d) = days
    <3> HIDE DEF d
    <3> QED BY <1>1, <1>2, <1>3, <1>4, <2>2, <2>4, DayNumberIs, SMT DEF Y
  <2>7. 8 \in 1 .. 12 /\ d <= MonthDays(y, 8)
    BY <2>1, <2>3, SMT
  <2>8. IsDate(date, days)
    <3> HIDE DEF d
    <3> QED BY <1>1, <1>2, <2>5, <2>6, <2>7 DEF IsDate
  <2> QED BY <2>8, SMT DEF days
<1>13. CASE MonthNo(b) = 6
  <2>1. d = b - 184 + 1 /\ d <= 30
    BY <1>0, <1>1, <1>13, SMT DEF FallsIn
  <2>2. DaysBeforeMonth(y, 9) = 243 + L
    BY <1>1, MonthsBefore, SMT DEF L
  <2>3. MonthDays(y, 9) = 30
    BY <1>1, MonthDaysAre, SMT
  <2>4. 243 + L \in Int /\ Y + (243 + L) + d - 1 - 719527 = days
    BY <1>1, <1>2, <1>3, <1>4, <1>6, <2>1, SMT
  <2>5. date.y = y /\ date.mo = 9 /\ date.d = d
    BY <1>13
  <2>6. DayNumber(y, 9, d) = days
    <3> HIDE DEF d
    <3> QED BY <1>1, <1>2, <1>3, <1>4, <2>2, <2>4, DayNumberIs, SMT DEF Y
  <2>7. 9 \in 1 .. 12 /\ d <= MonthDays(y, 9)
    BY <2>1, <2>3, SMT
  <2>8. IsDate(date, days)
    <3> HIDE DEF d
    <3> QED BY <1>1, <1>2, <2>5, <2>6, <2>7 DEF IsDate
  <2> QED BY <2>8, SMT DEF days
<1>14. CASE MonthNo(b) = 7
  <2>1. d = b - 214 + 1 /\ d <= 31
    BY <1>0, <1>1, <1>14, SMT DEF FallsIn
  <2>2. DaysBeforeMonth(y, 10) = 273 + L
    BY <1>1, MonthsBefore, SMT DEF L
  <2>3. MonthDays(y, 10) = 31
    BY <1>1, MonthDaysAre, SMT
  <2>4. 273 + L \in Int /\ Y + (273 + L) + d - 1 - 719527 = days
    BY <1>1, <1>2, <1>3, <1>4, <1>6, <2>1, SMT
  <2>5. date.y = y /\ date.mo = 10 /\ date.d = d
    BY <1>14
  <2>6. DayNumber(y, 10, d) = days
    <3> HIDE DEF d
    <3> QED BY <1>1, <1>2, <1>3, <1>4, <2>2, <2>4, DayNumberIs, SMT DEF Y
  <2>7. 10 \in 1 .. 12 /\ d <= MonthDays(y, 10)
    BY <2>1, <2>3, SMT
  <2>8. IsDate(date, days)
    <3> HIDE DEF d
    <3> QED BY <1>1, <1>2, <2>5, <2>6, <2>7 DEF IsDate
  <2> QED BY <2>8, SMT DEF days
<1>15. CASE MonthNo(b) = 8
  <2>1. d = b - 245 + 1 /\ d <= 30
    BY <1>0, <1>1, <1>15, SMT DEF FallsIn
  <2>2. DaysBeforeMonth(y, 11) = 304 + L
    BY <1>1, MonthsBefore, SMT DEF L
  <2>3. MonthDays(y, 11) = 30
    BY <1>1, MonthDaysAre, SMT
  <2>4. 304 + L \in Int /\ Y + (304 + L) + d - 1 - 719527 = days
    BY <1>1, <1>2, <1>3, <1>4, <1>6, <2>1, SMT
  <2>5. date.y = y /\ date.mo = 11 /\ date.d = d
    BY <1>15
  <2>6. DayNumber(y, 11, d) = days
    <3> HIDE DEF d
    <3> QED BY <1>1, <1>2, <1>3, <1>4, <2>2, <2>4, DayNumberIs, SMT DEF Y
  <2>7. 11 \in 1 .. 12 /\ d <= MonthDays(y, 11)
    BY <2>1, <2>3, SMT
  <2>8. IsDate(date, days)
    <3> HIDE DEF d
    <3> QED BY <1>1, <1>2, <2>5, <2>6, <2>7 DEF IsDate
  <2> QED BY <2>8, SMT DEF days
<1>16. CASE MonthNo(b) = 9
  <2>1. d = b - 275 + 1 /\ d <= 31
    BY <1>0, <1>1, <1>16, SMT DEF FallsIn
  <2>2. DaysBeforeMonth(y, 12) = 334 + L
    BY <1>1, MonthsBefore, SMT DEF L
  <2>3. MonthDays(y, 12) = 31
    BY <1>1, MonthDaysAre, SMT
  <2>4. 334 + L \in Int /\ Y + (334 + L) + d - 1 - 719527 = days
    BY <1>1, <1>2, <1>3, <1>4, <1>6, <2>1, SMT
  <2>5. date.y = y /\ date.mo = 12 /\ date.d = d
    BY <1>16
  <2>6. DayNumber(y, 12, d) = days
    <3> HIDE DEF d
    <3> QED BY <1>1, <1>2, <1>3, <1>4, <2>2, <2>4, DayNumberIs, SMT DEF Y
  <2>7. 12 \in 1 .. 12 /\ d <= MonthDays(y, 12)
    BY <2>1, <2>3, SMT
  <2>8. IsDate(date, days)
    <3> HIDE DEF d
    <3> QED BY <1>1, <1>2, <2>5, <2>6, <2>7 DEF IsDate
  <2> QED BY <2>8, SMT DEF days
<1>17. m \in {0, 1, 2, 3, 4, 5, 6, 7, 8, 9}
  BY <1>2, SMT
<1> QED
  BY <1>7, <1>8, <1>9, <1>10, <1>11, <1>12, <1>13, <1>14, <1>15, <1>16, <1>17, SMT

\* and when it is in the months that belong to the year before.
LEMMA JanuaryAndFebruary ==
  ASSUME NEW n \in Nat, n > 0, n < 10, NEW doe, NEW c, NEW q, NEW a, NEW b, InYear(doe, c, q, a, b),
         MonthNo(b) >= 10,
         NEW y, y = 400 * n + 100 * c + 4 * q + a + 1,
         NEW date, date = [y |-> y, mo |-> MonthNo(b) - 9, d |-> DayNo(b) + 1]
  PROVE  IsDate(date, 146097 * n + doe - 719468)
<1> DEFINE days == 146097 * n + doe - 719468
           L == LeapDay(y)
           Y == DaysBeforeYear(y)
           m == MonthNo(b)
           d == DayNo(b) + 1
<1>1. y \in Nat /\ y < 10000 /\ b \in 0 .. 365 /\ c \in 0 .. 3 /\ q \in 0 .. 24 /\ a \in 0 .. 3
  BY SMT DEF InYear
<1>0. FallsIn(b)
  BY <1>1, MonthsFromMarch
<1>2. m \in 0 .. 11 /\ d \in 1 .. 31
  BY <1>0, SMT DEF FallsIn
<1>3. L \in 0 .. 1
  BY <1>1, MonthDaysAre, SMT
<1>4. Y \in Int
  BY <1>1, SMT DEF DaysBeforeYear
<1>5. Y = 146097 * n + 36524 * c + 1461 * q + 365 * a + 365
  BY <1>1, YearCount, SMT
<1>6. days \in Int /\ Y + b - 719468 - 365 = days
  BY <1>1, <1>4, <1>5, SMT DEF InYear
<1>7. b = 365 => L = 1
  <2>1. a = 3 /\ (q < 24 \/ c = 3) => L = 1
    BY <1>1, YearCount, SMT
  <2> HIDE DEF L
  <2> QED BY <2>1, SMT DEF InYear
<1> HIDE DEF L, Y, days
<1>8. CASE MonthNo(b) = 10
  <2>1. d = b - 306 + 1 /\ d <= 31
    BY <1>0, <1>1, <1>8, SMT DEF FallsIn
  <2>2. DaysBeforeMonth(y, 1) = 0
    BY <1>1, MonthsBefore, SMT
  <2>3. MonthDays(y, 1) = 31
    BY <1>1, MonthDaysAre, SMT
  <2>4. Y + 0 + d - 1 - 719527 = days
    BY <1>1, <1>2, <1>4, <1>6, <2>1, SMT
  <2>5. date.y = y /\ date.mo = 1 /\ date.d = d
    BY <1>8
  <2>6. DayNumber(y, 1, d) = days
    <3> HIDE DEF d
    <3> QED BY <1>1, <1>2, <1>3, <1>4, <2>2, <2>4, DayNumberIs, SMT DEF Y
  <2>7. 1 \in 1 .. 12 /\ d <= MonthDays(y, 1)
    BY <2>1, <2>3, SMT
  <2>8. IsDate(date, days)
    <3> HIDE DEF d
    <3> QED BY <1>1, <1>2, <2>5, <2>6, <2>7 DEF IsDate
  <2> QED BY <2>8, SMT DEF days
<1>9. CASE MonthNo(b) = 11
  <2>1. d = b - 337 + 1 /\ d <= 28 + L
    BY <1>0, <1>1, <1>3, <1>7, <1>9, SMT DEF FallsIn
  <2>2. DaysBeforeMonth(y, 2) = 31
    BY <1>1, MonthsBefore, SMT
  <2>3. MonthDays(y, 2) = 28 + L
    BY <1>1, MonthDaysAre, SMT DEF L
  <2>4. 28 + L \in Int /\ Y + 31 + d - 1 - 719527 = days
    BY <1>1, <1>2, <1>3, <1>4, <1>6, <2>1, SMT
  <2>5. date.y = y /\ date.mo = 2 /\ date.d = d
    BY <1>9
  <2>6. DayNumber(y, 2, d) = days
    <3> HIDE DEF d
    <3> QED BY <1>1, <1>2, <1>3, <1>4, <2>2, <2>4, DayNumberIs, SMT DEF Y
  <2>7. 2 \in 1 .. 12 /\ d <= MonthDays(y, 2)
    BY <2>1, <2>3, SMT
  <2>8. IsDate(date, days)
    <3> HIDE DEF d
    <3> QED BY <1>1, <1>2, <2>5, <2>6, <2>7 DEF IsDate
  <2> QED BY <2>8, SMT DEF days
<1>10. m \in {10, 11}
  BY <1>2, SMT
<1> QED
  BY <1>8, <1>9, <1>10, SMT

\* gw_event.c:24: civil_from_days finds the date of every day an int64 of
\* nanoseconds reaches.
LEMMA CivilIs ==
  ASSUME NEW days \in Days
  PROVE  IsDate(Civil(days), days)
<1> DEFINE z == days + 719468
           era == TruncDiv(IF z >= 0 THEN z ELSE z - 146096, 146097)
           doe == z - era * 146097
           yoe == YearOfEra(doe)
           doy == doe - (365 * yoe + yoe \div 4 - yoe \div 100)
           date == Civil(days)
<1>1. z \in Nat /\ 146097 <= z /\ z < 876582 /\ days = z - 719468
  BY DaysAre, SMT
<1>2. era = z \div 146097
  <2> HIDE DEF z
  <2> QED BY <1>1, SMT DEF TruncDiv
<1>3. era \in Nat /\ era > 0 /\ era < 10 /\ doe \in Nat /\ doe < 146097 /\ z = 146097 * era + doe
  <2> DEFINE e == z \div 146097
  <2> HIDE DEF z
  <2>1. e \in Nat /\ e > 0 /\ e < 10 /\ z - e * 146097 \in Nat /\ z - e * 146097 < 146097
        /\ z = 146097 * e + (z - e * 146097)
    BY <1>1, SMT
  <2> HIDE DEF era
  <2> QED BY <1>2, <2>1, SMT
<1>4. date = LET mp == (5 * doy + 2) \div 153
                 month == IF mp < 10 THEN mp + 3 ELSE mp - 9
             IN  [y |-> yoe + era * 400 + (IF month <= 2 THEN 1 ELSE 0),
                  mo |-> month, d |-> doy - (153 * mp + 2) \div 5 + 1]
  BY SMT DEF Civil
<1> HIDE DEF z, era, doe
<1>5. PICK c, q, a, b : InYear(doe, c, q, a, b)
  BY <1>3, YearsOfEra, SMT
<1>6. yoe = 100 * c + 4 * q + a
  BY <1>5, YearOfEraIs, SMT
<1> HIDE DEF yoe
<1>7. doy = b
  <2>1. yoe \div 4 = 25 * c + q /\ yoe \div 100 = c
    BY <1>5, <1>6, SMT DEF InYear
  <2>2. doe \in Int /\ doe = 36524 * c + 1461 * q + 365 * a + b
    BY <1>3, <1>5, SMT DEF InYear
  <2>3. c \in Int /\ q \in Int /\ a \in Int /\ b \in Int
    BY <1>5, SMT DEF InYear
  <2>4. doy = doe - (365 * yoe + (25 * c + q) - c)
    BY <2>1, SMT
  <2> HIDE DEF doy
  <2> QED BY <1>6, <2>2, <2>3, <2>4, SMT
<1> HIDE DEF doy
<1>8. b \in 0 .. 365 /\ MonthNo(b) \in 0 .. 11
  <2>1. b \in 0 .. 365
    BY <1>5 DEF InYear
  <2>2. FallsIn(b)
    BY <2>1, MonthsFromMarch
  <2> QED BY <2>1, <2>2 DEF FallsIn
<1>9. CASE MonthNo(b) < 10
  <2> DEFINE y == 400 * era + 100 * c + 4 * q + a
  <2>1. y = yoe + era * 400 + 0
    BY <1>3, <1>5, <1>6, SMT DEF InYear
  <2>2. date = [y |-> y, mo |-> MonthNo(b) + 3, d |-> DayNo(b) + 1]
    <3>1. ~(MonthNo(b) + 3 <= 2)
      BY <1>8, SMT
    <3> HIDE DEF y, date
    <3> QED BY <1>4, <1>7, <1>9, <2>1, <3>1, SMT DEF MonthNo, DayNo
  <2> HIDE DEF y, date
  <2>3. IsDate(date, 146097 * era + doe - 719468)
    BY <1>3, <1>5, <1>9, <2>2, MarchToDecember, SMT DEF y
  <2> QED BY <1>1, <1>3, <2>3, SMT DEF date
<1>10. CASE ~(MonthNo(b) < 10)
  <2> DEFINE y == 400 * era + 100 * c + 4 * q + a + 1
  <2>1. y = yoe + era * 400 + 1 /\ MonthNo(b) >= 10
    BY <1>3, <1>5, <1>6, <1>8, <1>10, SMT DEF InYear
  <2>2. date = [y |-> y, mo |-> MonthNo(b) - 9, d |-> DayNo(b) + 1]
    <3>1. MonthNo(b) - 9 <= 2
      BY <1>8, SMT
    <3> HIDE DEF y, date
    <3> QED BY <1>4, <1>7, <1>10, <2>1, <3>1, SMT DEF MonthNo, DayNo
  <2> HIDE DEF y, date
  <2>3. IsDate(date, 146097 * era + doe - 719468)
    BY <1>3, <1>5, <2>1, <2>2, JanuaryAndFebruary, SMT DEF y
  <2> QED BY <1>1, <1>3, <2>3, SMT DEF date
<1> QED
  BY <1>9, <1>10, SMT

-----------------------------------------------------------------------------
(***************************************************************************)
(* A time is read field by field.                                          *)
(***************************************************************************)
\* f is what t has from its i-th character on.
Stands(t, i, f) ==
  /\ i + Len(f) <= Len(t) + 1
  /\ \A k \in 1 .. Len(f) : t[i - 1 + k] = f[k]

\* What stands in a text stands in a longer one.
LEMMA Kept ==
  ASSUME NEW t \in Text, NEW u \in Text, NEW i \in Nat \ {0}, NEW f \in Text, Stands(t, i, f)
  PROVE  Stands(t \o u, i, f)
<1> DEFINE w == t \o u
<1>1. Len(t) \in Nat /\ Len(u) \in Nat /\ Len(f) \in Nat
  BY LenProperties DEF Text
<1>2. Len(w) = Len(t) + Len(u) /\ \A j \in 1 .. Len(t) + Len(u) :
        w[j] = IF j <= Len(t) THEN t[j] ELSE u[j - Len(t)]
  <2> HIDE DEF Letters
  <2> QED BY ConcatProperties DEF Text
<1> HIDE DEF w
<1>3. i + Len(f) <= Len(w) + 1
  BY <1>1, <1>2 DEF Stands
<1>4. ASSUME NEW k \in 1 .. Len(f) PROVE w[i - 1 + k] = f[k]
  <2>1. i - 1 + k \in 1 .. Len(t) + Len(u) /\ i - 1 + k <= Len(t)
    BY <1>1 DEF Stands
  <2>2. w[i - 1 + k] = t[i - 1 + k]
    BY <1>2, <2>1
  <2> QED BY <2>2 DEF Stands
<1>5. Stands(w, i, f)
  BY <1>3, <1>4 DEF Stands
<1> QED
  BY <1>5 DEF w

\* What is put behind a text stands there.
LEMMA Placed ==
  ASSUME NEW t \in Text, NEW u \in Text
  PROVE  Stands(t \o u, Len(t) + 1, u) /\ t \o u \in Text /\ Len(t \o u) = Len(t) + Len(u)
<1> DEFINE w == t \o u
<1>1. Len(t) \in Nat /\ Len(u) \in Nat
  BY LenProperties DEF Text
<1>2. Len(w) = Len(t) + Len(u) /\ w \in Text /\ \A j \in 1 .. Len(t) + Len(u) :
        w[j] = IF j <= Len(t) THEN t[j] ELSE u[j - Len(t)]
  <2> HIDE DEF Letters
  <2> QED BY ConcatProperties DEF Text
<1> HIDE DEF w
<1>3. (Len(t) + 1) + Len(u) <= Len(w) + 1
  BY <1>1, <1>2
<1>4. ASSUME NEW k \in 1 .. Len(u) PROVE w[(Len(t) + 1) - 1 + k] = u[k]
  <2>1. Len(t) + k \in 1 .. Len(t) + Len(u) /\ ~(Len(t) + k <= Len(t))
        /\ (Len(t) + k) - Len(t) = k /\ (Len(t) + 1) - 1 + k = Len(t) + k
    BY <1>1
  <2>2. w[Len(t) + k] = u[(Len(t) + k) - Len(t)]
    BY <1>2, <2>1
  <2> QED BY <2>1, <2>2
<1>5. Stands(w, Len(t) + 1, u)
  BY <1>3, <1>4 DEF Stands
<1> QED
  BY <1>2, <1>5 DEF w

\* What stands somewhere is what is cut out there.
LEMMA Taken ==
  ASSUME NEW t \in Text, NEW i \in Nat \ {0}, NEW f \in Text, Stands(t, i, f),
         NEW j \in Nat, j = i + Len(f) - 1
  PROVE  SubSeq(t, i, j) = f
<1>1. Len(t) \in Nat /\ Len(f) \in Nat /\ i \in Int
  BY LenProperties DEF Text
<1>2. SubSeq(t, i, j) = [k \in 1 .. Len(f) |-> t[i + k - 1]]
  <2>1. j - i + 1 = Len(f)
    BY <1>1
  <2>2. SubSeq(t, i, j) = [k \in 1 .. j - i + 1 |-> t[i + k - 1]]
    BY <1>1, SubSeqProperties DEF Text
  <2> QED BY <2>1, <2>2
<1>3. f = [k \in 1 .. Len(f) |-> f[k]]
  BY LenProperties DEF Text
<1>4. \A k \in 1 .. Len(f) : t[i + k - 1] = f[k]
  <2> TAKE k \in 1 .. Len(f)
  <2>1. i + k - 1 = i - 1 + k
    BY <1>1
  <2> QED BY <2>1 DEF Stands
<1> QED
  BY <1>2, <1>3, <1>4

\* One more field behind a mark.
Longer(t, w, d) ==
  /\ w \in Text /\ Len(w) = Len(t) + 1 + Len(d)
  /\ Stands(w, Len(t) + 2, d)
  /\ \A i \in Nat \ {0}, f \in Text : Stands(t, i, f) => Stands(w, i, f)

\* A mark and a field behind a text stand behind it.
LEMMA NextField ==
  ASSUME NEW t \in Text, NEW m \in Text, Len(m) = 1, NEW d \in Text
  PROVE  Longer(t, t \o m \o d, d)
<1> DEFINE w == t \o m
           x == w \o d
<1>1. Len(t) \in Nat /\ Len(d) \in Nat
  BY LenProperties DEF Text
<1>2. w \in Text /\ Len(w) = Len(t) + Len(m)
  BY Placed
<1>3. \A i \in Nat \ {0}, f \in Text : Stands(t, i, f) => Stands(w, i, f)
  BY Kept
<1> HIDE DEF w
<1>4. x \in Text /\ Len(x) = Len(w) + Len(d) /\ Stands(x, Len(w) + 1, d)
  BY <1>2, Placed
<1>5. \A i \in Nat \ {0}, f \in Text : Stands(w, i, f) => Stands(x, i, f)
  BY <1>2, Kept
<1> HIDE DEF x
<1>6. Len(w) + Len(d) = Len(t) + 1 + Len(d) /\ Len(w) + 1 = Len(t) + 2
  BY <1>1, <1>2
<1>7. \A i \in Nat \ {0}, f \in Text : Stands(t, i, f) => Stands(x, i, f)
  BY <1>3, <1>5
<1>8. Longer(t, x, d)
  BY <1>4, <1>6, <1>7 DEF Longer
<1> QED
  BY <1>8 DEF w, x

\* Where the fields of a time stand.
Fields(t, d1, d2, d3, d4, d5, d6, d7) ==
  /\ Stands(t, 1, d1) /\ Stands(t, 6, d2) /\ Stands(t, 9, d3) /\ Stands(t, 12, d4)
  /\ Stands(t, 15, d5) /\ Stands(t, 18, d6) /\ Stands(t, 21, d7)

\* The fields of a time stand at the places a reader takes them from.
LEMMA FieldsAre ==
  ASSUME NEW d1 \in Text, Len(d1) = 4, NEW d2 \in Text, Len(d2) = 2, NEW d3 \in Text, Len(d3) = 2,
         NEW d4 \in Text, Len(d4) = 2, NEW d5 \in Text, Len(d5) = 2, NEW d6 \in Text, Len(d6) = 2,
         NEW d7 \in Text, Len(d7) = 3
  PROVE  Fields(d1 \o <<"-">> \o d2 \o <<"-">> \o d3 \o <<"T">> \o d4 \o <<":">>
                  \o d5 \o <<":">> \o d6 \o <<".">> \o d7 \o <<"Z">>,
                d1, d2, d3, d4, d5, d6, d7)
<1>1. \A m \in {"-", "T", ":", ".", "Z"} : <<m>> \in Text /\ Len(<<m>>) = 1
  <2> TAKE m \in {"-", "T", ":", ".", "Z"}
  <2>1. m \in Letters
    BY DEF Letters, Marks
  <2> QED BY <2>1, TextOfOne
<1> DEFINE dash == <<"-">>
           tee == <<"T">>
           colon == <<":">>
           dot == <<".">>
           zed == <<"Z">>
           t2 == d1 \o dash \o d2
           t3 == t2 \o dash \o d3
           t4 == t3 \o tee \o d4
           t5 == t4 \o colon \o d5
           t6 == t5 \o colon \o d6
           t7 == t6 \o dot \o d7
<1>2. /\ dash \in Text /\ Len(dash) = 1 /\ tee \in Text /\ Len(tee) = 1
      /\ colon \in Text /\ Len(colon) = 1 /\ dot \in Text /\ Len(dot) = 1 /\ zed \in Text
  BY <1>1
<1> HIDE DEF dash, tee, colon, dot, zed
<1>3. Stands(d1, 1, d1)
  <2>1. \A k \in 1 .. Len(d1) : d1[1 - 1 + k] = d1[k]
    <3> TAKE k \in 1 .. Len(d1)
    <3>1. 1 - 1 + k = k
      OBVIOUS
    <3> QED BY <3>1
  <2> QED BY <2>1 DEF Stands
<1>4. {1, 6, 9, 12, 15, 18, 21} \subseteq Nat \ {0}
  OBVIOUS
<1>5. /\ t2 \in Text /\ Len(t2) = 7 /\ Stands(t2, 6, d2)
      /\ Stands(t2, 1, d1)
  <2>1. d1 \in Text /\ Len(d1) = 4
    BY <1>3
  <2>2. Longer(d1, t2, d2)
    BY <1>2, <2>1, NextField
  <2> HIDE DEF t2
  <2>3. Len(d1) + 1 + Len(d2) = 7 /\ Len(d1) + 2 = 6
    BY <2>1
  <2> QED BY <1>4, <1>3, <2>2, <2>3 DEF Longer
<1> HIDE DEF t2
<1>6. /\ t3 \in Text /\ Len(t3) = 10 /\ Stands(t3, 9, d3)
      /\ Stands(t3, 1, d1) /\ Stands(t3, 6, d2)
  <2>1. t2 \in Text /\ Len(t2) = 7
    BY <1>5
  <2>2. Longer(t2, t3, d3)
    BY <1>2, <2>1, NextField
  <2> HIDE DEF t3
  <2>3. Len(t2) + 1 + Len(d3) = 10 /\ Len(t2) + 2 = 9
    BY <2>1
  <2> QED BY <1>4, <1>5, <2>2, <2>3 DEF Longer
<1> HIDE DEF t3
<1>7. /\ t4 \in Text /\ Len(t4) = 13 /\ Stands(t4, 12, d4)
      /\ Stands(t4, 1, d1) /\ Stands(t4, 6, d2) /\ Stands(t4, 9, d3)
  <2>1. t3 \in Text /\ Len(t3) = 10
    BY <1>6
  <2>2. Longer(t3, t4, d4)
    BY <1>2, <2>1, NextField
  <2> HIDE DEF t4
  <2>3. Len(t3) + 1 + Len(d4) = 13 /\ Len(t3) + 2 = 12
    BY <2>1
  <2> QED BY <1>4, <1>6, <2>2, <2>3 DEF Longer
<1> HIDE DEF t4
<1>8. /\ t5 \in Text /\ Len(t5) = 16 /\ Stands(t5, 15, d5)
      /\ Stands(t5, 1, d1) /\ Stands(t5, 6, d2) /\ Stands(t5, 9, d3) /\ Stands(t5, 12, d4)
  <2>1. t4 \in Text /\ Len(t4) = 13
    BY <1>7
  <2>2. Longer(t4, t5, d5)
    BY <1>2, <2>1, NextField
  <2> HIDE DEF t5
  <2>3. Len(t4) + 1 + Len(d5) = 16 /\ Len(t4) + 2 = 15
    BY <2>1
  <2> QED BY <1>4, <1>7, <2>2, <2>3 DEF Longer
<1> HIDE DEF t5
<1>9. /\ t6 \in Text /\ Len(t6) = 19 /\ Stands(t6, 18, d6)
      /\ Stands(t6, 1, d1) /\ Stands(t6, 6, d2) /\ Stands(t6, 9, d3) /\ Stands(t6, 12, d4) /\ Stands(t6, 15, d5)
  <2>1. t5 \in Text /\ Len(t5) = 16
    BY <1>8
  <2>2. Longer(t5, t6, d6)
    BY <1>2, <2>1, NextField
  <2> HIDE DEF t6
  <2>3. Len(t5) + 1 + Len(d6) = 19 /\ Len(t5) + 2 = 18
    BY <2>1
  <2> QED BY <1>4, <1>8, <2>2, <2>3 DEF Longer
<1> HIDE DEF t6
<1>10. /\ t7 \in Text /\ Len(t7) = 23 /\ Stands(t7, 21, d7)
      /\ Stands(t7, 1, d1) /\ Stands(t7, 6, d2) /\ Stands(t7, 9, d3) /\ Stands(t7, 12, d4) /\ Stands(t7, 15, d5) /\ Stands(t7, 18, d6)
  <2>1. t6 \in Text /\ Len(t6) = 19
    BY <1>9
  <2>2. Longer(t6, t7, d7)
    BY <1>2, <2>1, NextField
  <2> HIDE DEF t7
  <2>3. Len(t6) + 1 + Len(d7) = 23 /\ Len(t6) + 2 = 21
    BY <2>1
  <2> QED BY <1>4, <1>9, <2>2, <2>3 DEF Longer
<1> HIDE DEF t7
<1>11. Fields(t7 \o zed, d1, d2, d3, d4, d5, d6, d7)
  <2>1. \A i \in Nat \ {0}, f \in Text : Stands(t7, i, f) => Stands(t7 \o zed, i, f)
    BY <1>2, <1>10, Kept
  <2> QED BY <1>4, <1>10, <2>1 DEF Fields
<1> QED
  BY <1>11 DEF t2, t3, t4, t5, t6, t7, dash, tee, colon, dot, zed

-----------------------------------------------------------------------------
(***************************************************************************)
(* The time of day, and the instant it all means.                          *)
(***************************************************************************)
LEMMA DividesOnce ==
  ASSUME NEW n \in Int, NEW b \in Nat \ {0}, NEW k \in Int, NEW kb, kb = k * b, kb <= n, n < kb + b
  PROVE  n \div b = k
<1> DEFINE q == n \div b
           qb == q * b
<1>1. q \in Int /\ qb \in Int /\ qb <= n /\ n < qb + b
  BY SMT
<1>2. q < k \/ q = k \/ q > k
  BY <1>1
<1>3. CASE q < k
  <2> DEFINE r == k - q - 1
  <2>1. r \in Nat /\ r * b \in Nat
    <3>1. r \in Nat
      BY <1>1, <1>3
    <3> HIDE DEF r
    <3> QED BY <3>1
  <2>2. kb = qb + b + r * b
    <3>1. k = q + 1 + r
      BY <1>1
    <3> HIDE DEF q, r
    <3> QED BY <1>1, <2>1, <3>1 DEF qb
  <2> QED BY <1>1, <2>1, <2>2
<1>4. CASE q > k
  <2> DEFINE r == q - k - 1
  <2>1. r \in Nat /\ r * b \in Nat
    <3>1. r \in Nat
      BY <1>1, <1>4
    <3> HIDE DEF r
    <3> QED BY <3>1
  <2>2. qb = kb + b + r * b
    <3>1. q = k + 1 + r
      BY <1>1
    <3> HIDE DEF q, r
    <3> QED BY <1>1, <2>1, <3>1 DEF qb
  <2>3. kb \in Int
    BY <1>1
  <2> QED BY <1>1, <2>1, <2>2, <2>3
<1> QED
  BY <1>2, <1>3, <1>4 DEF q

\* A quotient is below a bound when the dividend is below as many divisors.
LEMMA QuotientBelow ==
  ASSUME NEW n \in Nat, NEW b \in Nat \ {0}, NEW k \in Nat, n < k * b
  PROVE  n \div b \in Nat /\ n \div b < k
<1> DEFINE q == n \div b
           qb == q * b
<1>1. q \in Nat /\ qb \in Int /\ qb <= n /\ n < qb + b
  BY SMT
<1> HIDE DEF q
<1>2. CASE q >= k
  <2> DEFINE r == q - k
  <2>1. r \in Nat /\ r * b \in Nat /\ k * b \in Nat
    <3>1. r \in Nat
      BY <1>1, <1>2
    <3> HIDE DEF r
    <3> QED BY <3>1
  <2>2. qb = k * b + r * b
    <3>1. q = k + r
      BY <1>1
    <3> HIDE DEF r
    <3> QED BY <1>1, <2>1, <3>1 DEF qb
  <2> HIDE DEF qb
  <2> DEFINE kb == k * b
             rb == r * b
  <2>3. kb \in Nat /\ rb \in Nat /\ n < kb /\ qb = kb + rb /\ qb <= n
    BY <1>1, <2>1, <2>2
  <2> HIDE DEF kb, rb
  <2> QED BY <2>3
<1>3. CASE ~(q >= k)
  BY <1>1, <1>3 DEF q
<1> QED
  BY <1>2, <1>3

\* The time of day.
LEMMA TimeOfDay ==
  ASSUME NEW sod \in Nat, sod < Day
  PROVE  /\ sod \div Hour \in Nat /\ sod \div Hour < HoursPerDay
         /\ (sod \div Sixty) % Sixty \in Nat /\ (sod \div Sixty) % Sixty < Sixty
         /\ sod % Sixty \in Nat /\ sod % Sixty < Sixty
         /\ (sod \div Hour) * Hour + ((sod \div Sixty) % Sixty) * Minute + (sod % Sixty) = sod
<1> DEFINE a == Sixty
           m == sod \div a
           s == sod % a
           h == m \div a
           i == m % a
<1>1. a \in Nat \ {0} /\ Hour = a * a /\ Minute = a /\ Day = HoursPerDay * Hour
      /\ Hour \in Nat \ {0} /\ HoursPerDay \in Nat
  BY ClockIs DEF Hour, Minute, Day
<1> HIDE DEF a
<1>2. m \in Nat /\ s \in Nat /\ s < a /\ sod = a * m + s
  BY <1>1, SMT
<1> HIDE DEF m, s
<1>3. h \in Nat /\ i \in Nat /\ i < a /\ m = a * h + i
  BY <1>1, <1>2, SMT
<1> HIDE DEF h, i
<1> DEFINE ai == a * i
           ha == h * Hour
<1>4. ai \in Nat /\ ai + a <= Hour /\ ha \in Nat
  <2>1. ai \in Nat /\ ha \in Nat
    BY <1>1, <1>3
  <2>2. ai + a <= a * a
    <3> DEFINE r == a - i - 1
    <3>1. r \in Nat
      BY <1>1, <1>3
    <3>2. a = i + 1 + r
      BY <1>1, <1>3
    <3> HIDE DEF r
    <3>3. a * a = a * i + a + a * r /\ a * r \in Nat
      <4>1. a * (i + 1 + r) = a * i + a + a * r
        BY <1>1, <1>3, <3>1
      <4>2. a * r \in Nat
        BY <1>1, <3>1
      <4> HIDE DEF ai
      <4> QED BY <3>2, <4>1, <4>2
    <3> HIDE DEF ai
    <3> DEFINE aa == a * a
               ar == a * r
    <3>4. aa = ai + a + ar /\ ar \in Nat
      BY <3>3 DEF ai
    <3> HIDE DEF aa, ar
    <3>5. ai + a <= aa
      BY <1>1, <2>1, <3>4
    <3> QED BY <3>5 DEF aa
  <2> QED BY <1>1, <2>1, <2>2
<1>5. sod = ha + ai + s
  <2>1. a * m = a * (a * h) + a * i
    BY <1>1, <1>3
  <2>2. a * (a * h) = h * (a * a)
    BY <1>1, <1>3
  <2> QED BY <1>1, <1>2, <2>1, <2>2
<1> HIDE DEF ai
<1>6. sod \div Hour = h
  <2>1. ha <= sod /\ sod < ha + Hour
    BY <1>1, <1>2, <1>4, <1>5
  <2> QED BY <1>1, <1>3, <2>1, DividesOnce
<1>7. sod \div Hour \in Nat /\ sod \div Hour < HoursPerDay
  BY <1>1, QuotientBelow
<1>8. i * Minute = ai
  BY <1>1, <1>3 DEF ai
<1>9. /\ sod \div Sixty = m /\ sod % Sixty = s /\ (sod \div Sixty) % Sixty = i
  BY DEF a, m, s, i
<1>10. h * Hour + i * Minute + s = sod
  BY <1>5, <1>8
<1>11. (sod \div Sixty) % Sixty \in Nat /\ (sod \div Sixty) % Sixty < Sixty
       /\ sod % Sixty \in Nat /\ sod % Sixty < Sixty
  BY <1>2, <1>3, <1>9, Zenon DEF a
<1>12. (sod \div Hour) * Hour + ((sod \div Sixty) % Sixty) * Minute + (sod % Sixty) = sod
  BY <1>6, <1>9, <1>10, Zenon
<1> QED
  BY <1>7, <1>11, <1>12, Zenon

\* Small numbers have few digits.
LEMMA FewDigits ==
  ASSUME NEW v \in Nat
  PROVE  /\ v < 100 => Shifted(v)[2] = 0
         /\ v < 1000 => Shifted(v)[3] = 0
         /\ v < 10000 => Shifted(v)[4] = 0
<1> DEFINE s == Shifted(v)
<1>1. {1, 2, 3, 4} \subseteq 1 .. MaxDigits
  BY DEF MaxDigits
<1>2. s[0] = v /\ s[1] = s[1 - 1] \div 10 /\ s[2] = s[2 - 1] \div 10
      /\ s[3] = s[3 - 1] \div 10 /\ s[4] = s[4 - 1] \div 10
  BY <1>1, ShiftedIs
<1> HIDE DEF s
<1>3. s[1] = v \div 10
  BY <1>2
<1>4. s[2] = s[1] \div 10 /\ s[3] = s[2] \div 10 /\ s[4] = s[3] \div 10
  BY <1>2
<1> QED
  BY <1>3, <1>4 DEF s

\* A field is worth the number written into it.
LEMMA FieldIsWorth ==
  ASSUME NEW t \in Text, NEW i \in Nat \ {0}, NEW v \in Nat, NEW n \in {2, 3, 4},
         Shifted(v)[n] = 0, Stands(t, i, Padded(v, n)), NEW j \in Nat, j = i + n - 1
  PROVE  ValueAt(t, i, j) = v
<1>1. n \in 0 .. MaxDigits
  BY DEF MaxDigits
<1>2. Padded(v, n) \in Text /\ Len(Padded(v, n)) = n
  BY <1>1, PaddedIsDigits, DigitsAreText
<1> DEFINE f == Padded(v, n)
<1>3. SubSeq(t, i, j) = Padded(v, n)
  <2>1. f \in Text /\ Stands(t, i, f) /\ j = i + Len(f) - 1
    BY <1>2
  <2> HIDE DEF f
  <2>2. SubSeq(t, i, j) = f
    BY <2>1, Taken
  <2> QED BY <2>2 DEF f
<1>4. ValueOf(Padded(v, n)) = v
  BY <1>1, PaddedIsWorth
<1> QED
  BY <1>3, <1>4 DEF ValueAt

\* A time to the millisecond: what is left of a second is rounded down.
LEMMA MillisAre ==
  ASSUME NEW rem \in Nat, rem < NsPerSecond
  PROVE  LET ms == rem \div NsPerMilli
         IN  /\ ms \in Nat /\ ms < NsPerSecond \div NsPerMilli /\ ms < 1000
             /\ rem - ms * NsPerMilli \in 0 .. NsPerMilli - 1
<1> DEFINE M == NsPerMilli
           K == NsPerSecond \div M
           ms == rem \div M
           mm == ms * M
<1>1. M \in Nat \ {0} /\ NsPerSecond \in Nat \ {0} /\ NsPerSecond % M = 0 /\ K <= 1000
  BY ClockIs, ClockAssumption
<1> HIDE DEF M
<1>2. K \in Nat /\ NsPerSecond = K * M
  BY <1>1, SMT
<1> HIDE DEF K
<1>3. ms \in Nat /\ ms < K
  <2>1. rem < K * M
    BY <1>2
  <2> QED BY <1>1, <1>2, <2>1, QuotientBelow
<1>4. mm \in Int /\ mm <= rem /\ rem < mm + M
  BY <1>1, SMT
<1> HIDE DEF mm
<1>5. rem - mm \in 0 .. M - 1
  BY <1>1, <1>4
<1>6. ms < 1000
  BY <1>1, <1>2, <1>3
<1> QED
  BY <1>3, <1>5, <1>6 DEF M, K, mm

\* A time written out means the instant it was made from.
LEMMA TimeIsInstant ==
  ASSUME NEW ns \in Int, DaysOf(SecondsOf(ns).secs) \in Days
  PROVE  IsInstant(Rfc3339(ns), ns)
<1> DEFINE s    == SecondsOf(ns)
           days == DaysOf(s.secs)
           sod  == s.secs - days * Day
           date == Civil(days)
           t    == Rfc3339(ns)
           h    == sod \div Hour
           mi   == (sod \div Sixty) % Sixty
           sec  == sod % Sixty
           ms   == s.rem \div NsPerMilli
<1>1. s.secs \in Int /\ s.rem \in Nat /\ s.rem < NsPerSecond /\ ns = s.secs * NsPerSecond + s.rem
  BY SecondsAre
<1>2. days \in Int /\ days \in Days /\ sod \in Nat /\ sod < Day
  <2> HIDE DEF s
  <2> QED BY <1>1, DayAndTime DEF s
<1>3. IsDate(date, days)
  <2> HIDE DEF days
  <2> QED BY <1>2, CivilIs
<1>4. /\ h \in Nat /\ h < HoursPerDay /\ mi \in Nat /\ mi < Sixty /\ sec \in Nat /\ sec < Sixty
      /\ h * Hour + mi * Minute + sec = sod
  <2> HIDE DEF sod
  <2> QED BY <1>2, TimeOfDay, Zenon
<1>5. /\ ms \in Nat /\ ms < NsPerSecond \div NsPerMilli /\ ms < 1000
      /\ s.rem - ms * NsPerMilli \in 0 .. NsPerMilli - 1
  <2> HIDE DEF s
  <2> QED BY <1>1, MillisAre
<1>6. t = Padded(date.y, 4) \o <<"-">> \o Padded(date.mo, 2) \o <<"-">> \o Padded(date.d, 2)
            \o <<"T">> \o Padded(h, 2) \o <<":">>
            \o Padded(mi, 2) \o <<":">> \o Padded(sec, 2)
            \o <<".">> \o Padded(ms, 3) \o <<"Z">>
  BY DEF Rfc3339
<1>7. t \in Text
  BY TimesAreText
<1> DEFINE y == date.y
           mo == date.mo
           d == date.d
<1>8. /\ y \in Nat /\ y < 10000 /\ mo \in 1 .. 12 /\ d \in 1 .. 31 /\ d <= MonthDays(y, mo)
      /\ DayNumber(y, mo, d) = days
  <2> HIDE DEF days
  <2> QED BY <1>3 DEF IsDate
<1> HIDE DEF t, h, mi, sec, ms, y, mo, d
<1>9. h < 100 /\ mi < 100 /\ sec < 100 /\ mo \in Nat /\ mo < 100 /\ d \in Nat /\ d < 100
  <2>1. HoursPerDay \in Nat /\ HoursPerDay < 100 /\ Sixty \in Nat /\ Sixty < 100
    BY ClockAssumption
  <2> QED BY <1>4, <1>8, <2>1
<1> DEFINE d1 == Padded(y, 4)
           d2 == Padded(mo, 2)
           d3 == Padded(d, 2)
           d4 == Padded(h, 2)
           d5 == Padded(mi, 2)
           d6 == Padded(sec, 2)
           d7 == Padded(ms, 3)
<1>10. \A v \in Nat, n \in {2, 3, 4} : Padded(v, n) \in Text /\ Len(Padded(v, n)) = n
  <2> TAKE v \in Nat, n \in {2, 3, 4}
  <2>1. n \in 0 .. MaxDigits
    BY DEF MaxDigits
  <2> QED BY <2>1, PaddedIsDigits, DigitsAreText
<1>11. /\ d1 \in Text /\ Len(d1) = 4 /\ d2 \in Text /\ Len(d2) = 2 /\ d3 \in Text /\ Len(d3) = 2
       /\ d4 \in Text /\ Len(d4) = 2 /\ d5 \in Text /\ Len(d5) = 2 /\ d6 \in Text /\ Len(d6) = 2
       /\ d7 \in Text /\ Len(d7) = 3
  BY <1>4, <1>5, <1>8, <1>9, <1>10
<1>12. t = d1 \o <<"-">> \o d2 \o <<"-">> \o d3 \o <<"T">> \o d4 \o <<":">>
             \o d5 \o <<":">> \o d6 \o <<".">> \o d7 \o <<"Z">>
  BY <1>6 DEF y, mo, d
<1> HIDE DEF d1, d2, d3, d4, d5, d6, d7
<1>13. Fields(t, d1, d2, d3, d4, d5, d6, d7)
  BY <1>11, <1>12, FieldsAre
<1>14. /\ Shifted(y)[4] = 0 /\ Shifted(mo)[2] = 0 /\ Shifted(d)[2] = 0 /\ Shifted(h)[2] = 0
       /\ Shifted(mi)[2] = 0 /\ Shifted(sec)[2] = 0 /\ Shifted(ms)[3] = 0
  BY <1>4, <1>5, <1>8, <1>9, FewDigits
<1>15. ValueAt(t, 1, 4) = y
  BY <1>7, <1>8, <1>13, <1>14, FieldIsWorth DEF Fields, d1
<1>16. ValueAt(t, 6, 7) = mo
  BY <1>7, <1>9, <1>13, <1>14, FieldIsWorth DEF Fields, d2
<1>17. ValueAt(t, 9, 10) = d
  BY <1>7, <1>9, <1>13, <1>14, FieldIsWorth DEF Fields, d3
<1>18. ValueAt(t, 12, 13) = h
  BY <1>4, <1>7, <1>13, <1>14, FieldIsWorth DEF Fields, d4
<1>19. ValueAt(t, 15, 16) = mi
  BY <1>4, <1>7, <1>13, <1>14, FieldIsWorth DEF Fields, d5
<1>20. ValueAt(t, 18, 19) = sec
  BY <1>4, <1>7, <1>13, <1>14, FieldIsWorth DEF Fields, d6
<1>21. ValueAt(t, 21, 23) = ms
  BY <1>5, <1>7, <1>13, <1>14, FieldIsWorth DEF Fields, d7
<1>22. DayNumber(y, mo, d) * Day + h * Hour + mi * Minute + sec = s.secs
  <2> DEFINE dd == days * Day
             hh == h * Hour
             mm == mi * Minute
             ss == s.secs
  <2>1. dd \in Int /\ hh \in Int /\ mm \in Int /\ sec \in Int /\ ss \in Int
    <3> HIDE DEF s, days
    <3> QED BY <1>1, <1>2, <1>4, ClockIs DEF ss
  <2>2. hh + mm + sec = ss - dd
    BY <1>4
  <2>3. DayNumber(y, mo, d) * Day = dd
    BY <1>8
  <2> HIDE DEF dd, hh, mm, ss
  <2>4. dd + hh + mm + sec = ss
    BY <2>1, <2>2
  <2> QED BY <2>3, <2>4 DEF hh, mm, ss
<1>23. ns - (s.secs * NsPerSecond + ms * NsPerMilli) \in 0 .. NsPerMilli - 1
  <2> DEFINE sn == s.secs * NsPerSecond
             mm == ms * NsPerMilli
             r == s.rem
  <2>1. sn \in Int /\ mm \in Int /\ r \in Int /\ ns = sn + r /\ r - mm \in 0 .. NsPerMilli - 1
    <3> HIDE DEF s
    <3> QED BY <1>1, <1>5, ClockIs
  <2> HIDE DEF sn, mm, r
  <2>2. ns - (sn + mm) = r - mm
    BY <2>1
  <2> QED BY <2>1, <2>2 DEF sn, mm, r
<1>24. d \in 1 .. MonthDays(y, mo)
  <2>1. y \in Int /\ mo \in Int
    BY <1>8
  <2>2. MonthDays(y, mo) \in Int
    BY <2>1, MonthDaysAre
  <2> QED BY <1>8, <2>2
<1> HIDE DEF s
<1> DEFINE vy  == ValueAt(t, 1, 4)
           vmo == ValueAt(t, 6, 7)
           vd  == ValueAt(t, 9, 10)
           vh  == ValueAt(t, 12, 13)
           vmi == ValueAt(t, 15, 16)
           vs  == ValueAt(t, 18, 19)
           vms == ValueAt(t, 21, 23)
           secs == DayNumber(vy, vmo, vd) * Day + vh * Hour + vmi * Minute + vs
<1>25. vy = y /\ vmo = mo /\ vd = d /\ vh = h /\ vmi = mi /\ vs = sec /\ vms = ms
  BY <1>15, <1>16, <1>17, <1>18, <1>19, <1>20, <1>21
<1> HIDE DEF vy, vmo, vd, vh, vmi, vs, vms
<1>26. ns - (secs * NsPerSecond + vms * NsPerMilli) \in 0 .. NsPerMilli - 1
  <2>1. secs = s.secs
    BY <1>22, <1>25, Zenon
  <2> HIDE DEF secs
  <2> QED BY <1>23, <1>25, <2>1, Zenon
<1>27. vmo \in 1 .. 12 /\ vd \in 1 .. MonthDays(vy, vmo)
  <2>1. vmo \in 1 .. 12
    BY <1>8, <1>25
  <2>2. MonthDays(vy, vmo) = MonthDays(y, mo)
    BY <1>25
  <2>3. vd \in 1 .. MonthDays(y, mo)
    BY <1>24, <1>25
  <2> QED BY <2>1, <2>2, <2>3
<1>28. vh < HoursPerDay /\ vmi < Sixty /\ vs < Sixty /\ vms < NsPerSecond \div NsPerMilli
  BY <1>4, <1>5, <1>25, Zenon
<1>29. IsInstant(t, ns)
  BY <1>26, <1>27, <1>28, Zenon DEF IsInstant, vy, vmo, vd, vh, vmi, vs, vms
<1> QED
  BY <1>29 DEF t

\* gw_event.c:45: every timestamp of a record that can be sent is a date and
\* time of the calendar, and the event's instant lies in its millisecond, whatever
\* the year, before and after the epoch.
THEOREM TimesAreRight == ESpec => []TimesAreTheInstants
<1>1. EventInv => TimesAreTheInstants
  <2> SUFFICES ASSUME EventInv, NEW k \in DOMAIN sent
               PROVE  LET strings == ReadBack(sent[k].line).strings
                      IN  /\ IsInstant(strings[5], sent[k].event.observed_at)
                          /\ IsInstant(strings[6], sent[k].event.emitted_at)
    BY DEF TimesAreTheInstants
  <2> DEFINE ev == sent[k].event
             r  == ReadBack(sent[k].line)
  <2>1. ev \in Occurrences /\ SaidIn(ev, r)
    BY SentIsRecord
  <2> HIDE DEF ev, r
  <2>2. Tellable(ev)
    BY <2>1, EventsAssumption
  <2>3. \A ns \in {ev.observed_at, ev.emitted_at} : ns \in Int /\ DaysOf(SecondsOf(ns).secs) \in Days
    BY <2>2 DEF Tellable
  <2>4. IsInstant(Rfc3339(ev.observed_at), ev.observed_at)
    BY <2>3, TimeIsInstant
  <2>5. IsInstant(Rfc3339(ev.emitted_at), ev.emitted_at)
    BY <2>3, TimeIsInstant
  <2>6. IsInstant(r.strings[5], ev.observed_at) /\ IsInstant(r.strings[6], ev.emitted_at)
    BY <2>1, <2>4, <2>5, Zenon DEF SaidIn
  <2> QED BY <2>6, Zenon DEF ev, r
<1> QED
  BY <1>1, EventInvHolds, PTL
=============================================================================
