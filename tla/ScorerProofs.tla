---------------------------- MODULE ScorerProofs ----------------------------
(***************************************************************************)
(* What the scorer's f64 arithmetic preserves, for any number of checker   *)
(* results in any order.  Rounding never moves a score to other hundredths *)
(* (RoundKeepsHundredths), so the loop of compute_safety_score subtracts   *)
(* the penalties exactly (ScoreCoversEveryPenalty).                        *)
(***************************************************************************)
EXTENDS Scorer, WellFoundedInduction, TLAPS

\* A non-empty set of naturals has a least element: the induction of this module.
LEMMA LeastNat ==
  ASSUME NEW S \in SUBSET Nat, S # {}
  PROVE  \E x \in S : \A y \in S : x <= y
<1> DEFINE R == {ss \in Nat \X Nat : ss[1] < ss[2]}
<1>1. IsWellFoundedOn(R, Nat)
  BY NatLessThanWellFounded DEF OpToRel
<1> HIDE DEF R
<1>2. PICK x \in S : \A y \in S : ~(<<y, x>> \in R)
  BY <1>1, WFMin
<1>3. ASSUME NEW y \in S PROVE x <= y
  <2>1. x \in Nat /\ y \in Nat
    OBVIOUS
  <2>2. y < x => <<y, x>> \in R
    BY <2>1 DEF R
  <2> QED
    BY <1>2, <2>1, <2>2
<1> QED
  BY <1>3

\* The quanta a double below 1.0 is rounded to.
Quanta == {100, 200, 400, 800, 1600, 3200}

\* Rounding moves a number by at most half a quantum, to a multiple of it, and leaves
\* a multiple alone.
LEMMA RoundingIsNearest ==
  ASSUME NEW k \in Int, NEW q \in Quanta
  PROVE  /\ Rounding(k, q) \in Int
         /\ 2 * Rounding(k, q) <= q /\ -q <= 2 * Rounding(k, q)
         /\ (k + Rounding(k, q)) % q = 0
         /\ k % q = 0 => Rounding(k, q) = 0
<1>1. CASE q = 100
  BY <1>1 DEF Rounding
<1>2. CASE q = 200
  BY <1>2 DEF Rounding
<1>3. CASE q = 400
  BY <1>3 DEF Rounding
<1>4. CASE q = 800
  BY <1>4 DEF Rounding
<1>5. CASE q = 1600
  BY <1>5 DEF Rounding
<1>6. CASE q = 3200
  BY <1>6 DEF Rounding
<1> QED
  BY <1>1, <1>2, <1>3, <1>4, <1>5, <1>6 DEF Quanta

\* The quantum of a number is one of six.
LEMMA QuantumType ==
  ASSUME NEW n \in Number
  PROVE  /\ 100 * Ulp(n.h, n.e) \in Quanta
         /\ n.h * TwoTo58 + n.e \in Int
<1>1. Ulp(n.h, n.e) \in {1, 2, 4, 8, 16, 32}
  BY DEF Ulp
<1> QED
  BY <1>1 DEF Number, TwoTo58, Quanta

\* Rounding changes the error term, by at most half of the largest quantum.
LEMMA RoundErrs ==
  ASSUME NEW n \in Number
  PROVE  \E r \in Int : -1600 <= r /\ r <= 1600 /\ RoundToF64[n] = [h |-> n.h, e |-> n.e + r]
<1> DEFINE k == n.h * TwoTo58 + n.e
           q == 100 * Ulp(n.h, n.e)
           r == Rounding(k, q)
<1>1. k \in Int /\ q \in Quanta
  BY QuantumType
<1>2. RoundToF64[n] = [h |-> n.h, e |-> n.e + r]
  <2>1. n = [h |-> n.h, e |-> n.e]
    BY DEF Number
  <2> QED
    BY <2>1 DEF RoundToF64
<1> HIDE DEF k, q
<1>3. r \in Int /\ 2 * r <= q /\ -q <= 2 * r
  BY <1>1, RoundingIsNearest
<1> HIDE DEF r
<1>4. -1600 <= r /\ r <= 1600
  BY <1>1, <1>3 DEF Quanta
<1> QED
  BY <1>2, <1>3, <1>4

\* Rounding keeps the hundredths.
LEMMA RoundKeepsHundredths ==
  ASSUME NEW n \in Number
  PROVE  RoundToF64[n] \in Number /\ RoundToF64[n].h = n.h
<1>1. PICK r \in Int : RoundToF64[n] = [h |-> n.h, e |-> n.e + r]
  BY RoundErrs
<1> QED
  BY <1>1 DEF Number

\* The literals and the penalties.
LEMMA Literals ==
  /\ \A h \in Int : F64(h) \in Number /\ F64(h).h = h
  /\ \A s \in CheckerStatus : Penalty(s) \in {0, 5, 10, 15, 40, 100}
<1>1. ASSUME NEW h \in Int PROVE F64(h) \in Number /\ F64(h).h = h
  <2>1. [h |-> h, e |-> 0] \in Number
    BY DEF Number
  <2> QED
    BY <2>1, RoundKeepsHundredths DEF F64
<1>2. \A s \in CheckerStatus : Penalty(s) \in {0, 5, 10, 15, 40, 100}
  BY DEF CheckerStatus, Severity, Penalty
<1> QED
  BY <1>1, <1>2

\* One result costs its penalty, exactly.
LEMMA PenaliseIsExact ==
  ASSUME NEW score \in Number, NEW s \in CheckerStatus
  PROVE  Penalise(score, s) \in Number /\ Penalise(score, s).h = score.h - Penalty(s)
<1> DEFINE p == F64(Penalty(s))
<1>1. Penalty(s) \in Int
  BY Literals
<1>2. p \in Number /\ p.h = Penalty(s)
  BY <1>1, Literals
<1> HIDE DEF p
<1>3. score.h \in Int /\ score.e \in Int /\ p.h \in Int /\ p.e \in Int
  BY <1>2 DEF Number
<1>4. [h |-> score.h - p.h, e |-> score.e - p.e] \in Number
  BY <1>3 DEF Number
<1>5. Penalise(score, s) = RoundToF64[[h |-> score.h - p.h, e |-> score.e - p.e]]
  BY DEF Penalise, SubF64, p
<1> QED
  BY <1>2, <1>4, <1>5, RoundKeepsHundredths

\* Clamping keeps the hundredths of a score that is not negative.
LEMMA ClampIsExact ==
  ASSUME NEW score \in Number
  PROVE  Clamp(score) \in Number /\ Clamp(score).h = IF score.h >= 0 THEN score.h ELSE 0
<1>1. F64(0) \in Number /\ F64(0).h = 0
  BY Literals
<1> QED
  BY <1>1 DEF Clamp, GeqF64, Number

\* A number that is a double.
OnGrid(n) == (n.h * TwoTo58 + n.e) % (100 * Ulp(n.h, n.e)) = 0

\* A score on its way: a double whose error is at most 640 for every hundredth of
\* penalty.  A penalty is at least five hundredths, and one subtraction adds the
\* rounding of its result and that of the penalty's literal.
Accurate(n) ==
    /\ n \in Number /\ OnGrid(n)
    /\ n.h <= 100 /\ n.e <= 640 * (100 - n.h) /\ -640 * (100 - n.h) <= n.e

\* The last place changes within one hundredth only at 0.50 and at 0.25.
LEMMA UlpWithinHundredth ==
  ASSUME NEW h \in Int, NEW e \in Int, NEW f \in Int, h \notin {25, 50}
  PROVE  Ulp(h, e) = Ulp(h, f)
BY DEF Ulp

\* Rounding lands on the grid, and leaves what is already there.
LEMMA RoundLands ==
  ASSUME NEW n \in Number
  PROVE  OnGrid(RoundToF64[n]) /\ (OnGrid(n) => RoundToF64[n] = n)
<1> DEFINE k == n.h * TwoTo58 + n.e
           q == 100 * Ulp(n.h, n.e)
           r == Rounding(k, q)
<1>1. n.h \in Int /\ n.e \in Int /\ n = [h |-> n.h, e |-> n.e]
  BY DEF Number
<1>2. k \in Int /\ q \in Quanta
  BY QuantumType
<1>3. r \in Int /\ 2 * r <= q /\ -q <= 2 * r /\ (k + r) % q = 0 /\ (k % q = 0 => r = 0)
  BY <1>2, RoundingIsNearest
<1>4. RoundToF64[n] = [h |-> n.h, e |-> n.e + r]
  BY <1>1 DEF RoundToF64
<1>5. OnGrid(n) => RoundToF64[n] = n
  <2> SUFFICES ASSUME OnGrid(n) PROVE RoundToF64[n] = n
    OBVIOUS
  <2>1. r = 0
    BY <1>3 DEF OnGrid
  <2> HIDE DEF r
  <2> QED
    BY <1>1, <1>4, <2>1
<1>6. (n.h * TwoTo58 + (n.e + r)) % (100 * Ulp(n.h, n.e + r)) = 0
  <2>1. n.h * TwoTo58 + (n.e + r) = k + r
    BY <1>1, <1>3 DEF TwoTo58
  <2>2. CASE n.h \notin {25, 50}
    <3>1. n.e + r \in Int
      BY <1>1, <1>3
    <3>2. Ulp(n.h, n.e + r) = Ulp(n.h, n.e)
      BY <1>1, <2>2, <3>1, UlpWithinHundredth
    <3> QED
      BY <1>3, <2>1, <3>2
  <2>3. CASE n.h = 50
    <3>1. k = 307200 + n.e
      BY <1>1, <2>3 DEF TwoTo58
    <3>2. CASE n.e >= 0
      <4>1. q = 3200
        BY <1>1, <2>3, <3>2 DEF Ulp
      <4> HIDE DEF k, q, r
      <4>2. n.e + r >= 0
        BY <1>1, <1>3, <3>1, <3>2, <4>1
      <4>3. Ulp(n.h, n.e + r) = 32
        BY <1>1, <1>3, <2>3, <4>2 DEF Ulp
      <4> QED
        BY <1>3, <2>1, <4>1, <4>3
    <3>3. CASE n.e < 0
      <4>1. q = 1600
        BY <1>1, <2>3, <3>3 DEF Ulp
      <4> HIDE DEF k, q, r
      <4>2. n.e + r <= 0
        BY <1>1, <1>3, <3>1, <3>3, <4>1
      <4>3. CASE n.e + r = 0
        <5>1. k + r = 307200 /\ Ulp(n.h, n.e + r) = 32
          BY <1>1, <1>3, <2>3, <3>1, <4>3 DEF Ulp
        <5> QED
          BY <2>1, <5>1
      <4>4. CASE n.e + r < 0
        <5>1. Ulp(n.h, n.e + r) = 16
          BY <1>1, <1>3, <2>3, <4>4 DEF Ulp
        <5> QED
          BY <1>3, <2>1, <4>1, <5>1
      <4> QED
        BY <1>1, <1>3, <4>2, <4>3, <4>4
    <3> QED
      BY <1>1, <3>2, <3>3
  <2>4. CASE n.h = 25
    <3>1. k = 153600 + n.e
      BY <1>1, <2>4 DEF TwoTo58
    <3>2. CASE n.e >= 0
      <4>1. q = 1600
        BY <1>1, <2>4, <3>2 DEF Ulp
      <4> HIDE DEF k, q, r
      <4>2. n.e + r >= 0
        BY <1>1, <1>3, <3>1, <3>2, <4>1
      <4>3. Ulp(n.h, n.e + r) = 16
        BY <1>1, <1>3, <2>4, <4>2 DEF Ulp
      <4> QED
        BY <1>3, <2>1, <4>1, <4>3
    <3>3. CASE n.e < 0
      <4>1. q = 800
        BY <1>1, <2>4, <3>3 DEF Ulp
      <4> HIDE DEF k, q, r
      <4>2. n.e + r <= 0
        BY <1>1, <1>3, <3>1, <3>3, <4>1
      <4>3. CASE n.e + r = 0
        <5>1. k + r = 153600 /\ Ulp(n.h, n.e + r) = 16
          BY <1>1, <1>3, <2>4, <3>1, <4>3 DEF Ulp
        <5> QED
          BY <2>1, <5>1
      <4>4. CASE n.e + r < 0
        <5>1. Ulp(n.h, n.e + r) = 8
          BY <1>1, <1>3, <2>4, <4>4 DEF Ulp
        <5> QED
          BY <1>3, <2>1, <4>1, <5>1
      <4> QED
        BY <1>1, <1>3, <4>2, <4>3, <4>4
    <3> QED
      BY <1>1, <3>2, <3>3
  <2> QED
    BY <2>2, <2>3, <2>4
<1> QED
  BY <1>4, <1>5, <1>6 DEF OnGrid

\* Subtracting 0.0 leaves a double.
LEMMA SubtractingZero ==
  ASSUME NEW n \in Number, OnGrid(n)
  PROVE  SubF64(n, F64(0)) = n
<1>1. F64(0) = [h |-> 0, e |-> 0]
  <2>1. [h |-> 0, e |-> 0] \in Number /\ OnGrid([h |-> 0, e |-> 0])
    BY DEF Number, OnGrid, Ulp, TwoTo58
  <2> QED
    BY <2>1, RoundLands DEF F64
<1>2. SubF64(n, F64(0)) = RoundToF64[[h |-> n.h - 0, e |-> n.e - 0]]
  BY <1>1 DEF SubF64
<1>3. n = [h |-> n.h - 0, e |-> n.e - 0]
  BY DEF Number
<1> QED
  BY <1>2, <1>3, RoundLands

\* One subtraction adds the error of the penalty's literal and that of its own result.
LEMMA PenaliseErrs ==
  ASSUME NEW n \in Number, NEW s \in CheckerStatus
  PROVE  \E d \in Int : -3200 <= d /\ d <= 3200 /\ Penalise(n, s).e = n.e + d
<1> DEFINE p == Penalty(s)
<1>1. p \in Int /\ [h |-> p, e |-> 0] \in Number
  BY Literals DEF Number
<1> HIDE DEF p
<1>2. PICK a \in Int : -1600 <= a /\ a <= 1600 /\ F64(p) = [h |-> p, e |-> 0 + a]
  <2>1. \E r \in Int : /\ -1600 <= r /\ r <= 1600
                       /\ RoundToF64[[h |-> p, e |-> 0]] = [h |-> p, e |-> 0 + r]
    BY <1>1, RoundErrs
  <2> QED
    BY <2>1 DEF F64
<1> DEFINE exact == [h |-> n.h - p, e |-> n.e - a]
<1>3. exact \in Number /\ n.e \in Int
  BY <1>1, <1>2 DEF Number
<1>4. Penalise(n, s) = RoundToF64[exact]
  <2>1. Penalise(n, s) = RoundToF64[[h |-> n.h - F64(p).h, e |-> n.e - F64(p).e]]
    BY DEF Penalise, SubF64, p
  <2>2. F64(p).h = p /\ F64(p).e = a
    BY <1>2
  <2> QED
    BY <2>1, <2>2
<1>5. PICK b \in Int : /\ -1600 <= b /\ b <= 1600
                       /\ RoundToF64[exact] = [h |-> exact.h, e |-> exact.e + b]
  BY <1>3, RoundErrs
<1>6. Penalise(n, s).e = n.e - a + b
  BY <1>4, <1>5
<1>7. b - a \in Int /\ -3200 <= b - a /\ b - a <= 3200 /\ n.e - a + b = n.e + (b - a)
  BY <1>2, <1>3, <1>5
<1> QED
  BY <1>6, <1>7

\* The loop starts at 1.0, and clamping ends at 0.0.
LEMMA AccurateLiterals ==
  /\ F64(100) = [h |-> 100, e |-> 0] /\ Accurate(F64(100))
  /\ F64(0) = [h |-> 0, e |-> 0] /\ Accurate(F64(0))
<1>1. /\ [h |-> 100, e |-> 0] \in Number /\ OnGrid([h |-> 100, e |-> 0])
      /\ [h |-> 0, e |-> 0] \in Number /\ OnGrid([h |-> 0, e |-> 0])
  BY DEF Number, OnGrid, Ulp, TwoTo58
<1>2. F64(100) = [h |-> 100, e |-> 0] /\ F64(0) = [h |-> 0, e |-> 0]
  BY <1>1, RoundLands DEF F64
<1> QED
  BY <1>1, <1>2 DEF Accurate

\* A result keeps the error of the running score within its bound.
LEMMA PenaliseKeepsAccurate ==
  ASSUME NEW n, Accurate(n), NEW s \in CheckerStatus
  PROVE  Accurate(Penalise(n, s))
<1> DEFINE m == Penalise(n, s)
<1>1. n \in Number /\ n.h \in Int /\ n.e \in Int /\ Penalty(s) \in Int
  BY Literals DEF Accurate, Number
<1>2. m \in Number /\ m.h = n.h - Penalty(s)
  BY <1>1, PenaliseIsExact
<1>3. OnGrid(m)
  <2> DEFINE p == F64(Penalty(s))
             exact == [h |-> n.h - p.h, e |-> n.e - p.e]
  <2>1. p \in Number
    BY <1>1, Literals
  <2>2. exact \in Number
    BY <1>1, <2>1 DEF Number
  <2>3. m = RoundToF64[exact]
    BY DEF Penalise, SubF64
  <2> QED
    BY <2>2, <2>3, RoundLands
<1> HIDE DEF m
<1>4. CASE Penalty(s) = 0
  <2>1. m = n
    BY <1>1, <1>4, SubtractingZero DEF Penalise, Accurate, m
  <2> QED
    BY <2>1 DEF m
<1>5. CASE Penalty(s) # 0
  <2>1. PICK d \in Int : -3200 <= d /\ d <= 3200 /\ m.e = n.e + d
    BY <1>1, PenaliseErrs DEF m
  <2>2. Penalty(s) >= 5
    BY <1>5, Literals
  <2>3. n.h <= 100 /\ n.e <= 640 * (100 - n.h) /\ -640 * (100 - n.h) <= n.e
    BY DEF Accurate
  <2>4. m.h <= 100 /\ m.e <= 640 * (100 - m.h) /\ -640 * (100 - m.h) <= m.e
    BY <1>1, <1>2, <2>1, <2>2, <2>3
  <2> QED
    BY <1>2, <1>3, <2>4 DEF Accurate, m
<1> QED
  BY <1>4, <1>5
----------------------------------------------------------------------------
(* encode_score_u16.                                                       *)

\* A clamped score is still an accurate one, and its error is at most 64000, in units
\* of 1/(100 * 2^58).
LEMMA ClampKeepsAccurate ==
  ASSUME NEW n, Accurate(n)
  PROVE  /\ Accurate(Clamp(n))
         /\ Clamp(n).h \in 0..100 /\ Clamp(n).h = IF n.h >= 0 THEN n.h ELSE 0
         /\ Clamp(n).e \in Int /\ -64000 <= Clamp(n).e /\ Clamp(n).e <= 64000
<1>1. /\ n.h \in Int /\ n.e \in Int /\ n.h <= 100
      /\ n.e <= 640 * (100 - n.h) /\ -640 * (100 - n.h) <= n.e
  BY DEF Accurate, Number
<1>2. F64(0).h = 0 /\ F64(0).e = 0 /\ Accurate(F64(0))
  BY AccurateLiterals
<1>3. CASE GeqF64(n, F64(0))
  <2>1. Clamp(n) = n /\ n.h >= 0
    BY <1>1, <1>2, <1>3 DEF Clamp, GeqF64
  <2> QED
    BY <1>1, <2>1
<1>4. CASE ~GeqF64(n, F64(0))
  <2>1. Clamp(n) = F64(0) /\ n.h <= 0
    BY <1>1, <1>2, <1>4 DEF Clamp, GeqF64
  <2> QED
    BY <1>1, <1>2, <2>1
<1> QED
  BY <1>3, <1>4

\* At most one unit in the last place of 10000.0, up or down.
IsProductError(r) == r \in Int /\ -524288 <= r /\ r <= 524288

\* Rounding the product to a double moves it by at most one unit in the last place.
LEMMA ProductErrs ==
  ASSUME NEW k \in Int, NEW h \in Int
  PROVE  IsProductError(Rounding(k, ProductUlp(h)))
<1> DEFINE q == ProductUlp(h)
           place == k % (2 * q)
           rest == place % q
<1>1. q \in {524288, 262144, 131072, 65536, 32768, 16384, 8192, 4096, 1}
  BY DEF ProductUlp
<1> HIDE DEF q
<1>2. q \in Int /\ q > 0 /\ q <= 524288 /\ 2 * q \in Int /\ 2 * q > 0
  BY <1>1
<1>3. place \in Int
  BY <1>2
<1> HIDE DEF place
<1>4. rest \in Int /\ 0 <= rest /\ rest < q
  BY <1>2, <1>3
<1> HIDE DEF rest
<1>5. Rounding(k, q) \in {q - rest, -rest}
  BY DEF Rounding, place, rest
<1>6. Rounding(k, q) \in Int /\ -524288 <= Rounding(k, q) /\ Rounding(k, q) <= 524288
  BY <1>2, <1>4, <1>5
<1> QED
  BY <1>6 DEF q, IsProductError

\* The signed score is the hundredths of the running score, clamped: its error reaches
\* the product magnified a hundred times, and is still far below the 2^57 that round()
\* absorbs.
LEMMA EncodeIsExact ==
  ASSUME NEW n, Accurate(n)
  PROVE  encode_score_u16(n) = 100 * Clamp(n).h
<1> DEFINE c == Clamp(n)
           r == Rounding(100 * c.e, ProductUlp(c.h))
           rest == 100 * c.e + r
<1>1. c.e \in Int /\ c.h \in Int /\ -64000 <= c.e /\ c.e <= 64000
  BY ClampKeepsAccurate
<1> HIDE DEF c
<1>2. r \in Int /\ -524288 <= r /\ r <= 524288
  <2>1. 100 * c.e \in Int
    BY <1>1
  <2>2. IsProductError(r)
    BY <1>1, <2>1, ProductErrs
  <2> QED
    BY <2>2 DEF IsProductError
<1> HIDE DEF r
<1>3. rest \in Int /\ -6924288 <= rest /\ rest <= 6924288
  BY <1>1, <1>2
<1>4. encode_score_u16(n) = 100 * c.h + ((rest \div TwoTo29) + TwoTo28) \div TwoTo29
  BY DEF encode_score_u16, RoundProduct, TimesTenThousand, c, r
<1> HIDE DEF rest
<1>5. rest \div TwoTo29 \in {-1, 0}
  BY <1>3 DEF TwoTo29
<1>6. ((rest \div TwoTo29) + TwoTo28) \div TwoTo29 = 0
  BY <1>5 DEF TwoTo28, TwoTo29
<1> QED
  BY <1>1, <1>4, <1>6 DEF c
----------------------------------------------------------------------------
(* score_to_verdict.                                                       *)

\* The literals of score_to_verdict separate the hundredths they name.
LEMMA VerdictNeedsHundredths ==
  ASSUME NEW score \in Number, NEW reported
  PROVE  /\ score_to_verdict(score, reported) \in {"APPROVE", "WARN", "BLOCK"}
         /\ score_to_verdict(score, reported) = "APPROVE"
               => score.h >= 70 /\ "Critical" \notin reported
         /\ score_to_verdict(score, reported) = "WARN"
               => score.h >= 40 /\ "Critical" \notin reported
<1>1. F64(70).h = 70 /\ F64(40).h = 40
  BY Literals
<1>2. score.h \in Int
  BY DEF Number
<1> QED
  BY <1>1, <1>2 DEF score_to_verdict, GeqF64
----------------------------------------------------------------------------
(* The loop of compute_safety_score.                                       *)

\* f holds the running scores of the loop over the first n results.
IsLoop(f, statuses, n) ==
    f = [i \in 0..n |-> IF i = 0 THEN F64(100) ELSE Penalise(f[i - 1], statuses[i])]

\* The loop has running scores, for every number of results.
LEMMA LoopExists ==
  ASSUME NEW statuses, NEW n \in Nat
  PROVE  \E f : IsLoop(f, statuses, n)
<1> DEFINE Bad == {m \in Nat : ~ \E f : IsLoop(f, statuses, m)}
<1> SUFFICES ASSUME Bad # {} PROVE FALSE
  OBVIOUS
<1>1. PICK m \in Bad : \A k \in Bad : m <= k
  BY LeastNat
<1>2. m # 0
  <2> DEFINE f == [i \in 0..0 |-> F64(100)]
  <2>1. IsLoop(f, statuses, 0)
    BY DEF IsLoop
  <2> QED
    BY <2>1
<1>3. m - 1 \in Nat /\ m - 1 \notin Bad
  BY <1>1, <1>2
<1>4. PICK f : IsLoop(f, statuses, m - 1)
  BY <1>3
<1> DEFINE g == [i \in 0..m |-> IF i = m THEN Penalise(f[m - 1], statuses[m]) ELSE f[i]]
<1>5. \A i \in 0..(m - 1) : g[i] = f[i]
  BY <1>3
<1>6. \A i \in 0..m : g[i] = IF i = 0 THEN F64(100) ELSE Penalise(g[i - 1], statuses[i])
  <2> SUFFICES ASSUME NEW i \in 0..m
               PROVE  g[i] = IF i = 0 THEN F64(100) ELSE Penalise(g[i - 1], statuses[i])
    OBVIOUS
  <2>1. CASE i = m
    <3>1. g[i] = Penalise(f[m - 1], statuses[m]) /\ g[m - 1] = f[m - 1]
      BY <1>3, <1>5, <2>1
    <3> QED
      BY <1>2, <2>1, <3>1
  <2>2. CASE i # m
    <3>1. i \in 0..(m - 1)
      BY <1>3, <2>2
    <3>2. f[i] = IF i = 0 THEN F64(100) ELSE Penalise(f[i - 1], statuses[i])
      BY <1>4, <3>1 DEF IsLoop
    <3>3. g[i] = f[i] /\ (i # 0 => g[i - 1] = f[i - 1])
      BY <1>3, <1>5, <3>1
    <3> QED
      BY <3>2, <3>3
  <2> QED
    BY <2>1, <2>2
<1> HIDE DEF Bad
<1>7. g = [i \in 0..m |-> g[i]]
  OBVIOUS
<1> HIDE DEF g
<1>8. IsLoop(g, statuses, m)
  BY <1>6, <1>7 DEF IsLoop
<1> QED
  BY <1>8 DEF Bad

\* The running score has paid for every result taken so far.
LEMMA LoopPaysEveryPenalty ==
  ASSUME NEW n \in Nat, NEW statuses, \A i \in 1..n : statuses[i] \in CheckerStatus,
         NEW f, IsLoop(f, statuses, n)
  PROVE  /\ Accurate(f[n])
         /\ \A j \in 1..n : f[n].h <= 100 - Penalty(statuses[j])
<1> DEFINE Paid(i) == /\ Accurate(f[i])
                      /\ \A j \in 1..i : f[i].h <= 100 - Penalty(statuses[j])
           Bad == {i \in 0..n : ~Paid(i)}
<1> SUFFICES ASSUME Bad # {} PROVE FALSE
  OBVIOUS
<1> HIDE DEF Paid
<1>1. PICK m \in Bad : \A k \in Bad : m <= k
  <2>1. Bad \in SUBSET Nat
    OBVIOUS
  <2> HIDE DEF Bad
  <2> QED
    BY <2>1, LeastNat
<1> USE DEF Paid
<1>2. m \in 0..n /\ ~Paid(m)
  OBVIOUS
<1>3. f[0] = F64(100) /\ (m # 0 => f[m] = Penalise(f[m - 1], statuses[m]))
  BY <1>2 DEF IsLoop
<1>4. m # 0
  <2>1. Accurate(f[0])
    BY <1>3, AccurateLiterals
  <2>2. Paid(0)
    BY <2>1
  <2> QED
    BY <1>2, <2>2
<1>5. Paid(m - 1)
  <2>1. m - 1 \in 0..n /\ m - 1 \notin Bad
    BY <1>1, <1>2, <1>4
  <2> QED
    BY <2>1
<1>6. /\ Accurate(f[m]) /\ f[m].h = f[m - 1].h - Penalty(statuses[m])
      /\ Penalty(statuses[m]) \in Nat /\ f[m - 1].h \in Int /\ f[m - 1].h <= 100
  <2>1. statuses[m] \in CheckerStatus
    BY <1>2, <1>4
  <2>2. Accurate(f[m - 1]) /\ f[m - 1] \in Number /\ f[m - 1].h <= 100
    BY <1>5 DEF Accurate
  <2>3. Penalty(statuses[m]) \in Nat
    BY <2>1, Literals
  <2> QED
    BY <1>3, <1>4, <2>1, <2>2, <2>3, PenaliseIsExact, PenaliseKeepsAccurate DEF Number
<1>7. ASSUME NEW j \in 1..m PROVE f[m].h <= 100 - Penalty(statuses[j])
  <2>1. CASE j = m
    BY <1>5, <1>6, <2>1
  <2>2. CASE j # m
    <3>1. j \in 1..(m - 1) /\ statuses[j] \in CheckerStatus
      BY <1>2, <2>2
    <3>2. Penalty(statuses[j]) \in Int
      BY <3>1, Literals
    <3>3. f[m - 1].h <= 100 - Penalty(statuses[j])
      BY <1>5, <3>1
    <3> QED
      BY <1>6, <3>2, <3>3
  <2> QED
    BY <2>1, <2>2
<1>8. Paid(m)
  BY <1>5, <1>6, <1>7
<1> QED
  BY <1>2, <1>8

\* The score of compute_safety_score lies between 0 and 1 and no result leaves it too
\* high, whatever the order of the results: it is at most one minus each penalty.  It
\* is signed exactly, as a number that cannot be taken for the sentinel of a TIMEOUT.
THEOREM ScoreCoversEveryPenalty ==
  ASSUME NEW statuses \in Seq(CheckerStatus)
  PROVE  /\ compute_safety_score(statuses) \in Number
         /\ \A j \in 1..Len(statuses) :
               compute_safety_score(statuses).h <= 100 - Penalty(statuses[j])
         /\ compute_safety_score(statuses).h \in 0..100
         /\ encode_score_u16(compute_safety_score(statuses)) = 100 * compute_safety_score(statuses).h
<1> DEFINE n == Len(statuses)
           IsScore(g) == g = [i \in 0..n |-> IF i = 0 THEN F64(100)
                                             ELSE Penalise(g[i - 1], statuses[i])]
           f == CHOOSE g : IsScore(g)
<1>1. n \in Nat /\ \A i \in 1..n : statuses[i] \in CheckerStatus
  OBVIOUS
<1>2. \E g : IsScore(g)
  BY <1>1, LoopExists DEF IsLoop
<1>3. IsScore(f)
  BY <1>2
<1>4. compute_safety_score(statuses) = Clamp(f[n])
  BY DEF compute_safety_score
<1> HIDE DEF f, n
<1>5. /\ Accurate(f[n]) /\ f[n] \in Number
      /\ \A j \in 1..n : f[n].h <= 100 - Penalty(statuses[j])
  <2>1. IsLoop(f, statuses, n)
    BY <1>3 DEF IsLoop
  <2> HIDE DEF IsScore
  <2> QED
    BY <1>1, <2>1, LoopPaysEveryPenalty DEF Accurate
<1> DEFINE c == Clamp(f[n])
<1>6. /\ c \in Number /\ Accurate(c) /\ c.h \in 0..100
      /\ c.h = IF f[n].h >= 0 THEN f[n].h ELSE 0
  BY <1>5, ClampKeepsAccurate DEF Accurate
<1>7. ASSUME NEW j \in 1..n PROVE Clamp(f[n]).h <= 100 - Penalty(statuses[j])
  <2>1. Penalty(statuses[j]) \in Int /\ Penalty(statuses[j]) <= 100
    BY <1>1, Literals
  <2>2. f[n].h \in Int /\ f[n].h <= 100 - Penalty(statuses[j])
    BY <1>5 DEF Number
  <2> QED
    BY <1>6, <2>1, <2>2
<1>8. encode_score_u16(c) = 100 * c.h
  <2>1. encode_score_u16(c) = 100 * Clamp(c).h /\ Clamp(c).h = IF c.h >= 0 THEN c.h ELSE 0
    BY <1>6, EncodeIsExact, ClampKeepsAccurate
  <2> QED
    BY <1>6, <2>1
<1> QED
  BY <1>4, <1>6, <1>7, <1>8 DEF n
=============================================================================
