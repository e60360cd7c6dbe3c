------------------------------- MODULE Scorer -------------------------------
(***************************************************************************)
(* The penalty scorer of the verdict pipeline                              *)
(* (crates/ciel-pipeline/src/scorer_stub.rs).  The code subtracts one f64  *)
(* penalty per checker, in the iteration order of a HashMap, and compares  *)
(* the result with the literals 0.7 and 0.4.  Rounding decides the verdict *)
(* at the thresholds, so the f64 subtraction is modelled exactly.          *)
(*                                                                         *)
(* A double is a record [h, e]: the number h/100 + e/(100 * 2^58).  Every  *)
(* value the scorer produces is a multiple of 0.05 up to rounding, so h is *)
(* that multiple in hundredths and e the accumulated rounding error.       *)
(***************************************************************************)
EXTENDS Integers, Sequences

Severity == {"None", "Low", "Medium", "High", "Critical"}

\* CheckerStatus: Completed(output), of which only the severity matters here,
\* or TimedOut.
CheckerStatus == Severity \cup {"TimedOut"}

Verdict == {"APPROVE", "WARN", "BLOCK", "TIMEOUT"}

\* 2^58 modulo 6400 = 2 * 100 * 32: what rounding to any ulp below needs of it.
TwoTo58 == 6144

\* One unit in the last place of h/100, in units of 2^-58.
Ulp(h, e) ==
    CASE h > 50 \/ (h = 50 /\ e >= 0) -> 32
      [] h \in 26..49 \/ (h = 50 /\ e < 0) \/ (h = 25 /\ e >= 0) -> 16
      [] h \in 13..24 \/ (h = 25 /\ e < 0) -> 8
      [] h \in 7..12 -> 4
      [] h \in 4..6 -> 2
      [] OTHER -> 1

Number == [h : Int, e : Int]

\* What rounding k to a multiple of q adds to it: the nearest multiple, ties to even.
Rounding(k, q) ==
    LET place == k % (2 * q)
        rest  == place % q
        up    == 2 * rest > q \/ (2 * rest = q /\ place >= q)
    IN  IF up THEN q - rest ELSE -rest

\* The double nearest to a number.
RoundToF64[n \in Number] ==
    [n EXCEPT !.e = @ + Rounding(n.h * TwoTo58 + n.e, 100 * Ulp(n.h, n.e))]

\* The literal h/100.
F64(h) == RoundToF64[[h |-> h, e |-> 0]]

SubF64(x, y) == RoundToF64[[h |-> x.h - y.h, e |-> x.e - y.e]]

GeqF64(x, y) == x.h > y.h \/ (x.h = y.h /\ x.e >= y.e)

\* Mutant: a High finding costs 0.30.
PenaltyHighTooMild(status) ==
    CASE status = "None"     -> 0
      [] status = "Low"      -> 5
      [] status = "Medium"   -> 15
      [] status = "High"     -> 30
      [] status = "Critical" -> 100
      [] status = "TimedOut" -> 10

\* Mutant: a timeout is added to the score.
PenaltyTimeoutRewarded(status) ==
    CASE status = "None"     -> 0
      [] status = "Low"      -> 5
      [] status = "Medium"   -> 15
      [] status = "High"     -> 40
      [] status = "Critical" -> 100
      [] status = "TimedOut" -> -10

\* The penalty of one checker, in hundredths.
Penalty(status) ==
    CASE status = "None"     -> 0
      [] status = "Low"      -> 5
      [] status = "Medium"   -> 15
      [] status = "High"     -> 40
      [] status = "Critical" -> 100
      [] status = "TimedOut" -> 10

\* One iteration of the loop of compute_safety_score.
Penalise(score, status) == SubF64(score, F64(Penalty(status)))

\* score.clamp(0.0, 1.0); the score never exceeds 1.0.
Clamp(score) == IF GeqF64(score, F64(0)) THEN score ELSE F64(0)

\* statuses is the sequence in which the HashMap yields its values.
compute_safety_score(statuses) ==
    LET score[i \in 0..Len(statuses)] ==
            IF i = 0 THEN F64(100) ELSE Penalise(score[i - 1], statuses[i])
    IN  Clamp(score[Len(statuses)])

\* Mutant: the thresholds are compared with a tolerance of 0.05.
score_to_verdict_tolerant(score, reported) ==
    IF "Critical" \in reported THEN "BLOCK"
    ELSE IF GeqF64(score, F64(65)) THEN "APPROVE"
    ELSE IF GeqF64(score, F64(35)) THEN "WARN"
    ELSE "BLOCK"

\* reported is the set of statuses that occur in the results.
score_to_verdict(score, reported) ==
    IF "Critical" \in reported THEN "BLOCK"
    ELSE IF GeqF64(score, F64(70)) THEN "APPROVE"
    ELSE IF GeqF64(score, F64(40)) THEN "WARN"
    ELSE "BLOCK"

\* One unit in the last place of the double next to 100 * h, in units of 2^-58.
\* No 100 * h is a power of two, and what is next to 0 is a product without loss.
ProductUlp(h) ==
    CASE h > 81      -> 524288
      [] h \in 41..81 -> 262144
      [] h \in 21..40 -> 131072
      [] h \in 11..20 -> 65536
      [] h \in 6..10  -> 32768
      [] h \in 3..5   -> 16384
      [] h = 2       -> 8192
      [] h = 1       -> 4096
      [] OTHER       -> 1

\* score * 10000.0, rounded to a double: units + rest / 2^58.
TimesTenThousand(score) ==
    [units |-> 100 * score.h,
     rest  |-> 100 * score.e + Rounding(100 * score.e, ProductUlp(score.h))]

TwoTo28 == 268435456
TwoTo29 == 536870912

\* The integer below a product: the rest divided by 2^58, in two steps.
FloorProduct(p) == p.units + (p.rest \div TwoTo29) \div TwoTo29

\* The integer nearest to a product, halves up: the rest plus 2^57 divided by 2^58.
RoundProduct(p) == p.units + ((p.rest \div TwoTo29) + TwoTo28) \div TwoTo29

\* Mutant: the product is truncated by the cast instead of rounded.
encode_score_u16_truncating(score) == FloorProduct(TimesTenThousand(Clamp(score)))

\* (score.clamp(0.0, 1.0) * 10000.0).round() as u16
encode_score_u16(score) == RoundProduct(TimesTenThousand(Clamp(score)))
=============================================================================
