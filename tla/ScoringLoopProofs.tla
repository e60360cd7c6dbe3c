-------------------------- MODULE ScoringLoopProofs --------------------------
(***************************************************************************)
(* The scoring loop for a checker suite of any size: every order in which  *)
(* the HashMap yields any number of results.                               *)
(***************************************************************************)
EXTENDS ScoringLoop, ScorerProofs

\* The running score has lost exactly the penalties of the results taken.
PenaltiesArePaid ==
    /\ taken \in [CheckerStatus -> Nat]
    /\ score \in Number
    /\ score.h = 100 - (Spent("None") + Spent("Low") + Spent("Medium") + Spent("High")
                            + Spent("Critical") + Spent("TimedOut"))

\* The running score is a double whose error is in proportion to what was spent.
LoopInv == PenaltiesArePaid /\ Accurate(score)
----------------------------------------------------------------------------
(* The invariant.                                                          *)

LEMMA LoopInvInit == LoopInit => LoopInv
<1> SUFFICES ASSUME LoopInit PROVE LoopInv
  OBVIOUS
<1>1. score \in Number /\ score.h = 100
  BY Literals DEF LoopInit
<1>2. \A s \in CheckerStatus : taken[s] = 0 /\ Spent(s) = 0
  BY DEF LoopInit, Spent, Penalty, CheckerStatus, Severity
<1>3. /\ Spent("None") = 0 /\ Spent("Low") = 0 /\ Spent("Medium") = 0 /\ Spent("High") = 0
      /\ Spent("Critical") = 0 /\ Spent("TimedOut") = 0
  BY <1>2 DEF CheckerStatus, Severity
<1>4. taken \in [CheckerStatus -> Nat]
  BY DEF LoopInit
<1>5. Accurate(score)
  BY AccurateLiterals DEF LoopInit
<1> QED
  BY <1>1, <1>3, <1>4, <1>5 DEF LoopInv, PenaltiesArePaid

\* What a result adds to the penalties spent.
LEMMA SpentByResult ==
  ASSUME PenaltiesArePaid, NEW s \in CheckerStatus, TakeResult(s)
  PROVE  /\ taken' \in [CheckerStatus -> Nat]
         /\ \A t \in CheckerStatus : /\ Spent(t) \in Int
                                     /\ Spent(t)' = IF t = s THEN Spent(t) + Penalty(t) ELSE Spent(t)
<1>1. taken' \in [CheckerStatus -> Nat]
  BY DEF PenaltiesArePaid, TakeResult
<1>2. ASSUME NEW t \in CheckerStatus
      PROVE  /\ Spent(t) \in Int
             /\ Spent(t)' = IF t = s THEN Spent(t) + Penalty(t) ELSE Spent(t)
  <2>1. taken[t] \in Nat /\ taken'[t] = IF t = s THEN taken[t] + 1 ELSE taken[t]
    BY DEF PenaltiesArePaid, TakeResult
  <2>2. Penalty(t) \in {0, 5, 10, 15, 40, 100}
    BY Literals
  <2> QED
    BY <2>1, <2>2 DEF Spent
<1> QED
  BY <1>1, <1>2

LEMMA TakeResultKeeps ==
  ASSUME LoopInv, NEW s \in CheckerStatus, TakeResult(s)
  PROVE  LoopInv' /\ score'.h = score.h - Penalty(s)
<1>1. /\ score \in Number /\ score' = Penalise(score, s) /\ PenaltiesArePaid
      /\ score.h \in Int /\ Penalty(s) \in Int
  <2>1. score \in Number /\ score' = Penalise(score, s) /\ PenaltiesArePaid
    BY DEF LoopInv, PenaltiesArePaid, TakeResult
  <2>2. Penalty(s) \in Int
    BY Literals
  <2> QED
    BY <2>1, <2>2 DEF Number
<1>2. score' \in Number /\ score'.h = score.h - Penalty(s)
  BY <1>1, PenaliseIsExact
<1>3. PenaltiesArePaid'
  <2> DEFINE Total == Spent("None") + Spent("Low") + Spent("Medium") + Spent("High")
                          + Spent("Critical") + Spent("TimedOut")
  <2>1. \A t \in {"None", "Low", "Medium", "High", "Critical", "TimedOut"} :
           /\ Spent(t) \in Int
           /\ Spent(t)' = IF t = s THEN Spent(t) + Penalty(s) ELSE Spent(t)
    BY <1>1, SpentByResult DEF CheckerStatus, Severity
  <2>2. s \in {"None", "Low", "Medium", "High", "Critical", "TimedOut"}
    BY DEF CheckerStatus, Severity
  <2>3. Total' = Total + Penalty(s) /\ Total \in Int
    BY <1>1, <2>1, <2>2
  <2>4. score.h = 100 - Total
    BY <1>1 DEF PenaltiesArePaid
  <2>5. score'.h = 100 - Total'
    BY <1>1, <1>2, <2>3, <2>4
  <2>6. taken' \in [CheckerStatus -> Nat]
    BY <1>1, SpentByResult
  <2> QED
    BY <1>2, <2>5, <2>6 DEF PenaltiesArePaid
<1>4. Accurate(score')
  BY <1>1, PenaliseKeepsAccurate DEF LoopInv
<1> QED
  BY <1>2, <1>3, <1>4 DEF LoopInv, Accurate, OnGrid

LEMMA LoopInvHolds == LoopSpec => []LoopInv
<1>1. LoopInv /\ [LoopNext]_loopVars => LoopInv'
  <2> SUFFICES ASSUME LoopInv, [LoopNext]_loopVars PROVE LoopInv'
    OBVIOUS
  <2>1. ASSUME NEW s \in CheckerStatus, TakeResult(s) PROVE LoopInv'
    BY <2>1, TakeResultKeeps
  <2>2. CASE UNCHANGED loopVars
    BY <2>2 DEF loopVars, LoopInv, PenaltiesArePaid, Accurate, OnGrid, Spent
  <2> QED
    BY <2>1, <2>2 DEF LoopNext
<1> QED
  BY <1>1, LoopInvInit, PTL DEF LoopSpec
----------------------------------------------------------------------------
(* The theorems.                                                           *)

\* The clamped running score has the hundredths of the exact score.
LEMMA ClampedIsExact ==
  ASSUME LoopInv
  PROVE  Clamp(score) \in Number /\ Clamp(score).h = ExactScore /\ score.h \in Int
<1>1. score \in Number /\ score.h \in Int
  BY DEF LoopInv, PenaltiesArePaid, Number
<1>2. Clamp(score) \in Number /\ Clamp(score).h = IF score.h >= 0 THEN score.h ELSE 0
  BY <1>1, ClampIsExact
<1> DEFINE Total == Spent("None") + Spent("Low") + Spent("Medium") + Spent("High")
                        + Spent("Critical") + Spent("TimedOut")
<1>3. score.h = 100 - Total
  BY DEF LoopInv, PenaltiesArePaid
<1>4. ExactScore = IF Total <= 100 THEN 100 - Total ELSE 0
  BY DEF ExactScore
<1>5. \A t \in CheckerStatus : Spent(t) \in Int
  <2> SUFFICES ASSUME NEW t \in CheckerStatus PROVE Spent(t) \in Int
    OBVIOUS
  <2>1. taken[t] \in Nat /\ Penalty(t) \in {0, 5, 10, 15, 40, 100}
    BY Literals DEF LoopInv, PenaltiesArePaid
  <2> QED
    BY <2>1 DEF Spent
<1>6. Total \in Int
  BY <1>5 DEF CheckerStatus, Severity
<1> HIDE DEF Total
<1> QED
  BY <1>1, <1>2, <1>3, <1>4, <1>6

\* encode_score_u16 gives the exact decimal score, whatever order the HashMap yields
\* the results in and however many there are: the error reaches the product magnified
\* a hundred times, and is still far below the 2^57 that round() absorbs.
THEOREM EncodedIsExact == LoopSpec => []EncodedScoreIsExact
<1>1. ASSUME LoopInv PROVE EncodedScoreIsExact
  <2>1. encode_score_u16(score) = 100 * Clamp(score).h
    BY <1>1, EncodeIsExact DEF LoopInv
  <2>2. Clamp(score).h = ExactScore
    BY <1>1, ClampedIsExact
  <2> QED
    BY <2>1, <2>2 DEF EncodedScoreIsExact, LoopEncoded
<1> QED
  BY <1>1, LoopInvHolds, PTL

\* The running score of an APPROVE, and of a WARN.
LEMMA LoopVerdictNeeds ==
  ASSUME LoopInv
  PROVE  /\ LoopVerdict \in {"APPROVE", "WARN", "BLOCK"}
         /\ LoopVerdict = "APPROVE" => ExactScore >= 70 /\ taken["Critical"] = 0
         /\ LoopVerdict = "WARN" => ExactScore >= 40 /\ taken["Critical"] = 0
<1>1. Clamp(score) \in Number /\ Clamp(score).h = ExactScore
  BY ClampedIsExact
<1>2. "Critical" \in CheckerStatus /\ taken["Critical"] \in Nat
  BY DEF LoopInv, PenaltiesArePaid, CheckerStatus, Severity
<1>3. "Critical" \notin Reported => taken["Critical"] = 0
  BY <1>2 DEF Reported
<1> QED
  BY <1>1, <1>3, VerdictNeedsHundredths DEF LoopVerdict

\* score_to_verdict on the f64 score is never more lenient than on the exact score.
THEOREM RoundingIsStrict == LoopSpec => []RoundingNeverLenient
<1>1. LoopInv => RoundingNeverLenient
  <2> SUFFICES ASSUME LoopInv PROVE Strictness(LoopVerdict) >= Strictness(ExactVerdict)
    BY DEF RoundingNeverLenient
  <2>1. CASE LoopVerdict = "APPROVE"
    BY <2>1, LoopVerdictNeeds DEF ExactVerdict, Strictness
  <2>2. CASE LoopVerdict = "WARN"
    BY <2>2, LoopVerdictNeeds DEF ExactVerdict, Strictness
  <2>3. CASE LoopVerdict = "BLOCK"
    BY <2>3 DEF ExactVerdict, Strictness
  <2> QED
    BY <2>1, <2>2, <2>3, LoopVerdictNeeds
<1> QED
  BY <1>1, LoopInvHolds, PTL

\* An APPROVE covers no High or Critical finding and at most three timeouts, however
\* large the suite is.
THEOREM ApprovalNeedsEvidence == LoopSpec => []ApproveNeedsEvidence
<1>1. LoopInv => ApproveNeedsEvidence
  <2> SUFFICES ASSUME LoopInv, LoopVerdict = "APPROVE"
               PROVE  taken["Critical"] = 0 /\ taken["High"] = 0 /\ taken["TimedOut"] <= 3
    BY DEF ApproveNeedsEvidence
  <2>1. ExactScore >= 70 /\ taken["Critical"] = 0
    BY LoopVerdictNeeds
  <2>2. /\ taken["None"] \in Nat /\ taken["Low"] \in Nat /\ taken["Medium"] \in Nat
        /\ taken["High"] \in Nat /\ taken["TimedOut"] \in Nat
    BY DEF LoopInv, PenaltiesArePaid, CheckerStatus, Severity
  <2>3. /\ Spent("None") = 0 /\ Spent("Low") = 5 * taken["Low"]
        /\ Spent("Medium") = 15 * taken["Medium"] /\ Spent("High") = 40 * taken["High"]
        /\ Spent("Critical") = 0 /\ Spent("TimedOut") = 10 * taken["TimedOut"]
    BY <2>1, <2>2 DEF Spent, Penalty
  <2> DEFINE Total == 5 * taken["Low"] + 15 * taken["Medium"] + 40 * taken["High"]
                          + 10 * taken["TimedOut"]
  <2>4. ExactScore = IF Total <= 100 THEN 100 - Total ELSE 0
    BY <2>2, <2>3 DEF ExactScore
  <2>5. Total \in Nat
    BY <2>2
  <2>6. Total <= 30
    BY <2>1, <2>4, <2>5
  <2>7. \A a, b, c, d \in Nat : 5 * a + 15 * b + 40 * c + 10 * d <= 30 => c = 0 /\ d <= 3
    OBVIOUS
  <2>8. taken["High"] = 0 /\ taken["TimedOut"] <= 3
    BY <2>2, <2>6, <2>7, Zenon
  <2> QED
    BY <2>1, <2>8
<1> QED
  BY <1>1, LoopInvHolds, PTL

\* One more result never makes the verdict more lenient: a penalty lowers the
\* hundredths, and a clean result leaves a score that stands at a threshold as it is.
THEOREM ResultsNeverSoften == LoopSpec => MoreResultsNeverSoften
<1>1. LoopInv /\ LoopInv' /\ [LoopNext]_loopVars
         => [Strictness(LoopVerdict') >= Strictness(LoopVerdict)]_loopVars
  <2> SUFFICES ASSUME LoopInv, LoopInv', LoopNext
               PROVE  Strictness(LoopVerdict') >= Strictness(LoopVerdict)
    OBVIOUS
  <2>1. PICK s \in CheckerStatus : TakeResult(s)
    BY DEF LoopNext
  <2>2. /\ score'.h = score.h - Penalty(s) /\ score.h \in Int /\ score \in Number
        /\ score' \in Number /\ Penalty(s) \in Nat
    <3>1. score \in Number /\ score' \in Number
      BY DEF LoopInv, PenaltiesArePaid
    <3>2. Penalty(s) \in Nat
      BY Literals
    <3> QED
      BY <2>1, <3>1, <3>2, TakeResultKeeps DEF Number
  <2>3. Penalty(s) = 0 => score' = score
    BY <2>1, <2>2, SubtractingZero DEF TakeResult, Penalise, LoopInv, Accurate
  <2>4. ASSUME NEW t \in {70, 40}, GeqF64(Clamp(score'), F64(t))
        PROVE  GeqF64(Clamp(score), F64(t))
    <3>1. F64(t) \in Number /\ F64(t).h = t /\ F64(0).h = 0
      BY Literals
    <3>2. ASSUME NEW x \in Number PROVE GeqF64(Clamp(x), F64(t)) <=> GeqF64(x, F64(t))
      <4>1. x.h \in Int
        BY DEF Number
      <4> QED
        BY <3>1, <4>1 DEF Clamp, GeqF64
    <3>3. GeqF64(score', F64(t))
      BY <2>2, <2>4, <3>2
    <3>4. GeqF64(score, F64(t))
      BY <2>2, <2>3, <3>1, <3>3 DEF GeqF64
    <3> QED
      BY <2>2, <3>2, <3>4
  <2>5. "Critical" \in Reported => "Critical" \in Reported'
    BY <2>1 DEF TakeResult, LoopInv, PenaltiesArePaid, Reported
  <2> QED
    BY <2>4, <2>5 DEF LoopVerdict, score_to_verdict, Strictness
<1> QED
  BY <1>1, LoopInvHolds, PTL DEF LoopSpec, MoreResultsNeverSoften
==============================================================================
