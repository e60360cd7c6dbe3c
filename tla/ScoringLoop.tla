---------------------------- MODULE ScoringLoop ----------------------------
(***************************************************************************)
(* compute_safety_score as a loop: one step per checker result taken from  *)
(* the HashMap.  The map yields its values in an arbitrary order           *)
(* (RandomState), so every order is a behaviour, and the values taken so   *)
(* far are themselves a possible set of results: each state is one call of *)
(* the scorer.                                                             *)
(***************************************************************************)
EXTENDS Scorer, FiniteSetsExt

CONSTANT MaxCheckers   \* the size of the checker suite

ASSUME MaxCheckersAssumption == MaxCheckers \in Nat

VARIABLES taken,       \* how many results of each status were taken
          score        \* the running score, not yet clamped

loopVars == <<taken, score>>

Count == taken["None"] + taken["Low"] + taken["Medium"] + taken["High"] + taken["Critical"]
             + taken["TimedOut"]

Reported == {s \in CheckerStatus : taken[s] > 0}

\* The verdict and the attested score if the loop ends here.
LoopVerdict == score_to_verdict(Clamp(score), Reported)
LoopEncoded == encode_score_u16(score)

LoopInit ==
    /\ taken = [s \in CheckerStatus |-> 0]
    /\ score = F64(100)

TakeResult(s) ==
    /\ Count < MaxCheckers
    /\ taken' = [taken EXCEPT ![s] = @ + 1]
    /\ score' = Penalise(score, s)

LoopNext == \E s \in CheckerStatus : TakeResult(s)

LoopSpec == LoopInit /\ [][LoopNext]_loopVars
----------------------------------------------------------------------------
(* Reference: the same score in exact arithmetic, in hundredths.           *)
Spent(s) == taken[s] * Penalty(s)

ExactScore ==
    LET total == Spent("None") + Spent("Low") + Spent("Medium") + Spent("High")
                     + Spent("Critical") + Spent("TimedOut")
    IN  IF total <= 100 THEN 100 - total ELSE 0

ExactVerdict ==
    IF taken["Critical"] > 0 THEN "BLOCK"
    ELSE IF ExactScore >= 70 THEN "APPROVE"
    ELSE IF ExactScore >= 40 THEN "WARN" ELSE "BLOCK"

\* APPROVE < WARN < BLOCK, by strictness.
Strictness(v) == CASE v = "APPROVE" -> 0 [] v = "WARN" -> 1 [] v = "BLOCK" -> 2

\* The score that is signed does not depend on the order in which the HashMap
\* yields the results: the error the f64 subtractions accumulate, magnified by the
\* product with 10000.0 and its own rounding, stays below the half that round()
\* absorbs, so encode_score_u16 gives the exact decimal score.
EncodedScoreIsExact == LoopEncoded = 100 * ExactScore

\* Rounding errs on the strict side only: the verdict is never more lenient
\* than the one the exact penalties give.
RoundingNeverLenient == Strictness(LoopVerdict) >= Strictness(ExactVerdict)

\* An APPROVE never covers a High or Critical finding, and never a suite of
\* which more than three checkers timed out, whatever the others report.
ApproveNeedsEvidence ==
    LoopVerdict = "APPROVE" => /\ taken["Critical"] = 0
                               /\ taken["High"] = 0
                               /\ taken["TimedOut"] <= 3

\* One more checker result never makes the verdict more lenient.
MoreResultsNeverSoften ==
    [][Strictness(LoopVerdict') >= Strictness(LoopVerdict)]_loopVars

\* spec/README.md promises that auditors replay verdicts deterministically: the
\* same results give the same verdict in another iteration order (here: all
\* results of one status after the other, in a fixed order of statuses).
ReplayOrder == <<"Low", "TimedOut", "Medium", "High", "Critical">>

ReplayScore ==
    LET n[i \in 0..Len(ReplayOrder)] ==
            IF i = 0 THEN 0 ELSE n[i - 1] + taken[ReplayOrder[i]]
        statusAt(k) == ReplayOrder[Min({i \in DOMAIN ReplayOrder : n[i] >= k})]
    IN  compute_safety_score([k \in 1..n[Len(ReplayOrder)] |-> statusAt(k)])

ReplayIsDeterministic ==
    score_to_verdict(ReplayScore, Reported) = LoopVerdict
=============================================================================
