------------------------ MODULE OutcomeCaptureProofs ------------------------
(***************************************************************************)
(* Safety of the outcome capture task, for any set of rows, any ttl, batch *)
(* size and retention.                                                     *)
(***************************************************************************)
EXTENDS OutcomeCapture, WellFoundedInduction, TLAPS

\* The types of the variables.
OutcomeTypes ==
    /\ table \in Seq(Rows)
    /\ tracked \subseteq Rows
    /\ execution_outcome \in [Rows -> Outcomes \cup {"null"}]
    /\ age \in [Rows -> 0..(Ttl + 1)]
    /\ chain \in [Rows -> {"unseen", "processed", "confirmed"}]
    /\ error \subseteq Rows
    /\ inTime \subseteq Rows
    /\ sinceSeen \in [Rows -> 0..(Retention + 1)]
    /\ task \in {"sleeping", "asking", "writing"}
    /\ batch \subseteq DOMAIN table
    /\ nowAge \in [Rows -> 0..(Ttl + 1)]
    /\ conclusion \in Outcomes \cup {"null"}

\* A row is logged once.
RowsAreDistinct == \A i, j \in DOMAIN table : table[i] = table[j] => i = j

\* The batch holds rows that wait for their outcome, however long ago it was fetched,
\* and the task is at one of them while it is awake.
BatchIsUndecided ==
    /\ task # "sleeping" => batch # {}
    /\ \A i \in batch : table[i] \in tracked /\ execution_outcome[table[i]] = "null"

\* `now` was sampled in the past, and what is not on the chain did not land in time.
SampledInThePast ==
    \A r \in Rows : nowAge[r] <= age[r] /\ (chain[r] = "unseen" => r \notin inTime)

\* A row that may be called expired: too old, and not one that landed in time and is
\* still known to the node.
WrittenOff(r) == age[r] > Ttl /\ (r \in inTime => sinceSeen[r] > Retention)

\* Rows that are expired, or about to be, may be called so; only tracked rows have an
\* outcome.
ExpiredIsWrittenOff ==
    /\ \A r \in Rows : execution_outcome[r] = "expired" => WrittenOff(r)
    /\ task = "writing" /\ conclusion = "expired" => WrittenOff(Current)

OnlyTrackedDecided == \A r \in Rows : execution_outcome[r] # "null" => r \in tracked

OutcomeInv ==
    /\ OutcomeTypes /\ RowsAreDistinct /\ BatchIsUndecided
    /\ SampledInThePast /\ ExpiredIsWrittenOff /\ OnlyTrackedDecided
----------------------------------------------------------------------------
(* Facts the steps rest on.                                                *)

\* A set of positions has a first one.
LEMMA MinOfPositions ==
  ASSUME NEW S \in SUBSET Nat, S # {}
  PROVE  Min(S) \in S /\ \A j \in S : Min(S) <= j
<1> DEFINE R == {ss \in Nat \X Nat : ss[1] < ss[2]}
<1>1. IsWellFoundedOn(R, Nat)
  BY NatLessThanWellFounded DEF OpToRel
<1> HIDE DEF R
<1>2. PICK x \in S : \A y \in S : ~(<<y, x>> \in R)
  BY <1>1, WFMin
<1>3. ASSUME NEW y \in S PROVE x <= y
  <2>1. x \in Nat /\ y \in Nat
    OBVIOUS
  <2>2. y < x => <<y, x>> \in R
    BY <2>1 DEF R
  <2> QED
    BY <1>2, <2>1, <2>2
<1> QED
  BY <1>3 DEF Min

\* The row the task is at is one of its batch.
LEMMA CurrentRow ==
  ASSUME OutcomeInv, task # "sleeping"
  PROVE  /\ Min(batch) \in batch
         /\ Current \in Rows /\ Current \in tracked
         /\ execution_outcome[Current] = "null"
<1>1. batch \in SUBSET Nat /\ batch # {}
  BY DEF OutcomeInv, OutcomeTypes, BatchIsUndecided
<1>2. Min(batch) \in batch
  BY <1>1, MinOfPositions
<1> QED
  BY <1>2 DEF OutcomeInv, OutcomeTypes, BatchIsUndecided, Current

\* Initially nothing is logged.
LEMMA OutcomeInvInit == OutcomeInit => OutcomeInv
BY OutcomeAssumption DEF OutcomeInit, OutcomeInv, OutcomeTypes, RowsAreDistinct, BatchIsUndecided,
   SampledInThePast, ExpiredIsWrittenOff, OnlyTrackedDecided, NoAges, Outcomes
----------------------------------------------------------------------------
(* The environment.                                                        *)

\* Time makes rows older and statuses forgotten, never the other way round.
LEMMA TickKeeps == OutcomeInv /\ Tick => OutcomeInv'
<1> SUFFICES ASSUME OutcomeInv, Tick PROVE OutcomeInv'
  OBVIOUS
<1> USE OutcomeAssumption DEF OutcomeInv
<1>1. /\ UNCHANGED <<table, tracked, execution_outcome, chain, error, inTime>>
      /\ UNCHANGED <<task, batch, nowAge, conclusion>>
  BY DEF Tick, dbVars, taskVars
<1>2. /\ age' \in [Rows -> 0..(Ttl + 1)]
      /\ \A r \in Rows : age[r] <= age'[r]
  BY DEF Tick, OutcomeTypes, Until
<1>3. /\ sinceSeen' \in [Rows -> 0..(Retention + 1)]
      /\ \A r \in Rows : sinceSeen[r] <= sinceSeen'[r]
  BY DEF Tick, OutcomeTypes, Until
<1>4. OutcomeTypes' /\ RowsAreDistinct' /\ BatchIsUndecided' /\ OnlyTrackedDecided'
  BY <1>1, <1>2, <1>3
  DEF OutcomeTypes, RowsAreDistinct, BatchIsUndecided, OnlyTrackedDecided
<1>5. SampledInThePast'
  BY <1>1, <1>2 DEF OutcomeTypes, SampledInThePast
<1>6. \A r \in Rows : WrittenOff(r) => WrittenOff(r)'
  BY <1>1, <1>2, <1>3 DEF OutcomeTypes, WrittenOff
<1>7. Current' = Current
  BY <1>1 DEF Current
<1>8. task = "writing" => Current \in Rows
  BY CurrentRow
<1>9. ExpiredIsWrittenOff'
  <2>1. \A r \in Rows : execution_outcome'[r] = "expired" => WrittenOff(r)'
    BY <1>1, <1>6 DEF ExpiredIsWrittenOff
  <2>2. ASSUME task' = "writing", conclusion' = "expired" PROVE WrittenOff(Current)'
    <3>1. WrittenOff(Current) /\ Current \in Rows
      BY <1>1, <1>8, <2>2 DEF ExpiredIsWrittenOff
    <3> QED
      BY <1>1, <1>2, <1>3, <1>7, <3>1 DEF OutcomeTypes, WrittenOff
  <2> QED
    BY <2>1, <2>2 DEF ExpiredIsWrittenOff
<1> QED
  BY <1>4, <1>5, <1>9

\* A new row comes after the others and is in no batch.
LEMMA InsertKeeps ==
  ASSUME OutcomeInv, NEW r \in Rows, insert_verdict(r)
  PROVE  OutcomeInv'
<1> USE DEF OutcomeInv
<1>1. /\ UNCHANGED <<execution_outcome, age, chain, error, inTime, sinceSeen>>
      /\ UNCHANGED <<task, batch, nowAge, conclusion>>
      /\ table' = Append(table, r)
      /\ tracked \subseteq tracked' /\ tracked' \subseteq Rows
  BY DEF insert_verdict, chainVars, taskVars, OutcomeTypes
<1>2. /\ table' \in Seq(Rows)
      /\ DOMAIN table \subseteq DOMAIN table'
      /\ \A i \in DOMAIN table : table'[i] = table[i]
  <2>1. table \in Seq(Rows)
    BY DEF OutcomeTypes
  <2> QED
    BY <1>1, <2>1
<1>3. RowsAreDistinct'
  <2>1. \A i \in DOMAIN table : table[i] # r
    BY DEF insert_verdict, Inserted
  <2> QED
    <3>1. table \in Seq(Rows) /\ \A i, j \in DOMAIN table : table[i] = table[j] => i = j
      BY DEF RowsAreDistinct, OutcomeTypes
    <3>2. ASSUME NEW i \in DOMAIN table', NEW j \in DOMAIN table', table'[i] = table'[j]
          PROVE  i = j
      <4>1. \A k \in DOMAIN table' : k \in DOMAIN table \/ (k = Len(table) + 1 /\ table'[k] = r)
        BY <1>1, <3>1
      <4> QED
        BY <1>2, <2>1, <3>1, <3>2, <4>1
    <3> QED
      BY <3>2 DEF RowsAreDistinct
<1>4. OutcomeTypes' /\ BatchIsUndecided' /\ OnlyTrackedDecided' /\ SampledInThePast'
  BY <1>1, <1>2
  DEF OutcomeTypes, BatchIsUndecided, OnlyTrackedDecided, SampledInThePast
<1>5. task = "writing" => Current' = Current
  BY <1>1, <1>2, CurrentRow DEF Current, OutcomeTypes
<1>6. ExpiredIsWrittenOff'
  BY <1>1, <1>5 DEF ExpiredIsWrittenOff, WrittenOff
<1> QED
  BY <1>3, <1>4, <1>6

\* What lands or is dropped once a row is written off did not land in time.
LEMMA ChainKeeps ==
  ASSUME OutcomeInv, NEW r \in Rows, ChainStep(r)
  PROVE  OutcomeInv'
<1> USE OutcomeAssumption DEF OutcomeInv
<1>1. /\ UNCHANGED <<table, tracked, execution_outcome, age>>
      /\ UNCHANGED <<task, batch, nowAge, conclusion>>
  BY DEF ChainStep, Lands, Confirms, ForkDropped, dbVars, taskVars
<1>2. OutcomeTypes'
  <2>1. CASE \E failed \in BOOLEAN : Lands(r, failed)
    <3>1. /\ chain' = [chain EXCEPT ![r] = "processed"]
          /\ sinceSeen' = [sinceSeen EXCEPT ![r] = 0]
          /\ error' \subseteq error \cup {r} /\ inTime' \subseteq inTime \cup {r}
      BY <2>1 DEF Lands
    <3> QED
      BY <1>1, <3>1 DEF OutcomeTypes
  <2>2. CASE Confirms(r)
    BY <1>1, <2>2 DEF Confirms, OutcomeTypes
  <2>3. CASE ForkDropped(r)
    BY <1>1, <2>3 DEF ForkDropped, OutcomeTypes
  <2> QED
    BY <2>1, <2>2, <2>3 DEF ChainStep
<1>3. RowsAreDistinct' /\ BatchIsUndecided' /\ OnlyTrackedDecided'
  BY <1>1 DEF RowsAreDistinct, BatchIsUndecided, OnlyTrackedDecided
<1>4. SampledInThePast'
  BY <1>1 DEF ChainStep, Lands, Confirms, ForkDropped, OutcomeTypes, SampledInThePast
<1>5. ASSUME NEW q \in Rows, WrittenOff(q) PROVE WrittenOff(q)'
  <2>1. CASE q = r
    <3>1. r \in inTime' => r \in inTime /\ sinceSeen'[r] = sinceSeen[r]
      BY <1>1, <1>5, <2>1
      DEF ChainStep, Lands, Confirms, ForkDropped, OutcomeTypes, SampledInThePast, WrittenOff
    <3> QED
      BY <1>1, <1>5, <2>1, <3>1 DEF WrittenOff
  <2>2. CASE q # r
    <3>1. (q \in inTime' <=> q \in inTime) /\ sinceSeen'[q] = sinceSeen[q]
      BY <2>2 DEF ChainStep, Lands, Confirms, ForkDropped, OutcomeTypes
    <3> QED
      BY <1>1, <1>5, <3>1 DEF WrittenOff
  <2> QED
    BY <2>1, <2>2
<1>6. Current' = Current /\ (task = "writing" => Current \in Rows)
  BY <1>1, CurrentRow DEF Current
<1>7. ExpiredIsWrittenOff'
  BY <1>1, <1>5, <1>6 DEF ExpiredIsWrittenOff, WrittenOff
<1> QED
  BY <1>2, <1>3, <1>4, <1>7
----------------------------------------------------------------------------
(* The task.                                                               *)

\* What a step of the task that writes nothing leaves alone.
OutcomesUnchanged == UNCHANGED <<table, tracked, execution_outcome, age, chain, error, inTime, sinceSeen>>

\* The batch is fetched and `now` sampled in one step: its rows are pending.
LEMMA BeginKeeps == OutcomeInv /\ BeginCycle => OutcomeInv'
<1> SUFFICES ASSUME OutcomeInv, BeginCycle PROVE OutcomeInv'
  OBVIOUS
<1>1. OutcomesUnchanged /\ task' = "asking" /\ nowAge' = age /\ conclusion' = conclusion
  BY DEF BeginCycle, OutcomesUnchanged, dbVars, chainVars
<1>2. batch' \subseteq Pending /\ batch' # {}
  BY DEF BeginCycle, fetch_pending_verdicts
<1>3. OutcomeTypes'
  BY <1>1, <1>2 DEF OutcomeInv, OutcomeTypes, OutcomesUnchanged, Pending
<1>4. BatchIsUndecided'
  BY <1>1, <1>2 DEF OutcomesUnchanged, BatchIsUndecided, Pending
<1>5. SampledInThePast'
  BY <1>1, OutcomeAssumption
  DEF OutcomeInv, OutcomeTypes, OutcomesUnchanged, SampledInThePast
<1>6. RowsAreDistinct' /\ ExpiredIsWrittenOff' /\ OnlyTrackedDecided'
  BY <1>1
  DEF OutcomeInv, OutcomesUnchanged, RowsAreDistinct, ExpiredIsWrittenOff, WrittenOff,
      OnlyTrackedDecided
<1> QED
  BY <1>3, <1>4, <1>5, <1>6 DEF OutcomeInv

\* Going on to the next row, or to sleep, when nothing is written.
LEMMA SkipKeeps ==
  ASSUME OutcomeInv, OutcomesUnchanged, conclusion' \in {conclusion, "null"}, task' # "writing",
         \/ EndRow
         \/ task' = "sleeping" /\ batch' = {} /\ nowAge' = NoAges
  PROVE  OutcomeInv'
<1>1. /\ batch' \subseteq batch /\ nowAge' \in {nowAge, NoAges}
      /\ task' \in {"sleeping", "asking"} /\ (task' # "sleeping" => batch' # {})
  BY DEF EndRow
<1>2. OutcomeTypes'
  BY <1>1, OutcomeAssumption DEF OutcomeInv, OutcomeTypes, OutcomesUnchanged, NoAges
<1>3. SampledInThePast'
  BY <1>1, OutcomeAssumption
  DEF OutcomeInv, OutcomeTypes, OutcomesUnchanged, SampledInThePast, NoAges
<1>4. BatchIsUndecided'
  BY <1>1 DEF OutcomeInv, OutcomesUnchanged, BatchIsUndecided
<1>5. RowsAreDistinct' /\ ExpiredIsWrittenOff' /\ OnlyTrackedDecided'
  BY <1>1
  DEF OutcomeInv, OutcomesUnchanged, RowsAreDistinct, ExpiredIsWrittenOff, WrittenOff,
      OnlyTrackedDecided
<1> QED
  BY <1>2, <1>3, <1>4, <1>5 DEF OutcomeInv

\* An answer that decides the row: expired is concluded only for a row that was too old
\* when `now` was sampled and that the node does not know.
LEMMA AnswerKeeps == OutcomeInv /\ StatusAnswered => OutcomeInv'
<1> SUFFICES ASSUME OutcomeInv, StatusAnswered PROVE OutcomeInv'
  OBVIOUS
<1>1. OutcomesUnchanged /\ task = "asking"
  BY DEF StatusAnswered, OutcomesUnchanged, dbVars, chainVars
<1>2. Current \in Rows /\ batch # {}
  BY <1>1, CurrentRow
<1>3. CASE determine_outcome(Current) = "null"
  <2>1. EndRow /\ conclusion' = conclusion
    BY <1>3 DEF StatusAnswered
  <2> QED
    BY <1>1, <2>1, SkipKeeps DEF EndRow
<1>4. CASE determine_outcome(Current) # "null"
  <2>1. /\ task' = "writing" /\ conclusion' = determine_outcome(Current)
        /\ batch' = batch /\ nowAge' = nowAge
    BY <1>4 DEF StatusAnswered
  <2>2. Current' = Current
    BY <1>1, <2>1 DEF Current, OutcomesUnchanged
  <2>3. determine_outcome(Current) \in Outcomes
    BY <1>4 DEF determine_outcome, Outcomes
  <2>4. OutcomeTypes' /\ RowsAreDistinct' /\ BatchIsUndecided'
    BY <1>1, <1>2, <2>1, <2>3
    DEF OutcomeInv, OutcomeTypes, RowsAreDistinct, BatchIsUndecided, OutcomesUnchanged
  <2>5. SampledInThePast' /\ OnlyTrackedDecided'
    BY <1>1, <2>1 DEF OutcomeInv, SampledInThePast, OnlyTrackedDecided, OutcomesUnchanged
  <2>6. determine_outcome(Current) = "expired" => WrittenOff(Current)
    <3>1. /\ nowAge[Current] \in Int /\ age[Current] \in Int /\ nowAge[Current] <= age[Current]
          /\ sinceSeen[Current] \in Int
          /\ chain[Current] = "unseen" => Current \notin inTime
      BY <1>2 DEF OutcomeInv, OutcomeTypes, SampledInThePast
    <3>2. ASSUME determine_outcome(Current) = "expired"
          PROVE  nowAge[Current] > Ttl /\ ~StatusFound(Current)
      BY <3>2 DEF determine_outcome
    <3> QED
      BY <3>1, <3>2, OutcomeAssumption DEF StatusFound, WrittenOff
  <2>7. ExpiredIsWrittenOff'
    <3>1. \A r : WrittenOff(r)' <=> WrittenOff(r)
      BY <1>1 DEF WrittenOff, OutcomesUnchanged
    <3>2. execution_outcome' = execution_outcome
      BY <1>1 DEF OutcomesUnchanged
    <3>3. WrittenOff(Current)' <=> WrittenOff(Current)
      BY <1>1, <2>2 DEF WrittenOff, OutcomesUnchanged
    <3> QED
      BY <2>1, <2>6, <3>1, <3>2, <3>3 DEF OutcomeInv, ExpiredIsWrittenOff
  <2> QED
    BY <2>4, <2>5, <2>7 DEF OutcomeInv
<1> QED
  BY <1>3, <1>4

\* The UPDATE decides the row the task is at, which leaves the batch: the others are
\* other rows, still undecided.
LEMMA UpdateKeeps == OutcomeInv /\ update_verdict_outcome => OutcomeInv'
<1> SUFFICES ASSUME OutcomeInv, update_verdict_outcome PROVE OutcomeInv'
  OBVIOUS
<1>1. /\ UNCHANGED <<table, tracked, age, chain, error, inTime, sinceSeen>>
      /\ execution_outcome' = [execution_outcome EXCEPT ![Current] = conclusion]
      /\ conclusion' = "null" /\ task = "writing" /\ EndRow
  BY DEF update_verdict_outcome, chainVars
<1>2. Current \in Rows /\ Current \in tracked /\ Min(batch) \in batch
  BY <1>1, CurrentRow
<1>3. /\ batch' = batch \ {Min(batch)} /\ nowAge' \in {nowAge, NoAges}
      /\ task' \in {"sleeping", "asking"} /\ (task' # "sleeping" => batch' # {})
  BY <1>1 DEF EndRow
<1>4. OutcomeTypes'
  <2>1. execution_outcome' \in [Rows -> Outcomes \cup {"null"}]
    BY <1>1, <1>2 DEF OutcomeInv, OutcomeTypes
  <2>2. nowAge' \in [Rows -> 0..(Ttl + 1)]
    BY <1>3, OutcomeAssumption DEF OutcomeInv, OutcomeTypes, NoAges
  <2> QED
    BY <1>1, <1>3, <2>1, <2>2 DEF OutcomeInv, OutcomeTypes
<1>5. SampledInThePast'
  BY <1>1, <1>3, OutcomeAssumption DEF OutcomeInv, OutcomeTypes, SampledInThePast, NoAges
<1>6. BatchIsUndecided'
  <2>1. ASSUME NEW i \in batch' PROVE table[i] # Current /\ table[i] \in Rows
    BY <1>2, <1>3, <2>1 DEF OutcomeInv, OutcomeTypes, RowsAreDistinct, Current
  <2> QED
    BY <1>1, <1>3, <2>1 DEF OutcomeInv, OutcomeTypes, BatchIsUndecided
<1>7. RowsAreDistinct' /\ OnlyTrackedDecided'
  BY <1>1, <1>2 DEF OutcomeInv, OutcomeTypes, RowsAreDistinct, OnlyTrackedDecided
<1>8. ExpiredIsWrittenOff'
  <2>1. ASSUME NEW r \in Rows, execution_outcome'[r] = "expired" PROVE WrittenOff(r)
    BY <1>1, <1>2, <2>1 DEF OutcomeInv, OutcomeTypes, ExpiredIsWrittenOff
  <2> QED
    BY <1>1, <1>3, <2>1 DEF ExpiredIsWrittenOff, WrittenOff
<1> QED
  BY <1>4, <1>5, <1>6, <1>7, <1>8 DEF OutcomeInv

\* A request or an update that fails, or a restart, writes nothing.
LEMMA FailureKeeps == OutcomeInv /\ (StatusFailed \/ UpdateFails \/ Restart) => OutcomeInv'
<1> SUFFICES ASSUME OutcomeInv, StatusFailed \/ UpdateFails \/ Restart PROVE OutcomeInv'
  OBVIOUS
<1>1. OutcomesUnchanged /\ conclusion' \in {conclusion, "null"}
  BY DEF StatusFailed, UpdateFails, Restart, AbandonCycle, OutcomesUnchanged, dbVars, chainVars
<1>2. /\ task' # "writing"
      /\ EndRow \/ (task' = "sleeping" /\ batch' = {} /\ nowAge' = NoAges)
  BY DEF StatusFailed, UpdateFails, Restart, AbandonCycle, EndRow
<1> QED
  BY <1>1, <1>2, SkipKeeps

\* Every step keeps the invariant.
LEMMA OutcomeInvStep == OutcomeInv /\ [OutcomeNext]_outcomeVars => OutcomeInv'
<1> SUFFICES ASSUME OutcomeInv, [OutcomeNext]_outcomeVars PROVE OutcomeInv'
  OBVIOUS
<1>1. CASE Tick
  BY <1>1, TickKeeps
<1>2. ASSUME NEW r \in Rows, insert_verdict(r) \/ ChainStep(r) PROVE OutcomeInv'
  BY <1>2, InsertKeeps, ChainKeeps
<1>3. CASE BeginCycle
  BY <1>3, BeginKeeps
<1>4. CASE StatusAnswered
  BY <1>4, AnswerKeeps
<1>5. CASE update_verdict_outcome
  BY <1>5, UpdateKeeps
<1>6. CASE StatusFailed \/ UpdateFails \/ Restart
  BY <1>6, FailureKeeps
<1>7. CASE UNCHANGED outcomeVars
  BY <1>7
  DEF outcomeVars, OutcomeInv, OutcomeTypes, RowsAreDistinct, BatchIsUndecided,
      SampledInThePast, ExpiredIsWrittenOff, WrittenOff, OnlyTrackedDecided, Current
<1> QED
  BY <1>1, <1>2, <1>3, <1>4, <1>5, <1>6, <1>7 DEF OutcomeNext

LEMMA OutcomeInvHolds == OutcomeSpec => []OutcomeInv
<1> QED
  BY OutcomeInvInit, OutcomeInvStep, PTL DEF OutcomeSpec
----------------------------------------------------------------------------
(* The theorems.                                                           *)

\* run_outcome_cycle gives an outcome to tracked APPROVE rows only, and "expired" only
\* to rows older than the ttl.
THEOREM OutcomesEarned == OutcomeSpec => []OutcomesAreEarned
<1>1. OutcomeInv => OutcomesAreEarned
  BY DEF OutcomeInv, OutcomesAreEarned, OnlyTrackedDecided, ExpiredIsWrittenOff, WrittenOff
<1> QED
  BY <1>1, OutcomeInvHolds, PTL

\* A transaction that landed within the ttl is called expired only once the node has
\* forgotten it, whatever failed or restarted between the question and the UPDATE.
THEOREM ExpiredIsForgotten == OutcomeSpec => []ExpiredOnlyIfForgotten
<1>1. OutcomeInv => ExpiredOnlyIfForgotten
  BY DEF OutcomeInv, ExpiredOnlyIfForgotten, ExpiredIsWrittenOff, WrittenOff
<1> QED
  BY <1>1, OutcomeInvHolds, PTL

\* update_verdict_outcome, which has no condition on the stored outcome, never
\* overwrites one.
THEOREM OutcomesAreFinal == OutcomeSpec => OutcomeIsFinal
<1> DEFINE Kept == \A r \in Rows : execution_outcome[r] # "null"
                      => execution_outcome'[r] = execution_outcome[r]
<1>1. OutcomeInv /\ [OutcomeNext]_outcomeVars => [Kept]_outcomeVars
  <2> SUFFICES ASSUME OutcomeInv, OutcomeNext PROVE Kept
    OBVIOUS
  <2>1. CASE update_verdict_outcome
    <3>1. /\ execution_outcome[Current] = "null"
          /\ execution_outcome' = [execution_outcome EXCEPT ![Current] = conclusion]
      BY <2>1, CurrentRow DEF update_verdict_outcome
    <3> QED
      BY <3>1 DEF OutcomeInv, OutcomeTypes
  <2>2. CASE ~update_verdict_outcome
    <3>1. UNCHANGED execution_outcome
      BY <2>2
      DEF OutcomeNext, Tick, insert_verdict, ChainStep, Lands, Confirms, ForkDropped, BeginCycle,
          StatusAnswered, StatusFailed, UpdateFails, Restart, AbandonCycle, dbVars
    <3> QED
      BY <3>1
  <2> QED
    BY <2>1, <2>2
<1> QED
  BY <1>1, OutcomeInvHolds, PTL DEF OutcomeSpec, OutcomeIsFinal
=============================================================================
