--------------------------- MODULE OutcomeCapture ---------------------------
(***************************************************************************)
(* The outcome capture task (crates/ciel-pipeline/src/outcome.rs): every   *)
(* poll interval it takes the oldest APPROVE rows without an outcome, asks *)
(* an RPC node for the status of each transaction and writes what it       *)
(* concludes.  The chain, the node's status cache and the process that     *)
(* hosts the task move between any two awaits.                             *)
(***************************************************************************)
EXTENDS Integers, Sequences, FiniteSetsExt

CONSTANTS
    Rows,              \* verdict_log rows
    Ttl,               \* OutcomeCaptureConfig::ttl, in clock ticks
    BatchSize,         \* OutcomeCaptureConfig::batch_size
    Retention          \* ticks a node keeps a signature in its status cache

ASSUME OutcomeAssumption ==
    /\ Ttl \in Nat
    /\ BatchSize \in Nat \ {0}
    /\ Retention \in Nat

VARIABLES
    table,             \* rows of verdict_log, in the order of created_at
    tracked,           \* rows with verdict APPROVE and a tx_signature
    execution_outcome, \* per row; "null" until written
    age,               \* per row: time since created_at
    chain,             \* per transaction: unseen, processed or confirmed
    error,             \* the transactions that failed on chain
    inTime,            \* the transactions that landed within the ttl
    sinceSeen,         \* per transaction: time since it landed
    task,              \* where the task is
    batch,             \* positions in the table of the rows still to be handled
    nowAge,            \* age of every row when the cycle sampled `now`
    conclusion         \* the outcome about to be written

dbVars == <<table, tracked, execution_outcome>>
chainVars == <<chain, error, inTime, sinceSeen>>
taskVars == <<task, batch, nowAge, conclusion>>
outcomeVars == <<table, tracked, execution_outcome, age, chain, error, inTime, sinceSeen,
                 task, batch, nowAge, conclusion>>

Outcomes == {"landed", "reverted", "expired"}

NoAges == [r \in Rows |-> 0]

Inserted == {table[i] : i \in DOMAIN table}

OutcomeInit ==
    /\ table = <<>>
    /\ tracked = {}
    /\ execution_outcome = [r \in Rows |-> "null"]
    /\ age = [r \in Rows |-> 0]
    /\ chain = [r \in Rows |-> "unseen"]
    /\ error = {}
    /\ inTime = {}
    /\ sinceSeen = [r \in Rows |-> 0]
    /\ task = "sleeping"
    /\ batch = {}
    /\ nowAge = NoAges
    /\ conclusion = "null"
----------------------------------------------------------------------------
(* The environment: time, the verdict log, the chain.                      *)

\* Counts clock ticks up to a limit past which nothing changes.
Until(t, limit) == IF t < limit THEN t + 1 ELSE limit

Tick ==
    /\ age' = [r \in Rows |-> IF r \in Inserted THEN Until(age[r], Ttl + 1) ELSE age[r]]
    /\ sinceSeen' = [r \in Rows |->
          IF chain[r] # "unseen" THEN Until(sinceSeen[r], Retention + 1) ELSE sinceSeen[r]]
    /\ UNCHANGED <<dbVars, chain, error, inTime, taskVars>>

\* The verdict pipeline logs a verdict; created_at is the time of the insert.
insert_verdict(r) ==
    /\ r \notin Inserted
    /\ table' = Append(table, r)
    /\ tracked' \in {tracked, tracked \cup {r}}
    /\ UNCHANGED <<execution_outcome, age, chainVars, taskVars>>

\* A block with the transaction is processed, by success or failure.
Lands(r, failed) ==
    /\ chain[r] = "unseen"
    /\ chain' = [chain EXCEPT ![r] = "processed"]
    /\ error' = IF failed THEN error \cup {r} ELSE error
    /\ inTime' = IF age[r] <= Ttl THEN inTime \cup {r} ELSE inTime
    /\ sinceSeen' = [sinceSeen EXCEPT ![r] = 0]
    /\ UNCHANGED <<dbVars, age, taskVars>>

\* The block is voted in, or its fork is dropped.
Confirms(r) ==
    /\ chain[r] = "processed"
    /\ chain' = [chain EXCEPT ![r] = "confirmed"]
    /\ UNCHANGED <<dbVars, age, error, inTime, sinceSeen, taskVars>>

ForkDropped(r) ==
    /\ chain[r] = "processed"
    /\ chain' = [chain EXCEPT ![r] = "unseen"]
    /\ error' = error \ {r}
    /\ inTime' = inTime \ {r}
    /\ sinceSeen' = [sinceSeen EXCEPT ![r] = 0]
    /\ UNCHANGED <<dbVars, age, taskVars>>
----------------------------------------------------------------------------
(* The task.                                                               *)

\* Mutant: rows that already have an outcome are fetched again.
PendingAlsoDecided == {i \in DOMAIN table : table[i] \in tracked}

\* APPROVE rows without an outcome, by their position in the order of created_at.
Pending ==
    {i \in DOMAIN table : table[i] \in tracked /\ execution_outcome[table[i]] = "null"}

\* ORDER BY created_at LIMIT batch_size: the oldest of them.
fetch_pending_verdicts ==
    {i \in Pending : Cardinality({j \in Pending : j < i}) < BatchSize}

\* The row the loop over the batch is at, oldest first.
Current == table[Min(batch)]

\* The cycle begins: the query answers (or fails, and nothing changes), then
\* `now` is sampled once for the whole batch.
BeginCycle ==
    /\ task = "sleeping"
    /\ fetch_pending_verdicts # {}
    /\ task' = "asking"
    /\ batch' = fetch_pending_verdicts
    /\ nowAge' = age
    /\ UNCHANGED <<dbVars, age, chainVars, conclusion>>

\* On to the next row, or to sleep.
EndRow ==
    /\ batch' = batch \ {Min(batch)}
    /\ task' = IF batch' = {} THEN "sleeping" ELSE "asking"
    /\ nowAge' = IF batch' = {} THEN NoAges ELSE nowAge

\* getSignatureStatuses finds what is in the node's cache of recent statuses.
StatusFound(r) == chain[r] # "unseen" /\ sinceSeen[r] <= Retention

\* Mutant: the ttl is checked before the node is asked.
determine_outcome_ttl_first(r) ==
    IF nowAge[r] > Ttl THEN "expired"
    ELSE IF StatusFound(r) THEN (IF r \in error THEN "reverted" ELSE "landed")
    ELSE "null"

\* Mutant: a row expires when the ttl is reached.
determine_outcome_early(r) ==
    IF StatusFound(r) THEN (IF r \in error THEN "reverted" ELSE "landed")
    ELSE IF nowAge[r] >= Ttl THEN "expired"
    ELSE "null"

\* Mutant: rows do not expire.
determine_outcome_unlimited(r) ==
    IF StatusFound(r) THEN (IF r \in error THEN "reverted" ELSE "landed") ELSE "null"

\* Whatever the confirmation level, a status that is found decides.
determine_outcome(r) ==
    IF StatusFound(r) THEN (IF r \in error THEN "reverted" ELSE "landed")
    ELSE IF nowAge[r] > Ttl THEN "expired"
    ELSE "null"

\* The node answers: conclude and go on to the UPDATE, or leave the row for the
\* next cycle.
StatusAnswered ==
    /\ task = "asking"
    /\ \E answer \in {determine_outcome(Current)} :
          IF answer = "null"
          THEN EndRow /\ UNCHANGED conclusion
          ELSE task' = "writing" /\ conclusion' = answer /\ UNCHANGED <<batch, nowAge>>
    /\ UNCHANGED <<dbVars, age, chainVars>>

\* The request to the node fails: warn and go on to the next row.
StatusFailed ==
    /\ task = "asking"
    /\ EndRow
    /\ UNCHANGED <<dbVars, age, chainVars, conclusion>>

update_verdict_outcome ==
    /\ task = "writing"
    /\ execution_outcome' = [execution_outcome EXCEPT ![Current] = conclusion]
    /\ EndRow
    /\ conclusion' = "null"
    /\ UNCHANGED <<table, tracked, age, chainVars>>

AbandonCycle ==
    /\ task' = "sleeping"
    /\ batch' = {}
    /\ nowAge' = NoAges
    /\ conclusion' = "null"
    /\ UNCHANGED <<dbVars, age, chainVars>>

\* The UPDATE fails: `?` abandons the rest of the batch until the next cycle.
UpdateFails == task = "writing" /\ AbandonCycle

\* The process stops, at any point of a cycle, and is started again.
Restart == task # "sleeping" /\ AbandonCycle
----------------------------------------------------------------------------
ChainStep(r) ==
    (\E failed \in BOOLEAN : Lands(r, failed)) \/ Confirms(r) \/ ForkDropped(r)

OutcomeNext ==
    \/ Tick
    \/ \E r \in Rows : insert_verdict(r) \/ ChainStep(r)
    \/ BeginCycle \/ StatusAnswered \/ StatusFailed
    \/ update_verdict_outcome \/ UpdateFails \/ Restart

OutcomeSpec == OutcomeInit /\ [][OutcomeNext]_outcomeVars

\* Time passes and the loop runs; the node answers, the database accepts an
\* update and the process stays up often enough: a request that is tried for
\* one row again and again succeeds in the end.
Written(r) == update_verdict_outcome /\ Current = r
Answered(r) == StatusAnswered /\ Current = r

OutcomeFairSpec ==
    /\ OutcomeSpec
    /\ WF_outcomeVars(Tick)
    /\ WF_outcomeVars(BeginCycle)
    /\ WF_outcomeVars(StatusAnswered \/ StatusFailed)
    /\ WF_outcomeVars(update_verdict_outcome \/ UpdateFails)
    /\ \A r \in Rows : SF_outcomeVars(Answered(r)) /\ SF_outcomeVars(Written(r))
----------------------------------------------------------------------------
(* Properties.                                                             *)

\* An outcome once written is never changed: the UPDATE has no condition of its
\* own, so this rests on the batch holding undecided rows only.
OutcomeIsFinal ==
    [][\A r \in Rows : execution_outcome[r] # "null"
          => execution_outcome'[r] = execution_outcome[r]]_outcomeVars

\* Rows that are not an APPROVE with a signature never get an outcome, and those
\* that do were old enough to expire if they say so.
OutcomesAreEarned ==
    \A r \in Rows :
        /\ execution_outcome[r] # "null" => r \in tracked
        /\ execution_outcome[r] = "expired" => age[r] > Ttl

\* A transaction that landed within the ttl is written off as expired only after
\* the node has forgotten it: never by a slow cycle, a retry or a failed update.
ExpiredOnlyIfForgotten ==
    \A r \in Rows :
        (execution_outcome[r] = "expired" /\ r \in inTime) => sinceSeen[r] > Retention

\* Every tracked row gets an outcome, however the rows ahead of it fare.
EveryApproveIsResolved ==
    \A r \in Rows : r \in tracked ~> execution_outcome[r] # "null"
=============================================================================
