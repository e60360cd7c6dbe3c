----------------------------- MODULE RpcManager -----------------------------
(***************************************************************************)
(* RpcManager and its CircuitBreaker (crates/ciel-fork/src/rpc.rs): calls  *)
(* try the primary provider under a 100 ms timeout, unless the breaker is  *)
(* open, and then the fallback.  The breaker sits behind a tokio mutex     *)
(* that is never held across a request, so an answer is recorded in        *)
(* whatever state the breaker has reached by then.                         *)
(*                                                                         *)
(* An Instant is modelled by its age, in clock ticks.                      *)
(***************************************************************************)
EXTENDS Integers, Sequences

CONSTANTS
    Callers,           \* tasks that call the manager
    FailureThreshold,  \* FAILURE_THRESHOLD
    FailureWindow,     \* FAILURE_WINDOW, in ticks
    OpenDuration       \* OPEN_DURATION, in ticks

ASSUME RpcAssumption ==
    /\ FailureThreshold \in Nat \ {0}
    /\ FailureWindow \in Nat
    /\ OpenDuration \in Nat

VARIABLES
    state,             \* CircuitState
    failures,          \* ages of the recorded failures, oldest first
    opened_at,         \* age of opened_at; NotOpened for None
    pc,                \* per caller: idle, primary or fallback
    op,                \* the operation it is in
    result             \* what its last call returned

breakerVars == <<state, failures, opened_at>>
callVars == <<pc, op, result>>
rpcVars == <<state, failures, opened_at, pc, op, result>>

Operations == {"fetch_account", "fetch_multiple_accounts", "get_slot",
               "get_latest_blockhash"}

Results == {"none", "Ok", "AccountNotFound", "AllProvidersDown", "Rpc", "cancelled"}

NotOpened == -1

RpcInit ==
    /\ state = "Closed"
    /\ failures = <<>>
    /\ opened_at = NotOpened
    /\ pc = [c \in Callers |-> "idle"]
    /\ op = [c \in Callers |-> "none"]
    /\ result = [c \in Callers |-> "none"]
----------------------------------------------------------------------------
(* CircuitBreaker.  Ages saturate just past the limit they are compared to. *)

Older(t, limit) == IF t < limit THEN t + 1 ELSE limit

Tick ==
    /\ failures' = [i \in DOMAIN failures |-> Older(failures[i], FailureWindow + 1)]
    /\ opened_at' = IF opened_at = NotOpened THEN NotOpened
                    ELSE Older(opened_at, OpenDuration)
    /\ UNCHANGED <<state, callVars>>

\* Mutant: an open breaker lets the request through without a probe state.
is_available_always(answer) ==
    /\ answer = TRUE
    /\ UNCHANGED breakerVars

\* Closed and HalfOpen admit everybody; Open admits nobody until it turns HalfOpen.
is_available(answer) ==
    \/ /\ state # "Open"
       /\ answer = TRUE
       /\ UNCHANGED breakerVars
    \/ /\ state = "Open"
       /\ answer = (opened_at >= OpenDuration)
       /\ state' = IF answer THEN "HalfOpen" ELSE "Open"
       /\ UNCHANGED <<failures, opened_at>>

\* Mutant: a success closes the breaker and keeps the failures.
record_success_keeping_failures ==
    /\ state' = "Closed"
    /\ opened_at' = NotOpened
    /\ UNCHANGED failures

record_success ==
    /\ state' = "Closed"
    /\ failures' = <<>>
    /\ opened_at' = NotOpened

\* The failures left once n expired ones were popped from the front.
AfterPops(n) == SubSeq(failures, n + 1, Len(failures))

\* The pops stop at the first failure that is still in the window.
PopsStopAt(n) ==
    /\ \A i \in 1..n : failures[i] > FailureWindow
    /\ n < Len(failures) => failures[n + 1] <= FailureWindow

\* Mutant: expired failures are never pruned.
RecordClosedUnpruned ==
    /\ failures' = Append(failures, 0)
    /\ IF Len(failures') >= FailureThreshold
       THEN state' = "Open" /\ opened_at' = 0
       ELSE UNCHANGED <<state, opened_at>>

\* Mutant: failures are pushed at the end they are popped from.
RecordClosedPushFront ==
    \E n \in 0..Len(failures) :
        /\ PopsStopAt(n)
        /\ failures' = <<0>> \o AfterPops(n)
        /\ IF Len(failures') >= FailureThreshold
           THEN state' = "Open" /\ opened_at' = 0
           ELSE UNCHANGED <<state, opened_at>>

\* Mutant: one failure too many is needed to open.
RecordClosedLate ==
    \E n \in 0..Len(failures) :
        /\ PopsStopAt(n)
        /\ failures' = Append(AfterPops(n), 0)
        /\ IF Len(failures') > FailureThreshold
           THEN state' = "Open" /\ opened_at' = 0
           ELSE UNCHANGED <<state, opened_at>>

\* record_failure in the Closed state: prune, append, open at the threshold.
RecordClosed ==
    \E n \in 0..Len(failures) :
        /\ PopsStopAt(n)
        /\ failures' = Append(AfterPops(n), 0)
        /\ IF Len(failures') >= FailureThreshold
           THEN state' = "Open" /\ opened_at' = 0
           ELSE UNCHANGED <<state, opened_at>>

\* A failure re-opens a half-open breaker and restarts the clock of an open one.
record_failure ==
    \/ state = "Closed" /\ RecordClosed
    \/ state # "Closed" /\ state' = "Open" /\ opened_at' = 0 /\ UNCHANGED failures
----------------------------------------------------------------------------
(* RpcManager: what the four operations have in common.                    *)

\* Step 1: ask the breaker.
Begin(c, name) ==
    /\ pc[c] = "idle"
    /\ \E answer \in BOOLEAN :
          /\ is_available(answer)
          /\ pc' = [pc EXCEPT ![c] = IF answer THEN "primary" ELSE "fallback"]
    /\ op' = [op EXCEPT ![c] = name]
    /\ result' = [result EXCEPT ![c] = "none"]

Return(c, value) ==
    /\ pc' = [pc EXCEPT ![c] = "idle"]
    /\ op' = [op EXCEPT ![c] = "none"]
    /\ result' = [result EXCEPT ![c] = value]

\* Step 2: the primary answered; a missing account is an answer too.
PrimaryAnswers(c, answers) ==
    /\ pc[c] = "primary"
    /\ record_success
    /\ \E value \in answers : Return(c, value)

\* Mutant: a failed request goes to the primary again.
PrimaryFailsRetrying(c) ==
    /\ pc[c] = "primary"
    /\ record_failure
    /\ UNCHANGED callVars

\* The primary returned an error or did not answer within FAILOVER_TIMEOUT.
PrimaryFails(c) ==
    /\ pc[c] = "primary"
    /\ record_failure
    /\ pc' = [pc EXCEPT ![c] = "fallback"]
    /\ UNCHANGED <<op, result>>

\* Step 3: the fallback, without a timeout of its own, never touches the breaker.
FallbackEnds(c, answers, down) ==
    /\ pc[c] = "fallback"
    /\ \E value \in answers \cup {down} : Return(c, value)
    /\ UNCHANGED breakerVars

\* What an operation does after it began, until it returns.
Proceed(c, name, answers, down) ==
    /\ op[c] = name
    /\ \/ PrimaryAnswers(c, answers)
       \/ PrimaryFails(c)
       \/ FallbackEnds(c, answers, down)

fetch_account(c) ==
    \/ Begin(c, "fetch_account")
    \/ Proceed(c, "fetch_account", {"Ok", "AccountNotFound"}, "AllProvidersDown")

fetch_multiple_accounts(c) ==
    \/ Begin(c, "fetch_multiple_accounts")
    \/ Proceed(c, "fetch_multiple_accounts", {"Ok"}, "AllProvidersDown")

get_slot(c) ==
    \/ Begin(c, "get_slot")
    \/ Proceed(c, "get_slot", {"Ok"}, "Rpc")

get_latest_blockhash(c) ==
    \/ Begin(c, "get_latest_blockhash")
    \/ Proceed(c, "get_latest_blockhash", {"Ok"}, "Rpc")

\* The caller drops the future while it awaits a provider: nothing is recorded.
Cancelled(c) ==
    /\ pc[c] # "idle"
    /\ Return(c, "cancelled")
    /\ UNCHANGED breakerVars
----------------------------------------------------------------------------
CallerStep(c) ==
    \/ fetch_account(c) \/ fetch_multiple_accounts(c)
    \/ get_slot(c) \/ get_latest_blockhash(c)
    \/ Cancelled(c)

RpcNext == Tick \/ \E c \in Callers : CallerStep(c)

RpcSpec == RpcInit /\ [][RpcNext]_rpcVars

\* A call under way ends: the primary within its timeout, the fallback within
\* the timeout of the RPC client.  Nobody has to start a call.
Ends(c) == pc[c] # "idle" /\ CallerStep(c)

RpcFairSpec == RpcSpec /\ WF_rpcVars(Tick) /\ \A c \in Callers : WF_rpcVars(Ends(c))
----------------------------------------------------------------------------
(* Properties.                                                             *)

AtPrimary == {c \in Callers : pc[c] = "primary"}

\* Every variable holds a value of its type, and the deque, from which only a
\* failure in the closed state or a success removes anything, never grows past
\* FailureThreshold, however many late failures are recorded.
RpcTypeOK ==
    /\ state \in {"Closed", "Open", "HalfOpen"}
    /\ failures \in Seq(0..(FailureWindow + 1)) /\ Len(failures) <= FailureThreshold
    /\ opened_at \in {NotOpened} \cup 0..OpenDuration
    /\ pc \in [Callers -> {"idle", "primary", "fallback"}]
    /\ op \in [Callers -> Operations \cup {"none"}]
    /\ result \in [Callers -> Results]

\* opened_at is set exactly when the breaker is not closed, so an open breaker
\* can always become half-open; a closed one is always below the threshold, an
\* open or half-open one still holds the failures that opened it.
BreakerConsistent ==
    /\ (state = "Closed") <=> (opened_at = NotOpened)
    /\ (state = "Closed") <=> (Len(failures) < FailureThreshold)

\* The deque is ordered by time, so popping from the front removes every
\* expired failure.
OldestFirst == \A i, j \in DOMAIN failures : i < j => failures[i] >= failures[j]

\* The breaker opens on FailureThreshold failures that all lie in the window,
\* whichever calls reported them and however late.
OpensOnRecentFailures ==
    [][state = "Closed" /\ state' = "Open" =>
          /\ Len(failures') = FailureThreshold
          /\ \A i \in DOMAIN failures' : failures'[i] <= FailureWindow]_rpcVars

\* While the breaker stays open no call reaches the primary: only the calls that
\* were already there may still fail or succeed.
OpenAdmitsNobody ==
    [][state = "Open" /\ state' = "Open" => AtPrimary' \subseteq AtPrimary]_rpcVars

\* Late failures push opened_at forward, but not for ever: an open breaker gets
\* ready for a probe, or has left the open state by a late success.
ProbeBecomesDue == state = "Open" ~> (state # "Open" \/ opened_at >= OpenDuration)

\* Every call returns, whatever the breaker does meanwhile.
EveryCallReturns == \A c \in Callers : pc[c] # "idle" ~> pc[c] = "idle"
=============================================================================
