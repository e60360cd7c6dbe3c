-------------------------- MODULE RpcManagerProofs --------------------------
(***************************************************************************)
(* Proofs about RpcManager, for any number of callers and all thresholds   *)
(* and durations.                                                          *)
(***************************************************************************)
EXTENDS RpcManager, TLAPS

\* What the breaker relies on: its types, its state agreeing with its data, and
\* a deque in order of time.
BreakerTypes ==
    /\ state \in {"Closed", "Open", "HalfOpen"}
    /\ failures \in Seq(0..(FailureWindow + 1)) /\ Len(failures) <= FailureThreshold
    /\ opened_at \in {NotOpened} \cup 0..OpenDuration

BreakerInv == BreakerTypes /\ BreakerConsistent /\ OldestFirst

CallTypes ==
    /\ pc \in [Callers -> {"idle", "primary", "fallback"}]
    /\ op \in [Callers -> Operations \cup {"none"}]
    /\ result \in [Callers -> Results]
----------------------------------------------------------------------------
(* The operations of the breaker.                                          *)

\* Failures grow older without losing their order.
LEMMA TickKeepsBreaker == BreakerInv /\ Tick => BreakerInv'
<1> SUFFICES ASSUME BreakerInv, Tick PROVE BreakerInv'
  OBVIOUS
<1> USE RpcAssumption DEF BreakerInv, BreakerTypes, NotOpened
<1>1. /\ failures \in Seq(0..(FailureWindow + 1))
      /\ failures' = [i \in 1..Len(failures) |-> Older(failures[i], FailureWindow + 1)]
  BY DEF Tick
<1>2. \A i \in 1..Len(failures) :
         Older(failures[i], FailureWindow + 1) \in 0..(FailureWindow + 1)
  BY DEF Older
<1>3. /\ failures' \in Seq(0..(FailureWindow + 1))
      /\ Len(failures') = Len(failures)
  BY <1>1, <1>2
<1>4. opened_at' \in {NotOpened} \cup 0..OpenDuration
      /\ (opened_at' = NotOpened <=> opened_at = NotOpened)
  BY DEF Tick, Older
<1>5. BreakerConsistent'
  BY <1>3, <1>4 DEF Tick, BreakerConsistent
<1>6. OldestFirst'
  <2> SUFFICES ASSUME NEW i \in 1..Len(failures), NEW j \in 1..Len(failures), i < j
               PROVE  failures'[i] >= failures'[j]
    BY <1>1, <1>3 DEF OldestFirst
  <2>1. /\ failures[i] >= failures[j]
        /\ failures[i] \in 0..(FailureWindow + 1) /\ failures[j] \in 0..(FailureWindow + 1)
    BY <1>1 DEF OldestFirst
  <2> QED BY <1>1, <2>1 DEF Older
<1> QED BY <1>3, <1>4, <1>5, <1>6 DEF Tick

\* is_available moves an open breaker to half-open and keeps its data.
LEMMA AvailableKeepsBreaker ==
    ASSUME BreakerInv, NEW answer \in BOOLEAN, is_available(answer)
    PROVE  BreakerInv'
BY DEF BreakerInv, BreakerTypes, BreakerConsistent, OldestFirst, is_available, breakerVars

\* A success leaves the breaker as it was created.
LEMMA SuccessKeepsBreaker == record_success => BreakerInv'
BY RpcAssumption DEF record_success, BreakerInv, BreakerTypes, BreakerConsistent,
   OldestFirst, NotOpened

\* What pruning and appending leaves in the deque: only failures of the window,
\* oldest first, one of them new.
LEMMA PruneAndAppend ==
    ASSUME BreakerInv, NEW n \in 0..Len(failures), PopsStopAt(n)
    PROVE  LET kept == Append(AfterPops(n), 0)
           IN  /\ kept \in Seq(0..(FailureWindow + 1))
               /\ Len(kept) = Len(failures) - n + 1
               /\ \A i \in 1..Len(kept) : kept[i] <= FailureWindow
               /\ \A i, j \in 1..Len(kept) : i < j => kept[i] >= kept[j]
<1> DEFINE rest == AfterPops(n)
           kept == Append(rest, 0)
<1> USE RpcAssumption
<1>1. failures \in Seq(0..(FailureWindow + 1)) /\ Len(failures) \in Nat
  BY DEF BreakerInv, BreakerTypes
<1>2. /\ rest \in Seq(0..(FailureWindow + 1))
      /\ Len(rest) = Len(failures) - n
      /\ \A i \in 1..Len(rest) : rest[i] = failures[n + i]
  BY <1>1 DEF AfterPops
<1>3. \A i \in 1..Len(rest) : /\ rest[i] \in 0..(FailureWindow + 1)
                              /\ rest[i] <= FailureWindow
  <2> SUFFICES ASSUME NEW i \in 1..Len(rest)
               PROVE  rest[i] \in 0..(FailureWindow + 1) /\ rest[i] <= FailureWindow
    OBVIOUS
  <2>1. /\ n + 1 \in 1..Len(failures) /\ n + i \in 1..Len(failures)
        /\ n + 1 = n + i \/ n + 1 < n + i
    BY <1>1, <1>2
  <2>2. failures[n + 1] <= FailureWindow
    BY <1>1, <1>2, <2>1 DEF PopsStopAt
  <2>3. failures[n + 1] >= failures[n + i]
    <3>1. CASE n + 1 = n + i
      BY <1>1, <2>1, <3>1
    <3>2. CASE n + 1 < n + i
      BY <1>1, <2>1, <3>2 DEF BreakerInv, OldestFirst
    <3> QED BY <2>1, <3>1, <3>2
  <2>4. failures[n + i] \in 0..(FailureWindow + 1) /\ failures[n + 1] \in 0..(FailureWindow + 1)
    BY <1>1, <2>1
  <2> QED BY <1>2, <2>2, <2>3, <2>4
<1>4. \A i, j \in 1..Len(rest) : i < j => rest[i] >= rest[j]
  <2> SUFFICES ASSUME NEW i \in 1..Len(rest), NEW j \in 1..Len(rest), i < j
               PROVE  rest[i] >= rest[j]
    OBVIOUS
  <2>1. n + i \in 1..Len(failures) /\ n + j \in 1..Len(failures) /\ n + i < n + j
    BY <1>1, <1>2
  <2>2. failures[n + i] >= failures[n + j]
    BY <1>1, <2>1 DEF BreakerInv, OldestFirst
  <2> QED BY <1>2, <2>2
<1>5. /\ kept \in Seq(0..(FailureWindow + 1))
      /\ Len(kept) = Len(rest) + 1
      /\ \A i \in 1..Len(rest) : kept[i] = rest[i]
      /\ kept[Len(rest) + 1] = 0
  BY <1>2
<1>6. \A i \in 1..Len(kept) : kept[i] <= FailureWindow
  BY <1>2, <1>3, <1>5
<1>7. \A i, j \in 1..Len(kept) : i < j => kept[i] >= kept[j]
  <2> SUFFICES ASSUME NEW i \in 1..Len(kept), NEW j \in 1..Len(kept), i < j
               PROVE  kept[i] >= kept[j]
    OBVIOUS
  <2>0. Len(rest) \in Nat
    BY <1>1, <1>2
  <2>1. i \in 1..Len(rest) /\ (j \in 1..Len(rest) \/ j = Len(rest) + 1)
    <3>1. ASSUME NEW m \in Nat, NEW k \in 1..(m + 1), NEW l \in 1..(m + 1), k < l
          PROVE  k \in 1..m /\ (l \in 1..m \/ l = m + 1)
      BY <3>1
    <3>2. i \in 1..(Len(rest) + 1) /\ j \in 1..(Len(rest) + 1)
      BY <1>5
    <3> QED BY <2>0, <3>1, <3>2
  <2>2. CASE j \in 1..Len(rest)
    BY <1>4, <1>5, <2>1, <2>2
  <2>3. CASE j = Len(rest) + 1
    BY <1>3, <1>5, <2>1, <2>3
  <2> QED BY <2>1, <2>2, <2>3
<1>8. Len(kept) = Len(failures) - n + 1
  BY <1>2, <1>5
<1> QED BY <1>5, <1>6, <1>7, <1>8

\* A failure keeps the invariant; if it opens a closed breaker, the deque holds
\* exactly FailureThreshold failures, all of them in the window.
LEMMA FailureKeepsBreaker ==
    ASSUME BreakerInv, record_failure
    PROVE  /\ BreakerInv'
           /\ state = "Closed" /\ state' = "Open" =>
                 /\ Len(failures') = FailureThreshold
                 /\ \A i \in DOMAIN failures' : failures'[i] <= FailureWindow
<1> USE RpcAssumption DEF NotOpened
<1>1. CASE state = "Closed" /\ RecordClosed
  <2>1. PICK n \in 0..Len(failures) :
           /\ PopsStopAt(n)
           /\ failures' = Append(AfterPops(n), 0)
           /\ IF Len(failures') >= FailureThreshold
              THEN state' = "Open" /\ opened_at' = 0
              ELSE UNCHANGED <<state, opened_at>>
    BY <1>1 DEF RecordClosed
  <2>2. /\ failures' \in Seq(0..(FailureWindow + 1))
        /\ Len(failures') = Len(failures) - n + 1
        /\ \A i \in 1..Len(failures') : failures'[i] <= FailureWindow
        /\ \A i, j \in 1..Len(failures') : i < j => failures'[i] >= failures'[j]
    BY <2>1, PruneAndAppend
  <2>3. Len(failures) \in Nat /\ Len(failures) < FailureThreshold /\ Len(failures') \in Nat
    BY <1>1, <2>2 DEF BreakerInv, BreakerTypes, BreakerConsistent
  <2>4. Len(failures') <= FailureThreshold
    BY <2>2, <2>3
  <2>5. BreakerTypes'
    BY <2>1, <2>2, <2>4 DEF BreakerInv, BreakerTypes
  <2>6. BreakerConsistent'
    BY <1>1, <2>1, <2>3, <2>4 DEF BreakerInv, BreakerConsistent
  <2>7. OldestFirst'
    BY <2>2 DEF OldestFirst
  <2>8. state' = "Open" => Len(failures') = FailureThreshold
    BY <1>1, <2>1, <2>3, <2>4
  <2> QED BY <2>2, <2>5, <2>6, <2>7, <2>8 DEF BreakerInv
<1>2. CASE state # "Closed" /\ state' = "Open" /\ opened_at' = 0 /\ UNCHANGED failures
  BY <1>2 DEF BreakerInv, BreakerTypes, BreakerConsistent, OldestFirst
<1> QED BY <1>1, <1>2 DEF record_failure
----------------------------------------------------------------------------
(* Steps of the manager.                                                   *)

\* A step of a caller is one operation of the breaker, or none.
LEMMA CallerEffect ==
    ASSUME NEW c \in Callers, CallerStep(c)
    PROVE  \/ \E answer \in BOOLEAN :
                 /\ is_available(answer)
                 /\ pc' = [pc EXCEPT ![c] = IF answer THEN "primary" ELSE "fallback"]
           \/ record_success /\ pc' = [pc EXCEPT ![c] = "idle"]
           \/ record_failure /\ pc' = [pc EXCEPT ![c] = "fallback"]
           \/ UNCHANGED breakerVars /\ pc' = [pc EXCEPT ![c] = "idle"]
BY DEF CallerStep, fetch_account, fetch_multiple_accounts, get_slot, get_latest_blockhash,
   Begin, Proceed, PrimaryAnswers, PrimaryFails, FallbackEnds, Cancelled, Return

(* A caller's own step keeps its program counter, operation and result in  *)
(* their types.                                                            *)
LEMMA CallerTypes ==
    ASSUME CallTypes, NEW c \in Callers, CallerStep(c)
    PROVE  CallTypes'
<1> USE DEF CallTypes, Operations, Results, Begin, Proceed, PrimaryAnswers, PrimaryFails,
    FallbackEnds, Return
<1>1. CASE fetch_account(c)
  BY <1>1 DEF fetch_account
<1>2. CASE fetch_multiple_accounts(c)
  BY <1>2 DEF fetch_multiple_accounts
<1>3. CASE get_slot(c)
  BY <1>3 DEF get_slot
<1>4. CASE get_latest_blockhash(c)
  BY <1>4 DEF get_latest_blockhash
<1>5. CASE Cancelled(c)
  BY <1>5 DEF Cancelled
<1> QED BY <1>1, <1>2, <1>3, <1>4, <1>5 DEF CallerStep

(* A new CircuitBreaker and idle callers satisfy the invariant.            *)
LEMMA RpcInvInit == RpcInit => BreakerInv /\ CallTypes
BY RpcAssumption DEF RpcInit, BreakerInv, BreakerTypes, BreakerConsistent, OldestFirst,
   CallTypes, Operations, Results, NotOpened

(* Every step of the clock or of a caller preserves the invariant.         *)
LEMMA RpcInvStep == BreakerInv /\ CallTypes /\ [RpcNext]_rpcVars => (BreakerInv /\ CallTypes)'
<1> SUFFICES ASSUME BreakerInv, CallTypes, [RpcNext]_rpcVars
             PROVE  (BreakerInv /\ CallTypes)'
  OBVIOUS
<1>1. CASE Tick
  BY <1>1, TickKeepsBreaker DEF Tick, CallTypes, callVars
<1>2. ASSUME NEW c \in Callers, CallerStep(c)
      PROVE  (BreakerInv /\ CallTypes)'
  <2>1. ASSUME UNCHANGED breakerVars PROVE BreakerInv'
    BY <2>1 DEF breakerVars, BreakerInv, BreakerTypes, BreakerConsistent, OldestFirst
  <2>2. BreakerInv'
    BY <1>2, <2>1, CallerEffect, AvailableKeepsBreaker, SuccessKeepsBreaker,
       FailureKeepsBreaker
  <2> QED BY <1>2, <2>2, CallerTypes
<1>3. CASE UNCHANGED rpcVars
  BY <1>3 DEF rpcVars, BreakerInv, BreakerTypes, BreakerConsistent, OldestFirst, CallTypes
<1> QED BY <1>1, <1>2, <1>3 DEF RpcNext

(* The inductive invariant holds in every reachable state.                 *)
LEMMA RpcInvariant == RpcSpec => [](BreakerInv /\ CallTypes)
BY RpcInvInit, RpcInvStep, PTL DEF RpcSpec

\* The breaker and its callers stay well typed for any number of callers.
THEOREM RpcTypeCorrect == RpcSpec => []RpcTypeOK
<1>1. BreakerInv /\ CallTypes => RpcTypeOK
  BY DEF BreakerInv, BreakerTypes, CallTypes, RpcTypeOK
<1> QED BY <1>1, RpcInvariant, PTL

\* The breaker's state agrees with opened_at and with the number of failures it
\* holds, whatever calls overlap: rpc.rs can never be open without opened_at,
\* which is_available would never leave.
THEOREM BreakerStaysConsistent == RpcSpec => []BreakerConsistent
BY RpcInvariant, PTL DEF BreakerInv

\* The deque stays in order of time.
THEOREM DequeIsOrdered == RpcSpec => []OldestFirst
BY RpcInvariant, PTL DEF BreakerInv

\* A closed breaker opens only on FailureThreshold failures of the last
\* FailureWindow.
THEOREM BreakerOpensRightly == RpcSpec => OpensOnRecentFailures
<1>1. ASSUME BreakerInv, [RpcNext]_rpcVars
      PROVE  [state = "Closed" /\ state' = "Open" =>
                 /\ Len(failures') = FailureThreshold
                 /\ \A i \in DOMAIN failures' : failures'[i] <= FailureWindow]_rpcVars
  <2> SUFFICES ASSUME state = "Closed", state' = "Open"
               PROVE  /\ Len(failures') = FailureThreshold
                      /\ \A i \in DOMAIN failures' : failures'[i] <= FailureWindow
    OBVIOUS
  <2>1. PICK c \in Callers : CallerStep(c)
    BY <1>1 DEF RpcNext, Tick, rpcVars
  <2>2. record_failure
    BY <2>1, CallerEffect DEF is_available, record_success, breakerVars
  <2> QED BY <1>1, <2>2, FailureKeepsBreaker
<1>2. RpcSpec => []BreakerInv /\ [][RpcNext]_rpcVars
  BY RpcInvariant, PTL DEF RpcSpec
<1> QED BY <1>1, <1>2, PTL DEF OpensOnRecentFailures

\* While the breaker stays open, no call is sent to the primary.
THEOREM OpenKeepsPrimaryIdle == RpcSpec => OpenAdmitsNobody
<1>1. ASSUME CallTypes, [RpcNext]_rpcVars
      PROVE  [state = "Open" /\ state' = "Open" => AtPrimary' \subseteq AtPrimary]_rpcVars
  <2> SUFFICES ASSUME state = "Open", state' = "Open"
               PROVE  AtPrimary' \subseteq AtPrimary
    OBVIOUS
  <2>1. CASE UNCHANGED pc
    BY <2>1 DEF AtPrimary
  <2>2. ASSUME NEW c \in Callers, CallerStep(c)
        PROVE  AtPrimary' \subseteq AtPrimary
    <3>1. pc' = [pc EXCEPT ![c] = "idle"] \/ pc' = [pc EXCEPT ![c] = "fallback"]
      BY <2>2, CallerEffect DEF is_available, breakerVars
    <3> QED BY <1>1, <3>1 DEF AtPrimary, CallTypes
  <2> QED BY <1>1, <2>1, <2>2 DEF RpcNext, Tick, callVars, rpcVars
<1>2. RpcSpec => []CallTypes /\ [][RpcNext]_rpcVars
  BY RpcInvariant, PTL DEF RpcSpec
<1> QED BY <1>1, <1>2, PTL DEF OpenAdmitsNobody
=============================================================================
