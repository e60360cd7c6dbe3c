----------------------------- MODULE CallGraph -----------------------------
(***************************************************************************)
(* The simulation of one transaction as the checkers see it                *)
(* (crates/ciel-fork/src/executor.rs).  The runtime executes the top-level *)
(* instructions one after the other, and the programs they invoke issue    *)
(* inner calls (CPIs); the simulation may fail at any point.  What the     *)
(* checkers get is extract_cpi_graph: all top-level instructions first,    *)
(* then the inner calls that were recorded.  That is not the order of      *)
(* execution.                                                              *)
(*                                                                         *)
(* A call is a record [program, op, accounts, unlimited]: op names the     *)
(* discriminator in the first byte of the data, accounts is the sequence   *)
(* of resolved keys, and unlimited says whether the amount is u64::MAX.    *)
(***************************************************************************)
EXTENDS Integers, SequencesExt

CONSTANTS Instructions,     \* the calls a transaction or a program may make
          Keys,             \* the accounts and programs they name
          KeyOrder,         \* the order in which a transaction lists them
          Sources,          \* the token accounts among them
          PreState,         \* lamports of the accounts that exist beforehand
          FeePayer, Fee,    \* who pays the fee of the transaction, and how much
          TransferAmount,   \* lamports a system transfer moves
          MaxTopLevel,      \* bound on the instructions of a transaction
          MaxInner,         \* bound on the inner calls of a simulation
          MaxHeight         \* bound on the depth of the call stack

Programs == {"SPL_TOKEN", "SPL_TOKEN_2022", "BPF_LOADER_UPGRADEABLE",
             "SQUADS_V4", "SYSTEM", "DRIFT_V2", "JUPITER_V6", "SWITCHBOARD_V2", "PYTH",
             "OTHER"}

CpiCall == [program : Programs, op : STRING, accounts : Seq(Keys), unlimited : BOOLEAN]

ASSUME CallsAreTyped ==
    /\ Instructions \subseteq CpiCall
    /\ Sources \subseteq Keys
    /\ KeyOrder \in Seq(Keys \cup Programs)
    /\ Keys \cup Programs \subseteq {KeyOrder[i] : i \in DOMAIN KeyOrder}
    /\ DOMAIN PreState \subseteq Keys /\ FeePayer \in DOMAIN PreState
    /\ \A k \in DOMAIN PreState : PreState[k] \in Nat
    /\ Fee \in Nat /\ PreState[FeePayer] >= Fee /\ TransferAmount \in Nat
    /\ MaxTopLevel \in Nat /\ MaxInner \in Nat /\ MaxHeight \in Nat

VARIABLES tx,        \* the top-level instructions the user signed
          at,        \* how many of them have been entered
          height,    \* stack height of the call that runs, 0 between instructions
          inner,     \* the recorded inner calls, with their instruction and height
          sim,       \* "running", "ok" or "failed"
          grants,    \* per token account: the unlimited delegate that stands, if any
          lamports   \* per account: its balance in the simulation

vars == <<tx, at, height, inner, sim, grants, lamports>>

NoGrant == [delegate |-> "none", height |-> 0]

TokenPrograms == {"SPL_TOKEN", "SPL_TOKEN_2022"}

\* Programs that call other programs; the native and token programs do not.
Callers == {"SQUADS_V4", "DRIFT_V2", "JUPITER_V6", "OTHER"}

Transactions == UNION {[1..n -> Instructions] : n \in 1..MaxTopLevel}

\* An account that does not exist has no lamports.
BeforeFee == [k \in Keys |-> IF k \in DOMAIN PreState THEN PreState[k] ELSE 0]

\* The runtime takes the fee and is about to run the first instruction.
Init ==
    /\ tx \in Transactions
    /\ at = 0 /\ height = 0
    /\ inner = <<>>
    /\ sim = "running"
    /\ grants = [s \in Sources |-> NoGrant]
    /\ lamports = [BeforeFee EXCEPT ![FeePayer] = @ - Fee]

\* The delegate of an Approve or ApproveChecked, which takes the mint first.
DelegateOf(call) == call.accounts[IF call.op = "ApproveChecked" THEN 3 ELSE 2]

\* What the token program does to the delegate of its source account: an
\* approval replaces the one before it, Revoke removes it.
Granted(call, h) ==
    CASE call.program \in TokenPrograms /\ call.op \in {"Approve", "ApproveChecked"} ->
           [grants EXCEPT ![call.accounts[1]] =
              IF call.unlimited THEN [delegate |-> DelegateOf(call), height |-> h]
                                ELSE NoGrant]
      [] call.program \in TokenPrograms /\ call.op = "Revoke" ->
           [grants EXCEPT ![call.accounts[1]] = NoGrant]
      [] OTHER -> grants

\* A system transfer.
IsTransfer(call) == call.program = "SYSTEM" /\ call.op = "Transfer"

\* How many accounts a call needs for what is modelled of it.
Operands(call) ==
    CASE IsTransfer(call) -> 2
      [] call.program \in TokenPrograms /\ call.op = "Approve" -> 2
      [] call.program \in TokenPrograms /\ call.op = "ApproveChecked" -> 3
      [] call.program \in TokenPrograms /\ call.op = "Revoke" -> 1
      [] OTHER -> 0

\* A program refuses a call without the accounts it reads, and a transfer from a
\* source that has not the lamports.
Executable(call) ==
    /\ Len(call.accounts) >= Operands(call)
    /\ IsTransfer(call) => lamports[call.accounts[1]] >= TransferAmount

Moved(call) ==
    IF IsTransfer(call)
    THEN [[lamports EXCEPT ![call.accounts[1]] = @ - TransferAmount]
                    EXCEPT ![call.accounts[2]] = @ + TransferAmount]
    ELSE lamports

\* The runtime enters the next top-level instruction.
Invoke ==
    /\ sim = "running" /\ at < Len(tx)
    /\ Executable(tx[at + 1])
    /\ at' = at + 1
    /\ height' = 1
    /\ grants' = Granted(tx[at + 1], 1)
    /\ lamports' = Moved(tx[at + 1])
    /\ UNCHANGED <<tx, inner, sim>>

\* The call that runs at some height, which may call further down or return.
Running(h) ==
    IF h = 1 THEN tx[at] ELSE inner[Len(inner)].call

\* The runtime records an inner call under the instruction it belongs to.
Recorded(call, h) == Append(inner, [index |-> at, height |-> h, call |-> call])

\* A program calls another one, from the height it runs at or after returning to
\* a lower one.
Cpi(call) ==
    /\ sim = "running" /\ height > 0
    /\ Len(inner) < MaxInner
    /\ Executable(call)
    /\ lamports' = Moved(call)
    /\ \E h \in 1..height :
          /\ h < MaxHeight
          /\ h = height \/ h = 1
          /\ Running(h).program \in Callers
          /\ inner' = Recorded(call, h + 1)
          /\ height' = h + 1
          /\ grants' = Granted(call, h + 1)
    /\ UNCHANGED <<tx, at, sim>>

\* simulate_transaction returns Err: the state is not modified, the metadata
\* recorded so far is kept.
Fails ==
    /\ sim = "running"
    /\ sim' = "failed"
    /\ grants' = [s \in Sources |-> NoGrant]
    /\ lamports' = BeforeFee
    /\ UNCHANGED <<tx, at, height, inner>>

\* simulate_transaction returns Ok.
Succeeds ==
    /\ sim = "running" /\ at = Len(tx)
    /\ sim' = "ok"
    /\ UNCHANGED <<tx, at, height, inner, grants, lamports>>

Next ==
    \/ Invoke
    \/ \E call \in Instructions : Cpi(call)
    \/ Fails
    \/ Succeeds

Spec == Init /\ [][Next]_vars

\* Mutant: only what execution recorded, as if the first layer were dropped.
extract_cpi_graph_inner_only ==
    [i \in 1..Len(inner) |-> [call |-> inner[i].call, index |-> inner[i].index,
                              height |-> inner[i].height]]

\* Layer 1: every top-level instruction at stack height 1, whether or not it was
\* reached; layer 2: the recorded inner calls.
extract_cpi_graph ==
    [i \in 1..Len(tx) |-> [call |-> tx[i], index |-> i, height |-> 1]]
    \o [i \in 1..Len(inner) |-> [call |-> inner[i].call, index |-> inner[i].index,
                                 height |-> inner[i].height]]

\* The fee payer, and every account and program that the instructions of the
\* transaction or the calls they make name.
Named ==
    LET calls == {extract_cpi_graph[i].call : i \in DOMAIN extract_cpi_graph}
    IN  {FeePayer} \cup {c.program : c \in calls} \cup UNION {ToSet(c.accounts) : c \in calls}

\* account_keys: what the transaction lists, in order.
account_keys ==
    LET named == Named
    IN  FoldLeft(LAMBDA acc, k : IF k \in named THEN Append(acc, k) ELSE acc, <<>>, KeyOrder)

OraclePrograms == {"SWITCHBOARD_V2", "PYTH"}

\* The programs the logs mention: the ones that were invoked.
Logged == {tx[i].program : i \in 1..at} \cup {inner[i].call.program : i \in DOMAIN inner}

\* reads with a key appended as a read of an oracle, unless it is the oracle program
\* or has been read.
WithRead(reads, oracle, k) ==
    IF k \in OraclePrograms \/ \E i \in DOMAIN reads : reads[i].oracle_pubkey = k
    THEN reads ELSE Append(reads, [oracle_pubkey |-> k, oracle_type |-> oracle])

WithReads(reads, oracle, keys) ==
    FoldLeft(LAMBDA acc, k : WithRead(acc, oracle, k), reads, keys)

\* Layer 1: what the oracle instructions of the transaction name.
InputReads ==
    FoldLeft(LAMBDA acc, call : IF call.program \in OraclePrograms
                                THEN WithReads(acc, call.program, call.accounts) ELSE acc,
             <<>>, tx)

\* Layer 2: an oracle that the logs mention and that has no read yet may have read
\* any account of the transaction.
LogReads(reads, oracle) ==
    IF oracle \in Logged /\ \A i \in DOMAIN reads : reads[i].oracle_type # oracle
    THEN WithReads(reads, oracle, account_keys) ELSE reads

\* Mutant: the reads are taken from the logs alone.
detect_oracle_reads_logged == LogReads(LogReads(<<>>, "SWITCHBOARD_V2"), "PYTH")

detect_oracle_reads == LogReads(LogReads(InputReads, "SWITCHBOARD_V2"), "PYTH")

\* Mutant: accounts created by the transaction are left out.
compute_balance_deltas_existing ==
    [k \in {key \in DOMAIN PreState : lamports[key] # BeforeFee[key]}
       |-> lamports[k] - BeforeFee[k]]

\* Signed changes of the accounts that changed; a new account started at 0.
compute_balance_deltas ==
    [k \in {key \in Keys : lamports[key] # BeforeFee[key]} |-> lamports[k] - BeforeFee[k]]

\* What the trace holds of value flows: nothing after a failure, and no token
\* balances yet.
SimulationTrace ==
    [success              |-> sim = "ok",
     balance_deltas       |-> IF sim = "ok" THEN compute_balance_deltas ELSE <<>>,
     token_balance_deltas |-> {}]

TotalOf(f) == MapThenSumSet(LAMBDA k : f[k], DOMAIN f)
=============================================================================
