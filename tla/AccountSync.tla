---------------------------- MODULE AccountSync ----------------------------
(***************************************************************************)
(* The account cache and the two tasks that fill it                        *)
(* (crates/ciel-fork/src/cache.rs, geyser.rs, simulator.rs): the Geyser    *)
(* subscriber, which streams account updates, reconnects and fills gaps    *)
(* over RPC, and the fork simulator, which loads what it misses.  They     *)
(* share the cache without a lock of their own.                            *)
(*                                                                         *)
(* The chain is a sequence of confirmed blocks: blocks[s][k] says what the *)
(* block of slot s did to account k.  The content of an account is the     *)
(* slot of its last change, 1 for what it held at the start.               *)
(***************************************************************************)
EXTENDS Integers, Sequences, FiniteSets

CONSTANTS
    Keys,                \* account keys
    InitialAccounts,     \* GeyserConfig::initial_accounts
    Touched,             \* accounts the transactions touch, and the simulator loads
    Blocks,              \* what a block may do to the accounts
    Sysvars,             \* accounts init_sysvars loads
    Ttl, MonitoredTtl,   \* the cache's two TTLs, in clock ticks
    ChunkSize,           \* accounts per getMultipleAccounts
    MaxSlot,             \* bound on the slots of the chain
    NoKey

ASSUME SyncAssumption ==
    /\ InitialAccounts \subseteq Keys /\ Touched \subseteq Keys
    /\ Blocks \subseteq [Keys -> {"same", "changed", "closed"}] /\ Sysvars \subseteq Keys
    /\ Ttl \in Nat /\ MonitoredTtl \in Nat /\ Ttl <= MonitoredTtl
    /\ ChunkSize \in Nat \ {0}
    /\ MaxSlot \in Nat \ {0}
    /\ NoKey \notin Keys

VARIABLES
    blocks,      \* the confirmed chain
    cache,       \* AccountCache::inner, with who inserted each entry
    last_slot,   \* StalenessTracker::last_slot
    conn,        \* where the subscriber task is
    filter,      \* the accounts the server streams
    inbox,       \* updates the server has sent and the task has not read
    since,       \* first slot the current subscription covers
    requested,   \* keys in the account_tx channel
    todo, got,   \* keys the gap fill has still to ask for; answers it has
    loader       \* the load_account under way

chainVars == <<blocks>>
streamVars == <<conn, filter, inbox, since>>
fillVars == <<todo, got>>
syncVars == <<blocks, cache, last_slot, conn, filter, inbox, since, requested, todo, got,
              loader>>

Slot == Len(blocks)

NoEntry == [version |-> 0, age |-> 0, monitored |-> FALSE, by |-> "none"]

Cached == {k \in Keys : cache[k] # NoEntry}

Changed(s) == {k \in Keys : blocks[s][k] # "same"}

\* The slot of the last change of an account, up to now.
VersionOf(k) ==
    CHOOSE s \in 1..Slot : /\ s = 1 \/ k \in Changed(s)
                           /\ \A t \in (s + 1)..Slot : k \notin Changed(t)

Exists(k) == blocks[VersionOf(k)][k] # "closed"

Idle == [at |-> "idle", key |-> NoKey, version |-> 0]

\* init_sysvars has loaded what it could get; the subscriber starts.
SyncInit ==
    /\ blocks = <<[k \in Keys |-> "same"]>>
    /\ \E loaded \in SUBSET Sysvars :
          cache = [k \in Keys |-> IF k \in loaded
                     THEN [version |-> 1, age |-> 0, monitored |-> TRUE, by |-> "loader"]
                     ELSE NoEntry]
    /\ last_slot = 0
    /\ conn = "connecting"
    /\ filter = {} /\ inbox = {} /\ since = 0
    /\ requested = {}
    /\ todo = {} /\ got = {}
    /\ loader = Idle
----------------------------------------------------------------------------
(* The cache.                                                              *)

Entry(v, monitored, by) == [version |-> v, age |-> 0, monitored |-> monitored, by |-> by]

\* insert replaces whatever the entry was: content, time and monitored flag.
insert(entries, k, v, monitored, by) == [entries EXCEPT ![k] = Entry(v, monitored, by)]

effective_ttl(k) == IF cache[k].monitored THEN MonitoredTtl ELSE Ttl

Expired(k) == k \in Cached /\ cache[k].age > effective_ttl(k)

\* mark_monitored on each key: it does nothing for a key that is not cached.
mark_monitored(entries, keys) ==
    [k \in Keys |-> IF k \in keys /\ entries[k] # NoEntry
                    THEN [entries[k] EXCEPT !.monitored = TRUE] ELSE entries[k]]

\* Expired entries count as well.
monitored_keys(entries) == {k \in Keys : entries[k].monitored}

evict_stale ==
    /\ \E k \in Keys : Expired(k)
    /\ cache' = [k \in Keys |-> IF Expired(k) THEN NoEntry ELSE cache[k]]
    /\ UNCHANGED <<chainVars, last_slot, streamVars, requested, fillVars, loader>>
----------------------------------------------------------------------------
(* Time, the chain and the verdict pipeline.                               *)

Tick ==
    /\ Cached # {}
    /\ cache' = [k \in Keys |->
          IF k \in Cached /\ cache[k].age <= MonitoredTtl
          THEN [cache[k] EXCEPT !.age = @ + 1] ELSE cache[k]]
    /\ UNCHANGED <<chainVars, last_slot, streamVars, requested, fillVars, loader>>

\* A block is confirmed; the server sends its updates of the accounts it streams.
Confirmed(block) ==
    /\ Slot < MaxSlot
    /\ \A k \in Keys : block[k] = "closed" => Exists(k)
    /\ blocks' = Append(blocks, block)
    /\ inbox' = inbox \cup {[slot |-> Slot + 1, key |-> k] :
                             k \in {f \in filter : block[f] # "same"}}
    /\ UNCHANGED <<cache, last_slot, conn, filter, since, requested, fillVars, loader>>

\* The pipeline sends a touched account through the account_sender.
Requests(k) ==
    /\ k \notin requested
    /\ requested' = requested \cup {k}
    /\ UNCHANGED <<chainVars, cache, last_slot, streamVars, fillVars, loader>>
----------------------------------------------------------------------------
(* The Geyser subscriber.                                                  *)

\* The filter: the configured accounts and the monitored ones.
build_subscribe_request(entries) == InitialAccounts \cup monitored_keys(entries)

\* Mutant: the replay starts after the last slot.
Replayed_exclusive(keys, from) ==
    {[slot |-> s, key |-> k] : s \in (from + 1)..Slot, k \in keys}

\* from_slot: the server sends the changes again, from that slot on; none for 0.
Replayed(keys, from) ==
    {[slot |-> s, key |-> k] : s \in (IF from > 0 THEN from ELSE Slot + 1)..Slot, k \in keys}

\* connect_and_stream gets its subscription.
Connect ==
    /\ conn = "connecting"
    /\ conn' = "streaming"
    /\ filter' = build_subscribe_request(cache)
    /\ inbox' = {m \in Replayed(filter', last_slot) : m.key \in Changed(m.slot)}
    /\ since' = IF last_slot > 0 THEN last_slot ELSE Slot + 1
    /\ UNCHANGED <<chainVars, cache, last_slot, requested, fillVars, loader>>

\* Mutant: updates that were under way are handled after the next connection.
DisconnectKeepingInbox ==
    /\ conn \in {"connecting", "streaming"}
    /\ conn' = "filling"
    /\ filter' = {} /\ since' = 0
    /\ UNCHANGED <<chainVars, cache, last_slot, inbox, requested, fillVars, loader>>

\* The subscription cannot be had, or the stream ends or fails; what was under way
\* is lost.
Disconnect ==
    /\ conn \in {"connecting", "streaming"}
    /\ conn' = "filling"
    /\ filter' = {} /\ inbox' = {} /\ since' = 0
    /\ UNCHANGED <<chainVars, cache, last_slot, requested, fillVars, loader>>

\* check_dynamic_accounts, after a message that left these entries: the channel is
\* drained, and a new filter sent, without a replay; sending it may fail.
check_dynamic_accounts(entries) ==
    /\ cache' = mark_monitored(entries, requested)
    /\ requested' = {}
    /\ filter' \in IF requested = {} THEN {filter}
                   ELSE {filter, build_subscribe_request(cache')}

\* The task reads the next update.
handle_account_update(m) ==
    /\ conn = "streaming"
    /\ \A n \in inbox : m.slot <= n.slot
    /\ inbox' = inbox \ {m}
    /\ last_slot' = m.slot
    /\ check_dynamic_accounts(insert(cache, m.key, m.slot, TRUE, "stream"))
    /\ UNCHANGED <<chainVars, conn, since, fillVars, loader>>

\* Any other message, such as a ping, only has the channel looked at.
OtherMessage ==
    /\ conn = "streaming" /\ requested # {}
    /\ check_dynamic_accounts(cache)
    /\ UNCHANGED <<chainVars, last_slot, conn, inbox, since, fillVars, loader>>

\* rpc_gap_fill, after every connection: take the monitored keys, if any.
BeginFill ==
    /\ conn = "filling"
    /\ todo' = monitored_keys(cache)
    /\ conn' = IF todo' = {} THEN "connecting" ELSE "fetching"
    /\ UNCHANGED <<chainVars, cache, last_slot, filter, inbox, since, requested, got, loader>>

Chunks == {c \in SUBSET todo :
             Cardinality(c) = IF Cardinality(todo) < ChunkSize THEN Cardinality(todo)
                                                             ELSE ChunkSize}

\* The node answers for one chunk; an account that does not exist has no answer.
FetchChunk(chunk) ==
    /\ conn = "fetching"
    /\ got' = {[key |-> k, version |-> VersionOf(k)] : k \in {c \in chunk : Exists(c)}}
    /\ todo' = todo \ chunk
    /\ conn' = "inserting"
    /\ UNCHANGED <<chainVars, cache, last_slot, filter, inbox, since, requested, loader>>

\* insert(.., true) for what was answered.
Filled(k) ==
    IF \E g \in got : g.key = k
    THEN Entry((CHOOSE g \in got : g.key = k).version, TRUE, "fill") ELSE cache[k]

InsertChunk ==
    /\ conn = "inserting"
    /\ cache' = [k \in Keys |-> Filled(k)]
    /\ got' = {}
    /\ conn' = IF todo = {} THEN "asking" ELSE "fetching"
    /\ UNCHANGED <<chainVars, last_slot, filter, inbox, since, requested, todo, loader>>

\* get_slot answers, and the slot counts as the last one received.
EndFill ==
    /\ conn = "asking"
    /\ last_slot' = Slot
    /\ conn' = "connecting"
    /\ UNCHANGED <<chainVars, cache, filter, inbox, since, requested, fillVars, loader>>

\* A request fails: `?` leaves the fill where it is.
FillFails ==
    /\ conn \in {"fetching", "asking"}
    /\ todo' = {}
    /\ conn' = "connecting"
    /\ UNCHANGED <<chainVars, cache, last_slot, filter, inbox, since, requested, got, loader>>
----------------------------------------------------------------------------
(* The fork simulator's load_account, and load_accounts for each key of    *)
(* its batch.  A hit changes nothing but the simulator's own copy.         *)

LoadStep(at, k, v) ==
    /\ loader' = [at |-> at, key |-> k, version |-> v]
    /\ UNCHANGED <<chainVars, last_slot, streamVars, requested, fillVars>>

\* get finds nothing, or an expired entry: then it drops the reference and
\* removes the key in a second step.
get(k) ==
    /\ loader = Idle
    /\ k \notin Cached \/ Expired(k)
    /\ LoadStep(IF k \in Cached THEN "removing" ELSE "fetching", k, 0)
    /\ UNCHANGED cache

Remove ==
    /\ loader.at = "removing"
    /\ cache' = [cache EXCEPT ![loader.key] = NoEntry]
    /\ LoadStep("fetching", loader.key, 0)

\* The node answers with the account.
Fetch ==
    /\ loader.at = "fetching" /\ Exists(loader.key)
    /\ LoadStep("inserting", loader.key, VersionOf(loader.key))
    /\ UNCHANGED cache

\* AccountNotFound, or all providers are down.
LoadFails ==
    /\ loader.at = "fetching"
    /\ loader' = Idle
    /\ UNCHANGED <<chainVars, cache, last_slot, streamVars, requested, fillVars>>

EndLoad ==
    /\ loader.at = "inserting"
    /\ cache' = insert(cache, loader.key, loader.version, FALSE, "loader")
    /\ loader' = Idle
    /\ UNCHANGED <<chainVars, last_slot, streamVars, requested, fillVars>>
----------------------------------------------------------------------------
SyncNext ==
    \/ Tick \/ evict_stale
    \/ \E block \in Blocks : Confirmed(block)
    \/ \E k \in Touched : Requests(k) \/ get(k)
    \/ Connect \/ Disconnect \/ OtherMessage
    \/ \E m \in inbox : handle_account_update(m)
    \/ BeginFill \/ InsertChunk \/ EndFill \/ FillFails
    \/ \E chunk \in Chunks : FetchChunk(chunk)
    \/ Remove \/ Fetch \/ LoadFails \/ EndLoad

SyncSpec == SyncInit /\ [][SyncNext]_syncVars
----------------------------------------------------------------------------
(* Properties.                                                             *)

\* The types of the state; the stream's variables are empty between connections.
SyncTypeOK ==
    /\ Slot \in 1..MaxSlot
    /\ \A k \in Cached : /\ cache[k].version \in 1..Slot
                         /\ cache[k].age \in 0..(MonitoredTtl + 1)
                         /\ cache[k].monitored \in BOOLEAN
                         /\ cache[k].by \in {"stream", "fill", "loader"}
    /\ last_slot \in 0..Slot
    /\ conn \in {"connecting", "streaming", "filling", "fetching", "inserting", "asking"}
    /\ conn # "streaming" => filter = {} /\ inbox = {}
    /\ \A m \in inbox : m.slot \in since..Slot /\ m.key \in Changed(m.slot)
    /\ loader.at \in {"idle", "removing", "fetching", "inserting"}

CaughtUp == conn = "streaming" /\ inbox = {}

\* The changes of an account its entry does not reflect.
Missing(k) == {s \in (cache[k].version + 1)..Slot : k \in Changed(s)}

\* When the stream is caught up, what it put in the cache for a configured account
\* is the current state: through lost connections, replays, failed gap fills, new
\* filters and concurrent loads.  The one exception is an account that was closed
\* when the gap fill asked for it: the fill has no answer for it, leaves the entry
\* and moves the replay past the change.
StreamedEntriesAreCurrent ==
    CaughtUp => \A k \in InitialAccounts :
        (cache[k].by = "stream" /\ Missing(k) # {})
          => \E s \in cache[k].version..(since - 1) : blocks[s][k] = "closed"

\* What a completed gap fill brought misses only changes from before the slot it
\* recorded, which the replay then starts at.
FilledEntriesMissOnlyTheGap ==
    CaughtUp => \A k \in InitialAccounts :
        cache[k].by = "fill" => \A s \in Missing(k) : s < since
=============================================================================
