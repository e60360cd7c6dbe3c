------------------------- MODULE AccountSyncProofs -------------------------
(***************************************************************************)
(* What the account cache holds for the configured accounts, for any       *)
(* chain, any set of accounts, any TTLs and any size of a gap-fill chunk.  *)
(***************************************************************************)
EXTENDS AccountSync, WellFoundedInduction, TLAPS

\* The entries the cache may hold.
IsEntry(e) ==
    \/ e = NoEntry
    \/ e \in [version : 1..Slot, age : 0..(MonitoredTtl + 1), monitored : BOOLEAN,
              by : {"stream", "fill", "loader"}]

\* The types, with what the answers of the node in flight carry.
SyncTypes ==
    /\ blocks \in Seq([Keys -> {"same", "changed", "closed"}]) /\ Slot \in 1..MaxSlot
    /\ DOMAIN cache = Keys /\ \A k \in Keys : IsEntry(cache[k])
    /\ last_slot \in 0..Slot
    /\ conn \in {"connecting", "streaming", "filling", "fetching", "inserting", "asking"}
    /\ todo \subseteq Keys /\ \A g \in got : g.version \in 1..Slot
    /\ loader.at \in {"idle", "removing", "fetching", "inserting"}
    /\ loader.at # "idle" => loader.key \in Keys
    /\ loader.at = "inserting" => loader.version \in 1..Slot

\* A subscription covers the configured accounts from `since` on; its updates come
\* from the chain and are not older than the last slot.
StreamShape ==
    /\ conn = "streaming" => /\ InitialAccounts \subseteq filter /\ filter \subseteq Keys
                             /\ since \in 1..(Slot + 1)
                             /\ last_slot > 0 => since <= last_slot
    /\ conn # "streaming" => filter = {} /\ inbox = {}
    /\ \A m \in inbox : /\ m.slot \in since..Slot /\ m.slot >= last_slot
                        /\ m.key \in Changed(m.slot)

Update(s, k) == [slot |-> s, key |-> k]

\* Every change past the last slot is under way.
NothingSkipped ==
    conn = "streaming" =>
        \A k \in InitialAccounts, s \in since..Slot :
            s > last_slot /\ k \in Changed(s) => Update(s, k) \in inbox

Streamed(k) == cache[k].by = "stream"

\* An entry of the stream is monitored and dates from a slot that was received.
StreamedEntries ==
    \A k \in InitialAccounts : Streamed(k) =>
        /\ cache[k].monitored
        /\ cache[k].version \in 1..last_slot
        /\ k \in Changed(cache[k].version)

\* What an entry of the stream or of a fill misses since the subscription is under way.
MissedIsUnderWay ==
    conn = "streaming" =>
        \A k \in InitialAccounts : cache[k].by \in {"stream", "fill"} =>
            \A s \in Missing(k) : s >= since => Update(s, k) \in inbox

ClosedIn(k, first, last) == \E t \in first..last : blocks[t][k] = "closed"

\* An entry of the stream that is out of date will be brought up to date by an update
\* under way, or by the replay of the next connection, or the account was closed in
\* between.
GapIsKnown ==
    \A k \in InitialAccounts : Streamed(k) /\ Missing(k) # {} =>
        IF conn = "streaming"
        THEN (\E m \in inbox : m.key = k) \/ ClosedIn(k, cache[k].version, since - 1)
        ELSE \/ \E s \in last_slot..Slot : k \in Changed(s)
             \/ ClosedIn(k, cache[k].version, last_slot - 1)

\* A gap fill asks for every entry of the stream; what it gets no answer for is closed.
FillCovers ==
    /\ conn \in {"fetching", "inserting", "asking"} =>
          \A k \in InitialAccounts : Streamed(k) =>
              \/ k \in todo
              \/ conn = "inserting" /\ \E g \in got : g.key = k
              \/ ClosedIn(k, cache[k].version, Slot)
    /\ conn = "asking" => todo = {}

SyncInv ==
    /\ SyncTypes /\ StreamShape /\ NothingSkipped /\ StreamedEntries
    /\ MissedIsUnderWay /\ GapIsKnown /\ FillCovers
----------------------------------------------------------------------------
(* Facts about the chain.                                                  *)

\* A non-empty set of naturals has a least element.
LEMMA LeastNat ==
  ASSUME NEW S \in SUBSET Nat, S # {}
  PROVE  \E x \in S : \A y \in S : x <= y
<1> DEFINE R == {ss \in Nat \X Nat : ss[1] < ss[2]}
<1>1. IsWellFoundedOn(R, Nat)
  BY NatLessThanWellFounded DEF OpToRel
<1> HIDE DEF R
<1>2. PICK x \in S : \A y \in S : ~(<<y, x>> \in R)
  BY <1>1, WFMin
<1>3. ASSUME NEW y \in S PROVE x <= y
  <2>1. x \in Nat /\ y \in Nat
    OBVIOUS
  <2>2. y < x => <<y, x>> \in R
    BY <2>1 DEF R
  <2> QED
    BY <1>2, <2>1, <2>2
<1> QED
  BY <1>3

\* VersionOf is the slot of the last change.
LEMMA VersionOfFacts ==
  ASSUME SyncTypes, NEW k \in Keys
  PROVE  /\ VersionOf(k) \in 1..Slot
         /\ \A t \in 1..Slot : k \in Changed(t) => t <= VersionOf(k)
<1>1. Slot \in Nat /\ Slot >= 1
  BY DEF SyncTypes
<1> DEFINE Ago == {n \in 0..(Slot - 1) : Slot - n = 1 \/ k \in Changed(Slot - n)}
<1>2. Ago \in SUBSET Nat /\ Slot - 1 \in Ago
  BY <1>1
<1>3. PICK n \in Ago : \A m \in Ago : n <= m
  <2> HIDE DEF Ago
  <2> QED
    BY <1>2, LeastNat
<1> DEFINE IsLast(s) == /\ s = 1 \/ k \in Changed(s)
                        /\ \A t \in (s + 1)..Slot : k \notin Changed(t)
<1>4. Slot - n \in 1..Slot /\ (Slot - n = 1 \/ k \in Changed(Slot - n))
  BY <1>1, <1>3
<1>5. ASSUME NEW t \in (Slot - n + 1)..Slot PROVE k \notin Changed(t)
  <2>1. t \in Int /\ Slot - t \in 0..(Slot - 1) /\ Slot - (Slot - t) = t /\ Slot - t < n
    BY <1>1, <1>4
  <2> QED
    BY <1>1, <1>3, <2>1
<1>6. IsLast(Slot - n)
  BY <1>4, <1>5
<1>7. VersionOf(k) = CHOOSE s \in 1..Slot : IsLast(s)
  BY DEF VersionOf
<1> HIDE DEF IsLast
<1>8. VersionOf(k) \in 1..Slot /\ IsLast(VersionOf(k))
  BY <1>4, <1>6, <1>7
<1> QED
  BY <1>1, <1>8 DEF IsLast

\* What is not there any more was closed by its last change.
LEMMA GoneIsClosed ==
  ASSUME SyncTypes, NEW k \in Keys, ~Exists(k), NEW v \in 1..Slot, k \in Changed(v)
  PROVE  ClosedIn(k, v, Slot)
<1>1. VersionOf(k) \in 1..Slot /\ v <= VersionOf(k)
  BY VersionOfFacts
<1>2. Slot \in Nat
  BY DEF SyncTypes
<1>3. VersionOf(k) \in v..Slot
  BY <1>1, <1>2
<1> QED
  BY <1>3 DEF Exists, ClosedIn

LEMMA SyncInvInit == SyncInit => SyncInv
<1> SUFFICES ASSUME SyncInit PROVE SyncInv
  OBVIOUS
<1>1. Slot = 1 /\ blocks \in Seq([Keys -> {"same", "changed", "closed"}])
  BY DEF SyncInit, Slot
<1>2. /\ DOMAIN cache = Keys
      /\ \A k \in Keys : /\ IsEntry(cache[k]) /\ ~Streamed(k) /\ cache[k].by # "fill"
  BY <1>1, SyncAssumption DEF SyncInit, IsEntry, NoEntry, Streamed
<1>3. \A k \in InitialAccounts : ~Streamed(k)
  BY <1>2, SyncAssumption
<1>4. SyncTypes
  BY <1>1, <1>2, SyncAssumption DEF SyncInit, SyncTypes, Idle
<1>5. StreamShape /\ NothingSkipped /\ MissedIsUnderWay /\ FillCovers
  BY DEF SyncInit, StreamShape, NothingSkipped, MissedIsUnderWay, FillCovers
<1>6. StreamedEntries /\ GapIsKnown
  BY <1>3 DEF StreamedEntries, GapIsKnown
<1> QED
  BY <1>4, <1>5, <1>6 DEF SyncInv
----------------------------------------------------------------------------
(* Steps that leave the chain and the subscription alone.                  *)

Untouched == UNCHANGED <<blocks, last_slot, conn, inbox, since, todo, got>>

\* An entry of the stream or of a fill is the one that was there.
Derived(k) ==
    cache'[k].by \in {"stream", "fill"} =>
        /\ cache'[k].by = cache[k].by
        /\ cache'[k].version = cache[k].version
        /\ cache[k].monitored => cache'[k].monitored

\* Entries may disappear, become older or be replaced by a load.
LEMMA CoverageKept ==
  ASSUME SyncInv, Untouched, \A k \in Keys : Derived(k),
         IF conn = "streaming" THEN InitialAccounts \subseteq filter' /\ filter' \subseteq Keys
                            ELSE filter' = {}
  PROVE  /\ StreamShape' /\ NothingSkipped' /\ StreamedEntries'
         /\ MissedIsUnderWay' /\ GapIsKnown' /\ FillCovers'
<1>1. /\ UNCHANGED <<blocks, last_slot, conn, inbox, since, todo, got, Slot>>
      /\ \A s : Changed(s)' = Changed(s)
      /\ \A k, a, b : ClosedIn(k, a, b)' <=> ClosedIn(k, a, b)
  BY DEF Untouched, Slot, Changed, ClosedIn
<1>2. \A k \in InitialAccounts : cache'[k].by \in {"stream", "fill"} =>
         /\ cache'[k].by = cache[k].by /\ cache'[k].version = cache[k].version
         /\ cache[k].monitored => cache'[k].monitored
         /\ Missing(k)' = Missing(k)
  BY <1>1, SyncAssumption DEF Derived, Missing
<1>3. StreamShape' /\ NothingSkipped'
  BY <1>1 DEF SyncInv, StreamShape, NothingSkipped, Update
<1>4. StreamedEntries' /\ MissedIsUnderWay'
  BY <1>1, <1>2 DEF SyncInv, StreamedEntries, MissedIsUnderWay, Streamed, Update
<1>5. GapIsKnown'
  BY <1>1, <1>2 DEF SyncInv, GapIsKnown, Streamed
<1>6. FillCovers'
  BY <1>1, <1>2 DEF SyncInv, FillCovers, Streamed
<1> QED
  BY <1>3, <1>4, <1>5, <1>6

\* Time and eviction.
LEMMA AgeingKeeps == SyncInv /\ (Tick \/ evict_stale) => SyncInv'
<1> SUFFICES ASSUME SyncInv, Tick \/ evict_stale PROVE SyncInv'
  OBVIOUS
<1>1. Untouched /\ UNCHANGED <<filter, loader, Slot>>
  BY DEF Tick, evict_stale, chainVars, streamVars, fillVars, Untouched, Slot
<1>2. DOMAIN cache' = Keys
  BY DEF Tick, evict_stale
<1>3. ASSUME NEW k \in Keys PROVE IsEntry(cache[k]) /\ IsEntry(cache'[k]) /\ Derived(k)
  <2>1. IsEntry(cache[k]) /\ MonitoredTtl \in Nat
    BY SyncAssumption DEF SyncInv, SyncTypes
  <2>2. \/ cache'[k] = cache[k]
        \/ cache'[k] = NoEntry
        \/ /\ cache[k] # NoEntry /\ cache[k].age <= MonitoredTtl
           /\ cache'[k] = [cache[k] EXCEPT !.age = @ + 1]
    BY DEF Tick, evict_stale, Cached
  <2>3. CASE cache'[k] \in {cache[k], NoEntry}
    <3>1. IsEntry(cache'[k])
      BY <2>1, <2>3 DEF IsEntry
    <3>2. NoEntry.by = "none"
      BY DEF NoEntry
    <3>3. Derived(k)
      BY <2>3, <3>2, Zenon DEF Derived
    <3> QED
      BY <2>1, <3>1, <3>3
  <2>4. CASE /\ cache[k] # NoEntry /\ cache[k].age <= MonitoredTtl
             /\ cache'[k] = [cache[k] EXCEPT !.age = @ + 1]
    BY <2>1, <2>4 DEF Derived, IsEntry
  <2> QED
    BY <2>2, <2>3, <2>4
<1>4. SyncTypes'
  BY <1>1, <1>2, <1>3 DEF SyncInv, SyncTypes, Untouched, IsEntry
<1> QED
  BY <1>1, <1>3, <1>4, CoverageKept DEF SyncInv, StreamShape

\* Requests and the steps of a load change no entry, remove one or replace one.
LEMMA LoaderKeeps ==
  SyncInv /\ (Remove \/ Fetch \/ LoadFails \/ EndLoad \/ \E k \in Touched : Requests(k) \/ get(k))
     => SyncInv'
<1> SUFFICES ASSUME SyncInv, Remove \/ Fetch \/ LoadFails \/ EndLoad
                               \/ \E k \in Touched : Requests(k) \/ get(k)
             PROVE  SyncInv'
  OBVIOUS
<1> USE DEF LoadStep, chainVars, streamVars, fillVars
<1>0. SyncTypes /\ Touched \subseteq Keys
  BY SyncAssumption DEF SyncInv
<1>1. Untouched /\ UNCHANGED <<filter, Slot>>
  BY DEF Remove, Fetch, LoadFails, EndLoad, Requests, get, Untouched, Slot
<1>2. /\ loader'.at \in {"idle", "removing", "fetching", "inserting"}
      /\ loader'.at # "idle" => loader'.key \in Keys
      /\ loader'.at = "inserting" => loader'.version \in 1..Slot
  <2>1. CASE \E k \in Touched : Requests(k) \/ get(k)
    BY <1>0, <2>1 DEF Requests, get, SyncTypes
  <2>2. CASE Remove
    BY <1>0, <2>2 DEF Remove, SyncTypes
  <2>3. CASE Fetch
    <3>1. loader.key \in Keys /\ VersionOf(loader.key) \in 1..Slot
      BY <1>0, <2>3, VersionOfFacts DEF Fetch, SyncTypes
    <3> QED
      BY <2>3, <3>1 DEF Fetch
  <2>4. CASE LoadFails \/ EndLoad
    <3>1. loader' = Idle
      BY <2>4 DEF LoadFails, EndLoad
    <3> QED
      BY <3>1 DEF Idle
  <2> QED
    BY <2>1, <2>2, <2>3, <2>4
<1>3. \/ cache' = cache
      \/ /\ loader.key \in Keys
         /\ \/ cache' = [cache EXCEPT ![loader.key] = NoEntry]
            \/ /\ loader.version \in 1..Slot
               /\ cache' = [cache EXCEPT ![loader.key] = Entry(loader.version, FALSE, "loader")]
  BY <1>0 DEF Remove, Fetch, LoadFails, EndLoad, Requests, get, SyncTypes, insert
<1>4. DOMAIN cache' = Keys
  BY <1>0, <1>3 DEF SyncTypes
<1>5. ASSUME NEW k \in Keys PROVE IsEntry(cache'[k]) /\ Derived(k)
  <2>1. IsEntry(cache[k]) /\ MonitoredTtl \in Nat /\ DOMAIN cache = Keys
    BY <1>0, SyncAssumption DEF SyncTypes
  <2>2. CASE cache'[k] = cache[k]
    <3>1. Derived(k)
      BY <2>2, Zenon DEF Derived
    <3> QED
      BY <2>1, <2>2, <3>1
  <2>3. CASE cache'[k] = NoEntry
    BY <2>3 DEF Derived, NoEntry, IsEntry
  <2>4. CASE loader.version \in 1..Slot /\ cache'[k] = Entry(loader.version, FALSE, "loader")
    BY <2>1, <2>4 DEF Derived, Entry, IsEntry
  <2> QED
    BY <1>3, <2>1, <2>2, <2>3, <2>4
<1>6. SyncTypes'
  BY <1>0, <1>1, <1>2, <1>4, <1>5 DEF SyncTypes, Untouched, IsEntry
<1> QED
  BY <1>1, <1>5, <1>6, CoverageKept DEF SyncInv, StreamShape

\* mark_monitored changes nothing but the flag.
LEMMA MarkFacts ==
  ASSUME NEW entries, NEW keys, NEW k \in Keys, IsEntry(entries[k]),
         NEW e, e = mark_monitored(entries, keys)[k]
  PROVE  /\ IsEntry(e) /\ e.by = entries[k].by /\ e.version = entries[k].version
         /\ entries[k].monitored => e.monitored
<1>1. \/ e = entries[k]
      \/ entries[k] # NoEntry /\ e = [entries[k] EXCEPT !.monitored = TRUE]
  BY DEF mark_monitored
<1>2. CASE e = entries[k]
  BY <1>2, Zenon
<1>3. CASE entries[k] # NoEntry /\ e = [entries[k] EXCEPT !.monitored = TRUE]
  BY <1>3 DEF IsEntry
<1> QED
  BY <1>1, <1>2, <1>3

\* A message without an update: the flags, and the filter, are brought up to date.
LEMMA OtherMessageKeeps == SyncInv /\ OtherMessage => SyncInv'
<1> SUFFICES ASSUME SyncInv, OtherMessage PROVE SyncInv'
  OBVIOUS
<1>0. SyncTypes /\ StreamShape
  BY DEF SyncInv
<1>1. /\ Untouched /\ UNCHANGED <<loader, Slot>> /\ conn = "streaming"
      /\ cache' = mark_monitored(cache, requested)
      /\ InitialAccounts \subseteq filter' /\ filter' \subseteq Keys
  BY <1>0, SyncAssumption
  DEF OtherMessage, check_dynamic_accounts, build_subscribe_request, monitored_keys, StreamShape,
      chainVars, fillVars, Untouched, Slot
<1>2. DOMAIN cache' = Keys
  BY <1>1 DEF mark_monitored
<1>3. ASSUME NEW k \in Keys PROVE IsEntry(cache'[k]) /\ Derived(k)
  <2>1. IsEntry(cache[k])
    BY <1>0 DEF SyncTypes
  <2> QED
    BY <1>1, <2>1, MarkFacts DEF Derived
<1>4. SyncTypes'
  BY <1>0, <1>1, <1>2, <1>3 DEF SyncTypes, Untouched, IsEntry
<1> QED
  BY <1>1, <1>3, <1>4, CoverageKept DEF SyncInv
----------------------------------------------------------------------------
(* The chain grows.                                                        *)

\* What a new block leaves as it was.
LEMMA ChainGrows ==
  ASSUME SyncTypes, NEW block \in Blocks, Confirmed(block)
  PROVE  /\ Slot' = Slot + 1 /\ Slot \in Nat /\ Slot >= 1 /\ Slot' \in 1..MaxSlot
         /\ blocks' \in Seq([Keys -> {"same", "changed", "closed"}])
         /\ \A s \in 1..Slot : blocks'[s] = blocks[s] /\ Changed(s)' = Changed(s)
         /\ \A n : n = Slot + 1 => Changed(n)' = {k \in Keys : block[k] # "same"}
<1>1. /\ blocks \in Seq([Keys -> {"same", "changed", "closed"}]) /\ Len(blocks) \in 1..MaxSlot
      /\ block \in [Keys -> {"same", "changed", "closed"}]
      /\ Len(blocks) < MaxSlot /\ MaxSlot \in Nat /\ blocks' = Append(blocks, block)
  BY SyncAssumption DEF SyncTypes, Confirmed, Slot
<1>2. /\ Len(blocks') = Len(blocks) + 1
      /\ blocks' \in Seq([Keys -> {"same", "changed", "closed"}])
      /\ \A s \in 1..Len(blocks) : blocks'[s] = blocks[s]
      /\ blocks'[Len(blocks) + 1] = block
  BY <1>1
<1>3. \A s \in 1..Len(blocks) : Changed(s)' = Changed(s)
  BY <1>2 DEF Changed
<1>4. \A n : n = Len(blocks) + 1 => Changed(n)' = {k \in Keys : block[k] # "same"}
  BY <1>2 DEF Changed
<1> QED
  BY <1>1, <1>2, <1>3, <1>4 DEF Slot

LEMMA ConfirmedKeeps ==
  ASSUME SyncInv, NEW block \in Blocks, Confirmed(block)
  PROVE  SyncInv'
<1>0. SyncTypes /\ StreamShape /\ InitialAccounts \subseteq Keys
  BY SyncAssumption DEF SyncInv
<1>n. PICK n \in Nat : n = Slot + 1
  BY DEF SyncInv, SyncTypes
<1>1. /\ n = Slot + 1 /\ Slot' = n /\ Slot \in Nat /\ Slot >= 1 /\ Slot' \in 1..MaxSlot
      /\ blocks' \in Seq([Keys -> {"same", "changed", "closed"}])
      /\ \A s \in 1..Slot : blocks'[s] = blocks[s] /\ Changed(s)' = Changed(s)
      /\ Changed(n)' = {k \in Keys : block[k] # "same"}
  BY <1>0, <1>n, ChainGrows
<1>2. /\ UNCHANGED <<cache, last_slot, conn, filter, since, todo, got, loader>>
      /\ inbox' = inbox \cup {Update(n, k) : k \in {f \in filter : block[f] # "same"}}
  BY <1>n DEF Confirmed, fillVars, Update
<1>3. last_slot \in Nat /\ last_slot <= Slot
  BY <1>0, <1>1 DEF SyncTypes
<1>4. SyncTypes'
  <2>1. \A e : IsEntry(e) => IsEntry(e)'
    BY <1>1 DEF IsEntry
  <2> QED
    BY <1>0, <1>1, <1>2, <2>1 DEF SyncTypes
<1>5. conn = "streaming" =>
         \A k \in InitialAccounts : k \in Changed(n)' => Update(n, k) \in inbox'
  BY <1>0, <1>1, <1>2 DEF StreamShape
<1>6. StreamShape'
  <2>1. conn = "streaming" => since \in 1..(Slot + 1)
    BY <1>0 DEF StreamShape
  <2>2. ASSUME NEW m \in inbox'
        PROVE  m.slot \in since..Slot' /\ m.slot >= last_slot /\ m.key \in Changed(m.slot)'
    <3>1. CASE m \in inbox
      <4>1. /\ m.slot \in since..Slot /\ m.slot >= last_slot /\ m.key \in Changed(m.slot)
            /\ since \in 1..(Slot + 1)
        BY <1>0, <2>1, <3>1 DEF StreamShape
      <4>2. m.slot \in 1..Slot
        BY <1>1, <4>1
      <4> QED
        BY <1>1, <4>1, <4>2
    <3>2. CASE \E k \in filter : block[k] # "same" /\ m = Update(n, k)
      <4>1. PICK k \in filter : block[k] # "same" /\ m = Update(n, k)
        BY <3>2
      <4>2. conn = "streaming" /\ m.slot = n /\ m.key = k
        BY <1>0, <4>1 DEF StreamShape, Update
      <4>3. k \in Keys /\ k \in Changed(n)'
        BY <1>0, <1>1, <4>1, <4>2 DEF StreamShape
      <4>4. m.key \in Changed(m.slot)'
        BY <1>1, <4>2, <4>3 DEF Changed
      <4>5. m.slot \in since..Slot' /\ m.slot >= last_slot
        BY <1>1, <1>3, <2>1, <4>2
      <4> QED
        BY <4>4, <4>5
    <3> QED
      BY <1>2, <2>2, <3>1, <3>2
  <2>3. conn # "streaming" => filter = {} /\ inbox' = {}
    BY <1>0, <1>2 DEF StreamShape
  <2> QED
    BY <1>0, <1>1, <1>2, <2>1, <2>2, <2>3 DEF StreamShape
<1>7. ASSUME NEW k \in InitialAccounts, NEW s \in Missing(k)'
      PROVE  \/ s \in Missing(k)
             \/ s = n /\ k \in Changed(n)'
  <2>1. cache[k].version \in Int
    BY <1>0 DEF SyncTypes, IsEntry, NoEntry
  <2>2. s \in (cache[k].version + 1)..(Slot + 1) /\ k \in Changed(s)'
    BY <1>1, <1>2, <1>7 DEF Missing
  <2>3. CASE s = n
    BY <2>2, <2>3 DEF Changed
  <2>4. CASE s # n
    <3>1. s \in (cache[k].version + 1)..Slot
      BY <1>1, <2>1, <2>2, <2>4
    <3>2. cache[k].version >= 0
      BY <1>0, <1>1 DEF SyncTypes, IsEntry, NoEntry
    <3>3. s \in 1..Slot
      BY <1>1, <2>1, <3>1, <3>2
    <3> QED
      BY <1>1, <2>2, <3>1, <3>3 DEF Missing
  <2> QED
    BY <2>3, <2>4
<1>8. ASSUME NEW k, NEW a \in Nat, NEW b, a >= 1, b \in Int, b <= Slot, ClosedIn(k, a, b)
      PROVE  ClosedIn(k, a, b)'
  <2>1. PICK t \in a..b : blocks[t][k] = "closed"
    BY <1>8 DEF ClosedIn
  <2>2. t \in 1..Slot
    BY <1>1, <1>8, <2>1
  <2> QED
    BY <1>1, <2>1, <2>2 DEF ClosedIn
<1>9. NothingSkipped'
  <2> SUFFICES ASSUME conn = "streaming", NEW k \in InitialAccounts, NEW s \in since..Slot',
                      s > last_slot, k \in Changed(s)'
               PROVE  Update(s, k) \in inbox'
    BY <1>2 DEF NothingSkipped, Update
  <2>1. since \in 1..(Slot + 1)
    BY <1>0 DEF StreamShape
  <2>2. CASE s = n
    BY <1>5, <2>2 DEF Changed
  <2>3. CASE s # n
    <3>1. s \in since..Slot /\ s \in 1..Slot
      BY <1>1, <2>1, <2>3
    <3> QED
      BY <1>1, <1>2, <3>1 DEF SyncInv, NothingSkipped
  <2> QED
    BY <2>2, <2>3
<1>10. StreamedEntries'
  <2> SUFFICES ASSUME NEW k \in InitialAccounts, Streamed(k)
               PROVE  /\ cache[k].monitored /\ cache[k].version \in 1..last_slot
                      /\ k \in Changed(cache[k].version)'
    BY <1>2 DEF StreamedEntries, Streamed
  <2>1. /\ cache[k].monitored /\ cache[k].version \in 1..last_slot
        /\ k \in Changed(cache[k].version)
    BY DEF SyncInv, StreamedEntries
  <2>2. cache[k].version \in 1..Slot
    BY <1>1, <1>3, <2>1
  <2> QED
    BY <1>1, <1>2, <2>1, <2>2
<1>11. MissedIsUnderWay'
  <2> SUFFICES ASSUME conn = "streaming", NEW k \in InitialAccounts,
                      cache[k].by \in {"stream", "fill"}, NEW s \in Missing(k)', s >= since
               PROVE  Update(s, k) \in inbox'
    BY <1>2 DEF MissedIsUnderWay, Update
  <2> QED
    BY <1>2, <1>5, <1>7 DEF SyncInv, MissedIsUnderWay
<1>12. GapIsKnown'
  <2> SUFFICES ASSUME NEW k \in InitialAccounts, Streamed(k), Missing(k)' # {}
               PROVE  IF conn = "streaming"
                      THEN \/ \E m \in inbox' : m.key = k
                           \/ ClosedIn(k, cache[k].version, since - 1)'
                      ELSE \/ \E s \in last_slot..Slot' : k \in Changed(s)'
                           \/ ClosedIn(k, cache[k].version, last_slot - 1)'
    BY <1>2 DEF GapIsKnown, Streamed
  <2>1. cache[k].version \in Nat /\ cache[k].version >= 1
    BY <1>3 DEF SyncInv, StreamedEntries
  <2>2. CASE k \in Changed(n)'
    <3>1. CASE conn = "streaming"
      <4>1. Update(n, k) \in inbox' /\ Update(n, k).key = k
        BY <1>5, <2>2, <3>1 DEF Update
      <4> QED
        BY <3>1, <4>1
    <3>2. CASE conn # "streaming"
      <4>1. n \in last_slot..Slot'
        BY <1>1, <1>3
      <4> QED
        BY <2>2, <3>2, <4>1
    <3> QED
      BY <3>1, <3>2
  <2>3. CASE k \notin Changed(n)'
    <3>1. Missing(k) # {}
      BY <1>7, <2>3
    <3>2. CASE conn = "streaming"
      <4>1. since - 1 \in Int /\ since - 1 <= Slot
        BY <1>0, <1>1, <3>2 DEF StreamShape
      <4>2. (\E m \in inbox : m.key = k) \/ ClosedIn(k, cache[k].version, since - 1)
        BY <3>1, <3>2 DEF SyncInv, GapIsKnown
      <4> QED
        BY <1>2, <1>8, <2>1, <3>2, <4>1, <4>2
    <3>3. CASE conn # "streaming"
      <4>1. last_slot - 1 \in Int /\ last_slot - 1 <= Slot
        BY <1>1, <1>3
      <4>2. \/ \E s \in last_slot..Slot : k \in Changed(s)
            \/ ClosedIn(k, cache[k].version, last_slot - 1)
        BY <3>1, <3>3 DEF SyncInv, GapIsKnown
      <4>3. ASSUME NEW s \in last_slot..Slot, k \in Changed(s)
            PROVE  s \in last_slot..Slot' /\ k \in Changed(s)'
        <5>1. s \in 1..Slot
          <6>1. last_slot >= 1
            BY <1>3, <2>1 DEF SyncInv, StreamedEntries
          <6> QED
            BY <1>1, <1>3, <6>1
        <5> QED
          BY <1>1, <1>3, <4>3, <5>1
      <4> QED
        BY <1>2, <1>8, <2>1, <3>3, <4>1, <4>2, <4>3
    <3> QED
      BY <3>2, <3>3
  <2> QED
    BY <2>2, <2>3
<1>13. FillCovers'
  <2> SUFFICES ASSUME conn \in {"fetching", "inserting", "asking"},
                      NEW k \in InitialAccounts, Streamed(k)
               PROVE  \/ k \in todo
                      \/ conn = "inserting" /\ \E g \in got : g.key = k
                      \/ ClosedIn(k, cache[k].version, Slot)'
    BY <1>2 DEF SyncInv, FillCovers, Streamed
  <2>1. cache[k].version \in Nat /\ cache[k].version >= 1
    BY <1>3 DEF SyncInv, StreamedEntries
  <2>2. ASSUME ClosedIn(k, cache[k].version, Slot)
        PROVE  ClosedIn(k, cache[k].version, Slot)'
    <3>1. PICK t \in cache[k].version..Slot : blocks[t][k] = "closed"
      BY <2>2 DEF ClosedIn
    <3>2. t \in 1..Slot /\ t \in cache[k].version..Slot'
      BY <1>1, <2>1, <3>1
    <3>3. blocks'[t][k] = "closed" /\ cache'[k].version = cache[k].version
      BY <1>1, <1>2, <3>1, <3>2
    <3> QED
      BY <3>2, <3>3 DEF ClosedIn
  <2> QED
    BY <2>2 DEF SyncInv, FillCovers
<1> QED
  BY <1>4, <1>6, <1>9, <1>10, <1>11, <1>12, <1>13 DEF SyncInv
----------------------------------------------------------------------------
(* Connections.                                                            *)

\* Without a new block nothing about the chain changes.
LEMMA ChainKept ==
  ASSUME UNCHANGED blocks
  PROVE  /\ Slot' = Slot
         /\ \A s : Changed(s)' = Changed(s)
         /\ \A k, a, b : ClosedIn(k, a, b)' <=> ClosedIn(k, a, b)
BY DEF Slot, Changed, ClosedIn

\* A step that leaves the chain, the cache, the fill's answers and the loader alone.
LEMMA TypesKept ==
  ASSUME SyncTypes, UNCHANGED <<blocks, cache, loader>>, last_slot' \in 0..Slot,
         conn' \in {"connecting", "streaming", "filling", "fetching", "inserting", "asking"},
         todo' \subseteq Keys, \A g \in got' : g.version \in 1..Slot
  PROVE  SyncTypes'
<1>1. Slot' = Slot
  BY ChainKept
<1> QED
  BY <1>1 DEF SyncTypes, IsEntry

\* The replay starts at the last slot, so it holds whatever an entry of the stream misses.
LEMMA ConnectKeeps == SyncInv /\ Connect => SyncInv'
<1> SUFFICES ASSUME SyncInv, Connect PROVE SyncInv'
  OBVIOUS
<1>0. SyncTypes /\ InitialAccounts \subseteq Keys
  BY SyncAssumption DEF SyncInv
<1>1. /\ UNCHANGED <<blocks, cache, last_slot, todo, got, loader>>
      /\ conn = "connecting" /\ conn' = "streaming"
  BY DEF Connect, chainVars, fillVars
<1>2. /\ Slot' = Slot /\ \A s : Changed(s)' = Changed(s)
      /\ \A k, a, b : ClosedIn(k, a, b)' <=> ClosedIn(k, a, b)
  BY <1>1, ChainKept
<1>3. \A k : Missing(k)' = Missing(k)
  BY <1>1, <1>2 DEF Missing
<1>4. /\ Slot \in Nat /\ Slot >= 1 /\ last_slot \in 0..Slot
      /\ since' = IF last_slot > 0 THEN last_slot ELSE Slot + 1
  BY <1>0 DEF SyncTypes, Connect
<1>5. /\ since' \in 1..(Slot + 1)
      /\ last_slot > 0 => since' = last_slot
      /\ last_slot = 0 => since' = Slot + 1
  BY <1>4
<1>6. InitialAccounts \subseteq filter' /\ filter' \subseteq Keys
  BY <1>0 DEF Connect, build_subscribe_request, monitored_keys
<1>7. inbox' = {m \in {Update(s, k) : s \in since'..Slot, k \in filter'} : m.key \in Changed(m.slot)}
  BY <1>4 DEF Connect, Replayed, Update
<1>8. \A s, k : s \in since'..Slot /\ k \in filter' /\ k \in Changed(s) => Update(s, k) \in inbox'
  BY <1>7 DEF Update
<1>9. SyncTypes'
  BY <1>0, <1>1, TypesKept DEF SyncTypes
<1>10. StreamShape'
  <2>1. ASSUME NEW m \in inbox'
        PROVE  m.slot \in since'..Slot /\ m.slot >= last_slot /\ m.key \in Changed(m.slot)
    <3>1. PICK s \in since'..Slot, k \in filter' : m = Update(s, k)
      BY <1>7, <2>1
    <3>2. m.slot = s /\ m.key \in Changed(m.slot)
      BY <1>7, <2>1, <3>1 DEF Update
    <3> QED
      BY <1>4, <1>5, <3>1, <3>2
  <2> QED
    BY <1>1, <1>2, <1>4, <1>5, <1>6, <2>1 DEF StreamShape
<1>11. NothingSkipped'
  <2> SUFFICES ASSUME NEW k \in InitialAccounts, NEW s \in since'..Slot, k \in Changed(s)
               PROVE  Update(s, k) \in inbox'
    BY <1>2 DEF NothingSkipped, Update
  <2> QED
    BY <1>6, <1>8
<1>12. StreamedEntries'
  BY <1>1, <1>2 DEF SyncInv, StreamedEntries, Streamed
<1>13. MissedIsUnderWay'
  <2> SUFFICES ASSUME NEW k \in InitialAccounts, NEW s \in Missing(k), s >= since'
               PROVE  Update(s, k) \in inbox'
    BY <1>3 DEF MissedIsUnderWay, Update
  <2>1. s \in Int /\ s <= Slot /\ k \in Changed(s)
    BY DEF Missing
  <2>2. s \in since'..Slot
    BY <1>4, <1>5, <2>1
  <2> QED
    BY <1>6, <1>8, <2>1, <2>2
<1>14. GapIsKnown'
  <2> SUFFICES ASSUME NEW k \in InitialAccounts, Streamed(k), Missing(k) # {}
               PROVE  \/ \E m \in inbox' : m.key = k
                      \/ ClosedIn(k, cache[k].version, since - 1)'
    BY <1>1, <1>3 DEF GapIsKnown, Streamed
  <2>1. last_slot > 0
    BY <1>4 DEF SyncInv, StreamedEntries
  <2>2. CASE \E s \in last_slot..Slot : k \in Changed(s)
    <3>1. PICK s \in last_slot..Slot : k \in Changed(s)
      BY <2>2
    <3>2. Update(s, k) \in inbox' /\ Update(s, k).key = k
      BY <1>5, <1>6, <1>8, <2>1, <3>1 DEF Update
    <3> QED
      BY <3>2
  <2>3. CASE ClosedIn(k, cache[k].version, last_slot - 1)
    BY <1>1, <1>2, <1>5, <2>1, <2>3
  <2> QED
    BY <1>1, <2>2, <2>3 DEF SyncInv, GapIsKnown
<1>15. FillCovers'
  BY <1>1 DEF FillCovers
<1> QED
  BY <1>9, <1>10, <1>11, <1>12, <1>13, <1>14, <1>15 DEF SyncInv

\* What is lost with the connection is not older than the last slot: the next replay
\* covers it.
LEMMA DisconnectKeeps == SyncInv /\ Disconnect => SyncInv'
<1> SUFFICES ASSUME SyncInv, Disconnect PROVE SyncInv'
  OBVIOUS
<1>0. SyncTypes /\ StreamShape
  BY DEF SyncInv
<1>1. /\ UNCHANGED <<blocks, cache, last_slot, todo, got, loader>>
      /\ conn \in {"connecting", "streaming"} /\ conn' = "filling"
      /\ filter' = {} /\ inbox' = {} /\ since' = 0
  BY DEF Disconnect, chainVars, fillVars
<1>2. /\ Slot' = Slot /\ \A s : Changed(s)' = Changed(s)
      /\ \A k, a, b : ClosedIn(k, a, b)' <=> ClosedIn(k, a, b)
  BY <1>1, ChainKept
<1>3. \A k : Missing(k)' = Missing(k)
  BY <1>1, <1>2 DEF Missing
<1>4. Slot \in Nat /\ last_slot \in 0..Slot
  BY <1>0 DEF SyncTypes
<1>5. SyncTypes'
  BY <1>0, <1>1, TypesKept DEF SyncTypes
<1>6. StreamShape' /\ NothingSkipped' /\ MissedIsUnderWay' /\ FillCovers'
  BY <1>1 DEF StreamShape, NothingSkipped, MissedIsUnderWay, FillCovers
<1>7. StreamedEntries'
  BY <1>1, <1>2 DEF SyncInv, StreamedEntries, Streamed
<1>8. GapIsKnown'
  <2> SUFFICES ASSUME NEW k \in InitialAccounts, Streamed(k), Missing(k) # {}
               PROVE  \/ \E s \in last_slot..Slot : k \in Changed(s)
                      \/ ClosedIn(k, cache[k].version, last_slot - 1)
    BY <1>1, <1>2, <1>3 DEF GapIsKnown, Streamed
  <2>1. CASE conn = "connecting"
    BY <2>1 DEF SyncInv, GapIsKnown
  <2>2. CASE conn = "streaming" /\ \E m \in inbox : m.key = k
    <3>1. PICK m \in inbox : m.key = k
      BY <2>2
    <3>2. m.slot \in since..Slot /\ m.slot >= last_slot /\ k \in Changed(m.slot)
      BY <1>0, <3>1 DEF StreamShape
    <3>3. m.slot \in last_slot..Slot
      BY <1>4, <3>2
    <3> QED
      BY <3>2, <3>3
  <2>3. CASE conn = "streaming" /\ ClosedIn(k, cache[k].version, since - 1)
    <3>1. cache[k].version \in Nat /\ last_slot > 0
      BY <1>4 DEF SyncInv, StreamedEntries
    <3>2. since \in Int /\ since <= last_slot
      BY <1>0, <1>4, <2>3, <3>1 DEF StreamShape
    <3>3. PICK t \in cache[k].version..(since - 1) : blocks[t][k] = "closed"
      BY <2>3 DEF ClosedIn
    <3>4. t \in cache[k].version..(last_slot - 1)
      BY <1>4, <3>1, <3>2
    <3> QED
      BY <3>3, <3>4 DEF ClosedIn
  <2> QED
    BY <1>1, <2>1, <2>2, <2>3 DEF SyncInv, GapIsKnown
<1> QED
  BY <1>5, <1>6, <1>7, <1>8 DEF SyncInv

\* An update is handled: nothing older is under way, and what is newer stays under way.
LEMMA UpdateKeeps ==
  ASSUME SyncInv, NEW m \in inbox, handle_account_update(m)
  PROVE  SyncInv'
<1> DEFINE entries == insert(cache, m.key, m.slot, TRUE, "stream")
<1>0. SyncTypes /\ StreamShape /\ InitialAccounts \subseteq Keys
  BY SyncAssumption DEF SyncInv
<1>1. /\ UNCHANGED <<blocks, conn, since, todo, got, loader>>
      /\ conn = "streaming" /\ inbox' = inbox \ {m} /\ last_slot' = m.slot
      /\ \A n \in inbox : m.slot <= n.slot
      /\ cache' = mark_monitored(entries, requested)
  BY DEF handle_account_update, check_dynamic_accounts, chainVars, fillVars
<1>2. /\ Slot' = Slot /\ \A s : Changed(s)' = Changed(s)
      /\ \A k, a, b : ClosedIn(k, a, b)' <=> ClosedIn(k, a, b)
  BY <1>1, ChainKept
<1>3. InitialAccounts \subseteq filter' /\ filter' \subseteq Keys
  BY <1>0, <1>1
  DEF handle_account_update, check_dynamic_accounts, build_subscribe_request, monitored_keys,
      StreamShape
<1>4. /\ Slot \in Nat /\ last_slot \in 0..Slot /\ since \in 1..(Slot + 1)
      /\ m.slot \in since..Slot /\ m.slot >= last_slot /\ m.key \in Changed(m.slot)
      /\ m.key \in Keys /\ MonitoredTtl \in Nat
  BY <1>0, <1>1, SyncAssumption DEF SyncTypes, StreamShape, Changed
<1>5. m.slot \in 1..Slot
  BY <1>4
<1>6. ASSUME NEW k \in Keys
      PROVE  /\ IsEntry(cache'[k])
             /\ k = m.key => /\ cache'[k].by = "stream" /\ cache'[k].version = m.slot
                             /\ cache'[k].monitored
             /\ k # m.key => /\ cache'[k].by = cache[k].by
                             /\ cache'[k].version = cache[k].version
                             /\ cache[k].monitored => cache'[k].monitored
  <2>1. IsEntry(cache[k]) /\ DOMAIN cache = Keys
    BY <1>0 DEF SyncTypes
  <2>2. entries[k] = IF k = m.key THEN Entry(m.slot, TRUE, "stream") ELSE cache[k]
    BY <2>1 DEF insert
  <2>3. IsEntry(Entry(m.slot, TRUE, "stream"))
    BY <1>4, <1>5 DEF IsEntry, Entry
  <2>4. IsEntry(entries[k])
    BY <2>1, <2>2, <2>3
  <2> HIDE DEF entries
  <2>5. /\ IsEntry(cache'[k]) /\ cache'[k].by = entries[k].by
        /\ cache'[k].version = entries[k].version
        /\ entries[k].monitored => cache'[k].monitored
    BY <1>1, <2>4, MarkFacts
  <2>6. CASE k = m.key
    BY <2>2, <2>5, <2>6 DEF Entry
  <2>7. CASE k # m.key
    <3>1. entries[k] = cache[k]
      BY <2>2, <2>7
    <3> QED
      BY <2>5, <2>7, <3>1, Zenon
  <2> QED
    BY <2>6, <2>7
<1>7. SyncTypes'
  <2>1. DOMAIN cache' = Keys
    BY <1>1 DEF mark_monitored
  <2>2. \A e : IsEntry(e)' <=> IsEntry(e)
    BY <1>2 DEF IsEntry
  <2>3. \A k \in Keys : IsEntry(cache[k])'
    BY <1>2, <1>6 DEF IsEntry
  <2>4. last_slot' \in 0..Slot
    BY <1>1, <1>4, <1>5
  <2> QED
    BY <1>0, <1>1, <1>2, <2>1, <2>3, <2>4 DEF SyncTypes
<1>8. \A n \in inbox' : n \in inbox /\ n # m
  BY <1>1
<1>9. StreamShape'
  BY <1>0, <1>1, <1>2, <1>3, <1>4, <1>5, <1>8 DEF StreamShape
<1>10. ASSUME NEW k \in InitialAccounts, NEW s \in since..Slot, s > m.slot, k \in Changed(s)
       PROVE  Update(s, k) \in inbox'
  <2>1. s > last_slot
    BY <1>4, <1>5, <1>10
  <2>2. Update(s, k) \in inbox
    BY <1>1, <1>10, <2>1 DEF SyncInv, NothingSkipped
  <2>3. Update(s, k).slot = s /\ s # m.slot
    BY <1>5, <1>10 DEF Update
  <2> QED
    BY <1>1, <2>2, <2>3
<1>11. NothingSkipped'
  BY <1>1, <1>2, <1>10 DEF NothingSkipped, Update
<1>12. StreamedEntries'
  <2> SUFFICES ASSUME NEW k \in InitialAccounts, cache'[k].by = "stream"
               PROVE  /\ cache'[k].monitored /\ cache'[k].version \in 1..m.slot
                      /\ k \in Changed(cache'[k].version)
    BY <1>1, <1>2 DEF StreamedEntries, Streamed
  <2>1. CASE k = m.key
    BY <1>0, <1>4, <1>5, <1>6, <2>1
  <2>2. CASE k # m.key
    <3>1. /\ cache'[k].by = cache[k].by /\ cache'[k].version = cache[k].version
          /\ cache[k].monitored => cache'[k].monitored
      BY <1>0, <1>6, <2>2
    <3>2. /\ cache[k].monitored /\ cache[k].version \in 1..last_slot
          /\ k \in Changed(cache[k].version)
      BY <3>1 DEF SyncInv, StreamedEntries, Streamed
    <3> QED
      BY <1>4, <1>5, <3>1, <3>2
  <2> QED
    BY <2>1, <2>2
<1>13. ASSUME NEW k \in InitialAccounts, NEW s \in Missing(k)'
       PROVE  /\ k = m.key => s > m.slot /\ s \in since..Slot /\ k \in Changed(s)
              /\ k # m.key => s \in Missing(k)
  <2>1. s \in (cache'[k].version + 1)..Slot /\ k \in Changed(s)
    BY <1>2, <1>13 DEF Missing
  <2>2. CASE k = m.key
    BY <1>0, <1>4, <1>5, <1>6, <2>1, <2>2
  <2>3. CASE k # m.key
    BY <1>0, <1>6, <2>1, <2>3 DEF Missing
  <2> QED
    BY <2>2, <2>3
<1>14. MissedIsUnderWay'
  <2> SUFFICES ASSUME NEW k \in InitialAccounts, cache'[k].by \in {"stream", "fill"},
                      NEW s \in Missing(k)', s >= since
               PROVE  Update(s, k) \in inbox'
    BY <1>1 DEF MissedIsUnderWay, Update
  <2>1. CASE k = m.key
    BY <1>10, <1>13, <2>1
  <2>2. CASE k # m.key
    <3>1. cache[k].by \in {"stream", "fill"} /\ s \in Missing(k)
      BY <1>0, <1>6, <1>13, <2>2
    <3>2. Update(s, k) \in inbox /\ Update(s, k).key = k
      BY <1>1, <3>1 DEF SyncInv, MissedIsUnderWay, Update
    <3> QED
      BY <1>1, <2>2, <3>2
  <2> QED
    BY <2>1, <2>2
<1>15. GapIsKnown'
  <2> SUFFICES ASSUME NEW k \in InitialAccounts, cache'[k].by = "stream", Missing(k)' # {}
               PROVE  \/ \E n \in inbox' : n.key = k
                      \/ ClosedIn(k, cache'[k].version, since - 1)
    BY <1>1, <1>2 DEF GapIsKnown, Streamed
  <2>1. PICK s \in Missing(k)' : TRUE
    OBVIOUS
  <2>2. CASE k = m.key
    <3>1. Update(s, k) \in inbox' /\ Update(s, k).key = k
      BY <1>10, <1>13, <2>1, <2>2 DEF Update
    <3> QED
      BY <3>1
  <2>3. CASE k # m.key
    <3>1. Streamed(k) /\ Missing(k) # {} /\ cache'[k].version = cache[k].version
      BY <1>0, <1>6, <1>13, <2>1, <2>3 DEF Streamed
    <3>2. (\E n \in inbox : n.key = k) \/ ClosedIn(k, cache[k].version, since - 1)
      BY <1>1, <3>1 DEF SyncInv, GapIsKnown
    <3>3. CASE \E n \in inbox : n.key = k
      <4>1. PICK n \in inbox : n.key = k
        BY <3>3
      <4>2. n \in inbox'
        BY <1>1, <2>3, <4>1
      <4> QED
        BY <4>1, <4>2
    <3>4. CASE ClosedIn(k, cache[k].version, since - 1)
      BY <3>1, <3>4
    <3> QED
      BY <3>2, <3>3, <3>4
  <2> QED
    BY <2>2, <2>3
<1>16. FillCovers'
  BY <1>1 DEF FillCovers
<1> QED
  BY <1>7, <1>9, <1>11, <1>12, <1>14, <1>15, <1>16 DEF SyncInv
----------------------------------------------------------------------------
(* The gap fill.                                                           *)

\* Its requests change neither the cache nor the last slot.
LEMMA RequestKeeps ==
  ASSUME SyncInv, UNCHANGED <<blocks, cache, last_slot, filter, inbox, since>>,
         conn # "streaming", conn' # "streaming"
  PROVE  StreamShape' /\ NothingSkipped' /\ StreamedEntries' /\ MissedIsUnderWay' /\ GapIsKnown'
<1>1. /\ Slot' = Slot /\ \A s : Changed(s)' = Changed(s)
      /\ \A k, a, b : ClosedIn(k, a, b)' <=> ClosedIn(k, a, b)
  BY ChainKept
<1>2. \A k : Missing(k)' = Missing(k)
  BY <1>1 DEF Missing
<1>3. StreamShape' /\ NothingSkipped' /\ MissedIsUnderWay'
  BY DEF SyncInv, StreamShape, NothingSkipped, MissedIsUnderWay
<1>4. StreamedEntries'
  BY <1>1 DEF SyncInv, StreamedEntries, Streamed
<1>5. GapIsKnown'
  BY <1>1, <1>2 DEF SyncInv, GapIsKnown, Streamed
<1> QED
  BY <1>3, <1>4, <1>5

LEMMA BeginFillKeeps == SyncInv /\ BeginFill => SyncInv'
<1> SUFFICES ASSUME SyncInv, BeginFill PROVE SyncInv'
  OBVIOUS
<1>0. SyncTypes /\ StreamedEntries /\ InitialAccounts \subseteq Keys
  BY SyncAssumption DEF SyncInv
<1>1. /\ UNCHANGED <<blocks, cache, last_slot, filter, inbox, since, got, loader>>
      /\ conn = "filling" /\ todo' = monitored_keys(cache) /\ conn' \in {"connecting", "fetching"}
  BY DEF BeginFill, chainVars
<1>2. SyncTypes'
  BY <1>0, <1>1, TypesKept DEF SyncTypes, monitored_keys
<1>3. FillCovers'
  BY <1>0, <1>1 DEF FillCovers, StreamedEntries, Streamed, monitored_keys
<1> QED
  BY <1>1, <1>2, <1>3, RequestKeeps DEF SyncInv

LEMMA FillFailsKeeps == SyncInv /\ FillFails => SyncInv'
<1> SUFFICES ASSUME SyncInv, FillFails PROVE SyncInv'
  OBVIOUS
<1>1. /\ UNCHANGED <<blocks, cache, last_slot, filter, inbox, since, got, loader>>
      /\ conn \in {"fetching", "asking"} /\ conn' = "connecting" /\ todo' = {}
  BY DEF FillFails, chainVars
<1>2. SyncTypes'
  BY <1>1, TypesKept DEF SyncInv, SyncTypes
<1>3. FillCovers'
  BY <1>1 DEF FillCovers
<1> QED
  BY <1>1, <1>2, <1>3, RequestKeeps DEF SyncInv

\* An account the node has no answer for was closed after the entry was made.
LEMMA FetchChunkKeeps ==
  ASSUME SyncInv, NEW chunk \in Chunks, FetchChunk(chunk)
  PROVE  SyncInv'
<1>0. SyncTypes /\ StreamedEntries /\ FillCovers /\ InitialAccounts \subseteq Keys
  BY SyncAssumption DEF SyncInv
<1>1. /\ UNCHANGED <<blocks, cache, last_slot, filter, inbox, since, loader>>
      /\ conn = "fetching" /\ conn' = "inserting" /\ todo' = todo \ chunk
      /\ got' = {[key |-> k, version |-> VersionOf(k)] : k \in {c \in chunk : Exists(c)}}
  BY DEF FetchChunk, chainVars
<1>2. /\ Slot' = Slot /\ \A k, a, b : ClosedIn(k, a, b)' <=> ClosedIn(k, a, b)
  BY <1>1, ChainKept
<1>3. SyncTypes'
  <2>1. ASSUME NEW g \in got' PROVE g.version \in 1..Slot
    <3>1. PICK k \in chunk : g = [key |-> k, version |-> VersionOf(k)]
      BY <1>1, <2>1
    <3>2. k \in Keys
      BY <1>0 DEF Chunks, SyncTypes
    <3> QED
      BY <1>0, <3>1, <3>2, VersionOfFacts
  <2> QED
    BY <1>0, <1>1, <2>1, TypesKept DEF SyncTypes
<1>4. FillCovers'
  <2> SUFFICES ASSUME NEW k \in InitialAccounts, Streamed(k)
               PROVE  \/ k \in todo \ chunk
                      \/ \E g \in got' : g.key = k
                      \/ ClosedIn(k, cache[k].version, Slot)
    BY <1>1, <1>2 DEF FillCovers, Streamed
  <2>1. k \in todo \/ ClosedIn(k, cache[k].version, Slot)
    BY <1>0, <1>1 DEF FillCovers
  <2>2. CASE k \in chunk /\ Exists(k)
    <3>1. /\ [key |-> k, version |-> VersionOf(k)] \in got'
          /\ [key |-> k, version |-> VersionOf(k)].key = k
      BY <1>1, <2>2
    <3> QED
      BY <3>1
  <2>3. CASE ~Exists(k)
    <3>1. /\ cache[k].version \in 1..last_slot /\ k \in Changed(cache[k].version)
          /\ last_slot \in 0..Slot /\ Slot \in Nat
      BY <1>0 DEF StreamedEntries, SyncTypes
    <3>2. cache[k].version \in 1..Slot
      BY <3>1
    <3> QED
      BY <1>0, <2>3, <3>1, <3>2, GoneIsClosed
  <2> QED
    BY <2>1, <2>2, <2>3
<1> QED
  BY <1>1, <1>3, <1>4, RequestKeeps DEF SyncInv

\* The answers replace the entries they are for; the other entries stay.
LEMMA InsertChunkKeeps == SyncInv /\ InsertChunk => SyncInv'
<1> SUFFICES ASSUME SyncInv, InsertChunk PROVE SyncInv'
  OBVIOUS
<1>0. SyncTypes /\ FillCovers /\ InitialAccounts \subseteq Keys /\ MonitoredTtl \in Nat
  BY SyncAssumption DEF SyncInv
<1>1. /\ UNCHANGED <<blocks, last_slot, filter, inbox, since, todo, loader>>
      /\ conn = "inserting" /\ got' = {} /\ cache' = [k \in Keys |-> Filled(k)]
      /\ conn' = IF todo = {} THEN "asking" ELSE "fetching"
  BY DEF InsertChunk, chainVars
<1>2. /\ Slot' = Slot /\ \A s : Changed(s)' = Changed(s)
      /\ \A k, a, b : ClosedIn(k, a, b)' <=> ClosedIn(k, a, b)
  BY <1>1, ChainKept
<1>3. ASSUME NEW k \in Keys
      PROVE  /\ IsEntry(cache'[k])
             /\ cache'[k].by = "stream" =>
                   cache'[k] = cache[k] /\ ~\E g \in got : g.key = k
  <2>1. IsEntry(cache[k]) /\ cache'[k] = Filled(k)
    BY <1>0, <1>1 DEF SyncTypes
  <2>2. CASE \E g \in got : g.key = k
    <3>1. PICK g \in got : Filled(k) = Entry(g.version, TRUE, "fill")
      BY <2>2 DEF Filled
    <3>2. g.version \in 1..Slot
      BY <1>0 DEF SyncTypes
    <3> QED
      BY <1>0, <2>1, <3>1, <3>2 DEF IsEntry, Entry
  <2>3. CASE ~\E g \in got : g.key = k
    BY <2>1, <2>3 DEF Filled
  <2> QED
    BY <2>2, <2>3
<1>4. SyncTypes'
  <2>1. \A k \in Keys : IsEntry(cache[k])'
    BY <1>2, <1>3 DEF IsEntry
  <2> QED
    BY <1>0, <1>1, <1>2, <2>1 DEF SyncTypes
<1>5. StreamShape' /\ NothingSkipped' /\ MissedIsUnderWay'
  BY <1>1 DEF SyncInv, StreamShape, NothingSkipped, MissedIsUnderWay
<1>6. \A k \in InitialAccounts : Streamed(k)' =>
         /\ Streamed(k) /\ cache'[k] = cache[k] /\ Missing(k)' = Missing(k)
         /\ ~\E g \in got : g.key = k
  BY <1>0, <1>2, <1>3 DEF Streamed, Missing
<1>7. StreamedEntries'
  BY <1>1, <1>2, <1>6 DEF SyncInv, StreamedEntries
<1>8. GapIsKnown'
  BY <1>1, <1>2, <1>6 DEF SyncInv, GapIsKnown
<1>9. FillCovers'
  BY <1>0, <1>1, <1>2, <1>6 DEF FillCovers
<1> QED
  BY <1>4, <1>5, <1>7, <1>8, <1>9 DEF SyncInv

\* The slot of the node becomes the last slot: what is still out of date was closed
\* before it, or in it, where the replay starts.
LEMMA EndFillKeeps == SyncInv /\ EndFill => SyncInv'
<1> SUFFICES ASSUME SyncInv, EndFill PROVE SyncInv'
  OBVIOUS
<1>0. SyncTypes /\ StreamedEntries /\ FillCovers /\ InitialAccounts \subseteq Keys
  BY SyncAssumption DEF SyncInv
<1>1. /\ UNCHANGED <<blocks, cache, filter, inbox, since, todo, got, loader>>
      /\ conn = "asking" /\ conn' = "connecting" /\ last_slot' = Slot
  BY DEF EndFill, chainVars, fillVars
<1>2. /\ Slot' = Slot /\ \A s : Changed(s)' = Changed(s)
      /\ \A k, a, b : ClosedIn(k, a, b)' <=> ClosedIn(k, a, b)
  BY <1>1, ChainKept
<1>3. Slot \in Nat /\ Slot >= 1 /\ last_slot \in 0..Slot
  BY <1>0 DEF SyncTypes
<1>4. SyncTypes'
  BY <1>0, <1>1, <1>3, TypesKept DEF SyncTypes
<1>5. StreamShape' /\ NothingSkipped' /\ MissedIsUnderWay' /\ FillCovers'
  BY <1>1 DEF SyncInv, StreamShape, NothingSkipped, MissedIsUnderWay, FillCovers
<1>6. \A k \in InitialAccounts : Streamed(k) =>
         /\ cache[k].monitored /\ cache[k].version \in 1..Slot /\ k \in Changed(cache[k].version)
  BY <1>0, <1>3 DEF StreamedEntries
<1>7. StreamedEntries'
  BY <1>1, <1>2, <1>6 DEF StreamedEntries, Streamed
<1>8. GapIsKnown'
  <2> SUFFICES ASSUME NEW k \in InitialAccounts, Streamed(k)
               PROVE  \/ \E s \in Slot..Slot : k \in Changed(s)
                      \/ ClosedIn(k, cache[k].version, Slot - 1)
    BY <1>1, <1>2 DEF GapIsKnown, Streamed
  <2>1. PICK t \in cache[k].version..Slot : blocks[t][k] = "closed"
    BY <1>0, <1>1 DEF FillCovers, ClosedIn
  <2>2. CASE t = Slot
    <3>1. k \in Changed(t) /\ t \in Slot..Slot
      BY <1>0, <1>3, <2>1, <2>2 DEF Changed
    <3> QED
      BY <3>1
  <2>3. CASE t # Slot
    <3>1. t \in cache[k].version..(Slot - 1)
      BY <1>3, <1>6, <2>1, <2>3
    <3> QED
      BY <2>1, <3>1 DEF ClosedIn
  <2> QED
    BY <2>2, <2>3
<1> QED
  BY <1>4, <1>5, <1>7, <1>8 DEF SyncInv
----------------------------------------------------------------------------
(* The theorems.                                                           *)

LEMMA StutterKeeps == SyncInv /\ UNCHANGED syncVars => SyncInv'
<1> SUFFICES ASSUME SyncInv, UNCHANGED syncVars PROVE SyncInv'
  OBVIOUS
<1>1. Untouched /\ UNCHANGED <<cache, filter, loader>>
  BY DEF syncVars, Untouched
<1>2. \A k \in Keys : Derived(k)
  BY <1>1, Zenon DEF Derived
<1>3. SyncTypes'
  BY <1>1, TypesKept DEF SyncInv, SyncTypes, Untouched
<1> QED
  BY <1>1, <1>2, <1>3, CoverageKept DEF SyncInv, StreamShape

LEMMA SyncInvStep == SyncInv /\ [SyncNext]_syncVars => SyncInv'
<1> SUFFICES ASSUME SyncInv, [SyncNext]_syncVars PROVE SyncInv'
  OBVIOUS
<1>1. CASE Tick \/ evict_stale
  BY <1>1, AgeingKeeps
<1>2. CASE \E block \in Blocks : Confirmed(block)
  BY <1>2, ConfirmedKeeps
<1>3. CASE Remove \/ Fetch \/ LoadFails \/ EndLoad \/ \E k \in Touched : Requests(k) \/ get(k)
  BY <1>3, LoaderKeeps
<1>4. CASE Connect \/ Disconnect \/ OtherMessage
  BY <1>4, ConnectKeeps, DisconnectKeeps, OtherMessageKeeps
<1>5. CASE \E m \in inbox : handle_account_update(m)
  BY <1>5, UpdateKeeps
<1>6. CASE BeginFill \/ InsertChunk \/ EndFill \/ FillFails
  BY <1>6, BeginFillKeeps, InsertChunkKeeps, EndFillKeeps, FillFailsKeeps
<1>7. CASE \E chunk \in Chunks : FetchChunk(chunk)
  BY <1>7, FetchChunkKeeps
<1>8. CASE UNCHANGED syncVars
  BY <1>8, StutterKeeps
<1> QED
  BY <1>1, <1>2, <1>3, <1>4, <1>5, <1>6, <1>7, <1>8 DEF SyncNext

\* The shared coverage invariant of the subscriber, the gap fill and the loader holds in
\* every state (geyser.rs, cache.rs, simulator.rs).
THEOREM SyncInvariant == SyncSpec => []SyncInv
<1>1. SyncInit => SyncInv
  BY SyncInvInit
<1>2. SyncInv /\ [SyncNext]_syncVars => SyncInv'
  BY SyncInvStep
<1> QED
  BY <1>1, <1>2, PTL DEF SyncSpec

\* The types of the cache, the tracker, the stream and the loader hold in every state.
THEOREM SyncTypesHold == SyncSpec => []SyncTypeOK
<1>1. SyncInv => SyncTypeOK
  <2> SUFFICES ASSUME SyncInv PROVE SyncTypeOK
    OBVIOUS
  <2>1. SyncTypes /\ StreamShape
    BY DEF SyncInv
  <2>2. ASSUME NEW k \in Cached
        PROVE  /\ cache[k].version \in 1..Slot /\ cache[k].age \in 0..(MonitoredTtl + 1)
               /\ cache[k].monitored \in BOOLEAN /\ cache[k].by \in {"stream", "fill", "loader"}
    BY <2>1 DEF SyncTypes, IsEntry, Cached
  <2> QED
    BY <2>1, <2>2 DEF SyncTypeOK, SyncTypes, StreamShape
<1> QED
  BY <1>1, SyncInvariant, PTL

\* When the stream has nothing under way, what it put in the cache for a configured
\* account is the current state, unless the account was closed before the subscription:
\* for every interleaving of the stream, reconnections, gap fills, evictions and loads.
THEOREM StreamKeepsUp == SyncSpec => []StreamedEntriesAreCurrent
<1>1. SyncInv => StreamedEntriesAreCurrent
  <2> SUFFICES ASSUME SyncInv, CaughtUp, NEW k \in InitialAccounts,
                      cache[k].by = "stream", Missing(k) # {}
               PROVE  \E s \in cache[k].version..(since - 1) : blocks[s][k] = "closed"
    BY DEF StreamedEntriesAreCurrent
  <2>1. (\E m \in inbox : m.key = k) \/ ClosedIn(k, cache[k].version, since - 1)
    BY DEF SyncInv, GapIsKnown, Streamed, CaughtUp
  <2> QED
    BY <2>1 DEF CaughtUp, ClosedIn
<1> QED
  BY <1>1, SyncInvariant, PTL

\* What a gap fill brought for a configured account misses only changes from before the
\* subscription that followed it.
THEOREM FillMissesOnlyTheGap == SyncSpec => []FilledEntriesMissOnlyTheGap
<1>1. SyncInv => FilledEntriesMissOnlyTheGap
  <2> SUFFICES ASSUME SyncInv, CaughtUp, NEW k \in InitialAccounts,
                      cache[k].by = "fill", NEW s \in Missing(k)
               PROVE  s < since
    BY DEF FilledEntriesMissOnlyTheGap
  <2>1. ~(s >= since)
    BY DEF SyncInv, MissedIsUnderWay, CaughtUp
  <2>2. s \in Int /\ since \in Int
    BY DEF Missing, SyncInv, SyncTypes, StreamShape, CaughtUp
  <2> QED
    BY <2>1, <2>2
<1> QED
  BY <1>1, SyncInvariant, PTL
=============================================================================
