------------------------------ MODULE FeePolling ------------------------------
(***************************************************************************)
(* The fee polling pipeline of stellar-fee-tracker: the loop of            *)
(* scheduler.rs with its fetch retries, the bounded in-memory store of     *)
(* store.rs, the fee_data_points table of repository.rs, and the           *)
(* rehydration that main.rs runs before the loop.                          *)
(*                                                                         *)
(* A transaction is a number: the order in which the network applied it.   *)
(* LedgerOf gives the ledger that closed with it, which is its timestamp   *)
(* (all transactions of a ledger share created_at); time is counted in     *)
(* ledgers.                                                                *)
(***************************************************************************)
EXTENDS Naturals, Sequences, FiniteSets

CONSTANTS
    MaxTx,          \* bound: transactions the network ever applies
    LedgerOf,       \* LedgerOf[x]: the ledger (the timestamp) of transaction x
    LedgerSize,     \* most transactions in one ledger
    Dropped,        \* transactions convert_to_fee_data_point refuses
    Malformed,      \* points validate_fee_data refuses
    FetchLimit,     \* transactions in one Horizon page (100)
    Capacity,       \* capacity of the store (DEFAULT_CAPACITY, 10000)
    MaxAttempts,    \* RETRY_ATTEMPTS
    RestoreSpan,    \* rows rehydration reads back: 24 hours, in ledgers
    Retention,      \* STORAGE_RETENTION_DAYS, in ledgers
    MaxCrashes      \* bound: times the process is killed

Tx == 1..MaxTx

(* The store outlives the page: an entry in the latest page has at most
   FetchLimit - 1 newer entries after it, and older ones after it only from
   its own page or its own ledger. *)
Reorder == IF FetchLimit >= LedgerSize THEN FetchLimit ELSE LedgerSize

ASSUME BoundsAssumption ==
    /\ MaxTx \in Nat /\ MaxAttempts \in Nat /\ MaxCrashes \in Nat
    /\ RestoreSpan \in Nat /\ Retention \in Nat
    /\ FetchLimit \in Nat \ {0}
    /\ LedgerSize \in Nat \ {0}
    /\ Dropped \subseteq Tx /\ Malformed \subseteq Tx

ASSUME CapacityAssumption ==
    Capacity \in Nat /\ Capacity >= FetchLimit + Reorder - 1

ASSUME LedgerAssumption ==
    /\ LedgerOf \in [Tx -> Nat]
    /\ \A x, y \in Tx : x <= y => LedgerOf[x] <= LedgerOf[y]
    /\ \A x, y \in Tx : LedgerOf[x] = LedgerOf[y] => x < y + LedgerSize

VARIABLES
    tip,        \* the newest transaction Horizon knows
    pc,         \* where the polling task is
    attempt,    \* fetch attempts made in this poll
    batch,      \* `points`: what this poll still has in hand
    store,      \* FeeHistoryStore.data, oldest entry first
    pushed,     \* history: everything the store of this process ever held
    analysed,   \* analysed[x]: times the engine's calculator was given x
    db,         \* rows of fee_data_points (unique transaction_hash)
    missed,     \* history: points whose insert failed in this process
    crashes     \* times the process was killed

vars == <<tip, pc, attempt, batch, store, pushed, analysed, db, missed, crashes>>

memory == <<store, pushed, analysed, missed>>

NoPoints == [x \in Tx |-> 0]

(* calculator.add_data_point for every point of b. *)
Add(b) == [x \in Tx |-> IF x \in b THEN analysed[x] + 1 ELSE analysed[x]]

(* The points the calculator was given. *)
Analysed == {x \in Tx : analysed[x] > 0}

Elements(s) == {s[i] : i \in 1..Len(s)}

Now == IF tip = 0 THEN 0 ELSE LedgerOf[tip]

(* One page of GET /transactions?order=desc: the newest transactions. *)
Page == {x \in 1..tip : x + FetchLimit > tip}

(* The points of a page, in its order: newest first. *)
NewestFirst(S) ==
    {s \in [1..Cardinality(S) -> S] :
        \A i, j \in 1..Cardinality(S) : i < j => s[i] > s[j]}

(* A faulty variant of the next definition: ORDER BY timestamp DESC. *)
ByTimestampDescending(S) ==
    {s \in [1..Cardinality(S) -> S] :
        \A i, j \in 1..Cardinality(S) :
            i < j => s[i] # s[j] /\ LedgerOf[s[i]] >= LedgerOf[s[j]]}

(* The rows of SELECT ... ORDER BY timestamp ASC: rows of one ledger come in
   any order. *)
ByTimestamp(S) ==
    {s \in [1..Cardinality(S) -> S] :
        \A i, j \in 1..Cardinality(S) :
            i < j => s[i] # s[j] /\ LedgerOf[s[i]] <= LedgerOf[s[j]]}

(* FeeHistoryStore::push of each point of b in turn: an entry leaves at the
   front for every push into a full store. *)
PushAll(s, b) ==
    LET all  == s \o b
        over == IF Len(all) > Capacity THEN Len(all) - Capacity ELSE 0
    IN  SubSeq(all, over + 1, Len(all))

Init ==
    /\ tip = 0
    /\ pc = "down"
    /\ attempt = 0 /\ batch = {}
    /\ store = <<>> /\ pushed = {} /\ analysed = NoPoints /\ missed = {}
    /\ db = {}
    /\ crashes = 0

-----------------------------------------------------------------------------
(* Faulty variants, each a slip this code could have; they stand in for the
   definition their name begins with and show what the properties catch. *)

RehydrateStoreOnly ==           \* the engine is not fed at startup
    /\ pc = "down"
    /\ \E s \in ByTimestamp(db) : store' = PushAll(<<>>, s)
    /\ pushed' = db
    /\ pc' = "idle"
    /\ UNCHANGED <<tip, attempt, batch, analysed, missed, db, crashes>>

TickKeepsAttempts ==            \* the attempt counter is not per poll
    /\ pc = "idle"
    /\ pc' = "fetch"
    /\ UNCHANGED <<tip, attempt, batch, memory, db, crashes>>

FetchNetworkErrorOffByOne ==    \* 0..=max_attempts
    /\ pc = "fetch" /\ attempt <= MaxAttempts
    /\ pc' = "backoff"
    /\ UNCHANGED <<tip, attempt, batch, memory, db, crashes>>

BackoffEndsUncounted ==         \* retries without end
    /\ pc = "backoff"
    /\ pc' = "fetch"
    /\ UNCHANGED <<tip, attempt, batch, memory, db, crashes>>

FilterKnownByRow ==             \* the database is consulted, not the store
    /\ pc = "filter"
    /\ batch' = batch \ db
    /\ pc' = IF batch' = {} THEN "idle" ELSE "push"
    /\ UNCHANGED <<tip, attempt, memory, db, crashes>>

AnalyseThenReturn ==            \* an engine error returns before the insert
    /\ pc = "analyse"
    /\ analysed' = IF batch \cap Malformed = {} THEN Add(batch) ELSE analysed
    /\ pc' = IF batch \cap Malformed = {} THEN "persist" ELSE "prune"
    /\ UNCHANGED <<tip, attempt, batch, store, pushed, missed, db, crashes>>

-----------------------------------------------------------------------------
(* The network. *)

Apply ==
    /\ tip < MaxTx
    /\ tip' = tip + 1
    /\ UNCHANGED <<pc, attempt, batch, memory, db, crashes>>

-----------------------------------------------------------------------------
(* main.rs: startup. *)

(* FeeRepository::fetch_since(now - 24 h). *)
LastDay == {x \in db : LedgerOf[x] + RestoreSpan >= Now}

(* Rehydration reads the last 24 hours, pushes every row into the store and
   runs the engine on all of them at once. The engine's validation is all or
   nothing, and its error is only logged. *)
Rehydrate ==
    /\ pc = "down"
    /\ \E s \in ByTimestamp(LastDay) : store' = PushAll(<<>>, s)
    /\ pushed' = LastDay
    /\ analysed' = IF LastDay \cap Malformed = {} THEN Add(LastDay) ELSE analysed
    /\ pc' = "idle"
    /\ UNCHANGED <<tip, attempt, batch, missed, db, crashes>>

(* The read fails: the service starts cold. *)
StartCold ==
    /\ pc = "down"
    /\ pc' = "idle"
    /\ UNCHANGED <<tip, attempt, batch, memory, db, crashes>>

(* The process is killed at any await. The database keeps what was committed. *)
Crash ==
    /\ pc # "down"
    /\ crashes < MaxCrashes
    /\ crashes' = crashes + 1
    /\ pc' = "down"
    /\ attempt' = 0 /\ batch' = {}
    /\ store' = <<>> /\ pushed' = {} /\ analysed' = NoPoints /\ missed' = {}
    /\ UNCHANGED <<tip, db>>

-----------------------------------------------------------------------------
(* scheduler.rs: the loop and fetch_with_retry. *)

Tick ==
    /\ pc = "idle"
    /\ pc' = "fetch"
    /\ attempt' = 0
    /\ UNCHANGED <<tip, batch, memory, db, crashes>>

(* ctrl_c wins the select!: the loop breaks, the process lives on. *)
StopPolling ==
    /\ pc = "idle"
    /\ pc' = "stopped"
    /\ UNCHANGED <<tip, attempt, batch, memory, db, crashes>>

(* The provider answers. A page without one convertible transaction is a
   FormatError, which ends the poll. *)
FetchPage ==
    /\ pc = "fetch" /\ attempt < MaxAttempts
    /\ batch' = Page \ Dropped
    /\ pc' = IF batch' = {} THEN "idle" ELSE "filter"
    /\ UNCHANGED <<tip, attempt, memory, db, crashes>>

(* A body that does not parse is a FormatError too: no retry. *)
FetchFormatError ==
    /\ pc = "fetch" /\ attempt < MaxAttempts
    /\ pc' = "idle"
    /\ UNCHANGED <<tip, attempt, batch, memory, db, crashes>>

(* Any other error sleeps, after the last attempt as well. *)
FetchNetworkError ==
    /\ pc = "fetch" /\ attempt < MaxAttempts
    /\ pc' = "backoff"
    /\ UNCHANGED <<tip, attempt, batch, memory, db, crashes>>

BackoffEnds ==
    /\ pc = "backoff"
    /\ attempt' = attempt + 1
    /\ pc' = "fetch"
    /\ UNCHANGED <<tip, batch, memory, db, crashes>>

(* All attempts are used up: the tick is skipped. *)
FetchExhausted ==
    /\ pc = "fetch" /\ attempt >= MaxAttempts
    /\ pc' = "idle"
    /\ UNCHANGED <<tip, attempt, batch, memory, db, crashes>>

-----------------------------------------------------------------------------
(* scheduler.rs: poll_once after the fetch. *)

(* Under the read lock: drop the hashes the store holds. *)
FilterKnown ==
    /\ pc = "filter"
    /\ batch' = batch \ Elements(store)
    /\ pc' = IF batch' = {} THEN "idle" ELSE "push"
    /\ UNCHANGED <<tip, attempt, memory, db, crashes>>

(* Under the write lock: push what is left, in page order. *)
PushBatch ==
    /\ pc = "push"
    /\ \E s \in NewestFirst(batch) : store' = PushAll(store, s)
    /\ pushed' = pushed \cup batch
    /\ pc' = "analyse"
    /\ UNCHANGED <<tip, attempt, batch, analysed, missed, db, crashes>>

(* process_fee_data: one refused point refuses the whole batch. *)
Analyse ==
    /\ pc = "analyse"
    /\ analysed' = IF batch \cap Malformed = {} THEN Add(batch) ELSE analysed
    /\ pc' = "persist"
    /\ UNCHANGED <<tip, attempt, batch, store, pushed, missed, db, crashes>>

(* insert_fee_points: one SQL transaction, INSERT OR IGNORE. *)
Persist ==
    /\ pc = "persist"
    /\ db' = db \cup batch
    /\ pc' = "prune"
    /\ UNCHANGED <<tip, attempt, batch, memory, crashes>>

(* The insert fails and rolls back: logged, never retried. *)
PersistFails ==
    /\ pc = "persist"
    /\ missed' = missed \cup batch
    /\ pc' = "prune"
    /\ UNCHANGED <<tip, attempt, batch, store, pushed, analysed, db, crashes>>

(* prune_older_than(now - retention) deletes or fails; the poll is over. *)
Prune ==
    /\ pc = "prune"
    /\ db' \in {db, {x \in db : LedgerOf[x] + Retention >= Now}}
    /\ batch' = {}
    /\ pc' = "idle"
    /\ UNCHANGED <<tip, attempt, memory, crashes>>

-----------------------------------------------------------------------------
PollStep ==
    \/ Tick \/ FetchPage \/ FetchFormatError \/ FetchNetworkError
    \/ BackoffEnds \/ FetchExhausted
    \/ FilterKnown \/ PushBatch \/ Analyse \/ Persist \/ PersistFails \/ Prune

Next ==
    \/ Apply
    \/ Rehydrate \/ StartCold \/ Crash
    \/ StopPolling
    \/ PollStep

(* The task keeps running: every await of a poll ends (the HTTP client times
   out after 10 s, the sleep is at most 30 s, SQLite answers or fails) and the
   interval ticks. The service manager restarts a killed process. Nothing
   obliges Horizon, the network, a crash or ctrl_c. *)
Fairness ==
    /\ WF_vars(PollStep)
    /\ WF_vars(Rehydrate \/ StartCold)

Spec == Init /\ [][Next]_vars /\ Fairness

-----------------------------------------------------------------------------
(* Properties. *)

States == {"down", "idle", "stopped", "fetch", "backoff", "filter", "push",
           "analyse", "persist", "prune"}

(* Every variable has its type; the store never exceeds its capacity and a
   poll never makes more than MaxAttempts attempts (store.rs push,
   fetch_with_retry). *)
TypeOK ==
    /\ tip \in 0..MaxTx
    /\ pc \in States
    /\ attempt \in 0..MaxAttempts
    /\ batch \subseteq 1..tip
    /\ store \in Seq(1..tip) /\ Len(store) <= Capacity
    /\ pushed \subseteq 1..tip
    /\ analysed \in [Tx -> Nat]
    /\ db \subseteq 1..tip
    /\ missed \subseteq 1..tip
    /\ crashes \in 0..MaxCrashes

(* The store never holds a transaction twice, although consecutive pages
   overlap and the filter and the push are separate critical sections. *)
NoDuplicates ==
    \A i, j \in 1..Len(store) : i # j => store[i] # store[j]

(* A transaction that was taken and that Horizon still lists is still in the
   store: eviction never makes the store forget what the next page repeats,
   so the overlap filter, which only looks at the store, is enough. *)
PageRemembered ==
    \A x \in pushed : x + FetchLimit > tip => x \in Elements(store)

(* A stored point is missing from the database only when its insert failed,
   when it expired, or while its own poll has not reached the insert. *)
StoredIsSaved ==
    \A x \in Elements(store) \ db :
        \/ x \in missed
        \/ LedgerOf[x] + Retention < Now
        \/ x \in batch /\ pc \in {"analyse", "persist"}

(* Unless a malformed point was taken, no point the store took is skipped by
   the engine, through polls, failed inserts and restarts. *)
NothingSkipped ==
    pushed \cap Malformed = {} =>
        pushed \ Analysed \subseteq IF pc = "analyse" THEN batch ELSE {}

(* store.rs: "Return all data points with a timestamp >= `since`, oldest
   first", and the entry evicted from a full store is "the oldest". *)
StoreOldestFirst ==
    \A i, j \in 1..Len(store) :
        i < j => LedgerOf[store[i]] <= LedgerOf[store[j]]

(* The pipeline keeps the promise of IngestLog. *)
Log == INSTANCE IngestLog WITH
            seen <- pushed, counted <- analysed, durable <- db

IngestsOnce == Log!LogSpec

(* A poll that began ends, whatever the provider and the database answer. *)
PollEnds == (pc = "fetch") ~> (pc \in {"idle", "stopped", "down"})

(* Horizon answers again and again. *)
HorizonAnswers == SF_vars(FetchPage)

(* Once the network is quiet and the process is not killed any more, every
   convertible transaction of the last page is in the store for good, unless
   the loop was stopped or Horizon stops answering. A crash or a failed insert
   loses no point that Horizon still lists. *)
CatchesUp ==
    MaxAttempts > 0 /\ HorizonAnswers =>
        <>[](\/ pc = "stopped"
             \/ Page \ Dropped \subseteq Elements(store))
=============================================================================
