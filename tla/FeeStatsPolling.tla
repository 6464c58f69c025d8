---------------------------- MODULE FeeStatsPolling ----------------------------
(***************************************************************************)
(* The loop that polls Horizon's /fee_stats (scheduler.rs) and the table   *)
(* it keeps: one row for each ledger (store.rs, repository.rs). Between    *)
(* the fetch, the write and the prune the process can die, and the table   *)
(* outlives it.                                                            *)
(***************************************************************************)
EXTENDS Integers

CONSTANTS
    Ledgers, Stats,     \* ledgers, and what Horizon can say of one
    MaxAttempts,        \* retry_attempts
    Retention,          \* storage_retention_days, in steps of the clock
    MaxTime             \* bound: the clock stops here

ASSUME FeeStatsAssumption ==
    MaxAttempts \in Nat /\ Retention \in Nat /\ MaxTime \in Nat

VARIABLES
    now,        \* Utc::now()
    loop,       \* where the loop is: its attempt and the snapshot it holds
    table,      \* fee_stats_snapshots: ledger -> its row, or NoRow
    latest      \* history: the snapshot last written for each ledger, or NoRow

statsVars == <<now, loop, table, latest>>

Snapshot == [ledger : Ledgers, stats : Stats, at : Nat]
NoRow == [at |-> -1]
Waiting == [at |-> "wait", attempt |-> 0, holds |-> NoRow]
Stages == {"wait", "fetch", "asleep", "write", "prune", "stopped"}

(* interval.tick(): a poll starts. *)
StartPoll ==
    /\ loop.at = "wait"
    /\ loop' = [loop EXCEPT !.at = "fetch"]
    /\ UNCHANGED <<now, table, latest>>

(* Ctrl-C is heard while the loop waits; the server goes on without the loop. *)
Interrupt ==
    /\ loop.at = "wait"
    /\ loop' = [loop EXCEPT !.at = "stopped"]
    /\ UNCHANGED <<now, table, latest>>

(* What fetch_fee_stats_full can get. *)
FeeStatsResponse == [last_ledger : Ledgers, stats : Stats]

(* try_from stamps the snapshot. *)
Captured(response) == [ledger |-> response.last_ledger, stats |-> response.stats, at |-> now]

(* An attempt succeeds. *)
Fetch ==
    /\ loop.at = "fetch" /\ loop.attempt < MaxAttempts
    /\ \E response \in FeeStatsResponse :
          loop' = [loop EXCEPT !.at = "write", !.holds = Captured(response)]
    /\ UNCHANGED <<now, table, latest>>

(* A payload that cannot be parsed is not asked for again. *)
Garbled ==
    /\ loop.at = "fetch" /\ loop.attempt < MaxAttempts
    /\ loop' = Waiting
    /\ UNCHANGED <<now, table, latest>>

(* Any other error is slept on, the one of the last attempt too. *)
Unreachable ==
    /\ loop.at = "fetch" /\ loop.attempt < MaxAttempts
    /\ loop' = [loop EXCEPT !.at = "asleep"]
    /\ UNCHANGED <<now, table, latest>>

Retry ==
    /\ loop.at = "asleep"
    /\ loop' = [loop EXCEPT !.at = "fetch", !.attempt = @ + 1]
    /\ UNCHANGED <<now, table, latest>>

GiveUp ==
    /\ loop.at = "fetch" /\ loop.attempt >= MaxAttempts
    /\ loop' = Waiting
    /\ UNCHANGED <<now, table, latest>>

(* Faulty: a ledger that has a row keeps it (DO NOTHING). *)
WriteOnce ==
    LET new == loop.holds IN
    /\ loop.at = "write"
    /\ table' = [table EXCEPT ![new.ledger] = IF @ = NoRow THEN new ELSE @]
    /\ latest' = [latest EXCEPT ![new.ledger] = new]
    /\ loop' = [loop EXCEPT !.at = "prune"]
    /\ UNCHANGED now

(* upsert_fee_snapshot *)
Write ==
    LET new == loop.holds IN
    /\ loop.at = "write"
    /\ table' = [table EXCEPT ![new.ledger] = new]
    /\ latest' = [latest EXCEPT ![new.ledger] = new]
    /\ loop' = [loop EXCEPT !.at = "prune"]
    /\ UNCHANGED now

(* A write that fails is logged, and the prune still comes. *)
WriteFails ==
    /\ loop.at = "write"
    /\ loop' = [loop EXCEPT !.at = "prune"]
    /\ UNCHANGED <<now, table, latest>>

(* prune_fee_snapshots_older_than *)
Prune ==
    /\ loop.at = "prune"
    /\ table' = [l \in Ledgers |->
          IF table[l].at < now - Retention THEN NoRow ELSE table[l]]
    /\ loop' = Waiting
    /\ UNCHANGED <<now, latest>>

PruneFails ==
    /\ loop.at = "prune"
    /\ loop' = Waiting
    /\ UNCHANGED <<now, table, latest>>

StatsTick ==
    /\ now < MaxTime
    /\ now' = now + 1
    /\ UNCHANGED <<loop, table, latest>>

StatsInit ==
    /\ now = 0
    /\ loop = Waiting
    /\ table = [l \in Ledgers |-> NoRow]
    /\ latest = [l \in Ledgers |-> NoRow]

StatsNext ==
    \/ StartPoll \/ Interrupt \/ Fetch \/ Garbled \/ Unreachable \/ Retry \/ GiveUp
    \/ Write \/ WriteFails \/ Prune \/ PruneFails \/ StatsTick

(* The process dies and is started again; the table stays. *)
StatsLost ==
    /\ loop' = Waiting
    /\ UNCHANGED <<now, table, latest>>

-----------------------------------------------------------------------------
(* Properties. *)

(* fetch_fee_snapshots_since *)
SnapshotsSince(since) == {table[l] : l \in {k \in Ledgers : table[k].at >= since}}

(* Type invariant; the loop holds a snapshot when it is about to write one.   *)
StatsTypeOK ==
    /\ now \in Nat
    /\ loop \in [at : Stages, attempt : 0..MaxAttempts, holds : Snapshot \cup {NoRow}]
    /\ loop.at = "write" => loop.holds \in Snapshot
    /\ table \in [Ledgers -> Snapshot \cup {NoRow}]
    /\ latest \in [Ledgers -> Snapshot \cup {NoRow}]

(* The row of a ledger is the one last written for it, as long as it is       *)
(* retained.                                                                  *)
RowsLatest ==
    \A l \in Ledgers :
       /\ table[l] # NoRow => table[l] = latest[l] /\ table[l].ledger = l
       /\ (latest[l] # NoRow /\ latest[l].at >= now - Retention) => table[l] = latest[l]

(* "One row per ledger": across polls of the same ledger, failed writes,      *)
(* prunes and restarts, the row of a ledger is the one last written for it,   *)
(* it is there as long as the retention has not passed since its capture, and *)
(* who reads the snapshots of a time within the retention gets all of those   *)
(* last written and no other.                                                 *)
SnapshotsLatest ==
    /\ RowsLatest
    /\ \A since \in 0..now : since >= now - Retention =>
          SnapshotsSince(since) = {latest[l] : l \in {k \in Ledgers : latest[k].at >= since}}
=============================================================================
