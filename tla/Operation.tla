------------------------------- MODULE Operation -------------------------------
(***************************************************************************)
(* The life of the backend process (main.rs): the configuration it reads   *)
(* from flags and environment (config.rs), the two polling loops it joins  *)
(* with the server (scheduler.rs), Ctrl-C, and the metrics they keep       *)
(* (metrics.rs). What a poll does to fees is FeePolling's and              *)
(* FeeStatsPolling's; here it succeeds or fails.                           *)
(***************************************************************************)
EXTENDS Integers, FiniteSets

CONSTANTS
    Environments,   \* what flags and environment may say of each setting
    MaxPolls        \* bound: polls of both loops

Raw == {"absent", "blank", "zero", "bad", "given"}

Required == {"network", "poll_interval"}
Numbers == {"api_port", "port", "cache_ttl", "retry_attempts", "retry_delay", "retention"}
Lenient == {"rate_limit", "stale_threshold", "min_samples"}
Settings == Required \cup Numbers \cup Lenient \cup {"alert_threshold", "alert_types", "api_key", "webhook"}

ASSUME OperationAssumption ==
    Environments \subseteq [Settings -> Raw] /\ MaxPolls \in Nat

VARIABLES
    process,    \* "starting", "up", "exited" (main gave up) or "killed"
    config,     \* Config, or NoConfig
    loops,      \* loops[l]: "wait", "poll" or "stopped"
    listening,  \* tokio has taken over SIGINT
    stocked,    \* the fee store holds a point
    metrics,    \* AppMetrics
    polled      \* history: the polls that ended, by how they did

operationVars == <<process, config, loops, listening, stocked, metrics, polled>>

-----------------------------------------------------------------------------
(* Config::from_sources. *)

(* Faulty: any interval that is a number. *)
AcceptedNumber(s, raw) ==
    CASE s = "network" -> raw = "given"
      [] s = "poll_interval" -> raw \in {"given", "zero"}
      [] s \in Numbers -> raw \in {"absent", "zero", "given"}
      [] s = "alert_threshold" -> raw \in {"absent", "given"}
      [] s = "alert_types" -> raw \in {"absent", "blank", "given"}
      [] OTHER -> TRUE

(* What a setting must say for the process to start. *)
Accepted(s, raw) ==
    CASE s \in Required -> raw = "given"
      [] s \in Numbers -> raw \in {"absent", "zero", "given"}
      [] s = "alert_threshold" -> raw \in {"absent", "given"}
      [] s = "alert_types" -> raw \in {"absent", "blank", "given"}
      [] OTHER -> TRUE

(* PORT is only looked at without an API_PORT. *)
Looked(env) == IF env["api_port"] = "absent" THEN Settings ELSE Settings \ {"port"}

Starts(env) == \A s \in Looked(env) : Accepted(s, env[s])

(* A setting that does not fail loudly falls back; a sample count of zero is kept. *)
Fallback(s, raw) ==
    IF raw = "given" \/ (s = "min_samples" /\ raw = "zero") THEN raw ELSE "default"

Resolved(env) ==
    [interval |-> env["poll_interval"],
     attempts |-> IF env["retry_attempts"] = "absent" THEN "default" ELSE env["retry_attempts"],
     key |-> env["api_key"] \notin {"absent", "blank"},
     lenient |-> [s \in Lenient |-> Fallback(s, env[s])]]

NoConfig == [interval |-> "absent"]

-----------------------------------------------------------------------------
(* Startup. *)

Loops == {"fees", "stats"}

(* recommendation_errors_total is left out: the engine never fails, and the   *)
(* handlers count no other failure.                                           *)
NoMetrics == [polls |-> 0, pollErrors |-> 0, points |-> 0, spikes |-> 0, recommendations |-> 0]
NonePolled == [done |-> 0, failed |-> 0]

Start ==
    /\ process = "starting"
    /\ \E env \in Environments :
          /\ Starts(env)
          /\ config' = Resolved(env)
    /\ process' = "up"
    /\ stocked' \in BOOLEAN             \* whether the last day had rows
    /\ UNCHANGED <<loops, listening, metrics, polled>>

(* The configuration, the database or the port is refused. *)
FailToStart ==
    /\ process = "starting"
    /\ process' = "exited"
    /\ UNCHANGED <<config, loops, listening, stocked, metrics, polled>>

-----------------------------------------------------------------------------
(* The loops. *)

(* select! finds no tick due and waits for Ctrl-C too. *)
Listen ==
    /\ process = "up" /\ ~listening
    /\ \E l \in Loops : loops[l] = "wait"
    /\ listening' = TRUE
    /\ UNCHANGED <<process, config, loops, stocked, metrics, polled>>

(* A tick is due. select! looks at its branches in random order, so it may or *)
(* may not have asked for Ctrl-C.                                             *)
StartPoll(l) ==
    /\ process = "up" /\ loops[l] = "wait" /\ metrics.polls < MaxPolls
    /\ loops' = [loops EXCEPT ![l] = "poll"]
    /\ listening' \in {listening, TRUE}
    /\ metrics' = [metrics EXCEPT !.polls = @ + 1]
    /\ UNCHANGED <<process, config, stocked, polled>>

(* Faulty: an error is counted for every attempt, here two. *)
PollFailsByAttempt(l) ==
    /\ process = "up" /\ loops[l] = "poll"
    /\ loops' = [loops EXCEPT ![l] = "wait"]
    /\ metrics' = [metrics EXCEPT !.pollErrors = @ + 2]
    /\ polled' = [polled EXCEPT !.failed = @ + 1]
    /\ UNCHANGED <<process, config, listening, stocked>>

(* No attempt got anything, or none was to be made. *)
PollFails(l) ==
    /\ process = "up" /\ loops[l] = "poll"
    /\ loops' = [loops EXCEPT ![l] = "wait"]
    /\ metrics' = [metrics EXCEPT !.pollErrors = @ + 1]
    /\ polled' = [polled EXCEPT !.failed = @ + 1]
    /\ UNCHANGED <<process, config, listening, stocked>>

(* A poll of the fees may bring new points, of which a full store holds no    *)
(* more than before; the update that follows adds the spikes of its window,   *)
(* those shown before among them.                                             *)
PollEnds(l) ==
    /\ process = "up" /\ loops[l] = "poll" /\ config.attempts # "zero"
    /\ loops' = [loops EXCEPT ![l] = "wait"]
    /\ \/ UNCHANGED <<stocked, metrics>>
       \/ /\ l = "fees"
          /\ stocked' = TRUE
          /\ \E more, recent \in {0, 1} :
                metrics' = [metrics EXCEPT !.points = @ + more, !.spikes = @ + recent]
    /\ polled' = [polled EXCEPT !.done = @ + 1]
    /\ UNCHANGED <<process, config, listening>>

(* Ctrl-C kills a process that has not asked for it. Otherwise the loops that *)
(* wait hear it, but those whose tick is due too; a loop that polls does not. *)
(* The server goes on.                                                        *)
Interrupt ==
    /\ process = "up"
    /\ IF listening
       THEN /\ \E heard \in SUBSET {l \in Loops : loops[l] = "wait"} :
                  loops' = [l \in Loops |-> IF l \in heard THEN "stopped" ELSE loops[l]]
            /\ UNCHANGED process
       ELSE process' = "killed" /\ UNCHANGED loops
    /\ UNCHANGED <<config, listening, stocked, metrics, polled>>

OperationInit ==
    /\ process = "starting" /\ config = NoConfig
    /\ loops = [l \in Loops |-> "wait"]
    /\ listening = FALSE /\ stocked = FALSE
    /\ metrics = NoMetrics /\ polled = NonePolled

OperationNext ==
    \/ Start \/ FailToStart \/ Listen \/ Interrupt
    \/ \E l \in Loops : StartPoll(l) \/ PollFails(l) \/ PollEnds(l)

-----------------------------------------------------------------------------
(* Properties. *)

OperationTypeOK ==
    /\ process \in {"starting", "up", "exited", "killed"}
    /\ loops \in [Loops -> {"wait", "poll", "stopped"}]
    /\ listening \in BOOLEAN /\ stocked \in BOOLEAN
    /\ metrics \in [polls : 0..MaxPolls, pollErrors : Nat, points : Nat, spikes : Nat,
                    recommendations : Nat]

(* The metrics account for both loops, however their polls overlap and Ctrl-C *)
(* falls: a poll under way is counted and is neither a failure nor a success  *)
(* yet, an error is counted once for a poll whatever its attempts, and with   *)
(* no attempts to make every poll that ends is one. What tokio's interval and *)
(* the limiter cannot bear, zero, never gets past the configuration, and no   *)
(* loop stops unless the process had asked for Ctrl-C.                        *)
OperationSound ==
    /\ OperationTypeOK
    /\ metrics.pollErrors = polled.failed
    /\ metrics.polls = polled.done + polled.failed + Cardinality({l \in Loops : loops[l] = "poll"})
    /\ metrics.points > 0 => stocked
    /\ process = "up" =>
          /\ config.interval = "given" /\ config.lenient["rate_limit"] # "zero"
          /\ config.attempts = "zero" => metrics.pollErrors = polled.done + polled.failed
    /\ (\E l \in Loops : loops[l] = "stopped") => listening
=============================================================================
