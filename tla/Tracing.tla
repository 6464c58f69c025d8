-------------------------------- MODULE Tracing --------------------------------
(***************************************************************************)
(* The typed-doc drafts that follow work through a program: trace contexts *)
(* with their registry and propagator, timers, and health checks. An       *)
(* identifier is the number of its generation; start times of contexts,    *)
(* which only elapsed_ms reads, are left out.                              *)
(***************************************************************************)
EXTENDS Integers, Sequences, SequencesExt, FiniteSetsExt, Functions

CONSTANTS
    Keys, Values,   \* of baggage
    Watched,        \* names of registered timers
    Headers,        \* trace and span of traceparent headers that can arrive
    NoHeader,       \* no traceparent in the carrier
    PathChecks,     \* health checks of a path: disk space, database
    PassingChecks,  \* those that always pass: memory, uptime, a ping of some target
    FailingChecks,  \* those that never do: a ping without a target
    MaxIds,         \* bound: identifiers generated
    MaxContexts,    \* bound: contexts in hand
    MaxChecks,      \* bound: checks registered
    MaxClock,       \* bound: the clock
    MaxChildren     \* bound: children of a timer, and stops of the execution timer

ASSUME TracingAssumption ==
    /\ Headers \subseteq (Nat \ {0}) \X (Nat \ {0})      \* 0, the empty span, stands for no parent
    /\ NoHeader \notin Nat \X Nat
    /\ {MaxIds, MaxContexts, MaxChecks, MaxClock, MaxChildren} \subseteq Nat

VARIABLES
    generated,  \* NEXT_ID: identifiers generated
    contexts,   \* contexts in hand that this process made
    extracted,  \* contexts in hand that came out of a carrier
    current,    \* the registry's context, or None
    started,    \* spans_created
    hung,       \* whether a call of the registry hangs, holding its lock
    carrier,    \* traceparent and baggage
    injected,   \* history: what the carrier was given since it was empty
    clock,      \* Instant::now()
    timer,      \* a Timer with children, or None
    watches,    \* TimerRegistry: timers by name
    execution,  \* an ExecutionTimer: its start or NoTime, its sum and its count
    cleared,    \* history: when the execution timer was last reset
    works,      \* the present outcome of each check
    checks,     \* the checks of a HealthChecker, in order
    report      \* its JSON report while it is made: the results, then the status

traceVars == <<generated, contexts, extracted, current, started, hung, carrier, injected>>
timerVars == <<clock, timer, watches, execution, cleared>>
healthVars == <<works, checks, report>>

None == [kind |-> "none"]
NoTime == -1

(* A map with the entries of another put into it. *)
Overlaid(top, below) ==
    [x \in DOMAIN top \cup DOMAIN below |-> IF x \in DOMAIN top THEN top[x] ELSE below[x]]

-----------------------------------------------------------------------------
(* Contexts. *)

Root(id) == [trace |-> id, span |-> id, parent |-> 0, baggage |-> <<>>]

(* Faulty: every span hangs under the root. *)
ChildSpanOfRoot(ctx, id) == [ctx EXCEPT !.span = id, !.parent = ctx.trace]

ChildSpan(ctx, id) == [ctx EXCEPT !.span = id, !.parent = ctx.span]

WithBaggage(ctx, key, value) == [ctx EXCEPT !.baggage = Overlaid([k \in {key} |-> value], @)]

InHand == contexts \cup extracted

MayKeep == Cardinality(InHand) < MaxContexts

NewRoot ==
    /\ generated < MaxIds /\ MayKeep
    /\ generated' = generated + 1 /\ contexts' = contexts \cup {Root(generated + 1)}
    /\ UNCHANGED <<extracted, current, started, hung, carrier, injected>>

NewChild ==
    /\ generated < MaxIds /\ MayKeep
    /\ \E ctx \in InHand : contexts' = contexts \cup {ChildSpan(ctx, generated + 1)}
    /\ generated' = generated + 1
    /\ UNCHANGED <<extracted, current, started, hung, carrier, injected>>

(* with_baggage takes the context and returns it changed. *)
AddBaggage ==
    /\ \E ctx \in contexts, key \in Keys, value \in Values :
          contexts' = (contexts \ {ctx}) \cup {WithBaggage(ctx, key, value)}
    /\ UNCHANGED <<generated, extracted, current, started, hung, carrier, injected>>

-----------------------------------------------------------------------------
(* The registry. *)

SetCurrent ==
    /\ ~hung /\ \E ctx \in InHand : current' = ctx
    /\ UNCHANGED <<generated, contexts, extracted, started, hung, carrier, injected>>

(* get() without a context locks the mutex it already holds. *)
GetNone ==
    /\ ~hung /\ current = None
    /\ hung' = TRUE
    /\ UNCHANGED <<generated, contexts, extracted, current, started, carrier, injected>>

(* The span started does not become the current one. *)
StartSpan ==
    /\ ~hung /\ current # None /\ generated < MaxIds /\ MayKeep
    /\ generated' = generated + 1 /\ contexts' = contexts \cup {ChildSpan(current, generated + 1)}
    /\ started' = started + 1
    /\ UNCHANGED <<extracted, current, hung, carrier, injected>>

ClearCurrent ==
    /\ ~hung /\ current' = None
    /\ UNCHANGED <<generated, contexts, extracted, started, hung, carrier, injected>>

-----------------------------------------------------------------------------
(* The propagator. *)

EmptyCarrier == [header |-> NoHeader, baggage |-> <<>>]

(* What the carrier held under other keys stays. *)
Inject ==
    /\ Len(injected) < 2
    /\ \E ctx \in InHand :
          /\ carrier' = [header |-> <<ctx.trace, ctx.span>>, baggage |-> Overlaid(ctx.baggage, carrier.baggage)]
          /\ injected' = Append(injected, ctx)
    /\ UNCHANGED <<generated, contexts, extracted, current, started, hung>>

(* A request comes in with the header of another process. *)
Arrive ==
    /\ \E header \in Headers :
          /\ carrier' = [header |-> header, baggage |-> <<>>]
          /\ injected' = <<[trace |-> header[1], span |-> header[2], parent |-> 0, baggage |-> <<>>]>>
    /\ UNCHANGED <<generated, contexts, extracted, current, started, hung>>

EmptyIt ==
    /\ carrier' = EmptyCarrier /\ injected' = <<>>
    /\ UNCHANGED <<generated, contexts, extracted, current, started, hung>>

Extracted ==
    [trace |-> carrier.header[1], span |-> carrier.header[2], parent |-> 0, baggage |-> carrier.baggage]

Extract ==
    /\ carrier.header # NoHeader /\ MayKeep
    /\ extracted' = extracted \cup {Extracted}
    /\ UNCHANGED <<generated, contexts, current, started, hung, carrier, injected>>

TraceNext ==
    \/ NewRoot \/ NewChild \/ AddBaggage
    \/ SetCurrent \/ GetNone \/ StartSpan \/ ClearCurrent
    \/ Inject \/ Arrive \/ EmptyIt \/ Extract

-----------------------------------------------------------------------------
(* Timers. *)

NewTimer == [start |-> clock, elapsed |-> NoTime]
Stopped(t) == [t EXCEPT !.elapsed = clock - t.start]
(* Never None, whatever the comment says: up to now while the timer runs. *)
Elapsed(t) == IF t.elapsed = NoTime THEN clock - t.start ELSE t.elapsed

ElapsedSum(timers) == FoldFunction(LAMBDA t, sum : sum + Elapsed(t), 0, timers)

TotalWithChildren(t) == Elapsed(t) + ElapsedSum(t.children)

StartTimer ==
    /\ timer' = [start |-> clock, elapsed |-> NoTime, children |-> <<>>]
    /\ UNCHANGED <<clock, watches, execution, cleared>>

StopTimer ==
    /\ timer # None /\ timer' = Stopped(timer)
    /\ UNCHANGED <<clock, watches, execution, cleared>>

StartChild ==
    /\ timer # None /\ Len(timer.children) < MaxChildren
    /\ timer' = [timer EXCEPT !.children = Append(@, NewTimer)]
    /\ UNCHANGED <<clock, watches, execution, cleared>>

(* child() lends the newest child only. *)
StopChild ==
    /\ timer # None /\ timer.children # <<>>
    /\ timer' = [timer EXCEPT !.children[Len(timer.children)] = Stopped(Last(timer.children))]
    /\ UNCHANGED <<clock, watches, execution, cleared>>

(* A timer of that name is replaced. *)
StartWatch ==
    /\ \E name \in Watched : watches' = Overlaid([n \in {name} |-> NewTimer], watches)
    /\ UNCHANGED <<clock, timer, execution, cleared>>

StopWatch ==
    /\ \E name \in DOMAIN watches : watches' = [watches EXCEPT ![name] = Stopped(@)]
    /\ UNCHANGED <<clock, timer, execution, cleared>>

ResetWatches == watches' = <<>> /\ UNCHANGED <<clock, timer, execution, cleared>>

NoExecution == [start |-> NoTime, total |-> 0, count |-> 0]

StartExecution ==
    /\ execution' = [execution EXCEPT !.start = clock]
    /\ UNCHANGED <<clock, timer, watches, cleared>>

(* Faulty: a stop leaves the timer running. *)
StopExecutionRunning ==
    /\ execution.count < MaxChildren
    /\ execution' = [execution EXCEPT !.count = @ + 1,
                     !.total = @ + (IF execution.start = NoTime THEN 0 ELSE clock - execution.start)]
    /\ UNCHANGED <<clock, timer, watches, cleared>>

(* A stop without a start counts as a run that took no time. *)
StopExecution ==
    /\ execution.count < MaxChildren
    /\ execution' = [start |-> NoTime, count |-> execution.count + 1,
                     total |-> execution.total + (IF execution.start = NoTime THEN 0 ELSE clock - execution.start)]
    /\ UNCHANGED <<clock, timer, watches, cleared>>

Average(e) == IF e.count = 0 THEN 0 ELSE e.total \div e.count

ResetExecution ==
    /\ execution' = NoExecution /\ cleared' = clock
    /\ UNCHANGED <<clock, timer, watches>>

TimePasses ==
    /\ clock < MaxClock /\ clock' = clock + 1
    /\ UNCHANGED <<timer, watches, execution, cleared>>

TimerNext ==
    \/ StartTimer \/ StopTimer \/ StartChild \/ StopChild
    \/ StartWatch \/ StopWatch \/ ResetWatches
    \/ StartExecution \/ StopExecution \/ ResetExecution \/ TimePasses

-----------------------------------------------------------------------------
(* Health checks. *)

RunAll == [i \in DOMAIN checks |-> [name |-> checks[i], ok |-> works[checks[i]]]]

(* Faulty: one failure is enough. *)
StatusOfWorst(results) == IF \A i \in DOMAIN results : results[i].ok THEN "healthy" ELSE "unhealthy"

StatusOf(results) ==
    LET failed == {i \in DOMAIN results : ~results[i].ok}
    IN  CASE failed = DOMAIN results -> "unhealthy"
          [] failed # DOMAIN results /\ failed # {} -> "degraded"
          [] failed = {} /\ DOMAIN results # {} -> "healthy"

Checks == PathChecks \cup PassingChecks \cup FailingChecks

(* Every path exists at first. *)
Outcomes == [check \in Checks |-> check \notin FailingChecks]

RegisterCheck ==
    /\ report = None /\ Len(checks) < MaxChecks
    /\ \E check \in Checks : checks' = Append(checks, check)
    /\ UNCHANGED <<works, report>>

(* A path comes or goes. *)
OutcomeChanges ==
    /\ \E check \in PathChecks : works' = [works EXCEPT ![check] = ~@]
    /\ report' = (IF report = None THEN None ELSE [report EXCEPT !.changed = TRUE])
    /\ UNCHANGED checks

ListResults ==
    /\ report = None
    /\ report' = [results |-> RunAll, status |-> "", changed |-> FALSE]
    /\ UNCHANGED <<works, checks>>

(* to_json() runs every check a second time for the status. *)
AddStatus ==
    /\ report # None /\ report.status = ""
    /\ report' = [report EXCEPT !.status = StatusOf(RunAll)]
    /\ UNCHANGED <<works, checks>>

DeliverReport == report # None /\ report.status # "" /\ report' = None /\ UNCHANGED <<works, checks>>

HealthNext == RegisterCheck \/ OutcomeChanges \/ ListResults \/ AddStatus \/ DeliverReport

-----------------------------------------------------------------------------
TracingInit ==
    /\ generated = 0 /\ contexts = {} /\ extracted = {} /\ current = None /\ started = 0 /\ hung = FALSE
    /\ carrier = EmptyCarrier /\ injected = <<>>
    /\ clock = 0 /\ timer = None /\ watches = <<>> /\ execution = NoExecution /\ cleared = 0
    /\ works = Outcomes /\ checks = <<>> /\ report = None

-----------------------------------------------------------------------------
(* Properties. *)

(* Spans form trees: no two contexts made here are one span, and the parent of *)
(* each is in hand, in the same trace, made earlier or elsewhere, whatever was *)
(* installed, started, injected and extracted. A carrier hands on trace and    *)
(* span of the context it was last given, and of each key of baggage the last  *)
(* value it was given: also those of an earlier context, unless it was emptied.*)
SpansLink ==
    /\ \A c, d \in contexts : c.span = d.span => c = d
    /\ \A c \in contexts :
          \/ c.parent = 0 /\ c.span = c.trace
          \/ \E p \in InHand : p.span = c.parent /\ p.trace = c.trace /\ (p \in extracted \/ p.span < c.span)
    /\ started <= Cardinality({c \in contexts : c.parent # 0})
    /\ hung => current = None
    /\ carrier.header # NoHeader =>
          LET given(key) == {i \in DOMAIN injected : key \in DOMAIN injected[i].baggage} IN
          /\ Extracted.trace = Last(injected).trace /\ Extracted.span = Last(injected).span
          /\ \A key \in Keys :
                /\ key \in DOMAIN Extracted.baggage <=> given(key) # {}
                /\ \A i \in given(key) : (\A j \in given(key) : j <= i) =>
                      Extracted.baggage[key] = injected[i].baggage[key]

(* The execution timer counts no moment twice, however it is started and      *)
(* stopped, and its average is not above its sum. The registry's total is at   *)
(* most the clock for each timer. Children that ran one after the other within *)
(* their timer add at most its time to its total.                              *)
TimesAddUp ==
    LET running == IF execution.start = NoTime THEN 0 ELSE clock - execution.start IN
    /\ execution.total + running <= clock - cleared
    /\ execution.count * Average(execution) <= execution.total
    /\ ElapsedSum(watches) <= Cardinality(DOMAIN watches) * clock
    /\ timer # None =>
          LET c == timer.children
              end(t) == t.start + Elapsed(t)
              within == /\ \A i \in DOMAIN c : end(c[i]) <= end(timer)
                        /\ \A i \in 2..Len(c) : c[i].start >= end(c[i - 1])
          IN  within => TotalWithChildren(timer) <= 2 * Elapsed(timer)

(* The status of a health report fits the results it lists, unless an outcome *)
(* changed while it was made, and says healthy only if something was checked. *)
ReportFits ==
    report # None /\ report.status # "" /\ ~report.changed =>
        /\ report.status = "healthy" <=> report.results # <<>> /\ \A i \in DOMAIN report.results : report.results[i].ok
        /\ report.status = "unhealthy" <=> \A i \in DOMAIN report.results : ~report.results[i].ok

(* Spans, times and reports agree with what happened in the program observed. *)
Observes == SpansLink /\ TimesAddUp /\ ReportFits
=============================================================================
