------------------------------- MODULE Metering -------------------------------
(***************************************************************************)
(* The typed-doc drafts that count what happened: the error tracker, the   *)
(* metrics collector, and the metrics of analysis and simulation runs, two *)
(* of which can be merged. Each is kept with a history of what it was told *)
(* since its last reset. Messages and timestamps, which nothing reads, are *)
(* left out, and rates follow from the sums.                               *)
(***************************************************************************)
EXTENDS Integers, Sequences, FiniteSetsExt, Functions

CONSTANTS
    ErrorReports,   \* errors that can be reported: code, module, severity
    Names,          \* names of metrics
    Deltas,         \* values that metrics are given
    BucketBounds,   \* bounds of a histogram's buckets
    AnalysisJobs,   \* analysis operations: kind, points, spikes, time
    SimulationJobs, \* simulation runs: scenario, points, spikes, min, max, time
    Most,           \* u64::MAX
    MaxReports,     \* bound: reports between resets, and uses of metrics
    MaxJobs         \* bound: operations that two run metrics are told

ASSUME MeteringAssumption ==
    /\ \A r \in ErrorReports : r.code \in Nat
    /\ Deltas \subseteq Nat /\ BucketBounds \subseteq Nat
    /\ \A j \in AnalysisJobs \cup SimulationJobs : {j.points, j.spikes, j.time} \subseteq Nat
    /\ \A j \in AnalysisJobs : j.kind \in {"percentile", "rolling_window", "spike_classifier"}
    /\ Most \in Nat /\ \A j \in SimulationJobs : j.max \in 0..Most /\ j.min \in 0..j.max
    /\ MaxReports \in Nat /\ MaxJobs \in Nat

VARIABLES
    errors,     \* ErrorTracker: by code, what was reported first and how often
    errorCounts,\* total_errors, critical_count, warning_count
    reported,   \* history: the reports since the last reset
    metrics,    \* counters, gauges and histograms by name
    collections,\* calls of counter(), gauge() and histogram()
    uses,       \* history: the uses since the last reset
    analysis,   \* two AnalysisRunMetrics
    analysed,   \* history: the operations each stands for
    simulated,  \* two SimulationMetrics
    runs,       \* history: the runs each stands for
    averaged    \* history: scenarios of each that a merge has averaged

errorVars == <<errors, errorCounts, reported>>
metricVars == <<metrics, collections, uses>>
runVars == <<analysis, analysed, simulated, runs, averaged>>

Flag(holds) == IF holds THEN 1 ELSE 0

Put(map, key, value) == [k \in DOMAIN map \cup {key} |-> IF k = key THEN value ELSE map[k]]

-----------------------------------------------------------------------------
(* Errors. *)

NoErrorCounts == [total |-> 0, critical |-> 0, warning |-> 0]

(* A code already known keeps the module and the severity it was first reported with. *)
RecordError ==
    /\ Len(reported) < MaxReports
    /\ \E r \in ErrorReports :
          /\ errors' = IF r.code \in DOMAIN errors
                       THEN [errors EXCEPT ![r.code].count = @ + 1]
                       ELSE Put(errors, r.code, [module |-> r.module, severity |-> r.severity, count |-> 1])
          /\ errorCounts' = [total |-> errorCounts.total + 1,
                             critical |-> errorCounts.critical + Flag(r.severity = "critical"),
                             warning |-> errorCounts.warning + Flag(r.severity = "warning")]
          /\ reported' = Append(reported, r)

ResetErrors == errors' = <<>> /\ errorCounts' = NoErrorCounts /\ reported' = <<>>

BySeverity(severity) == {code \in DOMAIN errors : errors[code].severity = severity}
ByModule(module) == {code \in DOMAIN errors : errors[code].module = module}

(* The order of the list; codes reported as often stay in theirs. *)
Oftener(a, b) ==
    \/ errors[a].count > errors[b].count
    \/ errors[a].count = errors[b].count /\ a < b

(* Those with fewer than n others before them. *)
Top(n) == {code \in DOMAIN errors : Cardinality({other \in DOMAIN errors : Oftener(other, code)}) < n}

-----------------------------------------------------------------------------
(* Metrics. *)

MetricKinds == {"counter", "gauge", "histogram"}

NoMetrics == [kind \in MetricKinds |-> <<>>]

NewMetric(kind) ==
    IF kind = "histogram" THEN [buckets |-> [b \in BucketBounds |-> 0], count |-> 0, sum |-> 0] ELSE 0

(* Faulty: a value is counted in the first bucket that holds it. *)
ObservedOnce(h, value) ==
    [buckets |-> [b \in BucketBounds |->
                    h.buckets[b] + Flag(value <= b /\ \A c \in BucketBounds : value <= c => b <= c)],
     count |-> h.count + 1, sum |-> h.sum + value]

Observed(h, value) ==
    [buckets |-> [b \in BucketBounds |-> h.buckets[b] + Flag(value <= b)],
     count |-> h.count + 1, sum |-> h.sum + value]

(* increment, set or observe. *)
Updated(kind, metric, value) ==
    CASE kind = "counter"   -> metric + value
      [] kind = "gauge"     -> value
      [] kind = "histogram" -> Observed(metric, value)

(* A metric is got, created at need, and updated. *)
UseMetric ==
    /\ collections < MaxReports
    /\ \E kind \in MetricKinds, name \in Names, value \in Deltas :
          LET known == metrics[kind]
              metric == IF name \in DOMAIN known THEN known[name] ELSE NewMetric(kind)
          IN  /\ metrics' = [metrics EXCEPT ![kind] = Put(known, name, Updated(kind, metric, value))]
              /\ uses' = Append(uses, [kind |-> kind, name |-> name, value |-> value])
    /\ collections' = collections + 1

(* collections counts on. *)
ResetMetrics == metrics' = NoMetrics /\ uses' = <<>> /\ UNCHANGED collections

MetricCount == Cardinality(UNION {{kind} \X DOMAIN metrics[kind] : kind \in MetricKinds})

-----------------------------------------------------------------------------
(* Runs. *)

Collectors == {"here", "there"}
Kinds == {"percentile", "rolling_window", "spike_classifier"}

NoAnalysis ==
    [operations |-> [k \in Kinds |-> 0], points |-> 0, spikes |-> 0, time |-> 0, byType |-> <<>>]

NewType == [operations |-> 0, points |-> 0, time |-> 0]

TypeOf(m, kind) == IF kind \in DOMAIN m.byType THEN m.byType[kind] ELSE NewType

Plus(s, t) == [operations |-> s.operations + t.operations, points |-> s.points + t.points, time |-> s.time + t.time]

(* record_percentile, record_rolling_window, record_spike_classification. *)
Analysed(m, job) ==
    [operations |-> [m.operations EXCEPT ![job.kind] = @ + 1],
     points |-> m.points + job.points, spikes |-> m.spikes + job.spikes, time |-> m.time + job.time,
     byType |-> Put(m.byType, job.kind,
                    Plus(TypeOf(m, job.kind), [operations |-> 1, points |-> job.points, time |-> job.time]))]

MergedAnalysis(m, other) ==
    [operations |-> [k \in Kinds |-> m.operations[k] + other.operations[k]],
     points |-> m.points + other.points, spikes |-> m.spikes + other.spikes, time |-> m.time + other.time,
     byType |-> [k \in DOMAIN m.byType \cup DOMAIN other.byType |-> Plus(TypeOf(m, k), TypeOf(other, k))]]

TotalOperations(m) ==
    m.operations["percentile"] + m.operations["rolling_window"] + m.operations["spike_classifier"]

(* Points by time, 0 without any. *)
Rate(m) == IF m.time = 0 THEN <<0, 1>> ELSE <<m.points, m.time>>

NoSimulation == [runs |-> 0, points |-> 0, spikes |-> 0, time |-> 0, byScenario |-> <<>>]

NewScenario == [runs |-> 0, points |-> 0, spikes |-> 0, avg |-> <<0, 1>>, min |-> Most, max |-> 0]

ScenarioOf(m, name) == IF name \in DOMAIN m.byScenario THEN m.byScenario[name] ELSE NewScenario

(* The average is over the middles of min and max, a fraction. *)
Simulated(m, job) ==
    LET s == ScenarioOf(m, job.scenario)
        n == s.runs + 1
        next == [runs |-> n, points |-> s.points + job.points, spikes |-> s.spikes + job.spikes,
                 avg |-> <<2 * s.avg[1] * s.runs + (job.min + job.max) * s.avg[2], 2 * s.avg[2] * n>>,
                 min |-> Min({s.min, job.min}), max |-> Max({s.max, job.max})]
    IN  [runs |-> m.runs + 1, points |-> m.points + job.points, spikes |-> m.spikes + job.spikes,
         time |-> m.time + job.time, byScenario |-> Put(m.byScenario, job.scenario, next)]

(* The average is the middle of the two, and of 0 and the other's for a new scenario. *)
MergedScenario(s, other) ==
    [runs |-> s.runs + other.runs, points |-> s.points + other.points, spikes |-> s.spikes + other.spikes,
     avg |-> <<s.avg[1] * other.avg[2] + other.avg[1] * s.avg[2], 2 * s.avg[2] * other.avg[2]>>,
     min |-> Min({s.min, other.min}), max |-> Max({s.max, other.max})]

MergedSimulation(m, other) ==
    [runs |-> m.runs + other.runs, points |-> m.points + other.points, spikes |-> m.spikes + other.spikes,
     time |-> m.time + other.time,
     byScenario |-> [name \in DOMAIN m.byScenario \cup DOMAIN other.byScenario |->
                        IF name \in DOMAIN other.byScenario
                        THEN MergedScenario(ScenarioOf(m, name), other.byScenario[name])
                        ELSE m.byScenario[name]]]

Analyse ==
    /\ \E c \in Collectors, job \in AnalysisJobs :
          /\ Len(analysed["here"]) + Len(analysed["there"]) < MaxJobs
          /\ analysis' = [analysis EXCEPT ![c] = Analysed(@, job)]
          /\ analysed' = [analysed EXCEPT ![c] = Append(@, job)]
    /\ UNCHANGED <<simulated, runs, averaged>>

MergeAnalysis ==
    /\ \E c, d \in Collectors :
          /\ c # d /\ Len(analysed[c]) + 2 * Len(analysed[d]) <= MaxJobs
          /\ analysis' = [analysis EXCEPT ![c] = MergedAnalysis(@, analysis[d])]
          /\ analysed' = [analysed EXCEPT ![c] = @ \o analysed[d]]
    /\ UNCHANGED <<simulated, runs, averaged>>

ResetAnalysis ==
    /\ \E c \in Collectors :
          /\ analysis' = [analysis EXCEPT ![c] = NoAnalysis] /\ analysed' = [analysed EXCEPT ![c] = <<>>]
    /\ UNCHANGED <<simulated, runs, averaged>>

RecordRun ==
    /\ \E c \in Collectors, job \in SimulationJobs :
          /\ Len(runs["here"]) + Len(runs["there"]) < MaxJobs
          /\ simulated' = [simulated EXCEPT ![c] = Simulated(@, job)]
          /\ runs' = [runs EXCEPT ![c] = Append(@, job)]
    /\ UNCHANGED <<analysis, analysed, averaged>>

MergeRuns ==
    /\ \E c, d \in Collectors :
          /\ c # d /\ runs[d] # <<>> /\ Len(runs[c]) + 2 * Len(runs[d]) <= MaxJobs
          /\ simulated' = [simulated EXCEPT ![c] = MergedSimulation(@, simulated[d])]
          /\ runs' = [runs EXCEPT ![c] = @ \o runs[d]]
          /\ averaged' = [averaged EXCEPT ![c] = @ \cup DOMAIN simulated[d].byScenario]
    /\ UNCHANGED <<analysis, analysed>>

ResetRuns ==
    /\ \E c \in Collectors :
          /\ simulated' = [simulated EXCEPT ![c] = NoSimulation] /\ runs' = [runs EXCEPT ![c] = <<>>]
          /\ averaged' = [averaged EXCEPT ![c] = {}]
    /\ UNCHANGED <<analysis, analysed>>

-----------------------------------------------------------------------------
MeteringInit ==
    /\ errors = <<>> /\ errorCounts = NoErrorCounts /\ reported = <<>>
    /\ metrics = NoMetrics /\ collections = 0 /\ uses = <<>>
    /\ analysis = [c \in Collectors |-> NoAnalysis] /\ analysed = [c \in Collectors |-> <<>>]
    /\ simulated = [c \in Collectors |-> NoSimulation] /\ runs = [c \in Collectors |-> <<>>]
    /\ averaged = [c \in Collectors |-> {}]

MeteringNext ==
    \/ (RecordError \/ ResetErrors) /\ UNCHANGED <<metricVars, runVars>>
    \/ (UseMetric \/ ResetMetrics) /\ UNCHANGED <<errorVars, runVars>>
    \/ (Analyse \/ MergeAnalysis \/ ResetAnalysis \/ RecordRun \/ MergeRuns \/ ResetRuns)
       /\ UNCHANGED <<errorVars, metricVars>>

-----------------------------------------------------------------------------
(* Properties. *)

(* What the members of a sequence weigh together. *)
Summed(seq, weight) ==
    LET upTo[n \in 0..Len(seq)] == IF n = 0 THEN 0 ELSE upTo[n - 1] + weight[seq[n]]
    IN  upTo[Len(seq)]

(* The tracker agrees with what was reported since its last reset: each code  *)
(* as often and as first reported; the top codes are as many as asked for, or *)
(* all, and none left out was reported more often; and the counts by severity *)
(* are those of the codes of that severity, if no code was reported with two  *)
(* (record() counts the new severity, by_severity() the first).               *)
ErrorsCounted ==
    LET times(code) == Summed(reported, [r \in ErrorReports |-> Flag(r.code = code)])
        steady == \A i, j \in DOMAIN reported :
                     reported[i].code = reported[j].code => reported[i].severity = reported[j].severity
        counted(codes) == SumFunctionOnSet([code \in DOMAIN errors |-> errors[code].count], codes)
    IN  /\ DOMAIN errors = {reported[i].code : i \in DOMAIN reported}
        /\ errorCounts.total = Len(reported) /\ errorCounts.total = counted(DOMAIN errors)
        /\ \A code \in DOMAIN errors :
              /\ errors[code].count = times(code)
              /\ \E i \in DOMAIN reported :
                    /\ reported[i].code = code /\ \A j \in 1..(i - 1) : reported[j].code # code
                    /\ code \in BySeverity(reported[i].severity) \cap ByModule(reported[i].module)
        /\ \A n \in 0..Cardinality(DOMAIN errors) :
              /\ Cardinality(Top(n)) = n
              /\ \A top \in Top(n), other \in DOMAIN errors \ Top(n) : times(other) <= times(top)
        /\ steady => /\ errorCounts.critical = counted(BySeverity("critical"))
                     /\ errorCounts.warning = counted(BySeverity("warning"))

Uses == [kind : MetricKinds, name : Names, value : Deltas]

(* Metrics agree with their uses since the last reset: a counter is their sum, *)
(* a gauge the last of them, a histogram's bucket the values up to its bound,  *)
(* so buckets ascend and only values beyond the last are in none.              *)
MetricCounted(kind, name, metric) ==
    LET mine(u) == u.kind = kind /\ u.name = name
        sum == Summed(uses, [u \in Uses |-> IF mine(u) THEN u.value ELSE 0])
    IN  CASE kind = "counter"   -> metric = sum
          [] kind = "gauge"     ->
               \E i \in DOMAIN uses :
                  /\ mine(uses[i]) /\ metric = uses[i].value
                  /\ \A j \in (i + 1)..Len(uses) : ~mine(uses[j])
          [] kind = "histogram" ->
               /\ metric.count = Summed(uses, [u \in Uses |-> Flag(mine(u))]) /\ metric.sum = sum
               /\ \A b, c \in BucketBounds : b <= c => metric.buckets[b] <= metric.buckets[c]
               /\ \A b \in BucketBounds : metric.count - metric.buckets[b] =
                     Summed(uses, [u \in Uses |-> Flag(mine(u) /\ u.value > b)])

MetricsCounted ==
    /\ MetricCount = Cardinality({<<uses[i].kind, uses[i].name>> : i \in DOMAIN uses})
    /\ collections >= Len(uses)
    /\ \A kind \in MetricKinds : \A name \in DOMAIN metrics[kind] : MetricCounted(kind, name, metrics[kind][name])

AtMost(r, q) == r[1] * q[2] <= q[1] * r[2]

(* An analysis' metrics stand for the same operations however they were        *)
(* recorded and merged: totals are the sums over them and over the breakdown,  *)
(* and no type's rate alone is above or alone below the overall one.           *)
AnalysisCounted(m, jobs) ==
    LET types == DOMAIN m.byType
        told(weight) == Summed(jobs, weight)
        typed(numbers) == SumFunctionOnSet(numbers, types)
    IN  /\ TotalOperations(m) = Len(jobs) /\ typed([k \in types |-> m.byType[k].operations]) = Len(jobs)
        /\ m.points = told([j \in AnalysisJobs |-> j.points]) /\ m.points = typed([k \in types |-> m.byType[k].points])
        /\ m.time = told([j \in AnalysisJobs |-> j.time]) /\ m.time = typed([k \in types |-> m.byType[k].time])
        /\ m.spikes = told([j \in AnalysisJobs |-> j.spikes])
        /\ (\A k \in types : m.byType[k].time > 0) /\ types # {} =>
              /\ \E k \in types : AtMost(Rate(m), Rate(m.byType[k]))
              /\ \E k \in types : AtMost(Rate(m.byType[k]), Rate(m))

(* The same of simulations. A scenario's average is the mean of its runs'      *)
(* middles until a merge averages it; then it is at most the maximum, and may  *)
(* be below the minimum.                                                       *)
SimulationCounted(m, jobs, merged) ==
    /\ m.runs = Len(jobs) /\ m.points = Summed(jobs, [j \in SimulationJobs |-> j.points])
    /\ DOMAIN m.byScenario = {jobs[i].scenario : i \in DOMAIN jobs}
    /\ \A name \in DOMAIN m.byScenario :
          LET s == m.byScenario[name]
              mine == {i \in DOMAIN jobs : jobs[i].scenario = name}
              told(weight) == Summed(jobs, [j \in SimulationJobs |-> IF j.scenario = name THEN weight[j] ELSE 0])
          IN  /\ s.runs = Cardinality(mine) /\ s.points = told([j \in SimulationJobs |-> j.points])
              /\ s.spikes = told([j \in SimulationJobs |-> j.spikes])
              /\ s.min = Min({jobs[i].min : i \in mine}) /\ s.max = Max({jobs[i].max : i \in mine})
              /\ AtMost(s.avg, <<s.max, 1>>)
              /\ name \notin merged =>
                    s.avg[1] * 2 * s.runs = told([j \in SimulationJobs |-> j.min + j.max]) * s.avg[2]

RunsCounted ==
    \A c \in Collectors :
       /\ AnalysisCounted(analysis[c], analysed[c])
       /\ SimulationCounted(simulated[c], runs[c], averaged[c])

Meters == ErrorsCounted /\ MetricsCounted /\ RunsCounted
=============================================================================
