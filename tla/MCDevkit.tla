------------------------------- MODULE MCDevkit -------------------------------
(***************************************************************************)
(* Three callers for a bulkhead of two permits and a breaker that opens    *)
(* after two failures and closes after two successes; a generator of seven *)
(* states; seven points with duplicates, gaps, zero fees and times that    *)
(* fall; logs of two or three lines, with and without a time in the names  *)
(* of archives.                                                            *)
(***************************************************************************)
EXTENDS Devkit

MCNext == <<5, 4, 7, 1, 2, 3, 6>>
MCUnit == <<0, 3, 1, 2, 3, 0, 2>>

MCFeeConfigs ==
    {[base |-> 8, volatility |-> 2, trend |-> t, min |-> 3, max |-> 12, seed |-> s] : t \in {0, 1}, s \in {1, 4}}
    \cup {[base |-> 2, volatility |-> 2, trend |-> 0, min |-> 3, max |-> 12, seed |-> 1]}     \* invalid

MCLoadConfigs == {[min |-> m, max |-> 4, correlation |-> 3, noise |-> 2, seed |-> 2] : m \in {0, 1}}

MCSpreads == {2, -2}

LOCAL P(ledger, fee, at) == [ledger |-> ledger, fee |-> fee, at |-> at, spike |-> fee = 6]
MCPoints == {P(1, 0, 1), P(1, 2, 2), P(2, 6, 3), P(2, 2, 9), P(4, 6, 2), P(4, 2, 3), P(5, 3, 3)}

LOCAL C(bytes, archives, suffix) ==
    [max_file_size |-> bytes, max_files |-> archives, timestamp_suffix |-> suffix]
MCLogConfigs == {C(2, 1, FALSE), C(2, 2, FALSE), C(3, 1, TRUE), C(2, 0, FALSE)}

LOCAL E(code, severity) == [code |-> code, module |-> severity, severity |-> severity]
MCReports == {E(1, "critical"), E(1, "warning"), E(2, "critical"), E(3, "error")}

LOCAL A(kind, count, found, took) == [kind |-> kind, points |-> count, spikes |-> found, time |-> took]
MCAnalysisJobs ==
    {A("percentile", 2, 0, 1), A("percentile", 1, 0, 0), A("rolling_window", 3, 0, 2), A("spike_classifier", 4, 1, 1)}

LOCAL R(name, count, low, high) ==
    [scenario |-> name, points |-> count, spikes |-> count - 1, min |-> low, max |-> high, time |-> count]
MCSimulationJobs == {R("calm", 1, 4, 4), R("calm", 2, 2, 6), R("busy", 2, 6, 9)}

MCHeaders == {<<1, 1>>, <<9, 8>>}

Alike == Permutations(Callers)

LOCAL AtMostOne(uses_) == Cardinality({i \in DOMAIN uses_ : uses_[i]}) <= 1

(* One of the meters and one of the timers is used, apart from the others. *)
OneAtATime ==
    /\ used = "meters" =>
          AtMostOne(<<reported # <<>>, collections > 0,
                      \E c \in Collectors : analysed[c] # <<>>, \E c \in Collectors : runs[c] # <<>>>>)
    /\ used = "timers" =>
          AtMostOne(<<timer # None, watches # <<>>, execution # NoExecution \/ cleared > 0>>)

(* Bound: merging back and forth halves an average again and again. *)
Averages ==
    used = "meters" =>
        \A c \in Collectors : \A name \in DOMAIN simulated[c].byScenario :
           simulated[c].byScenario[name].avg[2] <= 200

(* A fixture is built on its own; tools are chained on at most two points. *)
Short ==
    /\ fixture = Nothing \/ (model = Nothing /\ load = Nothing)
    /\ tool = "record" \/ Len(before) <= 2
=============================================================================
