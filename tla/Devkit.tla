-------------------------------- MODULE Devkit --------------------------------
(***************************************************************************)
(* The devkit: its resilience primitives, its sources of fee data, the     *)
(* tools for recorded points, the rotating log, and the drafts that count, *)
(* trace and time. The parts share no state; a behaviour uses one of them. *)
(***************************************************************************)
EXTENDS Resilience, Simulation, DataQuality, LogRotation, Metering, Tracing

VARIABLE used   \* the part in use

devkitVars == <<resilienceVars, simulationVars, qualityVars, logVars>>
meteringVars == <<errorVars, metricVars, runVars>>
tracingVars == <<traceVars, timerVars, healthVars>>

vars == <<used, devkitVars, meteringVars, tracingVars>>

Init ==
    /\ ResilienceInit /\ SimulationInit /\ QualityInit /\ LogInit /\ MeteringInit /\ TracingInit
    /\ \/ /\ used \in {"resilience", "simulation", "quality", "meters", "traces", "timers", "health"}
          /\ logConfig = CHOOSE c \in LogConfigs : TRUE
       \/ used = "log"

DevkitNext ==
    \/ used = "resilience" /\ ResilienceNext /\ UNCHANGED <<simulationVars, qualityVars, logVars>>
    \/ used = "simulation" /\ SimulationNext /\ UNCHANGED <<resilienceVars, qualityVars, logVars>>
    \/ used = "quality" /\ QualityNext /\ UNCHANGED <<resilienceVars, simulationVars, logVars>>
    \/ used = "log" /\ LogNext /\ UNCHANGED <<resilienceVars, simulationVars, qualityVars>>

TracingNext ==
    \/ used = "traces" /\ TraceNext /\ UNCHANGED <<timerVars, healthVars>>
    \/ used = "timers" /\ TimerNext /\ UNCHANGED <<traceVars, healthVars>>
    \/ used = "health" /\ HealthNext /\ UNCHANGED <<traceVars, timerVars>>

Next ==
    /\ UNCHANGED used
    /\ \/ DevkitNext /\ UNCHANGED <<meteringVars, tracingVars>>
       \/ used = "meters" /\ MeteringNext /\ UNCHANGED <<devkitVars, tracingVars>>
       \/ TracingNext /\ UNCHANGED <<devkitVars, meteringVars>>

Spec == Init /\ [][Next]_vars

(* Type invariant of the parts that are not counters or records of them. *)
TypeOK == ResilienceTypeOK /\ SimulationTypeOK /\ QualityTypeOK /\ LogTypeOK

(* What is said of data is true: the tools for recorded points do and report  *)
(* what they promise, and the meters agree with what they were told. While     *)
(* another part is in use they stay as they began.                             *)
DataTold == QualitySound /\ (used = "meters" => Meters)
=============================================================================
