------------------------------- MODULE MCService -------------------------------
(***************************************************************************)
(* Two handlers, two rows, and PATCH bodies that name one or two columns   *)
(* or an invalid one; two ledgers and two payloads for the loop; two       *)
(* panels and two refreshes at a time; three alerts, two of them spikes of *)
(* different severities; two confidences, two demands and two requests     *)
(* for the form. The parts share no state, so one is looked at while the   *)
(* others are at rest.                                                     *)
(***************************************************************************)
EXTENDS Service, TLC

Named(threshold, enabled, type) == [threshold |-> threshold, enabled |-> enabled, type |-> type]

SomeBodies ==
    {Named(Omitted, TRUE, Omitted), Named("Minor", Omitted, "recovery"),
     Named(Invalid, FALSE, Omitted), Named("Minor", Omitted, Invalid)}

Alerted(id, kind, severity) == [id |-> id, kind |-> kind, severity |-> severity]

SomeAlerts ==
    {Alerted(1, "spike", "Minor"), Alerted(2, "spike", "Major"), Alerted(3, "recovery", "Minor")}

SomeFilters == {[severity |-> AnyValue, delivered |-> TRUE, kind |-> "spike"]}

ConfigsAtRest == ConfigsInit
StatsAtRest == StatsInit
DeliveriesAtRest == DeliveriesInit
DashboardAtRest == DashboardInit /\ \A p \in Panels : shown[p] = Null
FormAtRest == FormInit /\ stored = Unusable

Apart ==
    \/ ConfigsAtRest /\ StatsAtRest /\ DeliveriesAtRest /\ FormAtRest
    \/ ConfigsAtRest /\ StatsAtRest /\ DashboardAtRest /\ FormAtRest
    \/ ConfigsAtRest /\ DeliveriesAtRest /\ DashboardAtRest /\ FormAtRest
    \/ StatsAtRest /\ DeliveriesAtRest /\ DashboardAtRest /\ FormAtRest
    \/ ConfigsAtRest /\ StatsAtRest /\ DeliveriesAtRest /\ DashboardAtRest

Alike == Permutations(Handlers) \cup Permutations(Slots)
=============================================================================
