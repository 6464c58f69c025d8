-------------------------------- MODULE Service --------------------------------
(***************************************************************************)
(* The backend process (main.rs: the alert configuration API, the          *)
(* fee-stats loop, webhook deliveries and their history, over one SQLite   *)
(* database) and the page that asks it, with its panels and its form. They *)
(* share no variable, only the fate of the process: when it dies, its      *)
(* requests, its loop and its deliveries are lost, the page's requests     *)
(* fail, and the tables stay.                                              *)
(***************************************************************************)
EXTENDS AlertConfigs, FeeStatsPolling, Deliveries, Dashboard, RecommendationForm

vars == <<configVars, statsVars, deliveryVars, dashboardVars, formVars>>

Init == ConfigsInit /\ StatsInit /\ DeliveriesInit /\ DashboardInit /\ FormInit

Restart == ConfigsLost /\ StatsLost /\ DeliveriesLost /\ Refused /\ FormRefused

Next ==
    \/ ConfigsNext /\ UNCHANGED <<statsVars, deliveryVars, dashboardVars, formVars>>
    \/ StatsNext /\ UNCHANGED <<configVars, deliveryVars, dashboardVars, formVars>>
    \/ DeliveriesNext /\ UNCHANGED <<configVars, statsVars, dashboardVars, formVars>>
    \/ DashboardNext /\ UNCHANGED <<configVars, statsVars, deliveryVars, formVars>>
    \/ FormNext /\ UNCHANGED <<configVars, statsVars, deliveryVars, dashboardVars>>
    \/ Restart

Spec == Init /\ [][Next]_vars

(* Type invariant of the five parts. *)
TypeOK == ConfigsTypeOK /\ StatsTypeOK /\ DeliveriesTypeOK /\ DashboardTypeOK /\ FormTypeOK

(* What the page shows: a refresh that ran alone only improves the panels,    *)
(* and the form's result is the answer to its last request, whatever was      *)
(* clicked while requests were in flight and whether the backend died.        *)
PageTells == [][AloneImproves /\ FormTells']_<<dashboardVars, formVars>>
=============================================================================
