---------------------------- MODULE MCAlertManager ----------------------------
(***************************************************************************)
(* AlertManager with three spikes, the last of them minor, three configs   *)
(* for two webhooks, and two ways to enable alert types.                   *)
(***************************************************************************)
EXTENDS AlertManager

MCSeverityOf == <<2, 3, 0>>
MCConfigs == {[url |-> "u1", threshold |-> 1], [url |-> "u1", threshold |-> 3]}
MCTypeSets == {{"spike", "recovery", "good_window", "stale_data"},
               {"recovery", "stale_data"}}
=============================================================================
