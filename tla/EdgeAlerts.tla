------------------------------ MODULE EdgeAlerts ------------------------------
(***************************************************************************)
(* What the alert manager promises to the subscriber of the default        *)
(* webhook: an alert is an edge of what consecutive updates show, never a  *)
(* level, and only the enabled kinds of alert are posted. A restart forgets *)
(* what was shown and may change what is enabled.                          *)
(***************************************************************************)

CONSTANT TypeSets      \* the sets of alert types an operator may enable

VARIABLES enabled,     \* the enabled alert types
          shown,       \* shown[c]: the last update showed condition c
          posted       \* types of alert the last step handed to the webhook

edgeVars == <<enabled, shown, posted>>

Conditions == {"spike", "good_window", "stale_data"}

(* The alert a change of condition c is worth: only a spike has an end. *)
Edge(c, before, now) ==
    CASE ~before /\ now                -> {c}
      [] before /\ ~now /\ c = "spike" -> {"recovery"}
      [] OTHER                         -> {}

Nothing == [c \in Conditions |-> FALSE]

Init ==
    /\ enabled \in TypeSets
    /\ shown = Nothing
    /\ posted = {}

(* An update shows condition c, or shows that it is gone. *)
Show(c, now) ==
    /\ shown' = [shown EXCEPT ![c] = now]
    /\ posted' = Edge(c, shown[c], now) \cap enabled
    /\ UNCHANGED enabled

Restart ==
    /\ shown' = Nothing
    /\ enabled' \in TypeSets
    /\ posted' = {}

Next ==
    \/ \E c \in Conditions, now \in BOOLEAN : Show(c, now)
    \/ Restart

EdgeSpec == Init /\ [][Next]_edgeVars
=============================================================================
