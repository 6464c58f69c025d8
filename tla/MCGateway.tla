------------------------------- MODULE MCGateway -------------------------------
(***************************************************************************)
(* Gateway with two requests from two clients. The limiter, the handlers   *)
(* and the loops are explored apart: the clock only runs while no handler  *)
(* has run and no loop has polled, and a loop that polls twice finds no    *)
(* handler running.                                                        *)
(***************************************************************************)
EXTENDS Gateway, TLC

Symmetry == Permutations(Requests) \cup Permutations(Clients)

Given == [s \in Settings |-> "given"]
MCEnvironments ==
    {Given,
     [Given EXCEPT !["api_key"] = "blank", !["retry_attempts"] = "zero", !["min_samples"] = "zero"],
     [Given EXCEPT !["poll_interval"] = "zero"],
     [Given EXCEPT !["api_port"] = "absent", !["port"] = "bad"]}

MCPages ==
    {<<>>, <<[fee |-> 100, whole |-> FALSE]>>,
     <<[fee |-> 100, whole |-> FALSE], [fee |-> 200, whole |-> TRUE]>>}

(* Later, only what the key refuses: the limiter is what is looked at then. *)
MCAsks(t) ==
    LET Ask(route, key, valid) == [route |-> route, key |-> key, valid |-> valid]
    IN  IF t > 0 THEN {Ask("simple", FALSE, TRUE)}
        ELSE {Ask(route, TRUE, TRUE) : route \in Routes}
                \cup {Ask("simple", FALSE, TRUE), Ask("recommend", TRUE, FALSE)}

OnlyLimiter ==
    /\ process = "up" /\ config.key /\ config.attempts = "given"
    /\ loops = [l \in Loops |-> "wait"] /\ ~listening /\ ~stocked
    /\ metrics = NoMetrics /\ entered.advice + entered.other = 0
    /\ \A r \in Requests : handler[r] # NoHandler => ~handler[r].key

OnlyOperation == \A c \in Clients : admitted[c][0] = 0 /\ \A r \in Requests : handler[r] = NoHandler

OnlyHandlers ==
    /\ now = 0 /\ process = "up"
    /\ metrics.polls = (IF loops["fees"] = "poll" THEN 1 ELSE 0) /\ loops["stats"] = "wait"
    /\ ~listening /\ (loops["fees"] = "poll" => stocked)
    /\ Cardinality({r \in Requests : stage[r] # "out"}) <= 1 /\ Cardinality(saving) <= 1
    /\ LetThrough <= (IF config.key THEN 3 ELSE 2)

Apart == (now = 0 /\ OnlyOperation) \/ OnlyHandlers \/ OnlyLimiter
=============================================================================
