------------------------------ MODULE IngestLog ------------------------------
(***************************************************************************)
(* What the polling pipeline promises about one transaction, whatever the  *)
(* store, the retries and the database do: while the service runs it takes *)
(* each transaction at most once, hands it to the insights engine at most  *)
(* once, saves only what it took, and after a restart remembers nothing    *)
(* but saved transactions.                                                 *)
(***************************************************************************)

CONSTANT Tx            \* the transactions of the network

VARIABLES seen,        \* taken by the running process (or restored at start)
          counted,     \* counted[x]: times the engine of this process was given x
          durable      \* saved in the database

logVars == <<seen, counted, durable>>

(* The engine was given each transaction of b once, and no other. *)
OnceEach(b) == [x \in Tx |-> IF x \in b THEN 1 ELSE 0]

Init == seen = {} /\ counted = OnceEach({}) /\ durable = {}

(* A poll takes new transactions: none of them was taken before. *)
Take(b) ==
    /\ b # {}
    /\ b \cap seen = {}
    /\ seen' = seen \cup b
    /\ UNCHANGED <<counted, durable>>

(* The engine counts transactions that were taken and never counted. *)
Count(b) ==
    /\ b \subseteq seen
    /\ \A x \in b : counted[x] = 0
    /\ counted' = [x \in Tx |-> IF x \in b THEN 1 ELSE counted[x]]
    /\ UNCHANGED <<seen, durable>>

(* The database saves transactions that were taken. *)
Save(b) ==
    /\ b \subseteq seen
    /\ durable' = durable \cup b
    /\ UNCHANGED <<seen, counted>>

(* Saved transactions expire. *)
Expire(b) ==
    /\ durable' = durable \ b
    /\ UNCHANGED <<seen, counted>>

(* The process ends: what it knew is gone. *)
Forget ==
    /\ seen' = {} /\ counted' = OnceEach({})
    /\ UNCHANGED durable

(* A process starts: it knows only saved transactions, and the engine has
   counted all of them or none of them. *)
Restore(b) ==
    /\ seen = {} /\ counted = OnceEach({})
    /\ b \subseteq durable
    /\ seen' = b
    /\ counted' \in {OnceEach({}), OnceEach(b)}
    /\ UNCHANGED durable

Next ==
    \/ \E b \in SUBSET Tx : Take(b) \/ Count(b) \/ Save(b) \/ Expire(b) \/ Restore(b)
    \/ Forget

LogSpec == Init /\ [][Next]_logVars
=============================================================================
