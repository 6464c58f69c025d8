-------------------------------- MODULE Gateway --------------------------------
(***************************************************************************)
(* The way of a request through the router of main.rs and api/router.rs:   *)
(* /health is open, everything else passes the rate limiter, and all but   *)
(* /metrics then needs the API key. Behind them are the handlers that look *)
(* up an account or a transaction, give a recommendation and list those    *)
(* given before, next to the loops of Operation whose metrics they share.  *)
(* CurrentFees, AlertConfigs, Deliveries and Recommendations look into     *)
(* single handlers; here they are what the limiter protects.               *)
(***************************************************************************)
EXTENDS RateLimit, Operation, Sequences

CONSTANTS
    Asks(_),        \* what requests may ask for at a time: a set of requests
    Pages,          \* what Horizon may answer of an account: its records
    HistoryLimit    \* bound: rows GET /fees/recommend/history lists (50)

ASSUME GatewayAssumption ==
    /\ HistoryLimit \in Nat \ {0}
    /\ \A page \in Pages : \A i \in DOMAIN page : page[i].fee \in Nat /\ page[i].whole \in BOOLEAN

VARIABLES
    handler,    \* handler[r]: what request r asks for and where it is, or NoHandler
    stamp,      \* recommendations computed so far; their computed_at
    saving,     \* inserts of recommendations that were spawned and did not run yet
    saved,      \* the recommendations table
    listed,     \* what the history last answered
    entered,    \* history: entered[kind], handlers started, those that advise and others
    advised     \* history: answers 200 of handlers that advise

handlerVars == <<handler, stamp, saving, saved, listed, entered, advised>>
gatewayVars == <<vars, operationVars, handlerVars>>

Validated == {"recommend", "account", "transaction"}
Advice == {"recommend", "simple"}
Routes == {"metrics", "history"} \cup Advice \cup Validated
Kind(route) == IF route \in Advice THEN "advice" ELSE "other"
NoHandler == [at |-> "none"]

ASSUME AsksAssumption ==
    \A t \in Times : Asks(t) \subseteq [route : Routes, key : BOOLEAN, valid : BOOLEAN]

(* AppError::into_response *)
StatusOf == [Config |-> 500, Network |-> 502, Parse |-> 422, BadRequest |-> 400, NotFound |-> 404,
             Unknown |-> 500]

-----------------------------------------------------------------------------
(* The tiers. *)

(* A request comes to the limiter; ask.key is whether it brings the right     *)
(* key, ask.valid whether its path or body passes validation.                 *)
Knock(r) ==
    /\ process = "up" /\ handler[r] = NoHandler
    /\ Arrive(r)
    /\ \E ask \in Asks(now) :
          handler' = [handler EXCEPT
              ![r] = [at |-> "limiter", route |-> ask.route, key |-> ask.key, valid |-> ask.valid]]
    /\ UNCHANGED <<operationVars, stamp, saving, saved, listed, entered, advised>>

Sweep(r) ==
    /\ Evict(r)
    /\ UNCHANGED <<operationVars, handlerVars>>

(* require_api_key wraps the business routes and not /metrics. *)
LetIn(h) == h.route = "metrics" \/ ~config.key \/ h.key

(* Let through by the limiter, and by the key or not (401, 403). *)
Enter(r) ==
    LET h == handler[r] IN
    /\ Admit(r)
    /\ handler' = [handler EXCEPT ![r] = IF LetIn(h) THEN [h EXCEPT !.at = "begun"] ELSE NoHandler]
    /\ entered' = IF LetIn(h) THEN [entered EXCEPT ![Kind(h.route)] = @ + 1] ELSE entered
    /\ UNCHANGED <<operationVars, stamp, saving, saved, listed, advised>>

Limited(r) ==
    /\ Reject(r)
    /\ handler' = [handler EXCEPT ![r] = NoHandler]
    /\ UNCHANGED <<operationVars, stamp, saving, saved, listed, entered, advised>>

-----------------------------------------------------------------------------
(* Handlers. Each conjunction is what a handler does between two awaits. *)

Begun(r, route) == process = "up" /\ handler[r].at = "begun" /\ handler[r].route = route

Respond(r, code) ==
    /\ handler' = [handler EXCEPT ![r] = NoHandler]
    /\ advised' = IF code = 200 /\ handler[r].route \in Advice THEN advised + 1 ELSE advised
    /\ UNCHANGED <<vars, process, config, loops, listening, stocked, polled, entered>>

Goes(r, place) ==
    /\ handler' = [handler EXCEPT ![r].at = place]
    /\ UNCHANGED <<vars, process, config, loops, listening, stocked, polled, entered, advised>>

(* AppMetrics::render *)
Scrape(r) ==
    /\ Begun(r, "metrics")
    /\ Respond(r, 200)
    /\ UNCHANGED <<metrics, stamp, saving, saved, listed>>

(* A body, an account or a hash that its validator refuses. *)
Refuse(r) ==
    /\ \E route \in Validated : Begun(r, route)
    /\ ~handler[r].valid
    /\ Respond(r, StatusOf["BadRequest"])
    /\ UNCHANGED <<metrics, stamp, saving, saved, listed>>

(* transaction_fee_lookup: only what the store still holds is found. *)
LookUp(r) ==
    /\ Begun(r, "transaction") /\ handler[r].valid
    /\ \E code \in (IF stocked THEN {200} ELSE {}) \cup {StatusOf["NotFound"]} : Respond(r, code)
    /\ UNCHANGED <<metrics, stamp, saving, saved, listed>>

(* account_fee_history calls Horizon. *)
AskHorizon(r) ==
    /\ Begun(r, "account") /\ handler[r].valid
    /\ Goes(r, "upstream")
    /\ UNCHANGED <<metrics, stamp, saving, saved, listed>>

(* Records that cannot be read are dropped. *)
Readable(page) == SelectSeq(page, LAMBDA record : record.whole)

(* An error, no answer in time, an answer that is no page, or a page. *)
HorizonAnswers(r) ==
    /\ process = "up" /\ handler[r].at = "upstream"
    /\ \/ \E error \in {"Network", "Parse"} : Respond(r, StatusOf[error])
       \/ \E page \in Pages :
             Respond(r, IF Readable(page) = <<>> THEN StatusOf["NotFound"] ELSE 200)
    /\ UNCHANGED <<metrics, stamp, saving, saved, listed>>

(* recommend of the engine: an answer made from samples is saved by a task of *)
(* its own, one from the cache or for too few samples is not.                 *)
Compute(r) ==
    /\ Begun(r, "simple") \/ (Begun(r, "recommend") /\ handler[r].valid)
    /\ Goes(r, "computed")
    /\ \/ /\ stocked \/ config.lenient["min_samples"] = "zero"
          /\ stamp' = stamp + 1 /\ saving' = saving \cup {stamp + 1}
       \/ UNCHANGED <<stamp, saving>>
    /\ UNCHANGED <<metrics, saved, listed>>

Counted == metrics' = [metrics EXCEPT !.recommendations = @ + 1]

Recommended(r) ==
    /\ process = "up" /\ handler[r].at = "computed" /\ handler[r].route = "recommend"
    /\ Respond(r, 200) /\ Counted
    /\ UNCHANGED <<stamp, saving, saved, listed>>

(* Faulty: counted before the store is looked at, and again with the answer. *)
SimpleCountedTwice(r) ==
    /\ process = "up" /\ handler[r].at = "computed" /\ handler[r].route = "simple"
    /\ Respond(r, IF stocked THEN 200 ELSE StatusOf["Network"])
    /\ metrics' = [metrics EXCEPT !.recommendations = @ + 2]
    /\ UNCHANGED <<stamp, saving, saved, listed>>

(* get_recommend goes on to the last points of the store. *)
Simple(r) ==
    /\ process = "up" /\ handler[r].at = "computed" /\ handler[r].route = "simple"
    /\ IF stocked THEN Respond(r, 200) /\ Counted
       ELSE Respond(r, StatusOf["Network"]) /\ UNCHANGED metrics
    /\ UNCHANGED <<stamp, saving, saved, listed>>

(* The newest rows, newest first. *)
Newest(rows) ==
    CHOOSE page \in UNION {[1..n -> rows] : n \in 0..HistoryLimit} :
        /\ Len(page) = HistoryLimit \/ \A row \in rows : \E i \in DOMAIN page : page[i] = row
        /\ \A i, j \in DOMAIN page : i < j => page[i] > page[j]
        /\ \A i \in DOMAIN page, row \in rows : row > page[i] => \E j \in DOMAIN page : page[j] = row

(* recommend_history: a query, which may fail. *)
History(r) ==
    /\ Begun(r, "history")
    /\ \/ Respond(r, 200) /\ listed' = Newest(saved)
       \/ Respond(r, StatusOf["Unknown"]) /\ UNCHANGED listed
    /\ UNCHANGED <<metrics, stamp, saving, saved>>

(* The client goes away: the handler is dropped at an await. *)
Disconnect(r) ==
    /\ process = "up" /\ handler[r].at \in {"upstream", "computed"}
    /\ handler' = [handler EXCEPT ![r] = NoHandler]
    /\ UNCHANGED <<vars, operationVars, stamp, saving, saved, listed, entered, advised>>

-----------------------------------------------------------------------------
(* The recommendations table. *)

(* insert_recommendation, which may fail. *)
Save ==
    /\ process = "up"
    /\ \E row \in saving :
          /\ saving' = saving \ {row}
          /\ saved' \in {saved, saved \cup {row}}
    /\ UNCHANGED <<vars, operationVars, handler, stamp, listed, entered, advised>>

(* prune_recommendations_older_than, by a poll of the fees. *)
PruneSaved ==
    /\ process = "up" /\ loops["fees"] = "poll"
    /\ \E cutoff \in saved : saved' = {row \in saved : row > cutoff}
    /\ UNCHANGED <<vars, operationVars, handler, stamp, saving, listed, entered, advised>>

GatewayInit ==
    /\ Init /\ OperationInit
    /\ handler = [r \in Requests |-> NoHandler]
    /\ stamp = 0 /\ advised = 0
    /\ saving = {} /\ saved = {} /\ listed = <<>>
    /\ entered = [advice |-> 0, other |-> 0]

Handle(r) ==
    \/ Scrape(r) \/ Refuse(r) \/ LookUp(r) \/ AskHorizon(r) \/ HorizonAnswers(r)
    \/ Compute(r) \/ Recommended(r) \/ Simple(r) \/ History(r) \/ Disconnect(r)

GatewayNext ==
    \/ Tick /\ UNCHANGED <<operationVars, handlerVars>>
    \/ OperationNext /\ UNCHANGED <<vars, handlerVars>>
    \/ Save \/ PruneSaved
    \/ \E r \in Requests : Knock(r) \/ Sweep(r) \/ Enter(r) \/ Limited(r) \/ Handle(r)

GatewaySpec == GatewayInit /\ [][GatewayNext]_gatewayVars

-----------------------------------------------------------------------------
(* Properties. *)

GatewayTypeOK ==
    /\ TypeOK
    /\ \A r \in Requests : handler[r].at \in {"none", "limiter", "begun", "upstream", "computed"}
    /\ saving \subseteq 1..stamp /\ saved \subseteq 1..stamp

LetThrough == Cardinality(UNION {{c} \X (1..admitted[c][0]) : c \in Clients})
InAdvice(places) ==
    Cardinality({r \in Requests : handler[r].at \in places /\ handler[r].route \in Advice})

(* Every handler that runs, every recommendation that is computed, counted or *)
(* saved goes back to a request of its own that the limiter let through and,  *)
(* but for a scrape, that brought the key the configuration asks for, whatever*)
(* requests overlap, are given up half way, or go before the insert of their  *)
(* row; and the history lists each row once and the newest first, however the *)
(* inserts were ordered.                                                      *)
Accounted ==
    /\ GatewayTypeOK
    /\ OperationSound
    /\ entered.advice + entered.other <= LetThrough
    /\ metrics.recommendations = advised
    /\ advised + InAdvice({"begun", "computed"}) <= entered.advice
    /\ stamp + InAdvice({"begun"}) <= entered.advice
    /\ saving \cap saved = {}
    /\ \A r \in Requests :
          handler[r].at \in {"begun", "upstream", "computed"} /\ handler[r].route # "metrics" =>
              (config.key => handler[r].key)
    /\ \A i, j \in DOMAIN listed : i < j => listed[i] > listed[j]
=============================================================================
