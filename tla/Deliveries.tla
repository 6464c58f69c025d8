------------------------------ MODULE Deliveries ------------------------------
(***************************************************************************)
(* Webhook deliveries and the log of alerts. Each alert is delivered by a  *)
(* spawned task (alerts/mod.rs) that posts it, once more after a pause if  *)
(* that fails (alerts/webhook.rs), and logs how a spike alert ended.       *)
(* GET /alerts/history (api/alerts.rs) reads that log with two queries     *)
(* that run side by side (repository.rs), while tasks add rows and the     *)
(* retention removes them.                                                 *)
(***************************************************************************)
EXTENDS Naturals, FiniteSets

CONSTANTS
    Alerts,         \* alerts as they are dispatched: one spike or other condition, one webhook
    Tries,          \* MAX_ATTEMPTS
    Severities,     \* VALID_THRESHOLDS
    AlertKinds,     \* VALID_ALERT_TYPES
    AnyValue,       \* a filter the query leaves out
    Filters,        \* the filters asked for
    Readers,        \* history requests at a time
    Limits,         \* the limits asked for
    MaxLimit        \* the largest page

Filter == [severity : Severities \cup {AnyValue}, delivered : BOOLEAN \cup {AnyValue},
           kind : AlertKinds \cup {AnyValue}]

ASSUME DeliveriesAssumption ==
    /\ \A a \in Alerts : a.kind \in AlertKinds /\ a.severity \in Severities
    /\ "spike" \in AlertKinds
    /\ Filters \subseteq Filter
    /\ Tries \in Nat \ {0}
    /\ Limits \subseteq Nat /\ MaxLimit \in Nat \ {0}

VARIABLES
    task,       \* task[a]: the delivery of a
    wire,       \* wire[a]: how often a was posted, and whether its receiver took it
    stamps,     \* timestamps taken for log rows so far
    events,     \* alert_events
    ask         \* ask[r]: the history request of reader r

deliveryVars == <<task, wire, stamps, events, ask>>

TaskStages == {"new", "send", "pause", "log", "over"}
Task == [at : TaskStages, attempt : 0..Tries, delivered : BOOLEAN, stamp : Nat]
AlertEvent == [alert : Alerts, delivered : BOOLEAN, at : Nat]

NoAsk == [at |-> "idle"]
(* `due`: what is not read yet. `before` is history: the rows there were when *)
(* the request came.                                                         *)
Ask == [at : {"reading", "answered"}, due : SUBSET {"items", "total"},
        filter : Filter, limit : 1..MaxLimit, before : SUBSET AlertEvent,
        items : SUBSET AlertEvent, total : Nat]

-----------------------------------------------------------------------------
(* A delivery. *)

(* dispatch_spike logs how it ended, dispatch does not. *)
Logged(a) == a.kind = "spike"

Dispatch(a) ==
    /\ task[a].at = "new"
    /\ task' = [task EXCEPT ![a] = [@ EXCEPT !.at = "send", !.attempt = 1]]
    /\ UNCHANGED <<wire, stamps, events, ask>>

Posted(a, taken) ==
    wire' = [wire EXCEPT ![a] = [posted |-> @.posted + 1, taken |-> @.taken \/ taken]]

(* The task stamps the row it is about to insert. *)
Ended(a, delivered) ==
    IF Logged(a)
    THEN /\ task' = [task EXCEPT ![a] =
               [@ EXCEPT !.at = "log", !.delivered = delivered, !.stamp = stamps]]
         /\ stamps' = stamps + 1
    ELSE /\ task' = [task EXCEPT ![a] = [@ EXCEPT !.at = "over"]]
         /\ UNCHANGED stamps

(* Another attempt after the pause, unless this was the last. *)
AfterFailure(a) ==
    IF task[a].attempt < Tries
    THEN /\ task' = [task EXCEPT ![a] = [@ EXCEPT !.at = "pause"]]
         /\ UNCHANGED stamps
    ELSE Ended(a, FALSE)

(* A status of success. *)
Accept(a) ==
    /\ task[a].at = "send"
    /\ Posted(a, TRUE) /\ Ended(a, TRUE)
    /\ UNCHANGED <<events, ask>>

(* Faulty: any status counts as delivered. *)
RefuseAsDelivered(a) ==
    /\ task[a].at = "send"
    /\ Posted(a, FALSE) /\ Ended(a, TRUE)
    /\ UNCHANGED <<events, ask>>

(* Another status. *)
Refuse(a) ==
    /\ task[a].at = "send"
    /\ Posted(a, FALSE) /\ AfterFailure(a)
    /\ UNCHANGED <<events, ask>>

(* No answer within the timeout, whether the receiver took the alert or not.  *)
Unanswered(a) ==
    /\ task[a].at = "send"
    /\ \E taken \in BOOLEAN : Posted(a, taken)
    /\ AfterFailure(a)
    /\ UNCHANGED <<events, ask>>

PostAgain(a) ==
    /\ task[a].at = "pause"
    /\ task' = [task EXCEPT ![a] = [@ EXCEPT !.at = "send", !.attempt = task[a].attempt + 1]]
    /\ UNCHANGED <<wire, stamps, events, ask>>

RowOf(a) == [alert |-> a, delivered |-> task[a].delivered, at |-> task[a].stamp]

LogEvent(a) ==
    /\ task[a].at = "log"
    /\ events' = events \cup {RowOf(a)}
    /\ task' = [task EXCEPT ![a] = [@ EXCEPT !.at = "over"]]
    /\ UNCHANGED <<wire, stamps, ask>>

LogEventFails(a) ==
    /\ task[a].at = "log"
    /\ task' = [task EXCEPT ![a] = [@ EXCEPT !.at = "over"]]
    /\ UNCHANGED <<wire, stamps, events, ask>>

(* The retention, at any cutoff. *)
PruneAlerts ==
    /\ \E cutoff \in 1..stamps : events' = {e \in events : e.at >= cutoff}
    /\ UNCHANGED <<task, wire, stamps, ask>>

-----------------------------------------------------------------------------
(* The history. *)

(* The conditions of the two queries. *)
Matches(e, filter) ==
    /\ filter.severity \in {e.alert.severity, AnyValue}
    /\ filter.delivered \in {e.delivered, AnyValue}
    /\ filter.kind \in {e.alert.kind, AnyValue}

Matching(rows, filter) == {e \in rows : Matches(e, filter)}

(* Faulty: the oldest rows. *)
OldestFirst(rows, filter, limit) ==
    {page \in SUBSET Matching(rows, filter) :
        /\ page = Matching(rows, filter) \/ Cardinality(page) = limit
        /\ Cardinality(page) <= limit
        /\ \A e \in page, f \in Matching(rows, filter) \ page : e.at <= f.at}

(* ORDER BY triggered_at DESC LIMIT limit *)
NewestFirst(rows, filter, limit) ==
    {page \in SUBSET Matching(rows, filter) :
        /\ page = Matching(rows, filter) \/ Cardinality(page) = limit
        /\ Cardinality(page) <= limit
        /\ \A e \in page, f \in Matching(rows, filter) \ page : e.at >= f.at}

Clamped(limit) == IF limit < 1 THEN 1 ELSE IF limit > MaxLimit THEN MaxLimit ELSE limit

(* A request the validators take; the others are answered 400 and read nothing. *)
AskHistory(r) ==
    /\ ask[r].at # "reading"
    /\ \E filter \in Filters, limit \in Limits :
          ask' = [ask EXCEPT ![r] =
             [at |-> "reading", due |-> {"items", "total"}, filter |-> filter,
              limit |-> Clamped(limit), before |-> events, items |-> {}, total |-> 0]]
    /\ UNCHANGED <<task, wire, stamps, events>>

ReadItems(r) ==
    /\ ask[r].at = "reading" /\ "items" \in ask[r].due
    /\ \E page \in NewestFirst(events, ask[r].filter, ask[r].limit) :
          ask' = [ask EXCEPT ![r].items = page, ![r].due = @ \ {"items"}]
    /\ UNCHANGED <<task, wire, stamps, events>>

CountItems(r) ==
    /\ ask[r].at = "reading" /\ "total" \in ask[r].due
    /\ ask' = [ask EXCEPT ![r].total = Cardinality(Matching(events, ask[r].filter)),
                          ![r].due = @ \ {"total"}]
    /\ UNCHANGED <<task, wire, stamps, events>>

AnswerHistory(r) ==
    /\ ask[r].at = "reading" /\ ask[r].due = {}
    /\ ask' = [ask EXCEPT ![r].at = "answered"]
    /\ UNCHANGED <<task, wire, stamps, events>>

(* A query fails: the request ends with 500. *)
HistoryFails(r) ==
    /\ ask[r].at = "reading"
    /\ ask' = [ask EXCEPT ![r] = NoAsk]
    /\ UNCHANGED <<task, wire, stamps, events>>

DeliveriesInit ==
    /\ task = [a \in Alerts |-> [at |-> "new", attempt |-> 0, delivered |-> FALSE, stamp |-> 0]]
    /\ wire = [a \in Alerts |-> [posted |-> 0, taken |-> FALSE]]
    /\ stamps = 0
    /\ events = {}
    /\ ask = [r \in Readers |-> NoAsk]

DeliveryStep(a) ==
    \/ Dispatch(a) \/ Accept(a) \/ Refuse(a) \/ Unanswered(a) \/ PostAgain(a)
    \/ LogEvent(a) \/ LogEventFails(a)

HistoryStep(r) ==
    \/ AskHistory(r) \/ ReadItems(r) \/ CountItems(r) \/ AnswerHistory(r) \/ HistoryFails(r)

DeliveriesNext ==
    \/ \E a \in Alerts : DeliveryStep(a)
    \/ PruneAlerts
    \/ \E r \in Readers : HistoryStep(r)

(* The process dies: deliveries and requests under way are gone. *)
DeliveriesLost ==
    /\ task' = [a \in Alerts |->
          IF task[a].at \in {"send", "pause", "log"} THEN [task[a] EXCEPT !.at = "over"] ELSE task[a]]
    /\ ask' = [r \in Readers |-> NoAsk]
    /\ UNCHANGED <<wire, stamps, events>>

-----------------------------------------------------------------------------
(* Properties. *)

(* Type invariant; an alert is posted at most MAX_ATTEMPTS times. *)
DeliveriesTypeOK ==
    /\ task \in [Alerts -> Task]
    /\ wire \in [Alerts -> [posted : 0..Tries, taken : BOOLEAN]]
    /\ stamps \in Nat
    /\ events \subseteq AlertEvent
    /\ ask \in [Readers -> Ask \cup {NoAsk}]

(* A row says how the delivery of its alert ended.                            *)
Tells(e) ==
    /\ Logged(e.alert)
    /\ IF e.delivered THEN wire[e.alert].taken ELSE wire[e.alert].posted = Tries

(* The history tells the truth. Its rows are of distinct alerts; one said to  *)
(* be delivered was taken by its receiver, one said not to be was posted as   *)
(* often as send_with_retry tries. An answer, though its page and its total   *)
(* are read at different moments, has only matching rows, leaves no row out   *)
(* that was there throughout unless the page is full of newer ones, and never *)
(* counts fewer.                                                              *)
HistoryTells ==
    /\ \A e, f \in events : e.alert = f.alert => e = f
    /\ \A e \in events : Tells(e)
    /\ \A r \in Readers : ask[r].at = "answered" =>
          LET throughout == Matching(ask[r].before \cap events, ask[r].filter) IN
          /\ \A e \in ask[r].items : Tells(e) /\ Matches(e, ask[r].filter)
          /\ \A e \in throughout \ ask[r].items :
                Cardinality({f \in ask[r].items : f.at >= e.at}) >= ask[r].limit
          /\ Cardinality(throughout) <= ask[r].total
=============================================================================
