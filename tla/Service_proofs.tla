----------------------------- MODULE Service_proofs -----------------------------
(***************************************************************************)
(* Proofs about Service, for any number of handlers, rows, ledgers, panels *)
(* and overlapping refreshes. The parts share no variable: each has an     *)
(* inductive invariant of its own, and a step of another part leaves it.   *)
(***************************************************************************)
EXTENDS Service, FiniteSetTheorems, TLAPS

-----------------------------------------------------------------------------
(* The deliveries of alerts and their history. *)

(* Where a delivery is, its posts and its row agree. *)
TaskSound(a) ==
    /\ task[a].at = "send" => task[a].attempt \in 1..Tries /\ wire[a].posted = task[a].attempt - 1
    /\ task[a].at = "pause" => task[a].attempt < Tries /\ wire[a].posted = task[a].attempt
    /\ task[a].at = "log" =>
          /\ Logged(a)
          /\ IF task[a].delivered THEN wire[a].taken ELSE wire[a].posted = Tries
    /\ task[a].at = "new" => wire[a].posted = 0

Answered(e) == task[e.alert].at = "over" /\ Tells(e)

RowsSound ==
    /\ IsFiniteSet(events)
    /\ \A e \in events : Answered(e)
    /\ \A e, f \in events : e.alert = f.alert => e = f

(* What is still there of the rows there were when the request came. *)
Throughout(r) == Matching(ask[r].before \cap events, ask[r].filter)

AskSound(r) ==
    /\ IsFiniteSet(ask[r].before)
    /\ \A e \in ask[r].before : task[e.alert].at = "over"
    /\ "items" \notin ask[r].due =>
          /\ \A e \in ask[r].items : Answered(e) /\ Matches(e, ask[r].filter)
          /\ \A e \in Throughout(r) \ ask[r].items :
                Cardinality({f \in ask[r].items : f.at >= e.at}) >= ask[r].limit
    /\ "total" \notin ask[r].due => Cardinality(Throughout(r)) <= ask[r].total
    /\ ask[r].at = "answered" => ask[r].due = {}

AsksSound == \A r \in Readers : ask[r] # NoAsk => AskSound(r)

DeliveriesInv ==
    /\ DeliveriesTypeOK
    /\ \A a \in Alerts : TaskSound(a)
    /\ RowsSound
    /\ AsksSound

-----------------------------------------------------------------------------
LEMMA NoAskIsNone ==
    ASSUME NEW q \in Ask
    PROVE  q # NoAsk
<1>1. q.at \in {"reading", "answered"} /\ NoAsk.at = "idle"
  BY DEF Ask, NoAsk
<1> QED
  BY <1>1

LEMMA DeliveriesInitInv == DeliveriesInit => DeliveriesInv
<1> SUFFICES ASSUME DeliveriesInit PROVE DeliveriesInv
  OBVIOUS
<1>1. 0 \in 0..Tries
  BY DeliveriesAssumption
<1>2. DeliveriesTypeOK
  BY <1>1 DEF DeliveriesInit, DeliveriesTypeOK, Task, TaskStages
<1>3. RowsSound
  BY FS_EmptySet DEF DeliveriesInit, RowsSound
<1> QED
  BY <1>2, <1>3 DEF DeliveriesInit, DeliveriesInv, TaskSound, AsksSound

(* A matching subset has at most as many rows as what it is taken from. *)
LEMMA FewerMatch ==
    ASSUME NEW S, IsFiniteSet(S), NEW T \in SUBSET S, NEW filter
    PROVE  /\ IsFiniteSet(Matching(S, filter)) /\ IsFiniteSet(Matching(T, filter))
           /\ Cardinality(Matching(S, filter)) \in Nat
           /\ Cardinality(Matching(T, filter)) \in Nat
           /\ Cardinality(Matching(T, filter)) <= Cardinality(Matching(S, filter))
<1>1. Matching(S, filter) \subseteq S /\ Matching(T, filter) \subseteq Matching(S, filter)
  BY DEF Matching
<1>2. IsFiniteSet(Matching(S, filter))
  BY <1>1, FS_Subset
<1>3. IsFiniteSet(Matching(T, filter)) /\ Cardinality(Matching(T, filter)) <= Cardinality(Matching(S, filter))
  BY <1>1, <1>2, FS_Subset
<1> QED
  BY <1>2, <1>3, FS_CardinalityType

(* Requests stay sound while no row comes that one could have seen before, no *)
(* delivery that is over changes, and requests stay as they are.              *)
LEMMA AsksStay ==
    ASSUME DeliveriesInv, UNCHANGED ask, DeliveriesTypeOK',
           \A a \in Alerts : task[a].at = "over" => task'[a].at = "over" /\ wire'[a] = wire[a],
           \A e \in events' \ events : task[e.alert].at # "over"
    PROVE  AsksSound'
<1> SUFFICES ASSUME NEW r \in Readers, ask[r] # NoAsk PROVE AskSound(r)'
  BY DEF AsksSound
<1>1. AskSound(r) /\ ask[r] \in Ask
  BY DEF DeliveriesInv, AsksSound, DeliveriesTypeOK
<1>2. ask[r].before \subseteq AlertEvent /\ ask[r].items \subseteq AlertEvent
  BY <1>1 DEF Ask
<1>3. \A e \in AlertEvent : e.alert \in Alerts
  BY DEF AlertEvent
<1>4. \A e \in ask[r].before : task'[e.alert].at = "over"
  BY <1>1, <1>2, <1>3 DEF AskSound
<1>5. ask[r].before \cap events' \subseteq ask[r].before \cap events
  BY <1>1 DEF AskSound
<1>6. Throughout(r)' \subseteq Throughout(r)
  BY <1>5 DEF Throughout, Matching, Matches
<1>7. ASSUME NEW e \in AlertEvent, Answered(e) PROVE Answered(e)'
  BY <1>3, <1>7 DEF Answered, Tells, Logged
<1>8. ASSUME "total" \notin ask[r].due PROVE Cardinality(Throughout(r)') <= ask[r].total
  <2> DEFINE S == ask[r].before \cap events
             T == ask[r].before \cap events'
  <2>1. IsFiniteSet(S)
    <3>1. IsFiniteSet(ask[r].before) /\ S \subseteq ask[r].before
      BY <1>1 DEF AskSound
    <3> QED
      BY <3>1, FS_Subset
  <2>2. T \in SUBSET S
    BY <1>5
  <2>3. Throughout(r) = Matching(S, ask[r].filter) /\ Throughout(r)' = Matching(T, ask[r].filter)
    BY DEF Throughout, Matching, Matches
  <2>4. ask[r].total \in Nat /\ Cardinality(Throughout(r)) <= ask[r].total
    BY <1>1, <1>8 DEF Ask, AskSound
  <2> HIDE DEF S, T
  <2>5. /\ Cardinality(Matching(S, ask[r].filter)) \in Nat
        /\ Cardinality(Matching(T, ask[r].filter)) \in Nat
        /\ Cardinality(Matching(T, ask[r].filter)) <= Cardinality(Matching(S, ask[r].filter))
    BY <2>1, <2>2, FewerMatch
  <2> QED
    BY <2>3, <2>4, <2>5
<1>9. ASSUME "items" \notin ask[r].due
      PROVE  /\ \A e \in ask[r].items : Answered(e)' /\ Matches(e, ask[r].filter)
             /\ \A e \in Throughout(r)' \ ask[r].items :
                   Cardinality({f \in ask[r].items : f.at >= e.at}) >= ask[r].limit
  BY <1>1, <1>2, <1>6, <1>7, <1>9 DEF AskSound
<1> QED
  BY <1>1, <1>4, <1>8, <1>9 DEF AskSound, Matches

(* A task that is not over moves; rows and requests stay. *)
LEMMA TaskMoves ==
    ASSUME DeliveriesInv, NEW a \in Alerts, task[a].at # "over",
           DeliveriesTypeOK', UNCHANGED <<events, ask>>,
           \A b \in Alerts \ {a} : task'[b] = task[b] /\ wire'[b] = wire[b],
           TaskSound(a)'
    PROVE  DeliveriesInv'
<1>1. \A b \in Alerts : task[b].at = "over" => task'[b].at = "over" /\ wire'[b] = wire[b]
  OBVIOUS
<1>2. AsksSound'
  BY <1>1, AsksStay
<1>3. \A b \in Alerts : TaskSound(b)'
  <2> SUFFICES ASSUME NEW b \in Alerts \ {a} PROVE TaskSound(b)'
    OBVIOUS
  <2> QED
    BY DEF TaskSound, DeliveriesInv, Logged
<1>4. RowsSound'
  <2>1. \A e \in events : e.alert \in Alerts
    BY DEF DeliveriesInv, DeliveriesTypeOK, AlertEvent
  <2> QED
    BY <2>1, <1>1 DEF DeliveriesInv, RowsSound, Answered, Tells, Logged
<1> QED
  BY <1>2, <1>3, <1>4 DEF DeliveriesInv

(* A task takes a new value, with what it says of its post. *)
LEMMA TaskTypes ==
    ASSUME DeliveriesTypeOK, NEW a \in Alerts, NEW t \in Task,
           NEW w \in [posted : 0..Tries, taken : BOOLEAN],
           task' = [task EXCEPT ![a] = t], wire' = [wire EXCEPT ![a] = w],
           stamps' \in Nat, UNCHANGED <<events, ask>>
    PROVE  /\ DeliveriesTypeOK'
           /\ task'[a] = t /\ wire'[a] = w
           /\ \A b \in Alerts \ {a} : task'[b] = task[b] /\ wire'[b] = wire[b]
BY DEF DeliveriesTypeOK

LEMMA AttemptType ==
    ASSUME DeliveriesInv, NEW a \in Alerts
    PROVE  /\ task[a] \in Task /\ task[a].attempt \in 0..Tries /\ Tries \in Nat \ {0}
           /\ task[a].at \in TaskStages /\ task[a].delivered \in BOOLEAN /\ task[a].stamp \in Nat
           /\ wire[a] \in [posted : 0..Tries, taken : BOOLEAN]
           /\ wire[a].posted \in 0..Tries /\ wire[a].taken \in BOOLEAN
           /\ TaskSound(a) /\ stamps \in Nat
BY DeliveriesAssumption DEF DeliveriesInv, DeliveriesTypeOK, Task

LEMMA DispatchInv ==
    ASSUME DeliveriesInv, NEW a \in Alerts, Dispatch(a)
    PROVE  DeliveriesInv'
<1> DEFINE t == [task[a] EXCEPT !.at = "send", !.attempt = 1]
<1>0. /\ task[a] \in Task /\ Tries \in Nat \ {0} /\ TaskSound(a)
      /\ wire[a] \in [posted : 0..Tries, taken : BOOLEAN] /\ stamps \in Nat
  BY AttemptType
<1>1. t \in Task /\ t.at = "send" /\ t.attempt = 1
  <2>1. 1 \in 0..Tries /\ "send" \in TaskStages
    BY <1>0 DEF TaskStages
  <2> QED
    BY <1>0, <2>1, Zenon DEF Task
<1>2. /\ task[a].at = "new" /\ task' = [task EXCEPT ![a] = t] /\ wire' = [wire EXCEPT ![a] = wire[a]]
      /\ stamps' \in Nat /\ UNCHANGED <<events, ask>>
  BY <1>0 DEF Dispatch, DeliveriesInv, DeliveriesTypeOK
<1> HIDE DEF t
<1>3. /\ DeliveriesTypeOK' /\ task'[a] = t /\ wire'[a] = wire[a]
      /\ \A b \in Alerts \ {a} : task'[b] = task[b] /\ wire'[b] = wire[b]
  BY <1>0, <1>1, <1>2, TaskTypes DEF DeliveriesInv
<1>4. TaskSound(a)'
  BY <1>0, <1>1, <1>2, <1>3 DEF TaskSound
<1> QED
  BY <1>2, <1>3, <1>4, TaskMoves

LEMMA PostAgainInv ==
    ASSUME DeliveriesInv, NEW a \in Alerts, PostAgain(a)
    PROVE  DeliveriesInv'
<1> DEFINE t == [task[a] EXCEPT !.at = "send", !.attempt = task[a].attempt + 1]
<1>0. /\ task[a] \in Task /\ task[a].attempt \in 0..Tries /\ Tries \in Nat \ {0} /\ TaskSound(a)
      /\ wire[a] \in [posted : 0..Tries, taken : BOOLEAN] /\ wire[a].posted \in 0..Tries /\ stamps \in Nat
  BY AttemptType
<1>1. task[a].at = "pause" /\ task[a].attempt < Tries /\ wire[a].posted = task[a].attempt
  BY <1>0 DEF PostAgain, TaskSound
<1>2. task[a].attempt + 1 \in 1..Tries
  BY <1>0, <1>1
<1>3. t \in Task /\ t.at = "send" /\ t.attempt = task[a].attempt + 1
  <2>1. task[a].attempt + 1 \in 0..Tries /\ "send" \in TaskStages
    BY <1>0, <1>2 DEF TaskStages
  <2> QED
    BY <1>0, <2>1 DEF Task
<1>4. /\ task' = [task EXCEPT ![a] = t] /\ wire' = [wire EXCEPT ![a] = wire[a]]
      /\ stamps' \in Nat /\ UNCHANGED <<events, ask>>
  BY <1>0 DEF PostAgain, DeliveriesInv, DeliveriesTypeOK
<1> HIDE DEF t
<1>5. /\ DeliveriesTypeOK' /\ task'[a] = t /\ wire'[a] = wire[a]
      /\ \A b \in Alerts \ {a} : task'[b] = task[b] /\ wire'[b] = wire[b]
  BY <1>0, <1>3, <1>4, TaskTypes DEF DeliveriesInv
<1>6. TaskSound(a)'
  BY <1>0, <1>1, <1>2, <1>3, <1>5 DEF TaskSound
<1> QED
  BY <1>1, <1>4, <1>5, <1>6, TaskMoves

(* A post that ends its delivery, or is repeated after a pause. *)
LEMMA PostInv ==
    ASSUME DeliveriesInv, NEW a \in Alerts, task[a].at = "send", NEW taken \in BOOLEAN,
           Posted(a, taken), (taken /\ Ended(a, TRUE)) \/ AfterFailure(a),
           UNCHANGED <<events, ask>>
    PROVE  DeliveriesInv'
<1> DEFINE w == [posted |-> wire[a].posted + 1, taken |-> wire[a].taken \/ taken]
<1>0. /\ task[a] \in Task /\ task[a].attempt \in 0..Tries /\ Tries \in Nat \ {0} /\ TaskSound(a)
      /\ wire[a].posted \in 0..Tries /\ wire[a].taken \in BOOLEAN /\ stamps \in Nat
  BY AttemptType
<1>1. task[a].attempt \in 1..Tries /\ wire[a].posted = task[a].attempt - 1
  BY <1>0 DEF TaskSound
<1>2. w \in [posted : 0..Tries, taken : BOOLEAN] /\ w.posted = task[a].attempt
  <2>1. wire[a].posted + 1 = task[a].attempt /\ task[a].attempt \in 0..Tries
    BY <1>0, <1>1
  <2>2. (wire[a].taken \/ taken) \in BOOLEAN
    OBVIOUS
  <2>3. [posted |-> task[a].attempt, taken |-> (wire[a].taken \/ taken)] \in [posted : 0..Tries, taken : BOOLEAN]
    BY <2>1, <2>2
  <2> QED
    BY <2>1, <2>3
<1>3. wire' = [wire EXCEPT ![a] = w]
  BY DEF Posted
<1>4. taken => w.taken
  BY Zenon
<1> HIDE DEF w
<1>5. ASSUME NEW t \in Task, task' = [task EXCEPT ![a] = t], stamps' \in Nat,
             t.at \in {"pause", "log", "over"},
             t.at = "pause" => t.attempt = task[a].attempt /\ t.attempt < Tries,
             t.at = "log" => Logged(a) /\ (IF t.delivered THEN w.taken ELSE w.posted = Tries)
      PROVE  DeliveriesInv'
  <2>1. /\ DeliveriesTypeOK' /\ task'[a] = t /\ wire'[a] = w
        /\ \A b \in Alerts \ {a} : task'[b] = task[b] /\ wire'[b] = wire[b]
    BY <1>2, <1>3, <1>5, TaskTypes DEF DeliveriesInv
  <2>2. TaskSound(a)'
    BY <1>2, <1>5, <2>1 DEF TaskSound, Logged
  <2> QED
    BY <2>1, <2>2, TaskMoves
<1>6. ASSUME NEW delivered \in BOOLEAN, Ended(a, delivered),
             IF delivered THEN w.taken ELSE w.posted = Tries
      PROVE  DeliveriesInv'
  <2>1. CASE Logged(a)
    <3> DEFINE t == [task[a] EXCEPT !.at = "log", !.delivered = delivered, !.stamp = stamps]
    <3>1. t \in Task /\ t.at = "log" /\ t.delivered = delivered
      BY <1>0 DEF Task, TaskStages
    <3>2. task' = [task EXCEPT ![a] = t] /\ stamps' \in Nat
      BY <1>0, <1>6, <2>1 DEF Ended
    <3> HIDE DEF t
    <3> QED
      BY <3>1, <3>2, <2>1, <1>6, <1>5
  <2>2. CASE ~Logged(a)
    <3> DEFINE t == [task[a] EXCEPT !.at = "over"]
    <3>1. t \in Task /\ t.at = "over"
      BY <1>0 DEF Task, TaskStages
    <3>2. task' = [task EXCEPT ![a] = t] /\ stamps' \in Nat
      BY <1>0, <1>6, <2>2 DEF Ended
    <3> HIDE DEF t
    <3> QED
      BY <3>1, <3>2, <1>5
  <2> QED
    BY <2>1, <2>2
<1>7. CASE AfterFailure(a) /\ task[a].attempt < Tries
  <2> DEFINE t == [task[a] EXCEPT !.at = "pause"]
  <2>1. t \in Task /\ t.at = "pause" /\ t.attempt = task[a].attempt
    BY <1>0 DEF Task, TaskStages
  <2>2. task' = [task EXCEPT ![a] = t] /\ stamps' \in Nat
    BY <1>0, <1>7 DEF AfterFailure
  <2> HIDE DEF t
  <2> QED
    BY <2>1, <2>2, <1>7, <1>5
<1>8. CASE AfterFailure(a) /\ ~(task[a].attempt < Tries)
  <2>1. Ended(a, FALSE)
    BY <1>8 DEF AfterFailure
  <2>2. w.posted = Tries
    BY <1>0, <1>1, <1>2, <1>8
  <2> QED
    BY <2>1, <2>2, <1>6
<1>9. CASE taken /\ Ended(a, TRUE)
  BY <1>4, <1>6, <1>9
<1> QED
  BY <1>7, <1>8, <1>9

LEMMA LogEventInv ==
    ASSUME DeliveriesInv, NEW a \in Alerts, LogEvent(a) \/ LogEventFails(a)
    PROVE  DeliveriesInv'
<1> DEFINE t == [task[a] EXCEPT !.at = "over"]
<1>0. /\ task[a] \in Task /\ task[a].at = "log" /\ task[a].delivered \in BOOLEAN /\ task[a].stamp \in Nat
      /\ TaskSound(a) /\ stamps \in Nat
  BY AttemptType DEF LogEvent, LogEventFails
<1>1. t \in Task /\ t.at = "over"
  BY <1>0 DEF Task, TaskStages
<1>2. task' = [task EXCEPT ![a] = t] /\ UNCHANGED <<wire, stamps, ask>>
  BY DEF LogEvent, LogEventFails
<1> HIDE DEF t
<1>3. /\ task' \in [Alerts -> Task]
      /\ \A b \in Alerts : task'[b] = IF b = a THEN t ELSE task[b]
  BY <1>1, <1>2 DEF DeliveriesInv, DeliveriesTypeOK
<1>4. \A b \in Alerts : task[b].at = "over" => task'[b].at = "over" /\ wire'[b] = wire[b]
  BY <1>1, <1>2, <1>3
<1>5. \A b \in Alerts : TaskSound(b)'
  BY <1>1, <1>2, <1>3 DEF DeliveriesInv, TaskSound, Logged
<1>6. RowOf(a) \in AlertEvent /\ RowOf(a).alert = a /\ task'[a].at = "over"
  BY <1>0, <1>1, <1>3 DEF RowOf, AlertEvent
<1>7. \A e \in events : e.alert \in Alerts /\ e.alert # a /\ Answered(e)'
  <2>1. \A e \in events : e.alert \in Alerts /\ Answered(e)
    BY DEF DeliveriesInv, DeliveriesTypeOK, RowsSound, AlertEvent
  <2>2. \A e \in events : e.alert # a
    BY <2>1, <1>0 DEF Answered
  <2> QED
    BY <2>1, <2>2, <1>3, <1>2 DEF Answered, Tells, Logged
<1>8. events' = events \/ events' = events \cup {RowOf(a)}
  BY Zenon DEF LogEvent, LogEventFails
<1>9. DeliveriesTypeOK'
  BY <1>2, <1>3, <1>6, <1>8 DEF DeliveriesInv, DeliveriesTypeOK
<1>10. RowsSound'
  <2>1. IsFiniteSet(events')
    BY <1>8, FS_AddElement DEF DeliveriesInv, RowsSound
  <2>3. \A e \in events' : e \in events \/ e = RowOf(a)
    BY <1>8
  <2>4. ASSUME NEW e \in events' PROVE Answered(e)'
    <3>1. CASE e \in events
      BY <3>1, <1>7
    <3>2. CASE e = RowOf(a)
      <4> DEFINE row == RowOf(a)
      <4>1. row.alert = a /\ (task'[row.alert].at = "over")
        BY <1>6
      <4>2. row.delivered = task[a].delivered
        BY DEF RowOf
      <4>3. Logged(row.alert) /\ (IF row.delivered THEN wire[row.alert].taken ELSE wire[row.alert].posted = Tries)
        BY <1>0, <4>1, <4>2 DEF TaskSound
      <4> HIDE DEF row
      <4> QED
        BY <3>2, <4>1, <4>3, <1>2 DEF row, Answered, Tells, Logged
    <3> QED
      BY <3>1, <3>2, <2>3
  <2>5. \A e, f \in events' : e.alert = f.alert => e = f
    BY <2>3, <1>6, <1>7 DEF DeliveriesInv, RowsSound
  <2> QED
    BY <2>1, <2>4, <2>5 DEF RowsSound
<1>11. AsksSound'
  <2>1. \A e \in events' \ events : task[e.alert].at # "over"
    BY <1>0, <1>6, <1>8
  <2> QED
    BY <2>1, <1>2, <1>4, <1>9, AsksStay
<1> QED
  BY <1>5, <1>9, <1>10, <1>11 DEF DeliveriesInv

LEMMA PruneAlertsInv ==
    ASSUME DeliveriesInv, PruneAlerts
    PROVE  DeliveriesInv'
<1>1. events' \subseteq events /\ UNCHANGED <<task, wire, stamps, ask>>
  BY DEF PruneAlerts
<1>2. DeliveriesTypeOK'
  BY <1>1 DEF DeliveriesInv, DeliveriesTypeOK
<1>3. RowsSound'
  BY <1>1, FS_Subset DEF DeliveriesInv, RowsSound, Answered, Tells, Logged
<1>4. AsksSound'
  BY <1>1, <1>2, AsksStay
<1> QED
  BY <1>1, <1>2, <1>3, <1>4 DEF DeliveriesInv, TaskSound, Logged


-----------------------------------------------------------------------------
(* The history. *)

(* Only the request of one reader changes. *)
LEMMA AskMoves ==
    ASSUME DeliveriesInv, NEW r \in Readers, NEW q \in Ask \cup {NoAsk},
           ask' = [ask EXCEPT ![r] = q], UNCHANGED <<task, wire, stamps, events>>,
           q # NoAsk => AskSound(r)'
    PROVE  DeliveriesInv'
<1>1. /\ ask' \in [Readers -> Ask \cup {NoAsk}]
      /\ \A k \in Readers : ask'[k] = IF k = r THEN q ELSE ask[k]
  BY DEF DeliveriesInv, DeliveriesTypeOK
<1>2. ASSUME NEW k \in Readers, ask'[k] # NoAsk PROVE AskSound(k)'
  <2>1. CASE k = r
    BY <1>1, <1>2, <2>1
  <2>2. CASE k # r
    <3>1. ask'[k] = ask[k] /\ AskSound(k)
      BY <1>1, <1>2, <2>2 DEF DeliveriesInv, AsksSound
    <3> QED
      BY <3>1 DEF AskSound, Throughout, Matching, Matches, Answered, Tells, Logged
  <2> QED
    BY <2>1, <2>2
<1> QED
  BY <1>1, <1>2 DEF DeliveriesInv, DeliveriesTypeOK, AsksSound, RowsSound, TaskSound, Answered, Tells, Logged

LEMMA AskType ==
    ASSUME DeliveriesInv, NEW r \in Readers, ask[r].at = "reading"
    PROVE  /\ ask[r] \in Ask /\ AskSound(r)
           /\ ask[r].due \subseteq {"items", "total"} /\ ask[r].filter \in Filter
           /\ ask[r].limit \in 1..MaxLimit /\ ask[r].before \subseteq AlertEvent
           /\ ask[r].items \subseteq AlertEvent /\ ask[r].total \in Nat
<1>1. ask[r] # NoAsk
  BY DEF NoAsk
<1>2. ask[r] \in Ask /\ AskSound(r)
  BY <1>1 DEF DeliveriesInv, DeliveriesTypeOK, AsksSound
<1> QED
  BY <1>2 DEF Ask

LEMMA AskHistoryInv ==
    ASSUME DeliveriesInv, NEW r \in Readers, AskHistory(r)
    PROVE  DeliveriesInv'
<1> PICK filter \in Filters, limit \in Limits :
        ask' = [ask EXCEPT ![r] =
           [at |-> "reading", due |-> {"items", "total"}, filter |-> filter,
            limit |-> Clamped(limit), before |-> events, items |-> {}, total |-> 0]]
  BY DEF AskHistory
<1> DEFINE q == [at |-> "reading", due |-> {"items", "total"}, filter |-> filter,
                 limit |-> Clamped(limit), before |-> events, items |-> {}, total |-> 0]
<1>1. Clamped(limit) \in 1..MaxLimit
  BY DeliveriesAssumption DEF Clamped
<1>2. q \in Ask
  BY <1>1, DeliveriesAssumption DEF Ask, DeliveriesInv, DeliveriesTypeOK
<1>3. ask' = [ask EXCEPT ![r] = q] /\ UNCHANGED <<task, wire, stamps, events>>
  BY DEF AskHistory
<1>4. q.before = events /\ q.at = "reading" /\ q.due = {"items", "total"}
  OBVIOUS
<1> HIDE DEF q
<1>5. ask'[r] = q
  BY <1>3 DEF DeliveriesInv, DeliveriesTypeOK
<1>6. AskSound(r)'
  BY <1>3, <1>4, <1>5 DEF AskSound, DeliveriesInv, RowsSound, Answered
<1> QED
  BY <1>2, <1>3, <1>6, AskMoves

LEMMA ReadItemsInv ==
    ASSUME DeliveriesInv, NEW r \in Readers, ReadItems(r)
    PROVE  DeliveriesInv'
<1> PICK page \in NewestFirst(events, ask[r].filter, ask[r].limit) :
        ask' = [ask EXCEPT ![r].items = page, ![r].due = @ \ {"items"}]
  BY DEF ReadItems
<1> DEFINE q == [ask[r] EXCEPT !.items = page, !.due = ask[r].due \ {"items"}]
<1>0. /\ ask[r] \in Ask /\ AskSound(r) /\ ask[r].due \subseteq {"items", "total"}
      /\ ask[r].limit \in 1..MaxLimit /\ ask[r].at = "reading"
      /\ UNCHANGED <<task, wire, stamps, events>>
  BY AskType DEF ReadItems
<1>1. /\ page \subseteq Matching(events, ask[r].filter)
      /\ page = Matching(events, ask[r].filter) \/ Cardinality(page) = ask[r].limit
      /\ \A e \in page, f \in Matching(events, ask[r].filter) \ page : e.at >= f.at
  BY DEF NewestFirst
<1>2. page \subseteq events /\ events \subseteq AlertEvent
  BY <1>1 DEF Matching, DeliveriesInv, DeliveriesTypeOK
<1>3. /\ q \in Ask /\ q.items = page /\ q.due = ask[r].due \ {"items"} /\ q.at = "reading"
      /\ q.filter = ask[r].filter /\ q.limit = ask[r].limit /\ q.before = ask[r].before
      /\ q.total = ask[r].total
  BY <1>0, <1>2 DEF Ask
<1>4. ask' = [ask EXCEPT ![r] = q]
  BY DEF ReadItems, DeliveriesInv, DeliveriesTypeOK
<1> HIDE DEF q
<1>5. ask'[r] = q
  BY <1>4 DEF DeliveriesInv, DeliveriesTypeOK
<1>6. \A e \in page : Answered(e)' /\ Matches(e, ask[r].filter)
  BY <1>0, <1>1, <1>2 DEF DeliveriesInv, RowsSound, Matching, Answered, Tells, Logged
<1>7. ASSUME NEW e \in Throughout(r) \ page
      PROVE  Cardinality({f \in page : f.at >= e.at}) >= ask[r].limit
  <2>1. e \in Matching(events, ask[r].filter) \ page
    BY <1>7 DEF Throughout, Matching
  <2>2. Cardinality(page) = ask[r].limit
    BY <1>1, <2>1
  <2>3. {f \in page : f.at >= e.at} = page
    BY <1>1, <2>1
  <2>4. ask[r].limit \in Int
    BY <1>0, DeliveriesAssumption
  <2>5. Cardinality({f \in page : f.at >= e.at}) = ask[r].limit
    BY <2>2, <2>3
  <2> QED
    BY <2>4, <2>5
<1>8. Throughout(r)' = Throughout(r)
  <2>1. ask'[r].before = ask[r].before /\ ask'[r].filter = ask[r].filter /\ events' = events
    BY <1>0, <1>3, <1>5
  <2> QED
    BY <2>1, Zenon DEF Throughout, Matching
<1>9. AskSound(r)'
  <2>1. /\ q.items = page /\ q.limit = ask[r].limit /\ q.total = ask[r].total /\ q.before = ask[r].before
        /\ q.filter = ask[r].filter /\ q.at # "answered" /\ ("total" \notin q.due => "total" \notin ask[r].due)
    BY <1>3
  <2>2. IsFiniteSet(q.before) /\ \A e \in q.before : task'[e.alert].at = "over"
    BY <1>0, <2>1, Zenon DEF AskSound
  <2>3. \A e \in q.items : Answered(e)' /\ Matches(e, q.filter)
    BY <1>6, <2>1, Zenon
  <2>4. \A e \in Throughout(r)' \ q.items : Cardinality({f \in q.items : f.at >= e.at}) >= q.limit
    BY <1>7, <1>8, <2>1, Zenon
  <2>5. "total" \notin q.due => Cardinality(Throughout(r)') <= q.total
    BY <1>0, <1>8, <2>1, Zenon DEF AskSound
  <2> QED
    BY <1>5, <2>1, <2>2, <2>3, <2>4, <2>5, Zenon DEF AskSound
<1> QED
  BY <1>0, <1>3, <1>4, <1>9, AskMoves

LEMMA CountItemsInv ==
    ASSUME DeliveriesInv, NEW r \in Readers, CountItems(r)
    PROVE  DeliveriesInv'
<1> DEFINE n == Cardinality(Matching(events, ask[r].filter))
           q == [ask[r] EXCEPT !.total = n, !.due = ask[r].due \ {"total"}]
           S == ask[r].before \cap events
<1>0. /\ ask[r] \in Ask /\ AskSound(r) /\ ask[r].due \subseteq {"items", "total"} /\ ask[r].at = "reading"
      /\ UNCHANGED <<task, wire, stamps, events>>
  BY AskType DEF CountItems
<1>1. /\ n \in Nat /\ Cardinality(Matching(S, ask[r].filter)) <= n
  <2>1. IsFiniteSet(events) /\ S \in SUBSET events
    BY DEF DeliveriesInv, RowsSound
  <2> HIDE DEF S
  <2> QED
    BY <2>1, FewerMatch
<1>2. Cardinality(Throughout(r)) <= n
  BY <1>1 DEF Throughout
<1> HIDE DEF n
<1>3. /\ q \in Ask /\ q.items = ask[r].items /\ q.due = ask[r].due \ {"total"} /\ q.at = "reading"
      /\ q.filter = ask[r].filter /\ q.limit = ask[r].limit /\ q.before = ask[r].before
      /\ q.total = n
  BY <1>0, <1>1 DEF Ask
<1>4. ask' = [ask EXCEPT ![r] = q]
  BY DEF n, CountItems, DeliveriesInv, DeliveriesTypeOK
<1> HIDE DEF q
<1>5. ask'[r] = q
  BY <1>4 DEF DeliveriesInv, DeliveriesTypeOK
<1>6. Throughout(r)' = Throughout(r)
  <2>1. ask'[r].before = ask[r].before /\ ask'[r].filter = ask[r].filter /\ events' = events
    BY <1>0, <1>3, <1>5
  <2> QED
    BY <2>1, Zenon DEF Throughout, Matching
<1>7. AskSound(r)'
  BY <1>0, <1>2, <1>3, <1>5, <1>6 DEF AskSound, Matches, Answered, Tells, Logged
<1> QED
  BY <1>0, <1>3, <1>4, <1>7, AskMoves

(* The answer, or the end of a request that failed. *)
LEMMA AnswerInv ==
    ASSUME DeliveriesInv, NEW r \in Readers, AnswerHistory(r) \/ HistoryFails(r)
    PROVE  DeliveriesInv'
<1>0. /\ ask[r] \in Ask /\ AskSound(r)
      /\ UNCHANGED <<task, wire, stamps, events>>
  BY AskType DEF AnswerHistory, HistoryFails
<1>1. CASE HistoryFails(r)
  BY <1>0, <1>1, AskMoves DEF HistoryFails
<1>2. CASE AnswerHistory(r)
  <2> DEFINE q == [ask[r] EXCEPT !.at = "answered"]
  <2>1. /\ q \in Ask /\ q.items = ask[r].items /\ q.due = ask[r].due /\ q.at = "answered"
        /\ q.filter = ask[r].filter /\ q.limit = ask[r].limit /\ q.before = ask[r].before
        /\ q.total = ask[r].total
    BY <1>0 DEF Ask
  <2>2. ask' = [ask EXCEPT ![r] = q] /\ ask[r].due = {}
    BY <1>2 DEF AnswerHistory, DeliveriesInv, DeliveriesTypeOK
  <2> HIDE DEF q
  <2>3. ask'[r] = q
    BY <2>2 DEF DeliveriesInv, DeliveriesTypeOK
  <2>4. Throughout(r)' = Throughout(r)
    BY <1>0, <2>1, <2>3 DEF Throughout, Matching, Matches
  <2>5. AskSound(r)'
    BY <1>0, <2>1, <2>2, <2>3, <2>4 DEF AskSound, Matches, Answered, Tells, Logged
  <2> QED
    BY <1>0, <2>1, <2>2, <2>5, AskMoves
<1> QED
  BY <1>1, <1>2

LEMMA DeliveriesNextInv == DeliveriesInv /\ [DeliveriesNext]_deliveryVars => DeliveriesInv'
<1> SUFFICES ASSUME DeliveriesInv, [DeliveriesNext]_deliveryVars PROVE DeliveriesInv'
  OBVIOUS
<1>1. ASSUME NEW a \in Alerts, Accept(a) \/ Refuse(a) \/ Unanswered(a) PROVE DeliveriesInv'
  <2>1. PICK taken \in BOOLEAN :
           Posted(a, taken) /\ ((taken /\ Ended(a, TRUE)) \/ AfterFailure(a))
    BY <1>1, Zenon DEF Accept, Refuse, Unanswered
  <2>2. task[a].at = "send" /\ UNCHANGED <<events, ask>>
    BY <1>1 DEF Accept, Refuse, Unanswered
  <2> QED
    BY <2>1, <2>2, PostInv
<1>2. ASSUME NEW a \in Alerts, DeliveryStep(a) PROVE DeliveriesInv'
  BY <1>1, <1>2, DispatchInv, PostAgainInv, LogEventInv DEF DeliveryStep
<1>3. ASSUME NEW r \in Readers, HistoryStep(r) PROVE DeliveriesInv'
  BY <1>3, AskHistoryInv, ReadItemsInv, CountItemsInv, AnswerInv DEF HistoryStep
<1>4. CASE UNCHANGED deliveryVars
  <2>1. UNCHANGED <<task, wire, stamps, events, ask>>
    BY <1>4 DEF deliveryVars
  <2>2. DeliveriesTypeOK'
    BY <2>1 DEF DeliveriesInv, DeliveriesTypeOK
  <2>3. AsksSound'
    BY <2>1, <2>2, AsksStay
  <2>4. RowsSound'
    BY <2>1 DEF DeliveriesInv, RowsSound, Answered, Tells, Logged
  <2>5. \A a \in Alerts : TaskSound(a)'
    BY <2>1 DEF DeliveriesInv, TaskSound, Logged
  <2> QED
    BY <2>2, <2>3, <2>4, <2>5 DEF DeliveriesInv
<1> QED
  BY <1>2, <1>3, <1>4, PruneAlertsInv DEF DeliveriesNext

LEMMA DeliveriesLostInv == DeliveriesInv /\ DeliveriesLost => DeliveriesInv'
<1> SUFFICES ASSUME DeliveriesInv, DeliveriesLost PROVE DeliveriesInv'
  OBVIOUS
<1>1. /\ UNCHANGED <<wire, stamps, events>> /\ \A r \in Readers : ask'[r] = NoAsk
      /\ ask' \in [Readers -> Ask \cup {NoAsk}]
  BY DEF DeliveriesLost
<1>2. ASSUME NEW a \in Alerts
      PROVE  /\ task'[a] \in Task
             /\ task'[a] = task[a] \/ task'[a].at = "over"
             /\ task[a].at = "over" => task'[a].at = "over"
  <2>1. task[a] \in Task
    BY AttemptType
  <2>2. [task[a] EXCEPT !.at = "over"] \in Task /\ [task[a] EXCEPT !.at = "over"].at = "over"
    BY <2>1 DEF Task, TaskStages
  <2>3. task'[a] = IF task[a].at \in {"send", "pause", "log"} THEN [task[a] EXCEPT !.at = "over"] ELSE task[a]
    BY DEF DeliveriesLost
  <2> QED
    BY <2>1, <2>2, <2>3
<1>3. task' \in [Alerts -> Task]
  <2>1. task' = [a \in Alerts |-> task'[a]]
    BY DEF DeliveriesLost
  <2> QED
    BY <2>1, <1>2
<1>4. DeliveriesTypeOK'
  BY <1>1, <1>3 DEF DeliveriesInv, DeliveriesTypeOK
<1>5. \A a \in Alerts : TaskSound(a)'
  BY <1>1, <1>2 DEF DeliveriesInv, TaskSound, Logged
<1>6. RowsSound'
  <2>1. \A e \in events : e.alert \in Alerts
    BY DEF DeliveriesInv, DeliveriesTypeOK, AlertEvent
  <2> QED
    BY <2>1, <1>1, <1>2 DEF DeliveriesInv, RowsSound, Answered, Tells, Logged
<1> QED
  BY <1>1, <1>4, <1>5, <1>6 DEF DeliveriesInv, AsksSound

(* The history tells the truth whenever what is above holds. *)
LEMMA InvTells == DeliveriesInv => HistoryTells
<1> SUFFICES ASSUME DeliveriesInv PROVE HistoryTells
  OBVIOUS
<1>1. ASSUME NEW r \in Readers, ask[r].at = "answered"
      PROVE  AskSound(r) /\ ask[r].due = {}
  <2>1. ask[r] # NoAsk
    BY <1>1 DEF NoAsk
  <2> QED
    BY <2>1, <1>1 DEF DeliveriesInv, AsksSound, AskSound
<1> QED
  BY <1>1 DEF DeliveriesInv, RowsSound, Answered, HistoryTells, AskSound, Throughout


-----------------------------------------------------------------------------
(* The alert configurations. *)

(* What is about to be written is the merge of the body with the row read. *)
ConfigsInv ==
    /\ ConfigsTypeOK
    /\ \A h \in Handlers : patch[h] # NoPatch => patch[h].merged = Merged(patch[h].body, patch[h].read)

LEMMA AcceptedIsRow ==
    ASSUME NEW body \in Fields, NEW row \in Row, Accepted(Merged(body, row))
    PROVE  Merged(body, row) \in Row
<1>1. Or(body.enabled, row.enabled) \in BOOLEAN
  BY DEF Or, Fields, Row
<1> QED
  BY <1>1 DEF Accepted, Merged, Row

LEMMA RowReplaced ==
    ASSUME NEW seq \in Seq(Row), NEW id \in DOMAIN seq, NEW row \in Row
    PROVE  /\ [seq EXCEPT ![id] = row] \in Seq(Row)
           /\ DOMAIN [seq EXCEPT ![id] = row] = DOMAIN seq
OBVIOUS

LEMMA ConfigsInitInv == ConfigsInit => ConfigsInv
<1>1. <<>> \in Seq(Row)
  OBVIOUS
<1> QED
  BY <1>1 DEF ConfigsInit, ConfigsInv, ConfigsTypeOK, Statuses

(* A handler without a pending PATCH that answers. *)
LEMMA CreateInv ==
    ASSUME ConfigsInv, NEW h \in Handlers, Create(h) \/ RefuseNew(h) \/ List(h)
    PROVE  ConfigsInv'
<1>1. CASE Create(h)
  <2> PICK body \in Bodies : Accepted(NewRow(body)) /\ configs' = Append(configs, NewRow(body))
    BY <1>1 DEF Create, Inserted
  <2> DEFINE row == NewRow(body)
  <2>1. row \in Row
    BY DEF NewRow, Accepted, Row
  <2>2. configs' = Append(configs, row) /\ answer' = "201" /\ patch' = patch
    BY <1>1 DEF Create
  <2> HIDE DEF row
  <2>3. configs' \in Seq(Row) /\ DOMAIN configs \subseteq DOMAIN configs'
    BY <2>1, <2>2 DEF ConfigsInv, ConfigsTypeOK
  <2> QED
    BY <2>2, <2>3 DEF ConfigsInv, ConfigsTypeOK, Statuses
<1>2. CASE RefuseNew(h) \/ List(h)
  BY <1>2 DEF RefuseNew, List, ConfigsInv, ConfigsTypeOK, Statuses
<1> QED
  BY <1>1, <1>2

LEMMA DeleteInv ==
    ASSUME ConfigsInv, NEW h \in Handlers, Delete(h)
    PROVE  ConfigsInv'
<1>0. configs \in Seq(Row) /\ patch' = patch
  BY DEF ConfigsInv, ConfigsTypeOK, Delete
<1>1. ASSUME NEW id \in DOMAIN configs, answer' = "204",
             configs' = [configs EXCEPT ![id].enabled = FALSE]
      PROVE  ConfigsInv'
  <2> DEFINE row == [configs[id] EXCEPT !.enabled = FALSE]
  <2>1. configs[id] \in Row
    BY <1>0, <1>1
  <2>2. row \in Row
    BY <2>1 DEF Row
  <2>3. configs' = [configs EXCEPT ![id] = row] /\ answer' = "204"
    BY <1>1
  <2> HIDE DEF row
  <2>4. configs' \in Seq(Row) /\ DOMAIN configs' = DOMAIN configs
    BY <1>0, <2>2, <2>3, RowReplaced
  <2> QED
    BY <1>0, <2>3, <2>4 DEF ConfigsInv, ConfigsTypeOK, Statuses
<1>2. CASE configs' = configs /\ answer' = "404"
  BY <1>0, <1>2 DEF ConfigsInv, ConfigsTypeOK, Statuses
<1> QED
  BY <1>1, <1>2 DEF Delete, Disabled

LEMMA ReadForPatchInv ==
    ASSUME ConfigsInv, NEW h \in Handlers, ReadForPatch(h)
    PROVE  ConfigsInv'
<1>0. configs \in Seq(Row) /\ configs' = configs /\ patch \in [Handlers -> Patch \cup {NoPatch}]
  BY DEF ConfigsInv, ConfigsTypeOK, ReadForPatch
<1>1. CASE answer' \in {"404", "400"} /\ patch' = patch
  BY <1>0, <1>1 DEF ConfigsInv, ConfigsTypeOK, Statuses
<1>2. ASSUME NEW id \in DOMAIN configs, NEW body \in Bodies,
             Accepted(Merged(body, configs[id])), answer' = answer,
             patch' = [patch EXCEPT ![h] =
                [id |-> id, body |-> body, read |-> configs[id],
                 merged |-> Merged(body, configs[id])]]
      PROVE  ConfigsInv'
  <2> DEFINE new == [id |-> id, body |-> body, read |-> configs[id],
                     merged |-> Merged(body, configs[id])]
  <2>1. configs[id] \in Row /\ body \in Fields /\ id \in Nat \ {0}
    BY <1>0, <1>2, AlertConfigsAssumption
  <2>2. Merged(body, configs[id]) \in Row
    BY <1>2, <2>1, AcceptedIsRow
  <2>3. new \in Patch
    BY <2>1, <2>2 DEF Patch
  <2>4. new.id \in DOMAIN configs /\ new.merged = Merged(new.body, new.read)
    BY <1>2
  <2>5. patch' = [patch EXCEPT ![h] = new]
    BY <1>2
  <2> HIDE DEF new
  <2>6. \A k \in Handlers : patch'[k] = IF k = h THEN new ELSE patch[k]
    BY <2>5, <1>0
  <2>7. patch' \in [Handlers -> Patch \cup {NoPatch}]
    BY <2>3, <2>5, <1>0
  <2> QED
    BY <1>0, <1>2, <2>4, <2>6, <2>7 DEF ConfigsInv, ConfigsTypeOK
<1> QED
  BY <1>1, <1>2 DEF ReadForPatch

(* The write of a PATCH, and the end of a request that failed. *)
LEMMA DoneInv ==
    ASSUME ConfigsInv, NEW h \in Handlers, WritePatch(h) \/ Failed(h)
    PROVE  ConfigsInv'
<1>0. configs \in Seq(Row) /\ patch \in [Handlers -> Patch \cup {NoPatch}]
  BY DEF ConfigsInv, ConfigsTypeOK
<1>1. patch' = [patch EXCEPT ![h] = NoPatch]
  BY DEF WritePatch, Failed
<1>2. patch' \in [Handlers -> Patch \cup {NoPatch}]
      /\ \A k \in Handlers : patch'[k] = IF k = h THEN NoPatch ELSE patch[k]
  BY <1>0, <1>1
<1>3. configs' \in Seq(Row) /\ DOMAIN configs' = DOMAIN configs /\ answer' \in Statuses
  <2>1. CASE Failed(h)
    BY <1>0, <2>1 DEF Failed, Statuses
  <2>2. CASE WritePatch(h)
    <3>1. patch[h] \in Patch
      BY <2>2, <1>0 DEF WritePatch
    <3>2. patch[h].merged \in Row
      BY <3>1 DEF Patch
    <3>3. configs' = [configs EXCEPT ![patch[h].id] = patch[h].merged] /\ answer' = "204"
      BY <2>2 DEF WritePatch
    <3>4. patch[h].id \in DOMAIN configs
      BY <2>2 DEF WritePatch, ConfigsInv, ConfigsTypeOK
    <3>5. configs' \in Seq(Row) /\ DOMAIN configs' = DOMAIN configs
      BY <1>0, <3>2, <3>3, <3>4, RowReplaced
    <3> QED
      BY <3>3, <3>5 DEF Statuses
  <2> QED
    BY <2>1, <2>2
<1> QED
  BY <1>2, <1>3 DEF ConfigsInv, ConfigsTypeOK

LEMMA ConfigsNextInv == ConfigsInv /\ [ConfigsNext]_configVars => ConfigsInv'
<1> SUFFICES ASSUME ConfigsInv, [ConfigsNext]_configVars PROVE ConfigsInv'
  OBVIOUS
<1>1. ASSUME NEW h \in Handlers, TurnedAway(h) PROVE ConfigsInv'
  BY <1>1 DEF TurnedAway, Verdict, Keys, ConfigsInv, ConfigsTypeOK, Statuses
<1>2. CASE UNCHANGED configVars
  BY <1>2 DEF ConfigsInv, ConfigsTypeOK, configVars
<1> QED
  BY <1>1, <1>2, CreateInv, DeleteInv, ReadForPatchInv, DoneInv DEF ConfigsNext, ConfigsStep

LEMMA ConfigsLostInv == ConfigsInv /\ ConfigsLost => ConfigsInv'
  BY DEF ConfigsLost, ConfigsInv, ConfigsTypeOK, Statuses

(* A PATCH that is done has written its merge: who else could end it answers  *)
(* something else.                                                            *)
LEMMA PatchStep ==
    ASSUME ConfigsInv, [ConfigsNext]_configVars \/ ConfigsLost,
           NEW h \in Handlers, patch[h] # NoPatch, patch'[h] = NoPatch, answer' = "204"
    PROVE  WritePatch(h)
<1>0. patch \in [Handlers -> Patch \cup {NoPatch}]
  BY DEF ConfigsInv, ConfigsTypeOK
<1>1. ASSUME NEW k \in Handlers, patch' = patch PROVE FALSE
  BY <1>1
<1>2. ASSUME NEW k \in Handlers, ReadForPatch(k) PROVE FALSE
  <2>1. CASE patch' = patch
    BY <2>1
  <2>2. ASSUME NEW id \in DOMAIN configs, NEW body \in Bodies,
               patch' = [patch EXCEPT ![k] =
                  [id |-> id, body |-> body, read |-> configs[id],
                   merged |-> Merged(body, configs[id])]]
        PROVE  FALSE
    <3> DEFINE new == [id |-> id, body |-> body, read |-> configs[id],
                       merged |-> Merged(body, configs[id])]
    <3>1. new.id # 0 /\ NoPatch.id = 0
      BY DEF NoPatch, ConfigsInv, ConfigsTypeOK
    <3> QED
      BY <2>2, <3>1, <1>0
  <2> QED
    BY <1>2, <2>1, <2>2 DEF ReadForPatch
<1>3. ASSUME NEW k \in Handlers, WritePatch(k) PROVE k = h
  <2>1. patch' = [patch EXCEPT ![k] = NoPatch]
    BY <1>3 DEF WritePatch
  <2> QED
    BY <2>1, <1>0
<1>4. ASSUME NEW k \in Handlers, Failed(k) PROVE FALSE
  BY <1>4 DEF Failed
<1>5. ASSUME ConfigsLost PROVE FALSE
  BY <1>5 DEF ConfigsLost
<1>6. ASSUME NEW k \in Handlers, TurnedAway(k) \/ Create(k) \/ RefuseNew(k) \/ List(k) \/ Delete(k) PROVE patch' = patch
  BY <1>6 DEF TurnedAway, Create, RefuseNew, List, Delete
<1> QED
  BY <1>1, <1>2, <1>3, <1>4, <1>5, <1>6 DEF ConfigsNext, ConfigsStep, configVars

(* What it wrote is what its body says, over what it read.                    *)
LEMMA PatchWrites ==
    ASSUME ConfigsInv, NEW h \in Handlers, WritePatch(h)
    PROVE  LET id == patch[h].id IN
           /\ DOMAIN configs' = DOMAIN configs
           /\ \A other \in DOMAIN configs \ {id} : configs'[other] = configs[other]
           /\ Taken(h, configs'[id])
           /\ Kept(h, patch[h].read, configs'[id])
           /\ configs[id] = patch[h].read => Kept(h, configs[id], configs'[id])
<1>1. configs \in Seq(Row) /\ patch[h] # NoPatch /\ patch[h].id \in DOMAIN configs
  BY DEF ConfigsInv, ConfigsTypeOK, WritePatch
<1>2. patch[h].merged = Merged(patch[h].body, patch[h].read)
  BY <1>1 DEF ConfigsInv
<1>3. configs' = [configs EXCEPT ![patch[h].id] = patch[h].merged]
  BY DEF WritePatch
<1>4. configs'[patch[h].id] = Merged(patch[h].body, patch[h].read)
  BY <1>1, <1>2, <1>3
<1>5. Taken(h, configs'[patch[h].id]) /\ Kept(h, patch[h].read, configs'[patch[h].id])
  BY <1>4 DEF Taken, Kept, Merged, Or
<1> QED
  BY <1>1, <1>3, <1>5

-----------------------------------------------------------------------------
(* The fee statistics. *)

(* Only an attempt that is left is slept on. *)
StatsInv ==
    /\ StatsTypeOK
    /\ loop.at = "asleep" => loop.attempt < MaxAttempts
    /\ RowsLatest
    /\ \A l \in Ledgers : latest[l] # NoRow => latest[l].ledger = l

LEMMA StatsInitInv == StatsInit => StatsInv
  BY FeeStatsAssumption DEF StatsInit, StatsInv, StatsTypeOK, RowsLatest, Waiting, Stages

LEMMA StampOfRow ==
    ASSUME StatsTypeOK, NEW l \in Ledgers
    PROVE  /\ table[l].at \in Int /\ latest[l].at \in Int
           /\ table[l] # NoRow => table[l] \in Snapshot
           /\ latest[l] # NoRow => latest[l] \in Snapshot
<1>1. NoRow.at \in Int /\ \A row \in Snapshot : row.at \in Int
  BY DEF NoRow, Snapshot
<1> QED
  BY <1>1 DEF StatsTypeOK

LEMMA WriteInv ==
    ASSUME StatsInv, Write
    PROVE  StatsInv'
<1> DEFINE new == loop.holds
<1>1. new \in Snapshot /\ new.ledger \in Ledgers
  BY DEF StatsInv, StatsTypeOK, Write, Snapshot
<1>2. /\ table' = [table EXCEPT ![new.ledger] = new]
      /\ latest' = [latest EXCEPT ![new.ledger] = new]
      /\ loop' = [loop EXCEPT !.at = "prune"] /\ now' = now
  BY DEF Write
<1>3. StatsTypeOK'
  BY <1>1, <1>2 DEF StatsInv, StatsTypeOK, Stages
<1>4. \A l \in Ledgers : /\ table'[l] = IF l = new.ledger THEN new ELSE table[l]
                         /\ latest'[l] = IF l = new.ledger THEN new ELSE latest[l]
  BY <1>2 DEF StatsInv, StatsTypeOK
<1> HIDE DEF new
<1> QED
  BY <1>1, <1>2, <1>3, <1>4 DEF StatsInv, RowsLatest

LEMMA PruneInv ==
    ASSUME StatsInv, Prune
    PROVE  StatsInv'
<1>1. /\ \A l \in Ledgers : table'[l] = IF table[l].at < now - Retention THEN NoRow ELSE table[l]
      /\ table' \in [Ledgers -> Snapshot \cup {NoRow}]
  BY DEF Prune, StatsInv, StatsTypeOK
<1>2. loop' = Waiting /\ UNCHANGED <<now, latest>>
  BY DEF Prune
<1>3. StatsTypeOK'
  BY <1>1, <1>2, FeeStatsAssumption DEF StatsInv, StatsTypeOK, Waiting, Stages
<1>4. ASSUME NEW l \in Ledgers
      PROVE  /\ table'[l] # NoRow => table'[l] = latest[l] /\ table'[l].ledger = l
             /\ (latest[l] # NoRow /\ latest[l].at >= now - Retention) => table'[l] = latest[l]
  <2>1. table[l].at \in Int /\ latest[l].at \in Int /\ now \in Int /\ Retention \in Int
    BY StampOfRow, FeeStatsAssumption DEF StatsInv, StatsTypeOK
  <2>2. CASE table[l].at < now - Retention
    BY <2>1, <2>2, <1>1, SMT DEF StatsInv, RowsLatest
  <2>3. CASE ~(table[l].at < now - Retention)
    BY <2>3, <1>1 DEF StatsInv, RowsLatest
  <2> QED
    BY <2>2, <2>3
<1> QED
  BY <1>2, <1>3, <1>4 DEF StatsInv, RowsLatest, Waiting

LEMMA StatsNextInv == StatsInv /\ [StatsNext]_statsVars => StatsInv'
<1> SUFFICES ASSUME StatsInv, [StatsNext]_statsVars PROVE StatsInv'
  OBVIOUS
<1>a. loop \in [at : Stages, attempt : 0..MaxAttempts, holds : Snapshot \cup {NoRow}]
  BY DEF StatsInv, StatsTypeOK
<1>b. NoRow \in Snapshot \cup {NoRow} /\ 0 \in 0..MaxAttempts
  BY FeeStatsAssumption
<1>1. ASSUME UNCHANGED <<now, table, latest>>,
             loop' \in [at : Stages, attempt : 0..MaxAttempts, holds : Snapshot \cup {NoRow}],
             loop'.at = "write" => loop'.holds \in Snapshot,
             loop'.at = "asleep" => loop'.attempt < MaxAttempts
      PROVE  StatsInv'
  BY <1>1 DEF StatsInv, StatsTypeOK, RowsLatest
<1>2. CASE StartPoll \/ Interrupt \/ Unreachable \/ WriteFails
  <2>1. /\ loop' \in [at : Stages, attempt : 0..MaxAttempts, holds : Snapshot \cup {NoRow}]
        /\ loop'.at = "asleep" => loop'.attempt < MaxAttempts
        /\ loop'.at # "write" /\ UNCHANGED <<now, table, latest>>
    BY <1>2, <1>a DEF StartPoll, Interrupt, Unreachable, WriteFails, Stages
  <2> QED
    BY <2>1, <1>1
<1>3. CASE Garbled \/ GiveUp \/ PruneFails
  <2>1. /\ loop' = Waiting /\ UNCHANGED <<now, table, latest>>
    BY <1>3 DEF Garbled, GiveUp, PruneFails
  <2> QED
    BY <2>1, <1>1, <1>b DEF Waiting, Stages
<1>4. CASE Fetch
  <2> PICK response \in FeeStatsResponse :
          loop' = [loop EXCEPT !.at = "write", !.holds = Captured(response)]
    BY <1>4 DEF Fetch
  <2> DEFINE new == Captured(response)
  <2>1. new \in Snapshot
    BY DEF Snapshot, Captured, FeeStatsResponse, StatsInv, StatsTypeOK
  <2>2. UNCHANGED <<now, table, latest>> /\ loop' = [loop EXCEPT !.at = "write", !.holds = new]
    BY <1>4 DEF Fetch
  <2> HIDE DEF new
  <2>3. /\ loop' \in [at : Stages, attempt : 0..MaxAttempts, holds : Snapshot \cup {NoRow}]
        /\ loop'.at = "write" /\ loop'.holds = new
    BY <2>1, <2>2, <1>a DEF Stages
  <2> QED
    BY <2>1, <2>2, <2>3, <1>1
<1>5. CASE Retry
  <2>1. loop.attempt \in 0..MaxAttempts /\ loop.attempt < MaxAttempts
    BY <1>5, <1>a DEF Retry, StatsInv
  <2>2. loop.attempt + 1 \in 0..MaxAttempts
    BY <2>1, FeeStatsAssumption, SMT
  <2>3. loop' = [loop EXCEPT !.at = "fetch", !.attempt = loop.attempt + 1]
        /\ UNCHANGED <<now, table, latest>>
    BY <1>5 DEF Retry
  <2>4. /\ loop' \in [at : Stages, attempt : 0..MaxAttempts, holds : Snapshot \cup {NoRow}]
        /\ loop'.at = "fetch"
    BY <2>2, <2>3, <1>a DEF Stages
  <2> QED
    BY <2>3, <2>4, <1>1
<1>6. CASE StatsTick
  BY <1>6, StampOfRow, FeeStatsAssumption DEF StatsTick, StatsInv, StatsTypeOK, RowsLatest
<1>7. CASE UNCHANGED statsVars
  BY <1>7 DEF statsVars, StatsInv, StatsTypeOK, RowsLatest
<1> QED
  BY <1>2, <1>3, <1>4, <1>5, <1>6, <1>7, WriteInv, PruneInv DEF StatsNext

LEMMA StatsLostInv == StatsInv /\ StatsLost => StatsInv'
  BY FeeStatsAssumption DEF StatsLost, StatsInv, StatsTypeOK, RowsLatest, Waiting, Stages

(* A reader of the snapshots within the retention gets the last written ones. *)
LEMMA InvReads == StatsInv => SnapshotsLatest
<1> SUFFICES ASSUME StatsInv, NEW since \in 0..now, since >= now - Retention
             PROVE  \A l \in Ledgers : /\ table[l].at >= since <=> latest[l].at >= since
                                       /\ table[l].at >= since => table[l] = latest[l]
  BY DEF StatsInv, SnapshotsLatest, SnapshotsSince
<1> TAKE l \in Ledgers
<1>1. now \in Nat /\ since \in Nat /\ Retention \in Nat
  BY FeeStatsAssumption DEF StatsInv, StatsTypeOK
<1>2. /\ table[l] = NoRow \/ (table[l] \in Snapshot /\ table[l] = latest[l])
      /\ latest[l] = NoRow \/ latest[l] \in Snapshot
  BY DEF StatsInv, StatsTypeOK, RowsLatest
<1>3. NoRow.at = -1 /\ ~(-1 >= since)
  BY <1>1, SMT DEF NoRow
<1>4. ASSUME latest[l] # NoRow, latest[l].at >= since PROVE table[l] = latest[l]
  <2>1. latest[l].at \in Nat
    BY <1>2, <1>4 DEF Snapshot
  <2>2. latest[l].at >= now - Retention
    BY <2>1, <1>1, <1>4, SMT
  <2> QED
    BY <2>2, <1>4 DEF StatsInv, RowsLatest
<1> QED
  BY <1>2, <1>3, <1>4

-----------------------------------------------------------------------------
(* The dashboard. *)

(* A refresh that is alone so far captured what is still shown and asked for  *)
(* the window that is still chosen; what it got is no older than what is      *)
(* shown.                                                                     *)
Alone(s) ==
    /\ InFlight = {s}
    /\ flight[s].data = shown
    /\ flight[s].window = window
    /\ \A p \in Panels : flight[s].got[p] \in Answer =>
          /\ flight[s].got[p].version >= shown[p].version
          /\ flight[s].got[p].window = Asked(p, window)

(* Answers were true at a time that has passed. *)
Past(s) == \A p \in Panels :
    /\ flight[s].got[p] \in Answer => flight[s].got[p].version <= version
    /\ flight[s].data[p] # Null => flight[s].data[p].version <= version

DashboardInv ==
    /\ DashboardTypeOK
    /\ \A s \in InFlight : Past(s) /\ (~flight[s].overlapped => Alone(s))

(* The markers are told apart from what they stand in for by their fields. *)
LEMMA NoAnswer ==
    ASSUME NEW a \in Answer
    PROVE  a # Null /\ a # Pending /\ a # Rejected
<1>1. DOMAIN a = {"window", "version"}
  BY DEF Answer
<1>2. DOMAIN Null = {"version"} /\ DOMAIN Pending = {"version"} /\ DOMAIN Rejected = {"version"}
  BY DEF Null, Pending, Rejected
<1> QED
  BY <1>1, <1>2

LEMMA SomeFlight ==
    ASSUME NEW f \in Flight
    PROVE  f # NoFlight
<1>1. DOMAIN f = {"window", "data", "got", "overlapped"}
  BY DEF Flight
<1>2. DOMAIN NoFlight = {"window"}
  BY DEF NoFlight
<1> QED
  BY <1>1, <1>2

LEMMA DashboardInitInv == DashboardInit => DashboardInv
<1> SUFFICES ASSUME DashboardInit PROVE DashboardInv
  OBVIOUS
<1>1. InFlight = {}
  BY DEF DashboardInit, InFlight
<1>2. [window |-> FirstWindow, version |-> 0] \in Answer
  BY DashboardAssumption DEF Answer
<1> DEFINE first == [window |-> FirstWindow, version |-> 0]
<1>3. shown \in [Panels -> {Null, first}] /\ version = 0
  BY DEF DashboardInit
<1>4. shown \in Display
  BY <1>2, <1>3 DEF Display
<1>5. \A p \in Panels : shown[p] # Null => shown[p].version <= version
  <2>1. first.version <= version
    BY <1>3
  <2> QED
    BY <1>3, <2>1
<1>6. flight \in [Slots -> Flight \cup {NoFlight}]
  BY DEF DashboardInit
<1>7. DashboardTypeOK
  <2>1. 0 \in 0..MaxVersion
    BY DashboardAssumption
  <2>2. version \in 0..MaxVersion
    BY <2>1, <1>3
  <2>3. window \in Windows /\ isRefreshing \in BOOLEAN
    BY DashboardAssumption, Zenon DEF DashboardInit
  <2> QED
    BY <2>2, <2>3, <1>4, <1>5, <1>6 DEF DashboardTypeOK
<1> QED
  BY <1>1, <1>7 DEF DashboardInv

(* What is in flight is a refresh. *)
LEMMA InFlightType ==
    ASSUME DashboardTypeOK, NEW s \in InFlight
    PROVE  /\ s \in Slots /\ flight[s] \in Flight
           /\ flight[s].data \in Display
           /\ flight[s].got \in [Panels -> Answer \cup {Pending, Rejected}]
<1>1. s \in Slots /\ flight[s] \in Flight
  BY DEF InFlight, DashboardTypeOK
<1> QED
  BY <1>1 DEF Flight

(* A refresh begins: alone, or it and all others are marked. *)
LEMMA RefreshInv ==
    ASSUME DashboardInv, NEW win \in Windows, Refresh(win), window' = win,
           UNCHANGED <<version, shown>>
    PROVE  DashboardInv'
<1> PICK s \in Slots :
        /\ flight[s] = NoFlight
        /\ flight' = [t \in Slots |->
              IF t = s
              THEN [window |-> win, data |-> shown, got |-> [p \in Panels |-> Pending],
                    overlapped |-> InFlight # {}]
              ELSE IF t \in InFlight THEN [flight[t] EXCEPT !.overlapped = TRUE]
              ELSE flight[t]]
  BY DEF Refresh
<1> DEFINE new == [window |-> win, data |-> shown, got |-> [p \in Panels |-> Pending],
                   overlapped |-> InFlight # {}]
<1>0. DashboardTypeOK /\ shown \in Display
  BY DEF DashboardInv, DashboardTypeOK
<1>a. [p \in Panels |-> Pending] \in [Panels -> Answer \cup {Pending, Rejected}]
  OBVIOUS
<1>b. (InFlight # {}) \in BOOLEAN
  OBVIOUS
<1>1. new \in Flight /\ new.window = win /\ new.data = shown /\ new.overlapped = (InFlight # {})
      /\ new.got = [p \in Panels |-> Pending]
  BY <1>0, <1>a, <1>b DEF Flight
<1>2. \A t \in Slots : flight'[t] = IF t = s THEN new
                                   ELSE IF t \in InFlight THEN [flight[t] EXCEPT !.overlapped = TRUE]
                                   ELSE flight[t]
  OBVIOUS
<1> HIDE DEF new
<1>3. ASSUME NEW t \in InFlight
      PROVE  /\ t \in Slots /\ t # s /\ flight'[t] \in Flight /\ flight'[t].overlapped
             /\ flight'[t].got = flight[t].got /\ flight'[t].data = flight[t].data
  <2>1. t \in Slots /\ t # s /\ flight[t] \in Flight
    BY <1>0, InFlightType DEF InFlight
  <2>2. flight'[t] = [flight[t] EXCEPT !.overlapped = TRUE]
    BY <2>1, <1>2
  <2> QED
    BY <2>1, <2>2 DEF Flight
<1>4. InFlight' = InFlight \cup {s}
  <2>1. \A t \in Slots : t \in InFlight' <=> t \in InFlight \cup {s}
    BY <1>1, <1>2, <1>3, SomeFlight DEF InFlight
  <2> QED
    BY <2>1 DEF InFlight
<1>5. DashboardTypeOK'
  <2>1. isRefreshing' = TRUE
    BY DEF Refresh
  <2>2. flight' \in [Slots -> Flight \cup {NoFlight}]
    BY <1>0, <1>1, <1>2, <1>3 DEF DashboardTypeOK
  <2> QED
    BY <2>1, <2>2 DEF DashboardInv, DashboardTypeOK
<1>6. \A t \in InFlight : Past(t)' /\ flight'[t].overlapped
  BY <1>3 DEF DashboardInv, Past
<1>7. Past(s)' /\ (~flight'[s].overlapped => Alone(s)')
  <2>1. flight'[s] = new
    BY <1>2
  <2>2. \A p \in Panels : flight'[s].got[p] \notin Answer
    BY <2>1, <1>1, NoAnswer
  <2>3. \A p \in Panels : shown[p] # Null => shown[p].version <= version
    BY <1>0 DEF DashboardTypeOK
  <2>4. ~flight'[s].overlapped => InFlight' = {s}
    BY <2>1, <1>1, <1>4
  <2> QED
    BY <2>1, <2>2, <2>3, <2>4, <1>1 DEF Past, Alone
<1> QED
  BY <1>4, <1>5, <1>6, <1>7 DEF DashboardInv

(* Who is in flight stays so while requests are answered. *)
LEMMA RespondKeeps ==
    ASSUME DashboardTypeOK, NEW s \in Slots, Respond(s)
    PROVE  InFlight' = InFlight
<1> PICK p \in Panels :
        /\ flight[s].got[p] = Pending
        /\ \E result \in {Rejected, [window |-> Asked(p, flight[s].window), version |-> version]} :
              flight' = [flight EXCEPT ![s].got[p] = result]
  BY DEF Respond
<1> PICK result \in {Rejected, [window |-> Asked(p, flight[s].window), version |-> version]} :
        flight' = [flight EXCEPT ![s].got[p] = result]
  OBVIOUS
<1> DEFINE f == [flight[s] EXCEPT !.got[p] = result]
<1>1. s \in InFlight /\ flight[s] \in Flight /\ flight \in [Slots -> Flight \cup {NoFlight}]
  BY InFlightType DEF Respond, DashboardTypeOK
<1>2. DOMAIN f = {"window", "data", "got", "overlapped"}
  BY <1>1 DEF Flight
<1>3. f # NoFlight
  BY <1>2 DEF NoFlight
<1>4. flight' = [flight EXCEPT ![s] = f]
  OBVIOUS
<1> HIDE DEF f
<1>5. \A t \in Slots : flight'[t] # NoFlight <=> flight[t] # NoFlight
  BY <1>1, <1>3, <1>4 DEF InFlight
<1> QED
  BY <1>5 DEF InFlight

(* A request is answered, or fails. *)
LEMMA RespondInv ==
    ASSUME DashboardInv, NEW s \in Slots, Respond(s)
    PROVE  DashboardInv'
<1> PICK p \in Panels :
        /\ flight[s].got[p] = Pending
        /\ \E result \in {Rejected, [window |-> Asked(p, flight[s].window), version |-> version]} :
              flight' = [flight EXCEPT ![s].got[p] = result]
  BY DEF Respond
<1> PICK result \in {Rejected, [window |-> Asked(p, flight[s].window), version |-> version]} :
        flight' = [flight EXCEPT ![s].got[p] = result]
  OBVIOUS
<1> DEFINE f == [flight[s] EXCEPT !.got[p] = result]
<1>0. /\ DashboardTypeOK /\ s \in InFlight /\ flight[s] \in Flight
      /\ flight[s].data \in Display /\ flight[s].got \in [Panels -> Answer \cup {Pending, Rejected}]
      /\ UNCHANGED <<version, shown, window, isRefreshing>>
  BY InFlightType DEF DashboardInv, Respond
<1>1. Asked(p, flight[s].window) \in Windows /\ version \in Nat
  BY <1>0, DashboardAssumption DEF Asked, Flight, DashboardTypeOK
<1>2. result \in Answer \cup {Rejected}
  BY <1>0, <1>1 DEF Answer, DashboardTypeOK
<1>3. result \in Answer =>
        result.window = Asked(p, flight[s].window) /\ result.version = version
  BY NoAnswer
<1>4. [flight[s].got EXCEPT ![p] = result] \in [Panels -> Answer \cup {Pending, Rejected}]
  BY <1>0, <1>2
<1>5. /\ f \in Flight /\ f.data = flight[s].data /\ f.window = flight[s].window
      /\ f.overlapped = flight[s].overlapped
      /\ f.got = [flight[s].got EXCEPT ![p] = result]
  BY <1>0, <1>4 DEF Flight
<1>6. \A q \in Panels : f.got[q] = IF q = p THEN result ELSE flight[s].got[q]
  BY <1>0, <1>5
<1>7. flight' = [flight EXCEPT ![s] = f]
  OBVIOUS
<1> HIDE DEF f
<1>8. \A t \in Slots : flight'[t] = IF t = s THEN f ELSE flight[t]
  BY <1>0, <1>7 DEF DashboardTypeOK
<1>9. InFlight' = InFlight
  BY <1>0, RespondKeeps
<1>10. DashboardTypeOK'
  <2>1. flight' \in [Slots -> Flight \cup {NoFlight}]
    BY <1>0, <1>5, <1>7 DEF DashboardTypeOK
  <2> QED
    BY <1>0, <2>1 DEF DashboardTypeOK
<1>11. ASSUME NEW t \in InFlight, t # s PROVE Past(t)' /\ (~flight'[t].overlapped => Alone(t)')
  <2>1. flight'[t] = flight[t]
    BY <1>8, <1>11 DEF InFlight
  <2>2. Past(t) /\ (~flight[t].overlapped => Alone(t))
    BY <1>11, Zenon DEF DashboardInv
  <2>3. Past(t)'
    BY <1>0, <2>1, <2>2, Zenon DEF Past
  <2>4. ASSUME ~flight'[t].overlapped PROVE Alone(t)'
    BY <1>0, <1>9, <2>1, <2>2, <2>4, Zenon DEF Alone
  <2> QED
    BY <2>3, <2>4
<1>12. Past(s)'
  <2>1. Past(s) /\ flight'[s] = f
    BY <1>0, <1>8 DEF DashboardInv
  <2>2. \A q \in Panels : f.got[q] \in Answer => f.got[q].version <= version
    BY <2>1, <1>1, <1>3, <1>6 DEF Past
  <2> QED
    BY <2>1, <2>2, <1>0, <1>5 DEF Past
<1>13. ASSUME ~flight'[s].overlapped PROVE Alone(s)'
  <2>1. flight'[s] = f /\ Alone(s)
    BY <1>0, <1>5, <1>8, <1>13 DEF DashboardInv
  <2>2. shown[p].version <= version
    <3>1. Null.version = 0
      BY DEF Null
    <3> QED
      BY <3>1, <1>0, <1>1 DEF DashboardTypeOK
  <2>3. \A q \in Panels : f.got[q] \in Answer =>
          f.got[q].version >= shown[q].version /\ f.got[q].window = Asked(q, window)
    <3>1. result \in Answer => result.version >= shown[p].version /\ result.window = Asked(p, window)
      BY <2>1, <2>2, <1>1, <1>3 DEF Alone
    <3> QED
      BY <3>1, <2>1, <1>6 DEF Alone
  <2> QED
    BY <2>1, <2>3, <1>0, <1>5, <1>9 DEF Alone
<1> QED
  BY <1>9, <1>10, <1>11, <1>12, <1>13 DEF DashboardInv

(* A refresh is over: the display takes its answers and what it captured. *)
LEMMA SettleInv ==
    ASSUME DashboardInv, NEW s \in Slots, Settle(s)
    PROVE  DashboardInv'
<1>0. /\ DashboardTypeOK /\ s \in InFlight /\ Past(s)
      /\ flight[s].data \in Display /\ flight[s].got \in [Panels -> Answer \cup {Pending, Rejected}]
      /\ UNCHANGED <<version, window>> /\ isRefreshing' = FALSE
  BY InFlightType DEF DashboardInv, Settle
<1>1. \A p \in Panels : shown'[p] = IF flight[s].got[p] = Rejected THEN flight[s].data[p] ELSE flight[s].got[p]
  BY DEF Settle, Settled
<1>2. \A p \in Panels : flight[s].got[p] \in Answer \/ flight[s].got[p] = Rejected
  BY <1>0 DEF Settle
<1>3. shown' \in Display
  <2>1. shown' = [p \in Panels |-> IF flight[s].got[p] = Rejected THEN flight[s].data[p] ELSE flight[s].got[p]]
    BY DEF Settle, Settled
  <2> QED
    BY <2>1, <1>0, <1>2 DEF Display
<1>4. \A p \in Panels : shown'[p] # Null => shown'[p].version <= version
  BY <1>0, <1>1, <1>2 DEF Past
<1>5. flight' = [flight EXCEPT ![s] = NoFlight]
  BY DEF Settle
<1>6. DashboardTypeOK'
  <2>1. flight' \in [Slots -> Flight \cup {NoFlight}] /\ version' \in 0..MaxVersion /\ window' \in Windows
    BY <1>0, <1>5 DEF DashboardTypeOK
  <2>2. isRefreshing' \in BOOLEAN
    BY <1>0
  <2> QED
    BY <2>1, <2>2, <1>0, <1>3, <1>4 DEF DashboardTypeOK
<1>7. \A t \in Slots : flight'[t] = IF t = s THEN NoFlight ELSE flight[t]
  BY <1>0, <1>5 DEF DashboardTypeOK
<1>8. InFlight' = InFlight \ {s}
  <2>1. \A t \in Slots : t \in InFlight' <=> t \in InFlight \ {s}
    BY <1>7 DEF InFlight
  <2> QED
    BY <2>1 DEF InFlight
<1>9. ASSUME NEW t \in InFlight' PROVE Past(t)' /\ flight'[t].overlapped
  <2>1. t \in InFlight /\ t # s /\ flight'[t] = flight[t]
    BY <1>7, <1>8 DEF InFlight
  <2>2. flight[t].overlapped
    BY <2>1, <1>0 DEF DashboardInv, Alone
  <2> QED
    BY <2>1, <2>2, <1>0 DEF DashboardInv, Past
<1> QED
  BY <1>6, <1>9 DEF DashboardInv

(* Every request of every refresh is refused. *)
LEMMA RefusedInv ==
    ASSUME DashboardInv, Refused
    PROVE  DashboardInv'
<1>0. DashboardTypeOK /\ UNCHANGED <<version, shown, window, isRefreshing>>
  BY DEF DashboardInv, Refused
<1> DEFINE f(s) == [flight[s] EXCEPT !.got =
                      [p \in Panels |-> IF flight[s].got[p] = Pending THEN Rejected ELSE flight[s].got[p]]]
<1>1. ASSUME NEW s \in InFlight
      PROVE  /\ s \in Slots /\ flight'[s] \in Flight
             /\ flight'[s].data = flight[s].data /\ flight'[s].window = flight[s].window
             /\ flight'[s].overlapped = flight[s].overlapped
             /\ \A p \in Panels : flight'[s].got[p] \in Answer => flight'[s].got[p] = flight[s].got[p]
  <2>1. /\ s \in Slots /\ flight[s] \in Flight
        /\ flight[s].got \in [Panels -> Answer \cup {Pending, Rejected}]
    BY <1>0, InFlightType
  <2>2. flight'[s] = f(s)
    BY <2>1 DEF Refused
  <2>3. [p \in Panels |-> IF flight[s].got[p] = Pending THEN Rejected ELSE flight[s].got[p]]
          \in [Panels -> Answer \cup {Pending, Rejected}]
    BY <2>1
  <2>4. f(s) \in Flight
    BY <2>1, <2>3 DEF Flight
  <2>5. \A p \in Panels : f(s).got[p] = IF flight[s].got[p] = Pending THEN Rejected ELSE flight[s].got[p]
    BY <2>1 DEF Flight
  <2>6. f(s).data = flight[s].data /\ f(s).window = flight[s].window /\ f(s).overlapped = flight[s].overlapped
    BY <2>1 DEF Flight
  <2> HIDE DEF f
  <2> QED
    BY <2>1, <2>2, <2>4, <2>5, <2>6, NoAnswer
<1> HIDE DEF f
<1>2. \A s \in Slots \ InFlight : flight'[s] = NoFlight
  BY DEF Refused
<1>3. InFlight' = InFlight
  <2>1. \A s \in Slots : flight'[s] # NoFlight <=> s \in InFlight
    BY <1>1, <1>2, SomeFlight
  <2> QED
    BY <2>1 DEF InFlight
<1>4. DashboardTypeOK'
  <2>1. flight' = [s \in Slots |-> flight'[s]]
    BY DEF Refused
  <2>2. \A s \in Slots : flight'[s] \in Flight \cup {NoFlight}
    BY <1>1, <1>2
  <2>3. flight' \in [Slots -> Flight \cup {NoFlight}]
    BY <2>1, <2>2
  <2> QED
    BY <2>3, <1>0 DEF DashboardTypeOK
<1>5. ASSUME NEW s \in InFlight PROVE Past(s)' /\ (~flight'[s].overlapped => Alone(s)')
  BY <1>0, <1>1, <1>3 DEF DashboardInv, Past, Alone
<1> QED
  BY <1>3, <1>4, <1>5 DEF DashboardInv

LEMMA AdvanceInv ==
    ASSUME DashboardInv, Advance
    PROVE  DashboardInv'
<1>1. version' = version + 1 /\ version < MaxVersion /\ UNCHANGED <<shown, window, isRefreshing, flight>>
  BY DEF Advance
<1>2. DashboardTypeOK /\ version \in Nat /\ MaxVersion \in Nat
  BY DashboardAssumption DEF DashboardInv, DashboardTypeOK
<1>3. \A p \in Panels : shown[p] # Null => shown[p].version \in Nat
  BY <1>2 DEF DashboardTypeOK, Display, Answer
<1>4. DashboardTypeOK'
  BY <1>1, <1>2, <1>3 DEF DashboardTypeOK
<1>5. InFlight' = InFlight
  BY <1>1 DEF InFlight
<1>6. ASSUME NEW s \in InFlight PROVE Past(s)' /\ (~flight'[s].overlapped => Alone(s)')
  <2>1. flight[s].data \in Display
    BY <1>2, InFlightType
  <2>2. \A p \in Panels : flight[s].data[p] # Null => flight[s].data[p].version \in Nat
    BY <2>1 DEF Display, Answer
  <2>3. \A a \in Answer : a.version \in Nat
    BY DEF Answer
  <2> QED
    BY <2>2, <2>3, <1>1, <1>2, <1>5 DEF DashboardInv, Past, Alone
<1> QED
  BY <1>4, <1>5, <1>6 DEF DashboardInv

LEMMA DashboardNextInv == DashboardInv /\ [DashboardNext]_dashboardVars => DashboardInv'
<1> SUFFICES ASSUME DashboardInv, [DashboardNext]_dashboardVars PROVE DashboardInv'
  OBVIOUS
<1>1. CASE AutoPoll \/ PressRefresh
  <2>1. window \in Windows /\ Refresh(window) /\ UNCHANGED <<version, shown, window>>
    BY <1>1 DEF AutoPoll, PressRefresh, DashboardInv, DashboardTypeOK
  <2> QED
    BY <2>1, RefreshInv
<1>2. CASE ChangeWindow
  <2> PICK w \in Windows : window' = w /\ Refresh(w)
    BY <1>2 DEF ChangeWindow
  <2> QED
    BY <1>2, RefreshInv DEF ChangeWindow
<1>3. CASE UNCHANGED dashboardVars
  <2>1. InFlight' = InFlight
    BY <1>3 DEF InFlight, dashboardVars
  <2> QED
    BY <2>1, <1>3 DEF dashboardVars, DashboardInv, DashboardTypeOK, Past, Alone
<1> QED
  BY <1>1, <1>2, <1>3, AdvanceInv, RespondInv, SettleInv DEF DashboardNext

(* Only its own end takes a refresh out of the air. *)
LEMMA SettleStep ==
    ASSUME DashboardInv, [DashboardNext]_dashboardVars \/ Refused,
           NEW s \in InFlight, flight'[s] = NoFlight
    PROVE  Settle(s)
<1>0. DashboardTypeOK /\ s \in Slots /\ flight[s] \in Flight /\ flight[s] # NoFlight
  BY InFlightType, SomeFlight DEF DashboardInv
<1>1. ASSUME NEW win, Refresh(win) PROVE FALSE
  <2> PICK t \in Slots :
        /\ flight[t] = NoFlight
        /\ flight' = [u \in Slots |->
              IF u = t
              THEN [window |-> win, data |-> shown, got |-> [p \in Panels |-> Pending],
                    overlapped |-> InFlight # {}]
              ELSE IF u \in InFlight THEN [flight[u] EXCEPT !.overlapped = TRUE]
              ELSE flight[u]]
    BY <1>1 DEF Refresh
  <2>1. flight'[s] = [flight[s] EXCEPT !.overlapped = TRUE]
    BY <1>0
  <2>2. flight'[s] \in Flight
    BY <2>1, <1>0 DEF Flight
  <2> QED
    BY <2>2, SomeFlight
<1>2. ASSUME NEW t \in Slots, Respond(t) PROVE FALSE
  <2>1. s \in InFlight'
    BY <1>0, <1>2, RespondKeeps
  <2> QED
    BY <2>1 DEF InFlight
<1>3. ASSUME NEW t \in Slots, Settle(t) PROVE t = s
  <2>1. flight' = [flight EXCEPT ![t] = NoFlight]
    BY <1>3 DEF Settle
  <2> QED
    BY <2>1, <1>0 DEF DashboardTypeOK
<1>4. ASSUME Refused PROVE FALSE
  <2> DEFINE got == [p \in Panels |-> IF flight[s].got[p] = Pending THEN Rejected ELSE flight[s].got[p]]
  <2>1. flight'[s] = [flight[s] EXCEPT !.got = got]
    BY <1>0, <1>4 DEF Refused
  <2>2. DOMAIN flight'[s] = DOMAIN flight[s]
    BY <2>1, <1>0 DEF Flight
  <2>3. DOMAIN flight[s] # DOMAIN NoFlight
    BY <1>0 DEF Flight, NoFlight
  <2> QED
    BY <2>2, <2>3
<1>5. ASSUME Advance \/ UNCHANGED dashboardVars PROVE FALSE
  BY <1>0, <1>5 DEF Advance, dashboardVars
<1> QED
  BY <1>1, <1>2, <1>3, <1>4, <1>5 DEF DashboardNext, AutoPoll, PressRefresh, ChangeWindow

(* What the end of a refresh that was alone does to the display.              *)
LEMMA SettleImproves ==
    ASSUME DashboardInv, NEW s \in InFlight, Settle(s), ~flight[s].overlapped
    PROVE  \A p \in Panels :
             \/ shown'[p] = shown[p]
             \/ /\ shown'[p] # Null
                /\ shown[p] # Null => shown'[p].version >= shown[p].version
                /\ shown'[p].window = Asked(p, window)
<1>1. Alone(s) /\ flight[s].got \in [Panels -> Answer \cup {Pending, Rejected}]
  BY InFlightType DEF DashboardInv
<1>2. \A p \in Panels : shown'[p] = IF flight[s].got[p] = Rejected THEN shown[p] ELSE flight[s].got[p]
  BY <1>1 DEF Settle, Settled, Alone
<1>3. \A p \in Panels : flight[s].got[p] \in Answer \/ flight[s].got[p] = Rejected
  BY <1>1 DEF Settle
<1> QED
  BY <1>1, <1>2, <1>3, NoAnswer DEF Alone

-----------------------------------------------------------------------------
(* The form. *)

FormInv ==
    /\ FormTypeOK /\ FormTells
    /\ loading => unanswered = {asked} /\ error = FALSE
    /\ ~loading => unanswered = {}
    /\ recommended \in {asked, Nothing} \/ recommended.number < asked.number

LEMMA FormInitInv == FormInit => FormInv
BY FormAssumption DEF FormInit, FormInv, FormTypeOK, FormTells, Loaded, Nothing

(* Zero, the number of no request, and the numbers of the others.             *)
LEMMA Numbered ==
    /\ Nothing.number = 0
    /\ \A r \in Request : r.number \in Nat /\ r.number > 0
BY DEF Nothing, Request

LEMMA AskInv ==
    ASSUME FormInv, GetRecommendation
    PROVE  FormInv'
<1> DEFINE new == [number |-> asked.number + 1, confidence |-> confidence, demand |-> demand]
<1>1. /\ asked' = new /\ unanswered' = unanswered \cup {new} /\ ~loading
      /\ loading' = TRUE /\ error' = FALSE
      /\ UNCHANGED <<stored, confidence, demand, recommended>>
  BY DEF GetRecommendation, Submit
<1>2. asked.number \in Nat /\ recommended.number \in Nat
  BY Numbered DEF FormInv, FormTypeOK
<1>3. new \in Request /\ new.number = asked.number + 1
  BY <1>2 DEF FormInv, FormTypeOK, Request
<1> HIDE DEF new
<1>4. unanswered' = {new}
  BY <1>1 DEF FormInv
<1>5. recommended.number <= asked.number
  BY <1>2, Numbered DEF FormInv
<1>6. recommended.number < new.number
  BY <1>2, <1>3, <1>5
<1> QED
  BY <1>1, <1>3, <1>4, <1>6 DEF FormInv, FormTypeOK, FormTells, Loaded

LEMMA ResolvedInv ==
    ASSUME FormInv, Resolved
    PROVE  FormInv'
<1> PICK r \in unanswered :
        /\ unanswered' = unanswered \ {r}
        /\ \/ recommended' = r /\ error' = error
           \/ error' = TRUE /\ recommended' = recommended
  BY DEF Resolved
<1>0. loading' = FALSE /\ UNCHANGED <<stored, confidence, demand, asked>>
  BY DEF Resolved
<1>1. loading /\ unanswered = {asked} /\ asked \in Request
  <2>1. unanswered # {}
    OBVIOUS
  <2>2. loading
    BY <2>1, Zenon DEF FormInv
  <2>3. unanswered = {asked}
    BY <2>2, Zenon DEF FormInv
  <2> QED
    BY <2>2, <2>3 DEF FormInv, FormTypeOK
<1>2. /\ unanswered' = {}
      /\ \/ recommended' = asked /\ error' = error
         \/ error' = TRUE /\ recommended' = recommended
  <2>1. unanswered = {asked} /\ r = asked
    BY <1>1
  <2> QED
    BY <2>1
<1>3. recommended.number < asked.number
  BY <1>1 DEF FormInv, FormTells
<1>4. error = FALSE
  BY <1>1 DEF FormInv
<1> QED
  BY <1>0, <1>1, <1>2, <1>3, <1>4 DEF FormInv, FormTypeOK, FormTells, Loaded

LEMMA ClearInv ==
    ASSUME FormInv, Clear
    PROVE  FormInv'
<1>1. loading => asked \in Request
  BY DEF FormInv, FormTypeOK
<1>2. recommended' = Nothing /\ error' = FALSE
      /\ UNCHANGED <<stored, confidence, demand, loading, unanswered, asked>>
  BY DEF Clear
<1>3. loading' => recommended'.number < asked'.number
  BY <1>1, <1>2, Numbered
<1> QED
  BY <1>2, <1>3 DEF FormInv, FormTypeOK, FormTells, Loaded

LEMMA FormNextInv == FormInv /\ [FormNext]_formVars => FormInv'
<1> SUFFICES ASSUME FormInv, [FormNext]_formVars PROVE FormInv'
  OBVIOUS
<1>1. CASE ChooseConfidence \/ ChooseDemand
  BY <1>1 DEF ChooseConfidence, ChooseDemand, FormInv, FormTypeOK, FormTells, Loaded
<1>2. CASE Mounted
  BY <1>2, FormAssumption DEF Mounted, FormInv, FormTypeOK, FormTells, Loaded, Nothing
<1>3. CASE UNCHANGED formVars
  BY <1>3 DEF formVars, FormInv, FormTypeOK, FormTells, Loaded
<1>4. CASE FormNext
  BY <1>1, <1>2, <1>4, AskInv, ResolvedInv, ClearInv, Zenon DEF FormNext
<1> QED
  BY <1>3, <1>4

LEMMA FormRefusedInv == FormInv /\ FormRefused => FormInv'
<1> SUFFICES ASSUME FormInv, FormRefused PROVE FormInv'
  OBVIOUS
<1>1. CASE loading
  <2>1. recommended.number < asked.number /\ unanswered # {}
    BY <1>1 DEF FormInv, FormTells
  <2> QED
    BY <1>1, <2>1 DEF FormRefused, FormInv, FormTypeOK, FormTells, Loaded
<1>2. CASE ~loading
  BY <1>2 DEF FormRefused, FormInv, FormTypeOK, FormTells, Loaded
<1> QED
  BY <1>1, <1>2

-----------------------------------------------------------------------------
(* The service. *)

IInv == ConfigsInv /\ StatsInv /\ DeliveriesInv /\ DashboardInv /\ FormInv

LEMMA PartsMove ==
    ASSUME [Next]_vars
    PROVE  /\ [ConfigsNext]_configVars \/ ConfigsLost
           /\ [StatsNext]_statsVars \/ StatsLost
           /\ [DeliveriesNext]_deliveryVars \/ DeliveriesLost
           /\ [DashboardNext]_dashboardVars \/ Refused
           /\ [FormNext]_formVars \/ FormRefused
BY DEF Next, Restart, vars

LEMMA Inductive == Spec => []IInv
<1>1. Init => IInv
  BY ConfigsInitInv, StatsInitInv, DeliveriesInitInv, DashboardInitInv, FormInitInv DEF Init, IInv
<1>2. IInv /\ [Next]_vars => IInv'
  BY PartsMove, ConfigsNextInv, ConfigsLostInv, StatsNextInv, StatsLostInv,
     DeliveriesNextInv, DeliveriesLostInv,
     DashboardNextInv, RefusedInv, FormNextInv, FormRefusedInv DEF IInv
<1> QED
  BY <1>1, <1>2, PTL DEF Spec

(* The rows of the table stay valid, the loop holds a snapshot when it writes *)
(* one, and the display holds nothing the server has not said.                *)
THEOREM TypeCorrect == Spec => []TypeOK
<1>1. IInv => TypeOK
  BY DEF IInv, ConfigsInv, StatsInv, DeliveriesInv, DashboardInv, FormInv, TypeOK
<1> QED
  BY <1>1, Inductive, PTL

(* One row for each ledger, the latest, for as long as it is retained.        *)
THEOREM SnapshotsCorrect == Spec => []SnapshotsLatest
<1>1. IInv => SnapshotsLatest
  BY InvReads DEF IInv
<1> QED
  BY <1>1, Inductive, PTL

(* Rows of the log and answers of the history tell how deliveries ended.      *)
THEOREM HistoryCorrect == Spec => []HistoryTells
<1>1. IInv => HistoryTells
  BY InvTells DEF IInv
<1> QED
  BY <1>1, Inductive, PTL

(* A PATCH sets the columns it names and leaves the others as it read them.   *)
THEOREM PatchCorrect == Spec => PatchLeavesRest
<1>1. IInv /\ [Next]_vars => [\A h \in Handlers :
          (patch[h] # NoPatch /\ patch'[h] = NoPatch /\ answer' = "204") =>
             LET id == patch[h].id IN
             /\ DOMAIN configs' = DOMAIN configs
             /\ \A other \in DOMAIN configs \ {id} : configs'[other] = configs[other]
             /\ Taken(h, configs'[id])
             /\ Kept(h, patch[h].read, configs'[id])
             /\ configs[id] = patch[h].read => Kept(h, configs[id], configs'[id])]_configVars
  BY PartsMove, PatchStep, PatchWrites DEF IInv
<1> QED
  BY <1>1, Inductive, PTL DEF Spec, PatchLeavesRest

(* A refresh of the dashboard that runs alone only improves the display, and  *)
(* the form shows the answer to its last request or tells that it does not.   *)
THEOREM PageCorrect == Spec => PageTells
<1>1. IInv /\ [Next]_vars => AloneImproves \/ UNCHANGED <<dashboardVars, formVars>>
  BY PartsMove, SettleStep, SettleImproves DEF IInv, AloneImproves
<1>2. IInv' => FormTells'
  BY DEF IInv, FormInv
<1>3. IInv /\ IInv' /\ [Next]_vars => [AloneImproves /\ FormTells']_<<dashboardVars, formVars>>
  BY <1>1, <1>2
<1> QED
  BY <1>3, Inductive, PTL DEF Spec, PageTells
=============================================================================
