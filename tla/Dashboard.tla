------------------------------- MODULE Dashboard -------------------------------
(***************************************************************************)
(* The dashboard's refreshes (ui DashboardShell.tsx, lib/api.ts). A        *)
(* refresh asks for every panel at once, waits until all are settled and   *)
(* then replaces the whole display: with the answers, and for a panel that *)
(* failed with what the display held WHEN THE REFRESH BEGAN (the data its  *)
(* closure captured). The timer and the choice of another window start     *)
(* refreshes while others are in flight.                                   *)
(***************************************************************************)
EXTENDS Naturals

CONSTANTS
    Panels,         \* current, history, trend, insights
    Windows,        \* 1h, 6h, 24h
    FirstWindow,    \* the window the page is loaded with
    Slots,          \* bound: refreshes in flight at a time
    MaxVersion      \* bound: what the server can say changes this often

ASSUME DashboardAssumption ==
    "history" \in Panels /\ FirstWindow \in Windows /\ MaxVersion \in Nat

VARIABLES
    version,    \* the state of the server that answers tell of
    shown,      \* data: the answer each panel shows, or Null
    window,     \* the chosen window
    isRefreshing,
    flight      \* flight[s]: a refresh in flight, or NoFlight

dashboardVars == <<version, shown, window, isRefreshing, flight>>

(* Only the history is asked for with a window; the others carry the first. *)
Answer == [window : Windows, version : 0..MaxVersion]
Null == [version |-> 0]
Display == [Panels -> Answer \cup {Null}]

Pending == [version |-> 1]
Rejected == [version |-> 2]
NoFlight == [window |-> "none"]
(* `overlapped` is history: another refresh was in flight during this one. *)
Flight == [window : Windows, data : Display, got : [Panels -> Answer \cup {Pending, Rejected}],
           overlapped : BOOLEAN]

InFlight == {s \in Slots : flight[s] # NoFlight}

Asked(panel, win) == IF panel = "history" THEN win ELSE FirstWindow

(* refresh: its closure holds the data of the last render. *)
Refresh(win) ==
    /\ \E s \in Slots :
          /\ flight[s] = NoFlight
          /\ flight' = [t \in Slots |->
                IF t = s
                THEN [window |-> win, data |-> shown, got |-> [p \in Panels |-> Pending],
                      overlapped |-> InFlight # {}]
                ELSE IF t \in InFlight THEN [flight[t] EXCEPT !.overlapped = TRUE]
                ELSE flight[t]]
    /\ isRefreshing' = TRUE

(* The skeleton is shown, without any control, until a panel has loaded. *)
HasLoaded == \E p \in Panels : shown[p] # Null

(* setInterval *)
AutoPoll ==
    /\ Refresh(window)
    /\ UNCHANGED <<version, shown, window>>

(* The REFRESH button, disabled while isRefreshing. *)
PressRefresh ==
    /\ HasLoaded /\ ~isRefreshing
    /\ Refresh(window)
    /\ UNCHANGED <<version, shown, window>>

(* handleWindowChange *)
ChangeWindow ==
    /\ HasLoaded
    /\ \E w \in Windows : window' = w /\ Refresh(w)
    /\ UNCHANGED <<version, shown>>

(* One of the requests of a refresh is answered, or fails. *)
Respond(s) ==
    /\ s \in InFlight
    /\ \E p \in Panels :
          /\ flight[s].got[p] = Pending
          /\ \E result \in {Rejected, [window |-> Asked(p, flight[s].window), version |-> version]} :
                flight' = [flight EXCEPT ![s].got[p] = result]
    /\ UNCHANGED <<version, shown, window, isRefreshing>>

(* Faulty: a panel that failed is emptied. *)
SettledOrEmpty(f) == [p \in Panels |-> IF f.got[p] = Rejected THEN Null ELSE f.got[p]]

Settled(f) == [p \in Panels |-> IF f.got[p] = Rejected THEN f.data[p] ELSE f.got[p]]

(* Promise.allSettled resolves; the first of two to end clears isRefreshing. *)
Settle(s) ==
    /\ s \in InFlight
    /\ \A p \in Panels : flight[s].got[p] # Pending
    /\ shown' = Settled(flight[s])
    /\ isRefreshing' = FALSE
    /\ flight' = [flight EXCEPT ![s] = NoFlight]
    /\ UNCHANGED <<version, window>>

(* The server has something new to say. *)
Advance ==
    /\ version < MaxVersion
    /\ version' = version + 1
    /\ UNCHANGED <<shown, window, isRefreshing, flight>>

(* The page is rendered by the server (page.tsx): any of its requests may have failed. *)
DashboardInit ==
    /\ version = 0
    /\ shown \in [Panels -> {Null, [window |-> FirstWindow, version |-> 0]}]
    /\ window = FirstWindow
    /\ isRefreshing = FALSE
    /\ flight = [s \in Slots |-> NoFlight]

DashboardNext ==
    \/ AutoPoll \/ PressRefresh \/ ChangeWindow \/ Advance
    \/ \E s \in Slots : Respond(s) \/ Settle(s)

(* The server is gone: every request it had is refused. *)
Refused ==
    /\ flight' = [s \in Slots |->
          IF s \in InFlight
          THEN [flight[s] EXCEPT !.got =
                   [p \in Panels |-> IF @[p] = Pending THEN Rejected ELSE @[p]]]
          ELSE NoFlight]
    /\ UNCHANGED <<version, shown, window, isRefreshing>>

-----------------------------------------------------------------------------
(* Properties. *)

(* Type invariant; what the display holds was said by the server before now.  *)
DashboardTypeOK ==
    /\ version \in 0..MaxVersion /\ window \in Windows /\ isRefreshing \in BOOLEAN
    /\ shown \in Display
    /\ flight \in [Slots -> Flight \cup {NoFlight}]
    /\ \A p \in Panels : shown[p] # Null => shown[p].version <= version

(* A refresh that ran alone only ever improves the display ("keep stale       *)
(* data", DashboardShell.tsx:60): no panel is emptied or goes back to an       *)
(* older answer, and a new history is one of the window chosen now. For       *)
(* refreshes that overlap none of this holds: the one that settles last wins, *)
(* with its own window and with the data it captured.                         *)
AloneImproves ==
    \A s \in Slots :
       (s \in InFlight /\ ~flight[s].overlapped /\ flight'[s] = NoFlight) =>
          \A p \in Panels :
             \/ shown'[p] = shown[p]
             \/ /\ shown'[p] # Null
                /\ shown[p] # Null => shown'[p].version >= shown[p].version
                /\ shown'[p].window = Asked(p, window)
=============================================================================
