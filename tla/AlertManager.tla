----------------------------- MODULE AlertManager -----------------------------
(***************************************************************************)
(* AlertManager of alerts/mod.rs: the alerts that one poll's insights      *)
(* update raises on the default webhook and on the webhooks configured     *)
(* over the API, the state that keeps them from repeating, the event rows  *)
(* the delivery tasks write, and what a restart reads back.                *)
(*                                                                         *)
(* A spike is a number: the order in which the detector found it, which is *)
(* the order of its start times. The number stands for its identity        *)
(* "severity:start:peak", which is all that the manager tells spikes by.   *)
(***************************************************************************)
EXTENDS Naturals, FiniteSets

CONSTANTS
    MaxSpikes,      \* bound: spikes ever detected
    SeverityOf,     \* SeverityOf[s]: severity_rank of spike s, 0..3
    AlertThreshold, \* ALERT_THRESHOLD as a rank
    Urls,           \* webhooks that configs name
    Configs,        \* rows alert_configs may hold: [url, threshold]
    TypeSets,       \* values of ENABLED_ALERT_TYPES the service is started with
    HistoryLimit,   \* rows rehydrate_seen_spikes gets (query clamps 200 to 100)
    MaxRestarts     \* bound: times the service is restarted

Spikes == 1..MaxSpikes
None == 0

ASSUME AlertAssumption ==
    /\ MaxSpikes \in Nat /\ MaxRestarts \in Nat
    /\ HistoryLimit \in Nat
    /\ SeverityOf \in [Spikes -> 0..3]
    /\ AlertThreshold \in 0..3
    /\ Configs \subseteq [url : Urls, threshold : 0..3]

(* The tags that stand for the parts of a key that are no webhook. *)
ASSUME TagAssumption == "start" \notin Urls /\ "triggered_at" \notin Urls

VARIABLES
    phase,      \* where the polling task is in check_and_dispatch
    hook,       \* WEBHOOK_URL is set: the manager has a webhook_delivery
    enabled,    \* enabled_alert_types
    oldest,     \* recent_spikes is oldest..detected ...
    detected,   \* ... the spikes within the congestion window
    update,     \* the other conditions the update at hand shows
    rows,       \* the enabled rows of alert_configs
    loaded,     \* db_configs of the check under way
    seen,       \* seen_spikes
    active,     \* active_spike: a spike, or None
    goodActive, \* good_window_active
    staleActive,\* stale_data_active
    inflight,   \* spawned spike deliveries to configured webhooks
    events,     \* the spikes and webhooks named by rows of alert_events
    \* History, kept for the properties only.
    shown,      \* what the last update of this process showed
    posted,     \* types of alert the last check handed to the default webhook
    sent,       \* spikes and webhooks this process dispatched
    named,      \* the spike the last fee_spike_detected alert named
    restarts

local == <<phase, update, loaded>>
settings == <<hook, enabled>>
window == <<oldest, detected>>
state == <<seen, active, goodActive, staleActive>>
history == <<shown, posted, sent, named>>
managerVars == <<local, settings, window, rows, state, inflight, events, history, restarts>>

Pairs == Spikes \X Urls

RecentSpikes == oldest..detected

(* A key of seen_spikes is built from a spike and a tag: its start time, the
   time its alert was logged, or its start time followed by a webhook. *)
Identity(s) == <<s, "start">>
DedupKeyOfSpike(s, u) == <<s, "start">>     \* faulty: forgets the webhook
DedupKey(s, u) == <<s, u>>
LoggedKey(s) == <<s, "triggered_at">>
Tags == {"start", "triggered_at"} \cup Urls

Meets(s, threshold) == SeverityOf[s] >= threshold

(* `qualifying`: max_by_key keeps the last of equally severe spikes. *)
Qualifying == {s \in RecentSpikes : Meets(s, AlertThreshold)}
Worst ==
    CHOOSE s \in Qualifying : \A t \in Qualifying :
        \/ SeverityOf[t] < SeverityOf[s]
        \/ SeverityOf[t] = SeverityOf[s] /\ t <= s

(* dispatch, behind type_enabled. *)
Post(types) == posted' = types \cap enabled

NoUpdate == [good |-> FALSE, stale |-> FALSE]

Calm == [c \in {"spike", "good_window", "stale_data"} |-> FALSE]

ManagerInit ==
    /\ phase = "idle" /\ loaded = {} /\ update = NoUpdate
    /\ hook \in BOOLEAN /\ enabled \in TypeSets
    /\ oldest = 1 /\ detected = 0
    /\ rows = {}
    /\ seen = {} /\ active = None /\ goodActive = FALSE /\ staleActive = FALSE
    /\ inflight = {} /\ events = {}
    /\ shown = Calm /\ posted = {} /\ sent = {} /\ named = None
    /\ restarts = 0

-----------------------------------------------------------------------------
(* The update. *)

(* process_fee_data succeeds: spikes enter the congestion window at its end
   and leave it in order. The trend declines only with three spikes in the
   window (and is then never weak). Without a default webhook the manager
   returns at once. *)
Update ==
    /\ phase = "idle"
    /\ detected' \in detected..MaxSpikes
    /\ oldest' \in oldest..(detected' + 1)
    /\ update' \in IF ~hook THEN {NoUpdate} ELSE
                   [good : IF detected' >= oldest' + 2 THEN BOOLEAN ELSE {FALSE},
                    stale : BOOLEAN]
    /\ IF hook THEN phase' = "load" ELSE UNCHANGED phase
    /\ UNCHANGED <<settings, rows, loaded, state, inflight, events, history, restarts>>

(* Faulty: a row whose threshold is no severity is not filtered out. *)
LoadConfigsUnfiltered ==
    /\ phase = "load"
    /\ loaded' = rows \cup {[url |-> u, threshold |-> 4] : u \in Urls}
    /\ phase' = "spike"
    /\ UNCHANGED <<update, settings, window, rows, state, inflight, events, history, restarts>>

(* list_alert_configs answers, or fails and leaves no configs. *)
LoadConfigs ==
    /\ phase = "load"
    /\ loaded' \in {rows, {}}
    /\ phase' = "spike"
    /\ UNCHANGED <<update, settings, window, rows, state, inflight, events, history, restarts>>

(* Faulty: seen_spikes is not pruned. *)
RetainedAll == seen

(* check_spike_and_recovery starts by pruning seen_spikes to the identities
   of the spikes in the window. *)
Retained == seen \cap {Identity(s) : s \in RecentSpikes}

(* The spikes and webhooks that the configs ask for and that seen_spikes does
   not hold: each is dispatched once, however many configs name the webhook. *)
Due(kept) ==
    {p \in Pairs :
        /\ p[1] \in RecentSpikes
        /\ \E c \in loaded : c.url = p[2] /\ Meets(p[1], c.threshold)
        /\ DedupKey(p[1], p[2]) \notin kept}

(* dispatch_spike for what is due; the identity in `own` is inserted last. *)
Dispatch(own) ==
    LET due == Due(Retained)
    IN  /\ seen' = Retained \cup {DedupKey(p[1], p[2]) : p \in due} \cup own
        /\ sent' = sent \cup due
        /\ inflight' = inflight \cup due

CheckDone(next) ==
    /\ phase' = next
    /\ UNCHANGED <<settings, window, rows, events, restarts>>

(* Faulty: a disabled alert type leaves the condition unrecorded. *)
SpikeStartsIfEnabled ==
    /\ phase = "spike" /\ Qualifying # {} /\ active = None
    /\ active' = IF "spike" \in enabled THEN Worst ELSE None
    /\ Dispatch({Identity(Worst)})
    /\ Post({"spike"})
    /\ named' = IF "spike" \in enabled THEN Worst ELSE named
    /\ shown' = [shown EXCEPT !["spike"] = TRUE]
    /\ CheckDone("good_window")
    /\ UNCHANGED <<update, loaded, goodActive, staleActive>>

(* Faulty: an alert for every new identity, as before issue 556. *)
SpikeGoesOnFlapping ==
    /\ phase = "spike" /\ Qualifying # {} /\ active # None
    /\ active' = Worst
    /\ Dispatch({Identity(Worst)})
    /\ Post(IF active # Worst THEN {"spike"} ELSE {})
    /\ shown' = [shown EXCEPT !["spike"] = TRUE]
    /\ CheckDone("good_window")
    /\ UNCHANGED <<update, loaded, goodActive, staleActive, named>>

(* Inactive to active: the alert names the worst spike. *)
SpikeStarts ==
    /\ phase = "spike" /\ Qualifying # {} /\ active = None
    /\ active' = Worst
    /\ Dispatch({Identity(Worst)})
    /\ Post({"spike"})
    /\ named' = IF "spike" \in enabled THEN Worst ELSE named
    /\ shown' = [shown EXCEPT !["spike"] = TRUE]
    /\ CheckDone("good_window")
    /\ UNCHANGED <<update, loaded, goodActive, staleActive>>

(* Still active: the identity is brought up to date, nothing is posted. *)
SpikeGoesOn ==
    /\ phase = "spike" /\ Qualifying # {} /\ active # None
    /\ active' = Worst
    /\ Dispatch({Identity(Worst)})
    /\ Post({})
    /\ shown' = [shown EXCEPT !["spike"] = TRUE]
    /\ CheckDone("good_window")
    /\ UNCHANGED <<update, loaded, goodActive, staleActive, named>>

(* Active to inactive: the recovery names the identity held last. *)
SpikeEnds ==
    /\ phase = "spike" /\ Qualifying = {} /\ active # None
    /\ active' = None
    /\ Dispatch({})
    /\ Post({"recovery"})
    /\ shown' = [shown EXCEPT !["spike"] = FALSE]
    /\ CheckDone("good_window")
    /\ UNCHANGED <<update, loaded, goodActive, staleActive, named>>

(* Nothing active, nothing qualifying: only configured webhooks may have a
   lower threshold. *)
NoSpike ==
    /\ phase = "spike" /\ Qualifying = {} /\ active = None
    /\ Dispatch({})
    /\ Post({})
    /\ shown' = [shown EXCEPT !["spike"] = FALSE]
    /\ CheckDone("good_window")
    /\ UNCHANGED <<update, loaded, active, goodActive, staleActive, named>>

CheckGoodWindow ==
    /\ phase = "good_window"
    /\ goodActive' = update.good
    /\ Post(IF update.good /\ ~goodActive THEN {"good_window"} ELSE {})
    /\ shown' = [shown EXCEPT !["good_window"] = update.good]
    /\ CheckDone("stale_data")
    /\ UNCHANGED <<update, loaded, seen, active, staleActive, inflight, sent, named>>

CheckStaleData ==
    /\ phase = "stale_data"
    /\ staleActive' = update.stale
    /\ Post(IF update.stale /\ ~staleActive THEN {"stale_data"} ELSE {})
    /\ shown' = [shown EXCEPT !["stale_data"] = update.stale]
    /\ CheckDone("idle")
    /\ update' = NoUpdate /\ loaded' = {}
    /\ UNCHANGED <<seen, active, goodActive, inflight, sent, named>>

Check == SpikeStarts \/ SpikeGoesOn \/ SpikeEnds \/ NoSpike
         \/ CheckGoodWindow \/ CheckStaleData

-----------------------------------------------------------------------------
(* The tasks dispatch_spike spawns, and the retention of their rows. *)

(* Delivered or not, the task logs its event ... *)
LogEvent ==
    /\ \E p \in inflight : inflight' = inflight \ {p} /\ events' = events \cup {p}
    /\ UNCHANGED <<local, settings, window, rows, state, history, restarts>>

(* ... or fails to. *)
LogFails ==
    /\ \E p \in inflight : inflight' = inflight \ {p}
    /\ UNCHANGED <<local, settings, window, rows, state, events, history, restarts>>

(* prune_alert_events, after a poll. *)
PruneEvents ==
    /\ phase = "idle"
    /\ \E p \in events : events' = events \ {p}
    /\ UNCHANGED <<local, settings, window, rows, state, inflight, history, restarts>>

-----------------------------------------------------------------------------
(* The API, at any time: POST, PATCH and DELETE /alerts/config. *)

ConfigAction == UNCHANGED <<local, settings, window, state, inflight, events, history, restarts>>

EnableConfig ==
    /\ \E c \in Configs \ rows : rows' = rows \cup {c}
    /\ ConfigAction

DisableConfig ==
    /\ \E c \in rows : rows' = rows \ {c}
    /\ ConfigAction

ChangeThreshold ==
    /\ \E c \in rows, d \in Configs :
        /\ d.url = c.url /\ d # c
        /\ rows' = (rows \ {c}) \cup {d}
    /\ ConfigAction

-----------------------------------------------------------------------------
(* The service is killed, at any await, and started again, perhaps with other
   settings. The engine is rehydrated from the last day of points, or starts
   empty; seen_spikes from the newest event rows, unless the query fails. *)
Restart ==
    /\ restarts < MaxRestarts
    /\ restarts' = restarts + 1
    /\ phase' = "idle" /\ loaded' = {} /\ update' = NoUpdate
    /\ hook' \in BOOLEAN /\ enabled' \in TypeSets
    /\ detected' \in detected..MaxSpikes /\ oldest' \in oldest..(detected' + 1)
    /\ \E newest \in SUBSET events :
        /\ Cardinality(newest) <= HistoryLimit
        /\ newest = events \/ Cardinality(newest) = HistoryLimit
        /\ seen' \in {{LoggedKey(p[1]) : p \in newest}, {}}
    /\ active' = None /\ goodActive' = FALSE /\ staleActive' = FALSE
    /\ inflight' = {}
    /\ shown' = Calm /\ posted' = {} /\ sent' = {}
    /\ UNCHANGED <<rows, events, named>>

-----------------------------------------------------------------------------
ManagerNext ==
    \/ Update \/ LoadConfigs \/ Check
    \/ LogEvent \/ LogFails \/ PruneEvents
    \/ EnableConfig \/ DisableConfig \/ ChangeThreshold
    \/ Restart

ManagerSpec == ManagerInit /\ [][ManagerNext]_managerVars

-----------------------------------------------------------------------------
(* Properties. *)

(* Every variable has its type; the window is a stretch of the spikes. *)
ManagerTypeOK ==
    /\ phase \in {"idle", "load", "spike", "good_window", "stale_data"}
    /\ hook \in BOOLEAN /\ enabled \in TypeSets
    /\ detected \in 0..MaxSpikes /\ oldest \in 1..(detected + 1)
    /\ update \in [good : BOOLEAN, stale : BOOLEAN]
    /\ rows \subseteq Configs /\ loaded \subseteq Configs
    /\ seen \subseteq Spikes \X Tags
    /\ active \in Spikes \cup {None}
    /\ goodActive \in BOOLEAN /\ staleActive \in BOOLEAN
    /\ inflight \subseteq Pairs /\ events \subseteq Pairs

(* After a check, seen_spikes holds no key but those of spikes still in the
   window, at most one per webhook and one more (alerts/mod.rs: "bounding
   behavior"). *)
Checked == phase \in {"good_window", "stale_data"}
SeenBounded ==
    Checked => seen \subseteq RecentSpikes \X ({"start"} \cup Urls)

(* The spike condition the manager believes in is the worst qualifying spike
   of the window, whichever alert types are enabled. *)
ActiveIsWorst ==
    Checked => active = IF Qualifying = {} THEN None ELSE Worst

(* Every spike of the window that a loaded config asks for has been dispatched
   to its webhook by this process: no key that seen_spikes holds from another
   webhook, from the default webhook or from before a restart silences it. *)
ConfigsServed ==
    Checked => {p \in Spikes \X Urls :
                    /\ p[1] \in RecentSpikes
                    /\ \E c \in loaded : c.url = p[2] /\ Meets(p[1], c.threshold)} \subseteq sent

(* The default webhook gets the edges of what the updates show, and only of
   the enabled types; a type that is disabled holds back no other. *)
Alerts == INSTANCE EdgeAlerts
PostsEdges == Alerts!EdgeSpec

(* Properties the code does not have. *)

Dispatches(p) == phase = "spike" /\ phase' # "spike" /\ p \in Due(Retained)

(* alerts/mod.rs, "Prune seen_spikes to spikes still present in this tick's
   window", and the test same_spike_is_dispatched_once: a running service does
   not dispatch the same spike to the same webhook again. *)
DispatchedOnce == [][\A p \in sent : ~Dispatches(p)]_managerVars

(* rehydrate_seen_spikes: "so that restarts do not immediately re-fire
   already-dispatched alerts". *)
RestartDoesNotRefire == [][\A p \in events \ sent : ~Dispatches(p)]_managerVars

(* webhook.rs, correlation_id: "For `recovery`, the identity of the spike it
   resolves": the spike that the alert before it named. *)
RecoveryNamesAlert ==
    [][phase = "spike" /\ "recovery" \in posted' /\ "spike" \in enabled
        => active = named]_managerVars
=============================================================================
