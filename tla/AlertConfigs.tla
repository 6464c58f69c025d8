----------------------------- MODULE AlertConfigs -----------------------------
(***************************************************************************)
(* The alert configuration API (api/alerts.rs) over its table              *)
(* (repository.rs), behind the API key (middleware/auth.rs). POST and      *)
(* DELETE touch the table in one statement; PATCH reads the table, merges  *)
(* its body with the row it saw and then writes every column, so other     *)
(* requests run in between.                                                *)
(***************************************************************************)
EXTENDS Naturals, Sequences

CONSTANTS
    Handlers,           \* requests in flight at a time
    Thresholds,         \* VALID_THRESHOLDS
    AlertTypes,         \* VALID_ALERT_TYPES
    Omitted, Invalid,   \* a field the body leaves out, one that is not valid
    KeyRequired,        \* whether an API key is configured
    Bodies,             \* the PATCH bodies
    MaxConfigs          \* bound: rows

Fields == [threshold : Thresholds \cup {Omitted, Invalid},
           enabled : BOOLEAN \cup {Omitted},
           type : AlertTypes \cup {Omitted, Invalid}]

ASSUME AlertConfigsAssumption ==
    /\ "Major" \in Thresholds /\ "spike" \in AlertTypes
    /\ Omitted \notin Thresholds /\ Omitted \notin AlertTypes /\ Omitted \notin BOOLEAN
    /\ Invalid \notin Thresholds /\ Invalid \notin AlertTypes /\ Invalid # Omitted
    /\ KeyRequired \in BOOLEAN
    /\ Bodies \subseteq Fields
    /\ MaxConfigs \in Nat

VARIABLES
    configs,    \* the table: a row's id is its place, rows are never removed
    patch,      \* patch[h]: the PATCH handler h has read for and not written, or NoPatch
    answer      \* the status of the last response

configVars == <<configs, patch, answer>>

Row == [threshold : Thresholds, enabled : BOOLEAN, type : AlertTypes]
NoPatch == [id |-> 0]
(* `read` is history: the row as the handler saw it. *)
Patch == [id : Nat \ {0}, body : Fields, read : Row, merged : Row]
Statuses == {"none", "200", "201", "204", "400", "401", "403", "404", "500"}

-----------------------------------------------------------------------------
(* The API key. *)

Keys == {"absent", "unreadable", "empty", "wrong", "right"}

(* What require_api_key answers, or "next". *)
Verdict(key) ==
    IF ~KeyRequired \/ key = "right" THEN "next"
    ELSE IF key \in {"absent", "wrong"} THEN "401" ELSE "403"

LetIn == \E key \in Keys : Verdict(key) = "next"

TurnedAway(h) ==
    /\ patch[h] = NoPatch
    /\ answer' \in {Verdict(key) : key \in Keys} \ {"next"}
    /\ UNCHANGED <<configs, patch>>

-----------------------------------------------------------------------------
(* The handlers. *)

(* A value with the default of a field that is left out. *)
Or(value, default) == IF value = Omitted THEN default ELSE value

(* Faulty: the alert type is taken as it comes. *)
AcceptedThreshold(row) == row.threshold \in Thresholds

(* is_valid_threshold and is_valid_alert_type *)
Accepted(row) == row.threshold \in Thresholds /\ row.type \in AlertTypes

(* A statement that fails changes nothing. *)
Failed(h) ==
    /\ answer' = "500"
    /\ patch' = [patch EXCEPT ![h] = NoPatch]
    /\ UNCHANGED configs

NewRow(body) ==
    [threshold |-> Or(body.threshold, "Major"), enabled |-> TRUE, type |-> Or(body.type, "spike")]

(* insert_alert_config_typed *)
Inserted(row) == configs' = Append(configs, row)

(* create_alert *)
Create(h) ==
    /\ patch[h] = NoPatch /\ LetIn /\ Len(configs) < MaxConfigs
    /\ \E body \in Bodies :
          Accepted(NewRow(body)) /\ Inserted(NewRow(body))
    /\ answer' = "201"
    /\ UNCHANGED patch

(* create_alert, for a field a validator refuses, be it only the URL. *)
RefuseNew(h) ==
    /\ patch[h] = NoPatch /\ LetIn
    /\ answer' = "400"
    /\ UNCHANGED <<configs, patch>>

(* list_alerts *)
List(h) ==
    /\ patch[h] = NoPatch /\ LetIn
    /\ answer' = "200"
    /\ UNCHANGED <<configs, patch>>

(* delete_alert_config: the row stays. *)
Disabled(id) == configs' = [configs EXCEPT ![id].enabled = FALSE]

(* delete_alert *)
Delete(h) ==
    /\ patch[h] = NoPatch /\ LetIn
    /\ \/ \E id \in DOMAIN configs :
             Disabled(id) /\ answer' = "204"
       \/ /\ ~(1..MaxConfigs \subseteq DOMAIN configs)
          /\ answer' = "404"
          /\ UNCHANGED configs
    /\ UNCHANGED patch

(* Faulty: what the body leaves out becomes the default of a new row. *)
MergedWithDefaults(body, row) ==
    [threshold |-> Or(body.threshold, "Major"),
     enabled |-> Or(body.enabled, row.enabled),
     type |-> Or(body.type, "spike")]

(* The columns update_alert writes. *)
Merged(body, row) ==
    [threshold |-> Or(body.threshold, row.threshold),
     enabled |-> Or(body.enabled, row.enabled),
     type |-> Or(body.type, row.type)]

(* update_alert up to its write: the row is found in a list of the whole table. *)
ReadForPatch(h) ==
    /\ patch[h] = NoPatch /\ LetIn
    /\ \/ /\ ~(1..MaxConfigs \subseteq DOMAIN configs)
          /\ answer' = "404"
          /\ UNCHANGED patch
       \/ \E id \in DOMAIN configs, body \in Bodies :
             \/ /\ ~Accepted(Merged(body, configs[id]))
                /\ answer' = "400"
                /\ UNCHANGED patch
             \/ /\ Accepted(Merged(body, configs[id]))
                /\ patch' = [patch EXCEPT ![h] =
                       [id |-> id, body |-> body, read |-> configs[id],
                        merged |-> Merged(body, configs[id])]]
                /\ UNCHANGED answer
    /\ UNCHANGED configs

(* update_alert_config_full *)
WritePatch(h) ==
    /\ patch[h] # NoPatch
    /\ configs' = [configs EXCEPT ![patch[h].id] = patch[h].merged]
    /\ answer' = "204"
    /\ patch' = [patch EXCEPT ![h] = NoPatch]

ConfigsInit ==
    /\ configs = <<>>
    /\ patch = [h \in Handlers |-> NoPatch]
    /\ answer = "none"

ConfigsStep(h) ==
    \/ TurnedAway(h) \/ (LetIn /\ Failed(h)) \/ Create(h) \/ RefuseNew(h) \/ List(h) \/ Delete(h)
    \/ ReadForPatch(h) \/ WritePatch(h)

ConfigsNext == \E h \in Handlers : ConfigsStep(h)

(* The process dies: the requests in flight are gone, the table stays. *)
ConfigsLost ==
    /\ patch' = [h \in Handlers |-> NoPatch]
    /\ answer' = "none"
    /\ UNCHANGED configs

-----------------------------------------------------------------------------
(* Properties. *)

(* Type invariant: every row of the table is one the validators accept,       *)
(* though a PATCH validates against a row that may have changed since, and    *)
(* what is about to be written is another such row of the table.              *)
ConfigsTypeOK ==
    /\ configs \in Seq(Row)
    /\ patch \in [Handlers -> Patch \cup {NoPatch}]
    /\ \A h \in Handlers : patch[h] # NoPatch => patch[h].id \in DOMAIN configs
    /\ answer \in Statuses

(* What a handler's PATCH did not name is in the row as it was.               *)
Kept(h, before, after) ==
    /\ patch[h].body.threshold = Omitted => after.threshold = before.threshold
    /\ patch[h].body.enabled = Omitted => after.enabled = before.enabled
    /\ patch[h].body.type = Omitted => after.type = before.type

(* What it named is in the row now.                                           *)
Taken(h, after) ==
    /\ patch[h].body.threshold # Omitted => after.threshold = patch[h].body.threshold
    /\ patch[h].body.enabled # Omitted => after.enabled = patch[h].body.enabled
    /\ patch[h].body.type # Omitted => after.type = patch[h].body.type

(* A PATCH that answers 204 has set the columns its body names and, unless    *)
(* another request changed the row after it was read, left the others as they *)
(* were; the rows of other ids, and the number of rows, it never touches.     *)
(* With such a request in between, the columns left out fall back to what was *)
(* read: update_alert reads the table and writes whole rows (alerts.rs:195).  *)
PatchLeavesRest ==
    [][\A h \in Handlers :
          (patch[h] # NoPatch /\ patch'[h] = NoPatch /\ answer' = "204") =>
             LET id == patch[h].id IN
             /\ DOMAIN configs' = DOMAIN configs
             /\ \A other \in DOMAIN configs \ {id} : configs'[other] = configs[other]
             /\ Taken(h, configs'[id])
             /\ Kept(h, patch[h].read, configs'[id])
             /\ configs[id] = patch[h].read => Kept(h, configs[id], configs'[id])]_configVars
=============================================================================
