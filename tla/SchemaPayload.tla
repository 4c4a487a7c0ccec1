--------------------------- MODULE SchemaPayload ---------------------------
(***************************************************************************)
(* One application of a payload, for every specification and every state   *)
(* of Fivetran over small sets of names: what BuildSchemaConfig sends,     *)
(* once Fivetran has taken it, is what the specification asks for.         *)
(***************************************************************************)
EXTENDS SchemaConfig

CONSTANTS
    SchemaNames, TableNames, ColumnNames,
    SyncModes        \* values of sync_mode, "" for none

VARIABLES
    spec,       \* spec.connectorSchemas
    before,     \* Fivetran's schema configuration before the update
    upstream,   \* the same now
    updated     \* UpdateSchema has been called

vars == <<spec, before, upstream, updated>>

Policies == {"ALLOW_ALL", "ALLOW_COLUMNS", "BLOCK_ALL", ""}

(* The maps from some of these keys to these values.                       *)
Maps(keys, values) == UNION {[some -> values] : some \in SUBSET keys}

SpecColumns == Maps(ColumnNames, [enabled : BOOLEAN, hashed : BOOLEAN])
SpecTables ==
    Maps(TableNames, [enabled : BOOLEAN, sync : SyncModes, columns : SpecColumns])
SpecSchemas == Maps(SchemaNames, [enabled : BOOLEAN, tables : SpecTables])
Specs == [policy : Policies, schemas : SpecSchemas]

(* What Fivetran may hold; hashes is the set of values of hashed.          *)
UpColumns(hashes) ==
    Maps(ColumnNames, [enabled : BOOLEAN, hashed : hashes, locked : BOOLEAN])
UpTables(hashes) ==
    Maps(TableNames, [enabled : BOOLEAN, sync : SyncModes, locked : BOOLEAN,
                      columns : UpColumns(hashes)])
Upstreams(hashes) ==
    [policy : Policies \ {""},
     schemas : Maps(SchemaNames, [enabled : BOOLEAN, tables : UpTables(hashes)])]

(* Nothing is hashed at first; payloads change that.                       *)
Init ==
    /\ spec \in Specs
    /\ before \in Upstreams({FALSE}) /\ upstream = before
    /\ updated = FALSE

(* UpdateSchema with the payload built from the present state.             *)
UpdateSchema ==
    /\ before' = upstream
    /\ upstream' = Patch(upstream, BuildSchemaConfig(spec, upstream))
    /\ updated' = TRUE
    /\ UNCHANGED spec

Next == UpdateSchema

Spec == Init /\ [][Next]_vars

-----------------------------------------------------------------------------
(* What a payload leaves behind is what the spec lists, for schemas,       *)
(* tables and columns, whatever Fivetran had before.                       *)
ListedApplied == updated => ListedAsSpecified(spec, upstream)

(* Under BLOCK_ALL and ALLOW_COLUMNS, nothing unlisted is left in a state  *)
(* the policy forbids, except what is locked.                              *)
PolicyEnforced == updated => UnlistedFollowPolicy(spec, upstream)

(* The payload is a fixpoint: building and applying it again, as a retry   *)
(* or a forced reconcile does, changes nothing.                            *)
ReapplyChangesNothing == [][updated => upstream' = upstream]_vars

(* CompareSchemaWithCR accepts the result exactly when all that the spec   *)
(* wants has been discovered: the verification neither rejects what the    *)
(* operator just applied nor passes over what is not there.                *)
VerificationExact ==
    updated => (CompareSchemaWithCR(spec, upstream) <=> AllDiscovered(spec, upstream))

(* "Only CR items in payload, others untouched" under ALLOW_ALL, and a     *)
(* table that lists no columns keeps its columns under every policy.       *)
UnmanagedLeftAlone ==
    \A s \in DOMAIN before.schemas :
        /\ ~ManagesUnlisted(spec) /\ s \notin DOMAIN spec.schemas =>
             upstream.schemas[s] = before.schemas[s]
        /\ \A t \in DOMAIN before.schemas[s].tables :
             LET listed == s \in DOMAIN spec.schemas /\ t \in DOMAIN spec.schemas[s].tables
                 old == before.schemas[s].tables[t]
                 new == upstream.schemas[s].tables[t]
             IN  /\ ~ManagesUnlisted(spec) /\ ~listed => new = old
                 /\ listed /\ spec.schemas[s].tables[t].columns = NoMap =>
                      new.columns = old.columns

(* When ValidateLockedColumns has nothing to say, the payload disables no  *)
(* locked column, and no locked table that the spec does not list.         *)
LockedLeftAlone ==
    ManagesUnlisted(spec) /\ LockedColumnViolations(spec, before) = {} =>
        \A s \in DOMAIN before.schemas :
            \A t \in DOMAIN before.schemas[s].tables :
                LET old == before.schemas[s].tables[t]
                    new == upstream.schemas[s].tables[t]
                IN  /\ \A c \in DOMAIN old.columns :
                         old.columns[c].locked /\ old.columns[c].enabled =>
                             new.columns[c].enabled
                    /\ old.locked /\ old.enabled /\ ~new.enabled =>
                         t \in DOMAIN spec.schemas[s].tables
=============================================================================
