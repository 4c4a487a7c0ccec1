---------------------------- MODULE SchemaConfig ----------------------------
(***************************************************************************)
(* The pure part of the schema configuration: the payload that             *)
(* BuildSchemaConfig makes of the resource's spec.connectorSchemas and of  *)
(* what Fivetran reports, and the checks made before and after it is sent. *)
(*                                                                         *)
(* The Go maps are functions whose domain is the set of keys present.      *)
(*   spec      [policy, level, schemas]; a schema is [enabled, tables], a  *)
(*             table [enabled, sync, columns], a column [enabled, hashed]. *)
(*   upstream  [policy, schemas], as Fivetran reports it; tables and       *)
(*             columns also say whether they are locked, that is, whether  *)
(*             enabled_patch_settings refuses a change of their state.     *)
(*   payload   [policy, schemas], shaped like the spec; "" and hashed      *)
(*             FALSE stand for a field that is left out of the request.    *)
(* is_primary_key is handled like hashed and is not kept apart.  A nil map *)
(* entry does not pass the CRD's schema and is not modelled.               *)
(***************************************************************************)

NoMap == [key \in {} |-> key]

(* The fields that a specification has, whatever their values.             *)
SpecColumnsShaped(columns) ==
    \A c \in DOMAIN columns : {"enabled", "hashed"} \subseteq DOMAIN columns[c]

SpecTablesShaped(tables) ==
    \A t \in DOMAIN tables :
        /\ {"enabled", "sync", "columns"} \subseteq DOMAIN tables[t]
        /\ tables[t].enabled \in BOOLEAN
        /\ SpecColumnsShaped(tables[t].columns)

SpecShaped(spec) ==
    \A s \in DOMAIN spec.schemas :
        /\ spec.schemas[s].enabled \in BOOLEAN
        /\ SpecTablesShaped(spec.schemas[s].tables)

(* The fields that Fivetran's configuration has.                           *)
ColumnsShaped(columns) ==
    /\ columns = [c \in DOMAIN columns |-> columns[c]]
    /\ \A c \in DOMAIN columns : {"enabled", "hashed", "locked"} \subseteq DOMAIN columns[c]

TablesShaped(tables) ==
    \A t \in DOMAIN tables :
        /\ {"enabled", "sync", "locked", "columns"} \subseteq DOMAIN tables[t]
        /\ ColumnsShaped(tables[t].columns)

SchemasShaped(schemas) ==
    \A s \in DOMAIN schemas :
        /\ {"enabled", "tables"} \subseteq DOMAIN schemas[s]
        /\ TablesShaped(schemas[s].tables)

Shaped(upstream) ==
    {"policy", "schemas"} \subseteq DOMAIN upstream /\ SchemasShaped(upstream.schemas)

-----------------------------------------------------------------------------
(* The schemas and tables the spec names and wants.                        *)
EnabledIn(map) == {key \in DOMAIN map : map[key].enabled}

-----------------------------------------------------------------------------
(* BuildSchemaConfig.                                                      *)

(* ALLOW_ALL, and a policy left open, pass the spec through.               *)
ManagesUnlisted(spec) == spec.policy \notin {"ALLOW_ALL", ""}

(* Variant: the tables of a new schema are forgotten.                      *)
SchemaFromCR_NoTables(wanted) == [enabled |-> wanted.enabled, tables |-> NoMap]

(* A disabled schema goes out without its tables.                          *)
SchemaFromCR(wanted) ==
    [enabled |-> wanted.enabled,
     tables  |-> IF wanted.enabled THEN wanted.tables ELSE NoMap]

fromCR(spec) == [s \in DOMAIN spec.schemas |-> SchemaFromCR(spec.schemas[s])]

(* Variant: the lock of an unlisted column is not looked at.               *)
mergeColumns_IgnoresLocks(policy, there, wanted) ==
    IF DOMAIN wanted = {} THEN NoMap
    ELSE [c \in DOMAIN wanted \cup DOMAIN there |->
            IF c \in DOMAIN wanted THEN wanted[c]
            ELSE [enabled |-> policy # "BLOCK_ALL", hashed |-> FALSE]]

(* Listed columns as specified, the others at the policy's default; a      *)
(* table that lists no column keeps its columns as they are.               *)
mergeColumns(policy, there, wanted) ==
    IF DOMAIN wanted = {} THEN NoMap
    ELSE [c \in DOMAIN wanted \cup {k \in DOMAIN there : ~there[k].locked} |->
            IF c \in DOMAIN wanted THEN wanted[c]
            ELSE [enabled |-> policy # "BLOCK_ALL", hashed |-> FALSE]]

Disabled == [enabled |-> FALSE, sync |-> "", columns |-> NoMap]

(* Variant: unlisted tables are not mentioned.                             *)
mergeTables_ListedOnly(policy, there, wanted) ==
    [t \in DOMAIN wanted |->
        IF t \notin DOMAIN there THEN wanted[t]
        ELSE [wanted[t] EXCEPT !.columns = mergeColumns(policy, there[t].columns, @)]]

(* Tables of an enabled schema: unlisted ones are disabled unless locked.  *)
mergeTables(policy, there, wanted) ==
    [t \in DOMAIN wanted \cup {k \in DOMAIN there : ~there[k].locked} |->
        IF t \notin DOMAIN wanted THEN Disabled
        ELSE IF t \notin DOMAIN there THEN wanted[t]
        ELSE [wanted[t] EXCEPT !.columns = mergeColumns(policy, there[t].columns, @)]]

mergeWithUpstream(spec, upstream) ==
    [s \in DOMAIN spec.schemas \cup DOMAIN upstream.schemas |->
        IF s \notin DOMAIN spec.schemas THEN [enabled |-> FALSE, tables |-> NoMap]
        ELSE IF spec.schemas[s].enabled /\ s \in DOMAIN upstream.schemas
        THEN [enabled |-> TRUE,
              tables  |-> mergeTables(spec.policy, upstream.schemas[s].tables,
                                      spec.schemas[s].tables)]
        ELSE SchemaFromCR(spec.schemas[s])]

(* Variant: Fivetran's policy decides instead of the spec's.               *)
BuildSchemaConfig_UpstreamPolicy(spec, upstream) ==
    [policy  |-> spec.policy,
     schemas |-> IF ManagesUnlisted(upstream) THEN mergeWithUpstream(spec, upstream)
                 ELSE fromCR(spec)]

(* Variant: an open policy is merged as well.                              *)
BuildSchemaConfig_MergesAlways(spec, upstream) ==
    [policy |-> spec.policy, schemas |-> mergeWithUpstream(spec, upstream)]

BuildSchemaConfig(spec, upstream) ==
    [policy  |-> spec.policy,
     schemas |-> IF ManagesUnlisted(spec) THEN mergeWithUpstream(spec, upstream)
                 ELSE fromCR(spec)]

(* BuildSchemaConfig with no upstream, for createNewSchema.                *)
BuildNewSchemaConfig(spec) == [policy |-> spec.policy, schemas |-> fromCR(spec)]

(* Build reports the first empty name.                                     *)
BuildFails(payload) ==
    \/ "" \in DOMAIN payload.schemas
    \/ \E s \in DOMAIN payload.schemas :
          LET tables == payload.schemas[s].tables
          IN  \/ "" \in DOMAIN tables
              \/ \E t \in DOMAIN tables : "" \in DOMAIN tables[t].columns

-----------------------------------------------------------------------------
(* Checks.                                                                 *)

(* Does the spec name a schema or table that Fivetran has not discovered?  *)
validateCRAgainstUpstream(spec, upstream) ==
    \E s \in EnabledIn(spec.schemas) :
        \/ s \notin DOMAIN upstream.schemas
        \/ \E t \in EnabledIn(spec.schemas[s].tables) :
              t \notin DOMAIN upstream.schemas[s].tables

(* The listed tables, with columns, of the schemas the spec enables.       *)
TablesWithColumns(spec) ==
    UNION {{s} \X {t \in DOMAIN spec.schemas[s].tables :
                      DOMAIN spec.schemas[s].tables[t].columns # {}} :
              s \in EnabledIn(spec.schemas)}

NeedsColumnSecondPass(spec) ==
    ManagesUnlisted(spec) /\ TablesWithColumns(spec) # {}

(* ValidateLockedColumns: the locked columns that the spec disables.       *)
LockedColumnViolations(spec, upstream) ==
    UNION {LET s == p[1]
               t == p[2]
               wanted == spec.schemas[s].tables[t].columns
           IN  {p} \X {c \in DOMAIN wanted :
                        /\ ~wanted[c].enabled
                        /\ s \in DOMAIN upstream.schemas
                        /\ t \in DOMAIN upstream.schemas[s].tables
                        /\ c \in DOMAIN upstream.schemas[s].tables[t].columns
                        /\ upstream.schemas[s].tables[t].columns[c].locked} :
              p \in TablesWithColumns(spec)}

compareTablesWithFivetran(there, wanted) ==
    \A t \in DOMAIN wanted :
        IF t \in DOMAIN there
        THEN /\ there[t].enabled = wanted[t].enabled
             /\ wanted[t].sync # "" => there[t].sync = wanted[t].sync
        ELSE ~wanted[t].enabled

(* Variant: tables are not compared.                                       *)
CompareSchemaWithCR_SchemasOnly(spec, upstream) ==
    /\ spec.policy # "" => upstream.policy = spec.policy
    /\ \A s \in DOMAIN spec.schemas :
          IF s \in DOMAIN upstream.schemas
          THEN upstream.schemas[s].enabled = spec.schemas[s].enabled
          ELSE ~spec.schemas[s].enabled

(* The verification after the update; columns are not part of it.          *)
CompareSchemaWithCR(spec, upstream) ==
    /\ spec.policy # "" => upstream.policy = spec.policy
    /\ \A s \in DOMAIN spec.schemas :
          IF s \in DOMAIN upstream.schemas
          THEN /\ upstream.schemas[s].enabled = spec.schemas[s].enabled
               /\ spec.schemas[s].enabled =>
                     compareTablesWithFivetran(upstream.schemas[s].tables,
                                               spec.schemas[s].tables)
          ELSE ~spec.schemas[s].enabled

-----------------------------------------------------------------------------
(* What Fivetran makes of a payload: listed fields are set, the rest stays *)
(* as it is, names it does not know are ignored.                           *)

PatchColumns(there, sent) ==
    [c \in DOMAIN there |->
        IF c \in DOMAIN sent
        THEN [there[c] EXCEPT !.enabled = sent[c].enabled,
                              !.hashed = @ \/ sent[c].hashed]
        ELSE there[c]]

PatchTables(there, sent) ==
    [t \in DOMAIN there |->
        IF t \in DOMAIN sent
        THEN [there[t] EXCEPT !.enabled = sent[t].enabled,
                              !.sync = IF sent[t].sync = "" THEN @ ELSE sent[t].sync,
                              !.columns = PatchColumns(@, sent[t].columns)]
        ELSE there[t]]

PatchSchemas(there, sent) ==
    [s \in DOMAIN there |->
        IF s \in DOMAIN sent
        THEN [there[s] EXCEPT !.enabled = sent[s].enabled,
                              !.tables = PatchTables(@, sent[s].tables)]
        ELSE there[s]]

Patch(upstream, payload) ==
    [upstream EXCEPT !.policy = IF payload.policy = "" THEN @ ELSE payload.policy,
                     !.schemas = PatchSchemas(@, payload.schemas)]

-----------------------------------------------------------------------------
(* What the specification of a schema asks of Fivetran's state.            *)

(* Everything that is listed, and known to Fivetran, is as listed.         *)
ListedAsSpecified(spec, upstream) ==
    \A s \in DOMAIN spec.schemas \cap DOMAIN upstream.schemas :
        LET wanted == spec.schemas[s]
            there == upstream.schemas[s]
        IN  /\ there.enabled = wanted.enabled
            /\ wanted.enabled =>
                 \A t \in DOMAIN wanted.tables \cap DOMAIN there.tables :
                    /\ there.tables[t].enabled = wanted.tables[t].enabled
                    /\ wanted.tables[t].sync # "" =>
                          there.tables[t].sync = wanted.tables[t].sync
                    /\ \A c \in DOMAIN wanted.tables[t].columns
                                  \cap DOMAIN there.tables[t].columns :
                          LET col == wanted.tables[t].columns[c]
                          IN  /\ there.tables[t].columns[c].enabled = col.enabled
                              /\ col.hashed => there.tables[t].columns[c].hashed

(* Nothing that is not listed is synchronised against the policy, apart    *)
(* from what is locked.                                                    *)
UnlistedFollowPolicy(spec, upstream) ==
    ManagesUnlisted(spec) =>
      \A s \in DOMAIN upstream.schemas :
        LET there == upstream.schemas[s].tables
        IN  IF s \notin DOMAIN spec.schemas
            THEN ~upstream.schemas[s].enabled
            ELSE spec.schemas[s].enabled =>
              \A t \in DOMAIN there :
                IF t \notin DOMAIN spec.schemas[s].tables
                THEN there[t].locked \/ ~there[t].enabled
                ELSE LET wanted == spec.schemas[s].tables[t].columns
                     IN  there[t].enabled /\ DOMAIN wanted # {} =>
                           \A c \in DOMAIN there[t].columns \ DOMAIN wanted :
                              \/ there[t].columns[c].locked
                              \/ there[t].columns[c].enabled = (spec.policy # "BLOCK_ALL")

(* The part of the spec that lists what it wants, without what it lists in *)
(* order to leave it out.                                                  *)
Wanted(spec) ==
    [policy  |-> spec.policy,
     schemas |-> [s \in EnabledIn(spec.schemas) |->
        LET tables == spec.schemas[s].tables
        IN  [enabled |-> TRUE, tables |-> [t \in EnabledIn(tables) |-> tables[t]]]]]

(* Everything the spec wants has been discovered.                          *)
AllDiscovered(spec, upstream) == ~validateCRAgainstUpstream(spec, upstream)
=============================================================================
