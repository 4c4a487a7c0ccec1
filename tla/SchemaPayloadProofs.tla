------------------------ MODULE SchemaPayloadProofs ------------------------
(***************************************************************************)
(* The properties of SchemaPayload for any names, any maps over them and   *)
(* any number of updates.                                                  *)
(***************************************************************************)
EXTENDS SchemaPayload, SchemaConfigProofs

(* Once UpdateSchema has been called, Fivetran has what the payload made   *)
(* of the configuration before it.                                         *)
Applied == Patch(before, BuildSchemaConfig(spec, before))

IInv ==
    /\ SpecShaped(spec) /\ Shaped(before) /\ Shaped(upstream)
    /\ upstream = before \/ upstream = Applied
    /\ updated => upstream = Applied

-----------------------------------------------------------------------------
LEMMA MapsValue ==
  ASSUME NEW keys, NEW values, NEW map \in Maps(keys, values)
  PROVE  \A key \in DOMAIN map : map[key] \in values
BY DEF Maps

LEMMA MapsFunction ==
  ASSUME NEW keys, NEW values, NEW map \in Maps(keys, values)
  PROVE  map = [key \in DOMAIN map |-> map[key]]
BY DEF Maps

LEMMA SpecsShaped == ASSUME NEW s \in Specs PROVE SpecShaped(s)
<1>1. \A a \in DOMAIN s.schemas : s.schemas[a] \in [enabled : BOOLEAN, tables : SpecTables]
  BY MapsValue, Zenon DEF Specs, SpecSchemas
<1>2. ASSUME NEW tables \in SpecTables PROVE SpecTablesShaped(tables)
  <2>1. \A t \in DOMAIN tables :
          tables[t] \in [enabled : BOOLEAN, sync : SyncModes, columns : SpecColumns]
    BY MapsValue, Zenon DEF SpecTables
  <2>2. ASSUME NEW columns \in SpecColumns PROVE SpecColumnsShaped(columns)
    <3>1. \A c \in DOMAIN columns : columns[c] \in [enabled : BOOLEAN, hashed : BOOLEAN]
      BY MapsValue, Zenon DEF SpecColumns
    <3>. QED
      BY <3>1 DEF SpecColumnsShaped
  <2>. QED
    BY <2>1, <2>2 DEF SpecTablesShaped
<1>. QED
  BY <1>1, <1>2 DEF SpecShaped

LEMMA UpstreamsShaped == ASSUME NEW hashes, NEW up \in Upstreams(hashes) PROVE Shaped(up)
<1>1. /\ DOMAIN up = {"policy", "schemas"}
      /\ up.schemas \in Maps(SchemaNames, [enabled : BOOLEAN, tables : UpTables(hashes)])
  BY Zenon DEF Upstreams
<1>2. \A s \in DOMAIN up.schemas : up.schemas[s] \in [enabled : BOOLEAN, tables : UpTables(hashes)]
  BY <1>1, MapsValue, Zenon
<1>3. ASSUME NEW tables \in UpTables(hashes) PROVE TablesShaped(tables)
  <2>1. \A t \in DOMAIN tables :
          tables[t] \in [enabled : BOOLEAN, sync : SyncModes, locked : BOOLEAN,
                         columns : UpColumns(hashes)]
    BY MapsValue, Zenon DEF UpTables
  <2>2. ASSUME NEW columns \in UpColumns(hashes) PROVE ColumnsShaped(columns)
    <3>1. columns = [c \in DOMAIN columns |-> columns[c]]
      BY MapsFunction DEF UpColumns
    <3>2. \A c \in DOMAIN columns :
            columns[c] \in [enabled : BOOLEAN, hashed : hashes, locked : BOOLEAN]
      BY MapsValue, Zenon DEF UpColumns
    <3>. QED
      BY <3>1, <3>2 DEF ColumnsShaped
  <2>. QED
    BY <2>1, <2>2 DEF TablesShaped
<1>4. SchemasShaped(up.schemas)
  BY <1>2, <1>3 DEF SchemasShaped
<1>. QED
  BY <1>1, <1>4 DEF Shaped

LEMMA InitHolds == Init => IInv
BY SpecsShaped, UpstreamsShaped DEF Init, IInv

LEMMA StepHolds == IInv /\ [Next]_vars => IInv'
<1> SUFFICES ASSUME IInv, [Next]_vars PROVE IInv'
  OBVIOUS
<1>1. CASE UpdateSchema
  <2>1. /\ spec' = spec /\ before' = upstream
        /\ upstream' = Patch(upstream, BuildSchemaConfig(spec, upstream))
    BY <1>1 DEF UpdateSchema
  <2>2. SpecShaped(spec) /\ Shaped(upstream)
    BY DEF IInv
  <2>3. Shaped(upstream')
    BY <2>1, <2>2, PatchValue, Zenon
  <2>. QED
    BY <2>1, <2>2, <2>3 DEF IInv, Applied
<1>2. CASE UNCHANGED vars
  BY <1>2 DEF vars, IInv, Applied
<1>. QED
  BY <1>1, <1>2 DEF Next

LEMMA AlwaysHolds == Spec => []IInv
BY InitHolds, StepHolds, PTL DEF Spec

-----------------------------------------------------------------------------
(* Whatever Fivetran had before, UpdateSchema leaves every schema, table   *)
(* and column that the spec lists as it is listed.                         *)
THEOREM ListedIsApplied == Spec => []ListedApplied
<1>1. IInv => ListedApplied
  BY AppliedAsListed DEF IInv, Applied, ListedApplied
<1>. QED
  BY <1>1, AlwaysHolds, PTL

(* Under BLOCK_ALL and ALLOW_COLUMNS, UpdateSchema leaves nothing unlisted *)
(* in a state that the policy forbids, except what is locked.              *)
THEOREM PolicyIsEnforced == Spec => []PolicyEnforced
<1>1. Covers(spec, before, before)
  BY DEF Covers, TableCovered
<1>2. IInv => PolicyEnforced
  BY <1>1, AppliedWithPolicy DEF IInv, Applied, PolicyEnforced
<1>. QED
  BY <1>2, AlwaysHolds, PTL

(* CompareSchemaWithCR accepts what UpdateSchema left exactly when all     *)
(* that the spec wants has been discovered.                                *)
THEOREM VerificationIsExact == Spec => []VerificationExact
<1>1. IInv => VerificationExact
  <2> SUFFICES ASSUME IInv, updated
               PROVE  CompareSchemaWithCR(spec, upstream) <=> AllDiscovered(spec, upstream)
    BY DEF VerificationExact
  <2>1. upstream = Patch(before, BuildSchemaConfig(spec, before)) /\ Shaped(before) /\ SpecShaped(spec)
    BY DEF IInv, Applied
  <2>2. BuildSchemaConfig(spec, before).policy = spec.policy
    BY DEF BuildSchemaConfig
  <2>3. spec.policy # "" => upstream.policy = spec.policy
    BY <2>1, <2>2, PatchValue, Zenon
  <2>4. ListedAsSpecified(spec, upstream)
    BY <2>1, AppliedAsListed
  <2>. QED
    BY <2>1, <2>3, <2>4, ComparesExactly, Zenon
<1>. QED
  BY <1>1, AlwaysHolds, PTL

(* Building a payload from the outcome of one and applying it changes      *)
(* nothing.                                                                *)
THEOREM ReapplyIsIdle == Spec => ReapplyChangesNothing
<1>1. IInv /\ [Next]_vars => [updated => upstream' = upstream]_vars
  <2> SUFFICES ASSUME IInv, UpdateSchema, updated PROVE upstream' = upstream
    BY DEF Next
  <2>1. /\ upstream = Patch(before, BuildSchemaConfig(spec, before)) /\ Shaped(before)
        /\ upstream' = Patch(upstream, BuildSchemaConfig(spec, upstream))
    BY DEF IInv, Applied, UpdateSchema
  <2>. QED
    BY <2>1, ApplyingIsIdempotent
<1>. QED
  BY <1>1, AlwaysHolds, PTL DEF Spec, ReapplyChangesNothing

(* Under ALLOW_ALL and an open policy UpdateSchema touches nothing that    *)
(* the spec does not list, and a table that lists no columns keeps its     *)
(* columns under every policy.                                             *)
THEOREM UnmanagedIsLeftAlone == Spec => []UnmanagedLeftAlone
<1>1. ASSUME IInv PROVE UnmanagedLeftAlone
  <2> DEFINE payload == BuildSchemaConfig(spec, before)
  <2>1. SpecShaped(spec) /\ Shaped(before) /\ (upstream = before \/ upstream = Patch(before, payload))
    BY <1>1 DEF IInv, Applied
  <2>2. ASSUME NEW s \in DOMAIN before.schemas, ~ManagesUnlisted(spec), s \notin DOMAIN spec.schemas
        PROVE  upstream.schemas[s] = before.schemas[s]
    <3>1. s \notin DOMAIN payload.schemas
      BY <2>2, PayloadOpen
    <3>2. Patch(before, payload).schemas = PatchSchemas(before.schemas, payload.schemas)
          /\ SchemasShaped(before.schemas)
      BY <2>1, PatchValue, Zenon DEF Shaped
    <3> HIDE DEF payload
    <3>3. Patch(before, payload).schemas[s] = before.schemas[s]
      BY <3>1, <3>2, PatchSchemasValue
    <3>. QED
      BY <2>1, <3>3
  <2>3. ASSUME NEW s \in DOMAIN before.schemas, NEW t \in DOMAIN before.schemas[s].tables,
               ~ManagesUnlisted(spec),
               ~(s \in DOMAIN spec.schemas /\ t \in DOMAIN spec.schemas[s].tables)
        PROVE  upstream.schemas[s].tables[t] = before.schemas[s].tables[t]
    <3>1. ~Mentions(payload, s, t)
      BY <2>3, PayloadOpen, Zenon
    <3> HIDE DEF payload
    <3>2. Patch(before, payload).schemas[s].tables[t] = before.schemas[s].tables[t]
      BY <2>1, <3>1, PatchedTable
    <3>. QED
      BY <2>1, <3>2
  <2>4. ASSUME NEW s \in DOMAIN before.schemas, NEW t \in DOMAIN before.schemas[s].tables,
               s \in DOMAIN spec.schemas, t \in DOMAIN spec.schemas[s].tables,
               spec.schemas[s].tables[t].columns = NoMap
        PROVE  upstream.schemas[s].tables[t].columns = before.schemas[s].tables[t].columns
    BY <2>1, <2>4, ColumnsKept
  <2>. QED
    BY <2>2, <2>3, <2>4, Zenon DEF UnmanagedLeftAlone
<1>. QED
  BY <1>1, AlwaysHolds, PTL

(* Unless ValidateLockedColumns complains, UpdateSchema disables no locked *)
(* column, and no locked table that the spec does not list.                *)
THEOREM LockedIsLeftAlone == Spec => []LockedLeftAlone
<1>1. ASSUME IInv PROVE LockedLeftAlone
  <2> DEFINE payload == BuildSchemaConfig(spec, before)
  <2>1. SpecShaped(spec) /\ Shaped(before) /\ (upstream = before \/ upstream = Patch(before, payload))
    BY <1>1 DEF IInv, Applied
  <2> SUFFICES ASSUME ManagesUnlisted(spec), LockedColumnViolations(spec, before) = {},
                      NEW s \in DOMAIN before.schemas, NEW t \in DOMAIN before.schemas[s].tables
               PROVE  LET old == before.schemas[s].tables[t]
                          new == upstream.schemas[s].tables[t]
                      IN  /\ \A c \in DOMAIN old.columns :
                               old.columns[c].locked /\ old.columns[c].enabled =>
                                   new.columns[c].enabled
                          /\ old.locked /\ old.enabled /\ ~new.enabled =>
                               t \in DOMAIN spec.schemas[s].tables
    BY Zenon DEF LockedLeftAlone
  <2> DEFINE old == before.schemas[s].tables[t]
             new == upstream.schemas[s].tables[t]
             sent == payload.schemas[s].tables[t].columns
  <2>2. /\ new = old \/ Mentions(payload, s, t)
        /\ Mentions(payload, s, t) => new = old \/ new.columns = PatchColumns(old.columns, sent)
    BY <2>1, PatchedTable
  <2>3. ColumnsShaped(old.columns)
    BY <2>1 DEF Shaped, SchemasShaped, TablesShaped
  <2>4. ASSUME NEW c \in DOMAIN old.columns, old.columns[c].locked, old.columns[c].enabled
        PROVE  new.columns[c].enabled
    <3>1. ASSUME Mentions(payload, s, t), c \in DOMAIN sent
          PROVE  sent[c].enabled
      <4>1. /\ s \in DOMAIN spec.schemas /\ spec.schemas[s].enabled
            /\ t \in DOMAIN spec.schemas[s].tables
            /\ c \in DOMAIN spec.schemas[s].tables[t].columns
            /\ sent[c] = spec.schemas[s].tables[t].columns[c]
        <5>1. SpecShaped(spec) /\ SendsLocked(spec, before, s, t, c)
          BY <2>1, <2>4, <3>1 DEF SendsLocked
        <5> HIDE DEF payload, old, new, sent
        <5>2. /\ s \in DOMAIN spec.schemas /\ spec.schemas[s].enabled
              /\ t \in DOMAIN spec.schemas[s].tables
              /\ c \in DOMAIN spec.schemas[s].tables[t].columns
              /\ BuildSchemaConfig(spec, before).schemas[s].tables[t].columns[c] =
                   spec.schemas[s].tables[t].columns[c]
          <6>0. ManagesUnlisted(spec)
            OBVIOUS
          <6>1. s \in DOMAIN spec.schemas
            BY <6>0, <5>1, PayloadLockedColumn
          <6>2. spec.schemas[s].enabled
            BY <6>0, <5>1, PayloadLockedColumn
          <6>3. t \in DOMAIN spec.schemas[s].tables
            BY <6>0, <5>1, PayloadLockedColumn
          <6>4. c \in DOMAIN spec.schemas[s].tables[t].columns
            BY <6>0, <5>1, PayloadLockedColumn
          <6>5. BuildSchemaConfig(spec, before).schemas[s].tables[t].columns[c] =
                   spec.schemas[s].tables[t].columns[c]
            BY <6>0, <5>1, PayloadLockedColumn
          <6>. QED
            BY <6>1, <6>2, <6>3, <6>4, <6>5
        <5>. QED
          BY <5>2 DEF payload, sent
      <4>2. spec.schemas[s].tables[t].columns[c].enabled
        BY <2>4, <4>1, NoViolation, Zenon
      <4>. QED
        BY <4>1, <4>2
    <3>2. /\ c \notin DOMAIN sent => PatchColumns(old.columns, sent)[c] = old.columns[c]
          /\ c \in DOMAIN sent => PatchColumns(old.columns, sent)[c].enabled = sent[c].enabled
      <4> HIDE DEF old, sent
      <4>. QED
        BY <2>3, PatchColumnsValue
    <3> HIDE DEF old, sent, new, payload
    <3>. QED
      BY <2>2, <2>4, <3>1, <3>2
  <2>5. old.locked /\ old.enabled /\ ~new.enabled => t \in DOMAIN spec.schemas[s].tables
    BY <2>1, <2>2, PayloadLockedTable
  <2>. QED
    BY <2>4, <2>5
<1>. QED
  BY <1>1, AlwaysHolds, PTL
=============================================================================
