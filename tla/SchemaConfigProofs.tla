------------------------- MODULE SchemaConfigProofs -------------------------
(***************************************************************************)
(* What a payload does to Fivetran's schema configuration, for maps of any *)
(* size.  Throughout, `acc` is the configuration that the payload meets    *)
(* and `det` the response it was built from: they are the same when        *)
(* nothing happens in between, and the lemmas say how much of that is      *)
(* needed.                                                                 *)
(***************************************************************************)
EXTENDS SchemaConfig, TLAPS

(* A field that is not left out.                                           *)
Given(value) == value # ""

-----------------------------------------------------------------------------
(* What Fivetran makes of a payload, level by level: the keys stay, listed *)
(* fields are set, and everything else is as it was.                       *)

LEMMA PatchColumnsShape ==
  ASSUME NEW there, ColumnsShaped(there), NEW sent
  PROVE  /\ DOMAIN PatchColumns(there, sent) = DOMAIN there
         /\ ColumnsShaped(PatchColumns(there, sent))
BY DEF PatchColumns, ColumnsShaped

LEMMA PatchColumnsValue ==
  ASSUME NEW there, ColumnsShaped(there), NEW sent, NEW c \in DOMAIN there
  PROVE  /\ PatchColumns(there, sent)[c].locked = there[c].locked
         /\ c \notin DOMAIN sent => PatchColumns(there, sent)[c] = there[c]
         /\ c \in DOMAIN sent =>
              /\ PatchColumns(there, sent)[c].enabled = sent[c].enabled
              /\ PatchColumns(there, sent)[c].hashed = (there[c].hashed \/ sent[c].hashed)
BY DEF PatchColumns, ColumnsShaped

LEMMA PatchTablesValue ==
  ASSUME NEW there, TablesShaped(there), NEW sent, NEW t \in DOMAIN there
  PROVE  /\ DOMAIN PatchTables(there, sent)[t] = DOMAIN there[t]
         /\ PatchTables(there, sent)[t].locked = there[t].locked
         /\ t \notin DOMAIN sent => PatchTables(there, sent)[t] = there[t]
         /\ t \in DOMAIN sent =>
              /\ PatchTables(there, sent)[t].enabled = sent[t].enabled
              /\ PatchTables(there, sent)[t].columns =
                   PatchColumns(there[t].columns, sent[t].columns)
<1> DEFINE Cols(k) == PatchColumns(there[k].columns, sent[k].columns)
<1>1. PatchTables(there, sent) =
        [k \in DOMAIN there |->
            IF k \in DOMAIN sent
            THEN [there[k] EXCEPT !.enabled = sent[k].enabled,
                                  !.sync = IF sent[k].sync = "" THEN @ ELSE sent[k].sync,
                                  !.columns = Cols(k)]
            ELSE there[k]]
  BY DEF PatchTables
<1> HIDE DEF Cols
<1>2. {"enabled", "sync", "locked", "columns"} \subseteq DOMAIN there[t]
  BY DEF TablesShaped
<1>3. /\ DOMAIN PatchTables(there, sent)[t] = DOMAIN there[t]
      /\ PatchTables(there, sent)[t].locked = there[t].locked
      /\ t \notin DOMAIN sent => PatchTables(there, sent)[t] = there[t]
      /\ t \in DOMAIN sent =>
           /\ PatchTables(there, sent)[t].enabled = sent[t].enabled
           /\ PatchTables(there, sent)[t].columns = Cols(t)
  BY <1>1, <1>2, Zenon
<1>. QED
  BY <1>3 DEF Cols

LEMMA PatchTablesSync ==
  ASSUME NEW there, TablesShaped(there), NEW sent, NEW t \in DOMAIN there \cap DOMAIN sent,
         Given(sent[t].sync)
  PROVE  PatchTables(there, sent)[t].sync = sent[t].sync
<1>1. {"enabled", "sync", "locked", "columns"} \subseteq DOMAIN there[t]
  BY DEF TablesShaped
<1>. QED
  BY <1>1, Zenon DEF PatchTables, Given

LEMMA PatchTablesShape ==
  ASSUME NEW there, TablesShaped(there), NEW sent
  PROVE  /\ DOMAIN PatchTables(there, sent) = DOMAIN there
         /\ TablesShaped(PatchTables(there, sent))
<1>1. DOMAIN PatchTables(there, sent) = DOMAIN there
  BY DEF PatchTables
<1>2. ASSUME NEW t \in DOMAIN there
      PROVE  /\ {"enabled", "sync", "locked", "columns"} \subseteq DOMAIN PatchTables(there, sent)[t]
             /\ ColumnsShaped(PatchTables(there, sent)[t].columns)
  <2>1. {"enabled", "sync", "locked", "columns"} \subseteq DOMAIN there[t]
        /\ ColumnsShaped(there[t].columns)
    BY DEF TablesShaped
  <2>2. \/ PatchTables(there, sent)[t] = there[t]
        \/ PatchTables(there, sent)[t].columns = PatchColumns(there[t].columns, sent[t].columns)
    BY PatchTablesValue
  <2>3. DOMAIN PatchTables(there, sent)[t] = DOMAIN there[t]
    BY PatchTablesValue
  <2>. QED
    BY <2>1, <2>2, <2>3, PatchColumnsShape
<1>. QED
  BY <1>1, <1>2 DEF TablesShaped

LEMMA PatchSchemasValue ==
  ASSUME NEW there, SchemasShaped(there), NEW sent, NEW s \in DOMAIN there
  PROVE  /\ DOMAIN PatchSchemas(there, sent)[s] = DOMAIN there[s]
         /\ s \notin DOMAIN sent => PatchSchemas(there, sent)[s] = there[s]
         /\ s \in DOMAIN sent =>
              /\ PatchSchemas(there, sent)[s].enabled = sent[s].enabled
              /\ PatchSchemas(there, sent)[s].tables = PatchTables(there[s].tables, sent[s].tables)
<1> DEFINE Tabs(k) == PatchTables(there[k].tables, sent[k].tables)
<1>1. PatchSchemas(there, sent) =
        [k \in DOMAIN there |->
            IF k \in DOMAIN sent
            THEN [there[k] EXCEPT !.enabled = sent[k].enabled, !.tables = Tabs(k)]
            ELSE there[k]]
  BY DEF PatchSchemas
<1> HIDE DEF Tabs
<1>2. {"enabled", "tables"} \subseteq DOMAIN there[s]
  BY DEF SchemasShaped
<1>3. /\ DOMAIN PatchSchemas(there, sent)[s] = DOMAIN there[s]
      /\ s \notin DOMAIN sent => PatchSchemas(there, sent)[s] = there[s]
      /\ s \in DOMAIN sent => /\ PatchSchemas(there, sent)[s].enabled = sent[s].enabled
                              /\ PatchSchemas(there, sent)[s].tables = Tabs(s)
  BY <1>1, <1>2, Zenon
<1>. QED
  BY <1>3 DEF Tabs

LEMMA PatchSchemasShape ==
  ASSUME NEW there, SchemasShaped(there), NEW sent
  PROVE  /\ DOMAIN PatchSchemas(there, sent) = DOMAIN there
         /\ SchemasShaped(PatchSchemas(there, sent))
<1>1. DOMAIN PatchSchemas(there, sent) = DOMAIN there
  BY DEF PatchSchemas
<1>2. ASSUME NEW s \in DOMAIN there
      PROVE  /\ {"enabled", "tables"} \subseteq DOMAIN PatchSchemas(there, sent)[s]
             /\ TablesShaped(PatchSchemas(there, sent)[s].tables)
  <2>1. {"enabled", "tables"} \subseteq DOMAIN there[s] /\ TablesShaped(there[s].tables)
    BY DEF SchemasShaped
  <2>2. \/ PatchSchemas(there, sent)[s] = there[s]
        \/ PatchSchemas(there, sent)[s].tables = PatchTables(there[s].tables, sent[s].tables)
    BY PatchSchemasValue
  <2>3. DOMAIN PatchSchemas(there, sent)[s] = DOMAIN there[s]
    BY PatchSchemasValue
  <2>. QED
    BY <2>1, <2>2, <2>3, PatchTablesShape
<1>. QED
  BY <1>1, <1>2 DEF SchemasShaped

LEMMA PatchValue ==
  ASSUME NEW acc, Shaped(acc), NEW payload
  PROVE  /\ Shaped(Patch(acc, payload))
         /\ Patch(acc, payload).schemas = PatchSchemas(acc.schemas, payload.schemas)
         /\ payload.policy # "" => Patch(acc, payload).policy = payload.policy
<1> DEFINE New == PatchSchemas(acc.schemas, payload.schemas)
<1>1. SchemasShaped(New) /\ {"policy", "schemas"} \subseteq DOMAIN acc
  BY PatchSchemasShape DEF Shaped
<1>2. Patch(acc, payload) =
        [acc EXCEPT !.policy = IF payload.policy = "" THEN @ ELSE payload.policy, !.schemas = New]
  BY DEF Patch
<1> HIDE DEF New
<1>3. /\ DOMAIN Patch(acc, payload) = DOMAIN acc
      /\ Patch(acc, payload).schemas = New
      /\ payload.policy # "" => Patch(acc, payload).policy = payload.policy
  BY <1>1, <1>2, Zenon
<1>. QED
  BY <1>1, <1>3, Zenon DEF Shaped, New

(* The same seen from one table of the configuration.                      *)
Mentions(payload, s, t) == s \in DOMAIN payload.schemas /\ t \in DOMAIN payload.schemas[s].tables

LEMMA PatchKeys ==
  ASSUME NEW acc, Shaped(acc), NEW payload
  PROVE  /\ DOMAIN Patch(acc, payload).schemas = DOMAIN acc.schemas
         /\ \A s \in DOMAIN acc.schemas :
              DOMAIN Patch(acc, payload).schemas[s].tables = DOMAIN acc.schemas[s].tables
<1> DEFINE new == Patch(acc, payload).schemas
<1>1. new = PatchSchemas(acc.schemas, payload.schemas) /\ SchemasShaped(acc.schemas)
  BY PatchValue, Zenon DEF Shaped
<1> HIDE DEF new
<1>2. DOMAIN new = DOMAIN acc.schemas
  BY <1>1, PatchSchemasShape
<1>3. ASSUME NEW s \in DOMAIN acc.schemas
      PROVE  DOMAIN new[s].tables = DOMAIN acc.schemas[s].tables
  <2>1. \/ new[s] = acc.schemas[s]
        \/ new[s].tables = PatchTables(acc.schemas[s].tables, payload.schemas[s].tables)
    BY <1>1, PatchSchemasValue
  <2>2. TablesShaped(acc.schemas[s].tables)
    BY <1>1 DEF SchemasShaped
  <2>. QED
    BY <2>1, <2>2, PatchTablesShape
<1>. QED
  BY <1>2, <1>3 DEF new

LEMMA PatchedTable ==
  ASSUME NEW acc, Shaped(acc), NEW payload,
         NEW s \in DOMAIN acc.schemas, NEW t \in DOMAIN acc.schemas[s].tables
  PROVE  LET old == acc.schemas[s].tables[t]
             new == Patch(acc, payload).schemas[s].tables[t]
             sent == payload.schemas[s].tables[t]
         IN  /\ new.locked = old.locked
             /\ ~Mentions(payload, s, t) => new = old
             /\ Mentions(payload, s, t) =>
                  /\ new.enabled = sent.enabled
                  /\ new.columns = PatchColumns(old.columns, sent.columns)
<1> DEFINE there == acc.schemas[s].tables
           sent == payload.schemas[s].tables
           new == Patch(acc, payload).schemas[s]
<1>1. TablesShaped(there) /\ SchemasShaped(acc.schemas)
  BY DEF Shaped, SchemasShaped
<1>2. /\ s \notin DOMAIN payload.schemas => new = acc.schemas[s]
      /\ s \in DOMAIN payload.schemas => new.tables = PatchTables(there, sent)
  <2>1. new = PatchSchemas(acc.schemas, payload.schemas)[s]
    BY PatchValue, Zenon
  <2>. QED
    BY <1>1, <2>1, PatchSchemasValue
<1> HIDE DEF there, sent, new
<1>3. t \in DOMAIN there
  BY DEF there
<1>4. CASE s \notin DOMAIN payload.schemas
  BY <1>2, <1>4 DEF Mentions, new
<1>5. CASE s \in DOMAIN payload.schemas
  <2>1. /\ new.tables[t].locked = there[t].locked
        /\ t \notin DOMAIN sent => new.tables[t] = there[t]
        /\ t \in DOMAIN sent =>
             /\ new.tables[t].enabled = sent[t].enabled
             /\ new.tables[t].columns = PatchColumns(there[t].columns, sent[t].columns)
    BY <1>1, <1>2, <1>3, <1>5, PatchTablesValue
  <2>. QED
    BY <1>5, <2>1 DEF Mentions, new, there, sent
<1>. QED
  BY <1>4, <1>5

-----------------------------------------------------------------------------
(* What BuildSchemaConfig sends.                                           *)

LEMMA NoMapEmpty == DOMAIN NoMap = {}
BY DEF NoMap

LEMMA mergeColumnsValue ==
  ASSUME NEW policy, NEW there, NEW wanted
  PROVE  LET sent == mergeColumns(policy, there, wanted)
         IN  /\ \A c \in DOMAIN wanted : c \in DOMAIN sent /\ sent[c] = wanted[c]
             /\ DOMAIN wanted = {} => sent = NoMap
             /\ \A c \in DOMAIN there \ DOMAIN wanted :
                  DOMAIN wanted # {} => (c \in DOMAIN sent <=> ~there[c].locked)
BY NoMapEmpty DEF mergeColumns

LEMMA mergeColumnsPolicy ==
  ASSUME NEW policy, NEW there, NEW wanted,
         NEW c \in DOMAIN mergeColumns(policy, there, wanted) \ DOMAIN wanted
  PROVE  mergeColumns(policy, there, wanted)[c].enabled = (policy # "BLOCK_ALL")
BY NoMapEmpty DEF mergeColumns

(* A listed table goes out as specified, with all of its columns.          *)
LEMMA mergeTablesValue ==
  ASSUME NEW policy, NEW there, NEW wanted, SpecTablesShaped(wanted)
  PROVE  LET sent == mergeTables(policy, there, wanted)
         IN  /\ \A t \in DOMAIN wanted :
                  /\ t \in DOMAIN sent
                  /\ sent[t].enabled = wanted[t].enabled /\ sent[t].sync = wanted[t].sync
                  /\ t \notin DOMAIN there => sent[t] = wanted[t]
                  /\ t \in DOMAIN there =>
                       sent[t].columns =
                           mergeColumns(policy, there[t].columns, wanted[t].columns)
             /\ \A t \in DOMAIN there \ DOMAIN wanted :
                  /\ t \in DOMAIN sent <=> ~there[t].locked
                  /\ t \in DOMAIN sent => sent[t] = Disabled
<1> DEFINE Cols(t) == mergeColumns(policy, there[t].columns, wanted[t].columns)
           sent == mergeTables(policy, there, wanted)
<1>1. sent = [t \in DOMAIN wanted \cup {k \in DOMAIN there : ~there[k].locked} |->
                IF t \notin DOMAIN wanted THEN Disabled
                ELSE IF t \notin DOMAIN there THEN wanted[t]
                ELSE [wanted[t] EXCEPT !.columns = Cols(t)]]
  BY DEF mergeTables
<1> HIDE DEF Cols, sent
<1>2. \A t \in DOMAIN wanted : {"enabled", "sync", "columns"} \subseteq DOMAIN wanted[t]
  BY DEF SpecTablesShaped
<1>3. \A t \in DOMAIN wanted :
        /\ t \in DOMAIN sent
        /\ sent[t].enabled = wanted[t].enabled /\ sent[t].sync = wanted[t].sync
        /\ t \notin DOMAIN there => sent[t] = wanted[t]
        /\ t \in DOMAIN there => sent[t].columns = Cols(t)
  BY <1>1, <1>2
<1>4. \A t \in DOMAIN there \ DOMAIN wanted :
        /\ t \in DOMAIN sent <=> ~there[t].locked
        /\ t \in DOMAIN sent => sent[t] = Disabled
  BY <1>1
<1>. QED
  BY <1>3, <1>4 DEF Cols, sent

(* A listed schema is sent as the spec has it or, when it is enabled,      *)
(* merged with what is there.                                              *)
LEMMA PayloadOfListed ==
  ASSUME NEW spec, NEW det, NEW s \in DOMAIN spec.schemas
  PROVE  LET sent == BuildSchemaConfig(spec, det).schemas
             wanted == spec.schemas[s]
         IN  /\ s \in DOMAIN sent
             /\ \/ sent[s] = SchemaFromCR(wanted)
                \/ /\ wanted.enabled
                   /\ sent[s] = [enabled |-> TRUE,
                                  tables  |-> mergeTables(spec.policy, det.schemas[s].tables,
                                                          wanted.tables)]
<1> DEFINE sent == BuildSchemaConfig(spec, det).schemas
<1>1. sent = IF ManagesUnlisted(spec) THEN mergeWithUpstream(spec, det) ELSE fromCR(spec)
  BY DEF BuildSchemaConfig
<1>. QED
  BY <1>1 DEF mergeWithUpstream, fromCR

(* A schema that the spec disables goes out without tables.                *)
LEMMA PayloadOff ==
  ASSUME NEW spec, NEW det, NEW s \in DOMAIN spec.schemas, ~spec.schemas[s].enabled
  PROVE  BuildSchemaConfig(spec, det).schemas[s].tables = NoMap
<1>1. BuildSchemaConfig(spec, det).schemas[s] = SchemaFromCR(spec.schemas[s])
  BY PayloadOfListed, Zenon
<1>2. SchemaFromCR(spec.schemas[s]).tables = NoMap
  BY DEF SchemaFromCR
<1>. QED
  BY <1>1, <1>2, Zenon

(* Whatever the response says, the payload has all that is listed.         *)
LEMMA PayloadListed ==
  ASSUME NEW spec, SpecShaped(spec), NEW det, NEW s \in DOMAIN spec.schemas
  PROVE  LET sent == BuildSchemaConfig(spec, det).schemas
             wanted == spec.schemas[s]
         IN  /\ s \in DOMAIN sent /\ sent[s].enabled = wanted.enabled
             /\ ~wanted.enabled => sent[s].tables = NoMap
             /\ wanted.enabled =>
                  \A t \in DOMAIN wanted.tables :
                    /\ t \in DOMAIN sent[s].tables
                    /\ sent[s].tables[t].enabled = wanted.tables[t].enabled
                    /\ sent[s].tables[t].sync = wanted.tables[t].sync
                    /\ \A c \in DOMAIN wanted.tables[t].columns :
                         /\ c \in DOMAIN sent[s].tables[t].columns
                         /\ sent[s].tables[t].columns[c] = wanted.tables[t].columns[c]
<1> DEFINE sent == BuildSchemaConfig(spec, det).schemas
           wanted == spec.schemas[s]
           merged == mergeTables(spec.policy, det.schemas[s].tables, wanted.tables)
<1>1. wanted.enabled \in BOOLEAN /\ SpecTablesShaped(wanted.tables)
  BY DEF SpecShaped
<1>3. s \in DOMAIN sent /\ (sent[s] = SchemaFromCR(wanted)
                            \/ (wanted.enabled /\ sent[s] = [enabled |-> TRUE, tables |-> merged]))
  BY PayloadOfListed, Zenon
<1> HIDE DEF sent, wanted, merged
<1>4. CASE sent[s] = SchemaFromCR(wanted)
  BY <1>1, <1>3, <1>4, SMTT(30) DEF SchemaFromCR, sent, wanted
<1>5. CASE wanted.enabled /\ sent[s] = [enabled |-> TRUE, tables |-> merged]
  <2>1. \A t \in DOMAIN wanted.tables :
          /\ t \in DOMAIN merged
          /\ merged[t].enabled = wanted.tables[t].enabled
          /\ merged[t].sync = wanted.tables[t].sync
          /\ \A c \in DOMAIN wanted.tables[t].columns :
               /\ c \in DOMAIN merged[t].columns
               /\ merged[t].columns[c] = wanted.tables[t].columns[c]
    BY <1>1, mergeTablesValue, mergeColumnsValue DEF merged
  <2>. QED
    BY <1>1, <1>3, <1>5, <2>1 DEF sent, wanted
<1>. QED
  BY <1>3, <1>4, <1>5

-----------------------------------------------------------------------------
(* All that is listed.                                                     *)

TableAsListed(wanted, there) ==
    /\ there.enabled = wanted.enabled
    /\ wanted.sync # "" => there.sync = wanted.sync
    /\ \A c \in DOMAIN wanted.columns \cap DOMAIN there.columns :
          /\ there.columns[c].enabled = wanted.columns[c].enabled
          /\ wanted.columns[c].hashed => there.columns[c].hashed

SchemaAsListed(wanted, there) ==
    /\ there.enabled = wanted.enabled
    /\ wanted.enabled =>
         \A t \in DOMAIN wanted.tables \cap DOMAIN there.tables :
            TableAsListed(wanted.tables[t], there.tables[t])

LEMMA ListedKeyByKey ==
  ASSUME NEW spec, NEW upstream
  PROVE  ListedAsSpecified(spec, upstream) <=>
           \A s \in DOMAIN spec.schemas \cap DOMAIN upstream.schemas :
              SchemaAsListed(spec.schemas[s], upstream.schemas[s])
BY Zenon DEF ListedAsSpecified, SchemaAsListed, TableAsListed

(* A table that takes what was sent for it.                                *)
LEMMA TableTakes ==
  ASSUME NEW there, TablesShaped(there), NEW sent, NEW t \in DOMAIN there \cap DOMAIN sent,
         NEW want, sent[t].enabled = want.enabled, sent[t].sync = want.sync,
         \A c \in DOMAIN want.columns :
             c \in DOMAIN sent[t].columns /\ sent[t].columns[c] = want.columns[c]
  PROVE  TableAsListed(want, PatchTables(there, sent)[t])
<1> DEFINE new == PatchTables(there, sent)[t]
           cols == there[t].columns
           out == sent[t].columns
<1>1. ColumnsShaped(cols)
  BY DEF TablesShaped
<1>2. /\ new.enabled = sent[t].enabled
      /\ new.columns = PatchColumns(cols, out)
  BY PatchTablesValue
<1>3. \A c \in DOMAIN want.columns : c \in DOMAIN out /\ out[c] = want.columns[c]
  OBVIOUS
<1> HIDE DEF new, cols, out
<1>4. ASSUME NEW c \in DOMAIN cols \cap DOMAIN out
      PROVE  /\ PatchColumns(cols, out)[c].enabled = out[c].enabled
             /\ out[c].hashed => PatchColumns(cols, out)[c].hashed
  <2>1. PatchColumns(cols, out)[c].enabled = out[c].enabled
    BY <1>1, PatchColumnsValue
  <2>2. PatchColumns(cols, out)[c].hashed = (cols[c].hashed \/ out[c].hashed)
    BY <1>1, PatchColumnsValue
  <2>. QED
    BY <2>1, <2>2, Zenon
<1>5. DOMAIN PatchColumns(cols, out) = DOMAIN cols
  BY <1>1, PatchColumnsShape
<1>6. \A c \in DOMAIN want.columns \cap DOMAIN new.columns :
          /\ new.columns[c].enabled = want.columns[c].enabled
          /\ want.columns[c].hashed => new.columns[c].hashed
  BY <1>2, <1>3, <1>4, <1>5
<1>7. want.sync # "" => new.sync = want.sync
  <2>1. Given(sent[t].sync) => PatchTables(there, sent)[t].sync = sent[t].sync
    BY PatchTablesSync
  <2>. QED
    BY <2>1, Zenon DEF new, Given
<1>8. TableAsListed(want, new)
  BY <1>2, <1>6, <1>7, Zenon DEF TableAsListed
<1>. QED
  BY <1>8 DEF new

(* Whatever response the payload was built from, Fivetran then has all     *)
(* that is listed, and that it knows, as it is listed.                     *)
THEOREM AppliedAsListed ==
  ASSUME NEW spec, SpecShaped(spec), NEW acc, Shaped(acc), NEW det
  PROVE  ListedAsSpecified(spec, Patch(acc, BuildSchemaConfig(spec, det)))
<1> DEFINE sent == BuildSchemaConfig(spec, det).schemas
           new == Patch(acc, BuildSchemaConfig(spec, det)).schemas
<1>1. new = PatchSchemas(acc.schemas, sent) /\ SchemasShaped(acc.schemas)
  BY PatchValue, Zenon DEF Shaped
<1>2. ASSUME NEW s \in DOMAIN spec.schemas \cap DOMAIN new
      PROVE  SchemaAsListed(spec.schemas[s], new[s])
  <2>1. s \in DOMAIN sent /\ sent[s].enabled = spec.schemas[s].enabled
    BY PayloadListed, SMTT(30)
  <2> HIDE DEF new, sent
  <2> s \in DOMAIN acc.schemas
    BY <1>1, PatchSchemasShape
  <2>2. /\ new[s].enabled = sent[s].enabled
        /\ new[s].tables = PatchTables(acc.schemas[s].tables, sent[s].tables)
    BY <1>1, <2>1, PatchSchemasValue
  <2>3. TablesShaped(acc.schemas[s].tables)
    BY <1>1 DEF SchemasShaped
  <2>4. ASSUME spec.schemas[s].enabled,
               NEW t \in DOMAIN spec.schemas[s].tables \cap DOMAIN new[s].tables
        PROVE  TableAsListed(spec.schemas[s].tables[t], new[s].tables[t])
    <3>1. /\ t \in DOMAIN sent[s].tables
          /\ sent[s].tables[t].enabled = spec.schemas[s].tables[t].enabled
          /\ sent[s].tables[t].sync = spec.schemas[s].tables[t].sync
          /\ \A c \in DOMAIN spec.schemas[s].tables[t].columns :
               /\ c \in DOMAIN sent[s].tables[t].columns
               /\ sent[s].tables[t].columns[c] = spec.schemas[s].tables[t].columns[c]
      BY <2>4, PayloadListed DEF sent
    <3>2. t \in DOMAIN acc.schemas[s].tables
      BY <2>2, <2>3, PatchTablesShape
    <3>. QED
      BY <2>2, <2>3, <3>1, <3>2, TableTakes
  <2>. QED
    BY <2>1, <2>2, <2>4 DEF SchemaAsListed
<1>. QED
  BY <1>2, ListedKeyByKey

(* With all that is listed in place, the verification accepts exactly when *)
(* all that is wanted has been discovered.                                 *)
THEOREM ComparesExactly ==
  ASSUME NEW spec, SpecShaped(spec), NEW upstream, ListedAsSpecified(spec, upstream),
         spec.policy # "" => upstream.policy = spec.policy
  PROVE  CompareSchemaWithCR(spec, upstream) <=> AllDiscovered(spec, upstream)
<1> DEFINE want == spec.schemas
           there == upstream.schemas
<1>1. \A s \in DOMAIN want \cap DOMAIN there :
        /\ there[s].enabled = want[s].enabled
        /\ want[s].enabled =>
             \A t \in DOMAIN want[s].tables \cap DOMAIN there[s].tables :
               /\ there[s].tables[t].enabled = want[s].tables[t].enabled
               /\ want[s].tables[t].sync # "" =>
                    there[s].tables[t].sync = want[s].tables[t].sync
  BY ListedKeyByKey, Zenon DEF SchemaAsListed, TableAsListed
<1>2. \A s \in DOMAIN want \cap DOMAIN there : want[s].enabled =>
        (compareTablesWithFivetran(there[s].tables, want[s].tables) <=>
           \A t \in DOMAIN want[s].tables : want[s].tables[t].enabled =>
              t \in DOMAIN there[s].tables)
  BY <1>1, Zenon DEF compareTablesWithFivetran
<1>3. CompareSchemaWithCR(spec, upstream) <=>
        \A s \in DOMAIN want : want[s].enabled =>
          /\ s \in DOMAIN there
          /\ \A t \in DOMAIN want[s].tables : want[s].tables[t].enabled =>
               t \in DOMAIN there[s].tables
  BY <1>1, <1>2, Zenon DEF CompareSchemaWithCR
<1>4. AllDiscovered(spec, upstream) <=>
        \A s \in DOMAIN want : want[s].enabled =>
          /\ s \in DOMAIN there
          /\ \A t \in DOMAIN want[s].tables : want[s].tables[t].enabled =>
               t \in DOMAIN there[s].tables
  BY Zenon DEF AllDiscovered, validateCRAgainstUpstream, EnabledIn
<1>. QED
  BY <1>3, <1>4, Zenon

-----------------------------------------------------------------------------
(* What is not listed.                                                     *)

(* The tables whose columns a payload has to say something about.          *)
ManagesColumns(spec, s, t) ==
    /\ s \in DOMAIN spec.schemas /\ spec.schemas[s].enabled
    /\ t \in DOMAIN spec.schemas[s].tables /\ spec.schemas[s].tables[t].enabled
    /\ DOMAIN spec.schemas[s].tables[t].columns # {}

(* The response knows what the payload has to mention, and calls nothing   *)
(* locked that is not.                                                     *)
TableCovered(spec, det, acc, s, t) ==
    /\ t \in DOMAIN det.schemas[s].tables
    /\ det.schemas[s].tables[t].locked => acc.schemas[s].tables[t].locked
    /\ ManagesColumns(spec, s, t) =>
         LET known == det.schemas[s].tables[t].columns
             there == acc.schemas[s].tables[t].columns
         IN  \A c \in DOMAIN there :
               c \in DOMAIN known /\ (known[c].locked => there[c].locked)

Covers(spec, det, acc) ==
    \A s \in DOMAIN acc.schemas :
        /\ s \in DOMAIN det.schemas
        /\ \A t \in DOMAIN acc.schemas[s].tables : TableCovered(spec, det, acc, s, t)

(* UnlistedFollowPolicy for the columns of a table, and for a table.       *)
ColumnsFollow(policy, wanted, columns) ==
    \A c \in DOMAIN columns \ DOMAIN wanted :
        columns[c].locked \/ columns[c].enabled = (policy # "BLOCK_ALL")

TableFollows(spec, s, t, tab) ==
    IF t \notin DOMAIN spec.schemas[s].tables
    THEN tab.locked \/ ~tab.enabled
    ELSE LET wanted == spec.schemas[s].tables[t].columns
         IN  tab.enabled /\ DOMAIN wanted # {} =>
               ColumnsFollow(spec.policy, wanted, tab.columns)

LEMMA FollowsKeyByKey ==
  ASSUME NEW spec, NEW upstream, ManagesUnlisted(spec)
  PROVE  UnlistedFollowPolicy(spec, upstream) <=>
           \A s \in DOMAIN upstream.schemas :
             IF s \notin DOMAIN spec.schemas
             THEN ~upstream.schemas[s].enabled
             ELSE spec.schemas[s].enabled =>
                    \A t \in DOMAIN upstream.schemas[s].tables :
                       TableFollows(spec, s, t, upstream.schemas[s].tables[t])
BY Zenon DEF UnlistedFollowPolicy, TableFollows, ColumnsFollow

(* What the payload says of a schema that Fivetran has reported.           *)
LEMMA PayloadManaged ==
  ASSUME NEW spec, ManagesUnlisted(spec), NEW det, NEW s \in DOMAIN det.schemas
  PROVE  LET sent == BuildSchemaConfig(spec, det).schemas
         IN  /\ s \in DOMAIN sent
             /\ s \notin DOMAIN spec.schemas => sent[s] = [enabled |-> FALSE, tables |-> NoMap]
             /\ s \in DOMAIN spec.schemas /\ spec.schemas[s].enabled =>
                  sent[s].tables = mergeTables(spec.policy, det.schemas[s].tables,
                                               spec.schemas[s].tables)
<1> DEFINE sent == BuildSchemaConfig(spec, det).schemas
           merged == mergeTables(spec.policy, det.schemas[s].tables, spec.schemas[s].tables)
<1>1. sent = mergeWithUpstream(spec, det)
  BY DEF BuildSchemaConfig
<1>2. /\ s \in DOMAIN sent
      /\ s \notin DOMAIN spec.schemas => sent[s] = [enabled |-> FALSE, tables |-> NoMap]
      /\ s \in DOMAIN spec.schemas /\ spec.schemas[s].enabled =>
           sent[s] = [enabled |-> TRUE, tables |-> merged]
  BY <1>1 DEF mergeWithUpstream
<1> HIDE DEF sent, merged
<1>. QED
  BY <1>2 DEF sent, merged

(* An unlisted table is disabled, or locked.                               *)
LEMMA UnlistedTable ==
  ASSUME NEW spec, SpecShaped(spec), ManagesUnlisted(spec), NEW acc, Shaped(acc), NEW det,
         NEW s \in DOMAIN acc.schemas, NEW t \in DOMAIN acc.schemas[s].tables,
         s \in DOMAIN det.schemas, TableCovered(spec, det, acc, s, t),
         s \in DOMAIN spec.schemas, spec.schemas[s].enabled,
         t \notin DOMAIN spec.schemas[s].tables
  PROVE  LET new == Patch(acc, BuildSchemaConfig(spec, det)).schemas[s].tables[t]
         IN  new.locked \/ ~new.enabled
<1> DEFINE payload == BuildSchemaConfig(spec, det)
           new == Patch(acc, payload).schemas[s].tables[t]
           there == det.schemas[s].tables
           old == acc.schemas[s].tables[t]
<1>1. /\ s \in DOMAIN payload.schemas
      /\ payload.schemas[s].tables = mergeTables(spec.policy, there, spec.schemas[s].tables)
  BY PayloadManaged
<1>2. t \in DOMAIN there /\ (there[t].locked => old.locked)
  BY DEF TableCovered
<1>3. SpecTablesShaped(spec.schemas[s].tables)
  BY DEF SpecShaped
<1>4. /\ new.locked = old.locked
      /\ Mentions(payload, s, t) => new.enabled = payload.schemas[s].tables[t].enabled
  BY PatchedTable
<1> HIDE DEF new, payload, there, old
<1>5. ~there[t].locked => Mentions(payload, s, t) /\ payload.schemas[s].tables[t] = Disabled
  BY <1>1, <1>2, <1>3, mergeTablesValue DEF Mentions
<1>6. Disabled.enabled = FALSE
  BY DEF Disabled
<1>7. new.locked \/ ~new.enabled
  BY <1>2, <1>4, <1>5, <1>6, Zenon
<1>. QED
  BY <1>7 DEF new, payload

(* The unlisted columns of a table with listed ones follow the policy, or  *)
(* are locked.                                                             *)
LEMMA UnlistedColumns ==
  ASSUME NEW spec, SpecShaped(spec), ManagesUnlisted(spec), NEW acc, Shaped(acc), NEW det,
         NEW s \in DOMAIN acc.schemas, NEW t \in DOMAIN acc.schemas[s].tables,
         s \in DOMAIN det.schemas, TableCovered(spec, det, acc, s, t),
         ManagesColumns(spec, s, t)
  PROVE  LET new == Patch(acc, BuildSchemaConfig(spec, det)).schemas[s].tables[t]
         IN  ColumnsFollow(spec.policy, spec.schemas[s].tables[t].columns, new.columns)
<1> DEFINE payload == BuildSchemaConfig(spec, det)
           new == Patch(acc, payload).schemas[s].tables[t].columns
           sent == payload.schemas[s].tables[t].columns
           there == det.schemas[s].tables
           known == there[t].columns
           wanted == spec.schemas[s].tables[t].columns
           old == acc.schemas[s].tables[t].columns
<1>1. /\ s \in DOMAIN spec.schemas /\ spec.schemas[s].enabled
      /\ t \in DOMAIN spec.schemas[s].tables /\ DOMAIN wanted # {}
  BY DEF ManagesColumns
<1>2. /\ s \in DOMAIN payload.schemas
      /\ payload.schemas[s].tables = mergeTables(spec.policy, there, spec.schemas[s].tables)
  BY <1>1, PayloadManaged
<1>3. /\ t \in DOMAIN there
      /\ \A c \in DOMAIN old : c \in DOMAIN known /\ (known[c].locked => old[c].locked)
  BY DEF TableCovered
<1>4. SpecTablesShaped(spec.schemas[s].tables)
  BY <1>1 DEF SpecShaped
<1>5. t \in DOMAIN payload.schemas[s].tables /\ sent = mergeColumns(spec.policy, known, wanted)
  <2> DEFINE merged == mergeTables(spec.policy, there, spec.schemas[s].tables)
  <2> HIDE DEF there
  <2>1. t \in DOMAIN merged /\ merged[t].columns = mergeColumns(spec.policy, there[t].columns, wanted)
    BY <1>1, <1>3, <1>4, mergeTablesValue
  <2>. QED
    BY <1>2, <2>1, Zenon
<1>6. new = PatchColumns(old, sent)
  <2>1. Mentions(payload, s, t)
    BY <1>2, <1>5 DEF Mentions
  <2> HIDE DEF payload
  <2>. QED
    BY <2>1, PatchedTable
<1>7. ColumnsShaped(old)
  BY DEF Shaped, SchemasShaped, TablesShaped
<1> HIDE DEF new, payload, sent, there, known, wanted, old
<1>8. ASSUME NEW c \in DOMAIN new \ DOMAIN wanted
      PROVE  new[c].locked \/ new[c].enabled = (spec.policy # "BLOCK_ALL")
  <2>1. c \in DOMAIN old
    BY <1>6, <1>7, PatchColumnsShape
  <2>2. new[c].locked = old[c].locked /\ (c \in DOMAIN sent => new[c].enabled = sent[c].enabled)
    BY <1>6, <1>7, <2>1, PatchColumnsValue
  <2>3. c \in DOMAIN known /\ (known[c].locked => old[c].locked)
    BY <1>3, <2>1
  <2>4. ~known[c].locked => c \in DOMAIN sent /\ sent[c].enabled = (spec.policy # "BLOCK_ALL")
    <3>1. ~known[c].locked => c \in DOMAIN sent
      BY <1>1, <1>5, <2>3, mergeColumnsValue
    <3>2. c \in DOMAIN sent => sent[c].enabled = (spec.policy # "BLOCK_ALL")
      BY <1>5, mergeColumnsPolicy
    <3>. QED
      BY <3>1, <3>2
  <2>. QED
    BY <2>2, <2>3, <2>4
<1>9. ColumnsFollow(spec.policy, wanted, new)
  BY <1>8 DEF ColumnsFollow
<1>. QED
  BY <1>9 DEF new, payload, wanted

(* A payload that is built from a response covering the configuration      *)
(* leaves nothing unlisted in a state that the policy forbids.             *)
THEOREM AppliedWithPolicy ==
  ASSUME NEW spec, SpecShaped(spec), NEW acc, Shaped(acc), NEW det, Covers(spec, det, acc)
  PROVE  UnlistedFollowPolicy(spec, Patch(acc, BuildSchemaConfig(spec, det)))
<1> DEFINE payload == BuildSchemaConfig(spec, det)
           new == Patch(acc, payload).schemas
<1>1. CASE ~ManagesUnlisted(spec)
  BY <1>1 DEF UnlistedFollowPolicy
<1>2. CASE ManagesUnlisted(spec)
  <2>1. /\ DOMAIN new = DOMAIN acc.schemas
        /\ \A s \in DOMAIN acc.schemas : DOMAIN new[s].tables = DOMAIN acc.schemas[s].tables
    BY PatchKeys
  <2>2. ASSUME NEW s \in DOMAIN new, s \notin DOMAIN spec.schemas
        PROVE  ~new[s].enabled
    <3>1. s \in DOMAIN det.schemas /\ s \in DOMAIN acc.schemas
      BY <2>1 DEF Covers
    <3>2. s \in DOMAIN payload.schemas /\ payload.schemas[s].enabled = FALSE
      BY <1>2, <2>2, <3>1, PayloadManaged
    <3>3. new = PatchSchemas(acc.schemas, payload.schemas) /\ SchemasShaped(acc.schemas)
      BY PatchValue, Zenon DEF Shaped
    <3> HIDE DEF new, payload
    <3>4. new[s].enabled = payload.schemas[s].enabled
      BY <3>1, <3>2, <3>3, PatchSchemasValue
    <3>. QED
      BY <3>2, <3>4
  <2>3. ASSUME NEW s \in DOMAIN new, s \in DOMAIN spec.schemas, spec.schemas[s].enabled,
               NEW t \in DOMAIN new[s].tables
        PROVE  TableFollows(spec, s, t, new[s].tables[t])
    <3>1. /\ s \in DOMAIN acc.schemas /\ t \in DOMAIN acc.schemas[s].tables
          /\ s \in DOMAIN det.schemas /\ TableCovered(spec, det, acc, s, t)
      BY <2>1, <2>3 DEF Covers
    <3>2. CASE t \notin DOMAIN spec.schemas[s].tables
      BY <1>2, <2>3, <3>1, <3>2, UnlistedTable DEF TableFollows
    <3>3. ASSUME t \in DOMAIN spec.schemas[s].tables, new[s].tables[t].enabled,
                 DOMAIN spec.schemas[s].tables[t].columns # {}
          PROVE  ColumnsFollow(spec.policy, spec.schemas[s].tables[t].columns,
                               new[s].tables[t].columns)
      <4>1. SchemaAsListed(spec.schemas[s], new[s])
        BY <2>3, AppliedAsListed, ListedKeyByKey
      <4>2. new[s].tables[t].enabled = spec.schemas[s].tables[t].enabled
        BY <2>3, <3>3, <4>1, Zenon DEF SchemaAsListed, TableAsListed
      <4>3. ManagesColumns(spec, s, t)
        BY <2>3, <3>3, <4>2 DEF ManagesColumns
      <4>. QED
        BY <1>2, <3>1, <4>3, UnlistedColumns
    <3>. QED
      BY <3>2, <3>3 DEF TableFollows
  <2> HIDE DEF new, payload
  <2>4. \A s \in DOMAIN new :
          IF s \notin DOMAIN spec.schemas
          THEN ~new[s].enabled
          ELSE spec.schemas[s].enabled =>
                 \A t \in DOMAIN new[s].tables : TableFollows(spec, s, t, new[s].tables[t])
    BY <2>2, <2>3
  <2>. QED
    BY <1>2, <2>4, FollowsKeyByKey DEF new, payload
<1>. QED
  BY <1>1, <1>2

-----------------------------------------------------------------------------
(* What stays as it is.                                                    *)

(* The payload leaves the columns alone where the spec lists none.         *)
LEMMA PayloadNoColumns ==
  ASSUME NEW spec, SpecShaped(spec), NEW det, NEW s \in DOMAIN spec.schemas,
         NEW t \in DOMAIN spec.schemas[s].tables,
         spec.schemas[s].tables[t].columns = NoMap,
         Mentions(BuildSchemaConfig(spec, det), s, t)
  PROVE  BuildSchemaConfig(spec, det).schemas[s].tables[t].columns = NoMap
<1> DEFINE sent == BuildSchemaConfig(spec, det).schemas
           wanted == spec.schemas[s]
           there == det.schemas[s].tables
           merged == mergeTables(spec.policy, there, wanted.tables)
<1>1. SpecTablesShaped(wanted.tables) /\ t \in DOMAIN sent[s].tables
  BY DEF SpecShaped, Mentions
<1>2. sent = IF ManagesUnlisted(spec) THEN mergeWithUpstream(spec, det) ELSE fromCR(spec)
  BY DEF BuildSchemaConfig
<1>3. sent[s] = SchemaFromCR(wanted) \/ sent[s] = [enabled |-> TRUE, tables |-> merged]
  BY <1>2 DEF mergeWithUpstream, fromCR
<1> HIDE DEF sent, wanted, there, merged
<1>4. CASE sent[s] = SchemaFromCR(wanted)
  <2>1. sent[s].tables = wanted.tables
    BY <1>1, <1>4, NoMapEmpty DEF SchemaFromCR
  <2>. QED
    BY <2>1 DEF sent, wanted
<1>5. CASE sent[s] = [enabled |-> TRUE, tables |-> merged]
  <2>1. t \in DOMAIN wanted.tables /\ wanted.tables[t].columns = NoMap
    BY DEF wanted
  <2>2. \/ merged[t] = wanted.tables[t]
        \/ merged[t].columns = mergeColumns(spec.policy, there[t].columns, wanted.tables[t].columns)
    BY <1>1, <2>1, mergeTablesValue DEF merged
  <2>3. merged[t].columns = NoMap
    BY <2>1, <2>2, NoMapEmpty, mergeColumnsValue
  <2>. QED
    BY <1>5, <2>3 DEF sent
<1>. QED
  BY <1>3, <1>4, <1>5

LEMMA PatchNoColumns ==
  ASSUME NEW there, ColumnsShaped(there) PROVE PatchColumns(there, NoMap) = there
BY NoMapEmpty DEF PatchColumns, ColumnsShaped

(* A table that lists no columns keeps the ones it has.                    *)
LEMMA ColumnsKept ==
  ASSUME NEW spec, SpecShaped(spec), NEW acc, Shaped(acc), NEW det,
         NEW s \in DOMAIN acc.schemas, NEW t \in DOMAIN acc.schemas[s].tables,
         s \in DOMAIN spec.schemas, t \in DOMAIN spec.schemas[s].tables,
         spec.schemas[s].tables[t].columns = NoMap
  PROVE  Patch(acc, BuildSchemaConfig(spec, det)).schemas[s].tables[t].columns =
           acc.schemas[s].tables[t].columns
<1> DEFINE payload == BuildSchemaConfig(spec, det)
           old == acc.schemas[s].tables[t]
           new == Patch(acc, payload).schemas[s].tables[t]
<1>1. /\ ~Mentions(payload, s, t) => new = old
      /\ Mentions(payload, s, t) =>
           new.columns = PatchColumns(old.columns, payload.schemas[s].tables[t].columns)
  BY PatchedTable
<1>2. Mentions(payload, s, t) => payload.schemas[s].tables[t].columns = NoMap
  BY PayloadNoColumns
<1>3. ColumnsShaped(old.columns)
  BY DEF Shaped, SchemasShaped, TablesShaped
<1> HIDE DEF payload, old, new
<1>4. new.columns = old.columns
  BY <1>1, <1>2, <1>3, PatchNoColumns
<1>. QED
  BY <1>4 DEF payload, old, new

(* Under ALLOW_ALL the payload mentions nothing that is not listed.        *)
LEMMA PayloadOpen ==
  ASSUME NEW spec, ~ManagesUnlisted(spec), NEW det, NEW s
  PROVE  /\ s \notin DOMAIN spec.schemas => s \notin DOMAIN BuildSchemaConfig(spec, det).schemas
         /\ \A t : Mentions(BuildSchemaConfig(spec, det), s, t) =>
              s \in DOMAIN spec.schemas /\ t \in DOMAIN spec.schemas[s].tables
<1>1. BuildSchemaConfig(spec, det).schemas = fromCR(spec)
  BY DEF BuildSchemaConfig
<1>2. \A t : s \in DOMAIN spec.schemas /\ t \in DOMAIN SchemaFromCR(spec.schemas[s]).tables =>
        t \in DOMAIN spec.schemas[s].tables
  BY NoMapEmpty DEF SchemaFromCR
<1>. QED
  BY <1>1, <1>2 DEF fromCR, Mentions

(* ValidateLockedColumns finds every locked column that the spec disables. *)
LEMMA NoViolation ==
  ASSUME NEW spec, NEW upstream, LockedColumnViolations(spec, upstream) = {},
         NEW s \in DOMAIN spec.schemas, spec.schemas[s].enabled,
         NEW t \in DOMAIN spec.schemas[s].tables,
         NEW c \in DOMAIN spec.schemas[s].tables[t].columns,
         s \in DOMAIN upstream.schemas, t \in DOMAIN upstream.schemas[s].tables,
         c \in DOMAIN upstream.schemas[s].tables[t].columns,
         upstream.schemas[s].tables[t].columns[c].locked
  PROVE  spec.schemas[s].tables[t].columns[c].enabled
<1> DEFINE Listed(k) == {u \in DOMAIN spec.schemas[k].tables :
                           DOMAIN spec.schemas[k].tables[u].columns # {}}
           Bad(p) == {k \in DOMAIN spec.schemas[p[1]].tables[p[2]].columns :
                        /\ ~spec.schemas[p[1]].tables[p[2]].columns[k].enabled
                        /\ p[1] \in DOMAIN upstream.schemas
                        /\ p[2] \in DOMAIN upstream.schemas[p[1]].tables
                        /\ k \in DOMAIN upstream.schemas[p[1]].tables[p[2]].columns
                        /\ upstream.schemas[p[1]].tables[p[2]].columns[k].locked}
<1> SUFFICES ASSUME ~spec.schemas[s].tables[t].columns[c].enabled PROVE FALSE
  OBVIOUS
<1>1. TablesWithColumns(spec) = UNION {{k} \X Listed(k) : k \in EnabledIn(spec.schemas)}
  BY DEF TablesWithColumns
<1>2. t \in Listed(s) /\ s \in EnabledIn(spec.schemas)
  BY DEF EnabledIn
<1>3. LockedColumnViolations(spec, upstream) =
        UNION {{p} \X Bad(p) : p \in TablesWithColumns(spec)}
  BY Zenon DEF LockedColumnViolations
<1>4. c \in Bad(<<s, t>>)
  OBVIOUS
<1> HIDE DEF Listed, Bad
<1>5. <<s, t>> \in TablesWithColumns(spec)
  BY <1>1, <1>2
<1>6. ASSUME NEW p \in TablesWithColumns(spec), c \in Bad(p)
      PROVE  <<p, c>> \in LockedColumnViolations(spec, upstream)
  <2>1. <<p, c>> \in {p} \X Bad(p)
    BY <1>6
  <2>. QED
    BY <1>3, <2>1, Zenon
<1>7. <<<<s, t>>, c>> \in LockedColumnViolations(spec, upstream)
  BY <1>4, <1>5, <1>6
<1>. QED
  BY <1>7

(* Tables are only sent for schemas that the spec enables.                 *)
LEMMA PayloadMentioned ==
  ASSUME NEW spec, SpecShaped(spec), ManagesUnlisted(spec), NEW det,
         NEW s \in DOMAIN det.schemas, NEW t, Mentions(BuildSchemaConfig(spec, det), s, t)
  PROVE  s \in DOMAIN spec.schemas /\ spec.schemas[s].enabled
<1> DEFINE sent == BuildSchemaConfig(spec, det).schemas
<1>1. t \in DOMAIN sent[s].tables
  BY Zenon DEF Mentions
<1>2. s \notin DOMAIN spec.schemas => sent[s] = [enabled |-> FALSE, tables |-> NoMap]
  BY PayloadManaged, ZenonT(30)
<1>3. s \in DOMAIN spec.schemas /\ ~spec.schemas[s].enabled => sent[s].tables = NoMap
  BY PayloadOff, Zenon
<1>4. [enabled |-> FALSE, tables |-> NoMap].tables = NoMap
  OBVIOUS
<1> HIDE DEF sent
<1>5. sent[s].tables # NoMap
  BY <1>1, NoMapEmpty
<1>6. s \in DOMAIN spec.schemas
  BY <1>2, <1>4, <1>5
<1>. QED
  BY <1>3, <1>5, <1>6, Zenon

(* A locked column is mentioned only where the spec lists it.              *)
SendsLocked(spec, det, s, t, c) ==
  /\ s \in DOMAIN det.schemas /\ t \in DOMAIN det.schemas[s].tables
  /\ c \in DOMAIN det.schemas[s].tables[t].columns
  /\ det.schemas[s].tables[t].columns[c].locked
  /\ Mentions(BuildSchemaConfig(spec, det), s, t)
  /\ c \in DOMAIN BuildSchemaConfig(spec, det).schemas[s].tables[t].columns

LEMMA PayloadLockedColumn ==
  ASSUME NEW spec, SpecShaped(spec), ManagesUnlisted(spec), NEW det,
         NEW s, NEW t, NEW c, SendsLocked(spec, det, s, t, c)
  PROVE  /\ s \in DOMAIN spec.schemas /\ spec.schemas[s].enabled
         /\ t \in DOMAIN spec.schemas[s].tables
         /\ c \in DOMAIN spec.schemas[s].tables[t].columns
         /\ BuildSchemaConfig(spec, det).schemas[s].tables[t].columns[c] =
              spec.schemas[s].tables[t].columns[c]
<1> DEFINE sent == BuildSchemaConfig(spec, det).schemas
           there == det.schemas[s].tables
           wanted == spec.schemas[s].tables
<1> USE DEF SendsLocked
<1>1. t \in DOMAIN sent[s].tables
  BY DEF Mentions
<1>2. s \in DOMAIN spec.schemas /\ spec.schemas[s].enabled
  BY PayloadMentioned, Zenon
<1>3. sent[s].tables = mergeTables(spec.policy, there, wanted) /\ SpecTablesShaped(wanted)
  BY <1>2, PayloadManaged, SMTT(30) DEF SpecShaped
<1> HIDE DEF sent
<1>4. t \in DOMAIN wanted
  <2>1. t \notin DOMAIN wanted => sent[s].tables[t] = Disabled
    BY <1>1, <1>3, mergeTablesValue
  <2>2. DOMAIN Disabled.columns = {}
    BY NoMapEmpty DEF Disabled
  <2>. QED
    BY <2>1, <2>2 DEF sent
<1>5. sent[s].tables[t].columns = mergeColumns(spec.policy, there[t].columns, wanted[t].columns)
  BY <1>3, <1>4, mergeTablesValue, SMTT(30)
<1>6. c \in DOMAIN wanted[t].columns /\ sent[s].tables[t].columns[c] = wanted[t].columns[c]
  <2> DEFINE cols == sent[s].tables[t].columns
             known == there[t].columns
             want == wanted[t].columns
  <2>1. cols = mergeColumns(spec.policy, known, want) /\ c \in DOMAIN cols
    BY <1>5 DEF sent
  <2>2. c \in DOMAIN known /\ known[c].locked
    OBVIOUS
  <2> HIDE DEF cols, known, want
  <2>3. DOMAIN want # {}
    BY <2>1, NoMapEmpty, Zenon DEF mergeColumns
  <2>4. c \in DOMAIN want
    BY <2>1, <2>2, <2>3, mergeColumnsValue
  <2>5. cols[c] = want[c]
    BY <2>1, <2>4, mergeColumnsValue
  <2>. QED
    BY <2>4, <2>5 DEF cols, want
<1>. QED
  BY <1>2, <1>4, <1>6 DEF sent

(* And a locked table only where the spec lists it.                        *)
LEMMA PayloadLockedTable ==
  ASSUME NEW spec, SpecShaped(spec), ManagesUnlisted(spec), NEW det,
         NEW s \in DOMAIN det.schemas, NEW t \in DOMAIN det.schemas[s].tables,
         det.schemas[s].tables[t].locked, Mentions(BuildSchemaConfig(spec, det), s, t)
  PROVE  t \in DOMAIN spec.schemas[s].tables
<1> DEFINE sent == BuildSchemaConfig(spec, det).schemas
           there == det.schemas[s].tables
           wanted == spec.schemas[s].tables
<1>1. t \in DOMAIN sent[s].tables
  BY DEF Mentions
<1>2. s \in DOMAIN spec.schemas /\ spec.schemas[s].enabled
  BY PayloadMentioned, Zenon
<1>3. sent[s].tables = mergeTables(spec.policy, there, wanted) /\ SpecTablesShaped(wanted)
  BY <1>2, PayloadManaged DEF SpecShaped
<1>. QED
  BY <1>1, <1>3, mergeTablesValue

-----------------------------------------------------------------------------
(* Applying a payload again.                                               *)

LEMMA PatchColumnsTwice ==
  ASSUME NEW there, ColumnsShaped(there), NEW sent
  PROVE  PatchColumns(PatchColumns(there, sent), sent) = PatchColumns(there, sent)
<1> DEFINE once == PatchColumns(there, sent)
           twice == PatchColumns(once, sent)
           Set(col, c) == [col EXCEPT !.enabled = sent[c].enabled, !.hashed = @ \/ sent[c].hashed]
<1>1. ASSUME NEW c \in DOMAIN there PROVE Set(Set(there[c], c), c) = Set(there[c], c)
  BY Zenon DEF ColumnsShaped
<1>2. once = [c \in DOMAIN there |-> IF c \in DOMAIN sent THEN Set(there[c], c) ELSE there[c]]
  BY DEF PatchColumns
<1>3. twice = [c \in DOMAIN once |-> IF c \in DOMAIN sent THEN Set(once[c], c) ELSE once[c]]
  BY DEF PatchColumns
<1> HIDE DEF Set, once, twice
<1>4. twice = once
  BY <1>1, <1>2, <1>3
<1>. QED
  BY <1>4 DEF once, twice

LEMMA PatchTablesTwice ==
  ASSUME NEW there, TablesShaped(there), NEW sent
  PROVE  PatchTables(PatchTables(there, sent), sent) = PatchTables(there, sent)
<1> DEFINE once == PatchTables(there, sent)
           twice == PatchTables(once, sent)
           Cols(tab, t) == PatchColumns(tab.columns, sent[t].columns)
           Set(tab, t) == [tab EXCEPT !.enabled = sent[t].enabled,
                                      !.sync = IF sent[t].sync = "" THEN @ ELSE sent[t].sync,
                                      !.columns = PatchColumns(@, sent[t].columns)]
<1>1. ASSUME NEW t \in DOMAIN there PROVE Set(Set(there[t], t), t) = Set(there[t], t)
  <2> DEFINE tab == there[t]
             set == Set(tab, t)
  <2>1. /\ {"enabled", "sync", "columns"} \subseteq DOMAIN tab
        /\ ColumnsShaped(tab.columns)
    BY DEF TablesShaped
  <2>2. PatchColumns(Cols(tab, t), sent[t].columns) = Cols(tab, t)
    BY <2>1, PatchColumnsTwice
  <2>3. set = [tab EXCEPT !.enabled = sent[t].enabled,
                          !.sync = IF sent[t].sync = "" THEN @ ELSE sent[t].sync,
                          !.columns = Cols(tab, t)]
    OBVIOUS
  <2>4. /\ set.enabled = sent[t].enabled /\ set.columns = Cols(tab, t)
        /\ DOMAIN set = DOMAIN tab
        /\ (IF sent[t].sync = "" THEN set.sync ELSE sent[t].sync) = set.sync
    BY <2>1, <2>3, Zenon
  <2>5. PatchColumns(set.columns, sent[t].columns) = set.columns
    BY <2>2, <2>4, Zenon
  <2>6. set = [k \in DOMAIN set |-> set[k]]
    BY <2>3, Zenon
  <2> HIDE DEF set
  <2>7. Set(set, t) = set
    BY <2>1, <2>4, <2>5, <2>6, Zenon
  <2>. QED
    BY <2>7 DEF set
<1>2. once = [t \in DOMAIN there |-> IF t \in DOMAIN sent THEN Set(there[t], t) ELSE there[t]]
  BY DEF PatchTables
<1>3. twice = [t \in DOMAIN once |-> IF t \in DOMAIN sent THEN Set(once[t], t) ELSE once[t]]
  BY DEF PatchTables
<1> HIDE DEF Set, once, twice
<1>4. twice = once
  BY <1>1, <1>2, <1>3
<1>. QED
  BY <1>4 DEF once, twice

LEMMA PatchSchemasTwice ==
  ASSUME NEW there, SchemasShaped(there), NEW sent
  PROVE  PatchSchemas(PatchSchemas(there, sent), sent) = PatchSchemas(there, sent)
<1> DEFINE once == PatchSchemas(there, sent)
           twice == PatchSchemas(once, sent)
           Tabs(sch, s) == PatchTables(sch.tables, sent[s].tables)
           Set(sch, s) == [sch EXCEPT !.enabled = sent[s].enabled,
                                      !.tables = PatchTables(@, sent[s].tables)]
<1>1. ASSUME NEW s \in DOMAIN there PROVE Set(Set(there[s], s), s) = Set(there[s], s)
  <2> DEFINE sch == there[s]
             set == Set(sch, s)
  <2>1. {"enabled", "tables"} \subseteq DOMAIN sch /\ TablesShaped(sch.tables)
    BY DEF SchemasShaped
  <2>2. PatchTables(Tabs(sch, s), sent[s].tables) = Tabs(sch, s)
    BY <2>1, PatchTablesTwice
  <2>3. set = [sch EXCEPT !.enabled = sent[s].enabled, !.tables = Tabs(sch, s)]
    OBVIOUS
  <2>4. /\ set.enabled = sent[s].enabled /\ set.tables = Tabs(sch, s)
        /\ DOMAIN set = DOMAIN sch /\ set = [k \in DOMAIN set |-> set[k]]
    BY <2>1, <2>3, Zenon
  <2>5. PatchTables(set.tables, sent[s].tables) = set.tables
    BY <2>2, <2>4
  <2> HIDE DEF set
  <2>6. Set(set, s) = set
    BY <2>1, <2>4, <2>5, Zenon
  <2>. QED
    BY <2>6 DEF set
<1>2. once = [s \in DOMAIN there |-> IF s \in DOMAIN sent THEN Set(there[s], s) ELSE there[s]]
  BY DEF PatchSchemas
<1>3. twice = [s \in DOMAIN once |-> IF s \in DOMAIN sent THEN Set(once[s], s) ELSE once[s]]
  BY DEF PatchSchemas
<1> HIDE DEF Set, once, twice
<1>4. twice = once
  BY <1>1, <1>2, <1>3
<1>. QED
  BY <1>4 DEF once, twice

(* Sending a payload twice is sending it once.                             *)
LEMMA PatchTwice ==
  ASSUME NEW acc, Shaped(acc), NEW payload
  PROVE  Patch(Patch(acc, payload), payload) = Patch(acc, payload)
<1> DEFINE once == Patch(acc, payload)
           New(u) == PatchSchemas(u.schemas, payload.schemas)
<1>1. SchemasShaped(acc.schemas) /\ {"policy", "schemas"} \subseteq DOMAIN acc
  BY DEF Shaped
<1>2. once = [acc EXCEPT !.policy = IF payload.policy = "" THEN @ ELSE payload.policy,
                         !.schemas = New(acc)]
  BY DEF Patch
<1>3. Patch(once, payload) =
        [once EXCEPT !.policy = IF payload.policy = "" THEN @ ELSE payload.policy,
                     !.schemas = New(once)]
  BY DEF Patch
<1>4. PatchSchemas(New(acc), payload.schemas) = New(acc)
  BY <1>1, PatchSchemasTwice
<1> HIDE DEF once
<1>5. /\ DOMAIN once = DOMAIN acc /\ once = [k \in DOMAIN once |-> once[k]]
      /\ once.schemas = New(acc)
      /\ (IF payload.policy = "" THEN once.policy ELSE payload.policy) = once.policy
  BY <1>1, <1>2, Zenon
<1>6. New(once) = once.schemas
  BY <1>4, <1>5, Zenon
<1> HIDE DEF New
<1>7. Patch(once, payload) = [once EXCEPT !.policy = once.policy, !.schemas = once.schemas]
  BY <1>3, <1>5, <1>6, Zenon
<1>8. Patch(once, payload) = once
  BY <1>1, <1>5, <1>7, Zenon
<1>. QED
  BY <1>8 DEF once

(* The payload depends on which keys Fivetran reports, and on which are    *)
(* locked, and a payload changes neither.                                  *)
LEMMA mergeColumnsSame ==
  ASSUME NEW policy, NEW wanted, NEW there, NEW new, DOMAIN new = DOMAIN there,
         \A c \in DOMAIN there : new[c].locked = there[c].locked
  PROVE  mergeColumns(policy, new, wanted) = mergeColumns(policy, there, wanted)
<1>1. {k \in DOMAIN new : ~new[k].locked} = {k \in DOMAIN there : ~there[k].locked}
  OBVIOUS
<1>. QED
  BY <1>1, Zenon DEF mergeColumns

LEMMA mergeTablesSame ==
  ASSUME NEW policy, NEW wanted, NEW there, NEW new, DOMAIN new = DOMAIN there,
         \A t \in DOMAIN there :
            /\ new[t].locked = there[t].locked
            /\ t \in DOMAIN wanted =>
                 mergeColumns(policy, new[t].columns, wanted[t].columns) =
                     mergeColumns(policy, there[t].columns, wanted[t].columns)
  PROVE  mergeTables(policy, new, wanted) = mergeTables(policy, there, wanted)
<1> DEFINE Keys(map) == DOMAIN wanted \cup {k \in DOMAIN map : ~map[k].locked}
           Cols(map, t) == mergeColumns(policy, map[t].columns, wanted[t].columns)
           Sent(map, t) == IF t \notin DOMAIN wanted THEN Disabled
                           ELSE IF t \notin DOMAIN map THEN wanted[t]
                           ELSE [wanted[t] EXCEPT !.columns = Cols(map, t)]
<1>1. Keys(new) = Keys(there)
  OBVIOUS
<1>2. \A t \in DOMAIN there \cap DOMAIN wanted : Cols(new, t) = Cols(there, t)
  OBVIOUS
<1>3. \A t \in Keys(there) : Sent(new, t) = Sent(there, t)
  <2> HIDE DEF Cols
  <2>. QED
    BY <1>2
<1>4. /\ mergeTables(policy, new, wanted) = [t \in Keys(new) |-> Sent(new, t)]
      /\ mergeTables(policy, there, wanted) = [t \in Keys(there) |-> Sent(there, t)]
  BY DEF mergeTables
<1> HIDE DEF Keys, Sent
<1>. QED
  BY <1>1, <1>3, <1>4

LEMMA BuildAfterPatch ==
  ASSUME NEW spec, NEW acc, Shaped(acc), NEW payload
  PROVE  BuildSchemaConfig(spec, Patch(acc, payload)) = BuildSchemaConfig(spec, acc)
<1> DEFINE there == acc.schemas
           new == Patch(acc, payload).schemas
           Tabs(map, s) == mergeTables(spec.policy, map[s].tables, spec.schemas[s].tables)
<1>1. DOMAIN new = DOMAIN there /\ \A s \in DOMAIN there : DOMAIN new[s].tables = DOMAIN there[s].tables
  BY PatchKeys
<1>2. ASSUME NEW s \in DOMAIN there
      PROVE  Tabs(new, s) = Tabs(there, s)
  <2>1. ASSUME NEW t \in DOMAIN there[s].tables
        PROVE  /\ new[s].tables[t].locked = there[s].tables[t].locked
               /\ mergeColumns(spec.policy, new[s].tables[t].columns,
                               spec.schemas[s].tables[t].columns) =
                    mergeColumns(spec.policy, there[s].tables[t].columns,
                                 spec.schemas[s].tables[t].columns)
    <3> DEFINE old == there[s].tables[t].columns
               cols == new[s].tables[t].columns
    <3>1. /\ new[s].tables[t].locked = there[s].tables[t].locked
          /\ cols = old \/ cols = PatchColumns(old, payload.schemas[s].tables[t].columns)
      BY PatchedTable
    <3>2. ColumnsShaped(old)
      BY DEF Shaped, SchemasShaped, TablesShaped
    <3> HIDE DEF old, cols
    <3>3. DOMAIN cols = DOMAIN old /\ \A c \in DOMAIN old : cols[c].locked = old[c].locked
      <4> DEFINE patched == PatchColumns(old, payload.schemas[s].tables[t].columns)
      <4>1. DOMAIN patched = DOMAIN old
        BY <3>2, PatchColumnsShape
      <4>2. \A c \in DOMAIN old : patched[c].locked = old[c].locked
        BY <3>2, PatchColumnsValue
      <4> HIDE DEF patched
      <4>. QED
        BY <3>1, <4>1, <4>2 DEF patched
    <3>4. mergeColumns(spec.policy, cols, spec.schemas[s].tables[t].columns) =
            mergeColumns(spec.policy, old, spec.schemas[s].tables[t].columns)
      BY <3>3, mergeColumnsSame
    <3>. QED
      BY <3>1, <3>4 DEF old, cols
  <2>. QED
    BY <1>1, <2>1, mergeTablesSame
<1>3. mergeWithUpstream(spec, Patch(acc, payload)) = mergeWithUpstream(spec, acc)
  <2> DEFINE Sent(map, s) ==
               IF s \notin DOMAIN spec.schemas THEN [enabled |-> FALSE, tables |-> NoMap]
               ELSE IF spec.schemas[s].enabled /\ s \in DOMAIN map
               THEN [enabled |-> TRUE, tables |-> Tabs(map, s)]
               ELSE SchemaFromCR(spec.schemas[s])
  <2>1. /\ mergeWithUpstream(spec, Patch(acc, payload)) =
             [s \in DOMAIN spec.schemas \cup DOMAIN new |-> Sent(new, s)]
        /\ mergeWithUpstream(spec, acc) =
             [s \in DOMAIN spec.schemas \cup DOMAIN there |-> Sent(there, s)]
    BY DEF mergeWithUpstream
  <2> HIDE DEF new, there, Tabs
  <2>2. \A s \in DOMAIN spec.schemas \cup DOMAIN there : Sent(new, s) = Sent(there, s)
    BY <1>1, <1>2, Zenon
  <2> HIDE DEF Sent
  <2>. QED
    BY <1>1, <2>1, <2>2
<1>. QED
  BY <1>3, Zenon DEF BuildSchemaConfig

(* Building a payload from the outcome and sending it, as a retry or a     *)
(* forced reconcile does, changes nothing.                                 *)
THEOREM ApplyingIsIdempotent ==
  ASSUME NEW spec, NEW acc, Shaped(acc)
  PROVE  LET new == Patch(acc, BuildSchemaConfig(spec, acc))
         IN  Patch(new, BuildSchemaConfig(spec, new)) = new
<1> DEFINE payload == BuildSchemaConfig(spec, acc)
           new == Patch(acc, payload)
<1>1. BuildSchemaConfig(spec, new) = payload
  BY BuildAfterPatch
<1>2. Patch(new, payload) = new
  BY PatchTwice
<1>. QED
  BY <1>1, <1>2
=============================================================================
