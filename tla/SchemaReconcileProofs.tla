----------------------- MODULE SchemaReconcileProofs -----------------------
(***************************************************************************)
(* reconcileSchema for any specifications, any source, any account and any *)
(* number of edits, failures, restarts and synchronisations: what a        *)
(* success and a resource at rest say about Fivetran.                      *)
(***************************************************************************)
EXTENDS SchemaReconcile, SchemaConfigProofs

-----------------------------------------------------------------------------
(* The account only grows, except by a payload: a table that is known      *)
(* stays as it is, apart from being shown.                                 *)
SameTable(old, new) ==
    /\ new.enabled = old.enabled /\ new.sync = old.sync
    /\ new.locked = old.locked /\ new.columns = old.columns

Keeps(old, new) ==
    /\ new.policy = old.policy
    /\ \A s \in DOMAIN old.schemas :
          /\ s \in DOMAIN new.schemas
          /\ new.schemas[s].enabled = old.schemas[s].enabled
          /\ \A t \in DOMAIN old.schemas[s].tables :
                /\ t \in DOMAIN new.schemas[s].tables
                /\ SameTable(old.schemas[s].tables[t], new.schemas[s].tables[t])

SameKeys(old, new) ==
    /\ DOMAIN new.schemas = DOMAIN old.schemas
    /\ \A s \in DOMAIN old.schemas :
          DOMAIN new.schemas[s].tables = DOMAIN old.schemas[s].tables

(* What the spec wants, and the source has, is known to Fivetran.          *)
Complete(sp, acc) ==
    \A s \in EnabledIn(sp.schemas) \cap DOMAIN Source :
        /\ s \in DOMAIN acc.schemas
        /\ \A t \in EnabledIn(sp.schemas[s].tables) \cap DOMAIN Source[s] :
              t \in DOMAIN acc.schemas[s].tables

(* The tables whose columns the spec manages show their columns.           *)
ManagedShown(sp, acc) ==
    \A s \in DOMAIN acc.schemas : \A t \in DOMAIN acc.schemas[s].tables :
        ManagesColumns(sp, s, t) => acc.schemas[s].tables[t].shown

NoSync == left.syncs = MaxSyncs

Budget == [edits : 0..MaxEdits, faults : 0..MaxFaults,
           crashes : 0..MaxCrashes, syncs : 0..MaxSyncs]

Types ==
    /\ spec \in SchemaSpecs /\ cr \in SchemaSpecs
    /\ hash = <<>> \/ hash \in {<<s>> : s \in SchemaSpecs}
    /\ ready \in {"Unset", "True", "False"}
    /\ queued \in BOOLEAN /\ pc \in Steps /\ current \in BOOLEAN
    /\ missing \in BOOLEAN /\ second \in BOOLEAN /\ kind \in Kinds
    /\ syncing \in BOOLEAN
    /\ left \in Budget

(* After the schema has been read, and after the payload has been sent.    *)
Loaded == {"populate", "updateSchema", "schemaHash", "secondPass", "verify", "schemaReady"}
Sent == {"schemaHash", "secondPass", "verify", "schemaReady"}

Control ==
    /\ current => cr = spec
    /\ pc \in {"verify", "schemaReady"} => hash = <<cr>>
    /\ pc \in {"syncing", "getSchema", "createSchema", "reloadSchema", "getReloaded"} =>
         ~missing /\ ~second
    /\ VerdictAtRest

(* When Fivetran has a schema configuration for the connection.            *)
Existence ==
    /\ syncing \/ hash # <<>> \/ pc \in Loaded \cup {"getReloaded"} => account.exists
    /\ pc = "createSchema" => ~account.exists /\ cr.level = "NONE"
    /\ NoSync => ~syncing

(* With validation, a payload is only sent when all that the spec wants is *)
(* known, as far as the source has it; so nothing that is wanted comes to  *)
(* light later.                                                            *)
Completeness ==
    /\ pc \in Loaded \cup {"getReloaded"} /\ cr.level # "NONE" => Complete(cr, account)
    /\ pc \in Sent /\ cr.level # "NONE" =>
         LockedColumnViolations(Wanted(cr), account) = {}
    /\ \A s \in SchemaSpecs :
         hash = <<s>> /\ s.level # "NONE" =>
            /\ Complete(s, account)
            /\ LockedColumnViolations(Wanted(s), account) = {}

Applied ==
    /\ pc \in Sent /\ cr.level # "NONE" =>
         /\ ListedAsSpecified(Wanted(cr), account)
         /\ NoSync => ListedAsSpecified(cr, account)
    /\ pc = "schemaReady" /\ cr.level # "NONE" =>
         /\ CompareSchemaWithCR(Wanted(cr), account)
         /\ NoSync => CompareSchemaWithCR(cr, account)

(* Will there be a second pass?                                            *)
Again == missing /\ ~second

Enforced ==
    NoSync =>
      /\ pc = "populate" => details \in {Response(TRUE), Response(FALSE)}
      /\ pc = "updateSchema" /\ ManagesUnlisted(cr) => Again \/ Covers(cr, details, account)
      /\ pc = "secondPass" \/ (pc = "schemaHash" /\ Again) \/ (pc = "populate" /\ second) =>
           ManagedShown(cr, account)
      /\ pc \in {"verify", "schemaReady"} \/ (pc = "schemaHash" /\ ~Again) =>
           UnlistedFollowPolicy(cr, account)

(* Nothing went wrong, and there was one edit at most.                     *)
Quiet ==
    /\ left.crashes = MaxCrashes /\ left.faults = MaxFaults
    /\ left.edits + 1 \geq MaxEdits

Verified ==
    Quiet =>
      /\ left.edits = MaxEdits => cr = spec /\ (hash = <<>> \/ hash = <<spec>>)
      /\ hash = <<spec>> => cr = spec /\ current
      /\ pc = "idle" /\ hash = <<spec>> /\ ready = "True" /\ spec.level # "NONE" =>
           /\ CompareSchemaWithCR(Wanted(spec), account)
           /\ NoSync => CompareSchemaWithCR(spec, account)

-----------------------------------------------------------------------------
(* FromSource, table by table.                                             *)
TableFromSource(s, t, table) ==
    /\ {"enabled", "sync", "locked", "columns", "shown"} \subseteq DOMAIN table
    /\ ColumnsShaped(table.columns)
    /\ t \in DOMAIN Source[s] /\ table.locked = Source[s][t].locked
    /\ DOMAIN table.columns = DOMAIN Source[s][t].columns
    /\ \A c \in DOMAIN table.columns :
          /\ table.columns[c].locked = Source[s][t].columns[c]
          /\ table.columns[c].locked => table.columns[c].enabled

SchemaFromSource(s, schema) ==
    /\ s \in DOMAIN Source /\ {"enabled", "tables"} \subseteq DOMAIN schema
    /\ \A t \in DOMAIN schema.tables : TableFromSource(s, t, schema.tables[t])

LEMMA FromSourceByTable ==
  ASSUME NEW acc
  PROVE  FromSource(acc) <=>
           /\ DOMAIN acc = {"exists", "policy", "schemas"}
           /\ acc.exists \in BOOLEAN /\ acc.policy \in Policies
           /\ \A s \in DOMAIN acc.schemas : SchemaFromSource(s, acc.schemas[s])
<1> DEFINE Tables(s) == acc.schemas[s].tables
           Known(s, t) ==
             /\ t \in DOMAIN Source[s] /\ "shown" \in DOMAIN Tables(s)[t]
             /\ Tables(s)[t].locked = Source[s][t].locked
             /\ DOMAIN Tables(s)[t].columns = DOMAIN Source[s][t].columns
             /\ \A c \in DOMAIN Tables(s)[t].columns :
                   /\ Tables(s)[t].columns[c].locked = Source[s][t].columns[c]
                   /\ Tables(s)[t].columns[c].locked => Tables(s)[t].columns[c].enabled
<1>1. FromSource(acc) <=>
        /\ DOMAIN acc = {"exists", "policy", "schemas"} /\ SchemasShaped(acc.schemas)
        /\ acc.exists \in BOOLEAN /\ acc.policy \in Policies
        /\ \A s \in DOMAIN acc.schemas :
             s \in DOMAIN Source /\ \A t \in DOMAIN Tables(s) : Known(s, t)
  <2>1. Shaped(acc) <=> {"policy", "schemas"} \subseteq DOMAIN acc /\ SchemasShaped(acc.schemas)
    BY DEF Shaped
  <2>2. DOMAIN acc = {"exists", "policy", "schemas"} => {"policy", "schemas"} \subseteq DOMAIN acc
    OBVIOUS
  <2>. QED
    BY <2>1, <2>2, Zenon DEF FromSource
<1>2. ASSUME NEW s, NEW t
      PROVE  TableFromSource(s, t, Tables(s)[t]) <=>
               /\ {"enabled", "sync", "locked", "columns"} \subseteq DOMAIN Tables(s)[t]
               /\ ColumnsShaped(Tables(s)[t].columns) /\ Known(s, t)
  <2> DEFINE fields == DOMAIN Tables(s)[t]
  <2>1. {"enabled", "sync", "locked", "columns", "shown"} \subseteq fields <=>
          {"enabled", "sync", "locked", "columns"} \subseteq fields /\ "shown" \in fields
    <3> HIDE DEF fields
    <3>. QED
      OBVIOUS
  <2>. QED
    BY <2>1, Zenon DEF TableFromSource
<1>3. ASSUME NEW s
      PROVE  SchemaFromSource(s, acc.schemas[s]) <=>
               /\ s \in DOMAIN Source /\ {"enabled", "tables"} \subseteq DOMAIN acc.schemas[s]
               /\ TablesShaped(Tables(s)) /\ \A t \in DOMAIN Tables(s) : Known(s, t)
  <2> HIDE DEF Known
  <2>. QED
    BY <1>2, Zenon DEF SchemaFromSource, TablesShaped
<1> HIDE DEF Known
<1>. QED
  BY <1>1, <1>3, Zenon DEF SchemasShaped

(* ShowEnabled only shows what is enabled.                                 *)
LEMMA ShowEnabledTable ==
  ASSUME NEW acc, FromSource(acc),
         NEW s \in DOMAIN acc.schemas, NEW t \in DOMAIN acc.schemas[s].tables
  PROVE  /\ DOMAIN ShowEnabled(acc).schemas = DOMAIN acc.schemas
         /\ DOMAIN ShowEnabled(acc).schemas[s] = DOMAIN acc.schemas[s]
         /\ ShowEnabled(acc).schemas[s].enabled = acc.schemas[s].enabled
         /\ DOMAIN ShowEnabled(acc).schemas[s].tables = DOMAIN acc.schemas[s].tables
         /\ ShowEnabled(acc).schemas[s].tables[t] =
              [acc.schemas[s].tables[t] EXCEPT !.shown = @ \/ acc.schemas[s].tables[t].enabled]
<1> DEFINE Tab(k, u) == [acc.schemas[k].tables[u] EXCEPT !.shown = @ \/ acc.schemas[k].tables[u].enabled]
           Tabs(k) == [u \in DOMAIN acc.schemas[k].tables |-> Tab(k, u)]
           Sch(k) == [acc.schemas[k] EXCEPT !.tables = Tabs(k)]
<1>1. ShowEnabled(acc) = [acc EXCEPT !.schemas = [k \in DOMAIN acc.schemas |-> Sch(k)]]
  BY DEF ShowEnabled, WithTables
<1>2. {"enabled", "tables"} \subseteq DOMAIN acc.schemas[s] /\ "schemas" \in DOMAIN acc
  BY FromSourceByTable DEF SchemaFromSource
<1>3. DOMAIN Tabs(s) = DOMAIN acc.schemas[s].tables /\ Tabs(s)[t] = Tab(s, t)
  OBVIOUS
<1> HIDE DEF Tab, Tabs
<1>4. /\ DOMAIN Sch(s) = DOMAIN acc.schemas[s] /\ Sch(s).tables = Tabs(s)
      /\ Sch(s).enabled = acc.schemas[s].enabled
  BY <1>2
<1> HIDE DEF Sch
<1>5. /\ DOMAIN ShowEnabled(acc).schemas = DOMAIN acc.schemas
      /\ ShowEnabled(acc).schemas[s] = Sch(s)
  BY <1>1, <1>2
<1>. QED
  BY <1>3, <1>4, <1>5 DEF Tab

(* Every enabled table shows its columns.                                  *)
AllShown(acc) ==
    \A s \in DOMAIN acc.schemas : \A t \in DOMAIN acc.schemas[s].tables :
        acc.schemas[s].tables[t].enabled => acc.schemas[s].tables[t].shown

LEMMA ShowEnabledFields ==
  ASSUME NEW acc, FromSource(acc)
  PROVE  /\ DOMAIN ShowEnabled(acc) = DOMAIN acc
         /\ ShowEnabled(acc).exists = acc.exists /\ ShowEnabled(acc).policy = acc.policy
         /\ DOMAIN ShowEnabled(acc).schemas = DOMAIN acc.schemas
         /\ \A s \in DOMAIN acc.schemas :
              /\ DOMAIN ShowEnabled(acc).schemas[s] = DOMAIN acc.schemas[s]
              /\ ShowEnabled(acc).schemas[s].enabled = acc.schemas[s].enabled
              /\ DOMAIN ShowEnabled(acc).schemas[s].tables = DOMAIN acc.schemas[s].tables
<1> DEFINE Tab(k, u) == [acc.schemas[k].tables[u] EXCEPT !.shown = @ \/ acc.schemas[k].tables[u].enabled]
           Tabs(k) == [u \in DOMAIN acc.schemas[k].tables |-> Tab(k, u)]
           Sch(k) == [acc.schemas[k] EXCEPT !.tables = Tabs(k)]
           new == [k \in DOMAIN acc.schemas |-> Sch(k)]
<1>1. ShowEnabled(acc) = [acc EXCEPT !.schemas = new]
  BY DEF ShowEnabled, WithTables
<1>2. /\ DOMAIN acc = {"exists", "policy", "schemas"}
      /\ \A s \in DOMAIN acc.schemas : {"enabled", "tables"} \subseteq DOMAIN acc.schemas[s]
  BY FromSourceByTable DEF SchemaFromSource
<1>3. ASSUME NEW s \in DOMAIN acc.schemas
      PROVE  /\ new[s] = Sch(s) /\ DOMAIN Sch(s) = DOMAIN acc.schemas[s]
             /\ Sch(s).tables = Tabs(s) /\ Sch(s).enabled = acc.schemas[s].enabled
             /\ DOMAIN Tabs(s) = DOMAIN acc.schemas[s].tables
  <2>1. DOMAIN Tabs(s) = DOMAIN acc.schemas[s].tables
    OBVIOUS
  <2> HIDE DEF Tabs
  <2>2. new[s] = Sch(s)
    OBVIOUS
  <2>3. /\ DOMAIN Sch(s) = DOMAIN acc.schemas[s] /\ Sch(s).tables = Tabs(s)
        /\ Sch(s).enabled = acc.schemas[s].enabled
    BY <1>2
  <2>. QED
    BY <2>1, <2>2, <2>3
<1>4. DOMAIN new = DOMAIN acc.schemas
  OBVIOUS
<1> HIDE DEF new, Sch, Tabs
<1>5. /\ DOMAIN ShowEnabled(acc) = DOMAIN acc /\ ShowEnabled(acc).schemas = new
      /\ ShowEnabled(acc).exists = acc.exists /\ ShowEnabled(acc).policy = acc.policy
  BY <1>1, <1>2
<1>. QED
  BY <1>3, <1>4, <1>5

LEMMA ShowEnabledKeeps ==
  ASSUME NEW acc, FromSource(acc)
  PROVE  LET new == ShowEnabled(acc)
         IN  /\ FromSource(new) /\ Keeps(acc, new) /\ SameKeys(acc, new)
             /\ new.exists = acc.exists /\ AllShown(new)
<1> DEFINE new == ShowEnabled(acc)
<1>1. /\ DOMAIN new = DOMAIN acc /\ new.exists = acc.exists /\ new.policy = acc.policy
      /\ DOMAIN new.schemas = DOMAIN acc.schemas
      /\ \A s \in DOMAIN acc.schemas :
              /\ DOMAIN new.schemas[s] = DOMAIN acc.schemas[s]
              /\ new.schemas[s].enabled = acc.schemas[s].enabled
              /\ DOMAIN new.schemas[s].tables = DOMAIN acc.schemas[s].tables
  BY ShowEnabledFields
<1>2. ASSUME NEW s \in DOMAIN acc.schemas, NEW t \in DOMAIN acc.schemas[s].tables
      PROVE  /\ SameTable(acc.schemas[s].tables[t], new.schemas[s].tables[t])
             /\ TableFromSource(s, t, new.schemas[s].tables[t])
             /\ new.schemas[s].tables[t].enabled => new.schemas[s].tables[t].shown
  <2> DEFINE old == acc.schemas[s].tables[t]
             tab == new.schemas[s].tables[t]
  <2>1. TableFromSource(s, t, old)
    BY FromSourceByTable DEF SchemaFromSource
  <2>2. tab = [old EXCEPT !.shown = @ \/ old.enabled]
    BY ShowEnabledTable
  <2> HIDE DEF old, tab
  <2>3. {"enabled", "sync", "locked", "columns", "shown"} \subseteq DOMAIN old
    BY <2>1 DEF TableFromSource
  <2>4. DOMAIN tab = DOMAIN old /\ SameTable(old, tab)
    BY <2>2, <2>3 DEF SameTable
  <2>5. tab.enabled => tab.shown
    BY <2>2, <2>3, Zenon
  <2>6. TableFromSource(s, t, tab)
    BY <2>1, <2>4 DEF TableFromSource, SameTable
  <2>. QED
    BY <2>4, <2>5, <2>6 DEF old, tab
<1> HIDE DEF new
<1>3. Keeps(acc, new) /\ SameKeys(acc, new) /\ AllShown(new)
  BY <1>1, <1>2 DEF Keeps, SameKeys, AllShown
<1>4. FromSource(new)
  <2>1. \A s \in DOMAIN new.schemas : SchemaFromSource(s, new.schemas[s])
    BY <1>1, <1>2, FromSourceByTable DEF SchemaFromSource
  <2>. QED
    BY <1>1, <2>1, FromSourceByTable
<1>. QED
  BY <1>1, <1>3, <1>4 DEF new

(* A table that is new comes from the source.                              *)
LEMMA NewTableFromSource ==
  ASSUME NEW s \in DOMAIN Source, NEW t \in DOMAIN Source[s],
         NEW on \in BOOLEAN, NEW colsOn \in BOOLEAN
  PROVE  TableFromSource(s, t, NewTable(s, t, on, colsOn))
<1> DEFINE cols == [c \in DOMAIN Source[s][t].columns |-> NewColumn(s, t, c, colsOn)]
           tab == NewTable(s, t, on, colsOn)
<1>1. /\ {"enabled", "sync", "locked", "columns", "shown"} \subseteq DOMAIN tab
      /\ tab.locked = Source[s][t].locked /\ tab.columns = cols
  BY DEF NewTable
<1>2. ASSUME NEW c \in DOMAIN cols
      PROVE  /\ {"enabled", "hashed", "locked"} \subseteq DOMAIN cols[c]
             /\ cols[c].locked = Source[s][t].columns[c]
             /\ cols[c].locked => cols[c].enabled
  BY Zenon DEF NewColumn
<1>3. DOMAIN cols = DOMAIN Source[s][t].columns /\ cols = [c \in DOMAIN cols |-> cols[c]]
  OBVIOUS
<1> HIDE DEF cols, tab
<1>4. ColumnsShaped(cols)
  BY <1>2, <1>3 DEF ColumnsShaped
<1>5. TableFromSource(s, t, tab)
  BY <1>1, <1>2, <1>3, <1>4 DEF TableFromSource
<1>. QED
  BY <1>5 DEF tab

LEMMA DiscoveredKeeps ==
  ASSUME FromSource(account), NEW on \in BOOLEAN, NEW colsOn \in BOOLEAN
  PROVE  LET new == Discovered(on, colsOn)
         IN  /\ FromSource(new) /\ Keeps(account, new) /\ new.exists
             /\ DOMAIN new.schemas = DOMAIN Source
             /\ \A s \in DOMAIN Source : DOMAIN new.schemas[s].tables = DOMAIN Source[s]
<1> DEFINE there == account.schemas
           Known(s) == IF s \in DOMAIN there THEN there[s].tables ELSE NoMap
           Table(s, t) == IF t \in DOMAIN Known(s) THEN Known(s)[t] ELSE NewTable(s, t, on, colsOn)
           Tables(s) == [t \in DOMAIN Source[s] |-> Table(s, t)]
           Sch(s) == [enabled |-> IF s \in DOMAIN there THEN there[s].enabled ELSE on,
                      tables |-> Tables(s)]
           all == [s \in DOMAIN Source |-> Sch(s)]
           new == Discovered(on, colsOn)
<1>1. new = [account EXCEPT !.exists = TRUE, !.schemas = all]
  BY DEF Discovered
<1>2. /\ DOMAIN account = {"exists", "policy", "schemas"} /\ account.policy \in Policies
      /\ \A s \in DOMAIN there : SchemaFromSource(s, there[s])
  BY FromSourceByTable
<1>3. /\ DOMAIN new = DOMAIN account /\ new.exists = TRUE
      /\ new.policy = account.policy /\ new.schemas = all
  <2> HIDE DEF all, new
  <2>. QED
    BY <1>1, <1>2
<1>4. DOMAIN all = DOMAIN Source /\ \A s \in DOMAIN Source : all[s] = Sch(s)
  OBVIOUS
<1>5. ASSUME NEW s
      PROVE  /\ DOMAIN Sch(s) = {"enabled", "tables"} /\ Sch(s).tables = Tables(s)
             /\ DOMAIN Tables(s) = DOMAIN Source[s]
             /\ s \in DOMAIN there => Sch(s).enabled = there[s].enabled
             /\ \A t \in DOMAIN Source[s] : Tables(s)[t] = Table(s, t)
  <2>1. DOMAIN Tables(s) = DOMAIN Source[s] /\ \A t \in DOMAIN Source[s] : Tables(s)[t] = Table(s, t)
    BY Zenon
  <2> HIDE DEF Tables
  <2>. QED
    BY <2>1
<1>6. ASSUME NEW s \in DOMAIN Source, NEW t \in DOMAIN Source[s]
      PROVE  /\ s \in DOMAIN there /\ t \in DOMAIN there[s].tables => Table(s, t) = there[s].tables[t]
             /\ TableFromSource(s, t, Table(s, t))
  <2>1. CASE s \in DOMAIN there /\ t \in DOMAIN there[s].tables
    BY <1>2, <2>1 DEF SchemaFromSource
  <2>2. CASE ~(s \in DOMAIN there /\ t \in DOMAIN there[s].tables)
    <3>1. Table(s, t) = NewTable(s, t, on, colsOn)
      BY <2>2, NoMapEmpty
    <3>. QED
      BY <2>2, <3>1, NewTableFromSource
  <2>. QED
    BY <2>1, <2>2
<1> HIDE DEF new, all, Sch, Tables, Table
<1>7. \A s \in DOMAIN all : SchemaFromSource(s, all[s])
  BY <1>4, <1>5, <1>6 DEF SchemaFromSource
<1>8. FromSource(new)
  BY <1>2, <1>3, <1>7, FromSourceByTable, Zenon
<1>9. Keeps(account, new)
  <2>1. ASSUME NEW s \in DOMAIN there, NEW t \in DOMAIN there[s].tables
        PROVE  s \in DOMAIN Source /\ t \in DOMAIN Source[s]
    BY <1>2 DEF SchemaFromSource, TableFromSource
  <2>2. \A s \in DOMAIN there : s \in DOMAIN Source
    BY <1>2 DEF SchemaFromSource
  <2>. QED
    BY <1>3, <1>4, <1>5, <1>6, <2>1, <2>2 DEF Keeps, SameTable
<1>. QED
  BY <1>3, <1>4, <1>5, <1>8, <1>9 DEF new

-----------------------------------------------------------------------------
(* Payloads that Fivetran accepts.                                         *)
LEMMA PatchFields ==
  ASSUME NEW acc, FromSource(acc), NEW payload
  PROVE  /\ DOMAIN Patch(acc, payload) = DOMAIN acc
         /\ Patch(acc, payload).exists = acc.exists
<1> DEFINE New == PatchSchemas(acc.schemas, payload.schemas)
<1>1. Patch(acc, payload) =
        [acc EXCEPT !.policy = IF payload.policy = "" THEN @ ELSE payload.policy, !.schemas = New]
  BY DEF Patch
<1>2. DOMAIN acc = {"exists", "policy", "schemas"}
  BY DEF FromSource
<1> HIDE DEF New
<1>. QED
  BY <1>1, <1>2

LEMMA PatchPolicy ==
  ASSUME NEW acc, FromSource(acc), NEW payload, payload.policy \in Policies \cup {""}
  PROVE  Patch(acc, payload).policy \in Policies
<1> DEFINE New == PatchSchemas(acc.schemas, payload.schemas)
<1>1. Patch(acc, payload) =
        [acc EXCEPT !.policy = IF payload.policy = "" THEN @ ELSE payload.policy, !.schemas = New]
  BY Zenon DEF Patch
<1>2. DOMAIN acc = {"exists", "policy", "schemas"} /\ acc.policy \in Policies
  BY Zenon DEF FromSource
<1> HIDE DEF New
<1>. QED
  BY <1>1, <1>2, Zenon

LEMMA PatchDomains ==
  ASSUME NEW acc, Shaped(acc), NEW payload,
         NEW s \in DOMAIN acc.schemas, NEW t \in DOMAIN acc.schemas[s].tables
  PROVE  /\ DOMAIN Patch(acc, payload).schemas[s] = DOMAIN acc.schemas[s]
         /\ DOMAIN Patch(acc, payload).schemas[s].tables[t] = DOMAIN acc.schemas[s].tables[t]
<1> DEFINE new == Patch(acc, payload).schemas
<1>1. /\ new = PatchSchemas(acc.schemas, payload.schemas) /\ SchemasShaped(acc.schemas)
      /\ TablesShaped(acc.schemas[s].tables)
  BY PatchValue, Zenon DEF Shaped, SchemasShaped
<1> HIDE DEF new
<1>2. /\ DOMAIN new[s] = DOMAIN acc.schemas[s]
      /\ \/ new[s] = acc.schemas[s]
         \/ new[s].tables = PatchTables(acc.schemas[s].tables, payload.schemas[s].tables)
  BY <1>1, PatchSchemasValue
<1>3. DOMAIN new[s].tables[t] = DOMAIN acc.schemas[s].tables[t]
  BY <1>1, <1>2, PatchTablesValue
<1>. QED
  BY <1>2, <1>3 DEF new

(* Fivetran accepts no change of what is locked, so that it stays enabled. *)
LEMMA PatchedTableFromSource ==
  ASSUME NEW acc, FromSource(acc), NEW payload, ~Rejects(acc, payload),
         NEW s \in DOMAIN acc.schemas, NEW t \in DOMAIN acc.schemas[s].tables
  PROVE  TableFromSource(s, t, Patch(acc, payload).schemas[s].tables[t])
<1> DEFINE old == acc.schemas[s].tables[t]
           new == Patch(acc, payload).schemas[s].tables[t]
           sent == payload.schemas[s].tables[t]
<1>1. TableFromSource(s, t, old) /\ Shaped(acc)
  BY FromSourceByTable, Zenon DEF SchemaFromSource, FromSource
<1>2. DOMAIN new = DOMAIN old
  BY <1>1, PatchDomains
<1>3. /\ new.locked = old.locked
      /\ ~Mentions(payload, s, t) => new = old
      /\ Mentions(payload, s, t) => new.columns = PatchColumns(old.columns, sent.columns)
  BY <1>1, PatchedTable
<1>4. CASE ~Mentions(payload, s, t)
  BY <1>1, <1>3, <1>4
<1>5. CASE Mentions(payload, s, t)
  <2>1. ASSUME NEW c \in DOMAIN sent.columns \cap DOMAIN old.columns, old.columns[c].locked
        PROVE  sent.columns[c].enabled = old.columns[c].enabled
    BY <1>5, <2>1, Zenon DEF Rejects, Mentions
  <2> HIDE DEF old, new, sent
  <2>2. ColumnsShaped(old.columns)
    BY <1>1 DEF TableFromSource
  <2>3. /\ DOMAIN new.columns = DOMAIN old.columns /\ ColumnsShaped(new.columns)
        /\ new.columns = PatchColumns(old.columns, sent.columns)
    BY <1>3, <1>5, <2>2, PatchColumnsShape
  <2>4. ASSUME NEW c \in DOMAIN old.columns
        PROVE  /\ new.columns[c].locked = old.columns[c].locked
               /\ old.columns[c].locked => new.columns[c].enabled
    <3>1. /\ new.columns[c].locked = old.columns[c].locked
          /\ c \notin DOMAIN sent.columns => new.columns[c] = old.columns[c]
          /\ c \in DOMAIN sent.columns => new.columns[c].enabled = sent.columns[c].enabled
      BY <2>2, <2>3, PatchColumnsValue
    <3>2. old.columns[c].locked => old.columns[c].enabled
      BY <1>1 DEF TableFromSource
    <3>3. c \in DOMAIN sent.columns /\ old.columns[c].locked =>
            sent.columns[c].enabled = old.columns[c].enabled
      BY <2>1
    <3>. QED
      BY <3>1, <3>2, <3>3, Zenon
  <2>5. TableFromSource(s, t, new)
    <3>1. \A c \in DOMAIN new.columns :
            /\ new.columns[c].locked = Source[s][t].columns[c]
            /\ new.columns[c].locked => new.columns[c].enabled
      BY <1>1, <2>3, <2>4 DEF TableFromSource
    <3>. QED
      BY <1>1, <1>2, <1>3, <2>3, <3>1 DEF TableFromSource
  <2>. QED
    BY <2>5 DEF new
<1>. QED
  BY <1>4, <1>5

LEMMA PatchFromSource ==
  ASSUME NEW acc, FromSource(acc), NEW payload, ~Rejects(acc, payload),
         payload.policy \in Policies \cup {""}
  PROVE  FromSource(Patch(acc, payload)) /\ Patch(acc, payload).exists = acc.exists
<1> DEFINE new == Patch(acc, payload)
<1>1. /\ Shaped(acc) /\ DOMAIN acc = {"exists", "policy", "schemas"} /\ acc.exists \in BOOLEAN
      /\ \A s \in DOMAIN acc.schemas : SchemaFromSource(s, acc.schemas[s])
  BY FromSourceByTable, Zenon DEF FromSource
<1>2. /\ DOMAIN new = DOMAIN acc /\ new.exists = acc.exists /\ new.policy \in Policies
  BY PatchFields, PatchPolicy, Zenon
<1>3. /\ DOMAIN new.schemas = DOMAIN acc.schemas
      /\ \A s \in DOMAIN acc.schemas : DOMAIN new.schemas[s].tables = DOMAIN acc.schemas[s].tables
  BY <1>1, PatchKeys, Zenon
<1>4. \A s \in DOMAIN acc.schemas : \A t \in DOMAIN acc.schemas[s].tables :
        TableFromSource(s, t, new.schemas[s].tables[t])
  BY PatchedTableFromSource, Zenon
<1>5. \A s \in DOMAIN acc.schemas : {"enabled", "tables"} \subseteq DOMAIN new.schemas[s]
  <2>1. Shaped(new)
    BY <1>1, PatchValue, Zenon
  <2> HIDE DEF new
  <2>. QED
    BY <1>3, <2>1, Zenon DEF Shaped, SchemasShaped
<1> HIDE DEF new
<1>6. \A s \in DOMAIN new.schemas : SchemaFromSource(s, new.schemas[s])
  BY <1>1, <1>3, <1>4, <1>5, Zenon DEF SchemaFromSource
<1>7. FromSource(new)
  BY <1>1, <1>2, <1>6, FromSourceByTable, Zenon
<1>. QED
  BY <1>2, <1>7, Zenon DEF new

-----------------------------------------------------------------------------
(* What the spec wants, and what becomes of it as the account grows.       *)
LEMMA WantedValue ==
  ASSUME NEW sp
  PROVE  /\ DOMAIN Wanted(sp).schemas = EnabledIn(sp.schemas)
         /\ Wanted(sp).policy = sp.policy
         /\ \A s \in EnabledIn(sp.schemas) :
              /\ Wanted(sp).schemas[s].enabled = TRUE
              /\ DOMAIN Wanted(sp).schemas[s].tables = EnabledIn(sp.schemas[s].tables)
              /\ \A t \in EnabledIn(sp.schemas[s].tables) :
                   Wanted(sp).schemas[s].tables[t] = sp.schemas[s].tables[t]
BY DEF Wanted

LEMMA EnabledValue ==
  ASSUME NEW map, NEW key
  PROVE  key \in EnabledIn(map) <=> key \in DOMAIN map /\ map[key].enabled
BY DEF EnabledIn

(* The verification, table by table.                                       *)
TableMatches(want, table) ==
    table.enabled = want.enabled /\ (want.sync # "" => table.sync = want.sync)

PolicyMatches(policy, acc) == policy # "" => acc.policy = policy

LEMMA CompareByTable ==
  ASSUME NEW sp, NEW acc
  PROVE  CompareSchemaWithCR(sp, acc) <=>
           /\ PolicyMatches(sp.policy, acc)
           /\ \A s \in DOMAIN sp.schemas :
                IF s \in DOMAIN acc.schemas
                THEN /\ acc.schemas[s].enabled = sp.schemas[s].enabled
                     /\ sp.schemas[s].enabled =>
                          \A t \in DOMAIN sp.schemas[s].tables :
                            IF t \in DOMAIN acc.schemas[s].tables
                            THEN TableMatches(sp.schemas[s].tables[t], acc.schemas[s].tables[t])
                            ELSE ~sp.schemas[s].tables[t].enabled
                ELSE ~sp.schemas[s].enabled
BY Zenon DEF CompareSchemaWithCR, compareTablesWithFivetran, TableMatches, PolicyMatches

(* The same of what is wanted: all of it is there, and as it should be.    *)
LEMMA CompareWantedByTable ==
  ASSUME NEW sp, SpecShaped(sp), NEW acc
  PROVE  CompareSchemaWithCR(Wanted(sp), acc) <=>
           /\ PolicyMatches(sp.policy, acc)
           /\ \A s \in EnabledIn(sp.schemas) :
                /\ s \in DOMAIN acc.schemas /\ acc.schemas[s].enabled = TRUE
                /\ \A t \in EnabledIn(sp.schemas[s].tables) :
                     /\ t \in DOMAIN acc.schemas[s].tables
                     /\ TableMatches(sp.schemas[s].tables[t], acc.schemas[s].tables[t])
<1> DEFINE w == Wanted(sp)
           Passes(s) ==
             IF s \in DOMAIN acc.schemas
             THEN /\ acc.schemas[s].enabled = w.schemas[s].enabled
                  /\ w.schemas[s].enabled =>
                       \A t \in DOMAIN w.schemas[s].tables :
                         IF t \in DOMAIN acc.schemas[s].tables
                         THEN TableMatches(w.schemas[s].tables[t], acc.schemas[s].tables[t])
                         ELSE ~w.schemas[s].tables[t].enabled
             ELSE ~w.schemas[s].enabled
           There(s) ==
             /\ s \in DOMAIN acc.schemas /\ acc.schemas[s].enabled = TRUE
             /\ \A t \in EnabledIn(sp.schemas[s].tables) :
                  /\ t \in DOMAIN acc.schemas[s].tables
                  /\ TableMatches(sp.schemas[s].tables[t], acc.schemas[s].tables[t])
<1>1. CompareSchemaWithCR(w, acc) <=>
        PolicyMatches(w.policy, acc) /\ \A s \in DOMAIN w.schemas : Passes(s)
  BY CompareByTable, Zenon
<1>2. /\ w.policy = sp.policy /\ DOMAIN w.schemas = EnabledIn(sp.schemas)
      /\ \A s \in EnabledIn(sp.schemas) :
           /\ w.schemas[s].enabled = TRUE
           /\ DOMAIN w.schemas[s].tables = EnabledIn(sp.schemas[s].tables)
           /\ \A t \in EnabledIn(sp.schemas[s].tables) :
                w.schemas[s].tables[t] = sp.schemas[s].tables[t]
  BY WantedValue, Zenon
<1> HIDE DEF w
<1>3. ASSUME NEW s \in EnabledIn(sp.schemas) PROVE Passes(s) <=> There(s)
  <2> DEFINE tables == EnabledIn(sp.schemas[s].tables)
             TablePasses(t) ==
               IF t \in DOMAIN acc.schemas[s].tables
               THEN TableMatches(w.schemas[s].tables[t], acc.schemas[s].tables[t])
               ELSE ~w.schemas[s].tables[t].enabled
             TableThere(t) ==
               /\ t \in DOMAIN acc.schemas[s].tables
               /\ TableMatches(sp.schemas[s].tables[t], acc.schemas[s].tables[t])
  <2>1. ASSUME NEW t \in tables PROVE TablePasses(t) <=> TableThere(t)
    <3>1. sp.schemas[s].tables[t].enabled
      BY EnabledValue
    <3>2. w.schemas[s].tables[t] = sp.schemas[s].tables[t]
      BY <1>2
    <3>. QED
      BY <3>1, <3>2, Zenon
  <2>2. w.schemas[s].enabled = TRUE /\ DOMAIN w.schemas[s].tables = tables
    BY <1>2
  <2>3. Passes(s) <=>
          /\ s \in DOMAIN acc.schemas /\ acc.schemas[s].enabled = TRUE
          /\ \A t \in tables : TablePasses(t)
    <3> HIDE DEF TablePasses, tables
    <3>. QED
      BY <2>2, Zenon DEF TablePasses
  <2> HIDE DEF TablePasses, Passes
  <2>. QED
    BY <2>1, <2>3, Zenon
<1> HIDE DEF Passes
<1>4. CompareSchemaWithCR(w, acc) <=>
        PolicyMatches(sp.policy, acc) /\ \A s \in EnabledIn(sp.schemas) : There(s)
  <2> HIDE DEF There
  <2>. QED
    BY <1>1, <1>2, <1>3
<1>. QED
  BY <1>4, Zenon DEF w

LEMMA CompareWanted ==
  ASSUME NEW sp, SpecShaped(sp), NEW acc, CompareSchemaWithCR(sp, acc)
  PROVE  CompareSchemaWithCR(Wanted(sp), acc)
<1>1. ASSUME NEW s \in EnabledIn(sp.schemas)
      PROVE  s \in DOMAIN sp.schemas /\ sp.schemas[s].enabled = TRUE
  BY DEF EnabledIn, SpecShaped
<1>2. ASSUME NEW s, NEW t \in EnabledIn(sp.schemas[s].tables)
      PROVE  t \in DOMAIN sp.schemas[s].tables /\ sp.schemas[s].tables[t].enabled
  BY DEF EnabledIn
<1>3. /\ PolicyMatches(sp.policy, acc)
      /\ \A s \in DOMAIN sp.schemas :
           IF s \in DOMAIN acc.schemas
           THEN /\ acc.schemas[s].enabled = sp.schemas[s].enabled
                /\ sp.schemas[s].enabled =>
                     \A t \in DOMAIN sp.schemas[s].tables :
                       IF t \in DOMAIN acc.schemas[s].tables
                       THEN TableMatches(sp.schemas[s].tables[t], acc.schemas[s].tables[t])
                       ELSE ~sp.schemas[s].tables[t].enabled
           ELSE ~sp.schemas[s].enabled
  BY CompareByTable
<1>4. ASSUME NEW s \in EnabledIn(sp.schemas)
      PROVE  /\ s \in DOMAIN acc.schemas /\ acc.schemas[s].enabled = TRUE
             /\ \A t \in EnabledIn(sp.schemas[s].tables) :
                  /\ t \in DOMAIN acc.schemas[s].tables
                  /\ TableMatches(sp.schemas[s].tables[t], acc.schemas[s].tables[t])
  BY <1>1, <1>2, <1>3, Zenon
<1>. QED
  BY <1>3, <1>4, CompareWantedByTable, Zenon

LEMMA CompareDiscovers ==
  ASSUME NEW sp, SpecShaped(sp), NEW acc, CompareSchemaWithCR(Wanted(sp), acc)
  PROVE  AllDiscovered(sp, acc)
BY CompareWantedByTable, Zenon DEF AllDiscovered, validateCRAgainstUpstream

LEMMA CompareKept ==
  ASSUME NEW sp, SpecShaped(sp), NEW old, NEW new, Keeps(old, new),
         CompareSchemaWithCR(Wanted(sp), old)
  PROVE  CompareSchemaWithCR(Wanted(sp), new)
<1>1. /\ PolicyMatches(sp.policy, old)
      /\ \A s \in EnabledIn(sp.schemas) :
           /\ s \in DOMAIN old.schemas /\ old.schemas[s].enabled = TRUE
           /\ \A t \in EnabledIn(sp.schemas[s].tables) :
                /\ t \in DOMAIN old.schemas[s].tables
                /\ TableMatches(sp.schemas[s].tables[t], old.schemas[s].tables[t])
  BY CompareWantedByTable, Zenon
<1>2. PolicyMatches(sp.policy, new)
  BY <1>1, Zenon DEF Keeps, PolicyMatches
<1>3. ASSUME NEW want, NEW a, NEW b, SameTable(a, b), TableMatches(want, a)
      PROVE  TableMatches(want, b)
  BY <1>3, Zenon DEF SameTable, TableMatches
<1>4. ASSUME NEW s \in EnabledIn(sp.schemas)
      PROVE  /\ s \in DOMAIN new.schemas /\ new.schemas[s].enabled = TRUE
             /\ \A t \in EnabledIn(sp.schemas[s].tables) :
                  /\ t \in DOMAIN new.schemas[s].tables
                  /\ TableMatches(sp.schemas[s].tables[t], new.schemas[s].tables[t])
  BY <1>1, <1>3 DEF Keeps
<1>. QED
  BY <1>2, <1>4, CompareWantedByTable, Zenon

(* Nothing that the spec wants is new.                                     *)
NothingNew(sp, old, new) ==
    \A s \in EnabledIn(sp.schemas) \cap DOMAIN new.schemas :
        /\ s \in DOMAIN old.schemas
        /\ \A t \in EnabledIn(sp.schemas[s].tables) \cap DOMAIN new.schemas[s].tables :
              t \in DOMAIN old.schemas[s].tables

LEMMA CompleteNothingNew ==
  ASSUME NEW sp, NEW old, NEW new, Complete(sp, old), FromSource(new)
  PROVE  NothingNew(sp, old, new)
<1>1. \A s \in DOMAIN new.schemas :
        s \in DOMAIN Source /\ \A t \in DOMAIN new.schemas[s].tables : t \in DOMAIN Source[s]
  BY DEF FromSource
<1>. QED
  BY <1>1 DEF Complete, NothingNew

LEMMA SameKeysNothingNew ==
  ASSUME NEW sp, NEW old, NEW new, SameKeys(old, new)
  PROVE  NothingNew(sp, old, new)
BY DEF SameKeys, NothingNew

LEMMA CompleteKept ==
  ASSUME NEW sp, NEW old, NEW new, Complete(sp, old), Keeps(old, new) \/ SameKeys(old, new)
  PROVE  Complete(sp, new)
BY DEF Complete, Keeps, SameKeys

LEMMA ListedWantedByTable ==
  ASSUME NEW sp, NEW acc
  PROVE  ListedAsSpecified(Wanted(sp), acc) <=>
           \A s \in EnabledIn(sp.schemas) \cap DOMAIN acc.schemas :
             /\ acc.schemas[s].enabled = TRUE
             /\ \A t \in EnabledIn(sp.schemas[s].tables) \cap DOMAIN acc.schemas[s].tables :
                  TableAsListed(sp.schemas[s].tables[t], acc.schemas[s].tables[t])
<1> DEFINE w == Wanted(sp)
           Listed(s) ==
             /\ acc.schemas[s].enabled = TRUE
             /\ \A t \in EnabledIn(sp.schemas[s].tables) \cap DOMAIN acc.schemas[s].tables :
                  TableAsListed(sp.schemas[s].tables[t], acc.schemas[s].tables[t])
<1>1. ListedAsSpecified(w, acc) <=>
        \A s \in DOMAIN w.schemas \cap DOMAIN acc.schemas :
           SchemaAsListed(w.schemas[s], acc.schemas[s])
  BY ListedKeyByKey, Zenon
<1>2. /\ DOMAIN w.schemas = EnabledIn(sp.schemas)
      /\ \A s \in EnabledIn(sp.schemas) :
           /\ w.schemas[s].enabled = TRUE
           /\ DOMAIN w.schemas[s].tables = EnabledIn(sp.schemas[s].tables)
           /\ \A t \in EnabledIn(sp.schemas[s].tables) :
                w.schemas[s].tables[t] = sp.schemas[s].tables[t]
  BY WantedValue, Zenon
<1> HIDE DEF w
<1>3. ASSUME NEW s \in EnabledIn(sp.schemas)
      PROVE  SchemaAsListed(w.schemas[s], acc.schemas[s]) <=> Listed(s)
  BY <1>2, Zenon DEF SchemaAsListed
<1>4. ListedAsSpecified(w, acc) <=>
        \A s \in EnabledIn(sp.schemas) \cap DOMAIN acc.schemas : Listed(s)
  <2> HIDE DEF Listed
  <2>. QED
    BY <1>1, <1>2, <1>3
<1>. QED
  BY <1>4, Zenon DEF w

LEMMA ListedWanted ==
  ASSUME NEW sp, SpecShaped(sp), NEW acc, ListedAsSpecified(sp, acc)
  PROVE  ListedAsSpecified(Wanted(sp), acc)
<1>1. \A s \in DOMAIN sp.schemas \cap DOMAIN acc.schemas :
        SchemaAsListed(sp.schemas[s], acc.schemas[s])
  BY ListedKeyByKey
<1>2. ASSUME NEW s \in EnabledIn(sp.schemas)
      PROVE  /\ s \in DOMAIN sp.schemas /\ sp.schemas[s].enabled = TRUE
             /\ EnabledIn(sp.schemas[s].tables) \subseteq DOMAIN sp.schemas[s].tables
  BY DEF EnabledIn, SpecShaped
<1>3. ASSUME NEW s \in EnabledIn(sp.schemas) \cap DOMAIN acc.schemas
      PROVE  /\ acc.schemas[s].enabled = TRUE
             /\ \A t \in EnabledIn(sp.schemas[s].tables) \cap DOMAIN acc.schemas[s].tables :
                  TableAsListed(sp.schemas[s].tables[t], acc.schemas[s].tables[t])
  BY <1>1, <1>2, Zenon DEF SchemaAsListed
<1>. QED
  BY <1>3, ListedWantedByTable, Zenon

LEMMA SameTableListed ==
  ASSUME NEW want, NEW old, NEW new, SameTable(old, new), TableAsListed(want, old)
  PROVE  TableAsListed(want, new)
BY Zenon DEF SameTable, TableAsListed

LEMMA ListedKept ==
  ASSUME NEW sp, NEW old, NEW new, Keeps(old, new), NothingNew(sp, old, new),
         ListedAsSpecified(Wanted(sp), old)
  PROVE  ListedAsSpecified(Wanted(sp), new)
<1>1. \A s \in EnabledIn(sp.schemas) \cap DOMAIN old.schemas :
        /\ old.schemas[s].enabled = TRUE
        /\ \A t \in EnabledIn(sp.schemas[s].tables) \cap DOMAIN old.schemas[s].tables :
             TableAsListed(sp.schemas[s].tables[t], old.schemas[s].tables[t])
  BY ListedWantedByTable, Zenon
<1>2. ASSUME NEW s \in EnabledIn(sp.schemas) \cap DOMAIN new.schemas
      PROVE  /\ new.schemas[s].enabled = TRUE
             /\ \A t \in EnabledIn(sp.schemas[s].tables) \cap DOMAIN new.schemas[s].tables :
                  TableAsListed(sp.schemas[s].tables[t], new.schemas[s].tables[t])
  BY <1>1, SameTableListed DEF Keeps, NothingNew
<1>. QED
  BY <1>2, ListedWantedByTable, Zenon

(* The same keys, and tables that are the same up to being shown.          *)
LEMMA ListedSame ==
  ASSUME NEW sp, NEW old, NEW new, Keeps(old, new), SameKeys(old, new),
         ListedAsSpecified(sp, old)
  PROVE  ListedAsSpecified(sp, new)
<1>1. \A s \in DOMAIN sp.schemas \cap DOMAIN old.schemas :
        SchemaAsListed(sp.schemas[s], old.schemas[s])
  BY ListedKeyByKey
<1>2. ASSUME NEW s \in DOMAIN sp.schemas \cap DOMAIN new.schemas
      PROVE  SchemaAsListed(sp.schemas[s], new.schemas[s])
  BY <1>1, SameTableListed DEF Keeps, SameKeys, SchemaAsListed
<1>. QED
  BY <1>2, ListedKeyByKey

LEMMA UnlistedSame ==
  ASSUME NEW sp, NEW old, NEW new, Keeps(old, new), SameKeys(old, new),
         UnlistedFollowPolicy(sp, old)
  PROVE  UnlistedFollowPolicy(sp, new)
<1>1. CASE ~ManagesUnlisted(sp)
  BY <1>1, Zenon DEF UnlistedFollowPolicy
<1>2. CASE ManagesUnlisted(sp)
  <2>1. \A s \in DOMAIN old.schemas :
          IF s \notin DOMAIN sp.schemas
          THEN ~old.schemas[s].enabled
          ELSE sp.schemas[s].enabled =>
                 \A t \in DOMAIN old.schemas[s].tables :
                    TableFollows(sp, s, t, old.schemas[s].tables[t])
    BY <1>2, FollowsKeyByKey
  <2>2. ASSUME NEW s, NEW t, NEW a, NEW b, SameTable(a, b), TableFollows(sp, s, t, a)
        PROVE  TableFollows(sp, s, t, b)
    BY <2>2, Zenon DEF SameTable, TableFollows
  <2>3. ASSUME NEW s \in DOMAIN new.schemas, s \in DOMAIN sp.schemas, sp.schemas[s].enabled,
               NEW t \in DOMAIN new.schemas[s].tables
        PROVE  TableFollows(sp, s, t, new.schemas[s].tables[t])
    BY <2>1, <2>2, <2>3 DEF Keeps, SameKeys
  <2>4. ASSUME NEW s \in DOMAIN new.schemas, s \notin DOMAIN sp.schemas
        PROVE  ~new.schemas[s].enabled
    <3>1. new.schemas[s].enabled = old.schemas[s].enabled /\ ~old.schemas[s].enabled
      BY <2>1, <2>4 DEF Keeps, SameKeys
    <3>. QED
      BY <3>1, Zenon
  <2>. QED
    BY <1>2, <2>3, <2>4, FollowsKeyByKey
<1>. QED
  BY <1>1, <1>2

(* LockedColumnViolations, column by column; what is locked is decided by  *)
(* the source.                                                             *)
LockedOff(sp, acc, s, t, c) ==
    /\ ~sp.schemas[s].tables[t].columns[c].enabled
    /\ s \in DOMAIN acc.schemas /\ t \in DOMAIN acc.schemas[s].tables
    /\ c \in DOMAIN Source[s][t].columns /\ Source[s][t].columns[c]

LEMMA LockedByColumn ==
  ASSUME NEW sp, NEW acc, FromSource(acc)
  PROVE  LockedColumnViolations(Wanted(sp), acc) = {} <=>
           \A s \in EnabledIn(sp.schemas) : \A t \in EnabledIn(sp.schemas[s].tables) :
             \A c \in DOMAIN sp.schemas[s].tables[t].columns : ~LockedOff(sp, acc, s, t, c)
<1> DEFINE w == Wanted(sp)
           Bad(s, t) ==
             {c \in DOMAIN w.schemas[s].tables[t].columns :
                /\ ~w.schemas[s].tables[t].columns[c].enabled
                /\ s \in DOMAIN acc.schemas /\ t \in DOMAIN acc.schemas[s].tables
                /\ c \in DOMAIN acc.schemas[s].tables[t].columns
                /\ acc.schemas[s].tables[t].columns[c].locked}
<1>1. LockedColumnViolations(w, acc) =
        UNION {{p} \X Bad(p[1], p[2]) : p \in TablesWithColumns(w)}
  BY DEF LockedColumnViolations
<1>2. /\ DOMAIN w.schemas = EnabledIn(sp.schemas)
      /\ \A s \in EnabledIn(sp.schemas) :
           /\ w.schemas[s].enabled = TRUE
           /\ DOMAIN w.schemas[s].tables = EnabledIn(sp.schemas[s].tables)
           /\ \A t \in EnabledIn(sp.schemas[s].tables) :
                w.schemas[s].tables[t] = sp.schemas[s].tables[t]
  BY WantedValue, Zenon
<1>3. ASSUME NEW s \in DOMAIN acc.schemas, NEW t \in DOMAIN acc.schemas[s].tables, NEW c
      PROVE  c \in DOMAIN acc.schemas[s].tables[t].columns
                /\ acc.schemas[s].tables[t].columns[c].locked <=>
             c \in DOMAIN Source[s][t].columns /\ Source[s][t].columns[c]
  <2>1. TableFromSource(s, t, acc.schemas[s].tables[t])
    BY FromSourceByTable DEF SchemaFromSource
  <2> DEFINE cols == acc.schemas[s].tables[t].columns
  <2>2. DOMAIN cols = DOMAIN Source[s][t].columns
        /\ \A k \in DOMAIN cols : cols[k].locked = Source[s][t].columns[k]
    BY <2>1, Zenon DEF TableFromSource
  <2> HIDE DEF cols
  <2>3. c \in DOMAIN cols /\ cols[c].locked <=>
          c \in DOMAIN Source[s][t].columns /\ Source[s][t].columns[c]
    BY <2>2, Zenon
  <2>. QED
    BY <2>3, Zenon DEF cols
<1>4. ASSUME NEW s \in EnabledIn(sp.schemas), NEW t \in EnabledIn(sp.schemas[s].tables), NEW c
      PROVE  c \in Bad(s, t) <=>
               c \in DOMAIN sp.schemas[s].tables[t].columns /\ LockedOff(sp, acc, s, t, c)
  <2>1. w.schemas[s].tables[t] = sp.schemas[s].tables[t]
    BY <1>2
  <2>2. c \in Bad(s, t) <=>
          /\ c \in DOMAIN w.schemas[s].tables[t].columns
          /\ ~w.schemas[s].tables[t].columns[c].enabled
          /\ s \in DOMAIN acc.schemas /\ t \in DOMAIN acc.schemas[s].tables
          /\ c \in DOMAIN acc.schemas[s].tables[t].columns
          /\ acc.schemas[s].tables[t].columns[c].locked
    BY Zenon
  <2> HIDE DEF w, Bad
  <2>. QED
    BY <1>3, <2>1, <2>2, Zenon DEF LockedOff
<1> HIDE DEF Bad
<1>5. ASSUME NEW p
      PROVE  p \in TablesWithColumns(w) <=>
               \E s \in EnabledIn(sp.schemas) : \E t \in EnabledIn(sp.schemas[s].tables) :
                 p = <<s, t>> /\ DOMAIN sp.schemas[s].tables[t].columns # {}
  <2>1. EnabledIn(w.schemas) = EnabledIn(sp.schemas)
    <3> HIDE DEF w
    <3>. QED
      BY <1>2 DEF EnabledIn
  <2> DEFINE With(s) == {t \in DOMAIN w.schemas[s].tables :
                            DOMAIN w.schemas[s].tables[t].columns # {}}
  <2>2. TablesWithColumns(w) = UNION {{s} \X With(s) : s \in EnabledIn(sp.schemas)}
    BY <2>1, Zenon DEF TablesWithColumns
  <2>3. ASSUME NEW s \in EnabledIn(sp.schemas), NEW t
        PROVE  t \in With(s) <=> t \in EnabledIn(sp.schemas[s].tables)
                                   /\ DOMAIN sp.schemas[s].tables[t].columns # {}
    <3> HIDE DEF w
    <3>. QED
      BY <1>2
  <2> HIDE DEF With
  <2>4. ASSUME NEW s
        PROVE  p \in {s} \X With(s) <=> \E t \in With(s) : p = <<s, t>>
    OBVIOUS
  <2>5. p \in TablesWithColumns(w) <=> \E s \in EnabledIn(sp.schemas) : p \in {s} \X With(s)
    BY <2>2, Zenon
  <2>. QED
    BY <2>3, <2>4, <2>5, Zenon
<1>6. LockedColumnViolations(w, acc) = {} <=>
        \A p \in TablesWithColumns(w) : Bad(p[1], p[2]) = {}
  <2> DEFINE B(p) == Bad(p[1], p[2])
  <2>1. ASSUME NEW p, NEW T PROVE {p} \X T = {} <=> T = {}
    <3>1. ASSUME NEW x \in T PROVE <<p, x>> \in {p} \X T
      OBVIOUS
    <3>2. T = {} => {p} \X T = {}
      OBVIOUS
    <3>. QED
      BY <3>1, <3>2, Zenon
  <2>2. UNION {{p} \X B(p) : p \in TablesWithColumns(w)} = {} <=>
          \A p \in TablesWithColumns(w) : {p} \X B(p) = {}
    <3> HIDE DEF B
    <3>. QED
      BY Zenon
  <2> HIDE DEF B
  <2>3. UNION {{p} \X B(p) : p \in TablesWithColumns(w)} = {} <=>
          \A p \in TablesWithColumns(w) : B(p) = {}
    BY <2>1, <2>2, Zenon
  <2>. QED
    BY <1>1, <2>3, Zenon DEF B
<1>7. (\A p \in TablesWithColumns(w) : Bad(p[1], p[2]) = {}) <=>
        \A s \in EnabledIn(sp.schemas) : \A t \in EnabledIn(sp.schemas[s].tables) : Bad(s, t) = {}
  <2>1. ASSUME NEW s \in EnabledIn(sp.schemas), NEW t \in EnabledIn(sp.schemas[s].tables)
        PROVE  /\ <<s, t>>[1] = s /\ <<s, t>>[2] = t
               /\ DOMAIN sp.schemas[s].tables[t].columns = {} => Bad(s, t) = {}
    BY <1>4
  <2> HIDE DEF w
  <2>2. ASSUME \A p \in TablesWithColumns(w) : Bad(p[1], p[2]) = {},
               NEW s \in EnabledIn(sp.schemas), NEW t \in EnabledIn(sp.schemas[s].tables),
               DOMAIN sp.schemas[s].tables[t].columns # {}
        PROVE  Bad(s, t) = {}
    <3>1. <<s, t>> \in TablesWithColumns(w)
      BY <1>5, <2>2
    <3>2. Bad(<<s, t>>[1], <<s, t>>[2]) = {}
      BY <2>2, <3>1, Zenon
    <3>. QED
      BY <2>1, <3>2
  <2>3. ASSUME \A s \in EnabledIn(sp.schemas) :
                 \A t \in EnabledIn(sp.schemas[s].tables) : Bad(s, t) = {},
               NEW p \in TablesWithColumns(w)
        PROVE  Bad(p[1], p[2]) = {}
    <3>1. PICK s \in EnabledIn(sp.schemas) : \E t \in EnabledIn(sp.schemas[s].tables) :
             p = <<s, t>>
      BY <1>5
    <3>2. PICK t \in EnabledIn(sp.schemas[s].tables) : p = <<s, t>>
      BY <3>1
    <3>3. p[1] = s /\ p[2] = t /\ Bad(s, t) = {}
      BY <2>3, <3>2
    <3>. QED
      BY <3>3, Zenon
  <2>. QED
    BY <2>1, <2>2, <2>3, Zenon
<1>8. ASSUME NEW s \in EnabledIn(sp.schemas), NEW t \in EnabledIn(sp.schemas[s].tables)
      PROVE  Bad(s, t) = {} <=>
               \A c \in DOMAIN sp.schemas[s].tables[t].columns : ~LockedOff(sp, acc, s, t, c)
  BY <1>4
<1>. QED
  BY <1>6, <1>7, <1>8, Zenon DEF w

LEMMA LockedKept ==
  ASSUME NEW sp, NEW old, NEW new, FromSource(old), FromSource(new), NothingNew(sp, old, new),
         LockedColumnViolations(Wanted(sp), old) = {}
  PROVE  LockedColumnViolations(Wanted(sp), new) = {}
<1>1. \A s \in EnabledIn(sp.schemas) : \A t \in EnabledIn(sp.schemas[s].tables) :
        \A c \in DOMAIN sp.schemas[s].tables[t].columns : ~LockedOff(sp, old, s, t, c)
  BY LockedByColumn, Zenon
<1>2. ASSUME NEW s \in EnabledIn(sp.schemas), NEW t \in EnabledIn(sp.schemas[s].tables),
             NEW c, LockedOff(sp, new, s, t, c)
      PROVE  LockedOff(sp, old, s, t, c)
  BY <1>2, Zenon DEF NothingNew, LockedOff
<1>. QED
  BY <1>1, <1>2, LockedByColumn, Zenon

(* Fivetran refuses a payload that disables a locked column.               *)
LEMMA AcceptedNoLocked ==
  ASSUME NEW sp, SpecShaped(sp), NEW acc, FromSource(acc), NEW det,
         ~Rejects(acc, BuildSchemaConfig(sp, det))
  PROVE  LockedColumnViolations(Wanted(sp), acc) = {}
<1>1. ASSUME NEW s \in EnabledIn(sp.schemas), NEW t \in EnabledIn(sp.schemas[s].tables),
             NEW c \in DOMAIN sp.schemas[s].tables[t].columns, LockedOff(sp, acc, s, t, c)
      PROVE  FALSE
  <2> DEFINE payload == BuildSchemaConfig(sp, det)
             sent == payload.schemas[s].tables[t]
             want == sp.schemas[s].tables[t].columns
             there == acc.schemas[s].tables[t].columns
  <2>1. s \in DOMAIN sp.schemas /\ sp.schemas[s].enabled /\ t \in DOMAIN sp.schemas[s].tables
    BY EnabledValue, Zenon
  <2>2. /\ s \in DOMAIN payload.schemas /\ t \in DOMAIN payload.schemas[s].tables
        /\ c \in DOMAIN sent.columns /\ sent.columns[c] = want[c]
    <3> HIDE DEF payload
    <3>1. s \in DOMAIN payload.schemas
          /\ \A u \in DOMAIN sp.schemas[s].tables :
               /\ u \in DOMAIN payload.schemas[s].tables
               /\ \A k \in DOMAIN sp.schemas[s].tables[u].columns :
                    /\ k \in DOMAIN payload.schemas[s].tables[u].columns
                    /\ payload.schemas[s].tables[u].columns[k] = sp.schemas[s].tables[u].columns[k]
      BY <2>1, PayloadListed, Zenon DEF payload
    <3>. QED
      BY <2>1, <3>1, Zenon
  <2>3. /\ s \in DOMAIN acc.schemas /\ t \in DOMAIN acc.schemas[s].tables
        /\ ~want[c].enabled
        /\ c \in DOMAIN Source[s][t].columns /\ Source[s][t].columns[c]
    BY <1>1, Zenon DEF LockedOff
  <2>4. TableFromSource(s, t, acc.schemas[s].tables[t])
    BY <2>3, FromSourceByTable DEF SchemaFromSource
  <2>5. c \in DOMAIN there /\ there[c].locked /\ there[c].enabled
    BY <2>3, <2>4, Zenon DEF TableFromSource
  <2>6. sent.columns[c].enabled # there[c].enabled
    <3> HIDE DEF sent, want, there
    <3>1. sent.columns[c].enabled = want[c].enabled
      BY <2>2
    <3>. QED
      BY <2>3, <2>5, <3>1, Zenon
  <2> HIDE DEF payload
  <2>7. Rejects(acc, payload)
    <3>1. s \in DOMAIN payload.schemas \cap DOMAIN acc.schemas
          /\ t \in DOMAIN payload.schemas[s].tables \cap DOMAIN acc.schemas[s].tables
          /\ c \in DOMAIN payload.schemas[s].tables[t].columns
                     \cap DOMAIN acc.schemas[s].tables[t].columns
      BY <2>2, <2>3, <2>5
    <3>. QED
      BY <2>5, <2>6, <3>1, Zenon DEF Rejects
  <2>. QED
    BY <2>7, Zenon DEF payload
<1>. QED
  BY <1>1, LockedByColumn, Zenon

(* The response, table by table.                                           *)
LEMMA ResponseValue ==
  ASSUME FromSource(account), NEW columns
  PROVE  /\ DOMAIN Response(columns) = {"policy", "schemas"}
         /\ Response(columns).policy = account.policy
         /\ DOMAIN Response(columns).schemas = DOMAIN account.schemas
         /\ \A s \in DOMAIN account.schemas :
              /\ DOMAIN Response(columns).schemas[s] = DOMAIN account.schemas[s]
              /\ Response(columns).schemas[s].enabled = account.schemas[s].enabled
              /\ DOMAIN Response(columns).schemas[s].tables = DOMAIN account.schemas[s].tables
<1> DEFINE Tab(s, t) == [account.schemas[s].tables[t] EXCEPT
                            !.columns = IF columns /\ account.schemas[s].tables[t].shown
                                        THEN @ ELSE NoMap]
           Tabs(s) == [t \in DOMAIN account.schemas[s].tables |-> Tab(s, t)]
           new == [s \in DOMAIN account.schemas |-> [account.schemas[s] EXCEPT !.tables = Tabs(s)]]
<1>1. Response(columns) = [policy |-> account.policy, schemas |-> new]
  BY DEF Response, WithTables
<1>2. \A s \in DOMAIN account.schemas : {"enabled", "tables"} \subseteq DOMAIN account.schemas[s]
  BY FromSourceByTable DEF SchemaFromSource
<1>3. ASSUME NEW s PROVE DOMAIN Tabs(s) = DOMAIN account.schemas[s].tables
  OBVIOUS
<1> HIDE DEF Tabs
<1>4. ASSUME NEW s \in DOMAIN account.schemas
      PROVE  /\ DOMAIN new[s] = DOMAIN account.schemas[s] /\ new[s].tables = Tabs(s)
             /\ new[s].enabled = account.schemas[s].enabled
  BY <1>2
<1>5. DOMAIN new = DOMAIN account.schemas
  OBVIOUS
<1> HIDE DEF new
<1>. QED
  BY <1>1, <1>3, <1>4, <1>5

LEMMA ResponseTable ==
  ASSUME FromSource(account), NEW columns,
         NEW s \in DOMAIN account.schemas, NEW t \in DOMAIN account.schemas[s].tables
  PROVE  LET old == account.schemas[s].tables[t]
             new == Response(columns).schemas[s].tables[t]
         IN  /\ DOMAIN new = DOMAIN old
             /\ new.enabled = old.enabled /\ new.sync = old.sync /\ new.locked = old.locked
             /\ columns /\ old.shown => new.columns = old.columns
             /\ ~(columns /\ old.shown) => new.columns = NoMap
<1> DEFINE Tab(k, u) == [account.schemas[k].tables[u] EXCEPT
                            !.columns = IF columns /\ account.schemas[k].tables[u].shown
                                        THEN @ ELSE NoMap]
           Tabs(k) == [u \in DOMAIN account.schemas[k].tables |-> Tab(k, u)]
           new == [k \in DOMAIN account.schemas |-> [account.schemas[k] EXCEPT !.tables = Tabs(k)]]
<1>1. Response(columns) = [policy |-> account.policy, schemas |-> new]
  BY DEF Response, WithTables
<1>2. {"enabled", "tables"} \subseteq DOMAIN account.schemas[s]
  BY FromSourceByTable DEF SchemaFromSource
<1>3. TableFromSource(s, t, account.schemas[s].tables[t])
  BY FromSourceByTable DEF SchemaFromSource
<1>4. {"enabled", "sync", "locked", "columns", "shown"} \subseteq DOMAIN account.schemas[s].tables[t]
  BY <1>3 DEF TableFromSource
<1>5. Tabs(s)[t] = Tab(s, t)
  OBVIOUS
<1> HIDE DEF Tabs
<1>6. new[s].tables = Tabs(s)
  BY <1>2
<1> HIDE DEF new
<1>7. Response(columns).schemas[s].tables[t] = Tab(s, t)
  BY <1>1, <1>5, <1>6
<1>. QED
  BY <1>4, <1>7

LEMMA ResponseCompare ==
  ASSUME FromSource(account), NEW sp, NEW columns
  PROVE  CompareSchemaWithCR(sp, Response(columns)) <=> CompareSchemaWithCR(sp, account)
<1>1. ASSUME NEW s \in DOMAIN account.schemas, NEW t \in DOMAIN account.schemas[s].tables, NEW want
      PROVE  TableMatches(want, Response(columns).schemas[s].tables[t]) <=>
               TableMatches(want, account.schemas[s].tables[t])
  <2>1. /\ Response(columns).schemas[s].tables[t].enabled = account.schemas[s].tables[t].enabled
        /\ Response(columns).schemas[s].tables[t].sync = account.schemas[s].tables[t].sync
    BY ResponseTable, Zenon
  <2>. QED
    BY <2>1, Zenon DEF TableMatches
<1>2. PolicyMatches(sp.policy, Response(columns)) <=> PolicyMatches(sp.policy, account)
  <2>1. Response(columns).policy = account.policy
    BY ResponseValue, Zenon
  <2>. QED
    BY <2>1, Zenon DEF PolicyMatches
<1> DEFINE r == Response(columns)
<1>3. /\ DOMAIN r.schemas = DOMAIN account.schemas
      /\ \A s \in DOMAIN account.schemas :
              /\ r.schemas[s].enabled = account.schemas[s].enabled
              /\ DOMAIN r.schemas[s].tables = DOMAIN account.schemas[s].tables
  BY ResponseValue, Zenon
<1> DEFINE Good(acc, s) ==
             IF s \in DOMAIN acc.schemas
                THEN /\ acc.schemas[s].enabled = sp.schemas[s].enabled
                     /\ sp.schemas[s].enabled =>
                          \A t \in DOMAIN sp.schemas[s].tables :
                            IF t \in DOMAIN acc.schemas[s].tables
                            THEN TableMatches(sp.schemas[s].tables[t], acc.schemas[s].tables[t])
                            ELSE ~sp.schemas[s].tables[t].enabled
                ELSE ~sp.schemas[s].enabled
<1>4. ASSUME NEW s PROVE Good(r, s) <=> Good(account, s)
  <2>1. CASE s \in DOMAIN account.schemas
    <3> DEFINE T(acc, t) ==
                 IF t \in DOMAIN acc.schemas[s].tables
                 THEN TableMatches(sp.schemas[s].tables[t], acc.schemas[s].tables[t])
                 ELSE ~sp.schemas[s].tables[t].enabled
    <3>1. ASSUME NEW t PROVE T(r, t) <=> T(account, t)
      BY <1>1, <1>3, <2>1, Zenon
    <3>2. r.schemas[s].enabled = sp.schemas[s].enabled <=>
            account.schemas[s].enabled = sp.schemas[s].enabled
      BY <1>3, <2>1, Zenon
    <3>3. s \in DOMAIN r.schemas
      BY <1>3, <2>1, Zenon
    <3> HIDE DEF r
    <3>4. ASSUME NEW acc, s \in DOMAIN acc.schemas
          PROVE  Good(acc, s) <=> /\ acc.schemas[s].enabled = sp.schemas[s].enabled
                                  /\ sp.schemas[s].enabled =>
                                       \A t \in DOMAIN sp.schemas[s].tables : T(acc, t)
      BY <3>4, Zenon
    <3> HIDE DEF T, Good
    <3>. QED
      BY <2>1, <3>1, <3>2, <3>3, <3>4, Zenon
  <2>2. CASE s \notin DOMAIN account.schemas
    <3>1. s \notin DOMAIN r.schemas
      BY <1>3, <2>2, Zenon
    <3> HIDE DEF r
    <3>. QED
      BY <2>2, <3>1, Zenon
  <2>. QED
    BY <2>1, <2>2, Zenon
<1>5. ASSUME NEW acc
      PROVE  CompareSchemaWithCR(sp, acc) <=>
               PolicyMatches(sp.policy, acc) /\ \A s \in DOMAIN sp.schemas : Good(acc, s)
  BY CompareByTable, Zenon
<1> HIDE DEF Good
<1>. QED
  BY <1>2, <1>4, <1>5, Zenon

LEMMA ResponseValidate ==
  ASSUME FromSource(account), NEW sp, NEW columns
  PROVE  validateCRAgainstUpstream(sp, Response(columns)) <=>
           validateCRAgainstUpstream(sp, account)
<1> DEFINE r == Response(columns)
<1>1. /\ DOMAIN r.schemas = DOMAIN account.schemas
      /\ \A s \in DOMAIN account.schemas :
              DOMAIN r.schemas[s].tables = DOMAIN account.schemas[s].tables
  BY ResponseValue, Zenon
<1> HIDE DEF r
<1>2. validateCRAgainstUpstream(sp, r) <=> validateCRAgainstUpstream(sp, account)
  BY <1>1, Zenon DEF validateCRAgainstUpstream
<1>. QED
  BY <1>2, Zenon DEF r

LEMMA ValidatedComplete ==
  ASSUME NEW sp, NEW acc, ~validateCRAgainstUpstream(sp, acc)
  PROVE  Complete(sp, acc)
BY DEF validateCRAgainstUpstream, Complete

(* What CreateSchema starts from.                                          *)
LEMMA SkeletonValue ==
  ASSUME FromSource(account), NEW payload
  PROVE  LET new == Skeleton(payload)
         IN  /\ DOMAIN new = {"exists", "policy", "schemas"}
             /\ new.exists = TRUE /\ new.policy = account.policy
             /\ DOMAIN new.schemas = DOMAIN payload.schemas \cap DOMAIN Source
             /\ \A s \in DOMAIN new.schemas :
                  /\ DOMAIN new.schemas[s] = {"enabled", "tables"}
                  /\ DOMAIN new.schemas[s].tables =
                       DOMAIN payload.schemas[s].tables \cap DOMAIN Source[s]
                  /\ \A t \in DOMAIN new.schemas[s].tables :
                       new.schemas[s].tables[t] =
                         NewTable(s, t, FALSE, payload.policy # "BLOCK_ALL")
<1> DEFINE Tab(s, t) == NewTable(s, t, FALSE, payload.policy # "BLOCK_ALL")
           Tabs(s) == [t \in DOMAIN payload.schemas[s].tables \cap DOMAIN Source[s] |-> Tab(s, t)]
           Sch(s) == [enabled |-> FALSE, tables |-> Tabs(s)]
           schemas == [s \in DOMAIN payload.schemas \cap DOMAIN Source |-> Sch(s)]
<1>1. Skeleton(payload) = [account EXCEPT !.exists = TRUE, !.schemas = schemas]
  BY DEF Skeleton
<1>2. DOMAIN account = {"exists", "policy", "schemas"}
  BY FromSourceByTable
<1>3. ASSUME NEW s
      PROVE  /\ DOMAIN Tabs(s) = DOMAIN payload.schemas[s].tables \cap DOMAIN Source[s]
             /\ \A t \in DOMAIN Tabs(s) : Tabs(s)[t] = Tab(s, t)
  <2> HIDE DEF Tab
  <2>. QED
    OBVIOUS
<1> HIDE DEF Tab, Tabs
<1>4. /\ DOMAIN schemas = DOMAIN payload.schemas \cap DOMAIN Source
      /\ \A s \in DOMAIN schemas : /\ DOMAIN schemas[s] = {"enabled", "tables"}
                                   /\ schemas[s].tables = Tabs(s)
  OBVIOUS
<1> HIDE DEF schemas
<1> DEFINE new == Skeleton(payload)
<1>5. /\ DOMAIN new = {"exists", "policy", "schemas"}
      /\ new.exists = TRUE /\ new.policy = account.policy /\ new.schemas = schemas
  BY <1>1, <1>2
<1> HIDE DEF new
<1>6. \A s \in DOMAIN schemas : \A t \in DOMAIN schemas[s].tables :
        schemas[s].tables[t] = NewTable(s, t, FALSE, payload.policy # "BLOCK_ALL")
  BY <1>3, <1>4, Zenon DEF Tab
<1>7. /\ DOMAIN new = {"exists", "policy", "schemas"}
      /\ new.exists = TRUE /\ new.policy = account.policy
      /\ DOMAIN new.schemas = DOMAIN payload.schemas \cap DOMAIN Source
      /\ \A s \in DOMAIN new.schemas :
           /\ DOMAIN new.schemas[s] = {"enabled", "tables"}
           /\ DOMAIN new.schemas[s].tables = DOMAIN payload.schemas[s].tables \cap DOMAIN Source[s]
           /\ \A t \in DOMAIN new.schemas[s].tables :
                new.schemas[s].tables[t] = NewTable(s, t, FALSE, payload.policy # "BLOCK_ALL")
  BY <1>3, <1>4, <1>5, <1>6, Zenon
<1>. QED
  BY <1>7, Zenon DEF new

LEMMA SkeletonFromSource ==
  ASSUME FromSource(account), NEW payload
  PROVE  FromSource(Skeleton(payload)) /\ Skeleton(payload).exists = TRUE
<1> DEFINE new == Skeleton(payload)
<1>1. /\ DOMAIN new = {"exists", "policy", "schemas"}
      /\ new.exists = TRUE /\ new.policy = account.policy
      /\ DOMAIN new.schemas = DOMAIN payload.schemas \cap DOMAIN Source
      /\ \A s \in DOMAIN new.schemas :
           /\ DOMAIN new.schemas[s] = {"enabled", "tables"}
           /\ DOMAIN new.schemas[s].tables = DOMAIN payload.schemas[s].tables \cap DOMAIN Source[s]
           /\ \A t \in DOMAIN new.schemas[s].tables :
                new.schemas[s].tables[t] = NewTable(s, t, FALSE, payload.policy # "BLOCK_ALL")
  BY SkeletonValue, Zenon
<1> HIDE DEF new
<1>2. ASSUME NEW s \in DOMAIN new.schemas PROVE SchemaFromSource(s, new.schemas[s])
  <2>1. s \in DOMAIN Source /\ {"enabled", "tables"} \subseteq DOMAIN new.schemas[s]
    BY <1>1, Zenon
  <2>2. ASSUME NEW t \in DOMAIN new.schemas[s].tables
        PROVE  TableFromSource(s, t, new.schemas[s].tables[t])
    <3>1. t \in DOMAIN Source[s] /\ (payload.policy # "BLOCK_ALL") \in BOOLEAN
      BY <1>1, Zenon
    <3>2. TableFromSource(s, t, NewTable(s, t, FALSE, payload.policy # "BLOCK_ALL"))
      BY <2>1, <3>1, NewTableFromSource, Zenon
    <3>. QED
      BY <1>1, <3>2, Zenon
  <2>. QED
    BY <2>1, <2>2, Zenon DEF SchemaFromSource
<1>3. account.policy \in Policies
  BY FromSourceByTable
<1>4. FromSource(new)
  BY <1>1, <1>2, <1>3, FromSourceByTable, Zenon
<1>. QED
  BY <1>1, <1>4, Zenon DEF new

(* The tables that CreateSchema makes have their columns at the policy's   *)
(* default, apart from the listed ones.                                    *)
LEMMA CreatedFollows ==
  ASSUME FromSource(account), NEW sp
  PROVE  LET payload == BuildNewSchemaConfig(sp)
         IN  UnlistedFollowPolicy(sp, Patch(Skeleton(payload), payload))
<1> DEFINE payload == BuildNewSchemaConfig(sp)
           start == Skeleton(payload)
           end == Patch(start, payload)
<1>1. /\ payload.policy = sp.policy /\ DOMAIN payload.schemas = DOMAIN sp.schemas
      /\ \A s \in DOMAIN sp.schemas :
           sp.schemas[s].enabled => payload.schemas[s].tables = sp.schemas[s].tables
  BY Zenon DEF BuildNewSchemaConfig, fromCR, SchemaFromCR
<1> HIDE DEF payload
<1>2. /\ DOMAIN start = {"exists", "policy", "schemas"}
      /\ start.exists = TRUE /\ start.policy = account.policy
      /\ DOMAIN start.schemas = DOMAIN payload.schemas \cap DOMAIN Source
      /\ \A s \in DOMAIN start.schemas :
           /\ DOMAIN start.schemas[s] = {"enabled", "tables"}
           /\ DOMAIN start.schemas[s].tables = DOMAIN payload.schemas[s].tables \cap DOMAIN Source[s]
           /\ \A t \in DOMAIN start.schemas[s].tables :
                start.schemas[s].tables[t] = NewTable(s, t, FALSE, payload.policy # "BLOCK_ALL")
  BY SkeletonValue, Zenon
<1>3. Shaped(start)
  BY SkeletonFromSource, Zenon DEF FromSource
<1> HIDE DEF start
<1>4. /\ DOMAIN end.schemas = DOMAIN start.schemas
      /\ \A s \in DOMAIN start.schemas :
           DOMAIN end.schemas[s].tables = DOMAIN start.schemas[s].tables
  BY <1>3, PatchKeys, Zenon
<1>5. ASSUME NEW s \in DOMAIN start.schemas, NEW t \in DOMAIN start.schemas[s].tables,
             sp.schemas[s].enabled
      PROVE  TableFollows(sp, s, t, end.schemas[s].tables[t])
  <2> DEFINE want == sp.schemas[s].tables[t].columns
             old == start.schemas[s].tables[t].columns
             new == end.schemas[s].tables[t].columns
  <2>1. /\ s \in DOMAIN sp.schemas /\ t \in DOMAIN sp.schemas[s].tables /\ Mentions(payload, s, t)
        /\ payload.schemas[s].tables[t] = sp.schemas[s].tables[t]
    BY <1>1, <1>2, <1>5, Zenon DEF Mentions
  <2>2. new = PatchColumns(old, want)
    <3>1. new = PatchColumns(old, payload.schemas[s].tables[t].columns)
      BY <1>3, <2>1, PatchedTable
    <3>. QED
      BY <2>1, <3>1, Zenon
  <2>3. ColumnsShaped(old)
    BY <1>3 DEF Shaped, SchemasShaped, TablesShaped
  <2>4. old = [c \in DOMAIN Source[s][t].columns |->
                 NewColumn(s, t, c, payload.policy # "BLOCK_ALL")]
    <3>1. old = NewTable(s, t, FALSE, payload.policy # "BLOCK_ALL").columns
      BY <1>2, Zenon
    <3>. QED
      BY <3>1 DEF NewTable
  <2> HIDE DEF old
  <2>5. ASSUME NEW c \in DOMAIN old
        PROVE  old[c].locked \/ old[c].enabled = (sp.policy # "BLOCK_ALL")
    <3>1. old[c] = NewColumn(s, t, c, payload.policy # "BLOCK_ALL")
      BY <2>4
    <3>2. /\ old[c].enabled = ((payload.policy # "BLOCK_ALL") \/ Source[s][t].columns[c])
          /\ old[c].locked = Source[s][t].columns[c]
      BY <3>1 DEF NewColumn
    <3>. QED
      BY <1>1, <3>2
  <2>6. ASSUME NEW c \in DOMAIN new \ DOMAIN want
        PROVE  c \in DOMAIN old /\ new[c] = old[c]
    <3> HIDE DEF new, want
    <3>1. DOMAIN new = DOMAIN old
      BY <2>2, <2>3, PatchColumnsShape
    <3>. QED
      BY <2>2, <2>3, <3>1, PatchColumnsValue
  <2>7. ColumnsFollow(sp.policy, want, new)
    <3> HIDE DEF new, want
    <3>. QED
      BY <2>5, <2>6, Zenon DEF ColumnsFollow
  <2>. QED
    BY <2>1, <2>7, Zenon DEF TableFollows
<1> HIDE DEF end
<1>6. UnlistedFollowPolicy(sp, end)
  <2>1. CASE ~ManagesUnlisted(sp)
    BY <2>1 DEF UnlistedFollowPolicy
  <2>2. CASE ManagesUnlisted(sp)
    <3>1. \A s \in DOMAIN end.schemas : s \in DOMAIN sp.schemas /\ s \in DOMAIN start.schemas
      BY <1>1, <1>2, <1>4
    <3>2. ASSUME NEW s \in DOMAIN end.schemas, sp.schemas[s].enabled,
                 NEW t \in DOMAIN end.schemas[s].tables
          PROVE  TableFollows(sp, s, t, end.schemas[s].tables[t])
      BY <1>4, <1>5, <3>1, <3>2, Zenon
    <3>. QED
      BY <2>2, <3>1, <3>2, FollowsKeyByKey, Zenon
  <2>. QED
    BY <2>1, <2>2
<1>. QED
  BY <1>6, Zenon DEF end, start, payload

(* Enabled tables show their columns.                                      *)
LEMMA ListedShown ==
  ASSUME NEW sp, SpecShaped(sp), NEW acc, AllShown(acc), ListedAsSpecified(sp, acc)
  PROVE  ManagedShown(sp, acc)
<1>1. ASSUME NEW s \in DOMAIN acc.schemas, NEW t \in DOMAIN acc.schemas[s].tables,
             ManagesColumns(sp, s, t)
      PROVE  acc.schemas[s].tables[t].shown
  <2>1. /\ s \in DOMAIN sp.schemas /\ sp.schemas[s].enabled
        /\ t \in DOMAIN sp.schemas[s].tables /\ sp.schemas[s].tables[t].enabled
    BY <1>1, Zenon DEF ManagesColumns
  <2>2. SchemaAsListed(sp.schemas[s], acc.schemas[s])
    BY <2>1, ListedKeyByKey
  <2>3. TableAsListed(sp.schemas[s].tables[t], acc.schemas[s].tables[t])
    BY <2>1, <2>2 DEF SchemaAsListed
  <2>4. acc.schemas[s].tables[t].enabled = sp.schemas[s].tables[t].enabled
    BY <2>3, Zenon DEF TableAsListed
  <2>5. acc.schemas[s].tables[t].enabled
    BY <2>1, <2>4, Zenon
  <2>. QED
    BY <2>5 DEF AllShown
<1>. QED
  BY <1>1 DEF ManagedShown

LEMMA ManagedListed ==
  ASSUME NEW sp, NEW s, NEW t, ManagesColumns(sp, s, t)
  PROVE  <<s, t>> \in TablesWithColumns(sp)
<1> DEFINE With(k) == {u \in DOMAIN sp.schemas[k].tables :
                         DOMAIN sp.schemas[k].tables[u].columns # {}}
<1>1. s \in EnabledIn(sp.schemas) /\ t \in With(s)
  BY EnabledValue DEF ManagesColumns
<1>2. TablesWithColumns(sp) = UNION {{k} \X With(k) : k \in EnabledIn(sp.schemas)}
  BY Zenon DEF TablesWithColumns
<1> HIDE DEF With
<1>3. <<s, t>> \in {s} \X With(s)
  BY <1>1
<1>. QED
  BY <1>1, <1>2, <1>3, Zenon

(* The response as it is covers a specification that lists no columns.     *)
LEMMA ResponseCovers ==
  ASSUME FromSource(account), NEW sp, TablesWithColumns(sp) = {}, NEW columns
  PROVE  Covers(sp, Response(columns), account)
<1>1. ASSUME NEW s, NEW t PROVE ~ManagesColumns(sp, s, t)
  BY ManagedListed, Zenon
<1>2. ASSUME NEW s \in DOMAIN account.schemas, NEW t \in DOMAIN account.schemas[s].tables
      PROVE  TableCovered(sp, Response(columns), account, s, t)
  <2>1. t \in DOMAIN Response(columns).schemas[s].tables
    BY ResponseValue, Zenon
  <2>2. Response(columns).schemas[s].tables[t].locked = account.schemas[s].tables[t].locked
    BY ResponseTable, Zenon
  <2>. QED
    BY <1>1, <2>1, <2>2, Zenon DEF TableCovered
<1>3. DOMAIN Response(columns).schemas = DOMAIN account.schemas
  BY ResponseValue, Zenon
<1>. QED
  BY <1>2, <1>3, Zenon DEF Covers

LEMMA PopulatedTable ==
  ASSUME FromSource(account), NEW columns, details = Response(columns),
         NEW s \in DOMAIN account.schemas, NEW t \in DOMAIN account.schemas[s].tables
  PROVE  LET old == details.schemas[s].tables[t]
             new == Populated.schemas[s].tables[t]
         IN  /\ s \in DOMAIN Populated.schemas /\ t \in DOMAIN Populated.schemas[s].tables
             /\ new.locked = old.locked
             /\ <<s, t>> \notin ToFetch => new.columns = old.columns
             /\ <<s, t>> \in ToFetch => new.columns = Fetched(s, t)
<1> DEFINE Tab(k, u) == IF <<k, u>> \in ToFetch
                        THEN [details.schemas[k].tables[u] EXCEPT !.columns = Fetched(k, u)]
                        ELSE details.schemas[k].tables[u]
           Tabs(k) == [u \in DOMAIN details.schemas[k].tables |-> Tab(k, u)]
           new == [k \in DOMAIN details.schemas |-> [details.schemas[k] EXCEPT !.tables = Tabs(k)]]
<1>1. Populated = [details EXCEPT !.schemas = new]
  BY DEF Populated, WithTables
<1>2. /\ DOMAIN details = {"policy", "schemas"} /\ s \in DOMAIN details.schemas
      /\ DOMAIN details.schemas[s] = DOMAIN account.schemas[s]
      /\ t \in DOMAIN details.schemas[s].tables
  BY ResponseValue, Zenon
<1>3. /\ "tables" \in DOMAIN account.schemas[s]
      /\ TableFromSource(s, t, account.schemas[s].tables[t])
  BY FromSourceByTable DEF SchemaFromSource
<1>4. DOMAIN details.schemas[s].tables[t] = DOMAIN account.schemas[s].tables[t]
  <2>1. DOMAIN Response(columns).schemas[s].tables[t] = DOMAIN account.schemas[s].tables[t]
    BY ResponseTable
  <2>. QED
    BY <2>1, Zenon
<1>5. {"enabled", "sync", "locked", "columns", "shown"} \subseteq DOMAIN details.schemas[s].tables[t]
  BY <1>3, <1>4, Zenon DEF TableFromSource
<1>6. t \in DOMAIN Tabs(s) /\ Tabs(s)[t] = Tab(s, t)
  <2> HIDE DEF Tab
  <2>. QED
    BY <1>2
<1> HIDE DEF Tabs
<1>7. s \in DOMAIN new /\ new[s].tables = Tabs(s)
  BY <1>2, <1>3
<1> HIDE DEF new
<1>8. Populated.schemas = new
  BY <1>1, <1>2
<1>9. s \in DOMAIN Populated.schemas /\ t \in DOMAIN Populated.schemas[s].tables
      /\ Populated.schemas[s].tables[t] = Tab(s, t)
  BY <1>6, <1>7, <1>8, Zenon
<1>10. /\ Tab(s, t).locked = details.schemas[s].tables[t].locked
       /\ <<s, t>> \notin ToFetch => Tab(s, t).columns = details.schemas[s].tables[t].columns
       /\ <<s, t>> \in ToFetch => Tab(s, t).columns = Fetched(s, t)
  BY <1>5
<1> HIDE DEF Tab
<1>. QED
  BY <1>9, <1>10, Zenon

(* populateColumnsForCR has all it needs, unless columns that it had to    *)
(* fetch are not shown yet.                                                *)
LEMMA PopulatedCovers ==
  ASSUME FromSource(account), NEW columns, details = Response(columns),
         ToFetch = {} \/ ManagedShown(cr, account)
  PROVE  Covers(cr, Populated, account)
<1>1. ASSUME NEW s \in DOMAIN account.schemas, NEW t \in DOMAIN account.schemas[s].tables
      PROVE  s \in DOMAIN Populated.schemas /\ TableCovered(cr, Populated, account, s, t)
  <2> DEFINE old == account.schemas[s].tables[t]
             got == details.schemas[s].tables[t]
             new == Populated.schemas[s].tables[t]
  <2>1. /\ s \in DOMAIN Populated.schemas /\ t \in DOMAIN Populated.schemas[s].tables
        /\ new.locked = got.locked
        /\ <<s, t>> \notin ToFetch => new.columns = got.columns
        /\ <<s, t>> \in ToFetch => new.columns = Fetched(s, t)
    BY PopulatedTable, Zenon
  <2>2. /\ got.locked = old.locked
        /\ columns /\ old.shown => got.columns = old.columns
        /\ ~(columns /\ old.shown) => got.columns = NoMap
    BY ResponseTable, Zenon
  <2>3. ASSUME ManagesColumns(cr, s, t) PROVE new.columns = old.columns
    <3>1. <<s, t>> \in TablesWithColumns(cr)
      BY <2>3, ManagedListed, Zenon
    <3>2. CASE <<s, t>> \in ToFetch
      <4>1. old.shown
        BY <2>3, <3>2 DEF ManagedShown
      <4>. QED
        BY <2>1, <3>2, <4>1, Zenon DEF Fetched
    <3>3. CASE <<s, t>> \notin ToFetch
      <4>1. s \in DOMAIN details.schemas /\ t \in DOMAIN details.schemas[s].tables
        BY ResponseValue, Zenon
      <4>2. DOMAIN got.columns # {}
        BY <3>1, <3>3, <4>1, Zenon DEF ToFetch
      <4>3. got.columns # NoMap
        BY <4>2, NoMapEmpty, Zenon
      <4>. QED
        BY <2>1, <2>2, <3>3, <4>3, Zenon
    <3>. QED
      BY <3>2, <3>3, Zenon
  <2>4. ManagesColumns(cr, s, t) =>
          \A c \in DOMAIN old.columns :
             c \in DOMAIN new.columns /\ (new.columns[c].locked => old.columns[c].locked)
    <3> HIDE DEF old, new
    <3>. QED
      BY <2>3, Zenon
  <2>5. new.locked => old.locked
    BY <2>1, <2>2, Zenon
  <2>. QED
    BY <2>1, <2>4, <2>5, Zenon DEF TableCovered
<1>2. ASSUME NEW s \in DOMAIN account.schemas PROVE s \in DOMAIN Populated.schemas
  <2> DEFINE Tab(k, u) == IF <<k, u>> \in ToFetch
                          THEN [details.schemas[k].tables[u] EXCEPT !.columns = Fetched(k, u)]
                          ELSE details.schemas[k].tables[u]
             Sch(k) == [details.schemas[k] EXCEPT !.tables =
                          [u \in DOMAIN details.schemas[k].tables |-> Tab(k, u)]]
  <2>1. Populated = [details EXCEPT !.schemas = [k \in DOMAIN details.schemas |-> Sch(k)]]
    BY DEF Populated, WithTables
  <2> HIDE DEF Sch
  <2>2. DOMAIN details = {"policy", "schemas"} /\ s \in DOMAIN details.schemas
    BY ResponseValue, Zenon
  <2>. QED
    BY <2>1, <2>2
<1>. QED
  BY <1>1, <1>2, Zenon DEF Covers


LEMMA BudgetShrinks ==
  ASSUME left \in Budget,
         \/ UNCHANGED left \/ Fault \/ Crash
         \/ left.edits > 0 /\ left' = [left EXCEPT !.edits = @ - 1]
         \/ left.syncs > 0 /\ left' = [left EXCEPT !.syncs = @ - 1]
  PROVE  left' \in Budget
BY BoundsAssumption DEF Budget, Fault, Crash

LEMMA WriteCases ==
  ASSUME NEW stored, NEW reply, Write(stored, reply)
  PROVE  /\ UNCHANGED left \/ Fault \/ Crash
         /\ stored \/ UNCHANGED resource
         /\ UNCHANGED current \/ current' = FALSE
BY DEF Write

LEMMA TypesStep ==
  ASSUME Types, [Next]_vars PROVE Types'
<1>. USE DEF Types, Steps, Kinds, resource, locals, fivetran, KeepsResource, Goto, Fail, Refused
<1>1. CASE StartReconcile
  BY <1>1, Zenon DEF StartReconcile
<1>2. CASE IsConnectorSyncing
  BY <1>2, BudgetShrinks DEF IsConnectorSyncing
<1>3. CASE GetSchemaDetails
  BY <1>3, BudgetShrinks DEF GetSchemaDetails, AfterGetSchema
<1>4. CASE CreateNewSchema
  BY <1>4, BudgetShrinks DEF CreateNewSchema, SendPayload, FivetranWrite
<1>5. CASE ReloadSchema
  BY <1>5, BudgetShrinks, Zenon DEF ReloadSchema, FivetranWrite
<1>6. CASE GetReloadedDetails
  BY <1>6, BudgetShrinks DEF GetReloadedDetails
<1>7. CASE PopulateColumns
  BY <1>7, BudgetShrinks, Zenon DEF PopulateColumns
<1>8. CASE ApplySchema
  BY <1>8, BudgetShrinks DEF ApplySchema, SendPayload, FivetranWrite
<1>9. CASE UpdateSchemaHash
  BY <1>9, BudgetShrinks, WriteCases, Zenon DEF UpdateSchemaHash, AfterApply
<1>10. CASE SecondPass
  BY <1>10, BudgetShrinks, Zenon DEF SecondPass
<1>11. CASE VerifySchema
  BY <1>11, BudgetShrinks, ZenonT(30) DEF VerifySchema
<1>12. CASE SetSchemaReady
  BY <1>12, BudgetShrinks, WriteCases, Zenon DEF SetSchemaReady, SetCondition
<1>13. CASE HandleError
  BY <1>13, BudgetShrinks, WriteCases, Zenon DEF HandleError, SetCondition, Requeues
<1>14. CASE UserEdits
  <2>1. /\ spec' \in SchemaSpecs /\ current' = FALSE /\ queued' = TRUE
        /\ UNCHANGED <<hash, ready, pc, locals, fivetran>>
        /\ left.edits > 0 /\ left' = [left EXCEPT !.edits = @ - 1]
    BY <1>14 DEF UserEdits
  <2>2. left' \in Budget
    BY <2>1, BudgetShrinks
  <2>. QED
    BY <2>1, <2>2, ZenonT(30)
<1>15. CASE Restart
  BY <1>15, BudgetShrinks DEF Restart
<1>16. CASE SyncStarts
  BY <1>16, BudgetShrinks DEF SyncStarts
<1>17. CASE SyncEnds
  <2>1. syncing' = FALSE /\ UNCHANGED <<resource, queued, pc, current, locals, left>>
    BY <1>17 DEF SyncEnds
  <2> HIDE DEF Steps, Kinds
  <2>. QED
    BY <2>1
<1>18. CASE UNCHANGED vars
  BY <1>18 DEF vars
<1>. QED
  BY <1>1, <1>2, <1>3, <1>4, <1>5, <1>6, <1>7, <1>8, <1>9, <1>10, <1>11, <1>12, <1>13, <1>14,
     <1>15, <1>16, <1>17, <1>18, Zenon DEF Next, Reconcile

(* The account after a payload has been accepted.                          *)
LEMMA SentAccount ==
  ASSUME NEW acc, FromSource(acc), NEW payload, payload.policy \in Policies \cup {""},
         ~Rejects(acc, payload)
  PROVE  LET mid == Patch(acc, payload)
             new == ShowEnabled(mid)
         IN  /\ FromSource(new) /\ new.exists = acc.exists /\ AllShown(new)
             /\ SameKeys(acc, new) /\ SameKeys(mid, new) /\ Keeps(mid, new)
<1> DEFINE mid == Patch(acc, payload)
           new == ShowEnabled(mid)
<1>1. FromSource(mid) /\ mid.exists = acc.exists
  BY PatchFromSource, Zenon
<1>2. Shaped(acc)
  BY Zenon DEF FromSource
<1>3. SameKeys(acc, mid)
  BY <1>2, PatchKeys, Zenon DEF SameKeys
<1> HIDE DEF mid
<1>4. /\ FromSource(new) /\ Keeps(mid, new) /\ SameKeys(mid, new)
      /\ new.exists = mid.exists /\ AllShown(new)
  BY <1>1, ShowEnabledKeeps, Zenon
<1> HIDE DEF new
<1>5. SameKeys(acc, new)
  BY <1>3, <1>4, Zenon DEF SameKeys
<1>. QED
  BY <1>1, <1>4, <1>5, Zenon DEF mid, new

LEMMA KeepsItself == ASSUME NEW acc PROVE Keeps(acc, acc)
BY DEF Keeps, SameTable

LEMMA KeepsTwice ==
  ASSUME NEW one, NEW two, NEW three, Keeps(one, two), Keeps(two, three) PROVE Keeps(one, three)
BY DEF Keeps, SameTable

LEMMA SyncedAccount ==
  ASSUME FromSource(account), NEW on \in BOOLEAN, NEW colsOn \in BOOLEAN
  PROVE  LET new == ShowEnabled(Discovered(on, colsOn))
         IN  FromSource(new) /\ new.exists /\ Keeps(account, new)
<1> DEFINE mid == Discovered(on, colsOn)
           new == ShowEnabled(mid)
<1>1. FromSource(mid) /\ mid.exists /\ Keeps(account, mid)
  BY DiscoveredKeeps, Zenon
<1> HIDE DEF mid
<1>2. FromSource(new) /\ Keeps(mid, new) /\ new.exists = mid.exists
  BY <1>1, ShowEnabledKeeps, Zenon
<1> HIDE DEF new
<1>3. Keeps(account, new)
  BY <1>1, <1>2, KeepsTwice, Zenon
<1>. QED
  BY <1>1, <1>2, <1>3, Zenon DEF mid, new

PayloadSent(acc, payload) ==
    /\ ~Rejects(acc, payload)
    /\ account' = ShowEnabled(Patch(acc, payload))

LEMMA SendCases ==
  ASSUME NEW acc, NEW payload, SendPayload(acc, payload)
  PROVE  \/ UNCHANGED account /\ pc' = "handleError"
         \/ PayloadSent(acc, payload) /\ pc' \in {"schemaHash", "handleError"}
BY DEF SendPayload, FivetranWrite, PayloadSent, Goto, Fail, Refused

(* The steps that touch the account.                                       *)
LEMMA SpecOfCR ==
  ASSUME Types
  PROVE  /\ SpecShaped(cr) /\ cr.policy \in Policies \cup {""}
         /\ SpecShaped(spec) /\ spec.policy \in Policies \cup {""}
BY SpecsAssumption, Zenon DEF Types

LEMMA CreateSteps ==
  ASSUME CreateNewSchema
  PROVE  /\ pc = "createSchema" /\ UNCHANGED <<spec, hash, ready, cr, syncing>>
         /\ UNCHANGED <<details, missing, second>>
         /\ \/ UNCHANGED account /\ pc' = "handleError"
            \/ /\ LET payload == BuildNewSchemaConfig(cr)
                  IN  PayloadSent(Skeleton(payload), payload)
               /\ pc' \in {"schemaHash", "handleError"}
BY SendCases DEF CreateNewSchema, KeepsResource, resource

LEMMA ApplySteps ==
  ASSUME ApplySchema
  PROVE  /\ pc = "updateSchema" /\ UNCHANGED <<spec, hash, ready, cr, syncing>>
         /\ UNCHANGED <<details, missing, second>>
         /\ \/ UNCHANGED account /\ pc' = "handleError"
            \/ /\ PayloadSent(account, BuildSchemaConfig(cr, details))
               /\ pc' \in {"schemaHash", "handleError"}
BY SendCases DEF ApplySchema, KeepsResource, resource

LEMMA ReloadSteps ==
  ASSUME ReloadSchema
  PROVE  /\ pc = "reloadSchema" /\ UNCHANGED <<spec, hash, ready, cr, syncing>>
         /\ UNCHANGED <<details, missing, second>>
         /\ \/ UNCHANGED account /\ pc' = "handleError"
            \/ /\ \E on \in BOOLEAN : account' = Discovered(on, TRUE)
               /\ pc' \in {"getReloaded", "handleError"}
BY Zenon DEF ReloadSchema, FivetranWrite, Goto, Fail, Refused, KeepsResource, resource

LEMMA AccountKept ==
  ASSUME [Next]_vars, ~CreateNewSchema, ~ApplySchema, ~ReloadSchema, ~SyncEnds
  PROVE  UNCHANGED account
<1>. USE DEF fivetran, KeepsResource
<1>1. CASE StartReconcile BY <1>1 DEF StartReconcile
<1>2. CASE IsConnectorSyncing BY <1>2 DEF IsConnectorSyncing
<1>3. CASE GetSchemaDetails BY <1>3 DEF GetSchemaDetails
<1>4. CASE GetReloadedDetails BY <1>4 DEF GetReloadedDetails
<1>5. CASE PopulateColumns BY <1>5 DEF PopulateColumns
<1>6. CASE UpdateSchemaHash BY <1>6 DEF UpdateSchemaHash
<1>7. CASE SecondPass BY <1>7 DEF SecondPass
<1>8. CASE VerifySchema BY <1>8 DEF VerifySchema
<1>9. CASE SetSchemaReady BY <1>9 DEF SetSchemaReady
<1>10. CASE HandleError BY <1>10 DEF HandleError
<1>11. CASE UserEdits BY <1>11 DEF UserEdits
<1>12. CASE Restart BY <1>12 DEF Restart
<1>13. CASE SyncStarts BY <1>13 DEF SyncStarts
<1>14. CASE UNCHANGED vars BY <1>14 DEF vars
<1>. QED
  BY <1>1, <1>2, <1>3, <1>4, <1>5, <1>6, <1>7, <1>8, <1>9, <1>10, <1>11, <1>12, <1>13, <1>14,
     Zenon DEF Next, Reconcile

LEMMA ReloadedAccount ==
  ASSUME FromSource(account), NEW on \in BOOLEAN, account' = Discovered(on, TRUE)
  PROVE  /\ FromSource(account') /\ Keeps(account, account') /\ account'.exists
         /\ \A sp : Complete(sp, account')
<1> DEFINE new == Discovered(on, TRUE)
<1>1. /\ FromSource(new) /\ Keeps(account, new) /\ new.exists
      /\ DOMAIN new.schemas = DOMAIN Source
      /\ \A s \in DOMAIN Source : DOMAIN new.schemas[s].tables = DOMAIN Source[s]
  BY DiscoveredKeeps, Zenon
<1> HIDE DEF new
<1>2. \A sp : Complete(sp, new)
  BY <1>1 DEF Complete
<1>. QED
  BY <1>1, <1>2, Zenon DEF new

LEMMA CreatedAccount ==
  ASSUME FromSource(account), Types,
         LET payload == BuildNewSchemaConfig(cr) IN PayloadSent(Skeleton(payload), payload)
  PROVE  FromSource(account') /\ account'.exists /\ UnlistedFollowPolicy(cr, account')
<1> DEFINE payload == BuildNewSchemaConfig(cr)
           start == Skeleton(payload)
           mid == Patch(start, payload)
           new == ShowEnabled(mid)
<1>1. payload.policy \in Policies \cup {""}
  BY SpecOfCR, Zenon DEF BuildNewSchemaConfig
<1>2. UnlistedFollowPolicy(cr, mid)
  BY CreatedFollows, Zenon
<1>3. ~Rejects(start, payload) /\ account' = new
  BY Zenon DEF PayloadSent
<1> HIDE DEF payload
<1>4. FromSource(start) /\ start.exists = TRUE
  BY SkeletonFromSource, Zenon
<1> HIDE DEF start
<1>5. /\ FromSource(new) /\ new.exists = start.exists
      /\ SameKeys(mid, new) /\ Keeps(mid, new)
  BY <1>1, <1>3, <1>4, SentAccount, Zenon
<1> HIDE DEF mid, new
<1>6. UnlistedFollowPolicy(cr, new)
  BY <1>2, <1>5, UnlistedSame, Zenon
<1>. QED
  BY <1>3, <1>4, <1>5, <1>6, Zenon

LEMMA AppliedAccount ==
  ASSUME FromSource(account), Types, PayloadSent(account, BuildSchemaConfig(cr, details))
  PROVE  /\ FromSource(account') /\ account'.exists = account.exists
         /\ SameKeys(account, account') /\ AllShown(account')
         /\ ListedAsSpecified(cr, account')
         /\ LockedColumnViolations(Wanted(cr), account') = {}
         /\ Covers(cr, details, account) => UnlistedFollowPolicy(cr, account')
<1> DEFINE payload == BuildSchemaConfig(cr, details)
           mid == Patch(account, payload)
           new == ShowEnabled(mid)
<1>1. payload.policy \in Policies \cup {""}
  BY SpecOfCR, Zenon DEF BuildSchemaConfig
<1>2. ~Rejects(account, payload) /\ account' = new
  BY Zenon DEF PayloadSent
<1>3. SpecShaped(cr) /\ Shaped(account)
  BY SpecOfCR, Zenon DEF FromSource
<1>4. ListedAsSpecified(cr, mid)
  BY <1>3, AppliedAsListed
<1>5. Covers(cr, details, account) => UnlistedFollowPolicy(cr, mid)
  BY <1>3, AppliedWithPolicy
<1>6. LockedColumnViolations(Wanted(cr), account) = {}
  BY <1>2, <1>3, AcceptedNoLocked, Zenon
<1> HIDE DEF payload
<1>7. /\ FromSource(new) /\ new.exists = account.exists /\ AllShown(new)
      /\ SameKeys(account, new) /\ SameKeys(mid, new) /\ Keeps(mid, new)
  BY <1>1, <1>2, SentAccount, Zenon
<1> HIDE DEF mid, new
<1>8. ListedAsSpecified(cr, new)
  BY <1>4, <1>7, ListedSame, Zenon
<1>9. Covers(cr, details, account) => UnlistedFollowPolicy(cr, new)
  BY <1>5, <1>7, UnlistedSame, Zenon
<1>10. LockedColumnViolations(Wanted(cr), new) = {}
  BY <1>6, <1>7, SameKeysNothingNew, LockedKept, Zenon
<1>. QED
  BY <1>2, <1>7, <1>8, <1>9, <1>10, Zenon

LEMMA SyncEndsAccount ==
  ASSUME FromSource(account), SyncEnds
  PROVE  FromSource(account') /\ account'.exists /\ Keeps(account, account')
<1>1. (account.policy = "ALLOW_ALL") \in BOOLEAN /\ (account.policy # "BLOCK_ALL") \in BOOLEAN
  OBVIOUS
<1> DEFINE new == ShowEnabled(Discovered(account.policy = "ALLOW_ALL", account.policy # "BLOCK_ALL"))
<1>2. FromSource(new) /\ new.exists /\ Keeps(account, new)
  BY <1>1, SyncedAccount, Zenon
<1>3. account' = new
  BY Zenon DEF SyncEnds
<1> HIDE DEF new
<1>. QED
  BY <1>2, <1>3, Zenon

(* The account grows, or keeps its keys, except when it is created.        *)
LEMMA AccountStep ==
  ASSUME Types, FromSource(account), [Next]_vars
  PROVE  /\ FromSource(account') /\ (account.exists => account'.exists)
         /\ Keeps(account, account') \/ ApplySchema \/ CreateNewSchema
         /\ CreateNewSchema \/ Keeps(account, account') \/ SameKeys(account, account')
<1>1. CASE CreateNewSchema
  BY <1>1, CreateSteps, CreatedAccount, KeepsItself
<1>2. CASE ApplySchema
  BY <1>2, ApplySteps, AppliedAccount, KeepsItself
<1>3. CASE ReloadSchema
  BY <1>3, ReloadSteps, ReloadedAccount, KeepsItself, Zenon
<1>4. CASE SyncEnds
  BY <1>4, SyncEndsAccount
<1>5. CASE ~CreateNewSchema /\ ~ApplySchema /\ ~ReloadSchema /\ ~SyncEnds
  BY <1>5, AccountKept, KeepsItself
<1>. QED
  BY <1>1, <1>2, <1>3, <1>4, <1>5, Zenon

(* Which bound a step uses up.                                             *)
LEMMA BudgetSteps ==
  ASSUME [Next]_vars
  PROVE  \/ UNCHANGED left
         \/ left.faults > 0 /\ left' = [left EXCEPT !.faults = @ - 1]
         \/ left.crashes > 0 /\ left' = [left EXCEPT !.crashes = @ - 1]
         \/ UserEdits /\ left.edits > 0 /\ left' = [left EXCEPT !.edits = @ - 1]
         \/ SyncStarts /\ left.syncs > 0 /\ left' = [left EXCEPT !.syncs = @ - 1]
<1>. USE DEF KeepsResource, Goto, Fail, Refused, Fault, Crash
<1>1. CASE StartReconcile BY <1>1 DEF StartReconcile
<1>2. CASE IsConnectorSyncing BY <1>2 DEF IsConnectorSyncing
<1>3. CASE GetSchemaDetails BY <1>3 DEF GetSchemaDetails
<1>4. CASE CreateNewSchema BY <1>4 DEF CreateNewSchema, SendPayload, FivetranWrite
<1>5. CASE ReloadSchema BY <1>5, Zenon DEF ReloadSchema, FivetranWrite
<1>6. CASE GetReloadedDetails BY <1>6 DEF GetReloadedDetails
<1>7. CASE PopulateColumns BY <1>7 DEF PopulateColumns
<1>8. CASE ApplySchema BY <1>8 DEF ApplySchema, SendPayload, FivetranWrite
<1>9. CASE UpdateSchemaHash BY <1>9, WriteCases, Zenon DEF UpdateSchemaHash
<1>10. CASE SecondPass BY <1>10 DEF SecondPass
<1>11. CASE VerifySchema BY <1>11, Zenon DEF VerifySchema
<1>12. CASE SetSchemaReady BY <1>12, WriteCases, Zenon DEF SetSchemaReady
<1>13. CASE HandleError BY <1>13, WriteCases, Zenon DEF HandleError
<1>14. CASE UserEdits BY <1>14 DEF UserEdits
<1>15. CASE Restart BY <1>15 DEF Restart
<1>16. CASE SyncStarts BY <1>16 DEF SyncStarts
<1>17. CASE SyncEnds BY <1>17 DEF SyncEnds
<1>18. CASE UNCHANGED vars BY <1>18 DEF vars
<1>. QED
  BY <1>1, <1>2, <1>3, <1>4, <1>5, <1>6, <1>7, <1>8, <1>9, <1>10, <1>11, <1>12, <1>13, <1>14,
     <1>15, <1>16, <1>17, <1>18, Zenon DEF Next, Reconcile

(* The bounds go down one at a time.                                       *)
LEMMA BudgetFalls ==
  ASSUME Types, [Next]_vars
  PROVE  /\ NoSync' => NoSync /\ ~SyncStarts
         /\ Quiet' => /\ Quiet /\ left'.faults = left.faults /\ left'.crashes = left.crashes
                      /\ left'.edits = left.edits \/ left.edits = MaxEdits
         /\ left'.edits = MaxEdits => left.edits = MaxEdits /\ ~UserEdits
<1>1. /\ left.edits \in 0..MaxEdits /\ left.faults \in 0..MaxFaults
      /\ left.crashes \in 0..MaxCrashes /\ left.syncs \in 0..MaxSyncs
      /\ DOMAIN left = {"edits", "faults", "crashes", "syncs"}
  BY DEF Types, Budget
<1>2. SyncStarts => left.syncs > 0 /\ left' = [left EXCEPT !.syncs = @ - 1]
  BY DEF SyncStarts
<1>3. UserEdits => left.edits > 0 /\ left' = [left EXCEPT !.edits = @ - 1]
  BY DEF UserEdits
<1>. QED
  BY <1>1, <1>2, <1>3, BudgetSteps, BoundsAssumption DEF NoSync, Quiet

(* How the steps after the first read are reached.                         *)
LEMMA LoadedFrom ==
  ASSUME [Next]_vars, pc' \in Loaded \cup {"getReloaded"}
  PROVE  /\ UNCHANGED cr
         /\ pc \in Loaded \cup {"getReloaded"} \/ GetSchemaDetails \/ ReloadSchema \/ CreateNewSchema
<1>. USE DEF KeepsResource, Goto, Fail, Refused, Loaded, locals
<1>1. CASE StartReconcile BY <1>1 DEF StartReconcile
<1>2. CASE IsConnectorSyncing BY <1>2 DEF IsConnectorSyncing
<1>3. CASE GetSchemaDetails BY <1>3 DEF GetSchemaDetails
<1>4. CASE CreateNewSchema BY <1>4 DEF CreateNewSchema
<1>5. CASE ReloadSchema BY <1>5, Zenon DEF ReloadSchema
<1>6. CASE GetReloadedDetails BY <1>6 DEF GetReloadedDetails
<1>7. CASE PopulateColumns BY <1>7 DEF PopulateColumns
<1>8. CASE ApplySchema BY <1>8 DEF ApplySchema
<1>9. CASE UpdateSchemaHash BY <1>9 DEF UpdateSchemaHash
<1>10. CASE SecondPass BY <1>10 DEF SecondPass
<1>11. CASE VerifySchema BY <1>11 DEF VerifySchema
<1>12. CASE SetSchemaReady BY <1>12 DEF SetSchemaReady
<1>13. CASE HandleError BY <1>13 DEF HandleError
<1>14. CASE UserEdits BY <1>14 DEF UserEdits
<1>15. CASE Restart BY <1>15 DEF Restart
<1>16. CASE SyncStarts BY <1>16 DEF SyncStarts
<1>17. CASE SyncEnds BY <1>17 DEF SyncEnds
<1>18. CASE UNCHANGED vars BY <1>18 DEF vars
<1>. QED
  BY <1>1, <1>2, <1>3, <1>4, <1>5, <1>6, <1>7, <1>8, <1>9, <1>10, <1>11, <1>12, <1>13, <1>14,
     <1>15, <1>16, <1>17, <1>18, Zenon DEF Next, Reconcile

(* The hash is stored after a payload has been sent; only then.            *)
LEMMA HashSteps ==
  ASSUME [Next]_vars
  PROVE  UNCHANGED hash \/ (UpdateSchemaHash /\ pc = "schemaHash" /\ hash' = <<cr>> /\ UNCHANGED cr)
<1>. USE DEF KeepsResource, resource, SetCondition
<1>1. CASE StartReconcile BY <1>1 DEF StartReconcile
<1>2. CASE IsConnectorSyncing BY <1>2 DEF IsConnectorSyncing
<1>3. CASE GetSchemaDetails BY <1>3 DEF GetSchemaDetails
<1>4. CASE CreateNewSchema BY <1>4 DEF CreateNewSchema
<1>5. CASE ReloadSchema BY <1>5 DEF ReloadSchema
<1>6. CASE GetReloadedDetails BY <1>6 DEF GetReloadedDetails
<1>7. CASE PopulateColumns BY <1>7 DEF PopulateColumns
<1>8. CASE ApplySchema BY <1>8 DEF ApplySchema
<1>9. CASE UpdateSchemaHash BY <1>9, WriteCases, Zenon DEF UpdateSchemaHash
<1>10. CASE SecondPass BY <1>10 DEF SecondPass
<1>11. CASE VerifySchema BY <1>11 DEF VerifySchema
<1>12. CASE SetSchemaReady BY <1>12, WriteCases, Zenon DEF SetSchemaReady
<1>13. CASE HandleError BY <1>13, WriteCases, Zenon DEF HandleError
<1>14. CASE UserEdits BY <1>14 DEF UserEdits
<1>15. CASE Restart BY <1>15 DEF Restart
<1>16. CASE SyncStarts BY <1>16 DEF SyncStarts
<1>17. CASE SyncEnds BY <1>17 DEF SyncEnds
<1>18. CASE UNCHANGED vars BY <1>18 DEF vars
<1>. QED
  BY <1>1, <1>2, <1>3, <1>4, <1>5, <1>6, <1>7, <1>8, <1>9, <1>10, <1>11, <1>12, <1>13, <1>14,
     <1>15, <1>16, <1>17, <1>18, Zenon DEF Next, Reconcile

LEMMA SyncingSteps ==
  ASSUME [Next]_vars, syncing'
  PROVE  syncing \/ SyncStarts
<1>. USE DEF KeepsResource, fivetran
<1>1. CASE StartReconcile BY <1>1 DEF StartReconcile
<1>2. CASE IsConnectorSyncing BY <1>2 DEF IsConnectorSyncing
<1>3. CASE GetSchemaDetails BY <1>3 DEF GetSchemaDetails
<1>4. CASE CreateNewSchema BY <1>4 DEF CreateNewSchema
<1>5. CASE ReloadSchema BY <1>5 DEF ReloadSchema
<1>6. CASE GetReloadedDetails BY <1>6 DEF GetReloadedDetails
<1>7. CASE PopulateColumns BY <1>7 DEF PopulateColumns
<1>8. CASE ApplySchema BY <1>8 DEF ApplySchema
<1>9. CASE UpdateSchemaHash BY <1>9 DEF UpdateSchemaHash
<1>10. CASE SecondPass BY <1>10 DEF SecondPass
<1>11. CASE VerifySchema BY <1>11 DEF VerifySchema
<1>12. CASE SetSchemaReady BY <1>12 DEF SetSchemaReady
<1>13. CASE HandleError BY <1>13 DEF HandleError
<1>14. CASE UserEdits BY <1>14 DEF UserEdits
<1>15. CASE Restart BY <1>15 DEF Restart
<1>16. CASE SyncStarts BY <1>16 DEF SyncStarts
<1>17. CASE SyncEnds BY <1>17 DEF SyncEnds
<1>18. CASE UNCHANGED vars BY <1>18 DEF vars
<1>. QED
  BY <1>1, <1>2, <1>3, <1>4, <1>5, <1>6, <1>7, <1>8, <1>9, <1>10, <1>11, <1>12, <1>13, <1>14,
     <1>15, <1>16, <1>17, <1>18, Zenon DEF Next, Reconcile

LEMMA CreateFrom ==
  ASSUME [Next]_vars, pc' = "createSchema"
  PROVE  /\ UNCHANGED cr
         /\ \/ GetSchemaDetails /\ ~account.exists /\ cr.level = "NONE"
            \/ pc = "createSchema"
<1>. USE DEF KeepsResource, Goto, Fail, Refused, locals
<1>1. CASE StartReconcile BY <1>1 DEF StartReconcile
<1>2. CASE IsConnectorSyncing BY <1>2 DEF IsConnectorSyncing
<1>3. CASE GetSchemaDetails BY <1>3 DEF GetSchemaDetails, AfterGetSchema
<1>4. CASE CreateNewSchema BY <1>4, SendCases DEF CreateNewSchema
<1>5. CASE ReloadSchema BY <1>5 DEF ReloadSchema, FivetranWrite
<1>6. CASE GetReloadedDetails BY <1>6 DEF GetReloadedDetails
<1>7. CASE PopulateColumns BY <1>7 DEF PopulateColumns
<1>8. CASE ApplySchema BY <1>8, SendCases DEF ApplySchema
<1>9. CASE UpdateSchemaHash BY <1>9 DEF UpdateSchemaHash, AfterApply
<1>10. CASE SecondPass BY <1>10 DEF SecondPass
<1>11. CASE VerifySchema BY <1>11 DEF VerifySchema
<1>12. CASE SetSchemaReady BY <1>12 DEF SetSchemaReady
<1>13. CASE HandleError BY <1>13 DEF HandleError
<1>14. CASE UserEdits BY <1>14 DEF UserEdits
<1>15. CASE Restart BY <1>15 DEF Restart
<1>16. CASE SyncStarts BY <1>16 DEF SyncStarts
<1>17. CASE SyncEnds BY <1>17 DEF SyncEnds
<1>18. CASE UNCHANGED vars BY <1>18 DEF vars
<1>. QED
  BY <1>1, <1>2, <1>3, <1>4, <1>5, <1>6, <1>7, <1>8, <1>9, <1>10, <1>11, <1>12, <1>13, <1>14,
     <1>15, <1>16, <1>17, <1>18, Zenon DEF Next, Reconcile

LEMMA GetSchemaSteps ==
  ASSUME GetSchemaDetails
  PROVE  /\ pc = "getSchema" /\ UNCHANGED <<account, cr, syncing, missing, second>>
         /\ \/ pc' = "handleError"
            \/ \E columns \in BOOLEAN :
                 details' = Response(columns) /\ pc' = AfterGetSchema(Response(columns))
BY DEF GetSchemaDetails, KeepsResource, Goto, Refused, Fail

LEMMA ExistenceStep ==
  ASSUME Types, FromSource(account), Existence, [Next]_vars PROVE Existence'
<1>1. FromSource(account') /\ (account.exists => account'.exists)
  BY AccountStep, Zenon
<1>2. ASSUME syncing' PROVE account'.exists
  BY <1>1, <1>2, SyncingSteps DEF Existence, SyncStarts
<1>3. ASSUME hash' # <<>> PROVE account'.exists
  BY <1>1, <1>3, HashSteps DEF Existence, Loaded
<1>4. ASSUME pc' \in Loaded \cup {"getReloaded"} PROVE account'.exists
  <2>1. CASE pc \in Loaded \cup {"getReloaded"}
    BY <1>1, <2>1 DEF Existence
  <2>2. CASE GetSchemaDetails
    BY <1>1, <1>4, <2>2, GetSchemaSteps DEF AfterGetSchema, Loaded
  <2>3. CASE ReloadSchema
    BY <1>4, <2>3, ReloadSteps, ReloadedAccount, Zenon DEF Loaded
  <2>4. CASE CreateNewSchema
    BY <1>4, <2>4, CreateSteps, CreatedAccount DEF Loaded
  <2>. QED
    BY <1>4, <2>1, <2>2, <2>3, <2>4, LoadedFrom
<1>5. ASSUME pc' = "createSchema" PROVE ~account'.exists /\ cr'.level = "NONE"
  <2>1. CASE GetSchemaDetails /\ ~account.exists /\ cr.level = "NONE"
    BY <1>5, <2>1, GetSchemaSteps
  <2>2. CASE pc = "createSchema"
    <3>1. ~account.exists /\ cr.level = "NONE" /\ ~syncing
      BY <2>2 DEF Existence
    <3>2. ~SyncEnds /\ ~CreateNewSchema /\ ~ApplySchema /\ ~ReloadSchema
      BY <1>5, <3>1, CreateSteps, ApplySteps, ReloadSteps DEF SyncEnds
    <3>3. UNCHANGED <<account, cr>>
      BY <1>5, <2>2, <3>2, AccountKept, CreateFrom
    <3>. QED
      BY <3>1, <3>3
  <2>. QED
    BY <1>5, <2>1, <2>2, CreateFrom
<1>6. ASSUME NoSync' PROVE ~syncing'
  BY <1>6, BudgetFalls, SyncingSteps DEF Existence
<1>. QED
  BY <1>2, <1>3, <1>4, <1>5, <1>6 DEF Existence, NoSync

LEMMA CopyStep ==
  ASSUME Types, Control, [Next]_vars, current' PROVE cr' = spec'
<1>. USE DEF Control, KeepsResource, resource, locals, SetCondition
<1>1. CASE StartReconcile BY <1>1 DEF StartReconcile
<1>2. CASE IsConnectorSyncing BY <1>2 DEF IsConnectorSyncing
<1>3. CASE GetSchemaDetails BY <1>3 DEF GetSchemaDetails
<1>4. CASE CreateNewSchema BY <1>4 DEF CreateNewSchema
<1>5. CASE ReloadSchema BY <1>5 DEF ReloadSchema
<1>6. CASE GetReloadedDetails BY <1>6 DEF GetReloadedDetails
<1>7. CASE PopulateColumns BY <1>7 DEF PopulateColumns
<1>8. CASE ApplySchema BY <1>8 DEF ApplySchema
<1>9. CASE UpdateSchemaHash BY <1>9, Zenon DEF UpdateSchemaHash, Write
<1>10. CASE SecondPass BY <1>10 DEF SecondPass
<1>11. CASE VerifySchema BY <1>11 DEF VerifySchema
<1>12. CASE SetSchemaReady BY <1>12, Zenon DEF SetSchemaReady, Write
<1>13. CASE HandleError BY <1>13, Zenon DEF HandleError, Write
<1>14. CASE UserEdits BY <1>14 DEF UserEdits
<1>15. CASE Restart BY <1>15 DEF Restart
<1>16. CASE SyncStarts BY <1>16 DEF SyncStarts
<1>17. CASE SyncEnds BY <1>17 DEF SyncEnds
<1>18. CASE UNCHANGED vars BY <1>18 DEF vars
<1>. QED
  BY <1>1, <1>2, <1>3, <1>4, <1>5, <1>6, <1>7, <1>8, <1>9, <1>10, <1>11, <1>12, <1>13, <1>14,
     <1>15, <1>16, <1>17, <1>18, Zenon DEF Next, Reconcile

LEMMA HashCurrentStep ==
  ASSUME Control, [Next]_vars, pc' \in {"verify", "schemaReady"} PROVE hash' = <<cr'>>
<1>. USE DEF Control, KeepsResource, resource, locals, SetCondition, Goto, Fail, Refused
<1>1. CASE StartReconcile BY <1>1 DEF StartReconcile
<1>2. CASE IsConnectorSyncing BY <1>2 DEF IsConnectorSyncing
<1>3. CASE GetSchemaDetails BY <1>3 DEF GetSchemaDetails, AfterGetSchema
<1>4. CASE CreateNewSchema BY <1>4, SendCases DEF CreateNewSchema
<1>5. CASE ReloadSchema BY <1>5, Zenon DEF ReloadSchema, FivetranWrite
<1>6. CASE GetReloadedDetails BY <1>6 DEF GetReloadedDetails
<1>7. CASE PopulateColumns BY <1>7 DEF PopulateColumns
<1>8. CASE ApplySchema BY <1>8, SendCases DEF ApplySchema
<1>9. CASE UpdateSchemaHash BY <1>9 DEF UpdateSchemaHash, Write
<1>10. CASE SecondPass BY <1>10 DEF SecondPass
<1>11. CASE VerifySchema BY <1>11 DEF VerifySchema
<1>12. CASE SetSchemaReady BY <1>12 DEF SetSchemaReady, Write
<1>13. CASE HandleError BY <1>13 DEF HandleError, Write
<1>14. CASE UserEdits BY <1>14 DEF UserEdits
<1>15. CASE Restart BY <1>15 DEF Restart
<1>16. CASE SyncStarts BY <1>16 DEF SyncStarts
<1>17. CASE SyncEnds BY <1>17 DEF SyncEnds
<1>18. CASE UNCHANGED vars BY <1>18 DEF vars
<1>. QED
  BY <1>1, <1>2, <1>3, <1>4, <1>5, <1>6, <1>7, <1>8, <1>9, <1>10, <1>11, <1>12, <1>13, <1>14,
     <1>15, <1>16, <1>17, <1>18, Zenon DEF Next, Reconcile

LEMMA PassesStep ==
  ASSUME Control, [Next]_vars,
         pc' \in {"syncing", "getSchema", "createSchema", "reloadSchema", "getReloaded"}
  PROVE  ~missing' /\ ~second'
<1>. USE DEF Control, KeepsResource, locals, Goto, Fail, Refused
<1>1. CASE StartReconcile BY <1>1 DEF StartReconcile
<1>2. CASE IsConnectorSyncing BY <1>2 DEF IsConnectorSyncing
<1>3. CASE GetSchemaDetails BY <1>3 DEF GetSchemaDetails, AfterGetSchema
<1>4. CASE CreateNewSchema BY <1>4, SendCases DEF CreateNewSchema
<1>5. CASE ReloadSchema BY <1>5 DEF ReloadSchema, FivetranWrite
<1>6. CASE GetReloadedDetails BY <1>6 DEF GetReloadedDetails
<1>7. CASE PopulateColumns BY <1>7 DEF PopulateColumns
<1>8. CASE ApplySchema BY <1>8, SendCases DEF ApplySchema
<1>9. CASE UpdateSchemaHash BY <1>9 DEF UpdateSchemaHash, AfterApply
<1>10. CASE SecondPass BY <1>10 DEF SecondPass
<1>11. CASE VerifySchema BY <1>11, Zenon DEF VerifySchema
<1>12. CASE SetSchemaReady BY <1>12 DEF SetSchemaReady
<1>13. CASE HandleError BY <1>13 DEF HandleError
<1>14. CASE UserEdits BY <1>14 DEF UserEdits
<1>15. CASE Restart BY <1>15 DEF Restart
<1>16. CASE SyncStarts BY <1>16 DEF SyncStarts
<1>17. CASE SyncEnds BY <1>17 DEF SyncEnds
<1>18. CASE UNCHANGED vars BY <1>18 DEF vars
<1>. QED
  BY <1>1, <1>2, <1>3, <1>4, <1>5, <1>6, <1>7, <1>8, <1>9, <1>10, <1>11, <1>12, <1>13, <1>14,
     <1>15, <1>16, <1>17, <1>18, Zenon DEF Next, Reconcile

LEMMA VerdictStep ==
  ASSUME Control, [Next]_vars, Rest' PROVE ready' = "False" \/ hash' = <<spec'>>
<1>. USE DEF Control, Rest, VerdictAtRest, KeepsResource, resource, locals, SetCondition,
             Goto, Fail, Refused
<1>1. CASE StartReconcile BY <1>1 DEF StartReconcile, NeedsReconcile
<1>2. CASE IsConnectorSyncing BY <1>2 DEF IsConnectorSyncing
<1>3. CASE GetSchemaDetails BY <1>3 DEF GetSchemaDetails, AfterGetSchema
<1>4. CASE CreateNewSchema BY <1>4, SendCases DEF CreateNewSchema
<1>5. CASE ReloadSchema BY <1>5 DEF ReloadSchema, FivetranWrite
<1>6. CASE GetReloadedDetails BY <1>6 DEF GetReloadedDetails
<1>7. CASE PopulateColumns BY <1>7 DEF PopulateColumns
<1>8. CASE ApplySchema BY <1>8, SendCases DEF ApplySchema
<1>9. CASE UpdateSchemaHash BY <1>9 DEF UpdateSchemaHash, Write, AfterApply
<1>10. CASE SecondPass BY <1>10 DEF SecondPass
<1>11. CASE VerifySchema BY <1>11 DEF VerifySchema
<1>12. CASE SetSchemaReady BY <1>12 DEF SetSchemaReady, Write
<1>13. CASE HandleError BY <1>13 DEF HandleError, Write
<1>14. CASE UserEdits BY <1>14 DEF UserEdits
<1>15. CASE Restart BY <1>15 DEF Restart
<1>16. CASE SyncStarts BY <1>16 DEF SyncStarts
<1>17. CASE SyncEnds BY <1>17 DEF SyncEnds
<1>18. CASE UNCHANGED vars BY <1>18 DEF vars
<1>. QED
  BY <1>1, <1>2, <1>3, <1>4, <1>5, <1>6, <1>7, <1>8, <1>9, <1>10, <1>11, <1>12, <1>13, <1>14,
     <1>15, <1>16, <1>17, <1>18, Zenon DEF Next, Reconcile

LEMMA ControlStep ==
  ASSUME Types, Control, [Next]_vars PROVE Control'
BY CopyStep, HashCurrentStep, PassesStep, VerdictStep DEF Control, VerdictAtRest

LEMMA SentFrom ==
  ASSUME [Next]_vars, pc' \in Sent
  PROVE  UNCHANGED cr /\ (pc \in Sent \/ ApplySchema \/ CreateNewSchema)
<1>. USE DEF KeepsResource, locals, Goto, Fail, Refused, Sent
<1>1. CASE StartReconcile BY <1>1 DEF StartReconcile
<1>2. CASE IsConnectorSyncing BY <1>2 DEF IsConnectorSyncing
<1>3. CASE GetSchemaDetails BY <1>3 DEF GetSchemaDetails, AfterGetSchema
<1>4. CASE CreateNewSchema BY <1>4 DEF CreateNewSchema
<1>5. CASE ReloadSchema BY <1>5, Zenon DEF ReloadSchema, FivetranWrite
<1>6. CASE GetReloadedDetails BY <1>6 DEF GetReloadedDetails
<1>7. CASE PopulateColumns BY <1>7 DEF PopulateColumns
<1>8. CASE ApplySchema BY <1>8 DEF ApplySchema
<1>9. CASE UpdateSchemaHash BY <1>9 DEF UpdateSchemaHash
<1>10. CASE SecondPass BY <1>10 DEF SecondPass
<1>11. CASE VerifySchema BY <1>11 DEF VerifySchema
<1>12. CASE SetSchemaReady BY <1>12 DEF SetSchemaReady
<1>13. CASE HandleError BY <1>13 DEF HandleError
<1>14. CASE UserEdits BY <1>14 DEF UserEdits
<1>15. CASE Restart BY <1>15 DEF Restart
<1>16. CASE SyncStarts BY <1>16 DEF SyncStarts
<1>17. CASE SyncEnds BY <1>17 DEF SyncEnds
<1>18. CASE UNCHANGED vars BY <1>18 DEF vars
<1>. QED
  BY <1>1, <1>2, <1>3, <1>4, <1>5, <1>6, <1>7, <1>8, <1>9, <1>10, <1>11, <1>12, <1>13, <1>14,
     <1>15, <1>16, <1>17, <1>18, Zenon DEF Next, Reconcile

LEMMA ReadyFrom ==
  ASSUME [Next]_vars, pc' = "schemaReady"
  PROVE  /\ UNCHANGED cr
         /\ \/ pc = "schemaReady"
            \/ UpdateSchemaHash /\ cr.level = "NONE"
            \/ VerifySchema /\ CompareSchemaWithCR(cr, Response(TRUE))
<1>. USE DEF KeepsResource, locals, Goto, Fail, Refused
<1>1. CASE StartReconcile BY <1>1 DEF StartReconcile
<1>2. CASE IsConnectorSyncing BY <1>2 DEF IsConnectorSyncing
<1>3. CASE GetSchemaDetails BY <1>3 DEF GetSchemaDetails, AfterGetSchema
<1>4. CASE CreateNewSchema BY <1>4, SendCases DEF CreateNewSchema
<1>5. CASE ReloadSchema BY <1>5 DEF ReloadSchema, FivetranWrite
<1>6. CASE GetReloadedDetails BY <1>6 DEF GetReloadedDetails
<1>7. CASE PopulateColumns BY <1>7 DEF PopulateColumns
<1>8. CASE ApplySchema BY <1>8, SendCases DEF ApplySchema
<1>9. CASE UpdateSchemaHash BY <1>9, Zenon DEF UpdateSchemaHash, AfterApply
<1>10. CASE SecondPass BY <1>10 DEF SecondPass
<1>11. CASE VerifySchema BY <1>11, Zenon DEF VerifySchema
<1>12. CASE SetSchemaReady BY <1>12 DEF SetSchemaReady
<1>13. CASE HandleError BY <1>13 DEF HandleError
<1>14. CASE UserEdits BY <1>14, Zenon DEF UserEdits
<1>15. CASE Restart BY <1>15 DEF Restart
<1>16. CASE SyncStarts BY <1>16, Zenon DEF SyncStarts
<1>17. CASE SyncEnds BY <1>17, Zenon DEF SyncEnds
<1>18. CASE UNCHANGED vars BY <1>18, Zenon DEF vars
<1>. QED
  BY <1>1, <1>2, <1>3, <1>4, <1>5, <1>6, <1>7, <1>8, <1>9, <1>10, <1>11, <1>12, <1>13, <1>14,
     <1>15, <1>16, <1>17, <1>18, Zenon DEF Next, Reconcile

(* Without synchronisations only the operator changes the account.         *)
LEMMA AccountAlone ==
  ASSUME Types, Existence, [Next]_vars, NoSync',
         pc \notin {"createSchema", "updateSchema", "reloadSchema"}
  PROVE  UNCHANGED account
<1>1. ~syncing
  BY BudgetFalls DEF Existence
<1>2. ~CreateNewSchema /\ ~ApplySchema /\ ~ReloadSchema /\ ~SyncEnds
  BY <1>1, CreateSteps, ApplySteps, ReloadSteps, Zenon DEF SyncEnds
<1>. QED
  BY <1>2, AccountKept

(* After the payload the account only grows.                               *)
LEMMA AccountGrows ==
  ASSUME Types, FromSource(account), [Next]_vars,
         pc \notin {"createSchema", "updateSchema"}
  PROVE  Keeps(account, account')
BY AccountStep, CreateSteps, ApplySteps

LEMMA CompletenessStep ==
  ASSUME Types, FromSource(account), Existence, Completeness, [Next]_vars PROVE Completeness'
<1>1. FromSource(account') /\ (CreateNewSchema \/ Keeps(account, account') \/ SameKeys(account, account'))
  BY AccountStep, Zenon
<1>2. CreateNewSchema => pc = "createSchema" /\ hash = <<>> /\ cr.level = "NONE"
  BY CreateSteps DEF Existence
<1>3. ASSUME NEW s, Complete(s, account), LockedColumnViolations(Wanted(s), account) = {},
             ~CreateNewSchema
      PROVE  Complete(s, account') /\ LockedColumnViolations(Wanted(s), account') = {}
  <2>1. Complete(s, account')
    BY <1>1, <1>3, CompleteKept
  <2>2. NothingNew(s, account, account')
    BY <1>1, <1>3, CompleteNothingNew, SameKeysNothingNew
  <2>. QED
    BY <1>1, <1>3, <2>1, <2>2, LockedKept
<1>4. ASSUME pc' \in Loaded \cup {"getReloaded"}, cr'.level # "NONE" PROVE Complete(cr', account')
  <2>1. cr' = cr
    BY <1>4, LoadedFrom
  <2>2. CASE pc \in Loaded \cup {"getReloaded"}
    <3>1. Complete(cr, account)
      BY <1>4, <2>1, <2>2 DEF Completeness
    <3>2. ~CreateNewSchema
      BY <1>2, <2>2 DEF Loaded
    <3>. QED
      BY <1>1, <2>1, <3>1, <3>2, CompleteKept
  <2>3. CASE GetSchemaDetails
    <3>1. PICK columns \in BOOLEAN : pc' = AfterGetSchema(Response(columns))
      BY <1>4, <2>3, GetSchemaSteps DEF Loaded
    <3>2. ~validateCRAgainstUpstream(cr, Response(columns))
      BY <1>4, <2>1, <3>1 DEF AfterGetSchema, Loaded
    <3>3. Complete(cr, account) /\ account' = account
      BY <2>3, <3>2, ResponseValidate, ValidatedComplete, GetSchemaSteps
    <3>. QED
      BY <2>1, <3>3
  <2>4. CASE ReloadSchema
    BY <1>4, <2>4, ReloadSteps, ReloadedAccount, Zenon DEF Loaded
  <2>5. CASE CreateNewSchema
    BY <1>2, <1>4, <2>1, <2>5
  <2>. QED
    BY <1>4, <2>2, <2>3, <2>4, <2>5, LoadedFrom
<1>5. ASSUME pc' \in Sent, cr'.level # "NONE"
      PROVE  LockedColumnViolations(Wanted(cr'), account') = {}
  <2>1. cr' = cr
    BY <1>5, SentFrom
  <2>2. CASE pc \in Sent
    <3>1. Complete(cr, account) /\ LockedColumnViolations(Wanted(cr), account) = {}
      BY <1>5, <2>1, <2>2 DEF Completeness, Sent, Loaded
    <3>2. ~CreateNewSchema
      BY <1>2, <2>2 DEF Sent
    <3>. QED
      BY <1>3, <2>1, <3>1, <3>2
  <2>3. CASE ApplySchema
    BY <1>5, <2>1, <2>3, ApplySteps, AppliedAccount DEF Sent
  <2>4. CASE CreateNewSchema
    BY <1>2, <1>5, <2>1, <2>4
  <2>. QED
    BY <1>5, <2>2, <2>3, <2>4, SentFrom
<1>6. ASSUME NEW s \in SchemaSpecs, hash' = <<s>>, s.level # "NONE"
      PROVE  Complete(s, account') /\ LockedColumnViolations(Wanted(s), account') = {}
  <2>1. CASE hash' = hash
    <3>1. Complete(s, account) /\ LockedColumnViolations(Wanted(s), account) = {}
      BY <1>6, <2>1 DEF Completeness
    <3>2. ~CreateNewSchema
      BY <1>2, <1>6, <2>1
    <3>. QED
      BY <1>3, <3>1, <3>2
  <2>2. CASE pc = "schemaHash" /\ hash' = <<cr>>
    <3>1. s = cr
      BY <1>6, <2>2
    <3>2. Complete(s, account) /\ LockedColumnViolations(Wanted(s), account) = {}
      BY <1>6, <2>2, <3>1 DEF Completeness, Loaded, Sent
    <3>3. ~CreateNewSchema
      BY <1>2, <2>2
    <3>. QED
      BY <1>3, <3>2, <3>3
  <2>. QED
    BY <2>1, <2>2, HashSteps
<1>. QED
  BY <1>4, <1>5, <1>6, Zenon DEF Completeness

LEMMA AppliedStep ==
  ASSUME Types, FromSource(account), Existence, Completeness, Applied, [Next]_vars
  PROVE  Applied'
<1>1. SpecShaped(cr) /\ FromSource(account')
  BY SpecOfCR, AccountStep, Zenon
<1>2. ASSUME pc' \in Sent, cr'.level # "NONE"
      PROVE  /\ ListedAsSpecified(Wanted(cr'), account')
             /\ NoSync' => ListedAsSpecified(cr', account')
  <2>1. cr' = cr
    BY <1>2, SentFrom
  <2>2. CASE pc \in Sent
    <3>1. /\ Complete(cr, account) /\ ListedAsSpecified(Wanted(cr), account)
          /\ NoSync => ListedAsSpecified(cr, account)
      BY <1>2, <2>1, <2>2 DEF Completeness, Applied, Sent, Loaded
    <3>2. Keeps(account, account') /\ NothingNew(cr, account, account')
      BY <1>1, <2>2, <3>1, AccountGrows, CompleteNothingNew DEF Sent
    <3>3. ListedAsSpecified(Wanted(cr), account')
      BY <3>1, <3>2, ListedKept
    <3>4. ASSUME NoSync' PROVE ListedAsSpecified(cr, account')
      <4>1. NoSync /\ account' = account
        BY <2>2, <3>4, BudgetFalls, AccountAlone DEF Sent
      <4>. QED
        BY <3>1, <4>1
    <3>. QED
      BY <2>1, <3>3, <3>4
  <2>3. CASE ApplySchema
    BY <1>1, <1>2, <2>1, <2>3, ApplySteps, AppliedAccount, ListedWanted DEF Sent
  <2>4. CASE CreateNewSchema
    BY <1>2, <2>1, <2>4, CreateSteps DEF Existence
  <2>. QED
    BY <1>2, <2>2, <2>3, <2>4, SentFrom
<1>3. ASSUME pc' = "schemaReady", cr'.level # "NONE"
      PROVE  /\ CompareSchemaWithCR(Wanted(cr'), account')
             /\ NoSync' => CompareSchemaWithCR(cr', account')
  <2>1. cr' = cr
    BY <1>3, ReadyFrom, Zenon
  <2>2. CASE pc = "schemaReady"
    <3>1. /\ CompareSchemaWithCR(Wanted(cr), account)
          /\ NoSync => CompareSchemaWithCR(cr, account)
      BY <1>3, <2>1, <2>2 DEF Applied
    <3>2. Keeps(account, account')
      BY <2>2, AccountGrows
    <3>3. CompareSchemaWithCR(Wanted(cr), account')
      BY <1>1, <3>1, <3>2, CompareKept
    <3>4. ASSUME NoSync' PROVE CompareSchemaWithCR(cr, account')
      <4>1. NoSync /\ account' = account
        BY <2>2, <3>4, BudgetFalls, AccountAlone
      <4>. QED
        BY <3>1, <4>1
    <3>. QED
      BY <2>1, <3>3, <3>4
  <2>3. CASE VerifySchema /\ CompareSchemaWithCR(cr, Response(TRUE))
    <3>1. CompareSchemaWithCR(cr, account) /\ account' = account
      BY <2>3, ResponseCompare, Zenon DEF VerifySchema
    <3>. QED
      BY <1>1, <2>1, <3>1, CompareWanted
  <2>. QED
    BY <1>3, <2>1, <2>2, <2>3, ReadyFrom, Zenon
<1>. QED
  BY <1>2, <1>3, Zenon DEF Applied

LEMMA PopulateFrom ==
  ASSUME [Next]_vars, pc' = "populate"
  PROVE  /\ UNCHANGED cr
         /\ \/ GetSchemaDetails \/ GetReloadedDetails \/ SecondPass
            \/ pc = "populate" /\ UNCHANGED <<details, missing, second>>
<1>. USE DEF KeepsResource, locals, Goto, Fail, Refused
<1>1. CASE StartReconcile BY <1>1 DEF StartReconcile
<1>2. CASE IsConnectorSyncing BY <1>2 DEF IsConnectorSyncing
<1>3. CASE GetSchemaDetails BY <1>3 DEF GetSchemaDetails
<1>4. CASE CreateNewSchema BY <1>4, SendCases DEF CreateNewSchema
<1>5. CASE ReloadSchema BY <1>5 DEF ReloadSchema, FivetranWrite
<1>6. CASE GetReloadedDetails BY <1>6 DEF GetReloadedDetails
<1>7. CASE PopulateColumns BY <1>7 DEF PopulateColumns
<1>8. CASE ApplySchema BY <1>8, SendCases DEF ApplySchema
<1>9. CASE UpdateSchemaHash BY <1>9 DEF UpdateSchemaHash, AfterApply
<1>10. CASE SecondPass BY <1>10 DEF SecondPass
<1>11. CASE VerifySchema BY <1>11 DEF VerifySchema
<1>12. CASE SetSchemaReady BY <1>12 DEF SetSchemaReady
<1>13. CASE HandleError BY <1>13 DEF HandleError
<1>14. CASE UserEdits BY <1>14 DEF UserEdits
<1>15. CASE Restart BY <1>15 DEF Restart
<1>16. CASE SyncStarts BY <1>16 DEF SyncStarts
<1>17. CASE SyncEnds BY <1>17 DEF SyncEnds
<1>18. CASE UNCHANGED vars BY <1>18 DEF vars
<1>. QED
  BY <1>1, <1>2, <1>3, <1>4, <1>5, <1>6, <1>7, <1>8, <1>9, <1>10, <1>11, <1>12, <1>13, <1>14,
     <1>15, <1>16, <1>17, <1>18, Zenon DEF Next, Reconcile

LEMMA UpdateFrom ==
  ASSUME [Next]_vars, pc' = "updateSchema"
  PROVE  /\ UNCHANGED cr
         /\ PopulateColumns \/ (pc = "updateSchema" /\ UNCHANGED <<details, missing, second>>)
<1>. USE DEF KeepsResource, locals, Goto, Fail, Refused
<1>1. CASE StartReconcile BY <1>1 DEF StartReconcile
<1>2. CASE IsConnectorSyncing BY <1>2 DEF IsConnectorSyncing
<1>3. CASE GetSchemaDetails BY <1>3 DEF GetSchemaDetails, AfterGetSchema
<1>4. CASE CreateNewSchema BY <1>4, SendCases DEF CreateNewSchema
<1>5. CASE ReloadSchema BY <1>5 DEF ReloadSchema, FivetranWrite
<1>6. CASE GetReloadedDetails BY <1>6 DEF GetReloadedDetails
<1>7. CASE PopulateColumns BY <1>7 DEF PopulateColumns
<1>8. CASE ApplySchema BY <1>8, SendCases DEF ApplySchema
<1>9. CASE UpdateSchemaHash BY <1>9 DEF UpdateSchemaHash, AfterApply
<1>10. CASE SecondPass BY <1>10 DEF SecondPass
<1>11. CASE VerifySchema BY <1>11 DEF VerifySchema
<1>12. CASE SetSchemaReady BY <1>12 DEF SetSchemaReady
<1>13. CASE HandleError BY <1>13 DEF HandleError
<1>14. CASE UserEdits BY <1>14 DEF UserEdits
<1>15. CASE Restart BY <1>15 DEF Restart
<1>16. CASE SyncStarts BY <1>16 DEF SyncStarts
<1>17. CASE SyncEnds BY <1>17 DEF SyncEnds
<1>18. CASE UNCHANGED vars BY <1>18 DEF vars
<1>. QED
  BY <1>1, <1>2, <1>3, <1>4, <1>5, <1>6, <1>7, <1>8, <1>9, <1>10, <1>11, <1>12, <1>13, <1>14,
     <1>15, <1>16, <1>17, <1>18, Zenon DEF Next, Reconcile

LEMMA StoreFrom ==
  ASSUME [Next]_vars, pc' = "schemaHash"
  PROVE  /\ UNCHANGED cr
         /\ \/ ApplySchema \/ CreateNewSchema
            \/ pc = "schemaHash" /\ UNCHANGED <<missing, second>>
<1>. USE DEF KeepsResource, locals, Goto, Fail, Refused
<1>1. CASE StartReconcile BY <1>1 DEF StartReconcile
<1>2. CASE IsConnectorSyncing BY <1>2 DEF IsConnectorSyncing
<1>3. CASE GetSchemaDetails BY <1>3 DEF GetSchemaDetails, AfterGetSchema
<1>4. CASE CreateNewSchema BY <1>4 DEF CreateNewSchema
<1>5. CASE ReloadSchema BY <1>5 DEF ReloadSchema, FivetranWrite
<1>6. CASE GetReloadedDetails BY <1>6 DEF GetReloadedDetails
<1>7. CASE PopulateColumns BY <1>7 DEF PopulateColumns
<1>8. CASE ApplySchema BY <1>8 DEF ApplySchema
<1>9. CASE UpdateSchemaHash BY <1>9 DEF UpdateSchemaHash, AfterApply
<1>10. CASE SecondPass BY <1>10 DEF SecondPass
<1>11. CASE VerifySchema BY <1>11 DEF VerifySchema
<1>12. CASE SetSchemaReady BY <1>12 DEF SetSchemaReady
<1>13. CASE HandleError BY <1>13 DEF HandleError
<1>14. CASE UserEdits BY <1>14 DEF UserEdits
<1>15. CASE Restart BY <1>15 DEF Restart
<1>16. CASE SyncStarts BY <1>16 DEF SyncStarts
<1>17. CASE SyncEnds BY <1>17 DEF SyncEnds
<1>18. CASE UNCHANGED vars BY <1>18 DEF vars
<1>. QED
  BY <1>1, <1>2, <1>3, <1>4, <1>5, <1>6, <1>7, <1>8, <1>9, <1>10, <1>11, <1>12, <1>13, <1>14,
     <1>15, <1>16, <1>17, <1>18, Zenon DEF Next, Reconcile

LEMMA AgainFrom ==
  ASSUME [Next]_vars, pc' = "secondPass"
  PROVE  UNCHANGED cr /\ (pc = "secondPass" \/ (pc = "schemaHash" /\ Again))
<1>. USE DEF KeepsResource, locals, Goto, Fail, Refused
<1>1. CASE StartReconcile BY <1>1 DEF StartReconcile
<1>2. CASE IsConnectorSyncing BY <1>2 DEF IsConnectorSyncing
<1>3. CASE GetSchemaDetails BY <1>3 DEF GetSchemaDetails, AfterGetSchema
<1>4. CASE CreateNewSchema BY <1>4, SendCases DEF CreateNewSchema
<1>5. CASE ReloadSchema BY <1>5 DEF ReloadSchema, FivetranWrite
<1>6. CASE GetReloadedDetails BY <1>6 DEF GetReloadedDetails
<1>7. CASE PopulateColumns BY <1>7 DEF PopulateColumns
<1>8. CASE ApplySchema BY <1>8, SendCases DEF ApplySchema
<1>9. CASE UpdateSchemaHash BY <1>9 DEF UpdateSchemaHash, AfterApply, Again
<1>10. CASE SecondPass BY <1>10 DEF SecondPass
<1>11. CASE VerifySchema BY <1>11 DEF VerifySchema
<1>12. CASE SetSchemaReady BY <1>12 DEF SetSchemaReady
<1>13. CASE HandleError BY <1>13 DEF HandleError
<1>14. CASE UserEdits BY <1>14 DEF UserEdits
<1>15. CASE Restart BY <1>15 DEF Restart
<1>16. CASE SyncStarts BY <1>16 DEF SyncStarts
<1>17. CASE SyncEnds BY <1>17 DEF SyncEnds
<1>18. CASE UNCHANGED vars BY <1>18 DEF vars
<1>. QED
  BY <1>1, <1>2, <1>3, <1>4, <1>5, <1>6, <1>7, <1>8, <1>9, <1>10, <1>11, <1>12, <1>13, <1>14,
     <1>15, <1>16, <1>17, <1>18, Zenon DEF Next, Reconcile

LEMMA CheckFrom ==
  ASSUME [Next]_vars, pc' \in {"verify", "schemaReady"}
  PROVE  UNCHANGED cr /\ (pc \in {"verify", "schemaReady"} \/ (pc = "schemaHash" /\ ~Again))
<1>. USE DEF KeepsResource, locals, Goto, Fail, Refused
<1>1. CASE StartReconcile BY <1>1 DEF StartReconcile
<1>2. CASE IsConnectorSyncing BY <1>2 DEF IsConnectorSyncing
<1>3. CASE GetSchemaDetails BY <1>3 DEF GetSchemaDetails, AfterGetSchema
<1>4. CASE CreateNewSchema BY <1>4, SendCases DEF CreateNewSchema
<1>5. CASE ReloadSchema BY <1>5, Zenon DEF ReloadSchema, FivetranWrite
<1>6. CASE GetReloadedDetails BY <1>6 DEF GetReloadedDetails
<1>7. CASE PopulateColumns BY <1>7 DEF PopulateColumns
<1>8. CASE ApplySchema BY <1>8, SendCases DEF ApplySchema
<1>9. CASE UpdateSchemaHash BY <1>9 DEF UpdateSchemaHash, AfterApply, Again
<1>10. CASE SecondPass BY <1>10 DEF SecondPass
<1>11. CASE VerifySchema BY <1>11 DEF VerifySchema
<1>12. CASE SetSchemaReady BY <1>12 DEF SetSchemaReady
<1>13. CASE HandleError BY <1>13 DEF HandleError
<1>14. CASE UserEdits BY <1>14 DEF UserEdits
<1>15. CASE Restart BY <1>15 DEF Restart
<1>16. CASE SyncStarts BY <1>16 DEF SyncStarts
<1>17. CASE SyncEnds BY <1>17 DEF SyncEnds
<1>18. CASE UNCHANGED vars BY <1>18 DEF vars
<1>. QED
  BY <1>1, <1>2, <1>3, <1>4, <1>5, <1>6, <1>7, <1>8, <1>9, <1>10, <1>11, <1>12, <1>13, <1>14,
     <1>15, <1>16, <1>17, <1>18, Zenon DEF Next, Reconcile

LEMMA ReadSteps ==
  ASSUME GetReloadedDetails \/ SecondPass, pc' = "populate"
  PROVE  /\ UNCHANGED account /\ \E columns \in BOOLEAN : details' = Response(columns)
         /\ GetReloadedDetails => pc = "getReloaded" /\ UNCHANGED second
         /\ SecondPass => pc = "secondPass"
BY DEF GetReloadedDetails, SecondPass, Goto, Fail, Refused

LEMMA ResponseAlone ==
  ASSUME UNCHANGED account, NEW columns PROVE Response(columns)' = Response(columns)
BY DEF Response, WithTables

LEMMA PopulateSteps ==
  ASSUME PopulateColumns, pc' = "updateSchema"
  PROVE  /\ pc = "populate" /\ UNCHANGED <<account, second>>
         /\ ~NeedsColumnSecondPass(cr) => UNCHANGED details
         /\ NeedsColumnSecondPass(cr) =>
              /\ details' = Populated
              /\ ~second => missing' = (ToFetch # {})
BY DEF PopulateColumns, Goto, Fail, Refused

LEMMA EnforcedStep ==
  ASSUME Types, FromSource(account), Control, Existence, Enforced, [Next]_vars
  PROVE  Enforced'
<1> SUFFICES ASSUME NoSync'
             PROVE  /\ pc' = "populate" => details' \in {Response(TRUE)', Response(FALSE)'}
                    /\ pc' = "updateSchema" /\ ManagesUnlisted(cr') =>
                         Again' \/ Covers(cr', details', account')
                    /\ pc' = "secondPass" \/ (pc' = "schemaHash" /\ Again')
                         \/ (pc' = "populate" /\ second') => ManagedShown(cr', account')
                    /\ pc' \in {"verify", "schemaReady"} \/ (pc' = "schemaHash" /\ ~Again') =>
                         UnlistedFollowPolicy(cr', account')
  BY Zenon DEF Enforced
<1>1. /\ NoSync
      /\ pc = "populate" => details \in {Response(TRUE), Response(FALSE)}
      /\ pc = "updateSchema" /\ ManagesUnlisted(cr) => Again \/ Covers(cr, details, account)
      /\ pc = "secondPass" \/ (pc = "schemaHash" /\ Again) \/ (pc = "populate" /\ second) =>
           ManagedShown(cr, account)
      /\ pc \in {"verify", "schemaReady"} \/ (pc = "schemaHash" /\ ~Again) =>
           UnlistedFollowPolicy(cr, account)
  BY BudgetFalls, Zenon DEF Enforced
<1>2. SpecShaped(cr)
  BY SpecOfCR, Zenon
<1>3. ASSUME pc' = "populate" PROVE details' \in {Response(TRUE)', Response(FALSE)'}
  <2>1. UNCHANGED account /\ \E columns \in BOOLEAN : details' = Response(columns)
    <3>1. CASE GetSchemaDetails
      BY <1>3, <3>1, GetSchemaSteps DEF AfterGetSchema
    <3>2. CASE GetReloadedDetails \/ SecondPass
      BY <1>3, <3>2, ReadSteps
    <3>3. CASE pc = "populate" /\ UNCHANGED details
      BY <1>1, <3>3, AccountAlone, Zenon
    <3>. QED
      BY <1>3, <3>1, <3>2, <3>3, PopulateFrom
  <2>2. Response(TRUE)' = Response(TRUE) /\ Response(FALSE)' = Response(FALSE)
    BY <2>1, ResponseAlone, Zenon
  <2>3. details' = Response(TRUE) \/ details' = Response(FALSE)
    BY <2>1, Zenon
  <2>. QED
    BY <2>2, <2>3, Zenon
<1>4. ASSUME pc' = "updateSchema", ManagesUnlisted(cr')
      PROVE  Again' \/ Covers(cr', details', account')
  <2>1. cr' = cr
    BY <1>4, UpdateFrom
  <2>2. CASE PopulateColumns
    <3>1. /\ pc = "populate" /\ UNCHANGED <<account, second>>
          /\ ~NeedsColumnSecondPass(cr) => UNCHANGED details
          /\ NeedsColumnSecondPass(cr) =>
               details' = Populated /\ (~second => missing' = (ToFetch # {}))
      BY <1>4, <2>2, PopulateSteps
    <3>2. PICK columns \in BOOLEAN : details = Response(columns)
      BY <1>1, <3>1, Zenon
    <3>3. CASE ~NeedsColumnSecondPass(cr)
      <4>1. TablesWithColumns(cr) = {}
        BY <1>4, <2>1, <3>3 DEF NeedsColumnSecondPass
      <4>2. Covers(cr, details, account)
        BY <3>2, <4>1, ResponseCovers
      <4>. QED
        BY <2>1, <3>1, <3>3, <4>2
    <3>4. CASE NeedsColumnSecondPass(cr) /\ (second \/ ToFetch = {})
      <4>1. ToFetch = {} \/ ManagedShown(cr, account)
        BY <1>1, <3>1, <3>4
      <4>2. Covers(cr, Populated, account)
        BY <3>2, <4>1, PopulatedCovers
      <4>. QED
        BY <2>1, <3>1, <3>4, <4>2
    <3>5. CASE NeedsColumnSecondPass(cr) /\ ~second /\ ToFetch # {}
      BY <3>1, <3>5, Zenon DEF Again
    <3>. QED
      BY <3>3, <3>4, <3>5, Zenon
  <2>3. CASE pc = "updateSchema" /\ UNCHANGED <<details, missing, second>>
    <3>1. ~syncing
      BY <1>1 DEF Existence
    <3>2. ~CreateNewSchema /\ ~ApplySchema /\ ~ReloadSchema /\ ~SyncEnds
      BY <1>4, <3>1, CreateSteps, ApplySteps, ReloadSteps DEF SyncEnds
    <3>3. UNCHANGED account
      BY <3>2, AccountKept
    <3>4. Again \/ Covers(cr, details, account)
      BY <1>1, <1>4, <2>1, <2>3
    <3>. QED
      BY <2>1, <2>3, <3>3, <3>4 DEF Again
  <2>. QED
    BY <1>4, <2>2, <2>3, UpdateFrom
<1>5. ASSUME pc' = "schemaHash"
      PROVE  /\ Again' => ManagedShown(cr', account')
             /\ ~Again' => UnlistedFollowPolicy(cr', account')
  <2>1. cr' = cr
    BY <1>5, StoreFrom
  <2>2. CASE ApplySchema
    <3>1. /\ pc = "updateSchema" /\ UNCHANGED <<missing, second>>
          /\ PayloadSent(account, BuildSchemaConfig(cr, details))
      BY <1>5, <2>2, ApplySteps
    <3>2. /\ AllShown(account') /\ ListedAsSpecified(cr, account')
          /\ Covers(cr, details, account) => UnlistedFollowPolicy(cr, account')
      BY <3>1, AppliedAccount
    <3>3. ManagedShown(cr, account')
      BY <1>2, <3>2, ListedShown
    <3>4. ASSUME ~Again PROVE UnlistedFollowPolicy(cr, account')
      <4>1. CASE ManagesUnlisted(cr)
        BY <1>1, <3>1, <3>2, <3>4, <4>1
      <4>2. CASE ~ManagesUnlisted(cr)
        BY <4>2 DEF UnlistedFollowPolicy
      <4>. QED
        BY <4>1, <4>2
    <3>. QED
      BY <2>1, <3>1, <3>3, <3>4 DEF Again
  <2>3. CASE CreateNewSchema
    <3>1. ~Again'
      BY <2>3, CreateSteps DEF Control, Again
    <3>2. UnlistedFollowPolicy(cr, account')
      BY <1>5, <2>3, CreateSteps, CreatedAccount
    <3>. QED
      BY <2>1, <3>1, <3>2
  <2>4. CASE pc = "schemaHash" /\ UNCHANGED <<missing, second>>
    <3>1. UNCHANGED account
      BY <2>4, AccountAlone
    <3>. QED
      BY <1>1, <2>1, <2>4, <3>1 DEF Again
  <2>. QED
    BY <1>5, <2>2, <2>3, <2>4, StoreFrom
<1>6. ASSUME pc' = "secondPass" PROVE ManagedShown(cr', account')
  <2>1. UNCHANGED <<cr, account>> /\ (pc = "secondPass" \/ (pc = "schemaHash" /\ Again))
    BY <1>6, AgainFrom, AccountAlone
  <2>. QED
    BY <1>1, <2>1
<1>7. ASSUME pc' = "populate", second' PROVE ManagedShown(cr', account')
  <2>1. cr' = cr
    BY <1>7, PopulateFrom, Zenon
  <2>2. CASE GetSchemaDetails
    BY <1>7, <2>2, GetSchemaSteps, Zenon DEF Control
  <2>3. CASE GetReloadedDetails
    BY <1>7, <2>3, ReadSteps, Zenon DEF Control
  <2>4. CASE SecondPass
    BY <1>1, <1>7, <2>1, <2>4, ReadSteps
  <2>5. CASE pc = "populate" /\ UNCHANGED second
    <3>1. UNCHANGED account
      BY <2>5, AccountAlone
    <3>. QED
      BY <1>1, <1>7, <2>1, <2>5, <3>1
  <2>. QED
    BY <1>7, <2>2, <2>3, <2>4, <2>5, PopulateFrom, Zenon
<1>8. ASSUME pc' \in {"verify", "schemaReady"} PROVE UnlistedFollowPolicy(cr', account')
  <2>1. /\ UNCHANGED <<cr, account>>
        /\ pc \in {"verify", "schemaReady"} \/ (pc = "schemaHash" /\ ~Again)
    BY <1>8, CheckFrom, AccountAlone
  <2>. QED
    BY <1>1, <2>1
<1>. QED
  BY <1>3, <1>4, <1>5, <1>6, <1>7, <1>8, Zenon

(* The steps in which nothing goes wrong.                                  *)
NoFailure == left'.faults = left.faults /\ left'.crashes = left.crashes

LEMMA NoFailureSteps ==
  ASSUME Types, NoFailure PROVE ~Fault /\ ~Crash
<1>1. left.faults \in Nat /\ left.crashes \in Nat /\ {"faults", "crashes"} \subseteq DOMAIN left
  BY BoundsAssumption DEF Types, Budget
<1>. QED
  BY <1>1 DEF NoFailure, Fault, Crash

LEMMA QuietSteps ==
  ASSUME ~Fault, ~Crash, [Next]_vars, ~UserEdits
  PROVE  /\ UNCHANGED spec
         /\ \/ UNCHANGED cr /\ (current => current')
            \/ cr' = spec /\ current'
         /\ UNCHANGED hash \/ (hash' = <<cr>> /\ current)
<1>. USE DEF KeepsResource, resource, locals, SetCondition
<1>1. CASE StartReconcile BY <1>1 DEF StartReconcile
<1>2. CASE IsConnectorSyncing BY <1>2 DEF IsConnectorSyncing
<1>3. CASE GetSchemaDetails BY <1>3 DEF GetSchemaDetails
<1>4. CASE CreateNewSchema BY <1>4 DEF CreateNewSchema
<1>5. CASE ReloadSchema BY <1>5 DEF ReloadSchema
<1>6. CASE GetReloadedDetails BY <1>6 DEF GetReloadedDetails
<1>7. CASE PopulateColumns BY <1>7 DEF PopulateColumns
<1>8. CASE ApplySchema BY <1>8 DEF ApplySchema
<1>9. CASE UpdateSchemaHash BY <1>9 DEF UpdateSchemaHash, Write
<1>10. CASE SecondPass BY <1>10 DEF SecondPass
<1>11. CASE VerifySchema BY <1>11 DEF VerifySchema
<1>12. CASE SetSchemaReady BY <1>12 DEF SetSchemaReady, Write
<1>13. CASE HandleError BY <1>13 DEF HandleError, Write
<1>14. CASE UserEdits BY <1>14 DEF UserEdits
<1>15. CASE Restart BY <1>15 DEF Restart, Crash
<1>16. CASE SyncStarts BY <1>16 DEF SyncStarts
<1>17. CASE SyncEnds BY <1>17 DEF SyncEnds
<1>18. CASE UNCHANGED vars BY <1>18 DEF vars
<1>. QED
  BY <1>1, <1>2, <1>3, <1>4, <1>5, <1>6, <1>7, <1>8, <1>9, <1>10, <1>11, <1>12, <1>13, <1>14,
     <1>15, <1>16, <1>17, <1>18, Zenon DEF Next, Reconcile

LEMMA IdleFrom ==
  ASSUME ~Fault, ~Crash, [Next]_vars, pc' = "idle", ready' = "True", current
  PROVE  \/ pc = "idle" /\ UNCHANGED ready
         \/ pc = "schemaReady"
<1>. USE DEF KeepsResource, resource, locals, SetCondition, Goto, Fail, Refused
<1>1. CASE StartReconcile BY <1>1 DEF StartReconcile
<1>2. CASE IsConnectorSyncing BY <1>2 DEF IsConnectorSyncing
<1>3. CASE GetSchemaDetails BY <1>3 DEF GetSchemaDetails, AfterGetSchema
<1>4. CASE CreateNewSchema BY <1>4, SendCases DEF CreateNewSchema
<1>5. CASE ReloadSchema BY <1>5 DEF ReloadSchema, FivetranWrite
<1>6. CASE GetReloadedDetails BY <1>6 DEF GetReloadedDetails
<1>7. CASE PopulateColumns BY <1>7 DEF PopulateColumns
<1>8. CASE ApplySchema BY <1>8, SendCases DEF ApplySchema
<1>9. CASE UpdateSchemaHash BY <1>9 DEF UpdateSchemaHash, Write, AfterApply
<1>10. CASE SecondPass BY <1>10 DEF SecondPass
<1>11. CASE VerifySchema BY <1>11 DEF VerifySchema
<1>12. CASE SetSchemaReady BY <1>12 DEF SetSchemaReady, Write
<1>13. CASE HandleError BY <1>13 DEF HandleError, Write
<1>14. CASE UserEdits BY <1>14 DEF UserEdits
<1>15. CASE Restart BY <1>15 DEF Restart, Crash
<1>16. CASE SyncStarts BY <1>16 DEF SyncStarts
<1>17. CASE SyncEnds BY <1>17 DEF SyncEnds
<1>18. CASE UNCHANGED vars BY <1>18 DEF vars
<1>. QED
  BY <1>1, <1>2, <1>3, <1>4, <1>5, <1>6, <1>7, <1>8, <1>9, <1>10, <1>11, <1>12, <1>13, <1>14,
     <1>15, <1>16, <1>17, <1>18, Zenon DEF Next, Reconcile

LEMMA VerifiedStep ==
  ASSUME Types, FromSource(account), Control, Existence, Applied, Verified, [Next]_vars
  PROVE  Verified'
<1> SUFFICES ASSUME Quiet'
             PROVE  /\ left'.edits = MaxEdits =>
                         cr' = spec' /\ (hash' = <<>> \/ hash' = <<spec'>>)
                    /\ hash' = <<spec'>> => cr' = spec' /\ current'
                    /\ pc' = "idle" /\ hash' = <<spec'>> /\ ready' = "True"
                         /\ spec'.level # "NONE" =>
                         /\ CompareSchemaWithCR(Wanted(spec'), account')
                         /\ NoSync' => CompareSchemaWithCR(spec', account')
  BY Zenon DEF Verified
<1>1. /\ Quiet /\ NoFailure
      /\ left'.edits = left.edits \/ left.edits = MaxEdits
      /\ left'.edits = MaxEdits => left.edits = MaxEdits /\ ~UserEdits
  BY BudgetFalls DEF NoFailure
<1>2. ~Fault /\ ~Crash
  BY <1>1, NoFailureSteps
<1>3. /\ left.edits = MaxEdits => cr = spec /\ (hash = <<>> \/ hash = <<spec>>)
      /\ hash = <<spec>> => cr = spec /\ current
      /\ pc = "idle" /\ hash = <<spec>> /\ ready = "True" /\ spec.level # "NONE" =>
           /\ CompareSchemaWithCR(Wanted(spec), account)
           /\ NoSync => CompareSchemaWithCR(spec, account)
  BY <1>1 DEF Verified
<1>4. CASE UserEdits
  <2>1. left.edits > 0 /\ left' = [left EXCEPT !.edits = @ - 1] /\ spec' # spec /\ UNCHANGED hash
    BY <1>4 DEF UserEdits
  <2>2. left.edits \in Nat /\ "edits" \in DOMAIN left
    BY BoundsAssumption DEF Types, Budget
  <2>3. left.edits = MaxEdits
    BY <1>1, <2>1, <2>2
  <2>4. hash' # <<spec'>>
    <3>1. hash = <<>> \/ hash = <<spec>>
      BY <1>3, <2>3, Zenon
    <3>2. <<>> # <<spec'>> /\ (<<spec>> = <<spec'>> => spec = spec')
      OBVIOUS
    <3>. QED
      BY <2>1, <3>1, <3>2, Zenon
  <2>. QED
    BY <1>1, <1>4, <2>4
<1>5. CASE ~UserEdits
  <2>1. /\ spec' = spec
        /\ (cr' = cr /\ (current => current')) \/ (cr' = spec /\ current')
        /\ hash' = hash \/ (hash' = <<cr>> /\ current)
    BY <1>2, <1>5, QuietSteps
  <2>2. left'.edits = MaxEdits => cr' = spec' /\ (hash' = <<>> \/ hash' = <<spec'>>)
    BY <1>1, <1>3, <2>1
  <2>3. hash' = <<spec'>> => cr = spec /\ current
    BY <1>3, <2>1
  <2>4. hash' = <<spec'>> => cr' = spec' /\ current'
    BY <2>1, <2>3
  <2>5. ASSUME pc' = "idle", hash' = <<spec'>>, ready' = "True", spec'.level # "NONE"
        PROVE  /\ CompareSchemaWithCR(Wanted(spec'), account')
               /\ NoSync' => CompareSchemaWithCR(spec', account')
    <3>1. cr = spec /\ current
      BY <2>3, <2>5
    <3>2. (pc = "idle" /\ ready' = ready) \/ pc = "schemaReady"
      BY <1>2, <2>5, <3>1, IdleFrom
    <3>3. /\ CompareSchemaWithCR(Wanted(spec), account)
          /\ NoSync => CompareSchemaWithCR(spec, account)
      <4>1. CASE pc = "idle" /\ ready' = ready
        <5>1. hash = <<spec>>
          <6>1. hash' = hash
            BY <4>1, HashSteps
          <6>. QED
            BY <2>1, <2>5, <6>1
        <5>. QED
          BY <1>3, <2>1, <2>5, <4>1, <5>1
      <4>2. CASE pc = "schemaReady"
        BY <2>1, <2>5, <3>1, <4>2 DEF Applied
      <4>. QED
        BY <3>2, <4>1, <4>2
    <3>4. SpecShaped(spec) /\ Keeps(account, account')
      BY <3>2, SpecOfCR, AccountGrows, Zenon
    <3>5. CompareSchemaWithCR(Wanted(spec), account')
      BY <3>3, <3>4, CompareKept
    <3>6. ASSUME NoSync' PROVE CompareSchemaWithCR(spec, account')
      <4>1. NoSync /\ account' = account
        BY <3>2, <3>6, BudgetFalls, AccountAlone
      <4>. QED
        BY <3>3, <4>1
    <3>. QED
      BY <2>1, <3>5, <3>6
  <2>. QED
    BY <2>2, <2>4, <2>5, Zenon
<1>. QED
  BY <1>4, <1>5, Zenon

-----------------------------------------------------------------------------
(* The inductive invariant.                                                *)
IInv ==
    /\ Types /\ FromSource(account) /\ Control /\ Existence
    /\ Completeness /\ Applied /\ Enforced /\ Verified

LEMMA InitIInv == Init => IInv
<1> SUFFICES ASSUME Init PROVE IInv
  OBVIOUS
<1>1. /\ spec \in SchemaSpecs /\ hash = <<>> /\ ready = "Unset" /\ queued = TRUE /\ pc = "idle"
      /\ current = FALSE /\ cr = spec /\ missing = FALSE /\ second = FALSE /\ kind = "plain"
      /\ account \in InitialAccounts /\ syncing = FALSE
      /\ left = [edits |-> MaxEdits, faults |-> MaxFaults,
                 crashes |-> MaxCrashes, syncs |-> MaxSyncs]
  BY DEF Init
<1>2. Types
  <2>1. left \in Budget
    BY <1>1, BoundsAssumption DEF Budget
  <2>. QED
    BY <1>1, <2>1, Zenon DEF Types, Steps, Kinds
<1>3. FromSource(account)
  BY <1>1, AccountsAssumption
<1>4. Control
  BY <1>1 DEF Control, VerdictAtRest, Rest
<1>5. Existence
  BY <1>1 DEF Existence, Loaded
<1>6. Completeness
  BY <1>1 DEF Completeness, Loaded, Sent
<1>7. Applied
  BY <1>1 DEF Applied, Sent
<1>8. Enforced
  BY <1>1 DEF Enforced
<1>9. Verified
  BY <1>1 DEF Verified
<1>. QED
  BY <1>2, <1>3, <1>4, <1>5, <1>6, <1>7, <1>8, <1>9, Zenon DEF IInv

LEMMA NextIInv == IInv /\ [Next]_vars => IInv'
<1> SUFFICES ASSUME IInv, [Next]_vars PROVE IInv'
  BY Zenon
<1>1. /\ Types /\ FromSource(account) /\ Control /\ Existence
      /\ Completeness /\ Applied /\ Enforced /\ Verified
  BY Zenon DEF IInv
<1>2. FromSource(account)'
  <2>1. FromSource(account')
    BY <1>1, AccountStep, Zenon
  <2>. QED
    BY <2>1
<1>3. Types' /\ Control' /\ Existence'
  BY <1>1, TypesStep, ControlStep, ExistenceStep, Zenon
<1>4. Completeness' /\ Applied'
  BY <1>1, CompletenessStep, AppliedStep, Zenon
<1>5. Enforced' /\ Verified'
  BY <1>1, EnforcedStep, VerifiedStep, Zenon
<1>. QED
  BY <1>2, <1>3, <1>4, <1>5, Zenon DEF IInv

LEMMA IInvHolds == Spec => []IInv
BY InitIInv, NextIInv, PTL DEF Spec

(* Every variable of reconcileSchema keeps its type.                       *)
THEOREM TypesHold == Spec => []TypeOK
<1>1. IInv => TypeOK
  <2> SUFFICES ASSUME IInv PROVE TypeOK
    OBVIOUS
  <2>1. Types /\ FromSource(account)
    BY Zenon DEF IInv
  <2>2. account.exists \in BOOLEAN /\ account.policy \in Policies
    BY <2>1, Zenon DEF FromSource
  <2>. QED
    BY <2>1, <2>2, Zenon DEF Types, Budget, TypeOK
<1>. QED
  BY <1>1, IInvHolds, PTL

(* When reconcileSchema is about to set SchemaReady to True after a        *)
(* verification, what the specification wants is in Fivetran as it is      *)
(* listed, columns included, whatever was edited, failed, restarted or     *)
(* synchronised meanwhile.                                                 *)
THEOREM SuccessIsApplied == Spec => []SuccessMeansApplied
<1>1. IInv => SuccessMeansApplied
  <2> SUFFICES ASSUME IInv, pc = "schemaReady", cr.level # "NONE"
               PROVE  /\ AllDiscovered(cr, account) /\ ListedAsSpecified(Wanted(cr), account)
                      /\ left.syncs = MaxSyncs => ListedAsSpecified(cr, account)
    BY Zenon DEF SuccessMeansApplied
  <2>1. Types /\ Applied
    BY Zenon DEF IInv
  <2>2. SpecShaped(cr)
    BY <2>1, SpecOfCR, Zenon
  <2>3. /\ ListedAsSpecified(Wanted(cr), account) /\ CompareSchemaWithCR(Wanted(cr), account)
        /\ left.syncs = MaxSyncs => ListedAsSpecified(cr, account)
    BY <2>1 DEF Applied, Sent, NoSync
  <2>. QED
    BY <2>2, <2>3, CompareDiscovers
<1>. QED
  BY <1>1, IInvHolds, PTL

(* And nothing that is not listed is synchronised against the policy,      *)
(* unless Fivetran has begun a synchronisation: the second pass of         *)
(* reconcileSchema reaches the columns that the first could not know.      *)
THEOREM SuccessFollowsPolicy == Spec => []SuccessMeansPolicy
<1>1. IInv => SuccessMeansPolicy
  BY DEF IInv, Enforced, NoSync, SuccessMeansPolicy
<1>. QED
  BY <1>1, IInvHolds, PTL

(* The operator never rests without a verdict on the stored specification. *)
THEOREM RestHasVerdict == Spec => []VerdictAtRest
<1>1. IInv => VerdictAtRest
  BY DEF IInv, Control
<1>. QED
  BY <1>1, IInvHolds, PTL

(* Where nothing failed and at most one edit was made, a resource at rest  *)
(* with SchemaReady True would pass CompareSchemaWithCR again.             *)
THEOREM RestIsVerified == Spec => []VerifiedAtRest
<1>1. IInv => VerifiedAtRest
  <2> SUFFICES ASSUME IInv, Rest, ready = "True", spec.level # "NONE", Quiet
               PROVE  /\ CompareSchemaWithCR(Wanted(spec), account)
                      /\ left.syncs = MaxSyncs => CompareSchemaWithCR(spec, account)
    BY Zenon DEF VerifiedAtRest, Quiet
  <2>1. VerdictAtRest /\ Verified
    BY DEF IInv, Control
  <2>2. hash = <<spec>> /\ pc = "idle"
    BY <2>1 DEF VerdictAtRest, Rest
  <2>. QED
    BY <2>1, <2>2 DEF Verified, NoSync
<1>. QED
  BY <1>1, IInvHolds, PTL

(* SchemaReady is never True at rest for a specification that disables a   *)
(* locked column of a table that it wants.                                 *)
THEOREM LockedIsReported == Spec => []LockedReported
<1>1. IInv => LockedReported
  <2> SUFFICES ASSUME IInv, Rest, spec.level # "NONE", ready = "True"
               PROVE  LockedColumnViolations(Wanted(spec), account) = {}
    BY Zenon DEF LockedReported
  <2>1. VerdictAtRest /\ Completeness /\ spec \in SchemaSpecs
    BY DEF IInv, Control, Types
  <2>2. hash = <<spec>>
    BY <2>1 DEF VerdictAtRest
  <2>. QED
    BY <2>1, <2>2 DEF Completeness
<1>. QED
  BY <1>1, IInvHolds, PTL
=============================================================================
