-------------------------- MODULE SchemaReconcile --------------------------
(***************************************************************************)
(* reconcileSchema in detail: the calls it makes to Fivetran for one       *)
(* connection, the schema configuration Fivetran keeps, and the source     *)
(* behind it.  Reconciler has the same steps with the configuration as an  *)
(* opaque value; here they read, build, send and verify the configuration  *)
(* of SchemaConfig, in two passes where columns are listed.                *)
(*                                                                         *)
(* Of the resource only the schema part is left: its specification, its    *)
(* hash annotation and its SchemaReady condition.  Reads of the resource   *)
(* are up to date; Reconciler is about stale ones.  Retries come without   *)
(* their delay.                                                            *)
(***************************************************************************)
EXTENDS SchemaConfig, Naturals

CONSTANTS
    SchemaSpecs,      \* values of spec.connectorSchemas
    Source,           \* the source: schema -> table -> [locked, columns], where
                      \* columns says for each column whether it is locked
    InitialAccounts,  \* Fivetran's schema configuration at the start
    MaxEdits,         \* bound: edits of the specification
    MaxFaults,        \* bound: failing calls
    MaxCrashes,       \* bound: restarts of the operator, and connections to the
                      \* API server that break before the answer
    MaxSyncs          \* bound: synchronisations Fivetran starts

VARIABLES
    spec,      \* stored spec.connectorSchemas
    hash,      \* the schema-hash annotation: <<>>, or <<the spec it digests>>
    ready,     \* the SchemaReady condition
    queued,    \* the resource is in the workqueue
    pc,        \* the call reconcileSchema makes next
    cr,        \* the specification it works on
    current,   \* is its copy of the resource still the stored one?
    details,   \* the schema response it works on
    missing,   \* columnsWereMissing
    second,    \* it is in the second pass
    kind,      \* the error handleError was called with
    account,   \* Fivetran's schema configuration; a table's columns show in
               \* responses once it has been enabled
    syncing,   \* Fivetran synchronises the connection
    left       \* how much of each bound is left

resource == <<spec, hash, ready>>
locals == <<cr, details, missing, second, kind>>
fivetran == <<account, syncing>>
vars == <<resource, queued, pc, current, locals, fivetran, left>>

Steps ==
    {"idle", "syncing", "getSchema", "createSchema", "reloadSchema", "getReloaded",
     "populate", "updateSchema", "schemaHash", "secondPass", "verify",
     "schemaReady", "handleError"}

Kinds == {"syncing", "locked", "mismatch", "apiRetry", "apiStop", "plain"}

Policies == {"ALLOW_ALL", "ALLOW_COLUMNS", "BLOCK_ALL"}

(* What Fivetran knows comes from the source, and what is locked is        *)
(* enabled.                                                                *)
FromSource(acc) ==
    /\ DOMAIN acc = {"exists", "policy", "schemas"} /\ Shaped(acc)
    /\ acc.exists \in BOOLEAN /\ acc.policy \in Policies
    /\ \A s \in DOMAIN acc.schemas :
          /\ s \in DOMAIN Source
          /\ \A t \in DOMAIN acc.schemas[s].tables :
                LET table == acc.schemas[s].tables[t]
                IN  /\ t \in DOMAIN Source[s] /\ "shown" \in DOMAIN table
                    /\ table.locked = Source[s][t].locked
                    /\ DOMAIN table.columns = DOMAIN Source[s][t].columns
                    /\ \A c \in DOMAIN table.columns :
                          /\ table.columns[c].locked = Source[s][t].columns[c]
                          /\ table.columns[c].locked => table.columns[c].enabled

ASSUME SpecsAssumption ==
    \A s \in SchemaSpecs : SpecShaped(s) /\ s.policy \in Policies \cup {""}

ASSUME AccountsAssumption == \A acc \in InitialAccounts : FromSource(acc)

ASSUME BoundsAssumption ==
    MaxEdits \in Nat /\ MaxFaults \in Nat /\ MaxCrashes \in Nat /\ MaxSyncs \in Nat

TypeOK ==
    /\ spec \in SchemaSpecs /\ cr \in SchemaSpecs
    /\ hash = <<>> \/ hash \in {<<s>> : s \in SchemaSpecs}
    /\ ready \in {"Unset", "True", "False"}
    /\ queued \in BOOLEAN /\ pc \in Steps /\ current \in BOOLEAN
    /\ missing \in BOOLEAN /\ second \in BOOLEAN /\ kind \in Kinds
    /\ account.exists \in BOOLEAN
    /\ account.policy \in Policies
    /\ syncing \in BOOLEAN
    /\ left \in [edits : 0..MaxEdits, faults : 0..MaxFaults,
                 crashes : 0..MaxCrashes, syncs : 0..MaxSyncs]

NoDetails == [policy |-> "", schemas |-> NoMap]

Init ==
    /\ spec \in SchemaSpecs /\ hash = <<>> /\ ready = "Unset"
    /\ queued = TRUE /\ pc = "idle" /\ current = FALSE
    /\ cr = spec /\ details = NoDetails /\ missing = FALSE /\ second = FALSE
    /\ kind = "plain"
    /\ account \in InitialAccounts /\ syncing = FALSE
    /\ left = [edits |-> MaxEdits, faults |-> MaxFaults,
               crashes |-> MaxCrashes, syncs |-> MaxSyncs]

-----------------------------------------------------------------------------
(* Fivetran.                                                               *)

(* A column, a table and a schema as they are when they are discovered;    *)
(* what is locked is enabled.                                              *)
NewColumn(s, t, c, colsOn) ==
    LET locked == Source[s][t].columns[c]
    IN  [enabled |-> colsOn \/ locked, hashed |-> FALSE, locked |-> locked]

NewTable(s, t, on, colsOn) ==
    LET locked == Source[s][t].locked
    IN  [enabled |-> on \/ locked, sync |-> "", locked |-> locked,
         shown   |-> FALSE,
         columns |-> [c \in DOMAIN Source[s][t].columns |-> NewColumn(s, t, c, colsOn)]]

(* The account once all of the source is known: new schemas and tables are *)
(* enabled or not, and so are new columns; what was known stays as it is.  *)
Discovered(on, colsOn) ==
    LET there == account.schemas
        Known(s) == IF s \in DOMAIN there THEN there[s].tables ELSE NoMap
        Table(s, t) == IF t \in DOMAIN Known(s) THEN Known(s)[t]
                       ELSE NewTable(s, t, on, colsOn)
    IN  [account EXCEPT
            !.exists = TRUE,
            !.schemas = [s \in DOMAIN Source |->
                [enabled |-> IF s \in DOMAIN there THEN there[s].enabled ELSE on,
                 tables  |-> [t \in DOMAIN Source[s] |-> Table(s, t)]]]]

(* The same schemas with other tables under the same names.                *)
WithTables(schemas, Table(_, _)) ==
    [s \in DOMAIN schemas |->
        [schemas[s] EXCEPT !.tables = [t \in DOMAIN schemas[s].tables |-> Table(s, t)]]]

(* An enabled table shows its columns from then on.                        *)
ShowEnabled(acc) ==
    LET Table(s, t) == [acc.schemas[s].tables[t] EXCEPT
                           !.shown = @ \/ acc.schemas[s].tables[t].enabled]
    IN  [acc EXCEPT !.schemas = WithTables(acc.schemas, Table)]

(* The response to GetSchemaDetails: it may leave all columns out.         *)
Response(columns) ==
    LET Table(s, t) == [account.schemas[s].tables[t] EXCEPT
                           !.columns = IF columns /\ account.schemas[s].tables[t].shown
                                       THEN @ ELSE NoMap]
    IN  [policy |-> account.policy, schemas |-> WithTables(account.schemas, Table)]

(* Fivetran refuses to change the state of what is locked.                 *)
Rejects(acc, payload) ==
    \E s \in DOMAIN payload.schemas \cap DOMAIN acc.schemas :
        LET there == acc.schemas[s].tables
            sent  == payload.schemas[s].tables
        IN  \E t \in DOMAIN sent \cap DOMAIN there :
              \/ there[t].locked /\ sent[t].enabled # there[t].enabled
              \/ \E c \in DOMAIN sent[t].columns \cap DOMAIN there[t].columns :
                    /\ there[t].columns[c].locked
                    /\ sent[t].columns[c].enabled # there[t].columns[c].enabled

(* CreateSchema starts from the tables the payload lists, before anything  *)
(* of the source has been discovered; their columns follow its policy.     *)
Skeleton(payload) ==
    [account EXCEPT
        !.exists = TRUE,
        !.schemas = [s \in DOMAIN payload.schemas \cap DOMAIN Source |->
            [enabled |-> FALSE,
             tables  |-> [t \in DOMAIN payload.schemas[s].tables \cap DOMAIN Source[s] |->
                            NewTable(s, t, FALSE, payload.policy # "BLOCK_ALL")]]]]

SyncStarts ==
    /\ left.syncs > 0 /\ account.exists /\ ~syncing
    /\ syncing' = TRUE
    /\ left' = [left EXCEPT !.syncs = @ - 1]
    /\ UNCHANGED <<resource, queued, pc, current, locals, account>>

(* A synchronisation discovers the rest of the source and treats it        *)
(* according to the policy Fivetran has by then.                           *)
SyncEnds ==
    /\ syncing
    /\ syncing' = FALSE
    /\ account' = ShowEnabled(Discovered(account.policy = "ALLOW_ALL",
                                         account.policy # "BLOCK_ALL"))
    /\ UNCHANGED <<resource, queued, pc, current, locals, left>>

-----------------------------------------------------------------------------
(* Leaving a step.                                                         *)

Goto(step) == pc' = step /\ UNCHANGED kind

Fail(k) == pc' = "handleError" /\ kind' = k

Fault ==
    /\ left.faults > 0
    /\ left' = [left EXCEPT !.faults = @ - 1]

Crash ==
    /\ left.crashes > 0
    /\ left' = [left EXCEPT !.crashes = @ - 1]

(* A call that fails without changing anything.                            *)
Refused(kinds) ==
    /\ Fault
    /\ \E k \in kinds : Fail(k)

(* A step that only calls Fivetran.                                        *)
KeepsResource == UNCHANGED <<resource, queued, current, cr, syncing>>

(* A write of the resource by the reconcile: refused when users have       *)
(* written since; otherwise stored, or lost, or stored with the answer     *)
(* lost.                                                                   *)
Write(stored, reply) ==
    \/ reply = "ok" /\ current /\ stored /\ UNCHANGED <<current, left>>
    \/ reply = "error" /\ ~current /\ UNCHANGED <<resource, current, left>>
    \/ reply = "error" /\ current /\ Fault /\ UNCHANGED <<resource, current>>
    \/ reply = "error" /\ current /\ Crash /\ stored /\ current' = FALSE

-----------------------------------------------------------------------------
(* reconcileSchema.                                                        *)

(* determineReconciliationNeeds, as far as the schema goes.                *)
NeedsReconcile == ready = "False" \/ hash # <<spec>>

StartReconcile ==
    /\ pc = "idle" /\ queued
    /\ queued' = FALSE
    /\ current' = TRUE /\ cr' = spec
    /\ pc' = IF NeedsReconcile THEN "syncing" ELSE "idle"
    /\ details' = NoDetails /\ missing' = FALSE /\ second' = FALSE /\ kind' = "plain"
    /\ UNCHANGED <<resource, fivetran, left>>

IsConnectorSyncing ==
    /\ pc = "syncing"
    /\ \/ ~syncing /\ Goto("getSchema") /\ UNCHANGED left
       \/ syncing /\ Fail("syncing") /\ UNCHANGED left
       \/ Refused({"apiRetry", "apiStop"})
    /\ KeepsResource /\ UNCHANGED <<details, missing, second, account>>

(* Where the first GetSchemaDetails leads.                                 *)
AfterGetSchema(response) ==
    IF ~account.exists
    THEN IF cr.level = "NONE" THEN "createSchema" ELSE "reloadSchema"
    ELSE IF cr.level # "NONE" /\ validateCRAgainstUpstream(cr, response)
    THEN "reloadSchema"
    ELSE "populate"

GetSchemaDetails ==
    /\ pc = "getSchema"
    /\ \/ /\ \E columns \in BOOLEAN :
                /\ details' = Response(columns)
                /\ Goto(AfterGetSchema(Response(columns)))
          /\ UNCHANGED left
       \/ Refused({"apiRetry", "apiStop"}) /\ UNCHANGED details
    /\ KeepsResource /\ UNCHANGED <<missing, second, account>>

(* A call that changes the account to `new`.                               *)
FivetranWrite(new, next) ==
    \/ account' = new /\ Goto(next) /\ UNCHANGED left
    \/ UNCHANGED account /\ Refused({"apiRetry", "apiStop"})
    \/ account' = new /\ Refused({"apiRetry"})

(* Variant: an error of UpdateSchema is logged and no more.                *)
SendPayload_GoesOn(acc, payload) ==
    \/ /\ BuildFails(payload)
       /\ Fail("plain") /\ UNCHANGED <<account, left>>
    \/ /\ ~BuildFails(payload) /\ Rejects(acc, payload)
       /\ Goto("schemaHash") /\ UNCHANGED <<account, left>>
    \/ /\ ~BuildFails(payload) /\ ~Rejects(acc, payload)
       /\ FivetranWrite(ShowEnabled(Patch(acc, payload)), "schemaHash")

(* UpdateSchema and CreateSchema build the payload first.                  *)
SendPayload(acc, payload) ==
    \/ /\ BuildFails(payload)
       /\ Fail("plain") /\ UNCHANGED <<account, left>>
    \/ /\ ~BuildFails(payload) /\ Rejects(acc, payload)
       /\ Fail("apiStop") /\ UNCHANGED <<account, left>>
    \/ /\ ~BuildFails(payload) /\ ~Rejects(acc, payload)
       /\ FivetranWrite(ShowEnabled(Patch(acc, payload)), "schemaHash")

(* createNewSchema: without looking at the source.                         *)
CreateNewSchema ==
    /\ pc = "createSchema"
    /\ LET payload == BuildNewSchemaConfig(cr)
       IN  SendPayload(Skeleton(payload), payload)
    /\ KeepsResource /\ UNCHANGED <<details, missing, second>>

(* reloadSchema; exclude_mode PRESERVE says nothing about what is new.     *)
ReloadSchema ==
    /\ pc = "reloadSchema"
    /\ \E on \in BOOLEAN : FivetranWrite(Discovered(on, TRUE), "getReloaded")
    /\ KeepsResource /\ UNCHANGED <<details, missing, second>>

GetReloadedDetails ==
    /\ pc = "getReloaded"
    /\ \/ /\ \E columns \in BOOLEAN : details' = Response(columns)
          /\ Goto("populate") /\ UNCHANGED left
       \/ Refused({"apiRetry", "apiStop"}) /\ UNCHANGED details
    /\ KeepsResource /\ UNCHANGED <<missing, second, account>>

(* The tables whose columns populateColumnsForCR fetches.                  *)
ToFetch ==
    {p \in TablesWithColumns(cr) :
        LET s == p[1]
            t == p[2]
        IN  /\ s \in DOMAIN details.schemas
            /\ t \in DOMAIN details.schemas[s].tables
            /\ LET known == DOMAIN details.schemas[s].tables[t].columns
               IN  known = {} \/ ~(DOMAIN cr.schemas[s].tables[t].columns \subseteq known)}

(* GetColumnConfig: what Fivetran shows of the table's columns.            *)
Fetched(s, t) ==
    IF account.schemas[s].tables[t].shown
    THEN account.schemas[s].tables[t].columns ELSE NoMap

Populated ==
    LET Table(s, t) == IF <<s, t>> \in ToFetch
                       THEN [details.schemas[s].tables[t] EXCEPT !.columns = Fetched(s, t)]
                       ELSE details.schemas[s].tables[t]
    IN  [details EXCEPT !.schemas = WithTables(details.schemas, Table)]

(* populateColumnsForCR, and in the first pass the check of the locked     *)
(* columns; nothing of it when no columns are listed.                      *)
PopulateColumns ==
    /\ pc = "populate"
    /\ IF ~NeedsColumnSecondPass(cr)
       THEN Goto("updateSchema") /\ UNCHANGED <<details, missing, left>>
       ELSE \/ /\ details' = Populated
               /\ missing' = (IF second THEN missing ELSE ToFetch # {})
               /\ IF ~second /\ LockedColumnViolations(cr, Populated) # {}
                  THEN Fail("locked")
                  ELSE Goto("updateSchema")
               /\ UNCHANGED left
            \/ /\ ToFetch # {} /\ Refused({"plain"})
               /\ UNCHANGED <<details, missing>>
    /\ KeepsResource /\ UNCHANGED <<second, account>>

(* applySchema, up to the hash.                                            *)
ApplySchema ==
    /\ pc = "updateSchema"
    /\ SendPayload(account, BuildSchemaConfig(cr, details))
    /\ KeepsResource /\ UNCHANGED <<details, missing, second>>

(* Variant: there is no second pass.                                       *)
AfterApply_OnePass == IF cr.level = "NONE" THEN "schemaReady" ELSE "verify"

(* Variant: the verification is left out.                                  *)
AfterApply_Unverified == IF missing /\ ~second THEN "secondPass" ELSE "schemaReady"

AfterApply ==
    IF missing /\ ~second THEN "secondPass"
    ELSE IF cr.level = "NONE" THEN "schemaReady" ELSE "verify"

(* Variant: the hash is taken of what was sent.                            *)
UpdateSchemaHash_OfPayload ==
    /\ pc = "schemaHash"
    /\ LET stored == /\ hash' = <<BuildSchemaConfig(cr, details)>>
                     /\ UNCHANGED <<spec, ready>>
       IN  \/ Write(stored, "ok") /\ Goto(AfterApply)
           \/ Write(stored, "error") /\ Fail("plain")
    /\ UNCHANGED <<queued, cr, details, missing, second, fivetran>>

UpdateSchemaHash ==
    /\ pc = "schemaHash"
    /\ LET stored == hash' = <<cr>> /\ UNCHANGED <<spec, ready>>
       IN  \/ Write(stored, "ok") /\ Goto(AfterApply)
           \/ Write(stored, "error") /\ Fail("plain")
    /\ UNCHANGED <<queued, cr, details, missing, second, fivetran>>

(* The second pass reads the schema again; populate and update follow.     *)
SecondPass ==
    /\ pc = "secondPass"
    /\ \/ /\ \E columns \in BOOLEAN : details' = Response(columns)
          /\ second' = TRUE /\ Goto("populate") /\ UNCHANGED left
       \/ Refused({"apiRetry", "apiStop"}) /\ UNCHANGED <<details, second>>
    /\ KeepsResource /\ UNCHANGED <<missing, account>>

VerifySchema ==
    /\ pc = "verify"
    /\ \/ /\ IF CompareSchemaWithCR(cr, Response(TRUE))
             THEN Goto("schemaReady") ELSE Fail("mismatch")
          /\ UNCHANGED left
       \/ Refused({"apiRetry", "apiStop"})
    /\ KeepsResource /\ UNCHANGED <<details, missing, second, account>>

SetCondition(value) == ready' = value /\ UNCHANGED <<spec, hash>>

SetSchemaReady ==
    /\ pc = "schemaReady"
    /\ \/ Write(SetCondition("True"), "ok") /\ Goto("idle")
       \/ Write(SetCondition("True"), "error") /\ Fail("plain")
    /\ UNCHANGED <<queued, cr, details, missing, second, fivetran>>

Requeues(k) == k \in {"syncing", "apiRetry", "plain"}

(* Variant: a condition that cannot be written is not retried.             *)
HandleError_NoRetry ==
    /\ pc = "handleError"
    /\ Goto("idle")
    /\ \E reply \in {"ok", "error"} : Write(SetCondition("False"), reply)
    /\ queued' = (queued \/ Requeues(kind))
    /\ UNCHANGED <<cr, details, missing, second, fivetran>>

(* handleError: the condition, and a retry when the error asks for one or  *)
(* when the condition cannot be written.                                   *)
HandleError ==
    /\ pc = "handleError"
    /\ Goto("idle")
    /\ \/ Write(SetCondition("False"), "ok") /\ queued' = (queued \/ Requeues(kind))
       \/ Write(SetCondition("False"), "error") /\ queued' = TRUE
    /\ UNCHANGED <<cr, details, missing, second, fivetran>>

Reconcile ==
    \/ StartReconcile \/ IsConnectorSyncing \/ GetSchemaDetails
    \/ CreateNewSchema \/ ReloadSchema \/ GetReloadedDetails
    \/ PopulateColumns \/ ApplySchema \/ UpdateSchemaHash \/ SecondPass
    \/ VerifySchema \/ SetSchemaReady \/ HandleError

-----------------------------------------------------------------------------
(* The environment.                                                        *)

UserEdits ==
    /\ left.edits > 0
    /\ left' = [left EXCEPT !.edits = @ - 1]
    /\ spec' \in SchemaSpecs \ {spec}
    /\ current' = FALSE /\ queued' = TRUE
    /\ UNCHANGED <<hash, ready, pc, locals, fivetran>>

(* The operator dies and starts again; its informer announces the resource.*)
Restart ==
    /\ Crash
    /\ pc' = "idle" /\ queued' = TRUE
    /\ UNCHANGED <<resource, current, locals, fivetran>>

Next == Reconcile \/ UserEdits \/ Restart \/ SyncStarts \/ SyncEnds

Spec == Init /\ [][Next]_vars

(* The worker keeps going, and Fivetran's synchronisations come to an end. *)
FairSpec == Spec /\ WF_vars(Reconcile) /\ WF_vars(SyncEnds)

-----------------------------------------------------------------------------
(* Safety.                                                                 *)

Rest == pc = "idle" /\ ~queued

(* When a validated reconcile is about to report success, everything the   *)
(* specification wants is there and as it is listed, columns included,     *)
(* which the verification does not look at; synchronisations that begin    *)
(* after the check do not change that.  What is listed in order to leave   *)
(* it out is out as well, unless such a synchronisation discovers it.      *)
SuccessMeansApplied ==
    pc = "schemaReady" /\ cr.level # "NONE" =>
        /\ AllDiscovered(cr, account) /\ ListedAsSpecified(Wanted(cr), account)
        /\ left.syncs = MaxSyncs => ListedAsSpecified(cr, account)

(* And nothing unlisted is synchronised against the policy, also where     *)
(* columns only came to light between the two passes, as long as Fivetran  *)
(* does not begin a synchronisation: one that begins after the check       *)
(* brings in tables that the payload does not know.                        *)
SuccessMeansPolicy ==
    pc = "schemaReady" /\ left.syncs = MaxSyncs => UnlistedFollowPolicy(cr, account)

(* At rest there is a verdict on the specification as it is now: its hash  *)
(* says that it was applied, or the condition is False.                    *)
VerdictAtRest == Rest => ready = "False" \/ hash = <<spec>>

(* The hash is stored before the verification.  As long as no call fails,  *)
(* the operator is not restarted, and users do not take an edit back (they *)
(* make one at most), a resource at rest with SchemaReady True would still *)
(* pass it, as far as it wants something.                                  *)
VerifiedAtRest ==
    /\ Rest /\ ready = "True" /\ spec.level # "NONE"
    /\ left.crashes = MaxCrashes /\ left.faults = MaxFaults
    /\ left.edits + 1 \geq MaxEdits
    => /\ CompareSchemaWithCR(Wanted(spec), account)
       /\ left.syncs = MaxSyncs => CompareSchemaWithCR(spec, account)

(* Nobody who asks for a locked column of a table to be disabled is told   *)
(* that it was: at rest the condition is not True.                         *)
LockedReported ==
    /\ Rest /\ spec.level # "NONE"
    /\ LockedColumnViolations(Wanted(spec), account) # {}
    => ready # "True"

-----------------------------------------------------------------------------
(* Liveness.                                                               *)

(* Once users and failures leave it alone, the operator comes to rest with *)
(* a verdict on the specification as it is now: its hash says that it was  *)
(* applied, or the condition is False.  (Not both: a failure between the   *)
(* hash and the condition may leave the condition as it was.)  A payload   *)
(* that cannot be built is retried for ever.                               *)
VerdictReached ==
    <>[]~BuildFails(BuildNewSchemaConfig(spec)) =>
        <>[](Rest /\ (ready = "False" \/ hash = <<spec>>))

-----------------------------------------------------------------------------
(* What the documentation says, and the code does not do.                  *)

(* "schema_change_handling enforced at schema, table, and column levels":  *)
(* at rest and ready, nothing unlisted is synchronised against the policy. *)
PolicyEnforcedAtRest ==
    Rest /\ ready = "True" => UnlistedFollowPolicy(spec, account)
=============================================================================
