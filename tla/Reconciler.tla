----------------------------- MODULE Reconciler -----------------------------
(***************************************************************************)
(* The FivetranConnector controller: one resource, the reconcile that      *)
(* works on it, and the Fivetran account it manages.                       *)
(*                                                                         *)
(* The workqueue never hands one key to two workers, so a resource has at  *)
(* most one reconcile at a time.  A reconcile is split where it calls the  *)
(* API server, Fivetran or Vault: between two such calls users write,      *)
(* the informer delivers, and the process may die.  pc names the next      *)
(* call.  Every error goes to handleError, which is a step of its own.     *)
(***************************************************************************)
EXTENDS Cluster

CONSTANTS
    Existing,   \* connections that were in the account before the operator
    Foreign     \* those of them that do not fit the resource's service,
                \* group or schema name

ASSUME ExistingAssumption == Existing \subseteq ConnIds /\ Foreign \subseteq Existing

VARIABLES
    pc,      \* the call the reconcile makes next; "idle" between reconciles
    cr,      \* the reconcile's copy of the resource; kept when it is over
    loc,     \* its other variables, a record in Locals
    err,     \* what handleError was called with
    conns    \* the Fivetran account: connection id -> its state

controller == <<pc, cr, loc, err>>
vars == <<cluster, controller, conns>>

(* The calls of Reconcile, in the order of the code.                       *)
DeletionSteps == {"deleteConnection", "removeFinalizer"}
ConnectorSteps ==
    {"update", "adopt", "create", "setStatusId", "setAnnotationId",
     "connectorHash", "connectorReady", "setupTests", "setupTestsReady"}
SchemaSteps ==
    {"syncing", "readSchema", "applySchema", "schemaHash", "secondPass",
     "verifySchema", "schemaReady", "skipSchema"}
GuardedSteps ==
    {"removeForce", "resolveSecrets", "finalUpdate"}
        \cup ConnectorSteps \cup SchemaSteps
ErrorSteps == {"handleError", "setupTestsFailed"}
Steps ==
    {"idle", "vaultClient", "ensureFinalizer"}
        \cup DeletionSteps \cup GuardedSteps \cup ErrorSteps

(* reconcileConnector, reconcileSchema and connectorID of Reconcile, and   *)
(* columnsWereMissing of reconcileSchema.                                  *)
Locals ==
    [connector : BOOLEAN, schema : BOOLEAN, id : ConnIds \cup {NoId},
     columnsMissing : BOOLEAN]

NoLocals ==
    [connector |-> FALSE, schema |-> FALSE, id |-> NoId, columnsMissing |-> FALSE]

Errors == [kind : ErrorKinds, cond : CondTypes]
NoError == [kind |-> "plain", cond |-> "ConnectorReady"]

(* A connection of the account.  spec is the configuration it was last     *)
(* given; scheduled says that it also got its schedule type and pause      *)
(* state, which creation leaves out; schema is the schema configuration    *)
(* last applied.                                                           *)
Connection ==
    [state : {"unused", "live", "deleted"}, spec : ConnSpecs \cup {NoSpec},
     scheduled : BOOLEAN, schema : SchemaSpecs \cup {NoSchema}]

NewConnection(state) ==
    [state |-> state, spec |-> NoSpec, scheduled |-> FALSE, schema |-> NoSchema]

IsLive(id) == id \in ConnIds /\ conns[id].state = "live"

TypeOK ==
    /\ ClusterTypeOK
    /\ pc \in Steps /\ cr \in Object /\ loc \in Locals /\ err \in Errors
    /\ conns \in [ConnIds -> Connection]

Init ==
    /\ ClusterInit
    /\ pc = "idle" /\ cr = NoObject /\ loc = NoLocals /\ err = NoError
    /\ conns = [id \in ConnIds |->
                  NewConnection(IF id \in Existing THEN "live" ELSE "unused")]

-----------------------------------------------------------------------------
(* Leaving a step.                                                         *)

Goto(step) == pc' = step /\ UNCHANGED <<loc, err>>

(* return r.handleError(ctx, connector, cond, ..., an error of this kind)  *)
Fail(kind, cond) ==
    /\ pc' = IF kind = "tests" THEN "setupTestsFailed" ELSE "handleError"
    /\ err' = [kind |-> kind, cond |-> cond]
    /\ UNCHANGED loc

(* Reconcile returns.                                                      *)
Return ==
    /\ pc' = "idle" /\ loc' = NoLocals /\ err' = NoError

(* A step that does not write the resource.                                *)
KeepsObject == UNCHANGED <<obj, cache, watch, queued, timer, version, edits, cr>>

(* An Update or Status().Update of copy c: on success the copy becomes     *)
(* what is stored and the reconcile moves on; on failure the changed copy  *)
(* stays in memory and handleError gets it.                                *)
UpdateThen(c, moveOn, kind, cond) ==
    /\ \/ Update(c, "ok") /\ cr' = Updated(c) /\ moveOn
       \/ Update(c, "error") /\ cr' = c /\ Fail(kind, cond)
    /\ UNCHANGED <<cache, queued, timer, edits, conns>>

StatusUpdateThen(c, moveOn, kind, cond) ==
    /\ \/ StatusUpdate(c, "ok") /\ cr' = StatusUpdated(c) /\ moveOn
       \/ StatusUpdate(c, "error") /\ cr' = c /\ Fail(kind, cond)
    /\ UNCHANGED <<cache, queued, timer, edits, conns>>

(* A call that changes the account to `new`.  An unsuccessful one has not  *)
(* reached the account, or it has and the answer was lost, which the       *)
(* client reports as retryable.                                            *)
FivetranWrite(new, cond) ==
    /\ Fault
    /\ \/ conns' = conns /\ \E kind \in {"apiRetry", "apiStop"} : Fail(kind, cond)
       \/ conns' = new /\ Fail("apiRetry", cond)

(* A call that fails with one of these kinds and changes nothing.          *)
Refused(kinds, cond) ==
    /\ Fault
    /\ \E kind \in kinds : Fail(kind, cond)
    /\ UNCHANGED conns

(* The account does not have the connection: 404, which is not retried.    *)
NotFound(cond) ==
    /\ ~IsLive(loc.id)
    /\ Fail("apiStop", cond)
    /\ UNCHANGED <<conns, faults>>

(* A call that succeeds and leaves the account as `new`.                   *)
Accepted(new) == conns' = new /\ UNCHANGED faults

-----------------------------------------------------------------------------
(* Where Reconcile goes next.                                              *)

(* The last step is cleanupAnnotationsAndLabels, which has nothing to do:   *)
(* see CleanupFindsNothing.                                                *)
AfterSchema(l) == IF l.connector THEN "finalUpdate" ELSE "idle"

BeforeSchema(c, l) ==
    IF hasSchemaConfig(c)
    THEN IF l.schema THEN "syncing" ELSE AfterSchema(l)
    ELSE "skipSchema"

(* Variant: the id in the status is not looked at.                         *)
BeforeConnector_NoStatusId(c, l) ==
    IF ~l.connector THEN BeforeSchema(c, l)
    ELSE IF c.annId # NoId THEN "adopt"
    ELSE "create"

(* Variant: the id in the annotation is not looked at.                     *)
BeforeConnector_NoAnnotation(c, l) ==
    IF ~l.connector THEN BeforeSchema(c, l)
    ELSE IF c.id # NoId THEN "update"
    ELSE "create"

BeforeConnector(c, l) ==
    IF ~l.connector THEN BeforeSchema(c, l)
    ELSE IF c.id # NoId THEN "update"
    ELSE IF c.annId # NoId THEN "adopt"
    ELSE "create"

(* Go to a step that may be the end of the reconcile.                      *)
GotoOrReturn(step) == IF step = "idle" THEN Return ELSE Goto(step)

(* determineReconciliationNeeds and the early return after it.             *)
Decide(c, forced) ==
    LET needs == determineReconciliationNeeds(c, forced)
    IN  IF needs.connector \/ needs.schema
        THEN /\ pc' = "resolveSecrets"
             /\ loc' = [connector |-> needs.connector, schema |-> needs.schema,
                        id |-> c.id, columnsMissing |-> FALSE]
             /\ UNCHANGED err
        ELSE Return

(* After ensureFinalizer: the force label, if there is one, is removed     *)
(* before anything is decided.                                             *)
AfterFinalizer(c) == IF c.force THEN Goto("removeForce") ELSE Decide(c, FALSE)

-----------------------------------------------------------------------------
(* Reconcile.                                                              *)

(* A worker takes the key and reads the cache; not found is the end.       *)
GetResource ==
    /\ pc = "idle" /\ queued
    /\ queued' = FALSE
    /\ cr' = cache
    /\ IF cache.live
       THEN Goto("vaultClient")
       ELSE Return
    /\ version' = IF watch = <<>> THEN "latest" ELSE "outdated"
    /\ UNCHANGED <<obj, cache, watch, timer, edits, faults, conns>>

(* Variant: the allow-deletion annotation is not looked at.                *)
EnsureVaultClient_AlwaysDeletes ==
    /\ pc = "vaultClient"
    /\ IF cr.deleting
       THEN IF ~cr.finalizer THEN Return
            ELSE IF cr.id # NoId THEN Goto("deleteConnection")
            ELSE Goto("removeFinalizer")
       ELSE IF cr.finalizer THEN AfterFinalizer(cr)
            ELSE Goto("ensureFinalizer")
    /\ UNCHANGED <<obj, cache, watch, queued, timer, version, edits, faults, cr, conns>>

(* The Vault client is there and its token valid, or a new one is made;    *)
(* failing that the error goes straight to the workqueue.  Then deletion,  *)
(* or the finalizer.                                                       *)
EnsureVaultClient ==
    /\ pc = "vaultClient"
    /\ \/ /\ IF cr.deleting
             THEN IF ~cr.finalizer THEN Return
                  ELSE IF cr.id # NoId /\ cr.allowDeletion
                  THEN Goto("deleteConnection")
                  ELSE Goto("removeFinalizer")
             ELSE IF cr.finalizer THEN AfterFinalizer(cr)
                  ELSE Goto("ensureFinalizer")
          /\ UNCHANGED <<timer, faults>>
       \/ Fault /\ Return /\ timer' = TRUE
    /\ UNCHANGED <<obj, cache, watch, queued, version, edits, cr, conns>>

(* Variant: a failing DeleteConnection does not stop the deletion.         *)
DeleteConnection_Unchecked ==
    /\ pc = "deleteConnection"
    /\ \/ IsLive(cr.id) /\ Accepted([conns EXCEPT ![cr.id].state = "deleted"])
       \/ Fault /\ UNCHANGED conns
    /\ Goto("removeFinalizer")
    /\ KeepsObject

(* handleDeletion: DeleteConnection, when the user allowed it.             *)
DeleteConnection ==
    /\ pc = "deleteConnection"
    /\ \/ /\ IsLive(cr.id)
          /\ LET gone == [conns EXCEPT ![cr.id].state = "deleted"]
             IN  \/ Accepted(gone) /\ Goto("removeFinalizer")
                 \/ FivetranWrite(gone, "ConnectorReady")
       \/ /\ ~IsLive(cr.id)
          /\ Fail("apiStop", "ConnectorReady")
          /\ UNCHANGED <<conns, faults>>
    /\ KeepsObject

(* handleDeletion: remove the finalizer; the API server then drops it.     *)
RemoveFinalizer ==
    /\ pc = "removeFinalizer"
    /\ UpdateThen([cr EXCEPT !.finalizer = FALSE], Return,
                  "plain", "ConnectorReady")

(* Variant: a failing Update is not noticed.                               *)
EnsureFinalizer_Unchecked ==
    /\ pc = "ensureFinalizer"
    /\ LET c == [cr EXCEPT !.finalizer = TRUE]
       IN  /\ \E reply \in {"ok", "error"} : Update(c, reply)
           /\ cr' = c
           /\ AfterFinalizer(c)
    /\ UNCHANGED <<cache, queued, timer, edits, conns>>

EnsureFinalizer ==
    /\ pc = "ensureFinalizer"
    /\ LET c == [cr EXCEPT !.finalizer = TRUE]
       IN  UpdateThen(c, AfterFinalizer(c), "plain", "ConnectorReady")

(* Variant: the label is noticed and left there.                           *)
RemoveForceLabel_Kept ==
    /\ pc = "removeForce"
    /\ UpdateThen(cr, Decide(cr, TRUE), "plain", "ConnectorReady")

(* The force label is removed as soon as it is seen.                       *)
RemoveForceLabel ==
    /\ pc = "removeForce"
    /\ LET c == [cr EXCEPT !.force = FALSE]
       IN  UpdateThen(c, Decide(c, TRUE), "plain", "ConnectorReady")

ResolveSecrets ==
    /\ pc = "resolveSecrets"
    /\ \/ GotoOrReturn(BeforeConnector(cr, loc)) /\ UNCHANGED <<faults, conns>>
       \/ Refused({"vaultRetry", "vaultStop", "plain"}, "ConnectorReady")
    /\ KeepsObject

-----------------------------------------------------------------------------
(* reconcileConnector and reconcileSetupTests.                             *)

(* The id of the next connection.  Fivetran never gives one twice; here,   *)
(* when ConnIds is used up, an id that nothing in the cluster mentions is  *)
(* given again, so that leaking connections does not stop the model.       *)
Mentions(o) == {o.id, o.annId}

UnusedIds == {id \in ConnIds : conns[id].state = "unused"}

FreshIds ==
    IF UnusedIds # {} THEN UnusedIds
    ELSE (ConnIds \ Existing) \
             UNION {Mentions(o) : o \in {obj, cache} \cup {watch[i] : i \in DOMAIN watch}}

(* createConnector: paused and without a schedule type.                    *)
CreateConnector ==
    /\ pc = "create"
    /\ \E id \in FreshIds :
          LET new == [conns EXCEPT ![id] =
                        [NewConnection("live") EXCEPT !.spec = cr.connector]]
          IN  \/ /\ Accepted(new)
                 /\ pc' = "setStatusId" /\ loc' = [loc EXCEPT !.id = id]
                 /\ UNCHANGED err
              \/ FivetranWrite(new, "ConnectorReady")
    /\ KeepsObject

(* Variant: an existing connection is adopted without being compared.      *)
HandleConnectorFromAnnotation_Unchecked ==
    /\ pc = "adopt"
    /\ IsLive(cr.annId)
    /\ pc' = "setStatusId" /\ loc' = [loc EXCEPT !.id = cr.annId]
    /\ UNCHANGED <<err, faults, conns>>
    /\ KeepsObject

(* handleConnectorFromAnnotation up to setConnectorID.  Whatever goes      *)
(* wrong, a failing GetConnection included, is reported as a failed        *)
(* validation.                                                             *)
HandleConnectorFromAnnotation ==
    /\ pc = "adopt"
    /\ \/ /\ IsLive(cr.annId) /\ cr.annId \notin Foreign
          /\ pc' = "setStatusId" /\ loc' = [loc EXCEPT !.id = cr.annId]
          /\ UNCHANGED <<err, faults, conns>>
       \/ /\ ~IsLive(cr.annId) \/ cr.annId \in Foreign
          /\ Fail("validation", "ConnectorReady")
          /\ UNCHANGED <<faults, conns>>
       \/ Refused({"validation"}, "ConnectorReady")
    /\ KeepsObject

(* setConnectorID, first the status and then the annotation.  A new        *)
(* connection has no annotation yet; an adopted one is validated, which    *)
(* changes the kind of the error, and updated afterwards.                  *)
SetIdErrorKind == IF cr.annId = NoId THEN "plain" ELSE "validation"

SetStatusId ==
    /\ pc = "setStatusId"
    /\ StatusUpdateThen([cr EXCEPT !.id = loc.id], Goto("setAnnotationId"),
                        SetIdErrorKind, "ConnectorReady")

SetAnnotationId ==
    /\ pc = "setAnnotationId"
    /\ UpdateThen([cr EXCEPT !.annId = loc.id],
                  Goto(IF cr.annId = NoId THEN "connectorHash" ELSE "update"),
                  SetIdErrorKind, "ConnectorReady")

(* Variant: a failing update does not stop the reconcile.                  *)
UpdateConnection_Unchecked(next) ==
    LET new == [conns EXCEPT ![loc.id].spec = cr.connector,
                             ![loc.id].scheduled = TRUE]
    IN  \/ IsLive(loc.id) /\ Accepted(new) /\ GotoOrReturn(next)
        \/ Fault /\ GotoOrReturn(next) /\ UNCHANGED conns

(* updateConnector: everything, schedule type and pause state included.    *)
UpdateConnection(next) ==
    LET new == [conns EXCEPT ![loc.id].spec = cr.connector,
                             ![loc.id].scheduled = TRUE]
    IN  \/ IsLive(loc.id) /\ Accepted(new) /\ GotoOrReturn(next)
        \/ IsLive(loc.id) /\ FivetranWrite(new, "ConnectorReady")
        \/ NotFound("ConnectorReady")

UpdateConnector ==
    /\ pc = "update"
    /\ UpdateConnection("connectorHash")
    /\ KeepsObject

(* Variant: the annotation gets the spec, not its hash.                    *)
UpdateConnectorHash_Raw ==
    /\ pc = "connectorHash"
    /\ UpdateThen([cr EXCEPT !.connHash = cr.connector],
                  Goto("connectorReady"), "plain", "ConnectorReady")

UpdateConnectorHash ==
    /\ pc = "connectorHash"
    /\ UpdateThen([cr EXCEPT !.connHash = Md5(cr.connector)],
                  Goto("connectorReady"), "plain", "ConnectorReady")

SetConnectorReady ==
    /\ pc = "connectorReady"
    /\ StatusUpdateThen(setCondition(cr, "ConnectorReady", "True"),
          Goto(IF cr.connector \in SkipTests THEN "setupTestsReady" ELSE "setupTests"),
          "plain", "ConnectorReady")

RunSetupTests ==
    /\ pc = "setupTests"
    /\ \/ IsLive(loc.id) /\ Goto("setupTestsReady") /\ UNCHANGED <<faults, conns>>
       \/ IsLive(loc.id) /\ Refused({"tests", "apiRetry", "apiStop"}, "SetupTestReady")
       \/ NotFound("SetupTestReady")
    /\ KeepsObject

UpdateSetupTestsCondition ==
    /\ pc = "setupTestsReady"
    /\ StatusUpdateThen(setCondition(cr, "SetupTestReady", "True"),
          GotoOrReturn(BeforeSchema(cr, loc)), "plain", "SetupTestReady")

-----------------------------------------------------------------------------
(* reconcileSchema.                                                        *)

IsConnectorSyncing ==
    /\ pc = "syncing"
    /\ \/ IsLive(loc.id) /\ Goto("readSchema") /\ UNCHANGED <<faults, conns>>
       \/ IsLive(loc.id) /\ Refused({"syncing", "apiRetry", "apiStop"}, "SchemaReady")
       \/ NotFound("SchemaReady")
    /\ KeepsObject

(* GetSchemaDetails, a reload where the schema is missing or incomplete,   *)
(* and the columns of the tables that list any.  Errors of the per-table   *)
(* endpoint are not API errors to handleError.                             *)
ReadSchema ==
    /\ pc = "readSchema"
    /\ \/ /\ IsLive(loc.id)
          /\ \E missing \in BOOLEAN :
                /\ missing => cr.schema \in ColumnSpecs
                /\ loc' = [loc EXCEPT !.columnsMissing = missing]
          /\ pc' = "applySchema"
          /\ UNCHANGED <<err, faults, conns>>
       \/ /\ IsLive(loc.id)
          /\ Refused({"apiRetry", "apiStop"} \cup
                     (IF cr.schema \in ColumnSpecs THEN {"plain", "locked"} ELSE {}),
                     "SchemaReady")
       \/ NotFound("SchemaReady")
    /\ KeepsObject

(* applySchema, or createNewSchema for an unvalidated schema that does not *)
(* exist: the Fivetran call here, the hash in the next step.  A schema     *)
(* that cannot be built is an error of no particular kind.                 *)
ApplySchema ==
    /\ pc = "applySchema"
    /\ LET new == [conns EXCEPT ![loc.id].schema = cr.schema]
       IN  \/ IsLive(loc.id) /\ Accepted(new) /\ Goto("schemaHash")
           \/ IsLive(loc.id) /\ FivetranWrite(new, "SchemaReady")
           \/ Refused({"plain"}, "SchemaReady")
           \/ NotFound("SchemaReady")
    /\ KeepsObject

AfterApply ==
    IF cr.schema \in Unvalidated THEN "schemaReady" ELSE "verifySchema"

UpdateSchemaHash ==
    /\ pc = "schemaHash"
    /\ UpdateThen([cr EXCEPT !.schemaHash = Md5(cr.schema)],
                  Goto(IF loc.columnsMissing THEN "secondPass" ELSE AfterApply),
                  "plain", "SchemaReady")

(* The second pass reads the schema and its columns again and applies it   *)
(* a second time.                                                          *)
SecondPass ==
    /\ pc = "secondPass"
    /\ \/ /\ IsLive(loc.id)
          /\ pc' = "applySchema" /\ loc' = [loc EXCEPT !.columnsMissing = FALSE]
          /\ UNCHANGED <<err, faults, conns>>
       \/ IsLive(loc.id) /\ Refused({"apiRetry", "apiStop", "plain"}, "SchemaReady")
       \/ NotFound("SchemaReady")
    /\ KeepsObject

VerifySchema ==
    /\ pc = "verifySchema"
    /\ \/ IsLive(loc.id) /\ Goto("schemaReady") /\ UNCHANGED <<faults, conns>>
       \/ IsLive(loc.id) /\ Refused({"mismatch", "apiRetry", "apiStop"}, "SchemaReady")
       \/ NotFound("SchemaReady")
    /\ KeepsObject

SetSchemaReady ==
    /\ pc = "schemaReady"
    /\ StatusUpdateThen(setCondition(cr, "SchemaReady", "True"),
          GotoOrReturn(AfterSchema(loc)), "plain", "SchemaReady")

(* No schema configuration: the condition is set all the same.             *)
SkipSchema ==
    /\ pc = "skipSchema"
    /\ StatusUpdateThen(setCondition(cr, "SchemaReady", "True"),
          GotoOrReturn(AfterSchema(loc)), "plain", "SchemaReady")

-----------------------------------------------------------------------------
(* The end of Reconcile.                                                   *)

(* The second update of the connector, for the schedule type and pause     *)
(* state that creation leaves out.                                         *)
FinalUpdateConnector ==
    /\ pc = "finalUpdate"
    /\ UpdateConnection("idle")
    /\ KeepsObject

(* Variant: a condition that could not be written is not retried.          *)
HandleError_Unchecked ==
    /\ pc = "handleError"
    /\ LET c == setCondition(cr, err.cond, "False")
       IN  /\ \E reply \in {"ok", "error"} : StatusUpdate(c, reply)
           /\ cr' = c
    /\ timer' = (timer \/ Requeues(err.kind))
    /\ Return
    /\ UNCHANGED <<cache, queued, edits, conns>>

(* handleError writes the condition and returns.  The key comes back when  *)
(* the kind of error asks for it, or when the write itself fails.          *)
HandleError ==
    /\ pc = "handleError"
    /\ LET c == setCondition(cr, err.cond, "False")
       IN  \/ /\ StatusUpdate(c, "ok")
              /\ cr' = StatusUpdated(c)
              /\ timer' = (timer \/ Requeues(err.kind))
           \/ /\ StatusUpdate(c, "error")
              /\ cr' = c
              /\ timer' = TRUE
    /\ Return
    /\ UNCHANGED <<cache, queued, edits, conns>>

(* handleError for failed setup tests first confirms ConnectorReady.       *)
HandleSetupTestsFailed ==
    /\ pc = "setupTestsFailed"
    /\ LET c == setCondition(cr, "ConnectorReady", "True")
       IN  \/ /\ StatusUpdate(c, "ok")
              /\ cr' = StatusUpdated(c)
              /\ Goto("handleError")
              /\ UNCHANGED timer
           \/ /\ StatusUpdate(c, "error")
              /\ cr' = c
              /\ Return
              /\ timer' = TRUE
    /\ UNCHANGED <<cache, queued, edits, conns>>

ConnectorStep ==
    \/ CreateConnector \/ HandleConnectorFromAnnotation
    \/ SetStatusId \/ SetAnnotationId
    \/ UpdateConnector \/ UpdateConnectorHash \/ SetConnectorReady
    \/ RunSetupTests \/ UpdateSetupTestsCondition

SchemaStep ==
    \/ IsConnectorSyncing \/ ReadSchema \/ ApplySchema \/ UpdateSchemaHash
    \/ SecondPass \/ VerifySchema \/ SetSchemaReady \/ SkipSchema

Reconcile ==
    \/ GetResource \/ EnsureVaultClient
    \/ DeleteConnection \/ RemoveFinalizer
    \/ EnsureFinalizer \/ RemoveForceLabel \/ ResolveSecrets
    \/ ConnectorStep \/ SchemaStep \/ FinalUpdateConnector
    \/ HandleError \/ HandleSetupTestsFailed

-----------------------------------------------------------------------------
(* The environment.                                                        *)

(* The operator's process dies and is started again: the reconcile, the    *)
(* workqueue and the cache are gone, the informer lists the resource and   *)
(* announces it as created.                                                *)
Restart ==
    /\ Fault
    /\ pc' = "idle" /\ cr' = NoObject /\ loc' = NoLocals /\ err' = NoError
    /\ cache' = obj /\ watch' = <<>>
    /\ queued' = obj.live /\ timer' = FALSE /\ version' = "outdated"
    /\ UNCHANGED <<obj, edits, conns>>

(* Somebody deletes a connection in Fivetran, not through the operator.    *)
DeletedElsewhere(id) ==
    /\ Fault
    /\ IsLive(id)
    /\ conns' = [conns EXCEPT ![id].state = "deleted"]
    /\ UNCHANGED <<obj, cache, watch, queued, timer, version, edits, controller>>

UserActs ==
    /\ Users({id \in ConnIds : IsLive(id)})
    /\ UNCHANGED <<controller, conns>>

Informs == Deliver /\ UNCHANGED <<controller, conns>>

Requeued == TimerFires /\ UNCHANGED <<controller, conns>>

Next ==
    \/ Reconcile
    \/ Informs
    \/ Requeued
    \/ UserActs
    \/ Restart
    \/ \E id \in ConnIds : DeletedElsewhere(id)

Spec == Init /\ [][Next]_vars

(* The worker, the informer and the delaying queue keep going.  Nothing is *)
(* asked of users, of the process's death or of the rest of the world.     *)
FairSpec == Spec /\ WF_vars(Reconcile) /\ WF_vars(Informs) /\ WF_vars(Requeued)

-----------------------------------------------------------------------------
(* Safety.                                                                 *)

Quiescent == pc = "idle" /\ NothingPending

(* Steps that address a connection of the account by connectorID.          *)
TargetedSteps ==
    {"update", "connectorHash", "connectorReady", "setupTests",
     "setupTestsReady", "finalUpdate"} \cup SchemaSteps

(* From the moment ensureFinalizer is behind it, a reconcile works under   *)
(* the finalizer: the resource cannot disappear while the reconcile        *)
(* creates or changes a connection for it, whatever users do meanwhile and *)
(* however old the copy it read is.                                        *)
WorksUnderFinalizer == pc \in GuardedSteps => obj.live /\ obj.finalizer

(* Every call that addresses a connection uses the non-empty id that the   *)
(* reconcile's copy has in its status, also when only the schema is        *)
(* reconciled and reconcileConnector did not run.                          *)
TargetsTrackedConnection ==
    pc \in TargetedSteps => loc.id # NoId /\ loc.id = cr.id

(* cleanupAnnotationsAndLabels at the end of Reconcile never has a label   *)
(* to remove, so it makes no call: the label was removed at the start and  *)
(* a reconcile that would see it come back can no longer write.            *)
CleanupFindsNothing == pc \in GuardedSteps \ {"removeForce"} => ~cr.force

(* No wake-up is lost.  When nothing runs and nothing is pending, the last *)
(* reconcile has read the spec and the deletion mark that are stored now,  *)
(* in spite of the predicates that drop events and of reads of an old      *)
(* cache.                                                                  *)
NoLostWakeup == Quiescent /\ obj.live => cr.live /\ SameGeneration(cr, obj)

(* A force-reconcile label does not stay: it is taken off before anything  *)
(* that could end the reconcile without a retry.                           *)
ForceLabelServed == Quiescent /\ obj.live /\ ~obj.deleting => ~obj.force

(* The connector id in the status is given once: no later write, also one  *)
(* from a copy read before it was set, clears or replaces it.              *)
IdAssignedOnce ==
    [][obj.live /\ obj'.live /\ obj.id # NoId => obj'.id = obj.id]_vars

(* A hash annotation only changes to the hash of the stored spec, and at   *)
(* that moment the connection carries that spec.                           *)
HashesRecordWhatWasApplied ==
    [][obj.live /\ obj'.live =>
         /\ obj'.connHash # obj.connHash =>
              /\ obj'.connHash = Md5(obj'.connector)
              /\ conns[obj'.id].spec = obj'.connector
         /\ obj'.schemaHash # obj.schemaHash =>
              /\ obj'.schemaHash = Md5(obj'.schema)
              /\ conns[obj'.id].schema = obj'.schema]_vars

(* The operator deletes a connection only for a resource that is being     *)
(* deleted, that tracks this connection and whose deletion was allowed.    *)
DeletesOnlyTheDoomed ==
    [][pc = "deleteConnection" /\ pc' # pc /\ conns' # conns =>
         /\ obj.live /\ obj.deleting /\ cr.allowDeletion
         /\ conns' = [conns EXCEPT ![obj.id].state = "deleted"]]_vars

(* A resource that allows deletion and tracks a connection does not go     *)
(* away before its connection.                                             *)
DeletionIsHonoured ==
    [][obj.live /\ ~obj'.live /\ obj.finalizer /\ obj.allowDeletion =>
         ~IsLive(obj.id)]_vars

(* A reconcile that fails is retried, or the resource says that it failed. *)
NoSilentFailure ==
    [][(pc \in ErrorSteps) /\ pc' = "idle" =>
         \/ timer' \/ queued' \/ ~obj'.live
         \/ hasFailedConditions(obj)']_vars

(* Adoption leaves alone what does not fit: a connection whose service,    *)
(* group or schema name differs is neither tracked nor changed.            *)
ForeignLeftAlone ==
    \A id \in Foreign :
        /\ obj.id # id
        /\ conns[id].spec = NoSpec /\ conns[id].schema = NoSchema

(* The backup of the connector id in the annotation, when there is one,    *)
(* names the connection the status names: recovering from it after a lost  *)
(* status would find the same connection.                                  *)
BackupAgrees == obj.id # NoId /\ obj.annId # NoId => obj.annId = obj.id

-----------------------------------------------------------------------------
(* Liveness.                                                               *)

(* Once users and failures leave it alone the operator comes to rest: it   *)
(* does not feed itself events and it does not retry for ever.             *)
Settles == <>[]Quiescent

(* The connection has the connector configuration and the schema of the    *)
(* resource.                                                               *)
Applied ==
    /\ IsLive(obj.id)
    /\ conns[obj.id].spec = obj.connector
    /\ hasSchemaConfig(obj) => conns[obj.id].schema = obj.schema

(* Nothing fails, no answer is lost and no process dies.                   *)
NoFailures == faults = MaxFaults

(* Without failures a creation and a change at any moment end up in        *)
(* Fivetran, whatever copy of the resource the reconciles work with.       *)
EventuallyApplied ==
    []NoFailures => <>[](obj.live /\ ~obj.deleting => Applied)

(* Without failures a resource that is deleted goes away, with its         *)
(* connection or without, whatever was running when the deletion came.     *)
DeletionCompletes ==
    []NoFailures => ((obj.live /\ obj.deleting) ~> ~obj.live)

(* Without failures a force-reconcile label leads to a reconcile that gets *)
(* to its last update, or to a failure that the resource shows.  The label *)
(* is removed before that work and is then known to one reconcile only.    *)
ForceTriggersReconcile ==
    []NoFailures =>
        ((obj.live /\ obj.force) ~>
            (pc = "finalUpdate" \/ hasFailedConditions(obj) \/ obj.deleting \/ ~obj.live))

-----------------------------------------------------------------------------
(* What the documentation and the tests say, and the code does not do.     *)

AllReady == obj.live /\ ~obj.deleting /\ \A t \in CondTypes : obj.cond[t] = "True"

(* Ready "indicates if the connector is successfully created and           *)
(* configured": a resource at rest with all its conditions True has a      *)
(* connection with its schedule type and pause state.                      *)
ReadyMeansConfigured == Quiescent /\ AllReady => conns[obj.id].scheduled

(* SchemaReady "indicates if schema configuration is applied successfully":*)
(* at rest and all True, the connection has the schema of the resource.    *)
SchemaReadyMeansApplied ==
    Quiescent /\ AllReady /\ hasSchemaConfig(obj) =>
        conns[obj.id].schema = obj.schema

(* A connection is created "if [it] doesn't exist": the operator never has *)
(* two live connections of its own making for one resource.                *)
OneConnectionPerResource ==
    \A i, j \in ConnIds \ Existing : IsLive(i) /\ IsLive(j) => i = j

(* A deleted resource goes away: src/test/e2e expects it of every one.     *)
EveryDeletionCompletes == (obj.live /\ obj.deleting) ~> ~obj.live
=============================================================================
