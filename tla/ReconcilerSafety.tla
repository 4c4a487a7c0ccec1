-------------------------- MODULE ReconcilerSafety --------------------------
(***************************************************************************)
(* Safety of the reconcile, for every value of the constants: types, the   *)
(* finalizer, the ids in the status, and the events that wake the          *)
(* controller.                                                             *)
(*                                                                         *)
(* Three inductive invariants, after the types, carry the theorems.        *)
(* Protection says who may still believe that the resource has its         *)
(* finalizer; Agreement says what the reconcile's copy has in common with  *)
(* the stored object as long as its resourceVersion is the stored one;     *)
(* Wakeups says what the last reconcile has read, or that an event is on   *)
(* its way.                                                                *)
(***************************************************************************)
EXTENDS Reconciler, SequenceTheorems, TLAPS

-----------------------------------------------------------------------------
(* Types of the operators the steps are built from.                        *)

(* Setting a condition or a hash leaves a resource.                        *)
LEMMA ConditionField ==
  ASSUME NEW c \in Object, NEW t \in CondTypes, NEW v \in CondValues
  PROVE  setCondition(c, t, v) \in Object
<1>1. c.cond \in [CondTypes -> CondValues]
  BY DEF Object
<1>2. [c.cond EXCEPT ![t] = v] \in [CondTypes -> CondValues]
  BY <1>1
<1>. QED
  BY <1>1, <1>2 DEF Object, setCondition

LEMMA NoObjectType == NoObject \in Object
BY DEF NoObject, Object, Hashes, CondTypes, CondValues

LEMMA HashFields ==
  ASSUME NEW c \in Object
  PROVE  /\ [c EXCEPT !.connHash = Md5(c.connector)] \in Object
         /\ [c EXCEPT !.schemaHash = Md5(c.schema)] \in Object
BY DEF Object, Hashes

LEMMA StoredObjects ==
  ASSUME TypeOK, NEW c \in Object
  PROVE  Updated(c) \in Object /\ StatusUpdated(c) \in Object
<1>1. obj \in Object
  BY DEF TypeOK, ClusterTypeOK
<1>2. [c EXCEPT !.id = obj.id, !.cond = obj.cond] \in Object
  BY <1>1, Zenon DEF Object
<1>3. Updated(c) \in Object
  BY <1>2, NoObjectType DEF Updated, Collected
<1>4. StatusUpdated(c) \in Object
  BY <1>1, Zenon DEF StatusUpdated, Object
<1>. QED
  BY <1>3, <1>4

(* A fault uses up one of the faults left.                                 *)
LEMMA FaultType == ASSUME TypeOK, Fault PROVE faults' \in 0..MaxFaults
BY BoundsAssumption DEF Fault, TypeOK, ClusterTypeOK

(* What r.Update and r.Status().Update of a copy c do.  A write that       *)
(* succeeds had the latest version, has it still, and the copy is what is  *)
(* stored.  A write that fails leaves c in memory; it has stored nothing,  *)
(* or it has and the copy is outdated from then on.                        *)
Announces(stored) ==
    /\ obj' = stored
    /\ \/ watch' = Append(watch, stored)
       \/ watch' = watch /\ obj' = obj

Stores(stored) ==
    /\ version = "latest" /\ version' = "latest"
    /\ cr' = stored
    /\ Announces(stored)

Misses(c, stored) ==
    /\ cr' = c
    /\ \/ obj' = obj /\ watch' = watch /\ version' = version
       \/ version = "latest" /\ version' = "outdated" /\ Announces(stored)

LEMMA UpdateEffect ==
  ASSUME TypeOK, NEW c \in Object
  PROVE  /\ Update(c, "ok") /\ cr' = Updated(c) =>
              Stores(Updated(c)) /\ faults' \in 0..MaxFaults
         /\ Update(c, "error") /\ cr' = c =>
              Misses(c, Updated(c)) /\ faults' \in 0..MaxFaults
<1>1. faults \in 0..MaxFaults
  BY DEF TypeOK, ClusterTypeOK
<1>2. Fault => faults' \in 0..MaxFaults
  BY FaultType
<1>3. StoreIfChanged(Updated(c)) => Announces(Updated(c))
  BY DEF StoreIfChanged, Store, Announces
<1>. QED
  BY <1>1, <1>2, <1>3 DEF Update, Write, Stores, Misses

LEMMA StatusUpdateEffect ==
  ASSUME TypeOK, NEW c \in Object
  PROVE  /\ StatusUpdate(c, "ok") /\ cr' = StatusUpdated(c) =>
              Stores(StatusUpdated(c)) /\ faults' \in 0..MaxFaults
         /\ StatusUpdate(c, "error") /\ cr' = c =>
              Misses(c, StatusUpdated(c)) /\ faults' \in 0..MaxFaults
<1>1. faults \in 0..MaxFaults
  BY DEF TypeOK, ClusterTypeOK
<1>2. Fault => faults' \in 0..MaxFaults
  BY FaultType
<1>3. Store(StatusUpdated(c)) => Announces(StatusUpdated(c))
  BY DEF Store, Announces
<1>. QED
  BY <1>1, <1>2, <1>3 DEF StatusUpdate, Write, Stores, Misses

(* The types of what a write touches.                                      *)
LEMMA WriteTypes ==
  ASSUME TypeOK, NEW c \in Object, NEW stored \in Object,
         Stores(stored) \/ Misses(c, stored)
  PROVE  /\ obj' \in Object /\ watch' \in Seq(Object) /\ cr' \in Object
         /\ version' \in {"latest", "outdated"}
<1>1. obj \in Object /\ watch \in Seq(Object) /\ version \in {"latest", "outdated"}
  BY DEF TypeOK, ClusterTypeOK
<1>2. Append(watch, stored) \in Seq(Object)
  BY <1>1
<1>. QED
  BY <1>1, <1>2 DEF Stores, Misses, Announces

-----------------------------------------------------------------------------
(* Types of the ways to leave a step.                                      *)

ControlType == pc \in Steps /\ loc \in Locals /\ err \in Errors

LEMMA StepNames ==
  /\ "idle" \in Steps /\ "vaultClient" \in Steps /\ "ensureFinalizer" \in Steps
  /\ "handleError" \in Steps /\ "setupTestsFailed" \in Steps
  /\ DeletionSteps \subseteq Steps /\ GuardedSteps \subseteq Steps
  /\ ConnectorSteps \subseteq GuardedSteps /\ SchemaSteps \subseteq GuardedSteps
  /\ "removeForce" \in GuardedSteps /\ "resolveSecrets" \in GuardedSteps
  /\ "finalUpdate" \in GuardedSteps
BY DEF Steps, GuardedSteps, ErrorSteps

LEMMA GotoType ==
  ASSUME TypeOK, NEW step \in Steps, Goto(step)
  PROVE  ControlType'
BY DEF Goto, ControlType, TypeOK

LEMMA FailType ==
  ASSUME TypeOK, NEW kind \in ErrorKinds, NEW cond \in CondTypes, Fail(kind, cond)
  PROVE  ControlType'
BY StepNames DEF Fail, ControlType, TypeOK, Errors

LEMMA ReturnType == ASSUME TypeOK, Return PROVE ControlType'
BY StepNames DEF Return, ControlType, Locals, NoLocals, Errors, NoError,
                 ErrorKinds, CondTypes

LEMMA GotoOrReturnType ==
  ASSUME TypeOK, NEW step \in Steps, GotoOrReturn(step)
  PROVE  ControlType'
BY GotoType, ReturnType DEF GotoOrReturn

LEMMA DecideType ==
  ASSUME TypeOK, NEW c \in Object, NEW forced \in BOOLEAN, Decide(c, forced)
  PROVE  ControlType'
<1> DEFINE needs == determineReconciliationNeeds(c, forced)
<1>1. needs.connector \in BOOLEAN /\ needs.schema \in BOOLEAN
  BY Zenon DEF determineReconciliationNeeds, hasSchemaConfig, isConditionFalse,
         hasConnectorHashChanged, hasSchemaHashChanged
<1>2. c.id \in ConnIds \cup {NoId}
  BY DEF Object
<1>3. CASE needs.connector \/ needs.schema
  <2>1. /\ pc' = "resolveSecrets" /\ err' = err
        /\ loc' = [connector |-> needs.connector, schema |-> needs.schema,
                   id |-> c.id, columnsMissing |-> FALSE]
    BY <1>3 DEF Decide
  <2>2. loc' \in Locals
    BY <1>1, <1>2, <2>1 DEF Locals
  <2>. QED
    BY <2>1, <2>2, StepNames DEF ControlType, TypeOK
<1>4. CASE ~(needs.connector \/ needs.schema)
  BY <1>4, ReturnType DEF Decide
<1>. QED
  BY <1>3, <1>4

LEMMA NextStepType ==
  ASSUME NEW c, NEW l
  PROVE  /\ AfterSchema(l) \in Steps
         /\ BeforeSchema(c, l) \in Steps
         /\ BeforeConnector(c, l) \in Steps
BY StepNames DEF AfterSchema, BeforeSchema, BeforeConnector, ConnectorSteps, SchemaSteps

LEMMA AfterFinalizerType ==
  ASSUME TypeOK, NEW c \in Object, AfterFinalizer(c)
  PROVE  ControlType'
BY StepNames, GotoType, DecideType, Zenon DEF AfterFinalizer

-----------------------------------------------------------------------------
(* Type correctness, one kind of step after the other.                     *)

(* Steps that ask Fivetran or Vault and do not write the resource.         *)
LEMMA AskType ==
  ASSUME TypeOK, KeepsObject, ControlType', faults' \in 0..MaxFaults,
         conns' \in [ConnIds -> Connection]
  PROVE  TypeOK'
BY DEF TypeOK, ClusterTypeOK, KeepsObject, ControlType

(* Steps that write the resource.                                          *)
LEMMA WroteType ==
  ASSUME TypeOK, NEW c \in Object, ControlType', timer' \in BOOLEAN,
         UNCHANGED <<cache, queued, edits, conns>>,
         \/ Update(c, "ok") /\ cr' = Updated(c)
         \/ Update(c, "error") /\ cr' = c
         \/ StatusUpdate(c, "ok") /\ cr' = StatusUpdated(c)
         \/ StatusUpdate(c, "error") /\ cr' = c
  PROVE  TypeOK'
<1>1. Updated(c) \in Object /\ StatusUpdated(c) \in Object
  BY StoredObjects
<1>2. /\ faults' \in 0..MaxFaults
      /\ \/ Stores(Updated(c)) \/ Misses(c, Updated(c))
         \/ Stores(StatusUpdated(c)) \/ Misses(c, StatusUpdated(c))
  BY UpdateEffect, StatusUpdateEffect
<1>3. /\ obj' \in Object /\ watch' \in Seq(Object) /\ cr' \in Object
      /\ version' \in {"latest", "outdated"}
  BY <1>1, <1>2, WriteTypes
<1>. QED
  BY <1>2, <1>3 DEF TypeOK, ClusterTypeOK, ControlType

(* The answers of Fivetran and Vault.                                      *)
LEMMA FivetranWriteType ==
  ASSUME TypeOK, NEW cond \in CondTypes, NEW new \in [ConnIds -> Connection],
         FivetranWrite(new, cond)
  PROVE  /\ ControlType' /\ faults' \in 0..MaxFaults
         /\ conns' \in [ConnIds -> Connection]
<1>1. {"apiRetry", "apiStop"} \subseteq ErrorKinds
  BY DEF ErrorKinds
<1>. QED
  BY <1>1, FailType, FaultType DEF FivetranWrite, TypeOK

LEMMA RefusedType ==
  ASSUME TypeOK, NEW cond \in CondTypes, NEW kinds \in SUBSET ErrorKinds,
         Refused(kinds, cond)
  PROVE  ControlType' /\ faults' \in 0..MaxFaults /\ conns' \in [ConnIds -> Connection]
BY FailType, FaultType DEF Refused, TypeOK

LEMMA NotFoundType ==
  ASSUME TypeOK, NEW cond \in CondTypes, NotFound(cond)
  PROVE  ControlType' /\ faults' \in 0..MaxFaults /\ conns' \in [ConnIds -> Connection]
<1>1. "apiStop" \in ErrorKinds
  BY DEF ErrorKinds
<1>. QED
  BY <1>1, FailType DEF NotFound, TypeOK, ClusterTypeOK

LEMMA StartTypes ==
  ASSUME TypeOK
  PROVE  /\ GetResource => TypeOK'
         /\ EnsureVaultClient => TypeOK'
         /\ ResolveSecrets => TypeOK'
<1>1. ASSUME GetResource PROVE TypeOK'
  <2>1. ControlType'
    BY <1>1, StepNames, GotoType, ReturnType DEF GetResource
  <2>. QED
    BY <1>1, <2>1, Zenon DEF GetResource, TypeOK, ClusterTypeOK, ControlType
<1>2. ASSUME EnsureVaultClient PROVE TypeOK'
  <2>1. cr \in Object
    BY DEF TypeOK
  <2>2. ControlType'
    BY <1>2, <2>1, StepNames, GotoType, ReturnType, AfterFinalizerType
       DEF EnsureVaultClient, DeletionSteps
  <2>3. faults' \in 0..MaxFaults /\ timer' \in BOOLEAN
    BY <1>2, FaultType, Zenon DEF EnsureVaultClient, TypeOK, ClusterTypeOK
  <2>. QED
    BY <1>2, <2>2, <2>3 DEF EnsureVaultClient, TypeOK, ClusterTypeOK, ControlType
<1>3. ASSUME ResolveSecrets PROVE TypeOK'
  <2>1. {"vaultRetry", "vaultStop", "plain"} \subseteq ErrorKinds /\ "ConnectorReady" \in CondTypes
    BY DEF ErrorKinds, CondTypes
  <2>2. /\ ControlType' /\ faults' \in 0..MaxFaults /\ conns' \in [ConnIds -> Connection]
    BY <1>3, <2>1, RefusedType, GotoOrReturnType, NextStepType, Zenon
       DEF ResolveSecrets, TypeOK, ClusterTypeOK
  <2>. QED
    BY <1>3, <2>2, AskType DEF ResolveSecrets
<1>. QED
  BY <1>1, <1>2, <1>3

(* The names of errors and conditions that the steps use.                  *)
LEMMA ErrorNames ==
  /\ {"syncing", "mismatch", "locked", "tests", "validation", "vaultRetry",
      "vaultStop", "apiRetry", "apiStop", "plain"} \subseteq ErrorKinds
  /\ {"ConnectorReady", "SetupTestReady", "SchemaReady"} \subseteq CondTypes
  /\ {"True", "False"} \subseteq CondValues
BY DEF ErrorKinds, CondTypes, CondValues

LEMMA DeletionTypes ==
  ASSUME TypeOK
  PROVE  /\ DeleteConnection => TypeOK'
         /\ RemoveFinalizer => TypeOK'
         /\ EnsureFinalizer => TypeOK'
         /\ RemoveForceLabel => TypeOK'
<1>1. cr \in Object /\ conns \in [ConnIds -> Connection] /\ timer \in BOOLEAN
  BY DEF TypeOK, ClusterTypeOK
<1>2. ASSUME DeleteConnection PROVE TypeOK'
  <2> DEFINE gone == [conns EXCEPT ![cr.id].state = "deleted"]
  <2>1. gone \in [ConnIds -> Connection]
    BY <1>1, Zenon DEF Connection
  <2>2. "removeFinalizer" \in Steps
    BY StepNames DEF DeletionSteps
  <2>3. faults \in 0..MaxFaults
    BY DEF TypeOK, ClusterTypeOK
  <2>4. CASE Accepted(gone) /\ Goto("removeFinalizer")
    BY <1>2, <2>1, <2>2, <2>3, <2>4, GotoType, AskType DEF DeleteConnection, Accepted
  <2>5. CASE FivetranWrite(gone, "ConnectorReady")
    BY <1>2, <2>1, <2>5, FivetranWriteType, ErrorNames, AskType, Zenon DEF DeleteConnection
  <2>6. CASE Fail("apiStop", "ConnectorReady") /\ UNCHANGED <<conns, faults>>
    BY <1>1, <1>2, <2>3, <2>6, FailType, ErrorNames, AskType DEF DeleteConnection
  <2>. QED
    BY <1>2, <2>4, <2>5, <2>6 DEF DeleteConnection
<1>3. ASSUME RemoveFinalizer PROVE TypeOK'
  <2>1. [cr EXCEPT !.finalizer = FALSE] \in Object
    BY <1>1, Zenon DEF Object
  <2>2. ControlType'
    BY <1>3, ReturnType, FailType, ErrorNames DEF RemoveFinalizer, UpdateThen
  <2>. QED
    BY <1>1, <1>3, <2>1, <2>2, WroteType, Zenon DEF RemoveFinalizer, UpdateThen
<1>4. ASSUME EnsureFinalizer PROVE TypeOK'
  <2>1. [cr EXCEPT !.finalizer = TRUE] \in Object
    BY <1>1, Zenon DEF Object
  <2>2. ControlType'
    BY <1>4, <2>1, AfterFinalizerType, FailType, ErrorNames DEF EnsureFinalizer, UpdateThen
  <2>. QED
    BY <1>1, <1>4, <2>1, <2>2, WroteType, Zenon DEF EnsureFinalizer, UpdateThen
<1>5. ASSUME RemoveForceLabel PROVE TypeOK'
  <2>1. [cr EXCEPT !.force = FALSE] \in Object
    BY <1>1, Zenon DEF Object
  <2>2. ControlType'
    BY <1>5, <2>1, DecideType, FailType, ErrorNames, Zenon DEF RemoveForceLabel, UpdateThen
  <2>. QED
    BY <1>1, <1>5, <2>1, <2>2, WroteType, Zenon DEF RemoveForceLabel, UpdateThen
<1>. QED
  BY <1>2, <1>3, <1>4, <1>5

LEMMA UpdateConnectionType ==
  ASSUME TypeOK, NEW next \in Steps, UpdateConnection(next), KeepsObject
  PROVE  TypeOK'
<1> DEFINE new == [conns EXCEPT ![loc.id].spec = cr.connector,
                                ![loc.id].scheduled = TRUE]
<1>1. new \in [ConnIds -> Connection]
  <2> DEFINE given == [conns EXCEPT ![loc.id].spec = cr.connector]
  <2>1. conns \in [ConnIds -> Connection] /\ cr.connector \in ConnSpecs \cup {NoSpec}
    BY DEF TypeOK, Object
  <2>2. given \in [ConnIds -> Connection]
    BY <2>1, Zenon DEF Connection
  <2> HIDE DEF given
  <2>3. [given EXCEPT ![loc.id].scheduled = TRUE] \in [ConnIds -> Connection]
    BY <2>2, Zenon DEF Connection
  <2>. QED
    BY <2>3 DEF given
<1>2. faults \in 0..MaxFaults
  BY DEF TypeOK, ClusterTypeOK
<1>3. CASE Accepted(new) /\ GotoOrReturn(next)
  BY <1>1, <1>2, <1>3, GotoOrReturnType, AskType DEF Accepted
<1>4. CASE FivetranWrite(new, "ConnectorReady")
  BY <1>1, <1>4, FivetranWriteType, ErrorNames, AskType, Zenon
<1>5. CASE NotFound("ConnectorReady")
  BY <1>5, NotFoundType, ErrorNames, AskType
<1>. QED
  BY <1>3, <1>4, <1>5 DEF UpdateConnection

LEMMA CreateType == ASSUME TypeOK, CreateConnector PROVE TypeOK'
<1>1. PICK id \in FreshIds :
        LET new == [conns EXCEPT ![id] =
                      [NewConnection("live") EXCEPT !.spec = cr.connector]]
        IN  \/ /\ Accepted(new)
               /\ pc' = "setStatusId" /\ loc' = [loc EXCEPT !.id = id]
               /\ UNCHANGED err
            \/ FivetranWrite(new, "ConnectorReady")
  BY Zenon DEF CreateConnector
<1> DEFINE new == [conns EXCEPT ![id] =
                     [NewConnection("live") EXCEPT !.spec = cr.connector]]
<1>2. id \in ConnIds
  BY DEF FreshIds, UnusedIds
<1>3. new \in [ConnIds -> Connection]
  <2>1. [NewConnection("live") EXCEPT !.spec = cr.connector] \in Connection
    BY Zenon DEF TypeOK, Object, Connection, NewConnection
  <2>. QED
    BY <2>1, Zenon DEF TypeOK
<1>4. CASE /\ Accepted(new)
           /\ pc' = "setStatusId" /\ loc' = [loc EXCEPT !.id = id]
           /\ UNCHANGED err
  <2>1. ControlType'
    BY <1>2, <1>4, StepNames DEF ControlType, TypeOK, Locals, ConnectorSteps
  <2>2. faults' \in 0..MaxFaults
    BY <1>4 DEF Accepted, TypeOK, ClusterTypeOK
  <2>. QED
    BY <1>3, <1>4, <2>1, <2>2, AskType DEF Accepted, CreateConnector
<1>5. CASE FivetranWrite(new, "ConnectorReady")
  BY <1>3, <1>5, FivetranWriteType, ErrorNames, AskType, Zenon DEF CreateConnector
<1>. QED
  BY <1>1, <1>4, <1>5

LEMMA AdoptType == ASSUME TypeOK, HandleConnectorFromAnnotation PROVE TypeOK'
<1>1. /\ cr.annId \in ConnIds \cup {NoId} /\ faults \in 0..MaxFaults
      /\ conns \in [ConnIds -> Connection]
  BY DEF TypeOK, ClusterTypeOK, Object
<1>2. KeepsObject
  BY DEF HandleConnectorFromAnnotation
<1>3. CASE /\ pc' = "setStatusId" /\ loc' = [loc EXCEPT !.id = cr.annId]
           /\ UNCHANGED <<err, faults, conns>>
  <2>1. ControlType'
    BY <1>1, <1>3, StepNames DEF ControlType, TypeOK, Locals, ConnectorSteps
  <2>. QED
    BY <1>1, <1>2, <1>3, <2>1, AskType
<1>4. CASE Fail("validation", "ConnectorReady") /\ UNCHANGED <<faults, conns>>
  BY <1>1, <1>2, <1>4, FailType, ErrorNames, AskType
<1>5. CASE Refused({"validation"}, "ConnectorReady")
  BY <1>2, <1>5, RefusedType, ErrorNames, AskType
<1>. QED
  BY <1>3, <1>4, <1>5 DEF HandleConnectorFromAnnotation

LEMMA ConnectorTypes == ASSUME TypeOK, ConnectorStep PROVE TypeOK'
<1>1. /\ cr \in Object /\ loc.id \in ConnIds \cup {NoId} /\ timer \in BOOLEAN
      /\ faults \in 0..MaxFaults /\ conns \in [ConnIds -> Connection]
  BY DEF TypeOK, ClusterTypeOK, Locals
<1>2. ConnectorSteps \subseteq Steps
  BY StepNames
<1>3. ASSUME SetStatusId PROVE TypeOK'
  <2>1. [cr EXCEPT !.id = loc.id] \in Object
    BY <1>1 DEF Object
  <2>2. ControlType'
    BY <1>2, <1>3, GotoType, FailType, ErrorNames
       DEF SetStatusId, StatusUpdateThen, SetIdErrorKind, ConnectorSteps
  <2>. QED
    BY <1>1, <1>3, <2>1, <2>2, WroteType DEF SetStatusId, StatusUpdateThen
<1>4. ASSUME SetAnnotationId PROVE TypeOK'
  <2>1. [cr EXCEPT !.annId = loc.id] \in Object
    BY <1>1 DEF Object
  <2>2. ControlType'
    BY <1>2, <1>4, GotoType, FailType, ErrorNames
       DEF SetAnnotationId, UpdateThen, SetIdErrorKind, ConnectorSteps
  <2>. QED
    BY <1>1, <1>4, <2>1, <2>2, WroteType DEF SetAnnotationId, UpdateThen
<1>5. ASSUME UpdateConnector PROVE TypeOK'
  BY <1>2, <1>5, UpdateConnectionType DEF UpdateConnector, ConnectorSteps
<1>6. ASSUME UpdateConnectorHash PROVE TypeOK'
  <2>1. [cr EXCEPT !.connHash = Md5(cr.connector)] \in Object
    BY <1>1, HashFields, Zenon
  <2>2. ControlType'
    BY <1>2, <1>6, GotoType, FailType, ErrorNames
       DEF UpdateConnectorHash, UpdateThen, ConnectorSteps
  <2>. QED
    BY <1>1, <1>6, <2>1, <2>2, WroteType DEF UpdateConnectorHash, UpdateThen
<1>7. ASSUME SetConnectorReady PROVE TypeOK'
  <2>1. setCondition(cr, "ConnectorReady", "True") \in Object
    BY <1>1, ConditionField, ErrorNames
  <2>2. ControlType'
    BY <1>2, <1>7, GotoType, FailType, ErrorNames
       DEF SetConnectorReady, StatusUpdateThen, ConnectorSteps
  <2>. QED
    BY <1>1, <1>7, <2>1, <2>2, WroteType DEF SetConnectorReady, StatusUpdateThen
<1>8. ASSUME RunSetupTests PROVE TypeOK'
  <2>1. CASE Goto("setupTestsReady") /\ UNCHANGED <<faults, conns>>
    BY <1>1, <1>2, <1>8, <2>1, GotoType, AskType DEF RunSetupTests, ConnectorSteps
  <2>2. CASE Refused({"tests", "apiRetry", "apiStop"}, "SetupTestReady")
    BY <1>8, <2>2, RefusedType, ErrorNames, AskType DEF RunSetupTests
  <2>3. CASE NotFound("SetupTestReady")
    BY <1>8, <2>3, NotFoundType, ErrorNames, AskType DEF RunSetupTests
  <2>. QED
    BY <1>8, <2>1, <2>2, <2>3 DEF RunSetupTests
<1>9. ASSUME UpdateSetupTestsCondition PROVE TypeOK'
  <2>1. setCondition(cr, "SetupTestReady", "True") \in Object
    BY <1>1, ConditionField, ErrorNames
  <2>2. ControlType'
    BY <1>9, GotoOrReturnType, NextStepType, FailType, ErrorNames
       DEF UpdateSetupTestsCondition, StatusUpdateThen
  <2>. QED
    BY <1>1, <1>9, <2>1, <2>2, WroteType DEF UpdateSetupTestsCondition, StatusUpdateThen
<1>. QED
  BY <1>3, <1>4, <1>5, <1>6, <1>7, <1>8, <1>9, CreateType, AdoptType DEF ConnectorStep

LEMMA ReadSchemaTypes ==
  ASSUME TypeOK
  PROVE  /\ ReadSchema => TypeOK'
         /\ SecondPass => TypeOK'
         /\ ApplySchema => TypeOK'
<1>1. /\ cr \in Object /\ loc \in Locals /\ err \in Errors
      /\ faults \in 0..MaxFaults /\ conns \in [ConnIds -> Connection]
  BY DEF TypeOK, ClusterTypeOK
<1>2. SchemaSteps \subseteq Steps
  BY StepNames
<1>3. ASSUME ReadSchema PROVE TypeOK'
  <2> DEFINE kinds == {"apiRetry", "apiStop"} \cup
                      (IF cr.schema \in ColumnSpecs THEN {"plain", "locked"} ELSE {})
  <2>1. kinds \in SUBSET ErrorKinds
    BY ErrorNames
  <2>2. CASE /\ \E missing \in BOOLEAN :
                    /\ missing => cr.schema \in ColumnSpecs
                    /\ loc' = [loc EXCEPT !.columnsMissing = missing]
             /\ pc' = "applySchema"
             /\ UNCHANGED <<err, faults, conns>>
    <3>1. loc' \in Locals
      BY <1>1, <2>2 DEF Locals
    <3>2. ControlType'
      BY <1>1, <1>2, <2>2, <3>1 DEF ControlType, SchemaSteps
    <3>. QED
      BY <1>1, <1>3, <2>2, <3>2, AskType DEF ReadSchema
  <2>3. CASE Refused(kinds, "SchemaReady")
    BY <1>3, <2>1, <2>3, RefusedType, ErrorNames, AskType DEF ReadSchema
  <2>4. CASE NotFound("SchemaReady")
    BY <1>3, <2>4, NotFoundType, ErrorNames, AskType DEF ReadSchema
  <2>. QED
    BY <1>3, <2>2, <2>3, <2>4 DEF ReadSchema
<1>4. ASSUME SecondPass PROVE TypeOK'
  <2>1. CASE /\ pc' = "applySchema" /\ loc' = [loc EXCEPT !.columnsMissing = FALSE]
             /\ UNCHANGED <<err, faults, conns>>
    <3>1. loc' \in Locals
      BY <1>1, <2>1, Zenon DEF Locals
    <3>2. ControlType'
      BY <1>1, <1>2, <2>1, <3>1 DEF ControlType, SchemaSteps
    <3>. QED
      BY <1>1, <1>4, <2>1, <3>2, AskType DEF SecondPass
  <2>2. CASE Refused({"apiRetry", "apiStop", "plain"}, "SchemaReady")
    BY <1>4, <2>2, RefusedType, ErrorNames, AskType DEF SecondPass
  <2>3. CASE NotFound("SchemaReady")
    BY <1>4, <2>3, NotFoundType, ErrorNames, AskType DEF SecondPass
  <2>. QED
    BY <1>4, <2>1, <2>2, <2>3 DEF SecondPass
<1>5. ASSUME ApplySchema PROVE TypeOK'
  <2> DEFINE new == [conns EXCEPT ![loc.id].schema = cr.schema]
  <2>1. new \in [ConnIds -> Connection]
    <3>1. cr.schema \in SchemaSpecs \cup {NoSchema}
      BY <1>1 DEF Object
    <3>. QED
      BY <1>1, <3>1, Zenon DEF Connection
  <2>2. CASE Accepted(new) /\ Goto("schemaHash")
    BY <1>1, <1>2, <1>5, <2>1, <2>2, GotoType, AskType
       DEF ApplySchema, Accepted, SchemaSteps
  <2>3. CASE FivetranWrite(new, "SchemaReady")
    BY <1>5, <2>1, <2>3, FivetranWriteType, ErrorNames, AskType, Zenon DEF ApplySchema
  <2>4. CASE Refused({"plain"}, "SchemaReady")
    BY <1>5, <2>4, RefusedType, ErrorNames, AskType DEF ApplySchema
  <2>5. CASE NotFound("SchemaReady")
    BY <1>5, <2>5, NotFoundType, ErrorNames, AskType DEF ApplySchema
  <2>. QED
    BY <1>5, <2>2, <2>3, <2>4, <2>5 DEF ApplySchema
<1>. QED
  BY <1>3, <1>4, <1>5

LEMMA SchemaTypes == ASSUME TypeOK, SchemaStep PROVE TypeOK'
<1>1. /\ cr \in Object /\ timer \in BOOLEAN
      /\ faults \in 0..MaxFaults /\ conns \in [ConnIds -> Connection]
  BY DEF TypeOK, ClusterTypeOK
<1>2. SchemaSteps \subseteq Steps
  BY StepNames
<1>3. setCondition(cr, "SchemaReady", "True") \in Object
  BY <1>1, ConditionField, ErrorNames
<1>4. ASSUME IsConnectorSyncing PROVE TypeOK'
  <2>1. CASE Goto("readSchema") /\ UNCHANGED <<faults, conns>>
    BY <1>1, <1>2, <1>4, <2>1, GotoType, AskType DEF IsConnectorSyncing, SchemaSteps
  <2>2. CASE Refused({"syncing", "apiRetry", "apiStop"}, "SchemaReady")
    BY <1>4, <2>2, RefusedType, ErrorNames, AskType DEF IsConnectorSyncing
  <2>3. CASE NotFound("SchemaReady")
    BY <1>4, <2>3, NotFoundType, ErrorNames, AskType DEF IsConnectorSyncing
  <2>. QED
    BY <1>4, <2>1, <2>2, <2>3 DEF IsConnectorSyncing
<1>5. ASSUME VerifySchema PROVE TypeOK'
  <2>1. CASE Goto("schemaReady") /\ UNCHANGED <<faults, conns>>
    BY <1>1, <1>2, <1>5, <2>1, GotoType, AskType DEF VerifySchema, SchemaSteps
  <2>2. CASE Refused({"mismatch", "apiRetry", "apiStop"}, "SchemaReady")
    BY <1>5, <2>2, RefusedType, ErrorNames, AskType DEF VerifySchema
  <2>3. CASE NotFound("SchemaReady")
    BY <1>5, <2>3, NotFoundType, ErrorNames, AskType DEF VerifySchema
  <2>. QED
    BY <1>5, <2>1, <2>2, <2>3 DEF VerifySchema
<1>6. ASSUME UpdateSchemaHash PROVE TypeOK'
  <2>1. [cr EXCEPT !.schemaHash = Md5(cr.schema)] \in Object
    BY <1>1, HashFields, Zenon
  <2>2. ControlType'
    BY <1>2, <1>6, GotoType, FailType, ErrorNames
       DEF UpdateSchemaHash, UpdateThen, AfterApply, SchemaSteps
  <2>. QED
    BY <1>1, <1>6, <2>1, <2>2, WroteType DEF UpdateSchemaHash, UpdateThen
<1>7. ASSUME SetSchemaReady \/ SkipSchema PROVE TypeOK'
  <2>1. ControlType'
    BY <1>7, GotoOrReturnType, NextStepType, FailType, ErrorNames
       DEF SetSchemaReady, SkipSchema, StatusUpdateThen
  <2>. QED
    BY <1>1, <1>3, <1>7, <2>1, WroteType DEF SetSchemaReady, SkipSchema, StatusUpdateThen
<1>. QED
  BY <1>4, <1>5, <1>6, <1>7, ReadSchemaTypes DEF SchemaStep

LEMMA EndTypes ==
  ASSUME TypeOK
  PROVE  /\ FinalUpdateConnector => TypeOK'
         /\ HandleError => TypeOK'
         /\ HandleSetupTestsFailed => TypeOK'
<1>1. cr \in Object /\ timer \in BOOLEAN /\ err.cond \in CondTypes
  BY DEF TypeOK, ClusterTypeOK, Errors
<1>2. /\ setCondition(cr, err.cond, "False") \in Object
      /\ setCondition(cr, "ConnectorReady", "True") \in Object
  BY <1>1, ConditionField, ErrorNames
<1>3. ASSUME FinalUpdateConnector PROVE TypeOK'
  BY <1>3, StepNames, UpdateConnectionType, AskType DEF FinalUpdateConnector
<1>4. ASSUME HandleError PROVE TypeOK'
  <2>1. ControlType' /\ timer' \in BOOLEAN
    BY <1>4, ReturnType, Zenon DEF HandleError
  <2>. QED
    BY <1>2, <1>4, <2>1, WroteType DEF HandleError
<1>5. ASSUME HandleSetupTestsFailed PROVE TypeOK'
  <2>1. ControlType' /\ timer' \in BOOLEAN
    BY <1>1, <1>5, StepNames, GotoType, ReturnType, Zenon DEF HandleSetupTestsFailed
  <2>. QED
    BY <1>2, <1>5, <2>1, WroteType DEF HandleSetupTestsFailed
<1>. QED
  BY <1>3, <1>4, <1>5

(* What users store.                                                       *)
UserObject(new) ==
    \/ /\ ~obj.live
       /\ \E c \in ConnSpecs, s \in SchemaSpecs \cup {NoSchema}, ann \in ConnIds \cup {NoId},
             allow \in BOOLEAN :
             new = [NoObject EXCEPT !.live = TRUE, !.connector = c, !.schema = s,
                                    !.annId = ann, !.allowDeletion = allow]
    \/ /\ obj.live
       /\ \/ \E c \in ConnSpecs, s \in SchemaSpecs \cup {NoSchema} :
                new = [obj EXCEPT !.connector = c, !.schema = s]
          \/ new = [obj EXCEPT !.force = TRUE]
          \/ new = [obj EXCEPT !.allowDeletion = TRUE]
          \/ new = Collected([obj EXCEPT !.deleting = TRUE])

LEMMA UserEffect ==
  ASSUME UserActs
  PROVE  \E new : UserObject(new) /\ UserWrite(new)
BY Zenon DEF UserActs, Users, UserCreates, UserEdits, UserForces, UserAllowsDeletion,
       UserDeletes, UserObject

LEMMA UserObjectType ==
  ASSUME TypeOK, NEW new, UserObject(new)
  PROVE  new \in Object
<1>1. obj \in Object
  BY DEF TypeOK, ClusterTypeOK
<1>2. ASSUME NEW c \in ConnSpecs, NEW s \in SchemaSpecs \cup {NoSchema},
             NEW ann \in ConnIds \cup {NoId}, NEW allow \in BOOLEAN
      PROVE  [NoObject EXCEPT !.live = TRUE, !.connector = c, !.schema = s,
                              !.annId = ann, !.allowDeletion = allow] \in Object
  BY NoObjectType, Zenon DEF Object
<1>3. ASSUME NEW c \in ConnSpecs, NEW s \in SchemaSpecs \cup {NoSchema}
      PROVE  [obj EXCEPT !.connector = c, !.schema = s] \in Object
  BY <1>1, Zenon DEF Object
<1>4. /\ [obj EXCEPT !.force = TRUE] \in Object
      /\ [obj EXCEPT !.allowDeletion = TRUE] \in Object
      /\ [obj EXCEPT !.deleting = TRUE] \in Object
  BY <1>1, Zenon DEF Object
<1>5. Collected([obj EXCEPT !.deleting = TRUE]) \in Object
  BY <1>4, NoObjectType DEF Collected
<1>6. CASE \E c \in ConnSpecs, s \in SchemaSpecs \cup {NoSchema}, ann \in ConnIds \cup {NoId},
              allow \in BOOLEAN :
              new = [NoObject EXCEPT !.live = TRUE, !.connector = c, !.schema = s,
                                     !.annId = ann, !.allowDeletion = allow]
  <2>1. PICK c \in ConnSpecs, s \in SchemaSpecs \cup {NoSchema}, ann \in ConnIds \cup {NoId},
             allow \in BOOLEAN :
             new = [NoObject EXCEPT !.live = TRUE, !.connector = c, !.schema = s,
                                    !.annId = ann, !.allowDeletion = allow]
    BY <1>6, Zenon
  <2>. QED
    BY <1>2, <2>1, Zenon
<1>7. CASE \E c \in ConnSpecs, s \in SchemaSpecs \cup {NoSchema} :
              new = [obj EXCEPT !.connector = c, !.schema = s]
  BY <1>3, <1>7, Zenon
<1>. QED
  BY <1>4, <1>5, <1>6, <1>7, Zenon DEF UserObject

LEMMA EnvironmentTypes ==
  ASSUME TypeOK
  PROVE  /\ UserActs => TypeOK'
         /\ Informs => TypeOK'
         /\ Requeued => TypeOK'
         /\ Restart => TypeOK'
         /\ \A id \in ConnIds : DeletedElsewhere(id) => TypeOK'
<1>1. /\ obj \in Object /\ cache \in Object /\ watch \in Seq(Object)
      /\ queued \in BOOLEAN /\ edits \in 0..MaxEdits /\ faults \in 0..MaxFaults
      /\ conns \in [ConnIds -> Connection]
  BY DEF TypeOK, ClusterTypeOK
<1>2. ASSUME UserActs PROVE TypeOK'
  <2>1. PICK new : UserObject(new) /\ UserWrite(new)
    BY <1>2, UserEffect
  <2>2. new \in Object
    BY <2>1, UserObjectType
  <2>3. Append(watch, new) \in Seq(Object)
    BY <1>1, <2>2
  <2>4. edits' \in 0..MaxEdits
    BY <1>1, <2>1, BoundsAssumption DEF UserWrite
  <2>. QED
    BY <1>2, <2>1, <2>2, <2>3, <2>4
       DEF UserWrite, Store, UserActs, controller, TypeOK, ClusterTypeOK
<1>3. ASSUME Informs PROVE TypeOK'
  <2>1. Head(watch) \in Object /\ Tail(watch) \in Seq(Object)
    BY <1>1, <1>3 DEF Informs, Deliver
  <2>2. queued' \in BOOLEAN
    BY <1>3 DEF Informs, Deliver
  <2>. QED
    BY <1>3, <2>1, <2>2 DEF Informs, Deliver, controller, TypeOK, ClusterTypeOK
<1>4. ASSUME Requeued PROVE TypeOK'
  BY <1>4, Zenon DEF Requeued, TimerFires, controller, TypeOK, ClusterTypeOK
<1>5. ASSUME Restart PROVE TypeOK'
  <2>1. obj.live \in BOOLEAN /\ <<>> \in Seq(Object)
    BY <1>1 DEF Object
  <2>2. faults' \in 0..MaxFaults
    BY <1>5, FaultType DEF Restart
  <2>3. Return
    BY <1>5 DEF Restart, Return
  <2>4. ControlType'
    BY <2>3, ReturnType
  <2>. QED
    BY <1>1, <1>5, <2>1, <2>2, <2>4, NoObjectType, Zenon
       DEF Restart, ControlType, TypeOK, ClusterTypeOK
<1>6. ASSUME NEW id \in ConnIds, DeletedElsewhere(id) PROVE TypeOK'
  <2>1. [conns EXCEPT ![id].state = "deleted"] \in [ConnIds -> Connection]
    BY <1>1 DEF Connection
  <2>2. faults' \in 0..MaxFaults
    BY <1>6, FaultType DEF DeletedElsewhere
  <2>. QED
    BY <1>6, <2>1, <2>2 DEF DeletedElsewhere, controller, TypeOK, ClusterTypeOK
<1>. QED
  BY <1>2, <1>3, <1>4, <1>5, <1>6

LEMMA InitType == Init => TypeOK
<1> SUFFICES ASSUME Init PROVE TypeOK
  OBVIOUS
<1>a. /\ watch = <<>> /\ version = "outdated" /\ edits = MaxEdits /\ faults = MaxFaults
      /\ obj = NoObject /\ cache = NoObject /\ queued \in BOOLEAN /\ timer \in BOOLEAN
  BY Zenon DEF Init, ClusterInit
<1>1. ClusterTypeOK
  BY <1>a, NoObjectType, BoundsAssumption DEF ClusterTypeOK
<1>2. \A state \in {"unused", "live"} : NewConnection(state) \in Connection
  BY DEF NewConnection, Connection
<1>3. conns \in [ConnIds -> Connection]
  BY <1>2 DEF Init
<1>4. loc \in Locals /\ err \in Errors
  BY ErrorNames DEF Init, NoLocals, Locals, NoError, Errors
<1>. QED
  BY <1>1, <1>3, <1>4, StepNames, NoObjectType DEF Init, TypeOK

LEMMA NextType == ASSUME TypeOK, [Next]_vars PROVE TypeOK'
<1>1. CASE Reconcile
  BY <1>1, StartTypes, DeletionTypes, ConnectorTypes, SchemaTypes, EndTypes DEF Reconcile
<1>2. CASE Next /\ ~Reconcile
  BY <1>2, EnvironmentTypes DEF Next
<1>3. CASE UNCHANGED vars
  BY <1>3 DEF vars, cluster, controller, TypeOK, ClusterTypeOK
<1>. QED
  BY <1>1, <1>2, <1>3

(* Every variable keeps its type: in particular the hash annotations only  *)
(* ever hold hashes, the error handed to handleError always has one of the *)
(* kinds it tells apart, and no index into the account leaves ConnIds.     *)
THEOREM TypeCorrect == Spec => []TypeOK
BY InitType, NextType, PTL DEF Spec

-----------------------------------------------------------------------------
(* The finalizer and the copies.                                           *)

Protected == obj.live /\ obj.finalizer

(* A copy from which a reconcile would go on without ensureFinalizer.      *)
Shielded(o) == o.live /\ o.finalizer /\ ~o.deleting

Protection ==
    /\ Shielded(cache) => Protected
    /\ \A i \in 1..Len(watch) : Shielded(watch[i]) => Protected
    /\ pc = "vaultClient" => cr.live /\ (Shielded(cr) => Protected)
    /\ pc = "ensureFinalizer" => cr.live
    /\ pc \in DeletionSteps => cr.deleting
    /\ pc \in {"vaultClient"} \cup DeletionSteps /\ version = "latest" =>
           watch = <<>> /\ cache = cr
    /\ pc \in GuardedSteps => cr.live /\ cr.finalizer
    /\ WorksUnderFinalizer

(* Steps at which the connection is still to be created or adopted.        *)
UntrackedSteps == {"adopt", "create", "setStatusId"}

Agreement ==
    /\ watch = <<>> => cache = obj
    /\ watch # <<>> => watch[Len(watch)] = obj
    /\ version = "latest" /\ pc \notin {"idle"} \cup ErrorSteps => cr = obj
    /\ version = "latest" /\ pc \in ErrorSteps => obj.id = NoId \/ cr.id = obj.id
    /\ pc \in UntrackedSteps => cr.id = NoId
    /\ CleanupFindsNothing

-----------------------------------------------------------------------------
(* What the steps behind ensureFinalizer do to the resource.               *)

(* A copy that such a step may write: it differs from cr in a hash, an     *)
(* annotation, a condition, the label, or in an id that cr does not have.  *)
Extends(c) ==
    /\ c \in Object
    /\ c.live = cr.live /\ c.finalizer = cr.finalizer
    /\ c.deleting = cr.deleting /\ c.allowDeletion = cr.allowDeletion
    /\ c.connector = cr.connector /\ c.schema = cr.schema
    /\ c.connHash = cr.connHash \/ (pc = "connectorHash" /\ c.connHash = Md5(cr.connector))
    /\ c.schemaHash = cr.schemaHash \/ (pc = "schemaHash" /\ c.schemaHash = Md5(cr.schema))
    /\ c.annId = cr.annId \/ (pc = "setAnnotationId" /\ c.annId = loc.id)
    /\ c.force => cr.force /\ pc # "removeForce"
    /\ c.id = cr.id \/ (pc = "setStatusId" /\ c.id = loc.id)
    /\ isConditionFalse(c, "SchemaReady") => isConditionFalse(cr, "SchemaReady")

Wrote(c) ==
    \/ Stores(Updated(c))
    \/ Stores(StatusUpdated(c)) /\ pc # "removeForce"
    \/ /\ Misses(c, Updated(c)) \/ Misses(c, StatusUpdated(c))
       /\ pc' \in ErrorSteps

Asked == UNCHANGED <<obj, watch, version, cr>>

(* The only steps that lead to an untracked one have seen no id.           *)
Advance ==
    /\ pc \in GuardedSteps
    /\ pc' \in (GuardedSteps \ {"removeForce"}) \cup {"idle"} \cup ErrorSteps
    /\ pc' \in UntrackedSteps => cr'.id = NoId
    /\ cache' = cache
    /\ \/ Asked /\ pc # "removeForce"
       \/ \E c : Extends(c) /\ Wrote(c)

LEMMA NextStepNames ==
  ASSUME NEW c, NEW l
  PROVE  /\ AfterSchema(l) \in {"finalUpdate", "idle"}
         /\ BeforeSchema(c, l) \in {"syncing", "skipSchema", "finalUpdate", "idle"}
         /\ BeforeConnector(c, l) \in {"update", "adopt", "create", "syncing",
                                       "skipSchema", "finalUpdate", "idle"}
         /\ BeforeConnector(c, l) \in UntrackedSteps => c.id = NoId
BY DEF AfterSchema, BeforeSchema, BeforeConnector, UntrackedSteps

(* The ways out of a step, as values of pc.                                *)
LEMMA Exits ==
  /\ \A step : GotoOrReturn(step) => pc' \in {step, "idle"}
  /\ \A kind, cond : Fail(kind, cond) => pc' \in ErrorSteps
  /\ \A c, forced : Decide(c, forced) => pc' \in {"resolveSecrets", "idle"}
  /\ \A kinds, cond : Refused(kinds, cond) => pc' \in ErrorSteps
  /\ \A cond : NotFound(cond) => pc' \in ErrorSteps
  /\ \A new, cond : FivetranWrite(new, cond) => pc' \in ErrorSteps
  /\ \A next : UpdateConnection(next) => pc' \in {next, "idle"} \cup ErrorSteps
<1>1. \A step : GotoOrReturn(step) => pc' \in {step, "idle"}
  BY DEF GotoOrReturn, Return, Goto
<1>2. \A kind, cond : Fail(kind, cond) => pc' \in ErrorSteps
  BY DEF Fail, ErrorSteps
<1>3. \A c, forced : Decide(c, forced) => pc' \in {"resolveSecrets", "idle"}
  BY DEF Decide, Return
<1>4. \A kinds, cond : Refused(kinds, cond) => pc' \in ErrorSteps
  BY <1>2 DEF Refused
<1>5. \A cond : NotFound(cond) => pc' \in ErrorSteps
  BY <1>2 DEF NotFound
<1>6. \A new, cond : FivetranWrite(new, cond) => pc' \in ErrorSteps
  BY <1>2 DEF FivetranWrite
<1>7. \A next : UpdateConnection(next) => pc' \in {next, "idle"} \cup ErrorSteps
  BY <1>1, <1>5, <1>6 DEF UpdateConnection
<1>. QED
  BY <1>1, <1>2, <1>3, <1>4, <1>5, <1>6, <1>7

LEMMA WriteEffect ==
  ASSUME TypeOK, NEW c \in Object,
         \/ Update(c, "ok") /\ cr' = Updated(c)
         \/ Update(c, "error") /\ cr' = c /\ pc' \in ErrorSteps
         \/ StatusUpdate(c, "ok") /\ cr' = StatusUpdated(c) /\ pc # "removeForce"
         \/ StatusUpdate(c, "error") /\ cr' = c /\ pc' \in ErrorSteps
  PROVE  Wrote(c)
<1>1. CASE Update(c, "ok") /\ cr' = Updated(c)
  BY <1>1, UpdateEffect DEF Wrote
<1>2. CASE Update(c, "error") /\ cr' = c /\ pc' \in ErrorSteps
  BY <1>2, UpdateEffect DEF Wrote
<1>3. CASE StatusUpdate(c, "ok") /\ cr' = StatusUpdated(c) /\ pc # "removeForce"
  BY <1>3, StatusUpdateEffect DEF Wrote
<1>4. CASE StatusUpdate(c, "error") /\ cr' = c /\ pc' \in ErrorSteps
  BY <1>4, StatusUpdateEffect DEF Wrote
<1>. QED
  BY <1>1, <1>2, <1>3, <1>4, Zenon

(* An update or status update of a copy that extends cr is an Advance.     *)
LEMMA WriteAdvances ==
  ASSUME TypeOK, NEW c, Extends(c), pc \in GuardedSteps,
         NEW ACTION moveOn, NEW kind, NEW cond,
         \/ UpdateThen(c, moveOn, kind, cond)
         \/ StatusUpdateThen(c, moveOn, kind, cond) /\ pc # "removeForce",
         moveOn => pc' \in (GuardedSteps \ ({"removeForce"} \cup UntrackedSteps)) \cup {"idle"}
  PROVE  Advance
<1>1. ErrorSteps \cap (UntrackedSteps \cup {"idle"}) = {} /\ "idle" \notin UntrackedSteps
  BY DEF ErrorSteps, UntrackedSteps
<1>2. /\ Wrote(c) /\ cache' = cache
      /\ pc' \in (GuardedSteps \ ({"removeForce"} \cup UntrackedSteps)) \cup {"idle"} \cup ErrorSteps
  <2>1. c \in Object
    BY DEF Extends
  <2>2. Fail(kind, cond) => pc' \in ErrorSteps
    BY Exits
  <2>3. CASE UpdateThen(c, moveOn, kind, cond)
    BY <2>1, <2>2, <2>3, WriteEffect DEF UpdateThen
  <2>4. CASE StatusUpdateThen(c, moveOn, kind, cond) /\ pc # "removeForce"
    BY <2>1, <2>2, <2>4, WriteEffect DEF StatusUpdateThen
  <2>. QED
    BY <2>3, <2>4
<1>. QED
  BY <1>1, <1>2 DEF Advance

(* So is a step that only asks Fivetran or Vault.                          *)
LEMMA AskAdvances ==
  ASSUME KeepsObject, pc \in GuardedSteps \ {"removeForce"},
         pc' \in (GuardedSteps \ {"removeForce"}) \cup {"idle"} \cup ErrorSteps,
         pc' \in UntrackedSteps => cr.id = NoId
  PROVE  Advance
BY DEF KeepsObject, Advance, Asked

LEMMA ConnectorAdvances ==
  ASSUME TypeOK, ConnectorStep, pc \in UntrackedSteps => cr.id = NoId
  PROVE  Advance
<1>1. cr \in Object /\ loc.id \in ConnIds \cup {NoId}
  BY DEF TypeOK, Locals
<1>2. /\ setCondition(cr, "ConnectorReady", "True") \in Object
      /\ setCondition(cr, "SetupTestReady", "True") \in Object
  BY <1>1, ConditionField, ErrorNames
<1> USE DEF GuardedSteps, ConnectorSteps, SchemaSteps, UntrackedSteps, ErrorSteps
<1>3. CASE CreateConnector
  BY <1>3, Exits, AskAdvances DEF CreateConnector
<1>4. CASE HandleConnectorFromAnnotation
  BY <1>4, Exits, AskAdvances DEF HandleConnectorFromAnnotation
<1>5. CASE SetStatusId
  <2>1. Extends([cr EXCEPT !.id = loc.id])
    BY <1>1, <1>5 DEF SetStatusId, Extends, Object, isConditionFalse
  <2>. QED
    BY <1>5, <2>1, WriteAdvances, Zenon DEF SetStatusId, Goto
<1>6. CASE SetAnnotationId
  <2>1. Extends([cr EXCEPT !.annId = loc.id])
    BY <1>1, <1>6 DEF SetAnnotationId, Extends, Object, isConditionFalse
  <2>. QED
    BY <1>6, <2>1, WriteAdvances, Zenon DEF SetAnnotationId, Goto
<1>7. CASE UpdateConnector
  BY <1>7, Exits, AskAdvances DEF UpdateConnector
<1>8. CASE UpdateConnectorHash
  <2>1. Extends([cr EXCEPT !.connHash = Md5(cr.connector)])
    BY <1>1, <1>8, HashFields, Zenon DEF UpdateConnectorHash, Extends, Object, isConditionFalse
  <2>. QED
    BY <1>8, <2>1, WriteAdvances, Zenon DEF UpdateConnectorHash, Goto
<1>9. CASE SetConnectorReady
  <2>1. Extends(setCondition(cr, "ConnectorReady", "True"))
    BY <1>1, <1>2, <1>9 DEF SetConnectorReady, Extends, setCondition, Object, isConditionFalse
  <2>. QED
    BY <1>9, <2>1, WriteAdvances, Zenon DEF SetConnectorReady, Goto
<1>10. CASE RunSetupTests
  BY <1>10, Exits, AskAdvances DEF RunSetupTests, Goto
<1>11. CASE UpdateSetupTestsCondition
  <2>1. Extends(setCondition(cr, "SetupTestReady", "True"))
    BY <1>1, <1>2, <1>11 DEF UpdateSetupTestsCondition, Extends, setCondition, Object, isConditionFalse
  <2>. QED
    BY <1>11, <2>1, WriteAdvances, Exits, NextStepNames DEF UpdateSetupTestsCondition
<1>. QED
  BY <1>3, <1>4, <1>5, <1>6, <1>7, <1>8, <1>9, <1>10, <1>11 DEF ConnectorStep

LEMMA SchemaAdvances == ASSUME TypeOK, SchemaStep PROVE Advance
<1>1. cr \in Object
  BY DEF TypeOK
<1>2. setCondition(cr, "SchemaReady", "True") \in Object
  BY <1>1, ConditionField, ErrorNames
<1> USE DEF GuardedSteps, ConnectorSteps, SchemaSteps, UntrackedSteps, ErrorSteps
<1>3. CASE IsConnectorSyncing
  BY <1>3, Exits, AskAdvances DEF IsConnectorSyncing, Goto
<1>4. CASE ReadSchema
  BY <1>4, Exits, AskAdvances DEF ReadSchema
<1>5. CASE ApplySchema
  BY <1>5, Exits, AskAdvances DEF ApplySchema, Goto
<1>6. CASE UpdateSchemaHash
  <2>1. Extends([cr EXCEPT !.schemaHash = Md5(cr.schema)])
    BY <1>1, <1>6, HashFields, Zenon DEF UpdateSchemaHash, Extends, Object, isConditionFalse
  <2>. QED
    BY <1>6, <2>1, WriteAdvances, Zenon DEF UpdateSchemaHash, AfterApply, Goto
<1>7. CASE SecondPass
  BY <1>7, Exits, AskAdvances DEF SecondPass
<1>8. CASE VerifySchema
  BY <1>8, Exits, AskAdvances DEF VerifySchema, Goto
<1>9. CASE SetSchemaReady \/ SkipSchema
  <2>1. Extends(setCondition(cr, "SchemaReady", "True"))
    BY <1>1, <1>2, <1>9 DEF SetSchemaReady, SkipSchema, Extends, setCondition, Object, isConditionFalse
  <2>. QED
    BY <1>9, <2>1, WriteAdvances, Exits, NextStepNames DEF SetSchemaReady, SkipSchema
<1>. QED
  BY <1>3, <1>4, <1>5, <1>6, <1>7, <1>8, <1>9 DEF SchemaStep

(* Everything the reconcile does between ensureFinalizer and handleError.  *)
GuardedStep ==
    \/ RemoveForceLabel \/ ResolveSecrets
    \/ ConnectorStep \/ SchemaStep \/ FinalUpdateConnector

LEMMA GuardedAdvances ==
  ASSUME TypeOK, GuardedStep, pc \in UntrackedSteps => cr.id = NoId
  PROVE  Advance
<1>1. CASE RemoveForceLabel
  <2>1. Extends([cr EXCEPT !.force = FALSE])
    BY <1>1, Zenon DEF Extends, TypeOK, Object, isConditionFalse
  <2>. QED
    BY <1>1, <2>1, WriteAdvances, Exits, Zenon
       DEF RemoveForceLabel, GuardedSteps, ConnectorSteps, SchemaSteps, UntrackedSteps
<1>2. CASE ResolveSecrets
  BY <1>2, Exits, NextStepNames, AskAdvances
     DEF ResolveSecrets, GuardedSteps, ConnectorSteps, SchemaSteps,
         UntrackedSteps, ErrorSteps
<1>3. CASE FinalUpdateConnector
  BY <1>3, Exits, AskAdvances
     DEF FinalUpdateConnector, GuardedSteps, ConnectorSteps, SchemaSteps,
         UntrackedSteps, ErrorSteps
<1>. QED
  BY <1>1, <1>2, <1>3, ConnectorAdvances, SchemaAdvances DEF GuardedStep

-----------------------------------------------------------------------------
(* Protection is inductive.                                                *)

(* What the two writes store, field by field.                              *)
LEMMA StoredFields ==
  ASSUME TypeOK, NEW c \in Object
  PROVE  /\ c.finalizer => /\ Updated(c).live = c.live /\ Updated(c).finalizer
                           /\ Updated(c).force = c.force /\ Updated(c).id = obj.id
         /\ ~Updated(c).live \/ Updated(c).id = obj.id
         /\ StatusUpdated(c).live = obj.live
         /\ StatusUpdated(c).finalizer = obj.finalizer
         /\ StatusUpdated(c).force = obj.force
         /\ StatusUpdated(c).id = c.id
BY DEF TypeOK, ClusterTypeOK, Updated, Collected, StatusUpdated, Object, NoObject

CopiesShielded ==
    /\ Shielded(cache) => Protected
    /\ \A i \in 1..Len(watch) : Shielded(watch[i]) => Protected

(* The copies that are on their way stay true as long as the finalizer     *)
(* stays: the one that is added is the stored object itself.               *)
LEMMA CopiesStayShielded ==
  ASSUME TypeOK, CopiesShielded, Protected => Protected', cache' = cache,
         watch' = watch \/ watch' = Append(watch, obj')
  PROVE  CopiesShielded'
<1>1. watch \in Seq(Object)
  BY DEF TypeOK, ClusterTypeOK
<1>2. (Shielded(cache) => Protected)'
  BY DEF CopiesShielded, Shielded
<1>3. \A i \in 1..Len(watch) : Shielded(watch[i]) => Protected'
  BY DEF CopiesShielded
<1>4. CASE watch' = watch
  <2>1. \A i \in 1..Len(watch') : Shielded(watch'[i]) => Protected'
    BY <1>3, <1>4
  <2>. QED
    BY <1>2, <2>1 DEF CopiesShielded, Shielded
<1>5. CASE watch' = Append(watch, obj')
  <2>1. Shielded(obj') => Protected'
    BY DEF Shielded, Protected
  <2>2. ASSUME NEW i \in 1..Len(watch'), Shielded(watch'[i]) PROVE Protected'
    <3>1. Len(watch') = Len(watch) + 1
      BY <1>1, <1>5
    <3>2. CASE i \in 1..Len(watch)
      BY <1>1, <1>3, <1>5, <2>2, <3>2
    <3>3. CASE i = Len(watch) + 1
      BY <1>1, <1>5, <2>1, <2>2, <3>3
    <3>. QED
      BY <1>1, <3>1, <3>2, <3>3
  <2>. QED
    BY <1>2, <2>2 DEF CopiesShielded, Shielded
<1>. QED
  BY <1>4, <1>5

LEMMA AnnouncedCopies ==
  ASSUME NEW stored, Announces(stored)
  PROVE  obj' = stored /\ (watch' = watch \/ watch' = Append(watch, obj'))
BY DEF Announces

(* The step names are different.                                           *)
LEMMA StepsDiffer ==
  /\ {"idle", "vaultClient", "ensureFinalizer"} \cap
         (GuardedSteps \cup DeletionSteps \cup ErrorSteps \cup UntrackedSteps) = {}
  /\ GuardedSteps \cap DeletionSteps = {}
  /\ GuardedSteps \cap ErrorSteps = {}
  /\ DeletionSteps \cap ErrorSteps = {}
  /\ UntrackedSteps \subseteq GuardedSteps
BY DEF GuardedSteps, ConnectorSteps, SchemaSteps, DeletionSteps, ErrorSteps, UntrackedSteps

LEMMA AdvanceProtects ==
  ASSUME TypeOK, Protection, Advance
  PROVE  Protection'
<1>1. Protected /\ cr.live /\ cr.finalizer
  BY DEF Protection, Advance, WorksUnderFinalizer, Protected
<1>2. Protected' /\ cr'.live /\ cr'.finalizer
  <2>1. CASE Asked
    BY <1>1, <2>1 DEF Asked, Protected
  <2>2. ASSUME NEW c, Extends(c), Wrote(c) PROVE Protected' /\ cr'.live /\ cr'.finalizer
    <3>1. c \in Object /\ c.live /\ c.finalizer
      BY <1>1, <2>2 DEF Extends
    <3>2. /\ Updated(c).live /\ Updated(c).finalizer
          /\ StatusUpdated(c).live /\ StatusUpdated(c).finalizer
      BY <1>1, <3>1, StoredFields, Zenon DEF Protected
    <3>. QED
      BY <1>1, <2>2, <3>1, <3>2 DEF Wrote, Stores, Misses, Announces, Protected
  <2>. QED
    BY <2>1, <2>2 DEF Advance
<1>3. CopiesShielded'
  <2>1. cache' = cache /\ (watch' = watch \/ watch' = Append(watch, obj'))
    BY AnnouncedCopies DEF Advance, Asked, Wrote, Stores, Misses
  <2>. QED
    BY <1>2, <2>1, CopiesStayShielded DEF Protection, CopiesShielded
<1>4. pc' \notin {"vaultClient", "ensureFinalizer"} \cup DeletionSteps
  BY StepsDiffer DEF Advance
<1>. QED
  BY <1>2, <1>3, <1>4 DEF Protection, CopiesShielded, WorksUnderFinalizer, Protected

(* Steps after which the reconcile is over or is about to call handleError *)
(* disturb only the copies on their way.                                   *)
LEMMA OverProtects ==
  ASSUME CopiesShielded', pc' \in {"idle"} \cup ErrorSteps
  PROVE  Protection'
<1>1. pc' \notin {"vaultClient", "ensureFinalizer"} \cup DeletionSteps \cup GuardedSteps
  BY StepsDiffer
<1>. QED
  BY <1>1 DEF Protection, CopiesShielded, WorksUnderFinalizer

LEMMA StartProtects ==
  ASSUME TypeOK, Protection
  PROVE  /\ GetResource => Protection'
         /\ EnsureVaultClient => Protection'
<1>1. ASSUME GetResource PROVE Protection'
  <2>1. CopiesShielded'
    BY <1>1 DEF GetResource, Protection, CopiesShielded, Shielded, Protected
  <2>2. CASE ~cache.live
    BY <1>1, <2>1, <2>2, OverProtects DEF GetResource, Return
  <2>3. CASE cache.live
    <3>1. /\ pc' = "vaultClient" /\ cr' = cache /\ cache' = cache /\ obj' = obj
          /\ version' = "latest" => watch' = <<>>
      BY <1>1, <2>3 DEF GetResource, Goto
    <3>2. pc' \notin {"ensureFinalizer"} \cup DeletionSteps \cup GuardedSteps
      BY <3>1, StepsDiffer
    <3>3. Shielded(cr') => Protected'
      BY <3>1 DEF Protection, Protected
    <3>. QED
      BY <2>1, <2>3, <3>1, <3>2, <3>3
         DEF Protection, CopiesShielded, WorksUnderFinalizer, Shielded
  <2>. QED
    BY <2>2, <2>3
<1>2. ASSUME EnsureVaultClient PROVE Protection'
  <2>1. /\ pc = "vaultClient" /\ cr' = cr /\ cache' = cache /\ watch' = watch
        /\ obj' = obj /\ version' = version
    BY <1>2 DEF EnsureVaultClient
  <2>2. CopiesShielded'
    BY <2>1 DEF Protection, CopiesShielded, Shielded, Protected
  <2>3. \/ pc' = "idle"
        \/ pc' \in DeletionSteps /\ cr.deleting
        \/ pc' = "ensureFinalizer"
        \/ pc' \in GuardedSteps /\ cr.finalizer /\ ~cr.deleting
    BY <1>2, Exits, Zenon DEF EnsureVaultClient, Goto, Return, AfterFinalizer, GuardedSteps, DeletionSteps
  <2>4. CASE pc' = "idle"
    BY <2>2, <2>4, OverProtects
  <2>5. CASE pc' \in DeletionSteps /\ cr.deleting
    BY <2>1, <2>2, <2>5, StepsDiffer DEF Protection, CopiesShielded, WorksUnderFinalizer
  <2>6. CASE pc' = "ensureFinalizer"
    BY <2>1, <2>2, <2>6, StepsDiffer DEF Protection, CopiesShielded, WorksUnderFinalizer
  <2>7. CASE pc' \in GuardedSteps /\ cr.finalizer /\ ~cr.deleting
    <3>1. cr.live /\ Protected
      BY <2>1, <2>7 DEF Protection, Shielded
    <3>. QED
      BY <2>1, <2>2, <2>7, <3>1, StepsDiffer
         DEF Protection, CopiesShielded, WorksUnderFinalizer, Protected
  <2>. QED
    BY <2>3, <2>4, <2>5, <2>6, <2>7
<1>. QED
  BY <1>1, <1>2

LEMMA DeletionProtects ==
  ASSUME TypeOK, Protection
  PROVE  /\ DeleteConnection => Protection'
         /\ RemoveFinalizer => Protection'
<1>1. ASSUME DeleteConnection PROVE Protection'
  <2>1. /\ pc \in DeletionSteps /\ pc' \in DeletionSteps \cup ErrorSteps
        /\ cr' = cr /\ cache' = cache /\ watch' = watch /\ obj' = obj /\ version' = version
    BY <1>1, Exits DEF DeleteConnection, KeepsObject, Goto, DeletionSteps
  <2>2. CopiesShielded'
    BY <2>1 DEF Protection, CopiesShielded, Shielded, Protected
  <2>. QED
    BY <2>1, <2>2, StepsDiffer DEF Protection, CopiesShielded, WorksUnderFinalizer
<1>2. ASSUME RemoveFinalizer PROVE Protection'
  <2> DEFINE c == [cr EXCEPT !.finalizer = FALSE]
  <2>1. /\ c \in Object /\ pc \in DeletionSteps /\ pc' \in {"idle"} \cup ErrorSteps
        /\ cache' = cache
    BY <1>2, Exits, Zenon DEF RemoveFinalizer, UpdateThen, TypeOK, Object, Return, DeletionSteps
  <2>2. Stores(Updated(c)) \/ Misses(c, Updated(c))
    BY <1>2, <2>1, UpdateEffect, Zenon DEF RemoveFinalizer, UpdateThen
  <2>3. CASE obj' = obj /\ watch' = watch
    BY <2>1, <2>3, OverProtects DEF Protection, CopiesShielded, Shielded, Protected
  <2>4. CASE version = "latest" /\ Announces(Updated(c))
    <3>1. watch = <<>> /\ cache = cr /\ cr.deleting
      BY <2>1, <2>4 DEF Protection
    <3>2. obj' = NoObject /\ (watch' = <<>> \/ watch' = <<NoObject>>)
      BY <2>1, <2>4, <3>1 DEF Announces, Updated, Collected, TypeOK, Object
    <3>3. ~Shielded(cache') /\ ~Shielded(NoObject)
      BY <2>1, <3>1 DEF Shielded, NoObject
    <3>4. CopiesShielded'
      BY <3>2, <3>3 DEF CopiesShielded, Shielded
    <3>. QED
      BY <2>1, <3>4, OverProtects
  <2>. QED
    BY <2>2, <2>3, <2>4 DEF Stores, Misses
<1>. QED
  BY <1>1, <1>2

LEMMA FinalizerProtects == ASSUME TypeOK, Protection, EnsureFinalizer PROVE Protection'
<1> DEFINE c == [cr EXCEPT !.finalizer = TRUE]
<1>1. /\ c \in Object /\ c.live /\ c.finalizer /\ cache' = cache
  BY Zenon DEF EnsureFinalizer, UpdateThen, Protection, TypeOK, Object
<1>2. Updated(c).live /\ Updated(c).finalizer
  BY <1>1, StoredFields, Zenon
<1>3. CASE Update(c, "ok") /\ cr' = Updated(c) /\ AfterFinalizer(c)
  <2>1. Stores(Updated(c))
    BY <1>1, <1>3, UpdateEffect, Zenon
  <2>2. pc' \in GuardedSteps \cup {"idle"}
    BY <1>3, Exits, Zenon DEF AfterFinalizer, Goto, GuardedSteps
  <2>3. Protected' /\ cr'.live /\ cr'.finalizer
    BY <1>2, <2>1 DEF Stores, Announces, Protected
  <2>4. CopiesShielded'
    BY <1>1, <2>1, <2>3, AnnouncedCopies, CopiesStayShielded
       DEF Stores, Protection, CopiesShielded
  <2>. QED
    BY <2>2, <2>3, <2>4, StepsDiffer
       DEF Protection, CopiesShielded, WorksUnderFinalizer, Protected
<1>4. CASE Update(c, "error") /\ cr' = c /\ Fail("plain", "ConnectorReady")
  <2>1. Misses(c, Updated(c))
    BY <1>1, <1>4, UpdateEffect
  <2>2. pc' \in ErrorSteps
    BY <1>4, Exits
  <2>3. /\ Protected => Protected'
        /\ watch' = watch \/ watch' = Append(watch, obj')
    BY <1>2, <2>1 DEF Misses, Announces, Protected
  <2>4. CopiesShielded'
    BY <1>1, <2>3, CopiesStayShielded DEF Protection, CopiesShielded
  <2>. QED
    BY <2>2, <2>4, OverProtects
<1>. QED
  BY <1>3, <1>4 DEF EnsureFinalizer, UpdateThen

(* handleError writes the status of a copy that has the id of cr.          *)
LEMMA ErrorEffect ==
  ASSUME TypeOK, HandleError \/ HandleSetupTestsFailed
  PROVE  /\ pc \in ErrorSteps /\ pc' \in {"idle"} \cup ErrorSteps /\ cache' = cache
         /\ \E c \in Object :
               /\ c.id = cr.id
               /\ \/ Stores(StatusUpdated(c))
                  \/ Misses(c, StatusUpdated(c)) /\ pc' = "idle"
<1>1. cr \in Object /\ err.cond \in CondTypes
  BY DEF TypeOK, Errors
<1>2. CASE HandleError
  <2> DEFINE c == setCondition(cr, err.cond, "False")
  <2>1. c \in Object /\ c.id = cr.id
    BY <1>1, ConditionField, ErrorNames DEF setCondition, Object
  <2> HIDE DEF c
  <2>2. \/ StatusUpdate(c, "ok") /\ cr' = StatusUpdated(c)
        \/ StatusUpdate(c, "error") /\ cr' = c
    BY <1>2 DEF HandleError, c
  <2>3. Stores(StatusUpdated(c)) \/ Misses(c, StatusUpdated(c))
    BY <2>1, <2>2, StatusUpdateEffect
  <2>4. pc \in ErrorSteps /\ pc' = "idle" /\ cache' = cache
    BY <1>2 DEF HandleError, Return, ErrorSteps
  <2>. QED
    BY <2>1, <2>3, <2>4
<1>3. CASE HandleSetupTestsFailed
  <2> DEFINE c == setCondition(cr, "ConnectorReady", "True")
  <2>1. c \in Object /\ c.id = cr.id
    BY <1>1, ConditionField, ErrorNames DEF setCondition, Object
  <2> HIDE DEF c
  <2>2. \/ StatusUpdate(c, "ok") /\ cr' = StatusUpdated(c) /\ pc' \in ErrorSteps
        \/ StatusUpdate(c, "error") /\ cr' = c /\ pc' = "idle"
    BY <1>3 DEF HandleSetupTestsFailed, c, Return, Goto, ErrorSteps
  <2>3. \/ Stores(StatusUpdated(c))
        \/ Misses(c, StatusUpdated(c)) /\ pc' = "idle"
    BY <2>1, <2>2, StatusUpdateEffect
  <2>4. pc \in ErrorSteps /\ pc' \in {"idle"} \cup ErrorSteps /\ cache' = cache
    BY <1>3, <2>2 DEF HandleSetupTestsFailed, ErrorSteps
  <2>. QED
    BY <2>1, <2>3, <2>4
<1>. QED
  BY <1>2, <1>3

LEMMA ErrorProtects ==
  ASSUME TypeOK, Protection, HandleError \/ HandleSetupTestsFailed
  PROVE  Protection'
<1>1. PICK c \in Object : Stores(StatusUpdated(c)) \/ Misses(c, StatusUpdated(c))
  BY ErrorEffect
<1>2. StatusUpdated(c).live = obj.live /\ StatusUpdated(c).finalizer = obj.finalizer
  BY StoredFields
<1>3. /\ Protected => Protected'
      /\ watch' = watch \/ watch' = Append(watch, obj')
  BY <1>1, <1>2 DEF Stores, Misses, Announces, Protected
<1>4. CopiesShielded'
  BY <1>3, ErrorEffect, CopiesStayShielded DEF Protection, CopiesShielded
<1>. QED
  BY <1>4, ErrorEffect, OverProtects

(* Users cannot take the finalizer's effect away.                          *)
LEMMA UsersProtect == ASSUME TypeOK, Protection, UserActs PROVE Protection'
<1>1. PICK new : UserObject(new) /\ UserWrite(new)
  BY UserEffect
<1>2. /\ obj' = new /\ watch' = Append(watch, new) /\ version' = "outdated"
      /\ cache' = cache /\ pc' = pc /\ cr' = cr
  BY <1>1 DEF UserWrite, Store, UserActs, controller
<1>3. Protected => Protected'
  BY <1>1, <1>2, Zenon DEF UserObject, Protected, Collected, TypeOK, ClusterTypeOK, Object
<1>4. CopiesShielded'
  BY <1>2, <1>3, CopiesStayShielded DEF Protection, CopiesShielded
<1>. QED
  BY <1>2, <1>3, <1>4
     DEF Protection, CopiesShielded, WorksUnderFinalizer, Protected, Shielded

LEMMA EnvironmentProtects ==
  ASSUME TypeOK, Protection
  PROVE  /\ Informs => Protection'
         /\ Requeued => Protection'
         /\ Restart => Protection'
         /\ \A id \in ConnIds : DeletedElsewhere(id) => Protection'
<1>1. ASSUME Informs PROVE Protection'
  <2>1. /\ watch # <<>> /\ watch \in Seq(Object)
        /\ cache' = Head(watch) /\ watch' = Tail(watch)
        /\ obj' = obj /\ version' = version /\ pc' = pc /\ cr' = cr
    BY <1>1 DEF Informs, Deliver, controller, TypeOK, ClusterTypeOK
  <2>2. \A i \in 1..Len(watch) : Shielded(watch[i]) => Protected
    BY DEF Protection
  <2>3. Shielded(cache') => Protected
    BY <2>1, <2>2
  <2>4. \A i \in 1..Len(watch') : watch'[i] = watch[i + 1] /\ i + 1 \in 1..Len(watch)
    BY <2>1
  <2>5. \A i \in 1..Len(watch') : Shielded(watch'[i]) => Protected
    BY <2>2, <2>4
  <2>6. CopiesShielded'
    BY <2>1, <2>3, <2>5 DEF CopiesShielded, Shielded, Protected
  <2>. QED
    BY <2>1, <2>6 DEF Protection, CopiesShielded, WorksUnderFinalizer, Protected, Shielded
<1>2. ASSUME UNCHANGED <<obj, cache, watch, version, controller>> PROVE Protection'
  BY <1>2 DEF controller, Protection, Shielded, Protected, WorksUnderFinalizer
<1>3. ASSUME Restart PROVE Protection'
  <2>1. obj' = obj /\ cache' = obj /\ watch' = <<>> /\ pc' = "idle"
    BY <1>3 DEF Restart
  <2>2. CopiesShielded'
    BY <2>1 DEF CopiesShielded, Shielded, Protected
  <2>. QED
    BY <2>1, <2>2, OverProtects
<1>. QED
  BY <1>1, <1>2, <1>3 DEF Requeued, TimerFires, DeletedElsewhere

LEMMA InitProtected == Init => Protection
BY StepsDiffer DEF Init, ClusterInit, Protection, Shielded, NoObject, WorksUnderFinalizer

-----------------------------------------------------------------------------
(* Agreement is inductive.                                                 *)

Fed ==
    /\ watch = <<>> => cache = obj
    /\ watch # <<>> => watch[Len(watch)] = obj

LEMMA StaysFed ==
  ASSUME TypeOK, Fed, cache' = cache,
         \/ watch' = Append(watch, obj')
         \/ watch' = watch /\ obj' = obj
  PROVE  Fed'
<1>1. watch \in Seq(Object)
  BY DEF TypeOK, ClusterTypeOK
<1>2. CASE watch' = Append(watch, obj')
  <2>1. watch' # <<>> /\ Len(watch') = Len(watch) + 1 /\ watch'[Len(watch) + 1] = obj'
    BY <1>1, <1>2
  <2>. QED
    BY <2>1 DEF Fed
<1>3. CASE watch' = watch /\ obj' = obj
  BY <1>3 DEF Fed
<1>. QED
  BY <1>2, <1>3

LEMMA AdvanceAgrees ==
  ASSUME TypeOK, Protection, Agreement, Advance
  PROVE  Agreement'
<1>1. pc \in GuardedSteps /\ pc \notin {"idle"} \cup ErrorSteps
  BY StepsDiffer DEF Advance
<1>2. /\ version = "latest" => cr = obj
      /\ pc # "removeForce" => ~cr.force
      /\ cr.finalizer
  BY <1>1 DEF Agreement, CleanupFindsNothing, Protection
<1>3. Fed'
  <2>1. \/ watch' = Append(watch, obj')
        \/ watch' = watch /\ obj' = obj
    BY DEF Advance, Asked, Wrote, Stores, Misses, Announces
  <2>. QED
    BY <2>1, StaysFed DEF Agreement, Fed, Advance
<1>4. CASE Asked /\ pc # "removeForce"
  BY <1>2, <1>3, <1>4 DEF Asked, Agreement, Fed, CleanupFindsNothing, Advance
<1>5. ASSUME NEW c, Extends(c), Wrote(c) PROVE Agreement'
  <2>1. /\ c \in Object /\ c.finalizer /\ ~c.force
        /\ c.id = cr.id \/ cr.id = NoId
    BY <1>2, <1>5 DEF Extends, Agreement, UntrackedSteps
  <2>2. ~Updated(c).force /\ StatusUpdated(c).force = obj.force
    BY <2>1, StoredFields
  <2>3. CASE Stores(Updated(c)) \/ (Stores(StatusUpdated(c)) /\ pc # "removeForce")
    <3>1. cr' = obj' /\ ~cr'.force
      BY <1>2, <2>2, <2>3 DEF Stores, Announces
    <3>. QED
      BY <1>3, <3>1 DEF Agreement, Fed, CleanupFindsNothing, Advance
  <2>4. CASE pc' \in ErrorSteps /\ (Misses(c, Updated(c)) \/ Misses(c, StatusUpdated(c)))
    <3>1. version' = "latest" => obj'.id = NoId \/ cr'.id = obj'.id
      BY <1>2, <2>1, <2>4 DEF Misses
    <3>. QED
      BY <1>3, <2>4, <3>1, StepsDiffer DEF Agreement, Fed, CleanupFindsNothing
  <2>. QED
    BY <1>5, <2>3, <2>4 DEF Wrote
<1>. QED
  BY <1>4, <1>5 DEF Advance

LEMMA StartAgrees ==
  ASSUME TypeOK, Agreement
  PROVE  /\ GetResource => Agreement'
         /\ EnsureVaultClient => Agreement'
         /\ DeleteConnection => Agreement'
<1>1. ASSUME GetResource PROVE Agreement'
  <2>1. /\ pc' \in {"idle", "vaultClient"} /\ cr' = cache /\ cache' = cache /\ obj' = obj
        /\ watch' = watch /\ (version' = "latest" => watch = <<>>)
    BY <1>1 DEF GetResource, Goto, Return
  <2>. QED
    BY <2>1, StepsDiffer DEF Agreement, CleanupFindsNothing
<1>2. ASSUME EnsureVaultClient PROVE Agreement'
  <2>1. /\ pc = "vaultClient" /\ cr' = cr /\ cache' = cache /\ watch' = watch
        /\ obj' = obj /\ version' = version
    BY <1>2 DEF EnsureVaultClient
  <2>2. \/ pc' \in {"idle", "ensureFinalizer", "removeForce"} \cup DeletionSteps
        \/ pc' = "resolveSecrets" /\ ~cr.force
    BY <1>2, Exits, Zenon DEF EnsureVaultClient, Goto, Return, AfterFinalizer, DeletionSteps
  <2>3. pc' \notin ErrorSteps \cup UntrackedSteps
    BY <2>2, StepsDiffer DEF ErrorSteps, UntrackedSteps
  <2>4. pc \notin {"idle"} \cup ErrorSteps
    BY <2>1, StepsDiffer
  <2>5. pc' \in GuardedSteps \ {"removeForce"} => ~cr.force
    BY <2>2, StepsDiffer
  <2>. QED
    BY <2>1, <2>3, <2>4, <2>5 DEF Agreement, CleanupFindsNothing
<1>3. ASSUME DeleteConnection PROVE Agreement'
  <2>1. /\ pc \in DeletionSteps /\ pc' \in DeletionSteps \cup ErrorSteps
        /\ cr' = cr /\ cache' = cache /\ watch' = watch /\ obj' = obj /\ version' = version
    BY <1>3, Exits DEF DeleteConnection, KeepsObject, Goto, DeletionSteps
  <2>2. version = "latest" => cr = obj
    BY <2>1, StepsDiffer DEF Agreement
  <2>3. pc' \notin GuardedSteps \cup UntrackedSteps
    BY <2>1, StepsDiffer
  <2>. QED
    BY <2>1, <2>2, <2>3 DEF Agreement, CleanupFindsNothing
<1>. QED
  BY <1>1, <1>2, <1>3

LEMMA FinalizerAgrees ==
  ASSUME TypeOK, Protection, Agreement, RemoveFinalizer \/ EnsureFinalizer
  PROVE  Agreement'
<1>1. CASE RemoveFinalizer
  <2> DEFINE c == [cr EXCEPT !.finalizer = FALSE]
  <2>1. /\ c \in Object /\ c.id = cr.id /\ pc = "removeFinalizer"
    BY <1>1, Zenon DEF RemoveFinalizer, TypeOK, Object
  <2> HIDE DEF c
  <2>2. \/ Update(c, "ok") /\ cr' = Updated(c) /\ pc' = "idle"
        \/ Update(c, "error") /\ cr' = c /\ pc' \in ErrorSteps
    BY <1>1, Exits DEF RemoveFinalizer, UpdateThen, Return, c
  <2>3. cache' = cache
    BY <1>1 DEF RemoveFinalizer, UpdateThen
  <2>4. version = "latest" => cr = obj
    BY <2>1 DEF Agreement, ErrorSteps
  <2>5. \/ Stores(Updated(c)) /\ pc' = "idle"
        \/ Misses(c, Updated(c)) /\ pc' \in ErrorSteps
    BY <2>1, <2>2, UpdateEffect
  <2>6. Fed'
    BY <2>3, <2>5, StaysFed DEF Agreement, Fed, Stores, Misses, Announces
  <2>7. pc' \in ErrorSteps /\ version' = "latest" => obj'.id = NoId \/ cr'.id = obj'.id
    BY <2>1, <2>4, <2>5, StepsDiffer DEF Misses
  <2>. QED
    BY <2>5, <2>6, <2>7, StepsDiffer DEF Agreement, Fed, CleanupFindsNothing
<1>2. CASE EnsureFinalizer
  <2> DEFINE c == [cr EXCEPT !.finalizer = TRUE]
  <2>1. /\ c \in Object /\ c.finalizer /\ c.id = cr.id /\ pc = "ensureFinalizer"
    BY <1>2, Zenon DEF EnsureFinalizer, TypeOK, Object
  <2> HIDE DEF c
  <2>2. \/ Update(c, "ok") /\ cr' = Updated(c) /\ AfterFinalizer(c)
        \/ Update(c, "error") /\ cr' = c /\ pc' \in ErrorSteps
    BY <1>2, Exits DEF EnsureFinalizer, UpdateThen, c
  <2>3. cache' = cache
    BY <1>2 DEF EnsureFinalizer, UpdateThen
  <2>4. version = "latest" => cr = obj
    BY <2>1 DEF Agreement, ErrorSteps
  <2>5. \/ Stores(Updated(c)) /\ AfterFinalizer(c)
        \/ Misses(c, Updated(c)) /\ pc' \in ErrorSteps
    BY <2>1, <2>2, UpdateEffect
  <2>6. Fed'
    BY <2>3, <2>5, StaysFed DEF Agreement, Fed, Stores, Misses, Announces
  <2>7. CASE Misses(c, Updated(c)) /\ pc' \in ErrorSteps
    <3>1. version' = "latest" => obj'.id = NoId \/ cr'.id = obj'.id
      BY <2>1, <2>4, <2>7 DEF Misses
    <3>. QED
      BY <2>6, <2>7, <3>1, StepsDiffer DEF Agreement, Fed, CleanupFindsNothing
  <2>8. CASE Stores(Updated(c)) /\ AfterFinalizer(c)
    <3>1. \/ pc' \in {"idle", "removeForce"}
          \/ pc' = "resolveSecrets" /\ ~c.force
      BY <2>8, Exits, Zenon DEF AfterFinalizer, Goto
    <3>2. cr' = obj' /\ cr'.force = c.force
      BY <2>1, <2>8, StoredFields DEF Stores, Announces
    <3>3. pc' \notin ErrorSteps \cup UntrackedSteps
      BY <3>1 DEF ErrorSteps, UntrackedSteps
    <3>4. pc' \in GuardedSteps \ {"removeForce"} => ~cr'.force
      BY <3>1, <3>2, StepsDiffer
    <3>. QED
      BY <2>6, <3>2, <3>3, <3>4 DEF Agreement, Fed, CleanupFindsNothing
  <2>. QED
    BY <2>5, <2>7, <2>8
<1>. QED
  BY <1>1, <1>2

LEMMA ErrorAgrees ==
  ASSUME TypeOK, Agreement, HandleError \/ HandleSetupTestsFailed
  PROVE  Agreement'
<1>1. PICK c \in Object :
         /\ c.id = cr.id
         /\ \/ Stores(StatusUpdated(c))
            \/ Misses(c, StatusUpdated(c)) /\ pc' = "idle"
  BY ErrorEffect
<1>2. Fed'
  BY <1>1, ErrorEffect, StaysFed DEF Agreement, Fed, Stores, Misses, Announces
<1>3. pc' \in ErrorSteps => cr' = obj'
  BY <1>1, StepsDiffer DEF Stores, Announces
<1>4. pc' \notin GuardedSteps \cup UntrackedSteps /\ pc' \in {"idle"} \cup ErrorSteps
  BY ErrorEffect, StepsDiffer
<1>. QED
  BY <1>2, <1>3, <1>4 DEF Agreement, Fed, CleanupFindsNothing

LEMMA EnvironmentAgrees ==
  ASSUME TypeOK, Agreement
  PROVE  /\ UserActs => Agreement'
         /\ Informs => Agreement'
         /\ Requeued => Agreement'
         /\ Restart => Agreement'
         /\ \A id \in ConnIds : DeletedElsewhere(id) => Agreement'
<1>1. ASSUME UserActs PROVE Agreement'
  <2>1. PICK new : UserWrite(new)
    BY <1>1, UserEffect
  <2>2. /\ watch' = Append(watch, obj') /\ version' = "outdated"
        /\ cache' = cache /\ pc' = pc /\ cr' = cr
    BY <1>1, <2>1 DEF UserWrite, Store, UserActs, controller
  <2>3. Fed'
    BY <2>2, StaysFed DEF Agreement, Fed
  <2>. QED
    BY <2>2, <2>3 DEF Agreement, Fed, CleanupFindsNothing
<1>2. ASSUME Informs PROVE Agreement'
  <2>1. /\ watch # <<>> /\ watch \in Seq(Object)
        /\ cache' = Head(watch) /\ watch' = Tail(watch)
        /\ obj' = obj /\ version' = version /\ pc' = pc /\ cr' = cr
    BY <1>2 DEF Informs, Deliver, controller, TypeOK, ClusterTypeOK
  <2>2. watch[Len(watch)] = obj
    BY <2>1 DEF Agreement
  <2>3. CASE watch' = <<>>
    <3>1. Len(watch) = 1
      <4>1. Len(Tail(watch)) = Len(watch) - 1
        BY <2>1, HeadTailProperties
      <4>2. Len(Tail(watch)) = 0
        BY <2>1, <2>3, EmptySeq, Zenon
      <4>3. Len(watch) \in Nat
        BY <2>1
      <4>. QED
        BY <4>1, <4>2, <4>3
    <3>2. cache' = obj'
      BY <2>1, <2>2, <3>1
    <3>. QED
      BY <2>1, <2>3, <3>2 DEF Agreement, CleanupFindsNothing
  <2>4. CASE watch' # <<>>
    <3>1. Len(watch') = Len(watch) - 1 /\ Len(watch') \in 1..Len(watch')
      BY <2>1, <2>4
    <3>2. watch'[Len(watch')] = watch[Len(watch') + 1]
      BY <2>1, <3>1
    <3>3. watch'[Len(watch')] = obj'
      BY <2>1, <2>2, <3>1, <3>2
    <3>. QED
      BY <2>1, <2>4, <3>3 DEF Agreement, CleanupFindsNothing
  <2>. QED
    BY <2>3, <2>4
<1>3. ASSUME UNCHANGED <<obj, cache, watch, version, controller>> PROVE Agreement'
  BY <1>3 DEF controller, Agreement, CleanupFindsNothing
<1>4. ASSUME Restart PROVE Agreement'
  <2>1. obj' = obj /\ cache' = obj /\ watch' = <<>> /\ pc' = "idle"
    BY <1>4 DEF Restart
  <2>. QED
    BY <2>1, StepsDiffer DEF Agreement, CleanupFindsNothing
<1>. QED
  BY <1>1, <1>2, <1>3, <1>4 DEF Requeued, TimerFires, DeletedElsewhere

LEMMA InitAgrees == Init => Agreement
BY StepsDiffer DEF Init, ClusterInit, Agreement, CleanupFindsNothing

-----------------------------------------------------------------------------
(* The theorems.                                                           *)

IInv == TypeOK /\ Protection /\ Agreement

LEMMA Inductive == ASSUME IInv, [Next]_vars PROVE IInv'
<1> USE DEF IInv
<1>1. TypeOK'
  BY NextType
<1>2. CASE GuardedStep
  <2>1. Advance
    BY <1>2, GuardedAdvances DEF Agreement
  <2>. QED
    BY <1>1, <2>1, AdvanceProtects, AdvanceAgrees
<1>3. CASE GetResource \/ EnsureVaultClient \/ DeleteConnection
  BY <1>1, <1>3, StartProtects, DeletionProtects, StartAgrees
<1>4. CASE RemoveFinalizer \/ EnsureFinalizer
  BY <1>1, <1>4, DeletionProtects, FinalizerProtects, FinalizerAgrees
<1>5. CASE HandleError \/ HandleSetupTestsFailed
  BY <1>1, <1>5, ErrorProtects, ErrorAgrees
<1>6. CASE UserActs \/ Informs \/ Requeued \/ Restart \/ \E id \in ConnIds : DeletedElsewhere(id)
  BY <1>1, <1>6, UsersProtect, EnvironmentProtects, EnvironmentAgrees
<1>7. CASE UNCHANGED vars
  BY <1>1, <1>7 DEF vars, cluster, controller, Protection, Shielded, Protected,
                    WorksUnderFinalizer, Agreement, CleanupFindsNothing
<1>. QED
  BY <1>2, <1>3, <1>4, <1>5, <1>6, <1>7 DEF Next, Reconcile, GuardedStep

(* The inductive invariant holds throughout: every step of Reconcile, of    *)
(* the informer, of users and of a restart keeps the types, Protection and *)
(* Agreement.                                                              *)
THEOREM Invariance == Spec => []IInv
<1>1. Init => IInv
  BY InitType, InitProtected, InitAgrees DEF IInv
<1>. QED
  BY <1>1, Inductive, PTL DEF Spec

(* While a reconcile works behind ensureFinalizer, the resource is there   *)
(* and has its finalizer: nothing the reconcile creates or changes in      *)
(* Fivetran is for a resource that is already gone.                        *)
THEOREM AlwaysUnderFinalizer == Spec => []WorksUnderFinalizer
<1>1. IInv => WorksUnderFinalizer
  BY DEF IInv, Protection
<1>. QED
  BY <1>1, Invariance, PTL

(* cleanupAnnotationsAndLabels never finds a label to remove.              *)
THEOREM CleanupIsIdle == Spec => []CleanupFindsNothing
<1>1. IInv => CleanupFindsNothing
  BY DEF IInv, Agreement
<1>. QED
  BY <1>1, Invariance, PTL

(* A write can only store an id in a status that has none.                 *)
LEMMA IdKept ==
  ASSUME IInv, [Next]_vars, obj.live, obj'.live, obj.id # NoId
  PROVE  obj'.id = obj.id
<1> USE DEF IInv
<1>1. ASSUME NEW c \in Object, version = "latest" => c.id = obj.id,
             \/ Stores(Updated(c)) \/ Misses(c, Updated(c))
             \/ Stores(StatusUpdated(c)) \/ Misses(c, StatusUpdated(c))
      PROVE  obj'.id = obj.id
  BY <1>1, StoredFields, Zenon DEF Stores, Misses, Announces
<1>2. CASE UNCHANGED obj
  BY <1>2
<1>3. CASE GuardedStep
  <2>1. Advance
    BY <1>3, GuardedAdvances DEF Agreement
  <2>2. version = "latest" => cr = obj
    BY <2>1, StepsDiffer DEF Advance, Agreement
  <2>3. ASSUME NEW c, Extends(c), Wrote(c) PROVE obj'.id = obj.id
    <3>1. version = "latest" => c.id = obj.id
      BY <2>2, <2>3 DEF Extends, Agreement, UntrackedSteps
    <3>. QED
      BY <1>1, <2>3, <3>1 DEF Extends, Wrote
  <2>. QED
    BY <1>2, <2>1, <2>3 DEF Advance, Asked
<1>4. CASE RemoveFinalizer \/ EnsureFinalizer
  <2>1. PICK d \in Object : /\ d.id = cr.id
                            /\ \/ Update(d, "ok") /\ cr' = Updated(d)
                               \/ Update(d, "error") /\ cr' = d
    <3>1. CASE RemoveFinalizer
      <4>1. [cr EXCEPT !.finalizer = FALSE] \in Object /\ [cr EXCEPT !.finalizer = FALSE].id = cr.id
        BY Zenon DEF TypeOK, Object
      <4>. QED
        BY <3>1, <4>1, Zenon DEF RemoveFinalizer, UpdateThen
    <3>2. CASE EnsureFinalizer
      <4>1. [cr EXCEPT !.finalizer = TRUE] \in Object /\ [cr EXCEPT !.finalizer = TRUE].id = cr.id
        BY Zenon DEF TypeOK, Object
      <4>. QED
        BY <3>2, <4>1, Zenon DEF EnsureFinalizer, UpdateThen
    <3>. QED
      BY <1>4, <3>1, <3>2
  <2>2. version = "latest" => cr = obj
    BY <1>4, StepsDiffer DEF RemoveFinalizer, EnsureFinalizer, Agreement, DeletionSteps
  <2>. QED
    BY <1>1, <2>1, <2>2, UpdateEffect
<1>5. CASE HandleError \/ HandleSetupTestsFailed
  <2>1. PICK c \in Object :
          /\ c.id = cr.id
          /\ Stores(StatusUpdated(c)) \/ Misses(c, StatusUpdated(c))
    BY <1>5, ErrorEffect
  <2>2. version = "latest" => cr.id = obj.id
    BY <1>5, ErrorEffect DEF Agreement
  <2>. QED
    BY <1>1, <2>1, <2>2
<1>6. CASE UserActs
  <2>1. PICK new : UserObject(new) /\ UserWrite(new)
    BY <1>6, UserEffect
  <2>2. obj' = new
    BY <2>1 DEF UserWrite, Store
  <2>3. obj \in Object
    BY DEF TypeOK, ClusterTypeOK
  <2>4. CASE \E c \in ConnSpecs, s \in SchemaSpecs \cup {NoSchema} :
               new = [obj EXCEPT !.connector = c, !.schema = s]
    BY <2>2, <2>3, <2>4 DEF Object
  <2>5. CASE \/ new = [obj EXCEPT !.force = TRUE]
             \/ new = [obj EXCEPT !.allowDeletion = TRUE]
             \/ new = Collected([obj EXCEPT !.deleting = TRUE])
    BY <2>2, <2>3, <2>5 DEF Object, Collected, NoObject
  <2>. QED
    BY <2>1, <2>4, <2>5, Zenon DEF UserObject
<1>7. CASE \/ GetResource \/ EnsureVaultClient \/ DeleteConnection
           \/ Informs \/ Requeued \/ Restart
           \/ \E id \in ConnIds : DeletedElsewhere(id)
           \/ UNCHANGED vars
  BY <1>7, Zenon DEF GetResource, EnsureVaultClient, DeleteConnection, KeepsObject, Informs,
              Deliver, Requeued, TimerFires, Restart, DeletedElsewhere, vars, cluster
<1>8. \/ GuardedStep \/ RemoveFinalizer \/ EnsureFinalizer
      \/ HandleError \/ HandleSetupTestsFailed \/ UserActs
      \/ GetResource \/ EnsureVaultClient \/ DeleteConnection
      \/ Informs \/ Requeued \/ Restart
      \/ \E id \in ConnIds : DeletedElsewhere(id)
      \/ UNCHANGED vars
  BY Zenon DEF Next, Reconcile, GuardedStep
<1>. QED
  BY <1>3, <1>4, <1>5, <1>6, <1>7, <1>8, Zenon

(* Once the status of a resource names a connection it names that one for  *)
(* the rest of the resource's life, in spite of restarts, lost answers and *)
(* reads of an old cache.                                                  *)
THEOREM IdIsStable == Spec => IdAssignedOnce
<1>1. IInv /\ [Next]_vars =>
        [obj.live /\ obj'.live /\ obj.id # NoId => obj'.id = obj.id]_vars
  BY IdKept
<1>. QED
  BY <1>1, Invariance, PTL DEF Spec, IdAssignedOnce

-----------------------------------------------------------------------------
(* No event is lost: at rest the last reconcile has read the stored spec   *)
(* and deletion mark, no force-reconcile label is left over, and a failure *)
(* was not silent.                                                         *)

(* The predicates would filter the change from one to the other, labels    *)
(* apart.                                                                  *)
Alike(o, p) == o.live = p.live /\ (o.live => SameGeneration(o, p))

(* What the last reconcile read is what the cache has, or an event is on   *)
(* its way: the key is queued, or the resource's end is to be announced.   *)
Heard ==
    \/ queued
    \/ Alike(cr, cache)
    \/ cache.live /\ \E i \in 1..Len(watch) : ~watch[i].live

(* handleError, too, has a copy with the spec and the deletion mark that   *)
(* are stored, or it cannot write.                                         *)
Kin == version = "latest" /\ pc \in ErrorSteps => Alike(cr, obj)

Labelled(o) == o.live /\ ~o.deleting /\ o.force

(* The reconcile is about to remove the label, or failed to.               *)
Serving ==
    \/ pc \in {"vaultClient", "ensureFinalizer", "removeForce"} /\ Labelled(cr)
    \/ pc \in ErrorSteps /\ Requeues(err.kind)

(* A label that the cache has is dealt with, or a reconcile will see it,   *)
(* or its removal is on its way to the cache.                              *)
Served ==
    \/ ~Labelled(cache)
    \/ queued \/ timer
    \/ Serving
    \/ \E i \in 1..Len(watch) : ~watch[i].force

Wakeups == Heard /\ Kin /\ Served

-----------------------------------------------------------------------------
LEMMA AlikeFacts ==
  /\ \A o \in Object : Alike(o, o)
  /\ \A o, p, q \in Object : Alike(o, p) /\ Alike(p, q) => Alike(o, q)
BY DEF Alike, SameGeneration, Object

(* The versions on their way stay on their way.                            *)
LEMMA WatchGrows ==
  ASSUME TypeOK, NEW new, watch' = watch \/ watch' = Append(watch, new)
  PROVE  /\ \A i \in 1..Len(watch) : i \in 1..Len(watch') /\ watch'[i] = watch[i]
         /\ watch' # watch =>
              Len(watch') \in 1..Len(watch') /\ watch'[Len(watch')] = new
<1>1. watch \in Seq(Object)
  BY DEF TypeOK, ClusterTypeOK
<1>2. CASE watch' = watch
  BY <1>2
<1>3. CASE watch' = Append(watch, new)
  <2>1. Len(watch') = Len(watch) + 1 /\ watch'[Len(watch) + 1] = new /\ Len(watch) \in Nat
    BY <1>1, <1>3
  <2>2. \A i \in 1..Len(watch) : watch'[i] = watch[i]
    BY <1>1, <1>3
  <2>. QED
    BY <2>1, <2>2
<1>. QED
  BY <1>2, <1>3

(* A step that leaves the cache and the queue alone.                       *)
LEMMA StaysHeard ==
  ASSUME TypeOK, TypeOK', Heard, cache' = cache, queued => queued', Alike(cr', cr),
         NEW new, watch' = watch \/ watch' = Append(watch, new)
  PROVE  Heard'
<1>1. cr \in Object /\ cr' \in Object /\ cache \in Object
  BY DEF TypeOK, ClusterTypeOK
<1>2. CASE queued
  BY <1>2 DEF Heard
<1>3. CASE Alike(cr, cache)
  <2>1. Alike(cr', cache')
    BY <1>1, <1>3, AlikeFacts
  <2>. QED
    BY <2>1 DEF Heard
<1>4. CASE cache.live /\ \E i \in 1..Len(watch) : ~watch[i].live
  <2>1. PICK i \in 1..Len(watch) : ~watch[i].live
    BY <1>4
  <2>2. i \in 1..Len(watch') /\ ~watch'[i].live /\ cache'.live
    BY <1>4, <2>1, WatchGrows
  <2>. QED
    BY <2>2 DEF Heard
<1>. QED
  BY <1>2, <1>3, <1>4 DEF Heard

LEMMA StaysServed ==
  ASSUME TypeOK, Served, cache' = cache, queued => queued', timer => timer',
         NEW new, watch' = watch \/ watch' = Append(watch, new),
         Serving => Served'
  PROVE  Served'
<1>1. CASE ~Labelled(cache)
  BY <1>1 DEF Served
<1>2. CASE queued \/ timer
  BY <1>2 DEF Served
<1>3. CASE \E i \in 1..Len(watch) : ~watch[i].force
  <2>1. PICK i \in 1..Len(watch) : ~watch[i].force
    BY <1>3
  <2>2. i \in 1..Len(watch') /\ ~watch'[i].force
    BY <2>1, WatchGrows
  <2>. QED
    BY <2>2 DEF Served
<1>. QED
  BY <1>1, <1>2, <1>3 DEF Served

-----------------------------------------------------------------------------
(* The steps behind ensureFinalizer.                                       *)

LEMMA GuardedQueue == ASSUME GuardedStep PROVE queued' = queued /\ timer' = timer
<1>1. CASE \/ RemoveForceLabel \/ SetStatusId \/ SetAnnotationId \/ UpdateConnectorHash
           \/ SetConnectorReady \/ UpdateSetupTestsCondition \/ UpdateSchemaHash
           \/ SetSchemaReady \/ SkipSchema
  BY <1>1, Zenon DEF RemoveForceLabel, SetStatusId, SetAnnotationId, UpdateConnectorHash,
              SetConnectorReady, UpdateSetupTestsCondition, UpdateSchemaHash,
              SetSchemaReady, SkipSchema, UpdateThen, StatusUpdateThen
<1>2. CASE \/ ResolveSecrets \/ CreateConnector \/ HandleConnectorFromAnnotation
           \/ UpdateConnector \/ RunSetupTests \/ IsConnectorSyncing \/ ReadSchema
           \/ ApplySchema \/ SecondPass \/ VerifySchema \/ FinalUpdateConnector
  BY <1>2 DEF ResolveSecrets, CreateConnector, HandleConnectorFromAnnotation,
              UpdateConnector, RunSetupTests, IsConnectorSyncing, ReadSchema,
              ApplySchema, SecondPass, VerifySchema, FinalUpdateConnector, KeepsObject
<1>. QED
  BY <1>1, <1>2, Zenon DEF GuardedStep, ConnectorStep, SchemaStep

(* The copy keeps its spec and its deletion mark.                          *)
LEMMA AdvanceAlike ==
  ASSUME TypeOK, TypeOK', Protection, Agreement, Advance
  PROVE  /\ Alike(cr', cr) /\ Kin'
         /\ watch' = watch \/ watch' = Append(watch, obj')
<1>1. cr \in Object /\ obj \in Object /\ cr' \in Object
  BY DEF TypeOK, ClusterTypeOK
<1>2. pc \in GuardedSteps /\ cr.finalizer /\ (version = "latest" => cr = obj)
  BY StepsDiffer DEF Advance, Protection, Agreement
<1>3. CASE Asked
  <2>1. cr' = cr /\ obj' = obj /\ version' = version /\ watch' = watch
    BY <1>3 DEF Asked
  <2>. QED
    BY <1>1, <1>2, <2>1, AlikeFacts DEF Kin
<1>4. ASSUME NEW c, Extends(c), Wrote(c)
      PROVE  /\ Alike(cr', cr) /\ Kin'
             /\ watch' = watch \/ watch' = Append(watch, obj')
  <2>1. c \in Object /\ c.finalizer /\ Alike(c, cr)
    BY <1>2, <1>4 DEF Extends, Alike, SameGeneration
  <2>2. Updated(c) \in Object /\ StatusUpdated(c) \in Object
    BY <2>1, StoredObjects
  <2>3. Alike(Updated(c), c) /\ Alike(StatusUpdated(c), obj)
    BY <1>1, <2>1 DEF Alike, SameGeneration, Updated, Collected, StatusUpdated, Object
  <2>4. CASE Stores(Updated(c)) \/ Stores(StatusUpdated(c))
    <3>1. version = "latest" /\ cr' = obj' /\ (cr' = Updated(c) \/ cr' = StatusUpdated(c))
      BY <2>4 DEF Stores, Announces
    <3>2. Alike(cr', cr)
      BY <1>1, <1>2, <2>1, <2>2, <2>3, <3>1, AlikeFacts
    <3>3. Kin'
      BY <1>1, <3>1, AlikeFacts DEF Kin
    <3>. QED
      BY <2>4, <3>2, <3>3 DEF Stores, Announces
  <2>5. CASE Misses(c, Updated(c)) \/ Misses(c, StatusUpdated(c))
    <3>1. /\ cr' = c /\ (version' = "latest" => version = "latest" /\ obj' = obj)
          /\ watch' = watch \/ watch' = Append(watch, obj')
      BY <2>5 DEF Misses, Announces
    <3>2. Kin'
      BY <1>2, <2>1, <3>1 DEF Kin
    <3>. QED
      BY <2>1, <3>1, <3>2
  <2>. QED
    BY <1>4, <2>4, <2>5 DEF Wrote
<1>. QED
  BY <1>3, <1>4 DEF Advance

(* removeForce puts a version without the label on its way, or the error   *)
(* brings the key back.                                                    *)
LEMMA ForceServed ==
  ASSUME TypeOK, TypeOK', Protection, Agreement, RemoveForceLabel, Labelled(cr)
  PROVE  Served'
<1> DEFINE c == [cr EXCEPT !.force = FALSE]
<1>1. cr \in Object /\ obj \in Object /\ pc = "removeForce" /\ cr.finalizer
  BY DEF TypeOK, ClusterTypeOK, RemoveForceLabel, Protection, GuardedSteps
<1>2. c \in Object /\ ~c.force /\ c.finalizer
  BY <1>1, Zenon DEF Object
<1>3. CASE Update(c, "ok") /\ cr' = Updated(c)
  <2>1. Stores(Updated(c))
    BY <1>2, <1>3, UpdateEffect, Zenon
  <2>2. obj' = Updated(c) /\ ~obj'.force /\ version = "latest"
    BY <1>2, <2>1, StoredFields, Zenon DEF Stores, Announces
  <2>3. obj.force
    BY <1>1, <2>2, StepsDiffer DEF Agreement, Labelled, GuardedSteps
  <2>4. watch' # watch /\ watch' = Append(watch, obj')
    <3>1. watch' = Append(watch, obj')
      BY <2>1, <2>2, <2>3 DEF Stores, Announces
    <3>2. watch \in Seq(Object)
      BY DEF TypeOK, ClusterTypeOK
    <3>3. Len(watch') = Len(watch) + 1 /\ Len(watch) \in Nat
      BY <3>1, <3>2
    <3>. QED
      BY <3>1, <3>3
  <2>5. Len(watch') \in 1..Len(watch') /\ ~watch'[Len(watch')].force
    BY <2>2, <2>4, WatchGrows
  <2>. QED
    BY <2>5 DEF Served
<1>4. CASE Fail("plain", "ConnectorReady")
  <2>1. pc' \in ErrorSteps /\ Requeues(err'.kind)
    BY <1>4 DEF Fail, ErrorSteps, Requeues
  <2>. QED
    BY <2>1 DEF Served, Serving
<1>. QED
  BY <1>3, <1>4, Zenon DEF RemoveForceLabel, UpdateThen

LEMMA GuardedWakes ==
  ASSUME TypeOK, TypeOK', Protection, Agreement, Wakeups, GuardedStep
  PROVE  Wakeups'
<1>1. Advance /\ queued' = queued /\ timer' = timer
  BY GuardedAdvances, GuardedQueue DEF Agreement
<1>2. /\ Alike(cr', cr) /\ Kin' /\ cache' = cache /\ pc \in GuardedSteps
      /\ watch' = watch \/ watch' = Append(watch, obj')
  BY <1>1, AdvanceAlike DEF Advance
<1>3. (queued => queued') /\ (timer => timer')
  BY <1>1, Zenon
<1>4. Heard'
  BY <1>2, <1>3, StaysHeard DEF Wakeups
<1>5. ASSUME Serving PROVE Served'
  <2>1. pc = "removeForce" /\ Labelled(cr)
    BY <1>2, <1>5, StepsDiffer DEF Serving
  <2>2. RemoveForceLabel
    BY <2>1 DEF GuardedStep, ConnectorStep, SchemaStep, ResolveSecrets, CreateConnector,
                HandleConnectorFromAnnotation, SetStatusId, SetAnnotationId,
                UpdateConnector, UpdateConnectorHash, SetConnectorReady, RunSetupTests,
                UpdateSetupTestsCondition, IsConnectorSyncing, ReadSchema, ApplySchema,
                UpdateSchemaHash, SecondPass, VerifySchema, SetSchemaReady, SkipSchema,
                FinalUpdateConnector
  <2>. QED
    BY <2>1, <2>2, ForceServed
<1>6. Served'
  BY <1>2, <1>3, <1>5, StaysServed DEF Wakeups
<1>. QED
  BY <1>2, <1>4, <1>6 DEF Wakeups

-----------------------------------------------------------------------------
(* The other steps of Reconcile.                                           *)

LEMMA StartWakes ==
  ASSUME TypeOK, TypeOK', Protection, Agreement, Wakeups,
         GetResource \/ EnsureVaultClient
  PROVE  Wakeups'
<1>1. CASE GetResource
  <2>1. /\ cr' = cache /\ cache' = cache /\ cache \in Object
        /\ cache.live => pc' = "vaultClient"
        /\ pc' \in {"vaultClient", "idle"}
    BY <1>1 DEF GetResource, Goto, Return, TypeOK, ClusterTypeOK
  <2>2. Alike(cr', cache')
    BY <2>1, AlikeFacts
  <2>3. Served'
    BY <2>1 DEF Served, Serving, Labelled
  <2>. QED
    BY <2>1, <2>2, <2>3, StepsDiffer DEF Wakeups, Heard, Kin
<1>2. CASE EnsureVaultClient
  <2>1. /\ cr' = cr /\ cache' = cache /\ watch' = watch /\ queued' = queued
        /\ pc = "vaultClient" /\ cr \in Object
    BY <1>2 DEF EnsureVaultClient, TypeOK
  <2>2. pc' \notin ErrorSteps
    BY <1>2, Zenon DEF EnsureVaultClient, Return, Goto, AfterFinalizer, Decide, ErrorSteps
  <2>3. timer => timer'
    <3>1. timer' = timer \/ timer' = TRUE
      BY <1>2 DEF EnsureVaultClient
    <3>. QED
      BY <3>1, Zenon
  <2>4. queued => queued'
    BY <2>1, Zenon
  <2>5. ASSUME Serving PROVE Served'
    <3>1. Labelled(cr)
      BY <2>1, <2>5, StepsDiffer DEF Serving
    <3>2. timer' = TRUE \/ pc' \in {"ensureFinalizer", "removeForce"}
      BY <1>2, <3>1 DEF EnsureVaultClient, Labelled, AfterFinalizer, Goto
    <3>. QED
      BY <2>1, <3>1, <3>2 DEF Served, Serving
  <2>6. Alike(cr', cr)
    BY <2>1, AlikeFacts
  <2>7. Heard' /\ Served'
    BY <2>1, <2>3, <2>4, <2>5, <2>6, StaysHeard, StaysServed DEF Wakeups
  <2>. QED
    BY <2>2, <2>7 DEF Wakeups, Kin
<1>. QED
  BY <1>1, <1>2

LEMMA DeleteWakes ==
  ASSUME TypeOK, TypeOK', Protection, Agreement, Wakeups, DeleteConnection
  PROVE  Wakeups'
<1>1. /\ cr' = cr /\ obj' = obj /\ cache' = cache /\ watch' = watch /\ version' = version
      /\ pc = "deleteConnection" /\ cr \in Object
      /\ queued' = queued /\ timer' = timer
  BY DEF DeleteConnection, KeepsObject, TypeOK
<1>2. (queued => queued') /\ (timer => timer')
  BY <1>1, Zenon
<1>3. ~Serving
  BY <1>1, StepsDiffer DEF Serving, DeletionSteps
<1>4. Alike(cr', cr) /\ Alike(cr, cr)
  BY <1>1, AlikeFacts
<1>5. Heard' /\ Served'
  BY <1>1, <1>2, <1>3, <1>4, StaysHeard, StaysServed DEF Wakeups
<1>6. Kin'
  BY <1>1, <1>4, StepsDiffer DEF Kin, Agreement, DeletionSteps
<1>. QED
  BY <1>5, <1>6 DEF Wakeups

(* Once the finalizer is gone the resource's end is on its way to the      *)
(* cache.                                                                  *)
LEMMA RemoveWakes ==
  ASSUME TypeOK, TypeOK', Protection, Agreement, Wakeups, RemoveFinalizer
  PROVE  Wakeups'
<1> DEFINE c == [cr EXCEPT !.finalizer = FALSE]
<1>1. /\ cr \in Object /\ obj \in Object /\ cache \in Object
      /\ pc = "removeFinalizer" /\ cr.deleting
      /\ cache' = cache /\ queued' = queued /\ timer' = timer
  BY DEF TypeOK, ClusterTypeOK, RemoveFinalizer, UpdateThen, Protection, DeletionSteps
<1>2. (queued => queued') /\ (timer => timer')
  BY <1>1, Zenon
<1>3. c \in Object /\ Alike(c, cr)
  <2>1. c \in Object
    BY <1>1, Zenon DEF Object
  <2>. QED
    BY <1>1, <2>1, Zenon DEF Alike, SameGeneration, Object
<1>4. ~Serving
  BY <1>1, StepsDiffer DEF Serving, DeletionSteps
<1>5. version = "latest" => cr = obj
  BY <1>1, StepsDiffer DEF Agreement, DeletionSteps
<1>6. CASE Stores(Updated(c))
  <2>1. Updated(c) = NoObject
    BY <1>1 DEF Updated, Collected, Object
  <2>2. obj' = NoObject /\ cr' = NoObject
    BY <1>6, <2>1 DEF Stores, Announces
  <2>3. /\ pc' = "idle" \/ pc' \in ErrorSteps
        /\ watch' = watch \/ watch' = Append(watch, obj')
    BY <1>6, Exits DEF RemoveFinalizer, UpdateThen, Return, Stores, Announces
  <2>4. Heard'
    <3>1. CASE queued
      BY <1>2, <3>1 DEF Heard
    <3>2. CASE ~cache.live
      BY <1>1, <2>2, <3>2, Zenon DEF Heard, Alike, NoObject, Object
    <3>3. CASE cache.live /\ \E i \in 1..Len(watch) : ~watch[i].live
      <4>1. PICK i \in 1..Len(watch) : ~watch[i].live
        BY <3>3
      <4>2. i \in 1..Len(watch') /\ ~watch'[i].live /\ cache'.live
        BY <1>1, <2>3, <3>3, <4>1, WatchGrows
      <4>. QED
        BY <4>2 DEF Heard
    <3>4. CASE cache.live /\ Alike(cr, cache)
      <4>1. obj.live /\ obj' # obj
        <5>1. cr.live /\ cr = obj
          BY <1>5, <1>6, <3>4, Zenon DEF Alike, Stores
        <5>. QED
          BY <2>2, <5>1 DEF NoObject
      <4>2. watch' = Append(watch, obj') /\ watch \in Seq(Object)
        BY <1>6, <2>2, <4>1 DEF Stores, Announces, TypeOK, ClusterTypeOK
      <4>3. Len(watch') = Len(watch) + 1 /\ Len(watch) \in Nat
        BY <4>2
      <4>4. Len(watch') \in 1..Len(watch') /\ watch'[Len(watch')] = NoObject
        BY <2>2, <2>3, <4>3, WatchGrows
      <4>5. ~watch'[Len(watch')].live /\ cache'.live
        BY <1>1, <3>4, <4>4, SMTT(30) DEF NoObject
      <4>. QED
        BY <4>4, <4>5 DEF Heard
    <3>. QED
      BY <3>1, <3>2, <3>3, <3>4 DEF Wakeups, Heard
  <2>5. Kin'
    BY <2>2, NoObjectType, AlikeFacts DEF Kin
  <2>6. Served'
    BY <1>1, <1>2, <1>4, <2>3, StaysServed DEF Wakeups
  <2>. QED
    BY <2>4, <2>5, <2>6 DEF Wakeups
<1>7. CASE Misses(c, Updated(c))
  <2>1. /\ cr' = c /\ (version' = "latest" => version = "latest" /\ obj' = obj)
        /\ watch' = watch \/ watch' = Append(watch, obj')
    BY <1>7 DEF Misses, Announces
  <2>2. Heard' /\ Served'
    BY <1>1, <1>2, <1>3, <1>4, <2>1, StaysHeard, StaysServed DEF Wakeups
  <2>3. Kin'
    BY <1>3, <1>5, <2>1 DEF Kin
  <2>. QED
    BY <2>2, <2>3 DEF Wakeups
<1>8. Stores(Updated(c)) \/ Misses(c, Updated(c))
  BY <1>3, UpdateEffect, Zenon DEF RemoveFinalizer, UpdateThen
<1>. QED
  BY <1>6, <1>7, <1>8

LEMMA FinalizerWakes ==
  ASSUME TypeOK, TypeOK', Protection, Agreement, Wakeups, EnsureFinalizer
  PROVE  Wakeups'
<1> DEFINE c == [cr EXCEPT !.finalizer = TRUE]
<1>1. /\ cr \in Object /\ obj \in Object /\ pc = "ensureFinalizer"
      /\ cache' = cache /\ queued' = queued /\ timer' = timer
  BY DEF TypeOK, ClusterTypeOK, EnsureFinalizer, UpdateThen
<1>2. (queued => queued') /\ (timer => timer')
  BY <1>1, Zenon
<1>3. c \in Object
  BY <1>1, Zenon DEF Object
<1>4. /\ c.force = cr.force /\ Alike(c, cr)
      /\ Alike(Updated(c), c) /\ Updated(c).force = c.force /\ Updated(c).deleting = c.deleting
      /\ c.live = cr.live /\ Updated(c).live = c.live /\ c.deleting = cr.deleting
  BY <1>1, <1>3 DEF Alike, SameGeneration, Updated, Collected, Object
<1>5. version = "latest" => cr = obj
  BY <1>1, StepsDiffer DEF Agreement
<1>6. Updated(c) \in Object
  BY <1>3, StoredObjects
<1>7. /\ Alike(cr', cr) /\ Kin'
      /\ watch' = watch \/ watch' = Append(watch, obj')
      /\ cr' = c \/ cr' = Updated(c)
  <2>1. CASE Stores(Updated(c))
    <3>1. cr' = Updated(c) /\ obj' = cr'
      BY <2>1 DEF Stores, Announces
    <3>2. Alike(cr', cr) /\ Alike(cr', obj')
      BY <1>1, <1>3, <1>4, <1>6, <3>1, AlikeFacts
    <3>. QED
      BY <2>1, <3>1, <3>2 DEF Kin, Stores, Announces
  <2>2. CASE Misses(c, Updated(c))
    <3>1. /\ cr' = c /\ (version' = "latest" => version = "latest" /\ obj' = obj)
          /\ watch' = watch \/ watch' = Append(watch, obj')
      BY <2>2 DEF Misses, Announces
    <3>. QED
      BY <1>4, <1>5, <3>1 DEF Kin
  <2>3. Stores(Updated(c)) \/ Misses(c, Updated(c))
    BY <1>3, UpdateEffect, Zenon DEF EnsureFinalizer, UpdateThen
  <2>. QED
    BY <2>1, <2>2, <2>3
<1>8. Heard'
  BY <1>1, <1>2, <1>7, StaysHeard DEF Wakeups
<1>9. ASSUME Serving PROVE Served'
  <2>1. Labelled(cr)
    BY <1>1, <1>9, StepsDiffer DEF Serving
  <2>2. Labelled(cr') /\ c.force
    BY <1>4, <1>7, <2>1, Zenon DEF Labelled
  <2>3. AfterFinalizer(c) \/ Fail("plain", "ConnectorReady")
    BY DEF EnsureFinalizer, UpdateThen
  <2>4. pc' = "removeForce" \/ (pc' \in ErrorSteps /\ Requeues(err'.kind))
    BY <2>2, <2>3 DEF AfterFinalizer, Goto, Fail, ErrorSteps, Requeues
  <2>. QED
    BY <2>2, <2>4 DEF Served, Serving
<1>10. Served'
  BY <1>1, <1>2, <1>7, <1>9, StaysServed DEF Wakeups
<1>. QED
  BY <1>7, <1>8, <1>10 DEF Wakeups

(* handleError keeps the error, and brings the key back when it says so.   *)
LEMMA ErrorQueue ==
  ASSUME HandleError \/ HandleSetupTestsFailed
  PROVE  /\ queued' = queued
         /\ \/ timer' = TRUE
            \/ timer' = timer /\ pc' = "handleError" /\ err' = err
            \/ timer' = (timer \/ Requeues(err.kind)) /\ pc' = "idle"
<1>1. CASE HandleError
  BY <1>1 DEF HandleError, Return
<1>2. CASE HandleSetupTestsFailed
  BY <1>2 DEF HandleSetupTestsFailed, Goto
<1>. QED
  BY <1>1, <1>2, Zenon

LEMMA ErrorAlike ==
  ASSUME TypeOK, TypeOK', Wakeups, HandleError \/ HandleSetupTestsFailed
  PROVE  /\ Alike(cr', cr) /\ Kin'
         /\ watch' = watch \/ watch' = Append(watch, obj')
<1>1. cr \in Object /\ obj \in Object
  BY DEF TypeOK, ClusterTypeOK
<1>2. PICK c \in Object :
         /\ Alike(c, cr)
         /\ \/ Stores(StatusUpdated(c))
            \/ Misses(c, StatusUpdated(c)) /\ pc' = "idle"
  <2>1. \A t, value : Alike(setCondition(cr, t, value), cr)
    BY <1>1 DEF setCondition, Alike, SameGeneration, Object
  <2>2. /\ setCondition(cr, err.cond, "False") \in Object
        /\ setCondition(cr, "ConnectorReady", "True") \in Object
    <3>1. err.cond \in CondTypes
      BY DEF TypeOK, Errors
    <3>. QED
      BY <1>1, <3>1, ConditionField, ErrorNames DEF setCondition, Object
  <2>3. CASE HandleError
    <3> DEFINE c == setCondition(cr, err.cond, "False")
    <3>1. pc' = "idle"
      BY <2>3 DEF HandleError, Return
    <3> HIDE DEF c
    <3>2. \/ StatusUpdate(c, "ok") /\ cr' = StatusUpdated(c)
          \/ StatusUpdate(c, "error") /\ cr' = c
      BY <2>3 DEF HandleError, c
    <3>3. c \in Object /\ Alike(c, cr)
      BY <2>1, <2>2 DEF c
    <3>. QED
      BY <3>1, <3>2, <3>3, StatusUpdateEffect
  <2>4. CASE HandleSetupTestsFailed
    <3> DEFINE c == setCondition(cr, "ConnectorReady", "True")
    <3> HIDE DEF c
    <3>2. \/ StatusUpdate(c, "ok") /\ cr' = StatusUpdated(c)
          \/ StatusUpdate(c, "error") /\ cr' = c /\ pc' = "idle"
      BY <2>4 DEF HandleSetupTestsFailed, c, Return
    <3>3. c \in Object /\ Alike(c, cr)
      BY <2>1, <2>2 DEF c
    <3>. QED
      BY <3>2, <3>3, StatusUpdateEffect
  <2>. QED
    BY <2>3, <2>4
<1>3. CASE Stores(StatusUpdated(c))
  <2>1. /\ version = "latest" /\ cr' = StatusUpdated(c) /\ obj' = cr'
        /\ watch' = watch \/ watch' = Append(watch, obj')
    BY <1>3 DEF Stores, Announces
  <2>2. StatusUpdated(c) \in Object /\ Alike(StatusUpdated(c), obj)
    BY <1>1, StoredObjects, Zenon DEF Alike, SameGeneration, StatusUpdated, Object
  <2>3. Alike(obj, cr)
    <3>1. pc \in ErrorSteps
      BY DEF HandleError, HandleSetupTestsFailed, ErrorSteps
    <3>. QED
      BY <1>1, <2>1, <3>1 DEF Wakeups, Kin, Alike, SameGeneration
  <2>4. Alike(cr', cr) /\ Alike(cr', obj')
    BY <1>1, <2>1, <2>2, <2>3, AlikeFacts
  <2>. QED
    BY <2>1, <2>4 DEF Kin
<1>4. CASE Misses(c, StatusUpdated(c)) /\ pc' = "idle"
  <2>1. cr' = c /\ (watch' = watch \/ watch' = Append(watch, obj'))
    BY <1>4 DEF Misses, Announces
  <2>. QED
    BY <1>2, <1>4, <2>1, StepsDiffer DEF Kin
<1>. QED
  BY <1>2, <1>3, <1>4

LEMMA ErrorWakes ==
  ASSUME TypeOK, TypeOK', Wakeups, HandleError \/ HandleSetupTestsFailed
  PROVE  Wakeups'
<1>1. /\ Alike(cr', cr) /\ Kin'
      /\ watch' = watch \/ watch' = Append(watch, obj')
      /\ cache' = cache /\ pc \in ErrorSteps
  BY ErrorAlike, ErrorEffect
<1>2. /\ queued' = queued
      /\ \/ timer' = TRUE
         \/ timer' = timer /\ pc' = "handleError" /\ err' = err
         \/ timer' = (timer \/ Requeues(err.kind)) /\ pc' = "idle"
  BY ErrorQueue, Zenon
<1>3. (queued => queued') /\ (timer => timer')
  <2>1. queued => queued'
    BY <1>2, Zenon
  <2>2. timer => timer'
    BY <1>2, Zenon
  <2>. QED
    BY <2>1, <2>2
<1>4. Heard'
  BY <1>1, <1>3, StaysHeard DEF Wakeups
<1>5. ASSUME Serving PROVE Served'
  <2>1. Requeues(err.kind)
    BY <1>1, <1>5, StepsDiffer DEF Serving, GuardedSteps
  <2>2. timer' \/ (pc' = "handleError" /\ err' = err)
    BY <1>2, <2>1, Zenon
  <2>. QED
    BY <2>1, <2>2 DEF Served, Serving, ErrorSteps
<1>6. Served'
  BY <1>1, <1>3, <1>5, StaysServed DEF Wakeups
<1>. QED
  BY <1>1, <1>4, <1>6 DEF Wakeups

-----------------------------------------------------------------------------
(* Users and the environment.                                              *)

LEMMA UsersWake ==
  ASSUME TypeOK, TypeOK', Wakeups, UserActs
  PROVE  Wakeups'
<1>1. PICK new : UserWrite(new)
  BY UserEffect
<1>2. /\ cache' = cache /\ cr' = cr /\ cr \in Object /\ version' = "outdated"
      /\ pc' = pc /\ err' = err
      /\ queued' = queued /\ timer' = timer /\ watch' = Append(watch, new)
  BY <1>1 DEF UserWrite, Store, UserActs, controller, TypeOK
<1>3. (queued => queued') /\ (timer => timer')
  BY <1>2, Zenon
<1>4. Alike(cr', cr)
  BY <1>2, AlikeFacts
<1>5. Serving => Served'
  BY <1>2 DEF Served, Serving
<1>6. Heard' /\ Served'
  BY <1>2, <1>3, <1>4, <1>5, StaysHeard, StaysServed DEF Wakeups
<1>. QED
  BY <1>2, <1>6 DEF Wakeups, Kin

(* A filtered event is one the last reconcile need not see.                *)
LEMMA InformsWakes ==
  ASSUME TypeOK, TypeOK', Wakeups, Informs
  PROVE  Wakeups'
<1> DEFINE new == Head(watch)
<1>1. /\ watch \in Seq(Object) /\ watch # <<>> /\ cache' = new /\ watch' = Tail(watch)
      /\ cr' = cr /\ obj' = obj /\ version' = version /\ pc' = pc /\ err' = err
      /\ queued' = (queued \/ PassesPredicates(cache, new)) /\ timer' = timer
  BY DEF Informs, Deliver, controller, TypeOK, ClusterTypeOK
<1>2. new = watch[1] /\ new \in Object /\ cache \in Object /\ cr \in Object
  BY <1>1 DEF TypeOK, ClusterTypeOK
<1>3. \A i \in 2..Len(watch) : i - 1 \in 1..Len(watch') /\ watch'[i - 1] = watch[i]
  BY <1>1
<1>4. (queued => queued') /\ (timer => timer')
  BY <1>1, Zenon
<1>5. PassesPredicates(cache, new) => queued'
  BY <1>1, Zenon
<1> HIDE DEF new
<1>6. CASE PassesPredicates(cache, new)
  BY <1>1, <1>5, <1>6 DEF Wakeups, Heard, Served, Kin
<1>7. CASE ~PassesPredicates(cache, new)
  <2>1. /\ cache.live = new.live /\ SameGeneration(cache, new)
        /\ ~cache.force => ~new.force
    BY <1>7 DEF PassesPredicates, LabelAdded
  <2>2. Alike(cache, new) /\ (Labelled(new) => Labelled(cache))
    BY <1>2, <2>1 DEF Alike, Labelled, SameGeneration
  <2>3. Heard'
    <3>1. CASE queued
      BY <1>4, <3>1 DEF Heard
    <3>2. CASE Alike(cr, cache)
      <4>1. Alike(cr', cache')
        BY <1>1, <1>2, <2>2, <3>2, AlikeFacts
      <4>. QED
        BY <4>1 DEF Heard
    <3>3. CASE cache.live /\ \E i \in 1..Len(watch) : ~watch[i].live
      <4>1. PICK i \in 1..Len(watch) : ~watch[i].live
        BY <3>3
      <4>2. new.live
        BY <2>1, <3>3, Zenon
      <4>3. i \in 2..Len(watch)
        BY <1>1, <1>2, <4>1, <4>2
      <4>4. i - 1 \in 1..Len(watch') /\ ~watch'[i - 1].live /\ cache'.live
        BY <1>1, <1>3, <4>1, <4>2, <4>3
      <4>. QED
        BY <4>4 DEF Heard
    <3>. QED
      BY <3>1, <3>2, <3>3 DEF Wakeups, Heard
  <2>4. Served'
    <3>1. CASE ~Labelled(new)
      BY <1>1, <3>1 DEF Served
    <3>2. CASE queued \/ timer
      BY <1>4, <3>2 DEF Served
    <3>3. CASE Serving
      BY <1>1, <3>3 DEF Served, Serving
    <3>4. CASE Labelled(new) /\ \E i \in 1..Len(watch) : ~watch[i].force
      <4>1. PICK i \in 1..Len(watch) : ~watch[i].force
        BY <3>4
      <4>2. i \in 2..Len(watch)
        BY <1>1, <1>2, <3>4, <4>1 DEF Labelled
      <4>3. i - 1 \in 1..Len(watch') /\ ~watch'[i - 1].force
        BY <1>3, <4>1, <4>2
      <4>. QED
        BY <4>3 DEF Served
    <3>. QED
      BY <2>2, <3>1, <3>2, <3>3, <3>4 DEF Wakeups, Served
  <2>5. Kin'
    BY <1>1 DEF Wakeups, Kin
  <2>. QED
    BY <2>3, <2>4, <2>5 DEF Wakeups
<1>. QED
  BY <1>6, <1>7

LEMMA EnvironmentWakes ==
  ASSUME TypeOK, TypeOK', Wakeups,
         Requeued \/ Restart \/ (\E id \in ConnIds : DeletedElsewhere(id)) \/ UNCHANGED vars
  PROVE  Wakeups'
<1>1. CASE Requeued
  <2>1. queued' /\ pc' = pc /\ cr' = cr /\ obj' = obj /\ version' = version
    BY <1>1 DEF Requeued, TimerFires, controller
  <2>. QED
    BY <2>1 DEF Wakeups, Heard, Served, Kin
<1>2. CASE Restart
  <2>1. /\ cr' = NoObject /\ cache' = obj /\ obj \in Object /\ pc' = "idle"
        /\ queued' = obj.live
    BY <1>2 DEF Restart, TypeOK, ClusterTypeOK
  <2>2. CASE obj.live
    <3>1. queued'
      BY <2>1, <2>2, Zenon
    <3>. QED
      BY <2>1, <3>1, StepsDiffer DEF Wakeups, Heard, Served, Kin
  <2>3. CASE ~obj.live
    <3>1. Alike(cr', cache') /\ ~Labelled(cache')
      BY <2>1, <2>3, Zenon DEF Alike, Labelled, NoObject, Object
    <3>. QED
      BY <2>1, <3>1, StepsDiffer DEF Wakeups, Heard, Served, Kin
  <2>. QED
    BY <2>2, <2>3
<1>3. CASE (\E id \in ConnIds : DeletedElsewhere(id)) \/ UNCHANGED vars
  <2>1. UNCHANGED <<obj, cache, watch, queued, timer, version, pc, cr, err>>
    BY <1>3 DEF DeletedElsewhere, controller, vars, cluster
  <2>2. /\ obj' = obj /\ cache' = cache /\ watch' = watch /\ version' = version
        /\ pc' = pc /\ cr' = cr /\ err' = err /\ cr \in Object
        /\ queued' = queued /\ timer' = timer
    BY <2>1 DEF TypeOK
  <2>3. (queued => queued') /\ (timer => timer')
    BY <2>2, Zenon
  <2>4. Alike(cr', cr)
    BY <2>2, AlikeFacts
  <2>5. Serving => Served'
    BY <2>2 DEF Served, Serving
  <2>6. Heard' /\ Served'
    BY <2>2, <2>3, <2>4, <2>5, StaysHeard, StaysServed DEF Wakeups
  <2>. QED
    BY <2>2, <2>6 DEF Wakeups, Kin
<1>. QED
  BY <1>1, <1>2, <1>3, Zenon

-----------------------------------------------------------------------------
(* The theorems.                                                           *)

LEMMA InitWakes == Init => Wakeups
<1> SUFFICES ASSUME Init PROVE Wakeups
  OBVIOUS
<1>1. pc = "idle" /\ cr = NoObject /\ cache = NoObject
  BY DEF Init, ClusterInit
<1>2. Alike(cr, cache) /\ ~Labelled(cache)
  BY <1>1 DEF Alike, Labelled, SameGeneration, NoObject
<1>. QED
  BY <1>1, <1>2, StepsDiffer, Zenon DEF Wakeups, Heard, Kin, Served

LEMMA Wakes == ASSUME IInv, Wakeups, [Next]_vars PROVE Wakeups'
<1>1. TypeOK /\ Protection /\ Agreement /\ TypeOK'
  BY NextType DEF IInv
<1>2. CASE GuardedStep
  BY <1>1, <1>2, GuardedWakes
<1>3. CASE GetResource \/ EnsureVaultClient
  BY <1>1, <1>3, StartWakes
<1>4. CASE DeleteConnection \/ RemoveFinalizer
  BY <1>1, <1>4, DeleteWakes, RemoveWakes
<1>5. CASE EnsureFinalizer
  BY <1>1, <1>5, FinalizerWakes
<1>6. CASE HandleError \/ HandleSetupTestsFailed
  BY <1>1, <1>6, ErrorWakes
<1>7. CASE UserActs \/ Informs
  BY <1>1, <1>7, UsersWake, InformsWakes
<1>8. CASE Requeued \/ Restart \/ (\E id \in ConnIds : DeletedElsewhere(id)) \/ UNCHANGED vars
  BY <1>1, <1>8, EnvironmentWakes
<1>. QED
  BY <1>2, <1>3, <1>4, <1>5, <1>6, <1>7, <1>8, Zenon DEF Next, Reconcile, GuardedStep

(* What the predicates let through and what the workqueue hands out is     *)
(* enough, whatever reconciles write meanwhile.                            *)
THEOREM WakeupsHold == Spec => [](IInv /\ Wakeups)
<1>1. Init => IInv /\ Wakeups
  BY InitType, InitProtected, InitAgrees, InitWakes DEF IInv
<1>2. IInv /\ Wakeups /\ [Next]_vars => (IInv /\ Wakeups)'
  BY Inductive, Wakes
<1>. QED
  BY <1>1, <1>2, PTL DEF Spec

(* At rest the last reconcile has read the spec and the deletion mark that *)
(* are stored, in spite of GenerationChangedPredicate and old caches.      *)
THEOREM NothingIsMissed == Spec => []NoLostWakeup
<1>1. IInv /\ Wakeups => NoLostWakeup
  <2> SUFFICES ASSUME IInv, Wakeups, Quiescent, obj.live
               PROVE  cr.live /\ SameGeneration(cr, obj)
    BY DEF NoLostWakeup
  <2>1. ~queued /\ watch = <<>> /\ cache = obj
    BY DEF Quiescent, NothingPending, IInv, Agreement
  <2>2. Alike(cr, obj)
    BY <2>1 DEF Wakeups, Heard
  <2>3. cr.live
    BY <2>2, Zenon DEF Alike
  <2>. QED
    BY <2>2, <2>3 DEF Alike
<1>. QED
  BY <1>1, WakeupsHold, PTL

(* At rest no force-reconcile label is left on a resource that stays.      *)
THEOREM NoLabelIsLeft == Spec => []ForceLabelServed
<1>1. IInv /\ Wakeups => ForceLabelServed
  <2> SUFFICES ASSUME IInv, Wakeups, Quiescent PROVE ~Labelled(obj)
    BY DEF ForceLabelServed, Labelled
  <2>1. ~queued /\ ~timer /\ watch = <<>> /\ cache = obj /\ pc = "idle"
    BY DEF Quiescent, NothingPending, IInv, Agreement
  <2>. QED
    BY <2>1, StepsDiffer DEF Wakeups, Served, Serving
<1>. QED
  BY <1>1, WakeupsHold, PTL

(* A reconcile that ends in handleError comes back, or its condition tells.*)
THEOREM FailuresShow == Spec => NoSilentFailure
<1>1. ASSUME IInv, [Next]_vars, pc \in ErrorSteps, pc' = "idle"
      PROVE  timer' \/ queued' \/ ~obj'.live \/ hasFailedConditions(obj')
  <2> USE DEF IInv
  <2>1. CASE HandleError
    <3> DEFINE c == setCondition(cr, err.cond, "False")
    <3>1. cr \in Object /\ err.cond \in CondTypes /\ TypeOK
      BY <1>1 DEF TypeOK, Errors
    <3>2. c \in Object /\ c.cond[err.cond] = "False"
      BY <3>1, ConditionField, ErrorNames DEF setCondition, Object
    <3>3. CASE timer' = TRUE
      BY <3>3
    <3>4. CASE StatusUpdate(c, "ok") /\ cr' = StatusUpdated(c)
      <4>1. obj' = StatusUpdated(c)
        BY <3>1, <3>2, <3>4, StatusUpdateEffect DEF Stores, Announces
      <4>2. obj'.cond = c.cond
        BY <3>1, <4>1 DEF StatusUpdated, TypeOK, ClusterTypeOK, Object
      <4>. QED
        BY <3>1, <3>2, <4>2 DEF hasFailedConditions, isConditionFalse
    <3>. QED
      BY <2>1, <3>3, <3>4 DEF HandleError
  <2>2. CASE HandleSetupTestsFailed
    <3>1. timer' = TRUE
      BY <1>1, <2>2 DEF HandleSetupTestsFailed, Goto
    <3>. QED
      BY <3>1
  <2>3. CASE Restart
    <3>1. obj' = obj /\ queued' = obj.live
      BY <2>3 DEF Restart
    <3>. QED
      BY <3>1, Zenon
  <2>4. CASE ~HandleError /\ ~HandleSetupTestsFailed /\ ~Restart
    <3>1. pc # "idle" /\ pc \notin GuardedSteps
      BY <1>1, StepsDiffer
    <3>2. ~GuardedStep
      <4>1. GuardedStep => Advance
        BY <1>1, GuardedAdvances DEF Agreement
      <4>. QED
        BY <3>1, <4>1 DEF Advance
    <3>3. ~(\/ GetResource \/ EnsureVaultClient \/ EnsureFinalizer
            \/ DeleteConnection \/ RemoveFinalizer)
      BY <1>1, StepsDiffer
         DEF GetResource, EnsureVaultClient, EnsureFinalizer, DeleteConnection,
             RemoveFinalizer, DeletionSteps
    <3>4. ~(\/ Informs \/ Requeued \/ UserActs \/ UNCHANGED vars
            \/ \E id \in ConnIds : DeletedElsewhere(id))
      BY <1>1, <3>1 DEF Informs, Requeued, UserActs, DeletedElsewhere, controller, vars
    <3>. QED
      BY <1>1, <2>4, <3>2, <3>3, <3>4, Zenon DEF Next, Reconcile, GuardedStep
  <2>. QED
    BY <2>1, <2>2, <2>3, <2>4
<1>2. IInv /\ [Next]_vars =>
        [(pc \in ErrorSteps) /\ pc' = "idle" =>
           \/ timer' \/ queued' \/ ~obj'.live
           \/ hasFailedConditions(obj)']_vars
  BY <1>1 DEF hasFailedConditions, isConditionFalse
<1>. QED
  BY <1>2, Invariance, PTL DEF Spec, NoSilentFailure

=============================================================================
