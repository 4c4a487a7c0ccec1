------------------------- MODULE FivetranConnector -------------------------
(***************************************************************************)
(* The FivetranConnector custom resource as the controller sees it, and    *)
(* the pure decisions the controller takes on one copy of it: the hashes,  *)
(* the failed-condition tests, what has to be reconciled, and which errors *)
(* come back by themselves.                                                *)
(*                                                                         *)
(* A resource is a record.  Its metadata and spec fields are written with  *)
(* Update, its status fields (id, cond) with Status().Update.              *)
(***************************************************************************)
CONSTANTS
    ConnSpecs,     \* values of spec.connector
    SchemaSpecs,   \* values of spec.connectorSchemas for which hasSchemaConfig
    SkipTests,     \* the ConnSpecs with run_setup_tests: false
    Unvalidated,   \* the SchemaSpecs with validation_level: NONE
    ColumnSpecs,   \* the SchemaSpecs that list columns (NeedsColumnSecondPass)
    ConnIds,       \* identifiers of Fivetran connections
    NoSpec,        \* no connector configuration
    NoSchema,      \* spec.connectorSchemas absent or empty
    NoId,          \* the empty connector id
    NoHash         \* no hash annotation

ASSUME ConstantsAssumption ==
    /\ SkipTests \subseteq ConnSpecs
    /\ Unvalidated \subseteq SchemaSpecs
    /\ ColumnSpecs \subseteq SchemaSpecs
    /\ NoSpec \notin ConnSpecs
    /\ NoSchema \notin SchemaSpecs
    /\ NoId \notin ConnIds

(* The three conditions of status.conditions; "Unset" when not listed.     *)
CondTypes == {"ConnectorReady", "SetupTestReady", "SchemaReady"}
CondValues == {"Unset", "True", "False"}

(* The digest stored in a hash annotation.  It tells two specs apart and   *)
(* gives nothing else away; md5 collisions are left out.                   *)
Md5(value) == [md5 |-> value]

Hashes(specs) == {Md5(value) : value \in specs} \cup {NoHash}

(* What is stored in etcd for one FivetranConnector.  live is FALSE when   *)
(* there is no such object.                                                *)
Object ==
    [live          : BOOLEAN,
     deleting      : BOOLEAN,                  \* metadata.deletionTimestamp
     finalizer     : BOOLEAN,                  \* fivetranFinalizer present
     force         : BOOLEAN,                  \* force-reconcile label present
     allowDeletion : BOOLEAN,                  \* allow-deletion annotation "true"
     annId         : ConnIds \cup {NoId},      \* connector-id annotation
     connHash      : Hashes(ConnSpecs \cup {NoSpec}),     \* connector-hash annotation
     schemaHash    : Hashes(SchemaSpecs \cup {NoSchema}), \* schema-hash annotation
     connector     : ConnSpecs \cup {NoSpec},  \* spec.connector
     schema        : SchemaSpecs \cup {NoSchema}, \* spec.connectorSchemas
     id            : ConnIds \cup {NoId},      \* status.connectorId
     cond          : [CondTypes -> CondValues]]

NoObject ==
    [live |-> FALSE, deleting |-> FALSE, finalizer |-> FALSE, force |-> FALSE,
     allowDeletion |-> FALSE, annId |-> NoId, connHash |-> NoHash,
     schemaHash |-> NoHash, connector |-> NoSpec, schema |-> NoSchema,
     id |-> NoId, cond |-> [t \in CondTypes |-> "Unset"]]

-----------------------------------------------------------------------------
(* Decisions on one copy c of the resource.                                *)

hasSchemaConfig(c) == c.schema # NoSchema

isConditionFalse(c, t) == c.cond[t] = "False"

hasFailedConditions(c) == \E t \in CondTypes : isConditionFalse(c, t)

(* Variant: only a missing id counts as a change.                          *)
hasConnectorHashChanged_IdOnly(c) == c.id = NoId

hasConnectorHashChanged(c) == c.id = NoId \/ c.connHash # Md5(c.connector)

hasSchemaHashChanged(c) ==
    /\ hasSchemaConfig(c)
    /\ c.id = NoId \/ c.schemaHash # Md5(c.schema)

(* Variant: the two results are swapped after a failure.                   *)
determineReconciliationNeeds_Swapped(c, forced) ==
    IF forced
    THEN [connector |-> TRUE, schema |-> hasSchemaConfig(c)]
    ELSE IF hasFailedConditions(c)
    THEN [connector |-> isConditionFalse(c, "SchemaReady"),
          schema    |-> \/ isConditionFalse(c, "ConnectorReady")
                        \/ isConditionFalse(c, "SetupTestReady")]
    ELSE [connector |-> hasConnectorHashChanged(c),
          schema    |-> hasSchemaHashChanged(c)]

(* What has to be reconciled: everything when forced, only the parts whose *)
(* condition is False after a failure, and otherwise what changed.         *)
determineReconciliationNeeds(c, forced) ==
    IF forced
    THEN [connector |-> TRUE, schema |-> hasSchemaConfig(c)]
    ELSE IF hasFailedConditions(c)
    THEN [connector |-> \/ isConditionFalse(c, "ConnectorReady")
                        \/ isConditionFalse(c, "SetupTestReady"),
          schema    |-> isConditionFalse(c, "SchemaReady")]
    ELSE [connector |-> hasConnectorHashChanged(c),
          schema    |-> hasSchemaHashChanged(c)]

-----------------------------------------------------------------------------
(* The errors handleError tells apart.                                     *)
ErrorKinds ==
    {"syncing", "mismatch", "locked", "tests", "validation",
     "vaultRetry", "vaultStop", "apiRetry", "apiStop", "plain"}

(* Does handleError make the workqueue come back?  RequeueAfter for a      *)
(* syncing connector and for retryable Vault and Fivetran errors, the      *)
(* error itself in the default branch, nothing otherwise.                  *)
Requeues(kind) == kind \in {"syncing", "vaultRetry", "apiRetry", "plain"}

setCondition(c, t, value) == [c EXCEPT !.cond[t] = value]
=============================================================================
