-------------------------- MODULE RefinementProofs --------------------------
(***************************************************************************)
(* What follows from Tracking, for every account, every set of             *)
(* specifications and every bound: Reconciler implements                   *)
(* ManagedConnection, and what the annotations record is true.             *)
(*                                                                         *)
(* Initial states map to initial states; a step maps to the abstract step  *)
(* that changes the same part of what is seen, and a failure that nobody   *)
(* sees to Trouble.                                                        *)
(***************************************************************************)
EXTENDS ReconcilerTracking

(* What ManagedConnection sees, apart from the failures left.              *)
Seen == <<Phase, obj.id, obj.allowDeletion, conns>>

(* A step that ManagedConnection knows, or that changes nothing it sees.   *)
Known ==
    \/ UNCHANGED Seen
    \/ Life!Submit \/ Life!Allow \/ Life!RequestDeletion \/ Life!Withdraw
    \/ \E id \in ConnIds : Life!Vanish(id) \/ Life!Create(id) \/ Life!Track(id)
    \/ Life!Configure \/ Life!Remove \/ Life!Finish

(* The phase of the resource, its permission and the account stay.         *)
Kept ==
    /\ obj'.live = obj.live /\ obj'.deleting = obj.deleting
    /\ obj'.allowDeletion = obj.allowDeletion
    /\ UNCHANGED conns

-----------------------------------------------------------------------------
(* Failures.                                                               *)

LEMMA WritesFail ==
  /\ \A c, reply : Update(c, reply) => faults' = faults \/ Fault
  /\ \A c, reply : StatusUpdate(c, reply) => faults' = faults \/ Fault
  /\ \A kinds, cond : Refused(kinds, cond) => Fault
  /\ \A cond : NotFound(cond) => faults' = faults
  /\ \A new, cond : FivetranWrite(new, cond) => Fault
  /\ \A new : Accepted(new) => faults' = faults
  /\ \A next : UpdateConnection(next) => faults' = faults \/ Fault
BY DEF Update, StatusUpdate, Write, Refused, NotFound, FivetranWrite, Accepted,
       UpdateConnection

LEMMA ReconcileFails ==
  ASSUME Reconcile
  PROVE  faults' = faults \/ Fault
<1>1. CASE GetResource \/ EnsureVaultClient \/ DeleteConnection
  BY <1>1, WritesFail DEF GetResource, EnsureVaultClient, DeleteConnection
<1>2. CASE RemoveFinalizer \/ EnsureFinalizer \/ RemoveForceLabel
  BY <1>2, WritesFail, Zenon DEF RemoveFinalizer, EnsureFinalizer, RemoveForceLabel, UpdateThen
<1>3. CASE ResolveSecrets \/ CreateConnector \/ HandleConnectorFromAnnotation
  BY <1>3, WritesFail, Zenon DEF ResolveSecrets, CreateConnector, HandleConnectorFromAnnotation
<1>4. CASE SetStatusId \/ SetAnnotationId \/ UpdateConnectorHash
  BY <1>4, WritesFail DEF SetStatusId, SetAnnotationId, UpdateConnectorHash,
                          UpdateThen, StatusUpdateThen
<1>5. CASE SetConnectorReady \/ UpdateSetupTestsCondition \/ UpdateSchemaHash
  BY <1>5, WritesFail DEF SetConnectorReady, UpdateSetupTestsCondition,
                          UpdateSchemaHash, UpdateThen, StatusUpdateThen
<1>6. CASE UpdateConnector \/ FinalUpdateConnector \/ RunSetupTests \/ IsConnectorSyncing
  BY <1>6, WritesFail DEF UpdateConnector, FinalUpdateConnector, RunSetupTests,
                          IsConnectorSyncing
<1>7. CASE ReadSchema \/ ApplySchema \/ SecondPass \/ VerifySchema
  BY <1>7, WritesFail DEF ReadSchema, ApplySchema, SecondPass, VerifySchema
<1>8. CASE SetSchemaReady \/ SkipSchema
  BY <1>8, WritesFail DEF SetSchemaReady, SkipSchema, StatusUpdateThen
<1>9. CASE HandleError \/ HandleSetupTestsFailed
  BY <1>9, WritesFail DEF HandleError, HandleSetupTestsFailed
<1>. QED
  BY <1>1, <1>2, <1>3, <1>4, <1>5, <1>6, <1>7, <1>8, <1>9, Zenon
     DEF Reconcile, ConnectorStep, SchemaStep

(* A step uses up one failure or none.                                     *)
LEMMA FailuresRunOut ==
  ASSUME TypeOK, [Next]_vars
  PROVE  /\ faults \in Nat /\ faults' \in Nat
         /\ faults' = faults \/ faults' < faults
<1>1. faults \in 0..MaxFaults
  BY DEF TypeOK, ClusterTypeOK
<1>2. faults' = faults \/ Fault
  <2>1. CASE Reconcile
    BY <2>1, ReconcileFails
  <2>2. CASE Informs \/ Requeued \/ UserActs
    BY <2>2, UserEffect DEF Informs, Deliver, Requeued, TimerFires, UserWrite
  <2>3. CASE Restart \/ \E id \in ConnIds : DeletedElsewhere(id)
    BY <2>3 DEF Restart, DeletedElsewhere
  <2>4. CASE UNCHANGED vars
    BY <2>4 DEF vars, cluster
  <2>. QED
    BY <2>1, <2>2, <2>3, <2>4, Zenon DEF Next
<1>. QED
  BY <1>1, <1>2, BoundsAssumption DEF Fault

(* With that, a known step is a step of ManagedConnection or a stutter.    *)
LEMMA KnownSteps ==
  ASSUME TypeOK, [Next]_vars, Known
  PROVE  [Life!Next]_(Life!vars)
<1>1. /\ faults \in Nat /\ faults' \in Nat
      /\ faults' = faults \/ faults' < faults
  BY FailuresRunOut
<1>2. faults' <= faults
  BY <1>1
<1>3. CASE UNCHANGED Seen
  <2>1. CASE faults' = faults
    BY <1>3, <2>1 DEF Seen, Life!vars
  <2>2. CASE faults' < faults
    BY <1>2, <1>3, <2>2 DEF Seen, Life!Next, Life!Trouble
  <2>. QED
    BY <1>1, <2>1, <2>2
<1>. QED
  BY <1>2, <1>3, Zenon DEF Known, Life!Next

-----------------------------------------------------------------------------
(* The resource.                                                           *)

(* A version of the same resource has the same id, or it is tracked now.   *)
LEMMA KeptIsKnown ==
  ASSUME TypeOK, TypeOK', Kept, Follows(obj, obj'),
         obj'.id = obj.id \/ (obj.live /\ KnownIn(obj', conns))
  PROVE  Known
<1>1. Phase' = Phase
  BY DEF Kept, Phase
<1>2. CASE obj'.id = obj.id
  BY <1>1, <1>2 DEF Known, Seen, Kept
<1>3. CASE obj'.id # obj.id
  <2>1. PICK id : id = obj'.id
    OBVIOUS
  <2>2. obj.id = NoId /\ id # NoId /\ obj.live
    BY <1>3, <2>1 DEF Follows
  <2>3. id \in ConnIds \ Foreign
    BY <1>3, <2>1, <2>2 DEF KnownIn, TypeOK, ClusterTypeOK, Object
  <2>4. Phase # "absent"
    BY <2>2 DEF Phase
  <2>5. Life!Track(id)
    BY <1>1, <2>1, <2>2, <2>3, <2>4 DEF Life!Track, Kept
  <2>. QED
    BY <2>3, <2>5 DEF Known
<1>. QED
  BY <1>2, <1>3

LEMMA GuardedKnown ==
  ASSUME TypeOK, TypeOK', Protection, Agreement, Tracking, GuardedStep
  PROVE  Known
<1>1. Advance
  BY GuardedAdvances DEF Agreement
<1>2. Follows(obj, obj') /\ KnownIn(obj', conns)
  BY <1>1, AdvanceStores DEF SoundIn
<1>3. pc \in GuardedSteps /\ obj.live /\ cr.live /\ cr.finalizer
  BY <1>1 DEF Advance, Protection, WorksUnderFinalizer
<1>4. Phase # "absent"
  BY <1>3 DEF Phase
<1>5. ASSUME conns' = conns PROVE Kept
  <2>1. CASE obj' = obj
    BY <1>5, <2>1 DEF Kept
  <2>2. CASE \E c : /\ Extends(c) /\ version = "latest"
                    /\ obj' = Updated(c) \/ obj' = StatusUpdated(c)
    <3>1. PICK c : /\ Extends(c) /\ version = "latest"
                   /\ obj' = Updated(c) \/ obj' = StatusUpdated(c)
      BY <2>2
    <3>2. cr = obj
      BY <1>3, <3>1, StepsDiffer DEF Agreement
    <3>3. c \in Object
      BY <3>1 DEF Extends
    <3>. QED
      BY <1>3, <1>5, <3>1, <3>2, <3>3, StoredFields, MoreStoredFields, Zenon DEF Kept, Extends
  <2>. QED
    BY <1>1, <2>1, <2>2 DEF Advance, Asked, Wrote, Stores, Misses, Announces
<1>6. CASE conns' = conns
  BY <1>2, <1>3, <1>5, <1>6, KeptIsKnown
<1>7. CASE Configured /\ obj' = obj
  <2>1. loc.id = obj.id
    BY <1>3, <1>7 DEF Configured, Tracking, HoldsId, CopySound, Addressed
  <2>2. Phase' = Phase
    BY <1>7 DEF Phase
  <2>3. Life!Configure
    BY <1>4, <1>7, <2>1, <2>2, Zenon DEF Configured, IsLive, Life!Configure, Life!Live
  <2>. QED
    BY <2>3 DEF Known
<1>8. CASE Created /\ obj' = obj
  <2>1. PICK id \in FreshIds, new \in Connection :
          new.state = "live" /\ conns' = [conns EXCEPT ![id] = new]
    BY <1>8, Zenon DEF Created
  <2>2. id \in ConnIds \ (Existing \cup {obj.id})
    BY FreshIsNew
  <2>3. Phase' = Phase
    BY <1>8 DEF Phase
  <2>4. Life!Create(id)
    BY <1>4, <1>8, <2>1, <2>2, <2>3, Zenon DEF Life!Create
  <2>. QED
    BY <2>2, <2>4 DEF Known
<1>. QED
  BY <1>6, <1>7, <1>8, GuardedAccount

LEMMA FinalizerKnown ==
  ASSUME TypeOK, TypeOK', Protection, Agreement, Tracking, EnsureFinalizer
  PROVE  Known
<1> DEFINE c == [cr EXCEPT !.finalizer = TRUE]
<1>1. cr \in Object /\ obj \in Object /\ pc = "ensureFinalizer" /\ conns' = conns
  BY DEF TypeOK, ClusterTypeOK, EnsureFinalizer, UpdateThen
<1>2. c \in Object
  BY <1>1, Zenon DEF Object
<1>3. Stores(Updated(c)) \/ Misses(c, Updated(c))
  BY <1>2, UpdateEffect, Zenon DEF EnsureFinalizer, UpdateThen
<1>4. CASE obj' = obj
  BY <1>1, <1>4, KeptIsKnown DEF Kept, Follows
<1>5. CASE version = "latest" /\ obj' = Updated(c)
  <2>1. cr = obj
    BY <1>1, <1>5, StepsDiffer DEF Agreement
  <2>2. /\ obj'.live = obj.live /\ obj'.deleting = obj.deleting
        /\ obj'.allowDeletion = obj.allowDeletion /\ obj'.id = obj.id
    BY <1>1, <1>5, <2>1 DEF Updated, Collected, Object
  <2>3. cr.id = NoId
    BY <1>1 DEF Tracking, CopySound
  <2>. QED
    BY <1>1, <2>1, <2>2, <2>3, KeptIsKnown DEF Kept, Follows
<1>. QED
  BY <1>3, <1>4, <1>5 DEF Stores, Misses, Announces

LEMMA ErrorKnown ==
  ASSUME TypeOK, TypeOK', Protection, Agreement, Tracking,
         HandleError \/ HandleSetupTestsFailed
  PROVE  Known
<1>1. /\ Follows(obj, obj') /\ conns' = conns /\ pc \in ErrorSteps
      /\ obj \in Object
  BY ErrorTracks, ErrorCopies, ErrorEffect DEF TypeOK, ClusterTypeOK
<1>2. PICK c \in Object :
         /\ KnownIn(c, conns)
         /\ Stores(StatusUpdated(c)) \/ Misses(c, StatusUpdated(c))
  BY ErrorCopies
<1>3. CASE obj' = obj
  BY <1>1, <1>3, KeptIsKnown DEF Kept
<1>4. CASE version = "latest" /\ obj' = StatusUpdated(c)
  <2>1. obj.live
    BY <1>1, <1>4 DEF Tracking, CopySound
  <2>2. /\ obj'.live = obj.live /\ obj'.deleting = obj.deleting
        /\ obj'.allowDeletion = obj.allowDeletion
        /\ obj'.id = c.id /\ obj'.cond = c.cond
    BY <1>1, <1>4 DEF StatusUpdated, Object
  <2>3. KnownIn(obj', conns)
    BY <1>2, <2>2 DEF KnownIn
  <2>. QED
    BY <1>1, <2>1, <2>2, <2>3, KeptIsKnown DEF Kept
<1>. QED
  BY <1>2, <1>3, <1>4 DEF Stores, Misses, Announces

LEMMA FinishIsKnown ==
  ASSUME TypeOK, Agreement, Tracking, obj' = NoObject, obj.live, obj.deleting,
         conns' = conns, Doomed(obj) => ~IsLive(obj.id)
  PROVE  Known
<1>1. Phase = "deleting" /\ Phase' = "absent"
  BY DEF Phase, NoObject
<1>2. obj'.id = NoId /\ obj'.allowDeletion = FALSE
  BY DEF NoObject
<1>3. obj.allowDeletion => ~IsLive(obj.id)
  <2>1. SoundIn(obj, obj, conns)
    BY StoredIsSound DEF Tracking
  <2>2. obj.id = NoId => ~IsLive(obj.id)
    BY ConstantsAssumption DEF IsLive
  <2>. QED
    BY <2>1, <2>2 DEF SoundIn, Doomed
<1>4. Life!Finish
  BY <1>1, <1>2, <1>3 DEF Life!Finish, Life!Live, IsLive
<1>. QED
  BY <1>4 DEF Known

LEMMA RemoveKnown ==
  ASSUME IInv, Tracking, RemoveFinalizer
  PROVE  Known
<1>1. CASE obj' = obj
  BY <1>1, RemoveEffect DEF Known, Seen, Phase
<1>2. CASE obj' # obj
  BY <1>2, RemoveEffect, FinishIsKnown DEF IInv
<1>. QED
  BY <1>1, <1>2

LEMMA DeleteKnown ==
  ASSUME IInv, Tracking, DeleteConnection
  PROVE  Known
<1> USE DEF IInv
<1>1. pc = "deleteConnection" /\ obj' = obj
  BY DEF DeleteConnection, KeepsObject
<1>2. Phase' = Phase
  BY <1>1 DEF Phase
<1>3. CASE conns' = conns
  BY <1>1, <1>2, <1>3 DEF Known, Seen
<1>4. CASE IsLive(cr.id) /\ conns' = [conns EXCEPT ![cr.id].state = "deleted"]
  <2>1. Doomed(obj) /\ obj.id = cr.id
    BY <1>1, <1>4 DEF Tracking, CopySound
  <2>2. obj.live
    <3>1. SoundIn(obj, obj, conns)
      BY StoredIsSound DEF Tracking
    <3>. QED
      BY <2>1, <3>1 DEF SoundIn, Doomed, NoObject
  <2>3. Phase = "deleting" /\ obj.allowDeletion
    BY <2>1, <2>2 DEF Phase, Doomed
  <2>4. Life!Remove
    BY <1>1, <1>2, <1>4, <2>1, <2>3 DEF Life!Remove, Life!Live, IsLive
  <2>. QED
    BY <2>4 DEF Known
<1>. QED
  BY <1>3, <1>4 DEF DeleteConnection, Accepted, FivetranWrite

-----------------------------------------------------------------------------
(* Users and the environment.                                              *)

LEMMA UsersKnown ==
  ASSUME TypeOK, Agreement, Tracking, UserActs
  PROVE  Known
<1>1. PICK new : UserObject(new) /\ UserWrite(new)
  BY UserEffect
<1>2. obj' = new /\ conns' = conns /\ obj \in Object
  BY <1>1 DEF UserWrite, Store, UserActs, TypeOK, ClusterTypeOK
<1>3. SoundIn(obj, obj, conns)
  BY StoredIsSound DEF Tracking
<1>4. CASE ~obj.live
  <2>1. obj = NoObject
    BY <1>3, <1>4 DEF SoundIn
  <2>2. PICK c \in ConnSpecs, s \in SchemaSpecs \cup {NoSchema},
             ann \in ConnIds \cup {NoId}, allow \in BOOLEAN :
          new = [NoObject EXCEPT !.live = TRUE, !.connector = c, !.schema = s,
                                 !.annId = ann, !.allowDeletion = allow]
    BY <1>1, <1>4, Zenon DEF UserObject
  <2>3. obj'.live /\ ~obj'.deleting /\ obj'.id = obj.id /\ obj'.allowDeletion = allow
    BY <1>2, <2>1, <2>2 DEF NoObject
  <2>4. Phase = "absent" /\ Phase' = "present"
    BY <1>4, <2>3 DEF Phase
  <2>5. Life!Submit
    BY <1>2, <2>3, <2>4 DEF Life!Submit
  <2>. QED
    BY <2>5 DEF Known
<1>5. CASE obj.live /\ \/ \E c \in ConnSpecs, s \in SchemaSpecs \cup {NoSchema} :
                             new = [obj EXCEPT !.connector = c, !.schema = s]
                       \/ new = [obj EXCEPT !.force = TRUE]
  <2>1. /\ obj'.live = obj.live /\ obj'.deleting = obj.deleting
        /\ obj'.allowDeletion = obj.allowDeletion /\ obj'.id = obj.id
    BY <1>2, <1>5, Zenon DEF Object
  <2>. QED
    BY <1>2, <2>1 DEF Known, Seen, Phase
<1>6. CASE obj.live /\ new = [obj EXCEPT !.allowDeletion = TRUE]
  <2>1. /\ obj'.live = obj.live /\ obj'.deleting = obj.deleting
        /\ obj'.allowDeletion = TRUE /\ obj'.id = obj.id
    BY <1>2, <1>6, Zenon DEF Object
  <2>2. Life!Allow
    BY <1>2, <1>6, <2>1 DEF Life!Allow, Phase
  <2>. QED
    BY <2>2 DEF Known
<1>7. CASE obj.live /\ new = Collected([obj EXCEPT !.deleting = TRUE]) /\ obj.finalizer
  <2>1. new = [obj EXCEPT !.deleting = TRUE]
    BY <1>2, <1>7 DEF Collected, Object
  <2>2. /\ obj'.live /\ obj'.deleting
        /\ obj'.allowDeletion = obj.allowDeletion /\ obj'.id = obj.id
    BY <1>2, <1>7, <2>1, Zenon DEF Object
  <2>3. CASE obj.deleting
    BY <1>2, <1>7, <2>2, <2>3 DEF Known, Seen, Phase
  <2>4. CASE ~obj.deleting
    <3>1. Life!RequestDeletion
      BY <1>2, <1>7, <2>2, <2>4 DEF Life!RequestDeletion, Phase
    <3>. QED
      BY <3>1 DEF Known
  <2>. QED
    BY <2>3, <2>4
<1>8. CASE obj.live /\ new = Collected([obj EXCEPT !.deleting = TRUE]) /\ ~obj.finalizer
  <2>1. new = NoObject
    BY <1>2, <1>8 DEF Collected, Object
  <2>2. obj.id = NoId
    BY <1>3, <1>8 DEF SoundIn
  <2>3. CASE obj.deleting
    BY <1>2, <1>8, <2>1, <2>2, <2>3, FinishIsKnown DEF Doomed
  <2>4. CASE ~obj.deleting
    <3>1. Phase = "present" /\ Phase' = "absent"
      BY <1>2, <1>8, <2>1, <2>4 DEF Phase, NoObject
    <3>2. Life!Withdraw
      BY <1>2, <2>1, <2>2, <3>1 DEF Life!Withdraw, NoObject
    <3>. QED
      BY <3>2 DEF Known
  <2>. QED
    BY <2>3, <2>4
<1>. QED
  BY <1>1, <1>4, <1>5, <1>6, <1>7, <1>8, Zenon DEF UserObject

LEMMA OthersKnown ==
  ASSUME TypeOK, \/ GetResource \/ EnsureVaultClient \/ Informs \/ Requeued \/ Restart
                 \/ (\E id \in ConnIds : DeletedElsewhere(id)) \/ UNCHANGED vars
  PROVE  Known
<1>1. CASE \/ GetResource \/ EnsureVaultClient \/ Informs \/ Requeued \/ Restart
           \/ UNCHANGED vars
  <2>1. obj' = obj /\ conns' = conns
    BY <1>1 DEF GetResource, EnsureVaultClient, Informs, Deliver, Requeued, TimerFires,
                Restart, vars, cluster
  <2>. QED
    BY <2>1 DEF Known, Seen, Phase
<1>2. CASE \E id \in ConnIds : DeletedElsewhere(id)
  <2>1. PICK id \in ConnIds : DeletedElsewhere(id)
    BY <1>2
  <2>2. obj' = obj /\ Phase' = Phase
    BY <2>1 DEF DeletedElsewhere, Phase
  <2>3. faults' < faults
    BY <2>1 DEF DeletedElsewhere, Fault, TypeOK, ClusterTypeOK
  <2>4. Life!Vanish(id)
    BY <2>1, <2>2, <2>3 DEF DeletedElsewhere, IsLive, Life!Vanish, Life!Live
  <2>. QED
    BY <2>4 DEF Known
<1>. QED
  BY <1>1, <1>2, Zenon

-----------------------------------------------------------------------------
LEMMA StepsAreKnown == ASSUME IInv, Tracking, [Next]_vars PROVE Known
<1>1. TypeOK /\ Protection /\ Agreement /\ TypeOK'
  BY NextType DEF IInv
<1>2. CASE GuardedStep
  BY <1>1, <1>2, GuardedKnown
<1>3. CASE DeleteConnection \/ RemoveFinalizer
  BY <1>3, DeleteKnown, RemoveKnown
<1>4. CASE EnsureFinalizer
  BY <1>1, <1>4, FinalizerKnown
<1>5. CASE HandleError \/ HandleSetupTestsFailed
  BY <1>1, <1>5, ErrorKnown
<1>6. CASE UserActs
  BY <1>1, <1>6, UsersKnown
<1>7. CASE \/ GetResource \/ EnsureVaultClient \/ Informs \/ Requeued \/ Restart
           \/ (\E id \in ConnIds : DeletedElsewhere(id)) \/ UNCHANGED vars
  BY <1>1, <1>7, OthersKnown
<1>. QED
  BY <1>2, <1>3, <1>4, <1>5, <1>6, <1>7, Zenon DEF Next, Reconcile, GuardedStep

LEMMA InitialStates == Init => Life!Init
<1> SUFFICES ASSUME Init PROVE Life!Init
  OBVIOUS
<1>1. TypeOK
  BY InitType
<1>2. conns \in [ConnIds -> Connection] /\ faults \in Nat
  BY <1>1, BoundsAssumption DEF TypeOK, ClusterTypeOK
<1>3. obj = NoObject
  BY DEF Init, ClusterInit
<1>. QED
  BY <1>2, <1>3 DEF Life!Init, Phase, NoObject

(* Whatever users, the informer, the workqueue, failures and restarts do,  *)
(* the stored resource and the account change as ManagedConnection allows: *)
(* Reconcile tracks a connection once, configures only that one, deletes   *)
(* it only for a resource that is going and permits it, and lets the       *)
(* resource go only after it.                                              *)
THEOREM Refines == Spec => ImplementsManagedConnection
<1>1. Init => Life!Init
  BY InitialStates
<1>2. IInv /\ Tracking /\ [Next]_vars => [Life!Next]_(Life!vars)
  BY StepsAreKnown, KnownSteps DEF IInv
<1>. QED
  BY <1>1, <1>2, TrackingHolds, PTL DEF Spec, ImplementsManagedConnection, Life!Spec

-----------------------------------------------------------------------------
(* What the annotations record is true: a hash is that of a spec the       *)
(* connection got, and the backup of the id names the tracked connection.  *)

(* When its hash is about to be written, the connection has the spec.  A   *)
(* connection that was created, not adopted, has it from the start.        *)
Carries ==
    /\ pc \in {"setStatusId", "setAnnotationId"} /\ cr.annId = NoId =>
           conns[loc.id].spec = cr.connector
    /\ pc = "connectorHash" => conns[loc.id].spec = cr.connector
    /\ pc = "schemaHash" => conns[loc.id].schema = cr.schema

(* A connection is only created without an annotation, and an id that is   *)
(* about to be written, first or again by handleError, is the one in the   *)
(* annotation, if that has one.                                            *)
Backed ==
    /\ BackupAgrees
    /\ pc = "create" => cr.annId = NoId
    /\ pc = "setStatusId" /\ cr.annId # NoId => loc.id = cr.annId
    /\ pc \in ErrorSteps /\ version = "latest" /\ cr.id # NoId /\ obj.annId # NoId =>
           obj.annId = cr.id

-----------------------------------------------------------------------------
(* The configuration of the connection.                                    *)

MarkedSteps == {"setStatusId", "setAnnotationId", "connectorHash", "schemaHash"}

LEMMA UnmarkedCarries == ASSUME pc' \notin MarkedSteps PROVE Carries'
BY DEF Carries, MarkedSteps

LEMMA MarkedNames == MarkedSteps \cap (ErrorSteps \cup {"idle", "vaultClient", "ensureFinalizer"}) = {}
BY DEF MarkedSteps, ErrorSteps

(* Only these steps are followed by a marked one.                          *)
LEMMA OtherSteps ==
  ASSUME GuardedStep,
         ~(\/ CreateConnector \/ HandleConnectorFromAnnotation \/ SetStatusId
           \/ SetAnnotationId \/ UpdateConnector \/ ApplySchema)
  PROVE  pc' \notin MarkedSteps
<1>1. /\ \A step : step \notin MarkedSteps => (GotoOrReturn(step) => pc' \notin MarkedSteps)
      /\ \A step : step \notin MarkedSteps => (Goto(step) => pc' \notin MarkedSteps)
      /\ \A c, forced : Decide(c, forced) => pc' \notin MarkedSteps
      /\ \A kind, cond : Fail(kind, cond) => pc' \notin MarkedSteps
      /\ \A kinds, cond : Refused(kinds, cond) => pc' \notin MarkedSteps
      /\ \A cond : NotFound(cond) => pc' \notin MarkedSteps
      /\ \A new, cond : FivetranWrite(new, cond) => pc' \notin MarkedSteps
  <2>1. /\ \A step : GotoOrReturn(step) => pc' \in {step, "idle"}
        /\ \A c, forced : Decide(c, forced) => pc' \in {"resolveSecrets", "idle"}
        /\ \A kind, cond : Fail(kind, cond) => pc' \in ErrorSteps
        /\ \A kinds, cond : Refused(kinds, cond) => pc' \in ErrorSteps
        /\ \A cond : NotFound(cond) => pc' \in ErrorSteps
        /\ \A new, cond : FivetranWrite(new, cond) => pc' \in ErrorSteps
    BY Exits
  <2>2. "resolveSecrets" \notin MarkedSteps
    BY DEF MarkedSteps
  <2>. QED
    BY <2>1, <2>2, MarkedNames DEF Goto
<1>2. /\ \A c, l : BeforeConnector(c, l) \notin MarkedSteps
      /\ \A c, l : BeforeSchema(c, l) \notin MarkedSteps
      /\ \A l : AfterSchema(l) \notin MarkedSteps
      /\ {"connectorReady", "setupTestsReady", "setupTests", "readSchema", "applySchema",
          "secondPass", "schemaReady", "verifySchema", "idle"} \cap MarkedSteps = {}
  BY NextStepNames DEF MarkedSteps
<1>3. CASE RemoveForceLabel \/ ResolveSecrets
  BY <1>1, <1>2, <1>3, Zenon DEF RemoveForceLabel, ResolveSecrets, UpdateThen
<1>4. CASE UpdateConnectorHash \/ SetConnectorReady
  BY <1>1, <1>2, <1>4 DEF UpdateConnectorHash, SetConnectorReady, UpdateThen, StatusUpdateThen
<1>5. CASE RunSetupTests \/ IsConnectorSyncing \/ VerifySchema
  BY <1>1, <1>2, <1>5 DEF RunSetupTests, IsConnectorSyncing, VerifySchema
<1>6. CASE UpdateSetupTestsCondition \/ SetSchemaReady \/ SkipSchema
  BY <1>1, <1>2, <1>6
     DEF UpdateSetupTestsCondition, SetSchemaReady, SkipSchema, StatusUpdateThen
<1>7. CASE ReadSchema \/ SecondPass
  BY <1>1, <1>2, <1>7 DEF ReadSchema, SecondPass
<1>8. CASE UpdateSchemaHash
  BY <1>1, <1>2, <1>8 DEF UpdateSchemaHash, AfterApply, UpdateThen
<1>9. CASE FinalUpdateConnector
  BY <1>1, <1>2, <1>9 DEF FinalUpdateConnector, UpdateConnection
<1>. QED
  BY <1>3, <1>4, <1>5, <1>6, <1>7, <1>8, <1>9, Zenon DEF GuardedStep, ConnectorStep, SchemaStep

LEMMA GuardedCarries ==
  ASSUME TypeOK, Protection, Agreement, Tracking, Carries, GuardedStep
  PROVE  Carries'
<1>1. /\ cr \in Object /\ obj \in Object /\ conns \in [ConnIds -> Connection]
      /\ loc \in Locals
  BY DEF TypeOK, ClusterTypeOK
<1>2. \A kind, cond : Fail(kind, cond) => Carries'
  BY Exits, MarkedNames, UnmarkedCarries
<1>3. \A new, cond : FivetranWrite(new, cond) => Carries'
  BY Exits, MarkedNames, UnmarkedCarries
<1>4. CASE CreateConnector
  <2>1. PICK id \in FreshIds :
          LET new == [conns EXCEPT ![id] =
                        [NewConnection("live") EXCEPT !.spec = cr.connector]]
          IN  \/ /\ Accepted(new)
                 /\ pc' = "setStatusId" /\ loc' = [loc EXCEPT !.id = id]
                 /\ UNCHANGED err
              \/ FivetranWrite(new, "ConnectorReady")
    BY <1>4, Zenon DEF CreateConnector
  <2>2. id \in ConnIds /\ cr' = cr
    BY <1>4, FreshIsNew DEF CreateConnector, KeepsObject
  <2>3. CASE /\ Accepted([conns EXCEPT ![id] =
                           [NewConnection("live") EXCEPT !.spec = cr.connector]])
             /\ pc' = "setStatusId" /\ loc' = [loc EXCEPT !.id = id]
    <3>1. loc'.id = id
      BY <1>1, <2>3 DEF Locals
    <3>2. conns'[id].spec = cr.connector
      BY <1>1, <2>2, <2>3 DEF Accepted, NewConnection
    <3>. QED
      BY <2>2, <2>3, <3>1, <3>2 DEF Carries
  <2>. QED
    BY <1>3, <2>1, <2>3
<1>5. CASE HandleConnectorFromAnnotation
  <2>1. CASE IsLive(cr.annId) /\ pc' = "setStatusId" /\ cr' = cr
    BY <2>1, ConstantsAssumption DEF Carries, IsLive
  <2>2. \A kinds, cond : Refused(kinds, cond) => Carries'
    BY Exits, MarkedNames, UnmarkedCarries
  <2>. QED
    BY <1>2, <1>5, <2>1, <2>2 DEF HandleConnectorFromAnnotation, KeepsObject
<1>6. CASE SetStatusId
  <2> DEFINE c == [cr EXCEPT !.id = loc.id]
  <2>1. c \in Object /\ pc = "setStatusId" /\ conns' = conns
    BY <1>1, <1>6 DEF SetStatusId, StatusUpdateThen, Object, Locals
  <2>2. CASE StatusUpdate(c, "ok") /\ cr' = StatusUpdated(c) /\ Goto("setAnnotationId")
    <3>1. version = "latest" /\ cr' = StatusUpdated(c)
      BY <2>1, <2>2, StatusUpdateEffect DEF Stores
    <3>2. cr = obj
      BY <2>1, <3>1, StepsDiffer DEF Agreement, UntrackedSteps
    <3>3. cr'.annId = cr.annId /\ cr'.connector = cr.connector
      BY <1>1, <3>1, <3>2 DEF StatusUpdated, Object
    <3>. QED
      BY <2>1, <2>2, <3>3 DEF Carries, Goto
  <2>. QED
    BY <1>2, <1>6, <2>2 DEF SetStatusId, StatusUpdateThen
<1>7. CASE SetAnnotationId
  <2> DEFINE c == [cr EXCEPT !.annId = loc.id]
             next == IF cr.annId = NoId THEN "connectorHash" ELSE "update"
  <2>1. c \in Object /\ pc = "setAnnotationId" /\ conns' = conns
    BY <1>1, <1>7 DEF SetAnnotationId, UpdateThen, Object, Locals
  <2>2. CASE Update(c, "ok") /\ cr' = Updated(c) /\ Goto(next)
    <3>1. cr.finalizer
      BY <2>1 DEF Protection, GuardedSteps, ConnectorSteps
    <3>2. cr'.connector = cr.connector
      BY <1>1, <2>1, <2>2, <3>1 DEF Updated, Collected, Object
    <3>3. pc' = next /\ loc' = loc
      BY <2>2 DEF Goto
    <3>. QED
      BY <2>1, <3>2, <3>3 DEF Carries
  <2>. QED
    BY <1>2, <1>7, <2>2 DEF SetAnnotationId, UpdateThen
<1>8. CASE UpdateConnector
  <2> DEFINE new == [conns EXCEPT ![loc.id].spec = cr.connector,
                                  ![loc.id].scheduled = TRUE]
  <2>1. cr' = cr
    BY <1>8 DEF UpdateConnector, KeepsObject
  <2>2. CASE IsLive(loc.id) /\ Accepted(new) /\ GotoOrReturn("connectorHash")
    <3>1. pc' = "connectorHash" /\ loc' = loc
      BY <2>2 DEF GotoOrReturn, Goto
    <3>2. conns'[loc.id].spec = cr.connector
      BY <1>1, <2>2 DEF Accepted, IsLive, Connection
    <3>. QED
      BY <2>1, <3>1, <3>2 DEF Carries
  <2>3. \A cond : NotFound(cond) => Carries'
    BY Exits, MarkedNames, UnmarkedCarries
  <2>. QED
    BY <1>3, <1>8, <2>2, <2>3 DEF UpdateConnector, UpdateConnection
<1>9. CASE ApplySchema
  <2> DEFINE new == [conns EXCEPT ![loc.id].schema = cr.schema]
  <2>1. cr' = cr
    BY <1>9 DEF ApplySchema, KeepsObject
  <2>2. CASE IsLive(loc.id) /\ Accepted(new) /\ Goto("schemaHash")
    <3>1. pc' = "schemaHash" /\ loc' = loc
      BY <2>2 DEF Goto
    <3>2. conns'[loc.id].schema = cr.schema
      BY <1>1, <2>2 DEF Accepted, IsLive, Connection
    <3>. QED
      BY <2>1, <3>1, <3>2 DEF Carries
  <2>3. /\ \A cond : NotFound(cond) => Carries'
        /\ \A kinds, cond : Refused(kinds, cond) => Carries'
    BY Exits, MarkedNames, UnmarkedCarries
  <2>. QED
    BY <1>3, <1>9, <2>2, <2>3 DEF ApplySchema
<1>. QED
  BY <1>4, <1>5, <1>6, <1>7, <1>8, <1>9, OtherSteps, UnmarkedCarries

LEMMA Carry == ASSUME IInv, Tracking, Carries, [Next]_vars PROVE Carries'
<1>1. TypeOK /\ Protection /\ Agreement
  BY DEF IInv
<1>2. CASE GuardedStep
  BY <1>1, <1>2, GuardedCarries
<1>3. CASE \/ GetResource \/ EnsureVaultClient \/ DeleteConnection \/ RemoveFinalizer
           \/ EnsureFinalizer \/ HandleError \/ HandleSetupTestsFailed \/ Restart
  <2>1. pc' \notin MarkedSteps
    BY <1>3, Zenon
       DEF GetResource, EnsureVaultClient, DeleteConnection, RemoveFinalizer,
           EnsureFinalizer, HandleError, HandleSetupTestsFailed, Restart, UpdateThen,
           AfterFinalizer, Decide, Goto, Return, Fail, FivetranWrite, MarkedSteps
  <2>. QED
    BY <2>1, UnmarkedCarries
<1>4. CASE \/ Informs \/ Requeued \/ UserActs \/ UNCHANGED vars
           \/ \E id \in ConnIds : DeletedElsewhere(id)
  <2>1. pc' = pc /\ loc' = loc /\ cr' = cr
    BY <1>4 DEF Informs, Requeued, UserActs, DeletedElsewhere, controller, vars
  <2>2. ASSUME NEW id \in ConnIds
        PROVE  conns'[id].spec = conns[id].spec /\ conns'[id].schema = conns[id].schema
    <3>1. CASE conns' = conns
      BY <3>1
    <3>2. CASE \E gone \in ConnIds : conns' = [conns EXCEPT ![gone].state = "deleted"]
      BY <1>1, <3>2 DEF TypeOK, Connection
    <3>. QED
      BY <1>4, <3>1, <3>2 DEF Informs, Requeued, UserActs, DeletedElsewhere, vars
  <2>3. pc \in MarkedSteps => loc.id \in ConnIds
    <3>1. /\ pc = "setStatusId" => loc.id \in ConnIds
          /\ pc \in Addressed => loc.id # NoId
      BY DEF Tracking, HoldsId
    <3>. QED
      BY <1>1, <3>1 DEF TypeOK, Locals, MarkedSteps, Addressed, TargetedSteps, SchemaSteps
  <2>. QED
    BY <2>1, <2>2, <2>3 DEF Carries, MarkedSteps
<1>. QED
  BY <1>2, <1>3, <1>4, Zenon DEF Next, Reconcile, GuardedStep

-----------------------------------------------------------------------------
(* The backup of the id.                                                   *)

(* handleConnectorFromAnnotation takes the id from the annotation, and     *)
(* createConnector is only called without one.                             *)
LEMMA IdFromAnnotation ==
  ASSUME TypeOK, GuardedStep, pc = "create" => cr.annId = NoId, pc' = "setStatusId"
  PROVE  cr' = cr /\ (cr.annId # NoId => loc'.id = cr.annId)
<1>1. loc \in Locals
  BY DEF TypeOK
<1>2. CASE CreateConnector
  <2>1. pc = "create" /\ cr' = cr
    BY <1>2 DEF CreateConnector, KeepsObject
  <2>. QED
    BY <2>1
<1>3. CASE HandleConnectorFromAnnotation
  <2>1. cr' = cr
    BY <1>3 DEF HandleConnectorFromAnnotation, KeepsObject
  <2>2. loc' = [loc EXCEPT !.id = cr.annId] \/ pc' \in ErrorSteps
    BY <1>3, Exits DEF HandleConnectorFromAnnotation
  <2>. QED
    BY <1>1, <2>1, <2>2, MarkedNames DEF MarkedSteps, Locals
<1>4. CASE SetStatusId \/ SetAnnotationId \/ UpdateConnector \/ ApplySchema
  <2>1. pc' \in {"setAnnotationId", "connectorHash", "update", "schemaHash", "idle"} \cup ErrorSteps
    BY <1>4, Exits
       DEF SetStatusId, SetAnnotationId, UpdateConnector, ApplySchema, UpdateThen,
           StatusUpdateThen, Goto
  <2>. QED
    BY <2>1 DEF ErrorSteps
<1>. QED
  BY <1>2, <1>3, <1>4, OtherSteps DEF MarkedSteps

(* createConnector is reached from resolveSecrets only.                    *)
LEMMA CreateWithoutAnnotation ==
  ASSUME GuardedStep, pc' = "create"
  PROVE  cr' = cr /\ cr.annId = NoId
<1>1. "create" \notin ErrorSteps \cup {"idle"}
  BY DEF ErrorSteps
<1>2. CASE ResolveSecrets
  <2>1. cr' = cr
    BY <1>2 DEF ResolveSecrets, KeepsObject
  <2>2. BeforeConnector(cr, loc) = "create"
    BY <1>1, <1>2, Exits DEF ResolveSecrets
  <2>. QED
    BY <2>1, <2>2 DEF BeforeConnector, BeforeSchema, AfterSchema
<1>3. ASSUME ~ResolveSecrets PROVE FALSE
  <2>1. CASE \/ RemoveForceLabel \/ SetStatusId \/ SetAnnotationId \/ UpdateConnectorHash
             \/ SetConnectorReady \/ UpdateSchemaHash
    <3>1. pc' \in {"resolveSecrets", "setAnnotationId", "connectorHash", "update",
                   "connectorReady", "setupTests", "setupTestsReady", "secondPass",
                   "schemaReady", "verifySchema", "idle"} \cup ErrorSteps
      BY <2>1, Exits, Zenon
         DEF RemoveForceLabel, SetStatusId, SetAnnotationId, UpdateConnectorHash,
             SetConnectorReady, UpdateSchemaHash, AfterApply, UpdateThen,
             StatusUpdateThen, Goto
    <3>. QED
      BY <1>1, <3>1
  <2>2. CASE UpdateSetupTestsCondition \/ SetSchemaReady \/ SkipSchema
    <3>1. pc' \in {BeforeSchema(cr, loc), AfterSchema(loc), "idle"} \cup ErrorSteps
      BY <2>2, Exits
         DEF UpdateSetupTestsCondition, SetSchemaReady, SkipSchema, StatusUpdateThen
    <3>. QED
      BY <1>1, <3>1, NextStepNames
  <2>3. CASE \/ CreateConnector \/ HandleConnectorFromAnnotation \/ UpdateConnector
             \/ RunSetupTests \/ FinalUpdateConnector
    <3>1. pc' \in {"setStatusId", "connectorHash", "setupTestsReady", "idle"} \cup ErrorSteps
      BY <2>3, Exits, Zenon
         DEF CreateConnector, HandleConnectorFromAnnotation, UpdateConnector,
             RunSetupTests, FinalUpdateConnector, Goto
    <3>. QED
      BY <1>1, <3>1
  <2>4. CASE IsConnectorSyncing \/ ReadSchema \/ ApplySchema \/ SecondPass \/ VerifySchema
    <3>1. pc' \in {"readSchema", "applySchema", "schemaHash", "schemaReady"} \cup ErrorSteps
      BY <2>4, Exits
         DEF IsConnectorSyncing, ReadSchema, ApplySchema, SecondPass, VerifySchema, Goto
    <3>. QED
      BY <1>1, <3>1
  <2>. QED
    BY <1>3, <2>1, <2>2, <2>3, <2>4, Zenon DEF GuardedStep, ConnectorStep, SchemaStep
<1>. QED
  BY <1>2, <1>3

LEMMA GuardedBacks ==
  ASSUME TypeOK, Protection, Agreement, Tracking, Backed, GuardedStep
  PROVE  Backed'
<1>1. /\ cr \in Object /\ obj \in Object
      /\ obj.id # NoId /\ obj.annId # NoId => obj.annId = obj.id
  BY DEF TypeOK, ClusterTypeOK, Backed, BackupAgrees
<1>2. Advance
  BY GuardedAdvances DEF Agreement
<1>3. pc \in GuardedSteps /\ cr.finalizer /\ (version = "latest" => cr = obj)
  BY <1>2, StepsDiffer DEF Advance, Protection, Agreement
<1>4. /\ pc' = "create" => cr'.annId = NoId
      /\ pc' = "setStatusId" /\ cr'.annId # NoId => loc'.id = cr'.annId
  BY CreateWithoutAnnotation, IdFromAnnotation DEF Backed
<1> DEFINE Goal == /\ obj'.id # NoId /\ obj'.annId # NoId => obj'.annId = obj'.id
                   /\ version' = "latest" /\ cr'.id # NoId /\ obj'.annId # NoId =>
                        obj'.annId = cr'.id
<1>5. ASSUME Asked PROVE Goal
  BY <1>1, <1>3, <1>5 DEF Asked
<1>6. ASSUME NEW c, Extends(c), Wrote(c) PROVE Goal
  <2>1. /\ c \in Object /\ c.finalizer
        /\ c.annId = cr.annId \/ (pc = "setAnnotationId" /\ c.annId = loc.id)
        /\ c.id = cr.id \/ (pc = "setStatusId" /\ c.id = loc.id)
    BY <1>3, <1>6 DEF Extends
  <2>2. /\ pc = "setAnnotationId" => loc.id = cr.id
        /\ pc = "setStatusId" /\ cr.annId # NoId => loc.id = cr.annId
    BY DEF Tracking, HoldsId, Addressed, Backed
  <2>3. /\ Updated(c).id = obj.id /\ Updated(c).annId = c.annId
        /\ StatusUpdated(c).id = c.id /\ StatusUpdated(c).annId = obj.annId
    BY <1>1, <2>1 DEF Updated, Collected, StatusUpdated, Object
  <2>4. ASSUME cr = obj, obj' = Updated(c)
        PROVE  obj'.id # NoId /\ obj'.annId # NoId => obj'.annId = obj'.id
    BY <1>1, <2>1, <2>2, <2>3, <2>4
  <2>5. ASSUME cr = obj
        PROVE  c.id # NoId /\ obj.annId # NoId => obj.annId = c.id
    BY <1>1, <2>1, <2>2, <2>5
  <2>6. CASE Stores(Updated(c)) \/ Stores(StatusUpdated(c))
    <3>1. cr = obj /\ cr' = obj' /\ (obj' = Updated(c) \/ obj' = StatusUpdated(c))
      BY <1>3, <2>6 DEF Stores, Announces
    <3>. QED
      BY <2>3, <2>4, <2>5, <3>1
  <2>7. CASE Misses(c, Updated(c)) \/ Misses(c, StatusUpdated(c))
    <3>1. /\ cr' = c
          /\ \/ obj' = obj /\ version' = version
             \/ /\ version = "latest" /\ version' = "outdated"
                /\ obj' = Updated(c) \/ obj' = StatusUpdated(c)
      BY <2>7 DEF Misses, Announces
    <3>2. CASE obj' = obj /\ version' = version
      BY <1>1, <1>3, <2>5, <3>1, <3>2
    <3>3. CASE /\ version = "latest" /\ version' = "outdated"
               /\ obj' = Updated(c) \/ obj' = StatusUpdated(c)
      BY <1>3, <2>3, <2>4, <2>5, <3>3
    <3>. QED
      BY <3>1, <3>2, <3>3
  <2>. QED
    BY <1>6, <2>6, <2>7 DEF Wrote
<1>7. Goal
  BY <1>2, <1>5, <1>6 DEF Advance
<1>. QED
  BY <1>4, <1>7 DEF Backed, BackupAgrees

LEMMA ErrorBacks ==
  ASSUME TypeOK, Tracking, Backed, HandleError \/ HandleSetupTestsFailed
  PROVE  Backed'
<1>1. obj \in Object /\ BackupAgrees /\ pc \in ErrorSteps
      /\ pc' \in {"idle"} \cup ErrorSteps
  BY ErrorEffect DEF TypeOK, ClusterTypeOK, Backed
<1>2. PICK c \in Object :
         /\ c.id = cr.id
         /\ \/ Stores(StatusUpdated(c))
            \/ Misses(c, StatusUpdated(c)) /\ pc' = "idle"
  BY ErrorCopies
<1>3. StatusUpdated(c).id = cr.id /\ StatusUpdated(c).annId = obj.annId
  BY <1>1, <1>2 DEF StatusUpdated, Object
<1>4. BackupAgrees'
  <2>1. CASE obj' = obj
    BY <1>1, <2>1 DEF BackupAgrees
  <2>2. CASE version = "latest" /\ obj' = StatusUpdated(c)
    BY <1>1, <1>3, <2>2 DEF Backed, BackupAgrees
  <2>. QED
    BY <1>2, <2>1, <2>2 DEF Stores, Misses, Announces
<1>5. pc' \in ErrorSteps => cr' = obj'
  BY <1>2, StepsDiffer DEF Stores, Announces
<1>6. pc' \notin {"create", "setStatusId"}
  BY <1>1 DEF ErrorSteps
<1>. QED
  BY <1>4, <1>5, <1>6 DEF Backed, BackupAgrees

LEMMA RestBacks ==
  ASSUME IInv, Tracking, Backed,
         \/ GetResource \/ EnsureVaultClient \/ DeleteConnection \/ RemoveFinalizer
         \/ EnsureFinalizer
  PROVE  Backed'
<1> USE DEF IInv
<1>1. cr \in Object /\ obj \in Object /\ BackupAgrees
  BY DEF TypeOK, ClusterTypeOK, Backed
<1>2. pc' \notin {"create", "setStatusId"}
  BY Zenon DEF GetResource, EnsureVaultClient, DeleteConnection, RemoveFinalizer,
         EnsureFinalizer, UpdateThen, AfterFinalizer, Decide, Goto, Return, Fail,
         FivetranWrite
<1>3. CASE GetResource \/ EnsureVaultClient
  <2>1. obj' = obj /\ pc' \notin ErrorSteps
    BY <1>3, Zenon DEF GetResource, EnsureVaultClient, AfterFinalizer, Decide, Goto, Return, ErrorSteps
  <2>. QED
    BY <1>1, <1>2, <2>1 DEF Backed, BackupAgrees
<1>4. CASE DeleteConnection
  <2>1. obj' = obj /\ cr' = cr /\ version' = version /\ (version = "latest" => cr = obj)
    BY <1>4, StepsDiffer DEF DeleteConnection, KeepsObject, Agreement, DeletionSteps
  <2>. QED
    BY <1>1, <1>2, <2>1 DEF Backed, BackupAgrees
<1>5. CASE RemoveFinalizer
  <2> DEFINE c == [cr EXCEPT !.finalizer = FALSE]
  <2>1. pc = "removeFinalizer" /\ c \in Object /\ c.id = cr.id
    BY <1>1, <1>5, Zenon DEF RemoveFinalizer, Object
  <2>2. obj' = obj \/ obj' = NoObject
    BY <1>5, RemoveEffect
  <2>3. BackupAgrees'
    BY <1>1, <2>2 DEF BackupAgrees, NoObject
  <2>4. version' = "latest" => cr' = obj' \/ (obj' = obj /\ cr' = c /\ version = "latest")
    <3>1. Stores(Updated(c)) \/ Misses(c, Updated(c))
      BY <1>5, <2>1, UpdateEffect, Zenon DEF RemoveFinalizer, UpdateThen
    <3>. QED
      BY <3>1 DEF Stores, Misses, Announces
  <2>5. version = "latest" => cr = obj
    BY <2>1, StepsDiffer DEF Agreement, DeletionSteps
  <2>. QED
    BY <1>1, <1>2, <2>1, <2>3, <2>4, <2>5, Zenon DEF Backed, BackupAgrees
<1>6. CASE EnsureFinalizer
  <2> DEFINE c == [cr EXCEPT !.finalizer = TRUE]
  <2>1. pc = "ensureFinalizer" /\ c \in Object /\ c.id = cr.id /\ c.annId = cr.annId
    BY <1>1, <1>6, Zenon DEF EnsureFinalizer, Object
  <2>2. cr.id = NoId /\ (version = "latest" => cr = obj)
    BY <2>1, StepsDiffer DEF Tracking, CopySound, Agreement
  <2>3. Updated(c).id = obj.id
    BY <1>1, <2>1 DEF Updated, Collected, Object
  <2>4. Stores(Updated(c)) \/ Misses(c, Updated(c))
    BY <1>6, <2>1, UpdateEffect, Zenon DEF EnsureFinalizer, UpdateThen
  <2>5. /\ obj' = obj \/ obj'.id = NoId
        /\ cr'.id = NoId \/ cr' = obj'
    BY <2>1, <2>2, <2>3, <2>4, Zenon DEF Stores, Misses, Announces
  <2>. QED
    BY <1>1, <1>2, <2>5 DEF Backed, BackupAgrees
<1>. QED
  BY <1>3, <1>4, <1>5, <1>6

LEMMA OutsideBacks ==
  ASSUME IInv, Tracking, Backed,
         \/ UserActs \/ Informs \/ Requeued \/ Restart \/ UNCHANGED vars
         \/ \E id \in ConnIds : DeletedElsewhere(id)
  PROVE  Backed'
<1> USE DEF IInv
<1>1. cr \in Object /\ obj \in Object /\ BackupAgrees
  BY DEF TypeOK, ClusterTypeOK, Backed
<1>2. CASE UserActs
  <2>1. PICK new : UserObject(new) /\ UserWrite(new)
    BY <1>2, UserEffect
  <2>2. obj' = new /\ version' = "outdated" /\ pc' = pc /\ cr' = cr /\ loc' = loc
    BY <1>2, <2>1 DEF UserWrite, Store, UserActs, controller
  <2>3. new.id = NoId \/ (new.id = obj.id /\ new.annId = obj.annId)
    <3>1. CASE \E c \in ConnSpecs, s \in SchemaSpecs \cup {NoSchema} :
                 new = [obj EXCEPT !.connector = c, !.schema = s]
      BY <1>1, <3>1 DEF Object
    <3>2. CASE \/ new = [obj EXCEPT !.force = TRUE]
               \/ new = [obj EXCEPT !.allowDeletion = TRUE]
               \/ new = Collected([obj EXCEPT !.deleting = TRUE])
      BY <1>1, <3>2 DEF Object, Collected, NoObject
    <3>3. CASE ~obj.live
      BY <2>1, <3>1, <3>2, <3>3, Zenon DEF UserObject, NoObject
    <3>. QED
      BY <2>1, <3>1, <3>2, <3>3, Zenon DEF UserObject
  <2>. QED
    BY <1>1, <2>2, <2>3 DEF Backed, BackupAgrees
<1>3. CASE Restart
  <2>1. obj' = obj /\ pc' = "idle"
    BY <1>3 DEF Restart
  <2>. QED
    BY <1>1, <2>1, StepsDiffer DEF Backed, BackupAgrees
<1>4. CASE \/ Informs \/ Requeued \/ UNCHANGED vars
           \/ \E id \in ConnIds : DeletedElsewhere(id)
  <2>1. obj' = obj /\ pc' = pc /\ cr' = cr /\ loc' = loc /\ version' = version
    BY <1>4 DEF Informs, Deliver, Requeued, TimerFires, DeletedElsewhere, controller,
                vars, cluster
  <2>. QED
    BY <2>1 DEF Backed, BackupAgrees
<1>. QED
  BY <1>2, <1>3, <1>4, Zenon

LEMMA Backs == ASSUME IInv, Tracking, Backed, [Next]_vars PROVE Backed'
<1>1. TypeOK /\ Protection /\ Agreement
  BY DEF IInv
<1>2. CASE GuardedStep
  BY <1>1, <1>2, GuardedBacks
<1>3. CASE HandleError \/ HandleSetupTestsFailed
  BY <1>1, <1>3, ErrorBacks
<1>4. CASE \/ GetResource \/ EnsureVaultClient \/ DeleteConnection \/ RemoveFinalizer
           \/ EnsureFinalizer
  BY <1>4, RestBacks
<1>5. CASE \/ UserActs \/ Informs \/ Requeued \/ Restart \/ UNCHANGED vars
           \/ \E id \in ConnIds : DeletedElsewhere(id)
  BY <1>5, OutsideBacks
<1>. QED
  BY <1>2, <1>3, <1>4, <1>5, Zenon DEF Next, Reconcile, GuardedStep

-----------------------------------------------------------------------------

(* What the steps that write annotations rely on holds in every state.     *)
THEOREM RecordsHold == Spec => [](IInv /\ Tracking /\ Carries /\ Backed)
<1>1. Init => Carries /\ Backed
  <2> SUFFICES ASSUME Init PROVE Carries /\ Backed
    OBVIOUS
  <2>1. pc = "idle" /\ obj = NoObject
    BY DEF Init, ClusterInit
  <2>. QED
    BY <2>1 DEF Carries, Backed, BackupAgrees, NoObject, ErrorSteps
<1>2. IInv /\ Tracking /\ Carries /\ Backed /\ [Next]_vars => Carries' /\ Backed'
  BY Carry, Backs
<1>. QED
  BY <1>1, <1>2, TrackingHolds, PTL DEF Spec

(* The id in the annotation and the one in the status never disagree:      *)
(* ensureConnectorAnnotation and handleConnectorFromAnnotation copy the    *)
(* one that is there, and handleError, which writes the whole status of    *)
(* the reconcile's copy, adds no other.                                    *)
THEOREM BackupIsTrue == Spec => []BackupAgrees
<1>1. Backed => BackupAgrees
  BY DEF Backed
<1>. QED
  BY <1>1, RecordsHold, PTL

LEMMA GuardedRecords ==
  ASSUME TypeOK, Protection, Agreement, Tracking, Carries, GuardedStep
  PROVE  /\ obj'.connHash # obj.connHash =>
              obj'.connHash = Md5(obj'.connector) /\ conns[obj'.id].spec = obj'.connector
         /\ obj'.schemaHash # obj.schemaHash =>
              obj'.schemaHash = Md5(obj'.schema) /\ conns[obj'.id].schema = obj'.schema
<1>1. cr \in Object /\ obj \in Object
  BY DEF TypeOK, ClusterTypeOK
<1>2. Advance
  BY GuardedAdvances DEF Agreement
<1>3. cr.finalizer /\ (version = "latest" => cr = obj)
  BY <1>2, StepsDiffer DEF Advance, Protection, Agreement
<1>4. CASE Asked
  BY <1>4 DEF Asked
<1>5. ASSUME NEW c, Extends(c), Wrote(c)
      PROVE  \/ obj' = obj
             \/ cr = obj /\ (obj' = Updated(c) \/ obj' = StatusUpdated(c))
  BY <1>3, <1>5 DEF Wrote, Stores, Misses, Announces
<1>6. ASSUME NEW c, Extends(c), cr = obj, obj' = Updated(c)
      PROVE  /\ obj'.connHash # obj.connHash =>
                  obj'.connHash = Md5(obj'.connector) /\ conns[obj'.id].spec = obj'.connector
             /\ obj'.schemaHash # obj.schemaHash =>
                  obj'.schemaHash = Md5(obj'.schema) /\ conns[obj'.id].schema = obj'.schema
  <2>1. /\ c \in Object /\ c.finalizer
        /\ c.connector = cr.connector /\ c.schema = cr.schema
        /\ c.connHash = cr.connHash \/ (pc = "connectorHash" /\ c.connHash = Md5(cr.connector))
        /\ c.schemaHash = cr.schemaHash \/ (pc = "schemaHash" /\ c.schemaHash = Md5(cr.schema))
    BY <1>3, <1>6 DEF Extends
  <2>2. /\ obj'.id = obj.id /\ obj'.connector = c.connector /\ obj'.schema = c.schema
        /\ obj'.connHash = c.connHash /\ obj'.schemaHash = c.schemaHash
    BY <1>1, <1>6, <2>1 DEF Updated, Collected, Object
  <2>3. pc \in {"connectorHash", "schemaHash"} => loc.id = cr.id
    BY DEF Tracking, HoldsId, Addressed, TargetedSteps, SchemaSteps
  <2>4. /\ pc = "connectorHash" => conns[loc.id].spec = cr.connector
        /\ pc = "schemaHash" => conns[loc.id].schema = cr.schema
    BY DEF Carries
  <2>. QED
    BY <1>6, <2>1, <2>2, <2>3, <2>4
<1>7. ASSUME NEW c, Extends(c), obj' = StatusUpdated(c)
      PROVE  obj'.connHash = obj.connHash /\ obj'.schemaHash = obj.schemaHash
  BY <1>1, <1>7 DEF StatusUpdated, Object
<1>. QED
  BY <1>2, <1>4, <1>5, <1>6, <1>7 DEF Advance

LEMMA OthersKeepHashes ==
  ASSUME IInv, Tracking, [Next]_vars, ~GuardedStep, obj.live, obj'.live
  PROVE  obj'.connHash = obj.connHash /\ obj'.schemaHash = obj.schemaHash
<1> USE DEF IInv
<1>1. cr \in Object /\ obj \in Object
  BY DEF TypeOK, ClusterTypeOK
<1>2. CASE HandleError \/ HandleSetupTestsFailed
  <2>1. PICK c \in Object : Stores(StatusUpdated(c)) \/ Misses(c, StatusUpdated(c))
    BY <1>2, ErrorCopies
  <2>2. obj' = obj \/ obj' = StatusUpdated(c)
    BY <2>1 DEF Stores, Misses, Announces
  <2>. QED
    BY <1>1, <2>2, Zenon DEF StatusUpdated, Object
<1>3. CASE RemoveFinalizer
  BY <1>3, RemoveEffect DEF NoObject
<1>4. CASE EnsureFinalizer
  <2> DEFINE c == [cr EXCEPT !.finalizer = TRUE]
  <2>1. pc = "ensureFinalizer" /\ c \in Object /\ c.finalizer
        /\ c.connHash = cr.connHash /\ c.schemaHash = cr.schemaHash
    BY <1>1, <1>4, Zenon DEF EnsureFinalizer, Object
  <2>2. version = "latest" => cr = obj
    BY <2>1, StepsDiffer DEF Agreement
  <2>3. Stores(Updated(c)) \/ Misses(c, Updated(c))
    BY <1>4, <2>1, UpdateEffect, Zenon DEF EnsureFinalizer, UpdateThen
  <2>4. Updated(c).connHash = c.connHash /\ Updated(c).schemaHash = c.schemaHash
    BY <1>1, <2>1 DEF Updated, Collected, Object
  <2>. QED
    BY <2>1, <2>2, <2>3, <2>4 DEF Stores, Misses, Announces
<1>5. CASE UserActs
  <2>1. PICK new : UserObject(new) /\ UserWrite(new)
    BY <1>5, UserEffect
  <2>2. obj' = new
    BY <2>1 DEF UserWrite, Store
  <2>3. CASE \E c \in ConnSpecs, s \in SchemaSpecs \cup {NoSchema} :
               new = [obj EXCEPT !.connector = c, !.schema = s]
    BY <1>1, <2>2, <2>3 DEF Object
  <2>4. CASE \/ new = [obj EXCEPT !.force = TRUE]
             \/ new = [obj EXCEPT !.allowDeletion = TRUE]
             \/ new = Collected([obj EXCEPT !.deleting = TRUE])
    BY <1>1, <2>2, <2>4 DEF Object, Collected, NoObject
  <2>. QED
    BY <2>1, <2>3, <2>4, Zenon DEF UserObject
<1>6. CASE \/ GetResource \/ EnsureVaultClient \/ DeleteConnection
           \/ Informs \/ Requeued \/ Restart \/ UNCHANGED vars
           \/ \E id \in ConnIds : DeletedElsewhere(id)
  BY <1>6, Zenon DEF GetResource, EnsureVaultClient, DeleteConnection, KeepsObject, Informs,
              Deliver, Requeued, TimerFires, Restart, DeletedElsewhere, vars, cluster
<1>. QED
  BY <1>2, <1>3, <1>4, <1>5, <1>6, Zenon DEF Next, Reconcile, GuardedStep

(* UpdateConnectorHash and UpdateSchemaHash record the hash of the stored  *)
(* spec, and only while the tracked connection carries that spec: an edit  *)
(* that came meanwhile makes their update fail.                            *)
THEOREM HashesAreTrue == Spec => HashesRecordWhatWasApplied
<1> DEFINE Recorded ==
      obj.live /\ obj'.live =>
         /\ obj'.connHash # obj.connHash =>
              /\ obj'.connHash = Md5(obj'.connector)
              /\ conns[obj'.id].spec = obj'.connector
         /\ obj'.schemaHash # obj.schemaHash =>
              /\ obj'.schemaHash = Md5(obj'.schema)
              /\ conns[obj'.id].schema = obj'.schema
<1>1. ASSUME IInv, Tracking, Carries, [Next]_vars PROVE Recorded
  <2>1. CASE GuardedStep
    BY <1>1, <2>1, GuardedRecords DEF IInv
  <2>2. CASE ~GuardedStep
    BY <1>1, <2>2, OthersKeepHashes
  <2>. QED
    BY <2>1, <2>2
<1>2. IInv /\ Tracking /\ Carries /\ [Next]_vars => [Recorded]_vars
  BY <1>1
<1>. QED
  BY <1>2, RecordsHold, PTL DEF Spec, HashesRecordWhatWasApplied

=============================================================================
