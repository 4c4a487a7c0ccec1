------------------------- MODULE ReconcilerTracking -------------------------
(***************************************************************************)
(* Which connection a reconcile works on, for every value of the           *)
(* constants: a third inductive invariant, Tracking, and what follows from *)
(* it, up to the refinement of ManagedConnection.                          *)
(*                                                                         *)
(* A copy of the resource may be old when a reconcile acts on it.          *)
(* Tracking says what an old copy is still good for: an id that it shows   *)
(* is the id of the stored resource for as long as the copy can lead to a  *)
(* change of that connection, and a copy that can lead to a deletion is    *)
(* that of a resource which is still to be deleted with its connection, or *)
(* the connection is gone already.                                         *)
(***************************************************************************)
EXTENDS ReconcilerSafety, ReconcilerRefinement

(* A resource whose connection is to be deleted with it.                   *)
Doomed(o) == o.deleting /\ o.finalizer /\ o.allowDeletion /\ o.id # NoId

(* The id in a copy's status is one the operator made or was allowed to    *)
(* adopt, and SchemaReady is only False when there is one.                 *)
KnownIn(o, account) ==
    /\ o.id # NoId => account[o.id].state # "unused" /\ o.id \notin Foreign
    /\ o.cond["SchemaReady"] = "False" => o.id # NoId

(* What copy o is worth when the stored object is `stored`.                *)
SoundIn(o, stored, account) ==
    /\ KnownIn(o, account)
    /\ ~o.live => o = NoObject
    /\ ~o.finalizer => o.id = NoId
    /\ Shielded(o) /\ o.id # NoId => stored.id = o.id
    /\ Doomed(o) => \/ Doomed(stored) /\ stored.id = o.id
                    \/ account[o.id].state # "live"

CopiesSound ==
    /\ SoundIn(cache, obj, conns)
    /\ \A i \in 1..Len(watch) : SoundIn(watch[i], obj, conns)

(* What was in the account before is there or deleted, and what does not   *)
(* fit has not been touched.                                               *)
AccountSound ==
    /\ \A id \in Existing : conns[id].state # "unused"
    /\ \A id \in Foreign : conns[id].spec = NoSpec /\ conns[id].schema = NoSchema

Addressed == TargetedSteps \cup {"setAnnotationId"}

(* The id the reconcile holds.                                             *)
HoldsId ==
    /\ pc = "resolveSecrets" => loc.id = cr.id /\ (loc.connector \/ cr.id # NoId)
    /\ pc = "setStatusId" =>
         /\ loc.id \in ConnIds \ Foreign
         /\ conns[loc.id].state # "unused"
    /\ pc \in Addressed => loc.id # NoId /\ loc.id = cr.id
    /\ pc \in ErrorSteps /\ err.cond = "SchemaReady" => cr.id # NoId

(* The reconcile's copy.                                                   *)
CopySound ==
    /\ KnownIn(cr, conns)
    /\ pc = "vaultClient" => SoundIn(cr, obj, conns)
    /\ pc = "ensureFinalizer" => cr.id = NoId
    /\ pc = "deleteConnection" =>
         /\ Doomed(cr)
         /\ (Doomed(obj) /\ obj.id = cr.id) \/ ~IsLive(cr.id)
    /\ pc = "removeFinalizer" /\ version = "latest" /\ Doomed(cr) => ~IsLive(cr.id)
    /\ pc \in GuardedSteps /\ cr.id # NoId => obj.id = cr.id
    /\ pc \in ErrorSteps /\ version = "latest" =>
         obj.live /\ (cr.id # NoId => obj.finalizer)

Tracking == AccountSound /\ CopiesSound /\ CopySound /\ HoldsId

-----------------------------------------------------------------------------
(* Copies on their way.                                                    *)

(* A new version keeps the id of the old one and does not take back what   *)
(* dooms its connection.                                                   *)
Follows(old, new) ==
    old.id # NoId => new.id = old.id /\ (Doomed(old) => Doomed(new))

(* To the copy o the account only loses connections.                       *)
Ages(o, old, new) ==
    o.id # NoId =>
        /\ old[o.id].state # "unused" => new[o.id].state # "unused"
        /\ new[o.id].state = "live" => old[o.id].state = "live"

CopiesAge ==
    /\ Ages(cache, conns, conns')
    /\ \A i \in 1..Len(watch) : Ages(watch[i], conns, conns')

LEMMA CopyStays ==
  ASSUME NEW o \in Object, NEW old \in Object, NEW new \in Object, NEW a, NEW b,
         SoundIn(o, old, a), Follows(old, new), Ages(o, a, b)
  PROVE  SoundIn(o, new, b)
BY DEF SoundIn, KnownIn, Follows, Ages, Doomed

(* A version that has just been stored.                                    *)
LEMMA SelfSound ==
  ASSUME NEW o \in Object, NEW a, KnownIn(o, a), ~o.live => o = NoObject,
         ~o.finalizer => o.id = NoId
  PROVE  SoundIn(o, o, a)
BY DEF SoundIn

LEMMA CopiesStay ==
  ASSUME TypeOK, TypeOK', CopiesSound, Follows(obj, obj'), CopiesAge,
         SoundIn(obj', obj', conns'), cache' = cache,
         watch' = watch \/ watch' = Append(watch, obj')
  PROVE  CopiesSound'
<1>1. /\ obj \in Object /\ obj' \in Object /\ cache \in Object
      /\ watch \in Seq(Object)
  BY DEF TypeOK, ClusterTypeOK
<1>2. SoundIn(cache', obj', conns')
  BY <1>1, CopyStays DEF CopiesSound, CopiesAge
<1>3. ASSUME NEW i \in 1..Len(watch) PROVE SoundIn(watch[i], obj', conns')
  <2>1. watch[i] \in Object /\ SoundIn(watch[i], obj, conns) /\ Ages(watch[i], conns, conns')
    BY <1>1 DEF CopiesSound, CopiesAge
  <2>. QED
    BY <1>1, <2>1, CopyStays
<1>4. ASSUME NEW i \in 1..Len(watch') PROVE SoundIn(watch'[i], obj', conns')
  <2>1. CASE watch' = watch
    BY <1>3, <2>1
  <2>2. CASE watch' = Append(watch, obj')
    <3>1. Len(watch') = Len(watch) + 1
      BY <1>1, <2>2
    <3>2. CASE i \in 1..Len(watch)
      BY <1>1, <1>3, <2>2, <3>2
    <3>3. CASE i = Len(watch) + 1
      BY <1>1, <2>2, <3>3
    <3>. QED
      BY <1>1, <3>1, <3>2, <3>3
  <2>. QED
    BY <2>1, <2>2
<1>. QED
  BY <1>2, <1>4 DEF CopiesSound

(* The stored object is the last of the copies.                            *)
LEMMA StoredIsSound ==
  ASSUME TypeOK, Agreement, CopiesSound
  PROVE  SoundIn(obj, obj, conns)
<1>1. watch \in Seq(Object)
  BY DEF TypeOK, ClusterTypeOK
<1>2. CASE watch = <<>>
  BY <1>2 DEF Agreement, CopiesSound
<1>3. CASE watch # <<>>
  <2>1. Len(watch) \in 1..Len(watch)
    BY <1>1, <1>3
  <2>. QED
    BY <1>3, <2>1 DEF Agreement, CopiesSound
<1>. QED
  BY <1>2, <1>3

(* Nothing happens to the account.                                         *)
LEMMA SameAccount ==
  ASSUME conns' = conns
  PROVE  CopiesAge /\ (AccountSound => AccountSound')
BY DEF CopiesAge, Ages, AccountSound
-----------------------------------------------------------------------------
(* The account, behind ensureFinalizer.                                    *)

LEMMA SameStates ==
  ASSUME TypeOK, \A id \in ConnIds : conns'[id].state = conns[id].state
  PROVE  CopiesAge /\ Ages(cr, conns, conns') /\ Ages(obj, conns, conns')
<1>1. /\ obj \in Object /\ cache \in Object /\ cr \in Object
      /\ watch \in Seq(Object)
  BY DEF TypeOK, ClusterTypeOK
<1>2. ASSUME NEW o \in Object PROVE Ages(o, conns, conns')
  BY <1>2 DEF Ages, Object
<1>3. \A i \in 1..Len(watch) : watch[i] \in Object
  BY <1>1
<1>. QED
  BY <1>1, <1>2, <1>3 DEF CopiesAge

(* The connection with the reconcile's id gets another configuration.      *)
Configured ==
    /\ pc \in TargetedSteps /\ IsLive(loc.id)
    /\ \E new \in Connection :
          new.state = "live" /\ conns' = [conns EXCEPT ![loc.id] = new]

(* A connection is made.                                                   *)
Created ==
    /\ pc = "create"
    /\ \E id \in FreshIds, new \in Connection :
          new.state = "live" /\ conns' = [conns EXCEPT ![id] = new]

LEMMA UpdateConfigures ==
  ASSUME TypeOK, TypeOK', NEW next, UpdateConnection(next), pc \in TargetedSteps
  PROVE  conns' = conns \/ Configured
<1> DEFINE given == [conns[loc.id] EXCEPT !.spec = cr.connector, !.scheduled = TRUE]
           new == [conns EXCEPT ![loc.id].spec = cr.connector,
                                ![loc.id].scheduled = TRUE]
<1>1. conns \in [ConnIds -> Connection] /\ cr.connector \in ConnSpecs \cup {NoSpec}
  BY DEF TypeOK, Object
<1>2. \/ conns' = conns
      \/ IsLive(loc.id) /\ conns' = new
  BY DEF UpdateConnection, Accepted, FivetranWrite, NotFound
<1>3. ASSUME IsLive(loc.id), conns' = new PROVE Configured
  <2>1. loc.id \in ConnIds /\ conns[loc.id] \in Connection /\ conns[loc.id].state = "live"
    BY <1>1, <1>3 DEF IsLive
  <2>2. given \in Connection /\ given.state = "live"
    BY <1>1, <2>1, Zenon DEF Connection
  <2>3. new = [conns EXCEPT ![loc.id] = given]
    BY <1>1, <2>1, Zenon
  <2>. QED
    BY <1>3, <2>2, <2>3, Zenon DEF Configured
<1>. QED
  BY <1>2, <1>3

LEMMA ApplyConfigures ==
  ASSUME TypeOK, ApplySchema
  PROVE  conns' = conns \/ Configured
<1> DEFINE given == [conns[loc.id] EXCEPT !.schema = cr.schema]
           new == [conns EXCEPT ![loc.id].schema = cr.schema]
<1>1. conns \in [ConnIds -> Connection] /\ cr.schema \in SchemaSpecs \cup {NoSchema}
  BY DEF TypeOK, Object
<1>2. \/ conns' = conns
      \/ IsLive(loc.id) /\ conns' = new
  BY DEF ApplySchema, Accepted, FivetranWrite, NotFound, Refused
<1>3. ASSUME IsLive(loc.id), conns' = new PROVE Configured
  <2>1. loc.id \in ConnIds /\ conns[loc.id] \in Connection /\ conns[loc.id].state = "live"
    BY <1>1, <1>3 DEF IsLive
  <2>2. given \in Connection /\ given.state = "live"
    BY <1>1, <2>1 DEF Connection
  <2>3. new = [conns EXCEPT ![loc.id] = given]
    BY <1>1, <2>1
  <2>4. pc \in TargetedSteps
    BY DEF ApplySchema, TargetedSteps, SchemaSteps
  <2>. QED
    BY <1>3, <2>2, <2>3, <2>4, Zenon DEF Configured
<1>. QED
  BY <1>2, <1>3

LEMMA CreateCreates ==
  ASSUME TypeOK, CreateConnector
  PROVE  conns' = conns \/ Created
<1> DEFINE given == [NewConnection("live") EXCEPT !.spec = cr.connector]
<1>1. given \in Connection /\ given.state = "live"
  BY Zenon DEF TypeOK, Object, Connection, NewConnection
<1>2. pc = "create"
  BY DEF CreateConnector
<1>. QED
  BY <1>1, <1>2, Zenon DEF CreateConnector, Accepted, FivetranWrite, Created

(* What a guarded step does to the account.                                *)
LEMMA GuardedAccount ==
  ASSUME TypeOK, TypeOK', GuardedStep
  PROVE  \/ conns' = conns
         \/ (Configured \/ Created) /\ UNCHANGED <<obj, cache, watch, version, cr>>
<1>1. CASE CreateConnector
  BY <1>1, CreateCreates, Zenon DEF CreateConnector, KeepsObject
<1>2. CASE ApplySchema
  BY <1>2, ApplyConfigures DEF ApplySchema, KeepsObject
<1>3. CASE UpdateConnector \/ FinalUpdateConnector
  BY <1>3, UpdateConfigures DEF UpdateConnector, FinalUpdateConnector, KeepsObject, TargetedSteps
<1>4. CASE \/ RemoveForceLabel \/ ResolveSecrets \/ HandleConnectorFromAnnotation
           \/ SetStatusId \/ SetAnnotationId \/ UpdateConnectorHash \/ SetConnectorReady
           \/ RunSetupTests \/ UpdateSetupTestsCondition
  BY <1>4, Zenon DEF RemoveForceLabel, ResolveSecrets, HandleConnectorFromAnnotation,
              SetStatusId, SetAnnotationId, UpdateConnectorHash, SetConnectorReady,
              RunSetupTests, UpdateSetupTestsCondition,
              UpdateThen, StatusUpdateThen, Refused, NotFound
<1>5. CASE \/ IsConnectorSyncing \/ ReadSchema \/ UpdateSchemaHash
           \/ SecondPass \/ VerifySchema \/ SetSchemaReady \/ SkipSchema
  BY <1>5 DEF IsConnectorSyncing, ReadSchema, UpdateSchemaHash,
              SecondPass, VerifySchema, SetSchemaReady, SkipSchema,
              UpdateThen, StatusUpdateThen, Refused, NotFound
<1>. QED
  BY <1>1, <1>2, <1>3, <1>4, <1>5, Zenon DEF GuardedStep, ConnectorStep, SchemaStep
LEMMA ConfiguredSound ==
  ASSUME TypeOK, Tracking, Configured
  PROVE  /\ AccountSound' /\ CopiesAge
         /\ Ages(cr, conns, conns') /\ Ages(obj, conns, conns')
<1>1. PICK new \in Connection :
         new.state = "live" /\ conns' = [conns EXCEPT ![loc.id] = new]
  BY Zenon DEF Configured
<1>2. /\ conns \in [ConnIds -> Connection]
      /\ loc.id \in ConnIds /\ conns[loc.id].state = "live"
  BY DEF TypeOK, Configured, IsLive
<1>3. \A id \in ConnIds : conns'[id].state = conns[id].state
  BY <1>1, <1>2
<1>4. loc.id \notin Foreign
  BY DEF Tracking, CopySound, KnownIn, HoldsId, Addressed, Configured
<1>5. \A id \in ConnIds \ {loc.id} : conns'[id] = conns[id]
  BY <1>1, <1>2
<1>6. AccountSound'
  BY <1>3, <1>4, <1>5, ExistingAssumption DEF Tracking, AccountSound
<1>. QED
  BY <1>3, <1>6, SameStates

(* A new connection is none that a copy of the resource names.             *)
LEMMA FreshIsNew ==
  ASSUME TypeOK, Agreement, Tracking, NEW id \in FreshIds
  PROVE  /\ id \in ConnIds \ Existing /\ id # cache.id /\ id # obj.id
         /\ \A i \in 1..Len(watch) : id # watch[i].id
<1>1. /\ watch \in Seq(Object) /\ cache \in Object /\ obj \in Object
      /\ conns \in [ConnIds -> Connection]
  BY DEF TypeOK, ClusterTypeOK
<1>2. \A i \in 1..Len(watch) : watch[i] \in Object
  BY <1>1
<1>3. SoundIn(obj, obj, conns)
  BY StoredIsSound DEF Tracking
<1>4. CASE UnusedIds # {}
  <2>1. id \in ConnIds /\ conns[id].state = "unused"
    BY <1>4 DEF FreshIds, UnusedIds
  <2>2. ASSUME NEW o \in Object, SoundIn(o, obj, conns) PROVE id # o.id
    BY <2>1, <2>2, ConstantsAssumption DEF SoundIn, KnownIn
  <2>3. id \notin Existing
    BY <2>1 DEF Tracking, AccountSound
  <2>. QED
    BY <1>1, <1>2, <1>3, <2>1, <2>2, <2>3 DEF Tracking, CopiesSound
<1>5. CASE UnusedIds = {}
  <2> DEFINE copies == {obj, cache} \cup {watch[i] : i \in DOMAIN watch}
  <2>1. id \in (ConnIds \ Existing) \ UNION {Mentions(o) : o \in copies}
    BY <1>5 DEF FreshIds
  <2>2. ASSUME NEW o \in copies PROVE id # o.id
    BY <2>1 DEF Mentions
  <2>3. DOMAIN watch = 1..Len(watch)
    BY <1>1
  <2>. QED
    BY <2>1, <2>2, <2>3
<1>. QED
  BY <1>4, <1>5

LEMMA CreatedSound ==
  ASSUME TypeOK, Agreement, Tracking, Created
  PROVE  /\ AccountSound' /\ CopiesAge
         /\ Ages(cr, conns, conns') /\ Ages(obj, conns, conns')
<1>1. PICK id \in FreshIds, new \in Connection :
         new.state = "live" /\ conns' = [conns EXCEPT ![id] = new]
  BY Zenon DEF Created
<1>2. conns \in [ConnIds -> Connection] /\ cr.id = NoId
  BY DEF TypeOK, Created, Agreement, UntrackedSteps
<1>3. \A other \in ConnIds \ {id} : conns'[other] = conns[other]
  BY <1>1, <1>2
<1>4. /\ id \in ConnIds \ Existing /\ id # cache.id /\ id # obj.id
      /\ \A i \in 1..Len(watch) : id # watch[i].id
  BY FreshIsNew
<1>5. ASSUME NEW o \in Object, id # o.id PROVE Ages(o, conns, conns')
  BY <1>3, <1>5 DEF Ages, Object
<1>6. /\ cache \in Object /\ obj \in Object /\ watch \in Seq(Object)
  BY DEF TypeOK, ClusterTypeOK
<1>7. \A i \in 1..Len(watch) : watch[i] \in Object
  BY <1>6
<1>8. AccountSound'
  BY <1>3, <1>4, ExistingAssumption DEF Tracking, AccountSound
<1>. QED
  BY <1>2, <1>4, <1>5, <1>6, <1>7, <1>8 DEF CopiesAge, Ages

-----------------------------------------------------------------------------
(* The resource, behind ensureFinalizer.                                   *)

(* More of what the two writes store.                                      *)
LEMMA MoreStoredFields ==
  ASSUME TypeOK, NEW c \in Object
  PROVE  /\ c.finalizer => /\ Updated(c).deleting = c.deleting
                           /\ Updated(c).allowDeletion = c.allowDeletion
                           /\ Updated(c).cond = obj.cond
         /\ StatusUpdated(c).deleting = obj.deleting
         /\ StatusUpdated(c).allowDeletion = obj.allowDeletion
         /\ StatusUpdated(c).cond = c.cond
BY DEF TypeOK, ClusterTypeOK, Updated, Collected, StatusUpdated, Object

LEMMA KnownStays ==
  ASSUME NEW o, NEW a, NEW b, KnownIn(o, a), Ages(o, a, b)
  PROVE  KnownIn(o, b)
BY DEF KnownIn, Ages

(* The copy that a guarded step writes.                                    *)
LEMMA ExtendsKnown ==
  ASSUME TypeOK, Tracking, Agreement, NEW c, Extends(c)
  PROVE  KnownIn(c, conns) /\ (pc # "setStatusId" => c.id = cr.id)
<1>1. CASE c.id = cr.id
  BY <1>1 DEF Tracking, CopySound, KnownIn, Extends, isConditionFalse
<1>2. CASE pc = "setStatusId" /\ c.id = loc.id
  <2>1. loc.id \in ConnIds \ Foreign /\ conns[loc.id].state # "unused" /\ loc.id # NoId
    BY <1>2, ConstantsAssumption DEF Tracking, HoldsId
  <2>. QED
    BY <1>2, <2>1 DEF KnownIn
<1>. QED
  BY <1>1, <1>2 DEF Extends

LEMMA AdvanceStores ==
  ASSUME TypeOK, Protection, Agreement, Tracking, Advance
  PROVE  /\ Follows(obj, obj') /\ SoundIn(obj', obj', conns) /\ KnownIn(cr', conns)
         /\ watch' = watch \/ watch' = Append(watch, obj')
         /\ pc' \in GuardedSteps /\ cr'.id # NoId => obj'.id = cr'.id
         /\ pc # "setStatusId" => cr'.id = cr.id
         /\ obj'.live /\ obj'.finalizer
<1>1. SoundIn(obj, obj, conns) /\ KnownIn(cr, conns) /\ obj \in Object
  BY StoredIsSound DEF Tracking, CopySound, TypeOK, ClusterTypeOK
<1>2. /\ obj.live /\ obj.finalizer /\ cr.live /\ cr.finalizer
      /\ pc \in GuardedSteps
  BY DEF Protection, WorksUnderFinalizer, Advance
<1>3. version = "latest" => cr = obj
  BY <1>2, StepsDiffer DEF Agreement
<1>4. Follows(obj, obj)
  BY DEF Follows
<1>5. CASE Asked
  <2>1. obj' = obj /\ cr' = cr /\ watch' = watch
    BY <1>5 DEF Asked
  <2>2. pc \in GuardedSteps /\ cr.id # NoId => obj.id = cr.id
    BY DEF Tracking, CopySound
  <2>. QED
    BY <1>1, <1>2, <1>4, <2>1, <2>2
<1>6. ASSUME NEW c, Extends(c), Wrote(c)
      PROVE  /\ Follows(obj, obj') /\ SoundIn(obj', obj', conns) /\ KnownIn(cr', conns)
             /\ watch' = watch \/ watch' = Append(watch, obj')
             /\ pc' \in GuardedSteps /\ cr'.id # NoId => obj'.id = cr'.id
             /\ pc # "setStatusId" => cr'.id = cr.id
             /\ obj'.live /\ obj'.finalizer
  <2>1. /\ c \in Object /\ c.live /\ c.finalizer
        /\ c.deleting = cr.deleting /\ c.allowDeletion = cr.allowDeletion
        /\ c.id = cr.id \/ cr.id = NoId
    BY <1>2, <1>6 DEF Extends, Agreement, UntrackedSteps
  <2>2. KnownIn(c, conns) /\ (pc # "setStatusId" => c.id = cr.id)
    BY <1>6, ExtendsKnown
  <2>3. Updated(c) \in Object /\ StatusUpdated(c) \in Object
    BY <2>1, StoredObjects
  <2>4. ASSUME version = "latest"
        PROVE  /\ Follows(obj, Updated(c)) /\ SoundIn(Updated(c), Updated(c), conns)
               /\ Updated(c).id = obj.id /\ Updated(c).live /\ Updated(c).finalizer
    <3>1. /\ Updated(c).live /\ Updated(c).finalizer /\ Updated(c).id = obj.id
          /\ Updated(c).cond = obj.cond
          /\ Updated(c).deleting = obj.deleting
          /\ Updated(c).allowDeletion = obj.allowDeletion
      BY <1>3, <2>1, <2>4, StoredFields, MoreStoredFields
    <3>2. KnownIn(Updated(c), conns)
      BY <1>1, <3>1 DEF SoundIn, KnownIn
    <3>. QED
      BY <1>2, <2>3, <3>1, <3>2, SelfSound DEF Follows, Doomed
  <2>5. ASSUME version = "latest"
        PROVE  /\ Follows(obj, StatusUpdated(c))
               /\ SoundIn(StatusUpdated(c), StatusUpdated(c), conns)
               /\ StatusUpdated(c).id = c.id
               /\ StatusUpdated(c).live /\ StatusUpdated(c).finalizer
    <3>1. /\ StatusUpdated(c).live /\ StatusUpdated(c).finalizer
          /\ StatusUpdated(c).id = c.id /\ StatusUpdated(c).cond = c.cond
          /\ StatusUpdated(c).deleting = obj.deleting
          /\ StatusUpdated(c).allowDeletion = obj.allowDeletion
      BY <1>2, <2>1, StoredFields, MoreStoredFields, Zenon
    <3>2. KnownIn(StatusUpdated(c), conns)
      BY <2>2, <3>1 DEF KnownIn
    <3>3. obj.id # NoId => c.id = obj.id
      BY <1>3, <2>1, <2>5
    <3>. QED
      BY <1>2, <2>3, <3>1, <3>2, <3>3, SelfSound DEF Follows, Doomed
  <2>6. KnownIn(obj, conns) /\ SoundIn(obj, obj, conns)
    BY <1>1 DEF SoundIn
  <2>7. CASE \/ Stores(Updated(c)) \/ Stores(StatusUpdated(c))
    <3>1. /\ version = "latest" /\ cr' = obj'
          /\ obj' = Updated(c) \/ obj' = StatusUpdated(c)
          /\ watch' = watch \/ watch' = Append(watch, obj')
      BY <2>7 DEF Stores, Announces
    <3>2. KnownIn(cr', conns)
      BY <2>4, <2>5, <3>1 DEF SoundIn
    <3>3. pc # "setStatusId" => cr'.id = cr.id
      BY <1>3, <2>2, <2>4, <2>5, <3>1
    <3>. QED
      BY <2>4, <2>5, <3>1, <3>2, <3>3
  <2>8. CASE /\ Misses(c, Updated(c)) \/ Misses(c, StatusUpdated(c))
             /\ pc' \in ErrorSteps
    <3>1. /\ cr' = c
          /\ \/ obj' = obj /\ watch' = watch
             \/ /\ version = "latest"
                /\ obj' = Updated(c) \/ obj' = StatusUpdated(c)
                /\ watch' = watch \/ watch' = Append(watch, obj')
      BY <2>8 DEF Misses, Announces
    <3>2. pc' \notin GuardedSteps
      BY <2>8, StepsDiffer
    <3>. QED
      BY <1>2, <1>4, <2>2, <2>4, <2>5, <2>6, <3>1, <3>2
  <2>. QED
    BY <1>6, <2>7, <2>8 DEF Wrote
<1>. QED
  BY <1>5, <1>6 DEF Advance

-----------------------------------------------------------------------------
(* The id the reconcile holds, behind ensureFinalizer.                     *)

(* What is reconciled without a connection includes the connector.         *)
LEMMA DecideHolds ==
  ASSUME NEW c \in Object, NEW forced, Decide(c, forced), KnownIn(c, conns)
  PROVE  /\ pc' \in {"resolveSecrets", "idle"}
         /\ pc' = "resolveSecrets" => loc'.id = c.id /\ (loc'.connector \/ c.id # NoId)
<1> DEFINE needs == determineReconciliationNeeds(c, forced)
<1>1. needs.connector \/ needs.schema => needs.connector \/ c.id # NoId
  BY Zenon DEF determineReconciliationNeeds, KnownIn, isConditionFalse, hasConnectorHashChanged
<1>2. CASE needs.connector \/ needs.schema
  <2>1. /\ pc' = "resolveSecrets"
        /\ loc' = [connector |-> needs.connector, schema |-> needs.schema,
                   id |-> c.id, columnsMissing |-> FALSE]
    BY <1>2 DEF Decide
  <2>2. loc'.id = c.id /\ loc'.connector = needs.connector
    BY <2>1
  <2>. QED
    BY <1>1, <1>2, <2>1, <2>2
<1>3. CASE ~(needs.connector \/ needs.schema)
  BY <1>3 DEF Decide, Return
<1>. QED
  BY <1>2, <1>3

LEMMA AddressedNames ==
  /\ Addressed = (ConnectorSteps \cup SchemaSteps \cup {"finalUpdate"})
                     \ {"adopt", "create", "setStatusId"}
  /\ "idle" \notin Addressed /\ "resolveSecrets" \notin Addressed
  /\ "setStatusId" \notin Addressed /\ Addressed \cap ErrorSteps = {}
BY DEF Addressed, TargetedSteps, ConnectorSteps, SchemaSteps, ErrorSteps

(* A step on a connection is followed by steps on the same connection.     *)
LEMMA AddressedStays ==
  ASSUME TypeOK, GuardedStep, pc \in Addressed
  PROVE  \/ pc' \in Addressed /\ loc'.id = loc.id
         \/ pc' \in {"idle"} \cup ErrorSteps
<1>1. loc \in Locals
  BY DEF TypeOK
<1>2. /\ \A step : Goto(step) => pc' = step /\ loc' = loc
      /\ \A step : GotoOrReturn(step) => (pc' = step /\ loc' = loc) \/ pc' = "idle"
  BY DEF GotoOrReturn, Goto, Return
<1> USE DEF Addressed, TargetedSteps, SchemaSteps
<1>3. CASE UpdateConnector \/ FinalUpdateConnector
  BY <1>2, <1>3, Exits DEF UpdateConnector, FinalUpdateConnector, UpdateConnection
<1>4. CASE SetAnnotationId \/ UpdateConnectorHash \/ SetConnectorReady
  BY <1>2, <1>4, Exits
     DEF SetAnnotationId, UpdateConnectorHash, SetConnectorReady, UpdateThen, StatusUpdateThen
<1>5. CASE RunSetupTests \/ IsConnectorSyncing \/ VerifySchema \/ ApplySchema
  BY <1>2, <1>5, Exits DEF RunSetupTests, IsConnectorSyncing, VerifySchema, ApplySchema
<1>6. CASE UpdateSetupTestsCondition \/ SetSchemaReady \/ SkipSchema
  <2>1. \/ GotoOrReturn(BeforeSchema(cr, loc)) \/ GotoOrReturn(AfterSchema(loc))
        \/ pc' \in ErrorSteps
    BY <1>6, Exits
       DEF UpdateSetupTestsCondition, SetSchemaReady, SkipSchema, StatusUpdateThen
  <2>2. /\ BeforeSchema(cr, loc) \in {"syncing", "skipSchema", "finalUpdate", "idle"}
        /\ AfterSchema(loc) \in {"finalUpdate", "idle"}
    BY NextStepNames
  <2>. QED
    BY <1>2, <2>1, <2>2
<1>7. CASE ReadSchema \/ SecondPass
  <2>1. \/ \E b \in BOOLEAN : pc' = "applySchema" /\ loc' = [loc EXCEPT !.columnsMissing = b]
        \/ pc' \in ErrorSteps
    BY <1>7, Exits, Zenon DEF ReadSchema, SecondPass
  <2>2. ASSUME NEW b \in BOOLEAN, loc' = [loc EXCEPT !.columnsMissing = b]
        PROVE  loc'.id = loc.id
    BY <1>1, <2>2 DEF Locals
  <2>. QED
    BY <2>1, <2>2
<1>8. CASE UpdateSchemaHash
  BY <1>2, <1>8, Exits DEF UpdateSchemaHash, UpdateThen, AfterApply
<1>9. CASE \/ RemoveForceLabel \/ ResolveSecrets \/ CreateConnector
            \/ HandleConnectorFromAnnotation \/ SetStatusId
  BY <1>9, Zenon DEF RemoveForceLabel, ResolveSecrets, CreateConnector,
               HandleConnectorFromAnnotation, SetStatusId
<1>. QED
  BY <1>3, <1>4, <1>5, <1>6, <1>7, <1>8, <1>9, Zenon
     DEF GuardedStep, ConnectorStep, SchemaStep

(* A failure before the connection is known is not one of the schema.      *)
LEMMA FailHolds ==
  ASSUME pc' \in ErrorSteps, err'.cond = "SchemaReady" => cr'.id # NoId
  PROVE  HoldsId'
<1>1. pc' \notin Addressed \cup {"resolveSecrets", "setStatusId"}
  BY AddressedNames DEF ErrorSteps
<1>. QED
  BY <1>1 DEF HoldsId

LEMMA FailConditions ==
  /\ \A kind, cond : Fail(kind, cond) => err'.cond = cond
  /\ \A kinds, cond : Refused(kinds, cond) => err'.cond = cond
  /\ \A new, cond : FivetranWrite(new, cond) => err'.cond = cond
BY DEF Fail, Refused, FivetranWrite

LEMMA GuardedHolds ==
  ASSUME TypeOK, TypeOK', Protection, Agreement, Tracking, GuardedStep, Advance
  PROVE  HoldsId'
<1>1. pc # "setStatusId" => cr'.id = cr.id
  BY AdvanceStores
<1>2. /\ cr \in Object /\ loc \in Locals /\ conns \in [ConnIds -> Connection]
      /\ KnownIn(cr, conns)
  BY DEF TypeOK, Tracking, CopySound
<1>3. {"idle", "resolveSecrets", "setStatusId"} \cap (Addressed \cup ErrorSteps) = {}
  BY AddressedNames DEF ErrorSteps
<1>4. pc' = "idle" => HoldsId'
  BY <1>3 DEF HoldsId
<1>5. CASE pc \in Addressed
  <2>1. loc.id # NoId /\ loc.id = cr.id /\ cr'.id = cr.id
    BY <1>1, <1>3, <1>5 DEF Tracking, HoldsId
  <2>2. \/ pc' \in Addressed /\ loc'.id = loc.id
        \/ pc' \in {"idle"} \cup ErrorSteps
    BY <1>5, AddressedStays
  <2>3. CASE pc' \in Addressed /\ loc'.id = loc.id
    BY <1>3, <2>1, <2>3, AddressedNames DEF HoldsId
  <2>. QED
    BY <1>4, <2>1, <2>2, <2>3, FailHolds
<1>6. CASE RemoveForceLabel
  <2> DEFINE c == [cr EXCEPT !.force = FALSE]
  <2>1. c \in Object /\ c.id = cr.id /\ KnownIn(c, conns)
    BY <1>2, Zenon DEF Object, KnownIn
  <2>2. \/ Decide(c, TRUE)
        \/ Fail("plain", "ConnectorReady")
    BY <1>6, Zenon DEF RemoveForceLabel, UpdateThen
  <2>3. cr'.id = cr.id
    BY <1>1, <1>6 DEF RemoveForceLabel
  <2>4. CASE Decide(c, TRUE)
    <3>1. /\ pc' \in {"resolveSecrets", "idle"}
          /\ pc' = "resolveSecrets" => loc'.id = c.id /\ (loc'.connector \/ c.id # NoId)
      BY <2>1, <2>4, DecideHolds, Zenon
    <3>. QED
      BY <1>3, <2>1, <2>3, <3>1 DEF HoldsId
  <2>5. CASE Fail("plain", "ConnectorReady")
    BY <2>5, Exits, FailConditions, FailHolds
  <2>. QED
    BY <2>2, <2>4, <2>5, Zenon
<1>7. CASE ResolveSecrets
  <2>1. /\ loc.id = cr.id /\ (loc.connector \/ cr.id # NoId) /\ cr'.id = cr.id
    BY <1>1, <1>7 DEF ResolveSecrets, Tracking, HoldsId
  <2>2. \/ GotoOrReturn(BeforeConnector(cr, loc))
        \/ Refused({"vaultRetry", "vaultStop", "plain"}, "ConnectorReady")
    BY <1>7 DEF ResolveSecrets
  <2>3. CASE GotoOrReturn(BeforeConnector(cr, loc))
    <3>1. \/ pc' = "idle"
          \/ pc' = BeforeConnector(cr, loc) /\ loc' = loc
      BY <2>3 DEF GotoOrReturn, Goto, Return
    <3>2. \/ BeforeConnector(cr, loc) \in {"idle", "adopt", "create"}
          \/ BeforeConnector(cr, loc) \in {"update", "syncing", "skipSchema"} /\ cr.id # NoId
      BY <2>1 DEF BeforeConnector, BeforeSchema, AfterSchema
    <3>3. /\ {"adopt", "create"} \cap (Addressed \cup ErrorSteps) = {}
          /\ {"update", "syncing", "skipSchema"} \cap ErrorSteps = {}
      BY AddressedNames DEF ErrorSteps
    <3>. QED
      BY <1>4, <2>1, <3>1, <3>2, <3>3 DEF HoldsId
  <2>4. CASE Refused({"vaultRetry", "vaultStop", "plain"}, "ConnectorReady")
    BY <2>4, Exits, FailConditions, FailHolds
  <2>. QED
    BY <2>2, <2>3, <2>4
<1>8. CASE CreateConnector
  <2>1. PICK id \in FreshIds :
          LET new == [conns EXCEPT ![id] =
                        [NewConnection("live") EXCEPT !.spec = cr.connector]]
          IN  \/ /\ Accepted(new)
                 /\ pc' = "setStatusId" /\ loc' = [loc EXCEPT !.id = id]
                 /\ UNCHANGED err
              \/ FivetranWrite(new, "ConnectorReady")
    BY <1>8, Zenon DEF CreateConnector
  <2>2. id \in ConnIds \ Foreign
    BY FreshIsNew, ExistingAssumption
  <2>3. CASE /\ conns' = [conns EXCEPT ![id] =
                            [NewConnection("live") EXCEPT !.spec = cr.connector]]
             /\ pc' = "setStatusId" /\ loc' = [loc EXCEPT !.id = id]
    <3>1. loc'.id = id /\ conns'[id].state = "live"
      BY <1>2, <2>2, <2>3 DEF Locals, NewConnection
    <3>. QED
      BY <1>3, <2>2, <2>3, <3>1 DEF HoldsId
  <2>4. CASE pc' \in ErrorSteps /\ err'.cond = "ConnectorReady"
    BY <2>4, FailHolds
  <2>. QED
    BY <2>1, <2>3, <2>4, Exits, FailConditions DEF Accepted
<1>9. CASE HandleConnectorFromAnnotation
  <2>1. CASE /\ IsLive(cr.annId) /\ cr.annId \notin Foreign
             /\ pc' = "setStatusId" /\ loc' = [loc EXCEPT !.id = cr.annId]
             /\ conns' = conns
    <3>1. loc'.id = cr.annId /\ cr.annId \in ConnIds /\ conns'[cr.annId].state = "live"
      BY <1>2, <2>1 DEF Locals, IsLive
    <3>. QED
      BY <1>3, <2>1, <3>1 DEF HoldsId
  <2>2. CASE pc' \in ErrorSteps /\ err'.cond = "ConnectorReady"
    BY <2>2, FailHolds
  <2>. QED
    BY <1>9, <2>1, <2>2, Exits, FailConditions DEF HandleConnectorFromAnnotation
<1>10. CASE SetStatusId
  <2> DEFINE c == [cr EXCEPT !.id = loc.id]
  <2>1. loc.id \in ConnIds /\ loc.id # NoId
    BY <1>10, ConstantsAssumption DEF SetStatusId, Tracking, HoldsId
  <2>2. StatusUpdated(c).id = loc.id
    BY <1>2, <2>1 DEF StatusUpdated, Object, TypeOK, ClusterTypeOK
  <2>3. CASE cr' = StatusUpdated(c) /\ Goto("setAnnotationId")
    BY <1>3, <2>1, <2>2, <2>3, AddressedNames DEF Goto, HoldsId, ErrorSteps
  <2>4. CASE Fail(SetIdErrorKind, "ConnectorReady")
    BY <2>4, Exits, FailConditions, FailHolds
  <2>. QED
    BY <1>10, <2>3, <2>4 DEF SetStatusId, StatusUpdateThen
<1>11. pc \notin Addressed =>
           \/ RemoveForceLabel \/ ResolveSecrets \/ CreateConnector
           \/ HandleConnectorFromAnnotation \/ SetStatusId
  <2>1. CASE \/ SetAnnotationId \/ UpdateConnector \/ UpdateConnectorHash
             \/ SetConnectorReady \/ RunSetupTests \/ UpdateSetupTestsCondition
             \/ FinalUpdateConnector
    BY <2>1 DEF SetAnnotationId, UpdateConnector, UpdateConnectorHash, SetConnectorReady,
           RunSetupTests, UpdateSetupTestsCondition, FinalUpdateConnector,
           Addressed, TargetedSteps
  <2>2. CASE SchemaStep
    BY <2>2 DEF SchemaStep, IsConnectorSyncing, ReadSchema, ApplySchema, UpdateSchemaHash,
           SecondPass, VerifySchema, SetSchemaReady, SkipSchema,
           Addressed, TargetedSteps, SchemaSteps
  <2>. QED
    BY <2>1, <2>2, Zenon DEF GuardedStep, ConnectorStep
<1>. QED
  BY <1>5, <1>6, <1>7, <1>8, <1>9, <1>10, <1>11

LEMMA GuardedTracks ==
  ASSUME TypeOK, TypeOK', Protection, Agreement, Tracking, GuardedStep
  PROVE  Tracking'
<1>1. Advance
  BY GuardedAdvances DEF Agreement
<1>2. HoldsId'
  BY <1>1, GuardedHolds
<1>3. /\ Follows(obj, obj') /\ SoundIn(obj', obj', conns) /\ KnownIn(cr', conns)
      /\ watch' = watch \/ watch' = Append(watch, obj')
      /\ pc' \in GuardedSteps /\ cr'.id # NoId => obj'.id = cr'.id
      /\ obj'.live /\ obj'.finalizer /\ cache' = cache
  BY <1>1, AdvanceStores DEF Advance
<1>4. /\ AccountSound' /\ CopiesAge /\ KnownIn(cr', conns') /\ SoundIn(obj', obj', conns')
  <2>1. CASE conns' = conns
    BY <1>3, <2>1, SameAccount DEF Tracking
  <2>2. CASE (Configured \/ Created) /\ UNCHANGED <<obj, cache, watch, version, cr>>
    <3>1. /\ AccountSound' /\ CopiesAge
          /\ Ages(cr, conns, conns') /\ Ages(obj, conns, conns')
      BY <2>2, ConfiguredSound, CreatedSound
    <3>2. KnownIn(cr', conns')
      BY <1>3, <2>2, <3>1, KnownStays
    <3>3. SoundIn(obj', obj', conns')
      BY <1>3, <2>2, <3>1, CopyStays DEF TypeOK, ClusterTypeOK
    <3>. QED
      BY <3>1, <3>2, <3>3
  <2>. QED
    BY <2>1, <2>2, GuardedAccount
<1>5. CopiesSound'
  BY <1>3, <1>4, CopiesStay DEF Tracking
<1>6. pc' \notin {"vaultClient", "ensureFinalizer", "deleteConnection", "removeFinalizer"}
  BY <1>1, StepsDiffer DEF Advance, DeletionSteps
<1>7. CopySound'
  BY <1>3, <1>4, <1>6 DEF CopySound
<1>. QED
  BY <1>2, <1>4, <1>5, <1>7 DEF Tracking

-----------------------------------------------------------------------------
(* The other steps of Reconcile.                                           *)

(* A reconcile that is over, or that has not got to the finalizer yet.     *)
LEMMA OutsideHolds ==
  ASSUME pc' \in {"idle", "vaultClient", "ensureFinalizer", "removeForce"} \cup DeletionSteps
  PROVE  HoldsId'
BY AddressedNames
   DEF HoldsId, ErrorSteps, DeletionSteps, ConnectorSteps, SchemaSteps

LEMMA OverTracks ==
  ASSUME AccountSound', CopiesSound', KnownIn(cr', conns'), pc' = "idle"
  PROVE  Tracking'
<1>1. pc' \notin GuardedSteps \cup ErrorSteps
  BY StepsDiffer
<1>2. CopySound'
  BY <1>1 DEF CopySound
<1>. QED
  BY <1>2, OutsideHolds DEF Tracking

LEMMA StartTracks ==
  ASSUME TypeOK, TypeOK', Protection, Agreement, Tracking,
         GetResource \/ EnsureVaultClient
  PROVE  Tracking'
<1>1. UNCHANGED <<obj, cache, watch, conns>>
  BY DEF GetResource, EnsureVaultClient
<1>2. AccountSound' /\ CopiesSound'
  BY <1>1 DEF Tracking, AccountSound, CopiesSound
<1>3. CASE GetResource
  <2>1. cr' = cache /\ pc' \in {"idle", "vaultClient"}
    BY <1>3 DEF GetResource, Goto, Return
  <2>2. SoundIn(cr', obj', conns') /\ KnownIn(cr', conns')
    BY <1>1, <2>1 DEF Tracking, CopiesSound, SoundIn
  <2>3. CopySound'
    BY <2>1, <2>2, StepsDiffer DEF CopySound
  <2>. QED
    BY <1>2, <2>1, <2>3, OutsideHolds DEF Tracking
<1>4. CASE EnsureVaultClient
  <2>1. /\ pc = "vaultClient" /\ cr' = cr /\ version' = version
        /\ SoundIn(cr, obj, conns) /\ KnownIn(cr', conns')
    BY <1>1, <1>4 DEF EnsureVaultClient, Tracking, CopySound
  <2>2. cr \in Object /\ cr.live
    BY <2>1 DEF TypeOK, Protection
  <2>3. CASE pc' = "idle"
    BY <1>2, <2>1, <2>3, OverTracks
  <2>4. CASE pc' = "ensureFinalizer" /\ ~cr.finalizer
    <3>1. CopySound'
      BY <2>1, <2>4, StepsDiffer DEF CopySound, SoundIn
    <3>. QED
      BY <1>2, <2>4, <3>1, OutsideHolds DEF Tracking
  <2>5. CASE pc' = "deleteConnection" /\ Doomed(cr)
    <3>1. (Doomed(obj) /\ obj.id = cr.id) \/ ~IsLive(cr.id)
      BY <2>1, <2>5 DEF SoundIn, IsLive
    <3>2. ((Doomed(obj) /\ obj.id = cr.id) \/ ~IsLive(cr.id))'
      BY <1>1, <2>1, <3>1 DEF Doomed, IsLive
    <3>3. CopySound'
      BY <2>1, <2>5, <3>2, StepsDiffer DEF CopySound, Doomed, DeletionSteps
    <3>. QED
      BY <1>2, <2>5, <3>3, OutsideHolds DEF Tracking, DeletionSteps
  <2>6. CASE pc' = "removeFinalizer" /\ ~Doomed(cr)
    <3>1. CopySound'
      BY <2>1, <2>6, StepsDiffer DEF CopySound, Doomed, DeletionSteps
    <3>. QED
      BY <1>2, <2>6, <3>1, OutsideHolds DEF Tracking, DeletionSteps
  <2>7. CASE pc' \in GuardedSteps /\ AfterFinalizer(cr) /\ Shielded(cr)
    <3>1. cr.id # NoId => obj.id = cr.id
      BY <2>1, <2>7 DEF SoundIn
    <3>2. CopySound'
      BY <1>1, <2>1, <2>7, <3>1, StepsDiffer DEF CopySound, DeletionSteps
    <3>3. HoldsId'
      <4>1. CASE pc' = "removeForce"
        BY <4>1, OutsideHolds
      <4>2. CASE Decide(cr, FALSE)
        <5>1. /\ pc' = "resolveSecrets" /\ loc'.id = cr.id
              /\ loc'.connector \/ cr.id # NoId
          BY <1>1, <2>1, <2>2, <2>7, <4>2, DecideHolds, StepsDiffer, Zenon
        <5>2. "resolveSecrets" \notin Addressed \cup ErrorSteps
          BY AddressedNames DEF ErrorSteps
        <5>. QED
          BY <2>1, <5>1, <5>2 DEF HoldsId
      <4>. QED
        BY <2>7, <4>1, <4>2, Zenon DEF AfterFinalizer, Goto
    <3>. QED
      BY <1>2, <3>2, <3>3 DEF Tracking
  <2>8. \/ pc' = "idle"
        \/ pc' = "ensureFinalizer" /\ ~cr.finalizer
        \/ pc' = "deleteConnection" /\ Doomed(cr)
        \/ pc' = "removeFinalizer" /\ ~Doomed(cr)
        \/ pc' \in GuardedSteps /\ AfterFinalizer(cr) /\ Shielded(cr)
    <3>1. AfterFinalizer(cr) => pc' \in {"idle", "removeForce", "resolveSecrets"}
      BY Exits, Zenon DEF AfterFinalizer, Goto
    <3>2. {"removeForce", "resolveSecrets"} \subseteq GuardedSteps
      BY DEF GuardedSteps
    <3>. QED
      BY <1>4, <2>2, <3>1, <3>2 DEF EnsureVaultClient, Goto, Return, Doomed, Shielded
  <2>. QED
    BY <2>3, <2>4, <2>5, <2>6, <2>7, <2>8
<1>. QED
  BY <1>3, <1>4

(* A connection that is deleted.                                           *)
LEMMA DeletedSound ==
  ASSUME TypeOK, AccountSound, NEW id \in ConnIds, IsLive(id),
         conns' = [conns EXCEPT ![id].state = "deleted"]
  PROVE  /\ AccountSound' /\ CopiesAge /\ conns'[id].state = "deleted"
         /\ \A o \in Object : Ages(o, conns, conns')
<1>1. conns \in [ConnIds -> Connection] /\ watch \in Seq(Object) /\ cache \in Object
  BY DEF TypeOK, ClusterTypeOK
<1>2. /\ \A other \in ConnIds \ {id} : conns'[other] = conns[other]
      /\ conns'[id].state = "deleted" /\ conns[id].state = "live"
      /\ conns'[id].spec = conns[id].spec /\ conns'[id].schema = conns[id].schema
  BY <1>1 DEF IsLive, Connection
<1>3. \A o \in Object : Ages(o, conns, conns')
  BY <1>2 DEF Ages, Object
<1>4. \A i \in 1..Len(watch) : watch[i] \in Object
  BY <1>1
<1>5. \A other \in ConnIds : /\ conns'[other].spec = conns[other].spec
                             /\ conns'[other].schema = conns[other].schema
                             /\ conns[other].state # "unused" => conns'[other].state # "unused"
  BY <1>2
<1>6. AccountSound'
  BY <1>5, ExistingAssumption DEF AccountSound
<1>. QED
  BY <1>1, <1>2, <1>3, <1>4, <1>6, Zenon DEF CopiesAge

(* A step that leaves resource and copies alone.                           *)
LEMMA CopiesAgeSound ==
  ASSUME TypeOK, Agreement, CopiesSound, CopiesAge, Ages(obj, conns, conns'),
         UNCHANGED <<obj, cache, watch>>
  PROVE  CopiesSound'
<1>1. obj \in Object /\ cache \in Object /\ watch \in Seq(Object)
  BY DEF TypeOK, ClusterTypeOK
<1>2. Follows(obj, obj)
  BY DEF Follows
<1>3. SoundIn(cache, obj, conns')
  BY <1>1, <1>2, CopyStays DEF CopiesSound, CopiesAge
<1>4. ASSUME NEW i \in 1..Len(watch) PROVE SoundIn(watch[i], obj, conns')
  <2>1. watch[i] \in Object /\ SoundIn(watch[i], obj, conns) /\ Ages(watch[i], conns, conns')
    BY <1>1 DEF CopiesSound, CopiesAge
  <2>. QED
    BY <1>1, <1>2, <2>1, CopyStays
<1>. QED
  BY <1>3, <1>4 DEF CopiesSound

LEMMA DeleteTracks ==
  ASSUME TypeOK, TypeOK', Protection, Agreement, Tracking, DeleteConnection
  PROVE  Tracking'
<1>1. /\ pc = "deleteConnection" /\ Doomed(cr) /\ cr.id \in ConnIds
      /\ cr \in Object /\ obj \in Object
      /\ UNCHANGED <<obj, cache, watch, version, cr>>
  BY DEF DeleteConnection, KeepsObject, Tracking, CopySound, TypeOK, ClusterTypeOK,
         Object, Doomed
<1>2. \/ conns' = conns
      \/ IsLive(cr.id) /\ conns' = [conns EXCEPT ![cr.id].state = "deleted"]
  BY DEF DeleteConnection, Accepted, FivetranWrite
<1>3. /\ AccountSound' /\ CopiesAge /\ Ages(obj, conns, conns') /\ Ages(cr, conns, conns')
  <2>1. CASE conns' = conns
    BY <2>1, SameAccount DEF Tracking, Ages
  <2>2. CASE IsLive(cr.id) /\ conns' = [conns EXCEPT ![cr.id].state = "deleted"]
    BY <1>1, <2>2, DeletedSound, Zenon DEF Tracking
  <2>. QED
    BY <1>2, <2>1, <2>2
<1>4. CopiesSound'
  BY <1>1, <1>3, CopiesAgeSound DEF Tracking
<1>5. KnownIn(cr', conns')
  <2>1. KnownIn(cr, conns)
    BY DEF Tracking, CopySound
  <2>. QED
    BY <1>1, <1>3, <2>1, KnownStays
<1>6. CASE Fail("apiStop", "ConnectorReady") \/ (\E new : FivetranWrite(new, "ConnectorReady"))
  <2>1. pc' \in ErrorSteps /\ err'.cond = "ConnectorReady"
    BY <1>6, Exits, FailConditions
  <2>2. HoldsId'
    BY <2>1, FailHolds
  <2>3. version' = "latest" => obj'.live /\ obj'.finalizer
    <3>1. version = "latest" => cr = obj
      BY <1>1, StepsDiffer DEF Agreement, DeletionSteps
    <3>2. SoundIn(obj, obj, conns)
      BY StoredIsSound DEF Tracking
    <3>. QED
      BY <1>1, <3>1, <3>2 DEF SoundIn, Doomed, NoObject
  <2>4. CopySound'
    BY <1>5, <2>1, <2>3, StepsDiffer DEF CopySound, DeletionSteps
  <2>. QED
    BY <1>3, <1>4, <2>2, <2>4 DEF Tracking
<1>7. CASE IsLive(cr.id) /\ Accepted([conns EXCEPT ![cr.id].state = "deleted"])
           /\ Goto("removeFinalizer")
  <2>1. pc' = "removeFinalizer" /\ ~IsLive(cr.id)'
    BY <1>1, <1>7, DeletedSound, Zenon DEF Goto, Accepted, Tracking, IsLive
  <2>2. CopySound'
    BY <1>5, <2>1, StepsDiffer DEF CopySound, DeletionSteps
  <2>. QED
    BY <1>3, <1>4, <2>1, <2>2, OutsideHolds DEF Tracking, DeletionSteps
<1>. QED
  BY <1>6, <1>7 DEF DeleteConnection

(* Steps that fail with the copy c in memory, before a connection is known *)
(* or after it is gone.                                                    *)
LEMMA FailTracks ==
  ASSUME AccountSound', CopiesSound', KnownIn(cr', conns'),
         pc' \in ErrorSteps, err'.cond = "ConnectorReady",
         version' = "latest" => obj'.live /\ (cr'.id # NoId => obj'.finalizer)
  PROVE  Tracking'
<1>1. HoldsId'
  BY FailHolds
<1>2. CopySound'
  BY StepsDiffer DEF CopySound, DeletionSteps
<1>. QED
  BY <1>1, <1>2 DEF Tracking

LEMMA RemoveTracks ==
  ASSUME TypeOK, TypeOK', Protection, Agreement, Tracking, RemoveFinalizer
  PROVE  Tracking'
<1> DEFINE c == [cr EXCEPT !.finalizer = FALSE]
<1>1. /\ c \in Object /\ cr \in Object /\ obj \in Object /\ pc = "removeFinalizer"
      /\ cr.deleting /\ cache' = cache /\ conns' = conns
  <2>1. cr \in Object /\ obj \in Object
    BY DEF TypeOK, ClusterTypeOK
  <2>2. c \in Object
    BY <2>1, Zenon DEF Object
  <2>3. pc = "removeFinalizer" /\ cache' = cache /\ conns' = conns
    BY DEF RemoveFinalizer, UpdateThen
  <2>4. cr.deleting
    BY <2>3 DEF Protection, DeletionSteps
  <2>. QED
    BY <2>1, <2>2, <2>3, <2>4
<1>2. \/ Stores(Updated(c)) /\ pc' = "idle"
      \/ Misses(c, Updated(c)) /\ Fail("plain", "ConnectorReady")
  BY <1>1, UpdateEffect, Zenon DEF RemoveFinalizer, UpdateThen, Return
<1>3. version = "latest" => cr = obj /\ watch = <<>> /\ cache = cr
  BY <1>1, StepsDiffer DEF Agreement, Protection, DeletionSteps
<1>4. SoundIn(obj, obj, conns) /\ KnownIn(cr, conns)
  BY StoredIsSound DEF Tracking, CopySound
<1>5. Updated(c) = NoObject
  BY <1>1 DEF Updated, Collected, Object
<1>6. KnownIn(NoObject, conns)
  BY DEF KnownIn, NoObject, CondTypes
<1>7. KnownIn(c, conns) /\ c.id = cr.id
  BY <1>1, <1>4 DEF KnownIn, Object
<1>8. AccountSound'
  BY <1>1, SameAccount DEF Tracking
<1>9. CopiesSound'
  <2>1. CASE obj' = obj /\ watch' = watch
    BY <1>1, <2>1 DEF Tracking, CopiesSound
  <2>2. CASE version = "latest" /\ Announces(NoObject)
    <3>1. obj # NoObject
      BY <1>1, <1>3, <2>2 DEF NoObject
    <3>2. obj' = NoObject /\ watch' = <<NoObject>>
      BY <1>3, <2>2, <3>1 DEF Announces
    <3>3. SoundIn(cache, NoObject, conns)
      <4>1. Doomed(obj) => conns[obj.id].state # "live"
        BY <1>1, <1>3, <2>2 DEF Tracking, CopySound, IsLive, Doomed, Object
      <4>. QED
        BY <1>1, <1>3, <1>4, <2>2, <4>1 DEF SoundIn, Shielded
    <3>4. SoundIn(NoObject, NoObject, conns)
      BY <1>6, NoObjectType, SelfSound DEF NoObject
    <3>5. Len(watch') = 1 /\ watch'[1] = NoObject
      BY <3>2
    <3>. QED
      BY <1>1, <3>2, <3>3, <3>4, <3>5 DEF CopiesSound
  <2>. QED
    BY <1>2, <1>5, <2>1, <2>2 DEF Stores, Misses
<1>10. CASE Stores(Updated(c)) /\ pc' = "idle"
  BY <1>1, <1>5, <1>6, <1>8, <1>9, <1>10, OverTracks DEF Stores
<1>11. CASE Misses(c, Updated(c)) /\ Fail("plain", "ConnectorReady")
  <2>1. cr' = c /\ (version' = "latest" => version = "latest" /\ obj' = obj)
    BY <1>11 DEF Misses
  <2>2. version' = "latest" => obj'.live /\ (cr'.id # NoId => obj'.finalizer)
    BY <1>1, <1>3, <1>4, <1>7, <2>1 DEF SoundIn, NoObject
  <2>3. pc' \in ErrorSteps /\ err'.cond = "ConnectorReady"
    BY <1>11, Exits, FailConditions
  <2>. QED
    BY <1>1, <1>7, <1>8, <1>9, <2>1, <2>2, <2>3, FailTracks
<1>. QED
  BY <1>2, <1>10, <1>11

LEMMA FinalizerTracks ==
  ASSUME TypeOK, TypeOK', Protection, Agreement, Tracking, EnsureFinalizer
  PROVE  Tracking'
<1> DEFINE c == [cr EXCEPT !.finalizer = TRUE]
<1>1. /\ c \in Object /\ cr \in Object /\ obj \in Object /\ pc = "ensureFinalizer"
      /\ c.live /\ c.finalizer /\ c.id = NoId /\ c.cond = cr.cond
      /\ cache' = cache /\ conns' = conns
  <2>1. cr \in Object /\ obj \in Object
    BY DEF TypeOK, ClusterTypeOK
  <2>2. pc = "ensureFinalizer" /\ cache' = cache /\ conns' = conns
    BY DEF EnsureFinalizer, UpdateThen
  <2>3. cr.live /\ cr.id = NoId
    BY <2>2 DEF Protection, Tracking, CopySound
  <2>4. c \in Object /\ c.live = cr.live /\ c.finalizer /\ c.id = cr.id /\ c.cond = cr.cond
    BY <2>1, Zenon DEF Object
  <2>. QED
    BY <2>1, <2>2, <2>3, <2>4
<1>2. \/ Stores(Updated(c)) /\ AfterFinalizer(c)
      \/ Misses(c, Updated(c)) /\ Fail("plain", "ConnectorReady")
  BY <1>1, UpdateEffect, Zenon DEF EnsureFinalizer, UpdateThen
<1>3. version = "latest" => cr = obj /\ obj.id = NoId /\ obj.live
  BY <1>1, StepsDiffer DEF Agreement, Protection, Tracking, CopySound
<1>4. SoundIn(obj, obj, conns) /\ KnownIn(obj, conns) /\ KnownIn(cr, conns)
  BY StoredIsSound DEF Tracking, CopySound, SoundIn
<1>5. KnownIn(c, conns)
  BY <1>1, <1>4 DEF KnownIn, Tracking, CopySound
<1>6. AccountSound' /\ CopiesAge
  BY <1>1, SameAccount DEF Tracking
<1>7. /\ Updated(c).live /\ Updated(c).finalizer /\ Updated(c).id = obj.id
      /\ Updated(c).cond = obj.cond /\ Updated(c) \in Object
  BY <1>1, StoredFields, MoreStoredFields, StoredObjects, Zenon
<1>8. SoundIn(Updated(c), Updated(c), conns)
  <2>1. KnownIn(Updated(c), conns)
    BY <1>4, <1>7 DEF KnownIn
  <2>. QED
    BY <1>7, <2>1, SelfSound
<1>9. CopiesSound'
  <2>1. CASE obj' = obj /\ watch' = watch
    BY <1>1, <2>1 DEF Tracking, CopiesSound
  <2>2. CASE version = "latest" /\ Announces(Updated(c))
    <3>1. Follows(obj, obj') /\ SoundIn(obj', obj', conns')
      BY <1>1, <1>3, <1>8, <2>2 DEF Announces, Follows
    <3>. QED
      BY <1>1, <1>6, <2>2, <3>1, AnnouncedCopies, CopiesStay DEF Tracking
  <2>. QED
    BY <1>2, <2>1, <2>2 DEF Stores, Misses
<1>10. CASE Stores(Updated(c)) /\ AfterFinalizer(c)
  <2>1. cr' = Updated(c) /\ cr'.id = NoId /\ KnownIn(cr', conns')
    BY <1>1, <1>3, <1>7, <1>8, <1>10 DEF Stores, SoundIn
  <2>2. \/ pc' \in {"idle", "removeForce"}
        \/ pc' = "resolveSecrets" /\ loc'.id = c.id /\ (loc'.connector \/ c.id # NoId)
    BY <1>1, <1>5, <1>10, DecideHolds, Zenon DEF AfterFinalizer, Goto
  <2>3. CopySound'
    BY <2>1, <2>2, StepsDiffer DEF CopySound, ErrorSteps
  <2>4. HoldsId'
    <3>1. CASE pc' \in {"idle", "removeForce"}
      BY <3>1, OutsideHolds
    <3>2. CASE pc' = "resolveSecrets" /\ loc'.id = c.id /\ (loc'.connector \/ c.id # NoId)
      <4>1. "resolveSecrets" \notin Addressed \cup ErrorSteps
        BY AddressedNames DEF ErrorSteps
      <4>. QED
        BY <1>1, <2>1, <3>2, <4>1 DEF HoldsId
    <3>. QED
      BY <2>2, <3>1, <3>2
  <2>. QED
    BY <1>6, <1>9, <2>3, <2>4 DEF Tracking
<1>11. CASE Misses(c, Updated(c)) /\ Fail("plain", "ConnectorReady")
  <2>1. cr' = c /\ (version' = "latest" => version = "latest" /\ obj' = obj)
    BY <1>11 DEF Misses
  <2>2. version' = "latest" => obj'.live /\ (cr'.id # NoId => obj'.finalizer)
    BY <1>1, <1>3, <2>1
  <2>3. pc' \in ErrorSteps /\ err'.cond = "ConnectorReady"
    BY <1>11, Exits, FailConditions
  <2>. QED
    BY <1>1, <1>5, <1>6, <1>9, <2>1, <2>2, <2>3, FailTracks
<1>. QED
  BY <1>2, <1>10, <1>11

(* handleError writes a copy with the id of cr; it only sets SchemaReady   *)
(* to False when there is an id.                                           *)
LEMMA ErrorCopies ==
  ASSUME TypeOK, Tracking, HandleError \/ HandleSetupTestsFailed
  PROVE  /\ \E c \in Object :
               /\ c.id = cr.id /\ KnownIn(c, conns)
               /\ \/ Stores(StatusUpdated(c))
                  \/ Misses(c, StatusUpdated(c)) /\ pc' = "idle"
         /\ pc' \in ErrorSteps => err' = err
         /\ conns' = conns
<1>1. cr \in Object /\ err.cond \in CondTypes /\ KnownIn(cr, conns)
  BY DEF TypeOK, Errors, Tracking, CopySound
<1>2. CASE HandleError
  <2> DEFINE c == setCondition(cr, err.cond, "False")
  <2>1. c \in Object /\ c.id = cr.id
    BY <1>1, ConditionField, ErrorNames DEF setCondition, Object
  <2>2. pc = "handleError" /\ pc' = "idle" /\ conns' = conns
    BY <1>2 DEF HandleError, Return
  <2>3. KnownIn(c, conns)
    <3>1. err.cond = "SchemaReady" => cr.id # NoId
      BY <2>2 DEF Tracking, HoldsId, ErrorSteps
    <3>2. err.cond # "SchemaReady" => c.cond["SchemaReady"] = cr.cond["SchemaReady"]
      BY <1>1 DEF setCondition, Object, CondTypes
    <3>. QED
      BY <1>1, <2>1, <3>1, <3>2 DEF KnownIn
  <2> HIDE DEF c
  <2>4. \/ StatusUpdate(c, "ok") /\ cr' = StatusUpdated(c)
        \/ StatusUpdate(c, "error") /\ cr' = c
    BY <1>2 DEF HandleError, c
  <2>5. Stores(StatusUpdated(c)) \/ Misses(c, StatusUpdated(c))
    BY <2>1, <2>4, StatusUpdateEffect
  <2>. QED
    BY <2>1, <2>2, <2>3, <2>5, StepsDiffer
<1>3. CASE HandleSetupTestsFailed
  <2> DEFINE c == setCondition(cr, "ConnectorReady", "True")
  <2>1. c \in Object /\ c.id = cr.id
    BY <1>1, ConditionField, ErrorNames DEF setCondition, Object
  <2>2. conns' = conns /\ (pc' \in ErrorSteps => err' = err)
    BY <1>3, StepsDiffer DEF HandleSetupTestsFailed, Return, Goto
  <2>3. KnownIn(c, conns)
    <3>1. c.cond["SchemaReady"] = cr.cond["SchemaReady"]
      BY <1>1 DEF setCondition, Object, CondTypes
    <3>. QED
      BY <1>1, <2>1, <3>1 DEF KnownIn
  <2> HIDE DEF c
  <2>4. \/ StatusUpdate(c, "ok") /\ cr' = StatusUpdated(c)
        \/ StatusUpdate(c, "error") /\ cr' = c /\ pc' = "idle"
    BY <1>3 DEF HandleSetupTestsFailed, c, Return
  <2>5. \/ Stores(StatusUpdated(c))
        \/ Misses(c, StatusUpdated(c)) /\ pc' = "idle"
    BY <2>1, <2>4, StatusUpdateEffect
  <2>. QED
    BY <2>1, <2>2, <2>3, <2>5
<1>. QED
  BY <1>2, <1>3

LEMMA ErrorTracks ==
  ASSUME TypeOK, TypeOK', Protection, Agreement, Tracking,
         HandleError \/ HandleSetupTestsFailed
  PROVE  Tracking' /\ Follows(obj, obj')
<1>1. PICK c \in Object :
         /\ c.id = cr.id /\ KnownIn(c, conns)
         /\ \/ Stores(StatusUpdated(c))
            \/ Misses(c, StatusUpdated(c)) /\ pc' = "idle"
  BY ErrorCopies
<1>2. /\ pc \in ErrorSteps /\ pc' \in {"idle"} \cup ErrorSteps
      /\ cache' = cache /\ conns' = conns /\ (pc' \in ErrorSteps => err' = err)
  BY ErrorEffect, ErrorCopies
<1>3. AccountSound' /\ CopiesAge
  BY <1>2, SameAccount DEF Tracking
<1>4. SoundIn(obj, obj, conns) /\ KnownIn(obj, conns) /\ obj \in Object
  BY StoredIsSound DEF Tracking, SoundIn, TypeOK, ClusterTypeOK
<1>5. ASSUME version = "latest"
      PROVE  /\ Follows(obj, StatusUpdated(c))
             /\ SoundIn(StatusUpdated(c), StatusUpdated(c), conns)
             /\ StatusUpdated(c).live /\ StatusUpdated(c).id = cr.id
             /\ cr.id # NoId => StatusUpdated(c).finalizer
  <2>1. obj.live /\ (cr.id # NoId => obj.finalizer)
    BY <1>2, <1>5 DEF Tracking, CopySound
  <2>2. obj.id # NoId => cr.id = obj.id
    BY <1>2, <1>5 DEF Agreement
  <2>3. /\ StatusUpdated(c) \in Object
        /\ StatusUpdated(c).live /\ StatusUpdated(c).finalizer = obj.finalizer
        /\ StatusUpdated(c).id = c.id /\ StatusUpdated(c).cond = c.cond
        /\ StatusUpdated(c).deleting = obj.deleting
        /\ StatusUpdated(c).allowDeletion = obj.allowDeletion
    BY <2>1, StoredFields, MoreStoredFields, StoredObjects, Zenon
  <2>4. KnownIn(StatusUpdated(c), conns)
    BY <1>1, <2>3 DEF KnownIn
  <2>5. SoundIn(StatusUpdated(c), StatusUpdated(c), conns)
    BY <1>1, <2>1, <2>3, <2>4, SelfSound
  <2>6. Follows(obj, StatusUpdated(c))
    BY <1>1, <2>2, <2>3 DEF Follows, Doomed
  <2>. QED
    BY <1>1, <2>1, <2>3, <2>5, <2>6
<1>6. Follows(obj, obj)
  BY DEF Follows
<1>7. /\ Follows(obj, obj') /\ SoundIn(obj', obj', conns')
      /\ watch' = watch \/ watch' = Append(watch, obj')
      /\ KnownIn(cr', conns')
  <2>1. CASE Stores(StatusUpdated(c))
    BY <1>2, <1>5, <2>1, Zenon DEF Stores, Announces, SoundIn
  <2>2. CASE Misses(c, StatusUpdated(c))
    BY <1>1, <1>2, <1>4, <1>5, <1>6, <2>2 DEF Misses, Announces
  <2>. QED
    BY <1>1, <2>1, <2>2
<1>8. CopiesSound'
  BY <1>2, <1>3, <1>7, CopiesStay DEF Tracking
<1>9. CASE pc' = "idle"
  BY <1>3, <1>7, <1>8, <1>9, OverTracks
<1>10. CASE pc' \in ErrorSteps
  <2>1. /\ cr' = StatusUpdated(c) /\ obj' = StatusUpdated(c) /\ version = "latest"
    BY <1>1, <1>10, StepsDiffer DEF Stores, Announces
  <2>2. CopySound'
    BY <1>5, <1>7, <1>10, <2>1, StepsDiffer DEF CopySound, DeletionSteps
  <2>3. HoldsId'
    BY <1>2, <1>5, <1>10, <2>1, FailHolds DEF Tracking, HoldsId
  <2>. QED
    BY <1>3, <1>7, <1>8, <2>2, <2>3 DEF Tracking
<1>. QED
  BY <1>2, <1>7, <1>9, <1>10

-----------------------------------------------------------------------------
(* Users and the environment.                                              *)

LEMMA UserVersion ==
  ASSUME TypeOK, Agreement, Tracking, NEW new, UserObject(new)
  PROVE  /\ new \in Object /\ Follows(obj, new) /\ SoundIn(new, new, conns)
         /\ new.id = obj.id \/ (new = NoObject /\ obj.id = NoId)
<1>1. obj \in Object /\ new \in Object
  BY UserObjectType DEF TypeOK, ClusterTypeOK
<1>2. SoundIn(obj, obj, conns) /\ KnownIn(obj, conns)
  BY StoredIsSound DEF Tracking, SoundIn
<1>3. ASSUME ~obj.live PROVE obj.id = NoId
  BY <1>2, <1>3 DEF SoundIn, NoObject
<1>4. CASE ~obj.live
  <2>1. new.id = obj.id /\ new.live /\ new.id = NoId /\ new.cond = NoObject.cond
    <3>1. PICK c \in ConnSpecs, s \in SchemaSpecs \cup {NoSchema},
               ann \in ConnIds \cup {NoId}, allow \in BOOLEAN :
            new = [NoObject EXCEPT !.live = TRUE, !.connector = c, !.schema = s,
                                   !.annId = ann, !.allowDeletion = allow]
      BY <1>4, Zenon DEF UserObject
    <3>. QED
      BY <1>3, <1>4, <3>1 DEF NoObject
  <2>2. KnownIn(new, conns)
    BY <2>1 DEF KnownIn, NoObject, CondTypes
  <2>. QED
    BY <1>1, <1>3, <1>4, <2>1, <2>2, SelfSound DEF Follows
<1>5. CASE /\ obj.live /\ new.live /\ new.id = obj.id /\ new.cond = obj.cond
           /\ new.finalizer = obj.finalizer
           /\ obj.deleting => new.deleting
           /\ obj.allowDeletion => new.allowDeletion
  <2>1. KnownIn(new, conns)
    BY <1>2, <1>5 DEF KnownIn
  <2>2. SoundIn(new, new, conns)
    BY <1>1, <1>2, <1>5, <2>1, SelfSound DEF SoundIn
  <2>3. Follows(obj, new)
    BY <1>5 DEF Follows, Doomed
  <2>. QED
    BY <1>1, <1>5, <2>2, <2>3
<1>6. CASE obj.live /\ new = NoObject /\ ~obj.finalizer
  <2>1. obj.id = NoId
    BY <1>2, <1>6 DEF SoundIn
  <2>2. KnownIn(new, conns)
    BY <1>6 DEF KnownIn, NoObject, CondTypes
  <2>3. SoundIn(new, new, conns)
    BY <1>1, <1>6, <2>2, SelfSound DEF NoObject
  <2>. QED
    BY <1>1, <1>6, <2>1, <2>3 DEF Follows
<1>7. obj.live =>
        \/ /\ new.live /\ new.id = obj.id /\ new.cond = obj.cond
           /\ new.finalizer = obj.finalizer
           /\ obj.deleting => new.deleting
           /\ obj.allowDeletion => new.allowDeletion
        \/ new = NoObject /\ ~obj.finalizer
  <2>1. ASSUME obj.live, NEW c \in ConnSpecs, NEW s \in SchemaSpecs \cup {NoSchema},
               new = [obj EXCEPT !.connector = c, !.schema = s]
        PROVE  /\ new.live /\ new.id = obj.id /\ new.cond = obj.cond
               /\ new.finalizer = obj.finalizer
               /\ obj.deleting => new.deleting
               /\ obj.allowDeletion => new.allowDeletion
    BY <1>1, <2>1 DEF Object
  <2>2. CASE obj.live /\ (new = [obj EXCEPT !.force = TRUE] \/ new = [obj EXCEPT !.allowDeletion = TRUE])
    BY <1>1, <2>2 DEF Object
  <2>3. CASE obj.live /\ new = Collected([obj EXCEPT !.deleting = TRUE])
    BY <1>1, <2>3 DEF Object, Collected
  <2>. QED
    BY <2>1, <2>2, <2>3, Zenon DEF UserObject
<1>. QED
  BY <1>4, <1>5, <1>6, <1>7

LEMMA UsersTrack ==
  ASSUME TypeOK, TypeOK', Agreement, Tracking, UserActs
  PROVE  Tracking'
<1>1. PICK new : UserObject(new) /\ UserWrite(new)
  BY UserEffect
<1>2. /\ obj' = new /\ watch' = Append(watch, obj') /\ version' = "outdated"
      /\ cache' = cache /\ pc' = pc /\ cr' = cr /\ loc' = loc /\ err' = err
      /\ conns' = conns
  BY <1>1 DEF UserWrite, Store, UserActs, controller
<1>3. Follows(obj, obj') /\ SoundIn(obj', obj', conns')
  BY <1>1, <1>2, UserVersion
<1>4. AccountSound' /\ CopiesAge
  BY <1>2, SameAccount DEF Tracking
<1>5. CopiesSound'
  BY <1>2, <1>3, <1>4, CopiesStay DEF Tracking
<1>6. HoldsId'
  BY <1>2 DEF Tracking, HoldsId
<1>7. pc' = "vaultClient" => SoundIn(cr', obj', conns')
  BY <1>2, <1>3, CopyStays DEF Tracking, CopySound, TypeOK, ClusterTypeOK, Ages
<1>8. pc' = "deleteConnection" =>
        /\ Doomed(cr')
        /\ (Doomed(obj') /\ obj'.id = cr'.id) \/ ~IsLive(cr.id)
  BY <1>2, <1>3 DEF Tracking, CopySound, Follows, Doomed
<1>9. pc' \in GuardedSteps /\ cr'.id # NoId => obj'.id = cr'.id
  BY <1>2, <1>3 DEF Tracking, CopySound, Follows
<1>10. CopySound'
  BY <1>2, <1>7, <1>8, <1>9, Zenon DEF Tracking, CopySound, Doomed, IsLive
<1>. QED
  BY <1>4, <1>5, <1>6, <1>10 DEF Tracking

LEMMA EnvironmentTracks ==
  ASSUME TypeOK, TypeOK', Agreement, Tracking
  PROVE  /\ Informs => Tracking'
         /\ Requeued => Tracking'
         /\ Restart => Tracking'
         /\ \A id \in ConnIds : DeletedElsewhere(id) => Tracking'
<1>1. obj \in Object /\ cr \in Object /\ cache \in Object /\ watch \in Seq(Object)
  BY DEF TypeOK, ClusterTypeOK
<1>2. ASSUME UNCHANGED <<obj, cr, version, conns, pc, loc, err>>
      PROVE  AccountSound' /\ HoldsId' /\ CopySound'
  BY <1>2, Zenon DEF Tracking, AccountSound, HoldsId, CopySound, Doomed, IsLive
<1>3. ASSUME Informs PROVE Tracking'
  <2>1. /\ watch # <<>> /\ cache' = Head(watch) /\ watch' = Tail(watch)
        /\ UNCHANGED <<obj, cr, version, conns, pc, loc, err>>
    BY <1>3 DEF Informs, Deliver, controller
  <2>2. \A i \in 1..Len(watch) : SoundIn(watch[i], obj, conns)
    BY DEF Tracking, CopiesSound
  <2>3. SoundIn(cache', obj', conns')
    <3>1. Head(watch) = watch[1] /\ 1 \in 1..Len(watch)
      BY <1>1, <2>1
    <3>. QED
      BY <2>1, <2>2, <3>1
  <2>4. \A i \in 1..Len(watch') : watch'[i] = watch[i + 1] /\ i + 1 \in 1..Len(watch)
    BY <1>1, <2>1
  <2>5. \A i \in 1..Len(watch') : SoundIn(watch'[i], obj', conns')
    BY <2>1, <2>2, <2>4
  <2>. QED
    BY <1>2, <2>1, <2>3, <2>5 DEF Tracking, CopiesSound
<1>4. ASSUME Requeued PROVE Tracking'
  <2>1. UNCHANGED <<obj, cache, watch, cr, version, conns, pc, loc, err>>
    BY <1>4 DEF Requeued, TimerFires, controller
  <2>. QED
    BY <1>2, <2>1 DEF Tracking, CopiesSound
<1>5. ASSUME Restart PROVE Tracking'
  <2>1. /\ obj' = obj /\ cache' = obj /\ watch' = <<>> /\ pc' = "idle"
        /\ cr' = NoObject /\ conns' = conns
    BY <1>5 DEF Restart
  <2>2. SoundIn(obj, obj, conns)
    BY StoredIsSound DEF Tracking
  <2>3. CopiesSound' /\ AccountSound'
    BY <2>1, <2>2 DEF CopiesSound, Tracking, AccountSound
  <2>4. KnownIn(cr', conns')
    BY <2>1 DEF KnownIn, NoObject, CondTypes
  <2>. QED
    BY <2>1, <2>3, <2>4, OverTracks
<1>6. ASSUME NEW id \in ConnIds, DeletedElsewhere(id) PROVE Tracking'
  <2>1. /\ IsLive(id) /\ conns' = [conns EXCEPT ![id].state = "deleted"]
        /\ UNCHANGED <<obj, cache, watch, cr, version, pc, loc, err>>
    BY <1>6 DEF DeletedElsewhere, controller
  <2>2. /\ AccountSound' /\ CopiesAge /\ \A o \in Object : Ages(o, conns, conns')
    BY <2>1, DeletedSound, Zenon DEF Tracking
  <2>3. CopiesSound'
    BY <1>1, <2>1, <2>2, CopiesAgeSound DEF Tracking
  <2>4. Follows(obj, obj)
    BY DEF Follows
  <2>5. KnownIn(cr', conns')
    BY <1>1, <2>1, <2>2, KnownStays, Zenon DEF Tracking, CopySound
  <2>6. pc' = "vaultClient" => SoundIn(cr', obj', conns')
    BY <1>1, <2>1, <2>2, <2>4, CopyStays, Zenon DEF Tracking, CopySound
  <2>7. /\ \A other : ~IsLive(other) => ~IsLive(other)'
        /\ \A other \in ConnIds : conns[other].state # "unused" => conns'[other].state # "unused"
    <3>1. conns \in [ConnIds -> Connection] /\ conns[id].state = "live"
      BY <2>1 DEF TypeOK, IsLive
    <3>2. \A other \in ConnIds : \/ other # id /\ conns'[other] = conns[other]
                                 \/ other = id /\ conns'[other].state = "deleted"
      BY <2>1, <3>1 DEF Connection
    <3>. QED
      BY <3>2 DEF IsLive
  <2>8. CopySound'
    <3>1. (~IsLive(cr.id)) => ~(IsLive(cr.id)')
      BY <2>1, <2>7 DEF IsLive
    <3>. QED
      BY <2>1, <2>5, <2>6, <3>1 DEF Tracking, CopySound, Doomed
  <2>9. HoldsId'
    BY <2>1, <2>7 DEF Tracking, HoldsId
  <2>. QED
    BY <2>2, <2>3, <2>8, <2>9 DEF Tracking
<1>. QED
  BY <1>3, <1>4, <1>5, <1>6

LEMMA InitTracks == Init => Tracking
<1> SUFFICES ASSUME Init PROVE Tracking
  OBVIOUS
<1>1. /\ pc = "idle" /\ cr = NoObject /\ cache = NoObject /\ obj = NoObject /\ watch = <<>>
      /\ conns = [id \in ConnIds |->
                    NewConnection(IF id \in Existing THEN "live" ELSE "unused")]
  BY DEF Init, ClusterInit
<1>2. KnownIn(NoObject, conns)
  BY DEF KnownIn, NoObject, CondTypes
<1>3. SoundIn(NoObject, NoObject, conns)
  BY <1>2, NoObjectType, SelfSound DEF NoObject
<1>4. AccountSound
  BY <1>1, ExistingAssumption DEF AccountSound, NewConnection
<1>5. CopiesSound
  BY <1>1, <1>3 DEF CopiesSound
<1>6. CopySound
  BY <1>1, <1>2, StepsDiffer DEF CopySound
<1>7. HoldsId
  BY <1>1, AddressedNames, StepsDiffer DEF HoldsId
<1>. QED
  BY <1>4, <1>5, <1>6, <1>7 DEF Tracking

-----------------------------------------------------------------------------
(* The theorems.                                                           *)

LEMMA Tracks == ASSUME IInv, Tracking, [Next]_vars PROVE Tracking'
<1> USE DEF IInv
<1>1. TypeOK'
  BY NextType
<1>2. CASE GuardedStep
  BY <1>1, <1>2, GuardedTracks
<1>3. CASE GetResource \/ EnsureVaultClient
  BY <1>1, <1>3, StartTracks
<1>4. CASE DeleteConnection
  BY <1>1, <1>4, DeleteTracks
<1>5. CASE RemoveFinalizer
  BY <1>1, <1>5, RemoveTracks
<1>6. CASE EnsureFinalizer
  BY <1>1, <1>6, FinalizerTracks
<1>7. CASE HandleError \/ HandleSetupTestsFailed
  BY <1>1, <1>7, ErrorTracks
<1>8. CASE UserActs
  BY <1>1, <1>8, UsersTrack
<1>9. CASE Informs \/ Requeued \/ Restart \/ \E id \in ConnIds : DeletedElsewhere(id)
  BY <1>1, <1>9, EnvironmentTracks
<1>10. CASE UNCHANGED vars
  <2>1. UNCHANGED <<obj, cache, watch, version, pc, cr, loc, err, conns>>
    BY <1>10 DEF vars, cluster, controller
  <2>. QED
    BY <2>1, Zenon DEF Tracking, AccountSound, CopiesSound, CopySound, HoldsId, Doomed, IsLive
<1>. QED
  BY <1>2, <1>3, <1>4, <1>5, <1>6, <1>7, <1>8, <1>9, <1>10, Zenon
     DEF Next, Reconcile, GuardedStep

(* The stored copies, the reconcile's copy and the id it holds stay sound  *)
(* through every step of Reconcile, of users and of the environment.       *)
THEOREM TrackingHolds == Spec => [](IInv /\ Tracking)
<1>1. Init => IInv /\ Tracking
  BY InitType, InitProtected, InitAgrees, InitTracks DEF IInv
<1>2. IInv /\ Tracking /\ [Next]_vars => (IInv /\ Tracking)'
  BY Inductive, Tracks
<1>. QED
  BY <1>1, <1>2, PTL DEF Spec

(* Every call that addresses a connection uses the non-empty id in the     *)
(* status of the reconcile's copy: reconcileSchema never runs without a    *)
(* connector id, though nothing in it looks.                               *)
THEOREM CallsAreAddressed == Spec => []TargetsTrackedConnection
<1>1. Tracking => TargetsTrackedConnection
  BY DEF Tracking, HoldsId, TargetsTrackedConnection, Addressed
<1>. QED
  BY <1>1, TrackingHolds, PTL

(* handleConnectorFromAnnotation neither tracks nor changes a connection   *)
(* whose service, group or schema name differs, and no other step does.    *)
THEOREM ForeignIsSpared == Spec => []ForeignLeftAlone
<1>1. IInv /\ Tracking => ForeignLeftAlone
  <2> SUFFICES ASSUME IInv, Tracking PROVE ForeignLeftAlone
    OBVIOUS
  <2>1. SoundIn(obj, obj, conns)
    BY StoredIsSound DEF IInv, Tracking
  <2>2. NoId \notin Foreign
    BY ExistingAssumption, ConstantsAssumption
  <2>. QED
    BY <2>1, <2>2 DEF Tracking, AccountSound, SoundIn, KnownIn, ForeignLeftAlone
<1>. QED
  BY <1>1, TrackingHolds, PTL

(* removeFinalizer lets a resource that is being deleted go, and not       *)
(* before a connection that was to go with it.                             *)
LEMMA RemoveEffect ==
  ASSUME IInv, Tracking, RemoveFinalizer
  PROVE  /\ UNCHANGED conns
         /\ \/ UNCHANGED obj
            \/ /\ obj' = NoObject /\ obj.live /\ obj.deleting
               /\ Doomed(obj) => ~IsLive(obj.id)
<1> USE DEF IInv
<1> DEFINE c == [cr EXCEPT !.finalizer = FALSE]
<1>1. cr \in Object /\ obj \in Object /\ pc = "removeFinalizer" /\ conns' = conns
  BY DEF TypeOK, ClusterTypeOK, RemoveFinalizer, UpdateThen
<1>2. c \in Object
  BY <1>1, Zenon DEF Object
<1>3. Stores(Updated(c)) \/ Misses(c, Updated(c))
  BY <1>2, UpdateEffect, Zenon DEF RemoveFinalizer, UpdateThen
<1>4. CASE version = "latest" /\ obj' = Updated(c)
  <2>1. cr = obj /\ cr.deleting /\ (Doomed(cr) => ~IsLive(cr.id))
    BY <1>1, <1>4, StepsDiffer
       DEF Agreement, Protection, Tracking, CopySound, DeletionSteps
  <2>2. obj' = NoObject
    BY <1>1, <1>4, <2>1 DEF Updated, Collected, Object
  <2>3. obj.live
    <3>1. SoundIn(obj, obj, conns)
      BY StoredIsSound DEF Tracking
    <3>. QED
      BY <2>1, <3>1 DEF SoundIn, NoObject
  <2>. QED
    BY <1>1, <2>1, <2>2, <2>3
<1>. QED
  BY <1>1, <1>3, <1>4 DEF Stores, Misses, Announces

(* A step keeps the id of the resource and what dooms its connection,      *)
(* unless it removes the finalizer of a resource that is being deleted.    *)
LEMMA StepFollows ==
  ASSUME IInv, Tracking, [Next]_vars
  PROVE  \/ Follows(obj, obj')
         \/ /\ obj' = NoObject /\ obj.live /\ obj.deleting /\ UNCHANGED conns
            /\ Doomed(obj) => ~IsLive(obj.id)
<1> USE DEF IInv
<1>1. UNCHANGED obj => Follows(obj, obj')
  BY DEF Follows
<1>2. CASE GuardedStep
  <2>1. Advance
    BY <1>2, GuardedAdvances DEF Agreement
  <2>. QED
    BY <2>1, AdvanceStores, Zenon
<1>3. CASE \/ GetResource \/ EnsureVaultClient \/ DeleteConnection
           \/ Informs \/ Requeued \/ Restart
           \/ \E id \in ConnIds : DeletedElsewhere(id)
           \/ UNCHANGED vars
  <2>1. UNCHANGED obj
    BY <1>3 DEF GetResource, EnsureVaultClient, DeleteConnection, KeepsObject, Informs,
                Deliver, Requeued, TimerFires, Restart, DeletedElsewhere, vars, cluster
  <2>. QED
    BY <1>1, <2>1
<1>4. CASE RemoveFinalizer
  BY <1>1, <1>4, RemoveEffect
<1>5. CASE EnsureFinalizer
  <2> DEFINE c == [cr EXCEPT !.finalizer = TRUE]
  <2>1. cr \in Object /\ obj \in Object /\ pc = "ensureFinalizer"
    BY <1>5 DEF TypeOK, ClusterTypeOK, EnsureFinalizer
  <2>2. c \in Object
    BY <2>1, Zenon DEF Object
  <2>3. Stores(Updated(c)) \/ Misses(c, Updated(c))
    BY <1>5, <2>2, UpdateEffect, Zenon DEF EnsureFinalizer, UpdateThen
  <2>4. version = "latest" => obj.id = NoId
    BY <2>1, StepsDiffer DEF Agreement, Tracking, CopySound
  <2>. QED
    BY <1>1, <2>3, <2>4 DEF Stores, Misses, Announces, Follows
<1>6. CASE HandleError \/ HandleSetupTestsFailed
  BY <1>6, NextType, ErrorTracks
<1>7. CASE UserActs
  <2>1. PICK new : UserObject(new) /\ UserWrite(new)
    BY <1>7, UserEffect
  <2>2. obj' = new
    BY <2>1 DEF UserWrite, Store
  <2>. QED
    BY <2>1, <2>2, UserVersion
<1>. QED
  BY <1>2, <1>3, <1>4, <1>5, <1>6, <1>7, Zenon DEF Next, Reconcile, GuardedStep

(* removeFinalizer comes after DeleteConnection: a resource that allows    *)
(* deletion does not go away while its connection is live.                 *)
THEOREM DeletionIsAlwaysHonoured == Spec => DeletionIsHonoured
<1> DEFINE StoredSound == SoundIn(obj, obj, conns)
<1>0. IInv /\ Tracking => StoredSound
  BY StoredIsSound DEF IInv, Tracking
<1>1. ASSUME IInv, Tracking, StoredSound', [Next]_vars,
             obj.live, ~obj'.live, obj.finalizer, obj.allowDeletion
      PROVE  ~IsLive(obj.id)
  <2>1. obj.id = NoId => ~IsLive(obj.id)
    BY ConstantsAssumption DEF IsLive
  <2>2. obj' = NoObject
    BY <1>1 DEF SoundIn
  <2>3. CASE Follows(obj, obj')
    BY <2>1, <2>2, <2>3 DEF Follows, NoObject
  <2>4. CASE obj.deleting /\ (Doomed(obj) => ~IsLive(obj.id))
    BY <1>1, <2>1, <2>4 DEF Doomed
  <2>. QED
    BY <1>1, <2>3, <2>4, StepFollows
<1>2. IInv /\ Tracking /\ StoredSound' /\ [Next]_vars =>
        [obj.live /\ ~obj'.live /\ obj.finalizer /\ obj.allowDeletion => ~IsLive(obj.id)]_vars
  BY <1>1
<1> HIDE DEF StoredSound
<1>. QED
  BY <1>0, <1>2, TrackingHolds, PTL DEF Spec, DeletionIsHonoured

(* handleDeletion deletes the connection that the stored resource tracks,  *)
(* for a resource that is being deleted and allows it, also when it works  *)
(* on an old copy.                                                         *)
THEOREM OnlyTheDoomedAreDeleted == Spec => DeletesOnlyTheDoomed
<1>1. ASSUME IInv, Tracking, [Next]_vars,
             pc = "deleteConnection", pc' # pc, conns' # conns
      PROVE  /\ obj.live /\ obj.deleting /\ cr.allowDeletion
             /\ conns' = [conns EXCEPT ![obj.id].state = "deleted"]
  <2>1. DeleteConnection
    <3>1. pc \notin GuardedSteps \cup ErrorSteps
      BY <1>1, StepsDiffer DEF DeletionSteps
    <3>2. ~GuardedStep
      <4>1. GuardedStep => Advance
        BY <1>1, GuardedAdvances DEF IInv, Agreement
      <4>. QED
        BY <3>1, <4>1 DEF Advance
    <3>3. ~(HandleError \/ HandleSetupTestsFailed)
      BY <3>1 DEF HandleError, HandleSetupTestsFailed, ErrorSteps
    <3>4. ~(GetResource \/ EnsureVaultClient \/ EnsureFinalizer \/ RemoveFinalizer)
      BY <1>1 DEF GetResource, EnsureVaultClient, EnsureFinalizer, RemoveFinalizer
    <3>5. ~(Informs \/ Requeued \/ UserActs \/ Restart \/ UNCHANGED vars
              \/ \E id \in ConnIds : DeletedElsewhere(id))
      BY <1>1 DEF Informs, Requeued, UserActs, Restart, DeletedElsewhere, controller, vars
    <3>. QED
      BY <1>1, <3>2, <3>3, <3>4, <3>5, Zenon DEF Next, Reconcile, GuardedStep
  <2>2. IsLive(cr.id) /\ conns' = [conns EXCEPT ![cr.id].state = "deleted"]
    BY <1>1, <2>1 DEF DeleteConnection, Accepted, FivetranWrite
  <2>3. Doomed(cr) /\ Doomed(obj) /\ obj.id = cr.id
    BY <1>1, <2>2 DEF Tracking, CopySound
  <2>4. obj.live
    <3>1. SoundIn(obj, obj, conns)
      BY <1>1, StoredIsSound DEF IInv, Tracking
    <3>2. obj.live \/ obj = NoObject
      BY <3>1 DEF SoundIn
    <3>3. ~Doomed(NoObject)
      BY DEF Doomed, NoObject
    <3>. QED
      BY <2>3, <3>2, <3>3
  <2>. QED
    BY <2>2, <2>3, <2>4 DEF Doomed
<1>2. IInv /\ Tracking /\ [Next]_vars =>
        [pc = "deleteConnection" /\ pc' # pc /\ conns' # conns =>
           /\ obj.live /\ obj.deleting /\ cr.allowDeletion
           /\ conns' = [conns EXCEPT ![obj.id].state = "deleted"]]_vars
  BY <1>1
<1>. QED
  BY <1>2, TrackingHolds, PTL DEF Spec, DeletesOnlyTheDoomed
=============================================================================
