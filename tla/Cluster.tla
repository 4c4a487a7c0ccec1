------------------------------ MODULE Cluster ------------------------------
(***************************************************************************)
(* What surrounds the controller in the cluster, for one resource: the API *)
(* server's copy, the informer that feeds the controller's read cache, the *)
(* event filter, the workqueue, and the users who write the resource.      *)
(*                                                                         *)
(* The API server accepts a write only when it carries the resourceVersion *)
(* of the stored object.  Versions are not numbered here.  `version` says  *)
(* whether the running reconcile's copy still has the stored version: it   *)
(* is "latest" after a read of an up-to-date cache and "outdated" after    *)
(* every write that the reconcile does not know of.                        *)
(***************************************************************************)
EXTENDS FivetranConnector, Naturals, Sequences

CONSTANTS
    MaxEdits,    \* bound: writes by users
    MaxFaults,   \* bound: failures and adverse answers
    MaxLag       \* bound: versions the informer has not delivered yet

ASSUME BoundsAssumption ==
    MaxEdits \in Nat /\ MaxFaults \in Nat /\ MaxLag \in Nat \ {0}

VARIABLES
    obj,       \* the stored object
    cache,     \* the informer's copy, which r.Get reads
    watch,     \* versions stored after cache, oldest first
    queued,    \* the key is in the workqueue, to be handed to a worker
    timer,     \* a delayed or rate-limited requeue is pending
    version,   \* is the resourceVersion of the reconcile's copy the stored one?
    edits,     \* user writes left
    faults     \* failures left

cluster == <<obj, cache, watch, queued, timer, version, edits, faults>>

ClusterTypeOK ==
    /\ obj \in Object /\ cache \in Object /\ watch \in Seq(Object)
    /\ queued \in BOOLEAN /\ timer \in BOOLEAN
    /\ version \in {"latest", "outdated"}
    /\ edits \in 0..MaxEdits /\ faults \in 0..MaxFaults

ClusterInit ==
    /\ obj = NoObject /\ cache = NoObject /\ watch = <<>>
    /\ queued = FALSE /\ timer = FALSE /\ version = "outdated"
    /\ edits = MaxEdits /\ faults = MaxFaults

-----------------------------------------------------------------------------
(* API server.                                                             *)

(* The server stores a new version and announces it to the watchers.       *)
Store(new) ==
    /\ Len(watch) < MaxLag
    /\ obj' = new
    /\ watch' = Append(watch, new)

(* Update leaves the version alone when nothing changes.                   *)
StoreIfChanged(new) ==
    IF new = obj THEN UNCHANGED <<obj, watch>> ELSE Store(new)

(* An object marked for deletion goes away with its last finalizer.        *)
Collected(o) == IF o.deleting /\ ~o.finalizer THEN NoObject ELSE o

(* Something goes wrong, or Fivetran or Vault gives an adverse answer.     *)
Fault == faults > 0 /\ faults' = faults - 1

(* A write by the reconcile, with the answer it gets.  Refused when its    *)
(* copy is out of date; otherwise stored, or lost on the way there, or     *)
(* stored with the answer lost on the way back.                            *)
Write(stored, reply) ==
    \/ /\ reply = "ok" /\ version = "latest"
       /\ stored
       /\ UNCHANGED <<version, faults>>
    \/ /\ reply = "error" /\ version = "outdated"
       /\ UNCHANGED <<obj, watch, version, faults>>
    \/ /\ reply = "error" /\ version = "latest"
       /\ Fault
       /\ UNCHANGED <<obj, watch, version>>
    \/ /\ reply = "error" /\ version = "latest"
       /\ Fault
       /\ stored
       /\ version' = "outdated"

(* r.Update(c): persists metadata and spec, not the status.                *)
Updated(c) == Collected([c EXCEPT !.id = obj.id, !.cond = obj.cond])

Update(c, reply) == Write(StoreIfChanged(Updated(c)), reply)

(* r.Status().Update(c): persists the status only.  A condition carries    *)
(* the time of the write, so there is always something to store.           *)
StatusUpdated(c) == [obj EXCEPT !.id = c.id, !.cond = c.cond]

StatusUpdate(c, reply) == Write(Store(StatusUpdated(c)), reply)

-----------------------------------------------------------------------------
(* Informer and workqueue.                                                 *)

(* Variant: a deletion mark goes unnoticed.                                *)
SameGeneration_SpecOnly(old, new) ==
    old.connector = new.connector /\ old.schema = new.schema

(* metadata.generation follows the spec and the deletion timestamp.        *)
SameGeneration(old, new) ==
    /\ old.connector = new.connector
    /\ old.schema = new.schema
    /\ old.deleting = new.deleting

(* Variant: the predicate looks at the old object for the new one.         *)
LabelAdded_Removed(old, new) == old.force /\ ~new.force

(* The label predicate: only a label that is newly there counts.           *)
LabelAdded(old, new) == ~old.force /\ new.force

(* Variant: only the label predicate is installed.                         *)
PassesPredicates_LabelOnly(old, new) ==
    old.live # new.live \/ LabelAdded(old, new)

(* Variant: no predicate is installed.                                     *)
PassesPredicates_All(old, new) == TRUE

(* GenerationChangedPredicate or CustomLabelKeyChangedPredicate; neither   *)
(* filters creations and deletions.                                        *)
PassesPredicates(old, new) ==
    \/ old.live # new.live
    \/ ~SameGeneration(old, new)
    \/ LabelAdded(old, new)

Deliver ==
    /\ watch # <<>>
    /\ cache' = Head(watch)
    /\ watch' = Tail(watch)
    /\ queued' = (queued \/ PassesPredicates(cache, Head(watch)))
    /\ UNCHANGED <<obj, timer, version, edits, faults>>

(* The delaying queue hands the key over.                                  *)
TimerFires ==
    /\ timer
    /\ timer' = FALSE
    /\ queued' = TRUE
    /\ UNCHANGED <<obj, cache, watch, version, edits, faults>>

(* Nothing is running or waiting apart from the reconcile itself.          *)
NothingPending == ~queued /\ ~timer /\ watch = <<>>

-----------------------------------------------------------------------------
(* Users.  Their clients retry on conflict, so a write always applies to   *)
(* the stored object.                                                      *)

UserWrite(new) ==
    /\ edits > 0
    /\ edits' = edits - 1
    /\ Store(new)
    /\ version' = "outdated"
    /\ UNCHANGED <<cache, queued, timer, faults>>

(* A new resource, possibly asking to adopt connection ann, and possibly   *)
(* with the permission to delete its connection.                           *)
UserCreates(connector, schema, ann, allow) ==
    /\ ~obj.live
    /\ UserWrite([NoObject EXCEPT !.live = TRUE, !.connector = connector,
                                  !.schema = schema, !.annId = ann,
                                  !.allowDeletion = allow])

UserEdits(connector, schema) ==
    /\ obj.live
    /\ <<connector, schema>> # <<obj.connector, obj.schema>>
    /\ UserWrite([obj EXCEPT !.connector = connector, !.schema = schema])

UserForces ==
    /\ obj.live /\ ~obj.force
    /\ UserWrite([obj EXCEPT !.force = TRUE])

UserAllowsDeletion ==
    /\ obj.live /\ ~obj.allowDeletion
    /\ UserWrite([obj EXCEPT !.allowDeletion = TRUE])

UserDeletes ==
    /\ obj.live /\ ~obj.deleting
    /\ UserWrite(Collected([obj EXCEPT !.deleting = TRUE]))

Users(ids) ==
    \/ \E c \in ConnSpecs, s \in SchemaSpecs \cup {NoSchema} :
          \/ \E ann \in ids \cup {NoId}, allow \in BOOLEAN :
                UserCreates(c, s, ann, allow)
          \/ UserEdits(c, s)
    \/ UserForces
    \/ UserAllowsDeletion
    \/ UserDeletes
=============================================================================
