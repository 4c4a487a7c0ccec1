-------------------------- MODULE ManagedConnection --------------------------
(***************************************************************************)
(* What the operator promises about a resource and the connections of the  *)
(* account, without reconciles, caches, retries or versions.  Only what a  *)
(* user of kubectl and of Fivetran's dashboard sees is left: whether the   *)
(* resource is there, which connection it tracks, whether that one may be  *)
(* deleted with it, and the account.                                       *)
(***************************************************************************)
EXTENDS Naturals

CONSTANTS
    ConnIds, NoId,
    Connections,   \* what a connection can be, records with a field state
    Existing,      \* connections that were there before the operator
    Foreign        \* those that do not fit the resource

VARIABLES
    phase,     \* of the resource: "absent", "present" or "deleting"
    tracked,   \* the connection it tracks, or NoId
    allowed,   \* may the connection be deleted with the resource?
    account,   \* id -> the connection
    mishaps    \* failures that may still happen

vars == <<phase, tracked, allowed, account, mishaps>>

Init ==
    /\ phase = "absent" /\ tracked = NoId /\ allowed = FALSE
    /\ account \in [ConnIds -> Connections] /\ mishaps \in Nat

Live(id) == id \in ConnIds /\ account[id].state = "live"

-----------------------------------------------------------------------------
(* Users.                                                                  *)

Submit ==
    /\ phase = "absent" /\ phase' = "present"
    /\ allowed' \in BOOLEAN
    /\ UNCHANGED <<tracked, account>>

Allow ==
    /\ phase # "absent" /\ allowed' = TRUE
    /\ UNCHANGED <<phase, tracked, account>>

RequestDeletion ==
    /\ phase = "present" /\ phase' = "deleting"
    /\ UNCHANGED <<tracked, allowed, account>>

(* A resource without a connection may go at once.                         *)
Withdraw ==
    /\ phase = "present" /\ tracked = NoId
    /\ phase' = "absent" /\ allowed' = FALSE
    /\ UNCHANGED <<tracked, account>>

(* Mishap: a connection disappears from the account.                       *)
Vanish(id) ==
    /\ Live(id) /\ mishaps' < mishaps
    /\ account' = [account EXCEPT ![id].state = "deleted"]
    /\ UNCHANGED <<phase, tracked, allowed>>

-----------------------------------------------------------------------------
(* The operator.                                                           *)

(* A connection is made, for a resource that is there, and takes the place *)
(* of nothing that is tracked or was there before.                         *)
Create(id) ==
    /\ phase # "absent"
    /\ id \in ConnIds \ (Existing \cup {tracked})
    /\ \E new \in Connections :
          new.state = "live" /\ account' = [account EXCEPT ![id] = new]
    /\ UNCHANGED <<phase, tracked, allowed>>

(* The resource gets its connection, once and for all.                     *)
Track(id) ==
    /\ phase # "absent" /\ tracked = NoId
    /\ id \in ConnIds \ Foreign
    /\ tracked' = id
    /\ UNCHANGED <<phase, allowed, account>>

(* The tracked connection, and no other, is configured.                    *)
Configure ==
    /\ phase # "absent" /\ Live(tracked)
    /\ \E new \in Connections :
          new.state = "live" /\ account' = [account EXCEPT ![tracked] = new]
    /\ UNCHANGED <<phase, tracked, allowed>>

(* The tracked connection is deleted, for a resource that is on its way    *)
(* out and allows it.                                                      *)
Remove ==
    /\ phase = "deleting" /\ allowed /\ Live(tracked)
    /\ account' = [account EXCEPT ![tracked].state = "deleted"]
    /\ UNCHANGED <<phase, tracked, allowed>>

(* The resource goes, not before its connection if that was to go too.     *)
Finish ==
    /\ phase = "deleting" /\ phase' = "absent"
    /\ allowed => ~Live(tracked)
    /\ tracked' = NoId /\ allowed' = FALSE
    /\ UNCHANGED account

(* Mishap: something fails, and nothing comes of it.                       *)
Trouble ==
    /\ mishaps' < mishaps
    /\ UNCHANGED <<phase, tracked, allowed, account>>

Next ==
    /\ \/ Submit \/ Allow \/ RequestDeletion \/ Withdraw
       \/ \E id \in ConnIds : Vanish(id) \/ Create(id) \/ Track(id)
       \/ Configure \/ Remove \/ Finish \/ Trouble
    /\ mishaps' <= mishaps

Spec == Init /\ [][Next]_vars
==============================================================================
