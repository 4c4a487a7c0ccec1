------------------------ MODULE ReconcilerRefinement ------------------------
(***************************************************************************)
(* Reconciler implements ManagedConnection: the stored resource and the    *)
(* account, looked at without the machinery that writes them.              *)
(***************************************************************************)
EXTENDS Reconciler

Phase ==
    IF ~obj.live THEN "absent" ELSE IF obj.deleting THEN "deleting" ELSE "present"

Life == INSTANCE ManagedConnection
    WITH Connections <- Connection,
         phase <- Phase, tracked <- obj.id, allowed <- obj.allowDeletion,
         account <- conns, mishaps <- faults

(* Every step of users, informer, workqueue and reconcile is a step that   *)
(* ManagedConnection allows, or one that it does not see: a connection is  *)
(* tracked once, only the tracked connection is configured, only a doomed  *)
(* one is deleted, and what was there before is left alone.                *)
ImplementsManagedConnection == Life!Spec
=============================================================================
