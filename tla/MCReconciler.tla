---------------------------- MODULE MCReconciler ----------------------------
(***************************************************************************)
(* Small instances of Reconciler.  Specs, schemas and ids are model values *)
(* given in the .cfg files; the attribute sets are given there too.        *)
(***************************************************************************)
EXTENDS ReconcilerRefinement, TLC

CONSTANTS c1, c2, s1, s2, f1, f2, f3

(* Connections the operator creates are interchangeable.                   *)
Interchangeable == Permutations(ConnIds \ Existing)
=============================================================================
