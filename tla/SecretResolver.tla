--------------------------- MODULE SecretResolver ---------------------------
(***************************************************************************)
(* The Vault references of one resource: resolveSecrets, which resolves    *)
(* spec.connector.config and then spec.connector.auth, each with a cache   *)
(* of its own, while Vault's secrets come, go and change; and what         *)
(* handleError makes of a failure.  Reconciler has all of this as one step *)
(* that may fail.                                                          *)
(*                                                                         *)
(* config and auth are functions from leaves to string values; a value is  *)
(* [form, path, key] with form "plain", "malformed" or "ref".  Go walks    *)
(* through maps in any order, so the leaves come in any order.             *)
(***************************************************************************)
EXTENDS Naturals, Sequences

CONSTANTS
    Specs,          \* values of [config, auth]
    Paths, Keys,    \* of Vault's secrets
    InitialVaults,  \* what Vault may hold at first
    MaxEdits,       \* bound: edits of the resource
    MaxRotations,   \* bound: changes of secrets
    MaxFaults       \* bound: failing calls

VARIABLES
    spec,        \* the stored [config, auth]
    condition,   \* ConnectorReady
    done,        \* <<>>, or <<the spec last resolved>>
    queued,      \* the resource is in the workqueue
    pc,          \* where the reconcile is
    cr,          \* the [config, auth] it works on
    todo,        \* leaves of the current call that are left
    cache,       \* the cache of the current call: path -> secret
    result,      \* call -> leaf -> the version its value comes from
    errs,        \* errors of the calls: "retry" or "stop"
    vault,       \* path -> [state, version, keys]
    left         \* how much of each bound is left

resource == <<spec, condition, done, queued>>
locals == <<cr, todo, cache, result, errs>>
vars == <<resource, pc, locals, vault, left>>

NoMap == [key \in {} |-> key]
Put(map, key, value) == [k \in DOMAIN map \cup {key} |-> IF k = key THEN value ELSE map[k]]

Calls == {"config", "auth"}
Secret == [state : {"absent", "deleted", "present"}, version : Nat, keys : SUBSET Keys]

(* A reference that is not malformed names a path.                         *)
ASSUME SpecsAssumption ==
    \A s \in Specs : \A call \in Calls : \A leaf \in DOMAIN s[call] :
        /\ s[call][leaf].form \in {"plain", "malformed", "ref"}
        /\ s[call][leaf].form = "ref" => s[call][leaf].path \in Paths

ASSUME VaultsAssumption == InitialVaults \subseteq [Paths -> Secret]

ASSUME BoundsAssumption == MaxEdits \in Nat /\ MaxRotations \in Nat /\ MaxFaults \in Nat

TypeOK ==
    /\ spec \in Specs /\ cr \in Specs
    /\ condition \in {"Unset", "True", "False"} /\ queued \in BOOLEAN
    /\ done = <<>> \/ done \in {<<s>> : s \in Specs}
    /\ pc \in Calls \cup {"idle", "resolved", "handleError"}
    /\ pc \in Calls => todo \subseteq DOMAIN cr[pc]
    /\ DOMAIN cache \subseteq Paths /\ \A p \in DOMAIN cache : cache[p] \in Secret
    /\ \A call \in Calls : DOMAIN result[call] \subseteq DOMAIN cr[call]
    /\ errs \in {<<>>} \cup {<<e>> : e \in {"retry", "stop"}}
                \cup {<<e, f>> : e, f \in {"retry", "stop"}}
    /\ \A p \in Paths : vault[p] \in Secret

NoResult == [call \in Calls |-> NoMap]

Init ==
    /\ spec \in Specs /\ condition = "Unset" /\ done = <<>> /\ queued = TRUE
    /\ pc = "idle" /\ cr = spec /\ todo = {} /\ cache = NoMap
    /\ result = NoResult /\ errs = <<>>
    /\ vault \in InitialVaults
    /\ left = [edits |-> MaxEdits, rotations |-> MaxRotations, faults |-> MaxFaults]

Fault == left.faults > 0 /\ left' = [left EXCEPT !.faults = @ - 1]

-----------------------------------------------------------------------------
(* resolveSecrets.                                                         *)

(* Reconcile, as far as there is something to do: the spec has changed     *)
(* since it was last applied, or the condition is False.                   *)
StartReconcile ==
    /\ pc = "idle" /\ queued
    /\ queued' = FALSE /\ cr' = spec
    /\ errs' = <<>> /\ result' = NoResult /\ cache' = NoMap
    /\ IF condition = "False" \/ done # <<spec>>
       THEN pc' = "config" /\ todo' = DOMAIN spec.config
       ELSE pc' = "idle" /\ todo' = {}
    /\ UNCHANGED <<spec, condition, done, vault, left>>

(* Variant: the second call gets the leaves of config again.               *)
Return_SameAgain(errors) ==
    /\ errs' = errors /\ cache' = NoMap
    /\ IF pc = "config"
       THEN pc' = "auth" /\ todo' = DOMAIN cr.config
       ELSE /\ pc' = IF errors = <<>> THEN "resolved" ELSE "handleError"
            /\ todo' = {}

(* A call of ResolveSecrets is over; the next one has a cache of its own.  *)
Return(errors) ==
    /\ errs' = errors /\ cache' = NoMap
    /\ IF pc = "config"
       THEN pc' = "auth" /\ todo' = DOMAIN cr.auth
       ELSE /\ pc' = IF errors = <<>> THEN "resolved" ELSE "handleError"
            /\ todo' = {}

(* Variant: an error of the auth call is forgotten.                        *)
ReturnError_ConfigOnly(error) ==
    /\ Return(IF pc = "config" THEN Append(errs, error) ELSE errs)
    /\ result' = [result EXCEPT ![pc] = NoMap]

(* The call fails at the first error, without a result.                    *)
ReturnError(error) ==
    /\ Return(Append(errs, error))
    /\ result' = [result EXCEPT ![pc] = NoMap]

(* A leaf has its value, from this version of the secret.                  *)
Resolve(leaf, version) ==
    /\ result' = [result EXCEPT ![pc] = Put(@, leaf, version)]
    /\ todo' = todo \ {leaf}
    /\ UNCHANGED <<pc, errs>>

(* A string that is no reference, or a malformed one, never gets to Vault. *)
ResolveLocal(leaf) ==
    /\ cr[pc][leaf].form # "ref"
    /\ IF cr[pc][leaf].form = "plain"
       THEN Resolve(leaf, 0) /\ UNCHANGED cache
       ELSE ReturnError("stop")
    /\ UNCHANGED left

(* The key is looked up in the secret.                                     *)
TakeKey(leaf, secret) ==
    IF cr[pc][leaf].key \in secret.keys
    THEN /\ Resolve(leaf, secret.version)
         /\ cache' = Put(cache, cr[pc][leaf].path, secret)
    ELSE ReturnError("stop")

(* getPathData, from the cache.                                            *)
ResolveCached(leaf) ==
    /\ cr[pc][leaf].form = "ref" /\ cr[pc][leaf].path \in DOMAIN cache
    /\ TakeKey(leaf, cache[cr[pc][leaf].path])
    /\ UNCHANGED left

(* KVv2.Get returns an error for a secret that is not there, and no data   *)
(* for one whose last version was deleted.                                 *)
GetSecret(leaf, secret) ==
    \/ secret.state = "present" /\ TakeKey(leaf, secret) /\ UNCHANGED left
    \/ secret.state = "absent" /\ ReturnError("retry") /\ UNCHANGED left
    \/ secret.state = "deleted" /\ ReturnError("stop") /\ UNCHANGED left
    \/ Fault /\ ReturnError("retry")

(* Variant: the cache is filled and not looked at.                         *)
ResolveFromVault_Always(leaf) ==
    /\ cr[pc][leaf].form = "ref"
    /\ GetSecret(leaf, vault[cr[pc][leaf].path])

(* getPathData, from Vault.                                                *)
ResolveFromVault(leaf) ==
    /\ cr[pc][leaf].form = "ref" /\ cr[pc][leaf].path \notin DOMAIN cache
    /\ GetSecret(leaf, vault[cr[pc][leaf].path])

ResolveString ==
    /\ pc \in Calls
    /\ \E leaf \in todo :
          ResolveLocal(leaf) \/ ResolveCached(leaf) \/ ResolveFromVault(leaf)
    /\ UNCHANGED <<resource, cr, vault>>

(* All leaves of the call have their values.                               *)
ReturnResolved ==
    /\ pc \in Calls /\ todo = {}
    /\ Return(errs)
    /\ UNCHANGED <<resource, cr, result, vault, left>>

(* The rest of the reconcile, taken to succeed.                            *)
UseSecrets ==
    /\ pc = "resolved" /\ pc' = "idle"
    /\ done' = <<cr>> /\ condition' = "True"
    /\ UNCHANGED <<spec, queued, locals, vault, left>>

(* Variant: failed calls are not retried either.                           *)
Requeues_Never == FALSE

(* errors.As finds the error of config before that of auth.                *)
Requeues == errs[1] = "retry"

HandleError ==
    /\ pc = "handleError" /\ pc' = "idle"
    /\ \/ /\ condition' = "False" /\ queued' = (queued \/ Requeues)
          /\ UNCHANGED left
       \/ Fault /\ queued' = TRUE /\ UNCHANGED condition
    /\ UNCHANGED <<spec, done, locals, vault>>

Reconcile ==
    \/ StartReconcile \/ ResolveString \/ ReturnResolved
    \/ UseSecrets \/ HandleError

-----------------------------------------------------------------------------
(* Users and Vault.                                                        *)

UserEdits ==
    /\ left.edits > 0 /\ left' = [left EXCEPT !.edits = @ - 1]
    /\ spec' \in Specs \ {spec} /\ queued' = TRUE
    /\ UNCHANGED <<condition, done, pc, locals, vault>>

(* A secret is written anew, or its last version is deleted.               *)
Rotate(path) ==
    /\ left.rotations > 0 /\ left' = [left EXCEPT !.rotations = @ - 1]
    /\ \/ \E keys \in SUBSET Keys \ {{}} :
             vault' = [vault EXCEPT ![path] = [state |-> "present", keys |-> keys,
                                               version |-> @.version + 1]]
       \/ /\ vault[path].state = "present"
          /\ vault' = [vault EXCEPT ![path].state = "deleted"]
    /\ UNCHANGED <<resource, pc, locals>>

Next == Reconcile \/ UserEdits \/ \E path \in Paths : Rotate(path)

Spec == Init /\ [][Next]_vars

(* The worker keeps going.                                                 *)
FairSpec == Spec /\ WF_vars(Reconcile)

-----------------------------------------------------------------------------
Rest == pc = "idle" /\ ~queued

(* Within config, and within auth, all values of one secret come from one  *)
(* version of it, however it changes meanwhile: no user name from before a *)
(* rotation with the password from after it.                               *)
OneVersionPerCall ==
    \A call \in Calls : \A l, m \in DOMAIN result[call] :
        /\ cr[call][l].form = "ref" /\ cr[call][m].form = "ref"
        /\ cr[call][l].path = cr[call][m].path
        => result[call][l] = result[call][m]

(* The reconcile goes on only with every leaf of config and auth resolved. *)
NothingUnresolved ==
    pc = "resolved" => \A call \in Calls : DOMAIN result[call] = DOMAIN cr[call]

(* A reference that cannot be resolved, whatever is tried again.           *)
Unresolvable(s) ==
    \E call \in Calls : \E l \in DOMAIN s[call] :
        \/ s[call][l].form = "malformed"
        \/ /\ s[call][l].form = "ref"
           /\ LET secret == vault[s[call][l].path]
              IN  \/ secret.state = "deleted"
                  \/ secret.state = "present" /\ s[call][l].key \notin secret.keys

(* As long as nobody changes the secrets, the operator stops trying only   *)
(* where the user has to act; failures that pass never end that way, also  *)
(* when config and auth fail in different ways.                            *)
StopsForGoodReason ==
    Rest /\ condition = "False" /\ left.rotations = MaxRotations => Unresolvable(spec)

(* Some referenced secret does not exist.                                  *)
Waiting ==
    \E call \in Calls : \E l \in DOMAIN spec[call] :
        spec[call][l].form = "ref" /\ vault[spec[call][l].path].state = "absent"

(* Unless a secret never comes into being, the resource as last edited is  *)
(* resolved in the end, or given up for a reason that trying again would   *)
(* not remove.                                                             *)
ResolvedOrStopped ==
    \/ <>[]Waiting
    \/ <>[](Rest /\ (done = <<spec>> \/ (condition = "False" /\ errs[1] = "stop")))
=============================================================================
