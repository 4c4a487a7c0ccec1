------------------------ MODULE SecretResolverProofs ------------------------
(***************************************************************************)
(* For any specifications, any secrets and any changes of them, a call of  *)
(* ResolveSecrets gives values of one version per secret, a reconcile goes *)
(* on only with all of them, and is given up only where trying again would *)
(* not help.                                                               *)
(***************************************************************************)
EXTENDS SecretResolver, SequenceTheorems, TLAPS

(* Every reference that the call has resolved got its value from what the  *)
(* cache holds for its path.  The cache only grows during a call, which is *)
(* why a later reference to the same path gets the same version.           *)
FromCache(call) ==
    \A l \in DOMAIN result[call] :
        cr[call][l].form = "ref" =>
            /\ cr[call][l].path \in DOMAIN cache
            /\ result[call][l] = cache[cr[call][l].path].version

(* As long as there is no error, a leaf of a call is resolved or left.     *)
Covered ==
    /\ pc \in Calls => DOMAIN cr[pc] \subseteq todo \cup DOMAIN result[pc]
    /\ errs = <<>> /\ pc \in {"auth", "resolved"} =>
         DOMAIN cr["config"] \subseteq DOMAIN result["config"]
    /\ errs = <<>> /\ pc = "resolved" =>
         DOMAIN cr["auth"] \subseteq DOMAIN result["auth"]

Shapes ==
    /\ pc \in Calls \cup {"idle", "resolved", "handleError"}
    /\ DOMAIN result = Calls /\ result = [call \in Calls |-> result[call]]
    /\ pc \in Calls => todo \subseteq DOMAIN cr[pc]
    /\ \A call \in Calls : DOMAIN result[call] \subseteq DOMAIN cr[call]
    /\ errs \in Seq({"retry", "stop"})
    /\ pc = "resolved" => errs = <<>>
    /\ pc = "config" => result["auth"] = NoMap

IInv ==
    /\ Shapes /\ Covered
    /\ pc \in Calls => FromCache(pc)
    /\ OneVersionPerCall

-----------------------------------------------------------------------------
LEMMA CallNames == Calls = {"config", "auth"} /\ {"idle", "resolved", "handleError"} \cap Calls = {}
BY DEF Calls

LEMMA EmptyMap == DOMAIN NoMap = {}
BY DEF NoMap

LEMMA InitHolds == Init => IInv
<1> SUFFICES ASSUME Init PROVE IInv
  OBVIOUS
<1>1. pc = "idle" /\ result = NoResult /\ errs = <<>>
  BY DEF Init
<1>2. \A call \in Calls : DOMAIN result[call] = {}
  BY <1>1, EmptyMap DEF NoResult
<1>3. Shapes
  BY <1>1, <1>2, CallNames DEF Shapes, NoResult
<1>4. Covered /\ OneVersionPerCall
  BY <1>1, <1>2, CallNames DEF Covered, OneVersionPerCall
<1>. QED
  BY <1>1, <1>3, <1>4, CallNames DEF IInv

(* A call ends with the results it has, or without.                        *)
LEMMA ReturnHolds ==
  ASSUME IInv, pc \in Calls, NEW errors \in Seq({"retry", "stop"}), Return(errors), cr' = cr,
         \/ result' = result /\ todo = {} /\ errors = errs
         \/ result' = [result EXCEPT ![pc] = NoMap] /\ errors # <<>>
  PROVE  IInv'
<1>1. /\ errs' = errors
      /\ pc = "config" => pc' = "auth" /\ todo' = DOMAIN cr["auth"]
      /\ pc = "auth" => /\ pc' \in {"resolved", "handleError"}
                        /\ pc' = "resolved" => errors = <<>>
  BY CallNames DEF Return
<1>2. /\ DOMAIN result' = Calls /\ result' = [call \in Calls |-> result'[call]]
      /\ \A call \in Calls : result'[call] = result[call] \/ result'[call] = NoMap
      /\ pc = "config" => result'["auth"] = NoMap
      /\ errors = <<>> => result' = result /\ todo = {} /\ errs = <<>>
  BY CallNames DEF IInv, Shapes
<1>3. \A call \in Calls : DOMAIN result'[call] \subseteq DOMAIN cr[call]
  BY <1>2, EmptyMap DEF IInv, Shapes
<1>4. Shapes'
  BY <1>1, <1>2, <1>3, CallNames DEF Shapes
<1>5. Covered'
  BY <1>1, <1>2, CallNames DEF IInv, Covered
<1>6. (pc \in Calls => FromCache(pc))'
  BY <1>1, <1>2, EmptyMap, CallNames DEF FromCache
<1>7. OneVersionPerCall'
  BY <1>2, EmptyMap DEF IInv, OneVersionPerCall
<1>. QED
  BY <1>4, <1>5, <1>6, <1>7 DEF IInv

LEMMA ErrorHolds ==
  ASSUME IInv, pc \in Calls, NEW error \in {"retry", "stop"}, ReturnError(error), cr' = cr
  PROVE  IInv'
<1>1. errs \in Seq({"retry", "stop"})
  BY DEF IInv, Shapes
<1>2. Append(errs, error) \in Seq({"retry", "stop"}) /\ Append(errs, error) # <<>>
  BY <1>1
<1>. QED
  BY <1>2, ReturnHolds DEF ReturnError

(* A leaf gets a value: of a string that is no reference, or of the secret *)
(* that the cache holds from now on.                                       *)
LEMMA ResolveHolds ==
  ASSUME IInv, pc \in Calls, NEW leaf \in todo, NEW version, Resolve(leaf, version), cr' = cr,
         DOMAIN cache \subseteq DOMAIN cache',
         \A p \in DOMAIN cache : cache'[p] = cache[p],
         cr[pc][leaf].form = "ref" =>
             /\ cr[pc][leaf].path \in DOMAIN cache'
             /\ version = cache'[cr[pc][leaf].path].version
  PROVE  IInv'
<1>1. pc' = pc /\ errs' = errs /\ todo' = todo \ {leaf}
  BY DEF Resolve
<1>2. /\ DOMAIN result' = Calls /\ result' = [call \in Calls |-> result'[call]]
      /\ \A call \in Calls \ {pc} : result'[call] = result[call]
      /\ result'[pc] = Put(result[pc], leaf, version)
  <2> DEFINE new == Put(result[pc], leaf, version)
  <2>1. result' = [result EXCEPT ![pc] = new] /\ DOMAIN result = Calls
    BY DEF Resolve, IInv, Shapes
  <2> HIDE DEF new
  <2>2. /\ DOMAIN result' = Calls /\ result' = [call \in Calls |-> result'[call]]
        /\ \A call \in Calls \ {pc} : result'[call] = result[call]
        /\ result'[pc] = new
    BY <2>1
  <2>. QED
    BY <2>2 DEF new
<1>3. /\ DOMAIN result'[pc] = DOMAIN result[pc] \cup {leaf}
      /\ result'[pc][leaf] = version
      /\ \A l \in DOMAIN result[pc] \ {leaf} : result'[pc][l] = result[pc][l]
  BY <1>2 DEF Put
<1>4. leaf \in DOMAIN cr[pc]
  BY DEF IInv, Shapes
<1>5. Shapes'
  BY <1>1, <1>2, <1>3, <1>4, CallNames DEF IInv, Shapes
<1>6. Covered'
  BY <1>1, <1>2, <1>3, CallNames DEF IInv, Covered
<1>7. (pc \in Calls => FromCache(pc))'
  BY <1>1, <1>3 DEF IInv, FromCache
<1>8. OneVersionPerCall'
  <2> SUFFICES ASSUME NEW call \in Calls, NEW l \in DOMAIN result'[call],
                      NEW m \in DOMAIN result'[call],
                      cr[call][l].form = "ref", cr[call][m].form = "ref",
                      cr[call][l].path = cr[call][m].path
               PROVE  result'[call][l] = result'[call][m]
    BY DEF OneVersionPerCall
  <2>1. CASE call = pc
    BY <1>1, <1>7, <2>1 DEF FromCache
  <2>2. CASE call # pc
    BY <1>2, <2>2 DEF IInv, OneVersionPerCall
  <2>. QED
    BY <2>1, <2>2
<1>. QED
  BY <1>5, <1>6, <1>7, <1>8 DEF IInv

LEMMA TakeKeyHolds ==
  ASSUME IInv, pc \in Calls, NEW leaf \in todo, NEW secret, TakeKey(leaf, secret), cr' = cr,
         cr[pc][leaf].path \in DOMAIN cache => secret = cache[cr[pc][leaf].path]
  PROVE  IInv'
<1>1. CASE cr[pc][leaf].key \in secret.keys
  <2>1. /\ Resolve(leaf, secret.version)
        /\ cache' = Put(cache, cr[pc][leaf].path, secret)
    BY <1>1 DEF TakeKey
  <2> DEFINE path == cr[pc][leaf].path
  <2>2. /\ DOMAIN cache' = DOMAIN cache \cup {path}
        /\ cache'[path] = secret
        /\ \A p \in DOMAIN cache : cache'[p] = cache[p]
    <3>1. cache' = Put(cache, path, secret) /\ (path \in DOMAIN cache => secret = cache[path])
      BY <2>1
    <3> HIDE DEF path
    <3>. QED
      BY <3>1 DEF Put
  <2>. QED
    BY <2>1, <2>2, ResolveHolds
<1>2. CASE cr[pc][leaf].key \notin secret.keys
  BY <1>2, ErrorHolds DEF TakeKey
<1>. QED
  BY <1>1, <1>2

LEMMA ResolveStringHolds == ASSUME IInv, ResolveString PROVE IInv'
<1>1. pc \in Calls /\ cr' = cr
  BY DEF ResolveString
<1>2. PICK leaf \in todo :
         ResolveLocal(leaf) \/ ResolveCached(leaf) \/ ResolveFromVault(leaf)
  BY DEF ResolveString
<1>3. CASE ResolveLocal(leaf)
  <2>1. CASE cr[pc][leaf].form = "plain"
    BY <1>1, <1>3, <2>1, ResolveHolds DEF ResolveLocal
  <2>2. CASE cr[pc][leaf].form # "plain"
    BY <1>1, <1>3, <2>2, ErrorHolds DEF ResolveLocal
  <2>. QED
    BY <2>1, <2>2
<1>4. CASE ResolveCached(leaf)
  BY <1>1, <1>4, TakeKeyHolds DEF ResolveCached
<1>5. CASE ResolveFromVault(leaf)
  <2>1. \/ TakeKey(leaf, vault[cr[pc][leaf].path])
        \/ ReturnError("retry") \/ ReturnError("stop")
    BY <1>5 DEF ResolveFromVault, GetSecret
  <2>2. cr[pc][leaf].path \notin DOMAIN cache
    BY <1>5 DEF ResolveFromVault
  <2>. QED
    BY <1>1, <2>1, <2>2, TakeKeyHolds, ErrorHolds
<1>. QED
  BY <1>2, <1>3, <1>4, <1>5

LEMMA StartHolds == ASSUME StartReconcile PROVE IInv'
<1>1. /\ result' = NoResult /\ errs' = <<>> /\ cr' = spec
      /\ \/ pc' = "config" /\ todo' = DOMAIN spec.config
         \/ pc' = "idle" /\ todo' = {}
  BY DEF StartReconcile
<1>2. \A call \in Calls : result'[call] = NoMap /\ DOMAIN result'[call] = {}
  BY <1>1, EmptyMap DEF NoResult
<1>3. Shapes'
  BY <1>1, <1>2, CallNames DEF Shapes, NoResult
<1>4. Covered' /\ OneVersionPerCall' /\ (pc \in Calls => FromCache(pc))'
  BY <1>1, <1>2, CallNames DEF Covered, OneVersionPerCall, FromCache
<1>. QED
  BY <1>3, <1>4 DEF IInv

(* The other steps leave the results alone.                                *)
LEMMA OthersHold ==
  ASSUME IInv, UNCHANGED locals, pc' = pc \/ pc' = "idle"
  PROVE  IInv'
<1>1. UNCHANGED <<cr, todo, cache, result, errs>>
  BY DEF locals
<1>2. Shapes'
  BY <1>1, CallNames DEF IInv, Shapes
<1>3. Covered' /\ OneVersionPerCall'
  BY <1>1, CallNames DEF IInv, Covered, OneVersionPerCall
<1>4. (pc \in Calls => FromCache(pc))'
  BY <1>1, CallNames DEF IInv, FromCache
<1>. QED
  BY <1>1, <1>2, <1>3, <1>4 DEF IInv

LEMMA StepHolds == ASSUME IInv, [Next]_vars PROVE IInv'
<1>1. CASE StartReconcile
  BY <1>1, StartHolds
<1>2. CASE ResolveString
  BY <1>2, ResolveStringHolds
<1>3. CASE ReturnResolved
  <2>1. errs \in Seq({"retry", "stop"})
    BY DEF IInv, Shapes
  <2>. QED
    BY <1>3, <2>1, ReturnHolds DEF ReturnResolved
<1>4. CASE UseSecrets \/ HandleError
  BY <1>4, OthersHold DEF UseSecrets, HandleError
<1>5. CASE UserEdits \/ \E path \in Paths : Rotate(path)
  BY <1>5, OthersHold DEF UserEdits, Rotate
<1>6. CASE UNCHANGED vars
  BY <1>6, OthersHold DEF vars
<1>. QED
  BY <1>1, <1>2, <1>3, <1>4, <1>5, <1>6, Zenon DEF Next, Reconcile

(* However secrets change while resolveSecrets runs, the values that it    *)
(* takes from one secret for config, and for auth, are of one version.     *)
THEOREM OneVersion == Spec => []OneVersionPerCall
<1>1. IInv => OneVersionPerCall
  BY DEF IInv
<1>. QED
  BY <1>1, InitHolds, StepHolds, PTL DEF Spec

(* resolveSecrets succeeds only with every leaf of config and auth.        *)
THEOREM AllResolved == Spec => []NothingUnresolved
<1>1. IInv => NothingUnresolved
  BY CallNames DEF IInv, Shapes, Covered, NothingUnresolved
<1>. QED
  BY <1>1, InitHolds, StepHolds, PTL DEF Spec

-----------------------------------------------------------------------------
(* Types.  What remains of TypeOK besides Shapes, and what keeps the       *)
(* errors at one for each call.                                            *)
Types ==
    /\ spec \in Specs /\ cr \in Specs
    /\ condition \in {"Unset", "True", "False"} /\ queued \in BOOLEAN
    /\ done = <<>> \/ done \in {<<s>> : s \in Specs}
    /\ DOMAIN cache \subseteq Paths /\ \A p \in DOMAIN cache : cache[p] \in Secret
    /\ vault \in [Paths -> Secret]
    /\ left \in [edits : Nat, rotations : Nat, faults : Nat]
    /\ left.rotations \leq MaxRotations

OneError == {<<e>> : e \in {"retry", "stop"}}
TwoErrors == {<<e, f>> : e, f \in {"retry", "stop"}}

ErrorPerCall ==
    /\ pc = "config" => errs = <<>>
    /\ pc = "auth" => errs \in {<<>>} \cup OneError
    /\ errs \in {<<>>} \cup OneError \cup TwoErrors

LEMMA InitTyped == Init => Types /\ ErrorPerCall
BY EmptyMap, VaultsAssumption, BoundsAssumption DEF Init, Types, ErrorPerCall

LEMMA OneMoreError ==
  ASSUME NEW error \in {"retry", "stop"}
  PROVE  /\ Append(<<>>, error) \in OneError
         /\ \A e \in OneError : Append(e, error) \in TwoErrors
<1>1. Append(<<>>, error) = <<error>>
  OBVIOUS
<1>2. ASSUME NEW a \in {"retry", "stop"} PROVE Append(<<a>>, error) = <<a, error>>
  <2>. DEFINE old == <<a>>  both == Append(old, error)  two == <<a, error>>
  <2>1. old \in Seq({"retry", "stop"}) /\ Len(old) = 1 /\ old[1] = a
    OBVIOUS
  <2>2. two \in Seq({"retry", "stop"}) /\ Len(two) = 2 /\ two[1] = a /\ two[2] = error
    OBVIOUS
  <2>. HIDE DEF old, two
  <2>3. both \in Seq({"retry", "stop"}) /\ Len(both) = 2 /\ both[1] = a /\ both[2] = error
    <3>1. error \in {"retry", "stop"}
      OBVIOUS
    <3>2. /\ both \in Seq({"retry", "stop"}) /\ Len(both) = Len(old) + 1
          /\ \A i \in 1 .. Len(old) : both[i] = old[i]
          /\ both[Len(old) + 1] = error
      BY <2>1, <3>1, AppendProperties, Zenon
    <3>. HIDE DEF both
    <3>. QED
      BY <2>1, <3>2
  <2>. HIDE DEF both
  <2>4. both = two
    BY <2>2, <2>3, SeqEqual
  <2>. QED
    BY <2>4 DEF both, old, two
<1>. QED
  <2>1. Append(<<>>, error) \in OneError
    BY <1>1 DEF OneError
  <2>2. ASSUME NEW e \in OneError PROVE Append(e, error) \in TwoErrors
    <3>1. PICK a \in {"retry", "stop"} : e = <<a>>
      BY DEF OneError
    <3>2. Append(e, error) = <<a, error>>
      BY <3>1, <1>2, Zenon
    <3>. QED
      BY <3>2 DEF TwoErrors
  <2>. QED
    BY <2>1, <2>2

(* The two ways in which a call ends.                                      *)
LEMMA ReturnErrors ==
  ASSUME ErrorPerCall, pc \in Calls, NEW errors, Return(errors),
         errors = errs \/ \E error \in {"retry", "stop"} : errors = Append(errs, error)
  PROVE  ErrorPerCall'
<1>1. /\ errs' = errors
      /\ pc = "config" => pc' = "auth"
      /\ pc = "auth" => pc' \in {"resolved", "handleError"}
  BY CallNames DEF Return
<1>2. pc = "config" => errors \in {<<>>} \cup OneError
  BY OneMoreError DEF ErrorPerCall
<1>3. pc = "auth" => errors \in {<<>>} \cup OneError \cup TwoErrors
  BY OneMoreError DEF ErrorPerCall
<1>. QED
  BY <1>1, <1>2, <1>3, CallNames DEF ErrorPerCall

LEMMA ReturnTyped ==
  ASSUME Types, NEW errors, Return(errors), UNCHANGED <<resource, cr, vault>>,
         left' \in [edits : Nat, rotations : Nat, faults : Nat],
         left'.rotations = left.rotations
  PROVE  Types'
BY EmptyMap DEF Types, Return, resource

LEMMA FaultTyped ==
  ASSUME Types, Fault
  PROVE  /\ left' \in [edits : Nat, rotations : Nat, faults : Nat]
         /\ left'.rotations = left.rotations
BY DEF Types, Fault

(* ResolveString takes a secret from the cache, or from Vault.             *)
LEMMA TakeKeyTyped ==
  ASSUME Types, ErrorPerCall, pc \in Calls, NEW leaf \in todo, cr[pc][leaf].path \in Paths,
         NEW secret \in Secret, TakeKey(leaf, secret), UNCHANGED <<resource, cr, vault, left>>
  PROVE  Types' /\ ErrorPerCall'
<1>1. CASE cr[pc][leaf].key \in secret.keys
  <2>1. /\ pc' = pc /\ errs' = errs
        /\ cache' = Put(cache, cr[pc][leaf].path, secret)
    BY <1>1 DEF TakeKey, Resolve
  <2>2. ErrorPerCall'
    BY <2>1 DEF ErrorPerCall
  <2> DEFINE path == cr[pc][leaf].path
  <2>3. DOMAIN cache' = DOMAIN cache \cup {path} /\ \A p \in DOMAIN cache' : cache'[p] \in Secret
    <3>1. cache' = Put(cache, path, secret) /\ \A p \in DOMAIN cache : cache[p] \in Secret
      BY <2>1 DEF Types
    <3> HIDE DEF path
    <3>. QED
      BY <3>1 DEF Put
  <2>4. Types'
    BY <2>3 DEF Types, resource
  <2>. QED
    BY <2>2, <2>4
<1>2. CASE cr[pc][leaf].key \notin secret.keys
  <2>1. Return(Append(errs, "stop"))
    BY <1>2 DEF TakeKey, ReturnError
  <2>2. Types'
    BY <2>1, ReturnTyped DEF Types
  <2>. QED
    BY <2>1, <2>2, ReturnErrors
<1>. QED
  BY <1>1, <1>2

LEMMA ResolveStringTyped ==
  ASSUME IInv, Types, ErrorPerCall, ResolveString PROVE Types' /\ ErrorPerCall'
<1>1. pc \in Calls /\ UNCHANGED <<resource, cr, vault>>
  BY DEF ResolveString
<1>2. PICK leaf \in todo :
         ResolveLocal(leaf) \/ ResolveCached(leaf) \/ ResolveFromVault(leaf)
  BY DEF ResolveString
<1>3. leaf \in DOMAIN cr[pc] /\ cr \in Specs
  BY <1>1 DEF IInv, Shapes, Types
<1>4. cr[pc][leaf].form = "ref" => cr[pc][leaf].path \in Paths
  BY <1>1, <1>3, SpecsAssumption
<1>5. ASSUME NEW error \in {"retry", "stop"}, ReturnError(error), UNCHANGED left \/ Fault
      PROVE  Types' /\ ErrorPerCall'
  <2>1. Return(Append(errs, error))
    BY <1>5 DEF ReturnError
  <2>2. /\ left' \in [edits : Nat, rotations : Nat, faults : Nat]
        /\ left'.rotations = left.rotations
    BY <1>5, FaultTyped DEF Types
  <2>3. Types'
    BY <1>1, <2>1, <2>2, ReturnTyped
  <2>. QED
    BY <1>1, <2>1, <2>3, ReturnErrors
<1>6. CASE ResolveLocal(leaf)
  <2>1. CASE cr[pc][leaf].form = "plain"
    <3>1. UNCHANGED <<cache, pc, errs, left>>
      BY <1>6, <2>1 DEF ResolveLocal, Resolve
    <3>. QED
      BY <1>1, <3>1 DEF Types, ErrorPerCall, resource
  <2>2. CASE cr[pc][leaf].form # "plain"
    BY <1>5, <1>6, <2>2 DEF ResolveLocal
  <2>. QED
    BY <2>1, <2>2
<1>7. CASE ResolveCached(leaf)
  <2>1. /\ cr[pc][leaf].form = "ref" /\ cr[pc][leaf].path \in DOMAIN cache
        /\ TakeKey(leaf, cache[cr[pc][leaf].path]) /\ UNCHANGED left
    BY <1>7 DEF ResolveCached
  <2>2. cache[cr[pc][leaf].path] \in Secret
    BY <2>1 DEF Types
  <2>. QED
    BY <1>1, <1>4, <2>1, <2>2, TakeKeyTyped
<1>8. CASE ResolveFromVault(leaf)
  <2>1. /\ cr[pc][leaf].path \in Paths /\ vault[cr[pc][leaf].path] \in Secret
        /\ \/ TakeKey(leaf, vault[cr[pc][leaf].path]) /\ UNCHANGED left
           \/ \E error \in {"retry", "stop"} : ReturnError(error) /\ (UNCHANGED left \/ Fault)
    BY <1>4, <1>8 DEF ResolveFromVault, GetSecret, Types
  <2>. QED
    BY <1>1, <1>5, <2>1, TakeKeyTyped
<1>. QED
  BY <1>2, <1>6, <1>7, <1>8

LEMMA RotateTyped ==
  ASSUME Types, NEW path \in Paths, Rotate(path) PROVE Types'
<1>1. /\ UNCHANGED <<spec, cr, condition, queued, done, cache>>
      /\ left.rotations > 0 /\ left' = [left EXCEPT !.rotations = @ - 1]
  BY DEF Rotate, resource, locals
<1>2. left' \in [edits : Nat, rotations : Nat, faults : Nat] /\ left'.rotations \leq MaxRotations
  BY <1>1, BoundsAssumption DEF Types
<1>3. vault \in [Paths -> Secret] /\ vault[path] \in Secret
  BY DEF Types
<1>4. vault' \in [Paths -> Secret]
  <2>1. CASE vault' = [vault EXCEPT ![path].state = "deleted"]
    BY <1>3, <2>1 DEF Secret
  <2>2. CASE \E keys \in SUBSET Keys :
               vault' = [vault EXCEPT ![path] = [state |-> "present", keys |-> keys,
                                                 version |-> @.version + 1]]
    BY <1>3, <2>2 DEF Secret
  <2>. QED
    BY <2>1, <2>2 DEF Rotate
<1>. QED
  BY <1>1, <1>2, <1>4 DEF Types

LEMMA StepTyped ==
  ASSUME IInv, Types, ErrorPerCall, [Next]_vars PROVE Types' /\ ErrorPerCall'
<1>1. CASE StartReconcile
  <2>1. /\ UNCHANGED <<spec, condition, done, vault, left>>
        /\ cr' = spec /\ queued' = FALSE /\ cache' = NoMap /\ errs' = <<>>
    BY <1>1 DEF StartReconcile
  <2>2. Types'
    BY <2>1, EmptyMap DEF Types
  <2>. QED
    BY <2>1, <2>2 DEF ErrorPerCall
<1>2. CASE ResolveString
  BY <1>2, ResolveStringTyped
<1>3. CASE ReturnResolved
  <2>1. pc \in Calls /\ Return(errs) /\ UNCHANGED <<resource, cr, vault, left>>
    BY <1>3 DEF ReturnResolved
  <2>2. Types'
    BY <2>1, ReturnTyped DEF Types
  <2>. QED
    BY <2>1, <2>2, ReturnErrors
<1>4. CASE UseSecrets
  BY <1>4, CallNames DEF UseSecrets, locals, Types, ErrorPerCall
<1>5. CASE HandleError
  <2>1. UNCHANGED <<spec, done, cr, cache, errs, vault>> /\ pc' = "idle"
    BY <1>5 DEF HandleError, locals
  <2>2. condition' \in {"Unset", "True", "False"} /\ queued' \in BOOLEAN
    BY <1>5 DEF HandleError, Types
  <2>3. /\ left' \in [edits : Nat, rotations : Nat, faults : Nat]
        /\ left'.rotations = left.rotations
    BY <1>5, FaultTyped DEF HandleError, Types
  <2>. QED
    BY <2>1, <2>2, <2>3, CallNames DEF Types, ErrorPerCall
<1>6. CASE UserEdits
  BY <1>6 DEF UserEdits, locals, Types, ErrorPerCall
<1>7. CASE \E path \in Paths : Rotate(path)
  <2>1. UNCHANGED <<pc, errs>>
    BY <1>7 DEF Rotate, locals
  <2>. QED
    BY <1>7, <2>1, RotateTyped DEF ErrorPerCall
<1>8. CASE UNCHANGED vars
  BY <1>8 DEF vars, resource, locals, Types, ErrorPerCall
<1>. QED
  BY <1>1, <1>2, <1>3, <1>4, <1>5, <1>6, <1>7, <1>8, Zenon DEF Next, Reconcile

(* Every variable keeps its type; in particular each of the two calls adds *)
(* at most one error, and a cache holds secrets of the paths referred to.  *)
THEOREM TypesHold == Spec => []TypeOK
<1>1. IInv /\ Types /\ ErrorPerCall => TypeOK
  BY CallNames DEF IInv, Shapes, Types, ErrorPerCall, OneError, TwoErrors, TypeOK
<1>2. Init => IInv /\ Types /\ ErrorPerCall
  BY InitHolds, InitTyped
<1>3. (IInv /\ Types /\ ErrorPerCall) /\ [Next]_vars => (IInv /\ Types /\ ErrorPerCall)'
  BY StepHolds, StepTyped
<1>. QED
  BY <1>1, <1>2, <1>3, PTL DEF Spec

-----------------------------------------------------------------------------
(* Giving up.  As long as no secret changes, the cache holds what Vault    *)
(* holds, a "stop" among the errors has a cause in the spec the reconcile  *)
(* works on, and that one is the stored spec unless the resource is queued *)
(* again.                                                                  *)
Founded(errors) ==
    \A i \in 1 .. Len(errors) : errors[i] = "stop" => Unresolvable(cr)

CacheCurrent ==
    \A p \in DOMAIN cache : cache[p] = vault[p] /\ vault[p].state = "present"

Stops ==
    /\ ~queued => cr = spec
    /\ pc = "handleError" => errs # <<>>
    /\ left.rotations = MaxRotations =>
         /\ CacheCurrent /\ Founded(errs)
         /\ StopsForGoodReason

LEMMA InitStops == Init => Stops
BY EmptyMap DEF Init, Stops, CacheCurrent, Founded, StopsForGoodReason, Rest

LEMMA FoundedAppend ==
  ASSUME Founded(errs), errs \in Seq({"retry", "stop"}), NEW error \in {"retry", "stop"},
         error = "stop" => Unresolvable(cr)
  PROVE  Founded(Append(errs, error))
<1> DEFINE both == Append(errs, error)
<1>1. /\ Len(both) = Len(errs) + 1 /\ Len(errs) \in Nat
      /\ \A i \in 1 .. Len(errs) : both[i] = errs[i]
      /\ both[Len(errs) + 1] = error
  BY AppendProperties, LenProperties
<1> HIDE DEF both
<1>2. Founded(both)
  BY <1>1 DEF Founded
<1>. QED
  BY <1>2 DEF both

(* What a step of ResolveSecrets comes to while no secret changes.         *)
Outcome ==
    \/ /\ UNCHANGED <<pc, errs>>
       /\ CacheCurrent'
    \/ /\ \E error \in {"retry", "stop"} :
             /\ Return(Append(errs, error))
             /\ error = "stop" => Unresolvable(cr)
       /\ cache' = NoMap

LEMMA TakeKeyOutcome ==
  ASSUME pc \in Calls, NEW leaf \in DOMAIN cr[pc], cr[pc][leaf].form = "ref",
         CacheCurrent, UNCHANGED vault,
         vault[cr[pc][leaf].path].state = "present",
         TakeKey(leaf, vault[cr[pc][leaf].path])
  PROVE  Outcome
<1> DEFINE path == cr[pc][leaf].path
<1>1. CASE cr[pc][leaf].key \in vault[path].keys
  <2>1. /\ UNCHANGED <<pc, errs>> /\ cache' = Put(cache, path, vault[path])
        /\ vault[path].state = "present"
    BY <1>1 DEF TakeKey, Resolve
  <2> HIDE DEF path
  <2>2. CacheCurrent'
    BY <2>1 DEF CacheCurrent, Put
  <2>. QED
    BY <2>1, <2>2 DEF Outcome
<1>2. CASE cr[pc][leaf].key \notin vault[path].keys
  <2>1. Return(Append(errs, "stop"))
    BY <1>2 DEF TakeKey, ReturnError
  <2>2. Unresolvable(cr)
    BY <1>2 DEF Unresolvable
  <2>. QED
    BY <2>1, <2>2 DEF Outcome, Return
<1>. QED
  BY <1>1, <1>2

LEMMA ResolveStringOutcome ==
  ASSUME IInv, Types, CacheCurrent, ResolveString
  PROVE  Outcome
<1>1. pc \in Calls /\ UNCHANGED vault
  BY DEF ResolveString
<1>2. PICK leaf \in todo :
         ResolveLocal(leaf) \/ ResolveCached(leaf) \/ ResolveFromVault(leaf)
  BY DEF ResolveString
<1>3. leaf \in DOMAIN cr[pc] /\ cr \in Specs
  BY <1>1 DEF IInv, Shapes, Types
<1>4. /\ cr[pc][leaf].form \in {"plain", "malformed", "ref"}
      /\ cr[pc][leaf].form = "ref" => cr[pc][leaf].path \in Paths
  BY <1>1, <1>3, SpecsAssumption
<1>5. CASE ResolveLocal(leaf)
  <2>1. CASE cr[pc][leaf].form = "plain"
    <3>1. UNCHANGED <<cache, pc, errs>>
      BY <1>5, <2>1 DEF ResolveLocal, Resolve
    <3>. QED
      BY <1>1, <3>1 DEF Outcome, CacheCurrent
  <2>2. CASE cr[pc][leaf].form = "malformed"
    <3>1. Return(Append(errs, "stop"))
      BY <1>5, <2>2 DEF ResolveLocal, ReturnError
    <3>2. Unresolvable(cr)
      BY <1>1, <1>3, <2>2 DEF Unresolvable
    <3>. QED
      BY <3>1, <3>2 DEF Outcome, Return
  <2>. QED
    BY <1>4, <1>5, <2>1, <2>2 DEF ResolveLocal
<1>6. CASE ResolveCached(leaf)
  <2>1. /\ cr[pc][leaf].form = "ref" /\ cr[pc][leaf].path \in DOMAIN cache
        /\ TakeKey(leaf, cache[cr[pc][leaf].path])
    BY <1>6 DEF ResolveCached
  <2>2. /\ cache[cr[pc][leaf].path] = vault[cr[pc][leaf].path]
        /\ vault[cr[pc][leaf].path].state = "present"
    BY <2>1 DEF CacheCurrent
  <2>. QED
    BY <1>1, <1>3, <2>1, <2>2, TakeKeyOutcome
<1>7. CASE ResolveFromVault(leaf)
  <2> DEFINE secret == vault[cr[pc][leaf].path]
  <2>1. cr[pc][leaf].form = "ref" /\ GetSecret(leaf, secret)
    BY <1>7 DEF ResolveFromVault
  <2>2. CASE secret.state = "present" /\ TakeKey(leaf, secret)
    BY <1>1, <1>3, <2>1, <2>2, TakeKeyOutcome
  <2>3. CASE ReturnError("retry")
    BY <2>3 DEF ReturnError, Return, Outcome
  <2>4. CASE secret.state = "deleted" /\ ReturnError("stop")
    <3>1. Unresolvable(cr)
      BY <1>1, <1>3, <2>1, <2>4 DEF Unresolvable
    <3>. QED
      BY <2>4, <3>1 DEF ReturnError, Return, Outcome
  <2>. QED
    BY <2>1, <2>2, <2>3, <2>4 DEF GetSecret
<1>. QED
  BY <1>2, <1>5, <1>6, <1>7

(* Where the resource is not touched and the reconcile is not over.        *)
LEMMA StopsWithin ==
  ASSUME Stops, UNCHANGED <<spec, condition, queued, cr, vault>>, pc' # "idle",
         pc' = "handleError" => errs' # <<>>,
         left'.rotations = left.rotations,
         left.rotations = MaxRotations => CacheCurrent' /\ Founded(errs')
  PROVE  Stops'
<1>1. left'.rotations = MaxRotations => Founded(errs)'
  BY DEF Founded, Unresolvable
<1>2. StopsForGoodReason'
  BY DEF StopsForGoodReason, Rest
<1>3. (~queued => cr = spec)'
  BY DEF Stops
<1>. QED
  BY <1>1, <1>2, <1>3 DEF Stops

LEMMA ReturnStops ==
  ASSUME pc \in Calls, NEW errors, Return(errors)
  PROVE  /\ pc' # "idle" /\ errs' = errors /\ cache' = NoMap
         /\ pc' = "handleError" => errors # <<>>
BY CallNames DEF Return

LEMMA ResolveStringStops ==
  ASSUME IInv, Types, Stops, ResolveString PROVE Stops'
<1>1. pc \in Calls /\ UNCHANGED <<spec, condition, queued, cr, vault>>
  BY DEF ResolveString, resource
<1>2. left'.rotations = left.rotations
  BY FaultTyped DEF ResolveString, ResolveLocal, ResolveCached, ResolveFromVault, GetSecret
<1>3. \/ UNCHANGED <<pc, errs>>
      \/ \E error \in {"retry", "stop"} : Return(Append(errs, error))
  BY DEF ResolveString, ResolveLocal, ResolveCached, ResolveFromVault, GetSecret,
         TakeKey, Resolve, ReturnError
<1>4. errs \in Seq({"retry", "stop"})
  BY DEF IInv, Shapes
<1>5. \A error \in {"retry", "stop"} : Append(errs, error) # <<>>
  BY <1>4, AppendProperties
<1>6. pc' # "idle" /\ (pc' = "handleError" => errs' # <<>>)
  BY <1>1, <1>3, <1>5, ReturnStops, CallNames
<1>7. ASSUME left.rotations = MaxRotations PROVE CacheCurrent' /\ Founded(errs')
  <2>1. CacheCurrent /\ Founded(errs)
    BY <1>7 DEF Stops
  <2>2. Outcome
    BY <2>1, ResolveStringOutcome
  <2>3. CASE UNCHANGED <<pc, errs>> /\ CacheCurrent'
    BY <2>1, <2>3
  <2>4. ASSUME NEW error \in {"retry", "stop"}, Return(Append(errs, error)),
               error = "stop" => Unresolvable(cr), cache' = NoMap
        PROVE  CacheCurrent' /\ Founded(errs')
    <3>1. Founded(Append(errs, error)) /\ errs' = Append(errs, error)
      BY <1>1, <1>4, <2>1, <2>4, FoundedAppend, ReturnStops
    <3>2. CacheCurrent'
      BY <2>4, EmptyMap DEF CacheCurrent
    <3>. QED
      BY <3>1, <3>2
  <2>. QED
    BY <2>2, <2>3, <2>4 DEF Outcome
<1>. QED
  BY <1>1, <1>2, <1>6, <1>7, StopsWithin

(* The resource is left to itself after a failure only where the first     *)
(* error is a "stop".                                                      *)
LEMMA HandleErrorStops ==
  ASSUME IInv, Types, Stops, HandleError PROVE Stops'
<1>1. UNCHANGED <<spec, cr, cache, errs, vault>> /\ pc = "handleError" /\ pc' = "idle"
  BY DEF HandleError, locals
<1>2. left'.rotations = left.rotations
  BY FaultTyped DEF HandleError
<1>3. errs # <<>> /\ errs \in Seq({"retry", "stop"})
  BY <1>1 DEF Stops, IInv, Shapes
<1>4. 1 \in 1 .. Len(errs) /\ errs[1] \in {"retry", "stop"}
  BY <1>3
<1>5. ~queued' => ~queued /\ errs[1] # "retry"
  BY DEF HandleError, Requeues
<1>6. (~queued => cr = spec)'
  BY <1>1, <1>5 DEF Stops
<1>7. ASSUME left.rotations = MaxRotations, ~queued' PROVE Unresolvable(spec)'
  <2>1. errs[1] = "stop" /\ Founded(errs) /\ cr = spec
    BY <1>4, <1>5, <1>7 DEF Stops
  <2>2. Unresolvable(spec)
    BY <1>4, <2>1 DEF Founded
  <2>. QED
    BY <1>1, <2>2 DEF Unresolvable
<1>8. StopsForGoodReason'
  BY <1>2, <1>7 DEF StopsForGoodReason, Rest
<1>9. left'.rotations = MaxRotations => CacheCurrent' /\ Founded(errs)'
  BY <1>1, <1>2 DEF Stops, CacheCurrent, Founded, Unresolvable
<1>. QED
  BY <1>1, <1>6, <1>8, <1>9 DEF Stops

LEMMA StepStops ==
  ASSUME IInv, Types, Stops, [Next]_vars PROVE Stops'
<1>1. CASE StartReconcile
  <2>1. /\ UNCHANGED <<spec, condition, vault, left>>
        /\ cr' = spec /\ cache' = NoMap /\ errs' = <<>>
        /\ pc' = "config" \/ (pc' = "idle" /\ condition # "False")
    BY <1>1 DEF StartReconcile
  <2>2. CacheCurrent' /\ Founded(errs)'
    BY <2>1, EmptyMap DEF CacheCurrent, Founded
  <2>3. StopsForGoodReason'
    BY <2>1 DEF StopsForGoodReason, Rest
  <2>. QED
    BY <2>1, <2>2, <2>3 DEF Stops
<1>2. CASE ResolveString
  BY <1>2, ResolveStringStops
<1>3. CASE ReturnResolved
  <2>1. /\ pc \in Calls /\ Return(errs)
        /\ UNCHANGED <<spec, condition, queued, cr, vault, left>>
    BY <1>3 DEF ReturnResolved, resource
  <2>2. /\ pc' # "idle" /\ errs' = errs /\ cache' = NoMap
        /\ pc' = "handleError" => errs # <<>>
    BY <2>1, ReturnStops
  <2>3. CacheCurrent'
    BY <2>2, EmptyMap DEF CacheCurrent
  <2>4. left.rotations = MaxRotations => CacheCurrent' /\ Founded(errs')
    BY <2>2, <2>3 DEF Stops
  <2>. QED
    BY <2>1, <2>2, <2>4, StopsWithin
<1>4. CASE UseSecrets
  <2>1. /\ UNCHANGED <<spec, cr, cache, errs, vault, left>> /\ pc' = "idle"
        /\ queued' = queued /\ condition' = "True"
    BY <1>4 DEF UseSecrets, locals
  <2>2. StopsForGoodReason'
    BY <2>1 DEF StopsForGoodReason, Rest
  <2>3. left'.rotations = MaxRotations => CacheCurrent' /\ Founded(errs)'
    BY <2>1 DEF Stops, CacheCurrent, Founded, Unresolvable
  <2>4. (~queued => cr = spec)'
    BY <2>1 DEF Stops
  <2>. QED
    BY <2>1, <2>2, <2>3, <2>4 DEF Stops
<1>5. CASE HandleError
  BY <1>5, HandleErrorStops
<1>6. CASE UserEdits
  <2>1. /\ UNCHANGED <<cr, cache, errs, vault, pc>> /\ queued' = TRUE
        /\ left'.rotations = left.rotations
    BY <1>6 DEF UserEdits, locals, Types
  <2>2. StopsForGoodReason'
    BY <2>1 DEF StopsForGoodReason, Rest
  <2>3. left'.rotations = MaxRotations => CacheCurrent' /\ Founded(errs)'
    BY <2>1 DEF Stops, CacheCurrent, Founded, Unresolvable
  <2>. QED
    BY <2>1, <2>2, <2>3 DEF Stops
<1>7. ASSUME NEW path \in Paths, Rotate(path) PROVE Stops'
  <2>1. UNCHANGED <<spec, cr, errs, pc, queued>>
    BY <1>7 DEF Rotate, resource, locals
  <2>2. left'.rotations # MaxRotations
    BY <1>7, BoundsAssumption DEF Rotate, Types
  <2>3. (~queued => cr = spec)'
    BY <2>1 DEF Stops
  <2>. QED
    BY <2>1, <2>2, <2>3 DEF Stops
<1>8. CASE UNCHANGED vars
  <2>1. UNCHANGED <<spec, cr, errs, pc, queued, condition, cache, vault, left>>
    BY <1>8 DEF vars, resource, locals
  <2>2. left'.rotations = MaxRotations => CacheCurrent' /\ Founded(errs)' /\ StopsForGoodReason'
    BY <2>1 DEF Stops, CacheCurrent, Founded, Unresolvable, StopsForGoodReason, Rest
  <2>3. (~queued => cr = spec)'
    BY <2>1 DEF Stops
  <2>. QED
    BY <2>1, <2>2, <2>3 DEF Stops
<1>. QED
  BY <1>1, <1>2, <1>3, <1>4, <1>5, <1>6, <1>7, <1>8, Zenon DEF Next, Reconcile

(* A reconcile that failed is given up, without another attempt, only for  *)
(* a reference that is malformed or names what Vault does not hold, as     *)
(* long as the secrets stay as they are.                                   *)
THEOREM GivesUpForGoodReason == Spec => []StopsForGoodReason
<1>1. Stops => StopsForGoodReason
  BY DEF Stops, StopsForGoodReason
<1>2. Init => IInv /\ Types /\ ErrorPerCall /\ Stops
  BY InitHolds, InitTyped, InitStops
<1>3. (IInv /\ Types /\ ErrorPerCall /\ Stops) /\ [Next]_vars
      => (IInv /\ Types /\ ErrorPerCall /\ Stops)'
  BY StepHolds, StepTyped, StepStops
<1>. QED
  BY <1>1, <1>2, <1>3, PTL DEF Spec
=============================================================================
