------------------------- MODULE VaultClientProofs -------------------------
(***************************************************************************)
(* For any number of workers and any lifetimes that meet the assumption,   *)
(* no worker reads secrets through a nil client or, while its check still  *)
(* counts, with an expired token.                                          *)
(***************************************************************************)
EXTENDS VaultClient, TLAPS

(* A token that outlives the check of w by more than MinTTL.               *)
Outlives(token, w) == token > since[w] + MinTTL

Resolving == {"config", "auth"} \cup Reading

(* The shared client outlives the check of every worker that is past it,   *)
(* because whatever replaces the client was issued at most MaxPause ago.   *)
(* During the lookup this holds of the client unless it is still the one   *)
(* that is being looked up.                                                *)
Promises ==
    \A w \in Workers :
        /\ since[w] <= clock
        /\ pc[w] = "lookup" => client = held[w] \/ Outlives(client, w)
        /\ pc[w] = "store" => fresh[w] + MaxPause >= clock + TTL
        /\ pc[w] \in Resolving => Outlives(client, w)
        /\ pc[w] \in Reading => Outlives(held[w], w)

IInv == TypeOK /\ Promises

-----------------------------------------------------------------------------
LEMMA InitEstablishes == Init => IInv
  BY Lifetimes DEF Init, IInv, TypeOK, Promises, Steps, Nil, Resolving, Reading

(* One step of any kind keeps the types.                                   *)
LEMMA TypeStep == TypeOK /\ [Next]_vars => TypeOK'
<1> SUFFICES ASSUME TypeOK, [Next]_vars PROVE TypeOK'
  OBVIOUS
<1> USE Lifetimes DEF TypeOK, Steps, Nil, Goto
<1>0. ASSUME NEW w \in Workers, SkipSecrets(w) PROVE TypeOK'
  BY <1>0 DEF SkipSecrets
<1>1. ASSUME NEW w \in Workers, StartReconcile(w) PROVE TypeOK'
  BY <1>1 DEF StartReconcile
<1>2. ASSUME NEW w \in Workers, CheckClient(w) PROVE TypeOK'
  BY <1>2 DEF CheckClient
<1>3. ASSUME NEW w \in Workers, LoadClient(w) PROVE TypeOK'
  BY <1>3 DEF LoadClient
<1>4. ASSUME NEW w \in Workers, LookupSelf(w) PROVE TypeOK'
  BY <1>4 DEF LookupSelf, Fault
<1>5. ASSUME NEW w \in Workers, InitializeVaultClient(w) PROVE TypeOK'
  BY <1>5 DEF InitializeVaultClient, Fault
<1>6. ASSUME NEW w \in Workers, StoreClient(w) PROVE TypeOK'
  BY <1>6 DEF StoreClient
<1>7. ASSUME NEW w \in Workers, NEW call, NEW read \in Steps, ResolveSecrets(w, call, read)
      PROVE  TypeOK'
  BY <1>7 DEF ResolveSecrets
<1>8. ASSUME NEW w \in Workers, NEW read, NEW next \in Steps, GetPathData(w, read, next)
      PROVE  TypeOK'
  BY <1>8 DEF GetPathData, Fault
<1>9. CASE Tick
  BY <1>9 DEF Tick
<1>10. CASE Restart
  BY <1>10 DEF Restart, Fault
<1>11. CASE UNCHANGED vars
  BY <1>11 DEF vars
<1> HIDE DEF TypeOK, Nil, Goto
<1> QED
  BY <1>0, <1>1, <1>2, <1>3, <1>4, <1>5, <1>6, <1>7, <1>8, <1>9, <1>10, <1>11
     DEF Next, Step

(* And it keeps the promises.                                              *)
LEMMA PromisesStep == IInv /\ [Next]_vars => Promises'
<1> SUFFICES ASSUME IInv, [Next]_vars, NEW v \in Workers
             PROVE  /\ since'[v] <= clock'
                    /\ pc'[v] = "lookup" =>
                          client' = held'[v] \/ client' > since'[v] + MinTTL
                    /\ pc'[v] = "store" => fresh'[v] + MaxPause >= clock' + TTL
                    /\ pc'[v] \in Resolving => client' > since'[v] + MinTTL
                    /\ pc'[v] \in Reading => held'[v] > since'[v] + MinTTL
  BY DEF Promises, Outlives
<1> DEFINE Goal == /\ since'[v] <= clock'
                   /\ pc'[v] = "lookup" =>
                         client' = held'[v] \/ client' > since'[v] + MinTTL
                   /\ pc'[v] = "store" => fresh'[v] + MaxPause >= clock' + TTL
                   /\ pc'[v] \in Resolving => client' > since'[v] + MinTTL
                   /\ pc'[v] \in Reading => held'[v] > since'[v] + MinTTL
<1> USE Lifetimes DEF IInv, TypeOK, Promises, Outlives, Resolving, Reading, Steps, Nil, Goto
<1>0. ASSUME NEW w \in Workers, SkipSecrets(w) PROVE Goal
  BY <1>0 DEF SkipSecrets
<1>1. ASSUME NEW w \in Workers, StartReconcile(w) PROVE Goal
  BY <1>1 DEF StartReconcile
<1>2. ASSUME NEW w \in Workers, CheckClient(w) PROVE Goal
  BY <1>2 DEF CheckClient
<1>3. ASSUME NEW w \in Workers, LoadClient(w) PROVE Goal
  BY <1>3 DEF LoadClient
<1>4. ASSUME NEW w \in Workers, LookupSelf(w) PROVE Goal
  BY <1>4 DEF LookupSelf, IsTokenValid, Fault
<1>5. ASSUME NEW w \in Workers, InitializeVaultClient(w) PROVE Goal
  BY <1>5 DEF InitializeVaultClient, Fault
<1>6. ASSUME NEW w \in Workers, StoreClient(w) PROVE Goal
  BY <1>6 DEF StoreClient
<1>7. ASSUME NEW w \in Workers, ResolveSecrets(w, "config", "readConfig") PROVE Goal
  BY <1>7 DEF ResolveSecrets
<1>8. ASSUME NEW w \in Workers, ResolveSecrets(w, "auth", "readAuth") PROVE Goal
  BY <1>8 DEF ResolveSecrets
<1>9. ASSUME NEW w \in Workers, GetPathData(w, "readConfig", "auth") PROVE Goal
  BY <1>9 DEF GetPathData, Fault
<1>10. ASSUME NEW w \in Workers, GetPathData(w, "readAuth", "idle") PROVE Goal
  BY <1>10 DEF GetPathData, Fault
<1>11. ASSUME Tick PROVE Goal
  BY <1>11 DEF Tick
<1>12. ASSUME Restart PROVE Goal
  BY <1>12 DEF Restart, Fault
<1>13. ASSUME UNCHANGED vars PROVE Goal
  BY <1>13 DEF vars
<1> HIDE DEF Goal, IInv, TypeOK, Promises, Outlives, Resolving, Reading, Steps, Nil, Goto
<1>14. Goal
  BY <1>0, <1>1, <1>2, <1>3, <1>4, <1>5, <1>6, <1>7, <1>8, <1>9, <1>10, <1>11, <1>12, <1>13
     DEF Next, Step
<1> QED
  BY <1>14 DEF Goal

(* The inductive invariant holds at all times.                             *)
THEOREM Inductive == Spec => []IInv
<1>1. IInv /\ [Next]_vars => IInv'
  BY TypeStep, PromisesStep DEF IInv
<1> QED
  BY InitEstablishes, <1>1, PTL DEF Spec

(* No worker calls Vault through a nil client.                             *)
THEOREM NeverNil == Spec => []NoNilClient
<1>1. IInv => NoNilClient
  BY Lifetimes DEF IInv, TypeOK, Promises, Outlives, NoNilClient, Nil
<1> QED
  BY Inductive, <1>1, PTL

(* For MinTTL after a reconcile began, its reads find a living token.      *)
THEOREM CheckedTokenLasts == Spec => []TokenLasts
<1>1. IInv => TokenLasts
  BY Lifetimes DEF IInv, TypeOK, Promises, Outlives, TokenLasts
<1> QED
  BY Inductive, <1>1, PTL
=============================================================================
