---------------------------- MODULE VaultClient ----------------------------
(***************************************************************************)
(* The Vault client that the workers of one operator share.  Reconcile     *)
(* looks at r.VaultClient, logs in again when there is none or when its    *)
(* token runs out within MinTTL, stores the new client without a lock, and *)
(* later reads r.VaultClient twice more, to resolve the references of      *)
(* config and of auth.  Nothing renews a token.                            *)
(*                                                                         *)
(* A client is known by the time at which its token expires.  A pointer is *)
(* read and written as one word, so a race on it yields the old client or  *)
(* the new one.                                                            *)
(***************************************************************************)
EXTENDS Naturals

CONSTANTS
    Workers,     \* MaxConcurrentReconciles of them
    TTL,         \* how long a token lives when Vault issues it
    MinTTL,      \* 300 seconds in the code
    MaxPause,    \* longest time from a login to the assignment that follows it
    MaxTime,     \* bound: the clock
    MaxFaults    \* bound: failing calls and restarts

(* Tokens are good for more than what the code asks of an old one.         *)
ASSUME Lifetimes ==
    /\ TTL \in Nat /\ MinTTL \in Nat /\ MaxPause \in Nat
    /\ MaxTime \in Nat /\ MaxFaults \in Nat
    /\ TTL > MinTTL + MaxPause

VARIABLES
    clock,     \* time
    client,    \* r.VaultClient
    pc,        \* where each worker is
    since,     \* when it began its reconcile
    held,      \* the client it passed to the call it makes
    fresh,     \* the client it got from InitializeVaultClientFromSecret
    faults     \* failures left

vars == <<clock, client, pc, since, held, fresh, faults>>

Nil == 0

Steps == {"idle", "check", "load", "lookup", "login", "store",
          "config", "readConfig", "auth", "readAuth"}

TypeOK ==
    /\ clock \in 0..MaxTime
    /\ client \in Nat
    /\ pc \in [Workers -> Steps]
    /\ since \in [Workers -> 0..MaxTime]
    /\ held \in [Workers -> Nat] /\ fresh \in [Workers -> Nat]
    /\ faults \in 0..MaxFaults

Init ==
    /\ clock = 0 /\ client = Nil
    /\ pc = [w \in Workers |-> "idle"]
    /\ since = [w \in Workers |-> 0]
    /\ held = [w \in Workers |-> Nil] /\ fresh = [w \in Workers |-> Nil]
    /\ faults = MaxFaults

Goto(w, step) == pc' = [pc EXCEPT ![w] = step]

Fault == faults > 0 /\ faults' = faults - 1

-----------------------------------------------------------------------------
(* A worker.                                                               *)

(* A resource comes up for a reconcile.                                    *)
StartReconcile(w) ==
    /\ pc[w] = "idle" /\ Goto(w, "check")
    /\ UNCHANGED <<clock, client, since, held, fresh, faults>>

(* r.VaultClient == nil                                                    *)
CheckClient(w) ==
    /\ pc[w] = "check"
    /\ since' = [since EXCEPT ![w] = clock]
    /\ Goto(w, IF client = Nil THEN "login" ELSE "load")
    /\ UNCHANGED <<clock, client, held, fresh, faults>>

(* ... || !IsTokenValid(r.VaultClient, 300): the second read.              *)
LoadClient(w) ==
    /\ pc[w] = "load" /\ Goto(w, "lookup")
    /\ held' = [held EXCEPT ![w] = client]
    /\ UNCHANGED <<clock, client, since, fresh, faults>>

(* Variant: any token that still lives will do.                            *)
IsTokenValid_Living(token) == token > clock

(* IsTokenValid, of a client that is not nil.                              *)
IsTokenValid(token) == token > clock /\ token - clock > MinTTL

(* Variant: an invalid token ends the reconcile.                           *)
LookupSelf_NoLogin(w) ==
    /\ pc[w] = "lookup"
    /\ \/ IsTokenValid(held[w]) /\ Goto(w, "config") /\ UNCHANGED faults
       \/ ~IsTokenValid(held[w]) /\ Goto(w, "check") /\ UNCHANGED faults
       \/ Fault /\ Goto(w, "check")
    /\ held' = [held EXCEPT ![w] = Nil]
    /\ UNCHANGED <<clock, client, since, fresh>>

(* LookupSelf says how long the token has left; it may fail as well.       *)
LookupSelf(w) ==
    /\ pc[w] = "lookup"
    /\ \/ IsTokenValid(held[w]) /\ Goto(w, "config") /\ UNCHANGED faults
       \/ ~IsTokenValid(held[w]) /\ Goto(w, "login") /\ UNCHANGED faults
       \/ Fault /\ Goto(w, "login")
    /\ held' = [held EXCEPT ![w] = Nil]
    /\ UNCHANGED <<clock, client, since, fresh>>

(* Variant: the result is assigned before the error is looked at.          *)
InitializeVaultClient_AssignsFirst(w) ==
    /\ pc[w] = "login"
    /\ \/ /\ fresh' = [fresh EXCEPT ![w] = clock + TTL]
          /\ Goto(w, "store") /\ UNCHANGED <<client, faults>>
       \/ Fault /\ Goto(w, "check") /\ client' = Nil /\ UNCHANGED fresh
    /\ UNCHANGED <<clock, since, held>>

(* InitializeVaultClientFromSecret: the Kubernetes secret, its fields and  *)
(* the login.  An error goes back to the workqueue, which tries again.     *)
InitializeVaultClient(w) ==
    /\ pc[w] = "login"
    /\ \/ /\ fresh' = [fresh EXCEPT ![w] = clock + TTL]
          /\ Goto(w, "store") /\ UNCHANGED faults
       \/ Fault /\ Goto(w, "check") /\ UNCHANGED fresh
    /\ UNCHANGED <<clock, client, since, held>>

(* r.VaultClient = vaultClient                                             *)
StoreClient(w) ==
    /\ pc[w] = "store" /\ Goto(w, "config")
    /\ client' = fresh[w] /\ fresh' = [fresh EXCEPT ![w] = Nil]
    /\ UNCHANGED <<clock, since, held, faults>>

(* A deletion, an unchanged resource or one without auth resolves nothing. *)
SkipSecrets(w) ==
    /\ pc[w] \in {"config", "auth"} /\ Goto(w, "idle")
    /\ UNCHANGED <<clock, client, since, held, fresh, faults>>

(* ResolveSecrets(ctx, r.VaultClient, ...) is called ...                   *)
ResolveSecrets(w, call, read) ==
    /\ pc[w] = call /\ Goto(w, read)
    /\ held' = [held EXCEPT ![w] = client]
    /\ UNCHANGED <<clock, client, since, fresh, faults>>

(* ... and reads from Vault.  An error is retried, as a new reconcile.     *)
GetPathData(w, read, next) ==
    /\ pc[w] = read
    /\ \/ held[w] > clock /\ Goto(w, next) /\ UNCHANGED faults
       \/ held[w] <= clock /\ Goto(w, "check") /\ UNCHANGED faults
       \/ Fault /\ Goto(w, "check")
    /\ held' = [held EXCEPT ![w] = Nil]
    /\ UNCHANGED <<clock, client, since, fresh>>

Step(w) ==
    \/ CheckClient(w) \/ LoadClient(w) \/ LookupSelf(w)
    \/ InitializeVaultClient(w) \/ StoreClient(w) \/ SkipSecrets(w)
    \/ ResolveSecrets(w, "config", "readConfig")
    \/ GetPathData(w, "readConfig", "auth")
    \/ ResolveSecrets(w, "auth", "readAuth")
    \/ GetPathData(w, "readAuth", "idle")

-----------------------------------------------------------------------------
(* The environment.                                                        *)

(* Time passes, but a worker that has logged in stores the client soon.    *)
Tick ==
    /\ clock < MaxTime
    /\ \A w \in Workers : pc[w] = "store" => clock + TTL < fresh[w] + MaxPause
    /\ clock' = clock + 1
    /\ UNCHANGED <<client, pc, since, held, fresh, faults>>

(* The operator starts again without a client; all resources are listed.   *)
Restart ==
    /\ Fault
    /\ client' = Nil
    /\ pc' = [w \in Workers |-> "check"]
    /\ held' = [w \in Workers |-> Nil] /\ fresh' = [w \in Workers |-> Nil]
    /\ UNCHANGED <<clock, since>>

Next ==
    \/ \E w \in Workers : StartReconcile(w) \/ Step(w)
    \/ Tick
    \/ Restart

Spec == Init /\ [][Next]_vars

(* Every worker keeps going.                                               *)
FairSpec == Spec /\ \A w \in Workers : WF_vars(Step(w))

-----------------------------------------------------------------------------
Reading == {"readConfig", "readAuth"}

(* Whatever the other workers do to the shared pointer, no worker calls    *)
(* Vault through a nil client, which would panic in getPathData.           *)
NoNilClient == \A w \in Workers : pc[w] \in Reading => held[w] # Nil

(* The check pays: for MinTTL after a reconcile began, no read of a secret *)
(* meets an expired token, also when another worker has put its own client *)
(* in the place of the one that was checked.                               *)
TokenLasts ==
    \A w \in Workers :
        pc[w] \in Reading /\ clock <= since[w] + MinTTL => held[w] > clock

(* Every reconcile gets its secrets in the end: expired tokens, failed     *)
(* logins and restarts are got over.                                       *)
SecretsResolved == \A w \in Workers : pc[w] = "check" ~> pc[w] = "idle"
=============================================================================
