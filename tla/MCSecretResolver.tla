-------------------------- MODULE MCSecretResolver --------------------------
EXTENDS SecretResolver, TLC

MCPaths == {"db", "tls"}
MCKeys == {"user", "pass"}

Ref(path, key) == [form |-> "ref", path |-> path, key |-> key]
Plain == [form |-> "plain", path |-> "", key |-> ""]
Malformed == [form |-> "malformed", path |-> "", key |-> ""]

(* Two leaves with one path, and another path in auth.                     *)
TwoPaths ==
    [config |-> "a" :> Ref("db", "user") @@ "b" :> Ref("db", "pass") @@ "c" :> Plain,
     auth   |-> "a" :> Ref("tls", "user")]

(* One path in config and auth.                                            *)
Shared ==
    [config |-> "a" :> Ref("db", "user") @@ "b" :> Ref("tls", "user"),
     auth   |-> "a" :> Ref("db", "pass") @@ "b" :> Ref("db", "user")]

(* A malformed reference after one that may not be there.                  *)
Bad == [config |-> "a" :> Ref("db", "user"),
        auth   |-> "a" :> Malformed @@ "b" :> Ref("tls", "pass")]

BadConfig == [config |-> "a" :> Malformed @@ "b" :> Ref("tls", "user"),
              auth   |-> "a" :> Ref("db", "user")]

MCSpecs == {TwoPaths, Shared, Bad, BadConfig}

Present(keys) == [state |-> "present", version |-> 1, keys |-> keys]
Absent == [state |-> "absent", version |-> 0, keys |-> {}]

MCVaults == [MCPaths -> {Present(MCKeys), Present({"user"}), Absent}]
=============================================================================
