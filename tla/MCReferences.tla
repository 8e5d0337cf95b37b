--------------------------- MODULE MCReferences ---------------------------
(* The instances of References that TLC checks. *)
EXTENDS References, TLC

(* Three kinds with a cycle and a list; a required list of another service. *)
Small == {"a" :> "ReplicationGroup" @@ "b" :> "Snapshot" @@ "c" :> "UserGroup",
          "a" :> "CacheSubnetGroup" @@ "b" :> "Subnet" @@ "c" :> "Subnet"}
=============================================================================
