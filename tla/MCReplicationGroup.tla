------------------------ MODULE MCReplicationGroup ------------------------
(* The instances of ReplicationGroup that TLC checks. *)
EXTENDS ReplicationGroup

NoTags == [k \in {} |-> "none"]

(* "7.x", and two releases. *)
SomeVersions == {<<7, -1>>, <<7, 0, 7>>, <<7, 1, 0>>}

(* One small group; the fields not edited keep these values. *)
Small == {[cnt |-> 1, shards |-> 1, replicas |-> 1, desc |-> "d1", ev |-> <<7, 0, 7>>,
           af |-> TRUE, ugs |-> "g1", tags |-> NoTags]}

(* The same with two tags, so that a key may be added, changed or removed. *)
Tagged == {[s EXCEPT !.tags = [k \in {"a", "b"} |-> "x"]] : s \in Small}
=============================================================================
