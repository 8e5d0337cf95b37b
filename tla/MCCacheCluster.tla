--------------------------- MODULE MCCacheCluster ---------------------------
(* The instances of CacheCluster that TLC checks. *)
EXTENDS CacheCluster

NoTags == [k \in {} |-> "none"]

(* One node, in a zone the user named. *)
Named == {[num |-> 1, azs |-> <<"east">>, auto |-> FALSE, tags |-> NoTags]}

(* One or two nodes, in zones the user named or left to the service. *)
Started == Named \cup {[num |-> 2, azs |-> None, auto |-> FALSE, tags |-> NoTags]}
=============================================================================
