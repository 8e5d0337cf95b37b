-------------------------------- MODULE Tags --------------------------------
(***************************************************************************)
(* Tag collections and the difference that util.SyncTags acts upon         *)
(* (pkg/util/tags.go).  A collection is a function from the keys it has to *)
(* their values: the AWS API and convertToOrderedACKTags both keep one     *)
(* value per key.                                                          *)
(***************************************************************************)
CONSTANTS TagKeys, TagValues

TagMaps == UNION {[K -> TagValues] : K \in SUBSET TagKeys}

(***************************************************************************)
(* External: ackcompare.GetTagsDifference(from, to).  A key whose value    *)
(* changes is both added and removed.                                      *)
(***************************************************************************)
DifferenceAdded(from, to) ==
  {k \in DOMAIN to : k \notin DOMAIN from \/ from[k] # to[k]}

DifferenceRemoved(from, to) ==
  {k \in DOMAIN from : k \notin DOMAIN to \/ from[k] # to[k]}

(* What SyncTags keeps of the difference: the keys it will add ... *)
ToAdd(desired, latest) == DifferenceAdded(latest, desired)

(* ... and the keys it will remove, less those an addition overwrites. *)
ToRemove(desired, latest) ==
  DifferenceRemoved(latest, desired) \ ToAdd(desired, latest)

(* External: AddTagsToResource overwrites the values of the keys it is given. *)
AddTagsToResource(tags, keys, values) ==
  [k \in DOMAIN tags \cup keys |-> IF k \in keys THEN values[k] ELSE tags[k]]

(* External: RemoveTagsFromResource. *)
RemoveTagsFromResource(tags, keys) == [k \in DOMAIN tags \ keys |-> tags[k]]

(* Mutants: removals go first, and take what an addition would overwrite; *)
(* or nothing is ever removed.                                            *)
SyncTagsRemovesFirst(desired, latest, awsTags) ==
  IF DifferenceRemoved(latest, desired) # {}
  THEN RemoveTagsFromResource(awsTags, DifferenceRemoved(latest, desired))
  ELSE AddTagsToResource(awsTags, ToAdd(desired, latest), desired)

SyncTagsOnlyAdds(desired, latest, awsTags) ==
  AddTagsToResource(awsTags, ToAdd(desired, latest), desired)

(***************************************************************************)
(* SyncTags makes at most one call: it adds if there is anything to add,   *)
(* removes only if there is not, and the caller requeues in between.       *)
(* AwsTags are the tags the service holds when the call arrives, which may *)
(* no longer be those "latest" was read from.                              *)
(***************************************************************************)
SyncTags(desired, latest, awsTags) ==
  IF ToAdd(desired, latest) # {}
  THEN AddTagsToResource(awsTags, ToAdd(desired, latest), desired)
  ELSE RemoveTagsFromResource(awsTags, ToRemove(desired, latest))
=============================================================================
