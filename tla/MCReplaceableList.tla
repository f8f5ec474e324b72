------------------------- MODULE MCReplaceableList -------------------------
(* ReplaceableList with an addressable list written under NIP-04 with a    *)
(* malformed row, edited under a coordinate that is valid and one that     *)
(* names no list.                                                          *)
EXTENDS ReplaceableList, TLC

LegacyList ==
  [id |-> 2, pubkey |-> "author", kind |-> 30000, created_at |-> 0,
   tags |-> [d |-> {"a"}, entries |-> "none"],
   content |-> [scheme |-> "nip04", plaintext |-> [tags |-> "secrets", junk |-> TRUE]]]

(* A stranger's list at the same kind and identifier, newer and of lower id. *)
StrangersList ==
  [id |-> 0, pubkey |-> "stranger", kind |-> 30000, created_at |-> 1,
   tags |-> [d |-> {"a"}, entries |-> "some"], content |-> NoContent]

PublishedLists == {LegacyList, StrangersList}
NamedTargets == {[kind |-> 30000, dTag |-> "a"], [kind |-> 10000, dTag |-> ""],
                 [kind |-> 10000, dTag |-> "a"]}
ModifiedTags == {[d |-> {"a"}, entries |-> "none"], [d |-> {"a", "b"}, entries |-> "some"]}

Symmetry == Permutations(Clients)
=============================================================================
