--------------------------- MODULE MCLocalSigner ---------------------------
(* LocalSigner with a cache of two keys, for TLC.                          *)
EXTENDS LocalSigner, TLC

Symmetry == Permutations(Peers)
=============================================================================
