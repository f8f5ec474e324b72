-------------------------- MODULE MCNip05Verifier --------------------------
(* Nip05Verifier on small sets, for TLC.                                   *)
EXTENDS Nip05Verifier
=============================================================================
