------------------------------ MODULE MCWanHtlc ------------------------------
(* Small instances of WanHtlc for TLC. *)
EXTENDS WanHtlc, TLC

Interchangeable ==
  Permutations(Storemen) \cup Permutations(XHashes) \cup Permutations(Users)
=============================================================================
