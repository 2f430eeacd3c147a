----------------------------- MODULE MCEosHtlcV1 -----------------------------
(* Small instances of EosHtlcV1 for TLC, with the tokens of MCEosHtlc. *)
EXTENDS EosHtlcV1, MCEosHtlc
=============================================================================
