------------------------------ MODULE MCEosHtlc ------------------------------
(* Small instances of EosHtlc for TLC. *)
EXTENDS EosHtlc, TLC

(* One token. *)
Eos == [account |-> 1, symbol |-> "EOS"]
OneToken == {Eos}

(* Two token contracts that both issue a token called EOS. *)
SameSymbol == {Eos, [account |-> 2, symbol |-> "EOS"]}

(* Debts of one token, in either direction. *)
BothSigns == {-1, 1}

(* Keys and hashes are interchangeable, users too. *)
Interchangeable == Permutations(PKs) \cup Permutations(XHashes) \cup Permutations(Users)
=============================================================================
