---------------------------- MODULE MCCrossChain ----------------------------
(* Small instances of CrossChain for TLC. *)
EXTENDS CrossChain, TLC

OneToken == {[account |-> 1, symbol |-> "EOS"]}

(* A look at the behaviours in which nothing lapses. *)
NothingLapses ==
  \A x \in XHashes :
    /\ transfers[x] # NoRow => transfers[x].timeLeft = 2 * LockedTime
    /\ debts[x] # NoRow => debts[x].timeLeft = 2 * LockedTime

Interchangeable == Permutations(Storemen) \cup Permutations(XHashes)
=============================================================================
