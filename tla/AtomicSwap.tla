----------------------------- MODULE AtomicSwap -----------------------------
(***************************************************************************)
(* What the bridge promises for each swap, whichever way it goes and       *)
(* however its two legs interleave.  Its initiator opens it by locking     *)
(* tokens on one chain.  Either it is paid on the other chain, which       *)
(* reveals the secret, and then the locked tokens always go to who paid    *)
(* it; or it is cancelled, and the initiator has its tokens back.          *)
(***************************************************************************)
CONSTANT Swaps
VARIABLE phase

Init == phase = [x \in Swaps |-> "none"]

Goes(x, from, to) == phase[x] = from /\ phase' = [phase EXCEPT ![x] = to]

Open(x)   == Goes(x, "none", "open")
Pay(x)    == Goes(x, "open", "paid")
Settle(x) == Goes(x, "paid", "settled")
Cancel(x) == Goes(x, "open", "cancelled")

Next == \E x \in Swaps : Open(x) \/ Pay(x) \/ Settle(x) \/ Cancel(x)

(* A swap that is open comes to an end: who paid settles, and who opened   *)
(* it cancels in the end if nobody pays.                                   *)
Fairness == \A x \in Swaps : WF_phase(Settle(x)) /\ WF_phase(Cancel(x))

Spec == Init /\ [][Next]_phase
FairSpec == Spec /\ Fairness
=============================================================================
