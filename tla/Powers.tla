------------------------------- MODULE Powers -------------------------------
EXTENDS Integers

(* b to the power n, by the recursion that a proof can unfold. *)
Power(b, n) ==
  LET power[k \in 0..n] == IF k = 0 THEN 1 ELSE b * power[k - 1] IN power[n]
=============================================================================
