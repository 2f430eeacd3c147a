------------------------------ MODULE CurveGroup ------------------------------
(***************************************************************************)
(* The group that CurvePoint computes in: the points of                    *)
(* y^2 = x^3 + B over the numbers below P, and Infinity.  Two points are   *)
(* added by the chord through them or the tangent at them, the way it is   *)
(* defined and not the way it is computed.                                 *)
(***************************************************************************)
EXTENDS Integers

CONSTANTS P, B, Infinity, Scalars

VARIABLES a, b, method

vars == <<a, b, method>>

Points == {Infinity} \cup
          {p \in (0..P - 1) \X (0..P - 1) : (p[2] * p[2]) % P = (p[1] * p[1] * p[1] + B) % P}

(* n / d, for d that is not zero *)
Quotient(n, d) == CHOOSE q \in 0..P - 1 : (q * d - n) % P = 0

(* The third point of the line of slope s through p, reflected. *)
Third(p, x, s) ==
  LET x3 == (s * s - p[1] - x) % P IN <<x3, (s * (p[1] - x3) - p[2]) % P>>

Sum(p, q) ==
  IF p = Infinity THEN q
  ELSE IF q = Infinity THEN p
  ELSE IF p[1] # q[1] THEN Third(p, q[1], Quotient(q[2] - p[2], q[1] - p[1]))
  ELSE IF p[2] = q[2] /\ p[2] # 0 THEN Third(p, p[1], Quotient(3 * p[1] * p[1], 2 * p[2]))
  ELSE Infinity

Multiple(p, n) ==
  LET sum[k \in 0..n] == IF k = 0 THEN Infinity ELSE Sum(sum[k - 1], p) IN sum[n]

Init == a \in Points /\ b \in Points /\ method = <<"idle">>

Returns(m, p) == method = <<"idle">> /\ method' = m /\ a' = p /\ UNCHANGED b

Return == method # <<"idle">> /\ method' = <<"idle">> /\ UNCHANGED <<a, b>>

Next ==
  \/ Returns(<<"add">>, Sum(a, b))
  \/ Returns(<<"twice">>, Sum(a, a))
  \/ Returns(<<"normalize">>, a)
  \/ \E n \in Scalars : Returns(<<"multiply", n>>, Multiple(a, n))
  \/ Return

Spec == Init /\ [][Next]_vars
=============================================================================
