-------------------------------- MODULE Schnorr --------------------------------
(***************************************************************************)
(* The signature check the bridge's contract delegates to                  *)
(* (src/eos-wan-cross/c++/schnorr.verification/src/                        *)
(* Schnorr.verification.cpp), over the points of CurvePoint.               *)
(*                                                                         *)
(* A storeman group with private key d signs a hash m under the nonce k    *)
(* with s = k + m d, and publishes R = k G and its key d G.  The hashes    *)
(* and their conversions to hex and back make a number m of Bits bits,     *)
(* any of which is possible; neither m nor s need be below Order.          *)
(*                                                                         *)
(* The strings of the four coordinates are read as they were passed: the   *)
(* pointers of lines 7 to 10 outlive the temporary strings they point      *)
(* into, and the model is of a build that leaves freed memory alone.       *)
(***************************************************************************)
EXTENDS CurvePoint

CONSTANTS
  Hashes,     \* values of the hash m
  Signatures  \* values of the argument signature

VARIABLE call   \* the last call of verify and its outcome, or NoCall

vars == <<pointVars, call>>

NoCall == [outcome |-> "none"]

(* Order is the order of G: the smallest number of times G adds to         *)
(* Infinity.  GY + 1 is not the opposite of GY, so that the second pair of *)
(* coordinates in Points is no point of the curve.                         *)
ASSUME SchnorrConstants ==
  /\ Order \in 2..Power(2, Bits)
  /\ Group!Multiple(<<GX, GY>>, Order) = Infinity
  /\ \A d \in 1..Order - 1 : Group!Multiple(<<GX, GY>>, d) # Infinity
  /\ 2 * GY + 1 # P
  /\ Hashes \cup Signatures \subseteq 0..Power(2, Bits) - 1

(* Mutant: the check that a result is on the curve, and so not zero, is left out. *)
ValidWithZero(r, pk, m, s) ==
  /\ IsOnCurve(r)
  /\ IsOnCurve(pk)
  /\ Normalize(Multiply(G, s)) = Normalize(Add(Normalize(Multiply(pk, m)), r))

(* The checks of verify on the points r and pk, the hash m and s. *)
Valid(r, pk, m, s) ==
  /\ IsOnCurve(r)
  /\ IsOnCurve(pk)
  /\ LET left == Normalize(Multiply(G, s))
         right == Normalize(Add(Normalize(Multiply(pk, m)), r))
     IN  IsOnCurve(left) /\ IsOnCurve(right) /\ left = right

(* The public keys and random points there are, by their private exponents, *)
(* and coordinates that are no point of the curve.                          *)
PublicPoint == [d \in 1..Order - 1 |-> PrivateExponentToPublicPoint(d)]
Points == {PublicPoint[d] : d \in 1..Order - 1} \cup {FromXY(0, 0), FromXY(GX, (GY + 1) % P)}

(* One call of the action, on points made for it. *)
Verify(r, pk, m, s) ==
  /\ call = NoCall /\ method = <<"idle">> /\ this = ZERO /\ other = ZERO
  /\ call' = [randomPoint |-> r, groupKey |-> pk, m |-> m, signature |-> s,
              outcome |-> IF Valid(r, pk, m, s) THEN "accepted" ELSE "rejected"]
  /\ UNCHANGED pointVars

Forget == call # NoCall /\ call' = NoCall /\ UNCHANGED pointVars

Init == PointInit /\ call = NoCall

Next ==
  \/ call = NoCall /\ PointNext /\ UNCHANGED call
  \/ \E r, pk \in Points, m \in Hashes, s \in Signatures : Verify(r, pk, m, s)
  \/ Forget

Spec == Init /\ [][Next]_vars

-----------------------------------------------------------------------------
(* A signature is accepted exactly when it is k + m d modulo the order of  *)
(* the group, s and m being any numbers of Bits bits, and is not zero: s G *)
(* would be no point with coordinates, and verify refuses it.              *)
Signed(r, pk, m, s) ==
  \E d, k \in 1..Order - 1 :
    /\ pk = PublicPoint[d]
    /\ r = PublicPoint[k]
    /\ (s - (k + m * d)) % Order = 0
    /\ s % Order # 0

AcceptsExactlyTheSigned ==
  call # NoCall =>
    (call.outcome = "accepted"
       <=> Signed(call.randomPoint, call.groupKey, call.m, call.signature))
=============================================================================
