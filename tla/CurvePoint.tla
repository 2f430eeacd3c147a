------------------------------ MODULE CurvePoint ------------------------------
(***************************************************************************)
(* The points of the curve y^2 = x^3 + B in projective coordinates         *)
(* (src/eos-wan-cross/c++/schnorr.verification/src/CurvePoint.cpp): x, y   *)
(* and z stand for the point (x / z, y / z), and z is zero at infinity.    *)
(* Coordinates are FieldInts: numbers below P, computed modulo P (module   *)
(* FieldInt says how).  The code's curve is secp256k1; a run takes a small *)
(* one that has, like it, a prime number of points.                        *)
(*                                                                         *)
(* A method computes all its branches and replaces the result by the one   *)
(* that applies; so do the operators here.  The registers the code uses    *)
(* twice are distinct names.  A definition whose comment begins with       *)
(* "Mutant" is wrong, to show that a property notices.                     *)
(***************************************************************************)
EXTENDS Integers, Powers

CONSTANTS
  P,          \* FieldInt::MODULUS
  B,          \* CurvePoint::B; A is 0
  GX, GY,     \* the coordinates of CurvePoint::G
  Order,      \* CurvePoint::ORDER
  Bits,       \* bits of a Uint256: 256
  TableBits,  \* bits of a window of multiply: 4
  Scalars,    \* the numbers points are multiplied with
  Infinity    \* the point that has no coordinates

Field == 0..P - 1

(* P is a prime, and the curve has no singular point. *)
ASSUME CurveConstants ==
  /\ P \in Nat /\ P > 3 /\ \A n \in 2..P - 1 : P % n # 0
  /\ B \in Field \ {0} /\ GX \in Field /\ GY \in Field
  /\ (GY * GY) % P = (GX * GX * GX + B) % P
  /\ Bits \in Nat /\ TableBits \in 2..Bits /\ Bits % TableBits = 0
  /\ Scalars \subseteq 0..Power(2, Bits) - 1
  /\ Infinity \notin Field \X Field

Point == [x : Field, y : Field, z : Field]

ZERO == [x |-> 0, y |-> 1, z |-> 0]
FromXY(x, y) == [x |-> x, y |-> y, z |-> 1]
G == FromXY(GX, GY)

IsZero(p) == p.x = 0 /\ p.y # 0 /\ p.z = 0

(* z is not looked at: the callers have normalized the point. *)
IsOnCurve(p) ==
  /\ (p.y * p.y) % P = (p.x * p.x * p.x + B) % P
  /\ ~IsZero(p)

Replaced(p, q, condition) == IF condition THEN q ELSE p

-----------------------------------------------------------------------------
Twice(p) ==
  LET u == (2 * p.y * p.z) % P
      v == (2 * u * p.x * p.y) % P
      t == (3 * p.x * p.x) % P
      w == (t * t - 2 * v) % P
      uy == (u * p.y) % P
      twice == [x |-> (u * w) % P,
                y |-> (t * (v - w) - 2 * uy * uy) % P,
                z |-> (u * u * u) % P]
  IN  Replaced(twice, ZERO, IsZero(p) \/ p.y = 0)

(* Mutant: opposite points are taken for equal ones. *)
AddForgetsOpposite(p, q) ==
  LET u0 == (p.x * q.z) % P
      u1 == (q.x * p.z) % P
      t0 == (p.y * q.z) % P
      t == (t0 - q.y * p.z) % P
      u == (u0 - u1) % P
      u2 == (u * u) % P
      u3 == (u * u2) % P
      v == (p.z * q.z) % P
      w == (t * t * v - (u0 + u1) * u2) % P
      sum == [x |-> (u * w) % P, y |-> (t * (u0 * u2 - w) - t0 * u3) % P, z |-> (v * u3) % P]
      special == Replaced(Replaced(Twice(p), p, IsZero(q)), q, IsZero(p))
  IN  Replaced(sum, special, IsZero(p) \/ IsZero(q) \/ u = 0)

Add(p, q) ==
  LET u0 == (p.x * q.z) % P
      u1 == (q.x * p.z) % P
      t0 == (p.y * q.z) % P
      t == (t0 - q.y * p.z) % P
      u == (u0 - u1) % P
      u2 == (u * u) % P
      u3 == (u * u2) % P
      v == (p.z * q.z) % P
      w == (t * t * v - (u0 + u1) * u2) % P
      sum == [x |-> (u * w) % P, y |-> (t * (u0 * u2 - w) - t0 * u3) % P, z |-> (v * u3) % P]
      special == Replaced(Replaced(Twice(p), p, IsZero(q)), q, IsZero(p))
      opposite == ~IsZero(p) /\ ~IsZero(q) /\ u = 0 /\ t # 0
  IN  Replaced(sum, Replaced(special, ZERO, opposite), IsZero(p) \/ IsZero(q) \/ u = 0)

TimesTable(p) ==
  LET table[i \in 0..Power(2, TableBits) - 1] ==
        CASE i = 0 -> ZERO
          [] i = 1 -> p
          [] i = 2 -> Twice(p)
          [] OTHER -> Add(table[i - 1], p)
  IN  table

Shifted(p) ==
  LET twice[k \in 0..TableBits] == IF k = 0 THEN p ELSE Twice(twice[k - 1]) IN twice[TableBits]

(* The windows of n, the most significant one first. *)
Multiply(p, n) ==
  LET table == TimesTable(p)
      windows == Bits \div TableBits
      Window(i) == (n \div Power(2, TableBits * (windows - i))) % Power(2, TableBits)
      sum[i \in 1..windows] ==
        IF i = 1 THEN Add(ZERO, table[Window(1)])
        ELSE Add(Shifted(sum[i - 1]), table[Window(i)])
  IN  sum[windows]

(* FieldInt::reciprocal: zero has none, and stays. *)
Reciprocal(n) == IF n = 0 THEN 0 ELSE CHOOSE r \in Field : (r * n) % P = 1

(* Mutant: y is left as it is. *)
NormalizeX(p) ==
  LET r == Reciprocal(p.z)
  IN  Replaced(ZERO, FromXY((p.x * r) % P, p.y), p.z # 0)

Normalize(p) ==
  LET r == Reciprocal(p.z)
      One(n) == IF n # 0 THEN 1 ELSE 0
  IN  Replaced([x |-> One(p.x), y |-> One(p.y), z |-> p.z],
               FromXY((p.x * r) % P, (p.y * r) % P), p.z # 0)

PrivateExponentToPublicPoint(d) == Normalize(Multiply(G, d))

-----------------------------------------------------------------------------
(* Registers *)

VARIABLES
  this,   \* the point a method is called on
  other,  \* its argument
  method  \* the method called last

pointVars == <<this, other, method>>

(* What stands for a point of the curve: what the constructors make, and   *)
(* what the methods make of that.                                          *)
Made == {ZERO} \cup
        {p \in Point : /\ p.z # 0
                       /\ (p.y * p.y * p.z - p.x * p.x * p.x - B * p.z * p.z * p.z) % P = 0}

PointInit == this \in Made /\ other \in Made /\ method = <<"idle">>

Returns(m, p) == method = <<"idle">> /\ method' = m /\ this' = p /\ UNCHANGED other

Return == method # <<"idle">> /\ method' = <<"idle">> /\ UNCHANGED <<this, other>>

PointNext ==
  \/ Returns(<<"add">>, Add(this, other))
  \/ Returns(<<"twice">>, Twice(this))
  \/ Returns(<<"normalize">>, Normalize(this))
  \/ \E n \in Scalars : Returns(<<"multiply", n>>, Multiply(this, n))
  \/ Return

-----------------------------------------------------------------------------
(* Properties *)

Affine(p) ==
  IF p.z = 0 THEN Infinity
  ELSE LET r == Reciprocal(p.z) IN <<(p.x * r) % P, (p.y * r) % P>>

Group == INSTANCE CurveGroup WITH a <- Affine(this), b <- Affine(other)

(* Whatever coordinates stand for the points, and whichever of the special *)
(* cases applies, the methods compute in the group of the curve.           *)
ImplementsGroup == Group!Spec

(* A normalized point has the only coordinates of its kind, so that        *)
(* comparing coordinates, as verify does, compares points; and no method   *)
(* leaves coordinates that stand for no point.                             *)
NormalFormIsUnique ==
  /\ this \in Made
  /\ method = <<"normalize">> =>
       this = IF Affine(this) = Infinity THEN ZERO
              ELSE FromXY(Affine(this)[1], Affine(this)[2])
=============================================================================
