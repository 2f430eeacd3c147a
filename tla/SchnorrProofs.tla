---------------------------- MODULE SchnorrProofs ----------------------------
(***************************************************************************)
(* The points of the signature verifier and its check, for every prime     *)
(* field, every curve y^2 = x^3 + B over it and every size of a window.    *)
(*                                                                         *)
(* Arithmetic modulo P is done with a congruence: Same(a, b).  A step that *)
(* uses an equation modulo P writes the difference of its two sides as a   *)
(* sum of multiples of differences that are known to be zero modulo P      *)
(* (an identity over the integers), and puts zero for each of them.        *)
(*                                                                         *)
(* The sections: numbers modulo P and their inverses; Stands, which says   *)
(* what coordinates stand for; the chords and tangents the group is        *)
(* defined by; the laws of the group, associativity last; Twice, Add and   *)
(* Normalize, branch by branch; the table, the shifts and the windows of   *)
(* Multiply; the invariant and the refinement; the multiples of G, which   *)
(* repeat after Order and not before; the check of a signature.            *)
(***************************************************************************)
EXTENDS Schnorr, Inductions

-----------------------------------------------------------------------------
(* Numbers modulo P *)

(* Both are numbers, and P divides their difference. *)
Same(a, b) == a \in Int /\ b \in Int /\ \E k \in Int : a = b + P * k

LEMMA PIs == P \in Nat /\ P > 3 /\ \A n \in 2..P - 1 : P % n # 0
BY CurveConstants

LEMMA SameIs == \A a \in Int : Same(a, a)
<1>1. \A a \in Int : a = a + P * 0
  BY PIs
<1> QED
  BY <1>1 DEF Same

LEMMA SameSymmetric == \A a, b : Same(a, b) => Same(b, a)
<1> SUFFICES ASSUME NEW a, NEW b, Same(a, b) PROVE Same(b, a)
  OBVIOUS
<1>1. PICK k \in Int : a = b + P * k /\ a \in Int /\ b \in Int
  BY DEF Same
<1>2. b = a + P * (-k) /\ -k \in Int
  BY <1>1, PIs
<1> QED
  BY <1>1, <1>2 DEF Same

LEMMA SameTransitive == \A a, b, c : Same(a, b) /\ Same(b, c) => Same(a, c)
<1> SUFFICES ASSUME NEW a, NEW b, NEW c, Same(a, b), Same(b, c) PROVE Same(a, c)
  OBVIOUS
<1>1. PICK k \in Int : a = b + P * k /\ a \in Int /\ b \in Int
  BY DEF Same
<1>2. PICK m \in Int : b = c + P * m /\ c \in Int
  BY DEF Same
<1>3. a = c + P * (k + m) /\ k + m \in Int
  BY <1>1, <1>2, PIs
<1> QED
  BY <1>1, <1>2, <1>3 DEF Same

LEMMA SamePlus == \A a, b, c, d : Same(a, b) /\ Same(c, d) => Same(a + c, b + d)
<1> SUFFICES ASSUME NEW a, NEW b, NEW c, NEW d, Same(a, b), Same(c, d) PROVE Same(a + c, b + d)
  OBVIOUS
<1>1. PICK k \in Int : a = b + P * k /\ a \in Int /\ b \in Int
  BY DEF Same
<1>2. PICK m \in Int : c = d + P * m /\ c \in Int /\ d \in Int
  BY DEF Same
<1>3. a + c = (b + d) + P * (k + m) /\ k + m \in Int /\ a + c \in Int /\ b + d \in Int
  BY <1>1, <1>2, PIs
<1> QED
  BY <1>3 DEF Same

LEMMA SameMinus == \A a, b, c, d : Same(a, b) /\ Same(c, d) => Same(a - c, b - d)
<1> SUFFICES ASSUME NEW a, NEW b, NEW c, NEW d, Same(a, b), Same(c, d) PROVE Same(a - c, b - d)
  OBVIOUS
<1>1. PICK k \in Int : a = b + P * k /\ a \in Int /\ b \in Int
  BY DEF Same
<1>2. PICK m \in Int : c = d + P * m /\ c \in Int /\ d \in Int
  BY DEF Same
<1>3. a - c = (b - d) + P * (k - m) /\ k - m \in Int /\ a - c \in Int /\ b - d \in Int
  BY <1>1, <1>2, PIs
<1> QED
  BY <1>3 DEF Same

LEMMA SameTimes == \A a, b, c, d : Same(a, b) /\ Same(c, d) => Same(a * c, b * d)
<1> SUFFICES ASSUME NEW a, NEW b, NEW c, NEW d, Same(a, b), Same(c, d) PROVE Same(a * c, b * d)
  OBVIOUS
<1>1. PICK k \in Int : a = b + P * k /\ a \in Int /\ b \in Int
  BY DEF Same
<1>2. PICK m \in Int : c = d + P * m /\ c \in Int /\ d \in Int
  BY DEF Same
<1>3. (b + P * k) * (d + P * m) = (b * d) + P * (k * d + b * m + P * (k * m))
  BY <1>1, <1>2, PIs
<1>4. k * d + b * m + P * (k * m) \in Int /\ a * c \in Int /\ b * d \in Int
  BY <1>1, <1>2, PIs
<1> QED
  BY <1>1, <1>2, <1>3, <1>4 DEF Same

LEMMA RemainderIs ==
  ASSUME NEW n \in Int
  PROVE  n % P \in Field /\ Same(n % P, n)
<1> DEFINE r == n % P
           q == n \div P
<1>1. q \in Int /\ r \in 0..P - 1 /\ n = P * q + r
  BY PIs, Division
<1> HIDE DEF r, q
<1>2. r = n + P * (-q) /\ -q \in Int
  BY <1>1, PIs
<1>3. r \in Field /\ Same(r, n)
  BY <1>1, <1>2 DEF Field, Same
<1> QED
  BY <1>3 DEF r

LEMMA SameInField ==
  ASSUME NEW a \in Field, NEW b \in Field, Same(a, b)
  PROVE  a = b
<1>1. PICK k \in Int : a = b + P * k
  BY DEF Same
<1>2. a \in 0..P - 1 /\ b \in 0..P - 1
  BY DEF Field
<1>3. ~(k >= 1)
  <2> SUFFICES ASSUME k >= 1 PROVE FALSE
    OBVIOUS
  <2>1. P * 1 <= P * k
    BY PIs, ProductsOrdered
  <2> QED
    BY <1>1, <1>2, <2>1, PIs
<1>4. ~(k <= -1)
  <2> SUFFICES ASSUME k <= -1 PROVE FALSE
    OBVIOUS
  <2>1. P * k <= P * (-1)
    BY PIs, ProductsOrdered
  <2> QED
    BY <1>1, <1>2, <2>1, PIs
<1>5. k = 0
  BY <1>3, <1>4
<1> QED
  BY <1>1, <1>2, <1>5, PIs

(* Congruent numbers have the same remainder, *)
LEMMA SameRemainder ==
  ASSUME NEW a, NEW b, Same(a, b)
  PROVE  a % P = b % P
<1>1. a \in Int /\ b \in Int
  BY DEF Same
<1> DEFINE r == a % P
           s == b % P
<1>2. r \in Field /\ s \in Field /\ Same(r, a) /\ Same(s, b)
  BY <1>1, RemainderIs
<1> HIDE DEF r, s
<1>3. Same(r, s)
  BY <1>2, SameSymmetric, SameTransitive, Zenon
<1>4. r = s
  BY <1>2, <1>3, SameInField
<1> QED
  BY <1>4 DEF r, s

(* and the other way round. *)
LEMMA RemainderSame ==
  ASSUME NEW a \in Int, NEW b \in Int, a % P = b % P
  PROVE  Same(a, b)
<1>1. Same(a % P, a) /\ Same(b % P, b)
  BY RemainderIs
<1> QED
  BY <1>1, SameSymmetric, SameTransitive, Zenon

LEMMA ZeroIs ==
  /\ 0 \in Field /\ 1 \in Field /\ 0 % P = 0
  /\ ~Same(1, 0) /\ ~Same(2, 0)
<1>1. 0 \in Field /\ 1 \in Field /\ 2 \in Field
  BY PIs DEF Field
<1>2. 0 % P = 0
  BY PIs
<1> QED
  BY <1>1, <1>2, SameInField

(* P divides a number when its remainder is zero. *)
LEMMA DividedIs ==
  ASSUME NEW n \in Int
  PROVE  n % P = 0 <=> Same(n, 0)
BY ZeroIs, SameRemainder, RemainderSame

LEMMA SameZero ==
  ASSUME NEW a \in Int, NEW b \in Int
  PROVE  Same(a - b, 0) <=> Same(a, b)
<1>1. Same(b, b) /\ 0 + b = b /\ (a - b) + b = a
  BY SameIs
<1>2. Same(a - b, 0) => Same((a - b) + b, 0 + b)
  BY <1>1, SamePlus, Zenon
<1>3. Same(a, b) => Same(a - b, b - b)
  BY <1>1, SameMinus, Zenon
<1>4. b - b = 0
  OBVIOUS
<1> QED
  BY <1>1, <1>2, <1>3, <1>4

LEMMA SubtractSame == \A a, b : Same(a, b) => Same(a - b, 0)
<1> SUFFICES ASSUME NEW a, NEW b, Same(a, b) PROVE Same(a - b, 0)
  OBVIOUS
<1>1. a \in Int /\ b \in Int
  BY DEF Same
<1> QED
  BY <1>1, SameZero

LEMMA DifferenceIs ==
  ASSUME NEW a \in Int, NEW b \in Int
  PROVE  (a - b) % P = 0 <=> Same(a, b)
<1> DEFINE d == a - b
<1>1. d \in Int
  OBVIOUS
<1>2. Same(d, 0) <=> Same(a, b)
  BY SameZero
<1> HIDE DEF d
<1>3. d % P = 0 <=> Same(a, b)
  BY <1>1, <1>2, DividedIs
<1> QED
  BY <1>3 DEF d

(* A number that P does not divide has an inverse: the smallest positive   *)
(* number congruent to a multiple of it divides P, and so is 1.            *)
LEMMA InverseExists ==
  ASSUME NEW a \in Int, ~Same(a, 0)
  PROVE  \E r \in Field : Same(r * a, 1)
<1> DEFINE S == {d \in Nat \ {0} : \E r \in Int : Same(r * a, d)}
           m == a % P
<1>1. m \in S /\ m \in 1..P - 1
  <2>1. m \in Field /\ Same(m, a)
    BY RemainderIs
  <2> HIDE DEF m
  <2>2. m # 0
    BY <2>1, SameSymmetric
  <2>3. m \in Nat \ {0} /\ Same(1 * a, m) /\ m \in 1..P - 1
    <3>1. 1 * a = a
      OBVIOUS
    <3>2. m \in Nat \ {0} /\ m \in 1..P - 1
      BY <2>1, <2>2, PIs DEF Field
    <3> QED
      BY <2>1, <3>1, <3>2, SameSymmetric
  <2> QED
    BY <2>3
<1>2. PICK d \in S : \A k \in S : d <= k
  <2>1. S \in SUBSET Nat /\ S # {}
    BY <1>1
  <2> HIDE DEF S
  <2> QED
    BY <2>1, SmallestIndex
<1>3. PICK r \in Int : Same(r * a, d)
  BY <1>2
<1>4. d \in 1..P - 1 /\ d \in Nat \ {0} /\ P \in Int
  <2>1. d \in Nat \ {0} /\ d <= m
    BY <1>1, <1>2
  <2> HIDE DEF m, S
  <2> QED
    BY <1>1, <2>1, PIs
<1> DEFINE q == P \div d
           e == P % d
<1>5. q \in Int /\ e \in 0..d - 1 /\ P = d * q + e
  BY <1>4, Division
<1> HIDE DEF q, e, m
<1>6. Same((-q * r) * a, e)
  <2>1. Same(q * (r * a), q * d)
    BY <1>3, <1>5, SameIs, SameTimes, Zenon
  <2>2. Same(0, P)
    BY PIs, RemainderIs DEF Same
  <2>3. Same(0 - q * (r * a), P - q * d)
    BY <2>1, <2>2, SameMinus, Zenon
  <2>4. 0 - q * (r * a) = (-q * r) * a /\ P - q * d = e
    BY <1>4, <1>5, PIs
  <2> QED
    BY <2>3, <2>4
<1>7. e = 0
  <2> SUFFICES ASSUME e # 0 PROVE FALSE
    OBVIOUS
  <2>1. e \in S
    <3>1. -q * r \in Int /\ e \in Nat \ {0}
      BY <1>4, <1>5
    <3> QED
      BY <1>6, <3>1
  <2> HIDE DEF S
  <2> QED
    BY <1>2, <1>4, <1>5, <2>1
<1>8. d = 1
  BY <1>4, <1>7, PIs DEF e
<1> DEFINE i == r % P
<1>9. i \in Field /\ Same(i, r)
  BY RemainderIs
<1> HIDE DEF i
<1>10. Same(i * a, r * a)
  BY <1>9, SameIs, SameTimes, Zenon
<1> QED
  BY <1>3, <1>8, <1>9, <1>10, SameTransitive

LEMMA Cancelled ==
  ASSUME NEW a \in Int, NEW b \in Int, NEW c \in Int, ~Same(a, 0), Same(a * b, a * c)
  PROVE  Same(b, c)
<1>1. PICK r \in Field : Same(r * a, 1)
  BY InverseExists
<1>2. r \in Int
  BY <1>1, PIs DEF Field
<1>3. Same(r * (a * b), r * (a * c)) /\ Same((r * a) * b, 1 * b) /\ Same((r * a) * c, 1 * c)
  BY <1>1, <1>2, SameIs, SameTimes, Zenon
<1>4. /\ r * (a * b) = (r * a) * b /\ r * (a * c) = (r * a) * c
      /\ 1 * b = b /\ 1 * c = c
  BY <1>2
<1>5. Same(b, (r * a) * b) /\ Same((r * a) * b, (r * a) * c) /\ Same((r * a) * c, c)
  BY <1>3, <1>4, SameSymmetric
<1> QED
  BY <1>5, SameTransitive, Zenon

LEMMA NoZeroDivisors ==
  ASSUME NEW a \in Int, NEW b \in Int, ~Same(a, 0), ~Same(b, 0)
  PROVE  ~Same(a * b, 0)
<1> SUFFICES ASSUME Same(a * b, 0) PROVE FALSE
  OBVIOUS
<1>1. a * 0 = 0
  OBVIOUS
<1>2. Same(a * b, a * 0)
  BY <1>1
<1> QED
  BY <1>2, Cancelled

LEMMA ReciprocalIs ==
  ASSUME NEW n \in Field, n # 0
  PROVE  Reciprocal(n) \in Field /\ Same(Reciprocal(n) * n, 1)
<1>1. n \in Int /\ ~Same(n, 0)
  BY ZeroIs, SameInField, PIs DEF Field
<1>2. PICK r \in Field : Same(r * n, 1)
  BY <1>1, InverseExists
<1>3. 1 % P = 1
  BY PIs
<1>4. (r * n) % P = 1
  BY <1>2, <1>3, SameRemainder
<1> DEFINE s == Reciprocal(n)
<1>5. s \in Field /\ (s * n) % P = 1
  <2>1. s = CHOOSE t \in Field : (t * n) % P = 1
    BY DEF Reciprocal
  <2> HIDE DEF s
  <2> QED
    BY <1>4, <2>1, Zenon
<1> HIDE DEF s
<1>6. s * n \in Int
  BY <1>1, <1>5, PIs DEF Field
<1>7. Same(s * n, 1)
  BY <1>3, <1>5, <1>6, RemainderSame
<1> QED
  BY <1>5, <1>7 DEF s

LEMMA QuotientIs ==
  ASSUME NEW n \in Int, NEW d \in Int, ~Same(d, 0)
  PROVE  Group!Quotient(n, d) \in Field /\ Same(Group!Quotient(n, d) * d, n)
<1>1. PICK r \in Field : Same(r * d, 1)
  BY InverseExists
<1> DEFINE q == (r * n) % P
<1>2. r \in Int /\ r * n \in Int
  BY <1>1, PIs DEF Field
<1>3. q \in Field /\ Same(q, r * n)
  BY <1>2, RemainderIs
<1> HIDE DEF q
<1>4. Same(q * d, n)
  <2>1. Same(q * d, (r * n) * d) /\ Same((r * d) * n, 1 * n)
    BY <1>1, <1>3, SameIs, SameTimes, Zenon
  <2>2. (r * n) * d = (r * d) * n /\ 1 * n = n
    BY <1>2
  <2> QED
    BY <2>1, <2>2, SameTransitive
<1>5. q * d \in Int
  BY <1>3, PIs DEF Field
<1>6. (q * d - n) % P = 0
  BY <1>4, <1>5, DifferenceIs
<1> DEFINE s == Group!Quotient(n, d)
<1>7. s \in Field /\ (s * d - n) % P = 0
  <2>1. s = CHOOSE t \in 0..P - 1 : (t * d - n) % P = 0
    BY DEF Group!Quotient
  <2> HIDE DEF s
  <2> QED
    BY <1>3, <1>6, <2>1, Zenon DEF Field
<1> HIDE DEF s
<1>8. s * d \in Int
  BY <1>7, PIs DEF Field
<1>9. Same(s * d, n)
  BY <1>7, <1>8, DifferenceIs
<1> QED
  BY <1>7, <1>9 DEF s

-----------------------------------------------------------------------------
(* Points and the coordinates that stand for them *)

LEMMA FieldIsInt == \A n \in Field : n \in Int
BY PIs DEF Field

LEMMA ConstantsAre == B \in Int /\ B \in Field /\ GX \in Field /\ GY \in Field
BY CurveConstants, FieldIsInt

(* The coordinates in p stand for the point (X, Y). *)
Stands(p, X, Y) ==
  /\ p \in Point /\ X \in Field /\ Y \in Field
  /\ ~Same(p.z, 0)
  /\ Same(p.x, X * p.z)
  /\ Same(p.y, Y * p.z)

OnCurve(X, Y) == Same(Y * Y, X * X * X + B)

LEMMA PointIs ==
  ASSUME NEW p \in Point
  PROVE  /\ p.x \in Field /\ p.y \in Field /\ p.z \in Field
         /\ p.x \in Int /\ p.y \in Int /\ p.z \in Int
         /\ p.z # 0 <=> ~Same(p.z, 0)
<1>1. p.x \in Field /\ p.y \in Field /\ p.z \in Field
  BY DEF Point
<1>2. p.x \in Int /\ p.y \in Int /\ p.z \in Int
  BY <1>1, FieldIsInt
<1>3. Same(p.z, 0) => p.z = 0
  BY <1>1, ZeroIs, SameInField
<1>4. p.z = 0 => Same(p.z, 0)
  BY SameIs
<1> QED
  BY <1>1, <1>2, <1>3, <1>4

LEMMA StandsForAffine ==
  ASSUME NEW p \in Point, p.z # 0
  PROVE  \E X, Y \in Field : Affine(p) = <<X, Y>> /\ Stands(p, X, Y)
<1> DEFINE z == p.z
           r == Reciprocal(z)
           x == p.x
           y == p.y
           X == (x * r) % P
           Y == (y * r) % P
<1>1. x \in Int /\ y \in Int /\ z \in Int /\ z \in Field /\ z # 0 /\ ~Same(z, 0)
  BY PointIs
<1>2. Affine(p) = <<X, Y>>
  BY DEF Affine
<1> HIDE DEF x, y, z
<1>3. r \in Field /\ Same(r * z, 1)
  BY <1>1, ReciprocalIs
<1> HIDE DEF r
<1>4. r \in Int
  BY <1>3, FieldIsInt
<1>5. x * r \in Int /\ y * r \in Int
  BY <1>1, <1>4
<1>6. X \in Field /\ Y \in Field /\ Same(X, x * r) /\ Same(Y, y * r)
  BY <1>5, RemainderIs
<1> HIDE DEF X, Y
<1>7. Same(x, X * z) /\ Same(y, Y * z)
  <2>1. Same(X * z, (x * r) * z) /\ Same(Y * z, (y * r) * z)
    BY <1>1, <1>6, SameIs, SameTimes, Zenon
  <2>2. Same(x * (r * z), x * 1) /\ Same(y * (r * z), y * 1)
    BY <1>1, <1>3, SameIs, SameTimes, Zenon
  <2>3. /\ (x * r) * z = x * (r * z) /\ (y * r) * z = y * (r * z)
        /\ x * 1 = x /\ y * 1 = y
    BY <1>1, <1>4
  <2>4. Same(X * z, x) /\ Same(Y * z, y)
    BY <2>1, <2>2, <2>3, SameTransitive
  <2> QED
    BY <2>4, SameSymmetric
<1>8. Stands(p, X, Y)
  BY <1>1, <1>6, <1>7 DEF Stands, x, y, z
<1> QED
  BY <1>2, <1>6, <1>8

(* Coordinates stand for one point. *)
LEMMA AffineIs ==
  ASSUME NEW p, NEW X, NEW Y, Stands(p, X, Y)
  PROVE  Affine(p) = <<X, Y>>
<1>1. /\ p \in Point /\ X \in Field /\ Y \in Field /\ ~Same(p.z, 0)
      /\ Same(p.x, X * p.z) /\ Same(p.y, Y * p.z)
  BY DEF Stands
<1>2. p.z # 0 /\ p.z \in Int
  BY <1>1, PointIs
<1>3. PICK U, V \in Field : Affine(p) = <<U, V>> /\ Stands(p, U, V)
  BY <1>1, <1>2, StandsForAffine
<1> DEFINE z == p.z
<1>4. Same(p.x, U * z) /\ Same(p.y, V * z)
  BY <1>3 DEF Stands
<1>5. Same(p.x, X * z) /\ Same(p.y, Y * z) /\ z \in Int /\ ~Same(z, 0)
  BY <1>1, <1>2
<1> HIDE DEF z
<1>6. X \in Int /\ Y \in Int /\ U \in Int /\ V \in Int
  BY <1>1, <1>3, FieldIsInt
<1>7. U * z = z * U /\ V * z = z * V /\ X * z = z * X /\ Y * z = z * Y
  BY <1>5, <1>6
<1>8. Same(z * U, z * X) /\ Same(z * V, z * Y)
  BY <1>4, <1>5, <1>7, SameSymmetric, SameTransitive, Zenon
<1>9. Same(U, X) /\ Same(V, Y)
  BY <1>5, <1>6, <1>8, Cancelled
<1> QED
  BY <1>1, <1>3, <1>9, SameInField

LEMMA MadeIs ==
  ASSUME NEW p, NEW X, NEW Y, Stands(p, X, Y)
  PROVE  p \in Made <=> OnCurve(X, Y)
<1> DEFINE x == p.x
           y == p.y
           z == p.z
           e == y * y * z - x * x * x - B * z * z * z
           c == Y * Y - (X * X * X + B)
           z3 == z * z * z
<1>1. /\ p \in Point /\ X \in Field /\ Y \in Field /\ ~Same(z, 0)
      /\ Same(x, X * z) /\ Same(y, Y * z)
  BY DEF Stands
<1>2. x \in Int /\ y \in Int /\ z \in Int /\ z # 0 /\ X \in Int /\ Y \in Int /\ B \in Int
  BY <1>1, PointIs, FieldIsInt, ConstantsAre
<1>3. p \in Made <=> e % P = 0
  BY <1>1, <1>2 DEF Made, ZERO
<1> HIDE DEF x, y, z
<1>4. Same(e, (Y * z) * (Y * z) * z - (X * z) * (X * z) * (X * z) - B * z * z * z)
  BY <1>1, <1>2, SameIs, SameTimes, SameMinus, Zenon
<1>5. (Y * z) * (Y * z) * z - (X * z) * (X * z) * (X * z) - B * z * z * z = z3 * c
  BY <1>2
<1>6. Same(e, z3 * c)
  BY <1>4, <1>5
<1>7. e \in Int /\ z3 \in Int /\ c \in Int /\ Y * Y \in Int /\ X * X * X + B \in Int
  BY <1>2
<1>8. ~Same(z3, 0)
  <2>1. z * z \in Int
    BY <1>2
  <2> QED
    BY <1>1, <1>2, <2>1, NoZeroDivisors
<1>9. Same(c, 0) <=> OnCurve(X, Y)
  BY <1>7, SameZero DEF OnCurve
<1> HIDE DEF e, z3, c
<1>10. e % P = 0 <=> Same(z3 * c, 0)
  BY <1>6, <1>7, DividedIs, SameTransitive, SameSymmetric
<1>11. Same(z3 * c, 0) <=> Same(c, 0)
  <2>1. Same(c, 0) => Same(z3 * c, z3 * 0)
    BY <1>7, SameIs, SameTimes, Zenon
  <2>2. z3 * 0 = 0
    BY <1>7
  <2> QED
    BY <1>7, <1>8, <2>1, <2>2, NoZeroDivisors
<1> QED
  BY <1>3, <1>9, <1>10, <1>11

LEMMA PairIs ==
  ASSUME NEW X \in Field, NEW Y \in Field
  PROVE  /\ <<X, Y>> \in Group!Points <=> OnCurve(X, Y)
         /\ <<X, Y>> # Infinity /\ <<X, Y>>[1] = X /\ <<X, Y>>[2] = Y
<1>1. X \in Int /\ Y \in Int /\ B \in Int
  BY FieldIsInt, ConstantsAre
<1>2. <<X, Y>> # Infinity
  BY CurveConstants
<1> DEFINE f == Y * Y
           g == X * X * X + B
<1>3. f \in Int /\ g \in Int
  BY <1>1
<1>4. <<X, Y>> \in Group!Points <=> f % P = g % P
  BY <1>2 DEF Group!Points, Field
<1>5. OnCurve(X, Y) <=> Same(f, g)
  BY DEF OnCurve
<1> HIDE DEF f, g
<1>6. f % P = g % P <=> Same(f, g)
  BY <1>3, SameRemainder, RemainderSame
<1> QED
  BY <1>2, <1>4, <1>5, <1>6

(* What is made stands for a point of the group, and only ZERO for the one *)
(* without coordinates.                                                    *)
LEMMA MadeStands ==
  ASSUME NEW p \in Made
  PROVE  \/ p = ZERO /\ IsZero(p) /\ Affine(p) = Infinity
         \/ /\ ~IsZero(p) /\ p # ZERO /\ p.z # 0
            /\ \E X, Y \in Field : Affine(p) = <<X, Y>> /\ Stands(p, X, Y) /\ OnCurve(X, Y)
<1>1. CASE p = ZERO
  <2>1. ZERO.z = 0 /\ IsZero(ZERO)
    BY DEF ZERO, IsZero
  <2> QED
    BY <1>1, <2>1 DEF Affine
<1>2. CASE p # ZERO
  <2>1. p \in Point /\ p.z # 0
    BY <1>2 DEF Made
  <2>2. PICK X, Y \in Field : Affine(p) = <<X, Y>> /\ Stands(p, X, Y)
    BY <2>1, StandsForAffine
  <2>3. OnCurve(X, Y)
    BY <2>2, MadeIs
  <2>4. ~IsZero(p)
    BY <2>1 DEF IsZero
  <2> QED
    BY <1>2, <2>1, <2>2, <2>3, <2>4
<1> QED
  BY <1>1, <1>2

LEMMA ZeroMade == ZERO \in Made /\ Affine(ZERO) = Infinity /\ ZERO.z = 0 /\ IsZero(ZERO)
BY DEF ZERO, Made, Affine, IsZero

LEMMA AffineInGroup ==
  ASSUME NEW p \in Made
  PROVE  /\ Affine(p) \in Group!Points
         /\ Affine(p) = Infinity <=> p = ZERO
<1>1. Infinity \in Group!Points
  BY DEF Group!Points
<1> QED
  BY <1>1, MadeStands, PairIs

-----------------------------------------------------------------------------
(* The group: chords and tangents *)

(* The line of slope s through (X, Y) meets the curve where this vanishes, *)
(* and at (X, Y) itself.                                                   *)
Meets(X, Y, s, x) == x * x + x * X + X * X - s * s * (x - X) - 2 * s * Y

(* (X3, Y3) is the third point of the line of slope s through (X, Y) and a *)
(* point with first coordinate x, reflected.                               *)
IsThird(X, Y, x, s, X3, Y3) ==
  /\ s \in Field /\ X3 \in Field /\ Y3 \in Field
  /\ Same(X3, s * s - X - x)
  /\ Same(Y3, s * (X - X3) - Y)

LEMMA ThirdIs ==
  ASSUME NEW X \in Field, NEW Y \in Field, NEW x \in Field, NEW s \in Field
  PROVE  \E X3, Y3 \in Field :
           Group!Third(<<X, Y>>, x, s) = <<X3, Y3>> /\ IsThird(X, Y, x, s, X3, Y3)
<1>1. X \in Int /\ Y \in Int /\ x \in Int /\ s \in Int
  BY FieldIsInt
<1> DEFINE X3 == (s * s - X - x) % P
           Y3 == (s * (X - X3) - Y) % P
<1>2. Group!Third(<<X, Y>>, x, s) = <<X3, Y3>>
  BY DEF Group!Third
<1>3. s * s - X - x \in Int
  BY <1>1
<1>4. X3 \in Field /\ Same(X3, s * s - X - x)
  BY <1>3, RemainderIs
<1>5. s * (X - X3) - Y \in Int
  <2>1. X3 \in Int
    BY <1>4, FieldIsInt
  <2> HIDE DEF X3
  <2> QED
    BY <1>1, <2>1
<1>6. Y3 \in Field /\ Same(Y3, s * (X - X3) - Y)
  <2> HIDE DEF X3
  <2> QED
    BY <1>5, RemainderIs
<1> HIDE DEF X3, Y3
<1> QED
  BY <1>2, <1>4, <1>6 DEF IsThird

(* The sum of the three solutions is s * s. *)
LEMMA ThirdOnCurve ==
  ASSUME NEW X \in Field, NEW Y \in Field, NEW x \in Field, NEW s, NEW X3, NEW Y3,
         OnCurve(X, Y), IsThird(X, Y, x, s, X3, Y3), Same(Meets(X, Y, s, x), 0)
  PROVE  OnCurve(X3, Y3)
<1>1. /\ X \in Int /\ Y \in Int /\ x \in Int /\ s \in Int /\ X3 \in Int /\ Y3 \in Int
      /\ B \in Int
  BY FieldIsInt, ConstantsAre DEF IsThird
<1> DEFINE d == (X * X * X + B) - Y * Y
           m == Meets(X, Y, s, x)
           e == X3 - (s * s - X - x)
           y == s * (X - X3) - Y
           l == X3 * X3 * X3 + B
<1>2. Same(d, 0)
  <2>1. Same(X * X * X + B, Y * Y)
    BY SameSymmetric DEF OnCurve
  <2> QED
    BY <2>1, SubtractSame, Zenon
<1>3. Same(e, 0)
  <2>1. Same(X3, s * s - X - x) /\ s * s - X - x \in Int
    BY <1>1 DEF IsThird
  <2> QED
    BY <1>1, <2>1, SameZero
<1>4. l - y * y = d + (X3 - X) * (m + (X3 - x) * e)
  BY <1>1 DEF Meets
<1>5. d \in Int /\ m \in Int /\ e \in Int /\ y \in Int /\ l \in Int /\ y * y \in Int
  BY <1>1 DEF Meets
<1>6. Same(Y3, y) /\ Same(m, 0)
  BY DEF IsThird
<1> HIDE DEF d, m, e, y, l
<1>7. Same(d + (X3 - X) * (m + (X3 - x) * e), 0 + (X3 - X) * (0 + (X3 - x) * 0))
  BY <1>1, <1>2, <1>3, <1>6, SameIs, SamePlus, SameMinus, SameTimes, Zenon
<1>8. 0 + (X3 - X) * (0 + (X3 - x) * 0) = 0
  BY <1>1
<1>9. Same(l, y * y)
  BY <1>4, <1>5, <1>7, <1>8, SameZero
<1>10. Same(Y3 * Y3, y * y)
  BY <1>6, SameTimes
<1>11. Same(Y3 * Y3, l)
  BY <1>9, <1>10, SameSymmetric, SameTransitive
<1> QED
  BY <1>11 DEF OnCurve, l

LEMMA ChordIs ==
  ASSUME NEW X1 \in Field, NEW Y1 \in Field, NEW X2 \in Field, NEW Y2 \in Field, X1 # X2
  PROVE  \E s, X3, Y3 \in Field :
           /\ Group!Sum(<<X1, Y1>>, <<X2, Y2>>) = <<X3, Y3>>
           /\ Same(s * (X2 - X1), Y2 - Y1)
           /\ IsThird(X1, Y1, X2, s, X3, Y3)
           /\ OnCurve(X1, Y1) /\ OnCurve(X2, Y2) => OnCurve(X3, Y3)
<1>1. X1 \in Int /\ Y1 \in Int /\ X2 \in Int /\ Y2 \in Int /\ B \in Int /\ 2 \in Int
  BY FieldIsInt, ConstantsAre
<1> DEFINE D == X2 - X1
           N == Y2 - Y1
           s == Group!Quotient(N, D)
<1>2. D \in Int /\ N \in Int /\ ~Same(D, 0)
  <2>1. ~Same(X2, X1)
    BY SameInField
  <2>2. D \in Int /\ N \in Int
    BY <1>1
  <2>3. Same(D, 0) <=> Same(X2, X1)
    BY <1>1, SameZero
  <2> QED
    BY <2>1, <2>2, <2>3
<1>3. Group!Sum(<<X1, Y1>>, <<X2, Y2>>) = Group!Third(<<X1, Y1>>, X2, s)
  BY PairIs DEF Group!Sum
<1> HIDE DEF D, N
<1>4. s \in Field /\ Same(s * D, N)
  BY <1>2, QuotientIs
<1> HIDE DEF s
<1>5. s \in Int
  BY <1>4, FieldIsInt
<1>6. PICK X3, Y3 \in Field :
        Group!Third(<<X1, Y1>>, X2, s) = <<X3, Y3>> /\ IsThird(X1, Y1, X2, s, X3, Y3)
  BY <1>4, ThirdIs
<1>7. ASSUME OnCurve(X1, Y1), OnCurve(X2, Y2) PROVE OnCurve(X3, Y3)
  <2> DEFINE m == Meets(X1, Y1, s, X2)
             c1 == X1 * X1 * X1 + B
             c2 == X2 * X2 * X2 + B
             sD == s * D
  <2>1. D * m = c2 - c1 - (sD * sD + 2 * sD * Y1)
    BY <1>1, <1>5 DEF Meets, D
  <2>2. Same(c1, Y1 * Y1) /\ Same(c2, Y2 * Y2)
    BY <1>7, SameSymmetric DEF OnCurve
  <2>3. m \in Int
    BY <1>1, <1>5 DEF Meets
  <2>4. Same(sD, N)
    BY <1>4
  <2> HIDE DEF m, c1, c2, sD
  <2>5. Same(c2 - c1 - (sD * sD + 2 * sD * Y1), Y2 * Y2 - Y1 * Y1 - (N * N + 2 * N * Y1))
    BY <1>1, <2>2, <2>4, SameIs, SamePlus, SameMinus, SameTimes, Zenon
  <2>6. Y2 * Y2 - Y1 * Y1 - (N * N + 2 * N * Y1) = 0
    BY <1>1 DEF N
  <2>7. Same(D * m, 0)
    BY <2>1, <2>5, <2>6
  <2>8. Same(m, 0)
    BY <1>2, <2>3, <2>7, NoZeroDivisors
  <2> QED
    BY <1>6, <1>7, <2>8, ThirdOnCurve DEF m
<1> QED
  BY <1>3, <1>4, <1>6, <1>7 DEF D, N

LEMMA TangentIs ==
  ASSUME NEW X \in Field, NEW Y \in Field, Y # 0
  PROVE  \E s, X3, Y3 \in Field :
           /\ Group!Sum(<<X, Y>>, <<X, Y>>) = <<X3, Y3>>
           /\ Same(s * (2 * Y), 3 * X * X)
           /\ IsThird(X, Y, X, s, X3, Y3)
           /\ OnCurve(X, Y) => OnCurve(X3, Y3)
<1>1. X \in Int /\ Y \in Int /\ B \in Int /\ 2 \in Int
  BY FieldIsInt, ConstantsAre
<1> DEFINE D == 2 * Y
           N == 3 * X * X
           s == Group!Quotient(N, D)
<1>2. D \in Int /\ N \in Int /\ ~Same(D, 0)
  <2>1. ~Same(Y, 0)
    BY ZeroIs, SameInField
  <2> QED
    BY <1>1, <2>1, ZeroIs, NoZeroDivisors
<1>3. Group!Sum(<<X, Y>>, <<X, Y>>) = Group!Third(<<X, Y>>, X, s)
  BY PairIs DEF Group!Sum
<1> HIDE DEF D, N
<1>4. s \in Field /\ Same(s * D, N)
  BY <1>2, QuotientIs
<1> HIDE DEF s
<1>5. s \in Int
  BY <1>4, FieldIsInt
<1>6. PICK X3, Y3 \in Field :
        Group!Third(<<X, Y>>, X, s) = <<X3, Y3>> /\ IsThird(X, Y, X, s, X3, Y3)
  BY <1>4, ThirdIs
<1>7. ASSUME OnCurve(X, Y) PROVE OnCurve(X3, Y3)
  <2>1. Meets(X, Y, s, X) = N - s * D
    BY <1>1, <1>5 DEF Meets, D, N
  <2>2. s * D \in Int
    BY <1>2, <1>5
  <2>3. Same(N - s * D, 0)
    BY <1>2, <1>4, <2>2, SameZero, SameSymmetric
  <2> QED
    BY <1>6, <1>7, <2>1, <2>3, ThirdOnCurve
<1> QED
  BY <1>3, <1>4, <1>6, <1>7 DEF D, N

LEMMA SumInGroup ==
  ASSUME NEW p \in Group!Points, NEW q \in Group!Points
  PROVE  Group!Sum(p, q) \in Group!Points
<1>1. Infinity \in Group!Points
  BY DEF Group!Points
<1>2. CASE p = Infinity \/ q = Infinity
  BY <1>2 DEF Group!Sum
<1>3. CASE p # Infinity /\ q # Infinity
  <2>1. PICK X1, Y1 \in Field : p = <<X1, Y1>>
    BY <1>3 DEF Group!Points, Field
  <2>2. PICK X2, Y2 \in Field : q = <<X2, Y2>>
    BY <1>3 DEF Group!Points, Field
  <2>3. OnCurve(X1, Y1) /\ OnCurve(X2, Y2)
    BY <2>1, <2>2, PairIs
  <2>4. CASE X1 # X2
    BY <2>1, <2>2, <2>3, <2>4, ChordIs, PairIs
  <2>5. CASE X1 = X2 /\ Y1 = Y2 /\ Y1 # 0
    BY <2>1, <2>2, <2>3, <2>5, TangentIs, PairIs
  <2>6. CASE X1 = X2 /\ ~(Y1 = Y2 /\ Y1 # 0)
    BY <1>1, <1>3, <2>1, <2>2, <2>6, PairIs DEF Group!Sum
  <2> QED
    BY <2>4, <2>5, <2>6
<1> QED
  BY <1>2, <1>3

-----------------------------------------------------------------------------
(* The group: its laws *)

(* The slope of the line through two points of the curve, or of the tangent *)
(* at one: both equations hold of either, and opposite points have none.    *)
Slope(X1, Y1, X2, Y2, s) ==
  /\ Same(s * (X2 - X1), Y2 - Y1)
  /\ Same(s * (Y1 + Y2), X1 * X1 + X1 * X2 + X2 * X2)

(* (X3, Y3) is the sum of the points on a line of slope s. *)
Adds(X1, Y1, X2, Y2, s, X3, Y3) ==
  /\ Slope(X1, Y1, X2, Y2, s)
  /\ Same(X3, s * s - X1 - X2)
  /\ Same(Y3, s * (X1 - X3) - Y1)

(* Points with the same first coordinate are equal or opposite. *)
LEMMA EqualOrOpposite ==
  ASSUME NEW X \in Field, NEW Y1 \in Field, NEW Y2 \in Field, OnCurve(X, Y1), OnCurve(X, Y2)
  PROVE  Y1 = Y2 \/ Same(Y1 + Y2, 0)
<1>1. X \in Int /\ Y1 \in Int /\ Y2 \in Int /\ B \in Int
  BY FieldIsInt, ConstantsAre
<1>2. Same(Y1 * Y1, Y2 * Y2)
  BY SameSymmetric, SameTransitive DEF OnCurve
<1>3. Y1 * Y1 - Y2 * Y2 = (Y1 - Y2) * (Y1 + Y2) /\ Y1 - Y2 \in Int /\ Y1 + Y2 \in Int
  BY <1>1
<1>4. Same((Y1 - Y2) * (Y1 + Y2), 0)
  BY <1>2, <1>3, SubtractSame
<1>5. Same(Y1 - Y2, 0) \/ Same(Y1 + Y2, 0)
  BY <1>3, <1>4, NoZeroDivisors
<1> QED
  BY <1>1, <1>5, SameZero, SameInField

LEMMA OppositesAre ==
  ASSUME NEW X1 \in Field, NEW Y1 \in Field, NEW X2 \in Field, NEW Y2 \in Field,
         OnCurve(X1, Y1), OnCurve(X2, Y2)
  PROVE  Group!Sum(<<X1, Y1>>, <<X2, Y2>>) = Infinity <=> X1 = X2 /\ Same(Y1 + Y2, 0)
<1>1. /\ X1 \in Int /\ Y1 \in Int /\ X2 \in Int /\ Y2 \in Int
      /\ 2 \in Int /\ ~Same(2, 0)
  BY FieldIsInt, ZeroIs
<1>2. CASE X1 # X2
  BY <1>2, ChordIs, PairIs
<1>3. CASE X1 = X2 /\ Y1 = Y2 /\ Y1 # 0
  <2>1. Group!Sum(<<X1, Y1>>, <<X2, Y2>>) # Infinity
    BY <1>3, TangentIs, PairIs
  <2>2. ~Same(Y1, 0)
    BY <1>3, ZeroIs, SameInField
  <2>3. Y1 + Y2 = 2 * Y1
    BY <1>1, <1>3
  <2>4. ~Same(2 * Y1, 0)
    BY <1>1, <2>2, NoZeroDivisors
  <2> QED
    BY <2>1, <2>3, <2>4
<1>4. CASE X1 = X2 /\ ~(Y1 = Y2 /\ Y1 # 0)
  <2>1. Group!Sum(<<X1, Y1>>, <<X2, Y2>>) = Infinity
    BY <1>4, PairIs DEF Group!Sum
  <2>2. Y1 = Y2 => Y1 + Y2 = 0
    BY <1>4
  <2>3. Y1 = Y2 \/ Same(Y1 + Y2, 0)
    BY <1>4, EqualOrOpposite
  <2>4. Same(0, 0)
    BY SameIs
  <2> QED
    BY <1>4, <2>1, <2>2, <2>3, <2>4
<1> QED
  BY <1>2, <1>3, <1>4

(* A curve without singular points has no points that are opposite to      *)
(* themselves with a horizontal tangent.                                   *)
LEMMA SlopeNotOpposite ==
  ASSUME NEW X1 \in Field, NEW Y1 \in Field, NEW X2 \in Field, NEW Y2 \in Field, NEW s \in Int,
         OnCurve(X1, Y1), OnCurve(X2, Y2), Slope(X1, Y1, X2, Y2, s)
  PROVE  ~(X1 = X2 /\ Same(Y1 + Y2, 0))
<1> SUFFICES ASSUME X1 = X2, Same(Y1 + Y2, 0) PROVE FALSE
  OBVIOUS
<1>1. /\ X1 \in Int /\ Y1 \in Int /\ X2 \in Int /\ Y2 \in Int /\ B \in Int
      /\ 2 \in Int /\ ~Same(2, 0) /\ 3 \in Int
  BY FieldIsInt, ZeroIs, ConstantsAre
<1>2. Same(Y2 - Y1, 0)
  <2>1. Same(s * (X2 - X1), Y2 - Y1) /\ s * (X2 - X1) = 0
    BY <1>1 DEF Slope
  <2> QED
    BY <2>1, SameSymmetric
<1>3. Same(2 * Y2, 0)
  <2>1. Same((Y1 + Y2) + (Y2 - Y1), 0 + 0)
    BY <1>2, SamePlus, Zenon
  <2>2. (Y1 + Y2) + (Y2 - Y1) = 2 * Y2 /\ 0 + 0 = 0
    BY <1>1
  <2> QED
    BY <2>1, <2>2
<1>4. Same(Y2, 0)
  BY <1>1, <1>3, NoZeroDivisors
<1>5. Same(3 * (X2 * X2), 0)
  <2>1. Same(s * (Y1 + Y2), X1 * X1 + X1 * X2 + X2 * X2)
    BY DEF Slope
  <2>2. X1 * X1 + X1 * X2 + X2 * X2 = 3 * (X2 * X2)
    BY <1>1
  <2>3. Same(s * (Y1 + Y2), s * 0)
    BY SameIs, SameTimes, Zenon
  <2>4. s * 0 = 0
    OBVIOUS
  <2> QED
    BY <2>1, <2>2, <2>3, <2>4, SameSymmetric, SameTransitive
<1>6. Same(X2, 0)
  <2>1. 3 \in Field
    BY PIs DEF Field
  <2>2. ~Same(3, 0) /\ X2 * X2 \in Int
    BY <1>1, <2>1, ZeroIs, SameInField
  <2> QED
    BY <1>1, <1>5, <2>2, NoZeroDivisors
<1>7. Same(B, 0)
  <2>1. Same(Y2 * Y2 - X2 * X2 * X2, 0 * 0 - 0 * 0 * 0)
    BY <1>1, <1>4, <1>6, SameIs, SameTimes, SameMinus, Zenon
  <2>2. Same(Y2 * Y2 - X2 * X2 * X2, (X2 * X2 * X2 + B) - X2 * X2 * X2)
    <3>1. X2 * X2 * X2 \in Int
      BY <1>1
    <3> QED
      BY <1>1, <3>1, SameIs, SameMinus, Zenon DEF OnCurve
  <2>3. (X2 * X2 * X2 + B) - X2 * X2 * X2 = B /\ 0 * 0 - 0 * 0 * 0 = 0
    BY <1>1
  <2> QED
    BY <2>1, <2>2, <2>3, SameSymmetric, SameTransitive
<1>8. B # 0
  BY CurveConstants
<1> QED
  BY <1>7, <1>8, ConstantsAre, ZeroIs, SameInField

(* Points that are not opposite have a slope, *)
LEMMA SumHasSlope ==
  ASSUME NEW X1 \in Field, NEW Y1 \in Field, NEW X2 \in Field, NEW Y2 \in Field,
         OnCurve(X1, Y1), OnCurve(X2, Y2),
         Group!Sum(<<X1, Y1>>, <<X2, Y2>>) # Infinity
  PROVE  \E s, X3, Y3 \in Field :
           /\ Group!Sum(<<X1, Y1>>, <<X2, Y2>>) = <<X3, Y3>>
           /\ OnCurve(X3, Y3)
           /\ Adds(X1, Y1, X2, Y2, s, X3, Y3)
<1>1. X1 \in Int /\ Y1 \in Int /\ X2 \in Int /\ Y2 \in Int /\ B \in Int
  BY FieldIsInt, ConstantsAre
<1>2. CASE X1 # X2
  <2>1. PICK s, X3, Y3 \in Field :
          /\ Group!Sum(<<X1, Y1>>, <<X2, Y2>>) = <<X3, Y3>>
          /\ Same(s * (X2 - X1), Y2 - Y1)
          /\ IsThird(X1, Y1, X2, s, X3, Y3)
          /\ OnCurve(X3, Y3)
    BY <1>2, ChordIs
  <2> DEFINE D == X2 - X1
             n == X1 * X1 + X1 * X2 + X2 * X2
             m == s * (Y1 + Y2)
  <2>2. s \in Int /\ D \in Int /\ n \in Int /\ m \in Int
    BY <1>1, <2>1, FieldIsInt
  <2>3. ~Same(D, 0)
    BY <1>1, <1>2, SameZero, SameInField, SameSymmetric
  <2>4. Same(D * m, D * n)
    <3>1. Same((s * D) * (Y1 + Y2), (Y2 - Y1) * (Y1 + Y2))
      BY <1>1, <2>1, SameIs, SamePlus, SameTimes, Zenon
    <3>2. Same(Y2 * Y2 - Y1 * Y1, (X2 * X2 * X2 + B) - (X1 * X1 * X1 + B))
      BY SameMinus DEF OnCurve
    <3>3. /\ (Y2 - Y1) * (Y1 + Y2) = Y2 * Y2 - Y1 * Y1
          /\ (X2 * X2 * X2 + B) - (X1 * X1 * X1 + B) = D * n
      BY <1>1
    <3> HIDE DEF D
    <3>4. (s * D) * (Y1 + Y2) = D * m
      BY <1>1, <2>2
    <3> QED
      BY <3>1, <3>2, <3>3, <3>4, SameTransitive
  <2> HIDE DEF D, n, m
  <2>5. Same(m, n)
    BY <2>2, <2>3, <2>4, Cancelled
  <2> QED
    BY <2>1, <2>5 DEF Adds, Slope, IsThird, m, n
<1>3. CASE X1 = X2
  <2>1. Y1 = Y2 /\ Y1 # 0
    BY <1>3, PairIs DEF Group!Sum
  <2>2. PICK s, X3, Y3 \in Field :
          /\ Group!Sum(<<X1, Y1>>, <<X1, Y1>>) = <<X3, Y3>>
          /\ Same(s * (2 * Y1), 3 * X1 * X1)
          /\ IsThird(X1, Y1, X1, s, X3, Y3)
          /\ OnCurve(X3, Y3)
    BY <2>1, TangentIs
  <2>3. s \in Int
    BY FieldIsInt
  <2>4. /\ s * (X2 - X1) = 0 /\ Y2 - Y1 = 0
        /\ s * (Y1 + Y2) = s * (2 * Y1)
        /\ X1 * X1 + X1 * X2 + X2 * X2 = 3 * X1 * X1
    BY <1>1, <1>3, <2>1, <2>3
  <2>5. Same(0, 0)
    BY SameIs
  <2> QED
    BY <1>3, <2>1, <2>2, <2>4, <2>5 DEF Adds, Slope, IsThird
<1> QED
  BY <1>2, <1>3

(* and only one. *)
LEMMA SlopeUnique ==
  ASSUME NEW X1 \in Field, NEW Y1 \in Field, NEW X2 \in Field, NEW Y2 \in Field,
         NEW s \in Int, NEW t \in Int,
         OnCurve(X1, Y1), OnCurve(X2, Y2),
         Slope(X1, Y1, X2, Y2, s), Slope(X1, Y1, X2, Y2, t)
  PROVE  Same(s, t)
<1>1. X1 \in Int /\ Y1 \in Int /\ X2 \in Int /\ Y2 \in Int
  BY FieldIsInt
<1> DEFINE D == X2 - X1
           E == Y1 + Y2
<1>2. D \in Int /\ E \in Int
  BY <1>1
<1>3. Same(s * D, t * D) /\ Same(s * E, t * E)
  BY SameSymmetric, SameTransitive DEF Slope
<1>4. ~Same(D, 0) \/ ~Same(E, 0)
  BY <1>1, SlopeNotOpposite, SameZero, SameInField
<1> HIDE DEF D, E
<1>5. s * D = D * s /\ t * D = D * t /\ s * E = E * s /\ t * E = E * t
  BY <1>2
<1> QED
  BY <1>2, <1>3, <1>4, <1>5, Cancelled

LEMMA SumOfSlope ==
  ASSUME NEW X1 \in Field, NEW Y1 \in Field, NEW X2 \in Field, NEW Y2 \in Field,
         NEW s \in Int, NEW X3 \in Field, NEW Y3 \in Field,
         OnCurve(X1, Y1), OnCurve(X2, Y2), Adds(X1, Y1, X2, Y2, s, X3, Y3)
  PROVE  Group!Sum(<<X1, Y1>>, <<X2, Y2>>) = <<X3, Y3>>
<1>1. Slope(X1, Y1, X2, Y2, s) /\ Same(X3, s * s - X1 - X2) /\ Same(Y3, s * (X1 - X3) - Y1)
  BY DEF Adds
<1>2. Group!Sum(<<X1, Y1>>, <<X2, Y2>>) # Infinity
  BY <1>1, SlopeNotOpposite, OppositesAre
<1>3. PICK t, X, Y \in Field :
        /\ Group!Sum(<<X1, Y1>>, <<X2, Y2>>) = <<X, Y>>
        /\ Adds(X1, Y1, X2, Y2, t, X, Y)
  BY <1>2, SumHasSlope
<1>4. /\ X1 \in Int /\ Y1 \in Int /\ X2 \in Int /\ Y2 \in Int
      /\ X3 \in Int /\ Y3 \in Int /\ t \in Int /\ X \in Int /\ Y \in Int
  BY <1>3, FieldIsInt
<1>5. Slope(X1, Y1, X2, Y2, t) /\ Same(X, t * t - X1 - X2) /\ Same(Y, t * (X1 - X) - Y1)
  BY <1>3 DEF Adds
<1>6. Same(s, t)
  BY <1>1, <1>4, <1>5, SlopeUnique
<1>7. Same(s * s - X1 - X2, t * t - X1 - X2)
  BY <1>4, <1>6, SameIs, SameTimes, SameMinus, Zenon
<1>8. Same(X3, X)
  BY <1>1, <1>5, <1>7, SameSymmetric, SameTransitive, Zenon
<1>9. Same(s * (X1 - X3) - Y1, t * (X1 - X) - Y1)
  BY <1>4, <1>6, <1>8, SameIs, SameTimes, SameMinus, Zenon
<1>10. Same(Y3, Y)
  BY <1>1, <1>5, <1>9, SameSymmetric, SameTransitive, Zenon
<1> QED
  BY <1>3, <1>8, <1>10, SameInField

LEMMA CoordinatesAre ==
  ASSUME NEW p \in Group!Points, p # Infinity
  PROVE  \E X, Y \in Field : p = <<X, Y>> /\ OnCurve(X, Y)
<1>1. PICK X, Y \in Field : p = <<X, Y>>
  BY DEF Group!Points, Field
<1> QED
  BY <1>1, PairIs

LEMMA SumInfinity ==
  ASSUME NEW p \in Group!Points
  PROVE  Group!Sum(p, Infinity) = p /\ Group!Sum(Infinity, p) = p
BY DEF Group!Sum

LEMMA SlopeSymmetric ==
  ASSUME NEW X1 \in Field, NEW Y1 \in Field, NEW X2 \in Field, NEW Y2 \in Field, NEW s \in Int,
         Slope(X1, Y1, X2, Y2, s)
  PROVE  Slope(X2, Y2, X1, Y1, s)
<1>1. X1 \in Int /\ Y1 \in Int /\ X2 \in Int /\ Y2 \in Int /\ 0 \in Int
  BY FieldIsInt
<1>2. /\ Same(s * (X2 - X1), Y2 - Y1)
      /\ Same(s * (Y1 + Y2), X1 * X1 + X1 * X2 + X2 * X2)
  BY DEF Slope
<1>3. Same(0 - s * (X2 - X1), 0 - (Y2 - Y1))
  BY <1>1, <1>2, SameIs, SameMinus, Zenon
<1>4. /\ 0 - s * (X2 - X1) = s * (X1 - X2) /\ 0 - (Y2 - Y1) = Y1 - Y2
      /\ s * (Y2 + Y1) = s * (Y1 + Y2)
      /\ X2 * X2 + X2 * X1 + X1 * X1 = X1 * X1 + X1 * X2 + X2 * X2
  BY <1>1
<1> QED
  BY <1>2, <1>3, <1>4 DEF Slope

LEMMA SumCommutes ==
  ASSUME NEW p \in Group!Points, NEW q \in Group!Points
  PROVE  Group!Sum(p, q) = Group!Sum(q, p)
<1>1. CASE p = Infinity \/ q = Infinity
  BY <1>1, SumInfinity
<1>2. CASE p # Infinity /\ q # Infinity
  <2>1. PICK X1, Y1 \in Field : p = <<X1, Y1>> /\ OnCurve(X1, Y1)
    BY <1>2, CoordinatesAre
  <2>2. PICK X2, Y2 \in Field : q = <<X2, Y2>> /\ OnCurve(X2, Y2)
    BY <1>2, CoordinatesAre
  <2>3. X1 \in Int /\ Y1 \in Int /\ X2 \in Int /\ Y2 \in Int
    BY FieldIsInt
  <2>4. CASE Group!Sum(p, q) = Infinity
    <3>1. X1 = X2 /\ Same(Y1 + Y2, 0)
      BY <2>1, <2>2, <2>4, OppositesAre
    <3>2. Y1 + Y2 = Y2 + Y1
      BY <2>3
    <3> QED
      BY <2>1, <2>2, <2>4, <3>1, <3>2, OppositesAre
  <2>5. CASE Group!Sum(p, q) # Infinity
    <3>1. PICK s, X3, Y3 \in Field :
            /\ Group!Sum(p, q) = <<X3, Y3>>
            /\ Adds(X1, Y1, X2, Y2, s, X3, Y3)
      BY <2>1, <2>2, <2>5, SumHasSlope
    <3>2. s \in Int /\ X3 \in Int /\ Y3 \in Int /\ 0 \in Int
      BY FieldIsInt
    <3>3. /\ Same(s * (X2 - X1), Y2 - Y1)
          /\ Same(s * (Y1 + Y2), X1 * X1 + X1 * X2 + X2 * X2)
          /\ Same(X3, s * s - X1 - X2)
          /\ Same(Y3, s * (X1 - X3) - Y1)
      BY <3>1 DEF Adds, Slope
    <3>5. Slope(X2, Y2, X1, Y1, s)
      BY <3>1, <3>2, SlopeSymmetric DEF Adds
    <3>6. Same(X3, s * s - X2 - X1)
      <4>1. s * s - X2 - X1 = s * s - X1 - X2
        BY <2>3, <3>2
      <4> QED
        BY <3>3, <4>1
    <3>7. Same(Y3, s * (X2 - X3) - Y2)
      <4> DEFINE e == s * (X2 - X1)
                 f == s * (X1 - X3) - Y1
      <4>1. Same(f + (e - (Y2 - Y1)), f + ((Y2 - Y1) - (Y2 - Y1)))
        <5>1. f \in Int /\ Y2 - Y1 \in Int /\ Same(e, Y2 - Y1)
          BY <2>3, <3>2, <3>3
        <5> HIDE DEF e, f
        <5> QED
          BY <5>1, SameIs, SamePlus, SameMinus, Zenon
      <4>2. f + (e - (Y2 - Y1)) = s * (X2 - X3) - Y2 /\ f + ((Y2 - Y1) - (Y2 - Y1)) = f
        BY <2>3, <3>2
      <4>3. Same(Y3, f)
        BY <3>3
      <4> HIDE DEF e, f
      <4> QED
        BY <4>1, <4>2, <4>3, SameSymmetric, SameTransitive
    <3>8. Adds(X2, Y2, X1, Y1, s, X3, Y3)
      BY <3>5, <3>6, <3>7 DEF Adds
    <3> QED
      BY <2>1, <2>2, <3>1, <3>2, <3>8, SumOfSlope
  <2> QED
    BY <2>4, <2>5
<1> QED
  BY <1>1, <1>2

(* The opposite of a point. *)
Opposite(p) == IF p = Infinity THEN p ELSE <<p[1], (0 - p[2]) % P>>

LEMMA OppositePair ==
  ASSUME NEW X \in Field, NEW Y \in Field, OnCurve(X, Y)
  PROVE  \E N \in Field :
           /\ Opposite(<<X, Y>>) = <<X, N>> /\ Opposite(<<X, N>>) = <<X, Y>>
           /\ Same(N, 0 - Y) /\ OnCurve(X, N)
           /\ Group!Sum(<<X, Y>>, <<X, N>>) = Infinity
<1>1. X \in Int /\ Y \in Int /\ 0 - Y \in Int /\ 0 \in Int
  BY FieldIsInt
<1> DEFINE N == (0 - Y) % P
           M == (0 - N) % P
<1>2. Opposite(<<X, Y>>) = <<X, N>>
  BY PairIs DEF Opposite
<1>3. N \in Field /\ Same(N, 0 - Y)
  BY <1>1, RemainderIs
<1>4. N \in Int /\ 0 - N \in Int
  <2>1. N \in Int
    BY <1>3, FieldIsInt
  <2> HIDE DEF N
  <2> QED
    BY <2>1
<1>5. Opposite(<<X, N>>) = <<X, M>>
  <2> HIDE DEF N
  <2> QED
    BY <1>3, PairIs DEF Opposite
<1>6. M \in Field /\ Same(M, 0 - N)
  <2> HIDE DEF N
  <2> QED
    BY <1>4, RemainderIs
<1> HIDE DEF M, N
<1>7. M = Y
  <2>1. Same(0 - N, 0 - (0 - Y)) /\ 0 - (0 - Y) = Y
    BY <1>1, <1>3, SameIs, SameMinus
  <2> QED
    BY <1>6, <2>1, SameTransitive, SameInField
<1>8. OnCurve(X, N)
  <2>1. Same(N * N, (0 - Y) * (0 - Y)) /\ (0 - Y) * (0 - Y) = Y * Y
    BY <1>1, <1>3, SameTimes
  <2> QED
    BY <2>1, SameTransitive DEF OnCurve
<1>9. Same(Y + N, 0)
  <2>1. Same(Y + N, Y + (0 - Y))
    BY <1>1, <1>3, SameIs, SamePlus, Zenon
  <2>2. Y + (0 - Y) = 0
    BY <1>1
  <2> QED
    BY <2>1, <2>2
<1>10. Group!Sum(<<X, Y>>, <<X, N>>) = Infinity
  BY <1>3, <1>8, <1>9, OppositesAre
<1> QED
  BY <1>2, <1>3, <1>5, <1>7, <1>8, <1>10

LEMMA OppositeIs ==
  ASSUME NEW p \in Group!Points
  PROVE  /\ Opposite(p) \in Group!Points
         /\ Opposite(Opposite(p)) = p
         /\ Opposite(p) = Infinity <=> p = Infinity
         /\ Group!Sum(p, Opposite(p)) = Infinity
<1>1. CASE p = Infinity
  BY <1>1, SumInfinity DEF Opposite
<1>2. CASE p # Infinity
  <2>1. PICK X, Y \in Field : p = <<X, Y>> /\ OnCurve(X, Y)
    BY <1>2, CoordinatesAre
  <2>2. PICK N \in Field :
          /\ Opposite(<<X, Y>>) = <<X, N>> /\ Opposite(<<X, N>>) = <<X, Y>>
          /\ OnCurve(X, N) /\ Group!Sum(<<X, Y>>, <<X, N>>) = Infinity
    BY <2>1, OppositePair
  <2> QED
    BY <1>2, <2>1, <2>2, PairIs
<1> QED
  BY <1>1, <1>2

(* Only the opposite of a point adds with it to Infinity. *)
LEMMA OppositeOnly ==
  ASSUME NEW p \in Group!Points, NEW q \in Group!Points, Group!Sum(p, q) = Infinity
  PROVE  q = Opposite(p)
<1>1. CASE p = Infinity \/ q = Infinity
  BY <1>1, SumInfinity DEF Opposite
<1>2. CASE p # Infinity /\ q # Infinity
  <2>1. PICK X, Y \in Field : p = <<X, Y>> /\ OnCurve(X, Y)
    BY <1>2, CoordinatesAre
  <2>2. PICK X2, Y2 \in Field : q = <<X2, Y2>> /\ OnCurve(X2, Y2)
    BY <1>2, CoordinatesAre
  <2>3. PICK N \in Field : Opposite(<<X, Y>>) = <<X, N>> /\ Same(N, 0 - Y)
    BY <2>1, OppositePair
  <2>4. X = X2 /\ Same(Y + Y2, 0)
    BY <2>1, <2>2, OppositesAre
  <2>5. Y \in Int /\ Y2 \in Int
    BY FieldIsInt
  <2>6. Same((Y + Y2) - Y, 0 - Y)
    BY <2>4, <2>5, SameIs, SameMinus, Zenon
  <2>7. Y2 = N
    <3>1. (Y + Y2) - Y = Y2
      BY <2>5
    <3> QED
      BY <2>3, <2>6, <3>1, SameSymmetric, SameTransitive, SameInField
  <2> QED
    BY <2>1, <2>2, <2>3, <2>4, <2>7
<1> QED
  BY <1>1, <1>2

(* The opposite points are on the line of the opposite slope. *)
LEMMA OppositeSum ==
  ASSUME NEW p \in Group!Points, NEW q \in Group!Points
  PROVE  Group!Sum(Opposite(p), Opposite(q)) = Opposite(Group!Sum(p, q))
<1>1. CASE p = Infinity \/ q = Infinity
  BY <1>1, OppositeIs, SumInfinity DEF Opposite
<1>2. CASE p # Infinity /\ q # Infinity
  <2>1. PICK X1, Y1 \in Field : p = <<X1, Y1>> /\ OnCurve(X1, Y1)
    BY <1>2, CoordinatesAre
  <2>2. PICK X2, Y2 \in Field : q = <<X2, Y2>> /\ OnCurve(X2, Y2)
    BY <1>2, CoordinatesAre
  <2>3. PICK N1 \in Field :
          Opposite(<<X1, Y1>>) = <<X1, N1>> /\ Same(N1, 0 - Y1) /\ OnCurve(X1, N1)
    BY <2>1, OppositePair
  <2>4. PICK N2 \in Field :
          Opposite(<<X2, Y2>>) = <<X2, N2>> /\ Same(N2, 0 - Y2) /\ OnCurve(X2, N2)
    BY <2>2, OppositePair
  <2>5. /\ X1 \in Int /\ Y1 \in Int /\ X2 \in Int /\ Y2 \in Int /\ N1 \in Int /\ N2 \in Int
        /\ 0 \in Int
    BY FieldIsInt
  <2>6. CASE Group!Sum(p, q) = Infinity
    <3>1. q = Opposite(p)
      BY <2>6, OppositeOnly
    <3>2. Group!Sum(Opposite(p), p) = Infinity
      BY OppositeIs, SumCommutes
    <3> QED
      BY <2>6, <3>1, <3>2, OppositeIs DEF Opposite
  <2>7. CASE Group!Sum(p, q) # Infinity
    <3>1. PICK s, X3, Y3 \in Field :
            /\ Group!Sum(p, q) = <<X3, Y3>>
            /\ OnCurve(X3, Y3)
            /\ Adds(X1, Y1, X2, Y2, s, X3, Y3)
      BY <2>1, <2>2, <2>7, SumHasSlope
    <3>2. PICK N3 \in Field : Opposite(<<X3, Y3>>) = <<X3, N3>> /\ Same(N3, 0 - Y3)
      BY <3>1, OppositePair
    <3> DEFINE t == 0 - s
    <3>3. s \in Int /\ t \in Int /\ X3 \in Int /\ Y3 \in Int /\ N3 \in Int
      BY FieldIsInt
    <3>4. /\ Same(s * (X2 - X1), Y2 - Y1)
          /\ Same(s * (Y1 + Y2), X1 * X1 + X1 * X2 + X2 * X2)
          /\ Same(X3, s * s - X1 - X2)
          /\ Same(Y3, s * (X1 - X3) - Y1)
      BY <3>1 DEF Adds, Slope
    <3>5. Same(t * (X2 - X1), N2 - N1)
      <4>1. Same(0 - s * (X2 - X1), 0 - (Y2 - Y1))
        BY <2>5, <3>4, SameIs, SameMinus, Zenon
      <4>2. Same(N2 - N1, (0 - Y2) - (0 - Y1))
        BY <2>3, <2>4, SameMinus
      <4>3. 0 - s * (X2 - X1) = t * (X2 - X1) /\ 0 - (Y2 - Y1) = (0 - Y2) - (0 - Y1)
        BY <2>5, <3>3
      <4> QED
        BY <4>1, <4>2, <4>3, SameSymmetric, SameTransitive
    <3>6. Same(t * (N1 + N2), X1 * X1 + X1 * X2 + X2 * X2)
      <4>1. Same(t * (N1 + N2), t * ((0 - Y1) + (0 - Y2)))
        BY <2>3, <2>4, <3>3, SameIs, SamePlus, SameTimes, Zenon
      <4>2. t * ((0 - Y1) + (0 - Y2)) = s * (Y1 + Y2)
        BY <2>5, <3>3
      <4> QED
        BY <3>4, <4>1, <4>2, SameTransitive
    <3>7. Same(X3, t * t - X1 - X2)
      <4>1. t * t = s * s
        BY <3>3
      <4> QED
        BY <3>4, <4>1
    <3>8. Same(N3, t * (X1 - X3) - N1)
      <4>1. Same(0 - Y3, 0 - (s * (X1 - X3) - Y1))
        BY <2>5, <3>4, SameIs, SameMinus, Zenon
      <4>2. 0 - (s * (X1 - X3) - Y1) = t * (X1 - X3) - (0 - Y1)
        BY <2>5, <3>3
      <4>3. t * (X1 - X3) \in Int
        BY <2>5, <3>3
      <4>4. Same(t * (X1 - X3) - N1, t * (X1 - X3) - (0 - Y1))
        BY <2>3, <4>3, SameIs, SameMinus, Zenon
      <4> QED
        BY <3>2, <4>1, <4>2, <4>4, SameSymmetric, SameTransitive
    <3> HIDE DEF t
    <3>9. Adds(X1, N1, X2, N2, t, X3, N3)
      BY <3>5, <3>6, <3>7, <3>8 DEF Adds, Slope
    <3>10. Group!Sum(<<X1, N1>>, <<X2, N2>>) = <<X3, N3>>
      BY <2>3, <2>4, <3>3, <3>9, SumOfSlope
    <3> QED
      BY <2>1, <2>2, <2>3, <2>4, <3>1, <3>2, <3>10
  <2> QED
    BY <2>6, <2>7
<1> QED
  BY <1>1, <1>2

(* The three points of a line, seen from the third: what was added can be  *)
(* taken back.                                                             *)
LEMMA TakenBack ==
  ASSUME NEW p \in Group!Points, NEW q \in Group!Points
  PROVE  Group!Sum(Group!Sum(p, q), Opposite(q)) = p
<1>1. CASE p = Infinity \/ q = Infinity
  BY <1>1, OppositeIs, SumInfinity DEF Opposite
<1>2. CASE p # Infinity /\ q # Infinity /\ Group!Sum(p, q) = Infinity
  BY <1>2, OppositeIs, OppositeOnly, SumInfinity
<1>3. CASE p # Infinity /\ q # Infinity /\ Group!Sum(p, q) # Infinity
  <2>1. PICK X1, Y1 \in Field : p = <<X1, Y1>> /\ OnCurve(X1, Y1)
    BY <1>3, CoordinatesAre
  <2>2. PICK X2, Y2 \in Field : q = <<X2, Y2>> /\ OnCurve(X2, Y2)
    BY <1>3, CoordinatesAre
  <2>3. PICK N2 \in Field :
          Opposite(<<X2, Y2>>) = <<X2, N2>> /\ Same(N2, 0 - Y2) /\ OnCurve(X2, N2)
    BY <2>2, OppositePair
  <2>4. PICK s, X3, Y3 \in Field :
          /\ Group!Sum(p, q) = <<X3, Y3>>
          /\ OnCurve(X3, Y3)
          /\ Adds(X1, Y1, X2, Y2, s, X3, Y3)
    BY <1>3, <2>1, <2>2, SumHasSlope
  <2> DEFINE t == 0 - s
             d == s * (X2 - X1) - (Y2 - Y1)
             f == s * (Y1 + Y2) - (X1 * X1 + X1 * X2 + X2 * X2)
             e == X3 - (s * s - X1 - X2)
             g == Y3 - (s * (X1 - X3) - Y1)
             n == N2 - (0 - Y2)
  <2>5. /\ X1 \in Int /\ Y1 \in Int /\ X2 \in Int /\ Y2 \in Int /\ N2 \in Int
        /\ X3 \in Int /\ Y3 \in Int /\ s \in Int /\ t \in Int /\ 0 \in Int
    BY FieldIsInt
  <2>6. Same(d, 0) /\ Same(f, 0) /\ Same(e, 0) /\ Same(g, 0) /\ Same(n, 0)
    BY <2>3, <2>4, SubtractSame DEF Adds, Slope
  <2>7. /\ t * (X2 - X3) - (N2 - Y3) = (g - d) - n
        /\ t * (Y3 + N2) - (X3 * X3 + X3 * X2 + X2 * X2) = (f - (X3 - X1) * e) - s * (g + n)
        /\ X1 - (t * t - X3 - X2) = e
        /\ Y1 - (t * (X3 - X1) - Y3) = g
    BY <2>5
  <2>8. Same((g - d) - n, (0 - 0) - 0)
    BY <2>6, SameMinus
  <2>9. Same((f - (X3 - X1) * e) - s * (g + n), (0 - (X3 - X1) * 0) - s * (0 + 0))
    <3> HIDE DEF d, f, e, g, n
    <3> QED
      BY <2>5, <2>6, SameIs, SamePlus, SameMinus, SameTimes, Zenon
  <2>10. (0 - 0) - 0 = 0 /\ (0 - (X3 - X1) * 0) - s * (0 + 0) = 0
    BY <2>5
  <2>11. /\ t * (X2 - X3) \in Int /\ N2 - Y3 \in Int
         /\ t * (Y3 + N2) \in Int /\ X3 * X3 + X3 * X2 + X2 * X2 \in Int
         /\ t * t - X3 - X2 \in Int /\ t * (X3 - X1) - Y3 \in Int
    BY <2>5
  <2> HIDE DEF t, d, f, e, g, n
  <2>12. Same(t * (X2 - X3), N2 - Y3)
    BY <2>7, <2>8, <2>10, <2>11, SameZero
  <2>13. Same(t * (Y3 + N2), X3 * X3 + X3 * X2 + X2 * X2)
    BY <2>7, <2>9, <2>10, <2>11, SameZero
  <2>14. Same(X1, t * t - X3 - X2) /\ Same(Y1, t * (X3 - X1) - Y3)
    BY <2>5, <2>6, <2>7, <2>11, SameZero
  <2>15. Adds(X3, Y3, X2, N2, t, X1, Y1)
    BY <2>12, <2>13, <2>14 DEF Adds, Slope
  <2>16. Group!Sum(<<X3, Y3>>, <<X2, N2>>) = <<X1, Y1>>
    BY <2>3, <2>4, <2>5, <2>15, <2>1, SumOfSlope
  <2> QED
    BY <2>1, <2>2, <2>3, <2>4, <2>16
<1> QED
  BY <1>1, <1>2, <1>3

(* (X4, Y4) is the sum of the first two points; s and t are the slopes of  *)
(* the lines through the second point and the first and third one, and u   *)
(* of the line through the sum and the third point.                        *)
LEMMA SlopesOfThree ==
  ASSUME NEW X1 \in Field, NEW Y1 \in Field, NEW X2 \in Field, NEW Y2 \in Field,
         NEW X3 \in Field, NEW Y3 \in Field, NEW X4 \in Field, NEW Y4 \in Field,
         NEW s \in Int, NEW t \in Int, NEW u \in Int,
         OnCurve(X2, Y2), OnCurve(X3, Y3),
         Adds(X1, Y1, X2, Y2, s, X4, Y4),
         Slope(X2, Y2, X3, Y3, t), Slope(X4, Y4, X3, Y3, u)
  PROVE  Same((u + s) * (t - s), X3 - X1)
<1> DEFINE d1 == s * (X2 - X1) - (Y2 - Y1)
           d2 == s * (Y1 + Y2) - (X1 * X1 + X1 * X2 + X2 * X2)
           e1 == X4 - (s * s - X1 - X2)
           e2 == Y4 - (s * (X1 - X4) - Y1)
           a1 == u * (X3 - X4) - (Y3 - Y4)
           a2 == u * (Y4 + Y3) - (X4 * X4 + X4 * X3 + X3 * X3)
           b1 == t * (X3 - X2) - (Y3 - Y2)
           b2 == t * (Y2 + Y3) - (X2 * X2 + X2 * X3 + X3 * X3)
           D == X3 - X2
           E == Y2 + Y3
           m == (u + s) * (t - s) - (X3 - X1)
           k == (u + s) * ((Y3 - Y2) - s * (X3 - X2)) - (X3 - X1) * (X3 - X2)
<1>1. /\ X1 \in Int /\ Y1 \in Int /\ X2 \in Int /\ Y2 \in Int
      /\ X3 \in Int /\ Y3 \in Int /\ X4 \in Int /\ Y4 \in Int /\ 0 \in Int
  BY FieldIsInt
<1>2. /\ Same(d1, 0) /\ Same(d2, 0) /\ Same(e1, 0) /\ Same(e2, 0)
      /\ Same(a1, 0) /\ Same(a2, 0) /\ Same(b1, 0) /\ Same(b2, 0)
  BY SubtractSame DEF Adds, Slope
<1>3. D \in Int /\ E \in Int /\ m \in Int /\ k \in Int
  BY <1>1
<1>4. ~Same(D, 0) \/ ~Same(E, 0)
  BY <1>1, SlopeNotOpposite, SameZero, SameInField, SameSymmetric
<1>5. k = (a2 - s * a1) + (s - u) * e2 + (u * d1 - d2) + e1 * ((X3 - X1) + (X4 - X2))
  BY <1>1
<1>6. D * m = (u + s) * b1 + k
  BY <1>1
<1>7. E * m = (u + s) * ((s * d1 - d2) + (X3 - X1) * e1 + b2) + (X3 - X1) * ((a1 - e2) + d1) - s * k
  BY <1>1
<1>8. m \in Int /\ u + s \in Int /\ (u + s) * (t - s) \in Int /\ X3 - X1 \in Int
  BY <1>1
<1>9. Same(m, 0) <=> Same((u + s) * (t - s), X3 - X1)
  BY <1>8, SameZero
<1> HIDE DEF d1, d2, e1, e2, a1, a2, b1, b2, D, E, m, k
<1>10. Same(k, 0)
  <2>1. Same((a2 - s * a1) + (s - u) * e2 + (u * d1 - d2) + e1 * ((X3 - X1) + (X4 - X2)),
             (0 - s * 0) + (s - u) * 0 + (u * 0 - 0) + 0 * ((X3 - X1) + (X4 - X2)))
    BY <1>1, <1>2, SameIs, SamePlus, SameMinus, SameTimes, Zenon
  <2>2. (0 - s * 0) + (s - u) * 0 + (u * 0 - 0) + 0 * ((X3 - X1) + (X4 - X2)) = 0
    BY <1>1
  <2> QED
    BY <1>5, <2>1, <2>2
<1>11. Same(D * m, 0)
  <2>1. Same((u + s) * b1 + k, (u + s) * 0 + 0)
    BY <1>2, <1>8, <1>10, SameIs, SamePlus, SameTimes, Zenon
  <2>2. (u + s) * 0 + 0 = 0
    BY <1>8
  <2> QED
    BY <1>6, <2>1, <2>2
<1>12. Same(E * m, 0)
  <2>1. Same((u + s) * ((s * d1 - d2) + (X3 - X1) * e1 + b2)
               + (X3 - X1) * ((a1 - e2) + d1) - s * k,
             (u + s) * ((s * 0 - 0) + (X3 - X1) * 0 + 0)
               + (X3 - X1) * ((0 - 0) + 0) - s * 0)
    BY <1>1, <1>2, <1>8, <1>10, SameIs, SamePlus, SameMinus, SameTimes, Zenon
  <2>2. (u + s) * ((s * 0 - 0) + (X3 - X1) * 0 + 0) + (X3 - X1) * ((0 - 0) + 0) - s * 0 = 0
    BY <1>1
  <2> QED
    BY <1>7, <2>1, <2>2
<1> QED
  BY <1>3, <1>4, <1>9, <1>11, <1>12, NoZeroDivisors

(* Both ways to add three points have slopes at every step: points 4 and 5 *)
(* are the sums of points 1 and 2 and of points 3 and 2, points 6 and 7    *)
(* the sums of all three.                                                  *)
LEMMA SumsAgree ==
  ASSUME NEW X1 \in Field, NEW Y1 \in Field, NEW X2 \in Field, NEW Y2 \in Field,
         NEW X3 \in Field, NEW Y3 \in Field,
         OnCurve(X1, Y1), OnCurve(X2, Y2), OnCurve(X3, Y3), X1 # X3,
         Group!Sum(<<X1, Y1>>, <<X2, Y2>>) # Infinity,
         Group!Sum(<<X3, Y3>>, <<X2, Y2>>) # Infinity,
         Group!Sum(Group!Sum(<<X1, Y1>>, <<X2, Y2>>), <<X3, Y3>>) # Infinity,
         Group!Sum(Group!Sum(<<X3, Y3>>, <<X2, Y2>>), <<X1, Y1>>) # Infinity
  PROVE  Group!Sum(Group!Sum(<<X1, Y1>>, <<X2, Y2>>), <<X3, Y3>>)
           = Group!Sum(Group!Sum(<<X3, Y3>>, <<X2, Y2>>), <<X1, Y1>>)
<1>1. PICK s, X4, Y4 \in Field :
        /\ Group!Sum(<<X1, Y1>>, <<X2, Y2>>) = <<X4, Y4>>
        /\ OnCurve(X4, Y4) /\ Adds(X1, Y1, X2, Y2, s, X4, Y4)
  BY SumHasSlope
<1>2. PICK t, X5, Y5 \in Field :
        /\ Group!Sum(<<X3, Y3>>, <<X2, Y2>>) = <<X5, Y5>>
        /\ OnCurve(X5, Y5) /\ Adds(X3, Y3, X2, Y2, t, X5, Y5)
  BY SumHasSlope
<1>3. PICK u, X6, Y6 \in Field :
        /\ Group!Sum(<<X4, Y4>>, <<X3, Y3>>) = <<X6, Y6>>
        /\ Adds(X4, Y4, X3, Y3, u, X6, Y6)
  BY <1>1, SumHasSlope
<1>4. PICK v, X7, Y7 \in Field :
        /\ Group!Sum(<<X5, Y5>>, <<X1, Y1>>) = <<X7, Y7>>
        /\ Adds(X5, Y5, X1, Y1, v, X7, Y7)
  BY <1>2, SumHasSlope
<1> DEFINE k1 == (u + s) * (t - s) - (X3 - X1)
           k2 == (v + t) * (s - t) - (X1 - X3)
           w == (u + s) - (v + t)
           a == u * (X3 - X4) - (Y3 - Y4)
           c == v * (X1 - X5) - (Y1 - Y5)
           b == t * (X2 - X3) - (Y2 - Y3)
           d == s * (X2 - X1) - (Y2 - Y1)
           e4 == X4 - (s * s - X1 - X2)
           e5 == X5 - (t * t - X3 - X2)
           e6 == X6 - (u * u - X4 - X3)
           e7 == X7 - (v * v - X5 - X1)
           f6 == Y6 - (u * (X4 - X6) - Y4)
           f7 == Y7 - (v * (X5 - X7) - Y5)
<1>5. /\ X1 \in Int /\ Y1 \in Int /\ X2 \in Int /\ Y2 \in Int /\ X3 \in Int /\ Y3 \in Int
      /\ X4 \in Int /\ Y4 \in Int /\ X5 \in Int /\ Y5 \in Int
      /\ X6 \in Int /\ Y6 \in Int /\ X7 \in Int /\ Y7 \in Int /\ 0 \in Int /\ 2 \in Int
      /\ s \in Int /\ t \in Int /\ u \in Int /\ v \in Int
  BY FieldIsInt
<1>6. Slope(X2, Y2, X3, Y3, t) /\ Slope(X4, Y4, X3, Y3, u)
  BY <1>5, <1>2, <1>3, SlopeSymmetric DEF Adds
<1>7. Slope(X2, Y2, X1, Y1, s) /\ Slope(X5, Y5, X1, Y1, v)
  BY <1>5, <1>1, <1>4, SlopeSymmetric DEF Adds
<1>8. Same((u + s) * (t - s), X3 - X1)
  BY <1>5, <1>6, <1>1, SlopesOfThree
<1>9. Same((v + t) * (s - t), X1 - X3)
  BY <1>5, <1>7, <1>2, SlopesOfThree
<1>10. /\ Same(k1, 0) /\ Same(k2, 0) /\ Same(a, 0) /\ Same(b, 0) /\ Same(c, 0) /\ Same(d, 0)
      /\ Same(e4, 0) /\ Same(e5, 0) /\ Same(e6, 0) /\ Same(e7, 0) /\ Same(f6, 0) /\ Same(f7, 0)
  BY <1>8, <1>9, <1>1, <1>2, <1>3, <1>4, SubtractSame DEF Adds, Slope
<1>11. Same(w, 0)
  <2>1. (t - s) * w = k1 + k2
    BY <1>5
  <2>2. Same(k1 + k2, 0 + 0) /\ 0 + 0 = 0
    BY <1>10, SamePlus
  <2>3. w \in Int /\ t - s \in Int /\ u + s \in Int
    BY <1>5
  <2>4. ~Same(t - s, 0)
    <3> SUFFICES ASSUME Same(t - s, 0) PROVE FALSE
      OBVIOUS
    <3>1. Same((u + s) * (t - s), (u + s) * 0)
      BY <2>3, SameIs, SameTimes, Zenon
    <3>2. (u + s) * 0 = 0
      BY <2>3
    <3>3. Same(X3 - X1, 0)
      BY <1>8, <3>1, <3>2, SameSymmetric, SameTransitive
    <3>4. Same(X3, X1)
      BY <1>5, <3>3, SameZero
    <3> QED
      BY <3>4, SameInField
  <2> HIDE DEF w, k1, k2
  <2> QED
    BY <2>1, <2>2, <2>3, <2>4, NoZeroDivisors
<1>12. X6 - X7 = ((e6 - e7) + (e5 - e4)) + (2 * k1 + w * ((u + s) + (v - t)))
  BY <1>5
<1>13. ASSUME X6 = X7
      PROVE  Y6 - Y7 = (((f6 - f7) + (c - a)) + (d - b))
                         + (((t - s) * ((e4 - e6) - k1) - (u - t) * k1) + w * (X1 - X6))
  BY <1>5, <1>13
<1>14. (u + s) + (v - t) \in Int /\ t - s \in Int /\ u - t \in Int /\ X1 - X6 \in Int
  BY <1>5
<1> HIDE DEF k1, k2, w, a, b, c, d, e4, e5, e6, e7, f6, f7
<1>15. X6 = X7
  <2>1. Same(((e6 - e7) + (e5 - e4)) + (2 * k1 + w * ((u + s) + (v - t))),
             ((0 - 0) + (0 - 0)) + (2 * 0 + 0 * ((u + s) + (v - t))))
    BY <1>5, <1>10, <1>11, <1>14, SameIs, SamePlus, SameMinus, SameTimes, Zenon
  <2>2. ((0 - 0) + (0 - 0)) + (2 * 0 + 0 * ((u + s) + (v - t))) = 0
    BY <1>14
  <2>3. Same(X6 - X7, 0)
    BY <1>12, <2>1, <2>2
  <2> QED
    BY <1>5, <2>3, SameZero, SameInField
<1>16. Y6 = Y7
  <2>1. Same((((f6 - f7) + (c - a)) + (d - b))
               + (((t - s) * ((e4 - e6) - k1) - (u - t) * k1) + w * (X1 - X6)),
             (((0 - 0) + (0 - 0)) + (0 - 0))
               + (((t - s) * ((0 - 0) - 0) - (u - t) * 0) + 0 * (X1 - X6)))
    BY <1>5, <1>10, <1>11, <1>14, SameIs, SamePlus, SameMinus, SameTimes, Zenon
  <2>2. (((0 - 0) + (0 - 0)) + (0 - 0))
          + (((t - s) * ((0 - 0) - 0) - (u - t) * 0) + 0 * (X1 - X6)) = 0
    BY <1>14
  <2>3. Same(Y6 - Y7, 0)
    BY <1>13, <1>15, <2>1, <2>2
  <2> QED
    BY <1>5, <2>3, SameZero, SameInField
<1> QED
  BY <1>15, <1>16, <1>1, <1>2, <1>3, <1>4

(* When one way to add three points meets no slope at its second step, so  *)
(* does the other.                                                         *)
LEMMA SumsVanish ==
  ASSUME NEW p \in Group!Points, NEW q \in Group!Points, NEW r \in Group!Points,
         Group!Sum(Group!Sum(p, q), r) = Infinity
  PROVE  Group!Sum(p, Group!Sum(q, r)) = Infinity
<1> DEFINE m == Group!Sum(p, q)
           n == Opposite(q)
<1>1. m \in Group!Points /\ n \in Group!Points /\ Opposite(n) = q
  BY SumInGroup, OppositeIs
<1>2. Group!Sum(m, n) = p
  BY TakenBack
<1>3. r = Opposite(m)
  BY <1>1, OppositeOnly
<1> HIDE DEF m, n
<1>4. Group!Sum(q, r) = Opposite(Group!Sum(n, m))
  BY <1>1, <1>3, OppositeSum
<1>5. Group!Sum(q, r) = Opposite(p)
  BY <1>1, <1>2, <1>4, SumCommutes
<1> QED
  BY <1>5, OppositeIs

(* The points of the curve are a group: chords and tangents add            *)
(* associatively, whichever of the points are equal or opposite.  Multiply *)
(* adds multiples of a point in the order of its windows, and verify       *)
(* relies on s G being k G + m (d G).                                      *)
THEOREM GroupLaw ==
  \A p, q, r \in Group!Points : Group!Sum(Group!Sum(p, q), r) = Group!Sum(p, Group!Sum(q, r))
<1> SUFFICES ASSUME NEW p \in Group!Points, NEW q \in Group!Points, NEW r \in Group!Points
             PROVE  Group!Sum(Group!Sum(p, q), r) = Group!Sum(p, Group!Sum(q, r))
  OBVIOUS
<1> DEFINE m == Group!Sum(p, q)
           n == Group!Sum(q, r)
<1>1. /\ m \in Group!Points /\ n \in Group!Points
      /\ m = Group!Sum(q, p) /\ n = Group!Sum(r, q) /\ Group!Sum(p, n) = Group!Sum(n, p)
  <2>1. m \in Group!Points /\ n \in Group!Points
    BY SumInGroup
  <2>2. m = Group!Sum(q, p) /\ n = Group!Sum(r, q)
    BY SumCommutes
  <2> HIDE DEF m, n
  <2> QED
    BY <2>1, <2>2, SumCommutes
<1>2. CASE p = Infinity \/ q = Infinity \/ r = Infinity
  BY <1>1, <1>2, SumInfinity
<1>3. CASE m = Infinity
  <2>1. q = Opposite(p) /\ p = Opposite(q)
    BY <1>3, OppositeOnly, OppositeIs
  <2>2. Group!Sum(n, p) = r
    BY <1>1, <2>1, TakenBack
  <2>3. Group!Sum(m, r) = r
    BY <1>3, SumInfinity
  <2> QED
    BY <1>1, <2>2, <2>3
<1>4. CASE n = Infinity
  <2>1. r = Opposite(q)
    BY <1>4, OppositeOnly
  <2>2. Group!Sum(m, r) = p
    BY <2>1, TakenBack
  <2>3. Group!Sum(p, n) = p
    BY <1>4, SumInfinity
  <2> QED
    BY <2>2, <2>3
<1>5. CASE p = r
  <2>1. Group!Sum(m, p) = Group!Sum(p, m)
    BY <1>1, SumCommutes
  <2> QED
    BY <1>1, <1>5, <2>1
<1>6. CASE r = Opposite(p)
  <2>1. Group!Sum(Group!Sum(q, p), Opposite(p)) = q
    BY TakenBack
  <2>2. Group!Sum(Group!Sum(q, r), Opposite(r)) = q /\ Opposite(r) = p
    BY <1>6, TakenBack, OppositeIs
  <2> QED
    BY <1>1, <1>6, <2>1, <2>2
<1>7. CASE Group!Sum(m, r) = Infinity \/ Group!Sum(p, n) = Infinity
  <2>1. Group!Sum(m, r) = Infinity => Group!Sum(p, n) = Infinity
    BY SumsVanish
  <2>2. Group!Sum(n, p) = Infinity => Group!Sum(r, m) = Infinity
    BY <1>1, SumsVanish
  <2>3. Group!Sum(r, m) = Group!Sum(m, r)
    BY <1>1, SumCommutes
  <2> QED
    BY <1>1, <1>7, <2>1, <2>2, <2>3
<1>8. CASE /\ p # Infinity /\ q # Infinity /\ r # Infinity /\ m # Infinity /\ n # Infinity
           /\ p # r /\ r # Opposite(p)
           /\ Group!Sum(m, r) # Infinity /\ Group!Sum(p, n) # Infinity
  <2>1. PICK X1, Y1 \in Field : p = <<X1, Y1>> /\ OnCurve(X1, Y1)
    BY <1>8, CoordinatesAre
  <2>2. PICK X2, Y2 \in Field : q = <<X2, Y2>> /\ OnCurve(X2, Y2)
    BY <1>8, CoordinatesAre
  <2>3. PICK X3, Y3 \in Field : r = <<X3, Y3>> /\ OnCurve(X3, Y3)
    BY <1>8, CoordinatesAre
  <2>4. X1 # X3
    <3> SUFFICES ASSUME X1 = X3 PROVE FALSE
      OBVIOUS
    <3>1. Y1 # Y3
      BY <1>8, <2>1, <2>3
    <3>2. Same(Y1 + Y3, 0)
      BY <2>1, <2>3, <3>1, EqualOrOpposite
    <3>3. Group!Sum(p, r) = Infinity
      BY <2>1, <2>3, <3>2, OppositesAre
    <3> QED
      BY <1>8, <3>3, OppositeOnly
  <2>5. Group!Sum(m, r) = Group!Sum(Group!Sum(r, q), p)
    BY <1>1, <1>8, <2>1, <2>2, <2>3, <2>4, SumsAgree
  <2> QED
    BY <1>1, <2>5
<1> QED
  BY <1>2, <1>3, <1>4, <1>5, <1>6, <1>7, <1>8

-----------------------------------------------------------------------------
(* The methods compute in the group *)

LEMMA TwiceStands ==
  ASSUME NEW p, NEW X \in Field, NEW Y \in Field, Stands(p, X, Y), OnCurve(X, Y), Y # 0
  PROVE  \E X3, Y3 \in Field :
           /\ Group!Sum(<<X, Y>>, <<X, Y>>) = <<X3, Y3>>
           /\ OnCurve(X3, Y3)
           /\ Stands(Twice(p), X3, Y3)
<1>1. PICK s, X3, Y3 \in Field :
        /\ Group!Sum(<<X, Y>>, <<X, Y>>) = <<X3, Y3>>
        /\ Same(s * (2 * Y), 3 * X * X)
        /\ IsThird(X, Y, X, s, X3, Y3)
        /\ OnCurve(X3, Y3)
  BY TangentIs
<1> DEFINE x == p.x
           y == p.y
           z == p.z
           u == (2 * y * z) % P
           v == (2 * u * x * y) % P
           t == (3 * x * x) % P
           w == (t * t - 2 * v) % P
           uy == (u * y) % P
           xr == (u * w) % P
           yr == (t * (v - w) - 2 * uy * uy) % P
           zr == (u * u * u) % P
           twice == [x |-> xr, y |-> yr, z |-> zr]
<1>2. /\ p \in Point /\ ~Same(z, 0) /\ Same(x, X * z) /\ Same(y, Y * z)
      /\ x \in Int /\ y \in Int /\ z \in Int /\ z # 0 /\ y \in Field
      /\ X \in Int /\ Y \in Int /\ X3 \in Int /\ Y3 \in Int /\ s \in Int
      /\ 2 \in Int /\ 3 \in Int
  BY PointIs, FieldIsInt DEF Stands
<1>3. ~Same(Y, 0)
  BY ZeroIs, SameInField
<1>4. y # 0
  <2>1. ~Same(Y * z, 0)
    BY <1>2, <1>3, NoZeroDivisors
  <2> HIDE DEF y, z
  <2> QED
    BY <1>2, <2>1, SameSymmetric
<1>5. Twice(p) = twice
  BY <1>2, <1>4 DEF Twice, Replaced, IsZero
<1> HIDE DEF x, y, z
<1>6. u \in Field /\ u \in Int /\ Same(u, 2 * y * z)
  <2>1. 2 * y * z \in Int
    BY <1>2
  <2> QED
    BY <2>1, RemainderIs, FieldIsInt
<1> HIDE DEF u
<1>7. v \in Field /\ v \in Int /\ Same(v, 2 * u * x * y)
  <2>1. 2 * u * x * y \in Int
    BY <1>2, <1>6
  <2> QED
    BY <2>1, RemainderIs, FieldIsInt
<1>8. t \in Field /\ t \in Int /\ Same(t, 3 * x * x)
  <2>1. 3 * x * x \in Int
    BY <1>2
  <2> QED
    BY <2>1, RemainderIs, FieldIsInt
<1> HIDE DEF v, t
<1>9. w \in Field /\ w \in Int /\ Same(w, t * t - 2 * v)
  <2>1. t * t - 2 * v \in Int
    BY <1>7, <1>8
  <2> QED
    BY <2>1, RemainderIs, FieldIsInt
<1>10. uy \in Field /\ uy \in Int /\ Same(uy, u * y)
  <2>1. u * y \in Int
    BY <1>2, <1>6
  <2> QED
    BY <2>1, RemainderIs, FieldIsInt
<1> HIDE DEF w, uy
<1>11. xr \in Field /\ Same(xr, u * w)
  <2>1. u * w \in Int
    BY <1>6, <1>9
  <2> QED
    BY <2>1, RemainderIs
<1>12. yr \in Field /\ Same(yr, t * (v - w) - 2 * uy * uy)
  <2>1. t * (v - w) - 2 * uy * uy \in Int
    BY <1>7, <1>8, <1>9, <1>10
  <2> QED
    BY <2>1, RemainderIs
<1>13. zr \in Field /\ zr \in Int /\ Same(zr, u * u * u)
  <2>1. u * u * u \in Int
    BY <1>6
  <2> QED
    BY <2>1, RemainderIs, FieldIsInt
<1> HIDE DEF xr, yr, zr
<1> DEFINE k == 2 * Y * z * z
(* The registers, by what they stand for. *)
<1>14. Same(u, k)
  <2>1. Same(2 * y * z, 2 * (Y * z) * z)
    BY <1>2, SameIs, SameTimes, Zenon
  <2>2. 2 * (Y * z) * z = k
    BY <1>2
  <2> QED
    BY <1>6, <2>1, <2>2, SameTransitive
<1>15. Same(v, X * u * u)
  <2>1. Same(2 * u * x * y, 2 * u * (X * z) * (Y * z))
    BY <1>2, <1>6, SameIs, SameTimes, Zenon
  <2>2. 2 * u * (X * z) * (Y * z) = X * u * k
    BY <1>2, <1>6
  <2>3. Same(X * u * k, X * u * u)
    BY <1>2, <1>6, <1>14, SameIs, SameTimes, SameSymmetric, Zenon
  <2> QED
    BY <1>7, <2>1, <2>2, <2>3, SameTransitive
<1>16. Same(t, s * u)
  <2>1. Same(3 * x * x, 3 * (X * z) * (X * z))
    BY <1>2, SameIs, SameTimes, Zenon
  <2>2. 3 * (X * z) * (X * z) = (3 * X * X) * (z * z)
    BY <1>2
  <2>3. Same((3 * X * X) * (z * z), (s * (2 * Y)) * (z * z))
    BY <1>1, <1>2, SameIs, SameTimes, SameSymmetric, Zenon
  <2>4. (s * (2 * Y)) * (z * z) = s * k
    BY <1>2
  <2>5. Same(s * k, s * u)
    BY <1>2, <1>14, SameIs, SameTimes, SameSymmetric, Zenon
  <2>6. Same(t, s * k)
    BY <1>8, <2>1, <2>2, <2>3, <2>4, SameTransitive
  <2> QED
    BY <2>5, <2>6, SameTransitive
<1>17. Same(w, u * u * X3)
  <2>1. Same(t * t - 2 * v, (s * u) * (s * u) - 2 * (X * u * u))
    BY <1>2, <1>15, <1>16, SameIs, SameTimes, SameMinus, Zenon
  <2>2. (s * u) * (s * u) - 2 * (X * u * u) = u * u * (s * s - X - X)
    BY <1>2, <1>6
  <2>3. Same(X3, s * s - X - X)
    BY <1>1 DEF IsThird
  <2>4. Same(u * u * (s * s - X - X), u * u * X3)
    BY <1>6, <2>3, SameIs, SameTimes, SameSymmetric, Zenon
  <2> QED
    BY <1>9, <2>1, <2>2, <2>4, SameTransitive
<1>18. Same(xr, X3 * zr)
  <2>1. Same(u * w, u * (u * u * X3))
    BY <1>6, <1>17, SameIs, SameTimes, Zenon
  <2>2. u * (u * u * X3) = X3 * (u * u * u)
    BY <1>2, <1>6
  <2>3. Same(X3 * (u * u * u), X3 * zr)
    BY <1>2, <1>13, SameIs, SameTimes, SameSymmetric, Zenon
  <2> QED
    BY <1>11, <2>1, <2>2, <2>3, SameTransitive
<1>19. Same(yr, Y3 * zr)
  <2>1. Same(uy, u * (Y * z))
    <3>1. Same(u * y, u * (Y * z))
      BY <1>2, <1>6, SameIs, SameTimes, Zenon
    <3> QED
      BY <1>10, <3>1, SameTransitive
  <2>2. Same(t * (v - w) - 2 * uy * uy,
             (s * u) * (X * u * u - u * u * X3) - 2 * (u * (Y * z)) * (u * (Y * z)))
    BY <1>2, <1>15, <1>16, <1>17, <2>1, SameIs, SameTimes, SameMinus, Zenon
  <2>3. (s * u) * (X * u * u - u * u * X3) - 2 * (u * (Y * z)) * (u * (Y * z))
          = (s * u) * (X * u * u - u * u * X3) - u * u * Y * k
    BY <1>2, <1>6
  <2>4. Same((s * u) * (X * u * u - u * u * X3) - u * u * Y * k,
             (s * u) * (X * u * u - u * u * X3) - u * u * Y * u)
    BY <1>2, <1>6, <1>14, SameIs, SameTimes, SameMinus, SameSymmetric, Zenon
  <2>5. (s * u) * (X * u * u - u * u * X3) - u * u * Y * u
          = (s * (X - X3) - Y) * (u * u * u)
    BY <1>2, <1>6
  <2>6. Same((s * (X - X3) - Y) * (u * u * u), Y3 * zr)
    BY <1>1, <1>13, SameTimes, SameSymmetric DEF IsThird
  <2>7. Same(yr, (s * u) * (X * u * u - u * u * X3) - u * u * Y * k)
    BY <1>12, <2>2, <2>3, SameTransitive
  <2>8. Same(yr, (s * (X - X3) - Y) * (u * u * u))
    BY <2>4, <2>5, <2>7, SameTransitive
  <2> QED
    BY <2>6, <2>8, SameTransitive
<1>20. ~Same(zr, 0)
  <2>1. ~Same(2 * Y, 0) /\ 2 * Y \in Int
    BY <1>2, <1>3, ZeroIs, NoZeroDivisors
  <2>2. ~Same((2 * Y) * z, 0) /\ (2 * Y) * z \in Int
    BY <1>2, <2>1, NoZeroDivisors
  <2>3. ~Same(k, 0)
    BY <1>2, <2>2, NoZeroDivisors
  <2>4. ~Same(u, 0)
    BY <1>14, <2>3, SameSymmetric, SameTransitive
  <2>5. ~Same(u * u, 0) /\ u * u \in Int
    BY <1>6, <2>4, NoZeroDivisors
  <2>6. ~Same(u * u * u, 0)
    BY <1>6, <2>4, <2>5, NoZeroDivisors
  <2> QED
    BY <1>13, <2>6, SameSymmetric, SameTransitive
<1>21. Stands(twice, X3, Y3)
  BY <1>11, <1>12, <1>13, <1>18, <1>19, <1>20 DEF Stands, Point
<1> QED
  BY <1>1, <1>5, <1>21

LEMMA TwiceIs ==
  ASSUME NEW p \in Made
  PROVE  Twice(p) \in Made /\ Affine(Twice(p)) = Group!Sum(Affine(p), Affine(p))
<1>1. CASE p = ZERO
  <2>1. Twice(p) = ZERO
    BY <1>1, ZeroMade DEF Twice, Replaced
  <2> QED
    BY <1>1, <2>1, ZeroMade DEF Group!Sum
<1>2. CASE p # ZERO
  <2>1. PICK X, Y \in Field : Affine(p) = <<X, Y>> /\ Stands(p, X, Y) /\ OnCurve(X, Y)
    BY <1>2, MadeStands
  <2>2. CASE Y # 0
    <3>1. PICK X3, Y3 \in Field :
            /\ Group!Sum(<<X, Y>>, <<X, Y>>) = <<X3, Y3>>
            /\ OnCurve(X3, Y3)
            /\ Stands(Twice(p), X3, Y3)
      BY <2>1, <2>2, TwiceStands
    <3> QED
      BY <2>1, <3>1, MadeIs, AffineIs
  <2>3. CASE Y = 0
    <3>1. Same(p.y, Y * p.z) /\ p.y \in Field /\ p.z \in Int
      BY <2>1, PointIs DEF Stands
    <3>2. Y * p.z = 0
      BY <2>3, <3>1
    <3>3. p.y = 0
      BY <3>1, <3>2, ZeroIs, SameInField
    <3>4. Twice(p) = ZERO
      BY <3>3 DEF Twice, Replaced
    <3>5. Group!Sum(Affine(p), Affine(p)) = Infinity
      BY <2>1, <2>3, PairIs DEF Group!Sum
    <3> QED
      BY <3>4, <3>5, ZeroMade
  <2> QED
    BY <2>2, <2>3
<1> QED
  BY <1>1, <1>2

(* The registers of Add, for points with coordinates: u is zero when their *)
(* first coordinates are the same, and t when their second ones are.       *)
Registers(p, q, u0, u1, t0, t, u, v) ==
  /\ u0 = (p.x * q.z) % P /\ u1 = (q.x * p.z) % P
  /\ t0 = (p.y * q.z) % P /\ t = (t0 - q.y * p.z) % P
  /\ u = (u0 - u1) % P /\ v = (p.z * q.z) % P

Compared(X1, Y1, X2, Y2, u0, u1, t0, t, u, v) ==
  /\ Same(u0, X1 * v) /\ Same(u1, X2 * v) /\ Same(t0, Y1 * v)
  /\ Same(u, (X1 - X2) * v) /\ Same(t, (Y1 - Y2) * v)
  /\ ~Same(v, 0)
  /\ u = 0 <=> X1 = X2
  /\ t = 0 <=> Y1 = Y2

LEMMA AddRegisters ==
  ASSUME NEW p, NEW X1 \in Field, NEW Y1 \in Field, Stands(p, X1, Y1),
         NEW q, NEW X2 \in Field, NEW Y2 \in Field, Stands(q, X2, Y2)
  PROVE  \E u0, u1, t0, t, u, v \in Field :
           /\ Registers(p, q, u0, u1, t0, t, u, v)
           /\ Compared(X1, Y1, X2, Y2, u0, u1, t0, t, u, v)
<1> DEFINE x1 == p.x
           y1 == p.y
           z1 == p.z
           x2 == q.x
           y2 == q.y
           z2 == q.z
           u0 == (x1 * z2) % P
           u1 == (x2 * z1) % P
           t0 == (y1 * z2) % P
           t == (t0 - y2 * z1) % P
           u == (u0 - u1) % P
           v == (z1 * z2) % P
<1>1. /\ x1 \in Int /\ y1 \in Int /\ z1 \in Int /\ x2 \in Int /\ y2 \in Int /\ z2 \in Int
      /\ X1 \in Int /\ Y1 \in Int /\ X2 \in Int /\ Y2 \in Int
      /\ ~Same(z1, 0) /\ Same(x1, X1 * z1) /\ Same(y1, Y1 * z1)
      /\ ~Same(z2, 0) /\ Same(x2, X2 * z2) /\ Same(y2, Y2 * z2)
  BY PointIs, FieldIsInt DEF Stands
<1>2. Registers(p, q, u0, u1, t0, t, u, v)
  BY DEF Registers
<1> HIDE DEF x1, y1, z1, x2, y2, z2
<1>3. v \in Field /\ v \in Int /\ Same(v, z1 * z2)
  <2>1. z1 * z2 \in Int
    BY <1>1
  <2> QED
    BY <2>1, RemainderIs, FieldIsInt
<1>4. u0 \in Field /\ u0 \in Int /\ Same(u0, x1 * z2)
  <2>1. x1 * z2 \in Int
    BY <1>1
  <2> QED
    BY <2>1, RemainderIs, FieldIsInt
<1>5. u1 \in Field /\ u1 \in Int /\ Same(u1, x2 * z1)
  <2>1. x2 * z1 \in Int
    BY <1>1
  <2> QED
    BY <2>1, RemainderIs, FieldIsInt
<1>6. t0 \in Field /\ t0 \in Int /\ Same(t0, y1 * z2)
  <2>1. y1 * z2 \in Int
    BY <1>1
  <2> QED
    BY <2>1, RemainderIs, FieldIsInt
<1> HIDE DEF v, u0, u1, t0
<1>7. u \in Field /\ Same(u, u0 - u1)
  <2>1. u0 - u1 \in Int
    BY <1>4, <1>5
  <2> QED
    BY <2>1, RemainderIs
<1>8. t \in Field /\ Same(t, t0 - y2 * z1)
  <2>1. t0 - y2 * z1 \in Int
    BY <1>1, <1>6
  <2> QED
    BY <2>1, RemainderIs
<1> HIDE DEF u, t
<1>9. Same(u0, X1 * v)
  <2>1. Same(x1 * z2, (X1 * z1) * z2) /\ Same(X1 * (z1 * z2), X1 * v)
    BY <1>1, <1>3, SameIs, SameTimes, SameSymmetric, Zenon
  <2>2. (X1 * z1) * z2 = X1 * (z1 * z2)
    BY <1>1
  <2> QED
    BY <1>4, <2>1, <2>2, SameTransitive
<1>10. Same(t0, Y1 * v)
  <2>1. Same(y1 * z2, (Y1 * z1) * z2) /\ Same(Y1 * (z1 * z2), Y1 * v)
    BY <1>1, <1>3, SameIs, SameTimes, SameSymmetric, Zenon
  <2>2. (Y1 * z1) * z2 = Y1 * (z1 * z2)
    BY <1>1
  <2> QED
    BY <1>6, <2>1, <2>2, SameTransitive
<1>11. Same(u1, X2 * v) /\ Same(y2 * z1, Y2 * v)
  <2>1. /\ Same(x2 * z1, (X2 * z2) * z1) /\ Same(X2 * (z1 * z2), X2 * v)
        /\ Same(y2 * z1, (Y2 * z2) * z1) /\ Same(Y2 * (z1 * z2), Y2 * v)
    BY <1>1, <1>3, SameIs, SameTimes, SameSymmetric, Zenon
  <2>2. (X2 * z2) * z1 = X2 * (z1 * z2) /\ (Y2 * z2) * z1 = Y2 * (z1 * z2)
    BY <1>1
  <2> QED
    BY <1>5, <2>1, <2>2, SameTransitive
<1>12. Same(u, (X1 - X2) * v)
  <2>1. Same(u0 - u1, X1 * v - X2 * v)
    BY <1>9, <1>11, SameMinus, Zenon
  <2>2. X1 * v - X2 * v = (X1 - X2) * v
    BY <1>1, <1>3
  <2> QED
    BY <1>7, <2>1, <2>2, SameTransitive
<1>13. Same(t, (Y1 - Y2) * v)
  <2>1. Same(t0 - y2 * z1, Y1 * v - Y2 * v)
    BY <1>10, <1>11, SameMinus, Zenon
  <2>2. Y1 * v - Y2 * v = (Y1 - Y2) * v
    BY <1>1, <1>3
  <2> QED
    BY <1>8, <2>1, <2>2, SameTransitive
<1>14. ~Same(v, 0)
  <2>1. ~Same(z1 * z2, 0)
    BY <1>1, NoZeroDivisors
  <2> QED
    BY <1>3, <2>1, SameSymmetric, SameTransitive
<1>15. ASSUME NEW n \in Field, NEW a \in Field, NEW b \in Field, Same(n, (a - b) * v)
       PROVE  n = 0 <=> a = b
  <2>1. a \in Int /\ b \in Int /\ a - b \in Int
    BY FieldIsInt
  <2>2. CASE a = b
    <3>1. (a - b) * v = 0
      BY <1>3, <2>1, <2>2
    <3> QED
      BY <1>15, <2>2, <3>1, ZeroIs, SameInField
  <2>3. CASE a # b
    <3>1. ~Same(a - b, 0)
      BY <2>1, <2>3, SameZero, SameInField
    <3>2. ~Same((a - b) * v, 0)
      BY <1>3, <1>14, <2>1, <3>1, NoZeroDivisors
    <3> QED
      BY <1>15, <2>3, <3>2, SameSymmetric
  <2> QED
    BY <2>2, <2>3
<1>16. u = 0 <=> X1 = X2
  BY <1>7, <1>12, <1>15
<1>17. t = 0 <=> Y1 = Y2
  BY <1>8, <1>13, <1>15
<1>18. Compared(X1, Y1, X2, Y2, u0, u1, t0, t, u, v)
  BY <1>9, <1>10, <1>11, <1>12, <1>13, <1>14, <1>16, <1>17 DEF Compared
<1> QED
  BY <1>2, <1>3, <1>4, <1>5, <1>6, <1>7, <1>8, <1>18, Zenon

LEMMA AddStands ==
  ASSUME NEW p, NEW X1 \in Field, NEW Y1 \in Field, Stands(p, X1, Y1), OnCurve(X1, Y1),
         NEW q, NEW X2 \in Field, NEW Y2 \in Field, Stands(q, X2, Y2), OnCurve(X2, Y2),
         X1 # X2
  PROVE  \E X3, Y3 \in Field :
           /\ Group!Sum(<<X1, Y1>>, <<X2, Y2>>) = <<X3, Y3>>
           /\ OnCurve(X3, Y3)
           /\ Stands(Add(p, q), X3, Y3)
<1>1. PICK s, X3, Y3 \in Field :
        /\ Group!Sum(<<X1, Y1>>, <<X2, Y2>>) = <<X3, Y3>>
        /\ Same(s * (X2 - X1), Y2 - Y1)
        /\ IsThird(X1, Y1, X2, s, X3, Y3)
        /\ OnCurve(X3, Y3)
  BY ChordIs
<1>2. PICK u0, u1, t0, t, u, v \in Field :
        /\ Registers(p, q, u0, u1, t0, t, u, v)
        /\ Compared(X1, Y1, X2, Y2, u0, u1, t0, t, u, v)
  BY AddRegisters
<1>20. /\ Same(u0, X1 * v) /\ Same(u1, X2 * v) /\ Same(t0, Y1 * v)
       /\ ~Same(v, 0) /\ u # 0
       /\ Same(u, (X1 - X2) * v) /\ Same(t, (Y1 - Y2) * v)
  BY <1>2 DEF Compared
<1> DEFINE u2 == (u * u) % P
           u3 == (u * u2) % P
           w == (t * t * v - (u0 + u1) * u2) % P
           xr == (u * w) % P
           yr == (t * (u0 * u2 - w) - t0 * u3) % P
           zr == (v * u3) % P
           sum == [x |-> xr, y |-> yr, z |-> zr]
<1>3. /\ p.z # 0 /\ q.z # 0
      /\ X1 \in Int /\ Y1 \in Int /\ X2 \in Int /\ Y2 \in Int /\ X3 \in Int /\ Y3 \in Int
      /\ s \in Int /\ u0 \in Int /\ u1 \in Int /\ t0 \in Int /\ t \in Int /\ u \in Int
      /\ v \in Int
  BY PointIs, FieldIsInt DEF Stands
<1>4. Add(p, q) = sum
  BY <1>2, <1>3, <1>20 DEF Add, Replaced, IsZero, Registers
<1>5. u2 \in Int /\ Same(u2, u * u)
  <2>1. u * u \in Int
    BY <1>3
  <2> QED
    BY <2>1, RemainderIs, FieldIsInt
<1> HIDE DEF u2
<1>6. u3 \in Int /\ Same(u3, u * u2)
  <2>1. u * u2 \in Int
    BY <1>3, <1>5
  <2> QED
    BY <2>1, RemainderIs, FieldIsInt
<1>7. w \in Int /\ Same(w, t * t * v - (u0 + u1) * u2)
  <2>1. t * t * v - (u0 + u1) * u2 \in Int
    BY <1>3, <1>5
  <2> QED
    BY <2>1, RemainderIs, FieldIsInt
<1> HIDE DEF u3, w
<1>8. xr \in Field /\ Same(xr, u * w)
  <2>1. u * w \in Int
    BY <1>3, <1>7
  <2> QED
    BY <2>1, RemainderIs
<1>9. yr \in Field /\ Same(yr, t * (u0 * u2 - w) - t0 * u3)
  <2>1. t * (u0 * u2 - w) - t0 * u3 \in Int
    BY <1>3, <1>5, <1>6, <1>7
  <2> QED
    BY <2>1, RemainderIs
<1>10. zr \in Field /\ Same(zr, v * u3)
  <2>1. v * u3 \in Int
    BY <1>3, <1>6
  <2> QED
    BY <2>1, RemainderIs
<1> HIDE DEF xr, yr, zr
(* The registers, by what they stand for. *)
<1>11. Same(t, s * u)
  <2>1. 0 - (Y2 - Y1) = Y1 - Y2 /\ 0 - s * (X2 - X1) = s * (X1 - X2)
    BY <1>3
  <2>2. Same(0 - s * (X2 - X1), 0 - (Y2 - Y1))
    BY <1>1, ZeroIs, FieldIsInt, SameIs, SameMinus, Zenon
  <2>3. Same(Y1 - Y2, s * (X1 - X2))
    BY <2>1, <2>2, SameSymmetric
  <2>4. Same((Y1 - Y2) * v, (s * (X1 - X2)) * v) /\ Same(s * ((X1 - X2) * v), s * u)
    BY <1>20, <1>3, <2>3, SameIs, SameTimes, SameSymmetric, Zenon
  <2>5. (s * (X1 - X2)) * v = s * ((X1 - X2) * v)
    BY <1>3
  <2> QED
    BY <1>20, <2>4, <2>5, SameTransitive
<1>12. Same(u3, u * (u * u))
  <2>1. Same(u * u2, u * (u * u))
    BY <1>3, <1>5, SameIs, SameTimes, Zenon
  <2> QED
    BY <1>6, <2>1, SameTransitive
<1>13. Same(w, (u * u * v) * X3)
  <2>1. Same(t * t * v - (u0 + u1) * u2, (s * u) * (s * u) * v - (X1 * v + X2 * v) * (u * u))
    BY <1>20, <1>3, <1>5, <1>11, SameIs, SameTimes, SamePlus, SameMinus, Zenon
  <2>2. (s * u) * (s * u) * v - (X1 * v + X2 * v) * (u * u) = (u * u * v) * (s * s - X1 - X2)
    BY <1>3
  <2>3. Same(X3, s * s - X1 - X2)
    BY <1>1 DEF IsThird
  <2>4. Same((u * u * v) * (s * s - X1 - X2), (u * u * v) * X3)
    BY <1>3, <2>3, SameIs, SameTimes, SameSymmetric, Zenon
  <2> QED
    BY <1>7, <2>1, <2>2, <2>4, SameTransitive
<1>14. Same(zr, v * (u * (u * u)))
  <2>1. Same(v * u3, v * (u * (u * u)))
    BY <1>3, <1>12, SameIs, SameTimes, Zenon
  <2> QED
    BY <1>10, <2>1, SameTransitive
<1>15. Same(xr, X3 * zr)
  <2>1. Same(u * w, u * ((u * u * v) * X3))
    BY <1>3, <1>13, SameIs, SameTimes, Zenon
  <2>2. u * ((u * u * v) * X3) = X3 * (v * (u * (u * u)))
    BY <1>3
  <2>3. Same(X3 * (v * (u * (u * u))), X3 * zr)
    BY <1>3, <1>14, SameIs, SameTimes, SameSymmetric, Zenon
  <2> QED
    BY <1>8, <2>1, <2>2, <2>3, SameTransitive
<1>16. Same(yr, Y3 * zr)
  <2>1. Same(t * (u0 * u2 - w) - t0 * u3,
             (s * u) * ((X1 * v) * (u * u) - (u * u * v) * X3) - (Y1 * v) * (u * (u * u)))
    <3>1. Same(u0 * u2 - w, (X1 * v) * (u * u) - (u * u * v) * X3)
      BY <1>20, <1>5, <1>13, SameTimes, SameMinus, Zenon
    <3>2. Same(t0 * u3, (Y1 * v) * (u * (u * u)))
      BY <1>20, <1>12, SameTimes, Zenon
    <3> QED
      BY <1>11, <3>1, <3>2, SameTimes, SameMinus, Zenon
  <2>2. (s * u) * ((X1 * v) * (u * u) - (u * u * v) * X3) - (Y1 * v) * (u * (u * u))
          = (s * (X1 - X3) - Y1) * (v * (u * (u * u)))
    BY <1>3
  <2>3. Same((s * (X1 - X3) - Y1) * (v * (u * (u * u))), Y3 * zr)
    BY <1>1, <1>14, SameTimes, SameSymmetric DEF IsThird
  <2> QED
    BY <1>9, <2>1, <2>2, <2>3, SameTransitive
<1>17. ~Same(zr, 0)
  <2>1. ~Same(u, 0)
    BY <1>20, ZeroIs, SameInField
  <2>2. ~Same(u * u, 0) /\ u * u \in Int
    BY <1>3, <2>1, NoZeroDivisors
  <2>3. ~Same(u * (u * u), 0) /\ u * (u * u) \in Int
    BY <1>3, <2>1, <2>2, NoZeroDivisors
  <2>4. ~Same(v * (u * (u * u)), 0)
    BY <1>20, <1>3, <2>3, NoZeroDivisors
  <2> QED
    BY <1>14, <2>4, SameSymmetric, SameTransitive
<1>18. Stands(sum, X3, Y3)
  BY <1>8, <1>9, <1>10, <1>15, <1>16, <1>17 DEF Stands, Point
<1> QED
  BY <1>1, <1>4, <1>18

(* Whichever of its branches applies, Add computes the sum. *)
LEMMA AddIs ==
  ASSUME NEW p \in Made, NEW q \in Made
  PROVE  Add(p, q) \in Made /\ Affine(Add(p, q)) = Group!Sum(Affine(p), Affine(q))
<1>1. CASE p = ZERO
  <2>1. Add(p, q) = q
    BY <1>1, ZeroMade DEF Add, Replaced
  <2> QED
    BY <1>1, <2>1, ZeroMade DEF Group!Sum
<1>2. CASE p # ZERO /\ q = ZERO
  <2>1. ~IsZero(p) /\ Affine(p) # Infinity
    BY <1>2, MadeStands, AffineInGroup
  <2>2. Add(p, q) = p
    BY <1>2, <2>1, ZeroMade DEF Add, Replaced
  <2> QED
    BY <1>2, <2>1, <2>2, ZeroMade DEF Group!Sum
<1>3. CASE p # ZERO /\ q # ZERO
  <2>1. PICK X1, Y1 \in Field : Affine(p) = <<X1, Y1>> /\ Stands(p, X1, Y1) /\ OnCurve(X1, Y1)
    BY <1>3, MadeStands
  <2>2. PICK X2, Y2 \in Field : Affine(q) = <<X2, Y2>> /\ Stands(q, X2, Y2) /\ OnCurve(X2, Y2)
    BY <1>3, MadeStands
  <2>3. CASE X1 # X2
    <3>1. PICK X3, Y3 \in Field :
            /\ Group!Sum(<<X1, Y1>>, <<X2, Y2>>) = <<X3, Y3>>
            /\ OnCurve(X3, Y3)
            /\ Stands(Add(p, q), X3, Y3)
      BY <2>1, <2>2, <2>3, AddStands
    <3> QED
      BY <2>1, <2>2, <3>1, MadeIs, AffineIs
  <2>4. CASE X1 = X2
    <3>1. PICK u0, u1, t0, t, u, v \in Field :
            /\ Registers(p, q, u0, u1, t0, t, u, v)
            /\ Compared(X1, Y1, X2, Y2, u0, u1, t0, t, u, v)
      BY <2>1, <2>2, AddRegisters
    <3>2. /\ u = 0 /\ (t = 0 <=> Y1 = Y2)
          /\ ~IsZero(p) /\ ~IsZero(q)
      BY <1>3, <2>4, <3>1, MadeStands DEF Compared
    <3>3. CASE Y1 = Y2
      <4>1. Add(p, q) = Twice(p)
        BY <3>1, <3>2, <3>3 DEF Add, Replaced, Registers
      <4> QED
        BY <2>1, <2>2, <2>4, <3>3, <4>1, TwiceIs
    <3>4. CASE Y1 # Y2
      <4>1. Add(p, q) = ZERO
        BY <3>1, <3>2, <3>4 DEF Add, Replaced, Registers
      <4>2. Group!Sum(Affine(p), Affine(q)) = Infinity
        BY <2>1, <2>2, <2>4, <3>4, PairIs DEF Group!Sum
      <4> QED
        BY <4>1, <4>2, ZeroMade
    <3> QED
      BY <3>3, <3>4
  <2> QED
    BY <2>3, <2>4
<1> QED
  BY <1>1, <1>2, <1>3

(* The coordinates that Normalize makes. *)
NormalOf(a) == IF a = Infinity THEN ZERO ELSE FromXY(a[1], a[2])

LEMMA NormalIs ==
  ASSUME NEW a \in Group!Points
  PROVE  NormalOf(a) \in Made /\ Affine(NormalOf(a)) = a
<1>1. CASE a = Infinity
  BY <1>1, ZeroMade DEF NormalOf
<1>2. CASE a # Infinity
  <2>1. PICK X, Y \in Field : a = <<X, Y>>
    BY <1>2 DEF Group!Points, Field
  <2>2. OnCurve(X, Y)
    BY <2>1, PairIs
  <2>3. NormalOf(a) = [x |-> X, y |-> Y, z |-> 1]
    BY <1>2, <2>1 DEF NormalOf, FromXY
  <2>4. Same(X, X * 1) /\ Same(Y, Y * 1)
    <3>1. X * 1 = X /\ Y * 1 = Y /\ X \in Int /\ Y \in Int
      BY FieldIsInt
    <3> QED
      BY <3>1, SameIs
  <2>5. Stands(NormalOf(a), X, Y)
    BY <2>3, <2>4, ZeroIs DEF Stands, Point
  <2> QED
    BY <2>1, <2>2, <2>5, MadeIs, AffineIs
<1> QED
  BY <1>1, <1>2

LEMMA NormalizeIs ==
  ASSUME NEW p \in Made
  PROVE  Normalize(p) = NormalOf(Affine(p))
<1>1. CASE p = ZERO
  <2>1. Normalize(p) = ZERO
    BY <1>1 DEF Normalize, Replaced, ZERO
  <2> QED
    BY <1>1, <2>1, ZeroMade DEF NormalOf
<1>2. CASE p # ZERO
  <2>1. p.z # 0 /\ Affine(p) # Infinity
    BY <1>2, MadeStands, AffineInGroup
  <2>2. Normalize(p) = FromXY((p.x * Reciprocal(p.z)) % P, (p.y * Reciprocal(p.z)) % P)
    BY <2>1 DEF Normalize, Replaced
  <2>3. Affine(p) = <<(p.x * Reciprocal(p.z)) % P, (p.y * Reciprocal(p.z)) % P>>
    BY <2>1 DEF Affine
  <2> QED
    BY <2>1, <2>2, <2>3 DEF NormalOf
<1> QED
  BY <1>1, <1>2

-----------------------------------------------------------------------------
(* Multiples *)

(* The recursion of Group!Multiple takes one summand more at a time. *)
LEMMA MultipleIs ==
  ASSUME NEW a \in Group!Points
  PROVE  /\ Group!Multiple(a, 0) = Infinity
         /\ \A n \in Nat : /\ Group!Multiple(a, n) \in Group!Points
                           /\ Group!Multiple(a, n + 1) = Group!Sum(Group!Multiple(a, n), a)
<1> DEFINE Pts == Group!Points
           M(n) == Group!Multiple(a, n)
           step(n) == [i \in 1..n |-> [v \in Pts |-> Group!Sum(v, a)]]
           eq(n, f) == f = [k \in 0..n |-> IF k = 0 THEN Infinity ELSE Group!Sum(f[k - 1], a)]
           sol(n) == CHOOSE f : eq(n, f)
<1>1. Infinity \in Pts /\ \A v \in Pts : Group!Sum(v, a) \in Pts
  BY SumInGroup DEF Group!Points
<1> HIDE DEF Pts
<1>2. \A n \in Nat : /\ step(n) \in [1..n -> [Pts -> Pts]]
                     /\ \A i \in 1..n, v \in Pts : step(n)[i][v] = Group!Sum(v, a)
  BY <1>1
<1> HIDE DEF step
<1>3. ASSUME NEW n \in Nat
      PROVE  /\ sol(n) \in [0..n -> Pts] /\ Solves(sol(n), n, Infinity, step(n))
             /\ M(n) = sol(n)[n]
  <2>1. PICK f \in [0..n -> Pts] : Solves(f, n, Infinity, step(n))
    <3>1. Infinity \in Pts /\ step(n) \in [1..n -> [Pts -> Pts]]
      BY <1>1, <1>2
    <3> QED
      BY <3>1, RecursionHasSolution, Zenon
  <2>2. ASSUME NEW k \in 0..n
        PROVE  f[k] = IF k = 0 THEN Infinity ELSE Group!Sum(f[k - 1], a)
    <3>1. CASE k = 0
      BY <2>1, <3>1 DEF Solves
    <3>2. CASE k # 0
      <4>1. k \in 1..n /\ k - 1 \in 0..n
        BY <3>2
      <4>2. f[k] = step(n)[k][f[k - 1]] /\ f[k - 1] \in Pts
        BY <2>1, <4>1 DEF Solves
      <4> QED
        BY <1>2, <3>2, <4>1, <4>2
    <3> QED
      BY <3>1, <3>2
  <2>3. eq(n, f)
    BY <2>2
  <2>4. eq(n, sol(n))
    <3> HIDE DEF eq
    <3> QED
      BY <2>3
  <2> DEFINE g == sol(n)
  <2>5. g = [k \in 0..n |-> IF k = 0 THEN Infinity ELSE Group!Sum(g[k - 1], a)]
    BY <2>4
  <2>6. M(n) = g[n]
    BY DEF Group!Multiple
  <2> HIDE DEF g
  <2>7. g[0] = Infinity
    BY <2>5
  <2>8. ASSUME NEW k \in 1..n PROVE g[k] = Group!Sum(g[k - 1], a)
    <3>1. k \in 0..n /\ k # 0
      OBVIOUS
    <3> QED
      BY <2>5, <3>1
  <2>9. \A k \in 0..n : g[k] \in Pts
    <3> DEFINE Good == {k \in 0..n : g[k] \in Pts}
    <3>1. 0 \in Good
      BY <1>1, <2>7
    <3>2. ASSUME NEW k \in 0..n - 1, k \in Good PROVE k + 1 \in Good
      <4>1. k + 1 \in 1..n /\ (k + 1) - 1 = k /\ k + 1 \in 0..n
        OBVIOUS
      <4>2. g[k + 1] = Group!Sum(g[k], a)
        BY <2>8, <4>1
      <4> QED
        BY <1>1, <3>2, <4>1, <4>2
    <3>3. \A k \in 0..n : k \in Good
      <4> HIDE DEF Good
      <4> QED
        BY <3>1, <3>2, UpTo
    <3> QED
      BY <3>3
  <2>10. g \in [0..n -> Pts]
    BY <2>5, <2>9
  <2>11. Solves(g, n, Infinity, step(n))
    <3>1. ASSUME NEW i \in 1..n PROVE g[i] = step(n)[i][g[i - 1]]
      <4>1. i - 1 \in 0..n
        OBVIOUS
      <4> QED
        BY <1>2, <2>8, <2>9, <4>1
    <3> QED
      BY <2>7, <3>1 DEF Solves
  <2> QED
    BY <2>6, <2>10, <2>11 DEF g
<1> HIDE DEF sol, M
<1>4. M(0) = Infinity
  BY <1>3 DEF Solves
<1>5. ASSUME NEW n \in Nat PROVE M(n) \in Pts /\ M(n + 1) = Group!Sum(M(n), a)
  <2>1. n + 1 \in Nat /\ n + 1 \in 1..n + 1 /\ n \in 0..n + 1 /\ (n + 1) - 1 = n
    OBVIOUS
  <2>2. Solves(sol(n + 1), n, Infinity, step(n))
    <3>1. \A i \in 1..n : step(n)[i] = step(n + 1)[i]
      BY <2>1 DEF step
    <3>2. Solves(sol(n + 1), n + 1, Infinity, step(n + 1))
      BY <1>3, <2>1
    <3> QED
      BY <3>1, <3>2 DEF Solves
  <2>3. sol(n + 1)[n] = sol(n)[n]
    BY <1>3, <2>2, SolutionsAgree
  <2>4. sol(n + 1)[n + 1] = Group!Sum(sol(n + 1)[n], a)
    <3>1. sol(n + 1)[n + 1] = step(n + 1)[n + 1][sol(n + 1)[n]]
      BY <1>3, <2>1 DEF Solves
    <3>2. sol(n + 1)[n] \in Pts
      BY <1>3, <2>1
    <3> QED
      BY <1>2, <2>1, <3>1, <3>2
  <2>5. M(n) = sol(n)[n] /\ sol(n) \in [0..n -> Pts] /\ n \in 0..n
    BY <1>3
  <2>6. M(n + 1) = sol(n + 1)[n + 1]
    BY <1>3, <2>1
  <2> QED
    BY <2>3, <2>4, <2>5, <2>6
<1> QED
  BY <1>4, <1>5 DEF M, Pts

LEMMA MultipleOne ==
  ASSUME NEW a \in Group!Points
  PROVE  Group!Multiple(a, 1) = a
<1>1. Group!Multiple(a, 0 + 1) = Group!Sum(Group!Multiple(a, 0), a)
  BY MultipleIs
<1> QED
  BY <1>1, MultipleIs DEF Group!Sum

Entries == Power(2, TableBits)
Windows == Bits \div TableBits
WindowOf(n, i) == (n \div Power(2, TableBits * (Windows - i))) % Entries

LEMMA SizesAre ==
  /\ TableBits \in Nat /\ TableBits >= 2 /\ Entries \in Nat /\ Entries >= 4
  /\ Windows \in Nat /\ Windows >= 1 /\ TableBits * Windows = Bits
<1>1. Bits \in Nat /\ TableBits \in 2..Bits /\ Bits % TableBits = 0
  BY CurveConstants
<1>2. TableBits \in Nat \ {0} /\ Bits \in Int /\ TableBits >= 2
  BY <1>1
<1>3. Windows \in Int /\ Bits = TableBits * Windows + (Bits % TableBits)
  BY <1>2, Division DEF Windows
<1>4. TableBits * Windows = Bits
  <2>1. TableBits * Windows + 0 = TableBits * Windows
    BY <1>2, <1>3
  <2> QED
    BY <1>1, <1>3, <2>1
<1>5. Windows >= 1
  <2> SUFFICES ASSUME Windows <= 0 PROVE FALSE
    BY <1>3
  <2>1. TableBits * Windows <= TableBits * 0
    BY <1>2, <1>3, ProductsOrdered
  <2> QED
    BY <1>1, <1>2, <1>4, <2>1
<1>6. Entries \in Nat /\ Entries >= 4
  <2> DEFINE k == TableBits - 2
  <2>1. k \in Nat /\ k + 1 \in Nat /\ (k + 1) + 1 = TableBits
    BY <1>2
  <2> HIDE DEF k
  <2>2. Power(2, k + 1) = 2 * Power(2, k) /\ Power(2, (k + 1) + 1) = 2 * Power(2, k + 1)
    BY <2>1, PowerIs
  <2>3. Power(2, k) \in Nat \ {0}
    BY <2>1, PowerPositive
  <2> QED
    BY <2>1, <2>2, <2>3 DEF Entries
<1> QED
  BY <1>2, <1>3, <1>4, <1>5, <1>6

(* Entry i of the table is i times the point. *)
LEMMA TableIs ==
  ASSUME NEW p \in Made
  PROVE  \A i \in 0..Entries - 1 :
           /\ TimesTable(p)[i] \in Made
           /\ Affine(TimesTable(p)[i]) = Group!Multiple(Affine(p), i)
<1> DEFINE n == Entries - 1
           a == Affine(p)
           F(i, v) == IF i = 1 THEN p ELSE IF i = 2 THEN Twice(p) ELSE Add(v, p)
           step == [i \in 1..n |-> [v \in Made |-> F(i, v)]]
           eq(f) == f = [i \in 0..Power(2, TableBits) - 1 |->
                           CASE i = 0 -> ZERO
                             [] i = 1 -> p
                             [] i = 2 -> Twice(p)
                             [] OTHER -> Add(f[i - 1], p)]
           T == CHOOSE f : eq(f)
<1>1. n \in Nat /\ n >= 3 /\ n = Power(2, TableBits) - 1
  BY SizesAre DEF Entries
<1> HIDE DEF n
<1>2. ASSUME NEW i \in 1..n, NEW v \in Made PROVE F(i, v) \in Made
  BY TwiceIs, AddIs
<1> HIDE DEF F
<1>3. step \in [1..n -> [Made -> Made]] /\ \A i \in 1..n, v \in Made : step[i][v] = F(i, v)
  BY <1>2
<1> HIDE DEF step
<1>4. PICK f \in [0..n -> Made] : Solves(f, n, ZERO, step)
  <2>1. n \in Nat /\ ZERO \in Made /\ step \in [1..n -> [Made -> Made]]
    BY <1>1, <1>3, ZeroMade
  <2> QED
    BY <2>1, RecursionHasSolution, Zenon
<1>5. f[0] = ZERO /\ \A i \in 1..n : f[i] = F(i, f[i - 1])
  <2>1. ASSUME NEW i \in 1..n PROVE f[i] = F(i, f[i - 1])
    <3>1. i - 1 \in 0..n
      BY <1>1
    <3> QED
      BY <1>3, <1>4, <3>1 DEF Solves
  <2> QED
    BY <1>4, <2>1 DEF Solves
<1>6. eq(f)
  <2>1. ASSUME NEW i \in 0..n
        PROVE  f[i] = CASE i = 0 -> ZERO
                        [] i = 1 -> p
                        [] i = 2 -> Twice(p)
                        [] OTHER -> Add(f[i - 1], p)
    <3>1. i = 0 \/ (i \in 1..n /\ i # 0)
      BY <1>1
    <3> QED
      BY <1>5, <3>1 DEF F
  <2> QED
    BY <1>1, <2>1
<1>7. eq(T)
  <2> HIDE DEF eq
  <2> QED
    BY <1>6
<1>8. TimesTable(p) = T
  BY DEF TimesTable
<1> HIDE DEF T
<1>9. T[0] = ZERO /\ \A i \in 1..n : T[i] = F(i, T[i - 1])
  <2>1. 0 \in 0..n /\ \A i \in 1..n : i \in 0..n /\ i # 0
    BY <1>1
  <2>2. T = [i \in 0..n |-> CASE i = 0 -> ZERO
                              [] i = 1 -> p
                              [] i = 2 -> Twice(p)
                              [] OTHER -> Add(T[i - 1], p)]
    BY <1>1, <1>7
  <2>3. T[0] = ZERO
    BY <2>1, <2>2
  <2>4. ASSUME NEW i \in 1..n PROVE T[i] = F(i, T[i - 1])
    <3>1. i \in 0..n /\ i # 0
      BY <2>1
    <3>2. T[i] = CASE i = 0 -> ZERO
                   [] i = 1 -> p
                   [] i = 2 -> Twice(p)
                   [] OTHER -> Add(T[i - 1], p)
      BY <2>2, <3>1
    <3> QED
      BY <3>1, <3>2 DEF F
  <2> QED
    BY <2>3, <2>4
<1>10. a \in Group!Points /\ a = Affine(p)
  BY AffineInGroup
<1> HIDE DEF a
<1>11. \A i \in 0..n : T[i] \in Made /\ Affine(T[i]) = Group!Multiple(a, i)
  <2> DEFINE Good == {i \in 0..n : T[i] \in Made /\ Affine(T[i]) = Group!Multiple(a, i)}
  <2>1. 0 \in Good
    <3>1. 0 \in 0..n /\ Group!Multiple(a, 0) = Infinity
      BY <1>1, <1>10, MultipleIs
    <3> QED
      BY <1>9, <3>1, ZeroMade
  <2>2. ASSUME NEW i \in 0..n - 1, i \in Good PROVE i + 1 \in Good
    <3>1. i \in Nat /\ i + 1 \in 1..n /\ (i + 1) - 1 = i /\ i + 1 \in 0..n
      BY <1>1
    <3>2. T[i + 1] = F(i + 1, T[i]) /\ T[i] \in Made /\ Affine(T[i]) = Group!Multiple(a, i)
      BY <1>9, <2>2, <3>1
    <3>3. Group!Multiple(a, i + 1) = Group!Sum(Group!Multiple(a, i), a)
      BY <1>10, <3>1, MultipleIs
    <3>4. F(i + 1, T[i]) \in Made
      BY <1>2, <3>1, <3>2
    <3>5. Affine(F(i + 1, T[i])) = Group!Sum(Group!Multiple(a, i), a)
      <4>1. CASE i + 1 = 1
        <5>1. i = 0
          BY <3>1, <4>1
        <5> QED
          BY <1>10, <3>1, <4>1, <5>1, MultipleIs DEF F, Group!Sum
      <4>2. CASE i + 1 = 2
        <5>1. i = 1
          BY <3>1, <4>2
        <5>2. F(i + 1, T[i]) = Twice(p)
          BY <4>2 DEF F
        <5> QED
          BY <1>10, <5>1, <5>2, MultipleOne, TwiceIs
      <4>3. CASE i + 1 # 1 /\ i + 1 # 2
        <5>1. F(i + 1, T[i]) = Add(T[i], p)
          BY <4>3 DEF F
        <5> QED
          BY <1>10, <3>2, <5>1, AddIs
      <4> QED
        BY <4>1, <4>2, <4>3
    <3> QED
      BY <3>1, <3>2, <3>3, <3>4, <3>5
  <2>3. \A i \in 0..n : i \in Good
    <3> HIDE DEF Good
    <3> QED
      BY <1>1, <2>1, <2>2, UpTo
  <2> QED
    BY <2>3
<1> QED
  BY <1>8, <1>10, <1>11 DEF n

(* The states of the loop that shifts a point. *)
LEMMA ShiftedStates ==
  ASSUME NEW p \in Made
  PROVE  \E f \in [0..TableBits -> Made] :
           /\ f[0] = p /\ (\A k \in 1..TableBits : f[k] = Twice(f[k - 1]))
           /\ Shifted(p) = f[TableBits]
<1> DEFINE n == TableBits
           step == [i \in 1..n |-> [v \in Made |-> Twice(v)]]
           eq(f) == f = [k \in 0..n |-> IF k = 0 THEN p ELSE Twice(f[k - 1])]
           T == CHOOSE f : eq(f)
<1>1. n \in Nat
  BY SizesAre
<1>2. \A v \in Made : Twice(v) \in Made
  BY TwiceIs
<1>3. step \in [1..n -> [Made -> Made]] /\ \A i \in 1..n, v \in Made : step[i][v] = Twice(v)
  BY <1>2
<1>4. Shifted(p) = T[n]
  BY DEF Shifted
<1> HIDE DEF step, n
<1>5. PICK f \in [0..n -> Made] : Solves(f, n, p, step)
  <2>1. step \in [1..n -> [Made -> Made]]
    BY <1>3
  <2> QED
    BY <1>1, <2>1, RecursionHasSolution, Zenon
<1>6. f[0] = p /\ \A k \in 1..n : f[k] = Twice(f[k - 1])
  <2>1. ASSUME NEW k \in 1..n PROVE f[k] = Twice(f[k - 1])
    <3>1. k - 1 \in 0..n
      BY <1>1
    <3> QED
      BY <1>3, <1>5, <3>1 DEF Solves
  <2> QED
    BY <1>5, <2>1 DEF Solves
<1>7. eq(f)
  <2>1. ASSUME NEW k \in 0..n PROVE f[k] = IF k = 0 THEN p ELSE Twice(f[k - 1])
    <3>1. k = 0 \/ (k \in 1..n /\ k # 0)
      BY <1>1
    <3> QED
      BY <1>6, <3>1
  <2> QED
    BY <2>1
<1>8. eq(T)
  <2> HIDE DEF eq
  <2> QED
    BY <1>7
<1>9. T = [k \in 0..n |-> IF k = 0 THEN p ELSE Twice(T[k - 1])]
  BY <1>8
<1> HIDE DEF T
<1>10. T[0] = p /\ \A k \in 1..n : T[k] = Twice(T[k - 1])
  <2>1. 0 \in 0..n /\ \A k \in 1..n : k \in 0..n /\ k # 0
    BY <1>1
  <2>2. T[0] = p
    BY <1>9, <2>1
  <2>3. ASSUME NEW k \in 1..n PROVE T[k] = Twice(T[k - 1])
    BY <1>9, <2>1
  <2> QED
    BY <2>2, <2>3
<1>11. \A k \in 0..n : T[k] \in Made
  <2> DEFINE Good == {k \in 0..n : T[k] \in Made}
  <2>1. 0 \in Good
    BY <1>1, <1>10
  <2>2. ASSUME NEW k \in 0..n - 1, k \in Good PROVE k + 1 \in Good
    <3>1. k + 1 \in 1..n /\ (k + 1) - 1 = k /\ k + 1 \in 0..n
      BY <1>1
    <3>2. T[k + 1] = Twice(T[k])
      BY <1>10, <3>1
    <3> QED
      BY <1>2, <2>2, <3>1, <3>2
  <2>3. \A k \in 0..n : k \in Good
    <3> HIDE DEF Good
    <3> QED
      BY <1>1, <2>1, <2>2, UpTo
  <2> QED
    BY <2>3
<1>12. T \in [0..n -> Made]
  BY <1>9, <1>11
<1> QED
  BY <1>4, <1>10, <1>12 DEF n

(* The states of the loop over the windows. *)
LEMMA MultiplyStates ==
  ASSUME NEW p \in Made, NEW n \in Nat
  PROVE  \E s \in [1..Windows -> Made] :
           /\ s[1] = Add(ZERO, TimesTable(p)[WindowOf(n, 1)])
           /\ \A i \in 2..Windows : s[i] = Add(Shifted(s[i - 1]), TimesTable(p)[WindowOf(n, i)])
           /\ Multiply(p, n) = s[Windows]
<1> DEFINE table == TimesTable(p)
           w == Windows
           E(i) == table[WindowOf(n, i)]
           F(i, v) == IF i = 1 THEN Add(ZERO, E(1)) ELSE Add(Shifted(v), E(i))
           eq(f) == f = [i \in 1..w |-> IF i = 1 THEN Add(ZERO, E(1))
                                        ELSE Add(Shifted(f[i - 1]), E(i))]
           T == CHOOSE f : eq(f)
           step == [i \in 1..w |-> [v \in Made |-> F(i, v)]]
<1>1. Multiply(p, n) = T[w]
  BY DEF Multiply, Windows, WindowOf, Entries
<1>2. w \in Nat /\ w >= 1
  BY SizesAre
<1>3. \A i \in 1..w : E(i) \in Made
  <2> SUFFICES ASSUME NEW i \in 1..w PROVE E(i) \in Made
    OBVIOUS
  <2> DEFINE d == Power(2, TableBits * (w - i))
             q == n \div d
             r == q % Entries
  <2>1. TableBits * (w - i) \in Nat
    <3>1. w - i \in Nat /\ TableBits \in Nat
      BY <1>2, SizesAre
    <3> QED
      BY <3>1
  <2>2. d \in Nat \ {0}
    BY <2>1, PowerPositive
  <2> HIDE DEF d
  <2>3. q \in Int
    BY <2>2, Division
  <2> HIDE DEF q
  <2>4. r \in 0..Entries - 1
    BY <2>3, SizesAre, Division
  <2>5. r = WindowOf(n, i)
    BY DEF r, q, d, WindowOf
  <2> QED
    BY <2>4, <2>5, TableIs
<1> HIDE DEF E, w
<1>4. \A v \in Made : Shifted(v) \in Made
  <2> SUFFICES ASSUME NEW v \in Made PROVE Shifted(v) \in Made
    OBVIOUS
  <2>1. PICK f \in [0..TableBits -> Made] : Shifted(v) = f[TableBits]
    BY ShiftedStates
  <2> QED
    BY <2>1, SizesAre
<1>5. ASSUME NEW i \in 1..w, NEW v \in Made PROVE F(i, v) \in Made
  <2>1. E(i) \in Made /\ E(1) \in Made /\ Shifted(v) \in Made
    BY <1>2, <1>3, <1>4
  <2> QED
    BY <2>1, ZeroMade, AddIs
<1> HIDE DEF F
<1>6. step \in [1..w -> [Made -> Made]] /\ \A i \in 1..w, v \in Made : step[i][v] = F(i, v)
  BY <1>5
<1> HIDE DEF step
<1>7. PICK f \in [0..w -> Made] : Solves(f, w, ZERO, step)
  <2>1. w \in Nat /\ ZERO \in Made /\ step \in [1..w -> [Made -> Made]]
    BY <1>2, <1>6, ZeroMade
  <2> QED
    BY <2>1, RecursionHasSolution, Zenon
<1> DEFINE g == [i \in 1..w |-> f[i]]
<1>8. \A i \in 1..w : f[i] = F(i, f[i - 1])
  <2> SUFFICES ASSUME NEW i \in 1..w PROVE f[i] = F(i, f[i - 1])
    OBVIOUS
  <2>1. i - 1 \in 0..w
    BY <1>2
  <2> QED
    BY <1>6, <1>7, <2>1 DEF Solves
<1>9. eq(g)
  <2>1. ASSUME NEW i \in 1..w
        PROVE  g[i] = IF i = 1 THEN Add(ZERO, E(1)) ELSE Add(Shifted(g[i - 1]), E(i))
    <3>1. i = 1 \/ (i # 1 /\ i - 1 \in 1..w)
      BY <1>2
    <3> QED
      BY <1>8, <3>1 DEF F
  <2> HIDE DEF E
  <2>2. DOMAIN g = 1..w
    OBVIOUS
  <2> QED
    BY <2>1
<1>10. eq(T)
  <2> HIDE DEF eq
  <2> QED
    BY <1>9
<1>11. T = [i \in 1..w |-> IF i = 1 THEN Add(ZERO, E(1)) ELSE Add(Shifted(T[i - 1]), E(i))]
  BY <1>10
<1> HIDE DEF T
<1>12. T[1] = Add(ZERO, E(1)) /\ \A i \in 2..w : T[i] = Add(Shifted(T[i - 1]), E(i))
  <2>1. 1 \in 1..w /\ \A i \in 2..w : i \in 1..w /\ i # 1
    BY <1>2
  <2>2. T[1] = Add(ZERO, E(1))
    BY <1>11, <2>1
  <2>3. ASSUME NEW i \in 2..w PROVE T[i] = Add(Shifted(T[i - 1]), E(i))
    BY <1>11, <2>1
  <2> QED
    BY <2>2, <2>3
<1>13. \A i \in 1..w : T[i] \in Made
  <2> DEFINE Good == {k \in 0..w : k = 0 \/ T[k] \in Made}
  <2>1. 0 \in Good
    BY <1>2
  <2>2. ASSUME NEW k \in 0..w - 1, k \in Good PROVE k + 1 \in Good
    <3>1. k + 1 \in 1..w /\ (k + 1) - 1 = k /\ k + 1 \in 0..w /\ 1 \in 1..w
      BY <1>2
    <3>2. CASE k = 0
      <4>1. T[k + 1] = Add(ZERO, E(1)) /\ E(1) \in Made
        BY <1>3, <1>12, <3>1, <3>2
      <4> QED
        BY <3>1, <4>1, ZeroMade, AddIs
    <3>3. CASE k # 0
      <4>1. k + 1 \in 2..w
        BY <1>2, <3>3
      <4>2. T[k + 1] = Add(Shifted(T[k]), E(k + 1)) /\ E(k + 1) \in Made
        BY <1>3, <1>12, <3>1, <4>1
      <4>3. Shifted(T[k]) \in Made
        BY <1>4, <2>2, <3>3
      <4> QED
        BY <3>1, <4>2, <4>3, AddIs
    <3> QED
      BY <3>2, <3>3
  <2>3. \A k \in 0..w : k \in Good
    <3> HIDE DEF Good
    <3> QED
      BY <1>2, <2>1, <2>2, UpTo
  <2>4. \A i \in 1..w : i \in 0..w /\ i # 0
    BY <1>2
  <2> QED
    BY <2>3, <2>4
<1>14. T \in [1..w -> Made]
  BY <1>11, <1>13
<1> QED
  BY <1>1, <1>12, <1>14 DEF w, E

LEMMA MultiplyMade ==
  ASSUME NEW p \in Made, NEW n \in Nat
  PROVE  Multiply(p, n) \in Made
<1>1. PICK s \in [1..Windows -> Made] : Multiply(p, n) = s[Windows]
  BY MultiplyStates
<1> QED
  BY <1>1, SizesAre

-----------------------------------------------------------------------------
(* Multiples in the group *)

LEMMA MultiplesAdd ==
  ASSUME NEW a \in Group!Points, NEW m \in Nat, NEW n \in Nat
  PROVE  Group!Multiple(a, m + n) = Group!Sum(Group!Multiple(a, m), Group!Multiple(a, n))
<1> DEFINE M(k) == Group!Multiple(a, k)
           Good == {k \in 0..n : M(m + k) = Group!Sum(M(m), M(k))}
<1>1. \A k \in Nat : M(k) \in Group!Points /\ M(k + 1) = Group!Sum(M(k), a)
  BY MultipleIs
<1>2. M(0) = Infinity
  BY MultipleIs
<1> HIDE DEF M
<1>3. 0 \in Good
  <2>1. m + 0 = m /\ 0 \in 0..n
    OBVIOUS
  <2>2. Group!Sum(M(m), M(0)) = M(m)
    BY <1>1, <1>2, SumInfinity
  <2> QED
    BY <2>1, <2>2
<1>4. ASSUME NEW k \in 0..n - 1, k \in Good PROVE k + 1 \in Good
  <2>1. k \in Nat /\ m + k \in Nat /\ k + 1 \in 0..n /\ m + (k + 1) = (m + k) + 1
    OBVIOUS
  <2>2. M(m + (k + 1)) = Group!Sum(Group!Sum(M(m), M(k)), a)
    BY <1>1, <1>4, <2>1
  <2>3. Group!Sum(Group!Sum(M(m), M(k)), a) = Group!Sum(M(m), Group!Sum(M(k), a))
    BY <1>1, <2>1, GroupLaw
  <2> QED
    BY <1>1, <2>1, <2>2, <2>3
<1>5. n \in Good
  <2> HIDE DEF Good
  <2> QED
    BY <1>3, <1>4, UpTo
<1> QED
  BY <1>5 DEF M

LEMMA MultiplesMultiply ==
  ASSUME NEW a \in Group!Points, NEW m \in Nat, NEW n \in Nat
  PROVE  Group!Multiple(Group!Multiple(a, m), n) = Group!Multiple(a, m * n)
<1> DEFINE b == Group!Multiple(a, m)
           Good == {k \in 0..n : Group!Multiple(b, k) = Group!Multiple(a, m * k)}
<1>1. b \in Group!Points
  BY MultipleIs
<1>2. 0 \in Good
  <2>1. m * 0 = 0 /\ 0 \in 0..n
    OBVIOUS
  <2> QED
    BY <1>1, <2>1, MultipleIs
<1>3. ASSUME NEW k \in 0..n - 1, k \in Good PROVE k + 1 \in Good
  <2>1. k \in Nat /\ m * k \in Nat /\ k + 1 \in 0..n /\ m * (k + 1) = m * k + m
    OBVIOUS
  <2>2. Group!Multiple(a, m * k + m) = Group!Sum(Group!Multiple(a, m * k), b)
    BY <2>1, MultiplesAdd
  <2>3. Group!Multiple(b, k) = Group!Multiple(a, m * k)
    BY <1>3
  <2> HIDE DEF b
  <2>4. Group!Multiple(b, k + 1) = Group!Sum(Group!Multiple(b, k), b)
    BY <1>1, <2>1, MultipleIs
  <2> QED
    BY <2>1, <2>2, <2>3, <2>4
<1>4. n \in Good
  <2> HIDE DEF Good
  <2> QED
    BY <1>2, <1>3, UpTo
<1> QED
  BY <1>4

(* Shifting doubles as many times as a window has bits. *)
LEMMA ShiftedIs ==
  ASSUME NEW p \in Made, NEW a \in Group!Points, NEW m \in Nat,
         Affine(p) = Group!Multiple(a, m)
  PROVE  Affine(Shifted(p)) = Group!Multiple(a, Entries * m)
<1>1. PICK f \in [0..TableBits -> Made] :
        /\ f[0] = p /\ (\A k \in 1..TableBits : f[k] = Twice(f[k - 1]))
        /\ Shifted(p) = f[TableBits]
  BY ShiftedStates
<1> DEFINE n == TableBits
           M(k) == Group!Multiple(a, k)
           Good == {k \in 0..n : Affine(f[k]) = M(Power(2, k) * m)}
<1>2. n \in Nat
  BY SizesAre
<1>3. Affine(p) = M(m) /\ \A i, j \in Nat : M(i + j) = Group!Sum(M(i), M(j))
  BY MultiplesAdd
<1>4. f[0] = p /\ (\A k \in 1..n : f[k] = Twice(f[k - 1])) /\ f \in [0..n -> Made]
  BY <1>1
<1>5. Shifted(p) = f[n] /\ Entries = Power(2, n)
  BY <1>1 DEF Entries
<1> HIDE DEF n, M
<1>6. 0 \in Good
  <2>1. Power(2, 0) = 1 /\ 1 * m = m /\ 0 \in 0..n
    BY <1>2, PowerIs
  <2>2. Power(2, 0) * m = m
    BY <2>1
  <2> QED
    BY <1>3, <1>4, <2>1, <2>2
<1>7. ASSUME NEW k \in 0..n - 1, k \in Good PROVE k + 1 \in Good
  <2>1. k \in Nat /\ k + 1 \in 1..n /\ k + 1 \in 0..n /\ k \in 0..n /\ (k + 1) - 1 = k
    BY <1>2
  <2> DEFINE h == Power(2, k)
             i == h * m
  <2>2. h \in Nat /\ Power(2, k + 1) = 2 * h
    BY <2>1, PowerIs
  <2>3. Affine(f[k]) = M(i)
    BY <1>7
  <2> HIDE DEF h
  <2>4. i \in Nat /\ Power(2, k + 1) * m = i + i
    <3>1. h * m \in Nat
      BY <2>2
    <3> QED
      BY <2>2, <3>1
  <2> HIDE DEF i
  <2>5. f[k + 1] = Twice(f[k]) /\ f[k] \in Made
    BY <1>4, <2>1
  <2>6. Affine(f[k + 1]) = Group!Sum(M(i), M(i))
    BY <2>3, <2>5, TwiceIs
  <2>7. Affine(f[k + 1]) = M(i + i)
    BY <1>3, <2>4, <2>6
  <2> QED
    BY <2>1, <2>4, <2>7
<1>8. n \in Good
  <2>1. \A k \in 0..n : k \in Good
    <3> HIDE DEF Good
    <3> QED
      BY <1>2, <1>6, <1>7, UpTo
  <2> QED
    BY <1>2, <2>1
<1> QED
  BY <1>5, <1>8 DEF M

(* The windows read so far are a number, and the sum that many times the   *)
(* point.                                                                  *)
LEMMA MultiplyIs ==
  ASSUME NEW p \in Made, NEW n \in 0..Power(2, Bits) - 1
  PROVE  /\ Multiply(p, n) \in Made
         /\ Affine(Multiply(p, n)) = Group!Multiple(Affine(p), n)
<1>1. n \in Nat
  <2>1. Power(2, Bits) \in Nat
    BY CurveConstants, PowerIs
  <2> QED
    BY <2>1
<1>2. PICK s \in [1..Windows -> Made] :
        /\ s[1] = Add(ZERO, TimesTable(p)[WindowOf(n, 1)])
        /\ \A i \in 2..Windows : s[i] = Add(Shifted(s[i - 1]), TimesTable(p)[WindowOf(n, i)])
        /\ Multiply(p, n) = s[Windows]
  BY <1>1, MultiplyStates
<1> DEFINE a == Affine(p)
           w == Windows
           b == Entries
           D(i) == Power(2, TableBits * (w - i))
           N(i) == n \div D(i)
           W(i) == WindowOf(n, i)
           E(i) == TimesTable(p)[W(i)]
           M(k) == Group!Multiple(a, k)
<1>3. a \in Group!Points
  BY AffineInGroup
<1>4. w \in Nat /\ w >= 1 /\ b \in Nat \ {0} /\ TableBits \in Nat /\ TableBits * w = Bits
  BY SizesAre
<1>5. \A i \in 0..w : D(i) \in Nat \ {0}
  <2> SUFFICES ASSUME NEW i \in 0..w PROVE D(i) \in Nat \ {0}
    OBVIOUS
  <2>1. w - i \in Nat
    BY <1>4
  <2>2. TableBits * (w - i) \in Nat
    BY <1>4, <2>1
  <2> QED
    BY <2>2, PowerPositive
<1>6. \A i \in 1..w : D(i - 1) = b * D(i)
  <2> SUFFICES ASSUME NEW i \in 1..w PROVE D(i - 1) = b * D(i)
    OBVIOUS
  <2> DEFINE k == TableBits * (w - i)
  <2>1. k \in Nat /\ TableBits * (w - (i - 1)) = TableBits + k
    <3>1. w - i \in Nat /\ w - (i - 1) = (w - i) + 1
      BY <1>4
    <3>2. TableBits * ((w - i) + 1) = TableBits + k
      BY <1>4, <3>1
    <3> QED
      BY <1>4, <3>1, <3>2
  <2>2. D(i) = Power(2, k) /\ D(i - 1) = Power(2, TableBits + k)
    BY <2>1
  <2> HIDE DEF k, D
  <2>3. Power(2, TableBits + k) = Power(2, TableBits) * Power(2, k)
    BY <1>4, <2>1, PowersAdd
  <2> QED
    BY <2>2, <2>3 DEF Entries
<1>7. D(0) = Power(2, Bits) /\ D(w) = 1
  <2>1. TableBits * (w - 0) = Bits /\ TableBits * (w - w) = 0
    BY <1>4
  <2> QED
    BY <2>1, PowerIs
<1>8. \A i \in 1..w : W(i) = N(i) % b
  BY DEF WindowOf
<1>9. s[1] = Add(ZERO, E(1)) /\ \A i \in 2..w : s[i] = Add(Shifted(s[i - 1]), E(i))
  BY <1>2
<1>10. s \in [1..w -> Made] /\ Multiply(p, n) = s[w]
  BY <1>2
<1> HIDE DEF D, W, w, b
<1>11. \A i \in 0..w : N(i) \in Nat
  <2> SUFFICES ASSUME NEW i \in 0..w PROVE N(i) \in Nat
    OBVIOUS
  <2> DEFINE d == D(i)
  <2>1. d \in Nat \ {0}
    BY <1>5
  <2> HIDE DEF d
  <2>2. n \div d \in Nat
    BY <1>1, <2>1
  <2> QED
    BY <2>2 DEF d
<1>12. N(0) = 0
  <2> DEFINE d == D(0)
  <2>1. d \in Nat \ {0} /\ n \in 0..d - 1 /\ n \in Int
    BY <1>1, <1>4, <1>5, <1>7
  <2> HIDE DEF d
  <2>2. n \div d = 0
    BY <2>1, OneBit
  <2> QED
    BY <2>2 DEF d
<1>13. N(w) = n
  <2>1. n \div 1 = n
    BY <1>1
  <2> QED
    BY <1>7, <2>1
<1>14. ASSUME NEW i \in 1..w
       PROVE  N(i) = b * N(i - 1) + W(i) /\ W(i) \in 0..b - 1
  <2> DEFINE d == D(i)
             q == n \div d
             r == q % b
             e == q \div b
  <2>1. d \in Nat \ {0} /\ D(i - 1) = b * d
    BY <1>4, <1>5, <1>6
  <2> HIDE DEF d
  <2>2. n \div (b * d) = (n \div d) \div b
    <3>1. n \in Int
      BY <1>1
    <3> QED
      BY <1>4, <2>1, <3>1, DivTwice, Zenon
  <2>3. q \in Int
    BY <1>1, <2>1, Division
  <2>4. n \div (b * d) = e
    BY <2>2
  <2> HIDE DEF q
  <2>5. e \in Int /\ r \in 0..b - 1 /\ q = b * e + r
    BY <1>4, <2>3, Division
  <2>6. N(i) = q /\ N(i - 1) = e /\ W(i) = r
    BY <1>8, <2>1, <2>4 DEF q, d
  <2> HIDE DEF e, r, N
  <2> QED
    BY <2>5, <2>6
<1> HIDE DEF N
<1>15. ASSUME NEW i \in 1..w PROVE E(i) \in Made /\ Affine(E(i)) = M(W(i))
  BY <1>14, TableIs DEF b
<1> HIDE DEF E
<1>16. \A i, j \in Nat : M(i + j) = Group!Sum(M(i), M(j))
  BY <1>3, MultiplesAdd
<1>17. ASSUME NEW q \in Made, NEW m \in Nat, Affine(q) = M(m)
       PROVE  Shifted(q) \in Made /\ Affine(Shifted(q)) = M(b * m)
  <2>1. PICK f \in [0..TableBits -> Made] : Shifted(q) = f[TableBits]
    BY ShiftedStates
  <2>2. Shifted(q) \in Made
    BY <1>4, <2>1
  <2> QED
    BY <1>3, <1>17, <2>2, ShiftedIs DEF b
<1>18. M(0) = Infinity
  BY <1>3, MultipleIs
<1> HIDE DEF a, M
<1> DEFINE Good == {i \in 0..w : i = 0 \/ Affine(s[i]) = M(N(i))}
<1>19. 0 \in Good
  BY <1>4
<1>20. ASSUME NEW k \in 0..w - 1, k \in Good PROVE k + 1 \in Good
  <2> DEFINE i == k + 1
  <2>1. i \in 1..w /\ i - 1 = k /\ i \in 0..w /\ k \in 0..w /\ 1 \in 1..w
    BY <1>4
  <2>2. /\ N(i) = b * N(k) + W(i) /\ W(i) \in Nat /\ N(k) \in Nat
        /\ E(i) \in Made /\ Affine(E(i)) = M(W(i))
    <3>1. N(i) = b * N(i - 1) + W(i) /\ W(i) \in 0..b - 1
      BY <1>14, <2>1
    <3>2. W(i) \in Nat
      BY <1>4, <3>1
    <3> QED
      BY <1>11, <1>15, <2>1, <3>1, <3>2
  <2>3. CASE k = 0
    <3>1. s[1] = Add(ZERO, E(1)) /\ i = 1
      BY <1>9, <2>3
    <3>2. Affine(s[1]) = Group!Sum(Infinity, M(W(1)))
      BY <2>2, <3>1, ZeroMade, AddIs
    <3>3. N(1) = W(1)
      <4>1. b * 0 = 0
        BY <1>4
      <4> QED
        BY <1>12, <2>2, <2>3, <3>1, <4>1
    <3>4. Affine(s[1]) = M(W(1))
      BY <3>2 DEF Group!Sum
    <3> QED
      BY <2>1, <3>1, <3>3, <3>4
  <2>4. CASE k # 0
    <3>1. i \in 2..w /\ k \in 1..w
      BY <1>4, <2>4
    <3>2. s[i] = Add(Shifted(s[k]), E(i)) /\ s[k] \in Made /\ Affine(s[k]) = M(N(k))
      BY <1>9, <1>10, <1>20, <2>1, <2>4, <3>1
    <3> DEFINE m == N(k)
               h == b * m
    <3>3. m \in Nat /\ h \in Nat
      BY <1>4, <2>2
    <3>4. Shifted(s[k]) \in Made /\ Affine(Shifted(s[k])) = M(h)
      BY <1>17, <2>2, <3>2
    <3>5. Affine(s[i]) = Group!Sum(M(h), M(W(i)))
      BY <2>2, <3>2, <3>4, AddIs
    <3>6. M(h + W(i)) = Group!Sum(M(h), M(W(i)))
      <4> HIDE DEF h, i
      <4> QED
        BY <1>16, <2>2, <3>3
    <3> QED
      BY <2>1, <2>2, <3>5, <3>6
  <2> QED
    BY <2>3, <2>4
<1>21. w \in Good
  <2>1. \A k \in 0..w : k \in Good
    <3> HIDE DEF Good
    <3> QED
      BY <1>4, <1>19, <1>20, UpTo
  <2> QED
    BY <1>4, <2>1
<1>22. Affine(s[w]) = M(n) /\ s[w] \in Made
  <2>1. w # 0 /\ w \in 1..w
    BY <1>4
  <2> QED
    BY <1>10, <1>13, <1>21, <2>1
<1> QED
  BY <1>10, <1>22 DEF M, a

-----------------------------------------------------------------------------
(* The methods, one after another *)

LEMMA ScalarsAre == \A n \in Scalars : n \in 0..Power(2, Bits) - 1 /\ n \in Nat
<1>1. Power(2, Bits) \in Nat
  BY CurveConstants, PowerIs
<1> QED
  BY <1>1, CurveConstants

PointInv ==
  /\ this \in Made
  /\ other \in Made
  /\ method = <<"normalize">> => this = NormalOf(Affine(this))

(* A step of a Schnorr behaviour is a call of a method or changes no point. *)
LEMMA PointSteps == [Next]_vars => PointNext \/ UNCHANGED pointVars
BY DEF Next, vars, Verify, Forget

LEMMA PointInvInit == Init => PointInv
BY DEF Init, PointInit, PointInv

LEMMA PointInvStep == PointInv /\ [Next]_vars => PointInv'
<1> SUFFICES ASSUME PointInv, [Next]_vars PROVE PointInv'
  OBVIOUS
<1>1. CASE UNCHANGED pointVars
  BY <1>1 DEF PointInv, pointVars
<1>2. CASE Returns(<<"add">>, Add(this, other))
  <2>1. this' = Add(this, other) /\ other' = other /\ method' # <<"normalize">>
    BY <1>2 DEF Returns
  <2> QED
    BY <2>1, AddIs DEF PointInv
<1>3. CASE Returns(<<"twice">>, Twice(this))
  <2>1. this' = Twice(this) /\ other' = other /\ method' # <<"normalize">>
    BY <1>3 DEF Returns
  <2> QED
    BY <2>1, TwiceIs DEF PointInv
<1>4. CASE Returns(<<"normalize">>, Normalize(this))
  <2> DEFINE a == Affine(this)
  <2>1. this' = NormalOf(a) /\ other' = other
    BY <1>4, NormalizeIs DEF Returns, PointInv
  <2>2. a \in Group!Points
    BY AffineInGroup DEF PointInv
  <2> HIDE DEF a
  <2>3. NormalOf(a) \in Made /\ NormalOf(a) = NormalOf(Affine(NormalOf(a)))
    BY <2>2, NormalIs
  <2> QED
    BY <2>1, <2>3 DEF PointInv
<1>5. ASSUME NEW n \in Scalars, Returns(<<"multiply", n>>, Multiply(this, n)) PROVE PointInv'
  <2>1. this' = Multiply(this, n) /\ other' = other /\ method' # <<"normalize">>
    BY <1>5 DEF Returns
  <2> QED
    BY <2>1, ScalarsAre, MultiplyMade DEF PointInv
<1>6. CASE Return
  <2>1. this' = this /\ other' = other /\ method' # <<"normalize">>
    BY <1>6 DEF Return
  <2> QED
    BY <2>1 DEF PointInv
<1> QED
  BY <1>1, <1>2, <1>3, <1>4, <1>5, <1>6, PointSteps DEF PointNext

LEMMA PointInvariant == Spec => []PointInv
BY PointInvInit, PointInvStep, PTL DEF Spec

(* Whatever is done to a point, its coordinates stand for a point of the   *)
(* curve, and normalize leaves the only ones of its kind: CurvePoint.cpp's *)
(* normalize, over whatever add, twice and multiply have made.             *)
THEOREM NormalFormUnique == Spec => []NormalFormIsUnique
<1>1. PointInv => NormalFormIsUnique
  BY DEF PointInv, NormalFormIsUnique, NormalOf
<1> QED
  BY <1>1, PointInvariant, PTL

LEMMA GroupInit == Init => Group!Init
<1> SUFFICES ASSUME Init PROVE Group!Init
  OBVIOUS
<1> QED
  BY AffineInGroup DEF Init, PointInit, Group!Init

LEMMA GroupStep == PointInv /\ [Next]_vars => [Group!Next]_(Group!vars)
<1> SUFFICES ASSUME PointInv, [Next]_vars PROVE [Group!Next]_(Group!vars)
  OBVIOUS
<1>1. CASE UNCHANGED pointVars
  <2>1. this' = this /\ other' = other /\ method' = method
    BY <1>1 DEF pointVars
  <2>2. Affine(this)' = Affine(this) /\ Affine(other)' = Affine(other)
    BY <2>1 DEF Affine
  <2> QED
    BY <2>1, <2>2 DEF Group!vars
<1>2. ASSUME NEW m, NEW p, Returns(m, p) PROVE Group!Returns(m, Affine(p))
  <2>1. method = <<"idle">> /\ method' = m /\ this' = p /\ other' = other
    BY <1>2 DEF Returns
  <2>2. Affine(this)' = Affine(p) /\ Affine(other)' = Affine(other)
    BY <2>1 DEF Affine
  <2> QED
    BY <2>1, <2>2 DEF Group!Returns
<1>3. CASE Returns(<<"add">>, Add(this, other))
  <2>1. Group!Returns(<<"add">>, Affine(Add(this, other)))
    BY <1>2, <1>3
  <2>2. Affine(Add(this, other)) = Group!Sum(Affine(this), Affine(other))
    BY AddIs DEF PointInv
  <2> QED
    BY <2>1, <2>2 DEF Group!Next
<1>4. CASE Returns(<<"twice">>, Twice(this))
  <2>1. Group!Returns(<<"twice">>, Affine(Twice(this)))
    BY <1>2, <1>4
  <2>2. Affine(Twice(this)) = Group!Sum(Affine(this), Affine(this))
    BY TwiceIs DEF PointInv
  <2> QED
    BY <2>1, <2>2 DEF Group!Next
<1>5. CASE Returns(<<"normalize">>, Normalize(this))
  <2>1. Group!Returns(<<"normalize">>, Affine(Normalize(this)))
    BY <1>2, <1>5
  <2>2. Affine(Normalize(this)) = Affine(this)
    BY NormalizeIs, AffineInGroup, NormalIs DEF PointInv
  <2> QED
    BY <2>1, <2>2 DEF Group!Next
<1>6. ASSUME NEW n \in Scalars, Returns(<<"multiply", n>>, Multiply(this, n))
      PROVE  Group!Next
  <2>1. Group!Returns(<<"multiply", n>>, Affine(Multiply(this, n)))
    BY <1>2, <1>6
  <2>2. Affine(Multiply(this, n)) = Group!Multiple(Affine(this), n)
    BY ScalarsAre, MultiplyIs DEF PointInv
  <2> QED
    BY <2>1, <2>2 DEF Group!Next
<1>7. CASE Return
  <2>1. method # <<"idle">> /\ method' = <<"idle">> /\ this' = this /\ other' = other
    BY <1>7 DEF Return
  <2>2. Affine(this)' = Affine(this) /\ Affine(other)' = Affine(other)
    BY <2>1 DEF Affine
  <2> QED
    BY <2>1, <2>2 DEF Group!Next, Group!Return
<1> QED
  BY <1>1, <1>3, <1>4, <1>5, <1>6, <1>7, PointSteps DEF PointNext

(* The points, with their coordinates forgotten, behave as the group of    *)
(* the curve says: add, twice and normalize by their branches, and         *)
(* multiply, which reads its number by windows, as repeated addition.      *)
THEOREM PointsImplementGroup == Spec => ImplementsGroup
<1>1. Init => Group!Init
  BY GroupInit
<1>2. PointInv /\ [Next]_vars => [Group!Next]_(Group!vars)
  BY GroupStep
<1> QED
  BY <1>1, <1>2, PointInvariant, PTL DEF Spec, ImplementsGroup, Group!Spec

-----------------------------------------------------------------------------
(* The order of G *)

LEMMA RemaindersSame ==
  ASSUME NEW a \in Int, NEW b \in Int, NEW m \in Nat \ {0}
  PROVE  (a - b) % m = 0 <=> a % m = b % m
<1> DEFINE qa == a \div m
           qb == b \div m
           ra == a % m
           rb == b % m
           q == (a - b) \div m
           r == (a - b) % m
<1>1. a - b \in Int /\ m \in Int
  OBVIOUS
<1>2. qa \in Int /\ ra \in 0..m - 1 /\ a = m * qa + ra
  BY Division
<1>3. qb \in Int /\ rb \in 0..m - 1 /\ b = m * qb + rb
  BY Division
<1>4. q \in Int /\ r \in 0..m - 1 /\ a - b = m * q + r
  BY <1>1, Division
<1>5. ASSUME r = 0 PROVE ra = rb
  <2> DEFINE k == q + qb
  <2>1. k \in Int /\ a = m * k + rb
    <3> HIDE DEF q, r, qb, rb
    <3>1. m * (q + qb) = m * q + m * qb
      BY <1>1, <1>3, <1>4
    <3> QED
      BY <1>1, <1>3, <1>4, <1>5, <3>1
  <2> HIDE DEF k, rb
  <2> QED
    BY <1>3, <2>1, Quotients
<1>6. ASSUME ra = rb PROVE r = 0
  <2> DEFINE k == qa - qb
             c == a - b
  <2>1. k \in Int /\ c = m * k + 0
    <3> HIDE DEF qa, ra, qb, rb
    <3>1. m * (qa - qb) = m * qa - m * qb
      BY <1>1, <1>2, <1>3
    <3> QED
      BY <1>1, <1>2, <1>3, <1>6, <3>1
  <2>2. c \in Int /\ 0 \in 0..m - 1
    OBVIOUS
  <2> HIDE DEF k, c
  <2>3. c % m = 0
    BY <2>1, <2>2, Quotients
  <2> QED
    BY <2>3 DEF c
<1> HIDE DEF ra, rb, r
<1>7. r = 0 <=> ra = rb
  BY <1>5, <1>6
<1> QED
  BY <1>7 DEF ra, rb, r

g == <<GX, GY>>
MultipleOfG(n) == Group!Multiple(g, n)

LEMMA GIs ==
  /\ G \in Made /\ Affine(G) = g /\ g \in Group!Points
  /\ \A n \in Nat : MultipleOfG(n) \in Group!Points
  /\ MultipleOfG(0) = Infinity
<1>1. GX \in Int /\ GY \in Int /\ B \in Int
  BY ConstantsAre, FieldIsInt
<1> DEFINE l == GY * GY
           r == GX * GX * GX + B
<1>2. l \in Int /\ r \in Int
  BY <1>1
<1>3. l % P = r % P
  BY CurveConstants
<1>4. Same(l, r)
  <2> HIDE DEF l, r
  <2> QED
    BY <1>2, <1>3, RemainderSame
<1>5. g \in Group!Points
  BY <1>4, ConstantsAre, PairIs DEF g, OnCurve
<1>6. NormalOf(g) = G
  BY ConstantsAre, PairIs DEF g, G, NormalOf
<1> QED
  BY <1>5, <1>6, NormalIs, MultipleIs DEF MultipleOfG

LEMMA OrderIs ==
  /\ Order \in Nat \ {0} /\ Order >= 2 /\ Power(2, Bits) \in Nat
  /\ 1..Order - 1 \subseteq 0..Power(2, Bits) - 1
  /\ MultipleOfG(Order) = Infinity
  /\ \A d \in 1..Order - 1 : MultipleOfG(d) # Infinity
<1>1. Power(2, Bits) \in Nat
  BY CurveConstants, PowerIs
<1> QED
  BY <1>1, SchnorrConstants DEF MultipleOfG, g

LEMMA InfinityMultiplied == \A n \in Nat : Group!Multiple(Infinity, n) = Infinity
<1> SUFFICES ASSUME NEW n \in Nat PROVE Group!Multiple(Infinity, n) = Infinity
  OBVIOUS
<1> DEFINE Good == {k \in 0..n : Group!Multiple(Infinity, k) = Infinity}
<1>1. Infinity \in Group!Points
  BY DEF Group!Points
<1>2. 0 \in Good
  BY <1>1, MultipleIs
<1>3. ASSUME NEW k \in 0..n - 1, k \in Good PROVE k + 1 \in Good
  <2>1. k \in Nat /\ k + 1 \in 0..n
    OBVIOUS
  <2>2. Group!Multiple(Infinity, k + 1) = Group!Sum(Group!Multiple(Infinity, k), Infinity)
    BY <1>1, <2>1, MultipleIs
  <2> QED
    BY <1>1, <1>3, <2>1, <2>2, SumInfinity
<1>4. n \in Good
  <2> HIDE DEF Good
  <2> QED
    BY <1>2, <1>3, UpTo
<1> QED
  BY <1>4

(* Multiples of G repeat after Order of them, *)
LEMMA MultiplesRepeat ==
  ASSUME NEW n \in Nat
  PROVE  MultipleOfG(n) = MultipleOfG(n % Order)
<1> DEFINE m == Order
           q == n \div m
           r == n % m
<1>1. m \in Nat \ {0} /\ n \in Int
  BY OrderIs
<1>2. MultipleOfG(m) = Infinity
  BY OrderIs
<1> HIDE DEF m
<1>3. q \in Int /\ r \in 0..m - 1 /\ n = m * q + r
  BY <1>1, Division
<1>4. q \in Nat
  BY <1>1
<1> HIDE DEF q, r
<1>5. r \in Nat /\ m * q \in Nat
  BY <1>1, <1>3, <1>4
<1>6. MultipleOfG(m * q) = Infinity
  <2>1. Group!Multiple(MultipleOfG(m), q) = MultipleOfG(m * q)
    BY <1>1, <1>4, GIs, MultiplesMultiply DEF MultipleOfG
  <2> QED
    BY <1>2, <1>4, <2>1, InfinityMultiplied
<1>7. MultipleOfG(m * q + r) = Group!Sum(MultipleOfG(m * q), MultipleOfG(r))
  BY <1>5, GIs, MultiplesAdd DEF MultipleOfG
<1>8. MultipleOfG(n) = MultipleOfG(r)
  BY <1>3, <1>5, <1>6, <1>7, GIs, SumInfinity
<1> QED
  BY <1>8 DEF r, m

(* and not before. *)
LEMMA MultiplesDiffer ==
  ASSUME NEW i \in 0..Order - 1, NEW j \in 0..Order - 1, i < j
  PROVE  MultipleOfG(i) # MultipleOfG(j)
<1> SUFFICES ASSUME MultipleOfG(i) = MultipleOfG(j) PROVE FALSE
  OBVIOUS
<1> DEFINE k == Order - i
           d == j - i
<1>1. /\ k \in Nat /\ d \in 1..Order - 1 /\ d \in Nat /\ i \in Nat /\ j \in Nat
      /\ Order \in Nat /\ k + i = Order /\ k + j = Order + d
  BY OrderIs
<1> HIDE DEF k, d
<1>2. \A m, n \in Nat : MultipleOfG(m + n) = Group!Sum(MultipleOfG(m), MultipleOfG(n))
  BY GIs, MultiplesAdd DEF MultipleOfG
<1>3. MultipleOfG(k + j) = MultipleOfG(k + i)
  <2>1. MultipleOfG(k + j) = Group!Sum(MultipleOfG(k), MultipleOfG(j))
    BY <1>1, <1>2
  <2>2. MultipleOfG(k + i) = Group!Sum(MultipleOfG(k), MultipleOfG(i))
    BY <1>1, <1>2
  <2> QED
    BY <2>1, <2>2, Zenon
<1>4. MultipleOfG(Order + d) = MultipleOfG(d)
  BY <1>1, <1>2, GIs, OrderIs, SumInfinity
<1> QED
  BY <1>1, <1>3, <1>4, OrderIs

LEMMA MultiplesSame ==
  ASSUME NEW a \in Nat, NEW b \in Nat
  PROVE  MultipleOfG(a) = MultipleOfG(b) <=> (a - b) % Order = 0
<1> DEFINE i == a % Order
           j == b % Order
<1>1. Order \in Nat \ {0} /\ a \in Int /\ b \in Int
  BY OrderIs
<1>2. i \in 0..Order - 1 /\ j \in 0..Order - 1
  BY <1>1, Division
<1>3. MultipleOfG(a) = MultipleOfG(i) /\ MultipleOfG(b) = MultipleOfG(j)
  BY MultiplesRepeat
<1>4. (a - b) % Order = 0 <=> i = j
  BY <1>1, RemaindersSame
<1> HIDE DEF i, j
<1>5. i < j \/ j < i \/ i = j
  BY <1>1, <1>2
<1>6. MultipleOfG(i) = MultipleOfG(j) <=> i = j
  BY <1>2, <1>5, MultiplesDiffer
<1> QED
  BY <1>3, <1>4, <1>6

LEMMA MultipleZero ==
  ASSUME NEW n \in Nat
  PROVE  MultipleOfG(n) = Infinity <=> n % Order = 0
<1>1. n - 0 = n
  OBVIOUS
<1>2. MultipleOfG(n) = MultipleOfG(0) <=> (n - 0) % Order = 0
  BY MultiplesSame
<1> QED
  BY <1>1, <1>2, GIs

-----------------------------------------------------------------------------
(* The signature check *)

LEMMA NumbersAre ==
  ASSUME NEW n \in Hashes \cup Signatures
  PROVE  n \in 0..Power(2, Bits) - 1 /\ n \in Nat
<1>1. n \in 0..Power(2, Bits) - 1
  BY SchnorrConstants
<1> QED
  BY <1>1, OrderIs

LEMMA PublicPointIs ==
  ASSUME NEW d \in 1..Order - 1
  PROVE  /\ d \in Nat /\ PublicPoint[d] \in Made
         /\ PublicPoint[d] = NormalOf(MultipleOfG(d))
         /\ Affine(PublicPoint[d]) = MultipleOfG(d)
<1>1. d \in 0..Power(2, Bits) - 1 /\ d \in Nat
  BY OrderIs
<1>2. Multiply(G, d) \in Made /\ Affine(Multiply(G, d)) = MultipleOfG(d)
  BY <1>1, GIs, MultiplyIs DEF MultipleOfG
<1>3. PublicPoint[d] = NormalOf(MultipleOfG(d))
  BY <1>2, NormalizeIs DEF PublicPoint, PrivateExponentToPublicPoint
<1> QED
  BY <1>1, <1>3, GIs, NormalIs

(* IsOnCurve, of coordinates that are in the field. *)
LEMMA IsOnCurveIs ==
  ASSUME NEW X \in Field, NEW Y \in Field
  PROVE  IsOnCurve(FromXY(X, Y)) <=> OnCurve(X, Y)
<1> DEFINE l == Y * Y
           r == X * X * X + B
           p == FromXY(X, Y)
<1>1. p.x = X /\ p.y = Y /\ p.z = 1
  BY DEF FromXY
<1>2. l \in Int /\ r \in Int
  BY FieldIsInt, ConstantsAre
<1>3. IsOnCurve(p) <=> l % P = r % P
  BY <1>1 DEF IsOnCurve, IsZero
<1>4. OnCurve(X, Y) <=> Same(l, r)
  BY DEF OnCurve
<1> HIDE DEF l, r, p
<1>5. l % P = r % P <=> Same(l, r)
  BY <1>2, SameRemainder, RemainderSame
<1> QED
  BY <1>3, <1>4, <1>5 DEF p

LEMMA NormalOnCurve ==
  ASSUME NEW a \in Group!Points
  PROVE  IsOnCurve(NormalOf(a)) <=> a # Infinity
<1>1. CASE a = Infinity
  BY <1>1, ZeroMade DEF NormalOf, IsOnCurve
<1>2. CASE a # Infinity
  <2>1. PICK X, Y \in Field : a = <<X, Y>>
    BY <1>2 DEF Group!Points, Field
  <2>2. OnCurve(X, Y) /\ NormalOf(a) = FromXY(X, Y)
    BY <1>2, <2>1, PairIs DEF NormalOf
  <2> QED
    BY <1>2, <2>2, IsOnCurveIs
<1> QED
  BY <1>1, <1>2

LEMMA NormalsDiffer ==
  ASSUME NEW a \in Group!Points, NEW b \in Group!Points
  PROVE  NormalOf(a) = NormalOf(b) <=> a = b
BY NormalIs

(* The equation that verify checks, between multiples of G. *)
LEMMA ValidOfPublic ==
  ASSUME NEW d \in 1..Order - 1, NEW k \in 1..Order - 1, NEW m \in Hashes, NEW s \in Signatures
  PROVE  Valid(PublicPoint[k], PublicPoint[d], m, s)
           <=> (s - (k + m * d)) % Order = 0 /\ s % Order # 0
<1> DEFINE r == PublicPoint[k]
           pk == PublicPoint[d]
           product == Normalize(Multiply(pk, m))
           left == Normalize(Multiply(G, s))
           right == Normalize(Add(product, r))
           n == k + m * d
<1>1. /\ d \in Nat /\ pk \in Made /\ pk = NormalOf(MultipleOfG(d))
      /\ Affine(pk) = MultipleOfG(d)
  BY PublicPointIs
<1>2. k \in Nat /\ r \in Made /\ r = NormalOf(MultipleOfG(k)) /\ Affine(r) = MultipleOfG(k)
  BY PublicPointIs
<1>3. Valid(r, pk, m, s) <=> /\ IsOnCurve(r) /\ IsOnCurve(pk)
                             /\ IsOnCurve(left) /\ IsOnCurve(right) /\ left = right
  BY DEF Valid
<1> HIDE DEF r, pk
<1>4. /\ m \in 0..Power(2, Bits) - 1 /\ m \in Nat
      /\ s \in 0..Power(2, Bits) - 1 /\ s \in Nat
  BY NumbersAre
<1>5. d * m \in Nat /\ n \in Nat /\ n = d * m + k
  BY <1>1, <1>2, <1>4
<1> HIDE DEF n
<1>6. IsOnCurve(r) /\ IsOnCurve(pk)
  BY <1>1, <1>2, GIs, OrderIs, NormalOnCurve
<1>7. left = NormalOf(MultipleOfG(s))
  <2>1. Multiply(G, s) \in Made /\ Affine(Multiply(G, s)) = MultipleOfG(s)
    BY <1>4, GIs, MultiplyIs DEF MultipleOfG
  <2> QED
    BY <2>1, NormalizeIs
<1>8. product \in Made /\ Affine(product) = MultipleOfG(d * m)
  <2>1. Multiply(pk, m) \in Made /\ Affine(Multiply(pk, m)) = Group!Multiple(MultipleOfG(d), m)
    BY <1>1, <1>4, MultiplyIs
  <2>2. Group!Multiple(MultipleOfG(d), m) = MultipleOfG(d * m)
    BY <1>1, <1>4, GIs, MultiplesMultiply DEF MultipleOfG
  <2>3. product = NormalOf(MultipleOfG(d * m))
    BY <2>1, <2>2, NormalizeIs
  <2> QED
    BY <1>5, <2>3, GIs, NormalIs
<1>9. right = NormalOf(MultipleOfG(n))
  <2> HIDE DEF product
  <2>1. Add(product, r) \in Made
    BY <1>2, <1>8, AddIs
  <2>2. Affine(Add(product, r)) = Group!Sum(MultipleOfG(d * m), MultipleOfG(k))
    BY <1>2, <1>8, AddIs
  <2>3. MultipleOfG(d * m + k) = Group!Sum(MultipleOfG(d * m), MultipleOfG(k))
    BY <1>2, <1>5, GIs, MultiplesAdd DEF MultipleOfG
  <2> QED
    BY <1>5, <2>1, <2>2, <2>3, NormalizeIs
<1> HIDE DEF left, right
<1>10. left = right <=> MultipleOfG(s) = MultipleOfG(n)
  BY <1>4, <1>5, <1>7, <1>9, GIs, NormalsDiffer
<1>11. IsOnCurve(left) <=> s % Order # 0
  BY <1>4, <1>7, GIs, NormalOnCurve, MultipleZero
<1>12. MultipleOfG(s) = MultipleOfG(n) <=> (s - n) % Order = 0
  BY <1>4, <1>5, MultiplesSame
<1>13. Valid(r, pk, m, s) <=> (s - n) % Order = 0 /\ s % Order # 0
  BY <1>3, <1>6, <1>10, <1>11, <1>12
<1> QED
  BY <1>13 DEF r, pk, n

(* The other two pairs of coordinates are no points of the curve. *)
LEMMA OffCurve ==
  ASSUME NEW p \in {FromXY(0, 0), FromXY(GX, (GY + 1) % P)}
  PROVE  ~IsOnCurve(p)
<1>1. CASE p = FromXY(0, 0)
  <2>1. 0 * 0 = 0 /\ 0 * 0 * 0 + B = B /\ B \in Field /\ 0 \in Field /\ B # 0
    BY CurveConstants, ConstantsAre, FieldIsInt, ZeroIs
  <2>2. ~OnCurve(0, 0)
    BY <2>1, SameInField DEF OnCurve
  <2> QED
    BY <1>1, <2>1, <2>2, IsOnCurveIs
<1>2. CASE p = FromXY(GX, (GY + 1) % P)
  <2> DEFINE y == (GY + 1) % P
             c == GX * GX * GX + B
  <2>1. GX \in Field /\ GX \in Int /\ GY \in Field /\ GY \in Int /\ GY + 1 \in Int /\ B \in Int
    BY ConstantsAre, FieldIsInt
  <2>2. y \in Field /\ Same(y, GY + 1)
    BY <2>1, RemainderIs
  <2> HIDE DEF y
  <2>3. SUFFICES ASSUME Same(y * y, c) PROVE FALSE
    <3>1. OnCurve(GX, y) <=> Same(y * y, c)
      BY DEF OnCurve
    <3> QED
      BY <1>2, <2>1, <2>2, <2>3, <3>1, IsOnCurveIs DEF y
  <2>4. Same(GY * GY, c)
    BY GIs, <2>1, PairIs DEF g, OnCurve
  <2>5. Same((GY + 1) * (GY + 1), y * y)
    BY <2>2, SameTimes, SameSymmetric
  <2>6. Same((GY + 1) * (GY + 1), GY * GY)
    BY <2>3, <2>4, <2>5, SameTransitive, SameSymmetric
  <2>7. PICK k \in Int : (GY + 1) * (GY + 1) = GY * GY + P * k
    BY <2>6 DEF Same
  <2>8. 2 * GY + 1 = P * k
    <3>1. (GY + 1) * (GY + 1) = GY * GY + (2 * GY + 1)
      BY <2>1
    <3> QED
      BY <2>1, <2>7, <3>1, PIs
  <2>9. 2 * GY + 1 >= 1 /\ 2 * GY + 1 < 2 * P
    BY <2>1, PIs DEF Field
  <2>10. ~(k <= 0)
    <3> SUFFICES ASSUME k <= 0 PROVE FALSE
      OBVIOUS
    <3>1. P * k <= P * 0
      BY PIs, ProductsOrdered
    <3> QED
      BY <2>8, <2>9, <3>1, PIs
  <2>11. ~(k >= 2)
    <3> SUFFICES ASSUME k >= 2 PROVE FALSE
      OBVIOUS
    <3>1. P * 2 <= P * k
      BY PIs, ProductsOrdered
    <3> QED
      BY <2>8, <2>9, <3>1, PIs
  <2>12. k = 1
    BY <2>10, <2>11
  <2>13. P * k = P
    BY <2>12, PIs
  <2> QED
    BY <2>8, <2>13, SchnorrConstants
<1> QED
  BY <1>1, <1>2

LEMMA ValidIsSigned ==
  ASSUME NEW r \in Points, NEW pk \in Points, NEW m \in Hashes, NEW s \in Signatures
  PROVE  Valid(r, pk, m, s) <=> Signed(r, pk, m, s)
<1>1. ASSUME Signed(r, pk, m, s) PROVE Valid(r, pk, m, s)
  <2>1. PICK d, k \in 1..Order - 1 : /\ pk = PublicPoint[d]
                                     /\ r = PublicPoint[k]
                                     /\ (s - (k + m * d)) % Order = 0
                                     /\ s % Order # 0
    BY <1>1 DEF Signed
  <2> QED
    BY <2>1, ValidOfPublic
<1>2. ASSUME Valid(r, pk, m, s) PROVE Signed(r, pk, m, s)
  <2>1. IsOnCurve(r) /\ IsOnCurve(pk)
    BY <1>2 DEF Valid
  <2>2. \E k \in 1..Order - 1 : r = PublicPoint[k]
    BY <2>1, OffCurve DEF Points
  <2>3. \E d \in 1..Order - 1 : pk = PublicPoint[d]
    BY <2>1, OffCurve DEF Points
  <2>4. PICK k \in 1..Order - 1 : r = PublicPoint[k]
    BY <2>2
  <2>5. PICK d \in 1..Order - 1 : pk = PublicPoint[d]
    BY <2>3
  <2>6. (s - (k + m * d)) % Order = 0 /\ s % Order # 0
    BY <1>2, <2>4, <2>5, ValidOfPublic
  <2> QED
    BY <2>4, <2>5, <2>6 DEF Signed
<1> QED
  BY <1>1, <1>2

Outcome(r, pk, m, s) ==
  [randomPoint |-> r, groupKey |-> pk, m |-> m, signature |-> s,
   outcome |-> IF Valid(r, pk, m, s) THEN "accepted" ELSE "rejected"]

CallInv ==
  call # NoCall => \E r, pk \in Points, m \in Hashes, s \in Signatures : call = Outcome(r, pk, m, s)

LEMMA CallInvStep == CallInv /\ [Next]_vars => CallInv'
<1> SUFFICES ASSUME CallInv, [Next]_vars PROVE CallInv'
  OBVIOUS
<1>1. CASE call' = call
  BY <1>1 DEF CallInv
<1>2. ASSUME NEW r \in Points, NEW pk \in Points, NEW m \in Hashes, NEW s \in Signatures,
             Verify(r, pk, m, s)
      PROVE  CallInv'
  <2>1. call' = Outcome(r, pk, m, s)
    BY <1>2 DEF Verify, Outcome
  <2> QED
    BY <2>1 DEF CallInv
<1>3. CASE Forget
  BY <1>3 DEF Forget, CallInv
<1> QED
  BY <1>1, <1>2, <1>3 DEF Next, vars

(* verify accepts a signature exactly when it is the one its signer makes, *)
(* modulo the order of G, and not zero: whatever the hash and the          *)
(* signature are, below Order or not.                                      *)
THEOREM AcceptsTheSigned == Spec => []AcceptsExactlyTheSigned
<1>1. Init => CallInv
  BY DEF Init, CallInv
<1>2. CallInv => AcceptsExactlyTheSigned
  <2> SUFFICES ASSUME CallInv, call # NoCall PROVE AcceptsExactlyTheSigned
    BY DEF AcceptsExactlyTheSigned
  <2>1. PICK r, pk \in Points, m \in Hashes, s \in Signatures : call = Outcome(r, pk, m, s)
    BY DEF CallInv
  <2>2. /\ call.randomPoint = r /\ call.groupKey = pk /\ call.m = m /\ call.signature = s
        /\ call.outcome = IF Valid(r, pk, m, s) THEN "accepted" ELSE "rejected"
    BY <2>1 DEF Outcome
  <2>3. call.outcome = "accepted" <=> Valid(r, pk, m, s)
    BY <2>2
  <2> QED
    BY <2>2, <2>3, ValidIsSigned DEF AcceptsExactlyTheSigned
<1> QED
  BY <1>1, <1>2, CallInvStep, PTL DEF Spec
=============================================================================
