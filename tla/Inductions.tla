------------------------------- MODULE Inductions -------------------------------
(***************************************************************************)
(* Facts of arithmetic and about recursions that the proofs about the      *)
(* models have in common.                                                  *)
(*                                                                         *)
(* An induction is by the smallest counterexample, because a fact about    *)
(* every operator cannot be used in a proof: over the numbers it is a set  *)
(* of indices that holds 0 and, with an index, the next one; over finite   *)
(* sets a set of subsets has a minimal member.                             *)
(*                                                                         *)
(* The models sum over finite sets of rows with MapThenSumSet.  It takes   *)
(* an operator too; so the facts here are about SumOf, which takes a       *)
(* function, and each sum of a model is shown to be a SumOf: its value     *)
(* does not depend on the order in which rows are taken, and changes with  *)
(* one row by what that row holds.                                         *)
(***************************************************************************)
EXTENDS Integers, FiniteSets, FiniteSetsExt, FiniteSetTheorems, WellFoundedInduction, Powers,
        TLAPS

-----------------------------------------------------------------------------
(* Induction and recursion up to a number *)

LEMMA SmallestIndex ==
  ASSUME NEW S \in SUBSET Nat, S # {}
  PROVE  \E n \in S : \A k \in S : n <= k
<1> DEFINE R == OpToRel(<, Nat)
<1>1. IsWellFoundedOn(R, Nat)
  BY NatLessThanWellFounded
<1>2. \A k, n \in Nat : <<k, n>> \in R <=> k < n
  BY DEF OpToRel
<1> HIDE DEF R
<1>3. PICK n \in S : \A k \in S : <<k, n>> \notin R
  BY <1>1, WFMin
<1>4. \A k \in S : ~(k < n)
  BY <1>2, <1>3
<1> QED
  BY <1>4

LEMMA UpTo ==
  ASSUME NEW n \in Nat, NEW S, 0 \in S, \A k \in 0..n - 1 : k \in S => k + 1 \in S
  PROVE  \A k \in 0..n : k \in S
<1> DEFINE Bad == {k \in 0..n : k \notin S}
<1>1. SUFFICES ASSUME Bad # {} PROVE FALSE
  OBVIOUS
<1>2. PICK b \in Bad : \A k \in Bad : b <= k
  <2>1. Bad \in SUBSET Nat
    OBVIOUS
  <2> HIDE DEF Bad
  <2> QED
    BY <1>1, <2>1, SmallestIndex
<1>3. b \in 1..n /\ b - 1 \in 0..n - 1
  BY <1>2
<1>4. b - 1 \in S
  BY <1>2, <1>3
<1>5. b \in S
  BY <1>3, <1>4
<1> QED
  BY <1>2, <1>5

(* A recursion has a solution in the set its steps stay in, *)
Solves(f, n, z, step) == f[0] = z /\ \A i \in 1..n : f[i] = step[i][f[i - 1]]

LEMMA RecursionHasSolution ==
  ASSUME NEW n \in Nat, NEW S, NEW z \in S, NEW step \in [1..n -> [S -> S]]
  PROVE  \E f \in [0..n -> S] : Solves(f, n, z, step)
<1> DEFINE Good == {k \in 0..n : \E f \in [0..k -> S] : Solves(f, k, z, step)}
<1>1. 0 \in Good
  <2>1. [i \in 0..0 |-> z] \in [0..0 -> S] /\ Solves([i \in 0..0 |-> z], 0, z, step)
    BY DEF Solves
  <2> QED
    BY <2>1
<1>2. ASSUME NEW k \in 0..n - 1, k \in Good PROVE k + 1 \in Good
  <2>1. PICK f \in [0..k -> S] : Solves(f, k, z, step)
    BY <1>2
  <2> DEFINE g == [i \in 0..k + 1 |-> IF i = k + 1 THEN step[k + 1][f[k]] ELSE f[i]]
  <2>2. g \in [0..k + 1 -> S]
    BY <1>2
  <2>3. g[0] = z
    BY <1>2, <2>1 DEF Solves
  <2>4. ASSUME NEW i \in 1..k + 1 PROVE g[i] = step[i][g[i - 1]]
    BY <1>2, <2>1, <2>4 DEF Solves
  <2>5. Solves(g, k + 1, z, step)
    BY <2>3, <2>4 DEF Solves
  <2> QED
    BY <1>2, <2>2, <2>5
<1>3. \A k \in 0..n : k \in Good
  <2> HIDE DEF Good
  <2> QED
    BY <1>1, <1>2, UpTo
<1> QED
  BY <1>3

(* and only one. *)
LEMMA SolutionsAgree ==
  ASSUME NEW n \in Nat, NEW z, NEW step, NEW f, NEW g,
         Solves(f, n, z, step), Solves(g, n, z, step)
  PROVE  \A k \in 0..n : f[k] = g[k]
<1> DEFINE Good == {k \in 0..n : f[k] = g[k]}
<1>1. 0 \in Good
  BY DEF Solves
<1>2. ASSUME NEW k \in 0..n - 1, k \in Good PROVE k + 1 \in Good
  BY <1>2 DEF Solves
<1>3. \A k \in 0..n : k \in Good
  <2> HIDE DEF Good
  <2> QED
    BY <1>1, <1>2, UpTo
<1> QED
  BY <1>3

-----------------------------------------------------------------------------
(* Division *)

LEMMA Division ==
  ASSUME NEW a \in Int, NEW b \in Nat \ {0}
  PROVE  /\ a \div b \in Int /\ a % b \in 0..b - 1
         /\ a = b * (a \div b) + (a % b)
OBVIOUS

LEMMA Quotients ==
  ASSUME NEW a \in Int, NEW b \in Nat \ {0}, NEW q \in Int, NEW r \in 0..b - 1, a = b * q + r
  PROVE  a \div b = q /\ a % b = r
OBVIOUS

LEMMA Distribute ==
  ASSUME NEW a \in Int, NEW b \in Int, NEW c \in Int
  PROVE  /\ a * b \in Int /\ a * b = b * a
         /\ a * (b + c) = a * b + a * c /\ a * (b - c) = a * b - a * c
         /\ a * (b * c) = (a * b) * c
OBVIOUS

LEMMA ProductsOrdered ==
  ASSUME NEW a \in Nat, NEW b \in Int, NEW c \in Int, b <= c
  PROVE  a * b <= a * c /\ b * a <= c * a
OBVIOUS

(* The borrow or carry of a number a little outside the range is one bit. *)
LEMMA OneBit ==
  ASSUME NEW m \in Nat \ {0}, NEW v \in Int
  PROVE  /\ v \in 0..m - 1 => v \div m = 0 /\ v % m = v
         /\ v \in m..(2 * m) - 1 => v \div m = 1 /\ v % m = v - m
         /\ v \in -m..-1 => v \div m = -1 /\ v % m = v + m
<1>1. ASSUME v \in 0..m - 1 PROVE v \div m = 0 /\ v % m = v
  <2>1. v = (m * 0) + v
    OBVIOUS
  <2> QED
    BY <1>1, <2>1, Quotients
<1>2. ASSUME v \in m..(2 * m) - 1 PROVE v \div m = 1 /\ v % m = v - m
  <2>1. v = (m * 1) + (v - m) /\ v - m \in 0..m - 1
    BY <1>2
  <2> QED
    BY <2>1, Quotients
<1>3. ASSUME v \in -m..-1 PROVE v \div m = -1 /\ v % m = v + m
  <2>1. v = (m * (-1)) + (v + m) /\ v + m \in 0..m - 1
    BY <1>3
  <2>2. -1 \in Int
    OBVIOUS
  <2> QED
    BY <2>1, <2>2, Quotients
<1> QED
  BY <1>1, <1>2, <1>3

LEMMA Halves ==
  ASSUME NEW v \in Int
  PROVE  v \div 2 \in Int /\ v % 2 \in {0, 1} /\ v = (2 * (v \div 2)) + (v % 2)
OBVIOUS

LEMMA DivTwice ==
  ASSUME NEW v \in Int, NEW b \in Nat \ {0}, NEW m \in Nat \ {0}
  PROVE  /\ v \div (b * m) = (v \div m) \div b
         /\ v % (b * m) = (((v \div m) % b) * m) + (v % m)
<1> DEFINE q == v \div m
           r == v % m
           p == q \div b
           d == q % b
           k == b * m
           s == (d * m) + r
<1>1. q \in Int /\ r \in 0..m - 1 /\ v = (m * q) + r
  BY Division
<1>2. p \in Int /\ d \in 0..b - 1 /\ q = (b * p) + d
  <2> HIDE DEF q
  <2> QED
    BY <1>1, Division
<1> HIDE DEF q, r, p, d
<1>3. k \in Nat \ {0} /\ v = (k * p) + s
  <2>1. m * ((b * p) + d) = (k * p) + (d * m)
    BY <1>1, <1>2
  <2>2. k * p \in Int /\ d * m \in Int
    BY <1>1, <1>2
  <2>3. k \in Nat \ {0}
    OBVIOUS
  <2> QED
    BY <1>1, <1>2, <2>1, <2>2, <2>3
<1>4. s \in 0..k - 1
  <2>1. m * d <= m * (b - 1) /\ m * (b - 1) = (m * b) - m /\ m * d \in Nat
    BY <1>2, ProductsOrdered
  <2>2. m * d = d * m /\ m * b = k /\ k \in Int
    BY <1>2
  <2> QED
    BY <1>1, <2>1, <2>2
<1> HIDE DEF k, s
<1>5. v \div k = p /\ v % k = s
  BY <1>2, <1>3, <1>4, Quotients
<1> QED
  BY <1>5 DEF k, s, p, d, q, r

-----------------------------------------------------------------------------
(* Powers *)

LEMMA PowerIs ==
  ASSUME NEW b \in Nat
  PROVE  /\ Power(b, 0) = 1
         /\ \A n \in Nat : Power(b, n) \in Nat /\ Power(b, n + 1) = b * Power(b, n)
<1> DEFINE step(n) == [i \in 1..n |-> [v \in Nat |-> b * v]]
           eq(n, p) == p = [k \in 0..n |-> IF k = 0 THEN 1 ELSE b * p[k - 1]]
           sol(n) == CHOOSE p : eq(n, p)
<1>0. \A n \in Nat : /\ step(n) \in [1..n -> [Nat -> Nat]]
                     /\ \A i \in 1..n, v \in Nat : step(n)[i][v] = b * v
  OBVIOUS
<1> HIDE DEF step
<1>1. ASSUME NEW n \in Nat
      PROVE  /\ sol(n) \in [0..n -> Nat] /\ Solves(sol(n), n, 1, step(n))
             /\ Power(b, n) = sol(n)[n]
  <2>1. PICK f \in [0..n -> Nat] : Solves(f, n, 1, step(n))
    BY <1>0, RecursionHasSolution
  <2>2. \A k \in 0..n : f[k] = IF k = 0 THEN 1 ELSE b * f[k - 1]
    <3> SUFFICES ASSUME NEW k \in 0..n PROVE f[k] = IF k = 0 THEN 1 ELSE b * f[k - 1]
      OBVIOUS
    <3>1. CASE k = 0
      BY <2>1, <3>1 DEF Solves
    <3>2. CASE k # 0
      <4>1. k \in 1..n /\ k - 1 \in 0..n
        BY <3>2
      <4>2. f[k] = step(n)[k][f[k - 1]] /\ f[k - 1] \in Nat
        BY <2>1, <4>1 DEF Solves
      <4> QED
        BY <1>0, <3>2, <4>1, <4>2
    <3> QED
      BY <3>1, <3>2
  <2>3. eq(n, f)
    BY <2>2
  <2>4. eq(n, sol(n))
    <3> HIDE DEF eq
    <3> QED
      BY <2>3
  <2> DEFINE g == sol(n)
  <2>5. g = [k \in 0..n |-> IF k = 0 THEN 1 ELSE b * g[k - 1]]
    BY <2>4
  <2>6. Power(b, n) = g[n]
    BY DEF Power
  <2> HIDE DEF g
  <2>7. g[0] = 1 /\ \A k \in 1..n : g[k] = b * g[k - 1]
    BY <2>5
  <2>8. \A k \in 0..n : g[k] \in Nat
    <3> DEFINE Good == {k \in 0..n : g[k] \in Nat}
    <3>1. 0 \in Good
      BY <2>7
    <3>2. ASSUME NEW k \in 0..n - 1, k \in Good PROVE k + 1 \in Good
      BY <2>7, <3>2
    <3>3. \A k \in 0..n : k \in Good
      <4> HIDE DEF Good
      <4> QED
        BY <3>1, <3>2, UpTo
    <3> QED
      BY <3>3
  <2>9. g \in [0..n -> Nat]
    BY <2>5, <2>8
  <2>10. Solves(g, n, 1, step(n))
    <3>1. ASSUME NEW i \in 1..n PROVE g[i] = step(n)[i][g[i - 1]]
      <4>1. i - 1 \in 0..n
        OBVIOUS
      <4>2. g[i - 1] \in Nat /\ g[i] = b * g[i - 1]
        BY <2>7, <2>8, <4>1
      <4> QED
        BY <1>0, <4>2
    <3> QED
      BY <2>7, <3>1 DEF Solves
  <2> QED
    BY <2>6, <2>9, <2>10 DEF g
<1> HIDE DEF sol
<1>2. Power(b, 0) = 1
  BY <1>1 DEF Solves
<1>3. ASSUME NEW n \in Nat PROVE Power(b, n + 1) = b * Power(b, n)
  <2>1. n + 1 \in Nat /\ n + 1 \in 1..n + 1 /\ n \in 0..n + 1 /\ (n + 1) - 1 = n
    OBVIOUS
  <2>2. Solves(sol(n + 1), n, 1, step(n))
    <3>1. \A i \in 1..n : step(n)[i] = step(n + 1)[i]
      BY <2>1 DEF step
    <3>2. Solves(sol(n + 1), n + 1, 1, step(n + 1))
      BY <1>1, <2>1
    <3> QED
      BY <3>1, <3>2 DEF Solves
  <2>3. sol(n + 1)[n] = sol(n)[n]
    BY <1>1, <2>2, SolutionsAgree
  <2>4. sol(n + 1)[n + 1] = b * sol(n + 1)[n]
    <3>1. sol(n + 1)[n + 1] = step(n + 1)[n + 1][sol(n + 1)[n]]
      BY <1>1, <2>1 DEF Solves
    <3>2. sol(n + 1)[n] \in Nat
      BY <1>1, <2>1
    <3> QED
      BY <1>0, <2>1, <3>1, <3>2
  <2> QED
    BY <1>1, <2>1, <2>3, <2>4
<1>4. \A n \in Nat : Power(b, n) \in Nat
  <2> SUFFICES ASSUME NEW n \in Nat PROVE Power(b, n) \in Nat
    OBVIOUS
  <2>1. sol(n) \in [0..n -> Nat] /\ Power(b, n) = sol(n)[n]
    BY <1>1
  <2> QED
    BY <2>1
<1> QED
  BY <1>2, <1>3, <1>4

LEMMA PowersAdd ==
  ASSUME NEW b \in Nat, NEW m \in Nat, NEW n \in Nat
  PROVE  Power(b, m + n) = Power(b, m) * Power(b, n)
<1> DEFINE Good == {k \in 0..n : Power(b, m + k) = Power(b, m) * Power(b, k)}
<1>0. \A k \in Nat : Power(b, k) \in Nat
  BY PowerIs
<1>1. 0 \in Good
  <2>1. Power(b, 0) = 1 /\ m + 0 = m /\ Power(b, m) \in Nat
    BY PowerIs
  <2> QED
    BY <2>1
<1>2. ASSUME NEW k \in 0..n - 1, k \in Good PROVE k + 1 \in Good
  <2> DEFINE p == Power(b, m)
             q == Power(b, k)
  <2>1. k \in Nat /\ m + k \in Nat /\ k + 1 \in 0..n /\ m + (k + 1) = (m + k) + 1
    OBVIOUS
  <2>2. Power(b, (m + k) + 1) = b * Power(b, m + k) /\ Power(b, k + 1) = b * q
    BY <2>1, PowerIs
  <2>3. p \in Nat /\ q \in Nat /\ Power(b, m + k) = p * q
    BY <1>0, <1>2, <2>1
  <2> HIDE DEF p, q
  <2>4. b * (p * q) = p * (b * q)
    BY <2>3
  <2> QED
    BY <2>1, <2>2, <2>3, <2>4 DEF p
<1>3. n \in Good
  <2> HIDE DEF Good
  <2> QED
    BY <1>1, <1>2, UpTo
<1> QED
  BY <1>3

LEMMA PowersMultiply ==
  ASSUME NEW b \in Nat, NEW m \in Nat, NEW n \in Nat
  PROVE  Power(Power(b, m), n) = Power(b, n * m)
<1> DEFINE p == Power(b, m)
           Good == {k \in 0..n : Power(p, k) = Power(b, k * m)}
<1>1. p \in Nat
  BY PowerIs
<1>2. 0 \in Good
  <2>1. Power(p, 0) = 1 /\ Power(b, 0) = 1 /\ 0 * m = 0
    BY <1>1, PowerIs
  <2> QED
    BY <2>1
<1>3. ASSUME NEW k \in 0..n - 1, k \in Good PROVE k + 1 \in Good
  <2>1. k \in Nat /\ k * m \in Nat /\ k + 1 \in 0..n /\ (k + 1) * m = m + (k * m)
    OBVIOUS
  <2>2. Power(p, k + 1) = p * Power(p, k)
    BY <1>1, <2>1, PowerIs
  <2>3. Power(b, m + (k * m)) = p * Power(b, k * m)
    BY <2>1, PowersAdd
  <2>4. Power(p, k) = Power(b, k * m)
    BY <1>3
  <2> HIDE DEF p
  <2> QED
    BY <2>1, <2>2, <2>3, <2>4
<1>4. n \in Good
  <2> HIDE DEF Good
  <2> QED
    BY <1>2, <1>3, UpTo
<1> QED
  BY <1>4

LEMMA PowerPositive ==
  ASSUME NEW b \in Nat \ {0}, NEW n \in Nat
  PROVE  Power(b, n) \in Nat \ {0}
<1> DEFINE Good == {k \in 0..n : Power(b, k) \in Nat \ {0}}
<1>1. 0 \in Good
  BY PowerIs
<1>2. ASSUME NEW k \in 0..n - 1, k \in Good PROVE k + 1 \in Good
  <2> DEFINE p == Power(b, k)
  <2>1. k \in Nat /\ k + 1 \in 0..n /\ Power(b, k + 1) = b * p /\ p \in Nat \ {0}
    BY <1>2, PowerIs
  <2> HIDE DEF p
  <2>2. b * p \in Nat \ {0}
    BY <2>1
  <2> QED
    BY <2>1, <2>2
<1>3. n \in Good
  <2> HIDE DEF Good
  <2> QED
    BY <1>1, <1>2, UpTo
<1> QED
  BY <1>3

-----------------------------------------------------------------------------
(* Sums over finite sets *)

AnyOf(s) == CHOOSE x \in s : TRUE

(* The recursion by which MapThenSumSet is defined. *)
Recursion(f, S, iter) ==
  iter = [s \in SUBSET S |-> IF s = {} THEN 0 ELSE f[AnyOf(s)] + iter[s \ {AnyOf(s)}]]

Solution(f, S) == CHOOSE iter : Recursion(f, S, iter)

SumOf(f, S) == Solution(f, S)[S]

Summable(f, S) == IsFiniteSet(S) /\ \A x \in S : f[x] \in Int

Counts(f, S) == IsFiniteSet(S) /\ \A x \in S : f[x] \in Nat

-----------------------------------------------------------------------------
(* A set of subsets of a finite set has a minimal member. *)
LEMMA MinimalSubset ==
  ASSUME NEW S, IsFiniteSet(S), NEW Bad \in SUBSET (SUBSET S), Bad # {}
  PROVE  \E T \in Bad : \A U \in SUBSET T : U \in Bad => U = T
<1>1. IsWellFoundedOn(StrictSubsetOrdering(S), FiniteSubsetsOf(S))
  BY FS_StrictSubsetOrderingWellFounded
<1>2. Bad \subseteq FiniteSubsetsOf(S)
  BY FS_FiniteSubsetsOfFinite
<1>3. PICK T \in Bad : \A U \in Bad : <<U, T>> \notin StrictSubsetOrdering(S)
  BY <1>1, <1>2, WFMin
<1>4. \A U \in Bad : U \subseteq T => U = T
  BY <1>3 DEF StrictSubsetOrdering
<1> QED
  BY <1>4

(* Two recursions agree on the sets on which their functions do. *)
LEMMA SameRecursion ==
  ASSUME NEW S, NEW T, NEW f, NEW g, NEW it, NEW jt,
         Recursion(f, S, it), Recursion(g, T, jt)
  PROVE  \A R \in SUBSET S :
           R \in SUBSET T /\ IsFiniteSet(R) /\ (\A x \in R : f[x] = g[x])
             => it[R] = jt[R]
<1> SUFFICES ASSUME NEW R \in SUBSET S, R \in SUBSET T, IsFiniteSet(R),
                    \A x \in R : f[x] = g[x]
             PROVE  it[R] = jt[R]
  OBVIOUS
<1> DEFINE Bad == {s \in SUBSET R : it[s] # jt[s]}
<1>1. SUFFICES ASSUME Bad # {} PROVE FALSE
  OBVIOUS
<1>2. PICK B \in Bad : \A U \in SUBSET B : U \in Bad => U = B
  <2>1. Bad \in SUBSET (SUBSET R)
    OBVIOUS
  <2> HIDE DEF Bad
  <2> QED
    BY <1>1, <2>1, MinimalSubset
<1>3. B \in SUBSET S /\ B \in SUBSET T
  OBVIOUS
<1>4. CASE B = {}
  BY <1>3, <1>4 DEF Recursion
<1>5. CASE B # {}
  <2> DEFINE c == AnyOf(B)
  <2>1. c \in B
    BY <1>5 DEF AnyOf
  <2>2. /\ it[B] = f[c] + it[B \ {c}]
        /\ jt[B] = g[c] + jt[B \ {c}]
    BY <1>3, <1>5 DEF Recursion
  <2>3. B \ {c} \notin Bad
    BY <1>2, <2>1
  <2> QED
    BY <2>1, <2>2, <2>3
<1> QED
  BY <1>4, <1>5

(* The recursion has a solution on every finite set. *)
LEMMA RecursionExists ==
  ASSUME NEW S, IsFiniteSet(S), NEW f
  PROVE  \E it : Recursion(f, S, it)
<1> DEFINE Bad == {s \in SUBSET S : ~ \E it : Recursion(f, s, it)}
<1>1. SUFFICES ASSUME Bad # {} PROVE FALSE
  OBVIOUS
<1>2. PICK B \in Bad : \A U \in SUBSET B : U \in Bad => U = B
  <2>1. Bad \in SUBSET (SUBSET S)
    OBVIOUS
  <2> HIDE DEF Bad
  <2> QED
    BY <1>1, <2>1, MinimalSubset
<1> DEFINE V(s) == SumOf(f, s)
           W(s) == IF s = {} THEN 0 ELSE f[AnyOf(s)] + V(s \ {AnyOf(s)})
           iter == [s \in SUBSET B |-> W(s)]
<1>3. B \in SUBSET S /\ \A s \in SUBSET B : IsFiniteSet(s)
  BY FS_Subset
<1>4. ASSUME NEW s \in SUBSET B, s # B
      PROVE  Recursion(f, s, Solution(f, s))
  <2>1. \E it : Recursion(f, s, it)
    BY <1>2, <1>3, <1>4
  <2> QED
    BY <2>1, Zenon DEF Solution
<1>5. ASSUME NEW s \in SUBSET B, s # B
      PROVE  W(s) = V(s)
  <2>1. CASE s = {}
    BY <1>4, <1>5, <2>1 DEF Recursion, SumOf
  <2>2. CASE s # {}
    <3> DEFINE c == AnyOf(s)
               r == s \ {c}
    <3>1. c \in s
      BY <2>2 DEF AnyOf
    <3>2. r \in SUBSET B /\ r # B /\ IsFiniteSet(r) /\ r \subseteq s
      BY <1>3, <1>5, <3>1
    <3>3. Recursion(f, r, Solution(f, r)) /\ Recursion(f, s, Solution(f, s))
      BY <1>4, <1>5, <3>2
    <3>4. Solution(f, s)[s] = f[c] + Solution(f, s)[r]
      BY <2>2, <3>3 DEF Recursion
    <3> HIDE DEF c, r
    <3>5. Solution(f, s)[r] = Solution(f, r)[r]
      <4>1. \A R \in SUBSET s :
              R \in SUBSET r /\ IsFiniteSet(R) /\ (\A x \in R : f[x] = f[x])
                => Solution(f, s)[R] = Solution(f, r)[R]
        BY <3>3, SameRecursion
      <4> QED
        BY <3>2, <4>1
    <3>6. V(s) = f[c] + V(r)
      BY <3>4, <3>5 DEF SumOf
    <3> QED
      BY <2>2, <3>6 DEF c, r
  <2> QED
    BY <2>1, <2>2
<1>6. Recursion(f, B, iter)
  <2>1. ASSUME NEW s \in SUBSET B, s # {}
        PROVE  iter[s \ {AnyOf(s)}] = V(s \ {AnyOf(s)})
    <3>1. AnyOf(s) \in s
      BY <2>1 DEF AnyOf
    <3>2. s \ {AnyOf(s)} \in SUBSET B /\ s \ {AnyOf(s)} # B
      BY <3>1
    <3> HIDE DEF V, W
    <3> QED
      BY <1>5, <3>2
  <2> HIDE DEF V
  <2> QED
    BY <2>1 DEF Recursion
<1> QED
  BY <1>2, <1>6

LEMMA SolutionSolves ==
  ASSUME NEW S, IsFiniteSet(S), NEW f
  PROVE  Recursion(f, S, Solution(f, S))
<1>1. \E it : Recursion(f, S, it)
  BY RecursionExists
<1> QED
  BY <1>1, Zenon DEF Solution

-----------------------------------------------------------------------------
LEMMA SumSame ==
  ASSUME NEW S, IsFiniteSet(S), NEW f, NEW g, \A x \in S : f[x] = g[x]
  PROVE  SumOf(f, S) = SumOf(g, S)
<1>1. Recursion(f, S, Solution(f, S)) /\ Recursion(g, S, Solution(g, S))
  BY SolutionSolves
<1>2. \A R \in SUBSET S :
        R \in SUBSET S /\ IsFiniteSet(R) /\ (\A x \in R : f[x] = g[x])
          => Solution(f, S)[R] = Solution(g, S)[R]
  BY <1>1, SameRecursion
<1> QED
  BY <1>2 DEF SumOf

(* Whatever solves the recursion ends in the sum. *)
LEMMA SolvedIsSum ==
  ASSUME NEW S, IsFiniteSet(S), NEW f, NEW it, Recursion(f, S, it)
  PROVE  it[S] = SumOf(f, S)
<1>1. Recursion(f, S, Solution(f, S))
  BY SolutionSolves
<1>2. \A R \in SUBSET S :
        R \in SUBSET S /\ IsFiniteSet(R) /\ (\A x \in R : f[x] = f[x])
          => it[R] = Solution(f, S)[R]
  BY <1>1, SameRecursion
<1> QED
  BY <1>2 DEF SumOf

LEMMA SumEmpty == \A f : SumOf(f, {}) = 0
<1> TAKE f
<1>1. Recursion(f, {}, Solution(f, {}))
  BY SolutionSolves, FS_EmptySet
<1> QED
  BY <1>1 DEF SumOf, Recursion

(* The step of the recursion, at the element that CHOOSE takes. *)
LEMMA SumAnyOf ==
  ASSUME NEW S, IsFiniteSet(S), S # {}, NEW f
  PROVE  SumOf(f, S) = f[AnyOf(S)] + SumOf(f, S \ {AnyOf(S)})
<1> DEFINE r == S \ {AnyOf(S)}
<1>1. IsFiniteSet(r) /\ r \subseteq S
  BY FS_Subset
<1>2. Recursion(f, S, Solution(f, S)) /\ Recursion(f, r, Solution(f, r))
  BY <1>1, SolutionSolves
<1>3. Solution(f, S)[S] = f[AnyOf(S)] + Solution(f, S)[r]
  BY <1>2 DEF Recursion
<1> HIDE DEF r
<1>4. Solution(f, S)[r] = Solution(f, r)[r]
  <2>1. \A R \in SUBSET S :
          R \in SUBSET r /\ IsFiniteSet(R) /\ (\A x \in R : f[x] = f[x])
            => Solution(f, S)[R] = Solution(f, r)[R]
    BY <1>2, SameRecursion
  <2> QED
    BY <1>1, <2>1
<1>5. SumOf(f, S) = f[AnyOf(S)] + SumOf(f, r)
  BY <1>3, <1>4 DEF SumOf
<1> QED
  BY <1>5 DEF r

(* A sum is a number, and any row can be taken out of it. *)
LEMMA AddsStep ==
  ASSUME NEW S, NEW f, Summable(f, S)
  PROVE  /\ SumOf(f, S) \in Int
         /\ \A x \in S : SumOf(f, S) = f[x] + SumOf(f, S \ {x})
<1> DEFINE Good(s) == /\ SumOf(f, s) \in Int
                      /\ \A x \in s : SumOf(f, s) = f[x] + SumOf(f, s \ {x})
           Bad == {s \in SUBSET S : ~Good(s)}
<1>1. SUFFICES ASSUME Bad # {} PROVE FALSE
  OBVIOUS
<1>2. PICK B \in Bad : \A U \in SUBSET B : U \in Bad => U = B
  <2>1. Bad \in SUBSET (SUBSET S) /\ IsFiniteSet(S)
    BY DEF Summable
  <2> HIDE DEF Bad
  <2> QED
    BY <1>1, <2>1, MinimalSubset
<1>3. \A s \in SUBSET B : s # B => Good(s)
  BY <1>2
<1>4. IsFiniteSet(B) /\ \A x \in B : f[x] \in Int
  BY FS_Subset DEF Summable
<1> HIDE DEF Bad
<1>5. CASE B = {}
  BY <1>5, SumEmpty DEF Bad
<1>6. CASE B # {}
  <2> DEFINE c == AnyOf(B)
             r == B \ {c}
  <2>1. c \in B /\ f[c] \in Int
    BY <1>4, <1>6 DEF AnyOf
  <2>2. SumOf(f, B) = f[c] + SumOf(f, r)
    BY <1>4, <1>6, SumAnyOf
  <2> HIDE DEF c
  <2>3. Good(r)
    BY <1>3, <2>1
  <2>4. SumOf(f, B) \in Int
    BY <2>1, <2>2, <2>3
  <2>5. ASSUME NEW x \in B, x # c
        PROVE  SumOf(f, B) = f[x] + SumOf(f, B \ {x})
    <3>1. Good(B \ {x})
      BY <1>3
    <3>2. SumOf(f, r) = f[x] + SumOf(f, r \ {x})
      BY <2>3, <2>5
    <3>3. SumOf(f, B \ {x}) = f[c] + SumOf(f, (B \ {x}) \ {c})
      BY <2>1, <2>5, <3>1
    <3>4. SumOf(f, (B \ {x}) \ {c}) = SumOf(f, r \ {x})
      <4>1. (B \ {x}) \ {c} = r \ {x}
        OBVIOUS
      <4> QED
        BY <4>1, Zenon
    <3>5. SumOf(f, r \ {x}) \in Int
      BY <1>3, <2>1
    <3>6. f[x] \in Int
      BY <1>4
    <3> HIDE DEF r, Good
    <3> QED
      BY <2>1, <2>2, <3>2, <3>3, <3>4, <3>5, <3>6
  <2>6. Good(B)
    BY <2>2, <2>4, <2>5
  <2> QED
    BY <2>6 DEF Bad
<1> QED
  BY <1>5, <1>6

(* A sum of numbers that are not negative is not either. *)
LEMMA SumStep ==
  ASSUME NEW S, NEW f, Counts(f, S)
  PROVE  /\ SumOf(f, S) \in Nat
         /\ \A x \in S : SumOf(f, S) = f[x] + SumOf(f, S \ {x})
<1> DEFINE Bad == {s \in SUBSET S : SumOf(f, s) \notin Nat}
<1>1. \A s \in SUBSET S : Summable(f, s) /\ \A x \in s : f[x] \in Nat
  BY FS_Subset DEF Counts, Summable
<1>2. ASSUME Bad # {} PROVE FALSE
  <2>1. PICK B \in Bad : \A U \in SUBSET B : U \in Bad => U = B
    <3>1. Bad \in SUBSET (SUBSET S) /\ IsFiniteSet(S)
      BY DEF Counts
    <3> HIDE DEF Bad
    <3> QED
      BY <1>2, <3>1, MinimalSubset
  <2>2. B # {}
    BY SumEmpty
  <2>3. PICK x \in B : TRUE
    BY <2>2
  <2>4. SumOf(f, B) = f[x] + SumOf(f, B \ {x}) /\ f[x] \in Nat
    BY <1>1, AddsStep
  <2>5. SumOf(f, B \ {x}) \in Nat
    BY <2>1
  <2> QED
    BY <2>4, <2>5
<1>3. SumOf(f, S) \in Nat
  BY <1>2
<1> QED
  BY <1>1, <1>3, AddsStep

(* Fewer rows, with no larger values, sum up to no more. *)
LEMMA SumMonotone ==
  ASSUME NEW S, NEW f, Counts(f, S), NEW R \in SUBSET S, NEW g,
         \A x \in R : g[x] \in Nat /\ g[x] <= f[x]
  PROVE  SumOf(g, R) <= SumOf(f, S)
<1> DEFINE Good(s) == SumOf(g, s \cap R) <= SumOf(f, s)
           Bad == {s \in SUBSET S : ~Good(s)}
<1>1. SUFFICES ASSUME Bad # {} PROVE FALSE
  <2>1. S \cap R = R
    OBVIOUS
  <2> QED
    BY <2>1
<1>2. PICK B \in Bad : \A U \in SUBSET B : U \in Bad => U = B
  <2>1. Bad \in SUBSET (SUBSET S) /\ IsFiniteSet(S)
    BY DEF Counts
  <2> HIDE DEF Bad
  <2> QED
    BY <1>1, <2>1, MinimalSubset
<1>3. /\ Counts(f, B) /\ Counts(g, B \cap R)
  BY FS_Subset DEF Counts
<1>4. B # {}
  BY SumEmpty
<1>5. PICK x \in B : TRUE
  BY <1>4
<1>6. Good(B \ {x})
  BY <1>2
<1>7. /\ SumOf(f, B) = f[x] + SumOf(f, B \ {x})
      /\ f[x] \in Nat
  BY <1>3, SumStep DEF Counts
<1>8. Counts(f, B \ {x}) /\ Counts(g, (B \ {x}) \cap R)
  BY <1>3, FS_Subset DEF Counts
<1>9. SumOf(f, B \ {x}) \in Nat /\ SumOf(g, (B \ {x}) \cap R) \in Nat
  BY <1>8, SumStep
<1>10. CASE x \in R
  <2>1. (B \cap R) \ {x} = (B \ {x}) \cap R
    OBVIOUS
  <2>2. SumOf(g, B \cap R) = g[x] + SumOf(g, (B \cap R) \ {x})
    BY <1>3, <1>10, SumStep
  <2>3. SumOf(g, (B \cap R) \ {x}) = SumOf(g, (B \ {x}) \cap R)
    BY <2>1, Zenon
  <2> QED
    BY <1>6, <1>7, <1>9, <1>10, <2>2, <2>3
<1>11. CASE x \notin R
  <2>1. B \cap R = (B \ {x}) \cap R
    BY <1>11
  <2>2. SumOf(g, (B \ {x}) \cap R) <= SumOf(f, B \ {x})
    BY <1>6
  <2>3. SumOf(g, B \cap R) = SumOf(g, (B \ {x}) \cap R)
    BY <2>1, Zenon
  <2>4. SumOf(g, B \cap R) <= SumOf(f, B)
    BY <1>7, <1>9, <2>2, <2>3
  <2> QED
    BY <2>4
<1> QED
  BY <1>10, <1>11

(* Larger values sum up to more. *)
LEMMA SumOrdered ==
  ASSUME NEW S, NEW f, NEW g, Summable(f, S), Summable(g, S), \A x \in S : f[x] <= g[x]
  PROVE  SumOf(f, S) <= SumOf(g, S)
<1> DEFINE Bad == {s \in SUBSET S : ~(SumOf(f, s) <= SumOf(g, s))}
<1>1. SUFFICES ASSUME Bad # {} PROVE FALSE
  OBVIOUS
<1>2. PICK B \in Bad : \A U \in SUBSET B : U \in Bad => U = B
  <2>1. Bad \in SUBSET (SUBSET S) /\ IsFiniteSet(S)
    BY DEF Summable
  <2> HIDE DEF Bad
  <2> QED
    BY <1>1, <2>1, MinimalSubset
<1>3. B # {}
  BY SumEmpty
<1>4. PICK x \in B : TRUE
  BY <1>3
<1>5. \A s \in SUBSET B : Summable(f, s) /\ Summable(g, s)
  BY FS_Subset DEF Summable
<1>6. SumOf(f, B) = f[x] + SumOf(f, B \ {x}) /\ SumOf(g, B) = g[x] + SumOf(g, B \ {x})
  BY <1>5, AddsStep
<1>7. SumOf(f, B \ {x}) \in Int /\ SumOf(g, B \ {x}) \in Int
  BY <1>5, AddsStep
<1>8. SumOf(f, B \ {x}) <= SumOf(g, B \ {x})
  BY <1>2
<1>9. f[x] \in Int /\ g[x] \in Int /\ f[x] <= g[x]
  BY DEF Summable
<1> QED
  BY <1>6, <1>7, <1>8, <1>9

(* Rows that count nothing may be left out. *)
LEMMA AddsSupport ==
  ASSUME NEW S, NEW f, Summable(f, S), NEW R \in SUBSET S, NEW g,
         \A x \in R : g[x] = f[x], \A x \in S \ R : f[x] = 0
  PROVE  SumOf(g, R) = SumOf(f, S)
<1> DEFINE Good(s) == SumOf(g, s \cap R) = SumOf(f, s)
           Bad == {s \in SUBSET S : ~Good(s)}
<1>1. SUFFICES ASSUME Bad # {} PROVE FALSE
  <2>1. S \cap R = R
    OBVIOUS
  <2>2. SumOf(g, S \cap R) = SumOf(g, R)
    BY <2>1, Zenon
  <2> QED
    BY <2>2
<1>2. PICK B \in Bad : \A U \in SUBSET B : U \in Bad => U = B
  <2>1. Bad \in SUBSET (SUBSET S) /\ IsFiniteSet(S)
    BY DEF Summable
  <2> HIDE DEF Bad
  <2> QED
    BY <1>1, <2>1, MinimalSubset
<1>3. Summable(f, B) /\ Summable(g, B \cap R)
  BY FS_Subset DEF Summable
<1>4. B # {}
  <2>1. CASE B = {}
    <3>1. B \cap R = B
      BY <2>1
    <3>2. SumOf(g, B \cap R) = SumOf(g, {}) /\ SumOf(f, B) = SumOf(f, {})
      BY <2>1, <3>1, Zenon
    <3> QED
      BY <3>2, SumEmpty
  <2> QED
    BY <2>1
<1>5. PICK x \in B : TRUE
  BY <1>4
<1>6. SumOf(g, (B \ {x}) \cap R) = SumOf(f, B \ {x})
  BY <1>2
<1>7. SumOf(f, B) = f[x] + SumOf(f, B \ {x})
  BY <1>3, AddsStep
<1>8. Summable(f, B \ {x})
  BY <1>3, FS_Subset DEF Summable
<1>9. SumOf(f, B \ {x}) \in Int
  BY <1>8, AddsStep
<1>10. CASE x \in R
  <2>1. (B \cap R) \ {x} = (B \ {x}) \cap R
    OBVIOUS
  <2>2. SumOf(g, B \cap R) = g[x] + SumOf(g, (B \cap R) \ {x})
    BY <1>3, <1>10, AddsStep
  <2>3. SumOf(g, (B \cap R) \ {x}) = SumOf(g, (B \ {x}) \cap R)
    BY <2>1, Zenon
  <2>4. SumOf(g, B \cap R) = SumOf(f, B)
    BY <1>6, <1>7, <1>10, <2>2, <2>3
  <2> QED
    BY <2>4
<1>11. CASE x \notin R
  <2>1. B \cap R = (B \ {x}) \cap R
    BY <1>11
  <2>2. SumOf(g, B \cap R) = SumOf(g, (B \ {x}) \cap R)
    BY <2>1, Zenon
  <2>3. f[x] = 0
    BY <1>11
  <2>4. SumOf(g, B \cap R) = SumOf(f, B)
    BY <1>6, <1>7, <1>9, <2>2, <2>3
  <2> QED
    BY <2>4
<1> QED
  BY <1>10, <1>11

LEMMA SumSupport ==
  ASSUME NEW S, NEW f, Counts(f, S), NEW R \in SUBSET S, NEW g,
         \A x \in R : g[x] = f[x], \A x \in S \ R : f[x] = 0
  PROVE  SumOf(g, R) = SumOf(f, S)
<1>1. Summable(f, S)
  BY DEF Summable, Counts
<1> QED
  BY <1>1, AddsSupport

(* A sum changes with one row by what that row holds. *)
LEMMA AddsUpdate ==
  ASSUME NEW S, NEW f, NEW g, Summable(f, S), Summable(g, S), NEW x \in S,
         \A y \in S \ {x} : g[y] = f[y]
  PROVE  SumOf(g, S) = SumOf(f, S) - f[x] + g[x]
<1> DEFINE r == S \ {x}
<1>1. IsFiniteSet(r) /\ \A y \in r : g[y] = f[y] /\ f[y] \in Int
  BY FS_Subset DEF Summable
<1>2. SumOf(f, S) = f[x] + SumOf(f, r) /\ SumOf(g, S) = g[x] + SumOf(g, r)
  BY AddsStep
<1> HIDE DEF r
<1>3. SumOf(g, r) = SumOf(f, r)
  BY <1>1, SumSame
<1>4. SumOf(f, r) \in Int
  BY <1>1, AddsStep DEF Summable
<1>5. f[x] \in Int /\ g[x] \in Int
  BY DEF Summable
<1> QED
  BY <1>2, <1>3, <1>4, <1>5

LEMMA SumUpdate ==
  ASSUME NEW S, NEW f, NEW g, Counts(f, S), Counts(g, S), NEW x \in S,
         \A y \in S \ {x} : g[y] = f[y]
  PROVE  SumOf(g, S) = SumOf(f, S) - f[x] + g[x]
<1>1. Summable(f, S) /\ Summable(g, S)
  BY DEF Summable, Counts
<1> QED
  BY <1>1, AddsUpdate

(* The sum of one row. *)
LEMMA SumSingleton ==
  ASSUME NEW x, NEW f, f[x] \in Int
  PROVE  SumOf(f, {x}) = f[x]
<1>1. Summable(f, {x})
  BY FS_Singleton DEF Summable
<1>2. SumOf(f, {x}) = f[x] + SumOf(f, {x} \ {x})
  BY <1>1, AddsStep
<1>3. {x} \ {x} = {}
  OBVIOUS
<1>4. SumOf(f, {x} \ {x}) = SumOf(f, {})
  BY <1>3, Zenon
<1> QED
  BY <1>2, <1>4, SumEmpty

(* Rows that hold nothing sum up to nothing. *)
LEMMA SumOfZeros ==
  ASSUME NEW S, IsFiniteSet(S), NEW f, \A x \in S : f[x] = 0
  PROVE  SumOf(f, S) = 0
<1> DEFINE g == [x \in {} |-> 0]
<1>1. Counts(f, S) /\ {} \in SUBSET S /\ (\A x \in {} : g[x] = f[x]) /\ \A x \in S \ {} : f[x] = 0
  BY DEF Counts
<1> HIDE DEF g
<1>2. SumOf(g, {}) = SumOf(f, S)
  BY <1>1, SumSupport
<1> QED
  BY <1>2, SumEmpty

(* Two sums over the same rows add up row by row. *)
LEMMA SumsAdd ==
  ASSUME NEW S, NEW f, NEW g, NEW h, Summable(f, S), Summable(g, S),
         \A x \in S : h[x] = f[x] + g[x]
  PROVE  SumOf(h, S) = SumOf(f, S) + SumOf(g, S)
<1> DEFINE Bad == {s \in SUBSET S : SumOf(h, s) # SumOf(f, s) + SumOf(g, s)}
<1>1. SUFFICES ASSUME Bad # {} PROVE FALSE
  OBVIOUS
<1>2. PICK B \in Bad : \A U \in SUBSET B : U \in Bad => U = B
  <2>1. Bad \in SUBSET (SUBSET S) /\ IsFiniteSet(S)
    BY DEF Summable
  <2> HIDE DEF Bad
  <2> QED
    BY <1>1, <2>1, MinimalSubset
<1>3. B # {}
  BY SumEmpty
<1>4. PICK x \in B : TRUE
  BY <1>3
<1>5. \A s \in SUBSET B : Summable(f, s) /\ Summable(g, s) /\ Summable(h, s)
  BY FS_Subset DEF Summable
<1>6. /\ SumOf(f, B) = f[x] + SumOf(f, B \ {x})
      /\ SumOf(g, B) = g[x] + SumOf(g, B \ {x})
      /\ SumOf(h, B) = h[x] + SumOf(h, B \ {x})
  BY <1>5, AddsStep
<1>7. SumOf(f, B \ {x}) \in Int /\ SumOf(g, B \ {x}) \in Int
  BY <1>5, AddsStep
<1>8. SumOf(h, B \ {x}) = SumOf(f, B \ {x}) + SumOf(g, B \ {x})
  BY <1>2
<1>9. f[x] \in Int /\ g[x] \in Int /\ h[x] = f[x] + g[x]
  BY DEF Summable
<1>10. SumOf(h, B) = SumOf(f, B) + SumOf(g, B)
  BY <1>6, <1>7, <1>8, <1>9
<1> QED
  BY <1>10
=============================================================================
