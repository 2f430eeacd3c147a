--------------------------- MODULE FieldIntProofs ---------------------------
(***************************************************************************)
(* The arithmetic of the signature verifier, for every size of a word,     *)
(* every number of words and every prime of the shape of the code's: the   *)
(* 8 words of 32 bits and the prime of secp256k1 are one instance.         *)
(*                                                                         *)
(* Numbers are recursions over the words, and a loop over the words is a   *)
(* recursion too; Inductions says how facts about recursions are proved.   *)
(***************************************************************************)
EXTENDS FieldInt, Inductions, SequenceTheorems, TLAPS

LEMMA BaseIs == Base \in Nat /\ Base >= 2 /\ Base % 2 = 0 /\ 2 * (Base \div 2) = Base
<1>1. WordBits - 1 \in Nat
  BY UintConstants
<1> DEFINE h == Power(2, WordBits - 1)
<1>2. h \in Nat /\ Base = 2 * h
  <2>1. Power(2, (WordBits - 1) + 1) = 2 * h
    BY <1>1, PowerIs
  <2>2. (WordBits - 1) + 1 = WordBits
    BY UintConstants
  <2> QED
    BY <1>1, <2>1, <2>2, PowerIs DEF Base
<1>3. h # 0
  <2> DEFINE Good == {k \in 0..WordBits - 1 : Power(2, k) # 0}
  <2>1. 0 \in Good
    BY <1>1, PowerIs
  <2>2. ASSUME NEW k \in 0..(WordBits - 1) - 1, k \in Good PROVE k + 1 \in Good
    <3>1. k \in Nat /\ k + 1 \in 0..WordBits - 1
      BY <1>1
    <3>2. Power(2, k + 1) = 2 * Power(2, k) /\ Power(2, k) \in Nat
      BY <3>1, PowerIs
    <3> QED
      BY <2>2, <3>1, <3>2
  <2>3. \A k \in 0..WordBits - 1 : k \in Good
    <3> HIDE DEF Good
    <3> QED
      BY <1>1, <2>1, <2>2, UpTo
  <2> QED
    BY <1>1, <2>3
<1> HIDE DEF h
<1> QED
  BY <1>2, <1>3

(* The weight of the word after the first k. *)
Weight(k) == Power(Base, k)

LEMMA Weights ==
  /\ Weight(0) = 1
  /\ \A k \in Nat : /\ Weight(k) \in Nat \ {0}
                    /\ Weight(k + 1) = Base * Weight(k)
<1>1. Weight(0) = 1 /\ \A k \in Nat : Weight(k) \in Nat /\ Weight(k + 1) = Base * Weight(k)
  BY BaseIs, PowerIs DEF Weight
<1>2. ASSUME NEW n \in Nat PROVE Weight(n) # 0
  <2> DEFINE Good == {k \in 0..n : Weight(k) # 0}
  <2>1. 0 \in Good
    BY <1>1
  <2>2. ASSUME NEW k \in 0..n - 1, k \in Good PROVE k + 1 \in Good
    BY <1>1, <2>2, BaseIs
  <2>3. \A k \in 0..n : k \in Good
    <3> HIDE DEF Good
    <3> QED
      BY <2>1, <2>2, UpTo
  <2> QED
    BY <2>3
<1> QED
  BY <1>1, <1>2

LEMMA WeightsMultiply ==
  ASSUME NEW m \in Nat, NEW n \in Nat
  PROVE  Weight(m + n) = Weight(m) * Weight(n)
<1> DEFINE Good == {k \in 0..n : Weight(m + k) = Weight(m) * Weight(k)}
<1>1. 0 \in Good
  BY Weights
<1>2. ASSUME NEW k \in 0..n - 1, k \in Good PROVE k + 1 \in Good
  <2>1. /\ Weight((m + k) + 1) = Base * Weight(m + k)
        /\ Weight(k + 1) = Base * Weight(k)
        /\ m + (k + 1) = (m + k) + 1 /\ k + 1 \in 0..n
        /\ Weight(m) \in Nat /\ Weight(k) \in Nat
    BY Weights
  <2>2. Base * (Weight(m) * Weight(k)) = Weight(m) * (Base * Weight(k))
    BY <2>1, BaseIs
  <2> QED
    BY <1>2, <2>1, <2>2
<1>3. \A k \in 0..n : k \in Good
  <2> HIDE DEF Good
  <2> QED
    BY <1>1, <1>2, UpTo
<1> QED
  BY <1>3

-----------------------------------------------------------------------------
(* What words amount to *)

LEMMA ValueIs ==
  ASSUME NEW n \in Nat, NEW x, \A i \in 1..n : x[i] \in Int
  PROVE  /\ ValueOf(x, 0) = 0
         /\ \A k \in 0..n : ValueOf(x, k) \in Int
         /\ \A k \in 0..n - 1 : ValueOf(x, k + 1) = ValueOf(x, k) + (x[k + 1] * Weight(k))
<1> DEFINE step(m) == [i \in 1..m |-> [v \in Int |-> v + (x[i] * Power(Base, i - 1))]]
           eq(m, p) == p = [k \in 0..m |-> IF k = 0 THEN 0
                                           ELSE p[k - 1] + (x[k] * Power(Base, k - 1))]
           sol(m) == CHOOSE p : eq(m, p)
           Adds(p, m) == /\ p[0] = 0
                         /\ \A k \in 1..m : p[k] = p[k - 1] + (x[k] * Weight(k - 1))
<1>0. \A i \in 1..n : x[i] * Power(Base, i - 1) \in Int
  <2>1. \A i \in 1..n : i - 1 \in Nat
    OBVIOUS
  <2> QED
    BY <2>1, Weights DEF Weight
<1>1. ASSUME NEW m \in 0..n
      PROVE  ValueOf(x, m) = sol(m)[m] /\ Adds(sol(m), m)
  <2>1. /\ step(m) \in [1..m -> [Int -> Int]]
        /\ \A i \in 1..m, v \in Int : step(m)[i][v] = v + (x[i] * Power(Base, i - 1))
    BY <1>0
  <2> HIDE DEF step
  <2>2. PICK f \in [0..m -> Int] : Solves(f, m, 0, step(m))
    <3>1. m \in Nat /\ 0 \in Int
      OBVIOUS
    <3> QED
      BY <2>1, <3>1, RecursionHasSolution
  <2>3. \A k \in 0..m : f[k] = IF k = 0 THEN 0 ELSE f[k - 1] + (x[k] * Power(Base, k - 1))
    <3>1. f[0] = 0
      BY <2>2 DEF Solves
    <3>2. ASSUME NEW k \in 1..m PROVE f[k] = f[k - 1] + (x[k] * Power(Base, k - 1))
      <4>1. f[k] = step(m)[k][f[k - 1]] /\ f[k - 1] \in Int
        BY <2>2 DEF Solves
      <4> QED
        BY <2>1, <4>1
    <3>3. \A k \in 0..m : k = 0 \/ k \in 1..m
      OBVIOUS
    <3> QED
      BY <3>1, <3>2, <3>3
  <2>4. eq(m, f)
    BY <2>3
  <2>5. eq(m, sol(m))
    <3> HIDE DEF eq
    <3> QED
      BY <2>4
  <2> DEFINE g == sol(m)
  <2>6. g = [k \in 0..m |-> IF k = 0 THEN 0 ELSE g[k - 1] + (x[k] * Power(Base, k - 1))]
    BY <2>5
  <2>7. ValueOf(x, m) = g[m]
    BY DEF ValueOf
  <2> HIDE DEF g
  <2>8. Adds(g, m)
    <3>1. m \in Nat
      OBVIOUS
    <3>2. ASSUME NEW k \in 0..m
          PROVE  g[k] = IF k = 0 THEN 0 ELSE g[k - 1] + (x[k] * Power(Base, k - 1))
      BY <2>6
    <3>3. 0 \in 0..m /\ \A k \in 1..m : k \in 0..m /\ k # 0
      BY <3>1
    <3> QED
      BY <3>2, <3>3 DEF Weight
  <2> QED
    BY <2>7, <2>8 DEF g
<1> HIDE DEF sol
<1>2. ASSUME NEW m \in 0..n, NEW p, Adds(p, m)
      PROVE  \A k \in 0..m : p[k] \in Int
  <2> DEFINE Good == {k \in 0..m : p[k] \in Int}
  <2>1. 0 \in Good
    BY <1>2
  <2>2. ASSUME NEW k \in 0..m - 1, k \in Good PROVE k + 1 \in Good
    BY <1>0, <1>2, <2>2 DEF Weight
  <2>3. \A k \in 0..m : k \in Good
    <3> HIDE DEF Good
    <3> QED
      BY <2>1, <2>2, UpTo
  <2> QED
    BY <2>3
<1>3. ASSUME NEW m \in 0..n, NEW p, NEW q, Adds(p, m), Adds(q, m)
      PROVE  \A k \in 0..m : p[k] = q[k]
  <2> DEFINE Good == {k \in 0..m : p[k] = q[k]}
  <2>1. 0 \in Good
    BY <1>3
  <2>2. ASSUME NEW k \in 0..m - 1, k \in Good PROVE k + 1 \in Good
    BY <1>3, <2>2
  <2>3. \A k \in 0..m : k \in Good
    <3> HIDE DEF Good
    <3> QED
      BY <2>1, <2>2, UpTo
  <2> QED
    BY <2>3
<1>4. ValueOf(x, 0) = 0
  BY <1>1
<1>5. ASSUME NEW k \in 0..n PROVE ValueOf(x, k) \in Int
  <2>1. ValueOf(x, k) = sol(k)[k] /\ Adds(sol(k), k) /\ k \in 0..k
    BY <1>1
  <2> HIDE DEF Adds
  <2> QED
    BY <1>2, <2>1
<1>6. ASSUME NEW k \in 0..n - 1
      PROVE  ValueOf(x, k + 1) = ValueOf(x, k) + (x[k + 1] * Weight(k))
  <2>1. k \in 0..n /\ k + 1 \in 0..n
    BY <1>6
  <2>2. Adds(sol(k + 1), k + 1) /\ Adds(sol(k), k)
    BY <1>1, <2>1
  <2>3. Adds(sol(k + 1), k)
    BY <2>2
  <2>4. sol(k + 1)[k] = sol(k)[k]
    <3> HIDE DEF Adds
    <3> QED
      BY <1>3, <2>1, <2>2, <2>3
  <2>5. sol(k + 1)[k + 1] = sol(k + 1)[k] + (x[k + 1] * Weight(k))
    BY <2>2
  <2> QED
    BY <1>1, <2>1, <2>4, <2>5
<1> QED
  BY <1>4, <1>5, <1>6

-----------------------------------------------------------------------------
(* The loop over the words *)

Appended(t, s, m, e, S) ==
  /\ t \in [1..m + 1 -> S]
  /\ t[m + 1] = e
  /\ \A i \in 1..m : t[i] = s[i]

LEMMA AppendIs ==
  ASSUME NEW S, NEW m \in Nat, NEW s \in [1..m -> S], NEW e \in S, NEW t, t = Append(s, e)
  PROVE  Appended(t, s, m, e, S)
<1>1. s \in Seq(S) /\ Len(s) = m
  OBVIOUS
<1>2. /\ t \in Seq(S) /\ Len(t) = m + 1 /\ t[m + 1] = e
      /\ \A i \in 1..m : t[i] = s[i]
  BY <1>1, AppendProperties
<1>3. t \in [1..m + 1 -> S]
  BY <1>2, LenProperties
<1> QED
  BY <1>2, <1>3 DEF Appended

(* What is passed on to the word after the first k. *)
Over(pass, k) == IF k = 0 THEN 0 ELSE pass.overs[k]

Passes(pass, word, n) ==
  /\ pass.words \in [1..n -> 0..Base - 1]
  /\ pass.overs \in [1..n -> Int]
  /\ pass.over = Over(pass, n)
  /\ \A k \in 0..n : Over(pass, k) \in Int
  /\ \A i \in 1..n : /\ pass.words[i] = (word[i] + Over(pass, i - 1)) % Base
                     /\ pass.overs[i] = (word[i] + Over(pass, i - 1)) \div Base

LEMMA PassIs ==
  ASSUME NEW n \in Nat, NEW word \in [1..n -> Int]
  PROVE  Passes(Pass(word), word, n)
<1> DEFINE R == [words : Seq(Int), overs : Seq(Int), over : Int]
           z == [words |-> <<>>, overs |-> <<>>, over |-> 0]
           after(s, i) == [words |-> Append(s.words, (word[i] + s.over) % Base),
                           overs |-> Append(s.overs, (word[i] + s.over) \div Base),
                           over |-> (word[i] + s.over) \div Base]
           step == [i \in 1..n |-> [s \in R |-> after(s, i)]]
           eq(p) == p = [k \in 0..n |-> IF k = 0 THEN z ELSE after(p[k - 1], k)]
           loop == CHOOSE p : eq(p)
<1>1. z \in R
  OBVIOUS
<1>2. ASSUME NEW s \in R, NEW i \in 1..n PROVE after(s, i) \in R
  <2>1. (word[i] + s.over) % Base \in Int /\ (word[i] + s.over) \div Base \in Int
    <3>1. Base \in Nat \ {0} /\ word[i] + s.over \in Int
      BY BaseIs
    <3> QED
      BY <3>1, Division
  <2> DEFINE r == (word[i] + s.over) % Base
             q == (word[i] + s.over) \div Base
  <2> HIDE DEF r, q
  <2>2. Append(s.words, r) \in Seq(Int) /\ Append(s.overs, q) \in Seq(Int)
    BY <2>1, AppendProperties DEF r, q
  <2> QED
    BY <2>1, <2>2 DEF r, q
<1>3. step \in [1..n -> [R -> R]] /\ \A i \in 1..n, s \in R : step[i][s] = after(s, i)
  BY <1>2
<1> HIDE DEF after, R, z, step
<1>4. PICK f \in [0..n -> R] : Solves(f, n, z, step)
  BY <1>1, <1>3, RecursionHasSolution
<1>5. eq(f)
  <2>1. f[0] = z
    BY <1>4 DEF Solves
  <2>2. ASSUME NEW k \in 1..n PROVE f[k] = after(f[k - 1], k)
    <3>1. f[k] = step[k][f[k - 1]] /\ f[k - 1] \in R
      BY <1>4 DEF Solves
    <3> QED
      BY <1>3, <3>1
  <2>3. \A k \in 0..n : k = 0 \/ k \in 1..n
    OBVIOUS
  <2> QED
    BY <2>1, <2>2, <2>3
<1>6. loop = [k \in 0..n |-> IF k = 0 THEN z ELSE after(loop[k - 1], k)]
  <2>1. eq(loop)
    <3> HIDE DEF eq
    <3> QED
      BY <1>5
  <2> QED
    BY <2>1
<1>7. Pass(word) = loop[n]
  <2>1. Len(word) = n
    OBVIOUS
  <2> QED
    BY <2>1 DEF Pass, after, z
<1> HIDE DEF loop
<1> DEFINE Good == {k \in 0..n : /\ Passes(loop[k], word, k)
                                 /\ loop[k].words \in [1..k -> Int]}
<1>8. 0 \in Good
  <2>1. loop[0] = z /\ z.words = <<>> /\ z.overs = <<>> /\ z.over = 0
    BY <1>6 DEF z
  <2>2. <<>> \in [1..0 -> Int] /\ <<>> \in [1..0 -> 0..Base - 1]
    OBVIOUS
  <2>3. Passes(loop[0], word, 0)
    BY <2>1, <2>2 DEF Passes, Over
  <2>4. loop[0].words \in [1..0 -> Int]
    BY <2>1, <2>2
  <2>5. 0 \in 0..n
    OBVIOUS
  <2> QED
    BY <2>3, <2>4, <2>5
<1>9. ASSUME NEW k \in 0..n - 1, k \in Good PROVE k + 1 \in Good
  <2> DEFINE s == loop[k]
             sum == word[k + 1] + s.over
             r == sum % Base
             q == sum \div Base
             t == loop[k + 1]
  <2>1. /\ k + 1 \in 1..n /\ k + 1 \in 0..n /\ (k + 1) - 1 = k /\ k \in Nat
        /\ Passes(s, word, k)
    BY <1>9
  <2>2. t = after(s, k + 1)
    BY <1>6, <2>1
  <2>3. sum \in Int /\ s.over = Over(s, k)
    BY <2>1 DEF Passes
  <2> HIDE DEF sum
  <2>4. r \in 0..Base - 1 /\ q \in Int
    <3>1. Base \in Nat \ {0}
      BY BaseIs
    <3> QED
      BY <2>3, <3>1, Division
  <2>5. t.words = Append(s.words, r) /\ t.overs = Append(s.overs, q) /\ t.over = q
    <3>1. after(s, k + 1) = [words |-> Append(s.words, r), overs |-> Append(s.overs, q), over |-> q]
      BY DEF after, sum
    <3> HIDE DEF s, t, r, q, after
    <3> QED
      BY <2>2, <3>1
  <2> HIDE DEF s, t, r, q
  <2> DEFINE digits == 0..Base - 1
  <2>0. /\ s.words \in [1..k -> digits] /\ s.overs \in [1..k -> Int]
        /\ r \in digits
    BY <2>1, <2>4 DEF Passes
  <2> HIDE DEF digits
  <2>6. /\ t.words \in [1..k + 1 -> 0..Base - 1]
        /\ t.words[k + 1] = r
        /\ \A i \in 1..k : t.words[i] = s.words[i]
    <3> DEFINE u == s.words
               v == t.words
    <3>1. k \in Nat /\ u \in [1..k -> digits] /\ r \in digits /\ v = Append(u, r)
      BY <2>0, <2>1, <2>5
    <3> HIDE DEF u, v
    <3>2. Appended(v, u, k, r, digits)
      BY <3>1, AppendIs
    <3> QED
      BY <3>2 DEF Appended, digits, u, v
  <2>7. /\ t.overs \in [1..k + 1 -> Int]
        /\ t.overs[k + 1] = q
        /\ \A i \in 1..k : t.overs[i] = s.overs[i]
    <3> DEFINE u == s.overs
               v == t.overs
    <3>1. k \in Nat /\ u \in [1..k -> Int] /\ q \in Int /\ v = Append(u, q)
      BY <2>0, <2>1, <2>4, <2>5
    <3> HIDE DEF u, v
    <3>2. Appended(v, u, k, q, Int)
      BY <3>1, AppendIs
    <3> QED
      BY <3>2 DEF Appended, u, v
  <2>8. Over(t, k + 1) = q /\ \A i \in 0..k : Over(t, i) = Over(s, i)
    BY <2>1, <2>7 DEF Over
  <2>9. \A i \in 0..k + 1 : Over(t, i) \in Int
    BY <2>1, <2>4, <2>8 DEF Passes
  <2>10. ASSUME NEW i \in 1..k + 1
         PROVE  /\ t.words[i] = (word[i] + Over(t, i - 1)) % Base
                /\ t.overs[i] = (word[i] + Over(t, i - 1)) \div Base
    <3>1. CASE i = k + 1
      BY <2>1, <2>3, <2>6, <2>7, <2>8, <3>1 DEF r, q, sum
    <3>2. CASE i \in 1..k
      <4>1. i - 1 \in 0..k
        BY <3>2
      <4> QED
        BY <2>1, <2>6, <2>7, <2>8, <3>2, <4>1 DEF Passes
    <3> QED
      BY <2>1, <3>1, <3>2
  <2>11. Passes(t, word, k + 1)
    BY <2>5, <2>6, <2>7, <2>8, <2>9, <2>10 DEF Passes
  <2>12. t.words \in [1..k + 1 -> Int]
    BY <2>6, BaseIs
  <2> QED
    BY <2>1, <2>11, <2>12 DEF t
<1>10. \A k \in 0..n : k \in Good
  <2> HIDE DEF Good
  <2> QED
    BY <1>8, <1>9, UpTo
<1> QED
  BY <1>7, <1>10

-----------------------------------------------------------------------------
(* What words amount to, and what a loop makes of it *)

Digit == 0..Base - 1

Ints(x, n) == \A i \in 1..n : x[i] \in Int
Linear(z, x, c, y, n) == \A i \in 1..n : x[i] \in Int /\ y[i] \in Int /\ z[i] = x[i] + (c * y[i])
Same(x, y, n) == \A i \in 1..n : x[i] \in Int /\ y[i] = x[i]
Zeros(x, n) == \A i \in 1..n : x[i] = 0
(* y is what x holds above its first m words. *)
Above(y, x, m, n) == \A i \in 1..n : y[i] = x[m + i]

LEMMA ValueIsInt ==
  ASSUME NEW n \in Nat, NEW x, Ints(x, n)
  PROVE  ValueOf(x, n) \in Int
BY ValueIs DEF Ints

LEMMA DigitsAreInt == ASSUME NEW n \in Nat, NEW x \in [1..n -> Digit]
                      PROVE  x \in [1..n -> Int] /\ \A i \in 1..n : x[i] \in Nat /\ x[i] < Base
BY BaseIs DEF Digit

LEMMA PassValue ==
  ASSUME NEW n \in Nat, NEW word \in [1..n -> Int], NEW pass, Passes(pass, word, n)
  PROVE  \A k \in 0..n : ValueOf(word, k) = ValueOf(pass.words, k) + (Over(pass, k) * Weight(k))
<1> DEFINE Good == {k \in 0..n :
             ValueOf(word, k) = ValueOf(pass.words, k) + (Over(pass, k) * Weight(k))}
           w == pass.words
<1>0. w \in [1..n -> Int] /\ \A k \in 0..n : Over(pass, k) \in Int
  BY DigitsAreInt DEF Passes, Digit
<1>1. 0 \in Good
  <2>1. ValueOf(word, 0) = 0 /\ ValueOf(w, 0) = 0
    BY <1>0, ValueIs
  <2>2. Over(pass, 0) * Weight(0) = 0
    BY Weights DEF Over
  <2> QED
    BY <2>1, <2>2
<1>2. ASSUME NEW k \in 0..n - 1, k \in Good PROVE k + 1 \in Good
  <2> DEFINE o == Over(pass, k)
             p == Over(pass, k + 1)
             d == word[k + 1]
             e == w[k + 1]
             m == Weight(k)
             u == ValueOf(w, k)
  <2>1. /\ k + 1 \in 1..n /\ k + 1 \in 0..n /\ k \in 0..n /\ (k + 1) - 1 = k /\ k \in Nat
    OBVIOUS
  <2>2. o \in Int /\ p \in Int /\ d \in Int /\ e \in Int /\ m \in Nat /\ Base \in Nat \ {0}
    <3>1. o \in Int /\ p \in Int
      <4> HIDE DEF w
      <4> QED
        BY <1>0, <2>1
    <3>2. d \in Int /\ e \in Int
      BY <1>0, <2>1
    <3> QED
      BY <2>1, <3>1, <3>2, Weights, BaseIs
  <2>3. e = (d + o) % Base /\ p = (d + o) \div Base
    <3>1. /\ e = (d + Over(pass, (k + 1) - 1)) % Base
          /\ pass.overs[k + 1] = (d + Over(pass, (k + 1) - 1)) \div Base
      BY <2>1 DEF Passes
    <3>2. p = pass.overs[k + 1]
      BY <2>1 DEF Over
    <3> QED
      BY <2>1, <3>1, <3>2
  <2>4. /\ ValueOf(word, k + 1) = (u + (o * m)) + (d * m)
        /\ ValueOf(w, k + 1) = u + (e * m) /\ u \in Int
    BY <1>0, <1>2, <2>1, ValueIs
  <2>5. Weight(k + 1) = Base * m
    BY <2>1, Weights
  <2> HIDE DEF o, p, d, e, m, u
  <2>6. d + o = (Base * p) + e
    BY <2>2, <2>3, Division
  <2>7. (u + (o * m)) + (d * m) = (u + (e * m)) + (p * (Base * m))
    <3>1. (d + o) * m = ((Base * p) + e) * m
      BY <2>6
    <3> QED
      BY <2>2, <2>4, <3>1
  <2>8. ValueOf(word, k + 1) = ValueOf(w, k + 1) + (p * Weight(k + 1))
    BY <2>4, <2>5, <2>7
  <2> QED
    BY <2>1, <2>8 DEF p
<1>3. \A k \in 0..n : k \in Good
  <2> HIDE DEF Good
  <2> QED
    BY <1>1, <1>2, UpTo
<1> QED
  BY <1>3

LEMMA ValueBounds ==
  ASSUME NEW n \in Nat, NEW x \in [1..n -> Digit]
  PROVE  \A k \in 0..n : ValueOf(x, k) \in 0..Weight(k) - 1
<1> DEFINE Good == {k \in 0..n : ValueOf(x, k) \in 0..Weight(k) - 1}
<1>0. \A i \in 1..n : x[i] \in Int
  BY DigitsAreInt
<1>1. 0 \in Good
  <2>1. ValueOf(x, 0) = 0 /\ Weight(0) = 1
    BY <1>0, ValueIs, Weights
  <2> QED
    BY <2>1
<1>2. ASSUME NEW k \in 0..n - 1, k \in Good PROVE k + 1 \in Good
  <2> DEFINE d == x[k + 1]
             m == Weight(k)
             v == ValueOf(x, k)
  <2>1. /\ k + 1 \in 1..n /\ k + 1 \in 0..n /\ k \in Nat
        /\ d \in Nat /\ d <= Base - 1
    BY DigitsAreInt, BaseIs
  <2>2. ValueOf(x, k + 1) = v + (d * m) /\ v \in 0..m - 1
    BY <1>0, <1>2, ValueIs
  <2>3. Weight(k + 1) = Base * m /\ m \in Nat /\ Base \in Nat
    BY <2>1, Weights, BaseIs
  <2> HIDE DEF d, m, v
  <2>4. d * m \in Nat /\ d * m <= (Base - 1) * m /\ (Base - 1) * m = (Base * m) - m
    BY <2>1, <2>3, BaseIs, ProductsOrdered
  <2>5. v + (d * m) \in 0..(Base * m) - 1
    BY <2>2, <2>3, <2>4
  <2> QED
    BY <2>1, <2>2, <2>3, <2>5
<1>3. \A k \in 0..n : k \in Good
  <2> HIDE DEF Good
  <2> QED
    BY <1>1, <1>2, UpTo
<1> QED
  BY <1>3

LEMMA LinearValue ==
  ASSUME NEW n \in Nat, NEW c \in Int, NEW x, NEW y, NEW z,
         Linear(z, x, c, y, n)
  PROVE  ValueOf(z, n) = ValueOf(x, n) + (c * ValueOf(y, n))
<1> DEFINE Good == {k \in 0..n : ValueOf(z, k) = ValueOf(x, k) + (c * ValueOf(y, k))}
<1>0. \A i \in 1..n : x[i] \in Int /\ y[i] \in Int /\ z[i] = x[i] + (c * y[i]) /\ z[i] \in Int
  BY DEF Linear
<1>1. 0 \in Good
  BY <1>0, ValueIs
<1>2. ASSUME NEW k \in 0..n - 1, k \in Good PROVE k + 1 \in Good
  <2> DEFINE d == x[k + 1]
             e == y[k + 1]
             m == Weight(k)
             u == ValueOf(x, k)
             v == ValueOf(y, k)
  <2>1. k + 1 \in 1..n /\ k + 1 \in 0..n /\ k \in Nat /\ d \in Int /\ e \in Int /\ z[k + 1] = d + (c * e)
    BY <1>0
  <2>2. /\ ValueOf(x, k + 1) = u + (d * m) /\ u \in Int
        /\ ValueOf(y, k + 1) = v + (e * m) /\ v \in Int
        /\ ValueOf(z, k + 1) = (u + (c * v)) + ((d + (c * e)) * m)
    BY <1>0, <1>2, <2>1, ValueIs
  <2>3. m \in Nat
    BY <2>1, Weights
  <2> HIDE DEF d, e, m, u, v
  <2>4. (u + (c * v)) + ((d + (c * e)) * m) = (u + (d * m)) + (c * (v + (e * m)))
    BY <2>1, <2>2, <2>3
  <2> QED
    BY <2>1, <2>2, <2>4
<1>3. \A k \in 0..n : k \in Good
  <2> HIDE DEF Good
  <2> QED
    BY <1>1, <1>2, UpTo
<1> QED
  BY <1>3

LEMMA SameValue ==
  ASSUME NEW n \in Nat, NEW x, NEW y, Same(x, y, n)
  PROVE  ValueOf(y, n) = ValueOf(x, n)
<1> DEFINE Good == {k \in 0..n : ValueOf(y, k) = ValueOf(x, k)}
<1>0. \A i \in 1..n : x[i] \in Int /\ y[i] = x[i] /\ y[i] \in Int
  BY DEF Same
<1>1. 0 \in Good
  BY <1>0, ValueIs
<1>2. ASSUME NEW k \in 0..n - 1, k \in Good PROVE k + 1 \in Good
  BY <1>0, <1>2, ValueIs
<1>3. \A k \in 0..n : k \in Good
  <2> HIDE DEF Good
  <2> QED
    BY <1>1, <1>2, UpTo
<1> QED
  BY <1>3

(* Different words amount to different numbers. *)
LEMMA OneValue ==
  ASSUME NEW n \in Nat, NEW x \in [1..n -> Digit], NEW y \in [1..n -> Digit],
         ValueOf(x, n) = ValueOf(y, n)
  PROVE  x = y
<1> DEFINE Good == {k \in 0..n : ValueOf(x, k) = ValueOf(y, k) => \A i \in 1..k : x[i] = y[i]}
<1>0. \A i \in 1..n : x[i] \in Int /\ y[i] \in Int
  BY DigitsAreInt
<1>1. 0 \in Good
  OBVIOUS
<1>2. ASSUME NEW k \in 0..n - 1, k \in Good PROVE k + 1 \in Good
  <2> DEFINE d == x[k + 1]
             e == y[k + 1]
             m == Weight(k)
             u == ValueOf(x, k)
             v == ValueOf(y, k)
  <2>1. k + 1 \in 1..n /\ k + 1 \in 0..n /\ k \in 0..n /\ k \in Nat /\ d \in Int /\ e \in Int
    BY <1>0
  <2>2. /\ ValueOf(x, k + 1) = u + (d * m) /\ u \in 0..m - 1
        /\ ValueOf(y, k + 1) = v + (e * m) /\ v \in 0..m - 1
    BY <1>0, <2>1, ValueIs, ValueBounds
  <2>3. m \in Nat \ {0}
    BY <2>1, Weights
  <2>4. ASSUME u + (d * m) = v + (e * m) PROVE d = e /\ u = v
    <3> HIDE DEF d, e, m, u, v
    <3> DEFINE s == u + (d * m)
    <3>1. s \in Int /\ s = (m * d) + u /\ s = (m * e) + v
      BY <2>1, <2>2, <2>3, <2>4
    <3> HIDE DEF s
    <3>2. d \in Int /\ e \in Int /\ m \in Nat \ {0} /\ u \in 0..m - 1 /\ v \in 0..m - 1
      BY <2>1, <2>2, <2>3
    <3>3. s \div m = d /\ s % m = u
      BY <3>1, <3>2, Quotients
    <3>4. s \div m = e /\ s % m = v
      BY <3>1, <3>2, Quotients
    <3> QED
      BY <3>3, <3>4
  <2>5. ASSUME ValueOf(x, k + 1) = ValueOf(y, k + 1), NEW i \in 1..k + 1 PROVE x[i] = y[i]
    <3>1. d = e /\ u = v
      BY <2>2, <2>4, <2>5
    <3>2. i = k + 1 \/ i \in 1..k
      BY <2>1
    <3> QED
      BY <1>2, <3>1, <3>2
  <2> QED
    BY <2>1, <2>5
<1>3. \A k \in 0..n : k \in Good
  <2> HIDE DEF Good
  <2> QED
    BY <1>1, <1>2, UpTo
<1> QED
  BY <1>3

LEMMA ZeroValue ==
  ASSUME NEW n \in Nat, NEW x, Zeros(x, n)
  PROVE  ValueOf(x, n) = 0
<1>1. Linear(x, x, 1, x, n) /\ Ints(x, n)
  BY DEF Zeros, Linear, Ints
<1>2. ValueOf(x, n) = ValueOf(x, n) + (1 * ValueOf(x, n))
  BY <1>1, LinearValue
<1>3. ValueOf(x, n) \in Int
  BY <1>1, ValueIsInt
<1> DEFINE v == ValueOf(x, n)
<1> HIDE DEF v
<1>4. v \in Int /\ v = v + (1 * v)
  BY <1>2, <1>3 DEF v
<1>5. v = 0
  BY <1>4
<1> QED
  BY <1>5 DEF v

LEMMA SplitValue ==
  ASSUME NEW m \in Nat, NEW n \in Nat, NEW x, NEW y, Ints(x, m + n), Above(y, x, m, n)
  PROVE  ValueOf(x, m + n) = ValueOf(x, m) + (Weight(m) * ValueOf(y, n))
<1> DEFINE Good == {k \in 0..n : ValueOf(x, m + k) = ValueOf(x, m) + (Weight(m) * ValueOf(y, k))}
<1>0. (\A i \in 1..m + n : x[i] \in Int) /\ (\A i \in 1..n : y[i] = x[m + i] /\ y[i] \in Int)
  BY DEF Ints, Above
<1>1. 0 \in Good
  <2>1. ValueOf(y, 0) = 0 /\ ValueOf(x, m) \in Int
    BY <1>0, ValueIs
  <2>2. Weight(m) * 0 = 0
    BY Weights
  <2> QED
    BY <2>1, <2>2
<1>2. ASSUME NEW k \in 0..n - 1, k \in Good PROVE k + 1 \in Good
  <2> DEFINE u == ValueOf(x, m)
             v == ValueOf(y, k)
             d == y[k + 1]
             a == Weight(m)
             b == Weight(k)
  <2>1. /\ k + 1 \in 1..n /\ k + 1 \in 0..n /\ k \in Nat
        /\ m + k \in 0..(m + n) - 1 /\ (m + k) + 1 = m + (k + 1) /\ m \in 0..m + n
    OBVIOUS
  <2>2. a \in Nat /\ b \in Nat /\ Weight(m + k) = a * b
    BY <2>1, Weights, WeightsMultiply
  <2>3. d \in Int /\ x[(m + k) + 1] = d
    BY <1>0, <2>1
  <2>4. /\ ValueOf(x, m + (k + 1)) = (u + (a * v)) + (d * (a * b)) /\ u \in Int
        /\ ValueOf(y, k + 1) = v + (d * b) /\ v \in Int
    <3>1. ValueOf(x, (m + k) + 1) = ValueOf(x, m + k) + (x[(m + k) + 1] * Weight(m + k))
      BY <1>0, <2>1, ValueIs
    <3>2. ValueOf(x, m + k) = u + (a * v)
      BY <1>2
    <3>3. u \in Int
      BY <1>0, <2>1, ValueIs
    <3>4. ValueOf(y, k + 1) = v + (d * b) /\ v \in Int
      BY <1>0, <2>1, ValueIs
    <3> QED
      BY <2>1, <2>2, <2>3, <3>1, <3>2, <3>3, <3>4
  <2> HIDE DEF u, v, d, a, b
  <2>5. (u + (a * v)) + (d * (a * b)) = u + (a * (v + (d * b)))
    BY <2>2, <2>3, <2>4
  <2>6. ValueOf(x, m + (k + 1)) = u + (a * ValueOf(y, k + 1))
    BY <2>4, <2>5
  <2> QED
    BY <2>1, <2>6 DEF u, a
<1>3. \A k \in 0..n : k \in Good
  <2> HIDE DEF Good
  <2> QED
    BY <1>1, <1>2, UpTo
<1> QED
  BY <1>3

(* z is x moved up by s words, with zeros around it. *)
Placed(z, x, s, n, r) == \A k \in 1..(s + n) + r : z[k] = Word(x, k - s)

LEMMA PlacedValue ==
  ASSUME NEW s \in Nat, NEW n \in Nat, NEW r \in Nat, NEW x \in [1..n -> Int], NEW z,
         Placed(z, x, s, n, r)
  PROVE  /\ Ints(z, (s + n) + r)
         /\ ValueOf(z, (s + n) + r) = Weight(s) * ValueOf(x, n)
<1> DEFINE high == [i \in 1..n + r |-> z[s + i]]
           top == [i \in 1..r |-> high[n + i]]
<1>0. \A k \in 1..(s + n) + r : z[k] = Word(x, k - s)
  BY DEF Placed
<1>1. Ints(z, (s + n) + r)
  BY <1>0 DEF Word, Ints
<1>2. Zeros(z, s)
  <2> SUFFICES ASSUME NEW i \in 1..s PROVE z[i] = 0
    BY DEF Zeros
  <2>1. i \in 1..(s + n) + r /\ i - s \notin 1..n
    OBVIOUS
  <2> QED
    BY <1>0, <2>1 DEF Word
<1>3. Same(x, high, n)
  <2> SUFFICES ASSUME NEW i \in 1..n PROVE high[i] = x[i]
    BY DEF Same
  <2>1. s + i \in 1..(s + n) + r /\ (s + i) - s = i /\ i \in 1..n + r
    OBVIOUS
  <2> QED
    BY <1>0, <2>1 DEF Word
<1>4. Zeros(top, r)
  <2> SUFFICES ASSUME NEW i \in 1..r PROVE top[i] = 0
    BY DEF Zeros
  <2>1. s + (n + i) \in 1..(s + n) + r /\ (s + (n + i)) - s \notin 1..n /\ n + i \in 1..n + r
    OBVIOUS
  <2> QED
    BY <1>0, <2>1 DEF Word
<1>8. Above(high, z, s, n + r) /\ Ints(high, n + r)
  <2> SUFFICES ASSUME NEW i \in 1..n + r PROVE high[i] = z[s + i] /\ high[i] \in Int
    BY DEF Above, Ints
  <2>1. s + i \in 1..(s + n) + r
    OBVIOUS
  <2> QED
    BY <1>1, <2>1 DEF Ints
<1>9. Above(top, high, n, r)
  BY DEF Above
<1> HIDE DEF high, top
<1>5. ValueOf(z, s) = 0
  BY <1>2, ZeroValue
<1>6. ValueOf(high, n) = ValueOf(x, n)
  BY <1>3, SameValue
<1>7. ValueOf(top, r) = 0
  BY <1>4, ZeroValue
<1>10. ValueOf(z, s + (n + r)) = ValueOf(z, s) + (Weight(s) * ValueOf(high, n + r))
  <2>1. n + r \in Nat /\ s + (n + r) = (s + n) + r
    OBVIOUS
  <2>2. Ints(z, s + (n + r))
    BY <1>1, <2>1
  <2> QED
    BY <1>8, <2>1, <2>2, SplitValue
<1>11. ValueOf(high, n + r) = ValueOf(high, n) + (Weight(n) * ValueOf(top, r))
  BY <1>8, <1>9, SplitValue
<1>12. Weight(n) \in Nat /\ Weight(s) \in Nat
  BY Weights
<1>13. ValueOf(x, n) \in Int
  BY ValueIsInt DEF Ints
<1>14. s + (n + r) = (s + n) + r
  OBVIOUS
<1> DEFINE v == ValueOf(x, n)
           a == Weight(s)
           b == Weight(n)
<1> HIDE DEF v, a, b
<1>15. a \in Nat /\ b \in Nat /\ v \in Int
  BY <1>12, <1>13 DEF a, b, v
<1>16. ValueOf(high, n + r) = v
  BY <1>6, <1>7, <1>11, <1>15 DEF v, b
<1> QED
  BY <1>1, <1>5, <1>10, <1>14, <1>15, <1>16 DEF v, a

-----------------------------------------------------------------------------
(* Numbers of any number of words *)

Digits(n) == [1..n -> Digit]

(* v in n words, and what does not fit in them. *)
Carries(pass, v, n) ==
  /\ pass.words \in Digits(n)
  /\ pass.over = v \div Weight(n)
  /\ ValueOf(pass.words, n) = v % Weight(n)

LEMMA DigitsAre ==
  ASSUME NEW n \in Nat, NEW x \in Digits(n)
  PROVE  x \in [1..n -> Int] /\ Ints(x, n) /\ ValueOf(x, n) \in 0..Weight(n) - 1
<1>1. x \in [1..n -> Digit]
  BY DEF Digits
<1>2. x \in [1..n -> Int] /\ Ints(x, n)
  BY <1>1, DigitsAreInt DEF Ints
<1>3. n \in 0..n
  OBVIOUS
<1>4. ValueOf(x, n) \in 0..Weight(n) - 1
  BY <1>1, <1>3, ValueBounds
<1> QED
  BY <1>2, <1>4

LEMMA PassCarries ==
  ASSUME NEW n \in Nat, NEW word \in [1..n -> Int]
  PROVE  Carries(Pass(word), ValueOf(word, n), n)
<1> DEFINE pass == Pass(word)
           v == ValueOf(word, n)
           u == ValueOf(pass.words, n)
           m == Weight(n)
           o == pass.over
<1>1. Passes(pass, word, n)
  BY PassIs
<1> HIDE DEF pass
<1>2. pass.words \in Digits(n) /\ o = Over(pass, n) /\ o \in Int
  <2>1. n \in 0..n
    OBVIOUS
  <2>2. pass.over = Over(pass, n) /\ Over(pass, n) \in Int
    BY <1>1, <2>1 DEF Passes
  <2> QED
    BY <1>1, <2>2 DEF Passes, Digits, Digit
<1>3. v = u + (Over(pass, n) * m)
  <2>1. n \in 0..n
    OBVIOUS
  <2> QED
    BY <1>1, <2>1, PassValue
<1>4. u \in 0..m - 1
  BY <1>2, DigitsAre
<1>5. m \in Nat \ {0}
  BY Weights
<1>6. v = (o * m) + u
  <2> HIDE DEF u, m, o
  <2>1. v = u + (o * m)
    BY <1>2, <1>3
  <2>2. u \in Int /\ o * m \in Int
    BY <1>2, <1>4, <1>5
  <2> HIDE DEF v
  <2> QED
    BY <2>1, <2>2
<1>7. v \div m = o /\ v % m = u
  <2> HIDE DEF u, m, o, v
  <2>1. v \in Int /\ v = (m * o) + u
    BY <1>2, <1>4, <1>5, <1>6
  <2> QED
    BY <1>2, <1>4, <1>5, <2>1, Quotients
<1> QED
  BY <1>2, <1>7 DEF Carries, pass

(* What is passed on stays in a set that every word keeps it in. *)
Keeps(word, n, S) == \A i \in 1..n : \A o \in S : (word[i] + o) \div Base \in S

LEMMA OversWithin ==
  ASSUME NEW n \in Nat, NEW word \in [1..n -> Int], NEW S, 0 \in S, Keeps(word, n, S)
  PROVE  Within(Pass(word), S)
<1> DEFINE pass == Pass(word)
           Good == {k \in 0..n : Over(pass, k) \in S}
<1>1. Passes(pass, word, n)
  BY PassIs
<1> HIDE DEF pass
<1>2. 0 \in Good
  BY DEF Over
<1>3. ASSUME NEW k \in 0..n - 1, k \in Good PROVE k + 1 \in Good
  <2>1. k + 1 \in 1..n /\ (k + 1) - 1 = k /\ k + 1 \in 0..n
    OBVIOUS
  <2>2. Over(pass, k + 1) = (word[k + 1] + Over(pass, k)) \div Base
    <3>1. pass.overs[k + 1] = (word[k + 1] + Over(pass, (k + 1) - 1)) \div Base
      BY <1>1, <2>1 DEF Passes
    <3>2. Over(pass, k + 1) = pass.overs[k + 1]
      BY <2>1 DEF Over
    <3> QED
      BY <2>1, <3>1, <3>2
  <2> QED
    BY <1>3, <2>1, <2>2 DEF Keeps
<1>4. \A k \in 0..n : k \in Good
  <2> HIDE DEF Good
  <2> QED
    BY <1>2, <1>3, UpTo
<1>5. pass.overs \in [1..n -> Int]
  BY <1>1 DEF Passes
<1>6. ASSUME NEW i \in DOMAIN pass.overs PROVE pass.overs[i] \in S
  <2>1. i \in 1..n
    BY <1>5
  <2>2. i \in Good
    BY <1>4, <2>1
  <2> QED
    BY <2>1, <2>2 DEF Over
<1> QED
  BY <1>6 DEF Within, pass

-----------------------------------------------------------------------------
(* Uint256 *)

Size == Weight(NumWords)

LEMMA SizeIs == Size \in Nat \ {0} /\ NumWords \in Nat /\ Uint = Digits(NumWords)
BY UintConstants, Weights DEF Size, Uint, Digits, Digit

LEMMA UintIs ==
  ASSUME NEW x \in Uint
  PROVE  /\ x \in [1..NumWords -> Int] /\ Ints(x, NumWords)
         /\ Value(x) \in 0..Size - 1
BY SizeIs, DigitsAre DEF Value, Size

LEMMA UintsDiffer ==
  ASSUME NEW x \in Uint, NEW y \in Uint, Value(x) = Value(y)
  PROVE  x = y
BY SizeIs, OneValue DEF Digits, Value

LEMMA CarriedValue ==
  ASSUME NEW x \in Uint, NEW y \in Uint, NEW c \in Int, NEW word,
         word \in [1..NumWords -> Int], Linear(word, x, c, y, NumWords)
  PROVE  Carries(Pass(word), Value(x) + (c * Value(y)), NumWords)
<1>1. ValueOf(word, NumWords) = Value(x) + (c * Value(y))
  BY SizeIs, LinearValue DEF Value
<1>2. Carries(Pass(word), ValueOf(word, NumWords), NumWords)
  BY SizeIs, PassCarries
<1> QED
  BY <1>1, <1>2

LEMMA AddCarries ==
  ASSUME NEW x \in Uint, NEW y \in Uint, NEW enable \in {0, 1}
  PROVE  Carries(AddPass(x, y, enable), Value(x) + (enable * Value(y)), NumWords)
<1> DEFINE word == [i \in 1..NumWords |-> x[i] + enable * y[i]]
<1>1. word \in [1..NumWords -> Int] /\ Linear(word, x, enable, y, NumWords)
  <2>1. \A i \in 1..NumWords : x[i] \in Int /\ y[i] \in Int
    BY UintIs
  <2> QED
    BY <2>1 DEF Linear
<1>2. Carries(Pass(word), Value(x) + (enable * Value(y)), NumWords)
  <2> HIDE DEF word
  <2>1. enable \in Int
    OBVIOUS
  <2> QED
    BY <1>1, <2>1, CarriedValue
<1> QED
  BY <1>2 DEF AddPass

LEMMA SubCarries ==
  ASSUME NEW x \in Uint, NEW y \in Uint, NEW enable \in {0, 1}
  PROVE  Carries(SubPass(x, y, enable), Value(x) + ((-enable) * Value(y)), NumWords)
<1> DEFINE word == [i \in 1..NumWords |-> x[i] - enable * y[i]]
<1>1. word \in [1..NumWords -> Int] /\ Linear(word, x, -enable, y, NumWords)
  <2>1. \A i \in 1..NumWords : x[i] \in Int /\ y[i] \in Int
    BY UintIs
  <2>2. \A i \in 1..NumWords : x[i] - enable * y[i] = x[i] + ((-enable) * y[i])
    BY <2>1
  <2> QED
    BY <2>1, <2>2 DEF Linear
<1>2. Carries(Pass(word), Value(x) + ((-enable) * Value(y)), NumWords)
  <2> HIDE DEF word
  <2>1. -enable \in Int
    OBVIOUS
  <2> QED
    BY <1>1, <2>1, CarriedValue
<1> QED
  BY <1>2 DEF SubPass

(* What add leaves in its object, and the carry. *)
LEMMA AddIs ==
  ASSUME NEW x \in Uint, NEW y \in Uint
  PROVE  /\ Add(x, y, 1) \in Uint
         /\ Value(Add(x, y, 1)) = (Value(x) + Value(y)) % Size
         /\ Carry(x, y, 1) = (Value(x) + Value(y)) \div Size
         /\ Add(x, y, 0) = x /\ Carry(x, y, 0) = 0
<1> DEFINE u == Value(x)
           v == Value(y)
<1>1. u \in 0..Size - 1 /\ v \in 0..Size - 1 /\ Size \in Nat \ {0}
  BY UintIs, SizeIs
<1>2. Carries(AddPass(x, y, 1), u + (1 * v), NumWords)
  BY AddCarries
<1>3. Carries(AddPass(x, y, 0), u + (0 * v), NumWords)
  BY AddCarries
<1> HIDE DEF u, v
<1>4. u + (1 * v) = u + v /\ u + (0 * v) = u
  BY <1>1
<1>5. /\ Add(x, y, 1) \in Uint
      /\ Value(Add(x, y, 1)) = (u + v) % Size
      /\ Carry(x, y, 1) = (u + v) \div Size
  BY <1>2, <1>4, SizeIs DEF Carries, Add, Carry, Value, Size
<1>6. /\ Add(x, y, 0) \in Uint
      /\ Value(Add(x, y, 0)) = u % Size
      /\ Carry(x, y, 0) = u \div Size
  BY <1>3, <1>4, SizeIs DEF Carries, Add, Carry, Value, Size
<1>7. u \div Size = 0 /\ u % Size = u
  BY <1>1, OneBit
<1>8. Add(x, y, 0) = x
  BY <1>6, <1>7, UintsDiffer DEF u
<1> QED
  BY <1>5, <1>6, <1>7, <1>8 DEF u, v

LEMMA SubtractIs ==
  ASSUME NEW x \in Uint, NEW y \in Uint
  PROVE  /\ Subtract(x, y, 1) \in Uint
         /\ Value(Subtract(x, y, 1)) = (Value(x) - Value(y)) % Size
         /\ Borrow(x, y, 1) = Bit(Value(x) < Value(y))
         /\ Subtract(x, y, 0) = x /\ Borrow(x, y, 0) = 0
<1> DEFINE u == Value(x)
           v == Value(y)
<1>1. u \in 0..Size - 1 /\ v \in 0..Size - 1 /\ Size \in Nat \ {0}
  BY UintIs, SizeIs
<1>2. Carries(SubPass(x, y, 1), u + ((-1) * v), NumWords)
  BY SubCarries
<1>3. Carries(SubPass(x, y, 0), u + ((-0) * v), NumWords)
  BY SubCarries
<1> HIDE DEF u, v
<1>4. u + ((-1) * v) = u - v /\ u + ((-0) * v) = u
  BY <1>1
<1>5. /\ Subtract(x, y, 1) \in Uint
      /\ Value(Subtract(x, y, 1)) = (u - v) % Size
      /\ Borrow(x, y, 1) = -((u - v) \div Size)
  BY <1>2, <1>4, SizeIs DEF Carries, Subtract, Borrow, Value, Size
<1>6. /\ Subtract(x, y, 0) \in Uint
      /\ Value(Subtract(x, y, 0)) = u % Size
      /\ Borrow(x, y, 0) = -(u \div Size)
  BY <1>3, <1>4, SizeIs DEF Carries, Subtract, Borrow, Value, Size
<1>7. u \div Size = 0 /\ u % Size = u
  BY <1>1, OneBit
<1>8. Subtract(x, y, 0) = x
  BY <1>6, <1>7, UintsDiffer DEF u
<1>9. -((u - v) \div Size) = Bit(u < v)
  <2> DEFINE d == u - v
  <2>1. d \in Int /\ (u < v => d \in -Size..-1) /\ (~(u < v) => d \in 0..Size - 1)
    BY <1>1
  <2> HIDE DEF d
  <2>2. (d \in -Size..-1 => d \div Size = -1) /\ (d \in 0..Size - 1 => d \div Size = 0)
    BY <1>1, <2>1, OneBit
  <2>3. u < v => -(d \div Size) = 1
    BY <2>1, <2>2
  <2>4. ~(u < v) => -(d \div Size) = 0
    BY <2>1, <2>2
  <2> QED
    BY <2>3, <2>4 DEF Bit, d
<1> QED
  BY <1>5, <1>6, <1>7, <1>8, <1>9 DEF u, v

(* The assertions of add and subtract. *)
LEMMA CarriesAre ==
  ASSUME NEW x \in Uint, NEW y \in Uint, NEW enable \in {0, 1}
  PROVE  CarriesAreBits(x, y, enable)
<1>1. \A i \in 1..NumWords : x[i] \in 0..Base - 1 /\ y[i] \in 0..Base - 1
  BY DEF Uint
<1>2. Base \in Nat \ {0} /\ NumWords \in Nat
  BY BaseIs, UintConstants
<1>3. Within(AddPass(x, y, enable), 0..1)
  <2> DEFINE word == [i \in 1..NumWords |-> x[i] + enable * y[i]]
             S == 0..1
  <2>1. word \in [1..NumWords -> Int]
    BY <1>1
  <2>2. ASSUME NEW i \in 1..NumWords, NEW o \in S PROVE (word[i] + o) \div Base \in S
    <3> DEFINE v == word[i] + o
    <3>1. v \in 0..Base - 1 \/ v \in Base..(2 * Base) - 1
      BY <1>1, <1>2
    <3>2. v \in Int
      BY <1>1
    <3> HIDE DEF v
    <3>3. v \div Base \in S
      BY <1>2, <3>1, <3>2, OneBit
    <3> QED
      BY <3>3 DEF v
  <2> HIDE DEF word
  <2>3. Keeps(word, NumWords, S)
    BY <2>2 DEF Keeps
  <2>4. 0 \in S
    OBVIOUS
  <2> HIDE DEF S
  <2>5. Within(Pass(word), S)
    BY <1>2, <2>1, <2>3, <2>4, OversWithin
  <2> QED
    BY <2>5 DEF AddPass, word, S
<1>4. Within(SubPass(x, y, enable), -1..0)
  <2> DEFINE word == [i \in 1..NumWords |-> x[i] - enable * y[i]]
             S == -1..0
  <2>1. word \in [1..NumWords -> Int]
    BY <1>1
  <2>2. ASSUME NEW i \in 1..NumWords, NEW o \in S PROVE (word[i] + o) \div Base \in S
    <3> DEFINE v == word[i] + o
    <3>1. v \in 0..Base - 1 \/ v \in -Base..-1
      BY <1>1, <1>2
    <3>2. v \in Int
      BY <1>1
    <3> HIDE DEF v
    <3>3. v \div Base \in S
      BY <1>2, <3>1, <3>2, OneBit
    <3> QED
      BY <3>3 DEF v
  <2> HIDE DEF word
  <2>3. Keeps(word, NumWords, S)
    BY <2>2 DEF Keeps
  <2>4. 0 \in S
    OBVIOUS
  <2> HIDE DEF S
  <2>5. Within(Pass(word), S)
    BY <1>2, <2>1, <2>3, <2>4, OversWithin
  <2> QED
    BY <2>5 DEF SubPass, word, S
<1> QED
  BY <1>3, <1>4 DEF CarriesAreBits

LEMMA LessIs ==
  ASSUME NEW x \in Uint, NEW y \in Uint
  PROVE  Less(x, y) <=> Value(x) < Value(y)
<1> DEFINE n == NumWords
           lt(i) == x[i] < y[i]
           same(i) == x[i] = y[i]
           below(k) == ValueOf(x, k) < ValueOf(y, k)
           step == [i \in 1..n |-> [b \in BOOLEAN |-> IF same(i) THEN b ELSE lt(i)]]
           eq(p) == p = [i \in 0..n |-> IF i = 0 THEN FALSE
                                        ELSE IF same(i) THEN p[i - 1] ELSE lt(i)]
           less == CHOOSE p : eq(p)
<1>0. \A i \in 1..n : x[i] \in Int /\ y[i] \in Int
  BY UintIs
<1>1. (\A i : lt(i) \in BOOLEAN) /\ (\A i : same(i) \in BOOLEAN) /\ (\A k : below(k) \in BOOLEAN)
  OBVIOUS
<1>2. Less(x, y) = less[n]
  BY DEF Less
<1>3. /\ \A i \in 1..n : same(i) \/ lt(i) \/ y[i] < x[i]
      /\ \A i \in 1..n : lt(i) => ~same(i)
      /\ \A i \in 1..n : y[i] < x[i] => ~same(i) /\ ~lt(i)
  BY <1>0
<1> HIDE DEF lt, same, below
<1>4. /\ step \in [1..n -> [BOOLEAN -> BOOLEAN]]
      /\ \A i \in 1..n, b \in BOOLEAN : step[i][b] = IF same(i) THEN b ELSE lt(i)
  BY <1>1
<1> HIDE DEF step
<1>5. PICK f \in [0..n -> BOOLEAN] : Solves(f, n, FALSE, step)
  <2>1. n \in Nat /\ FALSE \in BOOLEAN
    BY SizeIs
  <2> QED
    BY <1>4, <2>1, RecursionHasSolution
<1>6. eq(f)
  <2>1. f[0] = FALSE
    BY <1>5 DEF Solves
  <2>2. ASSUME NEW k \in 1..n PROVE f[k] = IF same(k) THEN f[k - 1] ELSE lt(k)
    <3>1. f[k] = step[k][f[k - 1]]
      BY <1>5 DEF Solves
    <3>2. f[k - 1] \in BOOLEAN
      <4>1. k - 1 \in 0..n
        BY SizeIs
      <4> QED
        BY <4>1
    <3> QED
      BY <1>4, <3>1, <3>2
  <2>3. \A k \in 0..n : k = 0 \/ (k # 0 /\ k \in 1..n)
    BY SizeIs
  <2> QED
    BY <2>1, <2>2, <2>3
<1>7. less = [i \in 0..n |-> IF i = 0 THEN FALSE ELSE IF same(i) THEN less[i - 1] ELSE lt(i)]
  <2>1. eq(less)
    <3> HIDE DEF eq
    <3> QED
      BY <1>6
  <2> QED
    BY <2>1
<1> HIDE DEF less
<1>8. less[0] = FALSE
  <2>1. 0 \in 0..n
    BY SizeIs
  <2> QED
    BY <1>7, <2>1
<1>9. ASSUME NEW k \in 1..n PROVE less[k] = IF same(k) THEN less[k - 1] ELSE lt(k)
  <2>1. k \in 0..n /\ k # 0
    BY SizeIs
  <2> QED
    BY <1>7, <2>1
<1> DEFINE Good == {k \in 0..n : less[k] = below(k)}
<1>10. 0 \in Good
  <2>1. ValueOf(x, 0) = 0 /\ ValueOf(y, 0) = 0
    BY <1>0, SizeIs, ValueIs
  <2>2. ~below(0) /\ 0 \in 0..n
    BY <2>1, SizeIs DEF below
  <2>3. below(0) = FALSE
    BY <1>1, <2>2
  <2> QED
    BY <1>8, <2>2, <2>3
<1>11. ASSUME NEW k \in 0..n - 1, k \in Good PROVE k + 1 \in Good
  <2> DEFINE d == x[k + 1]
             e == y[k + 1]
             m == Weight(k)
             u == ValueOf(x, k)
             v == ValueOf(y, k)
  <2>1. /\ k + 1 \in 1..n /\ k + 1 \in 0..n /\ k \in 0..n /\ k \in Nat /\ d \in Int /\ e \in Int
        /\ (k + 1) - 1 = k
    BY <1>0, SizeIs
  <2>2. /\ ValueOf(x, k + 1) = u + (d * m) /\ u \in 0..m - 1
        /\ ValueOf(y, k + 1) = v + (e * m) /\ v \in 0..m - 1
    <3>1. x \in [1..n -> Digit] /\ y \in [1..n -> Digit] /\ n \in Nat
      BY SizeIs DEF Digits
    <3>2. /\ ValueOf(x, k + 1) = u + (d * m)
          /\ ValueOf(y, k + 1) = v + (e * m)
      BY <1>0, <3>1, ValueIs
    <3>3. u \in 0..m - 1 /\ v \in 0..m - 1
      BY <2>1, <3>1, ValueBounds
    <3> QED
      BY <3>2, <3>3
  <2>3. m \in Nat \ {0}
    BY <2>1, Weights
  <2>4. less[k + 1] = IF same(k + 1) THEN less[k] ELSE lt(k + 1)
    <3>1. less[k + 1] = IF same(k + 1) THEN less[(k + 1) - 1] ELSE lt(k + 1)
      BY <1>9, <2>1
    <3> QED
      BY <2>1, <3>1
  <2>5. less[k] = below(k)
    BY <1>11
  <2>6. below(k) <=> u < v
    BY DEF below
  <2>7. below(k + 1) <=> u + (d * m) < v + (e * m)
    BY <2>2 DEF below
  <2>8. (same(k + 1) <=> d = e) /\ (lt(k + 1) <=> d < e)
    BY DEF same, lt
  <2> HIDE DEF d, e, m, u, v
  <2>9. CASE d = e
    <3>1. d * m \in Int
      BY <2>1, <2>3
    <3>2. u < v <=> u + (d * m) < v + (d * m)
      BY <2>2, <3>1
    <3>3. below(k + 1) <=> below(k)
      BY <2>6, <2>7, <2>9, <3>2
    <3>4. less[k + 1] = less[k] /\ below(k + 1) = below(k)
      BY <1>1, <2>4, <2>8, <2>9, <3>3
    <3> QED
      BY <2>1, <2>5, <3>4
  <2>10. CASE d < e
    <3>1. m * (d + 1) <= m * e /\ m * (d + 1) = (d * m) + m /\ m * e = e * m
      BY <2>1, <2>3, <2>10, ProductsOrdered
    <3>2. d * m \in Int /\ e * m \in Int
      BY <2>1, <2>3
    <3>3. u + (d * m) < v + (e * m)
      BY <2>2, <2>3, <3>1, <3>2
    <3>4. below(k + 1) = TRUE /\ lt(k + 1) = TRUE /\ ~same(k + 1)
      BY <1>1, <1>3, <2>1, <2>7, <2>8, <2>10, <3>3
    <3>5. less[k + 1] = below(k + 1)
      BY <2>4, <3>4
    <3> QED
      BY <2>1, <3>5
  <2>11. CASE e < d
    <3>1. m * (e + 1) <= m * d /\ m * (e + 1) = (e * m) + m /\ m * d = d * m
      BY <2>1, <2>3, <2>11, ProductsOrdered
    <3>2. d * m \in Int /\ e * m \in Int
      BY <2>1, <2>3
    <3>3. ~(u + (d * m) < v + (e * m))
      BY <2>2, <2>3, <3>1, <3>2
    <3>4. ~(d = e) /\ ~(d < e)
      BY <2>1, <2>11
    <3>5. below(k + 1) = FALSE /\ lt(k + 1) = FALSE /\ ~same(k + 1)
      BY <1>1, <2>7, <2>8, <3>3, <3>4
    <3>6. less[k + 1] = below(k + 1)
      BY <2>4, <3>5
    <3> QED
      BY <2>1, <3>6
  <2>12. d = e \/ d < e \/ e < d
    BY <2>1
  <2> QED
    BY <2>9, <2>10, <2>11, <2>12
<1>12. n \in Good
  <2>1. n \in Nat /\ n \in 0..n
    BY SizeIs
  <2> HIDE DEF Good
  <2> QED
    BY <1>10, <1>11, <2>1, UpTo
<1> QED
  BY <1>2, <1>12 DEF Value, below

LEMMA ShiftLeft1Is ==
  ASSUME NEW x \in Uint
  PROVE  /\ ShiftLeft1(x) \in Uint
         /\ Value(ShiftLeft1(x)) = (2 * Value(x)) % Size
         /\ TopBit(x[NumWords]) = (2 * Value(x)) \div Size
<1> DEFINE word == [i \in 1..NumWords |-> 2 * x[i]]
           v == Value(x)
<1>1. word \in [1..NumWords -> Int] /\ Linear(word, x, 1, x, NumWords)
  <2>1. \A i \in 1..NumWords : x[i] \in Int
    BY UintIs
  <2> QED
    BY <2>1 DEF Linear
<1>2. v \in 0..Size - 1 /\ Size \in Nat \ {0}
  BY UintIs, SizeIs
<1>3. Carries(Pass(word), v + (1 * v), NumWords)
  <2> HIDE DEF word
  <2> QED
    BY <1>1, CarriedValue
<1>4. v + (1 * v) = 2 * v
  <2> HIDE DEF v
  <2> QED
    BY <1>2
<1>5. ShiftLeft1(x) \in Uint /\ Value(ShiftLeft1(x)) = (2 * v) % Size
  <2> HIDE DEF v
  <2> QED
    BY <1>3, <1>4, SizeIs DEF Carries, ShiftLeft1, Words, Value, Size
<1>6. TopBit(x[NumWords]) = (2 * v) \div Size
  <2> DEFINE k == NumWords - 1
             d == x[NumWords]
             h == Base \div 2
             m == Weight(k)
             u == ValueOf(x, k)
             t == d \div h
             r == d % h
  <2>1. k \in Nat /\ k + 1 = NumWords /\ k \in 0..NumWords - 1 /\ k \in 0..NumWords
    BY UintConstants
  <2>2. /\ v = u + (d * m) /\ u \in 0..m - 1 /\ d \in 0..Base - 1
    <3>1. x \in [1..NumWords -> Digit] /\ \A i \in 1..NumWords : x[i] \in Int
      BY SizeIs, UintIs DEF Digits
    <3>2. ValueOf(x, k + 1) = ValueOf(x, k) + (x[k + 1] * Weight(k))
      <4>1. NumWords \in Nat
        BY SizeIs
      <4> HIDE DEF k
      <4> QED
        BY <2>1, <3>1, <4>1, ValueIs
    <3>3. u \in 0..m - 1
      BY <2>1, <3>1, ValueBounds
    <3>4. d \in 0..Base - 1
      BY <2>1, <3>1 DEF Digit
    <3> QED
      BY <2>1, <3>2, <3>3, <3>4 DEF Value
  <2>3. m \in Nat \ {0} /\ Size = Base * m
    BY <2>1, Weights DEF Size
  <2>4. Base = 2 * h /\ h \in Nat \ {0} /\ Base \in Nat
    BY BaseIs
  <2> HIDE DEF d, h, m, u, v
  <2>5. t \in Int /\ r \in 0..h - 1 /\ d = (h * t) + r
    BY <2>2, <2>4, Division
  <2> HIDE DEF t, r
  <2> DEFINE s == (2 * u) + (2 * (r * m))
  <2>6. 2 * v = (Size * t) + s
    BY <2>2, <2>3, <2>4, <2>5
  <2>7. s \in 0..Size - 1
    <3>1. m * r <= m * (h - 1) /\ m * (h - 1) = (m * h) - m /\ m * r \in Nat
      BY <2>3, <2>4, <2>5, ProductsOrdered
    <3>2. m * h \in Int /\ 2 * (m * h) = Size /\ m * r = r * m
      BY <2>3, <2>4, <2>5
    <3> QED
      BY <2>2, <2>3, <3>1, <3>2
  <2> HIDE DEF s
  <2>8. 2 * v \in Int
    BY <1>2
  <2> DEFINE w == 2 * v
  <2> HIDE DEF w
  <2>9. w \div Size = t
    BY <1>2, <2>5, <2>6, <2>7, <2>8, Quotients DEF w
  <2> QED
    BY <2>9 DEF TopBit, t, d, h, w
<1> QED
  BY <1>5, <1>6 DEF v

-----------------------------------------------------------------------------
(* Halving *)

LEMMA ShiftRight1Is ==
  ASSUME NEW x \in Uint
  PROVE  /\ ShiftRight1(x, 1) \in Uint
         /\ Value(ShiftRight1(x, 1)) = Value(x) \div 2
         /\ x[1] % 2 = Value(x) % 2
         /\ ShiftRight1(x, 0) = x
<1> DEFINE z == ShiftRight1(x, 1)
           n == NumWords
           h == Base \div 2
           low(k) == Word(x, k + 1) % 2
<1>0. x \in [1..n -> Digit] /\ (\A i \in 1..n : x[i] \in 0..Base - 1) /\ n \in Nat \ {0, 1}
  BY SizeIs, UintConstants DEF Digits, Digit
<1>1. Base = 2 * h /\ h \in Nat \ {0} /\ Base \in Nat
  BY BaseIs
<1>2. ASSUME NEW k \in 0..n PROVE low(k) \in {0, 1} /\ (k < n => low(k) = x[k + 1] % 2) /\ low(n) = 0
  <2>1. k < n => Word(x, k + 1) = x[k + 1] /\ x[k + 1] \in Int
    BY <1>0, <1>1 DEF Word
  <2>2. Word(x, n + 1) = 0
    BY <1>0 DEF Word
  <2>3. Word(x, k + 1) \in Int
    BY <1>0, <2>1, <2>2
  <2>4. 0 % 2 = 0
    OBVIOUS
  <2> QED
    BY <2>1, <2>2, <2>3, <2>4, Halves
<1>3. ASSUME NEW i \in 1..n
      PROVE  /\ z[i] \in 0..Base - 1
             /\ 2 * z[i] = (x[i] - (x[i] % 2)) + (low(i) * Base)
  <2>1. z[i] = x[i] \div 2 + (low(i) * h)
    BY <1>0 DEF ShiftRight1
  <2>2. low(i) \in {0, 1}
    BY <1>0, <1>2
  <2> DEFINE d == x[i]
             q == d \div 2
             r == d % 2
             o == low(i)
             e == z[i]
  <2>3. d \in 0..Base - 1 /\ o \in {0, 1} /\ e = q + (o * h)
    BY <1>0, <2>1, <2>2
  <2>4. d \in Int
    BY <1>0, <1>1
  <2> HIDE DEF o, z, d, h, e
  <2>5. q \in Int /\ r \in {0, 1} /\ d = (2 * q) + r
    BY <2>4, Halves
  <2> HIDE DEF q, r
  <2>6. o * h \in 0..h /\ o * Base = 2 * (o * h)
    BY <1>1, <2>3
  <2> DEFINE g == o * h
             f == o * Base
  <2> HIDE DEF g, f
  <2>7. e = q + g /\ g \in 0..h /\ f = 2 * g
    BY <2>3, <2>6 DEF g, f
  <2>8. e \in 0..Base - 1 /\ 2 * e = (d - r) + f
    BY <1>1, <2>3, <2>5, <2>7
  <2> QED
    BY <2>8 DEF d, e, r, f, o
<1>4. z \in Digits(n) /\ z \in Uint
  <2>1. z = [i \in 1..n |-> z[i]]
    BY DEF ShiftRight1
  <2> HIDE DEF z
  <2> QED
    BY <1>3, <2>1, SizeIs DEF Digits, Digit
<1> DEFINE a == x[1] % 2
           Good == {k \in 0..n : (2 * ValueOf(z, k)) + a = ValueOf(x, k) + (low(k) * Weight(k))}
<1>5. (\A i \in 1..n : x[i] \in Int /\ z[i] \in Int) /\ a \in {0, 1}
  <2>1. ASSUME NEW i \in 1..n
        PROVE  x[i] \in Int /\ z[i] \in Int
    <3>1. x[i] \in 0..Base - 1 /\ z[i] \in 0..Base - 1
      BY <1>0, <1>3
    <3> HIDE DEF z
    <3> QED
      BY <1>1, <3>1
  <2>2. 1 \in 1..n
    BY <1>0
  <2> QED
    BY <2>1, <2>2, Halves
<1>6. 0 \in Good
  <2>1. ValueOf(x, 0) = 0 /\ ValueOf(z, 0) = 0 /\ Weight(0) = 1
    BY <1>0, <1>5, ValueIs, Weights
  <2>2. low(0) = a
    BY <1>0, <1>2
  <2> HIDE DEF a, low
  <2> QED
    BY <1>0, <1>5, <2>1, <2>2
<1>7. ASSUME NEW k \in 0..n - 1, k \in Good PROVE k + 1 \in Good
  <2> DEFINE d == x[k + 1]
             e == z[k + 1]
             m == Weight(k)
             u == ValueOf(x, k)
             v == ValueOf(z, k)
             o == low(k)
             p == low(k + 1)
  <2>1. k + 1 \in 1..n /\ k + 1 \in 0..n /\ k \in 0..n /\ k \in Nat /\ d \in Int /\ e \in Int /\ k < n
    BY <1>0, <1>5
  <2>2. /\ ValueOf(x, k + 1) = u + (d * m) /\ u \in Int
        /\ ValueOf(z, k + 1) = v + (e * m) /\ v \in Int
    <3> HIDE DEF z
    <3> QED
      BY <1>0, <1>5, <2>1, ValueIs
  <2>3. m \in Nat \ {0} /\ Weight(k + 1) = Base * m
    BY <2>1, Weights
  <2>4. o \in {0, 1} /\ p \in {0, 1} /\ o = d % 2
    BY <1>2, <2>1
  <2>5. 2 * e = (d - o) + (p * Base)
    BY <1>3, <2>1, <2>4
  <2>6. (2 * v) + a = u + (o * m)
    BY <1>7
  <2> HIDE DEF d, e, m, u, v, o, p, a, z, low
  <2>7. (2 * (v + (e * m))) + a = (u + (d * m)) + (p * (Base * m))
    <3>1. 2 * (e * m) = ((d - o) + (p * Base)) * m
      <4>1. (2 * e) * m = 2 * (e * m)
        BY <2>1, <2>3
      <4> QED
        BY <2>5, <4>1
    <3>2. ((d - o) + (p * Base)) * m = ((d * m) - (o * m)) + (p * (Base * m))
      BY <1>1, <2>1, <2>3, <2>4
    <3>3. d * m \in Int /\ o * m \in Int /\ p * (Base * m) \in Int /\ e * m \in Int
      BY <1>1, <2>1, <2>3, <2>4
    <3> QED
      BY <1>5, <2>2, <2>6, <3>1, <3>2, <3>3
  <2>8. (2 * ValueOf(z, k + 1)) + a = ValueOf(x, k + 1) + (p * Weight(k + 1))
    BY <2>2, <2>3, <2>7
  <2> QED
    BY <2>1, <2>8 DEF p
<1>8. \A k \in 0..n : k \in Good
  <2> HIDE DEF Good
  <2> QED
    BY <1>0, <1>6, <1>7, UpTo
<1> DEFINE t == Value(z)
           v == Value(x)
<1>9. (2 * t) + a = v /\ t \in Int /\ v \in Int
  <2>1. low(n) = 0 /\ Weight(n) \in Nat /\ n \in 0..n
    BY <1>0, <1>2, Weights
  <2>2. (2 * t) + a = v + (low(n) * Weight(n))
    BY <1>8, <2>1 DEF Value
  <2>3. t \in Int /\ v \in Int
    BY <1>4, UintIs
  <2> HIDE DEF t, v, a, low, z
  <2> QED
    BY <2>1, <2>2, <2>3
<1>10. v \div 2 = t /\ v % 2 = a
  <2> HIDE DEF t, v, a, z
  <2>1. a \in 0..2 - 1 /\ v = (2 * t) + a /\ 2 \in Nat \ {0}
    BY <1>5, <1>9
  <2> QED
    BY <1>9, <2>1, Quotients
<1>11. ShiftRight1(x, 0) = x
  BY <1>0 DEF ShiftRight1
<1> QED
  BY <1>4, <1>10, <1>11

-----------------------------------------------------------------------------
(* The prime *)

(* The words of a number: x holds the last n of v. *)
WordsOf(x, v, n) == \A i \in 1..n : x[i] = (v \div Weight(i - 1)) % Base

LEMMA WordsValue ==
  ASSUME NEW n \in Nat, NEW v \in Int, NEW x, WordsOf(x, v, n)
  PROVE  /\ \A i \in 1..n : x[i] \in Digit
         /\ ValueOf(x, n) = v % Weight(n)
<1> DEFINE Good == {k \in 0..n : ValueOf(x, k) = v % Weight(k)}
<1>1. ASSUME NEW i \in 1..n PROVE x[i] \in Digit
  <2> DEFINE m == Weight(i - 1)
             q == v \div m
  <2>1. m \in Nat \ {0}
    <3>1. i - 1 \in Nat
      OBVIOUS
    <3> QED
      BY <3>1, Weights
  <2> HIDE DEF m
  <2>2. q \in Int
    BY <2>1, Division
  <2>3. x[i] = q % Base
    BY DEF WordsOf, m
  <2> HIDE DEF q
  <2>4. q % Base \in 0..Base - 1
    BY <2>2, BaseIs, Division
  <2> QED
    BY <2>3, <2>4 DEF Digit
<1>2. \A i \in 1..n : x[i] \in Int
  BY <1>1, BaseIs DEF Digit
<1>3. 0 \in Good
  <2>1. ValueOf(x, 0) = 0 /\ Weight(0) = 1
    BY <1>2, ValueIs, Weights
  <2>2. v % 1 = 0
    OBVIOUS
  <2> QED
    BY <2>1, <2>2
<1>4. ASSUME NEW k \in 0..n - 1, k \in Good PROVE k + 1 \in Good
  <2> DEFINE m == Weight(k)
             d == x[k + 1]
  <2>1. k \in Nat /\ k + 1 \in 1..n /\ k + 1 \in 0..n /\ (k + 1) - 1 = k /\ d \in Int
    BY <1>2
  <2>2. ValueOf(x, k + 1) = ValueOf(x, k) + (d * m)
    BY <1>2, ValueIs
  <2>3. d = (v \div m) % Base
    <3>1. d = (v \div Weight((k + 1) - 1)) % Base
      BY <2>1 DEF WordsOf
    <3> QED
      BY <2>1, <3>1
  <2>4. m \in Nat \ {0} /\ Weight(k + 1) = Base * m
    BY <2>1, Weights
  <2>5. ValueOf(x, k) = v % m
    BY <1>4
  <2> HIDE DEF d, m
  <2>6. v % (Base * m) = (((v \div m) % Base) * m) + (v % m)
    <3>1. Base \in Nat \ {0}
      BY BaseIs
    <3> QED
      BY <2>4, <3>1, DivTwice
  <2> DEFINE r == v % m
  <2>7. r \in Int /\ d * m \in Int
    BY <2>1, <2>4, Division
  <2> HIDE DEF r
  <2>8. ValueOf(x, k + 1) = r + (d * m) /\ v % (Base * m) = (d * m) + r
    BY <2>2, <2>3, <2>5, <2>6 DEF r
  <2>9. ValueOf(x, k + 1) = v % (Base * m)
    BY <2>7, <2>8
  <2> QED
    BY <2>1, <2>4, <2>9
<1>5. \A k \in 0..n : k \in Good
  <2> HIDE DEF Good
  <2> QED
    BY <1>3, <1>4, UpTo
<1>6. n \in 0..n
  OBVIOUS
<1> QED
  BY <1>1, <1>5, <1>6

(* What is missing to the largest number. *)
Gap == Base + Excess

LEMMA PIs ==
  /\ P \in Nat /\ Gap \in Nat /\ Gap > Base /\ Gap * Gap < P /\ P = Size - Gap
  /\ 9 < P /\ P < Size /\ Size < 2 * P /\ Gap < P
<1>1. Base \in Nat /\ Base >= 2 /\ Excess \in 1..Base - 1
  BY BaseIs, FieldConstants
<1>2. Gap \in Nat /\ Gap >= 3 /\ Gap > Base
  BY <1>1 DEF Gap
<1>3. Gap * Gap < P
  BY FieldConstants DEF Gap
<1>4. P = Size - Gap /\ P \in Int
  BY <1>1, SizeIs DEF P, Size, Gap, Weight
<1>5. 3 * Gap <= Gap * Gap /\ Gap * Gap \in Nat
  BY <1>2
<1> HIDE DEF Gap
<1> DEFINE g == Gap * Gap
<1> HIDE DEF g
<1>6. g \in Nat /\ g < P /\ 3 * Gap <= g
  BY <1>3, <1>5 DEF g
<1> QED
  BY <1>2, <1>3, <1>4, <1>6, SizeIs

LEMMA PIsPrime == (\A n \in 2..P - 1 : P % n # 0) /\ P % 2 = 1
<1>1. \A n \in 2..P - 1 : P % n # 0
  BY FieldConstants
<1>2. 2 \in 2..P - 1
  BY PIs
<1>3. P % 2 # 0 /\ P % 2 \in {0, 1}
  BY <1>1, <1>2, PIs, Halves
<1> QED
  BY <1>1, <1>3

LEMMA ModulusIs == MODULUS \in Uint /\ Value(MODULUS) = P /\ MODULUS[1] % 2 = 1
<1>1. WordsOf(MODULUS, P, NumWords) /\ MODULUS = [i \in 1..NumWords |-> MODULUS[i]]
  BY DEF MODULUS, WordsOf, Weight
<1>2. \A i \in 1..NumWords : MODULUS[i] \in Digit
  BY <1>1, SizeIs, PIs, WordsValue
<1>3. MODULUS \in Uint
  BY <1>1, <1>2, SizeIs DEF Digits
<1>4. Value(MODULUS) = P % Size
  BY <1>1, SizeIs, PIs, WordsValue DEF Value, Size
<1>5. P \in 0..Size - 1 /\ P \in Int
  BY PIs, SizeIs
<1>6. P % Size = P
  BY <1>5, PIs, SizeIs, OneBit
<1>7. MODULUS[1] % 2 = P % 2
  BY <1>3, <1>4, <1>6, ShiftRight1Is
<1> QED
  BY <1>3, <1>4, <1>6, <1>7, PIsPrime

(* The last step of the methods of FieldInt: t is below twice the prime,   *)
(* x holds what of it fits in the words, high says whether all of it does. *)
LEMMA Reduced ==
  ASSUME NEW t \in Int, 0 <= t, t < 2 * P, NEW x \in Uint, Value(x) = t % Size,
         NEW high \in BOOLEAN, high <=> t >= Size
  PROVE  /\ Subtract(x, MODULUS, Bit(high \/ ~Less(x, MODULUS))) \in Uint
         /\ Value(Subtract(x, MODULUS, Bit(high \/ ~Less(x, MODULUS)))) = t % P
<1> DEFINE v == Value(x)
           z == Subtract(x, MODULUS, 1)
<1>1. P \in Nat \ {0} /\ Size \in Nat \ {0} /\ P < Size /\ Size < 2 * P
  BY PIs, SizeIs
<1>2. Less(x, MODULUS) <=> v < P
  BY ModulusIs, LessIs
<1>3. t < Size => v = t
  BY <1>1, OneBit
<1>4. t >= Size => v = t - Size
  BY <1>1, OneBit
<1>5. high \/ ~Less(x, MODULUS) <=> t >= P
  <2>1. CASE t < Size
    BY <1>1, <1>2, <1>3, <2>1
  <2>2. CASE t >= Size
    BY <1>1, <2>2
  <2> QED
    BY <1>1, <2>1, <2>2
<1>6. CASE t < P
  <2>1. Bit(high \/ ~Less(x, MODULUS)) = 0
    BY <1>1, <1>5, <1>6 DEF Bit
  <2>2. Subtract(x, MODULUS, 0) = x
    BY ModulusIs, SubtractIs
  <2>3. t % P = t
    BY <1>1, <1>6, OneBit
  <2> QED
    BY <1>1, <1>3, <1>6, <2>1, <2>2, <2>3
<1>7. CASE t >= P
  <2>1. Bit(high \/ ~Less(x, MODULUS)) = 1
    BY <1>1, <1>5, <1>7 DEF Bit
  <2>2. z \in Uint /\ Value(z) = (v - P) % Size
    BY ModulusIs, SubtractIs
  <2>3. t % P = t - P
    BY <1>1, <1>7, OneBit
  <2>4. (v - P) % Size = t - P
    <3> DEFINE d == v - P
    <3>1. CASE t < Size
      <4>1. d \in 0..Size - 1 /\ d \in Int /\ d = t - P
        BY <1>1, <1>3, <1>7, <3>1
      <4> HIDE DEF d
      <4>2. d % Size = d
        BY <1>1, <4>1, OneBit
      <4> QED
        BY <4>1, <4>2 DEF d
    <3>2. CASE t >= Size
      <4>1. d \in -Size..-1 /\ d \in Int /\ d + Size = t - P
        BY <1>1, <1>4, <1>7, <3>2
      <4> HIDE DEF d
      <4>2. d % Size = d + Size
        BY <1>1, <4>1, OneBit
      <4> QED
        BY <4>1, <4>2 DEF d
    <3> QED
      BY <1>1, <3>1, <3>2
  <2> QED
    BY <2>1, <2>2, <2>3, <2>4
<1> QED
  BY <1>1, <1>6, <1>7

LEMMA InFieldIs == ASSUME NEW x \in Uint PROVE InField(x) <=> Value(x) < P
BY ModulusIs, LessIs DEF InField

LEMMA FromUintIs ==
  ASSUME NEW x \in Uint
  PROVE  FromUint(x) \in Uint /\ Value(FromUint(x)) = Value(x) % P
<1> DEFINE t == Value(x)
<1>1. t \in Int /\ 0 <= t /\ t < 2 * P /\ ~(t >= Size) /\ t = t % Size
  <2>1. t \in 0..Size - 1 /\ Size \in Nat \ {0} /\ Size < 2 * P /\ P \in Nat
    BY UintIs, SizeIs, PIs
  <2> HIDE DEF t
  <2>2. t \in Int
    BY <2>1
  <2> QED
    BY <2>1, <2>2, OneBit
<1>2. (FALSE \in BOOLEAN) /\ (FALSE <=> t >= Size)
  BY <1>1
<1> DEFINE e == Bit(FALSE \/ ~Less(x, MODULUS))
<1>3. Subtract(x, MODULUS, e) \in Uint /\ Value(Subtract(x, MODULUS, e)) = t % P
  <2> HIDE DEF t
  <2> QED
    BY <1>1, <1>2, Reduced DEF t
<1>4. e = Bit(~Less(x, MODULUS))
  BY DEF Bit
<1> HIDE DEF e
<1> QED
  BY <1>3, <1>4 DEF FromUint

LEMMA FieldAddIs ==
  ASSUME NEW x \in Uint, NEW y \in Uint, Value(x) < P, Value(y) < P
  PROVE  FieldAdd(x, y) \in Uint /\ Value(FieldAdd(x, y)) = (Value(x) + Value(y)) % P
<1> DEFINE sum == Add(x, y, 1)
           t == Value(x) + Value(y)
           high == Carry(x, y, 1) = 1
<1>1. t \in Int /\ 0 <= t /\ t < 2 * P /\ t < 2 * Size /\ Size \in Nat \ {0}
  BY UintIs, PIs, SizeIs
<1>2. sum \in Uint /\ Value(sum) = t % Size /\ Carry(x, y, 1) = t \div Size
  BY AddIs
<1>3. high \in BOOLEAN /\ (high <=> t >= Size)
  <2> HIDE DEF t
  <2>1. t \in 0..Size - 1 \/ t \in Size..(2 * Size) - 1
    BY <1>1
  <2>2. (t \in 0..Size - 1 => t \div Size = 0) /\ (t \in Size..(2 * Size) - 1 => t \div Size = 1)
    BY <1>1, OneBit
  <2> QED
    BY <1>1, <1>2, <2>1, <2>2
<1> HIDE DEF sum, t, high
<1>4. /\ Subtract(sum, MODULUS, Bit(high \/ ~Less(sum, MODULUS))) \in Uint
      /\ Value(Subtract(sum, MODULUS, Bit(high \/ ~Less(sum, MODULUS)))) = t % P
  BY <1>1, <1>2, <1>3, Reduced
<1> QED
  BY <1>4 DEF FieldAdd, sum, t, high

LEMMA Multiply2Is ==
  ASSUME NEW x \in Uint, Value(x) < P
  PROVE  Multiply2(x) \in Uint /\ Value(Multiply2(x)) = (2 * Value(x)) % P
<1> DEFINE twice == ShiftLeft1(x)
           t == 2 * Value(x)
           high == TopBit(x[NumWords]) = 1
<1>1. t \in Int /\ 0 <= t /\ t < 2 * P /\ t < 2 * Size /\ Size \in Nat \ {0}
  BY UintIs, PIs, SizeIs
<1>2. twice \in Uint /\ Value(twice) = t % Size /\ TopBit(x[NumWords]) = t \div Size
  BY ShiftLeft1Is
<1>3. high \in BOOLEAN /\ (high <=> t >= Size)
  <2> HIDE DEF t
  <2>1. t \in 0..Size - 1 \/ t \in Size..(2 * Size) - 1
    BY <1>1
  <2>2. (t \in 0..Size - 1 => t \div Size = 0) /\ (t \in Size..(2 * Size) - 1 => t \div Size = 1)
    BY <1>1, OneBit
  <2> QED
    BY <1>1, <1>2, <2>1, <2>2
<1> HIDE DEF twice, t, high
<1>4. /\ Subtract(twice, MODULUS, Bit(high \/ ~Less(twice, MODULUS))) \in Uint
      /\ Value(Subtract(twice, MODULUS, Bit(high \/ ~Less(twice, MODULUS)))) = t % P
  BY <1>1, <1>2, <1>3, Reduced
<1> QED
  BY <1>4 DEF Multiply2, twice, t, high

(* A difference of numbers of the field, the modulus added when it borrows. *)
LEMMA Brought ==
  ASSUME NEW x \in Uint, NEW y \in Uint, Value(x) < P, Value(y) < P
  PROVE  LET z == Add(Subtract(x, y, 1), MODULUS, Borrow(x, y, 1))
         IN  z \in Uint /\ Value(z) = (Value(x) - Value(y)) % P
<1> DEFINE u == Value(x)
           v == Value(y)
           d == u - v
           w == Subtract(x, y, 1)
           z == Add(w, MODULUS, Borrow(x, y, 1))
<1>1. /\ u \in 0..P - 1 /\ v \in 0..P - 1
      /\ P \in Nat \ {0} /\ P < Size /\ Size < 2 * P /\ Size \in Nat \ {0}
  BY UintIs, PIs, SizeIs
<1>2. w \in Uint /\ Value(w) = d % Size /\ Borrow(x, y, 1) = Bit(u < v)
  BY SubtractIs
<1>3. d \in Int /\ (u < v => d \in -(P - 1)..-1) /\ (~(u < v) => d \in 0..P - 1)
  BY <1>1
<1> HIDE DEF u, v, w, d
<1>4. CASE u < v
  <2> DEFINE s == (d + Size) + P
  <2>1. d % Size = d + Size /\ d % P = d + P
    <3>1. d \in -Size..-1 /\ d \in -P..-1
      BY <1>1, <1>3, <1>4
    <3> QED
      BY <1>1, <1>3, <3>1, OneBit
  <2>2. z \in Uint /\ Value(z) = s % Size
    <3>1. Borrow(x, y, 1) = 1
      BY <1>2, <1>4 DEF Bit
    <3>2. Value(w) = d + Size
      BY <1>2, <2>1
    <3> QED
      BY <1>2, <3>1, <3>2, ModulusIs, AddIs
  <2>3. s % Size = d + P
    <3>1. s \in Int /\ s \in Size..(2 * Size) - 1 /\ s - Size = d + P
      BY <1>1, <1>3, <1>4
    <3> HIDE DEF s
    <3> QED
      BY <1>1, <3>1, OneBit
  <2> QED
    BY <2>1, <2>2, <2>3 DEF d, u, v, w
<1>5. CASE ~(u < v)
  <2>1. d % Size = d /\ d % P = d
    <3>1. d \in 0..Size - 1 /\ d \in 0..P - 1
      BY <1>1, <1>3, <1>5
    <3> QED
      BY <1>1, <1>3, <3>1, OneBit
  <2>2. z = w
    <3>1. Borrow(x, y, 1) = 0
      BY <1>2, <1>5 DEF Bit
    <3> QED
      BY <1>2, <3>1, ModulusIs, AddIs
  <2>3. z \in Uint /\ Value(z) = d % P
    BY <1>2, <2>1, <2>2
  <2> QED
    BY <2>3 DEF d, u, v, w
<1> QED
  BY <1>4, <1>5

LEMMA FieldSubtractIs ==
  ASSUME NEW x \in Uint, NEW y \in Uint, Value(x) < P, Value(y) < P
  PROVE  FieldSubtract(x, y) \in Uint /\ Value(FieldSubtract(x, y)) = (Value(x) - Value(y)) % P
BY Brought DEF FieldSubtract

-----------------------------------------------------------------------------
(* The long multiplication *)

LEMMA WeightsGrow ==
  ASSUME NEW m \in Nat, NEW n \in Nat, m <= n
  PROVE  Weight(m) <= Weight(n)
<1> DEFINE a == Weight(m)
           b == Weight(n - m)
<1>1. n - m \in Nat /\ m + (n - m) = n
  OBVIOUS
<1>2. a \in Nat \ {0} /\ b \in Nat \ {0}
  BY <1>1, Weights
<1>3. Weight(n) = a * b
  BY <1>1, WeightsMultiply
<1> HIDE DEF a, b
<1>4. a * 1 <= a * b /\ a * 1 = a
  BY <1>2, ProductsOrdered
<1> QED
  BY <1>3, <1>4 DEF a

LEMMA ValueStep ==
  ASSUME NEW n \in Nat \ {0}, NEW x, Ints(x, n)
  PROVE  ValueOf(x, n) = ValueOf(x, n - 1) + (x[n] * Weight(n - 1))
<1> DEFINE k == n - 1
<1>1. k \in Nat /\ k \in 0..n - 1 /\ k + 1 = n
  OBVIOUS
<1> HIDE DEF k
<1>2. ValueOf(x, k + 1) = ValueOf(x, k) + (x[k + 1] * Weight(k))
  BY <1>1, ValueIs DEF Ints
<1> QED
  BY <1>1, <1>2 DEF k

Twice == 2 * NumWords

Row(x, y, i, above) == Pass([k \in 1..Twice |-> above[k] + x[i] * Word(y, k - i + 1)]).words

LEMMA RowIs ==
  ASSUME NEW x \in Uint, NEW y \in Uint, NEW i \in 1..NumWords, NEW above \in Digits(Twice)
  PROVE  /\ Row(x, y, i, above) \in Digits(Twice)
         /\ ValueOf(above, Twice) = ValueOf(x, i - 1) * Value(y) =>
              ValueOf(Row(x, y, i, above), Twice) = ValueOf(x, i) * Value(y)
<1> DEFINE n == NumWords
           s == i - 1
           r == (n - i) + 1
           d == x[i]
           moved == [k \in 1..Twice |-> Word(y, k - i + 1)]
           word == [k \in 1..Twice |-> above[k] + x[i] * Word(y, k - i + 1)]
           u == ValueOf(x, i - 1)
           v == Value(y)
           m == Weight(s)
           t == Weight(Twice)
           w == ValueOf(x, i)
<1>1. n \in Nat \ {0, 1} /\ Twice \in Nat /\ s \in Nat /\ r \in Nat /\ (s + n) + r = Twice /\ i \in Nat \ {0}
      /\ i <= n
  BY UintConstants DEF Twice
<1>2. y \in [1..n -> Int] /\ d \in Nat /\ Ints(x, n) /\ v \in 0..Size - 1 /\ Size \in Nat \ {0}
  <2>1. x \in [1..n -> Digit]
    BY SizeIs DEF Digits
  <2> QED
    BY <1>1, <2>1, UintIs, SizeIs, DigitsAreInt
<1>3. Placed(moved, y, s, n, r)
  <2> SUFFICES ASSUME NEW k \in 1..Twice PROVE moved[k] = Word(y, k - s)
    BY <1>1 DEF Placed
  <2>1. k - s = k - i + 1
    BY <1>1
  <2> QED
    BY <2>1
<1>4. \A k \in 1..Twice : above[k] \in Int
  BY <1>1, DigitsAre DEF Ints
<1>5. moved \in [1..Twice -> Int] /\ word = [k \in 1..Twice |-> above[k] + (d * moved[k])]
  BY <1>2 DEF Word
<1> HIDE DEF moved, word
<1>6. ValueOf(moved, Twice) = m * v
  <2>1. ValueOf(moved, (s + n) + r) = Weight(s) * ValueOf(y, n)
    <3> HIDE DEF s, r
    <3> QED
      BY <1>1, <1>2, <1>3, PlacedValue
  <2> QED
    BY <1>1, <2>1 DEF Value
<1>7. word \in [1..Twice -> Int] /\ Linear(word, above, d, moved, Twice)
  <2> HIDE DEF d
  <2>1. \A k \in 1..Twice : moved[k] \in Int /\ d * moved[k] \in Int
    BY <1>2, <1>5
  <2> QED
    BY <1>4, <1>5, <2>1 DEF Linear
<1>8. ValueOf(word, Twice) = ValueOf(above, Twice) + (d * (m * v))
  <2>1. d \in Int
    BY <1>2
  <2> QED
    BY <1>1, <1>6, <1>7, <2>1, LinearValue
<1>9. /\ Row(x, y, i, above) \in Digits(Twice)
      /\ ValueOf(Row(x, y, i, above), Twice) = ValueOf(word, Twice) % t
  <2>1. Carries(Pass(word), ValueOf(word, Twice), Twice)
    BY <1>1, <1>7, PassCarries
  <2> QED
    BY <2>1 DEF Carries, Row, word
<1>10. w = u + (d * m) /\ u \in Int
  <2>1. Ints(x, i) /\ Ints(x, i - 1)
    BY <1>1, <1>2 DEF Ints
  <2> QED
    BY <1>1, <2>1, ValueStep, ValueIsInt
<1>11. w \in 0..Size - 1 /\ t = Size * Size
  <2>1. i \in 0..n /\ x \in [1..n -> Digit]
    BY <1>1, SizeIs DEF Digits
  <2>2. w \in 0..Weight(i) - 1
    BY <1>1, <2>1, ValueBounds
  <2>3. Weight(i) <= Size /\ Weight(i) \in Nat
    BY <1>1, WeightsGrow, Weights DEF Size
  <2>4. t = Size * Size
    <3>1. Twice = n + n
      BY <1>1 DEF Twice
    <3> QED
      BY <1>1, <3>1, WeightsMultiply DEF Size
  <2> HIDE DEF w, t
  <2> QED
    BY <1>2, <2>2, <2>3, <2>4
<1>12. m \in Nat
  BY <1>1, Weights
<1>13. ASSUME ValueOf(above, Twice) = u * v
       PROVE  ValueOf(Row(x, y, i, above), Twice) = w * v
  <2> HIDE DEF u, v, w, m, t, d
  <2>1. (u * v) + (d * (m * v)) = (u + (d * m)) * v
    BY <1>2, <1>10, <1>12
  <2>2. ValueOf(word, Twice) = w * v
    BY <1>8, <1>10, <1>13, <2>1
  <2> DEFINE p == w * v
  <2>3. p \in 0..t - 1 /\ p \in Int /\ t \in Nat \ {0}
    <3>1. w * v <= w * (Size - 1) /\ (Size - 1) * w <= (Size - 1) * (Size - 1)
      BY <1>2, <1>11, ProductsOrdered
    <3>2. w * (Size - 1) = (Size - 1) * w /\ (Size - 1) * (Size - 1) = ((Size * Size) - (2 * Size)) + 1
      BY <1>2, <1>11
    <3>3. w * v \in Nat /\ Size * Size \in Nat /\ w * (Size - 1) \in Nat
      BY <1>2, <1>11
    <3>4. Size * Size # 0
      BY <1>2
    <3> QED
      BY <1>2, <1>11, <3>1, <3>2, <3>3, <3>4
  <2> HIDE DEF p
  <2>4. p % t = p
    BY <2>3, OneBit
  <2> QED
    BY <1>9, <2>2, <2>4 DEF p
<1> QED
  BY <1>9, <1>13

LEMMA ZerosDigits ==
  /\ Zero \o Zero \in Digits(Twice)
  /\ ValueOf(Zero \o Zero, Twice) = 0
<1> DEFINE z == Zero \o Zero
<1>1. NumWords \in Nat /\ Twice \in Nat
  BY UintConstants DEF Twice
<1>2. z = [k \in 1..Twice |-> 0]
  <2>1. Zero \in Seq(Int) /\ Len(Zero) = NumWords /\ \A k \in 1..NumWords : Zero[k] = 0
    BY <1>1 DEF Zero
  <2>2. Twice = NumWords + NumWords
    BY <1>1 DEF Twice
  <2>3. /\ z \in Seq(Int) /\ Len(z) = Twice
        /\ \A k \in 1..Twice : z[k] = IF k <= NumWords THEN Zero[k] ELSE Zero[k - NumWords]
    <3>1. z \in Seq(Int) /\ Len(z) = Len(Zero) + Len(Zero)
      BY <2>1, ConcatProperties
    <3>2. \A k \in 1..Len(Zero) + Len(Zero) :
            z[k] = IF k <= Len(Zero) THEN Zero[k] ELSE Zero[k - Len(Zero)]
      BY <2>1, ConcatProperties
    <3> QED
      BY <2>1, <2>2, <3>1, <3>2
  <2>4. z = [k \in 1..Twice |-> z[k]]
    <3> HIDE DEF z
    <3>1. z \in [1..Len(z) -> Int]
      BY <2>3, LenProperties
    <3> QED
      BY <2>3, <3>1
  <2>5. ASSUME NEW k \in 1..Twice PROVE z[k] = 0
    BY <1>1, <2>1, <2>2, <2>3
  <2> QED
    BY <2>4, <2>5
<1>3. 0 \in Digit
  BY BaseIs DEF Digit
<1>4. Zeros(z, Twice)
  BY <1>2 DEF Zeros
<1>5. z \in Digits(Twice)
  BY <1>2, <1>3 DEF Digits
<1>6. ValueOf(z, Twice) = 0
  BY <1>1, <1>4, ZeroValue
<1> QED
  BY <1>5, <1>6

LEMMA ProductIs ==
  ASSUME NEW x \in Uint, NEW y \in Uint
  PROVE  /\ Product(x, y) \in Digits(Twice)
         /\ ValueOf(Product(x, y), Twice) = Value(x) * Value(y)
<1> DEFINE n == NumWords
           S == Digits(Twice)
           z == Zero \o Zero
           step == [i \in 1..n |-> [above \in S |-> Row(x, y, i, above)]]
           eq(p) == p = [i \in 0..n |-> IF i = 0 THEN z ELSE Row(x, y, i, p[i - 1])]
           rows == CHOOSE p : eq(p)
<1>0. n \in Nat /\ n \in 0..n
  BY SizeIs
<1>1. z \in S /\ ValueOf(z, Twice) = 0
  BY ZerosDigits
<1>2. /\ step \in [1..n -> [S -> S]]
      /\ \A i \in 1..n, above \in S : step[i][above] = Row(x, y, i, above)
  BY RowIs
<1>3. Product(x, y) = rows[n]
  BY DEF Product, Row, Twice
<1> HIDE DEF S, z, step
<1>4. PICK f \in [0..n -> S] : Solves(f, n, z, step)
  BY <1>0, <1>1, <1>2, RecursionHasSolution
<1>5. eq(f)
  <2>1. f[0] = z
    BY <1>4 DEF Solves
  <2>2. ASSUME NEW k \in 1..n PROVE f[k] = Row(x, y, k, f[k - 1])
    <3>1. f[k] = step[k][f[k - 1]]
      BY <1>4 DEF Solves
    <3>2. f[k - 1] \in S
      BY <1>0
    <3> QED
      BY <1>2, <3>1, <3>2
  <2>3. \A k \in 0..n : k = 0 \/ (k # 0 /\ k \in 1..n)
    BY <1>0
  <2> QED
    BY <2>1, <2>2, <2>3
<1>6. rows = [i \in 0..n |-> IF i = 0 THEN z ELSE Row(x, y, i, rows[i - 1])]
  <2>1. eq(rows)
    <3> HIDE DEF eq
    <3> QED
      BY <1>5
  <2> QED
    BY <2>1
<1> HIDE DEF rows
<1> DEFINE v == Value(y)
           Good == {k \in 0..n : /\ rows[k] \in S
                                 /\ ValueOf(rows[k], Twice) = ValueOf(x, k) * v}
<1>7. 0 \in Good
  <2>1. rows[0] = z /\ 0 \in 0..n
    BY <1>0, <1>6
  <2>2. ValueOf(x, 0) = 0
    BY <1>0, UintIs, ValueIs DEF Ints
  <2>3. 0 * v = 0
    <3>1. v \in Int
      BY UintIs
    <3> HIDE DEF v
    <3> QED
      BY <3>1
  <2> QED
    BY <1>1, <2>1, <2>2, <2>3
<1>8. ASSUME NEW k \in 0..n - 1, k \in Good PROVE k + 1 \in Good
  <2>1. k + 1 \in 1..n /\ k + 1 \in 0..n /\ (k + 1) - 1 = k /\ k + 1 # 0
    BY <1>0
  <2>2. rows[k + 1] = Row(x, y, k + 1, rows[k])
    BY <1>6, <2>1
  <2>3. rows[k] \in Digits(Twice) /\ ValueOf(rows[k], Twice) = ValueOf(x, (k + 1) - 1) * Value(y)
    BY <1>8, <2>1 DEF S
  <2>4. /\ Row(x, y, k + 1, rows[k]) \in Digits(Twice)
        /\ ValueOf(Row(x, y, k + 1, rows[k]), Twice) = ValueOf(x, k + 1) * Value(y)
    BY <2>1, <2>3, RowIs
  <2> QED
    BY <2>1, <2>2, <2>4 DEF S
<1>9. n \in Good
  <2> HIDE DEF Good
  <2> QED
    BY <1>0, <1>7, <1>8, UpTo
<1> QED
  BY <1>3, <1>9 DEF Value, S

-----------------------------------------------------------------------------
(* The reduction of a product *)

Moved(x, s, k) == [i \in 1..k |-> Word(x, i - s)]

LEMMA MovedIs ==
  ASSUME NEW s \in Nat, NEW n \in Nat, NEW k \in Nat, s + n <= k, NEW x \in Digits(n)
  PROVE  /\ \A i \in 1..k : Moved(x, s, k)[i] \in Digit /\ Moved(x, s, k)[i] = Word(x, i - s)
         /\ ValueOf(Moved(x, s, k), k) = Weight(s) * ValueOf(x, n)
<1> DEFINE r == k - (s + n)
           z == Moved(x, s, k)
<1>1. r \in Nat /\ (s + n) + r = k
  OBVIOUS
<1>2. Placed(z, x, s, n, r)
  BY <1>1 DEF Placed, Moved
<1>3. x \in [1..n -> Int] /\ x \in [1..n -> Digit] /\ 0 \in Digit
  BY DigitsAre, BaseIs DEF Digits, Digit
<1>4. \A i \in 1..k : z[i] \in Digit /\ z[i] = Word(x, i - s)
  BY <1>3 DEF Moved, Word
<1> HIDE DEF z, r
<1>5. ValueOf(z, (s + n) + r) = Weight(s) * ValueOf(x, n)
  BY <1>1, <1>2, <1>3, PlacedValue
<1> QED
  BY <1>1, <1>4, <1>5 DEF z

LEMMA SubSeqIs ==
  ASSUME NEW m \in Nat, NEW n \in Nat, NEW k \in Nat, m + n <= k, NEW x \in Digits(k)
  PROVE  /\ SubSeq(x, m + 1, m + n) \in Digits(n)
         /\ Above(SubSeq(x, m + 1, m + n), x, m, n)
<1> DEFINE z == SubSeq(x, m + 1, m + n)
<1>1. x \in Seq(Digit) /\ Len(x) = k
  BY DEF Digits
<1>2. m + 1 \in 1..Len(x) + 1 /\ m + n \in (m + 1) - 1..Len(x) /\ (m + n) - (m + 1) + 1 = n
  BY <1>1
<1>3. /\ z \in Seq(Digit) /\ Len(z) = (m + n) - (m + 1) + 1
      /\ \A i \in 1..(m + n) - (m + 1) + 1 : z[i] = x[(m + 1) + i - 1]
  BY <1>1, <1>2, SubSeqProperties
<1> HIDE DEF z
<1>4. z \in [1..n -> Digit]
  BY <1>2, <1>3, LenProperties
<1>5. ASSUME NEW i \in 1..n PROVE z[i] = x[m + i]
  <2>1. (m + 1) + i - 1 = m + i
    OBVIOUS
  <2> QED
    BY <1>2, <1>3, <2>1
<1> QED
  BY <1>4, <1>5 DEF Above, Digits, z

(* The words above the first m, and the first m, of a number of m + n words. *)
LEMMA Parts ==
  ASSUME NEW m \in Nat, NEW n \in Nat, NEW x \in Digits(m + n), NEW y, Above(y, x, m, n)
  PROVE  /\ ValueOf(x, m) = ValueOf(x, m + n) % Weight(m)
         /\ ValueOf(y, n) = ValueOf(x, m + n) \div Weight(m)
<1> DEFINE v == ValueOf(x, m + n)
           u == ValueOf(x, m)
           q == ValueOf(y, n)
           w == Weight(m)
<1>1. Ints(x, m + n) /\ Ints(y, n) /\ x \in [1..m + n -> Digit] /\ m + n \in Nat
  <2>1. Ints(x, m + n) /\ x \in [1..m + n -> Digit]
    BY DigitsAre DEF Digits
  <2>2. Ints(y, n)
    BY <2>1 DEF Above, Ints
  <2> QED
    BY <2>1, <2>2
<1>2. v = u + (w * q)
  BY <1>1, SplitValue
<1>3. u \in 0..w - 1
  <2>1. m \in 0..m + n
    OBVIOUS
  <2> QED
    BY <1>1, <2>1, ValueBounds
<1>4. w \in Nat \ {0} /\ q \in Int
  BY <1>1, Weights, ValueIsInt
<1> HIDE DEF v, u, q, w
<1>5. v \in Int /\ v = (w * q) + u
  BY <1>2, <1>3, <1>4
<1> QED
  BY <1>3, <1>4, <1>5, Quotients DEF v, u, q, w

LEMMA DivWithin ==
  ASSUME NEW v \in Int, NEW b \in Nat \ {0}, NEW low \in Int, NEW high \in Int,
         b * low <= v, v < b * (high + 1)
  PROVE  v \div b \in low..high
<1> DEFINE q == v \div b
           r == v % b
<1>1. q \in Int /\ r \in 0..b - 1 /\ v = (b * q) + r
  BY Division
<1> HIDE DEF q, r
<1>2. ASSUME q + 1 <= low PROVE FALSE
  <2>1. b * (q + 1) <= b * low /\ b * (q + 1) = (b * q) + b
    BY <1>1, <1>2, ProductsOrdered
  <2>2. b * q \in Int /\ b * low \in Int
    BY <1>1
  <2> QED
    BY <1>1, <2>1, <2>2
<1>3. ASSUME high + 1 <= q PROVE FALSE
  <2>1. b * (high + 1) <= b * q
    BY <1>1, <1>3, ProductsOrdered
  <2>2. b * q \in Int /\ b * (high + 1) \in Int
    BY <1>1
  <2> QED
    BY <1>1, <2>1, <2>2
<1>4. low <= q /\ q <= high
  BY <1>1, <1>2, <1>3
<1> QED
  BY <1>1, <1>4 DEF q

Thrice == 3 * NumWords

LEMMA SizesIs ==
  /\ Twice \in Nat /\ Thrice \in Nat /\ Twice = NumWords + NumWords /\ Thrice = Twice + NumWords
  /\ Weight(Twice) = Size * Size /\ Weight(Thrice) = (Size * Size) * Size
  /\ NumWords \in Nat \ {0, 1} /\ Weight(1) = Base
<1>1. /\ Twice \in Nat /\ Thrice \in Nat /\ Twice = NumWords + NumWords /\ Thrice = Twice + NumWords
      /\ NumWords \in Nat \ {0, 1}
  BY UintConstants DEF Twice, Thrice
<1>2. Weight(Twice) = Size * Size
  BY <1>1, WeightsMultiply DEF Size
<1>3. Weight(Thrice) = (Size * Size) * Size
  BY <1>1, <1>2, WeightsMultiply DEF Size
<1>4. Weight(1) = Base
  <2>1. Weight(0 + 1) = Base * Weight(0) /\ Weight(0) = 1 /\ 0 + 1 = 1 /\ Base * 1 = Base
    BY Weights, BaseIs
  <2> QED
    BY <2>1
<1> QED
  BY <1>1, <1>2, <1>3, <1>4

(* A number times the scale: a word times what the code multiplies it by,  *)
(* and the words one and NumWords below it.                                *)
LEMMA ScaledValue ==
  ASSUME NEW product \in Digits(Twice)
  PROVE  /\ Carries(Scaled(product), ValueOf(product, Twice) * (Size + Gap), Thrice)
         /\ Within(Scaled(product), 0..Excess + 2)
<1> DEFINE k == Thrice
           a == Moved(product, 0, k)
           b == Moved(product, 1, k)
           c == Moved(product, NumWords, k)
           half == [i \in 1..k |-> b[i] + (Excess * a[i])]
           word == [i \in 1..k |-> Word(product, i) * Excess + Word(product, i - 1)
                                   + Word(product, i - NumWords)]
           t == ValueOf(product, Twice)
<1>1. k \in Nat /\ 0 + Twice <= k /\ 1 + Twice <= k /\ NumWords + Twice <= k /\ NumWords \in Nat
      /\ Twice \in Nat /\ Base \in Nat \ {0} /\ Excess \in Nat
  BY SizesIs, BaseIs, FieldConstants
<1>2. /\ \A i \in 1..k : a[i] \in Digit /\ a[i] = Word(product, i - 0)
      /\ ValueOf(a, k) = Weight(0) * t
  BY <1>1, MovedIs
<1>3. /\ \A i \in 1..k : b[i] \in Digit /\ b[i] = Word(product, i - 1)
      /\ ValueOf(b, k) = Weight(1) * t
  BY <1>1, MovedIs
<1>4. /\ \A i \in 1..k : c[i] \in Digit /\ c[i] = Word(product, i - NumWords)
      /\ ValueOf(c, k) = Size * t
  BY <1>1, MovedIs DEF Size
<1>5. Scaled(product) = Pass(word)
  BY DEF Scaled, Thrice
<1>6. t \in Int /\ Size \in Nat /\ Gap = Base + Excess
  BY <1>1, DigitsAre, ValueIsInt, SizeIs DEF Gap
<1> HIDE DEF k, a, b, c, t
<1>7. ASSUME NEW i \in 1..k PROVE word[i] = (a[i] * Excess + b[i]) + c[i]
  <2>1. i - 0 = i
    BY <1>1
  <2> QED
    BY <1>2, <1>3, <1>4, <2>1
<1>8. \A i \in 1..k : a[i] \in Nat /\ b[i] \in Nat /\ c[i] \in Nat
                      /\ a[i] <= Base - 1 /\ b[i] <= Base - 1 /\ c[i] <= Base - 1
  BY <1>1, <1>2, <1>3, <1>4 DEF Digit
<1>9. word = [i \in 1..k |-> word[i]]
  OBVIOUS
<1> HIDE DEF word
<1>10. ASSUME NEW i \in 1..k
       PROVE  /\ half[i] = b[i] + (Excess * a[i]) /\ half[i] \in Int /\ word[i] = half[i] + (1 * c[i])
              /\ word[i] \in Int /\ 0 <= word[i] /\ word[i] <= (Base - 1) * (Excess + 2)
  <2> DEFINE d == a[i]
             e == b[i]
             f == c[i]
             p == Excess * d
  <2>1. d \in Nat /\ e \in Nat /\ f \in Nat /\ d <= Base - 1 /\ e <= Base - 1 /\ f <= Base - 1
    BY <1>8
  <2>2. word[i] = (d * Excess + e) + f /\ half[i] = e + p
    BY <1>7
  <2> HIDE DEF d, e, f, half
  <2>3. p \in Nat /\ p <= Excess * (Base - 1) /\ d * Excess = p
    BY <1>1, <2>1, ProductsOrdered
  <2>4. Excess * (Base - 1) \in Int /\ (Base - 1) * (Excess + 2) = (Excess * (Base - 1)) + ((Base - 1) + (Base - 1))
    BY <1>1
  <2>5. 1 * f = f
    BY <2>1
  <2> HIDE DEF p
  <2> QED
    BY <1>1, <2>1, <2>2, <2>3, <2>4, <2>5 DEF d, e, f, p
<1>11. word \in [1..k -> Int] /\ Linear(half, b, Excess, a, k) /\ Linear(word, half, 1, c, k)
  <2> HIDE DEF half
  <2>1. \A i \in 1..k : a[i] \in Int /\ b[i] \in Int /\ c[i] \in Int
    BY <1>8
  <2> QED
    BY <1>9, <1>10, <2>1 DEF Linear
<1>12. ValueOf(word, k) = t * (Size + Gap)
  <2> HIDE DEF half
  <2>1. /\ ValueOf(half, k) = ValueOf(b, k) + (Excess * ValueOf(a, k))
        /\ ValueOf(word, k) = ValueOf(half, k) + (1 * ValueOf(c, k))
    BY <1>1, <1>11, LinearValue
  <2>2. ValueOf(a, k) = 1 * t /\ ValueOf(b, k) = Base * t /\ ValueOf(c, k) = Size * t
    BY <1>2, <1>3, <1>4, Weights, SizesIs
  <2>3. ((Base * t) + (Excess * (1 * t))) + (1 * (Size * t)) = t * (Size + (Base + Excess))
    BY <1>1, <1>6
  <2> QED
    BY <1>6, <2>1, <2>2, <2>3
<1>13. Carries(Pass(word), t * (Size + Gap), k)
  BY <1>1, <1>11, <1>12, PassCarries
<1> DEFINE S == 0..Excess + 2
<1>14. Keeps(word, k, S)
  <2> SUFFICES ASSUME NEW i \in 1..k, NEW o \in S PROVE (word[i] + o) \div Base \in S
    BY DEF Keeps
  <2> DEFINE v == word[i] + o
  <2>1. v \in Int /\ 0 <= v /\ v <= ((Base - 1) * (Excess + 2)) + (Excess + 2) /\ o \in Int
    <3>1. (Base - 1) * (Excess + 2) \in Int
      BY <1>1
    <3> QED
      BY <1>1, <1>10, <3>1
  <2>2. /\ ((Base - 1) * (Excess + 2)) + (Excess + 2) = Base * (Excess + 2)
        /\ Base * ((Excess + 2) + 1) = (Base * (Excess + 2)) + Base /\ Base * 0 = 0
        /\ Base * (Excess + 2) \in Int
    BY <1>1
  <2> HIDE DEF v
  <2>3. Base * 0 <= v /\ v < Base * ((Excess + 2) + 1) /\ Excess + 2 \in Int
    BY <1>1, <2>1, <2>2
  <2>4. v \div Base \in 0..(Excess + 2)
    BY <1>1, <2>1, <2>3, DivWithin
  <2> QED
    BY <2>4 DEF v
<1>15. 0 \in S
  BY <1>1
<1> HIDE DEF S
<1>16. Within(Pass(word), S)
  BY <1>1, <1>11, <1>14, <1>15, OversWithin
<1> QED
  BY <1>5, <1>13, <1>16 DEF k, t, S

LEMMA Cancel ==
  ASSUME NEW a \in Nat \ {0}, NEW b \in Int, NEW c \in Int
  PROVE  (a * b <= a * c => b <= c) /\ (a * b < a * c => b < c)
<1>1. a * b \in Int /\ a * c \in Int
  OBVIOUS
<1>2. ASSUME c < b PROVE a * c < a * b
  <2>1. a * (c + 1) <= a * b /\ a * (c + 1) = (a * c) + a
    BY <1>2, ProductsOrdered
  <2> QED
    BY <1>1, <2>1
<1>3. c <= b => a * c <= a * b
  BY ProductsOrdered
<1> QED
  BY <1>1, <1>2, <1>3

(* The scale is so close to the reciprocal of the prime that the quotient  *)
(* is right or one too small.                                              *)
LEMMA Barrett ==
  ASSUME NEW t \in Nat, t < P * P, NEW s, s = t * (Size + Gap),
         NEW q, q = s \div (Size * Size)
  PROVE  /\ s \in 0..((Size * Size) * Size) - 1 /\ q \in 0..Size - 1
         /\ q * P <= t /\ t - (q * P) < 2 * P
<1> DEFINE m == Size
           c == Gap
           p == P
           mm == m * m
           cc == c * c
           pp == p * p
           r == s % mm
           e == m + c
<1>1. /\ p \in Nat \ {0} /\ c \in Nat /\ m \in Nat \ {0} /\ m = p + c /\ cc < p /\ p < m
  BY PIs, SizeIs
<1> HIDE DEF m, c, p
<1>2. mm \in Nat \ {0} /\ cc \in Nat /\ pp \in Nat /\ e \in Nat
  BY <1>1
<1>3. p * e = mm - cc
  <2>1. p * (m + c) = (p * p) + (2 * (p * c)) /\ m * m = ((p * p) + (2 * (p * c))) + (c * c)
    <3>1. p * (m + c) = (p * p) + (2 * (p * c))
      BY <1>1
    <3>2. m * m = (p + c) * (p + c)
      BY <1>1
    <3>3. (p + c) * (p + c) = ((p * p) + (2 * (p * c))) + (c * c)
      BY <1>1
    <3> QED
      BY <3>1, <3>2, <3>3
  <2> DEFINE a == (p * p) + (2 * (p * c))
             b == c * c
  <2>2. a \in Int /\ b \in Int
    BY <1>1
  <2> HIDE DEF a, b
  <2>3. p * e = a /\ mm = a + b /\ cc = b
    BY <2>1 DEF a, b
  <2> QED
    BY <2>2, <2>3
<1>4. s = t * e /\ q = s \div mm /\ t < pp
  BY DEF m, c, p
<1> HIDE DEF e, mm, cc, pp, r
<1>5. s \in Nat
  BY <1>2, <1>4
<1>6. q \in Int /\ r \in 0..mm - 1 /\ s = (mm * q) + r
  <2>1. s \in Int
    BY <1>5
  <2>2. s \div mm \in Int /\ s % mm \in 0..mm - 1 /\ s = (mm * (s \div mm)) + (s % mm)
    BY <1>2, <2>1, Division
  <2> QED
    BY <1>4, <2>2 DEF r
<1>7. p * s = (t * mm) - (t * cc)
  <2>1. p * (t * e) = t * (p * e) /\ t * (mm - cc) = (t * mm) - (t * cc)
    BY <1>1, <1>2
  <2> QED
    BY <1>3, <1>4, <2>1
<1>8. mm * (q * p) = ((t * mm) - (t * cc)) - (p * r)
  <2>1. p * ((mm * q) + r) = (mm * (q * p)) + (p * r) /\ mm * (q * p) \in Int /\ p * r \in Int
    BY <1>1, <1>2, <1>6
  <2> DEFINE a == mm * (q * p)
             b == p * r
             d == (t * mm) - (t * cc)
  <2> HIDE DEF a, b, d
  <2>2. d = a + b /\ a \in Int /\ b \in Int
    BY <1>6, <1>7, <2>1 DEF a, b, d
  <2>3. a = d - b
    BY <2>2
  <2> QED
    BY <2>3 DEF a, b, d
<1>9. t * cc \in Nat /\ p * r \in Nat /\ t * mm \in Nat /\ q * p \in Int /\ mm * (q * p) \in Int
  BY <1>1, <1>2, <1>6
<1>10. q * p <= t
  <2>1. mm * (q * p) <= t * mm /\ t * mm = mm * t
    BY <1>2, <1>8, <1>9
  <2> DEFINE a == q * p
  <2>2. a \in Int /\ mm * a <= mm * t
    BY <1>9, <2>1
  <2> HIDE DEF a
  <2>3. a <= t
    BY <1>2, <2>2, Cancel
  <2> QED
    BY <2>3 DEF a
<1>11. t - (q * p) < 2 * p
  <2> DEFINE a == q * p
             d == t - a
  <2>1. a \in Int /\ d \in Int /\ mm * d = (mm * t) - (mm * a)
    BY <1>2, <1>9
  <2>2. mm * d = (t * cc) + (p * r)
    <3>1. mm * t = t * mm /\ mm * a \in Int
      BY <1>2, <2>1
    <3>2. mm * a = ((t * mm) - (t * cc)) - (p * r)
      BY <1>8
    <3> HIDE DEF a, d
    <3> DEFINE x == t * mm
               y == t * cc
               z == p * r
               w == mm * a
    <3>3. x \in Nat /\ y \in Nat /\ z \in Nat /\ w \in Int /\ mm * d = x - w /\ w = (x - y) - z
      BY <1>9, <2>1, <3>1, <3>2
    <3> HIDE DEF x, y, z, w
    <3>4. mm * d = y + z
      BY <3>3
    <3> QED
      BY <3>4 DEF y, z
  <2> HIDE DEF a, d
  <2>3. t * cc <= p * mm
    <3>1. cc * t <= cc * pp
      BY <1>2, <1>4, ProductsOrdered
    <3>2. p * cc <= p * p /\ p * p <= p * m /\ m * p <= m * m
      BY <1>1, <1>2, ProductsOrdered
    <3>3. p * m = m * p /\ p * cc \in Nat /\ p * p \in Nat /\ p * m \in Nat
      BY <1>1, <1>2
    <3>4. p * cc <= mm
      BY <1>2, <3>2, <3>3 DEF mm
    <3>5. p * (p * cc) <= p * mm
      <4> DEFINE x == p * cc
      <4>1. x \in Int /\ x <= mm
        BY <3>3, <3>4
      <4> HIDE DEF x
      <4>2. p * x <= p * mm
        BY <1>1, <1>2, <4>1, ProductsOrdered
      <4> QED
        BY <4>2 DEF x
    <3>6. cc * pp = p * (p * cc) /\ cc * t = t * cc
      BY <1>1, <1>2 DEF pp
    <3>7. p * (p * cc) \in Int /\ p * mm \in Int
      BY <1>1, <1>2
    <3> QED
      BY <1>9, <3>1, <3>5, <3>6, <3>7
  <2>4. p * r <= (p * mm) - p
    <3>1. p * r <= p * (mm - 1) /\ p * (mm - 1) = (p * mm) - p
      BY <1>1, <1>2, <1>6, ProductsOrdered
    <3> QED
      BY <3>1
  <2>5. mm * (2 * p) = 2 * (p * mm) /\ p * mm \in Nat /\ 2 * p \in Int
    BY <1>1, <1>2
  <2>6. mm * d < mm * (2 * p)
    BY <1>1, <1>9, <2>2, <2>3, <2>4, <2>5
  <2>7. d < 2 * p
    <3> DEFINE x == 2 * p
    <3> HIDE DEF x
    <3>1. x \in Int /\ mm * d < mm * x
      BY <2>5, <2>6 DEF x
    <3>2. d < x
      BY <1>2, <2>1, <3>1, Cancel
    <3> QED
      BY <3>2 DEF x
  <2> QED
    BY <2>7 DEF d, a
<1>12. s < mm * m /\ mm * m \in Nat
  <2>1. e * t <= e * pp /\ e * pp = p * (p * e) /\ e * t = s
    BY <1>1, <1>2, <1>4, ProductsOrdered DEF pp
  <2>2. p * (mm - cc) <= p * mm /\ mm * p <= mm * (m - 1) /\ mm * (m - 1) = (mm * m) - mm
    BY <1>1, <1>2, ProductsOrdered
  <2>3. p * mm = mm * p /\ p * mm \in Nat /\ p * (mm - cc) \in Int /\ mm * m \in Nat
    BY <1>1, <1>2
  <2>4. s <= p * (mm - cc)
    BY <1>3, <2>1
  <2> QED
    BY <1>2, <1>5, <2>2, <2>3, <2>4
<1>13. q \in 0..m - 1
  <2>1. mm * 0 <= s /\ s < mm * ((m - 1) + 1) /\ m - 1 \in Int
    <3>1. mm * 0 = 0 /\ (m - 1) + 1 = m /\ m - 1 \in Int
      BY <1>1, <1>2
    <3> QED
      BY <1>5, <1>12, <3>1
  <2>2. 0 \in Int /\ s \in Int
    BY <1>5
  <2> QED
    BY <1>2, <1>4, <2>1, <2>2, DivWithin
<1>14. s \in 0..(mm * m) - 1
  BY <1>5, <1>12
<1> QED
  BY <1>10, <1>11, <1>13, <1>14 DEF m, p, mm

LEMMA TimesModulusIs ==
  ASSUME NEW q \in Uint
  PROVE  /\ Carries(TimesModulus(q), Value(q) * P, Twice)
         /\ Within(TimesModulus(q), -(Excess + 2)..0)
<1> DEFINE k == Twice
           a == Moved(q, 0, k)
           b == Moved(q, 1, k)
           c == Moved(q, NumWords, k)
           half == [i \in 1..k |-> c[i] + ((-Excess) * a[i])]
           word == [i \in 1..k |-> Word(q, i - NumWords) - Word(q, i) * Excess - Word(q, i - 1)]
           t == Value(q)
<1>1. k \in Nat /\ 0 + NumWords <= k /\ 1 + NumWords <= k /\ NumWords + NumWords <= k /\ NumWords \in Nat
      /\ Base \in Nat \ {0} /\ Excess \in Nat /\ q \in Digits(NumWords)
  BY SizesIs, SizeIs, BaseIs, FieldConstants
<1>2. /\ \A i \in 1..k : a[i] \in Digit /\ a[i] = Word(q, i - 0)
      /\ ValueOf(a, k) = Weight(0) * t
  BY <1>1, MovedIs DEF Value
<1>3. /\ \A i \in 1..k : b[i] \in Digit /\ b[i] = Word(q, i - 1)
      /\ ValueOf(b, k) = Weight(1) * t
  BY <1>1, MovedIs DEF Value
<1>4. /\ \A i \in 1..k : c[i] \in Digit /\ c[i] = Word(q, i - NumWords)
      /\ ValueOf(c, k) = Size * t
  BY <1>1, MovedIs DEF Size, Value
<1>5. TimesModulus(q) = Pass(word)
  BY DEF TimesModulus, Twice
<1>6. t \in Int /\ Size \in Nat /\ Gap = Base + Excess /\ P = Size - Gap
  BY UintIs, SizeIs, PIs DEF Gap
<1> HIDE DEF k, a, b, c, t
<1>7. ASSUME NEW i \in 1..k PROVE word[i] = (c[i] - a[i] * Excess) - b[i]
  <2>1. i - 0 = i
    BY <1>1
  <2> QED
    BY <1>2, <1>3, <1>4, <2>1
<1>8. \A i \in 1..k : a[i] \in Nat /\ b[i] \in Nat /\ c[i] \in Nat
                      /\ a[i] <= Base - 1 /\ b[i] <= Base - 1 /\ c[i] <= Base - 1
  BY <1>1, <1>2, <1>3, <1>4 DEF Digit
<1>9. word = [i \in 1..k |-> word[i]]
  OBVIOUS
<1> HIDE DEF word
<1>10. ASSUME NEW i \in 1..k
       PROVE  /\ half[i] = c[i] + ((-Excess) * a[i]) /\ half[i] \in Int
              /\ word[i] = half[i] + ((-1) * b[i])
              /\ word[i] \in Int /\ word[i] <= Base - 1 /\ -((Base - 1) * (Excess + 1)) <= word[i]
  <2> DEFINE d == a[i]
             e == b[i]
             f == c[i]
             p == Excess * d
  <2>1. d \in Nat /\ e \in Nat /\ f \in Nat /\ d <= Base - 1 /\ e <= Base - 1 /\ f <= Base - 1
    BY <1>8
  <2>2. word[i] = (f - d * Excess) - e /\ half[i] = f + ((-Excess) * d)
    BY <1>7
  <2> HIDE DEF d, e, f, half
  <2>3. p \in Nat /\ p <= Excess * (Base - 1) /\ d * Excess = p /\ (-Excess) * d = -p
    BY <1>1, <2>1, ProductsOrdered
  <2>4. Excess * (Base - 1) \in Int /\ (Base - 1) * (Excess + 1) = (Excess * (Base - 1)) + (Base - 1)
    BY <1>1
  <2>5. (-1) * e = -e
    BY <2>1
  <2> HIDE DEF p
  <2> QED
    BY <1>1, <2>1, <2>2, <2>3, <2>4, <2>5 DEF d, e, f, p
<1>11. word \in [1..k -> Int] /\ Linear(half, c, -Excess, a, k) /\ Linear(word, half, -1, b, k)
  <2> HIDE DEF half
  <2>1. \A i \in 1..k : a[i] \in Int /\ b[i] \in Int /\ c[i] \in Int
    BY <1>8
  <2> QED
    BY <1>9, <1>10, <2>1 DEF Linear
<1>12. ValueOf(word, k) = t * P
  <2> HIDE DEF half
  <2>0. -Excess \in Int /\ -1 \in Int
    BY <1>1
  <2>1. /\ ValueOf(half, k) = ValueOf(c, k) + ((-Excess) * ValueOf(a, k))
        /\ ValueOf(word, k) = ValueOf(half, k) + ((-1) * ValueOf(b, k))
    BY <1>1, <1>11, <2>0, LinearValue
  <2>2. ValueOf(a, k) = 1 * t /\ ValueOf(b, k) = Base * t /\ ValueOf(c, k) = Size * t
    BY <1>2, <1>3, <1>4, Weights, SizesIs
  <2>3. ((Size * t) + ((-Excess) * (1 * t))) + ((-1) * (Base * t)) = t * (Size - (Base + Excess))
    BY <1>1, <1>6
  <2> QED
    BY <1>6, <2>1, <2>2, <2>3
<1>13. Carries(Pass(word), t * P, k)
  BY <1>1, <1>11, <1>12, PassCarries
<1> DEFINE S == -(Excess + 2)..0
<1>14. Keeps(word, k, S)
  <2> SUFFICES ASSUME NEW i \in 1..k, NEW o \in S PROVE (word[i] + o) \div Base \in S
    BY DEF Keeps
  <2> DEFINE v == word[i] + o
             g == (Base - 1) * (Excess + 1)
             h == Base * (Excess + 2)
  <2>1. g \in Nat /\ h = (g + (Excess + 1)) + Base /\ h \in Nat
    BY <1>1
  <2>2. -g <= word[i] /\ word[i] \in Int /\ word[i] <= Base - 1
    BY <1>10
  <2> HIDE DEF g, h
  <2>3. v \in Int /\ -(g + (Excess + 2)) <= v /\ v <= Base - 1
    BY <1>1, <2>1, <2>2
  <2>4. Base * (-(Excess + 2)) = -h /\ Base * (0 + 1) = Base /\ -(Excess + 2) \in Int
    BY <1>1 DEF h
  <2> HIDE DEF v
  <2>5. Base * (-(Excess + 2)) <= v /\ v < Base * (0 + 1)
    BY <1>1, <2>1, <2>3, <2>4
  <2> DEFINE low == -(Excess + 2)
  <2>6. v \div Base \in low..0
    <3>1. v \in Int /\ low \in Int /\ 0 \in Int /\ Base * low <= v /\ v < Base * (0 + 1)
      BY <2>3, <2>4, <2>5
    <3> HIDE DEF low
    <3> QED
      BY <1>1, <3>1, DivWithin
  <2> QED
    BY <2>6 DEF v
<1>15. 0 \in S
  BY <1>1
<1> HIDE DEF S
<1>16. Within(Pass(word), S)
  BY <1>1, <1>11, <1>14, <1>15, OversWithin
<1> QED
  BY <1>5, <1>13, <1>16 DEF k, t, S

LEMMA QuotientIs ==
  ASSUME NEW product \in Digits(Twice), ValueOf(product, Twice) < P * P
  PROVE  LET t == ValueOf(product, Twice)
             q == Quotient(product)
         IN  /\ Scaled(product).over = 0
             /\ q \in Uint
             /\ 0 <= t - (Value(q) * P) /\ t - (Value(q) * P) < 2 * P
<1> DEFINE t == ValueOf(product, Twice)
           q == Quotient(product)
           s == t * (Size + Gap)
           scaled == Scaled(product)
           mm == Size * Size
           m == mm * Size
           p == s \div mm
<1>1. t \in Nat /\ t < P * P
  <2>1. t \in 0..Weight(Twice) - 1 /\ Weight(Twice) \in Nat
    BY SizesIs, DigitsAre, Weights
  <2> HIDE DEF t
  <2> QED
    BY <2>1 DEF t
<1>2. Carries(scaled, s, Thrice)
  BY ScaledValue
<1> HIDE DEF t, q, s, scaled, p
<1>3. s \in 0..m - 1 /\ p \in 0..Size - 1 /\ p * P <= t /\ t - (p * P) < 2 * P
  BY <1>1, Barrett DEF s, p
<1>4. m \in Nat \ {0} /\ mm \in Nat \ {0} /\ Weight(Thrice) = m /\ Weight(Twice) = mm
  BY SizeIs, SizesIs
<1> HIDE DEF m, mm
<1>5. s \div m = 0 /\ s % m = s
  <2>1. s \in Int
    BY <1>3
  <2> QED
    BY <1>3, <1>4, <2>1, OneBit
<1>6. scaled.over = 0 /\ scaled.words \in Digits(Thrice) /\ ValueOf(scaled.words, Thrice) = s
  BY <1>2, <1>4, <1>5 DEF Carries
<1>7. q \in Uint /\ Value(q) = p
  <2> DEFINE w == scaled.words
             z == SubSeq(w, Twice + 1, Twice + NumWords)
  <2>1. Twice \in Nat /\ NumWords \in Nat /\ Thrice \in Nat /\ Thrice = Twice + NumWords
    BY SizesIs
  <2>2. w \in Digits(Thrice) /\ ValueOf(w, Thrice) = s
    BY <1>6
  <2>3. q = z
    BY <2>1 DEF q, Quotient, scaled, Twice, Thrice
  <2> HIDE DEF w
  <2>4. z \in Digits(NumWords) /\ Above(z, w, Twice, NumWords)
    BY <2>1, <2>2, SubSeqIs
  <2> HIDE DEF z
  <2>5. ValueOf(z, NumWords) = ValueOf(w, Twice + NumWords) \div Weight(Twice)
    <3>1. w \in Digits(Twice + NumWords)
      BY <2>1, <2>2
    <3> QED
      BY <2>1, <2>4, <3>1, Parts
  <2> QED
    BY <1>4, <2>1, <2>2, <2>3, <2>4, <2>5, SizeIs DEF Value, p
<1>8. 0 <= t - (p * P)
  <2>1. p * P \in Int
    BY <1>3, PIs, SizeIs
  <2> QED
    BY <1>1, <1>3, <2>1
<1> QED
  BY <1>3, <1>6, <1>7, <1>8 DEF t, q, scaled

LEMMA DifferenceIs ==
  ASSUME NEW product \in Digits(Twice), NEW multiple \in Digits(Twice), NEW t \in Int,
         t = ValueOf(product, Twice) - ValueOf(multiple, Twice),
         0 <= t, t < 2 * Size
  PROVE  LET difference == Pass([i \in 1..NumWords + 1 |-> product[i] - multiple[i]])
         IN  /\ difference.words \in Digits(NumWords + 1)
             /\ ValueOf(difference.words, NumWords + 1) = t
             /\ Within(difference, -1..0)
<1> DEFINE n == NumWords + 1
           r == Twice - n
           word == [i \in 1..n |-> product[i] - multiple[i]]
           difference == Pass(word)
           m == Weight(n)
           a == ValueOf(product, n)
           b == ValueOf(multiple, n)
           high == [i \in 1..r |-> product[n + i]]
           top == [i \in 1..r |-> multiple[n + i]]
           c == ValueOf(high, r)
           d == ValueOf(top, r)
           k == c - d
<1>1. n \in Nat /\ n <= Twice /\ r \in Nat /\ n + r = Twice /\ Twice \in Nat
  BY SizesIs
<1>2. \A i \in 1..Twice : product[i] \in 0..Base - 1 /\ multiple[i] \in 0..Base - 1
  BY DEF Digits, Digit
<1>3. /\ Ints(product, n + r) /\ Ints(multiple, n + r) /\ Ints(high, r) /\ Ints(top, r)
      /\ Above(high, product, n, r) /\ Above(top, multiple, n, r)
      /\ Ints(product, n) /\ Ints(multiple, n)
  <2>1. \A i \in 1..Twice : product[i] \in Int /\ multiple[i] \in Int
    BY <1>2, BaseIs
  <2>2. \A i \in 1..n : i \in 1..Twice
    BY <1>1
  <2>3. \A i \in 1..r : n + i \in 1..Twice
    BY <1>1
  <2> HIDE DEF r, n
  <2> QED
    BY <1>1, <2>1, <2>2, <2>3 DEF Ints, Above
<1> HIDE DEF high, top, r
<1>4. /\ ValueOf(product, Twice) = a + (m * c)
      /\ ValueOf(multiple, Twice) = b + (m * d)
  <2> HIDE DEF n
  <2>1. /\ ValueOf(product, n + r) = ValueOf(product, n) + (Weight(n) * ValueOf(high, r))
        /\ ValueOf(multiple, n + r) = ValueOf(multiple, n) + (Weight(n) * ValueOf(top, r))
    BY <1>1, <1>3, SplitValue
  <2> QED
    BY <1>1, <2>1
<1>5. a \in Int /\ b \in Int /\ c \in Int /\ d \in Int /\ k \in Int
  <2> HIDE DEF n
  <2> QED
    BY <1>1, <1>3, ValueIsInt
<1>6. m \in Nat \ {0} /\ m = Base * Size
  BY <1>1, SizesIs, Weights DEF Size
<1>7. word \in [1..n -> Int] /\ Linear(word, product, -1, multiple, n)
  <2>1. \A i \in 1..n : product[i] \in Int /\ multiple[i] \in Int
    BY <1>3 DEF Ints
  <2>2. \A i \in 1..n : product[i] - multiple[i] = product[i] + ((-1) * multiple[i])
    BY <2>1
  <2> HIDE DEF n
  <2> QED
    BY <2>1, <2>2 DEF Linear
<1>8. ValueOf(word, n) = a + ((-1) * b)
  <2> HIDE DEF n, word
  <2>1. -1 \in Int
    OBVIOUS
  <2> QED
    BY <1>1, <1>7, <2>1, LinearValue
<1>9. Carries(difference, ValueOf(word, n), n)
  <2> HIDE DEF n, word
  <2> QED
    BY <1>1, <1>7, PassCarries
<1> DEFINE v == ValueOf(word, n)
<1>10. v % m = t
  <2> HIDE DEF word, m, a, b, c, d, n, v
  <2> DEFINE e == a - b
  <2>1. v = e /\ e \in Int
    BY <1>5, <1>8 DEF v
  <2>2. t = (a + (m * c)) - (b + (m * d))
    BY <1>4
  <2>3. m * k = (m * c) - (m * d) /\ m * c \in Int /\ m * d \in Int /\ m * k \in Int
    BY <1>5, <1>6
  <2> HIDE DEF k
  <2>4. e = (-(m * k)) + t
    BY <1>5, <2>2, <2>3
  <2>5. e = (m * (-k)) + t /\ -k \in Int
    BY <1>5, <1>6, <2>4
  <2>6. t \in 0..m - 1
    <3>1. Size * 2 <= Size * Base /\ Size * Base = Base * Size
      BY SizeIs, BaseIs, ProductsOrdered
    <3> QED
      BY <1>6, <3>1, SizeIs
  <2> HIDE DEF e
  <2>7. e % m = t
    BY <1>6, <2>1, <2>5, <2>6, Quotients
  <2> QED
    BY <2>1, <2>7
<1>11. difference.words \in Digits(n) /\ ValueOf(difference.words, n) = t
  <2> HIDE DEF difference, word, n
  <2> QED
    BY <1>9, <1>10 DEF Carries
<1> DEFINE S == -1..0
<1>12. Keeps(word, n, S)
  <2> SUFFICES ASSUME NEW i \in 1..n, NEW o \in S PROVE (word[i] + o) \div Base \in S
    BY DEF Keeps
  <2> DEFINE w == word[i] + o
  <2>1. Base \in Nat \ {0}
    BY BaseIs
  <2>2. i \in 1..Twice
    BY <1>1
  <2>3. product[i] \in 0..Base - 1 /\ multiple[i] \in 0..Base - 1
    BY <1>2, <2>2
  <2>4. w \in Int /\ w \in -Base..Base - 1
    BY <2>1, <2>3
  <2> HIDE DEF w
  <2>5. w \in 0..Base - 1 \/ w \in -Base..-1
    BY <2>1, <2>4
  <2>6. w \div Base \in S
    BY <2>1, <2>4, <2>5, OneBit
  <2> QED
    BY <2>6 DEF w
<1>13. 0 \in S
  OBVIOUS
<1> HIDE DEF S
<1>14. Within(difference, S)
  <2> HIDE DEF n, word
  <2> QED
    BY <1>1, <1>7, <1>12, <1>13, OversWithin
<1> QED
  BY <1>11, <1>14 DEF S

LEMMA MultiplyIs ==
  ASSUME NEW x \in Uint, NEW y \in Uint, Value(x) < P, Value(y) < P
  PROVE  /\ Multiply(x, y) \in Uint
         /\ Value(Multiply(x, y)) = (Value(x) * Value(y)) % P
         /\ MultiplyAsserts(x, y)
<1> DEFINE product == Product(x, y)
           q == Quotient(product)
           u == Value(x)
           v == Value(y)
           t == ValueOf(product, Twice)
           k == Value(q)
           multiple == TimesModulus(q)
           difference == Difference(product)
           r == t - (k * P)
<1>1. product \in Digits(Twice) /\ t = u * v
  BY ProductIs
<1>2. P \in Nat \ {0} /\ Size \in Nat \ {0} /\ P < Size /\ Size < 2 * P
  BY PIs, SizeIs
<1>3. u \in 0..P - 1 /\ v \in 0..P - 1
  BY <1>2, UintIs
<1> HIDE DEF product, u, v
<1>4. t \in Nat /\ t < P * P
  <2>1. u * v <= u * (P - 1) /\ (P - 1) * u <= (P - 1) * (P - 1)
    BY <1>2, <1>3, ProductsOrdered
  <2>2. u * (P - 1) = (P - 1) * u /\ (P - 1) * (P - 1) = ((P * P) - (2 * P)) + 1
    BY <1>2, <1>3
  <2>3. u * v \in Nat /\ u * (P - 1) \in Nat /\ P * P \in Nat
    BY <1>2, <1>3
  <2> HIDE DEF t
  <2> QED
    BY <1>1, <1>2, <2>1, <2>2, <2>3
<1>5. /\ Scaled(product).over = 0
      /\ q \in Uint
      /\ 0 <= r /\ r < 2 * P
  BY <1>1, <1>4, QuotientIs
<1>6. k \in 0..Size - 1 /\ k * P \in Nat /\ r \in Int
  <2>1. k \in 0..Size - 1
    BY <1>5, UintIs
  <2> HIDE DEF k, t
  <2> QED
    BY <1>2, <1>4, <2>1
<1>7. /\ multiple.words \in Digits(Twice) /\ ValueOf(multiple.words, Twice) = k * P
      /\ multiple.over = 0
  <2> DEFINE w == k * P
             m == Size * Size
  <2>1. Carries(multiple, w, Twice) /\ Weight(Twice) = m
    BY <1>5, TimesModulusIs, SizesIs
  <2>2. w \in Int /\ w \in 0..m - 1 /\ m \in Nat \ {0}
    <3>1. P * k <= P * (Size - 1) /\ (Size - 1) * P <= (Size - 1) * (Size - 1)
      BY <1>2, <1>6, ProductsOrdered
    <3>2. P * (Size - 1) = (Size - 1) * P /\ (Size - 1) * (Size - 1) = ((Size * Size) - (2 * Size)) + 1
      BY <1>2
    <3>3. k * P = P * k /\ Size * Size \in Nat \ {0} /\ P * (Size - 1) \in Nat
      BY <1>2, <1>6
    <3> QED
      BY <1>2, <1>6, <3>1, <3>2, <3>3
  <2> HIDE DEF w, m, multiple
  <2>3. w \div m = 0 /\ w % m = w
    BY <2>2, OneBit
  <2> QED
    BY <2>1, <2>3 DEF Carries, w
<1>8. /\ difference.words \in Digits(NumWords + 1)
      /\ ValueOf(difference.words, NumWords + 1) = r
      /\ Within(difference, -1..0)
  <2> DEFINE w == multiple.words
  <2>1. /\ difference = Pass([i \in 1..NumWords + 1 |-> product[i] - w[i]])
        /\ w \in Digits(Twice) /\ ValueOf(w, Twice) = k * P
    BY <1>7 DEF Difference
  <2>2. r = ValueOf(product, Twice) - ValueOf(w, Twice) /\ 0 <= r /\ r < 2 * Size
    <3>1. r = ValueOf(product, Twice) - ValueOf(w, Twice)
      BY <2>1
    <3> HIDE DEF r
    <3> QED
      BY <1>2, <1>5, <1>6, <3>1
  <2> HIDE DEF w, difference, r
  <2> QED
    BY <1>1, <1>6, <2>1, <2>2, DifferenceIs
<1> HIDE DEF difference, multiple
<1> DEFINE z == difference.words
           low == SubSeq(z, 1, NumWords)
           top == z[NumWords + 1]
           high == top # 0
<1>9. low \in Uint /\ Value(low) = r % Size /\ high \in BOOLEAN /\ (high <=> r >= Size)
  <2> DEFINE n == NumWords
             f == SubSeq(z, 0 + 1, 0 + n)
             g == SubSeq(z, n + 1, n + 1)
  <2> HIDE DEF z, r
  <2>1. n \in Nat /\ n + 1 \in Nat /\ z \in Digits(n + 1) /\ ValueOf(z, n + 1) = r
    BY <1>8, SizesIs DEF z
  <2>2. f \in Digits(n) /\ Above(f, z, 0, n)
    <3>1. 0 + n <= n + 1
      BY <2>1
    <3> HIDE DEF n
    <3> QED
      BY <2>1, <3>1, SubSeqIs
  <2>3. low = f
    BY <2>1
  <2>4. f \in Uint
    BY <2>2, SizeIs
  <2>5. top \in Digit /\ top \in Nat
    BY <2>1, BaseIs DEF Digits, Digit
  <2>6. ValueOf(z, n) = Value(f)
    <3> HIDE DEF f
    <3>1. Same(z, f, n)
      <4> SUFFICES ASSUME NEW i \in 1..n PROVE z[i] \in Int /\ f[i] = z[i]
        BY DEF Same
      <4>1. 0 + i = i /\ i \in 1..n + 1
        BY <2>1
      <4> QED
        BY <2>1, <2>2, <4>1, DigitsAre DEF Above, Ints
    <3> QED
      BY <2>1, <3>1, SameValue DEF Value
  <2>7. r = Value(f) + (top * Size)
    <3>1. Ints(z, n + 1) /\ n + 1 \in Nat \ {0} /\ (n + 1) - 1 = n
      BY <2>1, DigitsAre
    <3>2. ValueOf(z, n + 1) = ValueOf(z, (n + 1) - 1) + (z[n + 1] * Weight((n + 1) - 1))
      BY <3>1, ValueStep
    <3> QED
      BY <2>1, <2>6, <3>1, <3>2 DEF Size
  <2> DEFINE w == Value(f)
  <2>8. w \in 0..Size - 1
    BY <2>4, UintIs
  <2> HIDE DEF f, w, top
  <2>9. r = (Size * top) + w
    BY <1>2, <2>5, <2>7, <2>8 DEF w
  <2>10. r % Size = w
    BY <1>2, <1>6, <2>5, <2>8, <2>9, Quotients DEF r
  <2>11. top # 0 <=> r >= Size
    <3>1. top # 0 => Size * 1 <= Size * top /\ Size * 1 = Size
      BY <1>2, <2>5, ProductsOrdered
    <3>2. top = 0 => Size * top = 0
      BY <1>2, <2>5
    <3>3. Size * top \in Int
      BY <1>2, <2>5
    <3> QED
      BY <1>2, <2>8, <2>9, <3>1, <3>2, <3>3
  <2> QED
    BY <2>3, <2>4, <2>10, <2>11 DEF w, top
<1> HIDE DEF z, low, high, top
<1>10. /\ Subtract(low, MODULUS, Bit(high \/ ~Less(low, MODULUS))) \in Uint
       /\ Value(Subtract(low, MODULUS, Bit(high \/ ~Less(low, MODULUS)))) = r % P
  <2> HIDE DEF r
  <2> QED
    BY <1>5, <1>6, <1>9, Reduced
<1>11. Multiply(x, y) = Subtract(low, MODULUS, Bit(high \/ ~Less(low, MODULUS)))
  BY DEF Multiply, low, high, top, z, difference, product
<1>12. r % P = t % P
  <2> HIDE DEF t, k
  <2> DEFINE e == t % P
             h == t \div P
  <2>1. e \in 0..P - 1 /\ h \in Int /\ t = (P * h) + e /\ t \in Int
    <3>1. t \in Int
      BY <1>4
    <3> QED
      BY <1>2, <3>1, Division
  <2> HIDE DEF e, h
  <2>2. r = (P * (h - k)) + e /\ h - k \in Int
    <3>1. P * (h - k) = (P * h) - (k * P) /\ P * h \in Int
      BY <1>2, <1>6, <2>1
    <3> QED
      BY <1>2, <1>6, <2>1, <3>1
  <2> HIDE DEF r
  <2> DEFINE j == h - k
  <2> HIDE DEF j
  <2>3. r % P = e
    BY <1>2, <1>6, <2>1, <2>2, Quotients DEF j
  <2> QED
    BY <2>3 DEF e
<1>13. MultiplyAsserts(x, y)
  <2>1. Within(Scaled(product), 0..Excess + 2)
    BY <1>1, ScaledValue
  <2>2. Within(multiple, -(Excess + 2)..0)
    BY <1>5, TimesModulusIs DEF multiple
  <2> QED
    BY <1>5, <1>7, <1>8, <2>1, <2>2 DEF MultiplyAsserts, product, multiple, difference
<1> QED
  BY <1>1, <1>10, <1>11, <1>12, <1>13 DEF u, v

-----------------------------------------------------------------------------
(* Reading and writing *)

Shift(j) == Power(DigitBase, j)

LEMMA DigitBaseIs ==
  /\ DigitBase \in Nat \ {0} /\ DigitsPerWord \in Nat \ {0}
  /\ NumDigits \in Nat /\ NumDigits = NumWords * DigitsPerWord
  /\ \A k \in Nat : Weight(k) = Shift(k * DigitsPerWord)
  /\ Base = Shift(DigitsPerWord)
<1> DEFINE d == WordBits \div DigitBits
<1>1. WordBits \in Nat \ {0} /\ DigitBits \in 1..WordBits /\ WordBits % DigitBits = 0 /\ NumWords \in Nat
  BY UintConstants
<1>2. d \in Int /\ WordBits = DigitBits * d
  <2>1. WordBits \in Int /\ DigitBits \in Nat \ {0}
    BY <1>1
  <2>2. d \in Int /\ WordBits = (DigitBits * d) + (WordBits % DigitBits)
    BY <2>1, Division
  <2> HIDE DEF d
  <2>3. DigitBits * d \in Int
    BY <2>1, <2>2
  <2> QED
    BY <1>1, <2>2, <2>3
<1> HIDE DEF d
<1>3. d \in Nat \ {0}
  <2>1. ASSUME d <= 0 PROVE FALSE
    <3>1. DigitBits * d <= DigitBits * 0 /\ DigitBits * 0 = 0
      BY <1>1, <1>2, <2>1, ProductsOrdered
    <3> QED
      BY <1>1, <1>2, <3>1
  <2> QED
    BY <1>2, <2>1
<1>4. DigitBase \in Nat \ {0}
  BY <1>1, PowerPositive DEF DigitBase
<1>5. Base = Shift(d)
  <2>1. Power(Power(2, DigitBits), d) = Power(2, d * DigitBits)
    BY <1>1, <1>3, PowersMultiply
  <2>2. d * DigitBits = WordBits
    BY <1>1, <1>2, <1>3
  <2> QED
    BY <2>1, <2>2 DEF Base, Shift, DigitBase
<1>6. ASSUME NEW k \in Nat PROVE Weight(k) = Shift(k * d)
  <2>1. Power(Power(DigitBase, d), k) = Power(DigitBase, k * d)
    BY <1>3, <1>4, PowersMultiply
  <2> QED
    BY <1>5, <2>1 DEF Weight, Shift
<1>7. DigitsPerWord = d
  BY DEF DigitsPerWord, d
<1>8. NumDigits \in Nat /\ NumDigits = NumWords * d
  <2>1. NumWords * d \in Nat
    BY <1>1, <1>3
  <2> QED
    BY <1>7, <2>1 DEF NumDigits
<1> QED
  BY <1>3, <1>4, <1>5, <1>6, <1>7, <1>8

LEMMA Shifts ==
  ASSUME NEW k \in Nat
  PROVE  Shift(0) = 1 /\ Shift(k) \in Nat \ {0} /\ Shift(k + 1) = DigitBase * Shift(k)
BY DigitBaseIs, PowerPositive, PowerIs DEF Shift

(* Digit k of word i, counted from the least significant one. *)
LEMMA ByteIs ==
  ASSUME NEW x \in Uint, NEW i \in 1..NumWords, NEW k \in 1..DigitsPerWord
  PROVE  LET d == NumDigits - ((i - 1) * DigitsPerWord + k)
         IN  /\ d \in 0..NumDigits - 1
             /\ GetBigEndianBytes(x)[d] = (x[i] \div Shift(k - 1)) % DigitBase
<1> DEFINE m == DigitsPerWord
           n == NumWords
           d == NumDigits - ((i - 1) * m + k)
           j == n - i
           l == m - k
<1>1. m \in Nat \ {0} /\ n \in Nat /\ NumDigits = n * m /\ NumDigits \in Nat
  BY DigitBaseIs, UintConstants
<1>2. i \in 1..n /\ k \in 1..m
  OBVIOUS
<1> HIDE DEF m, n, j, l
<1>3. j \in Nat /\ l \in 0..m - 1 /\ n - j = i /\ m - 1 - l = k - 1 /\ k - 1 \in Nat
  BY <1>1, <1>2 DEF j, l
<1>4. d = (m * j) + l
  <2>1. i \in Int /\ j = n - i /\ l = m - k /\ k \in Int
    BY <1>1, <1>2 DEF j, l
  <2>2. n * m - ((i - 1) * m + k) = (m * (n - i)) + (m - k)
    BY <1>1, <2>1
  <2> QED
    BY <1>1, <2>1, <2>2
<1>5. d \in Nat /\ d < NumDigits
  <2>1. m * j \in Nat
    BY <1>1, <1>3
  <2>2. (i - 1) * m \in Nat
    BY <1>1, <1>2
  <2> QED
    BY <1>1, <1>2, <1>3, <1>4, <2>1, <2>2
<1> HIDE DEF d
<1>6. d \div m = j /\ d % m = l
  BY <1>1, <1>3, <1>4, <1>5, Quotients
<1>7. d \in 0..NumDigits - 1
  BY <1>1, <1>5
<1>8. GetBigEndianBytes(x)[d]
        = (x[n - d \div m] \div Power(DigitBase, m - 1 - (d % m))) % DigitBase
  BY <1>7 DEF GetBigEndianBytes, n, m
<1>9. GetBigEndianBytes(x)[d] = (x[i] \div Shift(k - 1)) % DigitBase
  BY <1>3, <1>6, <1>8 DEF Shift
<1> QED
  BY <1>7, <1>9 DEF d, m

(* A word is the sum of its digits. *)
LEMMA ConstructedIs ==
  ASSUME NEW x \in Uint, NEW digits,
         \A i \in 1..NumWords, k \in 1..DigitsPerWord :
           digits[NumDigits - ((i - 1) * DigitsPerWord + k)] = (x[i] \div Shift(k - 1)) % DigitBase
  PROVE  Constructed(digits) = x
<1> DEFINE n == DigitsPerWord
           dg(i, k) == digits[NumDigits - ((i - 1) * n + k)]
<1>0. n \in Nat \ {0} /\ DigitBase \in Nat \ {0} /\ Base = Shift(n) /\ n \in 0..n
  BY DigitBaseIs
<1>1. ASSUME NEW i \in 1..NumWords PROVE Constructed(digits)[i] = x[i]
  <2> DEFINE v == x[i]
             add(k) == dg(i, k) * Power(DigitBase, k - 1)
             step == [k \in 1..n |-> [s \in Int |-> s + add(k)]]
             eq(p) == p = [k \in 0..n |-> IF k = 0 THEN 0 ELSE p[k - 1] + add(k)]
             sum == CHOOSE p : eq(p)
  <2>1. v \in 0..Base - 1 /\ v \in Int
    BY BaseIs DEF Uint
  <2>2. ASSUME NEW k \in 1..n
        PROVE  /\ dg(i, k) = (v \div Shift(k - 1)) % DigitBase
               /\ dg(i, k) \in Int /\ add(k) = dg(i, k) * Shift(k - 1) /\ add(k) \in Int
    <3>1. dg(i, k) = (v \div Shift(k - 1)) % DigitBase
      OBVIOUS
    <3> DEFINE e == Shift(k - 1)
               q == v \div e
    <3>2. e \in Nat \ {0}
      <4>1. k - 1 \in Nat
        OBVIOUS
      <4> QED
        BY <4>1, Shifts
    <3> HIDE DEF e
    <3>3. q \in Int
      BY <2>1, <3>2, Division
    <3> HIDE DEF q
    <3>4. q % DigitBase \in Int
      BY <1>0, <3>3, Division
    <3>5. dg(i, k) \in Int
      BY <3>1, <3>4 DEF q, e
    <3>6. add(k) = dg(i, k) * e
      BY DEF e, Shift
    <3> HIDE DEF add, dg
    <3>7. dg(i, k) * e \in Int
      BY <3>2, <3>5
    <3> QED
      BY <3>1, <3>5, <3>6, <3>7 DEF e
  <2>3. Constructed(digits)[i] = sum[n]
    BY DEF Constructed
  <2> HIDE DEF add, dg, v
  <2>4. step \in [1..n -> [Int -> Int]] /\ \A k \in 1..n, s \in Int : step[k][s] = s + add(k)
    BY <2>2
  <2> HIDE DEF step
  <2>5. PICK f \in [0..n -> Int] : Solves(f, n, 0, step)
    <3>1. n \in Nat /\ 0 \in Int
      BY <1>0
    <3> QED
      BY <2>4, <3>1, RecursionHasSolution
  <2>6. eq(f)
    <3>1. f[0] = 0
      BY <2>5 DEF Solves
    <3>2. ASSUME NEW k \in 1..n PROVE f[k] = f[k - 1] + add(k)
      <4>1. f[k] = step[k][f[k - 1]]
        BY <2>5 DEF Solves
      <4>2. f[k - 1] \in Int
        BY <1>0
      <4> QED
        BY <2>4, <4>1, <4>2
    <3>3. \A k \in 0..n : k = 0 \/ (k # 0 /\ k \in 1..n)
      BY <1>0
    <3> QED
      BY <3>1, <3>2, <3>3
  <2>7. sum = [k \in 0..n |-> IF k = 0 THEN 0 ELSE sum[k - 1] + add(k)]
    <3>1. eq(sum)
      <4> HIDE DEF eq
      <4> QED
        BY <2>6
    <3> QED
      BY <3>1
  <2> HIDE DEF sum
  <2> DEFINE Good == {k \in 0..n : sum[k] = v % Shift(k)}
  <2>8. 0 \in Good
    <3>1. sum[0] = 0 /\ Shift(0) = 1
      <4>1. 0 \in 0..n /\ 0 \in Nat
        BY <1>0
      <4> QED
        BY <2>7, <4>1, Shifts
    <3>2. v % 1 = 0
      BY <2>1
    <3> QED
      BY <1>0, <3>1, <3>2
  <2>9. ASSUME NEW k \in 0..n - 1, k \in Good PROVE k + 1 \in Good
    <3> DEFINE m == Shift(k)
               d == dg(i, k + 1)
    <3>1. k \in Nat /\ k + 1 \in 1..n /\ k + 1 \in 0..n /\ (k + 1) - 1 = k /\ k + 1 # 0
      BY <1>0
    <3>2. sum[k + 1] = sum[k] + add(k + 1)
      BY <2>7, <3>1
    <3>3. d = (v \div m) % DigitBase /\ d \in Int /\ add(k + 1) = d * m
      BY <2>2, <3>1
    <3>4. m \in Nat \ {0} /\ Shift(k + 1) = DigitBase * m
      BY <3>1, Shifts
    <3>5. sum[k] = v % m
      BY <2>9
    <3> HIDE DEF d, m
    <3>6. v % (DigitBase * m) = (((v \div m) % DigitBase) * m) + (v % m)
      BY <1>0, <2>1, <3>4, DivTwice
    <3> DEFINE r == v % m
    <3>7. r \in Int /\ d * m \in Int
      <4>1. r \in Int
        BY <2>1, <3>4, Division
      <4>2. d * m \in Int
        BY <3>3, <3>4
      <4> QED
        BY <4>1, <4>2
    <3> HIDE DEF r
    <3>8. sum[k + 1] = r + (d * m) /\ v % (DigitBase * m) = (d * m) + r
      BY <3>2, <3>3, <3>5, <3>6 DEF r
    <3>9. sum[k + 1] = v % (DigitBase * m)
      BY <3>7, <3>8
    <3> QED
      BY <3>1, <3>4, <3>9
  <2>10. n \in Good
    <3>1. n \in Nat
      BY <1>0
    <3> HIDE DEF Good
    <3> QED
      BY <1>0, <2>8, <2>9, <3>1, UpTo
  <2>11. v % Base = v
    BY <2>1, BaseIs, OneBit
  <2> QED
    BY <1>0, <2>3, <2>10, <2>11 DEF v
<1>2. Constructed(digits) = [i \in 1..NumWords |-> Constructed(digits)[i]]
  BY DEF Constructed
<1>3. x = [i \in 1..NumWords |-> x[i]]
  BY DEF Uint
<1> QED
  BY <1>1, <1>2, <1>3

LEMMA WordIs ==
  ASSUME NEW x \in Uint, NEW i \in 1..NumWords
  PROVE  x[i] = (Value(x) \div Weight(i - 1)) % Base
<1> DEFINE v == Value(x)
           z == [k \in 1..NumWords |-> (v \div Weight(k - 1)) % Base]
<1>1. WordsOf(z, v, NumWords)
  BY DEF WordsOf
<1>2. v \in Int /\ v \in 0..Size - 1
  BY UintIs, SizeIs
<1> HIDE DEF v
<1>3. (\A k \in 1..NumWords : z[k] \in Digit) /\ ValueOf(z, NumWords) = v % Weight(NumWords)
  <2> HIDE DEF z
  <2> QED
    BY <1>1, <1>2, SizeIs, WordsValue
<1>4. z \in Uint
  <2>1. z = [k \in 1..NumWords |-> z[k]]
    OBVIOUS
  <2> HIDE DEF z
  <2> QED
    BY <1>3, <2>1, SizeIs DEF Digits
<1>5. v % Size = v
  BY <1>2, SizeIs, OneBit
<1>6. Value(z) = v
  <2> HIDE DEF z
  <2> QED
    BY <1>3, <1>5 DEF Value, Size
<1>7. z = x
  <2> HIDE DEF z
  <2> QED
    BY <1>4, <1>6, UintsDiffer DEF v
<1>8. z[i] = (v \div Weight(i - 1)) % Base
  OBVIOUS
<1> HIDE DEF z
<1> QED
  BY <1>7, <1>8 DEF v

(* The digits of a remainder are digits of the number. *)
LEMMA DigitOfRemainder ==
  ASSUME NEW w \in Int, NEW b \in Nat \ {0}, NEW e \in Nat \ {0}, NEW g \in Nat \ {0}
  PROVE  ((w % ((b * g) * e)) \div e) % b = (w \div e) % b
<1> DEFINE k == (b * g) * e
           q == w \div k
           r == w % k
           f == r \div e
           h == r % e
           c == f \div b
           d == f % b
           p == (b * g) * q + f
<1>1. k \in Nat \ {0}
  BY SMT
<1>2. q \in Int /\ r \in 0..k - 1 /\ w = (k * q) + r /\ r \in Int
  <2> HIDE DEF k
  <2> QED
    BY <1>1, Division
<1> HIDE DEF q, r
<1>3. f \in Int /\ h \in 0..e - 1 /\ r = (e * f) + h
  BY <1>2, Division
<1> HIDE DEF f, h
<1>4. c \in Int /\ d \in 0..b - 1 /\ f = (b * c) + d
  BY <1>3, Division
<1> HIDE DEF c, d
<1>5. w \div e = p
  <2>1. w = (e * p) + h
    <3>1. k * q = e * ((b * g) * q) /\ e * p = (e * ((b * g) * q)) + (e * f)
      BY <1>2, <1>3
    <3>2. k * q \in Int /\ e * f \in Int
      BY <1>1, <1>2, <1>3
    <3> HIDE DEF k, p
    <3> QED
      BY <1>2, <1>3, <3>1, <3>2
  <2>2. p \in Int
    BY <1>2, <1>3
  <2> HIDE DEF p
  <2> QED
    BY <1>2, <1>3, <2>1, <2>2, Quotients
<1>6. p % b = d
  <2> DEFINE j == (g * q) + c
  <2>1. p = (b * j) + d /\ j \in Int /\ p \in Int
    <3>1. (b * g) * q = b * (g * q) /\ b * ((g * q) + c) = (b * (g * q)) + (b * c)
      BY <1>2, <1>4
    <3>2. b * (g * q) \in Int /\ b * c \in Int /\ g * q \in Int
      BY <1>2, <1>4
    <3> QED
      BY <1>3, <1>4, <3>1, <3>2
  <2> HIDE DEF p, j
  <2> QED
    BY <1>4, <2>1, Quotients
<1> QED
  BY <1>5, <1>6 DEF d, f, r, k

(* Digit j of the whole number, counted from the least significant one. *)
LEMMA ByteOf ==
  ASSUME NEW x \in Uint, NEW j \in 0..NumDigits - 1
  PROVE  GetBigEndianBytes(x)[(NumDigits - 1) - j] = (Value(x) \div Shift(j)) % DigitBase
<1> DEFINE m == DigitsPerWord
           n == NumWords
           a == j \div m
           l == j % m
           i == a + 1
           k == l + 1
           v == Value(x)
           d == NumDigits - ((i - 1) * m + k)
<1>1. m \in Nat \ {0} /\ n \in Nat /\ NumDigits = n * m /\ NumDigits \in Nat /\ j \in Int
  BY DigitBaseIs, UintConstants
<1>2. a \in Int /\ l \in 0..m - 1 /\ j = (m * a) + l
  <2> HIDE DEF m
  <2> QED
    BY <1>1, Division
<1> HIDE DEF m, n, a, l
<1>3. i \in 1..n /\ a \in Nat
  <2>1. a \in 0..n - 1
    <3>1. m * 0 <= j /\ j < m * ((n - 1) + 1)
      <4>1. m * 0 = 0 /\ m * ((n - 1) + 1) = n * m
        BY <1>1
      <4> QED
        BY <1>1, <4>1
    <3>2. 0 \in Int /\ n - 1 \in Int
      BY <1>1
    <3>3. j \div m \in 0..n - 1
      BY <1>1, <3>1, <3>2, DivWithin
    <3> QED
      BY <3>3 DEF a
  <2> QED
    BY <1>1, <1>2, <2>1
<1>4. k \in 1..m /\ i - 1 = a /\ k - 1 = l /\ l \in Nat
  BY <1>1, <1>2, <1>3
<1>5. d = (NumDigits - 1) - j
  <2>1. (i - 1) * m = m * a /\ m * a \in Int
    BY <1>1, <1>2, <1>4
  <2> QED
    BY <1>1, <1>2, <2>1
<1>6. GetBigEndianBytes(x)[d] = (x[i] \div Shift(k - 1)) % DigitBase
  BY <1>3, <1>4, ByteIs DEF m, n
<1> DEFINE w == v \div Weight(a)
           e == Shift(l)
           g == Shift((m - 1) - l)
<1>7. x[i] = w % Base
  BY <1>3, <1>4, WordIs DEF n
<1>8. /\ (m - 1) - l \in Nat
      /\ e \in Nat \ {0} /\ g \in Nat \ {0} /\ Weight(a) \in Nat \ {0} /\ v \in Int
      /\ DigitBase \in Nat \ {0}
  <2>1. (m - 1) - l \in Nat
    BY <1>1, <1>2
  <2>2. e \in Nat \ {0} /\ g \in Nat \ {0}
    BY <1>4, <2>1, Shifts
  <2>3. Weight(a) \in Nat \ {0}
    BY <1>3, Weights
  <2>4. v \in Int
    BY UintIs, SizeIs
  <2> QED
    BY <2>1, <2>2, <2>3, <2>4, DigitBaseIs
<1>9. Base = (DigitBase * g) * e
  <2> DEFINE h == (m - 1) - l
  <2>1. Base = Shift(m)
    BY DigitBaseIs DEF m
  <2>2. m = (h + 1) + l /\ h + 1 \in Nat /\ h \in Nat
    BY <1>1, <1>2, <1>8
  <2> HIDE DEF h
  <2>3. Shift((h + 1) + l) = Shift(h + 1) * Shift(l)
    BY <1>4, <1>8, <2>2, PowersAdd DEF Shift
  <2>4. Shift(h + 1) = DigitBase * Shift(h)
    BY <2>2, Shifts
  <2> QED
    BY <2>1, <2>2, <2>3, <2>4 DEF h
<1>10. w \in Int
  <2> HIDE DEF v
  <2> QED
    BY <1>8, Division
<1>11. Shift(j) = e * Weight(a)
  <2>1. Weight(a) = Shift(a * m)
    BY <1>3, DigitBaseIs DEF m
  <2>2. j = l + (a * m) /\ a * m \in Nat
    <3>1. a * m = m * a /\ m * a \in Nat
      BY <1>1, <1>3
    <3> QED
      BY <1>1, <1>2, <3>1
  <2>3. Shift(l + (a * m)) = Shift(l) * Shift(a * m)
    BY <1>4, <1>8, <2>2, PowersAdd DEF Shift
  <2> QED
    BY <2>1, <2>2, <2>3
<1> HIDE DEF e, g, v, i, k, d
<1>12. v \div Shift(j) = w \div e
  <2> DEFINE f == Weight(a)
  <2>1. f \in Nat \ {0} /\ Shift(j) = e * f
    BY <1>8, <1>11
  <2>2. w = v \div f
    BY DEF w
  <2> HIDE DEF f, w
  <2>3. v \div (e * f) = (v \div f) \div e
    BY <1>8, <2>1, DivTwice
  <2> QED
    BY <2>1, <2>2, <2>3
<1> HIDE DEF w
<1>13. ((w % ((DigitBase * g) * e)) \div e) % DigitBase = (w \div e) % DigitBase
  <2> DEFINE b == DigitBase
  <2>1. w \in Int /\ b \in Nat \ {0} /\ e \in Nat \ {0} /\ g \in Nat \ {0}
    BY <1>8, <1>10
  <2> HIDE DEF b
  <2>2. ((w % ((b * g) * e)) \div e) % b = (w \div e) % b
    BY <2>1, DigitOfRemainder, Zenon
  <2> QED
    BY <2>2 DEF b
<1>14. GetBigEndianBytes(x)[d] = ((w % Base) \div e) % DigitBase
  BY <1>4, <1>6, <1>7 DEF e
<1> QED
  BY <1>5, <1>9, <1>12, <1>13, <1>14 DEF v

LEMMA HornerIs ==
  ASSUME NEW x \in Uint
  PROVE  Horner(GetBigEndianBytes(x)) = Value(x)
<1> DEFINE n == NumDigits
           dg == GetBigEndianBytes(x)
           v == Value(x)
           step == [d \in 1..n |-> [s \in Int |-> (s * DigitBase) + dg[d - 1]]]
           eq(p) == p = [d \in 0..n |-> IF d = 0 THEN 0 ELSE (p[d - 1] * DigitBase) + dg[d - 1]]
           sum == CHOOSE p : eq(p)
<1>1. n \in Nat /\ DigitBase \in Nat \ {0} /\ v \in Int /\ n \in 0..n
  BY DigitBaseIs, UintIs, SizeIs
<1>2. Horner(dg) = sum[n]
  BY DEF Horner
<1> HIDE DEF v
<1>3. ASSUME NEW d \in 1..n
      PROVE  /\ dg[d - 1] = (v \div Shift(n - d)) % DigitBase /\ dg[d - 1] \in Int
             /\ Shift(n - d) \in Nat \ {0} /\ v \div Shift(n - d) \in Int
             /\ Shift((n - d) + 1) = DigitBase * Shift(n - d)
  <2> DEFINE j == n - d
  <2>1. j \in 0..n - 1 /\ (n - 1) - j = d - 1 /\ j \in Nat
    BY <1>1
  <2> HIDE DEF j, dg
  <2>2. dg[(n - 1) - j] = (v \div Shift(j)) % DigitBase
    BY <2>1, ByteOf DEF dg, v
  <2>3. Shift(j) \in Nat \ {0} /\ Shift(j + 1) = DigitBase * Shift(j)
    BY <2>1, Shifts
  <2> DEFINE q == v \div Shift(j)
  <2>4. q \in Int
    BY <1>1, <2>3, Division
  <2> HIDE DEF q
  <2>5. q % DigitBase \in Int
    BY <1>1, <2>4, Division
  <2>6. dg[d - 1] = q % DigitBase
    BY <2>1, <2>2 DEF q
  <2> QED
    BY <2>3, <2>4, <2>5, <2>6 DEF j, q
<1> HIDE DEF dg
<1>4. /\ step \in [1..n -> [Int -> Int]]
      /\ \A d \in 1..n, s \in Int : step[d][s] = (s * DigitBase) + dg[d - 1]
  <2>1. ASSUME NEW d \in 1..n, NEW s \in Int PROVE (s * DigitBase) + dg[d - 1] \in Int
    <3>1. dg[d - 1] \in Int
      BY <1>3
    <3> QED
      BY <1>1, <3>1
  <2> QED
    BY <2>1
<1> HIDE DEF step
<1>5. PICK f \in [0..n -> Int] : Solves(f, n, 0, step)
  <2>1. 0 \in Int
    OBVIOUS
  <2> QED
    BY <1>1, <1>4, <2>1, RecursionHasSolution
<1>6. eq(f)
  <2>1. f[0] = 0
    BY <1>5 DEF Solves
  <2>2. ASSUME NEW d \in 1..n PROVE f[d] = (f[d - 1] * DigitBase) + dg[d - 1]
    <3>1. f[d] = step[d][f[d - 1]]
      BY <1>5 DEF Solves
    <3>2. f[d - 1] \in Int
      BY <1>1
    <3> QED
      BY <1>4, <3>1, <3>2
  <2>3. \A d \in 0..n : d = 0 \/ (d # 0 /\ d \in 1..n)
    BY <1>1
  <2> QED
    BY <2>1, <2>2, <2>3
<1>7. sum = [d \in 0..n |-> IF d = 0 THEN 0 ELSE (sum[d - 1] * DigitBase) + dg[d - 1]]
  <2>1. eq(sum)
    <3> HIDE DEF eq
    <3> QED
      BY <1>6
  <2> QED
    BY <2>1
<1> HIDE DEF sum
<1> DEFINE Good == {d \in 0..n : sum[d] = v \div Shift(n - d)}
<1>8. 0 \in Good
  <2>1. sum[0] = 0 /\ 0 \in 0..n
    BY <1>1, <1>7
  <2>2. v \in 0..Shift(n) - 1 /\ Shift(n) \in Nat \ {0}
    <3>1. Size = Shift(NumWords * DigitsPerWord) /\ NumDigits = NumWords * DigitsPerWord
      BY DigitBaseIs, SizeIs DEF Size
    <3> QED
      BY <1>1, <3>1, UintIs, Shifts DEF v
  <2>3. v \div Shift(n) = 0
    BY <1>1, <2>2, OneBit
  <2>4. n - 0 = n
    BY <1>1
  <2> QED
    BY <2>1, <2>3, <2>4
<1>9. ASSUME NEW k \in 0..n - 1, k \in Good PROVE k + 1 \in Good
  <2> DEFINE d == k + 1
             e == Shift(n - d)
             w == v \div e
             b == dg[k]
  <2>1. d \in 1..n /\ d \in 0..n /\ d - 1 = k /\ d # 0 /\ (n - d) + 1 = n - k
    BY <1>1
  <2>2. sum[d] = (sum[k] * DigitBase) + b
    BY <1>7, <2>1
  <2>3. b = w % DigitBase /\ e \in Nat \ {0} /\ w \in Int /\ Shift(n - k) = DigitBase * e
    BY <1>3, <2>1
  <2>4. sum[k] = v \div Shift(n - k)
    BY <1>9
  <2> HIDE DEF e, b, d
  <2>5. v \div (DigitBase * e) = w \div DigitBase
    BY <1>1, <2>3, DivTwice
  <2> HIDE DEF w
  <2> DEFINE q == w \div DigitBase
             r == w % DigitBase
  <2>6. q \in Int /\ r \in Int /\ w = (DigitBase * q) + r
    <3>1. q \in Int /\ r \in 0..DigitBase - 1 /\ w = (DigitBase * q) + r
      BY <1>1, <2>3, Division
    <3> HIDE DEF q, r
    <3> QED
      BY <1>1, <3>1
  <2>7. sum[d] = (q * DigitBase) + r
    BY <2>2, <2>3, <2>4, <2>5
  <2> HIDE DEF q, r
  <2>8. q * DigitBase = DigitBase * q
    BY <1>1, <2>6
  <2>9. sum[d] = v \div Shift(n - d)
    BY <2>6, <2>7, <2>8 DEF w, e
  <2> QED
    BY <2>1, <2>9 DEF d
<1>10. n \in Good
  <2> HIDE DEF Good
  <2> QED
    BY <1>1, <1>8, <1>9, UpTo
<1>11. v \div Shift(0) = v
  <2>1. Shift(0) = 1
    BY <1>1, Shifts
  <2>2. v \div 1 = v
    BY <1>1
  <2> QED
    BY <2>1, <2>2
<1>12. n - n = 0
  BY <1>1
<1> QED
  BY <1>2, <1>10, <1>11, <1>12 DEF v, dg

(* What is written reads back, for any number. *)
LEMMA BytesAre ==
  ASSUME NEW x \in Uint
  PROVE  /\ Horner(GetBigEndianBytes(x)) = Value(x)
         /\ Constructed(GetBigEndianBytes(x)) = x
<1>1. \A i \in 1..NumWords, k \in 1..DigitsPerWord :
        GetBigEndianBytes(x)[NumDigits - ((i - 1) * DigitsPerWord + k)]
          = (x[i] \div Shift(k - 1)) % DigitBase
  BY ByteIs
<1>2. Constructed(GetBigEndianBytes(x)) = x
  <2> DEFINE dg == GetBigEndianBytes(x)
  <2>1. \A i \in 1..NumWords, k \in 1..DigitsPerWord :
          dg[NumDigits - ((i - 1) * DigitsPerWord + k)] = (x[i] \div Shift(k - 1)) % DigitBase
    BY <1>1
  <2> HIDE DEF dg
  <2>2. Constructed(dg) = x
    BY <2>1, ConstructedIs
  <2> QED
    BY <2>2 DEF dg
<1> QED
  BY <1>2, HornerIs

-----------------------------------------------------------------------------
(* The extended binary GCD: numbers *)

Divides(g, n) == \E k \in Int : n = g * k

(* Equal modulo the prime. *)
Congruent(m, n) == \E k \in Int : m = n + (P * k)

CommonDivisors(x, y, t) ==
  \A g \in Nat \ {0} : Divides(g, x) /\ Divides(g, y) => Divides(g, P) /\ Divides(g, t)

(* What a round keeps of the numbers in its state: x and y are a and b     *)
(* times t, and have only the divisors that the prime and t have.          *)
Kept(x, y, a, b, t) ==
  /\ x \in Nat /\ y \in Nat /\ a \in Nat /\ b \in Nat
  /\ x % 2 = 1 /\ x <= P /\ y < P /\ a < P /\ b < P
  /\ Congruent(x, a * t) /\ Congruent(y, b * t)
  /\ CommonDivisors(x, y, t)

LEMMA HalfKept ==
  ASSUME NEW x, NEW y, NEW a, NEW b, NEW t \in Nat, NEW y2 \in Nat, NEW b2 \in Nat,
         Kept(x, y, a, b, t), 2 * y2 = y, 2 * b2 = b \/ 2 * b2 = b + P
  PROVE  Kept(x, y2, a, b2, t)
<1>1. x \in Nat /\ y \in Nat /\ a \in Nat /\ b \in Nat /\ y < P /\ b < P
  BY DEF Kept
<1>2. P \in Nat /\ P % 2 = 1
  BY PIs, PIsPrime
<1>3. y2 < P /\ b2 < P
  BY <1>1, <1>2
<1>4. Congruent(y2, b2 * t)
  <2> DEFINE h == P \div 2
             d == y2 - (b2 * t)
  <2>1. PICK k \in Int : y = (b * t) + (P * k)
    BY DEF Kept, Congruent
  <2>2. PICK f \in Int : 2 * b2 = b + (P * f)
    <3>1. CASE 2 * b2 = b
      <4>1. 2 * b2 = b + (P * 0)
        BY <1>1, <1>2, <3>1
      <4> QED
        BY <4>1
    <3>2. CASE 2 * b2 = b + P
      <4>1. 2 * b2 = b + (P * 1)
        BY <1>1, <1>2, <3>2
      <4> QED
        BY <4>1
    <3> QED
      BY <3>1, <3>2
  <2>3. h \in Int /\ P = (2 * h) + 1
    <3>1. h \in Int /\ P = (2 * h) + (P % 2)
      BY <1>2, Halves
    <3> QED
      BY <1>2, <3>1
  <2> HIDE DEF h
  <2> DEFINE e == k - (f * t)
             r == d - (h * e)
             p == P
  <2>4. e \in Int /\ d \in Int /\ r \in Int /\ b2 * t \in Int /\ p \in Int
    <3>1. f * t \in Int /\ b2 * t \in Int
      OBVIOUS
    <3>2. h * e \in Int
      BY <2>3, <3>1
    <3> QED
      BY <1>2, <3>1, <3>2
  <2>5. 2 * d = p * e
    <3>1. (2 * b2) * t = (b + (p * f)) * t
      BY <2>2
    <3>2. (2 * b2) * t = 2 * (b2 * t)
      OBVIOUS
    <3>3. (b + (p * f)) * t = (b * t) + (p * (f * t))
      BY <1>1, <1>2
    <3>4. p * e = (p * k) - (p * (f * t))
      BY <1>2
    <3>5. 2 * d = (2 * y2) - (2 * (b2 * t))
      BY <2>4
    <3>6. b * t \in Int /\ p * (f * t) \in Int /\ p * k \in Int
      BY <1>1, <1>2
    <3> DEFINE x1 == b * t
               x2 == p * (f * t)
               x3 == p * k
               x4 == b2 * t
    <3>7. /\ 2 * x4 = x1 + x2 /\ p * e = x3 - x2 /\ 2 * d = (2 * y2) - (2 * x4)
          /\ 2 * y2 = x1 + x3
      BY <2>1, <3>1, <3>2, <3>3, <3>4, <3>5
    <3>8. x1 \in Int /\ x2 \in Int /\ x3 \in Int /\ x4 \in Int
      BY <2>4, <3>6
    <3> HIDE DEF x1, x2, x3, x4, d, e, p
    <3> QED
      BY <3>7, <3>8
  <2>6. d = p * r
    <3> HIDE DEF d, e
    <3>1. p * r = (p * d) - (h * (p * e))
      BY <2>3, <2>4
    <3>2. h * (p * e) = (2 * h) * d
      <4>1. h * (2 * d) = (2 * h) * d
        BY <2>3, <2>4
      <4> QED
        BY <2>5, <4>1
    <3>3. p * d = ((2 * h) * d) + d
      <4>1. ((2 * h) + 1) * d = ((2 * h) * d) + d
        BY <2>3, <2>4
      <4> QED
        BY <2>3, <4>1
    <3>4. (2 * h) * d \in Int
      BY <2>3, <2>4
    <3> DEFINE w == (2 * h) * d
    <3> HIDE DEF w, r, p
    <3>5. p * r = (w + d) - w
      BY <3>1, <3>2, <3>3 DEF w
    <3>6. w \in Int
      BY <3>4 DEF w
    <3> QED
      BY <2>4, <3>5, <3>6
  <2>7. y2 = (b2 * t) + (P * r)
    <3> DEFINE w == b2 * t
               z == p * r
    <3>1. w \in Int /\ d = y2 - w /\ d = z
      BY <2>4, <2>6
    <3> HIDE DEF w, z, d
    <3>2. y2 = w + z
      BY <2>4, <3>1
    <3> QED
      BY <3>2 DEF w, z
  <2> HIDE DEF r
  <2> QED
    BY <2>4, <2>7 DEF Congruent
<1>5. CommonDivisors(x, y2, t)
  <2> SUFFICES ASSUME NEW g \in Nat \ {0}, Divides(g, x), Divides(g, y2)
               PROVE  Divides(g, P) /\ Divides(g, t)
    BY DEF CommonDivisors
  <2>1. PICK k \in Int : y2 = g * k
    BY DEF Divides
  <2>2. y = g * (2 * k) /\ 2 * k \in Int
    <3>1. 2 * (g * k) = g * (2 * k)
      OBVIOUS
    <3> QED
      BY <2>1, <3>1
  <2>3. Divides(g, y)
    <3> DEFINE j == 2 * k
    <3>1. j \in Int /\ y = g * j
      BY <2>2
    <3> HIDE DEF j
    <3> QED
      BY <3>1 DEF Divides
  <2> QED
    BY <2>3 DEF Kept, CommonDivisors
<1> QED
  BY <1>1, <1>3, <1>4, <1>5 DEF Kept

(* The difference of congruent numbers, brought into the field. *)
LEMMA DifferenceCongruent ==
  ASSUME NEW x \in Nat, NEW y \in Nat, NEW a \in Nat, NEW b \in Nat, NEW t \in Nat,
         Congruent(x, a * t), Congruent(y, b * t)
  PROVE  /\ (y - x) \in Int /\ (b - a) % P \in 0..P - 1
         /\ Congruent(y - x, ((b - a) % P) * t)
<1> DEFINE d == b - a
           q == d \div P
           r == d % P
           p == P
<1>1. p \in Nat \ {0}
  BY PIs
<1> HIDE DEF p
<1>2. d \in Int /\ q \in Int /\ r \in 0..p - 1 /\ d = (p * q) + r
  <2>1. d \in Int
    OBVIOUS
  <2> HIDE DEF d
  <2> QED
    BY <1>1, <2>1, Division DEF p
<1>3. PICK k \in Int : x = (a * t) + (p * k)
  BY DEF Congruent, p
<1>4. PICK l \in Int : y = (b * t) + (p * l)
  BY DEF Congruent, p
<1> HIDE DEF q, r
<1> DEFINE j == (l - k) + (q * t)
<1>5. j \in Int
  BY <1>2
<1>6. y - x = (r * t) + (p * j)
  <2>1. (b * t) - (a * t) = d * t
    OBVIOUS
  <2>2. d * t = (p * (q * t)) + (r * t)
    <3>1. ((p * q) + r) * t = (p * (q * t)) + (r * t)
      BY <1>1, <1>2
    <3> QED
      BY <1>2, <3>1
  <2>3. p * j = ((p * l) - (p * k)) + (p * (q * t))
    BY <1>1, <1>2
  <2> DEFINE x1 == b * t
             x2 == a * t
             x3 == p * l
             x4 == p * k
             x5 == p * (q * t)
             x6 == r * t
             z == p * j
  <2>4. x1 \in Int /\ x2 \in Int /\ x3 \in Int /\ x4 \in Int /\ x5 \in Int /\ x6 \in Int
    BY <1>1, <1>2
  <2>5. /\ x = x2 + x4 /\ y = x1 + x3 /\ z = (x3 - x4) + x5 /\ x1 - x2 = x5 + x6
    BY <1>3, <1>4, <2>1, <2>2, <2>3
  <2> HIDE DEF x1, x2, x3, x4, x5, x6, z, j
  <2>6. y - x = x6 + z
    BY <2>4, <2>5
  <2> QED
    BY <2>6 DEF x6, z
<1> HIDE DEF j
<1>7. Congruent(y - x, r * t)
  BY <1>5, <1>6 DEF Congruent, p
<1> QED
  BY <1>2, <1>7 DEF r, d, p

LEMMA SubtractKept ==
  ASSUME NEW x, NEW y, NEW a, NEW b, NEW t \in Nat, Kept(x, y, a, b, t), y % 2 = 1
  PROVE  /\ x <= y => Kept(x, y - x, a, (b - a) % P, t) /\ (y - x) % 2 = 0
         /\ y < x => Kept(y, x - y, b, (a - b) % P, t) /\ (x - y) % 2 = 0
<1>1. /\ x \in Nat /\ y \in Nat /\ a \in Nat /\ b \in Nat /\ y < P /\ b < P /\ a < P
      /\ x % 2 = 1 /\ x <= P
      /\ Congruent(x, a * t) /\ Congruent(y, b * t) /\ CommonDivisors(x, y, t)
  BY DEF Kept
<1>2. P \in Nat
  BY PIs
<1>3. x >= 1 /\ y >= 1
  BY <1>1
<1>4. (y - x) % 2 = 0 /\ (x - y) % 2 = 0
  BY <1>1
<1>5. /\ (b - a) % P \in 0..P - 1 /\ Congruent(y - x, ((b - a) % P) * t)
      /\ (a - b) % P \in 0..P - 1 /\ Congruent(x - y, ((a - b) % P) * t)
  BY <1>1, DifferenceCongruent
<1>6. /\ (b - a) % P \in Nat /\ (b - a) % P < P
      /\ (a - b) % P \in Nat /\ (a - b) % P < P
  <2> DEFINE r == (b - a) % P
             s == (a - b) % P
  <2>1. r \in 0..P - 1 /\ s \in 0..P - 1
    BY <1>5
  <2> HIDE DEF r, s
  <2>2. r \in Nat /\ r < P /\ s \in Nat /\ s < P
    BY <1>2, <2>1
  <2> QED
    BY <2>2 DEF r, s
<1>7. ASSUME NEW g \in Nat \ {0}, NEW u \in Int, NEW v \in Int, Divides(g, u), Divides(g, v - u)
      PROVE  Divides(g, v)
  <2>1. PICK k \in Int : u = g * k
    BY <1>7 DEF Divides
  <2>2. PICK l \in Int : v - u = g * l
    BY <1>7 DEF Divides
  <2>3. v = g * (k + l)
    <3>1. g * (k + l) = (g * k) + (g * l) /\ g * k \in Int /\ g * l \in Int
      OBVIOUS
    <3> DEFINE i == g * k
               j == g * l
    <3>2. i \in Int /\ j \in Int /\ u = i /\ v - u = j
      BY <2>1, <2>2, <3>1
    <3> HIDE DEF i, j
    <3>3. v = i + j
      BY <3>2
    <3> QED
      BY <3>1, <3>3 DEF i, j
  <2> QED
    BY <2>3 DEF Divides
<1>8. CommonDivisors(x, y - x, t) /\ CommonDivisors(y, x - y, t)
  <2>1. ASSUME NEW g \in Nat \ {0}, Divides(g, x), Divides(g, y - x)
        PROVE  Divides(g, P) /\ Divides(g, t)
    <3>1. x \in Int /\ y \in Int
      BY <1>1
    <3>2. Divides(g, y)
      BY <1>7, <2>1, <3>1
    <3> QED
      BY <1>1, <2>1, <3>2 DEF CommonDivisors
  <2>2. ASSUME NEW g \in Nat \ {0}, Divides(g, y), Divides(g, x - y)
        PROVE  Divides(g, P) /\ Divides(g, t)
    <3>1. x \in Int /\ y \in Int
      BY <1>1
    <3>2. Divides(g, x)
      BY <1>7, <2>2, <3>1
    <3> QED
      BY <1>1, <2>2, <3>2 DEF CommonDivisors
  <2> QED
    BY <2>1, <2>2 DEF CommonDivisors
<1>9. ASSUME x <= y PROVE Kept(x, y - x, a, (b - a) % P, t)
  <2>1. y - x \in Nat /\ y - x < P
    BY <1>1, <1>2, <1>9
  <2> QED
    BY <1>1, <1>5, <1>6, <1>8, <2>1 DEF Kept
<1>10. ASSUME y < x PROVE Kept(y, x - y, b, (a - b) % P, t)
  <2>1. x - y \in Nat /\ x - y < P /\ y <= P
    BY <1>1, <1>2, <1>3, <1>10
  <2> QED
    BY <1>1, <1>5, <1>6, <1>8, <2>1 DEF Kept
<1> QED
  BY <1>4, <1>9, <1>10

-----------------------------------------------------------------------------
(* The extended binary GCD: words *)

EvenBit(y) == Bit(y[1] % 2 = 0)
HalfY(y) == ShiftRight1(y, EvenBit(y))
HalfB(y, b) == Add(ShiftRight1(b, EvenBit(y)), ShiftRight1(Add(MODULUS, One, 1), 1),
                   EvenBit(y) * (b[1] % 2))

Swapped(x, y) == Bit(y[1] % 2 = 1 /\ Less(y, x))
NextX(x, y) == Replaced(x, y, Swapped(x, y))
OtherX(x, y) == Replaced(y, x, Swapped(x, y))
NextA(x, y, a, b) == Replaced(a, b, Swapped(x, y))
OtherA(x, y, a, b) == Replaced(b, a, Swapped(x, y))
NextY(x, y) == Subtract(OtherX(x, y), NextX(x, y), y[1] % 2)
NextB(x, y, a, b) ==
  Add(Subtract(OtherA(x, y, a, b), NextA(x, y, a, b), y[1] % 2), MODULUS,
      Borrow(OtherA(x, y, a, b), NextA(x, y, a, b), y[1] % 2))

LEMMA RoundIs ==
  ASSUME NEW s
  PROVE  HalvedOrReduced(s, MODULUS) =
           [x |-> NextX(s.x, HalfY(s.y)), y |-> NextY(s.x, HalfY(s.y)),
            a |-> NextA(s.x, HalfY(s.y), s.a, HalfB(s.y, s.b)),
            b |-> NextB(s.x, HalfY(s.y), s.a, HalfB(s.y, s.b)),
            odd |-> s.odd /\ s.x[1] % 2 = 1]
BY DEF HalvedOrReduced, EvenBit, HalfY, HalfB, Swapped, NextX, OtherX, NextA, OtherA, NextY, NextB

LEMMA OneIs == One \in Uint /\ Value(One) = 1 /\ Zero \in Uint /\ Value(Zero) = 0
<1>1. NumWords \in Nat \ {0, 1} /\ Base \in Nat /\ Base >= 2
  BY UintConstants, BaseIs
<1>2. One \in Uint /\ Zero \in Uint
  BY <1>1 DEF One, Zero, Uint, Bit
<1>3. Value(Zero) = 0
  BY <1>1, ZeroValue DEF Zeros, Zero, Value
<1>4. Value(One) = 1
  <2> DEFINE n == NumWords - 1
             high == [i \in 1..n |-> One[1 + i]]
  <2>1. n \in Nat /\ 1 + n = NumWords /\ Ints(One, 1 + n) /\ Above(high, One, 1, n)
    BY <1>1, <1>2, UintIs DEF Above
  <2>2. Zeros(high, n)
    <3> SUFFICES ASSUME NEW i \in 1..n PROVE high[i] = 0
      BY DEF Zeros
    <3>1. 1 + i \in 1..NumWords /\ 1 + i # 1
      BY <1>1
    <3> QED
      BY <3>1 DEF One, Bit
  <2>3. ValueOf(One, 1) = 1
    <3>1. Ints(One, 1) /\ One[1] = 1
      BY <1>1 DEF Ints, One, Bit
    <3>2. ValueOf(One, 1) = ValueOf(One, 1 - 1) + (One[1] * Weight(1 - 1))
      BY <3>1, ValueStep
    <3>3. ValueOf(One, 0) = 0
      BY ValueIs
    <3>4. 1 - 1 = 0 /\ Weight(0) = 1
      BY Weights
    <3> QED
      BY <3>1, <3>2, <3>3, <3>4
  <2> HIDE DEF high, n
  <2>4. ValueOf(One, 1 + n) = ValueOf(One, 1) + (Weight(1) * ValueOf(high, n))
    BY <2>1, SplitValue
  <2>5. ValueOf(high, n) = 0
    BY <2>1, <2>2, ZeroValue
  <2>6. Weight(1) * 0 = 0
    BY SizesIs, BaseIs
  <2> QED
    BY <2>1, <2>3, <2>4, <2>5, <2>6 DEF Value
<1> QED
  BY <1>2, <1>3, <1>4

LEMMA BitsAre ==
  ASSUME NEW x \in Uint
  PROVE  x[1] % 2 \in {0, 1} /\ x[1] % 2 = Value(x) % 2
<1>1. Value(x) \in Int
  BY UintIs, SizeIs
<1> QED
  BY <1>1, ShiftRight1Is, Halves

(* When y is even, y is halved, and so is b, modulo the prime. *)
LEMMA HalfIs ==
  ASSUME NEW y \in Uint, NEW b \in Uint, Value(b) < P
  PROVE  /\ HalfY(y) \in Uint /\ HalfB(y, b) \in Uint
         /\ Value(y) % 2 = 0 => /\ 2 * Value(HalfY(y)) = Value(y)
                                /\ \/ 2 * Value(HalfB(y, b)) = Value(b)
                                   \/ 2 * Value(HalfB(y, b)) = Value(b) + P
         /\ Value(y) % 2 = 1 => HalfY(y) = y /\ HalfB(y, b) = b
<1> DEFINE half == ShiftRight1(Add(MODULUS, One, 1), 1)
           h == Value(half)
           o == b[1] % 2
           c == ShiftRight1(b, 1)
           u == Value(y)
           v == Value(b)
<1>1. /\ P \in Nat /\ P < Size /\ P % 2 = 1 /\ Size \in Nat \ {0} /\ P + 1 < Size
      /\ u \in Nat /\ v \in Nat
  <2>1. P + 1 < Size
    BY PIs, BaseIs, SizeIs
  <2>2. u \in Nat /\ v \in Nat
    BY UintIs, SizeIs
  <2> QED
    BY <2>1, <2>2, PIs, PIsPrime, SizeIs
<1>2. half \in Uint /\ 2 * h = P + 1
  <2> DEFINE s == Add(MODULUS, One, 1)
             w == P + 1
  <2>1. s \in Uint /\ Value(s) = w % Size
    BY ModulusIs, OneIs, AddIs
  <2>2. w \in 0..Size - 1 /\ w \in Int
    BY <1>1
  <2> HIDE DEF w, s
  <2>3. w % Size = w
    BY <1>1, <2>2, OneBit
  <2>4. half \in Uint /\ h = w \div 2
    BY <2>1, <2>3, ShiftRight1Is DEF s
  <2>5. 2 * (w \div 2) = P + 1
    BY <1>1 DEF w
  <2> QED
    BY <2>4, <2>5
<1>3. o \in {0, 1} /\ o = v % 2 /\ y[1] % 2 \in {0, 1} /\ y[1] % 2 = u % 2
  BY BitsAre
<1>4. CASE u % 2 = 0
  <2>1. EvenBit(y) = 1 /\ 1 * o = o
    BY <1>3, <1>4 DEF EvenBit, Bit
  <2>2. HalfY(y) \in Uint /\ Value(HalfY(y)) = u \div 2
    BY <2>1, ShiftRight1Is DEF HalfY
  <2>3. c \in Uint /\ Value(c) = v \div 2
    BY ShiftRight1Is
  <2>4. HalfB(y, b) = Add(c, half, o)
    BY <2>1 DEF HalfB
  <2> HIDE DEF c, half, h, o, u, v
  <2>5. 2 * (u \div 2) = u
    BY <1>1, <1>4
  <2>6. CASE o = 0
    <3>1. HalfB(y, b) = c
      BY <1>2, <2>3, <2>4, <2>6, AddIs
    <3>2. 2 * (v \div 2) = v
      BY <1>1, <1>3, <2>6
    <3> QED
      BY <1>4, <2>2, <2>3, <2>5, <3>1, <3>2 DEF u, v
  <2>7. CASE o = 1
    <3> DEFINE w == (v \div 2) + h
    <3>1. HalfB(y, b) \in Uint /\ Value(HalfB(y, b)) = w % Size
      BY <1>2, <2>3, <2>4, <2>7, AddIs DEF h
    <3>2. h \in Int
      BY <1>2, UintIs, SizeIs DEF h
    <3>3. 2 * w = v + P /\ w \in Int
      BY <1>1, <1>2, <1>3, <2>7, <3>2
    <3> HIDE DEF w
    <3>4. w \in 0..Size - 1
      BY <1>1, <3>3 DEF v
    <3>5. w % Size = w
      BY <1>1, <3>3, <3>4, OneBit
    <3> QED
      BY <1>4, <2>2, <2>5, <3>1, <3>3, <3>5 DEF u, v
  <2> QED
    BY <1>3, <2>6, <2>7
<1>5. CASE u % 2 = 1
  <2>1. EvenBit(y) = 0 /\ 0 * o = 0
    BY <1>3, <1>5 DEF EvenBit, Bit
  <2>2. HalfY(y) = y
    BY <2>1, ShiftRight1Is DEF HalfY
  <2>3. HalfB(y, b) = Add(b, half, 0)
    BY <2>1, ShiftRight1Is DEF HalfB
  <2> HIDE DEF half
  <2>4. HalfB(y, b) = b
    BY <1>2, <2>3, AddIs
  <2> QED
    BY <1>5, <2>2, <2>4
<1>6. u % 2 \in {0, 1}
  BY <1>1, Halves
<1> QED
  BY <1>4, <1>5, <1>6

(* When y is odd, the smaller of x and y is taken from the other. *)
LEMMA SwapIs ==
  ASSUME NEW x \in Uint, NEW y \in Uint, NEW a \in Uint, NEW b \in Uint, Value(a) < P, Value(b) < P
  PROVE  /\ NextX(x, y) \in Uint /\ NextY(x, y) \in Uint
         /\ NextA(x, y, a, b) \in Uint /\ NextB(x, y, a, b) \in Uint
         /\ Value(y) % 2 = 0 => /\ NextX(x, y) = x /\ NextY(x, y) = y
                                /\ NextA(x, y, a, b) = a /\ NextB(x, y, a, b) = b
         /\ Value(y) % 2 = 1 /\ Value(x) <= Value(y) =>
              /\ Value(NextX(x, y)) = Value(x) /\ Value(NextY(x, y)) = Value(y) - Value(x)
              /\ Value(NextA(x, y, a, b)) = Value(a)
              /\ Value(NextB(x, y, a, b)) = (Value(b) - Value(a)) % P
         /\ Value(y) % 2 = 1 /\ Value(y) < Value(x) =>
              /\ Value(NextX(x, y)) = Value(y) /\ Value(NextY(x, y)) = Value(x) - Value(y)
              /\ Value(NextA(x, y, a, b)) = Value(b)
              /\ Value(NextB(x, y, a, b)) = (Value(a) - Value(b)) % P
<1>1. y[1] % 2 \in {0, 1} /\ y[1] % 2 = Value(y) % 2
  BY BitsAre
<1>2. Value(x) \in 0..Size - 1 /\ Value(y) \in 0..Size - 1 /\ Size \in Nat \ {0}
  BY UintIs, SizeIs
<1>3. Less(y, x) <=> Value(y) < Value(x)
  BY LessIs
<1>4. ASSUME NEW u \in Uint, NEW w \in Uint, Value(u) <= Value(w)
      PROVE  Subtract(w, u, 1) \in Uint /\ Value(Subtract(w, u, 1)) = Value(w) - Value(u)
  <2> DEFINE d == Value(w) - Value(u)
  <2>1. Subtract(w, u, 1) \in Uint /\ Value(Subtract(w, u, 1)) = d % Size
    BY SubtractIs
  <2>2. d \in 0..Size - 1 /\ d \in Int
    BY <1>2, <1>4, UintIs
  <2> HIDE DEF d
  <2>3. d % Size = d
    BY <1>2, <2>2, OneBit
  <2> QED
    BY <2>1, <2>3 DEF d
<1>5. CASE Value(y) % 2 = 0
  <2>1. Swapped(x, y) = 0 /\ y[1] % 2 = 0
    BY <1>1, <1>5 DEF Swapped, Bit
  <2>2. NextX(x, y) = x /\ OtherX(x, y) = y /\ NextA(x, y, a, b) = a /\ OtherA(x, y, a, b) = b
    BY <2>1 DEF NextX, OtherX, NextA, OtherA, Replaced
  <2>3. NextY(x, y) = y
    BY <2>1, <2>2, SubtractIs DEF NextY
  <2>4. NextB(x, y, a, b) = Add(Subtract(b, a, 0), MODULUS, Borrow(b, a, 0))
    BY <2>1, <2>2 DEF NextB
  <2>5. Subtract(b, a, 0) = b /\ Borrow(b, a, 0) = 0
    BY SubtractIs
  <2>6. NextB(x, y, a, b) = b
    BY <2>4, <2>5, ModulusIs, AddIs
  <2> QED
    BY <1>5, <2>2, <2>3, <2>6
<1>6. CASE Value(y) % 2 = 1 /\ Value(x) <= Value(y)
  <2>1. Swapped(x, y) = 0 /\ y[1] % 2 = 1 /\ ~(Value(y) < Value(x))
    BY <1>1, <1>2, <1>3, <1>6 DEF Swapped, Bit
  <2>2. NextX(x, y) = x /\ OtherX(x, y) = y /\ NextA(x, y, a, b) = a /\ OtherA(x, y, a, b) = b
    BY <2>1 DEF NextX, OtherX, NextA, OtherA, Replaced
  <2>3. NextY(x, y) \in Uint /\ Value(NextY(x, y)) = Value(y) - Value(x)
    BY <1>4, <1>6, <2>1, <2>2 DEF NextY
  <2>4. NextB(x, y, a, b) = Add(Subtract(b, a, 1), MODULUS, Borrow(b, a, 1))
    BY <2>1, <2>2 DEF NextB
  <2>5. NextB(x, y, a, b) \in Uint /\ Value(NextB(x, y, a, b)) = (Value(b) - Value(a)) % P
    BY <2>4, Brought
  <2> QED
    BY <1>6, <2>1, <2>2, <2>3, <2>5
<1>7. CASE Value(y) % 2 = 1 /\ Value(y) < Value(x)
  <2>1. Swapped(x, y) = 1 /\ y[1] % 2 = 1 /\ Value(y) <= Value(x) /\ ~(Value(x) <= Value(y))
    BY <1>1, <1>2, <1>3, <1>7 DEF Swapped, Bit
  <2>2. NextX(x, y) = y /\ OtherX(x, y) = x /\ NextA(x, y, a, b) = b /\ OtherA(x, y, a, b) = a
    BY <2>1 DEF NextX, OtherX, NextA, OtherA, Replaced
  <2>3. NextY(x, y) \in Uint /\ Value(NextY(x, y)) = Value(x) - Value(y)
    BY <1>4, <2>1, <2>2 DEF NextY
  <2>4. NextB(x, y, a, b) = Add(Subtract(a, b, 1), MODULUS, Borrow(a, b, 1))
    BY <2>1, <2>2 DEF NextB
  <2>5. NextB(x, y, a, b) \in Uint /\ Value(NextB(x, y, a, b)) = (Value(a) - Value(b)) % P
    BY <2>4, Brought
  <2> QED
    BY <1>7, <2>1, <2>2, <2>3, <2>5
<1>8. Value(y) % 2 = 0 \/ Value(y) % 2 = 1
  BY <1>1
<1>9. Value(x) <= Value(y) \/ Value(y) < Value(x)
  BY <1>2
<1> QED
  BY <1>5, <1>6, <1>7, <1>8, <1>9

State == [x : Uint, y : Uint, a : Uint, b : Uint, odd : BOOLEAN]

KeptIn(s, t) == Kept(Value(s.x), Value(s.y), Value(s.a), Value(s.b), t)

(* The states the loop can be in when the number to invert is t. *)
Rest(t) == {s \in State : s.odd = TRUE /\ KeptIn(s, t)}

(* A round leaves y even, and an even y makes it halve the product. *)
Shrunk(x, y, u, v) ==
  /\ v % 2 = 0
  /\ y % 2 = 1 => u * v <= x * y
  /\ y % 2 = 0 => 2 * (u * v) <= x * y

LEMMA Shrinks ==
  ASSUME NEW x \in Nat, NEW y \in Nat
  PROVE  /\ x <= y => x * (y - x) <= x * y
         /\ y < x => y * (x - y) <= x * y
<1>1. ASSUME x <= y PROVE x * (y - x) <= x * y
  <2>1. y - x \in Int /\ y - x <= y
    BY <1>1
  <2> DEFINE d == y - x
  <2> HIDE DEF d
  <2>2. d \in Int /\ d <= y
    BY <2>1 DEF d
  <2>3. x * d <= x * y
    BY <2>2, ProductsOrdered
  <2> QED
    BY <2>3 DEF d
<1>2. ASSUME y < x PROVE y * (x - y) <= x * y
  <2> DEFINE d == x - y
  <2>1. d \in Int /\ d <= x
    BY <1>2
  <2> HIDE DEF d
  <2>2. y * d <= y * x /\ y * x = x * y
    BY <2>1, ProductsOrdered
  <2> QED
    BY <2>2 DEF d
<1> QED
  BY <1>1, <1>2

LEMMA RoundKept ==
  ASSUME NEW t \in Nat, NEW s \in Rest(t)
  PROVE  /\ HalvedOrReduced(s, MODULUS) \in Rest(t)
         /\ Shrunk(Value(s.x), Value(s.y), Value(HalvedOrReduced(s, MODULUS).x),
                   Value(HalvedOrReduced(s, MODULUS).y))
<1> DEFINE y == HalfY(s.y)
           b == HalfB(s.y, s.b)
           x0 == s.x
           a0 == s.a
           x3 == NextX(x0, y)
           y3 == NextY(x0, y)
           a3 == NextA(x0, y, a0, b)
           b3 == NextB(x0, y, a0, b)
           X == Value(x0)
           Y == Value(s.y)
           A == Value(a0)
           B == Value(s.b)
           Y2 == Value(y)
           B2 == Value(b)
           next == HalvedOrReduced(s, MODULUS)
<1>1. /\ s.x \in Uint /\ s.y \in Uint /\ s.a \in Uint /\ s.b \in Uint
      /\ s.odd = TRUE /\ Kept(X, Y, A, B, t)
  BY DEF Rest, State, KeptIn
<1>2. X \in Nat /\ Y \in Nat /\ A \in Nat /\ B \in Nat /\ B < P /\ A < P /\ X % 2 = 1
  BY <1>1 DEF Kept
<1>3. y \in Uint /\ b \in Uint
  BY <1>1, <1>2, HalfIs
<1>4. Y2 \in Nat /\ B2 \in Nat
  BY <1>3, UintIs, SizeIs
<1>5. /\ Kept(X, Y2, A, B2, t)
      /\ Y % 2 = 0 => 2 * Y2 = Y
      /\ Y % 2 = 1 => Y2 = Y
  <2>1. CASE Y % 2 = 0
    <3>1. 2 * Y2 = Y /\ (2 * B2 = B \/ 2 * B2 = B + P)
      BY <1>1, <1>2, <2>1, HalfIs
    <3> HIDE DEF X, Y, A, B, Y2, B2
    <3>2. Kept(X, Y2, A, B2, t)
      BY <1>1, <1>4, <3>1, HalfKept
    <3> QED
      BY <2>1, <3>1, <3>2
  <2>2. CASE Y % 2 = 1
    <3>1. y = s.y /\ b = s.b
      BY <1>1, <1>2, <2>2, HalfIs
    <3> QED
      BY <1>1, <2>2, <3>1
  <2>3. Y % 2 \in {0, 1}
    <3> HIDE DEF Y
    <3> QED
      BY <1>2, Halves
  <2> QED
    BY <2>1, <2>2, <2>3
<1>6. B2 < P
  BY <1>5 DEF Kept
<1>7. next = [x |-> x3, y |-> y3, a |-> a3, b |-> b3, odd |-> s.odd /\ s.x[1] % 2 = 1]
  BY RoundIs
<1>8. s.x[1] % 2 = 1
  BY <1>1, <1>2, BitsAre
<1>9. x3 \in Uint /\ y3 \in Uint /\ a3 \in Uint /\ b3 \in Uint
  BY <1>1, <1>2, <1>3, <1>6, SwapIs
<1>10. next \in State /\ next.odd = TRUE /\ next.x = x3 /\ next.y = y3 /\ next.a = a3 /\ next.b = b3
  <2>1. (s.odd /\ s.x[1] % 2 = 1) = TRUE
    BY <1>1, <1>8
  <2> HIDE DEF next, x3, y3, a3, b3
  <2> QED
    BY <1>7, <1>9, <2>1 DEF State
<1> DEFINE U == Value(x3)
           V == Value(y3)
           C == Value(a3)
           D == Value(b3)
<1>14. /\ Kept(U, V, C, D, t) => next \in Rest(t)
       /\ Shrunk(X, Y, U, V) => Shrunk(X, Y, Value(next.x), Value(next.y))
  <2>1. Kept(U, V, C, D, t) => KeptIn(next, t)
    <3> HIDE DEF next, x3, y3, a3, b3
    <3> QED
      BY <1>10 DEF KeptIn
  <2> HIDE DEF next, x3, y3, a3, b3
  <2> QED
    BY <1>10, <2>1 DEF Rest
<1>11. ASSUME Y2 % 2 = 0
       PROVE  Kept(U, V, C, D, t) /\ Shrunk(X, Y, U, V)
  <2>1. x3 = x0 /\ y3 = y /\ a3 = a0 /\ b3 = b
    <3>1. /\ x0 \in Uint /\ a0 \in Uint /\ y \in Uint /\ b \in Uint
          /\ Value(a0) < P /\ Value(b) < P /\ Value(y) % 2 = 0
      BY <1>1, <1>2, <1>3, <1>6, <1>11
    <3> HIDE DEF x0, a0, y, b
    <3> QED
      BY <3>1, SwapIs
  <2>2. Kept(U, V, C, D, t) /\ U = X /\ V = Y2
    BY <1>5, <2>1
  <2>3. Shrunk(X, Y, U, V)
    <3> HIDE DEF X, Y, U, V, Y2
    <3>1. V % 2 = 0
      BY <1>11, <2>2
    <3>2. Y % 2 = 1 => U * V <= X * Y
      BY <1>2, <1>5, <1>11, <2>2
    <3>3. Y % 2 = 0 => 2 * (U * V) <= X * Y
      <4>1. 2 * (X * Y2) = X * (2 * Y2)
        BY <1>2, <1>4
      <4>2. Y % 2 = 0 => 2 * (U * V) = X * Y
        BY <1>5, <2>2, <4>1
      <4>3. X * Y \in Int
        BY <1>2
      <4> QED
        BY <4>2, <4>3
    <3> QED
      BY <3>1, <3>2, <3>3 DEF Shrunk
  <2> QED
    BY <2>2, <2>3
<1>12. ASSUME Y2 % 2 = 1
       PROVE  Kept(U, V, C, D, t) /\ Shrunk(X, Y, U, V)
  <2>1. /\ X <= Y2 => U = X /\ V = Y2 - X /\ C = A /\ D = (B2 - A) % P
        /\ Y2 < X => U = Y2 /\ V = X - Y2 /\ C = B2 /\ D = (A - B2) % P
    <3>1. /\ x0 \in Uint /\ a0 \in Uint /\ y \in Uint /\ b \in Uint
          /\ Value(a0) < P /\ Value(b) < P /\ Value(y) % 2 = 1
      BY <1>1, <1>2, <1>3, <1>6, <1>12
    <3> HIDE DEF x0, a0, y, b
    <3>2. CASE Value(x0) <= Value(y)
      <4>1. ~(Value(y) < Value(x0))
        BY <3>1, <3>2, UintIs, SizeIs
      <4> QED
        BY <3>1, <3>2, <4>1, SwapIs
    <3>3. CASE Value(y) < Value(x0)
      <4>1. ~(Value(x0) <= Value(y))
        BY <3>1, <3>3, UintIs, SizeIs
      <4> QED
        BY <3>1, <3>3, <4>1, SwapIs
    <3>4. Value(x0) <= Value(y) \/ Value(y) < Value(x0)
      BY <3>1, UintIs, SizeIs
    <3> QED
      BY <3>2, <3>3, <3>4
  <2> HIDE DEF X, Y, A, B, Y2, B2, U, V, C, D
  <2>2. /\ X <= Y2 => Kept(X, Y2 - X, A, (B2 - A) % P, t) /\ (Y2 - X) % 2 = 0
        /\ Y2 < X => Kept(Y2, X - Y2, B2, (A - B2) % P, t) /\ (X - Y2) % 2 = 0
    BY <1>5, <1>12, SubtractKept
  <2>3. X <= Y2 \/ Y2 < X
    BY <1>2, <1>4
  <2>4. Kept(U, V, C, D, t) /\ V % 2 = 0
    BY <2>1, <2>2, <2>3
  <2>5. U * V <= X * Y2
    <3>1. /\ X <= Y2 => X * (Y2 - X) <= X * Y2
          /\ Y2 < X => Y2 * (X - Y2) <= X * Y2
      BY <1>2, <1>4, Shrinks
    <3> QED
      BY <2>1, <2>3, <3>1
  <2>6. Shrunk(X, Y, U, V)
    <3>1. Y % 2 = 1 => U * V <= X * Y
      BY <1>5, <2>5
    <3>2. Y % 2 = 0 => 2 * (U * V) <= X * Y
      <4>1. 2 * (X * Y2) = X * (2 * Y2)
        BY <1>2, <1>4
      <4>2. U \in Nat /\ V \in Nat
        BY <2>4 DEF Kept
      <4> DEFINE p == U * V
                 q == X * Y2
      <4>3. p \in Int /\ q \in Int /\ p <= q
        BY <1>2, <1>4, <2>5, <4>2
      <4>4. Y % 2 = 0 => 2 * q = X * Y
        BY <1>5, <4>1
      <4> HIDE DEF p, q
      <4>5. 2 * p <= 2 * q
        BY <4>3
      <4> QED
        BY <4>4, <4>5 DEF p
    <3> QED
      BY <2>4, <3>1, <3>2 DEF Shrunk
  <2> QED
    BY <2>4, <2>6
<1>13. Y2 % 2 \in {0, 1}
  <2> HIDE DEF Y2
  <2> QED
    BY <1>4, Halves
<1>15. Kept(U, V, C, D, t) /\ Shrunk(X, Y, U, V)
  BY <1>11, <1>12, <1>13
<1>16. next \in Rest(t) /\ Shrunk(X, Y, Value(next.x), Value(next.y))
  <2> HIDE DEF next, X, Y, U, V, C, D
  <2> QED
    BY <1>14, <1>15
<1> QED
  BY <1>16

LEMMA StatesAre ==
  ASSUME NEW this0 \in Uint, Value(this0) < P
  PROVE  LET f == EuclidStates(this0, MODULUS)
         IN  /\ f[0] = [x |-> MODULUS, y |-> this0, a |-> Zero, b |-> One, odd |-> TRUE]
             /\ \A k \in 0..Rounds : f[k] \in Rest(Value(this0))
             /\ \A k \in 1..Rounds : f[k] = HalvedOrReduced(f[k - 1], MODULUS)
<1> DEFINE t == Value(this0)
           S == Rest(t)
           n == Rounds
           z == [x |-> MODULUS, y |-> this0, a |-> Zero, b |-> One, odd |-> TRUE]
           one == [s \in State |-> HalvedOrReduced(s, MODULUS)]
           step == [k \in 1..n |-> [s \in S |-> HalvedOrReduced(s, MODULUS)]]
           eq(p) == p = [k \in 0..n |-> IF k = 0 THEN z ELSE one[p[k - 1]]]
           f == CHOOSE p : eq(p)
<1>1. n \in Nat /\ t \in Nat
  <2>1. n \in Nat
    BY UintConstants DEF Rounds
  <2> QED
    BY <2>1, UintIs, SizeIs
<1>2. z \in S
  <2>1. z \in State /\ z.odd = TRUE
    BY ModulusIs, OneIs DEF State
  <2>2. Kept(P, t, 0, 1, t)
    <3>1. P \in Nat /\ P % 2 = 1 /\ 1 < P
      BY PIs, PIsPrime
    <3>2. Congruent(P, 0 * t)
      <4>1. P = (0 * t) + (P * 1)
        BY <1>1, <3>1
      <4> QED
        BY <4>1 DEF Congruent
    <3>3. Congruent(t, 1 * t)
      <4>1. t = (1 * t) + (P * 0)
        BY <1>1, <3>1
      <4> QED
        BY <4>1 DEF Congruent
    <3>4. CommonDivisors(P, t, t)
      BY DEF CommonDivisors
    <3> QED
      BY <1>1, <3>1, <3>2, <3>3, <3>4 DEF Kept
  <2>3. KeptIn(z, t)
    BY <2>2, ModulusIs, OneIs DEF KeptIn
  <2> QED
    BY <2>1, <2>3 DEF Rest
<1>3. EuclidStates(this0, MODULUS) = f
  BY DEF EuclidStates, State
<1>4. /\ \A s \in S : s \in State /\ one[s] = HalvedOrReduced(s, MODULUS)
      /\ step \in [1..n -> [S -> S]]
      /\ \A k \in 1..n, s \in S : step[k][s] = one[s]
  <2>1. \A s \in S : s \in State
    BY DEF Rest
  <2>2. \A s \in S : HalvedOrReduced(s, MODULUS) \in S
    BY <1>1, RoundKept
  <2> QED
    BY <2>1, <2>2
<1> HIDE DEF S, z, one, step, n
<1>5. PICK g \in [0..n -> S] : Solves(g, n, z, step)
  BY <1>1, <1>2, <1>4, RecursionHasSolution
<1>6. eq(g)
  <2>1. g[0] = z
    BY <1>5 DEF Solves
  <2>2. ASSUME NEW k \in 1..n PROVE g[k] = one[g[k - 1]]
    <3>1. g[k] = step[k][g[k - 1]]
      BY <1>5 DEF Solves
    <3>2. g[k - 1] \in S
      BY <1>1
    <3> QED
      BY <1>4, <3>1, <3>2
  <2>3. \A k \in 0..n : k = 0 \/ (k # 0 /\ k \in 1..n)
    BY <1>1
  <2> QED
    BY <2>1, <2>2, <2>3
<1>7. f = [k \in 0..n |-> IF k = 0 THEN z ELSE one[f[k - 1]]]
  <2>1. eq(f)
    <3> HIDE DEF eq
    <3> QED
      BY <1>6
  <2> QED
    BY <2>1
<1> HIDE DEF f
<1>8. f[0] = z /\ \A k \in 1..n : f[k] = one[f[k - 1]]
  <2>1. 0 \in 0..n /\ \A k \in 1..n : k \in 0..n /\ k # 0
    BY <1>1
  <2> QED
    BY <1>7, <2>1
<1> DEFINE Good == {k \in 0..n : f[k] \in S}
<1>9. 0 \in Good
  BY <1>1, <1>2, <1>8
<1>10. ASSUME NEW k \in 0..n - 1, k \in Good PROVE k + 1 \in Good
  <2>1. k + 1 \in 1..n /\ (k + 1) - 1 = k /\ k + 1 \in 0..n
    BY <1>1
  <2>2. f[k + 1] = one[f[k]] /\ f[k] \in S
    BY <1>8, <1>10, <2>1
  <2>3. HalvedOrReduced(f[k], MODULUS) \in S
    BY <1>1, <2>2, RoundKept DEF S
  <2> QED
    BY <1>4, <2>1, <2>2, <2>3
<1>11. \A k \in 0..n : f[k] \in S
  <2>1. \A k \in 0..n : k \in Good
    <3> HIDE DEF Good
    <3> QED
      BY <1>1, <1>9, <1>10, UpTo
  <2> QED
    BY <2>1
<1>12. ASSUME NEW k \in 1..n PROVE f[k] = HalvedOrReduced(f[k - 1], MODULUS)
  <2>1. k - 1 \in 0..n
    BY <1>1
  <2> QED
    BY <1>4, <1>8, <1>11, <2>1
<1> QED
  BY <1>3, <1>8, <1>11, <1>12 DEF S, z, n

(* What is known of the product of x and y after k rounds: w is 2^k, c the *)
(* product before the first round.                                         *)
Bounded(k, w, y, m, c) == (k = 0 => m <= c) /\ (k # 0 => y % 2 = 0) /\ w * m <= 2 * c

LEMMA BoundedNext ==
  ASSUME NEW k \in Nat, NEW w \in Nat, NEW x \in Nat, NEW y \in Nat, NEW u \in Nat, NEW v \in Nat,
         NEW c \in Nat, k = 0 => w = 1, Bounded(k, w, y, x * y, c), Shrunk(x, y, u, v)
  PROVE  Bounded(k + 1, 2 * w, v, u * v, c)
<1> DEFINE m == x * y
           n == u * v
<1>1. m \in Nat /\ n \in Nat /\ y % 2 \in {0, 1} /\ k + 1 # 0
  BY Halves
<1>2. /\ v % 2 = 0
      /\ y % 2 = 1 => n <= m
      /\ y % 2 = 0 => 2 * n <= m
      /\ k = 0 => m <= c
      /\ k # 0 => y % 2 = 0
      /\ w * m <= 2 * c
  BY DEF Shrunk, Bounded
<1> HIDE DEF m, n
<1>3. CASE k = 0
  <2>1. n <= m
    BY <1>1, <1>2
  <2>2. 2 * w = 2
    BY <1>3
  <2>3. (2 * w) * n <= 2 * c
    BY <1>1, <1>2, <1>3, <2>1, <2>2
  <2> QED
    BY <1>1, <1>2, <2>3 DEF Bounded, n
<1>4. CASE k # 0
  <2>1. 2 * n \in Int /\ 2 * n <= m
    BY <1>1, <1>2, <1>4
  <2>2. w * (2 * n) <= w * m
    BY <1>1, <2>1, ProductsOrdered
  <2>3. w * (2 * n) = (2 * w) * n
    BY <1>1
  <2>4. w * m \in Int /\ (2 * w) * n \in Int
    BY <1>1
  <2>5. (2 * w) * n <= 2 * c
    BY <1>2, <2>2, <2>3, <2>4
  <2> QED
    BY <1>1, <1>2, <2>5 DEF Bounded, n
<1> QED
  BY <1>3, <1>4

LEMMA RoundsAre == Rounds \in Nat \ {0} /\ Power(2, Rounds) = Size * Size
<1> DEFINE b == WordBits
           n == NumWords
           nb == n * b
<1>1. b \in Nat \ {0} /\ n \in Nat \ {0} /\ nb \in Nat \ {0}
  BY UintConstants
<1>2. Rounds = nb + nb
  BY <1>1 DEF Rounds
<1>3. Size = Power(2, nb)
  BY <1>1, PowersMultiply DEF Size, Weight, Base
<1> HIDE DEF nb
<1>4. Power(2, nb + nb) = Power(2, nb) * Power(2, nb)
  BY <1>1, PowersAdd
<1> QED
  BY <1>1, <1>2, <1>3, <1>4

(* After the last round nothing is left of y. *)
LEMMA NothingLeft ==
  ASSUME NEW x \in Nat, x >= 1, NEW y \in Nat, NEW t \in Nat, t < P,
         Bounded(Rounds, Size * Size, y, x * y, P * t)
  PROVE  y = 0
<1> DEFINE s == Size * Size
           m == x * y
           c == P * t
<1>1. P \in Nat /\ Size \in Nat /\ P + 1 <= Size /\ s \in Nat /\ m \in Nat /\ c \in Nat
  BY PIs, SizeIs
<1>2. y % 2 = 0 /\ s * m <= 2 * c
  BY RoundsAre DEF Bounded
<1>3. c < s
  <2> DEFINE ps == P * Size
  <2>1. ps \in Int
    BY <1>1
  <2>2. c <= ps
    <3>1. t <= Size
      BY <1>1
    <3> QED
      BY <1>1, <3>1, ProductsOrdered
  <2>3. ps + Size <= s
    <3> DEFINE p1 == P + 1
    <3>1. p1 \in Int /\ p1 <= Size
      BY <1>1
    <3>2. p1 * Size = ps + Size
      BY <1>1
    <3> HIDE DEF p1
    <3>3. p1 * Size <= Size * Size
      BY <1>1, <3>1, ProductsOrdered
    <3> QED
      BY <3>2, <3>3
  <2>4. Size >= 1
    BY SizeIs
  <2> HIDE DEF ps, s, c
  <2> QED
    BY <1>1, <2>1, <2>2, <2>3, <2>4
<1>4. y # 0 => m >= 2
  <2> SUFFICES ASSUME y # 0 PROVE m >= 2
    OBVIOUS
  <2>1. y >= 2
    BY <1>2
  <2>2. y * 1 <= y * x /\ y * x = x * y
    BY ProductsOrdered
  <2> QED
    BY <2>1, <2>2
<1> HIDE DEF s, m, c
<1>5. m >= 2 => 2 * s <= s * m
  <2> SUFFICES ASSUME m >= 2 PROVE 2 * s <= s * m
    OBVIOUS
  <2>1. s * 2 <= s * m
    BY <1>1, ProductsOrdered
  <2> QED
    BY <1>1, <2>1
<1>6. s * m \in Int
  BY <1>1
<1>7. ~(m >= 2)
  BY <1>1, <1>2, <1>3, <1>5, <1>6
<1> QED
  BY <1>4, <1>7

(* When y is zero, x divides the prime and the number to invert. *)
LEMMA DivisorLeft ==
  ASSUME NEW x, NEW a, NEW b, NEW t \in Nat, t < P, Kept(x, 0, a, b, t)
  PROVE  /\ x = 1 \/ x = P
         /\ x = P => t = 0
         /\ x = 1 => (a * t) % P = 1
         /\ a \in 0..P - 1
<1>1. P \in Nat /\ P > 9 /\ \A n \in 2..P - 1 : P % n # 0
  BY PIs, PIsPrime
<1>2. x \in Nat /\ a \in 0..P - 1 /\ x >= 1 /\ x <= P
  BY <1>1 DEF Kept
<1>3. Divides(x, P) /\ Divides(x, t)
  <2>1. x \in Nat \ {0}
    BY <1>2
  <2>2. x = x * 1 /\ 0 = x * 0
    BY <1>2
  <2>3. Divides(x, x) /\ Divides(x, 0)
    BY <2>2 DEF Divides
  <2>4. CommonDivisors(x, 0, t)
    BY DEF Kept
  <2> QED
    BY <2>1, <2>3, <2>4 DEF CommonDivisors
<1>4. x = 1 \/ x = P
  <2>1. PICK k \in Int : P = x * k
    BY <1>3 DEF Divides
  <2>2. P = (x * k) + 0 /\ 0 \in 0..x - 1 /\ x \in Nat \ {0}
    BY <1>2, <2>1
  <2>3. P % x = 0
    BY <1>1, <2>2, Quotients
  <2> QED
    BY <1>1, <1>2, <2>3
<1>5. ASSUME x = P PROVE t = 0
  <2>1. PICK k \in Int : t = P * k
    BY <1>3, <1>5 DEF Divides
  <2>2. k < 1
    <3> SUFFICES ASSUME k >= 1 PROVE FALSE
      OBVIOUS
    <3>1. P * 1 <= P * k
      BY <1>1, ProductsOrdered
    <3> QED
      BY <1>1, <2>1, <3>1
  <2>3. k > -1
    <3> SUFFICES ASSUME k <= -1 PROVE FALSE
      OBVIOUS
    <3>1. P * k <= P * (-1)
      BY <1>1, ProductsOrdered
    <3> QED
      BY <1>1, <2>1, <3>1
  <2>4. k = 0
    BY <2>2, <2>3
  <2> QED
    BY <1>1, <2>1, <2>4
<1>6. ASSUME x = 1 PROVE (a * t) % P = 1
  <2> DEFINE m == a * t
  <2>1. PICK k \in Int : 1 = m + (P * k)
    BY <1>6 DEF Kept, Congruent
  <2>2. m \in Int
    BY <1>2
  <2> HIDE DEF m
  <2> DEFINE j == -k
  <2>3. P * j = -(P * k) /\ j \in Int
    BY <1>1
  <2>4. P * k \in Int
    BY <1>1
  <2>5. m = (P * j) + 1 /\ 1 \in 0..P - 1 /\ P \in Nat \ {0}
    BY <1>1, <2>1, <2>2, <2>3, <2>4
  <2> HIDE DEF j
  <2>6. m % P = 1
    BY <2>2, <2>3, <2>5, Quotients
  <2> QED
    BY <2>6 DEF m
<1> QED
  BY <1>2, <1>4, <1>5, <1>6

(* The loop ends with a divisor of the prime: its assertions hold, and a   *)
(* is the inverse.                                                         *)
LEMMA InverseIs ==
  ASSUME NEW this0 \in Uint, Value(this0) < P
  PROVE  /\ Inverts(this0, MODULUS)
         /\ Reciprocal(this0, MODULUS) \in Uint
         /\ Value(this0) = 0 => Reciprocal(this0, MODULUS) = this0
         /\ Value(this0) # 0 =>
              /\ Value(Reciprocal(this0, MODULUS)) \in 1..P - 1
              /\ (Value(Reciprocal(this0, MODULUS)) * Value(this0)) % P = 1
<1> DEFINE t == Value(this0)
           f == EuclidStates(this0, MODULUS)
           c == P * t
           n == Rounds
           X(k) == Value(f[k].x)
           Y(k) == Value(f[k].y)
           m(k) == X(k) * Y(k)
           Ok(k) == Bounded(k, Power(2, k), Y(k), m(k), c)
           Good == {k \in 0..n : Ok(k)}
<1>1. /\ t \in Nat /\ t < P /\ c \in Nat /\ n \in Nat \ {0} /\ Power(2, n) = Size * Size
      /\ P \in Nat /\ P > 9
  BY RoundsAre, UintIs, SizeIs, PIs
<1>2. /\ f[0] = [x |-> MODULUS, y |-> this0, a |-> Zero, b |-> One, odd |-> TRUE]
      /\ \A k \in 0..n : f[k] \in Rest(t)
      /\ \A k \in 1..n : f[k] = HalvedOrReduced(f[k - 1], MODULUS)
  BY StatesAre
<1>3. ASSUME NEW k \in 0..n PROVE X(k) \in Nat /\ Y(k) \in Nat
  <2>1. f[k] \in Rest(t)
    BY <1>2
  <2> QED
    BY <2>1 DEF Rest, KeptIn, Kept
<1>4. 0 \in Good
  <2>1. X(0) = P /\ Y(0) = t /\ Power(2, 0) = 1 /\ 0 \in 0..n
    BY <1>1, <1>2, ModulusIs, PowerIs
  <2>2. m(0) = c /\ 1 * c <= 2 * c
    BY <1>1, <2>1
  <2> QED
    BY <1>1, <2>1, <2>2 DEF Bounded
<1>5. ASSUME NEW k \in 0..n - 1, k \in Good PROVE k + 1 \in Good
  <2> DEFINE w == Power(2, k)
             s == f[k]
             r == f[k + 1]
             x == Value(s.x)
             y == Value(s.y)
             u == Value(r.x)
             v == Value(r.y)
  <2>1. k \in 0..n /\ k \in Nat /\ k + 1 \in 1..n /\ k + 1 \in 0..n /\ (k + 1) - 1 = k
    BY <1>1
  <2>2. w \in Nat /\ Power(2, k + 1) = 2 * w /\ (k = 0 => w = 1)
    BY <2>1, PowerIs
  <2>3. r = HalvedOrReduced(s, MODULUS) /\ s \in Rest(t)
    BY <1>2, <2>1
  <2>4. x \in Nat /\ y \in Nat /\ u \in Nat /\ v \in Nat
    BY <1>3, <2>1
  <2>5. Bounded(k, w, y, x * y, c)
    BY <1>5
  <2>6. Shrunk(x, y, u, v)
    <3> HIDE DEF s, t
    <3> QED
      BY <1>1, <2>3, RoundKept
  <2> HIDE DEF w, x, y, u, v
  <2>7. Bounded(k + 1, 2 * w, v, u * v, c)
    BY <1>1, <2>1, <2>2, <2>4, <2>5, <2>6, BoundedNext
  <2>8. Ok(k + 1)
    BY <2>2, <2>7 DEF u, v
  <2> QED
    BY <2>1, <2>8
<1>6. Ok(n)
  <2>1. \A k \in 0..n : k \in Good
    <3> HIDE DEF Good, n
    <3> QED
      BY <1>1, <1>4, <1>5, UpTo
  <2>2. n \in 0..n
    BY <1>1
  <2> QED
    BY <2>1, <2>2
<1> DEFINE e == f[n]
           x == Value(e.x)
           y == Value(e.y)
           a == Value(e.a)
           b == Value(e.b)
<1>7. e \in State /\ e.odd = TRUE /\ Kept(x, y, a, b, t) /\ e = Euclid(this0, MODULUS)
  <2>1. n \in 0..n
    BY <1>1
  <2> QED
    BY <1>2, <2>1 DEF Rest, KeptIn, Euclid
<1>8. e.x \in Uint /\ e.a \in Uint
  BY <1>7 DEF State
<1>9. y = 0
  <2>1. Bounded(n, Size * Size, y, x * y, c)
    BY <1>1, <1>6
  <2>2. x \in Nat /\ x >= 1 /\ y \in Nat
    BY <1>7 DEF Kept
  <2> HIDE DEF x, y, t
  <2> QED
    BY <1>1, <2>1, <2>2, NothingLeft
<1>10. /\ x = 1 \/ x = P
       /\ x = P => t = 0
       /\ x = 1 => (a * t) % P = 1
       /\ a \in 0..P - 1
  <2>1. Kept(x, 0, a, b, t)
    BY <1>7, <1>9
  <2> HIDE DEF x, a, b, t
  <2> QED
    BY <1>1, <2>1, DivisorLeft
<1>11. e.x = One \/ e.x = MODULUS
  <2>1. x = Value(One) \/ x = Value(MODULUS)
    BY <1>10, OneIs, ModulusIs
  <2> HIDE DEF e
  <2> QED
    BY <1>8, <2>1, OneIs, ModulusIs, UintsDiffer
<1>12. Inverts(this0, MODULUS)
  BY <1>7, <1>11 DEF Inverts
<1>13. CASE t = 0
  <2>1. this0 = Zero
    BY <1>13, OneIs, UintsDiffer
  <2>2. Reciprocal(this0, MODULUS) = this0
    BY <2>1 DEF Reciprocal, Replaced, Bit
  <2> QED
    BY <1>12, <1>13, <2>2
<1>14. CASE t # 0
  <2>1. this0 # Zero
    BY <1>14, OneIs
  <2>2. Reciprocal(this0, MODULUS) = e.a
    BY <1>7, <2>1 DEF Reciprocal, Replaced, Bit
  <2>3. x = 1 /\ (a * t) % P = 1
    BY <1>10, <1>14
  <2>4. a # 0
    <3> SUFFICES ASSUME a = 0 PROVE FALSE
      OBVIOUS
    <3>1. a * t = 0
      BY <1>1
    <3>2. 0 % P = 0
      BY <1>1
    <3> QED
      BY <2>3, <3>1, <3>2
  <2>5. a \in 1..P - 1
    BY <1>10, <2>4
  <2> HIDE DEF e
  <2> QED
    BY <1>8, <1>12, <1>14, <2>2, <2>3, <2>5
<1> QED
  BY <1>13, <1>14

LEMMA CanInvertIs ==
  ASSUME NEW x \in Uint, Value(x) < P
  PROVE  CanInvert(x, MODULUS)
<1>1. 1 < P
  BY PIs
<1> QED
  BY <1>1, ModulusIs, OneIs, LessIs DEF CanInvert

-----------------------------------------------------------------------------
(* The registers *)

Numbers == this \in Uint /\ other \in Uint

LEMMA ReplacedIs ==
  ASSUME NEW x, NEW y
  PROVE  Replaced(x, y, 1) = y /\ Replaced(x, y, 0) = x
BY DEF Replaced

LEMMA UintStepKeepsNumbers ==
  ASSUME Numbers, UintNext
  PROVE  Numbers'
<1> USE DEF Numbers
<1>1. ASSUME NEW enable \in {0, 1},
             \/ Returns(Called("add", enable), Add(this, other, enable), Carry(this, other, enable))
             \/ Returns(Called("subtract", enable), Subtract(this, other, enable), Borrow(this, other, enable))
             \/ Returns(Called("shiftRight1", enable), ShiftRight1(this, enable), 0)
             \/ Returns(Called("replace", enable), Replaced(this, other, enable), 0)
      PROVE  Numbers'
  <2>1. /\ Add(this, other, enable) \in Uint
        /\ Subtract(this, other, enable) \in Uint
        /\ ShiftRight1(this, enable) \in Uint
        /\ Replaced(this, other, enable) \in Uint
    <3>1. CASE enable = 1
      BY <3>1, AddIs, SubtractIs, ShiftRight1Is, ReplacedIs
    <3>2. CASE enable = 0
      BY <3>2, AddIs, SubtractIs, ShiftRight1Is, ReplacedIs
    <3> QED
      BY <3>1, <3>2
  <2> QED
    BY <1>1, <2>1 DEF Returns
<1>2. ASSUME NEW enable \in {0, 1}, Swap(enable)
      PROVE  Numbers'
  BY <1>2 DEF Swap, Replaced
<1>3. ASSUME \/ Returns("shiftLeft1", ShiftLeft1(this), TopBit(this[NumWords]))
             \/ Returns("<", this, Bit(Less(this, other)))
             \/ Returns("==", this, Bit(this = other))
      PROVE  Numbers'
  BY <1>3, ShiftLeft1Is DEF Returns
<1> QED
  BY <1>1, <1>2, <1>3 DEF UintNext

LEMMA FieldStepKeepsNumbers ==
  ASSUME Numbers, FieldNext
  PROVE  Numbers'
<1> USE DEF Numbers
<1>1. ASSUME NEW m, NEW x \in Uint, NEW r, Returns(m, x, r)
      PROVE  Numbers'
  BY <1>1 DEF Returns
<1>2. CASE Returns("construct", FromUint(this), 0)
  BY <1>1, <1>2, FromUintIs
<1>3. CASE /\ InField(this)
           /\ \/ Returns("multiply2", Multiply2(this), 0)
              \/ Returns("square", Square(this), 0)
              \/ Inverts(this, MODULUS) /\ Returns("reciprocal", Reciprocal(this, MODULUS), 0)
  <2>1. Value(this) < P
    BY <1>3, InFieldIs
  <2>2. Multiply2(this) \in Uint /\ Square(this) \in Uint /\ Reciprocal(this, MODULUS) \in Uint
    BY <2>1, Multiply2Is, MultiplyIs, InverseIs DEF Square
  <2> QED
    BY <1>1, <1>3, <2>2
<1>4. CASE /\ InField(this)
           /\ InField(other)
           /\ \/ Returns("field add", FieldAdd(this, other), 0)
              \/ Returns("field subtract", FieldSubtract(this, other), 0)
              \/ Returns("multiply", Multiply(this, other), 0)
  <2>1. Value(this) < P /\ Value(other) < P
    BY <1>4, InFieldIs
  <2>2. FieldAdd(this, other) \in Uint /\ FieldSubtract(this, other) \in Uint
        /\ Multiply(this, other) \in Uint
    BY <2>1, FieldAddIs, FieldSubtractIs, MultiplyIs
  <2> QED
    BY <1>1, <1>4, <2>2
<1> QED
  BY <1>2, <1>3, <1>4 DEF FieldNext

(* No method makes a number too large for its words: every loop over the   *)
(* words ends with words, carry, borrow and modulus accounted for.         *)
THEOREM NumbersAreInvariant == Spec => []Numbers
<1>1. Init => Numbers
  BY DEF Init, Numbers
<1>2. Numbers /\ [Next]_vars => Numbers'
  <2>1. CASE Return
    BY <2>1 DEF Return, Numbers
  <2>2. CASE UNCHANGED vars
    BY <2>2 DEF vars, Numbers
  <2> QED
    BY <2>1, <2>2, UintStepKeepsNumbers, FieldStepKeepsNumbers DEF Next
<1> QED
  BY <1>1, <1>2, PTL DEF Spec

(* Any number that is written as bytes is the number the bytes spell, and  *)
(* reads back as itself (property BytesAreBigEndian).                      *)
THEOREM BytesTheorem == Spec => []BytesAreBigEndian
<1>1. Numbers => BytesAreBigEndian
  BY BytesAre DEF Numbers, BytesAreBigEndian
<1> QED
  BY <1>1, NumbersAreInvariant, PTL

(* The assertions in add, subtract, multiply and reciprocal hold for every *)
(* pair of numbers the methods take (property AssertionsHold).             *)
THEOREM AssertionsTheorem == Spec => []AssertionsHold
<1>1. ASSUME Numbers PROVE AssertionsHold
  <2>1. \A enable \in {0, 1} : CarriesAreBits(this, other, enable)
    BY <1>1, CarriesAre DEF Numbers
  <2>2. ASSUME InField(this)
        PROVE  /\ CanInvert(this, MODULUS) /\ Inverts(this, MODULUS)
               /\ InField(other) => MultiplyAsserts(this, other)
    <3>1. Value(this) < P
      BY <1>1, <2>2, InFieldIs DEF Numbers
    <3>2. CanInvert(this, MODULUS)
      BY <1>1, <3>1, CanInvertIs DEF Numbers
    <3>3. Inverts(this, MODULUS)
      BY <1>1, <3>1, InverseIs DEF Numbers
    <3>4. InField(other) => MultiplyAsserts(this, other)
      BY <1>1, <3>1, InFieldIs, MultiplyIs DEF Numbers
    <3> QED
      BY <3>2, <3>3, <3>4
  <2> QED
    BY <2>1, <2>2 DEF AssertionsHold
<1> QED
  BY <1>1, NumbersAreInvariant, PTL

-----------------------------------------------------------------------------
(* The refinement of ModularArithmetic: one lemma for each kind of method *)

LEMMA ReturnsIs ==
  ASSUME NEW m, NEW x, NEW r, NEW v, v = Value(x), Returns(m, x, r)
  PROVE  Arithmetic!Returns(m, v, r)
BY DEF Returns, Arithmetic!Returns

(* What a disabled method returns. *)
LEMMA ReturnsThis ==
  ASSUME Returns("disabled", this, 0)
  PROVE  Arithmetic!Disabled
<1>1. Arithmetic!Returns("disabled", Value(this), 0)
  BY ReturnsIs
<1> QED
  BY <1>1 DEF Arithmetic!Disabled

LEMMA AddStep ==
  ASSUME Numbers, NEW enable \in {0, 1},
         Returns(Called("add", enable), Add(this, other, enable), Carry(this, other, enable))
  PROVE  Arithmetic!UintNext
<1> USE DEF Numbers
<1>1. CASE enable = 1
  <2>1. Arithmetic!Returns("add", (Value(this) + Value(other)) % Size,
                           (Value(this) + Value(other)) \div Size)
    <3> DEFINE x == Add(this, other, 1)
               r == Carry(this, other, 1)
               v == (Value(this) + Value(other)) % Size
    <3>1. v = Value(x) /\ r = (Value(this) + Value(other)) \div Size /\ Returns("add", x, r)
      BY <1>1, AddIs DEF Called
    <3>2. Arithmetic!Returns("add", v, r)
      <4> HIDE DEF v, r, x
      <4> QED
        BY <3>1, ReturnsIs
    <3> QED
      BY <3>1, <3>2
  <2> QED
    BY <2>1 DEF Arithmetic!UintNext, Size, Weight
<1>2. CASE enable = 0
  <2>1. Returns("disabled", this, 0)
    BY <1>2, AddIs DEF Called
  <2> QED
    BY <2>1, ReturnsThis DEF Arithmetic!UintNext
<1> QED
  BY <1>1, <1>2

LEMMA SubtractStep ==
  ASSUME Numbers, NEW enable \in {0, 1},
         Returns(Called("subtract", enable), Subtract(this, other, enable), Borrow(this, other, enable))
  PROVE  Arithmetic!UintNext
<1> USE DEF Numbers
<1>1. CASE enable = 1
  <2>1. Arithmetic!Returns("subtract", (Value(this) - Value(other)) % Size,
                           Arithmetic!If(Value(this) < Value(other)))
    <3> DEFINE x == Subtract(this, other, 1)
               r == Borrow(this, other, 1)
               v == (Value(this) - Value(other)) % Size
               c == Value(this) < Value(other)
    <3>1. v = Value(x) /\ r = Bit(c) /\ Returns("subtract", x, r)
      BY <1>1, SubtractIs DEF Called
    <3>2. Bit(c) = Arithmetic!If(c)
      BY DEF Bit, Arithmetic!If
    <3>3. Arithmetic!Returns("subtract", v, r)
      <4> HIDE DEF v, r, x
      <4> QED
        BY <3>1, ReturnsIs
    <3> QED
      BY <3>1, <3>2, <3>3
  <2> QED
    BY <2>1 DEF Arithmetic!UintNext, Size, Weight
<1>2. CASE enable = 0
  <2>1. Returns("disabled", this, 0)
    BY <1>2, SubtractIs DEF Called
  <2> QED
    BY <2>1, ReturnsThis DEF Arithmetic!UintNext
<1> QED
  BY <1>1, <1>2

LEMMA ShiftLeft1Step ==
  ASSUME Numbers, Returns("shiftLeft1", ShiftLeft1(this), TopBit(this[NumWords]))
  PROVE  Arithmetic!UintNext
<1> USE DEF Numbers
<1> DEFINE x == ShiftLeft1(this)
           r == TopBit(this[NumWords])
           t == 2 * Value(this)
           v == t % Size
           c == t >= Size
<1>1. v = Value(x) /\ r = t \div Size /\ Returns("shiftLeft1", x, r)
  BY ShiftLeft1Is
<1>2. r = Arithmetic!If(c)
  <2>1. t \in Int /\ t \in 0..(2 * Size) - 1 /\ Size \in Nat \ {0}
    BY UintIs, SizeIs
  <2> HIDE DEF t
  <2>2. CASE t >= Size
    <3>1. t \in Size..(2 * Size) - 1
      BY <2>1, <2>2
    <3>2. t \div Size = 1
      BY <2>1, <3>1, OneBit
    <3> QED
      BY <1>1, <2>2, <3>2 DEF Arithmetic!If
  <2>3. CASE ~(t >= Size)
    <3>1. t \in 0..Size - 1
      BY <2>1, <2>3
    <3>2. t \div Size = 0
      BY <2>1, <3>1, OneBit
    <3> QED
      BY <1>1, <2>3, <3>2 DEF Arithmetic!If
  <2> QED
    BY <2>2, <2>3
<1>3. Arithmetic!Returns("shiftLeft1", v, r)
  <2> HIDE DEF v, r, x
  <2> QED
    BY <1>1, ReturnsIs
<1>4. Arithmetic!Returns("shiftLeft1", (2 * Value(this)) % Size,
                         Arithmetic!If(2 * Value(this) >= Size))
  BY <1>2, <1>3
<1> QED
  BY <1>4 DEF Arithmetic!UintNext, Size, Weight

LEMMA ShiftRight1Step ==
  ASSUME Numbers, NEW enable \in {0, 1},
         Returns(Called("shiftRight1", enable), ShiftRight1(this, enable), 0)
  PROVE  Arithmetic!UintNext
<1> USE DEF Numbers
<1>1. CASE enable = 1
  <2>1. Arithmetic!Returns("shiftRight1", Value(this) \div 2, 0)
    <3> DEFINE x == ShiftRight1(this, 1)
               v == Value(this) \div 2
    <3>1. v = Value(x) /\ Returns("shiftRight1", x, 0)
      BY <1>1, ShiftRight1Is DEF Called
    <3> HIDE DEF v, x
    <3>2. Arithmetic!Returns("shiftRight1", v, 0)
      BY <3>1, ReturnsIs
    <3> QED
      BY <3>2 DEF v
  <2> QED
    BY <2>1 DEF Arithmetic!UintNext
<1>2. CASE enable = 0
  <2>1. Returns("disabled", this, 0)
    BY <1>2, ShiftRight1Is DEF Called
  <2> QED
    BY <2>1, ReturnsThis DEF Arithmetic!UintNext
<1> QED
  BY <1>1, <1>2

LEMMA ReplaceStep ==
  ASSUME NEW enable \in {0, 1}, Returns(Called("replace", enable), Replaced(this, other, enable), 0)
  PROVE  Arithmetic!UintNext
<1>1. CASE enable = 1
  <2>1. Arithmetic!Returns("replace", Value(other), 0)
    BY <1>1, ReplacedIs, ReturnsIs DEF Called
  <2> QED
    BY <2>1 DEF Arithmetic!UintNext
<1>2. CASE enable = 0
  <2>1. Returns("disabled", this, 0)
    BY <1>2, ReplacedIs DEF Called
  <2> QED
    BY <2>1, ReturnsThis DEF Arithmetic!UintNext
<1> QED
  BY <1>1, <1>2

LEMMA SwapStep ==
  ASSUME NEW enable \in {0, 1}, Swap(enable)
  PROVE  Arithmetic!UintNext
<1>1. CASE enable = 1
  <2>1. method = "idle" /\ method' = "swap" /\ this' = other /\ other' = this /\ bit' = 0
    BY <1>1, ReplacedIs DEF Swap, Called
  <2> QED
    BY <2>1 DEF Arithmetic!UintNext
<1>2. CASE enable = 0
  <2>1. Returns("disabled", this, 0)
    BY <1>2, ReplacedIs DEF Swap, Called, Returns
  <2> QED
    BY <2>1, ReturnsThis DEF Arithmetic!UintNext
<1> QED
  BY <1>1, <1>2

LEMMA LessStep ==
  ASSUME Numbers, Returns("<", this, Bit(Less(this, other)))
  PROVE  Arithmetic!UintNext
<1> DEFINE c == Value(this) < Value(other)
<1>1. Less(this, other) <=> c
  BY LessIs DEF Numbers
<1>2. Bit(Less(this, other)) = Arithmetic!If(c)
  BY <1>1 DEF Bit, Arithmetic!If
<1> HIDE DEF c
<1>3. Arithmetic!Returns("<", Value(this), Arithmetic!If(c))
  BY <1>2, ReturnsIs
<1> QED
  BY <1>3 DEF Arithmetic!UintNext, c

LEMMA EqualStep ==
  ASSUME Numbers, Returns("==", this, Bit(this = other))
  PROVE  Arithmetic!UintNext
<1> DEFINE c == Value(this) = Value(other)
<1>1. this = other <=> c
  BY UintsDiffer DEF Numbers
<1>2. Bit(this = other) = Arithmetic!If(c)
  BY <1>1 DEF Bit, Arithmetic!If
<1> HIDE DEF c
<1>3. Arithmetic!Returns("==", Value(this), Arithmetic!If(c))
  BY <1>2, ReturnsIs
<1> QED
  BY <1>3 DEF Arithmetic!UintNext, c

LEMMA UintStep ==
  ASSUME Numbers, UintNext
  PROVE  Arithmetic!UintNext
BY AddStep, SubtractStep, ShiftLeft1Step, ShiftRight1Step, ReplaceStep, SwapStep, LessStep,
   EqualStep DEF UintNext

LEMMA ReciprocalStep ==
  ASSUME Numbers, Value(this) < P, Returns("reciprocal", Reciprocal(this, MODULUS), 0)
  PROVE  Arithmetic!FieldNext
<1> DEFINE a == Value(this)
           x == Reciprocal(this, MODULUS)
           r == Value(x)
<1>1. Arithmetic!Returns("reciprocal", r, 0)
  <2> HIDE DEF x
  <2> QED
    BY ReturnsIs DEF x
<1>2. CASE a = 0
  <2>1. r = 0
    BY <1>2, InverseIs DEF Numbers
  <2>2. a < P /\ Arithmetic!Returns("reciprocal", 0, 0)
    BY <1>1, <2>1
  <2> QED
    BY <1>2, <2>2 DEF Arithmetic!FieldNext
<1>3. CASE a # 0
  <2>1. r \in 1..P - 1 /\ (r * a) % P = 1
    BY <1>3, InverseIs DEF Numbers
  <2>2. a < P
    OBVIOUS
  <2> HIDE DEF r
  <2> QED
    BY <1>1, <2>1, <2>2 DEF Arithmetic!FieldNext
<1> QED
  BY <1>2, <1>3

LEMMA SquareIs ==
  ASSUME NEW x \in Uint, Value(x) < P
  PROVE  Value(Square(x)) = (Value(x) * Value(x)) % P
BY MultiplyIs DEF Square

(* The methods of one number of the field *)
LEMMA FieldStepOfOne ==
  ASSUME Numbers, InField(this),
         \/ Returns("multiply2", Multiply2(this), 0)
         \/ Returns("square", Square(this), 0)
         \/ Returns("reciprocal", Reciprocal(this, MODULUS), 0)
  PROVE  Arithmetic!FieldNext
<1> USE DEF Numbers
<1>1. Value(this) < P
  BY InFieldIs
<1>2. ASSUME Returns("multiply2", Multiply2(this), 0)
      PROVE  Arithmetic!FieldNext
  <2>1. Arithmetic!Returns("multiply2", (2 * Value(this)) % P, 0)
    <3> DEFINE x == Multiply2(this)
               v == (2 * Value(this)) % P
    <3>1. v = Value(x) /\ Returns("multiply2", x, 0)
      BY <1>1, <1>2, Multiply2Is
    <3> HIDE DEF v, x
    <3>2. Arithmetic!Returns("multiply2", v, 0)
      BY <3>1, ReturnsIs
    <3> QED
      BY <3>2 DEF v
  <2> QED
    BY <1>1, <2>1 DEF Arithmetic!FieldNext
<1>3. ASSUME Returns("square", Square(this), 0)
      PROVE  Arithmetic!FieldNext
  <2>1. Arithmetic!Returns("square", (Value(this) * Value(this)) % P, 0)
    <3> DEFINE x == Square(this)
               v == (Value(this) * Value(this)) % P
    <3>1. v = Value(x) /\ Returns("square", x, 0)
      BY <1>1, <1>3, SquareIs
    <3> HIDE DEF v, x
    <3>2. Arithmetic!Returns("square", v, 0)
      BY <3>1, ReturnsIs
    <3> QED
      BY <3>2 DEF v
  <2> QED
    BY <1>1, <2>1 DEF Arithmetic!FieldNext
<1>4. ASSUME Returns("reciprocal", Reciprocal(this, MODULUS), 0)
      PROVE  Arithmetic!FieldNext
  BY <1>1, <1>4, ReciprocalStep
<1> QED
  BY <1>2, <1>3, <1>4

(* The methods of two numbers of the field *)
LEMMA FieldStepOfTwo ==
  ASSUME Numbers, InField(this), InField(other),
         \/ Returns("field add", FieldAdd(this, other), 0)
         \/ Returns("field subtract", FieldSubtract(this, other), 0)
         \/ Returns("multiply", Multiply(this, other), 0)
  PROVE  Arithmetic!FieldNext
<1> USE DEF Numbers
<1>1. Value(this) < P /\ Value(other) < P
  BY InFieldIs
<1>2. ASSUME Returns("field add", FieldAdd(this, other), 0)
      PROVE  Arithmetic!FieldNext
  <2>1. Arithmetic!Returns("field add", (Value(this) + Value(other)) % P, 0)
    <3> DEFINE x == FieldAdd(this, other)
               v == (Value(this) + Value(other)) % P
    <3>1. v = Value(x) /\ Returns("field add", x, 0)
      BY <1>1, <1>2, FieldAddIs
    <3> HIDE DEF v, x
    <3>2. Arithmetic!Returns("field add", v, 0)
      BY <3>1, ReturnsIs
    <3> QED
      BY <3>2 DEF v
  <2> QED
    BY <1>1, <2>1 DEF Arithmetic!FieldNext
<1>3. ASSUME Returns("field subtract", FieldSubtract(this, other), 0)
      PROVE  Arithmetic!FieldNext
  <2>1. Arithmetic!Returns("field subtract", (Value(this) - Value(other)) % P, 0)
    <3> DEFINE x == FieldSubtract(this, other)
               v == (Value(this) - Value(other)) % P
    <3>1. v = Value(x) /\ Returns("field subtract", x, 0)
      BY <1>1, <1>3, FieldSubtractIs
    <3> HIDE DEF v, x
    <3>2. Arithmetic!Returns("field subtract", v, 0)
      BY <3>1, ReturnsIs
    <3> QED
      BY <3>2 DEF v
  <2> QED
    BY <1>1, <2>1 DEF Arithmetic!FieldNext
<1>4. ASSUME Returns("multiply", Multiply(this, other), 0)
      PROVE  Arithmetic!FieldNext
  <2>1. Arithmetic!Returns("multiply", (Value(this) * Value(other)) % P, 0)
    <3> DEFINE x == Multiply(this, other)
               v == (Value(this) * Value(other)) % P
    <3>1. v = Value(x) /\ Returns("multiply", x, 0)
      BY <1>1, <1>4, MultiplyIs
    <3> HIDE DEF v, x
    <3>2. Arithmetic!Returns("multiply", v, 0)
      BY <3>1, ReturnsIs
    <3> QED
      BY <3>2 DEF v
  <2> QED
    BY <1>1, <2>1 DEF Arithmetic!FieldNext
<1> QED
  BY <1>2, <1>3, <1>4

LEMMA FieldStep ==
  ASSUME Numbers, FieldNext
  PROVE  Arithmetic!FieldNext
<1>1. CASE Returns("construct", FromUint(this), 0)
  <2> DEFINE x == FromUint(this)
             v == Value(this) % P
  <2>1. v = Value(x) /\ Returns("construct", x, 0)
    BY <1>1, FromUintIs DEF Numbers
  <2>2. Arithmetic!Returns("construct", v, 0)
    <3> HIDE DEF v, x
    <3> QED
      BY <2>1, ReturnsIs
  <2> QED
    BY <2>2 DEF Arithmetic!FieldNext
<1>2. CASE /\ InField(this)
           /\ \/ Returns("multiply2", Multiply2(this), 0)
              \/ Returns("square", Square(this), 0)
              \/ Inverts(this, MODULUS) /\ Returns("reciprocal", Reciprocal(this, MODULUS), 0)
  BY <1>2, FieldStepOfOne
<1>3. CASE /\ InField(this)
           /\ InField(other)
           /\ \/ Returns("field add", FieldAdd(this, other), 0)
              \/ Returns("field subtract", FieldSubtract(this, other), 0)
              \/ Returns("multiply", Multiply(this, other), 0)
  BY <1>3, FieldStepOfTwo
<1> QED
  BY <1>1, <1>2, <1>3 DEF FieldNext

(* The methods, words and all, do what the same methods do to natural      *)
(* numbers (property ImplementsArithmetic): the multiplication with its    *)
(* Barrett reduction is the product modulo the prime, and the extended     *)
(* binary GCD is the inverse, after any number of words and for any prime  *)
(* of the shape of the code's.                                             *)
THEOREM ImplementsArithmeticTheorem == Spec => ImplementsArithmetic
<1>1. Init => Arithmetic!Init
  <2> SUFFICES ASSUME Init PROVE Arithmetic!Init
    OBVIOUS
  <2>1. Value(this) \in 0..Size - 1 /\ Value(other) \in 0..Size - 1
    BY UintIs DEF Init
  <2> QED
    BY <2>1 DEF Init, Arithmetic!Init, Size, Weight
<1>2. Numbers /\ [Next]_vars => [Arithmetic!Next]_(Arithmetic!vars)
  <2> SUFFICES ASSUME Numbers, [Next]_vars PROVE [Arithmetic!Next]_(Arithmetic!vars)
    OBVIOUS
  <2>1. CASE UintNext
    BY <2>1, UintStep DEF Arithmetic!Next
  <2>2. CASE FieldNext
    BY <2>2, FieldStep DEF Arithmetic!Next
  <2>3. CASE Return
    BY <2>3 DEF Return, Arithmetic!Return, Arithmetic!Next
  <2>4. CASE UNCHANGED vars
    BY <2>4 DEF vars, Arithmetic!vars
  <2> QED
    BY <2>1, <2>2, <2>3, <2>4 DEF Next
<1> QED
  BY <1>1, <1>2, NumbersAreInvariant, PTL DEF Spec, ImplementsArithmetic, Arithmetic!Spec
=============================================================================
