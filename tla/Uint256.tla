------------------------------- MODULE Uint256 -------------------------------
(***************************************************************************)
(* The unsigned integers of the signature verifier                         *)
(* (src/eos-wan-cross/c++/schnorr.verification/src/Uint256.cpp): NumWords  *)
(* words of WordBits bits, the least significant first.  The code has 8    *)
(* words of 32 bits; the operators are the same for every size.            *)
(*                                                                         *)
(* A method that changes its object is an operator that returns what the   *)
(* object becomes.  An argument called enable is a bit: the code turns it  *)
(* into a mask, so that the same instructions run whether it is 0 or 1.    *)
(*                                                                         *)
(* A definition whose comment begins with "Mutant" is a wrong version of   *)
(* the one that follows it, there to show that a property notices.         *)
(***************************************************************************)
EXTENDS Integers, Sequences, Powers

CONSTANTS
  WordBits,   \* bits of a word: 32
  NumWords,   \* Uint256::NUM_WORDS: 8
  DigitBits   \* bits of what a number is read and written in: a hex digit, a byte

Base == Power(2, WordBits)
DigitBase == Power(2, DigitBits)
DigitsPerWord == WordBits \div DigitBits
NumDigits == NumWords * DigitsPerWord

ASSUME UintConstants ==
  /\ WordBits \in Nat \ {0}
  /\ NumWords \in Nat \ {0, 1}
  /\ DigitBits \in 1..WordBits
  /\ WordBits % DigitBits = 0

Uint == [1..NumWords -> 0..Base - 1]

Bit(condition) == IF condition THEN 1 ELSE 0

(* Word i of x, with zeros around its words. *)
Word(x, i) == IF i \in DOMAIN x THEN x[i] ELSE 0

-----------------------------------------------------------------------------
(***************************************************************************)
(* The loops over the words all pass something on to the next word: what   *)
(* word[i] and the words before add up to, above a word.  It is negative   *)
(* where the code has a borrow.  overs[i] is what word i passes on.        *)
(***************************************************************************)
(* Mutant: what a word passes on does not count what was passed to it. *)
PassShort(word) ==
  LET loop[i \in 0..Len(word)] ==
        IF i = 0 THEN [words |-> <<>>, overs |-> <<>>, over |-> 0]
        ELSE LET before == loop[i - 1]
                 sum == word[i] + before.over
             IN  [words |-> Append(before.words, sum % Base),
                  overs |-> Append(before.overs, word[i] \div Base), over |-> word[i] \div Base]
  IN  loop[Len(word)]

Pass(word) ==
  LET loop[i \in 0..Len(word)] ==
        IF i = 0 THEN [words |-> <<>>, overs |-> <<>>, over |-> 0]
        ELSE LET before == loop[i - 1]
                 sum == word[i] + before.over
             IN  [words |-> Append(before.words, sum % Base),
                  overs |-> Append(before.overs, sum \div Base), over |-> sum \div Base]
  IN  loop[Len(word)]

Words(word) == Pass(word).words

Within(pass, bounds) == \A i \in DOMAIN pass.overs : pass.overs[i] \in bounds

Zero == [i \in 1..NumWords |-> 0]
One == [i \in 1..NumWords |-> Bit(i = 1)]

AddPass(x, y, enable) == Pass([i \in 1..NumWords |-> x[i] + enable * y[i]])
SubPass(x, y, enable) == Pass([i \in 1..NumWords |-> x[i] - enable * y[i]])

Add(x, y, enable) == AddPass(x, y, enable).words
Carry(x, y, enable) == AddPass(x, y, enable).over

Subtract(x, y, enable) == SubPass(x, y, enable).words
Borrow(x, y, enable) == -SubPass(x, y, enable).over

(* The assertions of add and subtract: a carry and a borrow are bits. *)
CarriesAreBits(x, y, enable) ==
  Within(AddPass(x, y, enable), 0..1) /\ Within(SubPass(x, y, enable), -1..0)

TopBit(word) == word \div (Base \div 2)

(* The bit shifted out of a word is what it passes on. *)
ShiftLeft1(x) == Words([i \in 1..NumWords |-> 2 * x[i]])

ShiftRight1(x, enable) ==
  [i \in 1..NumWords |-> IF enable = 0 THEN x[i]
                         ELSE x[i] \div 2 + (Word(x, i + 1) % 2) * (Base \div 2)]

Replaced(x, y, enable) == IF enable = 1 THEN y ELSE x

(* The last words that differ decide. *)
Less(x, y) ==
  LET less[i \in 0..NumWords] ==
        IF i = 0 THEN FALSE
        ELSE IF x[i] = y[i] THEN less[i - 1] ELSE x[i] < y[i]
  IN  less[NumWords]

-----------------------------------------------------------------------------
(* Reading and writing: digits[0] is the most significant one. *)

Constructed(digits) ==
  [i \in 1..NumWords |->
    LET sum[k \in 0..DigitsPerWord] ==
          IF k = 0 THEN 0
          ELSE sum[k - 1] + (digits[NumDigits - ((i - 1) * DigitsPerWord + k)]
                               * Power(DigitBase, k - 1))
    IN  sum[DigitsPerWord]]

(* Mutant: the bytes of a word are stored the least significant first. *)
LittleEndianBytes(x) ==
  [d \in 0..NumDigits - 1 |->
     (x[NumWords - d \div DigitsPerWord]
        \div Power(DigitBase, d % DigitsPerWord)) % DigitBase]

GetBigEndianBytes(x) ==
  [d \in 0..NumDigits - 1 |->
     (x[NumWords - d \div DigitsPerWord]
        \div Power(DigitBase, DigitsPerWord - 1 - (d % DigitsPerWord))) % DigitBase]

-----------------------------------------------------------------------------
(* The reciprocal of y modulo an odd number: the extended binary GCD.      *)
(* Throughout, x = a * this and y = b * this, modulo the modulus; odd is   *)
(* whether the assertion that x is odd held in every round.                *)

HalvedOrReduced(s, modulus) ==
  LET even == Bit(s.y[1] % 2 = 0)
      half == ShiftRight1(Add(modulus, One, 1), 1)
      y == ShiftRight1(s.y, even)
      b == Add(ShiftRight1(s.b, even), half, even * (s.b[1] % 2))
      odd == y[1] % 2
      swapped == Bit(odd = 1 /\ Less(y, s.x))
      x1 == Replaced(s.x, y, swapped)
      y1 == Replaced(y, s.x, swapped)
      a1 == Replaced(s.a, b, swapped)
      b1 == Replaced(b, s.a, swapped)
  IN  [x |-> x1, y |-> Subtract(y1, x1, odd), a |-> a1,
       b |-> Add(Subtract(b1, a1, odd), modulus, Borrow(b1, a1, odd)),
       odd |-> s.odd /\ s.x[1] % 2 = 1]

CanInvert(this, modulus) == modulus[1] % 2 = 1 /\ Less(One, modulus) /\ Less(this, modulus)

Rounds == NumWords * WordBits * 2

(* The state after each round of the loop. *)
EuclidStates(this, modulus) ==
  LET step[s \in [x : Uint, y : Uint, a : Uint, b : Uint, odd : BOOLEAN]] ==
        HalvedOrReduced(s, modulus)
      state[k \in 0..Rounds] ==
        IF k = 0 THEN [x |-> modulus, y |-> this, a |-> Zero, b |-> One, odd |-> TRUE]
        ELSE step[state[k - 1]]
  IN  state

Euclid(this, modulus) == EuclidStates(this, modulus)[Rounds]

(* The assertion in the loop: x is odd; and the one after it: the numbers  *)
(* have no common divisor, or this is zero.                                *)
Inverts(this, modulus) ==
  Euclid(this, modulus).odd /\ Euclid(this, modulus).x \in {One, modulus}

Reciprocal(this, modulus) ==
  Replaced(this, Euclid(this, modulus).a, Bit(this # Zero))
=============================================================================
