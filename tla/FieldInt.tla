------------------------------- MODULE FieldInt -------------------------------
(***************************************************************************)
(* The field of the curve                                                  *)
(* (src/eos-wan-cross/c++/schnorr.verification/src/FieldInt.cpp): numbers  *)
(* of Uint256 modulo a prime just below the largest one, Base^NumWords -   *)
(* Base - Excess.  The code's is 2^256 - 2^32 - 0x3D1; a run takes a small *)
(* prime of the same shape, so that every pair of numbers is tried.        *)
(*                                                                         *)
(* The state is two registers and the methods called on them, those        *)
(* inherited from Uint256 included.  ModularArithmetic says what each must *)
(* compute.  A definition whose comment begins with "Mutant" is wrong, to  *)
(* show that a property notices.                                           *)
(***************************************************************************)
EXTENDS Uint256

CONSTANT Excess   \* 0x3D1

P == Power(Base, NumWords) - Base - Excess

(* FieldInt::MODULUS *)
MODULUS == [i \in 1..NumWords |-> P \div Power(Base, i - 1) % Base]

ASSUME FieldConstants ==
  /\ Excess \in 1..Base - 1
  /\ (Base + Excess) * (Base + Excess) < P
  /\ \A n \in 2..P - 1 : P % n # 0

InField(x) == Less(x, MODULUS)

-----------------------------------------------------------------------------
(* The constructor from any Uint256 *)
FromUint(x) == Subtract(x, MODULUS, Bit(~Less(x, MODULUS)))

FieldAdd(x, y) ==
  LET sum == Add(x, y, 1)
  IN  Subtract(sum, MODULUS, Bit(Carry(x, y, 1) = 1 \/ ~Less(sum, MODULUS)))

FieldSubtract(x, y) == Add(Subtract(x, y, 1), MODULUS, Borrow(x, y, 1))

Multiply2(x) ==
  LET twice == ShiftLeft1(x)
  IN  Subtract(twice, MODULUS, Bit(TopBit(x[NumWords]) = 1 \/ ~Less(twice, MODULUS)))

(* Row i of the long multiplication adds x[i] * y at word i. *)
Product(x, y) ==
  LET rows[i \in 0..NumWords] ==
        IF i = 0 THEN Zero \o Zero
        ELSE LET above == rows[i - 1]
             IN  Pass([k \in 1..2 * NumWords |-> above[k] + x[i] * Word(y, k - i + 1)]).words
  IN  rows[NumWords]

(* Barrett reduction: times floor(Base^(2 NumWords) / P), shifted right by *)
(* 2 NumWords words, times P is the multiple of P to take away.            *)
Scaled(product) ==
  Pass([i \in 1..3 * NumWords |-> Word(product, i) * Excess + Word(product, i - 1)
                                  + Word(product, i - NumWords)])

Quotient(product) == SubSeq(Scaled(product).words, 2 * NumWords + 1, 3 * NumWords)

TimesModulus(q) ==
  Pass([i \in 1..2 * NumWords |-> Word(q, i - NumWords) - Word(q, i) * Excess - Word(q, i - 1)])

Difference(product) ==
  LET multiple == TimesModulus(Quotient(product)).words
  IN  Pass([i \in 1..NumWords + 1 |-> product[i] - multiple[i]])

(* Mutant: the word above the others is not looked at. *)
MultiplyLowWords(x, y) ==
  LET low == SubSeq(Difference(Product(x, y)).words, 1, NumWords)
  IN  Subtract(low, MODULUS, Bit(~Less(low, MODULUS)))

Multiply(x, y) ==
  LET difference == Difference(Product(x, y)).words
      low == SubSeq(difference, 1, NumWords)
  IN  Subtract(low, MODULUS, Bit(difference[NumWords + 1] # 0 \/ ~Less(low, MODULUS)))

(* The object is its own argument. *)
Square(x) == Multiply(x, x)

(* What the loops of multiply pass from word to word is as small as the    *)
(* assertions say, and nothing is left after the last word.                *)
MultiplyAsserts(x, y) ==
  LET product == Product(x, y)
      scaled == Scaled(product)
      multiple == TimesModulus(Quotient(product))
  IN  /\ Within(scaled, 0..Excess + 2) /\ scaled.over = 0
      /\ Within(multiple, -(Excess + 2)..0) /\ multiple.over = 0
      /\ Within(Difference(product), -1..0)

-----------------------------------------------------------------------------
(* Registers *)

VARIABLES
  this,   \* the object a method is called on
  other,  \* its argument
  bit,    \* the bit the method returns
  method  \* the method called last, or "idle"

vars == <<this, other, bit, method>>

Init == this \in Uint /\ other \in Uint /\ bit = 0 /\ method = "idle"

Returns(m, x, returned) ==
  /\ method = "idle"
  /\ method' = m
  /\ this' = x
  /\ bit' = returned
  /\ UNCHANGED other

(* What the caller asks for: nothing, where enable is 0. *)
Called(m, enable) == IF enable = 1 THEN m ELSE "disabled"

Swap(enable) ==
  /\ method = "idle"
  /\ method' = Called("swap", enable)
  /\ this' = Replaced(this, other, enable)
  /\ other' = Replaced(other, this, enable)
  /\ bit' = 0

UintNext ==
  \/ \E enable \in {0, 1} :
       \/ Returns(Called("add", enable), Add(this, other, enable), Carry(this, other, enable))
       \/ Returns(Called("subtract", enable), Subtract(this, other, enable), Borrow(this, other, enable))
       \/ Returns(Called("shiftRight1", enable), ShiftRight1(this, enable), 0)
       \/ Returns(Called("replace", enable), Replaced(this, other, enable), 0)
       \/ Swap(enable)
  \/ Returns("shiftLeft1", ShiftLeft1(this), TopBit(this[NumWords]))
  \/ Returns("<", this, Bit(Less(this, other)))
  \/ Returns("==", this, Bit(this = other))

(* A FieldInt is below MODULUS. *)
FieldNext ==
  \/ Returns("construct", FromUint(this), 0)
  \/ /\ InField(this)
     /\ \/ Returns("multiply2", Multiply2(this), 0)
        \/ Returns("square", Square(this), 0)
        \/ Inverts(this, MODULUS) /\ Returns("reciprocal", Reciprocal(this, MODULUS), 0)
  \/ /\ InField(this)
     /\ InField(other)
     /\ \/ Returns("field add", FieldAdd(this, other), 0)
        \/ Returns("field subtract", FieldSubtract(this, other), 0)
        \/ Returns("multiply", Multiply(this, other), 0)

(* The caller goes on with what the method left in its object. *)
Return == method # "idle" /\ method' = "idle" /\ bit' = 0 /\ UNCHANGED <<this, other>>

Next == UintNext \/ FieldNext \/ Return

Spec == Init /\ [][Next]_vars

-----------------------------------------------------------------------------
(* Properties *)

(* What the first n words of x amount to. *)
ValueOf(x, n) ==
  LET sum[i \in 0..n] == IF i = 0 THEN 0 ELSE sum[i - 1] + x[i] * Power(Base, i - 1)
  IN  sum[n]

Value(x) == ValueOf(x, NumWords)

Horner(digits) ==
  LET sum[d \in 0..NumDigits] == IF d = 0 THEN 0 ELSE sum[d - 1] * DigitBase + digits[d - 1]
  IN  sum[NumDigits]

Arithmetic == INSTANCE ModularArithmetic
  WITH a <- Value(this), b <- Value(other), Size <- Power(Base, NumWords), Modulus <- P

(* Whatever the words, carries and borrows, each method computes the       *)
(* number it stands for: the long multiplication with its Barrett          *)
(* reduction is the product modulo the prime, the binary GCD the inverse.  *)
ImplementsArithmetic == Arithmetic!Spec

(* No assertion ever stops the program: not of add and subtract, for any   *)
(* two numbers, nor of multiply and reciprocal for numbers of the field.   *)
AssertionsHold ==
  method = "idle" =>
    /\ \A enable \in {0, 1} : CarriesAreBits(this, other, enable)
    /\ InField(this) => /\ CanInvert(this, MODULUS) /\ Inverts(this, MODULUS)
                        /\ InField(other) => MultiplyAsserts(this, other)

(* A number is written the most significant digit first, and reads back as *)
(* itself: the order of the words and the order within a word agree.       *)
BytesAreBigEndian ==
  /\ Horner(GetBigEndianBytes(this)) = Value(this)
  /\ Constructed(GetBigEndianBytes(this)) = this
=============================================================================
