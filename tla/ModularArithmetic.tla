-------------------------- MODULE ModularArithmetic --------------------------
(***************************************************************************)
(* What the words of Uint256 and FieldInt promise: two registers that hold *)
(* natural numbers below Size, and methods that compute with them, some of *)
(* them modulo a prime.  There are no words, carries or borrows here.      *)
(***************************************************************************)
EXTENDS Integers

CONSTANTS
  Size,     \* numbers a register can hold
  Modulus   \* the prime of the field

VARIABLES
  a,      \* the object a method is called on
  b,      \* its argument
  bit,    \* the bit the method returns
  method  \* the method called last, "disabled" for any of those that
          \* take enable and were given 0, or "idle"

vars == <<a, b, bit, method>>

Init == a \in 0..Size - 1 /\ b \in 0..Size - 1 /\ bit = 0 /\ method = "idle"

(* Method m leaves n in the object and returns a bit. *)
Returns(m, n, returned) ==
  /\ method = "idle"
  /\ method' = m
  /\ a' = n
  /\ bit' = returned
  /\ UNCHANGED b

If(condition) == IF condition THEN 1 ELSE 0

(* A method called with enable 0 runs the same instructions and changes    *)
(* nothing; one called with enable 1 has to do what it is for.             *)
Disabled == Returns("disabled", a, 0)

UintNext ==
  \/ Returns("add", (a + b) % Size, (a + b) \div Size)
  \/ Returns("subtract", (a - b) % Size, If(a < b))
  \/ Returns("shiftLeft1", (2 * a) % Size, If(2 * a >= Size))
  \/ Returns("shiftRight1", a \div 2, 0)
  \/ Returns("replace", b, 0)
  \/ method = "idle" /\ method' = "swap" /\ a' = b /\ b' = a /\ bit' = 0
  \/ Returns("<", a, If(a < b))
  \/ Returns("==", a, If(a = b))
  \/ Disabled

FieldNext ==
  \/ Returns("construct", a % Modulus, 0)
  \/ /\ a < Modulus
     /\ \/ Returns("multiply2", (2 * a) % Modulus, 0)
        \/ Returns("square", (a * a) % Modulus, 0)
        \/ a = 0 /\ Returns("reciprocal", 0, 0)
        \/ \E r \in 1..Modulus - 1 : (r * a) % Modulus = 1 /\ Returns("reciprocal", r, 0)
  \/ /\ a < Modulus
     /\ b < Modulus
     /\ \/ Returns("field add", (a + b) % Modulus, 0)
        \/ Returns("field subtract", (a - b) % Modulus, 0)
        \/ Returns("multiply", (a * b) % Modulus, 0)

Return == method # "idle" /\ method' = "idle" /\ bit' = 0 /\ UNCHANGED <<a, b>>

Next == UintNext \/ FieldNext \/ Return

Spec == Init /\ [][Next]_vars
=============================================================================
