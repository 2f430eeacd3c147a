SPECIFICATION Spec
CONSTANTS
  WordBits = 2
  NumWords = 3
  DigitBits = 1
  Excess = 1
INVARIANTS AssertionsHold BytesAreBigEndian
PROPERTIES ImplementsArithmetic
