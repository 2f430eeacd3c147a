SPECIFICATION Spec
CONSTANTS
  P = 13
  B = 7
  GX = 7
  GY = 5
  Order = 7
  Bits = 6
  TableBits = 2
  Scalars = {0, 1, 6, 7, 8, 37, 63}
  Infinity = Infinity
  Hashes = {0, 1, 5, 7, 16, 63}
  Signatures = {0, 1, 2, 3, 4, 5, 6, 7, 13, 21, 33, 63}
INVARIANTS NormalFormIsUnique AcceptsExactlyTheSigned
PROPERTIES ImplementsGroup
