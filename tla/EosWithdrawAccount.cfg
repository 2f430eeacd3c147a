SPECIFICATION Spec
CONSTANTS
  Users = {u1}
  PKs = {k1}
  XHashes = {h1, h2}
  Tokens <- SameSymbol
  Issued <- SameSymbol
  Amounts = {1}
  DebtAmounts = {1}
  Supply = 2
  MaxAmount = 2
  Ratios = {2}
  RatioPrecise = 2
  LockedTime = 1
  MaxPid = 0
  SigCodes = {1}
  SigActions = {verify}
  NoRow = NoRow
PROPERTIES WithdrawNamesItsAccount
