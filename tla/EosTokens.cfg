SPECIFICATION FairSpec
CONSTANTS
  Users = {u1}
  PKs = {k1}
  XHashes = {h1, h2}
  Tokens <- SameSymbol
  Issued <- SameSymbol
  Amounts = {2}
  DebtAmounts = {2}
  Supply = 3
  MaxAmount = 3
  Ratios = {1, 2, 4}
  RatioPrecise = 2
  LockedTime = 1
  MaxPid = 0
  SigCodes = {1}
  SigActions = {verify}
  NoRow = NoRow
INVARIANTS SymbolsAreCovered
PROPERTIES TokensAreCovered DebtFreezesNewLocks 
