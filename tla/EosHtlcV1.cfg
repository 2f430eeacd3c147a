SPECIFICATION V1Spec
CONSTANTS
  Users = {u1}
  PKs = {k1, k2}
  XHashes = {h1, h2}
  Tokens <- SameSymbol
  Issued <- OneToken
  Amounts = {1}
  DebtAmounts <- BothSigns
  Supply = 1
  MaxAmount = 1
  Ratios = {1}
  RatioPrecise = 2
  LockedTime = 1
  MaxPid = 1
  SigCodes = {1}
  SigActions = {verify}
  NoRow = NoRow
SYMMETRY Interchangeable
INVARIANTS OneIdPerPk RecordsHaveTheirPk SymbolsAreCovered
PROPERTIES PromisesAreKept DebtKeepsItsKeys
