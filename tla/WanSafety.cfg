SPECIFICATION WanSpec
CONSTANTS
  Tokens = {t1}
  Storemen = {p1, p2}
  Users = {u1}
  XHashes = {h1, h2}
  Values = {1}
  Quotas = {1, 2}
  TxFeeRatios = {1}
  Prices = {4}
  DefaultPrecise = 2
  RevokeRatios = {1, 3}
  RatioPrecise = 2
  LockedTime = 1
SYMMETRY Interchangeable
INVARIANTS WanTypeOK PayableWithinDebt CountersMatchPending SupplyIsDebt CustodyCoversLocked WanCoversFees PendingGroupsExist DebtIsAlone
PROPERTIES HashesAreUsedOnce
