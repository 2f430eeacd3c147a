SPECIFICATION MCSpec
CONSTANTS
  Tokens = {t1}
  Storemen = {p1, p2}
  Users = {u1}
  XHashes = {h1}
  Values = {1}
  Quotas = {0, 1, 2}
  TxFeeRatios = {1, 2}
  Prices = {4, 6}
  DefaultPrecise = 2
  RevokeRatios = {1}
  RatioPrecise = 2
  LockedTime = 1
  Deposits = {2}
  MinDeposits = {2}
  Delays = {1}
  MaxDeposit = 4
  MaxContract = 1
  MaxWan = 6
INVARIANTS RecordsAgree DepositsAreHeld
PROPERTIES DepositsLeaveLast WholeIsHtlc EveryTxCloses
