SPECIFICATION FairSpec
CONSTANTS
  Users = {u1}
  Storemen = {p1, p2}
  XHashes = {h1, h2}
  Tokens <- OneToken
  Amounts = {1}
  Quotas = {2}
  Supply = 2
  MaxAmount = 2
  LockedTime = 3
  MaxPid = 1
  NoRow = NoRow
  SettlesFirst = TRUE
  Kinds = {"inbound", "outbound", "debt"}
INVARIANTS EveryTokenIsBacked PublicSecretsPay
PROPERTIES SwapsAreAtomic SwapsEnd
