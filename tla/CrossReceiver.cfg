SPECIFICATION Spec
CONSTANTS
  Users = {u1}
  Storemen = {p1, p2, p3}
  XHashes = {h1, h2, h3, h4}
  Tokens <- OneToken
  Amounts = {1}
  Quotas = {2}
  Supply = 2
  MaxAmount = 2
  LockedTime = 1
  MaxPid = 2
  NoRow = NoRow
  SettlesFirst = FALSE
  Kinds = {"inbound", "debt"}
SYMMETRY Interchangeable
CONSTRAINT NothingLapses
INVARIANTS KeysInUseStay
