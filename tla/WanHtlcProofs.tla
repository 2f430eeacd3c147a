---------------------------- MODULE WanHtlcProofs ----------------------------
(***************************************************************************)
(* What holds of WanHtlc for every set of storemen, users, hashes, tokens  *)
(* and values: the contracts' storage keeps its types, no group has more   *)
(* on its way back than it owes, and every hash is used once; the counters *)
(* of a group are its pending transactions, the tokens issued are what the *)
(* groups owe, and the contract holds the tokens and the wan to give.      *)
(***************************************************************************)
EXTENDS WanHtlc, Inductions

QuotaInv == QuotaTypeOK /\ PayableWithinDebt

(* A change of one group's row keeps the table right if the new row is.    *)
LEMMA OneQuotaChanges ==
  ASSUME QuotaInv, NEW t \in Tokens, NEW p \in Storemen,
         NEW q \in Quota, q.payable <= q.debt,
         quotas' = [quotas EXCEPT ![t][p] = q]
  PROVE  QuotaInv'
<1>1. quotas' \in [Tokens -> [Storemen -> Quota]]
  BY DEF QuotaInv, QuotaTypeOK
<1>2. ASSUME NEW u \in Tokens, NEW r \in Storemen
      PROVE  quotas'[u][r].payable <= quotas'[u][r].debt
  BY <1>2 DEF QuotaInv, QuotaTypeOK, PayableWithinDebt
<1> QED
  BY <1>1, <1>2 DEF QuotaInv, QuotaTypeOK, PayableWithinDebt

(* So does a change of the rows of two groups. *)
LEMMA TwoQuotasChange ==
  ASSUME QuotaInv, NEW t \in Tokens, NEW p \in Storemen, NEW r \in Storemen, p # r,
         NEW q \in Quota, q.payable <= q.debt,
         NEW s \in Quota, s.payable <= s.debt,
         quotas' = [quotas EXCEPT ![t][p] = q, ![t][r] = s]
  PROVE  QuotaInv'
<1>1. quotas' \in [Tokens -> [Storemen -> Quota]]
  BY DEF QuotaInv, QuotaTypeOK
<1>2. ASSUME NEW u \in Tokens, NEW o \in Storemen
      PROVE  quotas'[u][o].payable <= quotas'[u][o].debt
  BY <1>2 DEF QuotaInv, QuotaTypeOK, PayableWithinDebt
<1> QED
  BY <1>1, <1>2 DEF QuotaInv, QuotaTypeOK, PayableWithinDebt

LEMMA RowType ==
  ASSUME QuotaInv, NEW t \in Tokens, NEW p \in Storemen
  PROVE  quotas[t][p] \in Quota /\ quotas[t][p].payable <= quotas[t][p].debt
BY DEF QuotaInv, QuotaTypeOK, PayableWithinDebt

LEMMA OwingRow ==
  ASSUME NEW row \in Quota, NEW v \in Nat, row.payable <= row.debt, row.receivable >= v
  PROVE  Owing(row, v) \in Quota /\ Owing(row, v).payable <= Owing(row, v).debt
<1> DEFINE mid == [row EXCEPT !.receivable = @ - v]
<1>1. mid \in Quota /\ mid.debt = row.debt /\ mid.payable = row.payable
  BY DEF Quota
<1>2. Owing(row, v) = [mid EXCEPT !.debt = @ + v]
  BY DEF Owing, Quota
<1> HIDE DEF mid
<1> QED
  BY <1>1, <1>2 DEF Quota

LEMMA RelievedRow ==
  ASSUME NEW row \in Quota, NEW v \in Nat, row.payable <= row.debt, row.payable >= v
  PROVE  Relieved(row, v) \in Quota /\ Relieved(row, v).payable <= Relieved(row, v).debt
<1> DEFINE mid == [row EXCEPT !.debt = @ - v]
<1>1. mid \in Quota /\ mid.debt = row.debt - v /\ mid.payable = row.payable
  BY DEF Quota
<1>2. Relieved(row, v) = [mid EXCEPT !.payable = @ - v]
  BY DEF Relieved, Quota
<1> HIDE DEF mid
<1> QED
  BY <1>1, <1>2 DEF Quota

LEMMA InLockQuota ==
  ASSUME QuotaInv, NEW t \in Tokens, NEW p \in Storemen, NEW v \in Nat, QuotaInLock(t, p, v)
  PROVE  QuotaInv'
<1> DEFINE q == [quotas[t][p] EXCEPT !.receivable = @ + v]
<1>1. quotas' = [quotas EXCEPT ![t][p] = q]
  BY DEF QuotaInLock
<1>2. q \in Quota /\ q.payable <= q.debt
  BY RowType DEF Quota
<1> QED
  BY <1>1, <1>2, OneQuotaChanges

LEMMA InRevokeQuota ==
  ASSUME QuotaInv, NEW t \in Tokens, NEW p \in Storemen, NEW v \in Nat, QuotaInRevoke(t, p, v)
  PROVE  QuotaInv'
<1> DEFINE q == [quotas[t][p] EXCEPT !.receivable = @ - v]
<1>1. quotas' = [quotas EXCEPT ![t][p] = q]
  BY DEF QuotaInRevoke
<1>2. q \in Quota /\ q.payable <= q.debt
  BY RowType DEF Quota, QuotaInRevoke
<1> QED
  BY <1>1, <1>2, OneQuotaChanges

LEMMA InRedeemQuota ==
  ASSUME QuotaInv, NEW t \in Tokens, NEW p \in Storemen, NEW v \in Nat, QuotaInRedeem(t, p, v)
  PROVE  QuotaInv'
<1>1. quotas' = [quotas EXCEPT ![t][p] = Owing(quotas[t][p], v)]
  BY DEF QuotaInRedeem
<1>2. Owing(quotas[t][p], v) \in Quota
      /\ Owing(quotas[t][p], v).payable <= Owing(quotas[t][p], v).debt
  BY RowType, OwingRow DEF QuotaInRedeem
<1> QED
  BY <1>1, <1>2, OneQuotaChanges

LEMMA OutLockQuota ==
  ASSUME QuotaInv, NEW t \in Tokens, NEW p \in Storemen, NEW v \in Nat, QuotaOutLock(t, p, v)
  PROVE  QuotaInv'
<1> DEFINE q == [quotas[t][p] EXCEPT !.payable = @ + v]
<1>1. quotas' = [quotas EXCEPT ![t][p] = q]
  BY DEF QuotaOutLock
<1>2. q \in Quota /\ q.payable <= q.debt
  BY RowType DEF Quota, QuotaOutLock, OutboundRoom
<1> QED
  BY <1>1, <1>2, OneQuotaChanges

LEMMA OutRevokeQuota ==
  ASSUME QuotaInv, NEW t \in Tokens, NEW p \in Storemen, NEW v \in Nat, QuotaOutRevoke(t, p, v)
  PROVE  QuotaInv'
<1> DEFINE q == [quotas[t][p] EXCEPT !.payable = @ - v]
<1>1. quotas' = [quotas EXCEPT ![t][p] = q]
  BY DEF QuotaOutRevoke
<1>2. q \in Quota /\ q.payable <= q.debt
  BY RowType DEF Quota, QuotaOutRevoke
<1> QED
  BY <1>1, <1>2, OneQuotaChanges

LEMMA OutRedeemQuota ==
  ASSUME QuotaInv, NEW t \in Tokens, NEW p \in Storemen, NEW v \in Nat, QuotaOutRedeem(t, p, v)
  PROVE  QuotaInv'
<1>1. quotas' = [quotas EXCEPT ![t][p] = Relieved(quotas[t][p], v)]
  BY DEF QuotaOutRedeem
<1>2. Relieved(quotas[t][p], v) \in Quota
      /\ Relieved(quotas[t][p], v).payable <= Relieved(quotas[t][p], v).debt
  BY RowType, RelievedRow DEF QuotaOutRedeem
<1> QED
  BY <1>1, <1>2, OneQuotaChanges

LEMMA AddQuota ==
  ASSUME QuotaInv, NEW t \in Tokens, NEW p \in Storemen, NEW v \in Nat, NEW r \in Nat, QuotaAdd(t, p, v, r)
  PROVE  QuotaInv'
<1> DEFINE q == [quota |-> v, ratio |-> r, receivable |-> 0, payable |-> 0, debt |-> 0, active |-> TRUE]
<1>1. quotas' = [quotas EXCEPT ![t][p] = q]
  BY DEF QuotaAdd
<1>2. q \in Quota /\ q.payable <= q.debt
  BY DEF Quota
<1> QED
  BY <1>1, <1>2, OneQuotaChanges

LEMMA DeactivateQuota ==
  ASSUME QuotaInv, NEW t \in Tokens, NEW p \in Storemen, QuotaDeactivate(t, p)
  PROVE  QuotaInv'
<1> DEFINE q == [quotas[t][p] EXCEPT !.active = FALSE]
<1>1. quotas' = [quotas EXCEPT ![t][p] = q]
  BY DEF QuotaDeactivate
<1>2. q \in Quota /\ q.payable <= q.debt
  BY RowType DEF Quota
<1> QED
  BY <1>1, <1>2, OneQuotaChanges

LEMMA DelQuota ==
  ASSUME QuotaInv, NEW t \in Tokens, NEW p \in Storemen, QuotaDel(t, p)
  PROVE  QuotaInv'
<1> DEFINE q == NoQuota
<1>1. quotas' = [quotas EXCEPT ![t][p] = q]
  BY DEF QuotaDel
<1>2. q \in Quota /\ q.payable <= q.debt
  BY DEF Quota, NoQuota
<1> QED
  BY <1>1, <1>2, OneQuotaChanges

LEMMA UpdateQuota ==
  ASSUME QuotaInv, NEW t \in Tokens, NEW p \in Storemen, NEW v \in Nat, QuotaUpdate(t, p, v)
  PROVE  QuotaInv'
<1> DEFINE q == [quotas[t][p] EXCEPT !.quota = v]
<1>1. quotas' = [quotas EXCEPT ![t][p] = q]
  BY DEF QuotaUpdate
<1>2. q \in Quota /\ q.payable <= q.debt
  BY RowType DEF Quota
<1> QED
  BY <1>1, <1>2, OneQuotaChanges

LEMMA DebtLockQuota ==
  ASSUME QuotaInv, NEW t \in Tokens, NEW src \in Storemen, NEW dst \in Storemen,
         NEW v \in Nat, src # dst, QuotaDebtLock(t, v, src, dst)
  PROVE  QuotaInv'
<1> DEFINE q == [quotas[t][dst] EXCEPT !.receivable = @ + v]
           s == [quotas[t][src] EXCEPT !.payable = @ + v]
<1>1. quotas' = [quotas EXCEPT ![t][dst] = q, ![t][src] = s]
  BY RowType DEF QuotaDebtLock, Quota
<1>2. q \in Quota /\ q.payable <= q.debt
  BY RowType DEF Quota, QuotaDebtLock
<1>3. s \in Quota /\ s.payable <= s.debt
  BY RowType DEF Quota, QuotaDebtLock
<1> QED
  BY <1>1, <1>2, <1>3, TwoQuotasChange

LEMMA DebtRedeemQuota ==
  ASSUME QuotaInv, NEW t \in Tokens, NEW src \in Storemen, NEW dst \in Storemen,
         NEW v \in Nat, src # dst, QuotaDebtRedeem(t, v, src, dst)
  PROVE  QuotaInv'
<1> DEFINE q == Owing(quotas[t][dst], v)
           s == Relieved(quotas[t][src], v)
<1>1. quotas' = [quotas EXCEPT ![t][dst] = q, ![t][src] = s]
  BY DEF QuotaDebtRedeem, QuotaInv, QuotaTypeOK
<1>2. q \in Quota /\ q.payable <= q.debt
  BY RowType, OwingRow DEF QuotaDebtRedeem
<1>3. s \in Quota /\ s.payable <= s.debt
  BY RowType, RelievedRow DEF QuotaDebtRedeem
<1> QED
  BY <1>1, <1>2, <1>3, TwoQuotasChange

LEMMA DebtRevokeQuota ==
  ASSUME QuotaInv, NEW t \in Tokens, NEW src \in Storemen, NEW dst \in Storemen,
         NEW v \in Nat, src # dst, QuotaDebtRevoke(t, v, src, dst)
  PROVE  QuotaInv'
<1> DEFINE q == [quotas[t][dst] EXCEPT !.receivable = @ - v]
           s == [quotas[t][src] EXCEPT !.payable = @ - v]
<1>1. quotas' = [quotas EXCEPT ![t][dst] = q, ![t][src] = s]
  BY RowType DEF QuotaDebtRevoke, Quota
<1>2. q \in Quota /\ q.payable <= q.debt
  BY RowType DEF Quota, QuotaDebtRevoke
<1>3. s \in Quota /\ s.payable <= s.debt
  BY RowType DEF Quota, QuotaDebtRevoke
<1> QED
  BY <1>1, <1>2, <1>3, TwoQuotasChange

-----------------------------------------------------------------------------
(* The tables of transactions: for rows of any kind, a lock, a redeem, a   *)
(* revoke and the passing of time keep the table typed and are OneWay.     *)

LEMMA SameTable ==
  ASSUME NEW table
  PROVE  OneWay(table, table)
BY DEF OneWay

LEMMA OpenTable ==
  ASSUME NEW Row, NEW table \in [XHashes -> Row \cup {NoTx}], NEW x \in XHashes,
         NEW tx \in Row, table[x] = NoTx, tx # NoTx
  PROVE  /\ [table EXCEPT ![x] = tx] \in [XHashes -> Row \cup {NoTx}]
         /\ OneWay(table, [table EXCEPT ![x] = tx])
BY DEF OneWay, NoTx

LEMMA CloseTable ==
  ASSUME NEW Row, NEW table \in [XHashes -> Row \cup {NoTx}], NEW x \in XHashes,
         IsLocked(table, x), NEW s \in {"Redeemed", "Revoked"},
         \A r \in Row : /\ [r EXCEPT !.status = s] \in Row
                        /\ [r EXCEPT !.status = s].status = s
  PROVE  /\ Close(table, x, s) \in [XHashes -> Row \cup {NoTx}]
         /\ OneWay(table, Close(table, x, s))
<1>1. table[x] \in Row /\ table[x].status = "Locked"
  BY DEF IsLocked, NoTx
<1> DEFINE tx == [table[x] EXCEPT !.status = s]
<1>2. tx \in Row /\ tx.status = s
  BY <1>1
<1>3. Close(table, x, s) = [table EXCEPT ![x] = tx]
  BY DEF Close
<1> HIDE DEF tx
<1>4. [table EXCEPT ![x] = tx] \in [XHashes -> Row \cup {NoTx}]
  BY <1>2
<1>5. tx # NoTx
  BY <1>2 DEF NoTx
<1>6. OneWay(table, [table EXCEPT ![x] = tx])
  BY <1>1, <1>2, <1>5 DEF OneWay
<1> QED
  BY <1>3, <1>4, <1>6

LEMMA AgedTable ==
  ASSUME NEW Row, NEW table \in [XHashes -> Row \cup {NoTx}],
         \A r \in Row : /\ r # NoTx
                        /\ Older(r) \in Row
                        /\ Older(r).status = r.status
  PROVE  /\ Aged(table) \in [XHashes -> Row \cup {NoTx}]
         /\ OneWay(table, Aged(table))
<1>1. Older(NoTx) = NoTx
  BY DEF Older
<1>2. \A r \in Row \cup {NoTx} : /\ Older(r) \in Row \cup {NoTx}
                                 /\ r # NoTx => Older(r) # NoTx
                                 /\ Older(r).status = r.status
  BY <1>1
<1> QED
  BY <1>2 DEF Aged, OneWay

(* The three kinds of rows meet what the lemmas above ask of them. *)
LEMMA RowsClose ==
  ASSUME NEW s \in {"Redeemed", "Revoked"}
  PROVE  /\ \A r \in UserTx : [r EXCEPT !.status = s] \in UserTx
                              /\ [r EXCEPT !.status = s].status = s
         /\ \A r \in SmgTx : [r EXCEPT !.status = s] \in SmgTx
                             /\ [r EXCEPT !.status = s].status = s
         /\ \A r \in DebtTx : [r EXCEPT !.status = s] \in DebtTx
                              /\ [r EXCEPT !.status = s].status = s
BY DEF UserTx, SmgTx, DebtTx, Status

LEMMA RowsAge ==
  /\ \A r \in UserTx : r # NoTx /\ Older(r) \in UserTx /\ Older(r).status = r.status
  /\ \A r \in SmgTx : r # NoTx /\ Older(r) \in SmgTx /\ Older(r).status = r.status
  /\ \A r \in DebtTx : r # NoTx /\ Older(r) \in DebtTx /\ Older(r).status = r.status
                       /\ Older(r).src = r.src /\ Older(r).storeman = r.storeman
<1>1. LockedTime \in Nat
  BY WanConstants
<1>2. \A r \in UserTx : r # NoTx
  BY DEF UserTx, NoTx, Status
<1>3. \A r \in SmgTx : r # NoTx
  BY DEF SmgTx, NoTx, Status
<1>4. \A r \in DebtTx : r # NoTx
  BY DEF DebtTx, NoTx, Status
<1>5. \A r \in UserTx : Older(r) \in UserTx /\ Older(r).status = r.status
  BY <1>1, <1>2 DEF Older, UserTx, TimeLeft
<1>6. \A r \in SmgTx : Older(r) \in SmgTx /\ Older(r).status = r.status
  BY <1>1, <1>3 DEF Older, SmgTx, TimeLeft
<1>7. \A r \in DebtTx : Older(r) \in DebtTx /\ Older(r).status = r.status
                        /\ Older(r).src = r.src /\ Older(r).storeman = r.storeman
  BY <1>1, <1>4 DEF Older, DebtTx, TimeLeft
<1> QED
  BY <1>2, <1>3, <1>4, <1>5, <1>6, <1>7

-----------------------------------------------------------------------------
(* The inductive invariant.  A debt is between two groups: without it a    *)
(* redeem or a revoke of a debt could not be told to change two rows.      *)

TablesOK ==
  /\ userTxs \in [XHashes -> UserTx \cup {NoTx}]
  /\ smgTxs \in [XHashes -> SmgTx \cup {NoTx}]
  /\ debtTxs \in [XHashes -> DebtTx \cup {NoTx}]

MoneyOK ==
  /\ xHashFee \in [XHashes -> Nat]
  /\ storemanFee \in [Storemen -> Nat]
  /\ revokeRatio \in 0..RatioPrecise
  /\ initialized \in BOOLEAN
  /\ halted \in BOOLEAN
  /\ supply \in [Tokens -> Nat]
  /\ custody \in [Tokens -> Nat]
  /\ wan \in Nat

DistinctParties == \A x \in XHashes : debtTxs[x] # NoTx => debtTxs[x].src # debtTxs[x].storeman

WanInv == QuotaInv /\ TablesOK /\ MoneyOK /\ DistinctParties

Forward == OneWay(userTxs, userTxs') /\ OneWay(smgTxs, smgTxs') /\ OneWay(debtTxs, debtTxs')

LEMMA WanInvParts == WanInv <=> WanTypeOK /\ PayableWithinDebt /\ DistinctParties
BY DEF WanInv, WanTypeOK, QuotaInv, TablesOK, MoneyOK

LEMMA LockedSmg ==
  ASSUME WanInv, NEW x \in XHashes, IsLocked(smgTxs, x)
  PROVE  smgTxs[x] \in SmgTx /\ smgTxs[x].value \in Nat
         /\ smgTxs[x].token \in Tokens /\ smgTxs[x].storeman \in Storemen
BY DEF WanInv, TablesOK, IsLocked, NoTx, SmgTx

LEMMA LockedUser ==
  ASSUME WanInv, NEW x \in XHashes, IsLocked(userTxs, x)
  PROVE  userTxs[x] \in UserTx /\ userTxs[x].value \in Nat
         /\ userTxs[x].token \in Tokens /\ userTxs[x].storeman \in Storemen
BY DEF WanInv, TablesOK, IsLocked, NoTx, UserTx

LEMMA LockedDebt ==
  ASSUME WanInv, NEW x \in XHashes, IsLocked(debtTxs, x)
  PROVE  debtTxs[x] \in DebtTx /\ debtTxs[x].value \in Nat /\ debtTxs[x].token \in Tokens
         /\ debtTxs[x].storeman \in Storemen /\ debtTxs[x].src \in Storemen
         /\ debtTxs[x].src # debtTxs[x].storeman
BY DEF WanInv, TablesOK, DistinctParties, IsLocked, NoTx, DebtTx

(* A step that touches one table only, or none. *)
LEMMA OnlySmgTxs ==
  ASSUME WanInv, UNCHANGED <<userTxs, debtTxs>>,
         smgTxs' \in [XHashes -> SmgTx \cup {NoTx}], OneWay(smgTxs, smgTxs')
  PROVE  TablesOK' /\ DistinctParties' /\ Forward
BY SameTable DEF WanInv, TablesOK, DistinctParties, Forward

LEMMA OnlyUserTxs ==
  ASSUME WanInv, UNCHANGED <<smgTxs, debtTxs>>,
         userTxs' \in [XHashes -> UserTx \cup {NoTx}], OneWay(userTxs, userTxs')
  PROVE  TablesOK' /\ DistinctParties' /\ Forward
BY SameTable DEF WanInv, TablesOK, DistinctParties, Forward

LEMMA OnlyDebtTxs ==
  ASSUME WanInv, UNCHANGED <<userTxs, smgTxs>>, DistinctParties',
         debtTxs' \in [XHashes -> DebtTx \cup {NoTx}], OneWay(debtTxs, debtTxs')
  PROVE  TablesOK' /\ DistinctParties' /\ Forward
BY SameTable DEF WanInv, TablesOK, Forward

LEMMA NoTxs ==
  ASSUME WanInv, UNCHANGED <<userTxs, smgTxs, debtTxs>>
  PROVE  TablesOK' /\ DistinctParties' /\ Forward
BY SameTable DEF WanInv, TablesOK, DistinctParties, Forward

LEMMA SameQuotas ==
  ASSUME QuotaInv, UNCHANGED quotas
  PROVE  QuotaInv'
BY DEF QuotaInv, QuotaTypeOK, PayableWithinDebt

-----------------------------------------------------------------------------
(* Inbound *)

LEMMA InSmgLockStep ==
  ASSUME WanInv, NEW u \in Users, NEW t \in Tokens, NEW v \in Values, NEW x \in XHashes,
         NEW p \in Storemen, InSmgLock(u, t, v, x, p)
  PROVE  WanInv' /\ Forward
<1> DEFINE tx == [status |-> "Locked", value |-> v, storeman |-> p, token |-> t,
                  user |-> u, timeLeft |-> SmgLockTime]
<1>1. v \in Nat /\ SmgLockTime \in TimeLeft
  BY WanConstants DEF TimeLeft, SmgLockTime
<1>2. QuotaInv'
  BY <1>1, InLockQuota DEF WanInv, InSmgLock
<1>3. tx \in SmgTx /\ tx # NoTx
  BY <1>1 DEF SmgTx, NoTx, Status
<1>4. smgTxs' = [smgTxs EXCEPT ![x] = tx] /\ smgTxs[x] = NoTx /\ UNCHANGED <<userTxs, debtTxs>>
  BY DEF InSmgLock
<1> HIDE DEF tx
<1>5. smgTxs' \in [XHashes -> SmgTx \cup {NoTx}] /\ OneWay(smgTxs, smgTxs')
  BY <1>3, <1>4, OpenTable DEF WanInv, TablesOK
<1>6. TablesOK' /\ DistinctParties' /\ Forward
  BY <1>4, <1>5, OnlySmgTxs
<1>7. MoneyOK'
  BY DEF WanInv, MoneyOK, InSmgLock
<1> QED
  BY <1>2, <1>6, <1>7 DEF WanInv

LEMMA InUserRedeemStep ==
  ASSUME WanInv, NEW u \in Users, NEW x \in XHashes, InUserRedeem(u, x)
  PROVE  WanInv' /\ Forward
<1>1. IsLocked(smgTxs, x) /\ smgTxs' = Close(smgTxs, x, "Redeemed") /\ UNCHANGED <<userTxs, debtTxs>>
  BY DEF InUserRedeem
<1>2. QuotaInv'
  BY <1>1, LockedSmg, InRedeemQuota DEF WanInv, InUserRedeem
<1>3. smgTxs' \in [XHashes -> SmgTx \cup {NoTx}] /\ OneWay(smgTxs, smgTxs')
  BY <1>1, CloseTable, RowsClose DEF WanInv, TablesOK
<1>4. TablesOK' /\ DistinctParties' /\ Forward
  BY <1>1, <1>3, OnlySmgTxs
<1>5. MoneyOK'
  BY <1>1, LockedSmg DEF WanInv, MoneyOK, InUserRedeem
<1> QED
  BY <1>2, <1>4, <1>5 DEF WanInv

LEMMA InSmgRevokeStep ==
  ASSUME WanInv, NEW x \in XHashes, InSmgRevoke(x)
  PROVE  WanInv' /\ Forward
<1>1. IsLocked(smgTxs, x) /\ smgTxs' = Close(smgTxs, x, "Revoked") /\ UNCHANGED <<userTxs, debtTxs>>
  BY DEF InSmgRevoke
<1>2. QuotaInv'
  BY <1>1, LockedSmg, InRevokeQuota DEF WanInv, InSmgRevoke
<1>3. smgTxs' \in [XHashes -> SmgTx \cup {NoTx}] /\ OneWay(smgTxs, smgTxs')
  BY <1>1, CloseTable, RowsClose DEF WanInv, TablesOK
<1>4. TablesOK' /\ DistinctParties' /\ Forward
  BY <1>1, <1>3, OnlySmgTxs
<1>5. MoneyOK'
  BY DEF WanInv, MoneyOK, InSmgRevoke
<1> QED
  BY <1>2, <1>4, <1>5 DEF WanInv

-----------------------------------------------------------------------------
(* Outbound *)

LEMMA FeeType ==
  ASSUME WanInv, NEW t \in Tokens, NEW p \in Storemen, NEW v \in Nat,
         NEW price \in Prices
  PROVE  OutboundFee(t, p, v, price) \in Nat
<1>1. quotas[t][p].ratio \in Nat
  BY RowType DEF WanInv, Quota
<1>2. price \in Nat /\ DefaultPrecise \in Nat \ {0}
  BY WanConstants
<1>3. v * price * quotas[t][p].ratio \in Nat
  BY <1>1, <1>2
<1> DEFINE n == v * price * quotas[t][p].ratio
<1> HIDE DEF n
<1>4. n \in Nat => (n \div DefaultPrecise) \div DefaultPrecise \in Nat
  BY <1>2
<1> QED
  BY <1>3, <1>4 DEF OutboundFee, n

LEMMA OutUserLockStep ==
  ASSUME WanInv, NEW u \in Users, NEW t \in Tokens, NEW v \in Values, NEW x \in XHashes,
         NEW p \in Storemen, NEW price \in Prices, OutUserLock(u, t, v, x, p, price)
  PROVE  WanInv' /\ Forward
<1> DEFINE tx == [status |-> "Locked", value |-> v, storeman |-> p, token |-> t,
                  sender |-> u, timeLeft |-> UserLockTime]
<1>1. v \in Nat /\ UserLockTime \in TimeLeft
  BY WanConstants DEF TimeLeft, UserLockTime
<1>2. QuotaInv'
  BY <1>1, OutLockQuota DEF WanInv, OutUserLock
<1>3. tx \in UserTx /\ tx # NoTx
  BY <1>1 DEF UserTx, NoTx, Status
<1>4. userTxs' = [userTxs EXCEPT ![x] = tx] /\ userTxs[x] = NoTx /\ UNCHANGED <<smgTxs, debtTxs>>
  BY DEF OutUserLock
<1> HIDE DEF tx
<1>5. userTxs' \in [XHashes -> UserTx \cup {NoTx}] /\ OneWay(userTxs, userTxs')
  BY <1>3, <1>4, OpenTable DEF WanInv, TablesOK
<1>6. TablesOK' /\ DistinctParties' /\ Forward
  BY <1>4, <1>5, OnlyUserTxs
<1>7. OutboundFee(t, p, v, price) \in Nat
  BY <1>1, FeeType
<1>8. MoneyOK'
  BY <1>1, <1>7 DEF WanInv, MoneyOK, OutUserLock
<1> QED
  BY <1>2, <1>6, <1>8 DEF WanInv

LEMMA OutSmgRedeemStep ==
  ASSUME WanInv, NEW x \in XHashes, OutSmgRedeem(x)
  PROVE  WanInv' /\ Forward
<1>1. IsLocked(userTxs, x) /\ userTxs' = Close(userTxs, x, "Redeemed") /\ UNCHANGED <<smgTxs, debtTxs>>
  BY DEF OutSmgRedeem
<1>2. QuotaInv'
  BY <1>1, LockedUser, OutRedeemQuota DEF WanInv, OutSmgRedeem
<1>3. userTxs' \in [XHashes -> UserTx \cup {NoTx}] /\ OneWay(userTxs, userTxs')
  BY <1>1, CloseTable, RowsClose DEF WanInv, TablesOK
<1>4. TablesOK' /\ DistinctParties' /\ Forward
  BY <1>1, <1>3, OnlyUserTxs
<1>5. MoneyOK'
  BY <1>1, LockedUser DEF WanInv, MoneyOK, OutSmgRedeem, EarnFee
<1> QED
  BY <1>2, <1>4, <1>5 DEF WanInv

LEMMA RevokeFeeType ==
  ASSUME WanInv, NEW x \in XHashes
  PROVE  RevokeFee(x) \in Nat
<1>1. xHashFee[x] \in Nat /\ revokeRatio \in Nat /\ RatioPrecise \in Nat \ {0}
  BY WanConstants DEF WanInv, MoneyOK
<1>2. xHashFee[x] * revokeRatio \in Nat
  BY <1>1
<1> QED
  BY <1>1, <1>2 DEF RevokeFee

LEMMA OutUserRevokeStep ==
  ASSUME WanInv, NEW x \in XHashes, OutUserRevoke(x)
  PROVE  WanInv' /\ Forward
<1>1. IsLocked(userTxs, x) /\ userTxs' = Close(userTxs, x, "Revoked") /\ UNCHANGED <<smgTxs, debtTxs>>
  BY DEF OutUserRevoke
<1>2. QuotaInv'
  BY <1>1, LockedUser, OutRevokeQuota DEF WanInv, OutUserRevoke
<1>3. userTxs' \in [XHashes -> UserTx \cup {NoTx}] /\ OneWay(userTxs, userTxs')
  BY <1>1, CloseTable, RowsClose DEF WanInv, TablesOK
<1>4. TablesOK' /\ DistinctParties' /\ Forward
  BY <1>1, <1>3, OnlyUserTxs
<1>5. MoneyOK'
  BY <1>1, LockedUser, RevokeFeeType DEF WanInv, MoneyOK, OutUserRevoke, EarnFee
<1> QED
  BY <1>2, <1>4, <1>5 DEF WanInv

LEMMA SmgWithdrawFeeStep ==
  ASSUME WanInv, NEW p \in Storemen, SmgWithdrawFee(p)
  PROVE  WanInv' /\ Forward
<1>1. QuotaInv' /\ TablesOK' /\ DistinctParties' /\ Forward
  BY SameQuotas, NoTxs DEF WanInv, SmgWithdrawFee
<1>2. MoneyOK'
  BY DEF WanInv, MoneyOK, SmgWithdrawFee
<1> QED
  BY <1>1, <1>2 DEF WanInv

LEMMA TransferToHtlcStep ==
  ASSUME WanInv, NEW t \in Tokens, NEW v \in Values, TransferToHtlc(t, v)
  PROVE  WanInv' /\ Forward
<1>1. QuotaInv' /\ TablesOK' /\ DistinctParties' /\ Forward
  BY SameQuotas, NoTxs DEF WanInv, TransferToHtlc
<1>2. MoneyOK'
  BY WanConstants DEF WanInv, MoneyOK, TransferToHtlc
<1> QED
  BY <1>1, <1>2 DEF WanInv

-----------------------------------------------------------------------------
(* Debt *)

LEMMA InDebtLockStep ==
  ASSUME WanInv, NEW t \in Tokens, NEW x \in XHashes, NEW src \in Storemen, NEW v \in Values,
         NEW dst \in Storemen, InDebtLock(t, x, src, v, dst)
  PROVE  WanInv' /\ Forward
<1> DEFINE tx == [status |-> "Locked", value |-> v, storeman |-> dst, token |-> t,
                  src |-> src, timeLeft |-> SmgLockTime]
<1>1. v \in Nat /\ SmgLockTime \in TimeLeft
  BY WanConstants DEF TimeLeft, SmgLockTime
<1>2. src # dst
  BY DEF InDebtLock, QuotaDebtLock, NotActive, IsActive
<1>3. QuotaInv'
  BY <1>1, <1>2, DebtLockQuota DEF WanInv, InDebtLock
<1>4. tx \in DebtTx /\ tx # NoTx /\ tx.src # tx.storeman
  BY <1>1, <1>2 DEF DebtTx, NoTx, Status
<1>5. debtTxs' = [debtTxs EXCEPT ![x] = tx] /\ debtTxs[x] = NoTx /\ UNCHANGED <<userTxs, smgTxs>>
  BY DEF InDebtLock
<1> HIDE DEF tx
<1>6. debtTxs' \in [XHashes -> DebtTx \cup {NoTx}] /\ OneWay(debtTxs, debtTxs')
  BY <1>4, <1>5, OpenTable DEF WanInv, TablesOK
<1>7. DistinctParties'
  BY <1>4, <1>5 DEF WanInv, TablesOK, DistinctParties
<1>8. TablesOK' /\ DistinctParties' /\ Forward
  BY <1>5, <1>6, <1>7, OnlyDebtTxs
<1>9. MoneyOK'
  BY DEF WanInv, MoneyOK, InDebtLock
<1> QED
  BY <1>3, <1>8, <1>9 DEF WanInv

LEMMA ClosedDebt ==
  ASSUME WanInv, NEW x \in XHashes, IsLocked(debtTxs, x), NEW s \in {"Redeemed", "Revoked"},
         debtTxs' = Close(debtTxs, x, s), UNCHANGED <<userTxs, smgTxs>>
  PROVE  TablesOK' /\ DistinctParties' /\ Forward
<1>1. debtTxs' \in [XHashes -> DebtTx \cup {NoTx}] /\ OneWay(debtTxs, debtTxs')
  BY CloseTable, RowsClose DEF WanInv, TablesOK
<1>2. DistinctParties'
  BY LockedDebt DEF WanInv, TablesOK, DistinctParties, Close, DebtTx
<1> QED
  BY <1>1, <1>2, OnlyDebtTxs

LEMMA InDebtRedeemStep ==
  ASSUME WanInv, NEW x \in XHashes, InDebtRedeem(x)
  PROVE  WanInv' /\ Forward
<1>1. IsLocked(debtTxs, x) /\ debtTxs' = Close(debtTxs, x, "Redeemed") /\ UNCHANGED <<userTxs, smgTxs>>
  BY DEF InDebtRedeem
<1>2. QuotaInv'
  BY <1>1, LockedDebt, DebtRedeemQuota DEF WanInv, InDebtRedeem
<1>3. TablesOK' /\ DistinctParties' /\ Forward
  BY <1>1, ClosedDebt
<1>4. MoneyOK'
  BY DEF WanInv, MoneyOK, InDebtRedeem
<1> QED
  BY <1>2, <1>3, <1>4 DEF WanInv

LEMMA InDebtRevokeStep ==
  ASSUME WanInv, NEW x \in XHashes, InDebtRevoke(x)
  PROVE  WanInv' /\ Forward
<1>1. IsLocked(debtTxs, x) /\ debtTxs' = Close(debtTxs, x, "Revoked") /\ UNCHANGED <<userTxs, smgTxs>>
  BY DEF InDebtRevoke
<1>2. QuotaInv'
  BY <1>1, LockedDebt, DebtRevokeQuota DEF WanInv, InDebtRevoke
<1>3. TablesOK' /\ DistinctParties' /\ Forward
  BY <1>1, ClosedDebt
<1>4. MoneyOK'
  BY DEF WanInv, MoneyOK, InDebtRevoke
<1> QED
  BY <1>2, <1>3, <1>4 DEF WanInv

-----------------------------------------------------------------------------
(* The owner, the group admin and time *)

LEMMA AdminStep ==
  ASSUME WanInv, AdminNext
  PROVE  WanInv' /\ Forward
<1>1. ASSUME NEW r \in RevokeRatios, SetEconomics(r)
      PROVE  WanInv' /\ Forward
  <2>1. QuotaInv' /\ TablesOK' /\ DistinctParties' /\ Forward
    BY <1>1, SameQuotas, NoTxs DEF WanInv, SetEconomics, htlcVars
  <2>2. MoneyOK'
    BY <1>1, WanConstants DEF WanInv, MoneyOK, SetEconomics, htlcVars
  <2> QED
    BY <2>1, <2>2 DEF WanInv
<1>2. ASSUME NEW h \in BOOLEAN, SetHalt(h)
      PROVE  WanInv' /\ Forward
  <2>1. QuotaInv' /\ TablesOK' /\ DistinctParties' /\ Forward
    BY <1>2, SameQuotas, NoTxs DEF WanInv, SetHalt, htlcVars
  <2>2. MoneyOK'
    BY <1>2 DEF WanInv, MoneyOK, SetHalt, htlcVars
  <2> QED
    BY <2>1, <2>2 DEF WanInv
<1>3. ASSUME NEW t \in Tokens, NEW p \in Storemen, NEW q \in Quotas, NEW r \in TxFeeRatios,
             AddStoremanGroup(t, p, q, r)
      PROVE  WanInv' /\ Forward
  <2>1. QuotaInv'
    BY <1>3, AddQuota, WanConstants DEF WanInv, AddStoremanGroup
  <2>2. TablesOK' /\ DistinctParties' /\ Forward
    BY <1>3, NoTxs DEF AddStoremanGroup, htlcVars
  <2>3. MoneyOK'
    BY <1>3 DEF WanInv, MoneyOK, AddStoremanGroup, htlcVars
  <2> QED
    BY <2>1, <2>2, <2>3 DEF WanInv
<1>4. ASSUME NEW t \in Tokens, NEW p \in Storemen, DeactivateStoremanGroup(t, p)
      PROVE  WanInv' /\ Forward
  <2>1. QuotaInv'
    BY <1>4, DeactivateQuota DEF WanInv, DeactivateStoremanGroup
  <2>2. TablesOK' /\ DistinctParties' /\ Forward
    BY <1>4, NoTxs DEF DeactivateStoremanGroup, htlcVars
  <2>3. MoneyOK'
    BY <1>4 DEF WanInv, MoneyOK, DeactivateStoremanGroup, htlcVars
  <2> QED
    BY <2>1, <2>2, <2>3 DEF WanInv
<1>5. ASSUME NEW t \in Tokens, NEW p \in Storemen, DelStoremanGroup(t, p)
      PROVE  WanInv' /\ Forward
  <2>1. QuotaInv'
    BY <1>5, DelQuota DEF WanInv, DelStoremanGroup
  <2>2. TablesOK' /\ DistinctParties' /\ Forward
    BY <1>5, NoTxs DEF DelStoremanGroup, htlcVars
  <2>3. MoneyOK'
    BY <1>5 DEF WanInv, MoneyOK, DelStoremanGroup, htlcVars
  <2> QED
    BY <2>1, <2>2, <2>3 DEF WanInv
<1>6. ASSUME NEW t \in Tokens, NEW p \in Storemen, NEW q \in Quotas, UpdateStoremanGroup(t, p, q)
      PROVE  WanInv' /\ Forward
  <2>1. QuotaInv'
    BY <1>6, UpdateQuota, WanConstants DEF WanInv, UpdateStoremanGroup
  <2>2. TablesOK' /\ DistinctParties' /\ Forward
    BY <1>6, NoTxs DEF UpdateStoremanGroup, htlcVars
  <2>3. MoneyOK'
    BY <1>6 DEF WanInv, MoneyOK, UpdateStoremanGroup, htlcVars
  <2> QED
    BY <2>1, <2>2, <2>3 DEF WanInv
<1> QED
  BY <1>1, <1>2, <1>3, <1>4, <1>5, <1>6 DEF AdminNext

LEMMA WanTickStep ==
  ASSUME WanInv, WanTick
  PROVE  WanInv' /\ Forward
<1>1. QuotaInv' /\ MoneyOK'
  BY SameQuotas DEF WanInv, MoneyOK, WanTick
<1>2. TablesOK' /\ Forward
  BY AgedTable, RowsAge DEF WanInv, TablesOK, WanTick, Forward
<1>3. DistinctParties'
  <2>1. Older(NoTx) = NoTx
    BY DEF Older
  <2> QED
    BY <2>1, RowsAge DEF WanInv, TablesOK, DistinctParties, WanTick, Aged
<1> QED
  BY <1>1, <1>2, <1>3 DEF WanInv

LEMMA WanInitInv == WanInit => WanInv
<1> SUFFICES ASSUME WanInit PROVE WanInv
  OBVIOUS
<1>1. NoQuota \in Quota /\ NoQuota.payable <= NoQuota.debt
  BY DEF NoQuota, Quota
<1>2. QuotaInv
  BY <1>1 DEF WanInit, QuotaInit, QuotaInv, QuotaTypeOK, PayableWithinDebt
<1>3. TablesOK /\ DistinctParties
  BY DEF WanInit, TablesOK, DistinctParties
<1>4. MoneyOK
  <2>1. xHashFee \in [XHashes -> Nat] /\ storemanFee \in [Storemen -> Nat]
    BY DEF WanInit
  <2>2. supply \in [Tokens -> Nat] /\ custody \in [Tokens -> Nat] /\ wan \in Nat
    BY DEF WanInit
  <2>3. revokeRatio \in 0..RatioPrecise
    BY WanConstants DEF WanInit
  <2>4. initialized \in BOOLEAN /\ halted \in BOOLEAN
    BY DEF WanInit
  <2> QED
    BY <2>1, <2>2, <2>3, <2>4 DEF MoneyOK
<1> QED
  BY <1>2, <1>3, <1>4 DEF WanInv

LEMMA WanNextInv == WanInv /\ [WanNext]_wanVars => WanInv' /\ Forward
<1> SUFFICES ASSUME WanInv, [WanNext]_wanVars PROVE WanInv' /\ Forward
  OBVIOUS
<1>1. CASE InboundNext
  BY <1>1, InSmgLockStep, InUserRedeemStep, InSmgRevokeStep DEF InboundNext
<1>2. CASE OutboundNext
  BY <1>2, OutUserLockStep, OutSmgRedeemStep, OutUserRevokeStep, SmgWithdrawFeeStep,
     TransferToHtlcStep DEF OutboundNext
<1>3. CASE DebtNext
  BY <1>3, InDebtLockStep, InDebtRedeemStep, InDebtRevokeStep DEF DebtNext
<1>4. CASE AdminNext
  BY <1>4, AdminStep
<1>5. CASE WanTick
  BY <1>5, WanTickStep
<1>6. CASE UNCHANGED wanVars
  <2>1. QuotaInv' /\ TablesOK' /\ DistinctParties' /\ Forward
    BY <1>6, SameQuotas, NoTxs DEF WanInv, wanVars
  <2>2. MoneyOK'
    BY <1>6 DEF WanInv, MoneyOK, wanVars
  <2> QED
    BY <2>1, <2>2 DEF WanInv
<1> QED
  BY <1>1, <1>2, <1>3, <1>4, <1>5, <1>6 DEF WanNext

LEMMA WanInvariant == WanSpec => []WanInv
<1>1. WanInit => WanInv
  BY WanInitInv
<1>2. WanInv /\ [WanNext]_wanVars => WanInv'
  BY WanNextInv
<1> QED
  BY <1>1, <1>2, PTL DEF WanSpec

(* Every table and counter of the Wanchain contracts keeps its type: no    *)
(* SafeMath subtraction in a redeem or a revoke leaves a negative counter. *)
THEOREM WanTypesHold == WanSpec => []WanTypeOK
<1>1. WanInv => WanTypeOK
  BY WanInvParts
<1> QED
  BY <1>1, WanInvariant, PTL

(* No storeman group has more tokens on their way back than it owes, for   *)
(* any groups, tokens, values and quotas, and however the admin changes    *)
(* quotas and deactivates groups meanwhile.                                *)
THEOREM PayableStaysWithinDebt == WanSpec => []PayableWithinDebt
<1>1. WanInv => PayableWithinDebt
  BY WanInvParts
<1> QED
  BY <1>1, WanInvariant, PTL

(* No hash is locked twice in a table and no settled transaction comes     *)
(* back: a redeem and a revoke of the same lock exclude each other.        *)
THEOREM HashesOnce == WanSpec => HashesAreUsedOnce
<1>1. WanInv /\ [WanNext]_wanVars =>
        [OneWay(userTxs, userTxs') /\ OneWay(smgTxs, smgTxs') /\ OneWay(debtTxs, debtTxs')]_wanVars
  BY WanNextInv DEF Forward
<1> QED
  BY <1>1, WanInvariant, PTL DEF WanSpec, HashesAreUsedOnce

-----------------------------------------------------------------------------
(* Sums over all transactions, rather than over those of some kind. *)

ValuesOf(table, xs) == [x \in XHashes |-> IF x \in xs THEN table[x].value ELSE 0]

LEMMA ValueIsSum ==
  ASSUME NEW table, NEW xs, IsFiniteSet(xs)
  PROVE  Value(table, xs) = SumOf([x \in xs |-> table[x].value], xs)
<1> DEFINE f == [x \in xs |-> table[x].value]
           body(it) == [s \in SUBSET xs |->
                          IF s = {} THEN 0
                          ELSE table[AnyOf(s)].value + it[s \ {AnyOf(s)}]]
           sol == CHOOSE it : it = body(it)
<1>1. ASSUME NEW it PROVE it = body(it) <=> Recursion(f, xs, it)
  <2>1. \A s \in SUBSET xs : s # {} => f[AnyOf(s)] = table[AnyOf(s)].value
    BY DEF AnyOf
  <2> HIDE DEF f
  <2> QED
    BY <2>1 DEF Recursion
<1>2. Value(table, xs) = sol[xs]
  BY DEF Value, MapThenSumSet, MapThenFoldSet, AnyOf
<1> HIDE DEF f, body
<1>3. \E it : it = body(it)
  BY <1>1, RecursionExists
<1>4. sol = body(sol)
  BY <1>3, Zenon
<1>5. Recursion(f, xs, sol)
  BY <1>1, <1>4
<1> QED
  BY <1>2, <1>5, SolvedIsSum DEF f

LEMMA ValueIsCounted ==
  ASSUME IsFiniteSet(XHashes), NEW table, NEW xs \in SUBSET XHashes,
         \A x \in xs : table[x].value \in Nat
  PROVE  /\ Counts(ValuesOf(table, xs), XHashes)
         /\ Value(table, xs) = SumOf(ValuesOf(table, xs), XHashes)
         /\ Value(table, xs) \in Nat
         /\ \A x \in xs : Value(table, xs) >= table[x].value
<1> DEFINE g == [x \in xs |-> table[x].value]
           f == ValuesOf(table, xs)
<1>1. IsFiniteSet(xs)
  BY FS_Subset
<1>2. /\ Counts(f, XHashes) /\ Counts(g, xs)
      /\ \A x \in xs : g[x] = f[x] /\ g[x] = table[x].value
      /\ \A x \in XHashes \ xs : f[x] = 0
  BY <1>1 DEF ValuesOf, Counts
<1>3. Value(table, xs) = SumOf(g, xs)
  BY <1>1, ValueIsSum
<1> HIDE DEF f, g
<1>4. SumOf(g, xs) = SumOf(f, XHashes)
  BY <1>2, SumSupport
<1>5. SumOf(g, xs) \in Nat
  BY <1>2, SumStep
<1>6. ASSUME NEW x \in xs
      PROVE  SumOf(g, xs) >= table[x].value
  <2>1. SumOf(g, xs) = g[x] + SumOf(g, xs \ {x})
    BY <1>2, SumStep
  <2>2. Counts(g, xs \ {x})
    BY <1>2, FS_Subset DEF Counts
  <2>3. SumOf(g, xs \ {x}) \in Nat
    BY <2>2, SumStep
  <2> QED
    BY <1>2, <2>1, <2>3
<1> QED
  BY <1>2, <1>3, <1>4, <1>5, <1>6 DEF f

(* How a sum changes when one transaction does. *)
LEMMA ValueUpdate ==
  ASSUME IsFiniteSet(XHashes),
         NEW table, NEW xs \in SUBSET XHashes, \A x \in xs : table[x].value \in Nat,
         NEW ntable, NEW nxs \in SUBSET XHashes, \A x \in nxs : ntable[x].value \in Nat,
         NEW x \in XHashes,
         \A y \in XHashes \ {x} : (y \in nxs <=> y \in xs) /\ ntable[y].value = table[y].value
  PROVE  /\ Value(table, xs) \in Nat
         /\ Value(ntable, nxs) = Value(table, xs)
              - (IF x \in xs THEN table[x].value ELSE 0)
              + (IF x \in nxs THEN ntable[x].value ELSE 0)
<1> DEFINE f == ValuesOf(table, xs)
           g == ValuesOf(ntable, nxs)
<1>1. /\ Counts(f, XHashes) /\ Value(table, xs) = SumOf(f, XHashes) /\ Value(table, xs) \in Nat
      /\ Counts(g, XHashes) /\ Value(ntable, nxs) = SumOf(g, XHashes)
  BY ValueIsCounted
<1>2. /\ \A y \in XHashes \ {x} : g[y] = f[y]
      /\ f[x] = IF x \in xs THEN table[x].value ELSE 0
      /\ g[x] = IF x \in nxs THEN ntable[x].value ELSE 0
  BY DEF ValuesOf
<1> HIDE DEF f, g
<1>3. SumOf(g, XHashes) = SumOf(f, XHashes) - f[x] + g[x]
  BY <1>1, <1>2, SumUpdate
<1> QED
  BY <1>1, <1>2, <1>3

(* What does not change leaves it alone. *)
LEMMA ValueSame ==
  ASSUME IsFiniteSet(XHashes),
         NEW table, NEW xs \in SUBSET XHashes, \A x \in xs : table[x].value \in Nat,
         NEW ntable, NEW nxs \in SUBSET XHashes,
         \A y \in XHashes : y \in nxs <=> y \in xs,
         \A y \in xs : ntable[y].value = table[y].value
  PROVE  Value(ntable, nxs) = Value(table, xs)
<1> DEFINE f == ValuesOf(table, xs)
           g == ValuesOf(ntable, nxs)
<1>1. \A x \in nxs : ntable[x].value \in Nat
  OBVIOUS
<1>2. /\ Value(table, xs) = SumOf(f, XHashes) /\ Value(ntable, nxs) = SumOf(g, XHashes)
  BY <1>1, ValueIsCounted
<1>3. \A y \in XHashes : f[y] = g[y]
  BY DEF ValuesOf
<1> HIDE DEF f, g
<1>4. SumOf(f, XHashes) = SumOf(g, XHashes)
  BY <1>3, SumSame
<1> QED
  BY <1>2, <1>4

-----------------------------------------------------------------------------
(* The sums of CountersMatchPending and of CustodyCoversLocked, and what   *)
(* one transaction adds to each of them.                                   *)

Of(table, t, p) == {x \in Locked(table) : table[x].token = t /\ table[x].storeman = p}
From(table, t, p) == {x \in Locked(table) : table[x].token = t /\ table[x].src = p}
In(table, t) == {x \in Locked(table) : table[x].token = t}

Pending(tx, t, p) ==
  IF tx.status = "Locked" /\ tx.token = t /\ tx.storeman = p THEN tx.value ELSE 0
PendingFrom(tx, t, p) ==
  IF tx.status = "Locked" /\ tx.token = t /\ tx.src = p THEN tx.value ELSE 0
PendingIn(tx, t) ==
  IF tx.status = "Locked" /\ tx.token = t THEN tx.value ELSE 0

ValuesAreNat(table) == \A x \in Locked(table) : table[x].value \in Nat

LEMMA LockedValues ==
  /\ \A table \in [XHashes -> UserTx \cup {NoTx}] : ValuesAreNat(table)
  /\ \A table \in [XHashes -> SmgTx \cup {NoTx}] : ValuesAreNat(table)
  /\ \A table \in [XHashes -> DebtTx \cup {NoTx}] : ValuesAreNat(table)
BY DEF ValuesAreNat, Locked, NoTx, UserTx, SmgTx, DebtTx

LEMMA OfChanges ==
  ASSUME IsFiniteSet(XHashes), NEW table, NEW ntable, ValuesAreNat(table), ValuesAreNat(ntable),
         NEW x \in XHashes, \A y \in XHashes \ {x} : ntable[y] = table[y], NEW t, NEW p
  PROVE  /\ Value(table, Of(table, t, p)) \in Nat
         /\ Value(ntable, Of(ntable, t, p)) = Value(table, Of(table, t, p))
              - Pending(table[x], t, p) + Pending(ntable[x], t, p)
<1> DEFINE xs == Of(table, t, p)
           nxs == Of(ntable, t, p)
<1>1. /\ xs \in SUBSET XHashes /\ nxs \in SUBSET XHashes
      /\ \A y \in xs : table[y].value \in Nat
      /\ \A y \in nxs : ntable[y].value \in Nat
      /\ \A y \in XHashes \ {x} : (y \in nxs <=> y \in xs) /\ ntable[y].value = table[y].value
      /\ Pending(table[x], t, p) = IF x \in xs THEN table[x].value ELSE 0
      /\ Pending(ntable[x], t, p) = IF x \in nxs THEN ntable[x].value ELSE 0
  BY DEF Of, Locked, Pending, ValuesAreNat
<1> HIDE DEF xs, nxs
<1>2. /\ Value(table, xs) \in Nat
      /\ Value(ntable, nxs) = Value(table, xs)
           - (IF x \in xs THEN table[x].value ELSE 0)
           + (IF x \in nxs THEN ntable[x].value ELSE 0)
  BY <1>1, ValueUpdate
<1> QED
  BY <1>1, <1>2 DEF xs, nxs

LEMMA FromChanges ==
  ASSUME IsFiniteSet(XHashes), NEW table, NEW ntable, ValuesAreNat(table), ValuesAreNat(ntable),
         NEW x \in XHashes, \A y \in XHashes \ {x} : ntable[y] = table[y], NEW t, NEW p
  PROVE  /\ Value(table, From(table, t, p)) \in Nat
         /\ Value(ntable, From(ntable, t, p)) = Value(table, From(table, t, p))
              - PendingFrom(table[x], t, p) + PendingFrom(ntable[x], t, p)
<1> DEFINE xs == From(table, t, p)
           nxs == From(ntable, t, p)
<1>1. /\ xs \in SUBSET XHashes /\ nxs \in SUBSET XHashes
      /\ \A y \in xs : table[y].value \in Nat
      /\ \A y \in nxs : ntable[y].value \in Nat
      /\ \A y \in XHashes \ {x} : (y \in nxs <=> y \in xs) /\ ntable[y].value = table[y].value
      /\ PendingFrom(table[x], t, p) = IF x \in xs THEN table[x].value ELSE 0
      /\ PendingFrom(ntable[x], t, p) = IF x \in nxs THEN ntable[x].value ELSE 0
  BY DEF From, Locked, PendingFrom, ValuesAreNat
<1> HIDE DEF xs, nxs
<1>2. /\ Value(table, xs) \in Nat
      /\ Value(ntable, nxs) = Value(table, xs)
           - (IF x \in xs THEN table[x].value ELSE 0)
           + (IF x \in nxs THEN ntable[x].value ELSE 0)
  BY <1>1, ValueUpdate
<1> QED
  BY <1>1, <1>2 DEF xs, nxs

LEMMA InChanges ==
  ASSUME IsFiniteSet(XHashes), NEW table, NEW ntable, ValuesAreNat(table), ValuesAreNat(ntable),
         NEW x \in XHashes, \A y \in XHashes \ {x} : ntable[y] = table[y], NEW t
  PROVE  /\ Value(table, In(table, t)) \in Nat
         /\ Value(ntable, In(ntable, t)) = Value(table, In(table, t))
              - PendingIn(table[x], t) + PendingIn(ntable[x], t)
<1> DEFINE xs == In(table, t)
           nxs == In(ntable, t)
<1>1. /\ xs \in SUBSET XHashes /\ nxs \in SUBSET XHashes
      /\ \A y \in xs : table[y].value \in Nat
      /\ \A y \in nxs : ntable[y].value \in Nat
      /\ \A y \in XHashes \ {x} : (y \in nxs <=> y \in xs) /\ ntable[y].value = table[y].value
      /\ PendingIn(table[x], t) = IF x \in xs THEN table[x].value ELSE 0
      /\ PendingIn(ntable[x], t) = IF x \in nxs THEN ntable[x].value ELSE 0
  BY DEF In, Locked, PendingIn, ValuesAreNat
<1> HIDE DEF xs, nxs
<1>2. /\ Value(table, xs) \in Nat
      /\ Value(ntable, nxs) = Value(table, xs)
           - (IF x \in xs THEN table[x].value ELSE 0)
           + (IF x \in nxs THEN ntable[x].value ELSE 0)
  BY <1>1, ValueUpdate
<1> QED
  BY <1>1, <1>2 DEF xs, nxs

(* The properties, in those terms. *)
Counters(quota, users, smgs, debts, t, p) ==
  /\ quota.receivable = Value(smgs, Of(smgs, t, p)) + Value(debts, Of(debts, t, p))
  /\ quota.payable = Value(users, Of(users, t, p)) + Value(debts, From(debts, t, p))

LEMMA CountersParts ==
  /\ CountersMatchPending <=>
       \A t \in Tokens, p \in Storemen : Counters(quotas[t][p], userTxs, smgTxs, debtTxs, t, p)
  /\ CountersMatchPending' <=>
       \A t \in Tokens, p \in Storemen : Counters(quotas'[t][p], userTxs', smgTxs', debtTxs', t, p)
<1>1. CountersMatchPending <=>
        \A t \in Tokens, p \in Storemen : Counters(quotas[t][p], userTxs, smgTxs, debtTxs, t, p)
  BY DEF CountersMatchPending, Counters, Of, From
<1>2. (CountersMatchPending <=>
        \A t \in Tokens, p \in Storemen : Counters(quotas[t][p], userTxs, smgTxs, debtTxs, t, p))'
  BY <1>1, PTL
<1> QED
  BY <1>1, <1>2

LEMMA CustodyParts ==
  /\ CustodyCoversLocked <=> \A t \in Tokens : custody[t] >= Value(userTxs, In(userTxs, t))
  /\ CustodyCoversLocked' <=> \A t \in Tokens : custody'[t] >= Value(userTxs', In(userTxs', t))
<1>1. CustodyCoversLocked <=> \A t \in Tokens : custody[t] >= Value(userTxs, In(userTxs, t))
  BY DEF CustodyCoversLocked, In
<1>2. (CustodyCoversLocked <=> \A t \in Tokens : custody[t] >= Value(userTxs, In(userTxs, t)))'
  BY <1>1, PTL
<1> QED
  BY <1>1, <1>2

-----------------------------------------------------------------------------
(* What the functions of QuotaLib do to the counters of a group, and of    *)
(* two groups when a debt passes from src to dst.                          *)

Keeps(t, p) ==
  quotas'[t][p].quota = quotas[t][p].quota /\ quotas'[t][p].active = quotas[t][p].active

Shift(t, p, dr, dp, dd) ==
  \A u \in Tokens, r \in Storemen :
    LET here == u = t /\ r = p
    IN  /\ Keeps(u, r)
        /\ quotas'[u][r].receivable = quotas[u][r].receivable + IF here THEN dr ELSE 0
        /\ quotas'[u][r].payable = quotas[u][r].payable + IF here THEN dp ELSE 0
        /\ quotas'[u][r].debt = quotas[u][r].debt + IF here THEN dd ELSE 0

PassOn(t, src, dst, d, moved) ==
  \A u \in Tokens, r \in Storemen :
    LET there == u = t /\ r = dst
        here  == u = t /\ r = src
    IN  /\ Keeps(u, r)
        /\ quotas'[u][r].receivable = quotas[u][r].receivable + IF there THEN d ELSE 0
        /\ quotas'[u][r].payable = quotas[u][r].payable + IF here THEN d ELSE 0
        /\ quotas'[u][r].debt = quotas[u][r].debt + (IF there THEN moved ELSE 0)
                                                  - (IF here THEN moved ELSE 0)

LEMMA OneShifts ==
  ASSUME QuotaInv, NEW t \in Tokens, NEW p \in Storemen,
         NEW dr \in Int, NEW dp \in Int, NEW dd \in Int,
         \A u \in Tokens, r \in Storemen : u # t \/ r # p => quotas'[u][r] = quotas[u][r],
         Keeps(t, p),
         quotas'[t][p].receivable = quotas[t][p].receivable + dr,
         quotas'[t][p].payable = quotas[t][p].payable + dp,
         quotas'[t][p].debt = quotas[t][p].debt + dd
  PROVE  Shift(t, p, dr, dp, dd)
<1>1. \A u \in Tokens, r \in Storemen :
        /\ quotas[u][r].receivable \in Nat /\ quotas[u][r].payable \in Nat
        /\ quotas[u][r].debt \in Nat
  BY RowType DEF Quota
<1> QED
  BY <1>1 DEF Shift, Keeps

LEMMA TwoShift ==
  ASSUME QuotaInv, NEW t \in Tokens, NEW src \in Storemen, NEW dst \in Storemen, src # dst,
         NEW d \in Int, NEW moved \in Int,
         \A u \in Tokens, o \in Storemen :
           u # t \/ (o # dst /\ o # src) => quotas'[u][o] = quotas[u][o],
         Keeps(t, dst), Keeps(t, src),
         quotas'[t][dst].receivable = quotas[t][dst].receivable + d,
         quotas'[t][dst].payable = quotas[t][dst].payable,
         quotas'[t][dst].debt = quotas[t][dst].debt + moved,
         quotas'[t][src].receivable = quotas[t][src].receivable,
         quotas'[t][src].payable = quotas[t][src].payable + d,
         quotas'[t][src].debt = quotas[t][src].debt - moved
  PROVE  PassOn(t, src, dst, d, moved)
<1>1. \A u \in Tokens, r \in Storemen :
        /\ quotas[u][r].receivable \in Nat /\ quotas[u][r].payable \in Nat
        /\ quotas[u][r].debt \in Nat
  BY RowType DEF Quota
<1> SUFFICES ASSUME NEW u \in Tokens, NEW r \in Storemen
             PROVE  LET there == u = t /\ r = dst
                        here  == u = t /\ r = src
                    IN  /\ Keeps(u, r)
                        /\ quotas'[u][r].receivable = quotas[u][r].receivable + IF there THEN d ELSE 0
                        /\ quotas'[u][r].payable = quotas[u][r].payable + IF here THEN d ELSE 0
                        /\ quotas'[u][r].debt = quotas[u][r].debt + (IF there THEN moved ELSE 0)
                                                                  - (IF here THEN moved ELSE 0)
  BY DEF PassOn
<1>2. CASE u = t /\ r = dst
  BY <1>1, <1>2 DEF Keeps
<1>3. CASE u = t /\ r = src
  BY <1>1, <1>3 DEF Keeps
<1>4. CASE u # t \/ (r # dst /\ r # src)
  BY <1>1, <1>4 DEF Keeps
<1> QED
  BY <1>2, <1>3, <1>4

LEMMA OwingFields ==
  ASSUME NEW row \in Quota, NEW v \in Nat
  PROVE  LET q == Owing(row, v)
         IN  /\ q.receivable = row.receivable - v /\ q.debt = row.debt + v
             /\ q.payable = row.payable /\ q.quota = row.quota /\ q.active = row.active
<1> DEFINE mid == [row EXCEPT !.receivable = row.receivable - v]
<1>1. /\ mid.receivable = row.receivable - v /\ mid.debt = row.debt /\ mid.payable = row.payable
      /\ mid.quota = row.quota /\ mid.active = row.active
      /\ DOMAIN mid = {"quota", "ratio", "receivable", "payable", "debt", "active"}
  BY DEF Quota
<1>2. Owing(row, v) = [mid EXCEPT !.debt = mid.debt + v]
  BY DEF Owing, Quota
<1> HIDE DEF mid
<1> QED
  BY <1>1, <1>2

LEMMA RelievedFields ==
  ASSUME NEW row \in Quota, NEW v \in Nat
  PROVE  LET q == Relieved(row, v)
         IN  /\ q.payable = row.payable - v /\ q.debt = row.debt - v
             /\ q.receivable = row.receivable /\ q.quota = row.quota /\ q.active = row.active
<1> DEFINE mid == [row EXCEPT !.debt = row.debt - v]
<1>1. /\ mid.debt = row.debt - v /\ mid.receivable = row.receivable /\ mid.payable = row.payable
      /\ mid.quota = row.quota /\ mid.active = row.active
      /\ DOMAIN mid = {"quota", "ratio", "receivable", "payable", "debt", "active"}
  BY DEF Quota
<1>2. Relieved(row, v) = [mid EXCEPT !.payable = mid.payable - v]
  BY DEF Relieved, Quota
<1> HIDE DEF mid
<1> QED
  BY <1>1, <1>2

LEMMA InLockShifts ==
  ASSUME QuotaInv, NEW t \in Tokens, NEW p \in Storemen, NEW v \in Nat, QuotaInLock(t, p, v)
  PROVE  Shift(t, p, v, 0, 0)
<1> DEFINE q == [quotas[t][p] EXCEPT !.receivable = @ + v]
<1>1. quotas' = [quotas EXCEPT ![t][p] = q]
  BY DEF QuotaInLock
<1>2. /\ q \in Quota /\ q.quota = quotas[t][p].quota /\ q.active = quotas[t][p].active
      /\ q.receivable = quotas[t][p].receivable + v
      /\ q.payable = quotas[t][p].payable + 0 /\ q.debt = quotas[t][p].debt + 0
  BY RowType DEF Quota
<1> HIDE DEF q
<1>9. /\ quotas'[t][p] = q
      /\ \A u \in Tokens, r \in Storemen : u # t \/ r # p => quotas'[u][r] = quotas[u][r]
  BY <1>1 DEF QuotaInv, QuotaTypeOK
<1> QED
  BY <1>2, <1>9, OneShifts DEF Keeps

LEMMA InRevokeShifts ==
  ASSUME QuotaInv, NEW t \in Tokens, NEW p \in Storemen, NEW v \in Nat, QuotaInRevoke(t, p, v)
  PROVE  Shift(t, p, -v, 0, 0)
<1> DEFINE q == [quotas[t][p] EXCEPT !.receivable = @ - v]
<1>1. quotas' = [quotas EXCEPT ![t][p] = q]
  BY DEF QuotaInRevoke
<1>2. /\ q \in Quota /\ q.quota = quotas[t][p].quota /\ q.active = quotas[t][p].active
      /\ q.receivable = quotas[t][p].receivable + (-v)
      /\ q.payable = quotas[t][p].payable + 0 /\ q.debt = quotas[t][p].debt + 0
  BY RowType DEF Quota, QuotaInRevoke
<1> HIDE DEF q
<1>9. /\ quotas'[t][p] = q
      /\ \A u \in Tokens, r \in Storemen : u # t \/ r # p => quotas'[u][r] = quotas[u][r]
  BY <1>1 DEF QuotaInv, QuotaTypeOK
<1> QED
  BY <1>2, <1>9, OneShifts DEF Keeps

LEMMA InRedeemShifts ==
  ASSUME QuotaInv, NEW t \in Tokens, NEW p \in Storemen, NEW v \in Nat, QuotaInRedeem(t, p, v)
  PROVE  Shift(t, p, -v, 0, v)
<1> DEFINE row == quotas[t][p]
           q == Owing(row, v)
<1>1. quotas' = [quotas EXCEPT ![t][p] = q]
  BY DEF QuotaInRedeem
<1>2. row \in Quota /\ row.payable <= row.debt /\ row.receivable >= v
  BY RowType DEF QuotaInRedeem
<1>3. row.receivable \in Nat /\ row.payable \in Nat /\ row.debt \in Nat
  BY <1>2 DEF Quota
<1> HIDE DEF row
<1>4. /\ q \in Quota /\ q.quota = row.quota /\ q.active = row.active
      /\ q.receivable = row.receivable + (-v)
      /\ q.payable = row.payable + 0 /\ q.debt = row.debt + v
  BY <1>2, <1>3, OwingRow, OwingFields
<1> HIDE DEF q
<1>9. /\ quotas'[t][p] = q
      /\ \A u \in Tokens, r \in Storemen : u # t \/ r # p => quotas'[u][r] = quotas[u][r]
  BY <1>1 DEF QuotaInv, QuotaTypeOK
<1> QED
  BY <1>4, <1>9, OneShifts DEF Keeps, row

LEMMA OutLockShifts ==
  ASSUME QuotaInv, NEW t \in Tokens, NEW p \in Storemen, NEW v \in Nat, QuotaOutLock(t, p, v)
  PROVE  Shift(t, p, 0, v, 0)
<1> DEFINE q == [quotas[t][p] EXCEPT !.payable = @ + v]
<1>1. quotas' = [quotas EXCEPT ![t][p] = q]
  BY DEF QuotaOutLock
<1>2. /\ q \in Quota /\ q.quota = quotas[t][p].quota /\ q.active = quotas[t][p].active
      /\ q.receivable = quotas[t][p].receivable + 0
      /\ q.payable = quotas[t][p].payable + v /\ q.debt = quotas[t][p].debt + 0
  BY RowType DEF Quota
<1> HIDE DEF q
<1>9. /\ quotas'[t][p] = q
      /\ \A u \in Tokens, r \in Storemen : u # t \/ r # p => quotas'[u][r] = quotas[u][r]
  BY <1>1 DEF QuotaInv, QuotaTypeOK
<1> QED
  BY <1>2, <1>9, OneShifts DEF Keeps

LEMMA OutRevokeShifts ==
  ASSUME QuotaInv, NEW t \in Tokens, NEW p \in Storemen, NEW v \in Nat, QuotaOutRevoke(t, p, v)
  PROVE  Shift(t, p, 0, -v, 0)
<1> DEFINE q == [quotas[t][p] EXCEPT !.payable = @ - v]
<1>1. quotas' = [quotas EXCEPT ![t][p] = q]
  BY DEF QuotaOutRevoke
<1>2. /\ q \in Quota /\ q.quota = quotas[t][p].quota /\ q.active = quotas[t][p].active
      /\ q.receivable = quotas[t][p].receivable + 0
      /\ q.payable = quotas[t][p].payable + (-v) /\ q.debt = quotas[t][p].debt + 0
  BY RowType DEF Quota, QuotaOutRevoke
<1> HIDE DEF q
<1>9. /\ quotas'[t][p] = q
      /\ \A u \in Tokens, r \in Storemen : u # t \/ r # p => quotas'[u][r] = quotas[u][r]
  BY <1>1 DEF QuotaInv, QuotaTypeOK
<1> QED
  BY <1>2, <1>9, OneShifts DEF Keeps

LEMMA OutRedeemShifts ==
  ASSUME QuotaInv, NEW t \in Tokens, NEW p \in Storemen, NEW v \in Nat, QuotaOutRedeem(t, p, v)
  PROVE  Shift(t, p, 0, -v, -v)
<1> DEFINE row == quotas[t][p]
           q == Relieved(row, v)
<1>1. quotas' = [quotas EXCEPT ![t][p] = q]
  BY DEF QuotaOutRedeem
<1>2. row \in Quota /\ row.payable <= row.debt /\ row.payable >= v
  BY RowType DEF QuotaOutRedeem
<1>3. row.receivable \in Nat /\ row.payable \in Nat /\ row.debt \in Nat
  BY <1>2 DEF Quota
<1> HIDE DEF row
<1>4. /\ q \in Quota /\ q.quota = row.quota /\ q.active = row.active
      /\ q.receivable = row.receivable + 0
      /\ q.payable = row.payable + (-v) /\ q.debt = row.debt + (-v)
  BY <1>2, <1>3, RelievedRow, RelievedFields
<1> HIDE DEF q
<1>9. /\ quotas'[t][p] = q
      /\ \A u \in Tokens, r \in Storemen : u # t \/ r # p => quotas'[u][r] = quotas[u][r]
  BY <1>1 DEF QuotaInv, QuotaTypeOK
<1> QED
  BY <1>4, <1>9, OneShifts DEF Keeps, row

LEMMA DebtLockPasses ==
  ASSUME QuotaInv, NEW t \in Tokens, NEW src \in Storemen, NEW dst \in Storemen,
         NEW v \in Nat, src # dst, QuotaDebtLock(t, v, src, dst)
  PROVE  PassOn(t, src, dst, v, 0)
<1> DEFINE q == [quotas[t][dst] EXCEPT !.receivable = @ + v]
           s == [quotas[t][src] EXCEPT !.payable = @ + v]
<1>1. quotas' = [quotas EXCEPT ![t][dst] = q, ![t][src] = s]
  BY RowType DEF QuotaDebtLock, Quota
<1>2. /\ q \in Quota /\ q.quota = quotas[t][dst].quota /\ q.active = quotas[t][dst].active
      /\ q.receivable = quotas[t][dst].receivable + v
      /\ q.payable = quotas[t][dst].payable /\ q.debt = quotas[t][dst].debt + 0
  BY RowType DEF Quota
<1>3. /\ s \in Quota /\ s.quota = quotas[t][src].quota /\ s.active = quotas[t][src].active
      /\ s.receivable = quotas[t][src].receivable
      /\ s.payable = quotas[t][src].payable + v /\ s.debt = quotas[t][src].debt - 0
  BY RowType DEF Quota
<1> HIDE DEF q, s
<1>9. /\ quotas'[t][dst] = q /\ quotas'[t][src] = s
      /\ \A u \in Tokens, o \in Storemen :
           u # t \/ (o # dst /\ o # src) => quotas'[u][o] = quotas[u][o]
  BY <1>1 DEF QuotaInv, QuotaTypeOK
<1> QED
  BY <1>2, <1>3, <1>9, TwoShift DEF Keeps

LEMMA DebtRevokePasses ==
  ASSUME QuotaInv, NEW t \in Tokens, NEW src \in Storemen, NEW dst \in Storemen,
         NEW v \in Nat, src # dst, QuotaDebtRevoke(t, v, src, dst)
  PROVE  PassOn(t, src, dst, -v, 0)
<1> DEFINE q == [quotas[t][dst] EXCEPT !.receivable = @ - v]
           s == [quotas[t][src] EXCEPT !.payable = @ - v]
<1>1. quotas' = [quotas EXCEPT ![t][dst] = q, ![t][src] = s]
  BY RowType DEF QuotaDebtRevoke, Quota
<1>2. /\ q \in Quota /\ q.quota = quotas[t][dst].quota /\ q.active = quotas[t][dst].active
      /\ q.receivable = quotas[t][dst].receivable + (-v)
      /\ q.payable = quotas[t][dst].payable /\ q.debt = quotas[t][dst].debt + 0
  BY RowType DEF Quota, QuotaDebtRevoke
<1>3. /\ s \in Quota /\ s.quota = quotas[t][src].quota /\ s.active = quotas[t][src].active
      /\ s.receivable = quotas[t][src].receivable
      /\ s.payable = quotas[t][src].payable + (-v) /\ s.debt = quotas[t][src].debt - 0
  BY RowType DEF Quota, QuotaDebtRevoke
<1> HIDE DEF q, s
<1>9. /\ quotas'[t][dst] = q /\ quotas'[t][src] = s
      /\ \A u \in Tokens, o \in Storemen :
           u # t \/ (o # dst /\ o # src) => quotas'[u][o] = quotas[u][o]
  BY <1>1 DEF QuotaInv, QuotaTypeOK
<1> QED
  BY <1>2, <1>3, <1>9, TwoShift DEF Keeps

LEMMA DebtRedeemPasses ==
  ASSUME QuotaInv, NEW t \in Tokens, NEW src \in Storemen, NEW dst \in Storemen,
         NEW v \in Nat, src # dst, QuotaDebtRedeem(t, v, src, dst)
  PROVE  PassOn(t, src, dst, -v, v)
<1> DEFINE r == quotas[t][dst]
           o == quotas[t][src]
           q == Owing(r, v)
           s == Relieved(o, v)
<1>1. quotas' = [quotas EXCEPT ![t][dst] = q, ![t][src] = s]
  BY DEF QuotaDebtRedeem, QuotaInv, QuotaTypeOK
<1>2. /\ r \in Quota /\ r.payable <= r.debt /\ r.receivable >= v
      /\ o \in Quota /\ o.payable <= o.debt /\ o.payable >= v
  BY RowType DEF QuotaDebtRedeem
<1>3. /\ r.receivable \in Nat /\ r.payable \in Nat /\ r.debt \in Nat
      /\ o.receivable \in Nat /\ o.payable \in Nat /\ o.debt \in Nat
  BY <1>2 DEF Quota
<1> HIDE DEF r, o
<1>4. /\ q \in Quota /\ q.quota = r.quota /\ q.active = r.active
      /\ q.receivable = r.receivable + (-v)
      /\ q.payable = r.payable /\ q.debt = r.debt + v
  BY <1>2, <1>3, OwingRow, OwingFields
<1>5. /\ s \in Quota /\ s.quota = o.quota /\ s.active = o.active
      /\ s.receivable = o.receivable
      /\ s.payable = o.payable + (-v) /\ s.debt = o.debt - v
  BY <1>2, <1>3, RelievedRow, RelievedFields
<1> HIDE DEF q, s
<1>9. /\ quotas'[t][dst] = q /\ quotas'[t][src] = s
      /\ \A u \in Tokens, p \in Storemen :
           u # t \/ (p # dst /\ p # src) => quotas'[u][p] = quotas[u][p]
  BY <1>1 DEF QuotaInv, QuotaTypeOK
<1> QED
  BY <1>4, <1>5, <1>9, TwoShift DEF Keeps, r, o

-----------------------------------------------------------------------------
(* The counters follow a step that changes one transaction. *)

LEMMA CountersStep ==
  ASSUME IsFiniteSet(XHashes), WanInv, WanInv', CountersMatchPending, NEW x \in XHashes,
         \A y \in XHashes \ {x} : userTxs'[y] = userTxs[y],
         \A y \in XHashes \ {x} : smgTxs'[y] = smgTxs[y],
         \A y \in XHashes \ {x} : debtTxs'[y] = debtTxs[y],
         \A t \in Tokens, p \in Storemen :
           /\ quotas'[t][p].receivable = quotas[t][p].receivable
                + (Pending(smgTxs'[x], t, p) - Pending(smgTxs[x], t, p))
                + (Pending(debtTxs'[x], t, p) - Pending(debtTxs[x], t, p))
           /\ quotas'[t][p].payable = quotas[t][p].payable
                + (Pending(userTxs'[x], t, p) - Pending(userTxs[x], t, p))
                + (PendingFrom(debtTxs'[x], t, p) - PendingFrom(debtTxs[x], t, p))
  PROVE  CountersMatchPending'
<1>1. /\ ValuesAreNat(userTxs) /\ ValuesAreNat(smgTxs) /\ ValuesAreNat(debtTxs)
      /\ ValuesAreNat(userTxs') /\ ValuesAreNat(smgTxs') /\ ValuesAreNat(debtTxs')
  BY LockedValues DEF WanInv, TablesOK
<1> SUFFICES ASSUME NEW t \in Tokens, NEW p \in Storemen
             PROVE  Counters(quotas'[t][p], userTxs', smgTxs', debtTxs', t, p)
  BY CountersParts
<1>2. Counters(quotas[t][p], userTxs, smgTxs, debtTxs, t, p)
  BY CountersParts
<1> DEFINE S == Value(smgTxs, Of(smgTxs, t, p))
           nS == Value(smgTxs', Of(smgTxs', t, p))
           U == Value(userTxs, Of(userTxs, t, p))
           nU == Value(userTxs', Of(userTxs', t, p))
           D == Value(debtTxs, Of(debtTxs, t, p))
           nD == Value(debtTxs', Of(debtTxs', t, p))
           F == Value(debtTxs, From(debtTxs, t, p))
           nF == Value(debtTxs', From(debtTxs', t, p))
<1>3. S \in Nat /\ nS = S - Pending(smgTxs[x], t, p) + Pending(smgTxs'[x], t, p)
  BY <1>1, OfChanges
<1>4. U \in Nat /\ nU = U - Pending(userTxs[x], t, p) + Pending(userTxs'[x], t, p)
  BY <1>1, OfChanges
<1>5. D \in Nat /\ nD = D - Pending(debtTxs[x], t, p) + Pending(debtTxs'[x], t, p)
  BY <1>1, OfChanges
<1>6. F \in Nat /\ nF = F - PendingFrom(debtTxs[x], t, p) + PendingFrom(debtTxs'[x], t, p)
  BY <1>1, FromChanges
<1>7. /\ Pending(smgTxs[x], t, p) \in Nat /\ Pending(smgTxs'[x], t, p) \in Nat
      /\ Pending(userTxs[x], t, p) \in Nat /\ Pending(userTxs'[x], t, p) \in Nat
      /\ Pending(debtTxs[x], t, p) \in Nat /\ Pending(debtTxs'[x], t, p) \in Nat
      /\ PendingFrom(debtTxs[x], t, p) \in Nat /\ PendingFrom(debtTxs'[x], t, p) \in Nat
  BY <1>1 DEF ValuesAreNat, Locked, Pending, PendingFrom
<1>8. /\ quotas'[t][p].receivable = quotas[t][p].receivable
           + (Pending(smgTxs'[x], t, p) - Pending(smgTxs[x], t, p))
           + (Pending(debtTxs'[x], t, p) - Pending(debtTxs[x], t, p))
      /\ quotas'[t][p].payable = quotas[t][p].payable
           + (Pending(userTxs'[x], t, p) - Pending(userTxs[x], t, p))
           + (PendingFrom(debtTxs'[x], t, p) - PendingFrom(debtTxs[x], t, p))
  OBVIOUS
<1>9. quotas[t][p].receivable = S + D /\ quotas[t][p].payable = U + F
  BY <1>2 DEF Counters
<1>10. Counters(quotas'[t][p], userTxs', smgTxs', debtTxs', t, p)
         <=> quotas'[t][p].receivable = nS + nD /\ quotas'[t][p].payable = nU + nF
  BY DEF Counters
<1> HIDE DEF S, nS, U, nU, D, nD, F, nF
<1> QED
  BY <1>3, <1>4, <1>5, <1>6, <1>7, <1>8, <1>9, <1>10

(* A step that changes no transaction and no counter. *)
LEMMA CountersIdle ==
  ASSUME CountersMatchPending, UNCHANGED <<userTxs, smgTxs, debtTxs>>,
         \A t \in Tokens, p \in Storemen :
           /\ quotas'[t][p].receivable = quotas[t][p].receivable
           /\ quotas'[t][p].payable = quotas[t][p].payable
  PROVE  CountersMatchPending'
BY CountersParts DEF Counters

(* What a lock and the end of a transaction add to the sums. *)
LEMMA NothingPending ==
  ASSUME NEW tx, tx.status # "Locked"
  PROVE  \A t, p : Pending(tx, t, p) = 0 /\ PendingFrom(tx, t, p) = 0 /\ PendingIn(tx, t) = 0
BY DEF Pending, PendingFrom, PendingIn

LEMMA LockPending ==
  ASSUME NEW tx, tx.status = "Locked"
  PROVE  /\ \A t, p : Pending(tx, t, p) = IF t = tx.token /\ p = tx.storeman THEN tx.value ELSE 0
         /\ \A t, p : PendingFrom(tx, t, p) = IF t = tx.token /\ p = tx.src THEN tx.value ELSE 0
         /\ \A t : PendingIn(tx, t) = IF t = tx.token THEN tx.value ELSE 0
BY DEF Pending, PendingFrom, PendingIn

(* The group's counters before a step are numbers. *)
LEMMA CountersAreNat ==
  ASSUME WanInv
  PROVE  \A t \in Tokens, p \in Storemen :
           /\ quotas[t][p].receivable \in Nat /\ quotas[t][p].payable \in Nat
           /\ quotas[t][p].debt \in Nat /\ quotas[t][p].quota \in Nat
BY RowType DEF WanInv, Quota

(* Closing a transaction leaves the others, and this one is not pending.   *)
LEMMA SmgClosed ==
  ASSUME WanInv, NEW x \in XHashes, IsLocked(smgTxs, x), NEW s \in {"Redeemed", "Revoked"},
         smgTxs' = Close(smgTxs, x, s)
  PROVE  /\ \A y \in XHashes \ {x} : smgTxs'[y] = smgTxs[y]
         /\ smgTxs'[x].status # "Locked"
BY LockedSmg DEF WanInv, TablesOK, Close, SmgTx

LEMMA UserClosed ==
  ASSUME WanInv, NEW x \in XHashes, IsLocked(userTxs, x), NEW s \in {"Redeemed", "Revoked"},
         userTxs' = Close(userTxs, x, s)
  PROVE  /\ \A y \in XHashes \ {x} : userTxs'[y] = userTxs[y]
         /\ userTxs'[x].status # "Locked"
BY LockedUser DEF WanInv, TablesOK, Close, UserTx

LEMMA DebtClosed ==
  ASSUME WanInv, NEW x \in XHashes, IsLocked(debtTxs, x), NEW s \in {"Redeemed", "Revoked"},
         debtTxs' = Close(debtTxs, x, s)
  PROVE  /\ \A y \in XHashes \ {x} : debtTxs'[y] = debtTxs[y]
         /\ debtTxs'[x].status # "Locked"
BY LockedDebt DEF WanInv, TablesOK, Close, DebtTx

LEMMA SmgCounters ==
  ASSUME IsFiniteSet(XHashes), WanInv, WanInv', CountersMatchPending, NEW x \in XHashes,
         \A y \in XHashes \ {x} : smgTxs'[y] = smgTxs[y], UNCHANGED <<userTxs, debtTxs>>,
         NEW t \in Tokens, NEW p \in Storemen, NEW dr \in Int, NEW dd \in Int,
         Shift(t, p, dr, 0, dd),
         \A u \in Tokens, r \in Storemen :
           Pending(smgTxs'[x], u, r) - Pending(smgTxs[x], u, r)
             = IF u = t /\ r = p THEN dr ELSE 0
  PROVE  CountersMatchPending'
<1>1. ASSUME NEW u \in Tokens, NEW r \in Storemen
      PROVE  /\ quotas'[u][r].receivable = quotas[u][r].receivable
                  + (Pending(smgTxs'[x], u, r) - Pending(smgTxs[x], u, r))
                  + (Pending(debtTxs'[x], u, r) - Pending(debtTxs[x], u, r))
             /\ quotas'[u][r].payable = quotas[u][r].payable
                  + (Pending(userTxs'[x], u, r) - Pending(userTxs[x], u, r))
                  + (PendingFrom(debtTxs'[x], u, r) - PendingFrom(debtTxs[x], u, r))
  <2>1. /\ Pending(debtTxs'[x], u, r) = Pending(debtTxs[x], u, r)
        /\ Pending(userTxs'[x], u, r) = Pending(userTxs[x], u, r)
        /\ PendingFrom(debtTxs'[x], u, r) = PendingFrom(debtTxs[x], u, r)
    OBVIOUS
  <2>2. /\ Pending(debtTxs[x], u, r) \in Nat /\ Pending(userTxs[x], u, r) \in Nat
        /\ PendingFrom(debtTxs[x], u, r) \in Nat
    BY LockedValues DEF WanInv, TablesOK, ValuesAreNat, Locked, Pending, PendingFrom
  <2>3. quotas[u][r].receivable \in Nat /\ quotas[u][r].payable \in Nat
    BY CountersAreNat
  <2>4. /\ quotas'[u][r].receivable = quotas[u][r].receivable + IF u = t /\ r = p THEN dr ELSE 0
        /\ quotas'[u][r].payable = quotas[u][r].payable + IF u = t /\ r = p THEN 0 ELSE 0
    BY DEF Shift
  <2> QED
    BY <2>1, <2>2, <2>3, <2>4
<1> QED
  BY <1>1, CountersStep

LEMMA UserCounters ==
  ASSUME IsFiniteSet(XHashes), WanInv, WanInv', CountersMatchPending, NEW x \in XHashes,
         \A y \in XHashes \ {x} : userTxs'[y] = userTxs[y], UNCHANGED <<smgTxs, debtTxs>>,
         NEW t \in Tokens, NEW p \in Storemen, NEW dp \in Int, NEW dd \in Int,
         Shift(t, p, 0, dp, dd),
         \A u \in Tokens, r \in Storemen :
           Pending(userTxs'[x], u, r) - Pending(userTxs[x], u, r)
             = IF u = t /\ r = p THEN dp ELSE 0
  PROVE  CountersMatchPending'
<1>1. ASSUME NEW u \in Tokens, NEW r \in Storemen
      PROVE  /\ quotas'[u][r].receivable = quotas[u][r].receivable
                  + (Pending(smgTxs'[x], u, r) - Pending(smgTxs[x], u, r))
                  + (Pending(debtTxs'[x], u, r) - Pending(debtTxs[x], u, r))
             /\ quotas'[u][r].payable = quotas[u][r].payable
                  + (Pending(userTxs'[x], u, r) - Pending(userTxs[x], u, r))
                  + (PendingFrom(debtTxs'[x], u, r) - PendingFrom(debtTxs[x], u, r))
  <2>1. /\ Pending(debtTxs'[x], u, r) = Pending(debtTxs[x], u, r)
        /\ Pending(smgTxs'[x], u, r) = Pending(smgTxs[x], u, r)
        /\ PendingFrom(debtTxs'[x], u, r) = PendingFrom(debtTxs[x], u, r)
    OBVIOUS
  <2>2. /\ Pending(debtTxs[x], u, r) \in Nat /\ Pending(smgTxs[x], u, r) \in Nat
        /\ PendingFrom(debtTxs[x], u, r) \in Nat
    BY LockedValues DEF WanInv, TablesOK, ValuesAreNat, Locked, Pending, PendingFrom
  <2>3. quotas[u][r].receivable \in Nat /\ quotas[u][r].payable \in Nat
    BY CountersAreNat
  <2>4. /\ quotas'[u][r].receivable = quotas[u][r].receivable + IF u = t /\ r = p THEN 0 ELSE 0
        /\ quotas'[u][r].payable = quotas[u][r].payable + IF u = t /\ r = p THEN dp ELSE 0
    BY DEF Shift
  <2> QED
    BY <2>1, <2>2, <2>3, <2>4
<1> QED
  BY <1>1, CountersStep

LEMMA DebtCounters ==
  ASSUME IsFiniteSet(XHashes), WanInv, WanInv', CountersMatchPending, NEW x \in XHashes,
         \A y \in XHashes \ {x} : debtTxs'[y] = debtTxs[y], UNCHANGED <<userTxs, smgTxs>>,
         NEW t \in Tokens, NEW src \in Storemen, NEW dst \in Storemen,
         NEW d \in Int, NEW moved \in Int,
         PassOn(t, src, dst, d, moved),
         \A u \in Tokens, r \in Storemen :
           /\ Pending(debtTxs'[x], u, r) - Pending(debtTxs[x], u, r)
                = IF u = t /\ r = dst THEN d ELSE 0
           /\ PendingFrom(debtTxs'[x], u, r) - PendingFrom(debtTxs[x], u, r)
                = IF u = t /\ r = src THEN d ELSE 0
  PROVE  CountersMatchPending'
<1>1. ASSUME NEW u \in Tokens, NEW r \in Storemen
      PROVE  /\ quotas'[u][r].receivable = quotas[u][r].receivable
                  + (Pending(smgTxs'[x], u, r) - Pending(smgTxs[x], u, r))
                  + (Pending(debtTxs'[x], u, r) - Pending(debtTxs[x], u, r))
             /\ quotas'[u][r].payable = quotas[u][r].payable
                  + (Pending(userTxs'[x], u, r) - Pending(userTxs[x], u, r))
                  + (PendingFrom(debtTxs'[x], u, r) - PendingFrom(debtTxs[x], u, r))
  <2>1. /\ Pending(userTxs'[x], u, r) = Pending(userTxs[x], u, r)
        /\ Pending(smgTxs'[x], u, r) = Pending(smgTxs[x], u, r)
    OBVIOUS
  <2>2. Pending(userTxs[x], u, r) \in Nat /\ Pending(smgTxs[x], u, r) \in Nat
    BY LockedValues DEF WanInv, TablesOK, ValuesAreNat, Locked, Pending
  <2>3. quotas[u][r].receivable \in Nat /\ quotas[u][r].payable \in Nat
    BY CountersAreNat
  <2>4. /\ quotas'[u][r].receivable = quotas[u][r].receivable + IF u = t /\ r = dst THEN d ELSE 0
        /\ quotas'[u][r].payable = quotas[u][r].payable + IF u = t /\ r = src THEN d ELSE 0
    BY DEF PassOn
  <2> QED
    BY <2>1, <2>2, <2>3, <2>4
<1> QED
  BY <1>1, CountersStep

-----------------------------------------------------------------------------
(* What each action does to the transaction and to the counters. *)

Opens(table, ntable, x, t, p, v) ==
  /\ table[x] = NoTx
  /\ \A y \in XHashes \ {x} : ntable[y] = table[y]
  /\ ntable[x].status = "Locked" /\ ntable[x].value = v
  /\ ntable[x].token = t /\ ntable[x].storeman = p

Closes(table, ntable, x) ==
  /\ table[x].status = "Locked"
  /\ \A y \in XHashes \ {x} : ntable[y] = table[y]
  /\ ntable[x].status # "Locked"

LEMMA InSmgLockDoes ==
  ASSUME WanInv, NEW u \in Users, NEW t \in Tokens, NEW v \in Values, NEW x \in XHashes,
         NEW p \in Storemen, InSmgLock(u, t, v, x, p)
  PROVE  /\ v \in Nat /\ v > 0 /\ IsActive(t, p) /\ Shift(t, p, v, 0, 0)
         /\ Opens(smgTxs, smgTxs', x, t, p, v)
         /\ UNCHANGED <<userTxs, debtTxs, xHashFee, storemanFee, supply, custody, wan>>
<1>1. v \in Nat
  BY WanConstants
<1>2. Opens(smgTxs, smgTxs', x, t, p, v)
  BY DEF InSmgLock, Opens, WanInv, TablesOK
<1>3. QuotaInv /\ QuotaInLock(t, p, v)
  BY DEF WanInv, InSmgLock
<1>4. Shift(t, p, v, 0, 0)
  BY <1>1, <1>3, InLockShifts
<1> QED
  BY <1>1, <1>2, <1>3, <1>4 DEF InSmgLock, QuotaInLock

LEMMA InUserRedeemDoes ==
  ASSUME WanInv, NEW u \in Users, NEW x \in XHashes, InUserRedeem(u, x),
         NEW tx, tx = smgTxs[x]
  PROVE  /\ tx.token \in Tokens /\ tx.storeman \in Storemen /\ tx.value \in Nat
         /\ Shift(tx.token, tx.storeman, -tx.value, 0, tx.value)
         /\ IsExist(tx.token, tx.storeman) /\ Closes(smgTxs, smgTxs', x)
         /\ supply' = [supply EXCEPT ![tx.token] = @ + tx.value]
         /\ UNCHANGED <<userTxs, debtTxs, xHashFee, storemanFee, custody, wan>>
<1>1. /\ IsLocked(smgTxs, x) /\ smgTxs' = Close(smgTxs, x, "Redeemed")
      /\ QuotaInRedeem(tx.token, tx.storeman, tx.value) /\ QuotaInv
  BY DEF InUserRedeem, WanInv
<1>2. tx.token \in Tokens /\ tx.storeman \in Storemen /\ tx.value \in Nat
  BY <1>1, LockedSmg
<1>3. Closes(smgTxs, smgTxs', x)
  BY <1>1, SmgClosed DEF Closes, IsLocked
<1>4. Shift(tx.token, tx.storeman, -tx.value, 0, tx.value)
  BY <1>1, <1>2, InRedeemShifts
<1> QED
  BY <1>1, <1>2, <1>3, <1>4 DEF InUserRedeem, QuotaInRedeem

LEMMA InSmgRevokeDoes ==
  ASSUME WanInv, NEW x \in XHashes, InSmgRevoke(x), NEW tx, tx = smgTxs[x]
  PROVE  /\ tx.token \in Tokens /\ tx.storeman \in Storemen /\ tx.value \in Nat
         /\ Shift(tx.token, tx.storeman, -tx.value, 0, 0)
         /\ IsExist(tx.token, tx.storeman) /\ Closes(smgTxs, smgTxs', x)
         /\ UNCHANGED <<userTxs, debtTxs, xHashFee, storemanFee, supply, custody, wan>>
<1>1. /\ IsLocked(smgTxs, x) /\ smgTxs' = Close(smgTxs, x, "Revoked")
      /\ QuotaInRevoke(tx.token, tx.storeman, tx.value) /\ QuotaInv
  BY DEF InSmgRevoke, WanInv
<1>2. tx.token \in Tokens /\ tx.storeman \in Storemen /\ tx.value \in Nat
  BY <1>1, LockedSmg
<1>3. Closes(smgTxs, smgTxs', x)
  BY <1>1, SmgClosed DEF Closes, IsLocked
<1>4. Shift(tx.token, tx.storeman, -tx.value, 0, 0)
  BY <1>1, <1>2, InRevokeShifts
<1> QED
  BY <1>1, <1>2, <1>3, <1>4 DEF InSmgRevoke, QuotaInRevoke

LEMMA OutUserLockDoes ==
  ASSUME WanInv, NEW u \in Users, NEW t \in Tokens, NEW v \in Values, NEW x \in XHashes,
         NEW p \in Storemen, NEW price \in Prices, OutUserLock(u, t, v, x, p, price)
  PROVE  /\ v \in Nat /\ v > 0 /\ IsActive(t, p) /\ Shift(t, p, 0, v, 0)
         /\ Opens(userTxs, userTxs', x, t, p, v)
         /\ custody' = [custody EXCEPT ![t] = @ + v]
         /\ xHashFee' = [xHashFee EXCEPT ![x] = OutboundFee(t, p, v, price)]
         /\ wan' = wan + OutboundFee(t, p, v, price) /\ OutboundFee(t, p, v, price) \in Nat
         /\ UNCHANGED <<smgTxs, debtTxs, storemanFee, supply>>
<1>1. v \in Nat
  BY WanConstants
<1>2. Opens(userTxs, userTxs', x, t, p, v)
  BY DEF OutUserLock, Opens, WanInv, TablesOK
<1>3. QuotaInv /\ QuotaOutLock(t, p, v)
  BY DEF WanInv, OutUserLock
<1>4. Shift(t, p, 0, v, 0)
  BY <1>1, <1>3, OutLockShifts
<1>5. OutboundFee(t, p, v, price) \in Nat
  BY <1>1, FeeType
<1> QED
  BY <1>1, <1>2, <1>3, <1>4, <1>5 DEF OutUserLock, QuotaOutLock

LEMMA OutSmgRedeemDoes ==
  ASSUME WanInv, NEW x \in XHashes, OutSmgRedeem(x), NEW tx, tx = userTxs[x]
  PROVE  /\ tx.token \in Tokens /\ tx.storeman \in Storemen /\ tx.value \in Nat
         /\ Shift(tx.token, tx.storeman, 0, -tx.value, -tx.value)
         /\ IsExist(tx.token, tx.storeman) /\ Closes(userTxs, userTxs', x)
         /\ supply[tx.token] >= tx.value /\ custody[tx.token] >= tx.value
         /\ supply' = [supply EXCEPT ![tx.token] = @ - tx.value]
         /\ custody' = [custody EXCEPT ![tx.token] = @ - tx.value]
         /\ xHashFee' = [xHashFee EXCEPT ![x] = 0]
         /\ storemanFee' = [storemanFee EXCEPT ![tx.storeman] = @ + xHashFee[x]]
         /\ UNCHANGED <<smgTxs, debtTxs, wan>>
<1>1. /\ IsLocked(userTxs, x) /\ userTxs' = Close(userTxs, x, "Redeemed")
      /\ QuotaOutRedeem(tx.token, tx.storeman, tx.value) /\ QuotaInv
  BY DEF OutSmgRedeem, WanInv
<1>2. tx.token \in Tokens /\ tx.storeman \in Storemen /\ tx.value \in Nat
  BY <1>1, LockedUser
<1>3. Closes(userTxs, userTxs', x)
  BY <1>1, UserClosed DEF Closes, IsLocked
<1>4. Shift(tx.token, tx.storeman, 0, -tx.value, -tx.value)
  BY <1>1, <1>2, OutRedeemShifts
<1> QED
  BY <1>1, <1>2, <1>3, <1>4 DEF OutSmgRedeem, QuotaOutRedeem, EarnFee

LEMMA OutUserRevokeDoes ==
  ASSUME WanInv, NEW x \in XHashes, OutUserRevoke(x), NEW tx, tx = userTxs[x]
  PROVE  /\ tx.token \in Tokens /\ tx.storeman \in Storemen /\ tx.value \in Nat
         /\ Shift(tx.token, tx.storeman, 0, -tx.value, 0)
         /\ IsExist(tx.token, tx.storeman) /\ Closes(userTxs, userTxs', x)
         /\ custody[tx.token] >= tx.value
         /\ custody' = [custody EXCEPT ![tx.token] = @ - tx.value]
         /\ RevokeFee(x) \in Nat
         /\ wan' = wan - (xHashFee[x] - RevokeFee(x))
         /\ xHashFee' = [xHashFee EXCEPT ![x] = 0]
         /\ storemanFee' = [storemanFee EXCEPT ![tx.storeman] = @ + RevokeFee(x)]
         /\ UNCHANGED <<smgTxs, debtTxs, supply>>
<1>1. /\ IsLocked(userTxs, x) /\ userTxs' = Close(userTxs, x, "Revoked")
      /\ QuotaOutRevoke(tx.token, tx.storeman, tx.value) /\ QuotaInv
  BY DEF OutUserRevoke, WanInv
<1>2. tx.token \in Tokens /\ tx.storeman \in Storemen /\ tx.value \in Nat
  BY <1>1, LockedUser
<1>3. Closes(userTxs, userTxs', x)
  BY <1>1, UserClosed DEF Closes, IsLocked
<1>4. Shift(tx.token, tx.storeman, 0, -tx.value, 0)
  BY <1>1, <1>2, OutRevokeShifts
<1>5. RevokeFee(x) \in Nat
  BY RevokeFeeType
<1> QED
  BY <1>1, <1>2, <1>3, <1>4, <1>5 DEF OutUserRevoke, QuotaOutRevoke, EarnFee

LEMMA InDebtLockDoes ==
  ASSUME WanInv, NEW t \in Tokens, NEW x \in XHashes, NEW src \in Storemen, NEW v \in Values,
         NEW dst \in Storemen, InDebtLock(t, x, src, v, dst)
  PROVE  /\ v \in Nat /\ v > 0 /\ src # dst /\ PassOn(t, src, dst, v, 0)
         /\ Opens(debtTxs, debtTxs', x, t, dst, v) /\ debtTxs'[x].src = src
         /\ IsActive(t, dst) /\ NotActive(t, src)
         /\ quotas[t][src].receivable = 0 /\ quotas[t][src].payable = 0
         /\ UNCHANGED <<userTxs, smgTxs, xHashFee, storemanFee, supply, custody, wan>>
<1>1. v \in Nat
  BY WanConstants
<1>2. Opens(debtTxs, debtTxs', x, t, dst, v) /\ debtTxs'[x].src = src
  BY DEF InDebtLock, Opens, WanInv, TablesOK
<1>3. /\ QuotaInv /\ QuotaDebtLock(t, v, src, dst) /\ src # dst
      /\ IsActive(t, dst) /\ NotActive(t, src) /\ v > 0
      /\ quotas[t][src].receivable = 0 /\ quotas[t][src].payable = 0
  BY DEF WanInv, InDebtLock, QuotaDebtLock, IsActive, NotActive
<1>4. PassOn(t, src, dst, v, 0)
  BY <1>1, <1>3, DebtLockPasses
<1> QED
  BY <1>1, <1>2, <1>3, <1>4 DEF InDebtLock

LEMMA InDebtRedeemDoes ==
  ASSUME WanInv, NEW x \in XHashes, InDebtRedeem(x), NEW tx, tx = debtTxs[x]
  PROVE  /\ tx.token \in Tokens /\ tx.storeman \in Storemen /\ tx.src \in Storemen
         /\ tx.value \in Nat /\ tx.src # tx.storeman
         /\ PassOn(tx.token, tx.src, tx.storeman, -tx.value, tx.value)
         /\ IsExist(tx.token, tx.storeman) /\ IsExist(tx.token, tx.src)
         /\ Closes(debtTxs, debtTxs', x)
         /\ UNCHANGED <<userTxs, smgTxs, xHashFee, storemanFee, supply, custody, wan>>
<1>1. /\ IsLocked(debtTxs, x) /\ debtTxs' = Close(debtTxs, x, "Redeemed")
      /\ QuotaDebtRedeem(tx.token, tx.value, tx.src, tx.storeman) /\ QuotaInv
  BY DEF InDebtRedeem, WanInv
<1>2. /\ tx.token \in Tokens /\ tx.storeman \in Storemen /\ tx.src \in Storemen
      /\ tx.value \in Nat /\ tx.src # tx.storeman
  BY <1>1, LockedDebt
<1>3. Closes(debtTxs, debtTxs', x)
  BY <1>1, DebtClosed DEF Closes, IsLocked
<1>4. PassOn(tx.token, tx.src, tx.storeman, -tx.value, tx.value)
  BY <1>1, <1>2, DebtRedeemPasses
<1> QED
  BY <1>1, <1>2, <1>3, <1>4 DEF InDebtRedeem, QuotaDebtRedeem, NotActive

LEMMA InDebtRevokeDoes ==
  ASSUME WanInv, NEW x \in XHashes, InDebtRevoke(x), NEW tx, tx = debtTxs[x]
  PROVE  /\ tx.token \in Tokens /\ tx.storeman \in Storemen /\ tx.src \in Storemen
         /\ tx.value \in Nat /\ tx.src # tx.storeman
         /\ PassOn(tx.token, tx.src, tx.storeman, -tx.value, 0)
         /\ IsExist(tx.token, tx.storeman) /\ IsExist(tx.token, tx.src)
         /\ Closes(debtTxs, debtTxs', x)
         /\ UNCHANGED <<userTxs, smgTxs, xHashFee, storemanFee, supply, custody, wan>>
<1>1. /\ IsLocked(debtTxs, x) /\ debtTxs' = Close(debtTxs, x, "Revoked")
      /\ QuotaDebtRevoke(tx.token, tx.value, tx.src, tx.storeman) /\ QuotaInv
  BY DEF InDebtRevoke, WanInv
<1>2. /\ tx.token \in Tokens /\ tx.storeman \in Storemen /\ tx.src \in Storemen
      /\ tx.value \in Nat /\ tx.src # tx.storeman
  BY <1>1, LockedDebt
<1>3. Closes(debtTxs, debtTxs', x)
  BY <1>1, DebtClosed DEF Closes, IsLocked
<1>4. PassOn(tx.token, tx.src, tx.storeman, -tx.value, 0)
  BY <1>1, <1>2, DebtRevokePasses
<1> QED
  BY <1>1, <1>2, <1>3, <1>4 DEF InDebtRevoke, QuotaDebtRevoke, NotActive

(* The group admin. *)
AdminShift ==
  \A t \in Tokens, p \in Storemen :
    /\ quotas'[t][p].receivable = quotas[t][p].receivable
    /\ quotas'[t][p].payable = quotas[t][p].payable
    /\ quotas'[t][p].debt = quotas[t][p].debt
    /\ IsExist(t, p) /\ ~IsDebtPaidOff(t, p) => quotas'[t][p].quota # 0
    /\ IsExist(t, p) /\ quotas'[t][p].active => quotas[t][p].active
    /\ quotas'[t][p].quota = 0 => \/ quotas'[t][p] = NoQuota
                                  \/ quotas[t][p].quota = 0

(* A group that does not exist owes nothing and is owed nothing. *)
GoneAreClear == \A t \in Tokens, p \in Storemen : ~IsExist(t, p) => IsDebtPaidOff(t, p)

LEMMA AdminDoes ==
  ASSUME WanInv, GoneAreClear, AdminNext
  PROVE  AdminShift /\ UNCHANGED htlcVars
<1>0. QuotaInv /\ quotas \in [Tokens -> [Storemen -> Quota]]
  BY DEF WanInv, QuotaInv, QuotaTypeOK
<1>1. ASSUME NEW r \in RevokeRatios, SetEconomics(r)
      PROVE  AdminShift /\ UNCHANGED htlcVars
  BY <1>1 DEF SetEconomics, AdminShift, IsExist, IsDebtPaidOff
<1>2. ASSUME NEW h \in BOOLEAN, SetHalt(h)
      PROVE  AdminShift /\ UNCHANGED htlcVars
  BY <1>2 DEF SetHalt, AdminShift, IsExist, IsDebtPaidOff
<1>3. ASSUME NEW t \in Tokens, NEW p \in Storemen, NEW q \in Quotas, NEW r \in TxFeeRatios,
             AddStoremanGroup(t, p, q, r)
      PROVE  AdminShift /\ UNCHANGED htlcVars
  <2>1. ~IsExist(t, p) /\ IsDebtPaidOff(t, p) /\ q > 0 /\ q \in Nat
    BY <1>3, WanConstants DEF AddStoremanGroup, QuotaAdd, GoneAreClear
  <2>2. /\ quotas'[t][p].receivable = 0 /\ quotas'[t][p].payable = 0 /\ quotas'[t][p].debt = 0
        /\ quotas'[t][p].quota = q
        /\ \A u \in Tokens, o \in Storemen : u # t \/ o # p => quotas'[u][o] = quotas[u][o]
    BY <1>0, <1>3 DEF AddStoremanGroup, QuotaAdd
  <2> QED
    BY <1>3, <2>1, <2>2 DEF AddStoremanGroup, AdminShift, IsExist, IsDebtPaidOff
<1>4. ASSUME NEW t \in Tokens, NEW p \in Storemen, DeactivateStoremanGroup(t, p)
      PROVE  AdminShift /\ UNCHANGED htlcVars
  <2>1. /\ quotas'[t][p].receivable = quotas[t][p].receivable
        /\ quotas'[t][p].payable = quotas[t][p].payable
        /\ quotas'[t][p].debt = quotas[t][p].debt
        /\ quotas'[t][p].quota = quotas[t][p].quota /\ quotas'[t][p].active = FALSE
        /\ \A u \in Tokens, o \in Storemen : u # t \/ o # p => quotas'[u][o] = quotas[u][o]
    BY <1>0, <1>4 DEF DeactivateStoremanGroup, QuotaDeactivate, Quota
  <2> QED
    BY <1>4, <2>1 DEF DeactivateStoremanGroup, AdminShift, IsExist, IsDebtPaidOff
<1>5. ASSUME NEW t \in Tokens, NEW p \in Storemen, DelStoremanGroup(t, p)
      PROVE  AdminShift /\ UNCHANGED htlcVars
  <2>1. /\ IsDebtPaidOff(t, p) /\ quotas'[t][p] = NoQuota
        /\ \A u \in Tokens, o \in Storemen : u # t \/ o # p => quotas'[u][o] = quotas[u][o]
    BY <1>0, <1>5 DEF DelStoremanGroup, QuotaDel
  <2> QED
    BY <1>5, <2>1 DEF DelStoremanGroup, AdminShift, IsExist, IsDebtPaidOff, NoQuota
<1>6. ASSUME NEW t \in Tokens, NEW p \in Storemen, NEW q \in Quotas, UpdateStoremanGroup(t, p, q)
      PROVE  AdminShift /\ UNCHANGED htlcVars
  <2>1. /\ quotas'[t][p].receivable = quotas[t][p].receivable
        /\ quotas'[t][p].payable = quotas[t][p].payable
        /\ quotas'[t][p].debt = quotas[t][p].debt
        /\ quotas'[t][p].quota = q /\ quotas'[t][p].active = quotas[t][p].active
        /\ q > 0 /\ q \in Nat
        /\ \A u \in Tokens, o \in Storemen : u # t \/ o # p => quotas'[u][o] = quotas[u][o]
    BY <1>0, <1>6, WanConstants DEF UpdateStoremanGroup, QuotaUpdate, Quota
  <2> QED
    BY <1>6, <2>1 DEF UpdateStoremanGroup, AdminShift, IsExist, IsDebtPaidOff
<1> QED
  BY <1>1, <1>2, <1>3, <1>4, <1>5, <1>6 DEF AdminNext

-----------------------------------------------------------------------------
(* The kinds of steps, as the accounts see them: a transaction opens or    *)
(* closes and the counters of its group follow, or no transaction changes. *)

coins == <<xHashFee, storemanFee, wan>>

SmgOpens ==
  \E x \in XHashes, t \in Tokens, p \in Storemen, v \in Nat :
    /\ v > 0 /\ IsActive(t, p) /\ Shift(t, p, v, 0, 0)
    /\ Opens(smgTxs, smgTxs', x, t, p, v)
    /\ UNCHANGED <<userTxs, debtTxs, coins, supply, custody>>

SmgCloses ==
  \E x \in XHashes, t \in Tokens, p \in Storemen, v, minted \in Nat :
    /\ smgTxs[x].token = t /\ smgTxs[x].storeman = p /\ smgTxs[x].value = v
    /\ IsExist(t, p) /\ Shift(t, p, -v, 0, minted)
    /\ Closes(smgTxs, smgTxs', x)
    /\ \A u \in Tokens : supply'[u] = supply[u] + IF u = t THEN minted ELSE 0
    /\ UNCHANGED <<userTxs, debtTxs, coins, custody>>

UserOpens ==
  \E x \in XHashes, t \in Tokens, p \in Storemen, v, fee \in Nat :
    /\ v > 0 /\ IsActive(t, p) /\ Shift(t, p, 0, v, 0)
    /\ Opens(userTxs, userTxs', x, t, p, v)
    /\ \A u \in Tokens : custody'[u] = custody[u] + IF u = t THEN v ELSE 0
    /\ xHashFee'[x] = fee /\ (\A y \in XHashes \ {x} : xHashFee'[y] = xHashFee[y])
    /\ wan' = wan + fee
    /\ UNCHANGED <<smgTxs, debtTxs, storemanFee, supply>>

UserCloses ==
  \E x \in XHashes, t \in Tokens, p \in Storemen, v, burnt, earned \in Nat :
    /\ userTxs[x].token = t /\ userTxs[x].storeman = p /\ userTxs[x].value = v
    /\ IsExist(t, p) /\ Shift(t, p, 0, -v, -burnt)
    /\ Closes(userTxs, userTxs', x)
    /\ \A u \in Tokens : supply'[u] = supply[u] - IF u = t THEN burnt ELSE 0
    /\ \A u \in Tokens : custody'[u] = custody[u] - IF u = t THEN v ELSE 0
    /\ xHashFee'[x] = 0 /\ (\A y \in XHashes \ {x} : xHashFee'[y] = xHashFee[y])
    /\ storemanFee'[p] = storemanFee[p] + earned
    /\ \A r \in Storemen \ {p} : storemanFee'[r] = storemanFee[r]
    /\ wan' = wan - (xHashFee[x] - earned)
    /\ UNCHANGED <<smgTxs, debtTxs>>

DebtOpens ==
  \E x \in XHashes, t \in Tokens, src, dst \in Storemen, v \in Nat :
    /\ v > 0 /\ src # dst /\ IsActive(t, dst) /\ NotActive(t, src)
    /\ PassOn(t, src, dst, v, 0)
    /\ quotas[t][src].receivable = 0 /\ quotas[t][src].payable = 0
    /\ Opens(debtTxs, debtTxs', x, t, dst, v) /\ debtTxs'[x].src = src
    /\ UNCHANGED <<userTxs, smgTxs, coins, supply, custody>>

DebtCloses ==
  \E x \in XHashes, t \in Tokens, src, dst \in Storemen, v, moved \in Nat :
    /\ debtTxs[x].token = t /\ debtTxs[x].storeman = dst /\ debtTxs[x].value = v
    /\ debtTxs[x].src = src /\ src # dst
    /\ IsExist(t, dst) /\ IsExist(t, src) /\ PassOn(t, src, dst, -v, moved)
    /\ Closes(debtTxs, debtTxs', x)
    /\ UNCHANGED <<userTxs, smgTxs, coins, supply, custody>>

Administers == AdminShift /\ UNCHANGED htlcVars

KindOfStep ==
  \/ SmgOpens \/ SmgCloses \/ UserOpens \/ UserCloses \/ DebtOpens \/ DebtCloses
  \/ Administers
  \/ \E p \in Storemen : SmgWithdrawFee(p)
  \/ \E t \in Tokens, v \in Values : TransferToHtlc(t, v)
  \/ WanTick

LEMMA StepHasKind ==
  ASSUME WanInv, GoneAreClear, [WanNext]_wanVars
  PROVE  KindOfStep
<1>0. /\ supply \in [Tokens -> Nat] /\ custody \in [Tokens -> Nat]
      /\ xHashFee \in [XHashes -> Nat] /\ storemanFee \in [Storemen -> Nat]
  BY DEF WanInv, MoneyOK
<1>1. ASSUME NEW u \in Users, NEW t \in Tokens, NEW v \in Values, NEW x \in XHashes,
             NEW p \in Storemen, InSmgLock(u, t, v, x, p)
      PROVE  SmgOpens
  BY <1>1, InSmgLockDoes DEF SmgOpens, coins
<1>2. ASSUME NEW u \in Users, NEW x \in XHashes, InUserRedeem(u, x)
      PROVE  SmgCloses
  <2> DEFINE tx == smgTxs[x]
  <2>1. /\ tx.token \in Tokens /\ tx.storeman \in Storemen /\ tx.value \in Nat
        /\ Shift(tx.token, tx.storeman, -tx.value, 0, tx.value)
        /\ IsExist(tx.token, tx.storeman) /\ Closes(smgTxs, smgTxs', x)
        /\ supply' = [supply EXCEPT ![tx.token] = @ + tx.value]
        /\ UNCHANGED <<userTxs, debtTxs, xHashFee, storemanFee, custody, wan>>
    BY <1>2, InUserRedeemDoes
  <2>2. \A w \in Tokens : supply'[w] = supply[w] + IF w = tx.token THEN tx.value ELSE 0
    BY <1>0, <2>1
  <2> QED
    BY <2>1, <2>2 DEF SmgCloses, coins
<1>3. ASSUME NEW x \in XHashes, InSmgRevoke(x)
      PROVE  SmgCloses
  <2> DEFINE tx == smgTxs[x]
  <2>1. /\ tx.token \in Tokens /\ tx.storeman \in Storemen /\ tx.value \in Nat
        /\ Shift(tx.token, tx.storeman, -tx.value, 0, 0)
        /\ IsExist(tx.token, tx.storeman) /\ Closes(smgTxs, smgTxs', x)
        /\ UNCHANGED <<userTxs, debtTxs, xHashFee, storemanFee, supply, custody, wan>>
    BY <1>3, InSmgRevokeDoes
  <2>2. \A w \in Tokens : supply'[w] = supply[w] + IF w = tx.token THEN 0 ELSE 0
    BY <1>0, <2>1
  <2> QED
    BY <2>1, <2>2 DEF SmgCloses, coins
<1>4. ASSUME NEW u \in Users, NEW t \in Tokens, NEW v \in Values, NEW x \in XHashes,
             NEW p \in Storemen, NEW price \in Prices, OutUserLock(u, t, v, x, p, price)
      PROVE  UserOpens
  <2> DEFINE fee == OutboundFee(t, p, v, price)
  <2>1. /\ v \in Nat /\ v > 0 /\ IsActive(t, p) /\ Shift(t, p, 0, v, 0)
        /\ Opens(userTxs, userTxs', x, t, p, v)
        /\ custody' = [custody EXCEPT ![t] = @ + v]
        /\ xHashFee' = [xHashFee EXCEPT ![x] = fee]
        /\ wan' = wan + fee /\ fee \in Nat
        /\ UNCHANGED <<smgTxs, debtTxs, storemanFee, supply>>
    BY <1>4, OutUserLockDoes
  <2> HIDE DEF fee
  <2>2. /\ \A w \in Tokens : custody'[w] = custody[w] + IF w = t THEN v ELSE 0
        /\ xHashFee'[x] = fee /\ \A y \in XHashes \ {x} : xHashFee'[y] = xHashFee[y]
    BY <1>0, <2>1
  <2> QED
    BY <2>1, <2>2 DEF UserOpens
<1>5. ASSUME NEW x \in XHashes, OutSmgRedeem(x)
      PROVE  UserCloses
  <2> DEFINE tx == userTxs[x]
             earned == xHashFee[x]
  <2>1. /\ tx.token \in Tokens /\ tx.storeman \in Storemen /\ tx.value \in Nat
        /\ Shift(tx.token, tx.storeman, 0, -tx.value, -tx.value)
        /\ IsExist(tx.token, tx.storeman) /\ Closes(userTxs, userTxs', x)
        /\ supply' = [supply EXCEPT ![tx.token] = @ - tx.value]
        /\ custody' = [custody EXCEPT ![tx.token] = @ - tx.value]
        /\ xHashFee' = [xHashFee EXCEPT ![x] = 0]
        /\ storemanFee' = [storemanFee EXCEPT ![tx.storeman] = @ + xHashFee[x]]
        /\ UNCHANGED <<smgTxs, debtTxs, wan>>
    BY <1>5, OutSmgRedeemDoes
  <2>2. /\ \A w \in Tokens : supply'[w] = supply[w] - IF w = tx.token THEN tx.value ELSE 0
        /\ \A w \in Tokens : custody'[w] = custody[w] - IF w = tx.token THEN tx.value ELSE 0
    BY <1>0, <2>1
  <2>3. /\ xHashFee'[x] = 0 /\ \A y \in XHashes \ {x} : xHashFee'[y] = xHashFee[y]
        /\ earned \in Nat
        /\ storemanFee'[tx.storeman] = storemanFee[tx.storeman] + earned
        /\ \A r \in Storemen \ {tx.storeman} : storemanFee'[r] = storemanFee[r]
    BY <1>0, <2>1
  <2>4. wan' = wan - (xHashFee[x] - earned)
    BY <1>0, <2>1 DEF WanInv, MoneyOK
  <2> HIDE DEF earned
  <2> QED
    BY <2>1, <2>2, <2>3, <2>4 DEF UserCloses
<1>6. ASSUME NEW x \in XHashes, OutUserRevoke(x)
      PROVE  UserCloses
  <2> DEFINE tx == userTxs[x]
             earned == RevokeFee(x)
  <2>1. /\ tx.token \in Tokens /\ tx.storeman \in Storemen /\ tx.value \in Nat
        /\ Shift(tx.token, tx.storeman, 0, -tx.value, 0)
        /\ IsExist(tx.token, tx.storeman) /\ Closes(userTxs, userTxs', x)
        /\ custody' = [custody EXCEPT ![tx.token] = @ - tx.value]
        /\ earned \in Nat
        /\ wan' = wan - (xHashFee[x] - earned)
        /\ xHashFee' = [xHashFee EXCEPT ![x] = 0]
        /\ storemanFee' = [storemanFee EXCEPT ![tx.storeman] = @ + earned]
        /\ UNCHANGED <<smgTxs, debtTxs, supply>>
    BY <1>6, OutUserRevokeDoes
  <2> HIDE DEF earned
  <2>2. /\ \A w \in Tokens : supply'[w] = supply[w] - IF w = tx.token THEN 0 ELSE 0
        /\ \A w \in Tokens : custody'[w] = custody[w] - IF w = tx.token THEN tx.value ELSE 0
    BY <1>0, <2>1
  <2>3. /\ xHashFee'[x] = 0 /\ \A y \in XHashes \ {x} : xHashFee'[y] = xHashFee[y]
        /\ storemanFee'[tx.storeman] = storemanFee[tx.storeman] + earned
        /\ \A r \in Storemen \ {tx.storeman} : storemanFee'[r] = storemanFee[r]
    BY <1>0, <2>1
  <2>4. Shift(tx.token, tx.storeman, 0, -tx.value, -0)
    BY <2>1
  <2> QED
    BY <2>1, <2>2, <2>3, <2>4 DEF UserCloses
<1>7. ASSUME NEW t \in Tokens, NEW x \in XHashes, NEW src \in Storemen, NEW dst \in Storemen,
             NEW v \in Values, InDebtLock(t, x, src, v, dst)
      PROVE  DebtOpens
  BY <1>7, InDebtLockDoes DEF DebtOpens, coins
<1>8. ASSUME NEW x \in XHashes, InDebtRedeem(x)
      PROVE  DebtCloses
  <2> DEFINE tx == debtTxs[x]
  <2>1. /\ tx.token \in Tokens /\ tx.storeman \in Storemen /\ tx.src \in Storemen
        /\ tx.value \in Nat /\ tx.src # tx.storeman
        /\ PassOn(tx.token, tx.src, tx.storeman, -tx.value, tx.value)
        /\ IsExist(tx.token, tx.storeman) /\ IsExist(tx.token, tx.src)
        /\ Closes(debtTxs, debtTxs', x)
        /\ UNCHANGED <<userTxs, smgTxs, xHashFee, storemanFee, supply, custody, wan>>
    BY <1>8, InDebtRedeemDoes
  <2> QED
    BY <2>1 DEF DebtCloses, coins
<1>9. ASSUME NEW x \in XHashes, InDebtRevoke(x)
      PROVE  DebtCloses
  <2> DEFINE tx == debtTxs[x]
  <2>1. /\ tx.token \in Tokens /\ tx.storeman \in Storemen /\ tx.src \in Storemen
        /\ tx.value \in Nat /\ tx.src # tx.storeman
        /\ PassOn(tx.token, tx.src, tx.storeman, -tx.value, 0)
        /\ IsExist(tx.token, tx.storeman) /\ IsExist(tx.token, tx.src)
        /\ Closes(debtTxs, debtTxs', x)
        /\ UNCHANGED <<userTxs, smgTxs, xHashFee, storemanFee, supply, custody, wan>>
    BY <1>9, InDebtRevokeDoes
  <2> QED
    BY <2>1 DEF DebtCloses, coins
<1>10. CASE AdminNext
  BY <1>10, AdminDoes DEF KindOfStep, Administers
<1>11. CASE UNCHANGED wanVars
  BY <1>11 DEF wanVars, htlcVars, KindOfStep, Administers, AdminShift, IsExist, IsDebtPaidOff
<1> QED
  BY <1>1, <1>2, <1>3, <1>4, <1>5, <1>6, <1>7, <1>8, <1>9, <1>10, <1>11
  DEF WanNext, InboundNext, OutboundNext, DebtNext, KindOfStep

-----------------------------------------------------------------------------
(* The time that passes changes no sum. *)

LEMMA AgedRows ==
  ASSUME WanInv, WanTick
  PROVE  /\ UNCHANGED quotas
         /\ \A x \in XHashes : /\ userTxs'[x].status = userTxs[x].status
                               /\ smgTxs'[x].status = smgTxs[x].status
                               /\ debtTxs'[x].status = debtTxs[x].status
         /\ \A x \in Locked(userTxs) : /\ userTxs'[x].value = userTxs[x].value
                                       /\ userTxs'[x].token = userTxs[x].token
                                       /\ userTxs'[x].storeman = userTxs[x].storeman
         /\ \A x \in Locked(smgTxs) : /\ smgTxs'[x].value = smgTxs[x].value
                                      /\ smgTxs'[x].token = smgTxs[x].token
                                      /\ smgTxs'[x].storeman = smgTxs[x].storeman
         /\ \A x \in Locked(debtTxs) : /\ debtTxs'[x].value = debtTxs[x].value
                                       /\ debtTxs'[x].token = debtTxs[x].token
                                       /\ debtTxs'[x].storeman = debtTxs[x].storeman
                                       /\ debtTxs'[x].src = debtTxs[x].src
<1>1. Older(NoTx) = NoTx
  BY DEF Older
<1>2. ASSUME NEW r \in UserTx
      PROVE  /\ Older(r).status = r.status /\ Older(r).value = r.value
             /\ Older(r).token = r.token /\ Older(r).storeman = r.storeman
  BY RowsAge DEF Older, UserTx
<1>3. ASSUME NEW r \in SmgTx
      PROVE  /\ Older(r).status = r.status /\ Older(r).value = r.value
             /\ Older(r).token = r.token /\ Older(r).storeman = r.storeman
  BY RowsAge DEF Older, SmgTx
<1>4. ASSUME NEW r \in DebtTx
      PROVE  /\ Older(r).status = r.status /\ Older(r).value = r.value
             /\ Older(r).token = r.token /\ Older(r).storeman = r.storeman
             /\ Older(r).src = r.src
  BY RowsAge DEF Older, DebtTx
<1>5. \A x \in XHashes : /\ userTxs'[x] = Older(userTxs[x]) /\ smgTxs'[x] = Older(smgTxs[x])
                         /\ debtTxs'[x] = Older(debtTxs[x])
                         /\ userTxs[x] \in UserTx \/ userTxs[x] = NoTx
                         /\ smgTxs[x] \in SmgTx \/ smgTxs[x] = NoTx
                         /\ debtTxs[x] \in DebtTx \/ debtTxs[x] = NoTx
  BY DEF WanTick, Aged, WanInv, TablesOK
<1>6. ~("None" = "Locked") /\ NoTx.status = "None"
  BY DEF NoTx
<1> QED
  BY <1>1, <1>2, <1>3, <1>4, <1>5, <1>6 DEF Locked, WanTick

-----------------------------------------------------------------------------
(* A group that does not exist stays clear of transactions. *)

LEMMA ClearShift ==
  ASSUME WanInv, GoneAreClear, NEW t \in Tokens, NEW p \in Storemen, IsExist(t, p),
         NEW dr \in Int, NEW dp \in Int, NEW dd \in Int, Shift(t, p, dr, dp, dd)
  PROVE  GoneAreClear'
<1> SUFFICES ASSUME NEW u \in Tokens, NEW r \in Storemen, quotas'[u][r].quota = 0
             PROVE  /\ quotas'[u][r].receivable = 0 /\ quotas'[u][r].payable = 0
                    /\ quotas'[u][r].debt = 0
  BY DEF GoneAreClear, IsExist, IsDebtPaidOff
<1>1. quotas[u][r].quota = 0 /\ ~(u = t /\ r = p)
  BY DEF Shift, Keeps, IsExist
<1>2. quotas[u][r].receivable = 0 /\ quotas[u][r].payable = 0 /\ quotas[u][r].debt = 0
  BY <1>1 DEF GoneAreClear, IsExist, IsDebtPaidOff
<1> QED
  BY <1>1, <1>2 DEF Shift

LEMMA ClearPassOn ==
  ASSUME WanInv, GoneAreClear, NEW t \in Tokens, NEW src \in Storemen, NEW dst \in Storemen,
         IsExist(t, src), IsExist(t, dst), NEW d \in Int, NEW moved \in Int,
         PassOn(t, src, dst, d, moved)
  PROVE  GoneAreClear'
<1> SUFFICES ASSUME NEW u \in Tokens, NEW r \in Storemen, quotas'[u][r].quota = 0
             PROVE  /\ quotas'[u][r].receivable = 0 /\ quotas'[u][r].payable = 0
                    /\ quotas'[u][r].debt = 0
  BY DEF GoneAreClear, IsExist, IsDebtPaidOff
<1>1. quotas[u][r].quota = 0 /\ ~(u = t /\ r = dst) /\ ~(u = t /\ r = src)
  BY DEF PassOn, Keeps, IsExist
<1>2. quotas[u][r].receivable = 0 /\ quotas[u][r].payable = 0 /\ quotas[u][r].debt = 0
  BY <1>1 DEF GoneAreClear, IsExist, IsDebtPaidOff
<1> QED
  BY <1>1, <1>2 DEF PassOn

LEMMA ClearAdmin ==
  ASSUME GoneAreClear, AdminShift
  PROVE  GoneAreClear'
<1> SUFFICES ASSUME NEW u \in Tokens, NEW r \in Storemen, quotas'[u][r].quota = 0
             PROVE  /\ quotas'[u][r].receivable = 0 /\ quotas'[u][r].payable = 0
                    /\ quotas'[u][r].debt = 0
  BY DEF GoneAreClear, IsExist, IsDebtPaidOff
<1>1. quotas'[u][r] = NoQuota \/ quotas[u][r].quota = 0
  BY DEF AdminShift
<1>2. CASE quotas'[u][r] = NoQuota
  BY <1>2 DEF NoQuota
<1>3. CASE quotas[u][r].quota = 0
  BY <1>3 DEF GoneAreClear, IsExist, IsDebtPaidOff, AdminShift
<1> QED
  BY <1>1, <1>2, <1>3

LEMMA GoneStayClear ==
  ASSUME WanInv, GoneAreClear, KindOfStep
  PROVE  GoneAreClear'
<1>1. CASE SmgOpens
  BY <1>1, ClearShift DEF SmgOpens, IsActive
<1>2. CASE SmgCloses
  <2>1. PICK x \in XHashes, t \in Tokens, p \in Storemen, v \in Nat, minted \in Nat :
          IsExist(t, p) /\ Shift(t, p, -v, 0, minted)
    BY <1>2 DEF SmgCloses
  <2>2. -v \in Int /\ minted \in Int
    OBVIOUS
  <2> QED
    BY <2>1, <2>2, ClearShift
<1>3. CASE UserOpens
  BY <1>3, ClearShift DEF UserOpens, IsActive
<1>4. CASE UserCloses
  <2>1. PICK x \in XHashes, t \in Tokens, p \in Storemen, v \in Nat, burnt \in Nat :
          IsExist(t, p) /\ Shift(t, p, 0, -v, -burnt)
    BY <1>4 DEF UserCloses
  <2>2. -v \in Int /\ -burnt \in Int
    OBVIOUS
  <2> QED
    BY <2>1, <2>2, ClearShift
<1>5. CASE DebtOpens
  BY <1>5, ClearPassOn DEF DebtOpens, IsActive, NotActive
<1>6. CASE DebtCloses
  <2>1. PICK x \in XHashes, t \in Tokens, src \in Storemen, dst \in Storemen,
             v \in Nat, moved \in Nat :
          IsExist(t, src) /\ IsExist(t, dst) /\ PassOn(t, src, dst, -v, moved)
    BY <1>6 DEF DebtCloses
  <2>2. -v \in Int /\ moved \in Int
    OBVIOUS
  <2> QED
    BY <2>1, <2>2, ClearPassOn
<1>7. CASE Administers
  BY <1>7, ClearAdmin DEF Administers
<1>8. ASSUME UNCHANGED quotas
      PROVE  GoneAreClear'
  BY <1>8 DEF GoneAreClear, IsExist, IsDebtPaidOff
<1> QED
  BY <1>1, <1>2, <1>3, <1>4, <1>5, <1>6, <1>7, <1>8
  DEF KindOfStep, SmgWithdrawFee, TransferToHtlc, WanTick

-----------------------------------------------------------------------------
(* The counters follow every kind of step. *)

LEMMA OpensPending ==
  ASSUME NEW table, NEW ntable, NEW x, NEW t, NEW p, NEW v \in Nat,
         Opens(table, ntable, x, t, p, v)
  PROVE  \A u, r : Pending(ntable[x], u, r) - Pending(table[x], u, r)
                     = IF u = t /\ r = p THEN v ELSE 0
<1>1. table[x].status # "Locked" /\ ntable[x].status = "Locked"
  BY DEF Opens, NoTx
<1>2. \A u, r : Pending(table[x], u, r) = 0
  BY <1>1, NothingPending
<1>3. \A u, r : Pending(ntable[x], u, r) = IF u = t /\ r = p THEN v ELSE 0
  BY <1>1, LockPending DEF Opens
<1> QED
  BY <1>2, <1>3

LEMMA ClosesPending ==
  ASSUME NEW table, NEW ntable, NEW x, NEW t, NEW p, NEW v \in Nat,
         Closes(table, ntable, x),
         table[x].token = t, table[x].storeman = p, table[x].value = v
  PROVE  \A u, r : Pending(ntable[x], u, r) - Pending(table[x], u, r)
                     = IF u = t /\ r = p THEN -v ELSE 0
<1>1. table[x].status = "Locked" /\ ntable[x].status # "Locked"
  BY DEF Closes
<1>2. \A u, r : Pending(ntable[x], u, r) = 0
  BY <1>1, NothingPending
<1>3. \A u, r : Pending(table[x], u, r) = IF u = t /\ r = p THEN v ELSE 0
  BY <1>1, LockPending
<1> QED
  BY <1>2, <1>3

LEMMA OpensPendingFrom ==
  ASSUME NEW table, NEW ntable, NEW x, NEW t, NEW p, NEW v \in Nat,
         Opens(table, ntable, x, t, p, v)
  PROVE  \A u, r : PendingFrom(ntable[x], u, r) - PendingFrom(table[x], u, r)
                     = IF u = t /\ r = ntable[x].src THEN v ELSE 0
<1>1. table[x].status # "Locked" /\ ntable[x].status = "Locked"
  BY DEF Opens, NoTx
<1>2. \A u, r : PendingFrom(table[x], u, r) = 0
  BY <1>1, NothingPending
<1>3. \A u, r : PendingFrom(ntable[x], u, r) = IF u = t /\ r = ntable[x].src THEN v ELSE 0
  BY <1>1, LockPending DEF Opens
<1> QED
  BY <1>2, <1>3

LEMMA ClosesPendingFrom ==
  ASSUME NEW table, NEW ntable, NEW x, NEW t, NEW v \in Nat,
         Closes(table, ntable, x), table[x].token = t, table[x].value = v
  PROVE  \A u, r : PendingFrom(ntable[x], u, r) - PendingFrom(table[x], u, r)
                     = IF u = t /\ r = table[x].src THEN -v ELSE 0
<1>1. table[x].status = "Locked" /\ ntable[x].status # "Locked"
  BY DEF Closes
<1>2. \A u, r : PendingFrom(ntable[x], u, r) = 0
  BY <1>1, NothingPending
<1>3. \A u, r : PendingFrom(table[x], u, r) = IF u = t /\ r = table[x].src THEN v ELSE 0
  BY <1>1, LockPending
<1> QED
  BY <1>2, <1>3

LEMMA CountersTick ==
  ASSUME IsFiniteSet(XHashes), WanInv, CountersMatchPending, WanTick
  PROVE  CountersMatchPending'
<1>1. ValuesAreNat(userTxs) /\ ValuesAreNat(smgTxs) /\ ValuesAreNat(debtTxs)
  BY LockedValues DEF WanInv, TablesOK
<1> SUFFICES ASSUME NEW t \in Tokens, NEW p \in Storemen
             PROVE  Counters(quotas'[t][p], userTxs', smgTxs', debtTxs', t, p)
  BY CountersParts
<1>2. Counters(quotas[t][p], userTxs, smgTxs, debtTxs, t, p) /\ UNCHANGED quotas
  BY CountersParts, AgedRows
<1>3. Value(smgTxs', Of(smgTxs', t, p)) = Value(smgTxs, Of(smgTxs, t, p))
  <2> DEFINE xs == Of(smgTxs, t, p)
             nxs == Of(smgTxs', t, p)
  <2>1. /\ xs \in SUBSET XHashes /\ nxs \in SUBSET XHashes
        /\ \A y \in xs : smgTxs[y].value \in Nat /\ smgTxs'[y].value = smgTxs[y].value
        /\ \A y \in XHashes : y \in nxs <=> y \in xs
    BY <1>1, AgedRows DEF Of, Locked, ValuesAreNat
  <2> HIDE DEF xs, nxs
  <2>2. Value(smgTxs', nxs) = Value(smgTxs, xs)
    BY <2>1, ValueSame
  <2> QED
    BY <2>2 DEF xs, nxs
<1>4. Value(userTxs', Of(userTxs', t, p)) = Value(userTxs, Of(userTxs, t, p))
  <2> DEFINE xs == Of(userTxs, t, p)
             nxs == Of(userTxs', t, p)
  <2>1. /\ xs \in SUBSET XHashes /\ nxs \in SUBSET XHashes
        /\ \A y \in xs : userTxs[y].value \in Nat /\ userTxs'[y].value = userTxs[y].value
        /\ \A y \in XHashes : y \in nxs <=> y \in xs
    BY <1>1, AgedRows DEF Of, Locked, ValuesAreNat
  <2> HIDE DEF xs, nxs
  <2>2. Value(userTxs', nxs) = Value(userTxs, xs)
    BY <2>1, ValueSame
  <2> QED
    BY <2>2 DEF xs, nxs
<1>5. Value(debtTxs', Of(debtTxs', t, p)) = Value(debtTxs, Of(debtTxs, t, p))
  <2> DEFINE xs == Of(debtTxs, t, p)
             nxs == Of(debtTxs', t, p)
  <2>1. /\ xs \in SUBSET XHashes /\ nxs \in SUBSET XHashes
        /\ \A y \in xs : debtTxs[y].value \in Nat /\ debtTxs'[y].value = debtTxs[y].value
        /\ \A y \in XHashes : y \in nxs <=> y \in xs
    BY <1>1, AgedRows DEF Of, Locked, ValuesAreNat
  <2> HIDE DEF xs, nxs
  <2>2. Value(debtTxs', nxs) = Value(debtTxs, xs)
    BY <2>1, ValueSame
  <2> QED
    BY <2>2 DEF xs, nxs
<1>6. Value(debtTxs', From(debtTxs', t, p)) = Value(debtTxs, From(debtTxs, t, p))
  <2> DEFINE xs == From(debtTxs, t, p)
             nxs == From(debtTxs', t, p)
  <2>1. /\ xs \in SUBSET XHashes /\ nxs \in SUBSET XHashes
        /\ \A y \in xs : debtTxs[y].value \in Nat /\ debtTxs'[y].value = debtTxs[y].value
        /\ \A y \in XHashes : y \in nxs <=> y \in xs
    BY <1>1, AgedRows DEF From, Locked, ValuesAreNat
  <2> HIDE DEF xs, nxs
  <2>2. Value(debtTxs', nxs) = Value(debtTxs, xs)
    BY <2>1, ValueSame
  <2> QED
    BY <2>2 DEF xs, nxs
<1> QED
  BY <1>2, <1>3, <1>4, <1>5, <1>6 DEF Counters

LEMMA CountersFollow ==
  ASSUME IsFiniteSet(XHashes), WanInv, WanInv', CountersMatchPending, KindOfStep
  PROVE  CountersMatchPending'
<1>1. CASE SmgOpens
  <2>1. PICK x \in XHashes, t \in Tokens, p \in Storemen, v \in Nat :
          /\ Shift(t, p, v, 0, 0) /\ Opens(smgTxs, smgTxs', x, t, p, v)
          /\ UNCHANGED <<userTxs, debtTxs>>
    BY <1>1 DEF SmgOpens
  <2>2. \A u, r : Pending(smgTxs'[x], u, r) - Pending(smgTxs[x], u, r)
                    = IF u = t /\ r = p THEN v ELSE 0
    BY <2>1, OpensPending
  <2>3. \A y \in XHashes \ {x} : smgTxs'[y] = smgTxs[y]
    BY <2>1 DEF Opens
  <2> QED
    BY <2>1, <2>2, <2>3, SmgCounters
<1>2. CASE SmgCloses
  <2>1. PICK x \in XHashes, t \in Tokens, p \in Storemen, v \in Nat, minted \in Nat :
          /\ smgTxs[x].token = t /\ smgTxs[x].storeman = p /\ smgTxs[x].value = v
          /\ Shift(t, p, -v, 0, minted) /\ Closes(smgTxs, smgTxs', x)
          /\ UNCHANGED <<userTxs, debtTxs>>
    BY <1>2 DEF SmgCloses
  <2>2. \A u, r : Pending(smgTxs'[x], u, r) - Pending(smgTxs[x], u, r)
                    = IF u = t /\ r = p THEN -v ELSE 0
    BY <2>1, ClosesPending
  <2>3. (\A y \in XHashes \ {x} : smgTxs'[y] = smgTxs[y]) /\ -v \in Int /\ minted \in Int
    BY <2>1 DEF Closes
  <2> QED
    BY <2>1, <2>2, <2>3, SmgCounters
<1>3. CASE UserOpens
  <2>1. PICK x \in XHashes, t \in Tokens, p \in Storemen, v \in Nat :
          /\ Shift(t, p, 0, v, 0) /\ Opens(userTxs, userTxs', x, t, p, v)
          /\ UNCHANGED <<smgTxs, debtTxs>>
    BY <1>3 DEF UserOpens
  <2>2. \A u, r : Pending(userTxs'[x], u, r) - Pending(userTxs[x], u, r)
                    = IF u = t /\ r = p THEN v ELSE 0
    BY <2>1, OpensPending
  <2>3. \A y \in XHashes \ {x} : userTxs'[y] = userTxs[y]
    BY <2>1 DEF Opens
  <2> QED
    BY <2>1, <2>2, <2>3, UserCounters
<1>4. CASE UserCloses
  <2>1. PICK x \in XHashes, t \in Tokens, p \in Storemen, v \in Nat, burnt \in Nat :
          /\ userTxs[x].token = t /\ userTxs[x].storeman = p /\ userTxs[x].value = v
          /\ Shift(t, p, 0, -v, -burnt) /\ Closes(userTxs, userTxs', x)
          /\ UNCHANGED <<smgTxs, debtTxs>>
    BY <1>4 DEF UserCloses
  <2>2. \A u, r : Pending(userTxs'[x], u, r) - Pending(userTxs[x], u, r)
                    = IF u = t /\ r = p THEN -v ELSE 0
    BY <2>1, ClosesPending
  <2>3. (\A y \in XHashes \ {x} : userTxs'[y] = userTxs[y]) /\ -v \in Int /\ -burnt \in Int
    BY <2>1 DEF Closes
  <2> QED
    BY <2>1, <2>2, <2>3, UserCounters
<1>5. CASE DebtOpens
  <2>1. PICK x \in XHashes, t \in Tokens, src \in Storemen, dst \in Storemen, v \in Nat :
          /\ PassOn(t, src, dst, v, 0) /\ Opens(debtTxs, debtTxs', x, t, dst, v)
          /\ debtTxs'[x].src = src /\ UNCHANGED <<userTxs, smgTxs>>
    BY <1>5 DEF DebtOpens
  <2>2. \A u, r : Pending(debtTxs'[x], u, r) - Pending(debtTxs[x], u, r)
                    = IF u = t /\ r = dst THEN v ELSE 0
    BY <2>1, OpensPending
  <2>3. \A u, r : PendingFrom(debtTxs'[x], u, r) - PendingFrom(debtTxs[x], u, r)
                    = IF u = t /\ r = src THEN v ELSE 0
    BY <2>1, OpensPendingFrom
  <2>4. \A y \in XHashes \ {x} : debtTxs'[y] = debtTxs[y]
    BY <2>1 DEF Opens
  <2> QED
    BY <2>1, <2>2, <2>3, <2>4, DebtCounters
<1>6. CASE DebtCloses
  <2>1. PICK x \in XHashes, t \in Tokens, src \in Storemen, dst \in Storemen,
             v \in Nat, moved \in Nat :
          /\ debtTxs[x].token = t /\ debtTxs[x].storeman = dst /\ debtTxs[x].value = v
          /\ debtTxs[x].src = src /\ PassOn(t, src, dst, -v, moved)
          /\ Closes(debtTxs, debtTxs', x) /\ UNCHANGED <<userTxs, smgTxs>>
    BY <1>6 DEF DebtCloses
  <2>2. \A u, r : Pending(debtTxs'[x], u, r) - Pending(debtTxs[x], u, r)
                    = IF u = t /\ r = dst THEN -v ELSE 0
    BY <2>1, ClosesPending
  <2>3. \A u, r : PendingFrom(debtTxs'[x], u, r) - PendingFrom(debtTxs[x], u, r)
                    = IF u = t /\ r = src THEN -v ELSE 0
    BY <2>1, ClosesPendingFrom
  <2>4. (\A y \in XHashes \ {x} : debtTxs'[y] = debtTxs[y]) /\ -v \in Int /\ moved \in Int
    BY <2>1 DEF Closes
  <2> QED
    BY <2>1, <2>2, <2>3, <2>4, DebtCounters
<1>7. CASE Administers
  BY <1>7, CountersIdle DEF Administers, AdminShift, htlcVars
<1>8. ASSUME UNCHANGED <<quotas, userTxs, smgTxs, debtTxs>>
      PROVE  CountersMatchPending'
  BY <1>8, CountersIdle
<1>9. CASE WanTick
  BY <1>9, CountersTick
<1> QED
  BY <1>1, <1>2, <1>3, <1>4, <1>5, <1>6, <1>7, <1>8, <1>9
  DEF KindOfStep, SmgWithdrawFee, TransferToHtlc

LEMMA ValueOfNone ==
  ASSUME NEW table, NEW xs, xs = {}
  PROVE  Value(table, xs) = 0
<1> DEFINE f == [x \in xs |-> table[x].value]
<1>1. IsFiniteSet(xs)
  BY FS_EmptySet
<1>2. Value(table, xs) = SumOf(f, xs)
  BY <1>1, ValueIsSum
<1> HIDE DEF f
<1>3. SumOf(f, xs) = SumOf(f, {})
  BY Zenon
<1> QED
  BY <1>2, <1>3, SumEmpty

LEMMA NothingLockedAtFirst ==
  ASSUME WanInit
  PROVE  Locked(userTxs) = {} /\ Locked(smgTxs) = {} /\ Locked(debtTxs) = {}
BY DEF WanInit, Locked, NoTx

LEMMA CountersAtFirst ==
  ASSUME WanInit
  PROVE  CountersMatchPending /\ GoneAreClear
<1>1. \A t \in Tokens, p \in Storemen : quotas[t][p] = NoQuota
  BY DEF WanInit, QuotaInit
<1>2. GoneAreClear
  BY <1>1 DEF GoneAreClear, IsDebtPaidOff, NoQuota
<1>3. ASSUME NEW t \in Tokens, NEW p \in Storemen
      PROVE  Counters(quotas[t][p], userTxs, smgTxs, debtTxs, t, p)
  <2>1. /\ Of(userTxs, t, p) = {} /\ Of(smgTxs, t, p) = {} /\ Of(debtTxs, t, p) = {}
        /\ From(debtTxs, t, p) = {}
    BY NothingLockedAtFirst DEF Of, From
  <2>2. /\ Value(userTxs, Of(userTxs, t, p)) = 0 /\ Value(smgTxs, Of(smgTxs, t, p)) = 0
        /\ Value(debtTxs, Of(debtTxs, t, p)) = 0 /\ Value(debtTxs, From(debtTxs, t, p)) = 0
    BY <2>1, ValueOfNone
  <2>3. quotas[t][p].receivable = 0 /\ quotas[t][p].payable = 0
    BY <1>1 DEF NoQuota
  <2> QED
    BY <2>2, <2>3 DEF Counters
<1> QED
  BY <1>2, <1>3, CountersParts

-----------------------------------------------------------------------------
(* The books: what the other statements need to be carried along.  Locked  *)
(* transactions move something, so a group with one has a counter above    *)
(* zero; and the source of a pending debt is not active.                   *)

Moves(table) == \A x \in Locked(table) : table[x].value > 0

SourcesAreInactive ==
  \A d \in Locked(debtTxs) : NotActive(debtTxs[d].token, debtTxs[d].src)

BooksInv ==
  /\ CountersMatchPending /\ GoneAreClear
  /\ Moves(userTxs) /\ Moves(smgTxs) /\ Moves(debtTxs)
  /\ SourcesAreInactive
  /\ DebtIsAlone

LEMMA OpensMoves ==
  ASSUME NEW table, NEW ntable, NEW x \in XHashes, NEW t, NEW p, NEW v \in Nat, v > 0,
         Moves(table), Opens(table, ntable, x, t, p, v)
  PROVE  Moves(ntable)
BY DEF Moves, Opens, Locked

LEMMA ClosesMoves ==
  ASSUME NEW table, NEW ntable, NEW x \in XHashes,
         Moves(table), Closes(table, ntable, x)
  PROVE  Moves(ntable)
BY DEF Moves, Closes, Locked

LEMMA AllStillMove ==
  ASSUME WanInv, Moves(userTxs), Moves(smgTxs), Moves(debtTxs), KindOfStep
  PROVE  Moves(userTxs') /\ Moves(smgTxs') /\ Moves(debtTxs')
<1>1. CASE SmgOpens
  BY <1>1, OpensMoves DEF SmgOpens
<1>2. CASE SmgCloses
  BY <1>2, ClosesMoves DEF SmgCloses
<1>3. CASE UserOpens
  BY <1>3, OpensMoves DEF UserOpens
<1>4. CASE UserCloses
  BY <1>4, ClosesMoves DEF UserCloses
<1>5. CASE DebtOpens
  BY <1>5, OpensMoves DEF DebtOpens
<1>6. CASE DebtCloses
  BY <1>6, ClosesMoves DEF DebtCloses
<1>7. CASE WanTick
  BY <1>7, AgedRows DEF Moves, Locked
<1> QED
  BY <1>1, <1>2, <1>3, <1>4, <1>5, <1>6, <1>7
  DEF KindOfStep, Administers, htlcVars, SmgWithdrawFee, TransferToHtlc

(* The counter of a group covers each transaction it has pending. *)
LEMMA PendingIsCovered ==
  ASSUME IsFiniteSet(XHashes), WanInv, CountersMatchPending
  PROVE  /\ \A x \in Locked(userTxs) :
              quotas[userTxs[x].token][userTxs[x].storeman].payable >= userTxs[x].value
         /\ \A x \in Locked(smgTxs) :
              quotas[smgTxs[x].token][smgTxs[x].storeman].receivable >= smgTxs[x].value
         /\ \A x \in Locked(debtTxs) :
              /\ quotas[debtTxs[x].token][debtTxs[x].storeman].receivable >= debtTxs[x].value
              /\ quotas[debtTxs[x].token][debtTxs[x].src].payable >= debtTxs[x].value
<1>0. ValuesAreNat(userTxs) /\ ValuesAreNat(smgTxs) /\ ValuesAreNat(debtTxs)
  BY LockedValues DEF WanInv, TablesOK
<1>1. ASSUME NEW t \in Tokens, NEW p \in Storemen
      PROVE  /\ Value(userTxs, Of(userTxs, t, p)) \in Nat
             /\ \A x \in Of(userTxs, t, p) : Value(userTxs, Of(userTxs, t, p)) >= userTxs[x].value
             /\ Value(smgTxs, Of(smgTxs, t, p)) \in Nat
             /\ \A x \in Of(smgTxs, t, p) : Value(smgTxs, Of(smgTxs, t, p)) >= smgTxs[x].value
             /\ Value(debtTxs, Of(debtTxs, t, p)) \in Nat
             /\ \A x \in Of(debtTxs, t, p) : Value(debtTxs, Of(debtTxs, t, p)) >= debtTxs[x].value
             /\ Value(debtTxs, From(debtTxs, t, p)) \in Nat
             /\ \A x \in From(debtTxs, t, p) : Value(debtTxs, From(debtTxs, t, p)) >= debtTxs[x].value
  <2> DEFINE us == Of(userTxs, t, p)
             ss == Of(smgTxs, t, p)
             ds == Of(debtTxs, t, p)
             fs == From(debtTxs, t, p)
  <2>1. /\ us \in SUBSET XHashes /\ \A x \in us : userTxs[x].value \in Nat
        /\ ss \in SUBSET XHashes /\ \A x \in ss : smgTxs[x].value \in Nat
        /\ ds \in SUBSET XHashes /\ \A x \in ds : debtTxs[x].value \in Nat
        /\ fs \in SUBSET XHashes /\ \A x \in fs : debtTxs[x].value \in Nat
    BY <1>0 DEF Of, From, Locked, ValuesAreNat
  <2> HIDE DEF us, ss, ds, fs
  <2>2. Value(userTxs, us) \in Nat /\ \A x \in us : Value(userTxs, us) >= userTxs[x].value
    BY <2>1, ValueIsCounted
  <2>3. Value(smgTxs, ss) \in Nat /\ \A x \in ss : Value(smgTxs, ss) >= smgTxs[x].value
    BY <2>1, ValueIsCounted
  <2>4. Value(debtTxs, ds) \in Nat /\ \A x \in ds : Value(debtTxs, ds) >= debtTxs[x].value
    BY <2>1, ValueIsCounted
  <2>5. Value(debtTxs, fs) \in Nat /\ \A x \in fs : Value(debtTxs, fs) >= debtTxs[x].value
    BY <2>1, ValueIsCounted
  <2> QED
    BY <2>2, <2>3, <2>4, <2>5 DEF us, ss, ds, fs
<1>2. \A t \in Tokens, p \in Storemen : Counters(quotas[t][p], userTxs, smgTxs, debtTxs, t, p)
  BY CountersParts
<1>3. ASSUME NEW x \in Locked(userTxs)
      PROVE  quotas[userTxs[x].token][userTxs[x].storeman].payable >= userTxs[x].value
  <2> DEFINE t == userTxs[x].token
             p == userTxs[x].storeman
  <2>1. t \in Tokens /\ p \in Storemen /\ x \in Of(userTxs, t, p)
        /\ userTxs[x].value \in Nat
    BY LockedUser DEF Locked, IsLocked, Of
  <2>2. /\ Value(userTxs, Of(userTxs, t, p)) \in Nat /\ Value(debtTxs, From(debtTxs, t, p)) \in Nat
        /\ Value(userTxs, Of(userTxs, t, p)) >= userTxs[x].value
    BY <1>1, <2>1
  <2>3. quotas[t][p].payable = Value(userTxs, Of(userTxs, t, p)) + Value(debtTxs, From(debtTxs, t, p))
    BY <1>2, <2>1 DEF Counters
  <2> QED
    BY <2>1, <2>2, <2>3
<1>4. ASSUME NEW x \in Locked(smgTxs)
      PROVE  quotas[smgTxs[x].token][smgTxs[x].storeman].receivable >= smgTxs[x].value
  <2> DEFINE t == smgTxs[x].token
             p == smgTxs[x].storeman
  <2>1. t \in Tokens /\ p \in Storemen /\ x \in Of(smgTxs, t, p)
        /\ smgTxs[x].value \in Nat
    BY LockedSmg DEF Locked, IsLocked, Of
  <2>2. /\ Value(smgTxs, Of(smgTxs, t, p)) \in Nat /\ Value(debtTxs, Of(debtTxs, t, p)) \in Nat
        /\ Value(smgTxs, Of(smgTxs, t, p)) >= smgTxs[x].value
    BY <1>1, <2>1
  <2>3. quotas[t][p].receivable = Value(smgTxs, Of(smgTxs, t, p)) + Value(debtTxs, Of(debtTxs, t, p))
    BY <1>2, <2>1 DEF Counters
  <2> QED
    BY <2>1, <2>2, <2>3
<1>5. ASSUME NEW x \in Locked(debtTxs)
      PROVE  quotas[debtTxs[x].token][debtTxs[x].storeman].receivable >= debtTxs[x].value
  <2> DEFINE t == debtTxs[x].token
             p == debtTxs[x].storeman
  <2>1. t \in Tokens /\ p \in Storemen /\ x \in Of(debtTxs, t, p)
        /\ debtTxs[x].value \in Nat
    BY LockedDebt DEF Locked, IsLocked, Of
  <2>2. /\ Value(smgTxs, Of(smgTxs, t, p)) \in Nat /\ Value(debtTxs, Of(debtTxs, t, p)) \in Nat
        /\ Value(debtTxs, Of(debtTxs, t, p)) >= debtTxs[x].value
    BY <1>1, <2>1
  <2>3. quotas[t][p].receivable = Value(smgTxs, Of(smgTxs, t, p)) + Value(debtTxs, Of(debtTxs, t, p))
    BY <1>2, <2>1 DEF Counters
  <2> QED
    BY <2>1, <2>2, <2>3
<1>6. ASSUME NEW x \in Locked(debtTxs)
      PROVE  quotas[debtTxs[x].token][debtTxs[x].src].payable >= debtTxs[x].value
  <2> DEFINE t == debtTxs[x].token
             p == debtTxs[x].src
  <2>1. t \in Tokens /\ p \in Storemen /\ x \in From(debtTxs, t, p)
        /\ debtTxs[x].value \in Nat
    BY LockedDebt DEF Locked, IsLocked, From
  <2>2. /\ Value(userTxs, Of(userTxs, t, p)) \in Nat /\ Value(debtTxs, From(debtTxs, t, p)) \in Nat
        /\ Value(debtTxs, From(debtTxs, t, p)) >= debtTxs[x].value
    BY <1>1, <2>1
  <2>3. quotas[t][p].payable = Value(userTxs, Of(userTxs, t, p)) + Value(debtTxs, From(debtTxs, t, p))
    BY <1>2, <2>1 DEF Counters
  <2> QED
    BY <2>1, <2>2, <2>3
<1> QED
  BY <1>3, <1>4, <1>5, <1>6

(* A group with a transaction pending has a counter above zero. *)
LEMMA PendingIsCounted ==
  ASSUME IsFiniteSet(XHashes), WanInv, CountersMatchPending,
         Moves(userTxs), Moves(smgTxs), Moves(debtTxs)
  PROVE  /\ \A x \in Locked(userTxs) : quotas[userTxs[x].token][userTxs[x].storeman].payable > 0
         /\ \A x \in Locked(smgTxs) : quotas[smgTxs[x].token][smgTxs[x].storeman].receivable > 0
         /\ \A x \in Locked(debtTxs) :
              /\ quotas[debtTxs[x].token][debtTxs[x].storeman].receivable > 0
              /\ quotas[debtTxs[x].token][debtTxs[x].src].payable > 0
<1>1. /\ \A x \in Locked(userTxs) : userTxs[x].value \in Nat /\ userTxs[x].value > 0
      /\ \A x \in Locked(smgTxs) : smgTxs[x].value \in Nat /\ smgTxs[x].value > 0
      /\ \A x \in Locked(debtTxs) : debtTxs[x].value \in Nat /\ debtTxs[x].value > 0
  BY LockedUser, LockedSmg, LockedDebt DEF Locked, IsLocked, Moves
<1>2. \A t \in Tokens, p \in Storemen :
        quotas[t][p].receivable \in Nat /\ quotas[t][p].payable \in Nat
  BY CountersAreNat
<1>3. /\ \A x \in Locked(userTxs) : userTxs[x].token \in Tokens /\ userTxs[x].storeman \in Storemen
      /\ \A x \in Locked(smgTxs) : smgTxs[x].token \in Tokens /\ smgTxs[x].storeman \in Storemen
      /\ \A x \in Locked(debtTxs) : /\ debtTxs[x].token \in Tokens
                                      /\ debtTxs[x].storeman \in Storemen
                                      /\ debtTxs[x].src \in Storemen
  BY LockedUser, LockedSmg, LockedDebt DEF Locked, IsLocked
<1> QED
  BY <1>1, <1>2, <1>3, PendingIsCovered

-----------------------------------------------------------------------------
(* The sources of pending debts stay inactive: what is on its way to       *)
(* another group keeps the admin from deleting theirs.                     *)

LEMMA InactiveKept ==
  ASSUME SourcesAreInactive,
         \A t \in Tokens, p \in Storemen : Keeps(t, p),
         \A d \in Locked(debtTxs') : /\ d \in Locked(debtTxs)
                                     /\ debtTxs'[d].token = debtTxs[d].token
                                     /\ debtTxs'[d].src = debtTxs[d].src,
         \A d \in Locked(debtTxs) : debtTxs[d].token \in Tokens /\ debtTxs[d].src \in Storemen
  PROVE  SourcesAreInactive'
BY DEF SourcesAreInactive, NotActive, IsExist, Keeps

LEMMA LockedDebtParties ==
  ASSUME WanInv
  PROVE  \A d \in Locked(debtTxs) :
           /\ debtTxs[d].token \in Tokens
           /\ debtTxs[d].src \in Storemen /\ debtTxs[d].storeman \in Storemen
BY LockedDebt DEF Locked, IsLocked

LEMMA SourcesStayInactive ==
  ASSUME IsFiniteSet(XHashes), WanInv, BooksInv, KindOfStep
  PROVE  SourcesAreInactive'
<1>0. SourcesAreInactive /\ \A d \in Locked(debtTxs) :
                              debtTxs[d].token \in Tokens /\ debtTxs[d].src \in Storemen
  BY LockedDebtParties DEF BooksInv
<1>1. ASSUME UNCHANGED debtTxs, \A t \in Tokens, p \in Storemen : Keeps(t, p)
      PROVE  SourcesAreInactive'
  BY <1>0, <1>1, InactiveKept
<1>2. SmgOpens \/ SmgCloses => UNCHANGED debtTxs /\ \A t \in Tokens, p \in Storemen : Keeps(t, p)
  BY DEF SmgOpens, SmgCloses, Shift
<1>3. UserOpens \/ UserCloses => UNCHANGED debtTxs /\ \A t \in Tokens, p \in Storemen : Keeps(t, p)
  BY DEF UserOpens, UserCloses, Shift
<1>4. CASE DebtOpens
  <2>1. PICK x \in XHashes, t \in Tokens, src \in Storemen, dst \in Storemen, v \in Nat :
          /\ NotActive(t, src) /\ PassOn(t, src, dst, v, 0)
          /\ Opens(debtTxs, debtTxs', x, t, dst, v) /\ debtTxs'[x].src = src
    BY <1>4 DEF DebtOpens
  <2>2. \A u \in Tokens, p \in Storemen : Keeps(u, p)
    BY <2>1 DEF PassOn
  <2>3. quotas'[t][src].quota # 0 /\ ~quotas'[t][src].active
    BY <2>1, <2>2 DEF NotActive, IsExist, Keeps
  <2>4. \A d \in Locked(debtTxs') \ {x} : d \in Locked(debtTxs) /\ debtTxs'[d] = debtTxs[d]
    BY <2>1 DEF Opens, Locked
  <2>5. ASSUME NEW d \in Locked(debtTxs')
        PROVE  /\ quotas'[debtTxs'[d].token][debtTxs'[d].src].quota # 0
               /\ ~quotas'[debtTxs'[d].token][debtTxs'[d].src].active
    <3>1. CASE d = x
      BY <2>1, <2>3, <3>1 DEF Opens
    <3>2. CASE d # x
      BY <1>0, <2>2, <2>4, <3>2 DEF SourcesAreInactive, NotActive, IsExist, Keeps
    <3> QED
      BY <3>1, <3>2
  <2> QED
    BY <2>5 DEF SourcesAreInactive, NotActive, IsExist, Locked
<1>5. CASE DebtCloses
  <2>1. PICK x \in XHashes, t \in Tokens, src \in Storemen, dst \in Storemen,
             v \in Nat, moved \in Nat :
          PassOn(t, src, dst, -v, moved) /\ Closes(debtTxs, debtTxs', x)
    BY <1>5 DEF DebtCloses
  <2>2. \A u \in Tokens, p \in Storemen : Keeps(u, p)
    BY <2>1 DEF PassOn
  <2>3. \A d \in Locked(debtTxs') : /\ d \in Locked(debtTxs)
                                    /\ debtTxs'[d].token = debtTxs[d].token
                                    /\ debtTxs'[d].src = debtTxs[d].src
    BY <2>1 DEF Closes, Locked
  <2> QED
    BY <1>0, <2>2, <2>3, InactiveKept
<1>6. CASE Administers
  <2> SUFFICES ASSUME NEW d \in Locked(debtTxs)
               PROVE  NotActive(debtTxs[d].token, debtTxs[d].src)'
    BY <1>6 DEF Administers, htlcVars, SourcesAreInactive
  <2> DEFINE t == debtTxs[d].token
             p == debtTxs[d].src
  <2>1. t \in Tokens /\ p \in Storemen /\ NotActive(t, p)
    BY <1>0 DEF SourcesAreInactive
  <2>2. quotas[t][p].payable > 0
    BY PendingIsCounted DEF BooksInv
  <2> HIDE DEF t, p
  <2>3. IsExist(t, p) /\ ~IsDebtPaidOff(t, p) /\ ~quotas[t][p].active
    BY <2>1, <2>2 DEF NotActive, IsDebtPaidOff
  <2>4. quotas'[t][p].quota # 0 /\ ~quotas'[t][p].active
    BY <1>6, <2>1, <2>3 DEF Administers, AdminShift
  <2>5. UNCHANGED debtTxs
    BY <1>6 DEF Administers, htlcVars
  <2> QED
    BY <2>4, <2>5 DEF NotActive, IsExist, t, p
<1>7. ASSUME UNCHANGED <<quotas, debtTxs>>
      PROVE  SourcesAreInactive'
  BY <1>0, <1>7 DEF SourcesAreInactive, NotActive, IsExist
<1>8. CASE WanTick
  <2>1. UNCHANGED quotas /\ \A d \in Locked(debtTxs') : /\ d \in Locked(debtTxs)
                                    /\ debtTxs'[d].token = debtTxs[d].token
                                    /\ debtTxs'[d].src = debtTxs[d].src
    BY <1>8, AgedRows DEF Locked
  <2> QED
    BY <1>0, <2>1, InactiveKept DEF Keeps
<1> QED
  BY <1>1, <1>2, <1>3, <1>4, <1>5, <1>6, <1>7, <1>8
  DEF KindOfStep, SmgWithdrawFee, TransferToHtlc

-----------------------------------------------------------------------------
(* A debt stays alone: a lock needs an active group, and another debt a    *)
(* group with nothing pending.                                             *)

Alone(d, users, smgs, debts) ==
  /\ \A x \in Locked(debts) : debts[x].token = debts[d].token
       /\ debts[x].src = debts[d].src => x = d
  /\ \A x \in Locked(users) : ~(/\ users[x].token = debts[d].token
                                /\ users[x].storeman = debts[d].src)
  /\ \A x \in Locked(smgs) : ~(/\ smgs[x].token = debts[d].token
                               /\ smgs[x].storeman = debts[d].src)

LEMMA AloneParts ==
  /\ DebtIsAlone <=> \A d \in Locked(debtTxs) : Alone(d, userTxs, smgTxs, debtTxs)
  /\ DebtIsAlone' <=> \A d \in Locked(debtTxs') : Alone(d, userTxs', smgTxs', debtTxs')
BY DEF DebtIsAlone, Alone, Locked

(* Fewer transactions pending, of the same groups, are still alone. *)
LEMMA AloneWithFewer ==
  ASSUME DebtIsAlone,
         \A x \in Locked(userTxs') : /\ x \in Locked(userTxs)
                                     /\ userTxs'[x].token = userTxs[x].token
                                     /\ userTxs'[x].storeman = userTxs[x].storeman,
         \A x \in Locked(smgTxs') : /\ x \in Locked(smgTxs)
                                    /\ smgTxs'[x].token = smgTxs[x].token
                                    /\ smgTxs'[x].storeman = smgTxs[x].storeman,
         \A x \in Locked(debtTxs') : /\ x \in Locked(debtTxs)
                                     /\ debtTxs'[x].token = debtTxs[x].token
                                     /\ debtTxs'[x].src = debtTxs[x].src
  PROVE  DebtIsAlone'
<1> SUFFICES ASSUME NEW d \in Locked(debtTxs')
             PROVE  Alone(d, userTxs', smgTxs', debtTxs')
  BY AloneParts
<1>1. d \in Locked(debtTxs) /\ Alone(d, userTxs, smgTxs, debtTxs)
  BY AloneParts
<1> QED
  BY <1>1 DEF Alone

LEMMA DebtStaysAlone ==
  ASSUME IsFiniteSet(XHashes), WanInv, BooksInv, KindOfStep
  PROVE  DebtIsAlone'
<1>0. /\ DebtIsAlone /\ SourcesAreInactive
      /\ \A d \in Locked(debtTxs) : Alone(d, userTxs, smgTxs, debtTxs)
  BY AloneParts DEF BooksInv
<1>1. CASE SmgOpens
  <2>1. PICK x \in XHashes, t \in Tokens, p \in Storemen, v \in Nat :
          /\ IsActive(t, p) /\ Opens(smgTxs, smgTxs', x, t, p, v)
          /\ UNCHANGED <<userTxs, debtTxs>>
    BY <1>1 DEF SmgOpens
  <2> SUFFICES ASSUME NEW d \in Locked(debtTxs)
               PROVE  Alone(d, userTxs, smgTxs', debtTxs)
    BY <2>1, AloneParts
  <2>2. ~(t = debtTxs[d].token /\ p = debtTxs[d].src)
    BY <1>0, <2>1 DEF SourcesAreInactive, NotActive, IsActive
  <2>3. \A y \in Locked(smgTxs') \ {x} : y \in Locked(smgTxs) /\ smgTxs'[y] = smgTxs[y]
    BY <2>1 DEF Opens, Locked
  <2> QED
    BY <1>0, <2>1, <2>2, <2>3 DEF Alone, Opens
<1>2. CASE UserOpens
  <2>1. PICK x \in XHashes, t \in Tokens, p \in Storemen, v \in Nat :
          /\ IsActive(t, p) /\ Opens(userTxs, userTxs', x, t, p, v)
          /\ UNCHANGED <<smgTxs, debtTxs>>
    BY <1>2 DEF UserOpens
  <2> SUFFICES ASSUME NEW d \in Locked(debtTxs)
               PROVE  Alone(d, userTxs', smgTxs, debtTxs)
    BY <2>1, AloneParts
  <2>2. ~(t = debtTxs[d].token /\ p = debtTxs[d].src)
    BY <1>0, <2>1 DEF SourcesAreInactive, NotActive, IsActive
  <2>3. \A y \in Locked(userTxs') \ {x} : y \in Locked(userTxs) /\ userTxs'[y] = userTxs[y]
    BY <2>1 DEF Opens, Locked
  <2> QED
    BY <1>0, <2>1, <2>2, <2>3 DEF Alone, Opens
<1>3. CASE DebtOpens
  <2>1. PICK x \in XHashes, t \in Tokens, src \in Storemen, dst \in Storemen, v \in Nat :
          /\ quotas[t][src].receivable = 0 /\ quotas[t][src].payable = 0
          /\ Opens(debtTxs, debtTxs', x, t, dst, v) /\ debtTxs'[x].src = src
          /\ UNCHANGED <<userTxs, smgTxs>>
    BY <1>3 DEF DebtOpens
  <2>2. /\ \A y \in Locked(userTxs) : ~(userTxs[y].token = t /\ userTxs[y].storeman = src)
        /\ \A y \in Locked(smgTxs) : ~(smgTxs[y].token = t /\ smgTxs[y].storeman = src)
        /\ \A y \in Locked(debtTxs) : ~(debtTxs[y].token = t /\ debtTxs[y].src = src)
    BY <2>1, PendingIsCounted DEF BooksInv
  <2>3. \A y \in Locked(debtTxs') \ {x} : y \in Locked(debtTxs) /\ debtTxs'[y] = debtTxs[y]
    BY <2>1 DEF Opens, Locked
  <2>4. debtTxs'[x].token = t /\ debtTxs'[x].src = src
    BY <2>1 DEF Opens
  <2> SUFFICES ASSUME NEW d \in Locked(debtTxs')
               PROVE  Alone(d, userTxs, smgTxs, debtTxs')
    BY <2>1, AloneParts
  <2>5. CASE d = x
    BY <2>2, <2>3, <2>4, <2>5 DEF Alone
  <2>6. CASE d # x
    BY <1>0, <2>2, <2>3, <2>4, <2>6 DEF Alone
  <2> QED
    BY <2>5, <2>6
<1>4. CASE SmgCloses
  BY <1>0, <1>4, AloneWithFewer DEF SmgCloses, Closes, Locked
<1>5. CASE UserCloses
  BY <1>0, <1>5, AloneWithFewer DEF UserCloses, Closes, Locked
<1>6. CASE DebtCloses
  BY <1>0, <1>6, AloneWithFewer DEF DebtCloses, Closes, Locked
<1>7. CASE WanTick
  <2>1. /\ \A x \in Locked(userTxs') : /\ x \in Locked(userTxs)
                                       /\ userTxs'[x].token = userTxs[x].token
                                       /\ userTxs'[x].storeman = userTxs[x].storeman
        /\ \A x \in Locked(smgTxs') : /\ x \in Locked(smgTxs)
                                      /\ smgTxs'[x].token = smgTxs[x].token
                                      /\ smgTxs'[x].storeman = smgTxs[x].storeman
        /\ \A x \in Locked(debtTxs') : /\ x \in Locked(debtTxs)
                                       /\ debtTxs'[x].token = debtTxs[x].token
                                       /\ debtTxs'[x].src = debtTxs[x].src
    BY <1>7, AgedRows DEF Locked
  <2> QED
    BY <1>0, <2>1, AloneWithFewer
<1>8. ASSUME UNCHANGED <<userTxs, smgTxs, debtTxs>>
      PROVE  DebtIsAlone'
  BY <1>0, <1>8, AloneParts
<1> QED
  BY <1>1, <1>2, <1>3, <1>4, <1>5, <1>6, <1>7, <1>8
  DEF KindOfStep, Administers, htlcVars, SmgWithdrawFee, TransferToHtlc

LEMMA BooksAtFirst == WanInit => BooksInv
<1> SUFFICES ASSUME WanInit PROVE BooksInv
  OBVIOUS
<1>1. Moves(userTxs) /\ Moves(smgTxs) /\ Moves(debtTxs) /\ SourcesAreInactive
  BY NothingLockedAtFirst DEF Moves, SourcesAreInactive
<1>2. DebtIsAlone
  BY NothingLockedAtFirst, AloneParts
<1> QED
  BY <1>1, <1>2, CountersAtFirst DEF BooksInv

LEMMA BooksStep ==
  ASSUME IsFiniteSet(XHashes)
  PROVE  WanInv /\ BooksInv /\ [WanNext]_wanVars => BooksInv'
<1> SUFFICES ASSUME WanInv, BooksInv, [WanNext]_wanVars PROVE BooksInv'
  OBVIOUS
<1>1. WanInv' /\ KindOfStep
  BY WanNextInv, StepHasKind DEF BooksInv
<1>2. CountersMatchPending' /\ GoneAreClear'
  BY <1>1, CountersFollow, GoneStayClear DEF BooksInv
<1>3. Moves(userTxs') /\ Moves(smgTxs') /\ Moves(debtTxs')
  BY <1>1, AllStillMove DEF BooksInv
<1>4. SourcesAreInactive' /\ DebtIsAlone'
  BY <1>1, SourcesStayInactive, DebtStaysAlone
<1>5. Moves(userTxs)' /\ Moves(smgTxs)' /\ Moves(debtTxs)'
  BY <1>3 DEF Moves, Locked
<1> QED
  BY <1>2, <1>4, <1>5 DEF BooksInv

LEMMA BooksAreKept ==
  ASSUME IsFiniteSet(XHashes)
  PROVE  WanSpec => []BooksInv
<1>1. WanInit => BooksInv
  BY BooksAtFirst
<1>2. WanInv /\ BooksInv /\ [WanNext]_wanVars => BooksInv'
  BY BooksStep
<1>3. WanSpec => []WanInv
  BY WanInvariant
<1> QED
  BY <1>1, <1>2, <1>3, PTL DEF WanSpec

(* The receivable and payable counters of every group are exactly the sums *)
(* of its pending transactions, for every finite set of hashes: no lock,   *)
(* redeem, revoke or passing on of a debt counts twice or not at all, and  *)
(* a group added again after it was deleted starts with nothing pending.   *)
THEOREM CountersAlwaysMatchPending ==
  ASSUME IsFiniteSet(XHashes)
  PROVE  WanSpec => []CountersMatchPending
<1>1. BooksInv => CountersMatchPending
  BY DEF BooksInv
<1> QED
  BY <1>1, BooksAreKept, PTL

(* A group whose debt is being handed over has nothing else pending in     *)
(* that token.                                                             *)
THEOREM DebtIsAlwaysAlone ==
  ASSUME IsFiniteSet(XHashes)
  PROVE  WanSpec => []DebtIsAlone
<1>1. BooksInv => DebtIsAlone
  BY DEF BooksInv
<1> QED
  BY <1>1, BooksAreKept, PTL

(* A group with a pending transaction exists, however groups are updated,  *)
(* deactivated and deleted, so that every redeem and revoke finds its row; *)
(* and a group that hands over its debt stays inactive until it is settled.*)
THEOREM PendingGroupsAlwaysExist ==
  ASSUME IsFiniteSet(XHashes)
  PROVE  WanSpec => []PendingGroupsExist
<1>1. WanInv /\ BooksInv => PendingGroupsExist
  <2> SUFFICES ASSUME WanInv, BooksInv PROVE PendingGroupsExist
    OBVIOUS
  <2>1. /\ \A x \in Locked(userTxs) : quotas[userTxs[x].token][userTxs[x].storeman].payable > 0
        /\ \A x \in Locked(smgTxs) : quotas[smgTxs[x].token][smgTxs[x].storeman].receivable > 0
        /\ \A x \in Locked(debtTxs) :
             quotas[debtTxs[x].token][debtTxs[x].storeman].receivable > 0
    BY PendingIsCounted DEF BooksInv
  <2>2. \A t \in Tokens, p \in Storemen :
          quotas[t][p].payable > 0 \/ quotas[t][p].receivable > 0 => IsExist(t, p)
    BY DEF BooksInv, GoneAreClear, IsDebtPaidOff
  <2>3. /\ \A x \in Locked(userTxs) : userTxs[x].token \in Tokens /\ userTxs[x].storeman \in Storemen
        /\ \A x \in Locked(smgTxs) : smgTxs[x].token \in Tokens /\ smgTxs[x].storeman \in Storemen
        /\ \A x \in Locked(debtTxs) : debtTxs[x].token \in Tokens /\ debtTxs[x].storeman \in Storemen
    BY LockedUser, LockedSmg, LockedDebtParties DEF Locked, IsLocked
  <2> QED
    BY <2>1, <2>2, <2>3 DEF PendingGroupsExist, BooksInv, SourcesAreInactive
<1>2. WanSpec => []WanInv
  BY WanInvariant
<1> QED
  BY <1>1, <1>2, BooksAreKept, PTL

-----------------------------------------------------------------------------
(* The tokens issued and the debts of the groups. *)

Debts(row) == MapThenSumSet(LAMBDA p : row[p].debt, Storemen)

DebtsOf(row) == [p \in Storemen |-> row[p].debt]

LEMMA DebtsAreSum ==
  ASSUME IsFiniteSet(Storemen), NEW row
  PROVE  Debts(row) = SumOf(DebtsOf(row), Storemen)
<1> DEFINE f == DebtsOf(row)
           body(it) == [s \in SUBSET Storemen |->
                          IF s = {} THEN 0 ELSE row[AnyOf(s)].debt + it[s \ {AnyOf(s)}]]
           sol == CHOOSE it : it = body(it)
<1>1. ASSUME NEW it PROVE it = body(it) <=> Recursion(f, Storemen, it)
  <2>1. \A s \in SUBSET Storemen : s # {} => f[AnyOf(s)] = row[AnyOf(s)].debt
    BY DEF AnyOf, DebtsOf
  <2> HIDE DEF f
  <2> QED
    BY <2>1 DEF Recursion
<1>2. Debts(row) = sol[Storemen]
  BY DEF Debts, MapThenSumSet, MapThenFoldSet, AnyOf
<1> HIDE DEF f, body
<1>3. \E it : it = body(it)
  BY <1>1, RecursionExists
<1>4. sol = body(sol)
  BY <1>3, Zenon
<1>5. Recursion(f, Storemen, sol)
  BY <1>1, <1>4
<1> QED
  BY <1>2, <1>5, SolvedIsSum DEF f

LEMMA SupplyParts ==
  /\ SupplyIsDebt <=> \A t \in Tokens : supply[t] = Debts(quotas[t])
  /\ SupplyIsDebt' <=> \A t \in Tokens : supply'[t] = Debts(quotas'[t])
<1>1. SupplyIsDebt <=> \A t \in Tokens : supply[t] = Debts(quotas[t])
  BY DEF SupplyIsDebt, Debts
<1>2. (SupplyIsDebt <=> \A t \in Tokens : supply[t] = Debts(quotas[t]))'
  BY <1>1, PTL
<1> QED
  BY <1>1, <1>2

LEMMA DebtsSame ==
  ASSUME IsFiniteSet(Storemen), NEW row, NEW nrow, \A r \in Storemen : nrow[r].debt = row[r].debt
  PROVE  Debts(nrow) = Debts(row)
<1> DEFINE f == DebtsOf(row)
           g == DebtsOf(nrow)
<1>1. \A r \in Storemen : f[r] = g[r]
  BY DEF DebtsOf
<1>2. Debts(row) = SumOf(f, Storemen) /\ Debts(nrow) = SumOf(g, Storemen)
  BY DebtsAreSum
<1> HIDE DEF f, g
<1> QED
  BY <1>1, <1>2, SumSame

LEMMA DebtsUpdate ==
  ASSUME IsFiniteSet(Storemen), NEW row, NEW nrow,
         \A r \in Storemen : row[r].debt \in Nat /\ nrow[r].debt \in Nat,
         NEW p \in Storemen, NEW d \in Int, nrow[p].debt = row[p].debt + d,
         \A r \in Storemen \ {p} : nrow[r].debt = row[r].debt
  PROVE  Debts(nrow) = Debts(row) + d /\ Debts(row) \in Nat
<1> DEFINE f == DebtsOf(row)
           g == DebtsOf(nrow)
<1>1. /\ Counts(f, Storemen) /\ Counts(g, Storemen)
      /\ \A r \in Storemen \ {p} : g[r] = f[r]
      /\ f[p] \in Nat /\ g[p] = f[p] + d
  BY DEF DebtsOf, Counts
<1>2. Debts(row) = SumOf(f, Storemen) /\ Debts(nrow) = SumOf(g, Storemen)
  BY DebtsAreSum
<1> HIDE DEF f, g
<1>3. SumOf(g, Storemen) = SumOf(f, Storemen) - f[p] + g[p]
  BY <1>1, SumUpdate
<1>4. SumOf(f, Storemen) \in Nat
  BY <1>1, SumStep
<1> QED
  BY <1>1, <1>2, <1>3, <1>4

(* A debt that passes from one group to another leaves the sum. *)
Passed(row, nrow, src, dst, d) ==
  /\ \A r \in Storemen : row[r].debt \in Nat /\ nrow[r].debt \in Nat
  /\ src \in Storemen /\ dst \in Storemen /\ src # dst /\ d \in Nat
  /\ nrow[dst].debt = row[dst].debt + d /\ nrow[src].debt = row[src].debt - d
  /\ \A r \in Storemen \ {src, dst} : nrow[r].debt = row[r].debt

LEMMA DebtsPass ==
  ASSUME IsFiniteSet(Storemen), NEW row, NEW nrow, NEW src, NEW dst, NEW d,
         Passed(row, nrow, src, dst, d)
  PROVE  Debts(nrow) = Debts(row)
<1> DEFINE mid == [r \in Storemen |-> [debt |-> IF r = dst THEN row[r].debt + d ELSE row[r].debt]]
<1>1. /\ \A r \in Storemen : mid[r].debt \in Nat
      /\ mid[dst].debt = row[dst].debt + d
      /\ \A r \in Storemen \ {dst} : mid[r].debt = row[r].debt
      /\ nrow[src].debt = mid[src].debt + (-d)
      /\ \A r \in Storemen \ {src} : nrow[r].debt = mid[r].debt
  BY DEF Passed
<1> HIDE DEF mid
<1>2. Debts(mid) = Debts(row) + d /\ Debts(row) \in Nat
  <2>1. dst \in Storemen /\ d \in Int /\ \A r \in Storemen : row[r].debt \in Nat
    BY DEF Passed
  <2> QED
    BY <1>1, <2>1, DebtsUpdate
<1>3. /\ -d \in Int /\ d \in Nat /\ src \in Storemen
      /\ \A r \in Storemen : nrow[r].debt \in Nat
  BY DEF Passed
<1>4. Debts(nrow) = Debts(mid) + (-d)
  BY <1>1, <1>3, DebtsUpdate
<1> QED
  BY <1>2, <1>3, <1>4

LEMMA SupplyShift ==
  ASSUME IsFiniteSet(Storemen), WanInv, WanInv', SupplyIsDebt,
         NEW t \in Tokens, NEW p \in Storemen, NEW dr \in Int, NEW dp \in Int, NEW dd \in Int,
         Shift(t, p, dr, dp, dd),
         \A u \in Tokens : supply'[u] = supply[u] + IF u = t THEN dd ELSE 0
  PROVE  SupplyIsDebt'
<1> SUFFICES ASSUME NEW u \in Tokens PROVE supply'[u] = Debts(quotas'[u])
  BY SupplyParts
<1>1. supply[u] = Debts(quotas[u]) /\ supply[u] \in Nat
  BY SupplyParts DEF WanInv, MoneyOK
<1>2. \A r \in Storemen : quotas[u][r].debt \in Nat /\ quotas'[u][r].debt \in Nat
  BY DEF WanInv, QuotaInv, QuotaTypeOK, Quota
<1>3. CASE u = t
  <2>1. /\ quotas'[u][p].debt = quotas[u][p].debt + dd
        /\ \A r \in Storemen \ {p} : quotas'[u][r].debt = quotas[u][r].debt
    BY <1>2, <1>3 DEF Shift
  <2>2. Debts(quotas'[u]) = Debts(quotas[u]) + dd
    BY <1>2, <2>1, DebtsUpdate
  <2> QED
    BY <1>1, <1>3, <2>2
<1>4. CASE u # t
  <2>1. \A r \in Storemen : quotas'[u][r].debt = quotas[u][r].debt
    BY <1>2, <1>4 DEF Shift
  <2>2. Debts(quotas'[u]) = Debts(quotas[u])
    BY <2>1, DebtsSame
  <2> QED
    BY <1>1, <1>4, <2>2
<1> QED
  BY <1>3, <1>4

LEMMA SupplyPassOn ==
  ASSUME IsFiniteSet(Storemen), WanInv, WanInv', SupplyIsDebt,
         NEW t \in Tokens, NEW src \in Storemen, NEW dst \in Storemen, src # dst,
         NEW d \in Int, NEW moved \in Nat,
         PassOn(t, src, dst, d, moved), UNCHANGED supply
  PROVE  SupplyIsDebt'
<1> SUFFICES ASSUME NEW u \in Tokens PROVE supply[u] = Debts(quotas'[u])
  BY SupplyParts
<1>1. supply[u] = Debts(quotas[u])
  BY SupplyParts
<1>2. \A r \in Storemen : quotas[u][r].debt \in Nat /\ quotas'[u][r].debt \in Nat
  BY DEF WanInv, QuotaInv, QuotaTypeOK, Quota
<1>3. CASE u = t
  <2>1. /\ quotas'[u][dst].debt = quotas[u][dst].debt + moved
        /\ quotas'[u][src].debt = quotas[u][src].debt - moved
        /\ \A r \in Storemen \ {src, dst} : quotas'[u][r].debt = quotas[u][r].debt
    BY <1>2, <1>3 DEF PassOn
  <2>2. Passed(quotas[u], quotas'[u], src, dst, moved)
    BY <1>2, <2>1 DEF Passed
  <2>3. Debts(quotas'[u]) = Debts(quotas[u])
    BY <2>2, DebtsPass
  <2> QED
    BY <1>1, <2>3
<1>4. CASE u # t
  <2>1. \A r \in Storemen : quotas'[u][r].debt = quotas[u][r].debt
    BY <1>2, <1>4 DEF PassOn
  <2>2. Debts(quotas'[u]) = Debts(quotas[u])
    BY <2>1, DebtsSame
  <2> QED
    BY <1>1, <2>2
<1> QED
  BY <1>3, <1>4

LEMMA SupplyFollows ==
  ASSUME IsFiniteSet(Storemen), WanInv, WanInv', SupplyIsDebt, KindOfStep
  PROVE  SupplyIsDebt'
<1>0. supply \in [Tokens -> Nat]
  BY DEF WanInv, MoneyOK
<1>1. CASE SmgOpens
  <2>1. PICK t \in Tokens, p \in Storemen, v \in Nat : Shift(t, p, v, 0, 0) /\ UNCHANGED supply
    BY <1>1 DEF SmgOpens
  <2>2. \A u \in Tokens : supply'[u] = supply[u] + IF u = t THEN 0 ELSE 0
    BY <1>0, <2>1
  <2> QED
    BY <2>1, <2>2, SupplyShift
<1>2. CASE SmgCloses
  <2>1. PICK t \in Tokens, p \in Storemen, v \in Nat, minted \in Nat :
          /\ Shift(t, p, -v, 0, minted)
          /\ \A u \in Tokens : supply'[u] = supply[u] + IF u = t THEN minted ELSE 0
    BY <1>2 DEF SmgCloses
  <2>2. -v \in Int /\ minted \in Int
    OBVIOUS
  <2> QED
    BY <2>1, <2>2, SupplyShift
<1>3. CASE UserOpens
  <2>1. PICK t \in Tokens, p \in Storemen, v \in Nat : Shift(t, p, 0, v, 0) /\ UNCHANGED supply
    BY <1>3 DEF UserOpens
  <2>2. \A u \in Tokens : supply'[u] = supply[u] + IF u = t THEN 0 ELSE 0
    BY <1>0, <2>1
  <2> QED
    BY <2>1, <2>2, SupplyShift
<1>4. CASE UserCloses
  <2>1. PICK t \in Tokens, p \in Storemen, v \in Nat, burnt \in Nat :
          /\ Shift(t, p, 0, -v, -burnt)
          /\ \A u \in Tokens : supply'[u] = supply[u] - IF u = t THEN burnt ELSE 0
    BY <1>4 DEF UserCloses
  <2> DEFINE dp == -v
             dd == -burnt
  <2>2. dp \in Int /\ dd \in Int /\ Shift(t, p, 0, dp, dd)
    BY <2>1
  <2>3. \A u \in Tokens : supply'[u] = supply[u] + IF u = t THEN dd ELSE 0
    BY <1>0, <2>1
  <2> HIDE DEF dp, dd
  <2> QED
    BY <2>2, <2>3, SupplyShift
<1>5. CASE DebtOpens
  <2>1. PICK t \in Tokens, src \in Storemen, dst \in Storemen, v \in Nat :
          src # dst /\ PassOn(t, src, dst, v, 0) /\ UNCHANGED supply
    BY <1>5 DEF DebtOpens
  <2> QED
    BY <2>1, SupplyPassOn
<1>6. CASE DebtCloses
  <2>1. PICK t \in Tokens, src \in Storemen, dst \in Storemen, v \in Nat, moved \in Nat :
          src # dst /\ PassOn(t, src, dst, -v, moved) /\ UNCHANGED supply
    BY <1>6 DEF DebtCloses
  <2>2. -v \in Int
    OBVIOUS
  <2> QED
    BY <2>1, <2>2, SupplyPassOn
<1>7. CASE Administers
  <2>1. \A t \in Tokens, p \in Storemen : quotas'[t][p].debt = quotas[t][p].debt
    BY <1>7 DEF Administers, AdminShift
  <2>2. \A t \in Tokens : Debts(quotas'[t]) = Debts(quotas[t])
    BY <2>1, DebtsSame
  <2> QED
    BY <1>7, <2>2, SupplyParts DEF Administers, htlcVars
<1>8. ASSUME UNCHANGED <<quotas, supply>>
      PROVE  SupplyIsDebt'
  BY <1>8, SupplyParts
<1> QED
  BY <1>1, <1>2, <1>3, <1>4, <1>5, <1>6, <1>7, <1>8
  DEF KindOfStep, SmgWithdrawFee, TransferToHtlc, WanTick

LEMMA SupplyAtFirst ==
  ASSUME IsFiniteSet(Storemen), WanInit
  PROVE  SupplyIsDebt
<1> SUFFICES ASSUME NEW t \in Tokens PROVE supply[t] = Debts(quotas[t])
  BY SupplyParts
<1>1. supply[t] = 0 /\ \A p \in Storemen : quotas[t][p].debt = 0
  BY DEF WanInit, QuotaInit, NoQuota
<1> DEFINE f == DebtsOf(quotas[t])
<1>2. \A p \in Storemen : f[p] = 0
  BY <1>1 DEF DebtsOf
<1>3. Debts(quotas[t]) = SumOf(f, Storemen)
  BY DebtsAreSum
<1> HIDE DEF f
<1>4. SumOf(f, Storemen) = 0
  BY <1>2, SumOfZeros
<1> QED
  BY <1>1, <1>3, <1>4

(* The supply of every token is exactly what the storeman groups owe, for  *)
(* every finite set of groups: a mint or a burn changes both, and a debt   *)
(* handed over, a group deleted or added changes neither.                  *)
THEOREM SupplyIsAlwaysDebt ==
  ASSUME IsFiniteSet(XHashes), IsFiniteSet(Storemen)
  PROVE  WanSpec => []SupplyIsDebt
<1>1. WanInit => SupplyIsDebt
  BY SupplyAtFirst
<1>2. WanInv /\ BooksInv /\ SupplyIsDebt /\ [WanNext]_wanVars => SupplyIsDebt'
  BY WanNextInv, StepHasKind, SupplyFollows DEF BooksInv
<1>3. WanSpec => []WanInv
  BY WanInvariant
<1>4. WanSpec => []BooksInv
  BY BooksAreKept
<1> QED
  BY <1>1, <1>2, <1>3, <1>4, PTL DEF WanSpec

-----------------------------------------------------------------------------
(* The tokens the contract holds. *)

LEMMA CustodyFollows ==
  ASSUME IsFiniteSet(XHashes), WanInv, WanInv', CustodyCoversLocked, KindOfStep
  PROVE  CustodyCoversLocked'
<1>0. ValuesAreNat(userTxs) /\ ValuesAreNat(userTxs')
  BY LockedValues DEF WanInv, TablesOK
<1>1. \A t \in Tokens : /\ custody[t] >= Value(userTxs, In(userTxs, t))
                        /\ custody[t] \in Nat
  BY CustodyParts DEF WanInv, MoneyOK
<1>2. CASE UserOpens
  <2>1. PICK x \in XHashes, t \in Tokens, p \in Storemen, v \in Nat :
          /\ Opens(userTxs, userTxs', x, t, p, v)
          /\ \A u \in Tokens : custody'[u] = custody[u] + IF u = t THEN v ELSE 0
    BY <1>2 DEF UserOpens
  <2> SUFFICES ASSUME NEW u \in Tokens
               PROVE  custody'[u] >= Value(userTxs', In(userTxs', u))
    BY CustodyParts
  <2>2. /\ Value(userTxs, In(userTxs, u)) \in Nat
        /\ Value(userTxs', In(userTxs', u)) = Value(userTxs, In(userTxs, u))
             - PendingIn(userTxs[x], u) + PendingIn(userTxs'[x], u)
    BY <1>0, <2>1, InChanges DEF Opens
  <2>3. /\ PendingIn(userTxs[x], u) = 0
        /\ PendingIn(userTxs'[x], u) = IF u = t THEN v ELSE 0
    BY <2>1 DEF Opens, NoTx, PendingIn
  <2> QED
    BY <1>1, <2>1, <2>2, <2>3
<1>3. CASE UserCloses
  <2>1. PICK x \in XHashes, t \in Tokens, v \in Nat :
          /\ Closes(userTxs, userTxs', x) /\ userTxs[x].token = t /\ userTxs[x].value = v
          /\ \A u \in Tokens : custody'[u] = custody[u] - IF u = t THEN v ELSE 0
    BY <1>3 DEF UserCloses
  <2> SUFFICES ASSUME NEW u \in Tokens
               PROVE  custody'[u] >= Value(userTxs', In(userTxs', u))
    BY CustodyParts
  <2>2. /\ Value(userTxs, In(userTxs, u)) \in Nat
        /\ Value(userTxs', In(userTxs', u)) = Value(userTxs, In(userTxs, u))
             - PendingIn(userTxs[x], u) + PendingIn(userTxs'[x], u)
    BY <1>0, <2>1, InChanges DEF Closes
  <2>3. /\ PendingIn(userTxs'[x], u) = 0
        /\ PendingIn(userTxs[x], u) = IF u = t THEN v ELSE 0
    BY <2>1 DEF Closes, PendingIn
  <2> QED
    BY <1>1, <2>1, <2>2, <2>3
<1>4. CASE \E t \in Tokens, v \in Values : TransferToHtlc(t, v)
  <2>1. PICK t \in Tokens, v \in Values : TransferToHtlc(t, v)
    BY <1>4
  <2>2. \A u \in Tokens : custody'[u] >= custody[u] /\ custody'[u] \in Nat
    BY <2>1, WanConstants DEF TransferToHtlc, WanInv, MoneyOK
  <2>3. \A u \in Tokens : Value(userTxs', In(userTxs', u)) = Value(userTxs, In(userTxs, u))
    BY <2>1 DEF TransferToHtlc
  <2>4. \A u \in Tokens : Value(userTxs, In(userTxs, u)) \in Nat
    <3> TAKE u \in Tokens
    <3>1. /\ In(userTxs, u) \in SUBSET XHashes
          /\ \A x \in In(userTxs, u) : userTxs[x].value \in Nat
      BY <1>0 DEF In, Locked, ValuesAreNat
    <3> QED
      BY <3>1, ValueIsCounted
  <2> SUFFICES ASSUME NEW u \in Tokens
               PROVE  custody'[u] >= Value(userTxs', In(userTxs', u))
    BY CustodyParts
  <2> QED
    BY <1>1, <2>2, <2>3, <2>4
<1>5. CASE WanTick
  <2> SUFFICES ASSUME NEW u \in Tokens
               PROVE  custody'[u] >= Value(userTxs', In(userTxs', u))
    BY CustodyParts
  <2> DEFINE xs == In(userTxs, u)
             nxs == In(userTxs', u)
  <2>1. /\ xs \in SUBSET XHashes /\ nxs \in SUBSET XHashes
        /\ \A y \in xs : userTxs[y].value \in Nat /\ userTxs'[y].value = userTxs[y].value
        /\ \A y \in XHashes : y \in nxs <=> y \in xs
    BY <1>0, <1>5, AgedRows DEF In, Locked, ValuesAreNat
  <2> HIDE DEF xs, nxs
  <2>2. Value(userTxs', nxs) = Value(userTxs, xs)
    BY <2>1, ValueSame
  <2>3. custody' = custody
    BY <1>5 DEF WanTick
  <2> QED
    BY <1>1, <2>2, <2>3 DEF xs, nxs
<1>6. ASSUME UNCHANGED <<userTxs, custody>>
      PROVE  CustodyCoversLocked'
  BY <1>1, <1>6, CustodyParts
<1> QED
  BY <1>2, <1>3, <1>4, <1>5, <1>6
  DEF KindOfStep, SmgOpens, SmgCloses, DebtOpens, DebtCloses, Administers, htlcVars, SmgWithdrawFee

(* The contract holds at least the tokens that users have locked, of every *)
(* token and for every finite set of hashes, whatever else is sent to it:  *)
(* the burn of a redeem and the return of a revoke find them.              *)
THEOREM CustodyAlwaysCoversLocked ==
  ASSUME IsFiniteSet(XHashes)
  PROVE  WanSpec => []CustodyCoversLocked
<1>1. WanInit => CustodyCoversLocked
  <2> SUFFICES ASSUME WanInit, NEW t \in Tokens
               PROVE  custody[t] >= Value(userTxs, In(userTxs, t))
    BY CustodyParts
  <2>1. In(userTxs, t) = {} /\ custody[t] = 0
    BY NothingLockedAtFirst DEF In, WanInit
  <2>2. Value(userTxs, In(userTxs, t)) = 0
    BY <2>1, ValueOfNone
  <2> QED
    BY <2>1, <2>2
<1>2. WanInv /\ BooksInv /\ CustodyCoversLocked /\ [WanNext]_wanVars => CustodyCoversLocked'
  BY WanNextInv, StepHasKind, CustodyFollows DEF BooksInv
<1>3. WanSpec => []WanInv
  BY WanInvariant
<1>4. WanSpec => []BooksInv
  BY BooksAreKept
<1> QED
  BY <1>1, <1>2, <1>3, <1>4, PTL DEF WanSpec

-----------------------------------------------------------------------------
(* The wan coins the contract holds. *)

Sum(g, S) == MapThenSumSet(LAMBDA x : g[x], S)

LEMMA SumIsSum ==
  ASSUME NEW S, IsFiniteSet(S), NEW g
  PROVE  Sum(g, S) = SumOf(g, S)
<1> DEFINE body(it) == [s \in SUBSET S |->
                          IF s = {} THEN 0 ELSE g[AnyOf(s)] + it[s \ {AnyOf(s)}]]
           sol == CHOOSE it : it = body(it)
<1>1. ASSUME NEW it PROVE it = body(it) <=> Recursion(g, S, it)
  BY DEF Recursion
<1>2. Sum(g, S) = sol[S]
  BY DEF Sum, MapThenSumSet, MapThenFoldSet, AnyOf
<1> HIDE DEF body
<1>3. \E it : it = body(it)
  BY <1>1, RecursionExists
<1>4. sol = body(sol)
  BY <1>3, Zenon
<1>5. Recursion(g, S, sol)
  BY <1>1, <1>4
<1> QED
  BY <1>2, <1>5, SolvedIsSum

LEMMA FeeSums ==
  /\ WanCoversFees <=> wan = Sum(xHashFee, XHashes) + Sum(storemanFee, Storemen)
  /\ WanCoversFees' <=> wan' = Sum(xHashFee', XHashes) + Sum(storemanFee', Storemen)
<1>1. WanCoversFees <=> wan = Sum(xHashFee, XHashes) + Sum(storemanFee, Storemen)
  BY DEF WanCoversFees, Sum
<1>2. (WanCoversFees <=> wan = Sum(xHashFee, XHashes) + Sum(storemanFee, Storemen))'
  BY <1>1, PTL
<1> QED
  BY <1>1, <1>2

LEMMA FeeParts ==
  ASSUME IsFiniteSet(XHashes), IsFiniteSet(Storemen)
  PROVE  /\ WanCoversFees <=> wan = SumOf(xHashFee, XHashes) + SumOf(storemanFee, Storemen)
         /\ WanCoversFees' <=> wan' = SumOf(xHashFee', XHashes) + SumOf(storemanFee', Storemen)
<1>1. /\ Sum(xHashFee, XHashes) = SumOf(xHashFee, XHashes)
      /\ Sum(storemanFee, Storemen) = SumOf(storemanFee, Storemen)
      /\ Sum(xHashFee', XHashes) = SumOf(xHashFee', XHashes)
      /\ Sum(storemanFee', Storemen) = SumOf(storemanFee', Storemen)
  BY SumIsSum
<1> QED
  BY <1>1, FeeSums

(* A fee is held for pending locks only. *)
NoFeeUnlocked == \A x \in XHashes : userTxs[x].status # "Locked" => xHashFee[x] = 0

FeesInv == WanCoversFees /\ NoFeeUnlocked

LEMMA FeesFollow ==
  ASSUME IsFiniteSet(XHashes), IsFiniteSet(Storemen), WanInv, WanInv', FeesInv, KindOfStep
  PROVE  FeesInv'
<1> DEFINE F == SumOf(xHashFee, XHashes)
           nF == SumOf(xHashFee', XHashes)
           E == SumOf(storemanFee, Storemen)
           nE == SumOf(storemanFee', Storemen)
<1>0. /\ Counts(xHashFee, XHashes) /\ Counts(xHashFee', XHashes)
      /\ Counts(storemanFee, Storemen) /\ Counts(storemanFee', Storemen)
      /\ wan \in Nat
  BY DEF WanInv, MoneyOK, Counts
<1>1. wan = F + E /\ NoFeeUnlocked
  BY FeeParts DEF FeesInv
<1>2. F \in Nat /\ E \in Nat
  BY <1>0, SumStep
<1>3. FeesInv' <=> wan' = nF + nE /\ NoFeeUnlocked'
  BY FeeParts DEF FeesInv
<1>4. ASSUME UNCHANGED coins,
             \A x \in XHashes : userTxs[x].status = "Locked" => userTxs'[x].status = "Locked"
      PROVE  FeesInv'
  <2>1. F = nF /\ E = nE /\ wan' = wan
    BY <1>4 DEF coins
  <2>2. NoFeeUnlocked'
    BY <1>1, <1>4 DEF NoFeeUnlocked, coins
  <2> QED
    BY <1>1, <1>3, <2>1, <2>2
<1>5. CASE UserOpens
  <2>1. PICK x \in XHashes, fee \in Nat :
          /\ userTxs[x] = NoTx /\ userTxs'[x].status = "Locked"
          /\ \A y \in XHashes \ {x} : userTxs'[y] = userTxs[y]
          /\ xHashFee'[x] = fee /\ (\A y \in XHashes \ {x} : xHashFee'[y] = xHashFee[y])
          /\ wan' = wan + fee /\ storemanFee' = storemanFee
    BY <1>5 DEF UserOpens, Opens
  <2>2. xHashFee[x] = 0
    BY <1>1, <2>1 DEF NoFeeUnlocked, NoTx
  <2>3. nF = F - xHashFee[x] + xHashFee'[x]
    BY <1>0, <2>1, SumUpdate
  <2>4. nE = E
    BY <2>1
  <2>5. NoFeeUnlocked'
    BY <1>1, <2>1 DEF NoFeeUnlocked
  <2> HIDE DEF F, nF, E, nE
  <2>6. wan' = nF + nE
    BY <1>1, <1>2, <2>1, <2>2, <2>3, <2>4
  <2> QED
    BY <1>3, <2>5, <2>6
<1>6. CASE UserCloses
  <2>1. PICK x \in XHashes, p \in Storemen, earned \in Nat :
          /\ userTxs'[x].status # "Locked"
          /\ \A y \in XHashes \ {x} : userTxs'[y] = userTxs[y]
          /\ xHashFee'[x] = 0 /\ (\A y \in XHashes \ {x} : xHashFee'[y] = xHashFee[y])
          /\ storemanFee'[p] = storemanFee[p] + earned
          /\ \A r \in Storemen \ {p} : storemanFee'[r] = storemanFee[r]
          /\ wan' = wan - (xHashFee[x] - earned)
    BY <1>6 DEF UserCloses, Closes
  <2>2. nF = F - xHashFee[x] + xHashFee'[x]
    BY <1>0, <2>1, SumUpdate
  <2>3. nE = E - storemanFee[p] + storemanFee'[p]
    BY <1>0, <2>1, SumUpdate
  <2>4. NoFeeUnlocked'
    BY <1>1, <2>1 DEF NoFeeUnlocked
  <2>5. xHashFee[x] \in Nat /\ storemanFee[p] \in Nat
    BY <1>0 DEF Counts
  <2> HIDE DEF F, nF, E, nE
  <2>6. wan' = nF + nE
    BY <1>1, <1>2, <2>1, <2>2, <2>3, <2>5
  <2> QED
    BY <1>3, <2>4, <2>6
<1>7. CASE \E p \in Storemen : SmgWithdrawFee(p)
  <2>1. PICK p \in Storemen : SmgWithdrawFee(p)
    BY <1>7
  <2>2. /\ storemanFee'[p] = 0 /\ \A r \in Storemen \ {p} : storemanFee'[r] = storemanFee[r]
        /\ wan' = wan - storemanFee[p]
        /\ UNCHANGED <<xHashFee, userTxs>>
    BY <2>1 DEF SmgWithdrawFee, WanInv, MoneyOK
  <2>3. nE = E - storemanFee[p] + storemanFee'[p]
    BY <1>0, <2>2, SumUpdate
  <2>4. nF = F
    BY <2>2
  <2>5. storemanFee[p] \in Nat
    BY <1>0 DEF Counts
  <2>6. NoFeeUnlocked'
    BY <1>1, <2>2 DEF NoFeeUnlocked
  <2> HIDE DEF F, nF, E, nE
  <2>7. wan' = nF + nE
    BY <1>1, <1>2, <2>2, <2>3, <2>4, <2>5
  <2> QED
    BY <1>3, <2>6, <2>7
<1>8. CASE WanTick
  BY <1>4, <1>8, AgedRows DEF WanTick, coins
<1>9. UNCHANGED <<userTxs, coins>> => FeesInv'
  BY <1>4
<1>10. CASE SmgOpens \/ SmgCloses \/ DebtOpens \/ DebtCloses
  BY <1>9, <1>10 DEF SmgOpens, SmgCloses, DebtOpens, DebtCloses
<1>11. CASE Administers \/ \E t \in Tokens, v \in Values : TransferToHtlc(t, v)
  BY <1>9, <1>11 DEF Administers, htlcVars, coins, TransferToHtlc
<1> QED
  BY <1>5, <1>6, <1>7, <1>8, <1>10, <1>11 DEF KindOfStep

(* The wan the contract holds is exactly the fees of pending outbound      *)
(* locks and the fees storemen have earned and not withdrawn, for every    *)
(* finite set of hashes and of groups, and whatever ratio the owner sets   *)
(* meanwhile: no fee is paid out twice and none stays behind.              *)
THEOREM WanAlwaysCoversFees ==
  ASSUME IsFiniteSet(XHashes), IsFiniteSet(Storemen)
  PROVE  WanSpec => []WanCoversFees
<1>1. WanInit => FeesInv
  <2> SUFFICES ASSUME WanInit PROVE FeesInv
    OBVIOUS
  <2>1. /\ \A x \in XHashes : xHashFee[x] = 0
        /\ \A p \in Storemen : storemanFee[p] = 0
        /\ wan = 0
    BY DEF WanInit
  <2>2. SumOf(xHashFee, XHashes) = 0 /\ SumOf(storemanFee, Storemen) = 0
    BY <2>1, SumOfZeros
  <2>3. WanCoversFees
    BY <2>1, <2>2, FeeParts
  <2> QED
    BY <2>1, <2>3 DEF FeesInv, NoFeeUnlocked
<1>2. WanInv /\ BooksInv /\ FeesInv /\ [WanNext]_wanVars => FeesInv'
  BY WanNextInv, StepHasKind, FeesFollow DEF BooksInv
<1>3. WanSpec => []WanInv
  BY WanInvariant
<1>4. WanSpec => []BooksInv
  BY BooksAreKept
<1>5. FeesInv => WanCoversFees
  BY DEF FeesInv
<1> QED
  BY <1>1, <1>2, <1>3, <1>4, <1>5, PTL DEF WanSpec

-----------------------------------------------------------------------------
(* Closing.  What the books have to hold for a pending transaction to be   *)
(* redeemed or revoked: the guards of the six actions that are not about   *)
(* who calls, when, and whether the contract runs.                         *)

UserTxCovered(x) ==
  LET tx == userTxs[x]
  IN  /\ tx.value > 0
      /\ IsExist(tx.token, tx.storeman)
      /\ quotas[tx.token][tx.storeman].payable >= tx.value
      /\ quotas[tx.token][tx.storeman].debt >= tx.value
      /\ custody[tx.token] >= tx.value
      /\ supply[tx.token] >= tx.value
      /\ xHashFee[x] - RevokeFee(x) >= 0
      /\ wan >= xHashFee[x] - RevokeFee(x)

SmgTxCovered(x) ==
  LET tx == smgTxs[x]
  IN  /\ tx.value > 0
      /\ IsExist(tx.token, tx.storeman)
      /\ quotas[tx.token][tx.storeman].receivable >= tx.value

DebtTxCovered(x) ==
  LET tx == debtTxs[x]
  IN  /\ tx.value > 0
      /\ IsExist(tx.token, tx.storeman)
      /\ NotActive(tx.token, tx.src)
      /\ quotas[tx.token][tx.storeman].receivable >= tx.value
      /\ quotas[tx.token][tx.src].payable >= tx.value
      /\ quotas[tx.token][tx.src].debt >= tx.value

EveryPendingTxIsCovered ==
  /\ \A x \in Locked(userTxs) : UserTxCovered(x)
  /\ \A x \in Locked(smgTxs) : SmgTxCovered(x)
  /\ \A x \in Locked(debtTxs) : DebtTxCovered(x)

(* One part of the supply is at most the supply. *)
LEMMA SupplyCoversDebt ==
  ASSUME IsFiniteSet(Storemen), WanInv, SupplyIsDebt, NEW t \in Tokens, NEW p \in Storemen
  PROVE  supply[t] >= quotas[t][p].debt
<1> DEFINE f == DebtsOf(quotas[t])
<1>1. Counts(f, Storemen) /\ f[p] = quotas[t][p].debt
  BY CountersAreNat DEF DebtsOf, Counts
<1>2. supply[t] = SumOf(f, Storemen)
  BY SupplyParts, DebtsAreSum
<1> HIDE DEF f
<1>3. /\ SumOf(f, Storemen) = f[p] + SumOf(f, Storemen \ {p})
      /\ SumOf(f, Storemen \ {p}) \in Nat /\ f[p] \in Nat
  <2>1. Counts(f, Storemen \ {p})
    BY <1>1, FS_Subset DEF Counts
  <2> QED
    BY <1>1, <2>1, SumStep DEF Counts
<1> QED
  BY <1>1, <1>2, <1>3

(* The fee kept of a revoked lock is at most the fee, whatever the ratio   *)
(* was set to since the lock.                                              *)
LEMMA RevokeFeeIsPartOfFee ==
  ASSUME WanInv, NEW x \in XHashes
  PROVE  RevokeFee(x) \in Nat /\ RevokeFee(x) <= xHashFee[x]
<1> DEFINE fee == xHashFee[x]
           n == fee * revokeRatio
<1>1. /\ fee \in Nat /\ revokeRatio \in Nat /\ RatioPrecise \in Nat /\ RatioPrecise > 0
      /\ revokeRatio <= RatioPrecise
  BY WanConstants DEF WanInv, MoneyOK
<1>2. n \in Nat /\ n <= fee * RatioPrecise
  BY <1>1
<1> HIDE DEF n
<1>3. ASSUME NEW q \in Nat, q = n \div RatioPrecise PROVE q <= fee
  <2> SUFFICES ASSUME q >= fee + 1 PROVE FALSE
    BY <1>1, <1>3
  <2>1. q * RatioPrecise <= n
    BY <1>1, <1>2, <1>3
  <2>2. q * RatioPrecise >= (fee + 1) * RatioPrecise
    BY <1>1
  <2>3. (fee + 1) * RatioPrecise = fee * RatioPrecise + RatioPrecise
    BY <1>1
  <2> QED
    BY <1>1, <1>2, <2>1, <2>2, <2>3
<1> QED
  BY <1>3, RevokeFeeType DEF RevokeFee, n

(* The coins of the contract cover the fee of each pending lock. *)
LEMMA WanCoversFee ==
  ASSUME IsFiniteSet(XHashes), IsFiniteSet(Storemen), WanInv, WanCoversFees, NEW x \in XHashes
  PROVE  wan >= xHashFee[x]
<1>1. Counts(xHashFee, XHashes) /\ Counts(storemanFee, Storemen) /\ wan \in Nat
  BY DEF WanInv, MoneyOK, Counts
<1>2. wan = SumOf(xHashFee, XHashes) + SumOf(storemanFee, Storemen)
  BY FeeParts
<1>3. Counts(xHashFee, XHashes \ {x})
  BY <1>1, FS_Subset DEF Counts
<1>4. /\ SumOf(xHashFee, XHashes) = xHashFee[x] + SumOf(xHashFee, XHashes \ {x})
      /\ SumOf(xHashFee, XHashes \ {x}) \in Nat /\ xHashFee[x] \in Nat
      /\ SumOf(storemanFee, Storemen) \in Nat
  BY <1>1, <1>3, SumStep DEF Counts
<1> QED
  BY <1>1, <1>2, <1>4

LEMMA CustodyCoversTx ==
  ASSUME IsFiniteSet(XHashes), WanInv, CustodyCoversLocked, NEW x \in Locked(userTxs)
  PROVE  custody[userTxs[x].token] >= userTxs[x].value
<1> DEFINE t == userTxs[x].token
           xs == In(userTxs, t)
<1>1. t \in Tokens /\ userTxs[x].value \in Nat
  BY LockedUser DEF Locked, IsLocked
<1>2. ValuesAreNat(userTxs)
  BY LockedValues DEF WanInv, TablesOK
<1>3. /\ xs \in SUBSET XHashes /\ x \in xs
      /\ \A y \in xs : userTxs[y].value \in Nat
  BY <1>2 DEF In, Locked, ValuesAreNat
<1>4. custody[t] >= Value(userTxs, xs) /\ custody[t] \in Nat
  BY <1>1, CustodyParts DEF WanInv, MoneyOK
<1> HIDE DEF xs
<1>5. Value(userTxs, xs) \in Nat /\ Value(userTxs, xs) >= userTxs[x].value
  BY <1>3, ValueIsCounted
<1> QED
  BY <1>1, <1>4, <1>5

(* No redeem and no revoke on Wanchain is ever refused for want of a       *)
(* quota, a counter, a token or a coin: every pending transaction, of any  *)
(* number of users and groups, is covered by the books of the contract     *)
(* until it is closed, whatever the admin and the owner do meanwhile.      *)
THEOREM PendingTxsAreAlwaysCovered ==
  ASSUME IsFiniteSet(XHashes), IsFiniteSet(Storemen)
  PROVE  WanSpec => []EveryPendingTxIsCovered
<1>1. ASSUME WanInv, BooksInv, PendingGroupsExist, SupplyIsDebt, CustodyCoversLocked,
             WanCoversFees
      PROVE  EveryPendingTxIsCovered
  <2>0. \A t \in Tokens, p \in Storemen :
          /\ quotas[t][p].payable \in Nat /\ quotas[t][p].debt \in Nat
          /\ quotas[t][p].payable <= quotas[t][p].debt
          /\ supply[t] \in Nat /\ supply[t] >= quotas[t][p].debt
    BY <1>1, CountersAreNat, SupplyCoversDebt DEF WanInv, QuotaInv, PayableWithinDebt, MoneyOK
  <2>1. ASSUME NEW x \in Locked(userTxs) PROVE UserTxCovered(x)
    <3>1. /\ x \in XHashes /\ userTxs[x].token \in Tokens /\ userTxs[x].storeman \in Storemen
          /\ userTxs[x].value \in Nat /\ userTxs[x].value > 0
      BY <1>1, LockedUser DEF Locked, IsLocked, BooksInv, Moves
    <3>2. /\ quotas[userTxs[x].token][userTxs[x].storeman].payable >= userTxs[x].value
          /\ custody[userTxs[x].token] >= userTxs[x].value
          /\ IsExist(userTxs[x].token, userTxs[x].storeman)
      BY <1>1, PendingIsCovered, CustodyCoversTx DEF BooksInv, PendingGroupsExist
    <3>3. /\ RevokeFee(x) \in Nat /\ RevokeFee(x) <= xHashFee[x] /\ xHashFee[x] \in Nat
          /\ wan >= xHashFee[x] /\ wan \in Nat
      BY <1>1, <3>1, RevokeFeeIsPartOfFee, WanCoversFee DEF WanInv, MoneyOK
    <3>4. xHashFee[x] - RevokeFee(x) >= 0 /\ wan >= xHashFee[x] - RevokeFee(x)
      BY <3>3
    <3>5. /\ quotas[userTxs[x].token][userTxs[x].storeman].debt >= userTxs[x].value
          /\ supply[userTxs[x].token] >= userTxs[x].value
      BY <2>0, <3>1, <3>2
    <3> QED
      BY <3>1, <3>2, <3>4, <3>5 DEF UserTxCovered
  <2>2. ASSUME NEW x \in Locked(smgTxs) PROVE SmgTxCovered(x)
    <3>1. smgTxs[x].value > 0
      BY <1>1 DEF BooksInv, Moves
    <3> QED
      BY <1>1, <3>1, PendingIsCovered DEF BooksInv, PendingGroupsExist, SmgTxCovered
  <2>3. ASSUME NEW x \in Locked(debtTxs) PROVE DebtTxCovered(x)
    <3>1. /\ debtTxs[x].token \in Tokens /\ debtTxs[x].src \in Storemen
          /\ debtTxs[x].value \in Nat /\ debtTxs[x].value > 0
      BY <1>1, LockedDebt DEF Locked, IsLocked, BooksInv, Moves
    <3>2. /\ quotas[debtTxs[x].token][debtTxs[x].storeman].receivable >= debtTxs[x].value
          /\ quotas[debtTxs[x].token][debtTxs[x].src].payable >= debtTxs[x].value
          /\ IsExist(debtTxs[x].token, debtTxs[x].storeman)
          /\ NotActive(debtTxs[x].token, debtTxs[x].src)
      BY <1>1, PendingIsCovered DEF BooksInv, PendingGroupsExist
    <3>3. quotas[debtTxs[x].token][debtTxs[x].src].debt >= debtTxs[x].value
      BY <2>0, <3>1, <3>2
    <3> QED
      BY <3>1, <3>2, <3>3 DEF DebtTxCovered
  <2> QED
    BY <2>1, <2>2, <2>3 DEF EveryPendingTxIsCovered
<1> QED
  BY <1>1, WanInvariant, BooksAreKept, PendingGroupsAlwaysExist, SupplyIsAlwaysDebt,
     CustodyAlwaysCoversLocked, WanAlwaysCoversFees, PTL
=============================================================================
