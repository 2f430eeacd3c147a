------------------------------ MODULE EosHtlcV1 ------------------------------
(***************************************************************************)
(* The EOS contract before it was split into src/ and include/: the single *)
(* file c++/htlc.eos.v.1/htlc.eos.v.1.cpp.  Its tables are those of        *)
(* EosHtlc.  It differs in that                                            *)
(*   - a storeman may change its key in place (updatepk) or have it erased *)
(*     (removepk);                                                         *)
(*   - a key stays while a debt names it as receiver, and the storeman     *)
(*     signs what it redeems;                                              *)
(*   - two of the loops over pid.acct do not advance in every case;        *)
(*   - inlock records the token account its memo names, any account at     *)
(*     all, which the split version compares with the contract that sent   *)
(*     the notification;                                                   *)
(*   - a lock asks that the assets cover it alone, too, and updatesig      *)
(*     modifies a row in place;                                            *)
(*   - the deadlines of inredeem, inrevoke and redeemdebt are one tick     *)
(*     earlier.                                                            *)
(* An action that is the same in both is named here for its lines.         *)
(***************************************************************************)
EXTENDS EosHtlc

-----------------------------------------------------------------------------
(* Tables *)

(* Mutant: the receivers of debts are overlooked. *)
OwesDebt(pid) == \E x \in Live(debts) : debts[x].pid = pid

(* isPkDebt(pid) and isNPkDebt(pid) both look the id up on either side. *)
InDebt(pid) == \E x \in Live(debts) : pid \in {debts[x].pid, debts[x].npid}

InHtlc(pid) == \E x \in Live(transfers) : transfers[x].pid = pid

V1CleanPk(pid, book) ==
  pks' = IF HasRows(book, pid) \/ HasRows(fees, pid) \/ InHtlc(pid) \/ InDebt(pid)
         THEN pks ELSE [pks EXCEPT ![pid] = NoRow]

(***************************************************************************)
(* isPkDebt(pid, account, symbol) looks at the first row of its key only:  *)
(* with the symbol asked for the storeman is busy, with another one the    *)
(* loop, which never advances, does not end and the action fails.  With no *)
(* row it reads past the index, and takes what it finds for busy or not.   *)
(* So an action that asks it can pass at most when the key has no debt.    *)
(***************************************************************************)
MayPassIsPkDebt(pid, token) ==
  \A x \in Live(debts) : debts[x].pid = pid => debts[x].token.account # token.account

(* getPendDebtAssetFrom advances only past rows of the symbol it sums up:  *)
(* it returns when every row it visits has that symbol.                    *)
PendDebtReturns(pid, token) ==
  \A x \in Scan(debts, pid, token.account) : debts[x].token.symbol = token.symbol

-----------------------------------------------------------------------------
(* Keys *)

(* Mutant: the new key may be one that is in use. *)
UpdatepkUnchecked(npk, pk) ==
  /\ HasSigner
  /\ npk # pk
  /\ \E pid \in Pids :
       /\ FindPK(pk, pid)
       /\ ~InDebt(pid)
       /\ pks' = [pks EXCEPT ![pid] = npk]
  /\ UNCHANGED <<transfers, debts, assets, fees, ratio, signers, vault>>

(* The row is changed in place, so that all that is recorded under its id  *)
(* passes to the new key.                                                  *)
Updatepk(npk, pk) ==
  /\ HasSigner
  /\ \A p \in Pids : ~FindPK(npk, p)
  /\ \E pid \in Pids :
       /\ FindPK(pk, pid)
       /\ ~InDebt(pid)
       /\ pks' = [pks EXCEPT ![pid] = npk]
  /\ UNCHANGED <<transfers, debts, assets, fees, ratio, signers, vault>>

(* Mutant: assets are overlooked. *)
RemovepkWithAssets(pk) ==
  /\ HasSigner
  /\ \E pid \in Pids :
       /\ FindPK(pk, pid)
       /\ ~InDebt(pid) /\ ~InHtlc(pid)
       /\ ~HasRows(fees, pid)
       /\ pks' = [pks EXCEPT ![pid] = NoRow]
  /\ UNCHANGED <<transfers, debts, assets, fees, ratio, signers, vault>>

Removepk(pk) ==
  /\ HasSigner
  /\ \E pid \in Pids :
       /\ FindPK(pk, pid)
       /\ ~InDebt(pid) /\ ~InHtlc(pid)
       /\ ~HasRows(assets, pid) /\ ~HasRows(fees, pid)
       /\ pks' = [pks EXCEPT ![pid] = NoRow]
  /\ UNCHANGED <<transfers, debts, assets, fees, ratio, signers, vault>>

-----------------------------------------------------------------------------
(* Inbound *)

(* The token account recorded is the one the memo names. *)
V1Inlock(user, sent, account, quantity, x, pk) ==
  LET token == [sent EXCEPT !.account = account] IN
  /\ vault[sent] + quantity <= Supply
  /\ transfers[x] = NoRow
  /\ \E pid \in Pids :
       /\ FindOrSavePk(pk, pid)
       /\ MayPassIsPkDebt(pid, token)
       /\ transfers' = [transfers EXCEPT ![x] =
            [status |-> "inlock", user |-> user, pid |-> pid, token |-> token,
             quantity |-> quantity, timeLeft |-> 2 * LockedTime]]
  /\ vault' = [vault EXCEPT ![sent] = @ + quantity]
  /\ UNCHANGED <<debts, assets, fees, ratio, signers>>

V1OtherTransfer(token, quantity) == OtherTransfer(token, quantity)

BeforeDeadline(row) == row.timeLeft > 0
AtDeadline(row) == row.timeLeft <= 0

V1Inredeem(x) ==
  /\ HasSigner
  /\ transfers[x] # NoRow
  /\ BeforeDeadline(transfers[x])
  /\ Inredeem(x)

(* The fee is that of EosHtlc; so is what is paid and recorded. *)
V1Inrevoke(x) ==
  /\ transfers[x] # NoRow
  /\ transfers[x].status = "inlock"
  /\ AtDeadline(transfers[x])
  /\ LET row == transfers[x]
         fee == RevokeFee(row.quantity)
     IN  /\ ProratedFee(row.quantity) <= row.quantity
         /\ CanPay(row.token, row.quantity - fee)
         /\ vault' = [vault EXCEPT ![row.token] = Left(row.token, row.quantity - fee)]
         /\ fees' = IF fee > 0 THEN AddTo(fees, row.pid, row.token, fee) ELSE fees
  /\ transfers' = [transfers EXCEPT ![x] = NoRow]
  /\ UNCHANGED <<debts, pks, assets, ratio, signers>>

-----------------------------------------------------------------------------
(* Outbound *)

V1Outlock(user, token, quantity, x, pk) ==
  /\ HasSigner
  /\ transfers[x] = NoRow
  /\ \E pid \in Pids :
       /\ FindPK(pk, pid)
       /\ MayPassIsPkDebt(pid, token)
       /\ PendDebtReturns(pid, token)
       /\ Balance(assets, pid, token) >= quantity
       /\ Balance(assets, pid, token) >= OutPendAsset(pid, token) + quantity
       /\ transfers' = [transfers EXCEPT ![x] =
            [status |-> "outlock", user |-> user, pid |-> pid, token |-> token,
             quantity |-> quantity, timeLeft |-> LockedTime]]
  /\ UNCHANGED <<debts, pks, assets, fees, ratio, signers, vault>>

V1Outredeem(user, x) == Outredeem(user, x)
V1Outrevoke(x) == Outrevoke(x)

-----------------------------------------------------------------------------
(* Debt *)

V1Lockdebt(npk, token, quantity, x, pk) ==
  /\ HasSigner
  /\ debts[x] = NoRow
  /\ \E pid, npid \in Pids :
       /\ FindPK(pk, pid)
       /\ FindOrSavePk(npk, npid)
       /\ PendDebtReturns(pid, token)
       /\ Balance(assets, pid, token) >= quantity
       /\ Balance(assets, pid, token) >= OutPendAsset(pid, token) + quantity
       /\ debts' = [debts EXCEPT ![x] =
            [pid |-> pid, npid |-> npid, token |-> token,
             quantity |-> quantity, timeLeft |-> 2 * LockedTime]]
  /\ UNCHANGED <<transfers, assets, fees, ratio, signers, vault>>

(* The key is cleaned while the debt still stands. *)
V1Redeemdebt(x) ==
  /\ HasSigner
  /\ debts[x] # NoRow
  /\ BeforeDeadline(debts[x])
  /\ LET row == debts[x]
     IN  /\ HasPK(row.pid)
         /\ HasPK(row.npid)
         /\ Enough(assets, row.pid, row.token, row.quantity)
         /\ HandOver(row)
         /\ V1CleanPk(row.pid, assets')
         /\ debts' = [debts EXCEPT ![x] = NoRow]
  /\ UNCHANGED <<transfers, fees, ratio, signers, vault>>

V1Revokedebt(x) == HasSigner /\ Revokedebt(x)

-----------------------------------------------------------------------------
(* Fees and the contract's owner *)

V1WithdrawAll(pk) == WithdrawAll(pk)
V1WithdrawAccount(pk, account) == WithdrawAccount(pk, account)
V1WithdrawToken(pk, token) == WithdrawToken(pk, token)

V1Setratio(r) == Setratio(r)
V1Regsig(code, action) == Regsig(code, action)

(* EOSIO does not let modify change the key of the row. *)
V1Updatesig(code, nCode, nAction) ==
  /\ signers[code] # NoRow
  /\ nCode = code
  /\ signers' = [signers EXCEPT ![code] = nAction]
  /\ UNCHANGED <<transfers, debts, pks, assets, fees, ratio, vault>>
V1Unregsig(code) == Unregsig(code)

-----------------------------------------------------------------------------
V1UserNext ==
  \/ \E u \in Users, sent \in Issued, t \in Tokens, q \in Amounts, x \in XHashes, pk \in PKs :
       V1Inlock(u, sent, t.account, q, x, pk)
  \/ \E t \in Issued, q \in Amounts : V1OtherTransfer(t, q)
  \/ \E u \in Users, x \in XHashes : V1Outredeem(u, x)
  \/ \E x \in XHashes : V1Inrevoke(x)

V1StoremanNext ==
  \/ \E npk, pk \in PKs : Updatepk(npk, pk)
  \/ \E pk \in PKs : Removepk(pk)
  \/ \E x \in XHashes : V1Inredeem(x)
  \/ \E u \in Users, t \in Tokens, q \in Amounts, x \in XHashes, pk \in PKs :
       V1Outlock(u, t, q, x, pk)
  \/ \E x \in XHashes : V1Outrevoke(x)
  \/ \E npk, pk \in PKs, t \in Tokens, q \in DebtAmounts, x \in XHashes :
       V1Lockdebt(npk, t, q, x, pk)
  \/ \E x \in XHashes : V1Redeemdebt(x)
  \/ \E x \in XHashes : V1Revokedebt(x)
  \/ \E pk \in PKs : V1WithdrawAll(pk)
  \/ \E pk \in PKs, t \in Tokens : V1WithdrawAccount(pk, t.account)
  \/ \E pk \in PKs, t \in Tokens : V1WithdrawToken(pk, t)

V1OwnerNext ==
  \/ \E r \in Ratios : V1Setratio(r)
  \/ \E c \in SigCodes, a \in SigActions : V1Regsig(c, a)
  \/ \E c, n \in SigCodes, a \in SigActions : V1Updatesig(c, n, a)
  \/ \E c \in SigCodes : V1Unregsig(c)

V1Next == V1UserNext \/ V1StoremanNext \/ V1OwnerNext \/ Tick

V1Spec == Init /\ [][V1Next]_vars

-----------------------------------------------------------------------------
(* Properties, beside those of EosHtlc *)

(* A debt is between the same two keys from lockdebt to its end: neither   *)
(* updatepk, nor removepk, nor the cleaning of keys changes the key of its *)
(* debtor or of its receiver, who signs redeemdebt.                        *)
DebtKeepsItsKeys ==
  [][\A x \in XHashes : debts[x] # NoRow /\ debts'[x] # NoRow =>
       /\ pks'[debts[x].pid] = pks[debts[x].pid]
       /\ pks'[debts[x].npid] = pks[debts[x].npid]]_vars

(* redeemdebt erases the debtor's key when nothing is recorded under it any *)
(* more ("clean pk from table pks if pk is not used").                     *)
RedeemdebtCleansPk ==
  [][\A x \in XHashes, p \in Pids : V1Redeemdebt(x) /\ debts[x].pid = p =>
       \/ HasRows(assets', p) \/ HasRows(fees', p) \/ InHtlc(p)' \/ InDebt(p)'
       \/ pks'[p] = NoRow]_vars
=============================================================================
