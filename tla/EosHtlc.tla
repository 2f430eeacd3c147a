------------------------------- MODULE EosHtlc -------------------------------
(***************************************************************************)
(* The EOS side of the bridge: the hashed time-lock contract of            *)
(* src/eos-wan-cross/c++/htlc.eos.v.1/src (htlc.cpp and htlcHelp.cpp).     *)
(*                                                                         *)
(* A user locks tokens for a storeman (inlock); the storeman takes them by *)
(* revealing the secret (inredeem), or the user gets them back, less a     *)
(* fee, once the lock has expired (inrevoke).  A storeman promises tokens  *)
(* it holds to a user (outlock); the user takes them (outredeem) or the    *)
(* promise lapses (outrevoke).  A retiring storeman hands its holdings to  *)
(* another one (lockdebt, redeemdebt, revokedebt).  An EOSIO action either *)
(* completes or reverts as a whole, so each is one step here.              *)
(*                                                                         *)
(* A table of the contract is a function from its key to a row or NoRow.   *)
(* Rows carry timeLeft = beginTime + lockedTime - now, which Tick lowers   *)
(* down to Expired: the code only compares that difference with zero.      *)
(*                                                                         *)
(* A definition whose comment begins with "Mutant" is a wrong version of   *)
(* the one that follows it.  No specification uses it: it is there to show *)
(* that a property notices the mistake.                                    *)
(***************************************************************************)
EXTENDS Integers, FiniteSets, FiniteSetsExt

CONSTANTS
  Users,         \* EOS accounts that lock and receive tokens
  PKs,           \* storeman public keys
  XHashes,       \* hashes of the swap secrets
  Tokens,        \* records [account, symbol]: any account with any symbol
  Issued,        \* the tokens of the token contracts in existence
  Amounts,       \* quantities a user or a storeman asks for
  DebtAmounts,   \* quantities of lockdebt, which the code does not validate
  Supply,        \* tokens in existence, of each kind
  MaxAmount,     \* asset::max_amount, beyond which its arithmetic reverts
  Ratios,        \* values the owner gives to setratio
  RatioPrecise,  \* denominator of the revoke fee
  LockedTime,    \* hLimit::lockedTime, in ticks
  MaxPid,        \* bound on the primary keys of the table pks
  SigCodes,      \* names of signature contracts, ordered as EOS orders names
  SigActions,    \* actions of signature contracts
  NoRow          \* "no such row"

Pids == 0..MaxPid
Expired == -1

TransferRow == [status : {"inlock", "outlock"}, user : Users, pid : Pids,
                token : Tokens, quantity : Nat,
                timeLeft : Expired..2 * LockedTime]
DebtRow == [pid : Pids, npid : Pids, token : Tokens, quantity : Int,
            timeLeft : Expired..2 * LockedTime]

ASSUME EosConstants ==
  /\ MaxPid \in Nat
  /\ LockedTime \in Nat \ {0}
  /\ RatioPrecise \in Nat \ {0}
  /\ MaxAmount \in Nat
  /\ Supply \in 0..MaxAmount
  /\ Amounts \subseteq Nat \ {0}
  /\ DebtAmounts \subseteq -MaxAmount..MaxAmount
  /\ Ratios \subseteq Nat
  /\ SigCodes \subseteq Nat
  /\ Issued \subseteq Tokens
  /\ IsFiniteSet(Tokens)
  /\ \A t \in Tokens : t.account \in Nat /\ t = [account |-> t.account, symbol |-> t.symbol]
  /\ \A s, t \in Tokens : [s EXCEPT !.account = t.account] \in Tokens
  /\ NoRow \notin Int \cup PKs \cup SigActions \cup TransferRow \cup DebtRow

VARIABLES
  transfers,  \* table transfers, by xHash
  debts,      \* table debts, by xHash
  pks,        \* table pks, by id
  assets,     \* tables assets, by pid (their scope) and token
  fees,       \* tables fees, by pid (their scope) and token
  ratio,      \* table longlongs: the revoke fee ratio
  signers,    \* table signer, by the name of the signature contract
  vault       \* what the contract owns in each token contract

vars == <<transfers, debts, pks, assets, fees, ratio, signers, vault>>

-----------------------------------------------------------------------------
(* Tables *)

Live(table) == {x \in XHashes : table[x] # NoRow}

(* Mutant: the deadline is one tick early. *)
BeforeTime(row) == row.timeLeft > 0

InTime(row) == row.timeLeft >= 0
Lapsed(row) == row.timeLeft < 0

(* The primary key after the last one, which may be one used before. *)
AvailablePid ==
  LET used == {p \in Pids : pks[p] # NoRow}
  IN  IF used = {} THEN 0 ELSE Max(used) + 1

FindPK(pk, pid) == pks[pid] = pk

FindOrSavePk(pk, pid) ==
  \/ FindPK(pk, pid) /\ UNCHANGED pks
  \/ /\ \A p \in Pids : ~FindPK(pk, p)
     /\ pid = AvailablePid
     /\ pks' = [pks EXCEPT ![pid] = pk]

HasPK(pid) == pks[pid] # NoRow

Balance(book, pid, token) == IF book[pid][token] = NoRow THEN 0 ELSE book[pid][token]

Fits(amount) == amount \in -MaxAmount..MaxAmount

AddTo(book, pid, token, quantity) ==
  [book EXCEPT ![pid][token] = Balance(book, pid, token) + quantity]

Enough(book, pid, token, quantity) ==
  book[pid][token] # NoRow /\ book[pid][token] >= quantity

(* Mutant: the row of a balance used up is not erased. *)
SubFromKeepsRow(book, pid, token, quantity) ==
  [book EXCEPT ![pid][token] = IF @ = quantity THEN @ ELSE @ - quantity]

SubFrom(book, pid, token, quantity) ==
  [book EXCEPT ![pid][token] =
     IF book[pid][token] = quantity THEN NoRow ELSE book[pid][token] - quantity]

HasRows(book, pid) == \E t \in Tokens : book[pid][t] # NoRow

(* Mutant: the loop begins after the key. *)
ScanAfterKey(table, pid, account) ==
  {x \in Live(table) : \/ table[x].pid > pid
                       \/ table[x].pid = pid /\ table[x].token.account > account}

(***************************************************************************)
(* The loops over the index pid.acct start at the first row with the key   *)
(* (pid, account) and run to the end of the index, not to the end of the   *)
(* key: they also visit the rows of the keys that follow.                  *)
(***************************************************************************)
Scan(table, pid, account) ==
  LET at    == {x \in Live(table) : table[x].pid = pid /\ table[x].token.account = account}
      after == {x \in Live(table) : \/ table[x].pid > pid
                                    \/ table[x].pid = pid /\ table[x].token.account >= account}
  IN  IF at = {} THEN {} ELSE after

IsPkDebt(pid, token) ==
  \E x \in Scan(debts, pid, token.account) : debts[x].token.symbol = token.symbol

Total(table, rows) == MapThenSumSet(LAMBDA x : table[x].quantity, rows)

HtlcPendAsset(pid, token) ==
  Total(transfers, {x \in Scan(transfers, pid, token.account) :
                      /\ transfers[x].status = "outlock"
                      /\ transfers[x].token.symbol = token.symbol})

PendDebtAsset(pid, token) ==
  Total(debts, {x \in Scan(debts, pid, token.account) :
                  debts[x].token.symbol = token.symbol})

(* Mutant: the debts are left out. *)
OutPendAssetOfLocks(pid, token) == HtlcPendAsset(pid, token)

(* The sums of pending quantities are taken to stay in the range of an asset. *)
OutPendAsset(pid, token) == HtlcPendAsset(pid, token) + PendDebtAsset(pid, token)

(* The signature is checked by the first contract of the table signer.     *)
(* Whether it accepts is the caller's choice of arguments; a table without *)
(* a row makes every signed action fail.                                   *)
HasSigner == \E c \in SigCodes : signers[c] # NoRow

(***************************************************************************)
(* The contract pays by an inline transfer to the token's account.  Where  *)
(* a token contract lives the transfer fails if the vault does not cover   *)
(* it, and with it the action; an account without a contract takes the     *)
(* transfer for done and moves nothing.                                    *)
(***************************************************************************)
Silent(token) == \A t \in Issued : t.account # token.account

CanPay(token, quantity) == Silent(token) \/ vault[token] >= quantity

Left(token, quantity) == IF Silent(token) THEN vault[token] ELSE vault[token] - quantity

-----------------------------------------------------------------------------
Init ==
  /\ transfers = [x \in XHashes |-> NoRow]
  /\ debts = [x \in XHashes |-> NoRow]
  /\ pks = [p \in Pids |-> NoRow]
  /\ assets = [p \in Pids |-> [t \in Tokens |-> NoRow]]
  /\ fees = [p \in Pids |-> [t \in Tokens |-> NoRow]]
  /\ ratio = 0
  /\ signers = [c \in SigCodes |-> NoRow]
  /\ vault = [t \in Tokens |-> 0]

-----------------------------------------------------------------------------
(* Inbound: the user pays the contract on EOS, the storeman mints on Wanchain. *)

(* A token contract notifies a transfer to the contract; the memo says inlock. *)
Inlock(user, token, quantity, x, pk) ==
  /\ vault[token] + quantity <= Supply
  /\ transfers[x] = NoRow
  /\ \E pid \in Pids :
       /\ FindOrSavePk(pk, pid)
       /\ ~IsPkDebt(pid, token)
       /\ transfers' = [transfers EXCEPT ![x] =
            [status |-> "inlock", user |-> user, pid |-> pid, token |-> token,
             quantity |-> quantity, timeLeft |-> 2 * LockedTime]]
  /\ vault' = [vault EXCEPT ![token] = @ + quantity]
  /\ UNCHANGED <<debts, assets, fees, ratio, signers>>

(* A token transfer whose memo has another status: kept, and recorded nowhere. *)
OtherTransfer(token, quantity) ==
  /\ vault[token] + quantity <= Supply
  /\ vault' = [vault EXCEPT ![token] = @ + quantity]
  /\ UNCHANGED <<transfers, debts, pks, assets, fees, ratio, signers>>

Inredeem(x) ==
  /\ transfers[x] # NoRow
  /\ transfers[x].status = "inlock"
  /\ InTime(transfers[x])
  /\ HasPK(transfers[x].pid)
  /\ Fits(Balance(assets, transfers[x].pid, transfers[x].token) + transfers[x].quantity)
  /\ assets' = AddTo(assets, transfers[x].pid, transfers[x].token, transfers[x].quantity)
  /\ transfers' = [transfers EXCEPT ![x] = NoRow]
  /\ UNCHANGED <<debts, pks, fees, ratio, signers, vault>>

(* The fee of a revoked inlock; one too small to be split is kept whole. *)
ProratedFee(quantity) == (quantity * ratio) \div RatioPrecise
RevokeFee(quantity) ==
  IF ratio # 0 /\ ProratedFee(quantity) = 0 THEN quantity ELSE ProratedFee(quantity)

(* Mutant: a fee that takes the whole quantity is refused. *)
InrevokeStrict(x) ==
  /\ transfers[x] # NoRow
  /\ transfers[x].status = "inlock"
  /\ Lapsed(transfers[x])
  /\ LET row == transfers[x]
         fee == RevokeFee(row.quantity)
     IN  /\ ProratedFee(row.quantity) < row.quantity
         /\ CanPay(row.token, row.quantity - fee)
         /\ vault' = [vault EXCEPT ![row.token] = Left(row.token, row.quantity - fee)]
         /\ fees' = IF fee > 0 THEN AddTo(fees, row.pid, row.token, fee) ELSE fees
  /\ transfers' = [transfers EXCEPT ![x] = NoRow]
  /\ UNCHANGED <<debts, pks, assets, ratio, signers>>

Inrevoke(x) ==
  /\ transfers[x] # NoRow
  /\ transfers[x].status = "inlock"
  /\ Lapsed(transfers[x])
  /\ LET row == transfers[x]
         fee == RevokeFee(row.quantity)
     IN  /\ ProratedFee(row.quantity) <= row.quantity
         /\ CanPay(row.token, row.quantity - fee)
         /\ vault' = [vault EXCEPT ![row.token] = Left(row.token, row.quantity - fee)]
         /\ fees' = IF fee > 0 THEN AddTo(fees, row.pid, row.token, fee) ELSE fees
  /\ transfers' = [transfers EXCEPT ![x] = NoRow]
  /\ UNCHANGED <<debts, pks, assets, ratio, signers>>

-----------------------------------------------------------------------------
(* Outbound: the user pays on Wanchain, the storeman pays out on EOS. *)

Outlock(user, token, quantity, x, pk) ==
  /\ HasSigner
  /\ transfers[x] = NoRow
  /\ \E pid \in Pids :
       /\ FindPK(pk, pid)
       /\ ~IsPkDebt(pid, token)
       /\ Balance(assets, pid, token) >= OutPendAsset(pid, token) + quantity
       /\ transfers' = [transfers EXCEPT ![x] =
            [status |-> "outlock", user |-> user, pid |-> pid, token |-> token,
             quantity |-> quantity, timeLeft |-> LockedTime]]
  /\ UNCHANGED <<debts, pks, assets, fees, ratio, signers, vault>>

Outredeem(user, x) ==
  /\ transfers[x] # NoRow
  /\ transfers[x].status = "outlock"
  /\ transfers[x].user = user
  /\ InTime(transfers[x])
  /\ LET row == transfers[x]
     IN  /\ Enough(assets, row.pid, row.token, row.quantity)
         /\ assets' = SubFrom(assets, row.pid, row.token, row.quantity)
         /\ CanPay(row.token, row.quantity)
         /\ vault' = [vault EXCEPT ![row.token] = Left(row.token, row.quantity)]
  /\ transfers' = [transfers EXCEPT ![x] = NoRow]
  /\ UNCHANGED <<debts, pks, fees, ratio, signers>>

Outrevoke(x) ==
  /\ transfers[x] # NoRow
  /\ transfers[x].status = "outlock"
  /\ Lapsed(transfers[x])
  /\ transfers' = [transfers EXCEPT ![x] = NoRow]
  /\ UNCHANGED <<debts, pks, assets, fees, ratio, signers, vault>>

-----------------------------------------------------------------------------
(* Debt: one storeman's holdings pass to another one.  No sign is checked,  *)
(* so a debt may be negative.                                              *)
Lockdebt(npk, token, quantity, x, pk) ==
  /\ HasSigner
  /\ debts[x] = NoRow
  /\ \E pid, npid \in Pids :
       /\ FindPK(pk, pid)
       /\ FindOrSavePk(npk, npid)
       /\ Balance(assets, pid, token) >= OutPendAsset(pid, token) + quantity
       /\ debts' = [debts EXCEPT ![x] =
            [pid |-> pid, npid |-> npid, token |-> token,
             quantity |-> quantity, timeLeft |-> 2 * LockedTime]]
  /\ UNCHANGED <<transfers, assets, fees, ratio, signers, vault>>

(* Mutant: transfers are overlooked. *)
IsPkUsedButTransfers(pid, book, debtTable) ==
  \/ HasRows(book, pid)
  \/ HasRows(fees, pid)
  \/ \E x \in Live(debtTable) : debtTable[x].pid = pid

(* A key stays while its storeman has assets, fees, transfers or debts to give. *)
IsPkUsed(pid, book, debtTable) ==
  \/ HasRows(book, pid)
  \/ HasRows(fees, pid)
  \/ \E x \in Live(transfers) : transfers[x].pid = pid
  \/ \E x \in Live(debtTable) : debtTable[x].pid = pid

CleanPk(pid, book, debtTable) ==
  pks' = IF IsPkUsed(pid, book, debtTable) THEN pks ELSE [pks EXCEPT ![pid] = NoRow]

(* Mutant: the arithmetic of assets is unchecked. *)
HandOverUnchecked(row) ==
  assets' = AddTo(SubFrom(assets, row.pid, row.token, row.quantity),
                  row.npid, row.token, row.quantity)

(* subAssetFrom the debtor, addAssetTo the receiver. *)
HandOver(row) ==
  LET less == SubFrom(assets, row.pid, row.token, row.quantity)
  IN  /\ Fits(Balance(less, row.pid, row.token))
      /\ Fits(Balance(less, row.npid, row.token) + row.quantity)
      /\ assets' = AddTo(less, row.npid, row.token, row.quantity)

Redeemdebt(x) ==
  /\ debts[x] # NoRow
  /\ InTime(debts[x])
  /\ LET row == debts[x]
     IN  /\ HasPK(row.pid)
         /\ HasPK(row.npid)
         /\ Enough(assets, row.pid, row.token, row.quantity)
         /\ HandOver(row)
         /\ debts' = [debts EXCEPT ![x] = NoRow]
         /\ CleanPk(row.pid, assets', debts')
  /\ UNCHANGED <<transfers, fees, ratio, signers, vault>>

(* Mutant: the receiver's key is asked for as well. *)
RevokedebtOfBoth(x) ==
  /\ debts[x] # NoRow
  /\ Lapsed(debts[x])
  /\ HasPK(debts[x].pid) /\ HasPK(debts[x].npid)
  /\ debts' = [debts EXCEPT ![x] = NoRow]
  /\ UNCHANGED <<transfers, pks, assets, fees, ratio, signers, vault>>

Revokedebt(x) ==
  /\ debts[x] # NoRow
  /\ Lapsed(debts[x])
  /\ HasPK(debts[x].pid)
  /\ debts' = [debts EXCEPT ![x] = NoRow]
  /\ UNCHANGED <<transfers, pks, assets, fees, ratio, signers, vault>>

-----------------------------------------------------------------------------
(* Fees: what the revoked inlocks left to the storeman, withdrawn by it. *)

(* Pay the fee rows of pid that are in DOMAIN payer, each through the      *)
(* token payer[row].                                                       *)
Paid(pid, payer, token) ==
  MapThenSumSet(LAMBDA r : fees[pid][r], {r \in DOMAIN payer : payer[r] = token})

IssueFees(pid, payer) ==
  /\ \A t \in Tokens : CanPay(t, Paid(pid, payer, t))
  /\ vault' = [t \in Tokens |-> Left(t, Paid(pid, payer, t))]
  /\ fees' = [fees EXCEPT ![pid] =
       [t \in Tokens |-> IF t \in DOMAIN payer THEN NoRow ELSE fees[pid][t]]]

FeeRows(pid) == {t \in Tokens : fees[pid][t] # NoRow}

(* No account given: every row is paid. *)
WithdrawAll(pk) ==
  /\ HasSigner
  /\ \E pid \in Pids : FindPK(pk, pid) /\ IssueFees(pid, [r \in FeeRows(pid) |-> r])
  /\ UNCHANGED <<transfers, debts, pks, assets, ratio, signers>>

(* No symbol given: the loop over the index acct runs to the end of the    *)
(* index, and pays every row it visits through the account it was given.   *)
RowsFrom(pid, account) ==
  {t \in FeeRows(pid) : /\ \E s \in FeeRows(pid) : s.account = account
                        /\ t.account >= account}

WithdrawAccount(pk, account) ==
  /\ HasSigner
  /\ \E pid \in Pids :
       /\ FindPK(pk, pid)
       /\ IssueFees(pid, [r \in RowsFrom(pid, account) |->
                             [account |-> account, symbol |-> r.symbol]])
  /\ UNCHANGED <<transfers, debts, pks, assets, ratio, signers>>

(* Mutant: the storeman's first fee is paid, in the token named. *)
WithdrawFirst(pk, token) ==
  /\ HasSigner
  /\ \E pid \in Pids :
       /\ FindPK(pk, pid)
       /\ \E first \in FeeRows(pid) :
            /\ \A r \in FeeRows(pid) : first.account <= r.account
            /\ IssueFees(pid, [r \in {first} |-> token])
  /\ UNCHANGED <<transfers, debts, pks, assets, ratio, signers>>

WithdrawToken(pk, token) ==
  /\ HasSigner
  /\ \E pid \in Pids :
       /\ FindPK(pk, pid)
       /\ fees[pid][token] # NoRow
       /\ IssueFees(pid, [r \in {token} |-> r])
  /\ UNCHANGED <<transfers, debts, pks, assets, ratio, signers>>

-----------------------------------------------------------------------------
(* The contract's owner *)

Setratio(r) ==
  /\ ratio' = r
  /\ UNCHANGED <<transfers, debts, pks, assets, fees, signers, vault>>

Regsig(code, action) ==
  /\ signers[code] = NoRow
  /\ signers' = [signers EXCEPT ![code] = action]
  /\ UNCHANGED <<transfers, debts, pks, assets, fees, ratio, vault>>

Updatesig(code, nCode, nAction) ==
  /\ signers[code] # NoRow
  /\ nCode = code \/ signers[nCode] = NoRow
  /\ signers' = [signers EXCEPT ![code] = NoRow, ![nCode] = nAction]
  /\ UNCHANGED <<transfers, debts, pks, assets, fees, ratio, vault>>

Unregsig(code) ==
  /\ signers[code] # NoRow
  /\ signers' = [signers EXCEPT ![code] = NoRow]
  /\ UNCHANGED <<transfers, debts, pks, assets, fees, ratio, vault>>

-----------------------------------------------------------------------------
(* Time passes, for every row alike. *)
Older(row) == [row EXCEPT !.timeLeft = IF @ > Expired THEN @ - 1 ELSE @]
Aged(table) == [x \in XHashes |-> IF table[x] = NoRow THEN NoRow ELSE Older(table[x])]

Tick ==
  /\ transfers' = Aged(transfers)
  /\ debts' = Aged(debts)
  /\ UNCHANGED <<pks, assets, fees, ratio, signers, vault>>

-----------------------------------------------------------------------------
UserNext ==
  \/ \E u \in Users, t \in Issued, q \in Amounts, x \in XHashes, pk \in PKs :
       Inlock(u, t, q, x, pk)
  \/ \E t \in Issued, q \in Amounts : OtherTransfer(t, q)
  \/ \E u \in Users, x \in XHashes : Outredeem(u, x)
  \/ \E x \in XHashes : Inrevoke(x)

StoremanNext ==
  \/ \E x \in XHashes : Inredeem(x)
  \/ \E u \in Users, t \in Tokens, q \in Amounts, x \in XHashes, pk \in PKs :
       Outlock(u, t, q, x, pk)
  \/ \E x \in XHashes : Outrevoke(x)
  \/ \E npk, pk \in PKs, t \in Tokens, q \in DebtAmounts, x \in XHashes :
       Lockdebt(npk, t, q, x, pk)
  \/ \E x \in XHashes : Redeemdebt(x)
  \/ \E x \in XHashes : Revokedebt(x)
  \/ \E pk \in PKs : WithdrawAll(pk)
  \/ \E pk \in PKs, t \in Tokens : WithdrawAccount(pk, t.account)
  \/ \E pk \in PKs, t \in Tokens : WithdrawToken(pk, t)

OwnerNext ==
  \/ \E r \in Ratios : Setratio(r)
  \/ \E c \in SigCodes, a \in SigActions : Regsig(c, a)
  \/ \E c, n \in SigCodes, a \in SigActions : Updatesig(c, n, a)
  \/ \E c \in SigCodes : Unregsig(c)

Next == UserNext \/ StoremanNext \/ OwnerNext \/ Tick

Spec == Init /\ [][Next]_vars

-----------------------------------------------------------------------------
(* Properties *)

Book(Numbers) == [Pids -> [Tokens -> Numbers \cup {NoRow}]]

(* Every table holds rows of its type: no balance leaves the range of an   *)
(* asset, whatever the debts, and no fee and no deposit is below zero.     *)
TypeOK ==
  /\ transfers \in [XHashes -> TransferRow \cup {NoRow}]
  /\ debts \in [XHashes -> DebtRow \cup {NoRow}]
  /\ pks \in [Pids -> PKs \cup {NoRow}]
  /\ assets \in Book(-MaxAmount..MaxAmount)
  /\ fees \in Book(Nat)
  /\ ratio \in Nat
  /\ signers \in [SigCodes -> SigActions \cup {NoRow}]
  /\ vault \in [Tokens -> Nat]

(* No storeman key has two rows in pks: all its assets, fees and records   *)
(* are kept under one id.                                                  *)
OneIdPerPk == \A p, q \in Pids : HasPK(p) /\ pks[p] = pks[q] => p = q

(* Whatever is recorded under an id still has its storeman: cleanPk never  *)
(* deletes a key that has assets, fees, pending transfers or debts to give,*)
(* so that no redeem or revoke finds its key gone.                         *)
RecordsHaveTheirPk ==
  /\ \A x \in XHashes : transfers[x] # NoRow => HasPK(transfers[x].pid)
  /\ \A x \in XHashes : debts[x] # NoRow => HasPK(debts[x].pid)
  /\ \A p \in Pids : HasRows(assets, p) \/ HasRows(fees, p) => HasPK(p)

(* What the contract owes in a token: inlocks not settled, assets of the   *)
(* storemen and fees not withdrawn.                                        *)
Owed(token) ==
  Total(transfers, {x \in Live(transfers) : /\ transfers[x].status = "inlock"
                                            /\ transfers[x].token = token})
  + MapThenSumSet(LAMBDA p : Balance(assets, p, token), Pids)
  + MapThenSumSet(LAMBDA p : Balance(fees, p, token), Pids)

Surplus(token) == vault[token] - Owed(token)

(* The contract is solvent in every symbol: no sequence of locks, redeems, *)
(* revokes, debts of either sign and withdrawals pays out more of a symbol *)
(* than was paid in, whichever token accounts it goes through.             *)
SymbolsAreCovered ==
  \A s \in {t.symbol : t \in Tokens} :
    MapThenSumSet(Surplus, {t \in Tokens : t.symbol = s}) >= 0

VaultCoversOwed == \A t \in Issued : Surplus(t) >= 0

(* No storeman has fees in two accounts of which the first issues the      *)
(* symbol of the second: the fees a withdrawal by account would pay in a   *)
(* token that is not theirs.                                               *)
FeesKeepApart ==
  \A pid \in Pids : \A s, r \in FeeRows(pid) :
    s.account < r.account => [r EXCEPT !.account = s.account] \notin Issued

(* It is solvent in every token as long as fees keep apart: then nothing   *)
(* else pays out a token somebody else is owed.                            *)
TokensAreCovered == []FeesKeepApart => []VaultCoversOwed

(* What storeman pid has promised of a token and may have to give up: its  *)
(* pending outlocks and debts.                                             *)
Promised(pid, token) ==
  Total(transfers, {x \in Live(transfers) : /\ transfers[x].status = "outlock"
                                            /\ transfers[x].pid = pid
                                            /\ transfers[x].token = token})
  + Total(debts, {x \in Live(debts) : debts[x].pid = pid /\ debts[x].token = token})

AssetsCoverPromised ==
  \A p \in Pids, t \in Tokens : Balance(assets, p, t) >= Promised(p, t)

NoNegativeDebt == \A x \in Live(debts) : debts[x].quantity >= 0

(* A storeman's assets go on covering all it has promised, whatever lock,  *)
(* redeem, revoke or debt comes next, as long as no negative debt is       *)
(* pending: subAssetFrom never fails in a redeem, and no asset is promised *)
(* twice.  (One negative debt lowers what another lock is checked against, *)
(* and what its receiver holds.)                                           *)
PromisesAreKept ==
  [][AssetsCoverPromised /\ NoNegativeDebt => AssetsCoverPromised']_vars

(* A withdrawal that names a token account ("account: token account, may be *)
(* empty string") settles that account's fees and leaves the others alone. *)
WithdrawNamesItsAccount ==
  [][\A pk \in PKs, t \in Tokens : WithdrawAccount(pk, t.account) =>
       \A pid \in Pids, other \in Tokens :
         other.account # t.account => fees'[pid][other] = fees[pid][other]]_vars

(* A storeman with a debt pending in a token takes no new lock in it,      *)
(* whatever else is pending under the ids and accounts that follow it.     *)
DebtFreezesNewLocks ==
  [][\A x, d \in XHashes :
        /\ transfers[x] = NoRow /\ transfers'[x] # NoRow
        /\ debts'[d] # NoRow
        => ~(debts'[d].pid = transfers'[x].pid /\ debts'[d].token = transfers'[x].token)]_vars

-----------------------------------------------------------------------------
(* Anybody may call the revokes (they ask for no authority), so a lock that *)
(* has lapsed is revoked in the end by the party that gains from it.        *)
Liveness ==
  /\ WF_vars(Tick)
  /\ \A x \in XHashes : WF_vars(Inrevoke(x)) /\ WF_vars(Outrevoke(x)) /\ WF_vars(Revokedebt(x))

FairSpec == Spec /\ Liveness

(* No lock is stuck: every transfer is redeemed or revoked in the end,     *)
(* whatever the ratio was meanwhile.  setratio takes any ratio, and under  *)
(* one above its precision inrevoke refuses a fee larger than the lock; so *)
(* the owner is assumed to leave it within its precision at last.  And the *)
(* vault has the tokens a revoke gives back as long as fees keep apart.    *)
EveryTransferCloses ==
  <>[](ratio <= RatioPrecise) /\ []FeesKeepApart
    => \A x \in XHashes : transfers[x] # NoRow ~> transfers[x] = NoRow

(* No debt is stuck either: the key revokedebt asks for is still there.    *)
EveryDebtCloses ==
  \A x \in XHashes : debts[x] # NoRow ~> debts[x] = NoRow
=============================================================================
