---------------------------- MODULE EosHtlcProofs ----------------------------
(***************************************************************************)
(* What holds of EosHtlc for every set of users, keys, hashes and tokens:  *)
(* its tables keep their types, a storeman has one id, and whatever is     *)
(* recorded under an id still finds its storeman there; what the contract  *)
(* holds covers what it owes, and what a storeman holds what it promised.  *)
(***************************************************************************)
EXTENDS EosHtlc, Inductions

(* A row found in a table is a row of the table's type. *)
LEMMA LiveRows ==
  ASSUME TypeOK
  PROVE  /\ \A x \in XHashes : transfers[x] # NoRow => transfers[x] \in TransferRow
         /\ \A x \in XHashes : debts[x] # NoRow => debts[x] \in DebtRow
BY DEF TypeOK

(* Adding to a balance keeps a book of balances one, as long as the sum is *)
(* in the range of the book, and leaves the other ids alone.               *)
LEMMA AddToType ==
  ASSUME NEW Numbers, NEW book \in Book(Numbers), NEW pid \in Pids, NEW token \in Tokens,
         NEW quantity, Balance(book, pid, token) + quantity \in Numbers
  PROVE  /\ AddTo(book, pid, token, quantity) \in Book(Numbers)
         /\ \A p \in Pids \ {pid} : HasRows(AddTo(book, pid, token, quantity), p)
                                      <=> HasRows(book, p)
BY DEF AddTo, Book, HasRows

(* Taking away what is there does the same. *)
LEMMA SubFromType ==
  ASSUME NEW Numbers, NEW book \in Book(Numbers), NEW pid \in Pids, NEW token \in Tokens,
         NEW quantity, Enough(book, pid, token, quantity),
         book[pid][token] = quantity \/ book[pid][token] - quantity \in Numbers
  PROVE  /\ SubFrom(book, pid, token, quantity) \in Book(Numbers)
         /\ \A p \in Pids \ {pid} : HasRows(SubFrom(book, pid, token, quantity), p)
                                      <=> HasRows(book, p)
         /\ HasRows(book, pid)
BY DEF Enough, SubFrom, Book, HasRows

(* Balances are numbers, and those of fees are not negative. *)
LEMMA Books ==
  ASSUME TypeOK
  PROVE  /\ assets \in Book(Int) /\ fees \in Book(Int)
         /\ \A p \in Pids, t \in Tokens : Balance(assets, p, t) \in Int
         /\ \A p \in Pids, t \in Tokens : Balance(fees, p, t) \in Nat
<1>1. -MaxAmount..MaxAmount \subseteq Int
  OBVIOUS
<1>2. assets \in Book(Int) /\ fees \in Book(Int) /\ fees \in Book(Nat)
  BY <1>1 DEF TypeOK, Book
<1> QED
  BY <1>2 DEF Book, Balance

(* What the vault is left with after it paid what it can pay. *)
LEMMA LeftOver ==
  ASSUME NEW t, vault[t] \in Nat, NEW q \in Nat, CanPay(t, q)
  PROVE  Left(t, q) \in Nat /\ Left(t, q) >= vault[t] - q
BY DEF CanPay, Left

(* Finding or saving a key gives it one id and deletes no other key. *)
LEMMA FindOrSave ==
  ASSUME TypeOK, OneIdPerPk,
         NEW pk \in PKs, NEW pid \in Pids, FindOrSavePk(pk, pid), EosConstants
  PROVE  /\ pks' \in [Pids -> PKs \cup {NoRow}]
         /\ OneIdPerPk'
         /\ HasPK(pid)'
         /\ \A p \in Pids : HasPK(p) => HasPK(p)'
<1>1. pk # NoRow
  BY DEF EosConstants
<1>2. CASE FindPK(pk, pid) /\ UNCHANGED pks
  BY <1>1, <1>2 DEF FindPK, TypeOK, OneIdPerPk, HasPK
<1>3. CASE /\ \A p \in Pids : ~FindPK(pk, p)
           /\ pid = AvailablePid
           /\ pks' = [pks EXCEPT ![pid] = pk]
  BY <1>1, <1>3 DEF FindPK, TypeOK, OneIdPerPk, HasPK
<1> QED
  BY <1>2, <1>3 DEF FindOrSavePk

-----------------------------------------------------------------------------
(* The inductive invariant.  The three parts need one another: a redeem    *)
(* finds its row of the right type, a lock its key under one id, and a key *)
(* is deleted only where no record refers to it.                           *)
Inv == TypeOK /\ OneIdPerPk /\ RecordsHaveTheirPk

LEMMA InitInv == EosConstants /\ Init => Inv
<1> SUFFICES ASSUME EosConstants, Init PROVE Inv
  OBVIOUS
<1>1. TypeOK
  BY DEF Init, TypeOK, Book, EosConstants
<1>2. OneIdPerPk
  BY DEF Init, OneIdPerPk, HasPK
<1>3. RecordsHaveTheirPk
  BY DEF Init, RecordsHaveTheirPk, Live, HasRows
<1> QED
  BY <1>1, <1>2, <1>3 DEF Inv

(* What has to be shown of a step for the records to keep their keys: the  *)
(* keys that remain include those of all old rows and of all new ones.     *)
LEMMA RecordsKeepTheirPk ==
  ASSUME Inv,
         \A p \in Pids : pks[p] # NoRow /\ pks'[p] = NoRow =>
            /\ \A x \in XHashes : transfers'[x] # NoRow => transfers'[x].pid # p
            /\ \A x \in XHashes : debts'[x] # NoRow => debts'[x].pid # p
            /\ ~HasRows(assets', p) /\ ~HasRows(fees', p),
         \A x \in XHashes : transfers'[x] # NoRow =>
            \/ transfers[x] # NoRow /\ transfers'[x].pid = transfers[x].pid
            \/ transfers'[x].pid \in Pids /\ pks'[transfers'[x].pid] # NoRow,
         \A x \in XHashes : debts'[x] # NoRow =>
            \/ debts[x] # NoRow /\ debts'[x].pid = debts[x].pid
            \/ debts'[x].pid \in Pids /\ pks'[debts'[x].pid] # NoRow,
         \A p \in Pids : HasRows(assets', p) => HasRows(assets, p) \/ pks'[p] # NoRow,
         \A p \in Pids : HasRows(fees', p) => HasRows(fees, p) \/ pks'[p] # NoRow
  PROVE  RecordsHaveTheirPk'
<1>1. ASSUME NEW x \in XHashes, transfers'[x] # NoRow
      PROVE  pks'[transfers'[x].pid] # NoRow
  <2>1. CASE transfers[x] # NoRow /\ transfers'[x].pid = transfers[x].pid
    <3>1. transfers[x].pid \in Pids /\ pks[transfers[x].pid] # NoRow
      BY <2>1, LiveRows DEF Inv, RecordsHaveTheirPk, HasPK, TransferRow
    <3> QED
      BY <1>1, <2>1, <3>1
  <2> QED
    BY <1>1, <2>1
<1>2. ASSUME NEW x \in XHashes, debts'[x] # NoRow
      PROVE  pks'[debts'[x].pid] # NoRow
  <2>1. CASE debts[x] # NoRow /\ debts'[x].pid = debts[x].pid
    <3>1. debts[x].pid \in Pids /\ pks[debts[x].pid] # NoRow
      BY <2>1, LiveRows DEF Inv, RecordsHaveTheirPk, HasPK, DebtRow
    <3> QED
      BY <1>2, <2>1, <3>1
  <2> QED
    BY <1>2, <2>1
<1>3. ASSUME NEW p \in Pids, HasRows(assets', p) \/ HasRows(fees', p)
      PROVE  pks'[p] # NoRow
  BY <1>3 DEF Inv, RecordsHaveTheirPk, HasPK
<1>4. \A p \in Pids : HasRows(assets, p)' <=> HasRows(assets', p)
  BY DEF HasRows
<1>5. \A p \in Pids : HasRows(fees, p)' <=> HasRows(fees', p)
  BY DEF HasRows
<1> QED
  BY <1>1, <1>2, <1>3, <1>4, <1>5 DEF RecordsHaveTheirPk, HasPK

-----------------------------------------------------------------------------
(* One lemma for each action that moves a row or a balance. *)

(* What has to be shown of a step that records a transfer.                 *)
LEMMA NewTransferInv ==
  ASSUME EosConstants, Inv,
         NEW status \in {"inlock", "outlock"}, NEW u \in Users, NEW pid \in Pids,
         NEW t \in Tokens, NEW q \in Amounts, NEW limit \in {LockedTime, 2 * LockedTime},
         NEW x \in XHashes,
         transfers' = [transfers EXCEPT ![x] =
            [status |-> status, user |-> u, pid |-> pid, token |-> t,
             quantity |-> q, timeLeft |-> limit]],
         pks' \in [Pids -> PKs \cup {NoRow}], OneIdPerPk', pks'[pid] # NoRow,
         \A p \in Pids : pks[p] # NoRow => pks'[p] # NoRow,
         vault' \in [Tokens -> Nat],
         UNCHANGED <<debts, assets, fees, ratio, signers>>
  PROVE  Inv'
<1>1. q \in Nat /\ limit \in Expired..2 * LockedTime
  BY DEF EosConstants, Expired
<1>2. [status |-> status, user |-> u, pid |-> pid, token |-> t,
       quantity |-> q, timeLeft |-> limit] \in TransferRow
  BY <1>1 DEF TransferRow
<1>3. transfers' \in [XHashes -> TransferRow \cup {NoRow}]
  BY <1>2 DEF Inv, TypeOK
<1>4. TypeOK'
  BY <1>3 DEF Inv, TypeOK
<1>5. \A y \in XHashes : \/ transfers'[y] = transfers[y]
                         \/ transfers'[y].pid = pid
  BY DEF Inv, TypeOK
<1>6. RecordsHaveTheirPk'
  BY <1>5, RecordsKeepTheirPk
<1> QED
  BY <1>4, <1>6 DEF Inv

LEMMA InlockInv ==
  ASSUME EosConstants, Inv,
         NEW u \in Users, NEW t \in Tokens, NEW q \in Amounts, NEW x \in XHashes,
         NEW pk \in PKs, Inlock(u, t, q, x, pk)
  PROVE  Inv'
<1>1. PICK pid \in Pids :
        /\ FindOrSavePk(pk, pid)
        /\ transfers' = [transfers EXCEPT ![x] =
             [status |-> "inlock", user |-> u, pid |-> pid, token |-> t,
              quantity |-> q, timeLeft |-> 2 * LockedTime]]
  BY DEF Inlock
<1>2. /\ pks' \in [Pids -> PKs \cup {NoRow}]
      /\ OneIdPerPk'
      /\ pks'[pid] # NoRow
      /\ \A p \in Pids : pks[p] # NoRow => pks'[p] # NoRow
  BY <1>1, FindOrSave DEF Inv, HasPK
<1>3. UNCHANGED <<debts, assets, fees, ratio, signers>>
  BY DEF Inlock
<1>4. vault' \in [Tokens -> Nat]
  BY DEF Inv, TypeOK, Inlock, EosConstants
<1> QED
  BY <1>1, <1>2, <1>3, <1>4, NewTransferInv

LEMMA OutlockInv ==
  ASSUME EosConstants, Inv,
         NEW u \in Users, NEW t \in Tokens, NEW q \in Amounts, NEW x \in XHashes,
         NEW pk \in PKs, Outlock(u, t, q, x, pk)
  PROVE  Inv'
<1>1. PICK pid \in Pids :
        /\ FindPK(pk, pid)
        /\ transfers' = [transfers EXCEPT ![x] =
             [status |-> "outlock", user |-> u, pid |-> pid, token |-> t,
              quantity |-> q, timeLeft |-> LockedTime]]
  BY DEF Outlock
<1>2. pks[pid] # NoRow
  BY <1>1 DEF FindPK, EosConstants
<1>3. UNCHANGED <<debts, pks, assets, fees, ratio, signers, vault>>
  BY DEF Outlock
<1>4. /\ pks' \in [Pids -> PKs \cup {NoRow}]
      /\ vault' \in [Tokens -> Nat]
      /\ OneIdPerPk'
  BY <1>3 DEF Inv, TypeOK, OneIdPerPk, HasPK
<1> QED
  BY <1>1, <1>2, <1>3, <1>4, NewTransferInv

(* The actions that close a transfer and touch one balance, if any. *)
LEMMA CloseTransferInv ==
  ASSUME EosConstants, Inv, NEW x \in XHashes,
         transfers' = [transfers EXCEPT ![x] = NoRow],
         UNCHANGED <<debts, pks, ratio, signers>>,
         transfers[x] # NoRow,
         assets' \in Book(-MaxAmount..MaxAmount), fees' \in Book(Nat),
         vault' \in [Tokens -> Nat],
         \A p \in Pids \ {transfers[x].pid} :
            (HasRows(assets', p) => HasRows(assets, p)) /\ (HasRows(fees', p) => HasRows(fees, p))
  PROVE  Inv'
<1>1. TypeOK'
  BY DEF Inv, TypeOK
<1>2. \A y \in XHashes : transfers'[y] # NoRow => transfers'[y] = transfers[y]
  BY DEF Inv, TypeOK
<1>3. transfers[x].pid \in Pids /\ pks'[transfers[x].pid] # NoRow
  BY LiveRows DEF Inv, RecordsHaveTheirPk, HasPK, TransferRow
<1>4. RecordsHaveTheirPk'
  BY <1>2, <1>3, RecordsKeepTheirPk
<1> QED
  BY <1>1, <1>4 DEF Inv, OneIdPerPk, HasPK

LEMMA InredeemInv ==
  ASSUME EosConstants, Inv, NEW x \in XHashes, Inredeem(x)
  PROVE  Inv'
<1>1. transfers[x] \in TransferRow
  BY LiveRows DEF Inv, Inredeem
<1>2. /\ transfers[x].pid \in Pids
      /\ transfers[x].token \in Tokens
      /\ transfers[x].quantity \in Nat
  BY <1>1 DEF TransferRow
<1>3. assets \in Book(-MaxAmount..MaxAmount)
  BY DEF Inv, TypeOK
<1>4. /\ assets' \in Book(-MaxAmount..MaxAmount)
      /\ \A p \in Pids \ {transfers[x].pid} : HasRows(assets', p) <=> HasRows(assets, p)
  BY <1>2, <1>3, AddToType DEF Inredeem, Fits
<1> QED
  BY <1>4, CloseTransferInv DEF Inredeem, Inv, TypeOK

(* The fee of a revoke is a part of the quantity, whatever the ratio. *)
LEMMA RevokeFeeIsPart ==
  ASSUME EosConstants, ratio \in Nat, NEW quantity \in Nat,
         ProratedFee(quantity) <= quantity
  PROVE  RevokeFee(quantity) \in 0..quantity
<1>1. quantity * ratio \in Nat
  OBVIOUS
<1>2. RatioPrecise \in Nat /\ RatioPrecise > 0
  BY DEF EosConstants
<1>3. ProratedFee(quantity) \in Nat
  BY <1>1, <1>2 DEF ProratedFee
<1> QED
  BY <1>3 DEF RevokeFee

(* A revoked inlock is split between its user and the storeman.            *)
LEMMA PayBackInv ==
  ASSUME EosConstants, Inv, NEW x \in XHashes, transfers[x] # NoRow,
         NEW row, row = transfers[x],
         NEW fee, fee = RevokeFee(row.quantity),
         ProratedFee(row.quantity) <= row.quantity,
         CanPay(row.token, row.quantity - fee),
         vault' = [vault EXCEPT ![row.token] = Left(row.token, row.quantity - fee)],
         fees' = IF fee > 0 THEN AddTo(fees, row.pid, row.token, fee) ELSE fees,
         transfers' = [transfers EXCEPT ![x] = NoRow],
         UNCHANGED <<debts, pks, assets, ratio, signers>>
  PROVE  Inv'
<1>1. row \in TransferRow
  BY LiveRows DEF Inv
<1>2. row.pid \in Pids /\ row.token \in Tokens /\ row.quantity \in Nat
  BY <1>1 DEF TransferRow
<1>3. fee \in Nat /\ row.quantity - fee \in Nat
  <2>1. fee \in 0..row.quantity
    BY <1>2, RevokeFeeIsPart DEF Inv, TypeOK
  <2> QED
    BY <1>2, <2>1
<1>4. fees \in Book(Nat) /\ vault \in [Tokens -> Nat]
  BY DEF Inv, TypeOK
<1>5. /\ fees' \in Book(Nat)
      /\ \A p \in Pids \ {row.pid} : HasRows(fees', p) <=> HasRows(fees, p)
  <2>1. CASE fee > 0
    <3>1. Balance(fees, row.pid, row.token) + fee \in Nat
      BY <1>2, <1>3, Books DEF Inv
    <3> QED
      BY <1>2, <1>4, <2>1, <3>1, AddToType
  <2>2. CASE ~(fee > 0)
    BY <1>4, <2>2
  <2> QED
    BY <2>1, <2>2
<1>6. vault' \in [Tokens -> Nat]
  <2>1. Left(row.token, row.quantity - fee) \in Nat
    BY <1>2, <1>3, <1>4, LeftOver
  <2> QED
    BY <1>4, <2>1
<1>7. assets' \in Book(-MaxAmount..MaxAmount)
  BY DEF Inv, TypeOK
<1> QED
  BY <1>5, <1>6, <1>7, CloseTransferInv

LEMMA InrevokeInv ==
  ASSUME EosConstants, Inv, NEW x \in XHashes, Inrevoke(x)
  PROVE  Inv'
BY PayBackInv DEF Inrevoke

LEMMA OutredeemInv ==
  ASSUME EosConstants, Inv, NEW u \in Users, NEW x \in XHashes, Outredeem(u, x)
  PROVE  Inv'
<1> DEFINE row == transfers[x]
<1>1. row \in TransferRow
  BY LiveRows DEF Inv, Outredeem
<1>2. row.pid \in Pids /\ row.token \in Tokens /\ row.quantity \in Nat
  BY <1>1 DEF TransferRow
<1>3. assets \in Book(-MaxAmount..MaxAmount) /\ vault \in [Tokens -> Nat] /\ fees \in Book(Nat)
  BY DEF Inv, TypeOK
<1>4. /\ Enough(assets, row.pid, row.token, row.quantity)
      /\ assets' = SubFrom(assets, row.pid, row.token, row.quantity)
      /\ CanPay(row.token, row.quantity)
      /\ vault' = [vault EXCEPT ![row.token] = Left(row.token, row.quantity)]
      /\ fees' = fees
  BY DEF Outredeem
<1>5. /\ assets' \in Book(-MaxAmount..MaxAmount)
      /\ \A p \in Pids \ {row.pid} : HasRows(assets', p) <=> HasRows(assets, p)
  <2> DEFINE b == assets[row.pid][row.token]
             q == row.quantity
  <2>1. b \in -MaxAmount..MaxAmount /\ b >= q /\ q \in Nat
    BY <1>2, <1>3, <1>4 DEF Enough, Book
  <2> HIDE DEF b, q
  <2>2. b - q \in -MaxAmount..MaxAmount
    BY <2>1 DEF EosConstants
  <2>3. assets[row.pid][row.token] - row.quantity \in -MaxAmount..MaxAmount
    BY <2>2 DEF b, q
  <2> HIDE DEF row
  <2> QED
    BY <1>2, <1>3, <1>4, <2>3, SubFromType
<1>6. vault' \in [Tokens -> Nat]
  <2> HIDE DEF row
  <2>1. Left(row.token, row.quantity) \in Nat
    BY <1>2, <1>3, <1>4, LeftOver
  <2> QED
    BY <1>3, <1>4, <2>1
<1> QED
  BY <1>3, <1>4, <1>5, <1>6, CloseTransferInv DEF Outredeem

LEMMA OutrevokeInv ==
  ASSUME EosConstants, Inv, NEW x \in XHashes, Outrevoke(x)
  PROVE  Inv'
<1>1. UNCHANGED <<assets, fees, vault>>
  BY DEF Outrevoke
<1>2. assets \in Book(-MaxAmount..MaxAmount) /\ fees \in Book(Nat) /\ vault \in [Tokens -> Nat]
  BY DEF Inv, TypeOK
<1> QED
  BY <1>1, <1>2, CloseTransferInv DEF Outrevoke

(* What has to be shown of a step that records a debt.                     *)
LEMMA NewDebtInv ==
  ASSUME EosConstants, Inv,
         NEW pk \in PKs, NEW npk \in PKs, NEW pid \in Pids, NEW npid \in Pids,
         FindPK(pk, pid), FindOrSavePk(npk, npid),
         NEW t \in Tokens, NEW q \in DebtAmounts, NEW x \in XHashes,
         debts' = [debts EXCEPT ![x] =
             [pid |-> pid, npid |-> npid, token |-> t,
              quantity |-> q, timeLeft |-> 2 * LockedTime]],
         UNCHANGED <<transfers, assets, fees, ratio, signers, vault>>
  PROVE  Inv' /\ HasPK(npid)'
<1>1. /\ pks' \in [Pids -> PKs \cup {NoRow}]
      /\ OneIdPerPk'
      /\ HasPK(npid)'
      /\ \A p \in Pids : pks[p] # NoRow => pks'[p] # NoRow
  BY FindOrSave DEF Inv, HasPK
<1>2. pks'[pid] # NoRow
  BY <1>1 DEF FindPK, EosConstants
<1>3. q \in Int /\ 2 * LockedTime \in Expired..2 * LockedTime
  BY DEF EosConstants, Expired
<1>4. [pid |-> pid, npid |-> npid, token |-> t, quantity |-> q,
       timeLeft |-> 2 * LockedTime] \in DebtRow
  BY <1>3 DEF DebtRow
<1>5. TypeOK'
  BY <1>1, <1>4 DEF Inv, TypeOK
<1>6. \A y \in XHashes : \/ debts'[y] = debts[y]
                         \/ debts'[y].pid = pid
  BY DEF Inv, TypeOK
<1>7. RecordsHaveTheirPk'
  BY <1>1, <1>2, <1>6, RecordsKeepTheirPk
<1> QED
  BY <1>1, <1>5, <1>7 DEF Inv

LEMMA LockdebtInv ==
  ASSUME EosConstants, Inv,
         NEW npk \in PKs, NEW t \in Tokens, NEW q \in DebtAmounts, NEW x \in XHashes,
         NEW pk \in PKs, Lockdebt(npk, t, q, x, pk)
  PROVE  Inv'
BY NewDebtInv DEF Lockdebt

LEMMA RevokedebtInv ==
  ASSUME EosConstants, Inv, NEW x \in XHashes, Revokedebt(x)
  PROVE  Inv'
<1>1. /\ debts' = [debts EXCEPT ![x] = NoRow]
      /\ UNCHANGED <<transfers, pks, assets, fees, ratio, signers, vault>>
  BY DEF Revokedebt
<1>2. TypeOK'
  BY <1>1 DEF Inv, TypeOK
<1>3. \A y \in XHashes : debts'[y] # NoRow => debts'[y] = debts[y]
  BY <1>1 DEF Inv, TypeOK
<1>4. RecordsHaveTheirPk'
  BY <1>1, <1>3, RecordsKeepTheirPk
<1> QED
  BY <1>1, <1>2, <1>4 DEF Inv, OneIdPerPk, HasPK

(* What a redeemed debt makes of the assets.                               *)
LEMMA HandOverType ==
  ASSUME EosConstants, TypeOK, NEW row \in DebtRow,
         Enough(assets, row.pid, row.token, row.quantity), HandOver(row)
  PROVE  /\ assets' \in Book(-MaxAmount..MaxAmount)
         /\ \A p \in Pids \ {row.pid, row.npid} : HasRows(assets', p) <=> HasRows(assets, p)
         /\ SubFrom(assets, row.pid, row.token, row.quantity) \in Book(-MaxAmount..MaxAmount)
         /\ assets' = AddTo(SubFrom(assets, row.pid, row.token, row.quantity),
                            row.npid, row.token, row.quantity)
<1> DEFINE rest == SubFrom(assets, row.pid, row.token, row.quantity)
           b == assets[row.pid][row.token]
           q == row.quantity
<1>1. row.pid \in Pids /\ row.npid \in Pids /\ row.token \in Tokens /\ q \in Int
  BY DEF DebtRow
<1>2. assets \in Book(-MaxAmount..MaxAmount)
  BY DEF TypeOK
<1>3. /\ Fits(Balance(rest, row.pid, row.token))
      /\ Fits(Balance(rest, row.npid, row.token) + q)
      /\ assets' = AddTo(rest, row.npid, row.token, q)
  BY DEF HandOver
<1>4. b = q \/ b - q \in -MaxAmount..MaxAmount
  <2>1. SUFFICES ASSUME b # q PROVE b - q \in -MaxAmount..MaxAmount
    OBVIOUS
  <2>2. b \in Int
    BY <1>1, <1>2 DEF Enough, Book
  <2>3. rest[row.pid][row.token] = b - q
    BY <1>1, <1>2, <2>1 DEF SubFrom, Book
  <2>4. b - q \in Int /\ b - q # NoRow
    BY <1>1, <2>2 DEF EosConstants
  <2>5. Balance(rest, row.pid, row.token) = b - q
    BY <2>3, <2>4 DEF Balance
  <2> HIDE DEF rest, b
  <2> QED
    BY <1>3, <2>5 DEF Fits
<1>5. /\ rest \in Book(-MaxAmount..MaxAmount)
      /\ \A p \in Pids \ {row.pid} : HasRows(rest, p) <=> HasRows(assets, p)
  BY <1>1, <1>2, <1>4, SubFromType
<1> HIDE DEF rest
<1>6. /\ AddTo(rest, row.npid, row.token, q) \in Book(-MaxAmount..MaxAmount)
      /\ \A p \in Pids \ {row.npid} :
           HasRows(AddTo(rest, row.npid, row.token, q), p) <=> HasRows(rest, p)
  BY <1>1, <1>3, <1>5, AddToType DEF Fits
<1> QED
  BY <1>3, <1>5, <1>6 DEF rest

(* The hand-over: the only action that deletes a key.  The id it deletes   *)
(* has lost its last record, and the receiver had its key before.          *)
LEMMA RedeemdebtInv ==
  ASSUME EosConstants, Inv, NEW x \in XHashes, Redeemdebt(x)
  PROVE  Inv'
<1> DEFINE row == debts[x]
<1>1. row \in DebtRow
  BY LiveRows DEF Inv, Redeemdebt
<1>2. /\ row.pid \in Pids /\ row.npid \in Pids
      /\ row.token \in Tokens
  BY <1>1 DEF DebtRow
<1>3. /\ pks[row.pid] # NoRow /\ pks[row.npid] # NoRow
      /\ Enough(assets, row.pid, row.token, row.quantity)
      /\ HandOver(row)
      /\ debts' = [debts EXCEPT ![x] = NoRow]
      /\ CleanPk(row.pid, assets', debts')
      /\ UNCHANGED <<transfers, fees, ratio, signers, vault>>
  BY DEF Redeemdebt, HasPK
<1> HIDE DEF row
<1>7. /\ assets' \in Book(-MaxAmount..MaxAmount)
      /\ \A p \in Pids \ {row.pid, row.npid} : HasRows(assets', p) <=> HasRows(assets, p)
  BY <1>1, <1>3, HandOverType DEF Inv
<1>8. pks' = pks \/ (~IsPkUsed(row.pid, assets', debts')
                      /\ pks' = [pks EXCEPT ![row.pid] = NoRow])
  BY <1>3 DEF CleanPk
<1>9. TypeOK'
  BY <1>2, <1>3, <1>7, <1>8 DEF Inv, TypeOK
<1>10. OneIdPerPk'
  BY <1>2, <1>8 DEF Inv, TypeOK, OneIdPerPk, HasPK
<1>11. \A y \in XHashes : debts'[y] # NoRow => debts'[y] = debts[y]
  BY <1>3 DEF Inv, TypeOK
<1>12. \A p \in Pids : pks[p] # NoRow /\ pks'[p] = NoRow =>
         p = row.pid /\ ~IsPkUsed(row.pid, assets', debts')
  BY <1>2, <1>8 DEF Inv, TypeOK
<1>13. \A p \in Pids : pks[p] # NoRow /\ pks'[p] = NoRow =>
         /\ \A y \in XHashes : transfers'[y] # NoRow => transfers'[y].pid # p
         /\ \A y \in XHashes : debts'[y] # NoRow => debts'[y].pid # p
         /\ ~HasRows(assets', p) /\ ~HasRows(fees', p)
  BY <1>3, <1>12 DEF IsPkUsed, Live
<1>14. \A p \in Pids : HasRows(assets', p) => HasRows(assets, p) \/ pks'[p] # NoRow
  BY <1>2, <1>3, <1>7, <1>13 DEF Inv, RecordsHaveTheirPk, HasPK
<1>15. RecordsHaveTheirPk'
  BY <1>3, <1>11, <1>13, <1>14, RecordsKeepTheirPk
<1> QED
  BY <1>9, <1>10, <1>15 DEF Inv

(* What withdrawals pay through a token is a sum over rows. *)
LEMMA PaidIsSum ==
  ASSUME NEW pid, NEW payer, NEW t, NEW rows, rows = {r \in DOMAIN payer : payer[r] = t},
         IsFiniteSet(rows)
  PROVE  Paid(pid, payer, t) = SumOf([r \in rows |-> fees[pid][r]], rows)
<1> DEFINE f == [r \in rows |-> fees[pid][r]]
           body(it) == [s \in SUBSET rows |->
                          IF s = {} THEN 0
                          ELSE fees[pid][AnyOf(s)] + it[s \ {AnyOf(s)}]]
           sol == CHOOSE it : it = body(it)
<1>1. ASSUME NEW it PROVE it = body(it) <=> Recursion(f, rows, it)
  <2>1. \A s \in SUBSET rows : s # {} => f[AnyOf(s)] = fees[pid][AnyOf(s)]
    BY DEF AnyOf
  <2> HIDE DEF f
  <2> QED
    BY <2>1 DEF Recursion
<1>2. Paid(pid, payer, t) = sol[rows]
  BY DEF Paid, MapThenSumSet, MapThenFoldSet, AnyOf
<1> HIDE DEF f, body
<1>3. \E it : it = body(it)
  BY <1>1, RecursionExists
<1>4. sol = body(sol)
  BY <1>3, Zenon
<1>5. Recursion(f, rows, sol)
  BY <1>1, <1>4
<1> QED
  BY <1>2, <1>5, SolvedIsSum DEF f

LEMMA PaidOfRows ==
  ASSUME EosConstants, TypeOK, NEW pid \in Pids, NEW payer, DOMAIN payer \subseteq FeeRows(pid),
         NEW t
  PROVE  /\ Paid(pid, payer, t) \in Nat
         /\ \A rows : rows = {r \in DOMAIN payer : payer[r] = t} =>
              /\ Counts([r \in rows |-> fees[pid][r]], rows)
              /\ Paid(pid, payer, t) = SumOf([r \in rows |-> fees[pid][r]], rows)
<1> DEFINE rows == {r \in DOMAIN payer : payer[r] = t}
           f == [r \in rows |-> fees[pid][r]]
<1>1. rows \subseteq Tokens /\ \A r \in rows : fees[pid][r] \in Nat
  BY DEF FeeRows, TypeOK, Book
<1>2. IsFiniteSet(rows)
  BY <1>1, FS_Subset DEF EosConstants
<1>3. Counts(f, rows)
  BY <1>1, <1>2 DEF Counts
<1>4. Paid(pid, payer, t) = SumOf(f, rows)
  BY <1>2, PaidIsSum
<1> HIDE DEF f
<1>5. SumOf(f, rows) \in Nat
  BY <1>3, SumStep
<1> QED
  BY <1>3, <1>4, <1>5 DEF f

(* A withdrawal pays rows that are there. *)
LEMMA WithdrawalPays ==
  ASSUME NEW pid \in Pids
  PROVE  /\ DOMAIN [r \in FeeRows(pid) |-> r] \subseteq FeeRows(pid)
         /\ \A account : DOMAIN [r \in RowsFrom(pid, account) |->
                                   [account |-> account, symbol |-> r.symbol]]
                           \subseteq FeeRows(pid)
         /\ \A t \in Tokens : fees[pid][t] # NoRow => DOMAIN [r \in {t} |-> r] \subseteq FeeRows(pid)
BY DEF FeeRows, RowsFrom

(* Paying fees only removes rows of one id. *)
LEMMA IssueFeesInv ==
  ASSUME EosConstants, Inv, NEW pid \in Pids, NEW payer, DOMAIN payer \subseteq FeeRows(pid),
         IssueFees(pid, payer), UNCHANGED <<transfers, debts, pks, assets, ratio, signers>>
  PROVE  Inv'
<1>1. vault' \in [Tokens -> Nat]
  <2>1. ASSUME NEW t \in Tokens PROVE Left(t, Paid(pid, payer, t)) \in Nat
    <3>1. CanPay(t, Paid(pid, payer, t)) /\ vault[t] \in Nat
      BY DEF IssueFees, Inv, TypeOK
    <3>2. Paid(pid, payer, t) \in Nat
      BY PaidOfRows DEF Inv
    <3> QED
      BY <3>1, <3>2, LeftOver
  <2> QED
    BY <2>1 DEF IssueFees
<1>2. fees \in Book(Nat)
  BY DEF Inv, TypeOK
<1>3. fees' = [fees EXCEPT ![pid] =
         [t \in Tokens |-> IF t \in DOMAIN payer THEN NoRow ELSE fees[pid][t]]]
  BY DEF IssueFees
<1>4. fees' \in Book(Nat)
  BY <1>2, <1>3 DEF Book
<1>5. \A p \in Pids : HasRows(fees', p) => HasRows(fees, p)
  BY <1>2, <1>3 DEF Book, HasRows
<1>6. TypeOK'
  BY <1>1, <1>4 DEF Inv, TypeOK
<1>7. RecordsHaveTheirPk'
  BY <1>5, RecordsKeepTheirPk
<1> QED
  BY <1>6, <1>7 DEF Inv, OneIdPerPk, HasPK

(* Time changes no row but its timeLeft. *)
LEMMA TickInv ==
  ASSUME EosConstants, Inv, Tick
  PROVE  Inv'
<1>1. LockedTime \in Nat /\ Expired = -1
  BY DEF EosConstants, Expired
<1>2. ASSUME NEW r \in TransferRow
      PROVE  Older(r) \in TransferRow /\ Older(r).pid = r.pid
  BY <1>1 DEF Older, TransferRow
<1>3. ASSUME NEW r \in DebtRow
      PROVE  Older(r) \in DebtRow /\ Older(r).pid = r.pid
  BY <1>1 DEF Older, DebtRow
<1>4. ASSUME NEW x \in XHashes
      PROVE  /\ transfers'[x] \in TransferRow \cup {NoRow}
             /\ transfers'[x] # NoRow => transfers[x] # NoRow
                                         /\ transfers'[x].pid = transfers[x].pid
  BY <1>2, LiveRows DEF Tick, Aged, Inv
<1>5. ASSUME NEW x \in XHashes
      PROVE  /\ debts'[x] \in DebtRow \cup {NoRow}
             /\ debts'[x] # NoRow => debts[x] # NoRow /\ debts'[x].pid = debts[x].pid
  BY <1>3, LiveRows DEF Tick, Aged, Inv
<1>6. UNCHANGED <<pks, assets, fees, ratio, signers, vault>>
  BY DEF Tick
<1>7. TypeOK'
  <2>1. transfers' \in [XHashes -> TransferRow \cup {NoRow}]
    BY <1>4 DEF Tick, Aged
  <2>2. debts' \in [XHashes -> DebtRow \cup {NoRow}]
    BY <1>5 DEF Tick, Aged
  <2> QED
    BY <1>6, <2>1, <2>2 DEF Inv, TypeOK
<1>8. RecordsHaveTheirPk'
  BY <1>4, <1>5, <1>6, RecordsKeepTheirPk
<1> QED
  BY <1>6, <1>7, <1>8 DEF Inv, OneIdPerPk, HasPK

(* The actions that touch neither records, nor keys, nor balances of       *)
(* storemen.                                                               *)
LEMMA OtherInv ==
  ASSUME Inv, UNCHANGED <<transfers, debts, pks, assets, fees>>,
         ratio' \in Nat, signers' \in [SigCodes -> SigActions \cup {NoRow}],
         vault' \in [Tokens -> Nat]
  PROVE  Inv'
<1>1. TypeOK'
  BY DEF Inv, TypeOK
<1>2. RecordsHaveTheirPk'
  BY RecordsKeepTheirPk
<1> QED
  BY <1>1, <1>2 DEF Inv, OneIdPerPk, HasPK

-----------------------------------------------------------------------------
LEMMA NextInv ==
  ASSUME EosConstants, Inv, [Next]_vars
  PROVE  Inv'
<1>0. /\ ratio \in Nat /\ vault \in [Tokens -> Nat]
      /\ signers \in [SigCodes -> SigActions \cup {NoRow}]
  BY DEF Inv, TypeOK
<1>1. CASE UserNext
  <2>1. CASE \E t \in Issued, q \in Amounts : OtherTransfer(t, q)
    <3>1. PICK t \in Tokens, q \in Amounts : OtherTransfer(t, q)
      BY <2>1 DEF EosConstants
    <3>2. vault' \in [Tokens -> Nat]
      BY <1>0, <3>1 DEF OtherTransfer, EosConstants
    <3> QED
      BY <1>0, <3>1, <3>2, OtherInv DEF OtherTransfer
  <2>2. Issued \subseteq Tokens
    BY DEF EosConstants
  <2> QED
    BY <1>1, <2>1, <2>2, InlockInv, OutredeemInv, InrevokeInv DEF UserNext
<1>2. CASE StoremanNext
  <2>1. CASE \E pk \in PKs : WithdrawAll(pk)
    BY <2>1, WithdrawalPays, IssueFeesInv DEF WithdrawAll
  <2>2. CASE \E pk \in PKs, t \in Tokens : WithdrawAccount(pk, t.account)
    BY <2>2, WithdrawalPays, IssueFeesInv DEF WithdrawAccount
  <2>3. CASE \E pk \in PKs, t \in Tokens : WithdrawToken(pk, t)
    BY <2>3, WithdrawalPays, IssueFeesInv DEF WithdrawToken
  <2> QED
    BY <1>2, <2>1, <2>2, <2>3, InredeemInv, OutlockInv, OutrevokeInv, LockdebtInv,
       RedeemdebtInv, RevokedebtInv DEF StoremanNext
<1>3. CASE OwnerNext
  <2>1. CASE \E r \in Ratios : Setratio(r)
    BY <1>0, <2>1, OtherInv DEF Setratio, EosConstants
  <2>2. CASE \E c \in SigCodes, a \in SigActions : Regsig(c, a)
    BY <1>0, <2>2, OtherInv DEF Regsig
  <2>3. CASE \E c, n \in SigCodes, a \in SigActions : Updatesig(c, n, a)
    BY <1>0, <2>3, OtherInv DEF Updatesig
  <2>4. CASE \E c \in SigCodes : Unregsig(c)
    BY <1>0, <2>4, OtherInv DEF Unregsig
  <2> QED
    BY <1>3, <2>1, <2>2, <2>3, <2>4 DEF OwnerNext
<1>4. CASE Tick
  BY <1>4, TickInv
<1>5. CASE UNCHANGED vars
  BY <1>0, <1>5, OtherInv DEF vars
<1> QED
  BY <1>1, <1>2, <1>3, <1>4, <1>5 DEF Next

(* Every table of the contract keeps its type, whatever the constants.     *)
THEOREM TypesHold == Spec => []TypeOK
<1>1. Inv => TypeOK
  BY DEF Inv
<1> QED
  BY <1>1, InitInv, NextInv, EosConstants, PTL DEF Spec

(* A storeman key has one id in pks, at any time.                          *)
THEOREM PksAreUnique == Spec => []OneIdPerPk
<1>1. Inv => OneIdPerPk
  BY DEF Inv
<1> QED
  BY <1>1, InitInv, NextInv, EosConstants, PTL DEF Spec

(* cleanPk never deletes the key of a pending transfer, of a debt's giver, *)
(* of an asset or of a fee: no redeem or revoke fails for want of its key. *)
THEOREM RecordsAlwaysHaveTheirPk == Spec => []RecordsHaveTheirPk
<1>1. Inv => RecordsHaveTheirPk
  BY DEF Inv
<1> QED
  BY <1>1, InitInv, NextInv, EosConstants, PTL DEF Spec

-----------------------------------------------------------------------------
(* isPkDebt finds every debt of the storeman in the token: its scan begins *)
(* at the first row of the key, and every row of the key comes after it.   *)
LEMMA IsPkDebtFindsDebts ==
  ASSUME EosConstants, TypeOK,
         NEW d \in XHashes, debts[d] # NoRow, NEW pid \in Pids, NEW t \in Tokens,
         debts[d].pid = pid, debts[d].token = t
  PROVE  IsPkDebt(pid, t)
<1>1. t.account \in Nat /\ t.account >= t.account
  BY DEF EosConstants
<1>2. d \in Scan(debts, pid, t.account)
  BY <1>1 DEF Scan, Live
<1> QED
  BY <1>2 DEF IsPkDebt

(* Inlock and outlock alone record a transfer where there was none.        *)
LEMMA OnlyLocksRecord ==
  ASSUME EosConstants, Inv, [Next]_vars,
         NEW x \in XHashes, transfers[x] = NoRow, transfers'[x] # NoRow
  PROVE  \E u \in Users, t \in Tokens, q \in Amounts, y \in XHashes, pk \in PKs :
            Inlock(u, t, q, y, pk) \/ Outlock(u, t, q, y, pk)
<1>1. transfers \in [XHashes -> TransferRow \cup {NoRow}]
  BY DEF Inv, TypeOK
<1>2. CASE UserNext
  BY <1>1, <1>2 DEF UserNext, OtherTransfer, Outredeem, Inrevoke
<1>3. CASE StoremanNext
  BY <1>1, <1>3 DEF StoremanNext, Inredeem, Outrevoke, Lockdebt, Redeemdebt, Revokedebt,
                    WithdrawAll, WithdrawAccount, WithdrawToken
<1>4. CASE OwnerNext
  BY <1>4 DEF OwnerNext, Setratio, Regsig, Updatesig, Unregsig
<1>5. CASE Tick
  BY <1>5 DEF Tick, Aged
<1>6. CASE UNCHANGED vars
  BY <1>6 DEF vars
<1> QED
  BY <1>2, <1>3, <1>4, <1>5, <1>6 DEF Next

LEMMA FreezeStep ==
  ASSUME EosConstants, Inv, [Next]_vars,
         NEW x \in XHashes, NEW d \in XHashes,
         transfers[x] = NoRow, transfers'[x] # NoRow, debts'[d] # NoRow
  PROVE  ~(debts'[d].pid = transfers'[x].pid /\ debts'[d].token = transfers'[x].token)
<1>1. PICK u \in Users, t \in Tokens, q \in Amounts, y \in XHashes, pk \in PKs :
        Inlock(u, t, q, y, pk) \/ Outlock(u, t, q, y, pk)
  BY OnlyLocksRecord
<1>2. PICK pid \in Pids :
        /\ ~IsPkDebt(pid, t)
        /\ transfers'[x].pid = pid /\ transfers'[x].token = t
        /\ debts' = debts
  <2>1. transfers \in [XHashes -> TransferRow \cup {NoRow}]
    BY DEF Inv, TypeOK
  <2>2. CASE Inlock(u, t, q, y, pk)
    BY <2>1, <2>2 DEF Inlock
  <2>3. CASE Outlock(u, t, q, y, pk)
    BY <2>1, <2>3 DEF Outlock
  <2> QED
    BY <1>1, <2>2, <2>3
<1> QED
  BY <1>2, IsPkDebtFindsDebts DEF Inv

(* A storeman that owes a debt in a token takes no new lock in it: isPkDebt *)
(* misses no debt, though its scan does not end where its key ends.        *)
THEOREM DebtsFreezeLocks == Spec => DebtFreezesNewLocks
<1>1. ASSUME Inv, [Next]_vars
      PROVE  [\A x, d \in XHashes :
                 /\ transfers[x] = NoRow /\ transfers'[x] # NoRow
                 /\ debts'[d] # NoRow
                 => ~(debts'[d].pid = transfers'[x].pid
                      /\ debts'[d].token = transfers'[x].token)]_vars
  BY <1>1, FreezeStep, EosConstants
<1> QED
  BY <1>1, InitInv, NextInv, EosConstants, PTL DEF Spec, DebtFreezesNewLocks

-----------------------------------------------------------------------------
(* Solvency: sums over the rows of a table *)

(* Total is a sum over the rows it is given. *)
LEMMA TotalIsSum ==
  ASSUME NEW table, NEW rows, IsFiniteSet(rows)
  PROVE  Total(table, rows) = SumOf([x \in rows |-> table[x].quantity], rows)
<1> DEFINE f == [x \in rows |-> table[x].quantity]
           body(it) == [s \in SUBSET rows |->
                          IF s = {} THEN 0
                          ELSE table[AnyOf(s)].quantity + it[s \ {AnyOf(s)}]]
           sol == CHOOSE it : it = body(it)
<1>1. ASSUME NEW it PROVE it = body(it) <=> Recursion(f, rows, it)
  <2>1. \A s \in SUBSET rows : s # {} => f[AnyOf(s)] = table[AnyOf(s)].quantity
    BY DEF AnyOf
  <2> HIDE DEF f
  <2> QED
    BY <2>1 DEF Recursion
<1>2. Total(table, rows) = sol[rows]
  BY DEF Total, MapThenSumSet, MapThenFoldSet, AnyOf
<1> HIDE DEF f, body
<1>3. \E it : it = body(it)
  BY <1>1, RecursionExists
<1>4. sol = body(sol)
  BY <1>3, Zenon
<1>5. Recursion(f, rows, sol)
  BY <1>1, <1>4
<1> QED
  BY <1>2, <1>5, SolvedIsSum DEF f

LEMMA TotalOfNone ==
  ASSUME NEW table, NEW rows, rows = {}
  PROVE  Total(table, rows) = 0
<1> DEFINE f == [x \in rows |-> table[x].quantity]
<1>1. IsFiniteSet(rows)
  BY FS_EmptySet
<1>2. Total(table, rows) = SumOf(f, rows)
  BY <1>1, TotalIsSum
<1> HIDE DEF f
<1>3. SumOf(f, rows) = SumOf(f, {})
  BY Zenon
<1> QED
  BY <1>2, <1>3, SumEmpty

(* So is the sum of a token's balances over all ids. *)
HeldBy(book, t) == [p \in Pids |-> Balance(book, p, t)]

LEMMA BalancesAreSum ==
  ASSUME NEW book, NEW t, IsFiniteSet(Pids)
  PROVE  MapThenSumSet(LAMBDA p : Balance(book, p, t), Pids) = SumOf(HeldBy(book, t), Pids)
<1> DEFINE f == HeldBy(book, t)
           body(it) == [s \in SUBSET Pids |->
                          IF s = {} THEN 0
                          ELSE Balance(book, AnyOf(s), t) + it[s \ {AnyOf(s)}]]
           sol == CHOOSE it : it = body(it)
<1>1. ASSUME NEW it PROVE it = body(it) <=> Recursion(f, Pids, it)
  <2>1. \A s \in SUBSET Pids : s # {} => f[AnyOf(s)] = Balance(book, AnyOf(s), t)
    BY DEF AnyOf, HeldBy
  <2> HIDE DEF f
  <2> QED
    BY <2>1 DEF Recursion
<1>2. MapThenSumSet(LAMBDA p : Balance(book, p, t), Pids) = sol[Pids]
  BY DEF MapThenSumSet, MapThenFoldSet, AnyOf
<1> HIDE DEF f, body
<1>3. \E it : it = body(it)
  BY <1>1, RecursionExists
<1>4. sol = body(sol)
  BY <1>3, Zenon
<1>5. Recursion(f, Pids, sol)
  BY <1>1, <1>4
<1> QED
  BY <1>2, <1>5, SolvedIsSum DEF f

-----------------------------------------------------------------------------
(* Sums over all rows of a table, rather than over those of some kind. *)

Counted(table, rows) == [x \in XHashes |-> IF x \in rows THEN table[x].quantity ELSE 0]

LEMMA TotalIsCounted ==
  ASSUME NEW table, NEW rows \in SUBSET XHashes, IsFiniteSet(XHashes),
         \A x \in rows : table[x].quantity \in Int
  PROVE  /\ Summable(Counted(table, rows), XHashes)
         /\ Total(table, rows) = SumOf(Counted(table, rows), XHashes)
<1> DEFINE g == [x \in rows |-> table[x].quantity]
           f == Counted(table, rows)
<1>1. IsFiniteSet(rows)
  BY FS_Subset
<1>2. Summable(f, XHashes) /\ (\A x \in rows : g[x] = f[x]) /\ \A x \in XHashes \ rows : f[x] = 0
  BY DEF Counted, Summable
<1>3. Total(table, rows) = SumOf(g, rows)
  BY <1>1, TotalIsSum
<1> HIDE DEF f, g
<1>4. SumOf(g, rows) = SumOf(f, XHashes)
  BY <1>2, AddsSupport
<1> QED
  BY <1>2, <1>3, <1>4 DEF f

(* How a total changes when one row does. *)
LEMMA TotalUpdate ==
  ASSUME IsFiniteSet(XHashes),
         NEW table, NEW rows \in SUBSET XHashes, \A x \in rows : table[x].quantity \in Int,
         NEW ntable, NEW nrows \in SUBSET XHashes, \A x \in nrows : ntable[x].quantity \in Int,
         NEW x \in XHashes,
         \A y \in XHashes \ {x} : (y \in nrows <=> y \in rows)
                                  /\ ntable[y].quantity = table[y].quantity
  PROVE  /\ Total(table, rows) \in Int
         /\ Total(ntable, nrows) \in Int
         /\ Total(ntable, nrows) = Total(table, rows)
              - (IF x \in rows THEN table[x].quantity ELSE 0)
              + (IF x \in nrows THEN ntable[x].quantity ELSE 0)
<1> DEFINE f == Counted(table, rows)
           g == Counted(ntable, nrows)
<1>1. /\ Summable(f, XHashes) /\ Total(table, rows) = SumOf(f, XHashes)
      /\ Summable(g, XHashes) /\ Total(ntable, nrows) = SumOf(g, XHashes)
  BY TotalIsCounted
<1>2. /\ \A y \in XHashes \ {x} : g[y] = f[y]
      /\ f[x] = IF x \in rows THEN table[x].quantity ELSE 0
      /\ g[x] = IF x \in nrows THEN ntable[x].quantity ELSE 0
  BY DEF Counted
<1> HIDE DEF f, g
<1>3. SumOf(g, XHashes) = SumOf(f, XHashes) - f[x] + g[x]
  BY <1>1, <1>2, AddsUpdate
<1>4. SumOf(f, XHashes) \in Int /\ SumOf(g, XHashes) \in Int
  BY <1>1, AddsStep
<1> QED
  BY <1>1, <1>2, <1>3, <1>4

(* What does not change leaves it alone. *)
LEMMA TotalSame ==
  ASSUME IsFiniteSet(XHashes),
         NEW table, NEW rows \in SUBSET XHashes, \A x \in rows : table[x].quantity \in Int,
         NEW ntable, NEW nrows \in SUBSET XHashes,
         \A y \in XHashes : y \in nrows <=> y \in rows,
         \A y \in rows : ntable[y].quantity = table[y].quantity
  PROVE  Total(table, rows) \in Int /\ Total(ntable, nrows) = Total(table, rows)
<1> DEFINE f == Counted(table, rows)
           g == Counted(ntable, nrows)
<1>1. \A x \in nrows : ntable[x].quantity \in Int
  OBVIOUS
<1>2. /\ Summable(f, XHashes) /\ Total(table, rows) = SumOf(f, XHashes)
      /\ Summable(g, XHashes) /\ Total(ntable, nrows) = SumOf(g, XHashes)
  BY <1>1, TotalIsCounted
<1>3. \A y \in XHashes : f[y] = g[y]
  BY DEF Counted
<1> HIDE DEF f, g
<1>4. SumOf(f, XHashes) = SumOf(g, XHashes)
  BY <1>3, SumSame
<1>5. SumOf(f, XHashes) \in Int
  BY <1>2, AddsStep
<1> QED
  BY <1>2, <1>4, <1>5

(* More rows have no smaller a total. *)
LEMMA TotalMonotone ==
  ASSUME IsFiniteSet(XHashes),
         NEW table, NEW rows \in SUBSET XHashes, \A x \in rows : table[x].quantity \in Nat,
         NEW some \in SUBSET rows
  PROVE  /\ Total(table, rows) \in Nat /\ Total(table, some) \in Nat
         /\ Total(table, some) <= Total(table, rows)
<1> DEFINE f == Counted(table, rows)
           g == Counted(table, some)
<1>1. Total(table, rows) = SumOf(f, XHashes) /\ Total(table, some) = SumOf(g, XHashes)
  <2>1. \A x \in rows : table[x].quantity \in Int
    OBVIOUS
  <2> QED
    BY <2>1, TotalIsCounted
<1>2. /\ Counts(f, XHashes) /\ Counts(g, XHashes)
      /\ \A x \in XHashes : g[x] \in Nat /\ g[x] <= f[x]
  BY DEF Counted, Counts
<1> HIDE DEF f, g
<1>3. SumOf(g, XHashes) <= SumOf(f, XHashes)
  BY <1>2, SumMonotone
<1>4. SumOf(f, XHashes) \in Nat /\ SumOf(g, XHashes) \in Nat
  BY <1>2, SumStep
<1> QED
  BY <1>1, <1>3, <1>4

-----------------------------------------------------------------------------
(* Balances of all ids in a token *)

Held(book, t) == MapThenSumSet(LAMBDA p : Balance(book, p, t), Pids)

LEMMA HeldIsSum ==
  ASSUME EosConstants, NEW book \in Book(Int), NEW t \in Tokens
  PROVE  /\ Summable(HeldBy(book, t), Pids)
         /\ Held(book, t) = SumOf(HeldBy(book, t), Pids)
         /\ Held(book, t) \in Int
<1>1. IsFiniteSet(Pids)
  <2>1. 0 \in Int /\ MaxPid \in Int
    BY DEF EosConstants
  <2> QED
    BY <2>1, FS_Interval DEF Pids
<1>2. Summable(HeldBy(book, t), Pids)
  BY <1>1 DEF Summable, HeldBy, Balance, Book
<1>3. Held(book, t) = SumOf(HeldBy(book, t), Pids)
  BY <1>1, BalancesAreSum DEF Held
<1> QED
  BY <1>2, <1>3, AddsStep

(* How it changes with one balance. *)
LEMMA HeldUpdate ==
  ASSUME EosConstants, NEW book \in Book(Int), NEW nbook \in Book(Int),
         NEW t \in Tokens, NEW pid \in Pids,
         \A p \in Pids \ {pid} : Balance(nbook, p, t) = Balance(book, p, t)
  PROVE  /\ Held(book, t) \in Int /\ Held(nbook, t) \in Int
         /\ Held(nbook, t) = Held(book, t) - Balance(book, pid, t) + Balance(nbook, pid, t)
<1> DEFINE f == HeldBy(book, t)
           g == HeldBy(nbook, t)
<1>1. /\ Summable(f, Pids) /\ Held(book, t) = SumOf(f, Pids) /\ Held(book, t) \in Int
      /\ Summable(g, Pids) /\ Held(nbook, t) = SumOf(g, Pids) /\ Held(nbook, t) \in Int
  BY HeldIsSum
<1>2. /\ \A p \in Pids \ {pid} : g[p] = f[p]
      /\ f[pid] = Balance(book, pid, t) /\ g[pid] = Balance(nbook, pid, t)
  BY DEF HeldBy
<1> HIDE DEF f, g
<1>3. SumOf(g, Pids) = SumOf(f, Pids) - f[pid] + g[pid]
  BY <1>1, <1>2, AddsUpdate
<1> QED
  BY <1>1, <1>2, <1>3

(* The balances after an addition and a subtraction. *)
LEMMA BalanceAfterAdd ==
  ASSUME EosConstants, NEW book \in Book(Int), NEW pid \in Pids, NEW token \in Tokens,
         NEW quantity \in Int
  PROVE  \A p \in Pids, t \in Tokens :
           /\ Balance(book, p, t) \in Int
           /\ Balance(AddTo(book, pid, token, quantity), p, t)
                = Balance(book, p, t) + IF p = pid /\ t = token THEN quantity ELSE 0
<1>1. NoRow \notin Nat
  BY DEF EosConstants
<1>2. \A p \in Pids, t \in Tokens : Balance(book, p, t) \in Int
  BY DEF Balance, Book
<1>3. \A p \in Pids, t \in Tokens : AddTo(book, pid, token, quantity)[p][t] =
         IF p = pid /\ t = token THEN Balance(book, pid, token) + quantity ELSE book[p][t]
  BY DEF AddTo, Book
<1>4. Balance(book, pid, token) + quantity \in Int
  BY <1>2
<1>5. Balance(AddTo(book, pid, token, quantity), pid, token)
         = Balance(book, pid, token) + quantity
  <2>1. AddTo(book, pid, token, quantity)[pid][token] = Balance(book, pid, token) + quantity
    BY <1>3
  <2> QED
    BY <1>1, <1>4, <2>1 DEF Balance
<1>6. \A p \in Pids, t \in Tokens : ~(p = pid /\ t = token) =>
        Balance(AddTo(book, pid, token, quantity), p, t) = Balance(book, p, t)
  BY <1>3 DEF Balance
<1> QED
  BY <1>2, <1>5, <1>6

LEMMA BalanceAfterSub ==
  ASSUME EosConstants, NEW book \in Book(Int), NEW pid \in Pids, NEW token \in Tokens,
         NEW quantity \in Int, Enough(book, pid, token, quantity)
  PROVE  /\ Balance(book, pid, token) >= quantity
         /\ \A p \in Pids, t \in Tokens :
           /\ Balance(book, p, t) \in Int
           /\ Balance(SubFrom(book, pid, token, quantity), p, t)
                = Balance(book, p, t) - IF p = pid /\ t = token THEN quantity ELSE 0
<1> DEFINE b == book[pid][token]
           left == IF b = quantity THEN NoRow ELSE b - quantity
<1>1. NoRow \notin Nat
  BY DEF EosConstants
<1>2. b \in Int /\ b >= quantity
  BY DEF Enough, Book
<1>3. b - quantity \in Int /\ (b = quantity => b - quantity = 0)
  BY <1>2
<1>4. \A p \in Pids, t \in Tokens : Balance(book, p, t) \in Int
  BY DEF Balance, Book
<1>5. Balance(book, pid, token) = b
  BY <1>1, <1>2 DEF Balance
<1>6. \A p \in Pids, t \in Tokens : SubFrom(book, pid, token, quantity)[p][t] =
         IF p = pid /\ t = token THEN left ELSE book[p][t]
  BY DEF SubFrom, Book
<1>7. (IF left = NoRow THEN 0 ELSE left) = b - quantity
  BY <1>1, <1>3
<1> HIDE DEF left, b
<1>8. Balance(SubFrom(book, pid, token, quantity), pid, token) = b - quantity
  BY <1>6, <1>7 DEF Balance
<1>9. \A p \in Pids, t \in Tokens : ~(p = pid /\ t = token) =>
        Balance(SubFrom(book, pid, token, quantity), p, t) = Balance(book, p, t)
  BY <1>6 DEF Balance
<1> QED
  BY <1>2, <1>4, <1>5, <1>8, <1>9

-----------------------------------------------------------------------------
(* The parts of Owed and of Promised *)

InlockRows(table, t) == {x \in Live(table) : /\ table[x].status = "inlock"
                                             /\ table[x].token = t}
OutlockRows(table, p, t) == {x \in Live(table) : /\ table[x].status = "outlock"
                                                 /\ table[x].pid = p
                                                 /\ table[x].token = t}
DebtRows(table, p, t) == {x \in Live(table) : table[x].pid = p /\ table[x].token = t}

LEMMA OwedParts ==
  ASSUME NEW t
  PROVE  /\ Owed(t) = Total(transfers, InlockRows(transfers, t)) + Held(assets, t) + Held(fees, t)
         /\ Owed(t)' = Total(transfers', InlockRows(transfers', t))
                         + Held(assets', t) + Held(fees', t)
<1>1. Owed(t) = Total(transfers, InlockRows(transfers, t)) + Held(assets, t) + Held(fees, t)
  BY DEF Owed, InlockRows, Held
<1>2. (Owed(t) = Total(transfers, InlockRows(transfers, t)) + Held(assets, t) + Held(fees, t))'
  BY <1>1, PTL
<1>3. Owed(t)' = Total(transfers', InlockRows(transfers', t))
                   + Held(assets', t) + Held(fees', t)
  BY <1>2
<1> QED
  BY <1>1, <1>3

LEMMA PromisedParts ==
  ASSUME NEW p, NEW t
  PROVE  /\ Promised(p, t) = Total(transfers, OutlockRows(transfers, p, t))
                               + Total(debts, DebtRows(debts, p, t))
         /\ Promised(p, t)' = Total(transfers', OutlockRows(transfers', p, t))
                               + Total(debts', DebtRows(debts', p, t))
BY Zenon DEF Promised, OutlockRows, DebtRows

(* What one row adds to each of them. *)
InOwed(row, t) ==
  IF row # NoRow /\ row.status = "inlock" /\ row.token = t THEN row.quantity ELSE 0
OutPromised(row, p, t) ==
  IF row # NoRow /\ row.status = "outlock" /\ row.pid = p /\ row.token = t
  THEN row.quantity ELSE 0
DebtPromised(row, p, t) ==
  IF row # NoRow /\ row.pid = p /\ row.token = t THEN row.quantity ELSE 0

TransferTable == [XHashes -> TransferRow \cup {NoRow}]
DebtTable == [XHashes -> DebtRow \cup {NoRow}]

(* How a row that changes changes the two totals over transfers. *)
LEMMA InlockTotals ==
  ASSUME IsFiniteSet(XHashes),
         NEW table \in TransferTable, NEW ntable \in TransferTable, NEW x \in XHashes,
         \A y \in XHashes \ {x} : ntable[y] = table[y], NEW t
  PROVE  /\ Total(table, InlockRows(table, t)) \in Int
         /\ Total(ntable, InlockRows(ntable, t))
              = Total(table, InlockRows(table, t))
                  - InOwed(table[x], t) + InOwed(ntable[x], t)
<1> DEFINE rows == InlockRows(table, t)
           nrows == InlockRows(ntable, t)
<1>1. /\ \A y \in Live(table) : table[y].quantity \in Int
      /\ \A y \in Live(ntable) : ntable[y].quantity \in Int
  BY DEF Live, TransferTable, TransferRow
<1>2. /\ rows \in SUBSET XHashes /\ nrows \in SUBSET XHashes
      /\ \A y \in rows : table[y].quantity \in Int
      /\ \A y \in nrows : ntable[y].quantity \in Int
      /\ \A y \in XHashes \ {x} : (y \in nrows <=> y \in rows)
                                  /\ ntable[y].quantity = table[y].quantity
      /\ InOwed(table[x], t) = IF x \in rows THEN table[x].quantity ELSE 0
      /\ InOwed(ntable[x], t) = IF x \in nrows THEN ntable[x].quantity ELSE 0
  BY <1>1 DEF InlockRows, Live, InOwed
<1> HIDE DEF rows, nrows
<1>3. /\ Total(table, rows) \in Int
      /\ Total(ntable, nrows) = Total(table, rows)
           - (IF x \in rows THEN table[x].quantity ELSE 0)
           + (IF x \in nrows THEN ntable[x].quantity ELSE 0)
  BY <1>2, TotalUpdate
<1> QED
  BY <1>2, <1>3 DEF rows, nrows

LEMMA OutlockTotals ==
  ASSUME IsFiniteSet(XHashes),
         NEW table \in TransferTable, NEW ntable \in TransferTable, NEW x \in XHashes,
         \A y \in XHashes \ {x} : ntable[y] = table[y], NEW p, NEW t
  PROVE  /\ Total(table, OutlockRows(table, p, t)) \in Int
         /\ Total(ntable, OutlockRows(ntable, p, t))
              = Total(table, OutlockRows(table, p, t))
                  - OutPromised(table[x], p, t) + OutPromised(ntable[x], p, t)
<1> DEFINE rows == OutlockRows(table, p, t)
           nrows == OutlockRows(ntable, p, t)
<1>1. /\ \A y \in Live(table) : table[y].quantity \in Int
      /\ \A y \in Live(ntable) : ntable[y].quantity \in Int
  BY DEF Live, TransferTable, TransferRow
<1>2. /\ rows \in SUBSET XHashes /\ nrows \in SUBSET XHashes
      /\ \A y \in rows : table[y].quantity \in Int
      /\ \A y \in nrows : ntable[y].quantity \in Int
      /\ \A y \in XHashes \ {x} : (y \in nrows <=> y \in rows)
                                  /\ ntable[y].quantity = table[y].quantity
      /\ OutPromised(table[x], p, t) = IF x \in rows THEN table[x].quantity ELSE 0
      /\ OutPromised(ntable[x], p, t) = IF x \in nrows THEN ntable[x].quantity ELSE 0
  BY <1>1 DEF OutlockRows, Live, OutPromised
<1> HIDE DEF rows, nrows
<1>3. /\ Total(table, rows) \in Int
      /\ Total(ntable, nrows) = Total(table, rows)
           - (IF x \in rows THEN table[x].quantity ELSE 0)
           + (IF x \in nrows THEN ntable[x].quantity ELSE 0)
  BY <1>2, TotalUpdate
<1> QED
  BY <1>2, <1>3 DEF rows, nrows

LEMMA DebtTotals ==
  ASSUME IsFiniteSet(XHashes),
         NEW table \in DebtTable, NEW ntable \in DebtTable, NEW x \in XHashes,
         \A y \in XHashes \ {x} : ntable[y] = table[y], NEW p, NEW t
  PROVE  /\ Total(table, DebtRows(table, p, t)) \in Int
         /\ Total(ntable, DebtRows(ntable, p, t))
              = Total(table, DebtRows(table, p, t))
                  - DebtPromised(table[x], p, t) + DebtPromised(ntable[x], p, t)
<1> DEFINE rows == DebtRows(table, p, t)
           nrows == DebtRows(ntable, p, t)
<1>1. /\ \A y \in Live(table) : table[y].quantity \in Int
      /\ \A y \in Live(ntable) : ntable[y].quantity \in Int
  BY DEF Live, DebtTable, DebtRow
<1>2. /\ rows \in SUBSET XHashes /\ nrows \in SUBSET XHashes
      /\ \A y \in rows : table[y].quantity \in Int
      /\ \A y \in nrows : ntable[y].quantity \in Int
      /\ \A y \in XHashes \ {x} : (y \in nrows <=> y \in rows)
                                  /\ ntable[y].quantity = table[y].quantity
      /\ DebtPromised(table[x], p, t) = IF x \in rows THEN table[x].quantity ELSE 0
      /\ DebtPromised(ntable[x], p, t) = IF x \in nrows THEN ntable[x].quantity ELSE 0
  BY <1>1 DEF DebtRows, Live, DebtPromised
<1> HIDE DEF rows, nrows
<1>3. /\ Total(table, rows) \in Int
      /\ Total(ntable, nrows) = Total(table, rows)
           - (IF x \in rows THEN table[x].quantity ELSE 0)
           + (IF x \in nrows THEN ntable[x].quantity ELSE 0)
  BY <1>2, TotalUpdate
<1> QED
  BY <1>2, <1>3 DEF rows, nrows

(* Time changes none of them. *)
LEMMA AgedTotals ==
  ASSUME EosConstants, IsFiniteSet(XHashes), Inv, Tick, NEW p, NEW t
  PROVE  /\ Total(transfers', InlockRows(transfers', t))
              = Total(transfers, InlockRows(transfers, t))
         /\ Total(transfers', OutlockRows(transfers', p, t))
              = Total(transfers, OutlockRows(transfers, p, t))
         /\ Total(debts', DebtRows(debts', p, t)) = Total(debts, DebtRows(debts, p, t))
<1>1. ASSUME NEW r \in TransferRow
      PROVE  /\ Older(r) # NoRow
             /\ Older(r).status = r.status /\ Older(r).pid = r.pid
             /\ Older(r).token = r.token /\ Older(r).quantity = r.quantity
  <2>1. Older(r) \in TransferRow
    BY DEF Older, TransferRow, Expired, EosConstants
  <2> QED
    BY <2>1 DEF Older, TransferRow, EosConstants
<1>2. ASSUME NEW r \in DebtRow
      PROVE  /\ Older(r) # NoRow
             /\ Older(r).pid = r.pid
             /\ Older(r).token = r.token /\ Older(r).quantity = r.quantity
  <2>1. Older(r) \in DebtRow
    BY DEF Older, DebtRow, Expired, EosConstants
  <2> QED
    BY <2>1 DEF Older, DebtRow, EosConstants
<1>3. \A x \in XHashes :
        /\ transfers'[x] # NoRow <=> transfers[x] # NoRow
        /\ transfers[x] # NoRow =>
             /\ transfers'[x].status = transfers[x].status
             /\ transfers'[x].pid = transfers[x].pid
             /\ transfers'[x].token = transfers[x].token
             /\ transfers'[x].quantity = transfers[x].quantity
             /\ transfers[x].quantity \in Int
  BY <1>1, LiveRows DEF Tick, Aged, Inv, TransferRow
<1>4. \A x \in XHashes :
        /\ debts'[x] # NoRow <=> debts[x] # NoRow
        /\ debts[x] # NoRow =>
             /\ debts'[x].pid = debts[x].pid
             /\ debts'[x].token = debts[x].token
             /\ debts'[x].quantity = debts[x].quantity
             /\ debts[x].quantity \in Int
  BY <1>2, LiveRows DEF Tick, Aged, Inv, DebtRow
<1>5. Total(transfers', InlockRows(transfers', t)) = Total(transfers, InlockRows(transfers, t))
  <2> DEFINE rows == InlockRows(transfers, t)
             nrows == InlockRows(transfers', t)
  <2>1. /\ rows \in SUBSET XHashes /\ nrows \in SUBSET XHashes
        /\ \A y \in rows : transfers[y].quantity \in Int
        /\ \A y \in XHashes : y \in nrows <=> y \in rows
        /\ \A y \in rows : transfers'[y].quantity = transfers[y].quantity
    BY <1>3 DEF InlockRows, Live
  <2> HIDE DEF rows, nrows
  <2>2. Total(transfers', nrows) = Total(transfers, rows)
    BY <2>1, TotalSame
  <2> QED
    BY <2>2 DEF rows, nrows
<1>6. Total(transfers', OutlockRows(transfers', p, t))
        = Total(transfers, OutlockRows(transfers, p, t))
  <2> DEFINE rows == OutlockRows(transfers, p, t)
             nrows == OutlockRows(transfers', p, t)
  <2>1. /\ rows \in SUBSET XHashes /\ nrows \in SUBSET XHashes
        /\ \A y \in rows : transfers[y].quantity \in Int
        /\ \A y \in XHashes : y \in nrows <=> y \in rows
        /\ \A y \in rows : transfers'[y].quantity = transfers[y].quantity
    BY <1>3 DEF OutlockRows, Live
  <2> HIDE DEF rows, nrows
  <2>2. Total(transfers', nrows) = Total(transfers, rows)
    BY <2>1, TotalSame
  <2> QED
    BY <2>2 DEF rows, nrows
<1>7. Total(debts', DebtRows(debts', p, t)) = Total(debts, DebtRows(debts, p, t))
  <2> DEFINE rows == DebtRows(debts, p, t)
             nrows == DebtRows(debts', p, t)
  <2>1. /\ rows \in SUBSET XHashes /\ nrows \in SUBSET XHashes
        /\ \A y \in rows : debts[y].quantity \in Int
        /\ \A y \in XHashes : y \in nrows <=> y \in rows
        /\ \A y \in rows : debts'[y].quantity = debts[y].quantity
    BY <1>4 DEF DebtRows, Live
  <2> HIDE DEF rows, nrows
  <2>2. Total(debts', nrows) = Total(debts, rows)
    BY <2>1, TotalSame
  <2> QED
    BY <2>2 DEF rows, nrows
<1> QED
  BY <1>5, <1>6, <1>7

LEMMA HeldAfterAdd ==
  ASSUME EosConstants, NEW book \in Book(Int), NEW pid \in Pids, NEW token \in Tokens,
         NEW quantity \in Int, NEW t \in Tokens
  PROVE  Held(AddTo(book, pid, token, quantity), t)
           = Held(book, t) + IF t = token THEN quantity ELSE 0
<1> DEFINE nbook == AddTo(book, pid, token, quantity)
<1>1. nbook \in Book(Int)
  <2>1. Balance(book, pid, token) \in Int
    BY DEF Balance, Book
  <2>2. Balance(book, pid, token) + quantity \in Int
    BY <2>1
  <2> QED
    BY <2>2, AddToType
<1>2. \A p \in Pids : /\ Balance(book, p, t) \in Int
                      /\ Balance(nbook, p, t)
                           = Balance(book, p, t) + IF p = pid /\ t = token THEN quantity ELSE 0
  BY BalanceAfterAdd
<1> HIDE DEF nbook
<1>3. \A p \in Pids \ {pid} : Balance(nbook, p, t) = Balance(book, p, t)
  BY <1>2
<1>4. /\ Held(book, t) \in Int
      /\ Held(nbook, t) = Held(book, t) - Balance(book, pid, t) + Balance(nbook, pid, t)
  BY <1>1, <1>3, HeldUpdate
<1> QED
  BY <1>2, <1>4 DEF nbook

LEMMA HeldAfterSub ==
  ASSUME EosConstants, NEW book \in Book(Int), NEW pid \in Pids, NEW token \in Tokens,
         NEW quantity \in Int, Enough(book, pid, token, quantity), NEW t \in Tokens
  PROVE  Held(SubFrom(book, pid, token, quantity), t)
           = Held(book, t) - IF t = token THEN quantity ELSE 0
<1> DEFINE nbook == SubFrom(book, pid, token, quantity)
<1>1. nbook \in Book(Int)
  <2>1. book[pid][token] \in Int
    BY DEF Enough, Book
  <2>2. book[pid][token] - quantity \in Int
    BY <2>1
  <2> QED
    BY <2>2, SubFromType
<1>2. \A p \in Pids : /\ Balance(book, p, t) \in Int
                      /\ Balance(nbook, p, t)
                           = Balance(book, p, t) - IF p = pid /\ t = token THEN quantity ELSE 0
  BY BalanceAfterSub
<1> HIDE DEF nbook
<1>3. \A p \in Pids \ {pid} : Balance(nbook, p, t) = Balance(book, p, t)
  BY <1>2
<1>4. /\ Held(book, t) \in Int
      /\ Held(nbook, t) = Held(book, t) - Balance(book, pid, t) + Balance(nbook, pid, t)
  BY <1>1, <1>3, HeldUpdate
<1> QED
  BY <1>2, <1>4 DEF nbook

-----------------------------------------------------------------------------
(* What the contract owes of a token: how the surplus changes. *)

LEMMA SurplusParts ==
  ASSUME NEW t
  PROVE  /\ Surplus(t) = vault[t] - (Total(transfers, InlockRows(transfers, t))
                                       + Held(assets, t) + Held(fees, t))
         /\ Surplus(t)' = vault'[t] - (Total(transfers', InlockRows(transfers', t))
                                         + Held(assets', t) + Held(fees', t))
<1>1. Surplus(t) = vault[t] - Owed(t) /\ Surplus(t)' = vault'[t] - Owed(t)'
  BY Zenon DEF Surplus
<1> QED
  BY <1>1, OwedParts

LEMMA BooksOfNumbers ==
  /\ \A book \in Book(-MaxAmount..MaxAmount) : book \in Book(Int)
  /\ \A book \in Book(Nat) : book \in Book(Int)
BY DEF Book

LEMMA HeldAreNumbers ==
  ASSUME EosConstants, Inv, Inv', NEW t \in Tokens
  PROVE  /\ assets \in Book(Int) /\ assets' \in Book(Int)
         /\ fees \in Book(Int) /\ fees' \in Book(Int)
         /\ Held(assets, t) \in Int /\ Held(assets', t) \in Int
         /\ Held(fees, t) \in Int /\ Held(fees', t) \in Int
         /\ vault[t] \in Nat /\ vault'[t] \in Nat
<1>1. /\ assets \in Book(-MaxAmount..MaxAmount) /\ assets' \in Book(-MaxAmount..MaxAmount)
      /\ fees \in Book(Nat) /\ fees' \in Book(Nat)
      /\ vault \in [Tokens -> Nat] /\ vault' \in [Tokens -> Nat]
  BY DEF Inv, TypeOK
<1>2. /\ assets \in Book(Int) /\ assets' \in Book(Int)
      /\ fees \in Book(Int) /\ fees' \in Book(Int)
  BY <1>1, BooksOfNumbers
<1> QED
  BY <1>1, <1>2, HeldIsSum

(* The surplus does not fall when the vault changes by no less than what   *)
(* is owed.                                                                *)
LEMMA SolventRowStep ==
  ASSUME EosConstants, IsFiniteSet(XHashes), Inv, Inv',
         NEW x \in XHashes, \A y \in XHashes \ {x} : transfers'[y] = transfers[y],
         \A t \in Tokens :
            vault'[t] >= vault[t] + (InOwed(transfers'[x], t) - InOwed(transfers[x], t))
                           + (Held(assets', t) - Held(assets, t))
                           + (Held(fees', t) - Held(fees, t))
  PROVE  \A t \in Tokens : Surplus(t)' >= Surplus(t)
<1> SUFFICES ASSUME NEW t \in Tokens PROVE Surplus(t)' >= Surplus(t)
  OBVIOUS
<1> DEFINE L == Total(transfers, InlockRows(transfers, t))
           nL == Total(transfers', InlockRows(transfers', t))
           i == InOwed(transfers[x], t)
           ni == InOwed(transfers'[x], t)
<1>1. transfers \in TransferTable /\ transfers' \in TransferTable
  BY DEF Inv, TypeOK, TransferTable
<1>2. L \in Int /\ nL = L - i + ni
  BY <1>1, InlockTotals
<1>3. i \in Nat /\ ni \in Nat
  BY <1>1 DEF InOwed, TransferTable, TransferRow
<1>4. /\ Held(assets, t) \in Int /\ Held(assets', t) \in Int
      /\ Held(fees, t) \in Int /\ Held(fees', t) \in Int
      /\ vault[t] \in Int /\ vault'[t] \in Int
  BY HeldAreNumbers
<1>5. /\ Surplus(t) = vault[t] - (L + Held(assets, t) + Held(fees, t))
      /\ Surplus(t)' = vault'[t] - (nL + Held(assets', t) + Held(fees', t))
  BY SurplusParts
<1>7. vault'[t] >= vault[t] + (ni - i) + (Held(assets', t) - Held(assets, t))
                     + (Held(fees', t) - Held(fees, t))
  OBVIOUS
<1> HIDE DEF L, nL, i, ni
<1> QED
  BY <1>2, <1>3, <1>4, <1>5, <1>7

LEMMA SolventBookStep ==
  ASSUME EosConstants, IsFiniteSet(XHashes), Inv, Inv',
         NEW t \in Tokens, NEW d \in Int,
         Total(transfers', InlockRows(transfers', t)) = Total(transfers, InlockRows(transfers, t)),
         vault'[t] + d >= vault[t] + (Held(assets', t) - Held(assets, t))
                            + (Held(fees', t) - Held(fees, t))
  PROVE  /\ Surplus(t) \in Int /\ Surplus(t)' \in Int
         /\ Surplus(t)' + d >= Surplus(t)
<1> DEFINE L == Total(transfers, InlockRows(transfers, t))
<1>1. transfers \in [XHashes -> TransferRow \cup {NoRow}]
  BY DEF Inv, TypeOK
<1>2. L \in Nat
  <2>1. /\ InlockRows(transfers, t) \in SUBSET XHashes
        /\ \A x \in InlockRows(transfers, t) : transfers[x].quantity \in Nat
    BY <1>1 DEF InlockRows, Live, TransferRow
  <2> QED
    BY <2>1, TotalMonotone
<1>4. /\ Held(assets, t) \in Int /\ Held(assets', t) \in Int
      /\ Held(fees, t) \in Int /\ Held(fees', t) \in Int
      /\ vault[t] \in Int /\ vault'[t] \in Int
  BY HeldAreNumbers
<1>5. /\ Surplus(t) = vault[t] - (L + Held(assets, t) + Held(fees, t))
      /\ Surplus(t)' = vault'[t] - (L + Held(assets', t) + Held(fees', t))
  BY SurplusParts
<1> HIDE DEF L
<1> QED
  BY <1>2, <1>4, <1>5

LEMMA InlockSolvent ==
  ASSUME EosConstants, IsFiniteSet(XHashes), Inv, Inv',
         NEW u \in Users, NEW token \in Tokens, NEW q \in Amounts, NEW x \in XHashes,
         NEW pk \in PKs, Inlock(u, token, q, x, pk)
  PROVE  \A t \in Tokens : Surplus(t)' >= Surplus(t)
<1>1. transfers \in [XHashes -> TransferRow \cup {NoRow}] /\ vault \in [Tokens -> Nat]
  BY DEF Inv, TypeOK
<1>2. /\ transfers[x] = NoRow
      /\ vault' = [vault EXCEPT ![token] = @ + q]
      /\ assets' = assets /\ fees' = fees
      /\ \A y \in XHashes \ {x} : transfers'[y] = transfers[y]
      /\ transfers'[x].token = token /\ transfers'[x].quantity = q
  BY <1>1 DEF Inlock
<1>3. q \in Nat
  BY DEF EosConstants
<1>4. ASSUME NEW t \in Tokens
      PROVE  vault'[t] >= vault[t] + (InOwed(transfers'[x], t) - InOwed(transfers[x], t))
                           + (Held(assets', t) - Held(assets, t))
                           + (Held(fees', t) - Held(fees, t))
  <2>1. InOwed(transfers[x], t) = 0
    BY <1>2 DEF InOwed
  <2>2. InOwed(transfers'[x], t) = 0 \/ (token = t /\ InOwed(transfers'[x], t) = q)
    BY <1>2 DEF InOwed
  <2>3. Held(assets, t) \in Int /\ Held(fees, t) \in Int
    BY HeldAreNumbers
  <2>4. vault[t] \in Nat /\ vault'[t] = IF t = token THEN vault[t] + q ELSE vault[t]
    BY <1>1, <1>2
  <2>5. Held(assets', t) = Held(assets, t) /\ Held(fees', t) = Held(fees, t)
    BY <1>2
  <2> QED
    BY <1>3, <2>1, <2>2, <2>3, <2>4, <2>5
<1> QED
  BY <1>2, <1>4, SolventRowStep

LEMMA InredeemSolvent ==
  ASSUME EosConstants, IsFiniteSet(XHashes), Inv, Inv',
         NEW x \in XHashes, Inredeem(x)
  PROVE  \A t \in Tokens : Surplus(t)' >= Surplus(t)
<1> DEFINE row == transfers[x]
<1>1. transfers \in [XHashes -> TransferRow \cup {NoRow}] /\ vault \in [Tokens -> Nat]
      /\ assets \in Book(Int)
  BY Books DEF Inv, TypeOK
<1>2. row \in TransferRow
  BY LiveRows DEF Inv, Inredeem
<1>3. row.pid \in Pids /\ row.token \in Tokens /\ row.quantity \in Nat
  BY <1>2 DEF TransferRow
<1>4. /\ row # NoRow /\ row.status = "inlock"
      /\ transfers'[x] = NoRow
      /\ \A y \in XHashes \ {x} : transfers'[y] = transfers[y]
      /\ assets' = AddTo(assets, row.pid, row.token, row.quantity)
      /\ fees' = fees /\ vault' = vault
  BY <1>1 DEF Inredeem
<1> HIDE DEF row
<1>5. ASSUME NEW t \in Tokens
      PROVE  vault'[t] >= vault[t] + (InOwed(transfers'[x], t) - InOwed(row, t))
                           + (Held(assets', t) - Held(assets, t))
                           + (Held(fees', t) - Held(fees, t))
  <2>1. InOwed(transfers'[x], t) = 0
    BY <1>4 DEF InOwed
  <2>2. InOwed(row, t) = IF t = row.token THEN row.quantity ELSE 0
    BY <1>4 DEF InOwed
  <2>3. Held(assets, t) \in Int /\ Held(fees, t) \in Int
    BY HeldAreNumbers
  <2>4. Held(assets', t) = Held(assets, t) + IF t = row.token THEN row.quantity ELSE 0
    BY <1>1, <1>3, <1>4, HeldAfterAdd
  <2>5. vault[t] \in Nat /\ vault'[t] = vault[t] /\ Held(fees', t) = Held(fees, t)
    BY <1>1, <1>4
  <2> QED
    BY <1>3, <2>1, <2>2, <2>3, <2>4, <2>5
<1> QED
  BY <1>4, <1>5, SolventRowStep DEF row

LEMMA PayBackSolvent ==
  ASSUME EosConstants, IsFiniteSet(XHashes), Inv, Inv',
         NEW x \in XHashes, transfers[x] # NoRow, transfers[x].status = "inlock",
         NEW row, row = transfers[x],
         NEW fee, fee = RevokeFee(row.quantity),
         ProratedFee(row.quantity) <= row.quantity,
         CanPay(row.token, row.quantity - fee),
         vault' = [vault EXCEPT ![row.token] = Left(row.token, row.quantity - fee)],
         fees' = IF fee > 0 THEN AddTo(fees, row.pid, row.token, fee) ELSE fees,
         transfers' = [transfers EXCEPT ![x] = NoRow],
         UNCHANGED assets
  PROVE  \A t \in Tokens : Surplus(t)' >= Surplus(t)
<1>1. transfers \in [XHashes -> TransferRow \cup {NoRow}] /\ vault \in [Tokens -> Nat]
      /\ fees \in Book(Int)
  BY Books DEF Inv, TypeOK
<1>2. row \in TransferRow
  BY LiveRows DEF Inv
<1>3. row.pid \in Pids /\ row.token \in Tokens /\ row.quantity \in Nat
  BY <1>2 DEF TransferRow
<1>4. /\ row # NoRow /\ row.status = "inlock"
      /\ transfers'[x] = NoRow
      /\ \A y \in XHashes \ {x} : transfers'[y] = transfers[y]
      /\ ProratedFee(row.quantity) <= row.quantity
      /\ CanPay(row.token, row.quantity - fee)
      /\ vault' = [vault EXCEPT ![row.token] = Left(row.token, row.quantity - fee)]
      /\ fees' = IF fee > 0 THEN AddTo(fees, row.pid, row.token, fee) ELSE fees
      /\ assets' = assets
  BY <1>1
<1>5. fee \in 0..row.quantity
  BY <1>3, <1>4, RevokeFeeIsPart DEF Inv, TypeOK
<1>6. ASSUME NEW t \in Tokens
      PROVE  vault'[t] >= vault[t] + (InOwed(transfers'[x], t) - InOwed(row, t))
                           + (Held(assets', t) - Held(assets, t))
                           + (Held(fees', t) - Held(fees, t))
  <2>1. InOwed(transfers'[x], t) = 0
    BY <1>4 DEF InOwed
  <2>2. InOwed(row, t) = IF t = row.token THEN row.quantity ELSE 0
    BY <1>4 DEF InOwed
  <2>3. Held(assets, t) \in Int /\ Held(fees, t) \in Int
    BY HeldAreNumbers
  <2>4. Held(fees', t) = Held(fees, t) + IF t = row.token THEN fee ELSE 0
    <3>1. CASE fee > 0
      BY <1>1, <1>3, <1>4, <1>5, <3>1, HeldAfterAdd
    <3>2. CASE ~(fee > 0)
      <4>1. fees' = fees /\ fee = 0
        BY <1>3, <1>4, <1>5, <3>2
      <4> QED
        BY <2>3, <4>1
    <3> QED
      BY <3>1, <3>2
  <2>5. vault[t] \in Nat /\ Held(assets', t) = Held(assets, t)
    BY <1>1, <1>4
  <2>6. vault'[t] \in Int /\ vault'[t] >= IF t = row.token THEN vault[t] - (row.quantity - fee)
                                                             ELSE vault[t]
    <3>1. row.quantity - fee \in Nat
      BY <1>3, <1>5
    <3>2. /\ Left(row.token, row.quantity - fee) \in Nat
          /\ Left(row.token, row.quantity - fee) >= vault[row.token] - (row.quantity - fee)
      BY <1>1, <1>3, <1>4, <3>1, LeftOver
    <3>3. vault'[t] = IF t = row.token THEN Left(row.token, row.quantity - fee) ELSE vault[t]
      BY <1>1, <1>4
    <3> QED
      BY <2>5, <3>2, <3>3
  <2> DEFINE ha == Held(assets, t)
             hf == Held(fees, t)
             v == vault[t]
             nv == vault'[t]
             q == row.quantity
             o == InOwed(row, t)
             no == InOwed(transfers'[x], t)
             nha == Held(assets', t)
             nhf == Held(fees', t)
  <2>7. /\ q \in Nat /\ fee \in 0..q /\ ha \in Int /\ hf \in Int /\ v \in Nat /\ nv \in Int
        /\ no = 0 /\ nha = ha
    BY <1>3, <1>5, <2>1, <2>3, <2>5, <2>6
  <2>8. CASE t = row.token
    <3>1. o = q /\ nhf = hf + fee /\ nv >= v - (q - fee)
      BY <2>2, <2>4, <2>6, <2>8
    <3> HIDE DEF ha, hf, v, nv, q, o, no, nha, nhf
    <3>2. nv >= v + (no - o) + (nha - ha) + (nhf - hf)
      BY <2>7, <3>1
    <3> QED
      BY <3>2 DEF ha, hf, v, nv, q, o, no, nha, nhf
  <2>9. CASE t # row.token
    <3>1. o = 0 /\ nhf = hf /\ nv >= v
      BY <2>2, <2>3, <2>4, <2>6, <2>9
    <3> HIDE DEF ha, hf, v, nv, q, o, no, nha, nhf
    <3>2. nv >= v + (no - o) + (nha - ha) + (nhf - hf)
      BY <2>7, <3>1
    <3> QED
      BY <3>2 DEF ha, hf, v, nv, q, o, no, nha, nhf
  <2> QED
    BY <2>8, <2>9
<1> QED
  BY <1>4, <1>6, SolventRowStep
LEMMA InrevokeSolvent ==
  ASSUME EosConstants, IsFiniteSet(XHashes), Inv, Inv',
         NEW x \in XHashes, Inrevoke(x)
  PROVE  \A t \in Tokens : Surplus(t)' >= Surplus(t)
BY PayBackSolvent DEF Inrevoke

LEMMA OutredeemSolvent ==
  ASSUME EosConstants, IsFiniteSet(XHashes), Inv, Inv',
         NEW u \in Users, NEW x \in XHashes, Outredeem(u, x)
  PROVE  \A t \in Tokens : Surplus(t)' >= Surplus(t)
<1> DEFINE row == transfers[x]
<1>1. transfers \in [XHashes -> TransferRow \cup {NoRow}] /\ vault \in [Tokens -> Nat]
      /\ assets \in Book(Int)
  BY Books DEF Inv, TypeOK
<1>2. row \in TransferRow
  BY LiveRows DEF Inv, Outredeem
<1>3. row.pid \in Pids /\ row.token \in Tokens /\ row.quantity \in Nat
  BY <1>2 DEF TransferRow
<1>4. /\ row # NoRow /\ row.status = "outlock"
      /\ transfers'[x] = NoRow
      /\ \A y \in XHashes \ {x} : transfers'[y] = transfers[y]
      /\ Enough(assets, row.pid, row.token, row.quantity)
      /\ assets' = SubFrom(assets, row.pid, row.token, row.quantity)
      /\ CanPay(row.token, row.quantity)
      /\ vault' = [vault EXCEPT ![row.token] = Left(row.token, row.quantity)]
      /\ fees' = fees
  BY <1>1 DEF Outredeem
<1> HIDE DEF row
<1>5. ASSUME NEW t \in Tokens
      PROVE  vault'[t] >= vault[t] + (InOwed(transfers'[x], t) - InOwed(row, t))
                           + (Held(assets', t) - Held(assets, t))
                           + (Held(fees', t) - Held(fees, t))
  <2>1. InOwed(transfers'[x], t) = 0 /\ InOwed(row, t) = 0
    BY <1>4 DEF InOwed
  <2>3. Held(assets, t) \in Int /\ Held(fees, t) \in Int
    BY HeldAreNumbers
  <2>4. Held(assets', t) = Held(assets, t) - IF t = row.token THEN row.quantity ELSE 0
    BY <1>1, <1>3, <1>4, HeldAfterSub
  <2>5. vault[t] \in Nat /\ Held(fees', t) = Held(fees, t)
    BY <1>1, <1>4
  <2>6. vault'[t] \in Int /\ vault'[t] >= IF t = row.token THEN vault[t] - row.quantity
                                                             ELSE vault[t]
    <3>1. /\ Left(row.token, row.quantity) \in Nat
          /\ Left(row.token, row.quantity) >= vault[row.token] - row.quantity
      BY <1>1, <1>3, <1>4, LeftOver
    <3>2. vault'[t] = IF t = row.token THEN Left(row.token, row.quantity) ELSE vault[t]
      BY <1>1, <1>4
    <3> QED
      BY <2>5, <3>1, <3>2
  <2> QED
    BY <1>3, <2>1, <2>3, <2>4, <2>5, <2>6
<1> QED
  BY <1>4, <1>5, SolventRowStep DEF row

(* A promise that is made or lapses moves no token. *)
LEMMA PromiseSolvent ==
  ASSUME EosConstants, IsFiniteSet(XHashes), Inv, Inv',
         NEW x \in XHashes, \A y \in XHashes \ {x} : transfers'[y] = transfers[y],
         transfers[x] = NoRow \/ transfers[x].status = "outlock",
         transfers'[x] = NoRow \/ transfers'[x].status = "outlock",
         UNCHANGED <<assets, fees, vault>>
  PROVE  \A t \in Tokens : Surplus(t)' >= Surplus(t)
<1>1. ASSUME NEW t \in Tokens
      PROVE  vault'[t] >= vault[t] + (InOwed(transfers'[x], t) - InOwed(transfers[x], t))
                           + (Held(assets', t) - Held(assets, t))
                           + (Held(fees', t) - Held(fees, t))
  <2>1. InOwed(transfers'[x], t) = 0 /\ InOwed(transfers[x], t) = 0
    BY DEF InOwed
  <2>2. Held(assets, t) \in Int /\ Held(fees, t) \in Int /\ vault[t] \in Nat
    BY HeldAreNumbers
  <2>3. Held(assets', t) = Held(assets, t) /\ Held(fees', t) = Held(fees, t) /\ vault'[t] = vault[t]
    OBVIOUS
  <2> QED
    BY <2>1, <2>2, <2>3
<1> QED
  BY <1>1, SolventRowStep

(* A debt redeemed moves assets from one id to another. *)
LEMMA RedeemdebtSolvent ==
  ASSUME EosConstants, IsFiniteSet(XHashes), Inv, Inv',
         NEW x \in XHashes, debts[x] # NoRow,
         Enough(assets, debts[x].pid, debts[x].token, debts[x].quantity),
         HandOver(debts[x]), UNCHANGED <<transfers, fees, vault>>
  PROVE  \A t \in Tokens : Surplus(t)' >= Surplus(t)
<1> DEFINE row == debts[x]
           rest == SubFrom(assets, row.pid, row.token, row.quantity)
<1>1. assets \in Book(Int) /\ vault \in [Tokens -> Nat]
  BY Books DEF Inv, TypeOK
<1>2. row \in DebtRow
  BY LiveRows DEF Inv
<1>3. /\ row.pid \in Pids /\ row.npid \in Pids
      /\ row.token \in Tokens /\ row.quantity \in Int
  BY <1>2 DEF DebtRow
<1>4. /\ Enough(assets, row.pid, row.token, row.quantity)
      /\ HandOver(row)
      /\ UNCHANGED <<transfers, fees, vault>>
  OBVIOUS
<1> HIDE DEF row
<1>5. rest \in Book(Int) /\ assets' = AddTo(rest, row.npid, row.token, row.quantity)
  BY <1>2, <1>4, HandOverType, BooksOfNumbers DEF Inv
<1> SUFFICES ASSUME NEW t \in Tokens PROVE Surplus(t)' >= Surplus(t)
  OBVIOUS
<1>6. Held(rest, t) = Held(assets, t) - IF t = row.token THEN row.quantity ELSE 0
  BY <1>1, <1>3, <1>4, HeldAfterSub
<1> HIDE DEF rest
<1>7. Held(assets', t) = Held(rest, t) + IF t = row.token THEN row.quantity ELSE 0
  BY <1>3, <1>5, HeldAfterAdd
<1>8. Held(assets, t) \in Int /\ Held(fees, t) \in Int /\ vault[t] \in Nat
  BY HeldAreNumbers
<1>9. vault'[t] + 0 >= vault[t] + (Held(assets', t) - Held(assets, t))
                         + (Held(fees', t) - Held(fees, t))
  <2>1. vault'[t] = vault[t] /\ Held(fees', t) = Held(fees, t)
    BY <1>4
  <2> QED
    BY <1>3, <1>6, <1>7, <1>8, <2>1
<1>10. Surplus(t) \in Int /\ Surplus(t)' \in Int /\ Surplus(t)' + 0 >= Surplus(t)
  BY <1>4, <1>9, SolventBookStep
<1> QED
  BY <1>10

(* Withdrawals: what they take from the fees of a token, and what they     *)
(* pay through it.                                                         *)
Taken(pid, payer, t) == IF t \in DOMAIN payer THEN fees[pid][t] ELSE 0

LEMMA IssueFeesSurplus ==
  ASSUME EosConstants, IsFiniteSet(XHashes), Inv, Inv',
         NEW pid \in Pids, NEW payer, DOMAIN payer \subseteq FeeRows(pid),
         IssueFees(pid, payer), UNCHANGED <<transfers, assets>>, NEW t \in Tokens
  PROVE  /\ Paid(pid, payer, t) \in Nat /\ Taken(pid, payer, t) \in Nat
         /\ Surplus(t) \in Int /\ Surplus(t)' \in Int
         /\ Surplus(t)' + Paid(pid, payer, t) >= Surplus(t) + Taken(pid, payer, t)
<1> DEFINE paid == Paid(pid, payer, t)
           taken == Taken(pid, payer, t)
<1>1. /\ fees \in Book(Nat) /\ fees \in Book(Int) /\ fees' \in Book(Int)
      /\ Held(fees, t) \in Int /\ Held(fees', t) \in Int
      /\ Held(assets, t) \in Int /\ Held(assets', t) = Held(assets, t)
      /\ vault[t] \in Nat /\ vault'[t] \in Nat
  BY HeldAreNumbers DEF Inv, TypeOK
<1>2. paid \in Nat
  BY PaidOfRows DEF Inv
<1>3. /\ CanPay(t, paid) /\ vault'[t] = Left(t, paid)
      /\ \A p \in Pids : fees'[p][t] = IF p = pid /\ t \in DOMAIN payer THEN NoRow
                                       ELSE fees[p][t]
  BY <1>1 DEF IssueFees, Book
<1>4. vault'[t] >= vault[t] - paid
  BY <1>1, <1>2, <1>3, LeftOver
<1>5. taken \in Nat /\ Balance(fees, pid, t) \in Nat
      /\ Balance(fees', pid, t) = Balance(fees, pid, t) - taken
  <2>1. fees[pid][t] \in Nat \cup {NoRow}
    BY <1>1 DEF Book
  <2>2. CASE t \in DOMAIN payer
    <3>1. fees[pid][t] \in Nat /\ fees[pid][t] # NoRow /\ fees'[pid][t] = NoRow
      BY <1>3, <2>1, <2>2 DEF FeeRows
    <3>2. taken = fees[pid][t] /\ Balance(fees, pid, t) = fees[pid][t]
          /\ Balance(fees', pid, t) = 0
      BY <2>2, <3>1 DEF Taken, Balance
    <3> QED
      BY <3>1, <3>2
  <2>3. CASE t \notin DOMAIN payer
    <3>1. taken = 0 /\ Balance(fees', pid, t) = Balance(fees, pid, t)
      BY <1>3, <2>3 DEF Taken, Balance
    <3>2. Balance(fees, pid, t) \in Nat
      BY <2>1 DEF Balance
    <3> QED
      BY <3>1, <3>2
  <2> QED
    BY <2>2, <2>3
<1>6. \A p \in Pids \ {pid} : Balance(fees', p, t) = Balance(fees, p, t)
  BY <1>3 DEF Balance
<1>7. Held(fees', t) = Held(fees, t) - Balance(fees, pid, t) + Balance(fees', pid, t)
  BY <1>1, <1>6, HeldUpdate
<1> DEFINE d == paid - taken
<1> HIDE DEF paid, taken
<1>8. d \in Int
  BY <1>2, <1>5
<1>9. vault'[t] + d >= vault[t] + (Held(assets', t) - Held(assets, t))
                         + (Held(fees', t) - Held(fees, t))
  BY <1>1, <1>2, <1>4, <1>5, <1>7
<1>10. Total(transfers', InlockRows(transfers', t)) = Total(transfers, InlockRows(transfers, t))
  OBVIOUS
<1> HIDE DEF d
<1>11. Surplus(t) \in Int /\ Surplus(t)' \in Int /\ Surplus(t)' + d >= Surplus(t)
  BY <1>8, <1>9, <1>10, SolventBookStep
<1>12. Surplus(t)' + paid >= Surplus(t) + taken
  BY <1>2, <1>5, <1>11 DEF d
<1> QED
  BY <1>2, <1>5, <1>11, <1>12 DEF paid, taken

(* A token through which no other row is paid pays no more than its own    *)
(* row takes.                                                              *)
LEMMA PaysItsOwn ==
  ASSUME EosConstants, Inv, NEW pid \in Pids, NEW payer, DOMAIN payer \subseteq FeeRows(pid),
         NEW t \in Tokens, \A r \in DOMAIN payer : payer[r] = t => r = t
  PROVE  Paid(pid, payer, t) <= Taken(pid, payer, t)
<1> DEFINE rows == {r \in DOMAIN payer : payer[r] = t}
           f == [r \in rows |-> fees[pid][r]]
<1>1. Counts(f, rows) /\ Paid(pid, payer, t) = SumOf(f, rows)
  BY PaidOfRows DEF Inv
<1>2. Taken(pid, payer, t) \in Nat
  BY DEF Taken, FeeRows, Inv, TypeOK, Book
<1>3. CASE rows = {}
  <2> HIDE DEF f, rows
  <2>1. SumOf(f, rows) = SumOf(f, {})
    BY <1>3, Zenon
  <2> QED
    BY <1>1, <1>2, <2>1, SumEmpty
<1>4. CASE rows # {}
  <2>1. rows = {t} /\ t \in DOMAIN payer /\ f[t] = fees[pid][t]
    BY <1>4
  <2>2. Taken(pid, payer, t) = f[t]
    BY <2>1 DEF Taken
  <2> HIDE DEF f, rows
  <2>3. f[t] \in Int
    BY <1>2, <2>2
  <2>4. SumOf(f, rows) = SumOf(f, {t})
    BY <2>1, Zenon
  <2>5. SumOf(f, {t}) = f[t]
    BY <2>3, SumSingleton
  <2> QED
    BY <1>1, <2>2, <2>3, <2>4, <2>5
<1> QED
  BY <1>3, <1>4

LEMMA IssueFeesSolvent ==
  ASSUME EosConstants, IsFiniteSet(XHashes), Inv, Inv',
         NEW pid \in Pids, NEW payer, DOMAIN payer \subseteq FeeRows(pid),
         IssueFees(pid, payer), UNCHANGED <<transfers, assets>>, NEW t \in Tokens,
         \A r \in DOMAIN payer : payer[r] = t => r = t
  PROVE  Surplus(t)' >= Surplus(t)
<1>1. /\ Paid(pid, payer, t) \in Nat /\ Taken(pid, payer, t) \in Nat
      /\ Surplus(t) \in Int /\ Surplus(t)' \in Int
      /\ Surplus(t)' + Paid(pid, payer, t) >= Surplus(t) + Taken(pid, payer, t)
  BY IssueFeesSurplus
<1>2. Paid(pid, payer, t) <= Taken(pid, payer, t)
  BY PaysItsOwn
<1> QED
  BY <1>1, <1>2

(* Nothing is owed that changes when the transfers, the assets and the     *)
(* fees stay.                                                              *)
LEMMA IdleSolvent ==
  ASSUME EosConstants, IsFiniteSet(XHashes), Inv, Inv',
         UNCHANGED <<transfers, assets, fees>>,
         \A t \in Tokens : vault'[t] >= vault[t]
  PROVE  \A t \in Tokens : Surplus(t)' >= Surplus(t)
<1> SUFFICES ASSUME NEW t \in Tokens PROVE Surplus(t)' >= Surplus(t)
  OBVIOUS
<1>1. /\ Total(transfers', InlockRows(transfers', t)) = Total(transfers, InlockRows(transfers, t))
      /\ Held(assets', t) = Held(assets, t) /\ Held(fees', t) = Held(fees, t)
  OBVIOUS
<1>2. Held(assets, t) \in Int /\ Held(fees, t) \in Int /\ vault[t] \in Nat /\ vault'[t] \in Nat
  BY HeldAreNumbers
<1>3. vault'[t] + 0 >= vault[t] + (Held(assets', t) - Held(assets, t))
                         + (Held(fees', t) - Held(fees, t))
  BY <1>1, <1>2
<1>4. Surplus(t) \in Int /\ Surplus(t)' \in Int /\ Surplus(t)' + 0 >= Surplus(t)
  BY <1>1, <1>3, SolventBookStep
<1> QED
  BY <1>4

LEMMA TickSolvent ==
  ASSUME EosConstants, IsFiniteSet(XHashes), Inv, Inv', Tick
  PROVE  \A t \in Tokens : Surplus(t)' >= Surplus(t)
<1> SUFFICES ASSUME NEW t \in Tokens PROVE Surplus(t)' >= Surplus(t)
  OBVIOUS
<1>1. Total(transfers', InlockRows(transfers', t)) = Total(transfers, InlockRows(transfers, t))
  BY AgedTotals
<1>2. /\ Held(assets', t) = Held(assets, t) /\ Held(fees', t) = Held(fees, t)
      /\ vault'[t] = vault[t]
  BY DEF Tick
<1>3. Held(assets, t) \in Int /\ Held(fees, t) \in Int /\ vault[t] \in Nat
  BY HeldAreNumbers
<1>4. vault'[t] + 0 >= vault[t] + (Held(assets', t) - Held(assets, t))
                         + (Held(fees', t) - Held(fees, t))
  BY <1>2, <1>3
<1>5. Surplus(t) \in Int /\ Surplus(t)' \in Int /\ Surplus(t)' + 0 >= Surplus(t)
  BY <1>1, <1>4, SolventBookStep
<1> QED
  BY <1>5

LEMMA WithdrawAllSolvent ==
  ASSUME EosConstants, IsFiniteSet(XHashes), Inv, Inv', NEW pk \in PKs, WithdrawAll(pk)
  PROVE  \A t \in Tokens : Surplus(t)' >= Surplus(t)
<1>1. PICK pid \in Pids : IssueFees(pid, [r \in FeeRows(pid) |-> r])
  BY DEF WithdrawAll
<1> DEFINE payer == [r \in FeeRows(pid) |-> r]
<1>2. DOMAIN payer \subseteq FeeRows(pid) /\ \A r \in DOMAIN payer : payer[r] = r
  OBVIOUS
<1>3. UNCHANGED <<transfers, assets>>
  BY DEF WithdrawAll
<1> HIDE DEF payer
<1>4. IssueFees(pid, payer)
  BY <1>1 DEF payer
<1> QED
  BY <1>2, <1>3, <1>4, IssueFeesSolvent

LEMMA WithdrawTokenSolvent ==
  ASSUME EosConstants, IsFiniteSet(XHashes), Inv, Inv',
         NEW pk \in PKs, NEW token \in Tokens, WithdrawToken(pk, token)
  PROVE  \A t \in Tokens : Surplus(t)' >= Surplus(t)
<1>1. PICK pid \in Pids : fees[pid][token] # NoRow /\ IssueFees(pid, [r \in {token} |-> r])
  BY DEF WithdrawToken
<1> DEFINE payer == [r \in {token} |-> r]
<1>2. DOMAIN payer \subseteq FeeRows(pid) /\ \A r \in DOMAIN payer : payer[r] = r
  BY <1>1 DEF FeeRows
<1>3. UNCHANGED <<transfers, assets>>
  BY DEF WithdrawToken
<1> HIDE DEF payer
<1>4. IssueFees(pid, payer)
  BY <1>1 DEF payer
<1> QED
  BY <1>2, <1>3, <1>4, IssueFeesSolvent

(* A withdrawal by account pays rows of other accounts through the account *)
(* it was given, but never in a token that is issued, as long as no        *)
(* storeman has fees of which one could be taken for another.              *)
LEMMA WithdrawAccountSolvent ==
  ASSUME EosConstants, IsFiniteSet(XHashes), Inv, Inv', FeesKeepApart,
         NEW pk \in PKs, NEW account, WithdrawAccount(pk, account), NEW t \in Issued
  PROVE  Surplus(t)' >= Surplus(t)
<1>1. PICK pid \in Pids :
        IssueFees(pid, [r \in RowsFrom(pid, account) |-> [account |-> account, symbol |-> r.symbol]])
  BY DEF WithdrawAccount
<1> DEFINE payer == [r \in RowsFrom(pid, account) |-> [account |-> account, symbol |-> r.symbol]]
<1>2. DOMAIN payer \subseteq FeeRows(pid) /\ t \in Tokens
  BY DEF RowsFrom, EosConstants
<1>3. UNCHANGED <<transfers, assets>>
  BY DEF WithdrawAccount
<1>4. ASSUME NEW r \in DOMAIN payer, payer[r] = t PROVE r = t
  <2>1. /\ r \in FeeRows(pid) /\ r \in Tokens /\ r.account >= account
        /\ t = [account |-> account, symbol |-> r.symbol]
    BY <1>4 DEF RowsFrom, FeeRows
  <2>2. PICK s \in FeeRows(pid) : s.account = account
    BY <1>4 DEF RowsFrom
  <2>3. /\ r.account \in Nat /\ account \in Nat
        /\ r = [account |-> r.account, symbol |-> r.symbol]
    BY <2>1, <2>2 DEF EosConstants, FeeRows
  <2>4. [r EXCEPT !.account = account] = t
    <3>1. [[account |-> r.account, symbol |-> r.symbol] EXCEPT !.account = account]
            = [account |-> account, symbol |-> r.symbol]
      OBVIOUS
    <3> QED
      BY <2>1, <2>3, <3>1, Zenon
  <2>5. ~(s.account < r.account)
    BY <2>1, <2>2, <2>4 DEF FeesKeepApart
  <2>6. r.account = account
    BY <2>1, <2>2, <2>3, <2>5
  <2> QED
    BY <2>1, <2>3, <2>6
<1> HIDE DEF payer
<1>5. IssueFees(pid, payer)
  BY <1>1 DEF payer
<1> QED
  BY <1>2, <1>3, <1>4, <1>5, IssueFeesSolvent

-----------------------------------------------------------------------------
(* The surplus of all the tokens of a symbol *)

TokensOf(s) == {t \in Tokens : t.symbol = s}
SurplusOf(S) == SumOf([t \in S |-> Surplus(t)], S)

LEMMA SurplusIsSum ==
  ASSUME NEW S, IsFiniteSet(S)
  PROVE  MapThenSumSet(Surplus, S) = SurplusOf(S)
<1> DEFINE f == [t \in S |-> Surplus(t)]
           body(it) == [s \in SUBSET S |->
                          IF s = {} THEN 0 ELSE Surplus(AnyOf(s)) + it[s \ {AnyOf(s)}]]
           sol == CHOOSE it : it = body(it)
<1>1. ASSUME NEW it PROVE it = body(it) <=> Recursion(f, S, it)
  <2>1. \A s \in SUBSET S : s # {} => f[AnyOf(s)] = Surplus(AnyOf(s))
    BY DEF AnyOf
  <2> HIDE DEF f
  <2> QED
    BY <2>1 DEF Recursion
<1>2. MapThenSumSet(Surplus, S) = sol[S]
  BY DEF MapThenSumSet, MapThenFoldSet, AnyOf
<1> HIDE DEF f, body
<1>3. \E it : it = body(it)
  BY <1>1, RecursionExists
<1>4. sol = body(sol)
  BY <1>3, Zenon
<1>5. Recursion(f, S, sol)
  BY <1>1, <1>4
<1> QED
  BY <1>2, <1>5, SolvedIsSum DEF f, SurplusOf

LEMMA SurplusIsInt ==
  ASSUME EosConstants, IsFiniteSet(XHashes), Inv, Inv', NEW t \in Tokens
  PROVE  Surplus(t) \in Int /\ Surplus(t)' \in Int
<1> DEFINE L == Total(transfers, InlockRows(transfers, t))
           nL == Total(transfers', InlockRows(transfers', t))
<1>1. /\ transfers \in [XHashes -> TransferRow \cup {NoRow}]
      /\ transfers' \in [XHashes -> TransferRow \cup {NoRow}]
  BY DEF Inv, TypeOK
<1>2. L \in Nat /\ nL \in Nat
  <2>1. /\ InlockRows(transfers, t) \in SUBSET XHashes
        /\ \A x \in InlockRows(transfers, t) : transfers[x].quantity \in Nat
        /\ InlockRows(transfers', t) \in SUBSET XHashes
        /\ \A x \in InlockRows(transfers', t) : transfers'[x].quantity \in Nat
    BY <1>1 DEF InlockRows, Live, TransferRow
  <2> QED
    BY <2>1, TotalMonotone
<1>3. /\ Held(assets, t) \in Int /\ Held(assets', t) \in Int
      /\ Held(fees, t) \in Int /\ Held(fees', t) \in Int
      /\ vault[t] \in Nat /\ vault'[t] \in Nat
  BY HeldAreNumbers
<1>4. /\ Surplus(t) = vault[t] - (L + Held(assets, t) + Held(fees, t))
      /\ Surplus(t)' = vault'[t] - (nL + Held(assets', t) + Held(fees', t))
  BY SurplusParts
<1> HIDE DEF L, nL
<1> QED
  BY <1>2, <1>3, <1>4

(* What a withdrawal by account takes from the rows of a symbol is what it *)
(* pays in that symbol: it takes the fees of one token for another's.      *)
LEMMA WithdrawAccountOfSymbol ==
  ASSUME EosConstants, IsFiniteSet(XHashes), Inv, Inv',
         NEW pk \in PKs, NEW account, WithdrawAccount(pk, account), NEW s
  PROVE  SurplusOf(TokensOf(s))' >= SurplusOf(TokensOf(s))
<1>1. PICK pid \in Pids :
        IssueFees(pid, [r \in RowsFrom(pid, account) |-> [account |-> account, symbol |-> r.symbol]])
  BY DEF WithdrawAccount
<1> DEFINE payer == [r \in RowsFrom(pid, account) |-> [account |-> account, symbol |-> r.symbol]]
           S == TokensOf(s)
           t0 == [account |-> account, symbol |-> s]
           was == [t \in S |-> Surplus(t)]
           now == [t \in S |-> Surplus(t)']
           paid == [t \in S |-> Paid(pid, payer, t)]
           taken == [t \in S |-> Taken(pid, payer, t)]
           more == [t \in S |-> was[t] + taken[t]]
           less == [t \in S |-> now[t] + paid[t]]
           rows == {r \in DOMAIN payer : payer[r] = t0}
           f == [r \in rows |-> fees[pid][r]]
<1>2. DOMAIN payer \subseteq FeeRows(pid)
  BY DEF RowsFrom
<1>3. UNCHANGED <<transfers, assets>>
  BY DEF WithdrawAccount
<1>4. S \subseteq Tokens /\ IsFiniteSet(S)
  BY FS_Subset DEF TokensOf, EosConstants
<1>5. \A r \in DOMAIN payer : payer[r] = [account |-> account, symbol |-> r.symbol] /\ r \in Tokens
  BY DEF RowsFrom, FeeRows
<1> HIDE DEF payer
<1>6. IssueFees(pid, payer)
  BY <1>1 DEF payer
<1>7. \A t \in S : /\ Paid(pid, payer, t) \in Nat /\ Taken(pid, payer, t) \in Nat
                   /\ Surplus(t) \in Int /\ Surplus(t)' \in Int
                   /\ Surplus(t)' + Paid(pid, payer, t) >= Surplus(t) + Taken(pid, payer, t)
  BY <1>2, <1>3, <1>4, <1>6, IssueFeesSurplus
<1>8. /\ Summable(was, S) /\ Summable(now, S) /\ Counts(paid, S) /\ Summable(paid, S)
      /\ Counts(taken, S) /\ Summable(taken, S) /\ Summable(more, S) /\ Summable(less, S)
      /\ \A t \in S : more[t] = was[t] + taken[t] /\ less[t] = now[t] + paid[t]
      /\ \A t \in S : more[t] <= less[t]
  BY <1>4, <1>7 DEF Summable, Counts
<1>9. SumOf(paid, S) <= SumOf(taken, S)
  <2>1. rows = {r \in DOMAIN payer : r \in S}
    <3>1. \A r \in DOMAIN payer : payer[r] = t0 <=> r.symbol = s
      BY <1>5
    <3> QED
      BY <1>5, <3>1 DEF TokensOf
  <2>2. /\ Counts(f, rows) /\ Paid(pid, payer, t0) = SumOf(f, rows)
    <3> HIDE DEF t0
    <3> QED
      BY <1>2, PaidOfRows DEF Inv
  <2>3. /\ rows \in SUBSET S
        /\ \A r \in rows : f[r] = taken[r]
        /\ \A r \in S \ rows : taken[r] = 0
    BY <2>1 DEF Taken
  <2>4. SumOf(f, rows) = SumOf(taken, S)
    <3> HIDE DEF f, rows, taken
    <3> QED
      BY <1>8, <2>3, SumSupport
  <2>5. \A t \in S : t # t0 => paid[t] = 0
    <3> SUFFICES ASSUME NEW t \in S, t # t0 PROVE Paid(pid, payer, t) = 0
      OBVIOUS
    <3> DEFINE none == {r \in DOMAIN payer : payer[r] = t}
               g == [r \in none |-> fees[pid][r]]
    <3>1. none = {}
      BY <1>4, <1>5 DEF TokensOf
    <3>2. Paid(pid, payer, t) = SumOf(g, none)
      BY <1>2, PaidOfRows DEF Inv
    <3> HIDE DEF g, none
    <3>3. SumOf(g, none) = SumOf(g, {})
      BY <3>1, Zenon
    <3> QED
      BY <3>2, <3>3, SumEmpty
  <2>6. SumOf(taken, S) \in Nat
    BY <1>8, SumStep
  <2>7. CASE t0 \in S
    <3>1. paid[t0] = SumOf(taken, S)
      BY <2>2, <2>4, <2>7
    <3> DEFINE one == [t \in {t0} |-> paid[t0]]
    <3>2. {t0} \in SUBSET S /\ (\A t \in {t0} : one[t] = paid[t]) /\ \A t \in S \ {t0} : paid[t] = 0
      BY <2>5, <2>7
    <3>3. one[t0] = paid[t0]
      OBVIOUS
    <3> HIDE DEF one, paid, taken, t0
    <3>4. SumOf(one, {t0}) = SumOf(paid, S)
      BY <1>8, <3>2, SumSupport
    <3>6. one[t0] \in Int
      BY <2>6, <3>1, <3>3
    <3>5. SumOf(one, {t0}) = one[t0]
      BY <3>6, SumSingleton
    <3> QED
      BY <2>6, <3>1, <3>3, <3>4, <3>5
  <2>8. CASE t0 \notin S
    <3>1. \A t \in S : paid[t] = 0
      BY <2>5, <2>8
    <3> HIDE DEF paid, taken, t0, S
    <3>2. SumOf(paid, S) = 0
      BY <1>4, <3>1, SumOfZeros
    <3> QED
      BY <2>6, <3>2
  <2> QED
    BY <2>7, <2>8
<1>10. SurplusOf(S) = SumOf(was, S) /\ SurplusOf(S)' = SumOf(now, S)
  BY DEF SurplusOf, TokensOf
<1> HIDE DEF was, now, paid, taken, more, less, S
<1>11. SumOf(more, S) <= SumOf(less, S)
  BY <1>8, SumOrdered
<1>12. /\ SumOf(more, S) = SumOf(was, S) + SumOf(taken, S)
       /\ SumOf(less, S) = SumOf(now, S) + SumOf(paid, S)
  BY <1>8, SumsAdd
<1>13. /\ SumOf(was, S) \in Int /\ SumOf(now, S) \in Int
       /\ SumOf(paid, S) \in Int /\ SumOf(taken, S) \in Int
  BY <1>8, AddsStep
<1>14. SumOf(now, S) >= SumOf(was, S)
  BY <1>9, <1>11, <1>12, <1>13
<1>15. SurplusOf(S)' >= SurplusOf(S)
  BY <1>10, <1>14
<1> QED
  BY <1>15 DEF S

-----------------------------------------------------------------------------
(* Every step but a withdrawal by account lowers the surplus of no token.  *)
LEMMA NextSolvent ==
  ASSUME EosConstants, IsFiniteSet(XHashes), Inv, Inv', [Next]_vars,
         ~ \E pk \in PKs, t \in Tokens : WithdrawAccount(pk, t.account)
  PROVE  \A t \in Tokens : Surplus(t)' >= Surplus(t)
<1>0. transfers \in [XHashes -> TransferRow \cup {NoRow}] /\ vault \in [Tokens -> Nat]
  BY DEF Inv, TypeOK
<1> DEFINE Solvent == \A t \in Tokens : Surplus(t)' >= Surplus(t)
<1> SUFFICES Solvent
  OBVIOUS
<1>i. Issued \subseteq Tokens
  BY DEF EosConstants
<1>1. CASE UserNext
  <2>1. CASE \E t \in Issued, q \in Amounts : OtherTransfer(t, q)
    <3>1. PICK t \in Tokens, q \in Amounts : OtherTransfer(t, q)
      BY <1>i, <2>1
    <3>2. q \in Nat
      BY DEF EosConstants
    <3>3. \A s \in Tokens : vault'[s] >= vault[s]
      BY <1>0, <3>1, <3>2 DEF OtherTransfer
    <3> QED
      BY <3>1, <3>3, IdleSolvent DEF OtherTransfer
  <2>2. ASSUME NEW u \in Users, NEW t \in Issued, NEW q \in Amounts, NEW x \in XHashes,
               NEW pk \in PKs, Inlock(u, t, q, x, pk)
        PROVE  Solvent
    BY <1>i, <2>2, InlockSolvent
  <2>3. ASSUME NEW u \in Users, NEW x \in XHashes, Outredeem(u, x)
        PROVE  Solvent
    BY <2>3, OutredeemSolvent
  <2>4. ASSUME NEW x \in XHashes, Inrevoke(x)
        PROVE  Solvent
    BY <2>4, InrevokeSolvent
  <2> HIDE DEF Solvent
  <2> QED
    BY <1>1, <2>1, <2>2, <2>3, <2>4 DEF UserNext
<1>2. CASE StoremanNext
  <2>1. ASSUME NEW u \in Users, NEW t \in Tokens, NEW q \in Amounts, NEW x \in XHashes,
               NEW pk \in PKs, Outlock(u, t, q, x, pk)
        PROVE  Solvent
    <3>1. /\ transfers[x] = NoRow /\ transfers'[x].status = "outlock"
          /\ \A y \in XHashes \ {x} : transfers'[y] = transfers[y]
          /\ UNCHANGED <<assets, fees, vault>>
      BY <1>0, <2>1 DEF Outlock
    <3> QED
      BY <3>1, PromiseSolvent
  <2>2. ASSUME NEW x \in XHashes, Outrevoke(x)
        PROVE  Solvent
    <3>1. /\ transfers[x].status = "outlock" /\ transfers'[x] = NoRow
          /\ \A y \in XHashes \ {x} : transfers'[y] = transfers[y]
          /\ UNCHANGED <<assets, fees, vault>>
      BY <1>0, <2>2 DEF Outrevoke
    <3> QED
      BY <3>1, PromiseSolvent
  <2>3. ASSUME NEW npk \in PKs, NEW pk \in PKs, NEW t \in Tokens, NEW q \in DebtAmounts,
               NEW x \in XHashes, Lockdebt(npk, t, q, x, pk)
        PROVE  Solvent
    BY <1>0, <2>3, IdleSolvent DEF Lockdebt
  <2>4. ASSUME NEW x \in XHashes, Revokedebt(x)
        PROVE  Solvent
    BY <1>0, <2>4, IdleSolvent DEF Revokedebt
  <2>5. ASSUME NEW x \in XHashes, Inredeem(x)
        PROVE  Solvent
    BY <2>5, InredeemSolvent
  <2>6. ASSUME NEW x \in XHashes, Redeemdebt(x)
        PROVE  Solvent
    BY <2>6, RedeemdebtSolvent DEF Redeemdebt
  <2>7. ASSUME NEW pk \in PKs, WithdrawAll(pk)
        PROVE  Solvent
    BY <2>7, WithdrawAllSolvent
  <2>8. ASSUME NEW pk \in PKs, NEW t \in Tokens, WithdrawToken(pk, t)
        PROVE  Solvent
    BY <2>8, WithdrawTokenSolvent
  <2> HIDE DEF Solvent
  <2> QED
    BY <1>2, <2>1, <2>2, <2>3, <2>4, <2>5, <2>6, <2>7, <2>8 DEF StoremanNext
<1>3. CASE OwnerNext
  <2>1. UNCHANGED <<transfers, assets, fees, vault>>
    BY <1>3 DEF OwnerNext, Setratio, Regsig, Updatesig, Unregsig
  <2> QED
    BY <1>0, <2>1, IdleSolvent
<1>4. CASE Tick
  BY <1>4, TickSolvent
<1>5. CASE UNCHANGED vars
  <2>1. UNCHANGED <<transfers, assets, fees, vault>>
    BY <1>5 DEF vars
  <2> QED
    BY <1>0, <2>1, IdleSolvent
<1> QED
  BY <1>1, <1>2, <1>3, <1>4, <1>5 DEF Next

LEMMA InitSolvent ==
  ASSUME EosConstants, Init, NEW t \in Tokens
  PROVE  Surplus(t) = 0
<1>0. TypeOK
  BY InitInv DEF Inv
<1>1. Total(transfers, InlockRows(transfers, t)) = 0
  <2>1. InlockRows(transfers, t) = {}
    BY DEF InlockRows, Live, Init
  <2> QED
    BY <2>1, TotalOfNone
<1>2. ASSUME NEW book \in Book(Int), \A p \in Pids : book[p][t] = NoRow
      PROVE  Held(book, t) = 0
  <2> DEFINE f == HeldBy(book, t)
  <2>1. /\ Summable(f, Pids) /\ Held(book, t) = SumOf(f, Pids)
        /\ \A p \in Pids : f[p] = 0
    BY <1>2, HeldIsSum DEF HeldBy, Balance
  <2> HIDE DEF f
  <2> QED
    BY <2>1, SumOfZeros DEF Summable
<1>3. /\ assets \in Book(Int) /\ fees \in Book(Int) /\ vault[t] = 0
      /\ \A p \in Pids : assets[p][t] = NoRow /\ fees[p][t] = NoRow
  BY <1>0, Books DEF Init
<1>4. Held(assets, t) = 0 /\ Held(fees, t) = 0
  BY <1>2, <1>3
<1> QED
  BY <1>1, <1>3, <1>4, SurplusParts

(* The contract is solvent in every token of a contract in existence, for  *)
(* any users, storemen, tokens and amounts, as long as no storeman has     *)
(* fees in two accounts of which the first issues the symbol of the        *)
(* second: nothing but a withdrawal by account pays out a token somebody   *)
(* else is owed.                                                           *)
THEOREM VaultAlwaysCoversOwed ==
  ASSUME IsFiniteSet(XHashes)
  PROVE  Spec => TokensAreCovered
<1> DEFINE Solvent == Inv /\ VaultCoversOwed
<1>1. Init => Solvent
  BY InitInv, InitSolvent, EosConstants DEF VaultCoversOwed, EosConstants
<1>2. Solvent /\ FeesKeepApart /\ [Next]_vars => Solvent'
  <2> SUFFICES ASSUME Inv, VaultCoversOwed, FeesKeepApart, [Next]_vars
               PROVE  Inv' /\ VaultCoversOwed'
    OBVIOUS
  <2>1. Inv' /\ EosConstants
    BY NextInv, EosConstants
  <2>2. \A t \in Issued : Surplus(t)' >= Surplus(t)
    <3>1. CASE \E pk \in PKs, t \in Tokens : WithdrawAccount(pk, t.account)
      BY <2>1, <3>1, WithdrawAccountSolvent
    <3>2. CASE ~ \E pk \in PKs, t \in Tokens : WithdrawAccount(pk, t.account)
      BY <2>1, <3>2, NextSolvent DEF EosConstants
    <3> QED
      BY <3>1, <3>2
  <2>3. \A t \in Issued : Surplus(t) \in Int /\ Surplus(t)' \in Int /\ Surplus(t) >= 0
    BY <2>1, SurplusIsInt DEF EosConstants, VaultCoversOwed
  <2>4. \A t \in Issued : Surplus(t)' >= 0
    BY <2>2, <2>3
  <2> QED
    BY <2>1, <2>4 DEF VaultCoversOwed
<1>3. Solvent => VaultCoversOwed
  OBVIOUS
<1> QED
  BY <1>1, <1>2, <1>3, PTL DEF Spec, TokensAreCovered

(* The sums over a symbol: at first they are zero, they do not fall when   *)
(* those of its tokens do not, and they are what SymbolsAreCovered says.   *)
SymbolsSolvent == \A s : SurplusOf(TokensOf(s)) >= 0

LEMMA TokensOfAreFinite ==
  ASSUME EosConstants
  PROVE  \A s : TokensOf(s) \subseteq Tokens /\ IsFiniteSet(TokensOf(s))
BY FS_Subset DEF TokensOf, EosConstants

LEMMA InitSymbols ==
  ASSUME EosConstants, Init
  PROVE  SymbolsSolvent
<1> SUFFICES ASSUME NEW s PROVE SurplusOf(TokensOf(s)) >= 0
  BY DEF SymbolsSolvent
<1> DEFINE S == TokensOf(s)
           f == [t \in S |-> Surplus(t)]
<1>1. \A t \in S : f[t] = 0
  BY TokensOfAreFinite, InitSolvent
<1>2. SurplusOf(S) = SumOf(f, S)
  BY DEF SurplusOf
<1>3. IsFiniteSet(S)
  BY TokensOfAreFinite
<1> HIDE DEF f, S
<1>4. SurplusOf(S) = 0
  BY <1>1, <1>2, <1>3, SumOfZeros
<1> QED
  BY <1>4 DEF S

LEMMA SymbolSums ==
  ASSUME EosConstants, IsFiniteSet(XHashes), Inv, Inv', NEW s
  PROVE  /\ SurplusOf(TokensOf(s)) \in Int /\ SurplusOf(TokensOf(s))' \in Int
         /\ (\A t \in TokensOf(s) : Surplus(t)' >= Surplus(t))
              => SurplusOf(TokensOf(s))' >= SurplusOf(TokensOf(s))
<1> DEFINE S == TokensOf(s)
           was == [t \in S |-> Surplus(t)]
           now == [t \in S |-> Surplus(t)']
<1>1. \A t \in S : Surplus(t) \in Int /\ Surplus(t)' \in Int
  BY TokensOfAreFinite, SurplusIsInt
<1>2. Summable(was, S) /\ Summable(now, S)
  BY <1>1, TokensOfAreFinite DEF Summable
<1>3. SurplusOf(S) = SumOf(was, S) /\ SurplusOf(S)' = SumOf(now, S)
  BY DEF SurplusOf, TokensOf
<1>4. SurplusOf(S) \in Int /\ SurplusOf(S)' \in Int
  <2> HIDE DEF was, now, S
  <2> QED
    BY <1>2, <1>3, AddsStep
<1>5. ASSUME \A t \in S : Surplus(t)' >= Surplus(t)
      PROVE  SurplusOf(S)' >= SurplusOf(S)
  <2>1. \A t \in S : was[t] <= now[t]
    BY <1>1, <1>5
  <2> HIDE DEF was, now, S
  <2>2. SumOf(was, S) <= SumOf(now, S)
    BY <1>2, <2>1, SumOrdered
  <2> QED
    BY <1>3, <1>4, <2>2
<1> QED
  BY <1>4, <1>5

LEMMA SymbolsStep ==
  ASSUME EosConstants, IsFiniteSet(XHashes), Inv, Inv', SymbolsSolvent,
         \A s : SurplusOf(TokensOf(s))' >= SurplusOf(TokensOf(s))
  PROVE  SymbolsSolvent'
<1> SUFFICES ASSUME NEW s PROVE SurplusOf(TokensOf(s))' >= 0
  BY DEF SymbolsSolvent, TokensOf
<1> DEFINE was == SurplusOf(TokensOf(s))
           now == SurplusOf(TokensOf(s))'
<1>1. was \in Int /\ now \in Int
  BY SymbolSums
<1>2. was >= 0 /\ now >= was
  BY DEF SymbolsSolvent
<1> HIDE DEF was, now
<1>3. now >= 0
  BY <1>1, <1>2
<1> QED
  BY <1>3 DEF now

LEMMA SymbolsSolventCovers == EosConstants /\ SymbolsSolvent => SymbolsAreCovered
<1> SUFFICES ASSUME EosConstants, SymbolsSolvent, NEW s \in {t.symbol : t \in Tokens}
             PROVE  MapThenSumSet(Surplus, {t \in Tokens : t.symbol = s}) >= 0
  BY DEF SymbolsAreCovered
<1>1. MapThenSumSet(Surplus, TokensOf(s)) = SurplusOf(TokensOf(s))
  BY TokensOfAreFinite, SurplusIsSum
<1>2. MapThenSumSet(Surplus, TokensOf(s)) >= 0
  BY <1>1 DEF SymbolsSolvent
<1> QED
  BY <1>2 DEF TokensOf

(* And it is solvent in every symbol, whatever fees there are: what a      *)
(* withdrawal by account pays in one token it takes from others of the     *)
(* same symbol.                                                            *)
THEOREM SymbolsAlwaysCovered ==
  ASSUME IsFiniteSet(XHashes)
  PROVE  Spec => []SymbolsAreCovered
<1>1. Init => Inv /\ SymbolsSolvent
  BY InitInv, InitSymbols, EosConstants
<1>2. Inv /\ SymbolsSolvent /\ [Next]_vars => Inv' /\ SymbolsSolvent'
  <2> SUFFICES ASSUME Inv, SymbolsSolvent, [Next]_vars
               PROVE  Inv' /\ SymbolsSolvent'
    OBVIOUS
  <2>1. Inv' /\ EosConstants
    BY NextInv, EosConstants
  <2>2. ASSUME NEW s PROVE SurplusOf(TokensOf(s))' >= SurplusOf(TokensOf(s))
    <3>1. CASE \E pk \in PKs, t \in Tokens : WithdrawAccount(pk, t.account)
      BY <2>1, <3>1, WithdrawAccountOfSymbol
    <3>2. CASE ~ \E pk \in PKs, t \in Tokens : WithdrawAccount(pk, t.account)
      <4>1. \A t \in TokensOf(s) : Surplus(t)' >= Surplus(t)
        BY <2>1, <3>2, NextSolvent, TokensOfAreFinite
      <4> QED
        BY <2>1, <4>1, SymbolSums
    <3> QED
      BY <3>1, <3>2
  <2> QED
    BY <2>1, <2>2, SymbolsStep
<1>3. SymbolsSolvent => SymbolsAreCovered
  BY SymbolsSolventCovers, EosConstants
<1> QED
  BY <1>1, <1>2, <1>3, PTL DEF Spec

-----------------------------------------------------------------------------
(* Promises.  The sum the locks are guarded by runs over the rows the loop *)
(* visits, which are at least those of the storeman and the token.         *)

LEMMA PromisedIsSeen ==
  ASSUME EosConstants, IsFiniteSet(XHashes), Inv, NoNegativeDebt, NEW pid \in Pids, NEW t \in Tokens
  PROVE  /\ Promised(pid, t) \in Nat /\ OutPendAsset(pid, t) \in Nat
         /\ OutPendAsset(pid, t) >= Promised(pid, t)
<1>0. t.account \in Nat /\ t.account >= t.account
  BY DEF EosConstants
<1> DEFINE locks == OutlockRows(transfers, pid, t)
           seenLocks == {x \in Scan(transfers, pid, t.account) :
                           /\ transfers[x].status = "outlock"
                           /\ transfers[x].token.symbol = t.symbol}
           owed == DebtRows(debts, pid, t)
           seenOwed == {x \in Scan(debts, pid, t.account) : debts[x].token.symbol = t.symbol}
<1>1. /\ Promised(pid, t) = Total(transfers, locks) + Total(debts, owed)
      /\ OutPendAsset(pid, t) = Total(transfers, seenLocks) + Total(debts, seenOwed)
  BY PromisedParts DEF OutPendAsset, HtlcPendAsset, PendDebtAsset
<1>2. /\ seenLocks \in SUBSET XHashes /\ locks \in SUBSET seenLocks
      /\ \A x \in seenLocks : transfers[x].quantity \in Nat
  BY <1>0, LiveRows DEF Scan, Live, OutlockRows, Inv, TransferRow
<1>3. /\ seenOwed \in SUBSET XHashes /\ owed \in SUBSET seenOwed
      /\ \A x \in seenOwed : debts[x].quantity \in Nat
  BY <1>0, LiveRows DEF Scan, Live, DebtRows, Inv, DebtRow, NoNegativeDebt
<1> HIDE DEF locks, seenLocks, owed, seenOwed
<1>4. /\ Total(transfers, locks) \in Nat /\ Total(transfers, seenLocks) \in Nat
      /\ Total(transfers, locks) <= Total(transfers, seenLocks)
  BY <1>2, TotalMonotone
<1>5. /\ Total(debts, owed) \in Nat /\ Total(debts, seenOwed) \in Nat
      /\ Total(debts, owed) <= Total(debts, seenOwed)
  BY <1>3, TotalMonotone
<1> QED
  BY <1>1, <1>4, <1>5

(* What has to be shown of a step that changes one transfer and one debt.  *)
LEMMA CoveredStep ==
  ASSUME EosConstants, IsFiniteSet(XHashes), Inv, Inv',
         NEW x \in XHashes,
         \A y \in XHashes \ {x} : transfers'[y] = transfers[y],
         \A y \in XHashes \ {x} : debts'[y] = debts[y],
         \A p \in Pids, t \in Tokens :
            Balance(assets', p, t) >= Promised(p, t)
              + (OutPromised(transfers'[x], p, t) - OutPromised(transfers[x], p, t))
              + (DebtPromised(debts'[x], p, t) - DebtPromised(debts[x], p, t))
  PROVE  AssetsCoverPromised'
<1>0. ASSUME NEW p \in Pids, NEW t \in Tokens
      PROVE  Balance(assets', p, t) >= Promised(p, t)'
  <2> DEFINE L == Total(transfers, OutlockRows(transfers, p, t))
             nL == Total(transfers', OutlockRows(transfers', p, t))
             D == Total(debts, DebtRows(debts, p, t))
             nD == Total(debts', DebtRows(debts', p, t))
             l == OutPromised(transfers[x], p, t)
             nl == OutPromised(transfers'[x], p, t)
             d == DebtPromised(debts[x], p, t)
             nd == DebtPromised(debts'[x], p, t)
  <2>1. /\ transfers \in TransferTable /\ transfers' \in TransferTable
        /\ debts \in DebtTable /\ debts' \in DebtTable
        /\ assets' \in Book(Int)
    BY BooksOfNumbers DEF Inv, TypeOK, TransferTable, DebtTable
  <2>2. L \in Int /\ nL = L - l + nl
    BY <2>1, OutlockTotals
  <2>3. D \in Int /\ nD = D - d + nd
    BY <2>1, DebtTotals
  <2>4. l \in Int /\ nl \in Int /\ d \in Int /\ nd \in Int
    BY <2>1 DEF OutPromised, DebtPromised, TransferTable, DebtTable, TransferRow, DebtRow
  <2>5. Promised(p, t) = L + D /\ Promised(p, t)' = nL + nD
    BY PromisedParts
  <2>6. Balance(assets', p, t) \in Int
    BY <2>1 DEF Balance, Book
  <2>7. Balance(assets', p, t) >= Promised(p, t) + (nl - l) + (nd - d)
    OBVIOUS
  <2> HIDE DEF L, nL, D, nD, l, nl, d, nd
  <2> QED
    BY <2>2, <2>3, <2>4, <2>5, <2>6, <2>7
<1>1. \A p \in Pids, t \in Tokens : Balance(assets, p, t)' = Balance(assets', p, t)
  BY DEF Balance
<1> QED
  BY <1>0, <1>1 DEF AssetsCoverPromised

(* A step that promises nothing and takes no asset away. *)
LEMMA NoPromiseCovered ==
  ASSUME EosConstants, IsFiniteSet(XHashes), Inv, Inv', AssetsCoverPromised, NoNegativeDebt,
         NEW x \in XHashes,
         \A y \in XHashes \ {x} : transfers'[y] = transfers[y],
         \A y \in XHashes \ {x} : debts'[y] = debts[y],
         \/ transfers'[x] = transfers[x]
         \/ transfers'[x] = NoRow
         \/ transfers'[x].status = "inlock",
         debts'[x] = debts[x] \/ debts'[x] = NoRow,
         \A p \in Pids, t \in Tokens : Balance(assets', p, t) >= Balance(assets, p, t)
  PROVE  AssetsCoverPromised'
<1>1. ASSUME NEW p \in Pids, NEW t \in Tokens
      PROVE  Balance(assets', p, t) >= Promised(p, t)
               + (OutPromised(transfers'[x], p, t) - OutPromised(transfers[x], p, t))
               + (DebtPromised(debts'[x], p, t) - DebtPromised(debts[x], p, t))
  <2>1. /\ transfers \in TransferTable /\ debts \in DebtTable
        /\ assets \in Book(Int) /\ assets' \in Book(Int)
    BY BooksOfNumbers DEF Inv, TypeOK, TransferTable, DebtTable
  <2>2. OutPromised(transfers[x], p, t) \in Nat /\ DebtPromised(debts[x], p, t) \in Nat
    BY <2>1 DEF OutPromised, DebtPromised, TransferTable, DebtTable, TransferRow, DebtRow,
                NoNegativeDebt, Live
  <2>3. \/ OutPromised(transfers'[x], p, t) = OutPromised(transfers[x], p, t)
        \/ OutPromised(transfers'[x], p, t) = 0
    BY DEF OutPromised
  <2>4. \/ DebtPromised(debts'[x], p, t) = DebtPromised(debts[x], p, t)
        \/ DebtPromised(debts'[x], p, t) = 0
    BY DEF DebtPromised
  <2>5. /\ Balance(assets, p, t) >= Promised(p, t)
        /\ Balance(assets', p, t) >= Balance(assets, p, t)
    BY DEF AssetsCoverPromised
  <2>6. /\ Promised(p, t) \in Nat
        /\ Balance(assets, p, t) \in Int /\ Balance(assets', p, t) \in Int
    BY <2>1, PromisedIsSeen DEF Balance, Book
  <2> QED
    BY <2>2, <2>3, <2>4, <2>5, <2>6
<1> QED
  BY <1>1, CoveredStep

(* An outlock that what is left of the asset covers. *)
LEMMA OutlockCovered ==
  ASSUME EosConstants, IsFiniteSet(XHashes), Inv, Inv', AssetsCoverPromised, NoNegativeDebt,
         NEW u \in Users, NEW token \in Tokens, NEW q \in Amounts, NEW x \in XHashes,
         NEW pid \in Pids,
         transfers[x] = NoRow,
         Balance(assets, pid, token) >= OutPendAsset(pid, token) + q,
         transfers' = [transfers EXCEPT ![x] =
             [status |-> "outlock", user |-> u, pid |-> pid, token |-> token,
              quantity |-> q, timeLeft |-> LockedTime]],
         UNCHANGED <<debts, assets>>
  PROVE  AssetsCoverPromised'
<1>0. transfers \in [XHashes -> TransferRow \cup {NoRow}] /\ q \in Nat
  BY DEF Inv, TypeOK, EosConstants
<1>2. /\ transfers[x] = NoRow /\ debts' = debts /\ assets' = assets
      /\ \A y \in XHashes \ {x} : transfers'[y] = transfers[y]
      /\ transfers'[x].status = "outlock" /\ transfers'[x].pid = pid
      /\ transfers'[x].token = token /\ transfers'[x].quantity = q
  BY <1>0
<1>3. ASSUME NEW p \in Pids, NEW t \in Tokens
      PROVE  Balance(assets', p, t) >= Promised(p, t)
               + (OutPromised(transfers'[x], p, t) - OutPromised(transfers[x], p, t))
               + (DebtPromised(debts'[x], p, t) - DebtPromised(debts[x], p, t))
  <2>1. OutPromised(transfers[x], p, t) = 0
    BY <1>2 DEF OutPromised
  <2>2. \/ OutPromised(transfers'[x], p, t) = 0
        \/ OutPromised(transfers'[x], p, t) = q /\ p = pid /\ t = token
    BY <1>2 DEF OutPromised
  <2>3. /\ DebtPromised(debts[x], p, t) \in Int
        /\ DebtPromised(debts'[x], p, t) = DebtPromised(debts[x], p, t)
    BY <1>2 DEF DebtPromised, Inv, TypeOK, DebtRow
  <2>4. /\ Balance(assets, p, t) >= Promised(p, t) /\ Balance(assets', p, t) = Balance(assets, p, t)
    BY <1>2 DEF AssetsCoverPromised
  <2>5. /\ Promised(p, t) \in Nat /\ OutPendAsset(p, t) >= Promised(p, t)
        /\ Balance(assets, p, t) \in Int
    BY PromisedIsSeen, Books DEF Inv
  <2>6. OutPendAsset(p, t) \in Nat
    BY PromisedIsSeen
  <2> QED
    BY <1>0, <2>1, <2>2, <2>3, <2>4, <2>5, <2>6
<1> QED
  BY <1>2, <1>3, CoveredStep

(* A debt that what is left of the debtor's asset covers. *)
LEMMA LockdebtCovered ==
  ASSUME EosConstants, IsFiniteSet(XHashes), Inv, Inv', AssetsCoverPromised, NoNegativeDebt,
         NEW token \in Tokens, NEW q \in DebtAmounts, NEW x \in XHashes,
         NEW pid \in Pids, NEW npid \in Pids,
         debts[x] = NoRow,
         Balance(assets, pid, token) >= OutPendAsset(pid, token) + q,
         debts' = [debts EXCEPT ![x] =
             [pid |-> pid, npid |-> npid, token |-> token,
              quantity |-> q, timeLeft |-> 2 * LockedTime]],
         UNCHANGED <<transfers, assets>>
  PROVE  AssetsCoverPromised'
<1>0. debts \in [XHashes -> DebtRow \cup {NoRow}] /\ q \in Int
  BY DEF Inv, TypeOK, EosConstants
<1>2. /\ debts[x] = NoRow /\ transfers' = transfers /\ assets' = assets
      /\ \A y \in XHashes \ {x} : debts'[y] = debts[y]
      /\ debts'[x].pid = pid /\ debts'[x].token = token /\ debts'[x].quantity = q
  BY <1>0
<1>3. ASSUME NEW p \in Pids, NEW t \in Tokens
      PROVE  Balance(assets', p, t) >= Promised(p, t)
               + (OutPromised(transfers'[x], p, t) - OutPromised(transfers[x], p, t))
               + (DebtPromised(debts'[x], p, t) - DebtPromised(debts[x], p, t))
  <2>1. DebtPromised(debts[x], p, t) = 0
    BY <1>2 DEF DebtPromised
  <2>2. \/ DebtPromised(debts'[x], p, t) = 0
        \/ DebtPromised(debts'[x], p, t) = q /\ p = pid /\ t = token
    BY <1>2 DEF DebtPromised
  <2>3. /\ OutPromised(transfers[x], p, t) \in Nat
        /\ OutPromised(transfers'[x], p, t) = OutPromised(transfers[x], p, t)
    BY <1>2 DEF OutPromised, Inv, TypeOK, TransferRow
  <2>4. /\ Balance(assets, p, t) >= Promised(p, t) /\ Balance(assets', p, t) = Balance(assets, p, t)
    BY <1>2 DEF AssetsCoverPromised
  <2>5. /\ Promised(p, t) \in Nat /\ OutPendAsset(p, t) >= Promised(p, t)
        /\ Balance(assets, p, t) \in Int
    BY PromisedIsSeen, Books DEF Inv
  <2>6. OutPendAsset(p, t) \in Nat
    BY PromisedIsSeen
  <2> QED
    BY <1>0, <2>1, <2>2, <2>3, <2>4, <2>5, <2>6
<1> QED
  BY <1>2, <1>3, CoveredStep

LEMMA OutredeemCovered ==
  ASSUME EosConstants, IsFiniteSet(XHashes), Inv, Inv', AssetsCoverPromised, NoNegativeDebt,
         NEW u \in Users, NEW x \in XHashes, Outredeem(u, x)
  PROVE  AssetsCoverPromised'
<1> DEFINE row == transfers[x]
<1>1. transfers \in [XHashes -> TransferRow \cup {NoRow}] /\ assets \in Book(Int)
      /\ debts \in [XHashes -> DebtRow \cup {NoRow}]
  BY Books DEF Inv, TypeOK
<1>2. row \in TransferRow
  BY LiveRows DEF Inv, Outredeem
<1>3. row.pid \in Pids /\ row.token \in Tokens /\ row.quantity \in Nat
  BY <1>2 DEF TransferRow
<1>4. /\ row # NoRow /\ row.status = "outlock"
      /\ transfers'[x] = NoRow
      /\ \A y \in XHashes \ {x} : transfers'[y] = transfers[y]
      /\ Enough(assets, row.pid, row.token, row.quantity)
      /\ assets' = SubFrom(assets, row.pid, row.token, row.quantity)
      /\ debts' = debts
  BY <1>1 DEF Outredeem
<1> HIDE DEF row
<1>5. ASSUME NEW p \in Pids, NEW t \in Tokens
      PROVE  Balance(assets', p, t) >= Promised(p, t)
               + (OutPromised(transfers'[x], p, t) - OutPromised(row, p, t))
               + (DebtPromised(debts'[x], p, t) - DebtPromised(debts[x], p, t))
  <2>1. /\ OutPromised(transfers'[x], p, t) = 0
        /\ OutPromised(row, p, t) = IF p = row.pid /\ t = row.token THEN row.quantity ELSE 0
    BY <1>4 DEF OutPromised
  <2>2. /\ DebtPromised(debts[x], p, t) \in Int
        /\ DebtPromised(debts'[x], p, t) = DebtPromised(debts[x], p, t)
    BY <1>1, <1>4 DEF DebtPromised, DebtRow
  <2>3. /\ Balance(assets, p, t) \in Int
        /\ Balance(assets', p, t) = Balance(assets, p, t)
             - IF p = row.pid /\ t = row.token THEN row.quantity ELSE 0
    BY <1>1, <1>3, <1>4, BalanceAfterSub
  <2>4. Balance(assets, p, t) >= Promised(p, t)
    BY DEF AssetsCoverPromised
  <2>5. Promised(p, t) \in Nat
    BY PromisedIsSeen
  <2> QED
    BY <1>3, <2>1, <2>2, <2>3, <2>4, <2>5
<1> QED
  BY <1>4, <1>5, CoveredStep DEF row

(* A debt handed over, whatever becomes of the keys. *)
LEMMA RedeemdebtCovered ==
  ASSUME EosConstants, IsFiniteSet(XHashes), Inv, Inv', AssetsCoverPromised, NoNegativeDebt,
         NEW x \in XHashes, debts[x] # NoRow,
         Enough(assets, debts[x].pid, debts[x].token, debts[x].quantity),
         HandOver(debts[x]),
         debts' = [debts EXCEPT ![x] = NoRow],
         UNCHANGED transfers
  PROVE  AssetsCoverPromised'
<1> DEFINE row == debts[x]
           rest == SubFrom(assets, row.pid, row.token, row.quantity)
<1>1. transfers \in [XHashes -> TransferRow \cup {NoRow}] /\ assets \in Book(Int)
      /\ debts \in [XHashes -> DebtRow \cup {NoRow}]
  BY Books DEF Inv, TypeOK
<1>2. row \in DebtRow
  BY LiveRows DEF Inv
<1>3. /\ row.pid \in Pids /\ row.npid \in Pids
      /\ row.token \in Tokens /\ row.quantity \in Nat
  BY <1>2 DEF DebtRow, NoNegativeDebt, Live
<1>4. /\ row # NoRow
      /\ debts'[x] = NoRow
      /\ \A y \in XHashes \ {x} : debts'[y] = debts[y]
      /\ Enough(assets, row.pid, row.token, row.quantity)
      /\ HandOver(row)
      /\ transfers' = transfers
  BY <1>1
<1> HIDE DEF row
<1>5. rest \in Book(Int) /\ assets' = AddTo(rest, row.npid, row.token, row.quantity)
  BY <1>2, <1>4, HandOverType, BooksOfNumbers DEF Inv
<1>6. \A p \in Pids, t \in Tokens :
        /\ Balance(assets, p, t) \in Int
        /\ Balance(rest, p, t) = Balance(assets, p, t)
             - IF p = row.pid /\ t = row.token THEN row.quantity ELSE 0
  BY <1>1, <1>3, <1>4, BalanceAfterSub
<1> HIDE DEF rest
<1>7. \A p \in Pids, t \in Tokens :
        /\ Balance(rest, p, t) \in Int
        /\ Balance(assets', p, t) = Balance(rest, p, t)
             + IF p = row.npid /\ t = row.token THEN row.quantity ELSE 0
  BY <1>3, <1>5, BalanceAfterAdd
<1>8. ASSUME NEW p \in Pids, NEW t \in Tokens
      PROVE  Balance(assets', p, t) >= Promised(p, t)
               + (OutPromised(transfers'[x], p, t) - OutPromised(transfers[x], p, t))
               + (DebtPromised(debts'[x], p, t) - DebtPromised(row, p, t))
  <2>1. /\ DebtPromised(debts'[x], p, t) = 0
        /\ DebtPromised(row, p, t) = IF p = row.pid /\ t = row.token THEN row.quantity ELSE 0
    BY <1>4 DEF DebtPromised
  <2>2. /\ OutPromised(transfers[x], p, t) \in Nat
        /\ OutPromised(transfers'[x], p, t) = OutPromised(transfers[x], p, t)
    BY <1>1, <1>4 DEF OutPromised, TransferRow
  <2>3. Balance(assets, p, t) >= Promised(p, t)
    BY DEF AssetsCoverPromised
  <2>4. Promised(p, t) \in Nat
    BY PromisedIsSeen
  <2>5. /\ Balance(assets, p, t) \in Int
        /\ Balance(rest, p, t) = Balance(assets, p, t)
             - IF p = row.pid /\ t = row.token THEN row.quantity ELSE 0
        /\ Balance(assets', p, t) >= Balance(rest, p, t)
    BY <1>3, <1>6, <1>7
  <2> QED
    BY <1>3, <1>7, <2>1, <2>2, <2>3, <2>4, <2>5
<1> QED
  BY <1>4, <1>8, CoveredStep DEF row

(* Nothing is promised and nothing is taken. *)
LEMMA IdleCovered ==
  ASSUME AssetsCoverPromised, UNCHANGED <<transfers, debts, assets>>
  PROVE  AssetsCoverPromised'
<1>1. \A p \in Pids, t \in Tokens :
        /\ Promised(p, t)' = Promised(p, t)
        /\ Balance(assets, p, t)' = Balance(assets, p, t)
  <2> TAKE p \in Pids, t \in Tokens
  <2>1. Promised(p, t)' = Promised(p, t)
    BY PromisedParts
  <2> QED
    BY <2>1 DEF Balance
<1> QED
  BY <1>1 DEF AssetsCoverPromised

LEMMA TickCovered ==
  ASSUME EosConstants, IsFiniteSet(XHashes), Inv, AssetsCoverPromised, Tick
  PROVE  AssetsCoverPromised'
<1>1. \A p \in Pids, t \in Tokens :
        /\ Promised(p, t)' = Promised(p, t)
        /\ Balance(assets, p, t)' = Balance(assets, p, t)
  <2> TAKE p \in Pids, t \in Tokens
  <2>1. Promised(p, t)' = Promised(p, t)
    BY PromisedParts, AgedTotals
  <2> QED
    BY <2>1 DEF Balance, Tick
<1> QED
  BY <1>1 DEF AssetsCoverPromised

LEMMA NextCovered ==
  ASSUME EosConstants, IsFiniteSet(XHashes), Inv, Inv', AssetsCoverPromised, NoNegativeDebt, [Next]_vars
  PROVE  AssetsCoverPromised'
<1>0. /\ transfers \in [XHashes -> TransferRow \cup {NoRow}]
      /\ debts \in [XHashes -> DebtRow \cup {NoRow}]
      /\ assets \in Book(Int) /\ Issued \subseteq Tokens
  BY Books DEF Inv, TypeOK, EosConstants
<1>1. \A p \in Pids, t \in Tokens : Balance(assets, p, t) \in Int
  BY Books DEF Inv
<1>2. ASSUME NEW u \in Users, NEW t \in Issued, NEW q \in Amounts, NEW x \in XHashes,
             NEW pk \in PKs, Inlock(u, t, q, x, pk)
      PROVE  AssetsCoverPromised'
  <2>1. /\ transfers'[x].status = "inlock" /\ debts' = debts /\ assets' = assets
        /\ \A y \in XHashes \ {x} : transfers'[y] = transfers[y]
    BY <1>0, <1>2 DEF Inlock
  <2> QED
    BY <1>1, <2>1, NoPromiseCovered
<1>3. ASSUME NEW x \in XHashes, Inredeem(x)
      PROVE  AssetsCoverPromised'
  <2> DEFINE row == transfers[x]
  <2>1. row \in TransferRow
    BY <1>3, LiveRows DEF Inv, Inredeem
  <2>2. row.pid \in Pids /\ row.token \in Tokens /\ row.quantity \in Nat
    BY <2>1 DEF TransferRow
  <2>3. /\ transfers'[x] = NoRow /\ debts' = debts
        /\ \A y \in XHashes \ {x} : transfers'[y] = transfers[y]
        /\ assets' = AddTo(assets, row.pid, row.token, row.quantity)
    BY <1>0, <1>3 DEF Inredeem
  <2> HIDE DEF row
  <2>4. \A p \in Pids, t \in Tokens :
          Balance(assets', p, t) = Balance(assets, p, t)
            + IF p = row.pid /\ t = row.token THEN row.quantity ELSE 0
    BY <1>0, <2>2, <2>3, BalanceAfterAdd
  <2>5. \A p \in Pids, t \in Tokens : Balance(assets', p, t) >= Balance(assets, p, t)
    BY <1>1, <2>2, <2>4
  <2> QED
    BY <2>3, <2>5, NoPromiseCovered
<1>4. ASSUME NEW x \in XHashes, Inrevoke(x) \/ Outrevoke(x)
      PROVE  AssetsCoverPromised'
  <2>1. /\ transfers'[x] = NoRow /\ debts' = debts /\ assets' = assets
        /\ \A y \in XHashes \ {x} : transfers'[y] = transfers[y]
    BY <1>0, <1>4 DEF Inrevoke, Outrevoke
  <2> QED
    BY <1>1, <2>1, NoPromiseCovered
<1>5. ASSUME NEW x \in XHashes, Revokedebt(x)
      PROVE  AssetsCoverPromised'
  <2>1. /\ debts'[x] = NoRow /\ transfers' = transfers /\ assets' = assets
        /\ \A y \in XHashes \ {x} : debts'[y] = debts[y]
    BY <1>0, <1>5 DEF Revokedebt
  <2> QED
    BY <1>1, <2>1, NoPromiseCovered
<1>6. CASE UserNext
  <2>1. CASE \E t \in Issued, q \in Amounts : OtherTransfer(t, q)
    BY <2>1, IdleCovered DEF OtherTransfer
  <2> QED
    BY <1>2, <1>4, <1>6, <2>1, OutredeemCovered DEF UserNext
<1>7. CASE StoremanNext
  <2>1. CASE \/ \E pk \in PKs : WithdrawAll(pk)
             \/ \E pk \in PKs, t \in Tokens : WithdrawAccount(pk, t.account)
             \/ \E pk \in PKs, t \in Tokens : WithdrawToken(pk, t)
    BY <2>1, IdleCovered DEF WithdrawAll, WithdrawAccount, WithdrawToken
  <2>2. ASSUME NEW u \in Users, NEW t \in Tokens, NEW q \in Amounts, NEW x \in XHashes,
               NEW pk \in PKs, Outlock(u, t, q, x, pk)
        PROVE  AssetsCoverPromised'
    BY <2>2, OutlockCovered DEF Outlock
  <2>3. ASSUME NEW npk \in PKs, NEW pk \in PKs, NEW t \in Tokens, NEW q \in DebtAmounts,
               NEW x \in XHashes, Lockdebt(npk, t, q, x, pk)
        PROVE  AssetsCoverPromised'
    BY <2>3, LockdebtCovered DEF Lockdebt
  <2>4. ASSUME NEW x \in XHashes, Redeemdebt(x)
        PROVE  AssetsCoverPromised'
    BY <2>4, RedeemdebtCovered DEF Redeemdebt
  <2> QED
    BY <1>3, <1>4, <1>5, <1>7, <2>1, <2>2, <2>3, <2>4 DEF StoremanNext
<1>8. CASE OwnerNext
  BY <1>8, IdleCovered DEF OwnerNext, Setratio, Regsig, Updatesig, Unregsig
<1>9. CASE Tick
  BY <1>9, TickCovered
<1>10. CASE UNCHANGED vars
  BY <1>10, IdleCovered DEF vars
<1> QED
  BY <1>6, <1>7, <1>8, <1>9, <1>10 DEF Next

LEMMA InitCovered ==
  ASSUME EosConstants, Init
  PROVE  AssetsCoverPromised
<1> SUFFICES ASSUME NEW p \in Pids, NEW t \in Tokens
             PROVE  Balance(assets, p, t) >= Promised(p, t)
  BY DEF AssetsCoverPromised
<1>2. OutlockRows(transfers, p, t) = {} /\ DebtRows(debts, p, t) = {}
  BY DEF OutlockRows, DebtRows, Live, Init
<1>3. Total(transfers, OutlockRows(transfers, p, t)) = 0 /\ Total(debts, DebtRows(debts, p, t)) = 0
  BY <1>2, TotalOfNone
<1>4. Balance(assets, p, t) = 0
  BY DEF Balance, Init
<1> QED
  BY <1>3, <1>4, PromisedParts

(* A storeman's assets go on covering its pending outlocks and debts, for  *)
(* any storemen, tokens and amounts, whatever step comes while no debt     *)
(* below zero is pending; so they do at any time if no such debt is ever   *)
(* locked.                                                                 *)
THEOREM AssetsAlwaysCoverPromised ==
  ASSUME IsFiniteSet(XHashes)
  PROVE  /\ Spec => PromisesAreKept
         /\ Spec => ([]NoNegativeDebt => []AssetsCoverPromised)
<1>1. Init => Inv /\ AssetsCoverPromised
  BY InitInv, InitCovered, EosConstants
<1>2. Inv /\ [Next]_vars => Inv'
  BY NextInv, EosConstants
<1>3. Inv /\ [Next]_vars /\ AssetsCoverPromised /\ NoNegativeDebt => AssetsCoverPromised'
  BY <1>2, NextCovered, EosConstants
<1>4. Inv /\ [Next]_vars => [AssetsCoverPromised /\ NoNegativeDebt => AssetsCoverPromised']_vars
  BY <1>3
<1>5. Spec => PromisesAreKept
  BY <1>1, <1>2, <1>4, PTL DEF Spec, PromisesAreKept
<1>6. Spec => ([]NoNegativeDebt => []AssetsCoverPromised)
  BY <1>1, <1>2, <1>3, PTL DEF Spec
<1> QED
  BY <1>5, <1>6

(* No debt is below zero where none is asked for.                          *)
LEMMA DebtsStayPositive ==
  ASSUME DebtAmounts \subseteq Nat
  PROVE  Spec => []NoNegativeDebt
<1>1. Init => Inv /\ NoNegativeDebt
  BY InitInv, EosConstants DEF Init, NoNegativeDebt, Live
<1>2. Inv /\ NoNegativeDebt /\ [Next]_vars => Inv' /\ NoNegativeDebt'
  <2> SUFFICES ASSUME Inv, NoNegativeDebt, [Next]_vars
               PROVE  Inv' /\ NoNegativeDebt'
    OBVIOUS
  <2>1. Inv' /\ EosConstants
    BY NextInv, EosConstants
  <2>3. debts \in [XHashes -> DebtRow \cup {NoRow}]
    BY DEF Inv, TypeOK
  <2>4. \A x \in XHashes : debts'[x] # NoRow => debts'[x].quantity >= 0
    <3>1. CASE UNCHANGED debts
      BY <3>1 DEF NoNegativeDebt, Live
    <3>2. ASSUME NEW npk \in PKs, NEW pk \in PKs, NEW t \in Tokens, NEW q \in DebtAmounts,
                 NEW x \in XHashes, Lockdebt(npk, t, q, x, pk)
          PROVE  \A y \in XHashes : debts'[y] # NoRow => debts'[y].quantity >= 0
      <4>1. q \in Nat /\ debts'[x].quantity = q /\ \A y \in XHashes \ {x} : debts'[y] = debts[y]
        BY <2>3, <3>2 DEF Lockdebt
      <4> QED
        BY <4>1 DEF NoNegativeDebt, Live
    <3>3. ASSUME NEW x \in XHashes, debts' = [debts EXCEPT ![x] = NoRow]
          PROVE  \A y \in XHashes : debts'[y] # NoRow => debts'[y].quantity >= 0
      BY <2>3, <3>3 DEF NoNegativeDebt, Live
    <3>4. CASE Tick
      <4>1. ASSUME NEW x \in XHashes, debts'[x] # NoRow
            PROVE  debts'[x].quantity >= 0
        <5>1. debts[x] # NoRow /\ debts'[x] = Older(debts[x])
          BY <3>4, <4>1 DEF Tick, Aged
        <5>2. debts[x] \in DebtRow
          BY <2>3, <5>1
        <5>3. debts'[x].quantity = debts[x].quantity
          BY <5>1, <5>2 DEF Older, DebtRow
        <5> QED
          BY <5>1, <5>3 DEF NoNegativeDebt, Live
      <4> QED
        BY <4>1
    <3>5. CASE UserNext
      BY <3>1, <3>5 DEF UserNext, Inlock, OtherTransfer, Outredeem, Inrevoke
    <3>6. CASE StoremanNext
      <4>1. \/ UNCHANGED debts
            \/ \E npk, pk \in PKs, t \in Tokens, q \in DebtAmounts, x \in XHashes :
                 Lockdebt(npk, t, q, x, pk)
            \/ \E x \in XHashes : debts' = [debts EXCEPT ![x] = NoRow]
        BY <3>6 DEF StoremanNext, Inredeem, Outlock, Outrevoke, Redeemdebt, Revokedebt,
           WithdrawAll, WithdrawAccount, WithdrawToken
      <4> QED
        BY <3>1, <3>2, <3>3, <4>1
    <3>7. CASE OwnerNext \/ UNCHANGED vars
      BY <3>1, <3>7 DEF OwnerNext, Setratio, Regsig, Updatesig, Unregsig, vars
    <3> QED
      BY <3>4, <3>5, <3>6, <3>7 DEF Next
  <2> QED
    BY <2>1, <2>4 DEF NoNegativeDebt, Live
<1> QED
  BY <1>1, <1>2, PTL DEF Spec

(* Where the revoke costs nothing no storeman has fees.                    *)
NoFees == ratio = 0 /\ \A p \in Pids, t \in Tokens : fees[p][t] = NoRow

LEMMA FreeRevokesKeepFeesApart ==
  ASSUME Ratios \subseteq {0}
  PROVE  Spec => []FeesKeepApart
<1>1. Init => Inv /\ NoFees
  BY InitInv, EosConstants DEF Init, NoFees
<1>2. Inv /\ NoFees /\ [Next]_vars => Inv' /\ NoFees'
  <2> SUFFICES ASSUME Inv, NoFees, [Next]_vars
               PROVE  Inv' /\ NoFees'
    OBVIOUS
  <2>1. Inv' /\ EosConstants
    BY NextInv, EosConstants
  <2> SUFFICES NoFees'
    BY <2>1
  <2>2. ASSUME UNCHANGED <<fees, ratio>> PROVE NoFees'
    BY <2>2 DEF NoFees
  <2>3. fees \in Book(Nat)
    BY DEF Inv, TypeOK
  <2>4. ASSUME NEW pid \in Pids, NEW payer, IssueFees(pid, payer), UNCHANGED ratio PROVE NoFees'
    BY <2>3, <2>4 DEF NoFees, IssueFees, Book
  <2>5. ASSUME NEW x \in XHashes, Inrevoke(x) PROVE NoFees'
    <3>1. transfers[x] \in TransferRow
      BY <2>5, LiveRows DEF Inv, Inrevoke
    <3>2. transfers[x].quantity \in Nat /\ ratio = 0 /\ RatioPrecise \in Nat \ {0}
      BY <2>1, <3>1 DEF TransferRow, NoFees, EosConstants
    <3>3. transfers[x].quantity * ratio = 0
      BY <3>2
    <3>4. 0 \div RatioPrecise = 0
      BY <3>2
    <3>5. RevokeFee(transfers[x].quantity) = 0
      BY <3>2, <3>3, <3>4 DEF RevokeFee, ProratedFee
    <3>6. UNCHANGED <<fees, ratio>>
      BY <2>5, <3>5 DEF Inrevoke
    <3> QED
      BY <2>2, <3>6
  <2>6. CASE UserNext
    BY <2>2, <2>5, <2>6 DEF UserNext, Inlock, OtherTransfer, Outredeem
  <2>7. CASE StoremanNext
    <3>1. \/ UNCHANGED <<fees, ratio>>
          \/ \E pk \in PKs : WithdrawAll(pk)
          \/ \E pk \in PKs, t \in Tokens : WithdrawAccount(pk, t.account)
          \/ \E pk \in PKs, t \in Tokens : WithdrawToken(pk, t)
      BY <2>7 DEF StoremanNext, Inredeem, Outlock, Outrevoke, Lockdebt, Redeemdebt, Revokedebt
    <3> QED
      BY <2>2, <2>4, <3>1 DEF WithdrawAll, WithdrawAccount, WithdrawToken
  <2>8. CASE OwnerNext
    <3>1. CASE \E r \in Ratios : Setratio(r)
      BY <3>1 DEF Setratio, NoFees
    <3>2. CASE ~ \E r \in Ratios : Setratio(r)
      BY <2>2, <2>8, <3>2 DEF OwnerNext, Regsig, Updatesig, Unregsig
    <3> QED
      BY <3>1, <3>2
  <2>9. CASE Tick \/ UNCHANGED vars
    BY <2>2, <2>9 DEF Tick, vars
  <2> QED
    BY <2>1, <2>6, <2>7, <2>8, <2>9 DEF Next
<1>3. NoFees => FeesKeepApart
  BY DEF NoFees, FeesKeepApart, FeeRows
<1> QED
  BY <1>1, <1>2, <1>3, PTL DEF Spec

(* No more tokens are in the vault than are in existence.                  *)
VaultInSupply == \A t \in Tokens : vault[t] <= Supply

LEMMA VaultStaysInSupply == Spec => []VaultInSupply
<1>1. Init => Inv /\ VaultInSupply
  BY InitInv, EosConstants DEF Init, VaultInSupply, EosConstants
<1>2. Inv /\ VaultInSupply /\ [Next]_vars => Inv' /\ VaultInSupply'
  <2> SUFFICES ASSUME Inv, VaultInSupply, [Next]_vars
               PROVE  Inv' /\ VaultInSupply'
    OBVIOUS
  <2>1. Inv' /\ EosConstants
    BY NextInv, EosConstants
  <2> SUFFICES VaultInSupply'
    BY <2>1
  <2>2. vault \in [Tokens -> Nat] /\ Supply \in Nat /\ Issued \subseteq Tokens
    BY <2>1 DEF Inv, TypeOK, EosConstants
  <2>3. CASE UNCHANGED vault
    BY <2>3 DEF VaultInSupply
  <2>4. ASSUME NEW t \in Tokens, NEW q \in Nat,
               vault' = [vault EXCEPT ![t] = @ + q], vault[t] + q <= Supply
        PROVE  VaultInSupply'
    BY <2>2, <2>4 DEF VaultInSupply
  <2>5. ASSUME NEW t \in Tokens, NEW q \in Nat
        PROVE  Left(t, q) <= Supply
    <3>1. vault[t] \in Nat /\ vault[t] <= Supply
      BY <2>2 DEF VaultInSupply
    <3> QED
      BY <2>2, <3>1 DEF Left
  <2>6. ASSUME NEW t \in Tokens, NEW q \in Nat, vault' = [vault EXCEPT ![t] = Left(t, q)]
        PROVE  VaultInSupply'
    BY <2>2, <2>5, <2>6 DEF VaultInSupply
  <2>7. CASE UserNext
    <3>1. ASSUME NEW u \in Users, NEW t \in Issued, NEW q \in Amounts, NEW x \in XHashes,
                 NEW pk \in PKs, Inlock(u, t, q, x, pk)
          PROVE  VaultInSupply'
      BY <2>1, <2>2, <2>4, <3>1 DEF Inlock, EosConstants
    <3>2. ASSUME NEW t \in Issued, NEW q \in Amounts, OtherTransfer(t, q)
          PROVE  VaultInSupply'
      BY <2>1, <2>2, <2>4, <3>2 DEF OtherTransfer, EosConstants
    <3>3. ASSUME NEW u \in Users, NEW x \in XHashes, Outredeem(u, x)
          PROVE  VaultInSupply'
      <4>1. transfers[x] \in TransferRow
        BY <3>3, LiveRows DEF Inv, Outredeem
      <4> QED
        BY <2>6, <3>3, <4>1 DEF Outredeem, TransferRow
    <3>4. ASSUME NEW x \in XHashes, Inrevoke(x)
          PROVE  VaultInSupply'
      <4> DEFINE row == transfers[x]
                 fee == RevokeFee(row.quantity)
      <4>1. row \in TransferRow /\ ProratedFee(row.quantity) <= row.quantity
        BY <3>4, LiveRows DEF Inv, Inrevoke
      <4>2. row.token \in Tokens /\ row.quantity \in Nat
        BY <4>1 DEF TransferRow
      <4>3. fee \in 0..row.quantity
        BY <2>1, <4>1, <4>2, RevokeFeeIsPart DEF Inv, TypeOK
      <4>4. row.quantity - fee \in Nat
        BY <4>2, <4>3
      <4>5. vault' = [vault EXCEPT ![row.token] = Left(row.token, row.quantity - fee)]
        BY <3>4 DEF Inrevoke
      <4> HIDE DEF row, fee
      <4> QED
        BY <2>6, <4>2, <4>4, <4>5
    <3> QED
      BY <2>7, <3>1, <3>2, <3>3, <3>4 DEF UserNext
  <2>8. CASE StoremanNext
    <3>1. ASSUME NEW pid \in Pids, NEW payer, DOMAIN payer \subseteq FeeRows(pid),
                 IssueFees(pid, payer)
          PROVE  VaultInSupply'
      <4>1. \A t \in Tokens : Paid(pid, payer, t) \in Nat
        BY <2>1, <3>1, PaidOfRows DEF Inv
      <4> QED
        BY <2>5, <3>1, <4>1 DEF IssueFees, VaultInSupply
    <3>2. \/ UNCHANGED vault
          \/ \E pk \in PKs : WithdrawAll(pk)
          \/ \E pk \in PKs, t \in Tokens : WithdrawAccount(pk, t.account)
          \/ \E pk \in PKs, t \in Tokens : WithdrawToken(pk, t)
      BY <2>8 DEF StoremanNext, Inredeem, Outlock, Outrevoke, Lockdebt, Redeemdebt, Revokedebt
    <3>3. CASE \E pk \in PKs : WithdrawAll(pk)
      BY <3>1, <3>3, WithdrawalPays DEF WithdrawAll
    <3>4. CASE \E pk \in PKs, t \in Tokens : WithdrawAccount(pk, t.account)
      BY <3>1, <3>4, WithdrawalPays DEF WithdrawAccount
    <3>5. CASE \E pk \in PKs, t \in Tokens : WithdrawToken(pk, t)
      BY <3>1, <3>5, WithdrawalPays DEF WithdrawToken
    <3> QED
      BY <2>3, <3>2, <3>3, <3>4, <3>5
  <2>9. CASE OwnerNext \/ Tick \/ UNCHANGED vars
    BY <2>3, <2>9 DEF OwnerNext, Setratio, Regsig, Updatesig, Unregsig, Tick, vars
  <2> QED
    BY <2>1, <2>7, <2>8, <2>9 DEF Next
<1> QED
  BY <1>1, <1>2, PTL DEF Spec

-----------------------------------------------------------------------------
(* What a redeem asks of the books: the key of its row, and a balance that *)
(* covers it, in the table assets for what the storeman gives up and in    *)
(* the vault for what the user is paid.                                    *)

EveryPromiseIsCovered ==
  /\ \A x \in XHashes : transfers[x] # NoRow => HasPK(transfers[x].pid)
  /\ \A x \in XHashes :
       /\ transfers[x] # NoRow /\ transfers[x].status = "outlock" /\ transfers[x].quantity > 0
       => Enough(assets, transfers[x].pid, transfers[x].token, transfers[x].quantity)
  /\ \A x \in XHashes :
       /\ debts[x] # NoRow /\ debts[x].quantity > 0
       => /\ HasPK(debts[x].pid)
          /\ Enough(assets, debts[x].pid, debts[x].token, debts[x].quantity)

LEMMA OneRowOfTotal ==
  ASSUME IsFiniteSet(XHashes),
         NEW table, NEW rows \in SUBSET XHashes, \A x \in rows : table[x].quantity \in Nat
  PROVE  /\ Total(table, rows) \in Nat
         /\ \A x \in rows : Total(table, rows) >= table[x].quantity
<1> DEFINE f == Counted(table, rows)
<1>1. Total(table, rows) = SumOf(f, XHashes)
  <2>1. \A x \in rows : table[x].quantity \in Int
    OBVIOUS
  <2> QED
    BY <2>1, TotalIsCounted
<1>2. Counts(f, XHashes) /\ \A x \in rows : f[x] = table[x].quantity
  BY DEF Counted, Counts
<1> HIDE DEF f
<1>3. ASSUME NEW x \in rows PROVE SumOf(f, XHashes) >= f[x]
  <2>1. Counts(f, XHashes \ {x})
    BY <1>2, FS_Subset DEF Counts
  <2>2. /\ SumOf(f, XHashes) = f[x] + SumOf(f, XHashes \ {x})
        /\ SumOf(f, XHashes \ {x}) \in Nat /\ f[x] \in Nat
    BY <1>2, <2>1, SumStep DEF Counts
  <2> QED
    BY <2>2
<1>4. SumOf(f, XHashes) \in Nat
  BY <1>2, SumStep
<1> QED
  BY <1>1, <1>2, <1>3, <1>4

LEMMA PromiseIsPart ==
  ASSUME EosConstants, IsFiniteSet(XHashes), Inv, NoNegativeDebt, NEW x \in XHashes
  PROVE  /\ transfers[x] # NoRow /\ transfers[x].status = "outlock" =>
              Promised(transfers[x].pid, transfers[x].token) >= transfers[x].quantity
         /\ debts[x] # NoRow => Promised(debts[x].pid, debts[x].token) >= debts[x].quantity
<1>0. \A y \in XHashes : debts[y] # NoRow => debts[y] \in DebtRow /\ debts[y].quantity \in Nat
  BY LiveRows DEF Inv, DebtRow, NoNegativeDebt, Live
<1>1. ASSUME NEW p, NEW t
      PROVE  /\ Total(transfers, OutlockRows(transfers, p, t)) \in Nat
             /\ \A y \in OutlockRows(transfers, p, t) :
                  Total(transfers, OutlockRows(transfers, p, t)) >= transfers[y].quantity
             /\ Total(debts, DebtRows(debts, p, t)) \in Nat
             /\ \A y \in DebtRows(debts, p, t) :
                  Total(debts, DebtRows(debts, p, t)) >= debts[y].quantity
  <2> DEFINE locks == OutlockRows(transfers, p, t)
             owed == DebtRows(debts, p, t)
  <2>1. locks \in SUBSET XHashes /\ \A y \in locks : transfers[y].quantity \in Nat
    BY LiveRows DEF Live, OutlockRows, Inv, TransferRow
  <2>2. owed \in SUBSET XHashes /\ \A y \in owed : debts[y].quantity \in Nat
    BY <1>0 DEF Live, DebtRows
  <2> HIDE DEF locks, owed
  <2> QED
    BY <2>1, <2>2, OneRowOfTotal DEF locks, owed
<1>2. ASSUME transfers[x] # NoRow, transfers[x].status = "outlock"
      PROVE  Promised(transfers[x].pid, transfers[x].token) >= transfers[x].quantity
  <2> DEFINE p == transfers[x].pid
             t == transfers[x].token
  <2>1. x \in OutlockRows(transfers, p, t) /\ transfers[x].quantity \in Nat
    BY <1>2, LiveRows DEF Live, OutlockRows, Inv, TransferRow
  <2> HIDE DEF p, t
  <2>2. Promised(p, t) >= transfers[x].quantity
    BY <1>1, <2>1, PromisedParts
  <2> QED
    BY <2>2 DEF p, t
<1>3. ASSUME debts[x] # NoRow
      PROVE  Promised(debts[x].pid, debts[x].token) >= debts[x].quantity
  <2> DEFINE p == debts[x].pid
             t == debts[x].token
  <2>1. x \in DebtRows(debts, p, t) /\ debts[x].quantity \in Nat
    BY <1>0, <1>3 DEF Live, DebtRows
  <2> HIDE DEF p, t
  <2>2. Promised(p, t) >= debts[x].quantity
    BY <1>1, <2>1, PromisedParts
  <2> QED
    BY <2>2 DEF p, t
<1> QED
  BY <1>2, <1>3

(* As long as no debt below zero is pending, no outredeem and no           *)
(* redeemdebt is refused for want of an asset or a key, and no inredeem    *)
(* for want of a key: the row of a promise finds what it names, for any    *)
(* storemen, tokens and amounts.                                           *)
THEOREM PromisesAreAlwaysCovered ==
  ASSUME IsFiniteSet(XHashes)
  PROVE  Spec => ([]NoNegativeDebt => []EveryPromiseIsCovered)
<1>1. ASSUME Inv, NoNegativeDebt, AssetsCoverPromised
      PROVE  EveryPromiseIsCovered
  <2>1. ASSUME NEW p \in Pids, NEW t \in Tokens, NEW q \in Int, q > 0, Promised(p, t) >= q
        PROVE  Enough(assets, p, t, q)
    <3>1. /\ Promised(p, t) \in Nat
          /\ Balance(assets, p, t) >= Promised(p, t)
          /\ assets[p][t] \in Int \cup {NoRow}
      BY <1>1, PromisedIsSeen, Books, EosConstants DEF AssetsCoverPromised, Inv, Book
    <3> QED
      BY <2>1, <3>1 DEF Balance, Enough
  <2>2. \A x \in XHashes :
          /\ transfers[x] # NoRow => /\ transfers[x].pid \in Pids /\ transfers[x].token \in Tokens
                                     /\ transfers[x].quantity \in Int
                                     /\ HasPK(transfers[x].pid)
          /\ debts[x] # NoRow => /\ debts[x].pid \in Pids /\ debts[x].token \in Tokens
                                 /\ debts[x].quantity \in Int
                                 /\ HasPK(debts[x].pid)
    BY <1>1, LiveRows DEF Inv, TransferRow, DebtRow, RecordsHaveTheirPk
  <2>3. \A x \in XHashes :
          /\ transfers[x] # NoRow /\ transfers[x].status = "outlock" =>
               Promised(transfers[x].pid, transfers[x].token) >= transfers[x].quantity
          /\ debts[x] # NoRow => Promised(debts[x].pid, debts[x].token) >= debts[x].quantity
    BY <1>1, PromiseIsPart, EosConstants
  <2> QED
    BY <2>1, <2>2, <2>3 DEF EveryPromiseIsCovered
<1>2. Spec => []Inv
  BY InitInv, NextInv, EosConstants, PTL DEF Spec
<1> QED
  BY <1>1, <1>2, AssetsAlwaysCoverPromised, PTL

(* Every transfer is paid out of tokens the contract has: the vault covers *)
(* each inlock, which goes back to its user or stays as the storeman's     *)
(* asset, and each outlock, which goes to its user.                        *)
VaultCoversEachTransfer ==
  \A x \in XHashes : transfers[x] # NoRow /\ transfers[x].token \in Issued =>
    vault[transfers[x].token] >= transfers[x].quantity

(* And no redeem leaves the range of an asset.                             *)
EveryRedeemFits ==
  /\ \A x \in XHashes :
       /\ transfers[x] # NoRow /\ transfers[x].status = "inlock" /\ transfers[x].token \in Issued
       => Fits(Balance(assets, transfers[x].pid, transfers[x].token) + transfers[x].quantity)
  /\ \A x \in XHashes :
       /\ debts[x] # NoRow /\ debts[x].token \in Issued
       /\ Enough(assets, debts[x].pid, debts[x].token, debts[x].quantity)
       => LET less == SubFrom(assets, debts[x].pid, debts[x].token, debts[x].quantity)
          IN  /\ Fits(Balance(less, debts[x].pid, debts[x].token))
              /\ Fits(Balance(less, debts[x].npid, debts[x].token) + debts[x].quantity)

(* Of balances that are not negative one, or two, are part of the sum.     *)
LEMMA BalanceIsPart ==
  ASSUME EosConstants, NEW book \in Book(Int), NEW t \in Tokens,
         \A p \in Pids : Balance(book, p, t) >= 0
  PROVE  /\ Held(book, t) \in Nat
         /\ \A p \in Pids : /\ Balance(book, p, t) \in Nat
                            /\ Held(book, t) >= Balance(book, p, t)
         /\ \A p, n \in Pids : p # n =>
              Held(book, t) >= Balance(book, p, t) + Balance(book, n, t)
<1> DEFINE f == HeldBy(book, t)
<1>1. Summable(f, Pids) /\ Held(book, t) = SumOf(f, Pids) /\ \A p \in Pids : f[p] = Balance(book, p, t)
  BY HeldIsSum DEF HeldBy
<1> HIDE DEF f
<1>2. \A p \in Pids : f[p] \in Nat
  BY <1>1 DEF Summable
<1>3. Counts(f, Pids)
  BY <1>1, <1>2 DEF Summable, Counts
<1>4. ASSUME NEW S \in SUBSET Pids, NEW p \in S
      PROVE  /\ SumOf(f, S) = f[p] + SumOf(f, S \ {p})
             /\ SumOf(f, S) \in Nat /\ SumOf(f, S \ {p}) \in Nat
  <2>1. Counts(f, S) /\ Counts(f, S \ {p})
    BY <1>3, FS_Subset DEF Counts
  <2> QED
    BY <2>1, SumStep DEF Counts
<1>5. ASSUME NEW p \in Pids PROVE SumOf(f, Pids) >= f[p]
  <2>1. /\ SumOf(f, Pids) = f[p] + SumOf(f, Pids \ {p})
        /\ SumOf(f, Pids \ {p}) \in Nat
    BY <1>4
  <2> QED
    BY <1>2, <2>1
<1>6. ASSUME NEW p \in Pids, NEW n \in Pids, p # n
      PROVE  SumOf(f, Pids) >= f[p] + f[n]
  <2>1. /\ SumOf(f, Pids) = f[p] + SumOf(f, Pids \ {p})
        /\ SumOf(f, Pids \ {p}) = f[n] + SumOf(f, (Pids \ {p}) \ {n})
        /\ SumOf(f, (Pids \ {p}) \ {n}) \in Nat
    BY <1>4, <1>6
  <2> QED
    BY <1>2, <2>1
<1>7. SumOf(f, Pids) \in Nat
  BY <1>3, SumStep
<1> QED
  BY <1>1, <1>2, <1>5, <1>6, <1>7

(* What is locked and held of a token is in the vault.                     *)
LEMMA HeldInVault ==
  ASSUME EosConstants, IsFiniteSet(XHashes), Inv, NoNegativeDebt, VaultCoversOwed,
         AssetsCoverPromised, NEW t \in Issued
  PROVE  /\ vault[t] \in Nat
         /\ \A p \in Pids : Balance(assets, p, t) \in Nat /\ vault[t] >= Balance(assets, p, t)
         /\ \A p, n \in Pids : p # n =>
              vault[t] >= Balance(assets, p, t) + Balance(assets, n, t)
         /\ \A x \in XHashes :
              transfers[x] # NoRow /\ transfers[x].status = "inlock" /\ transfers[x].token = t
              => \A p \in Pids : vault[t] >= Balance(assets, p, t) + transfers[x].quantity
<1> DEFINE ins == InlockRows(transfers, t)
<1>0. t \in Tokens
  BY DEF EosConstants
<1>1. /\ assets \in Book(Int) /\ fees \in Book(Int) /\ vault[t] \in Nat
      /\ \A p \in Pids : Balance(fees, p, t) >= 0
  BY <1>0, Books DEF Inv, TypeOK
<1>2. \A p \in Pids : Balance(assets, p, t) >= 0
  <2>1. ASSUME NEW p \in Pids PROVE Balance(assets, p, t) >= 0
    <3>1. /\ Promised(p, t) \in Nat /\ Balance(assets, p, t) >= Promised(p, t)
          /\ Balance(assets, p, t) \in Int
      BY <1>0, Books, PromisedIsSeen DEF AssetsCoverPromised, Inv
    <3> QED
      BY <3>1
  <2> QED
    BY <2>1
<1>3. /\ Held(assets, t) \in Nat /\ Held(fees, t) \in Nat
      /\ \A p \in Pids : /\ Balance(assets, p, t) \in Nat
                         /\ Held(assets, t) >= Balance(assets, p, t)
      /\ \A p, n \in Pids : p # n =>
           Held(assets, t) >= Balance(assets, p, t) + Balance(assets, n, t)
  BY <1>0, <1>1, <1>2, BalanceIsPart
<1>4. /\ ins \in SUBSET XHashes /\ \A y \in ins : transfers[y].quantity \in Nat
      /\ \A x \in XHashes : x \in ins <=>
           transfers[x] # NoRow /\ transfers[x].status = "inlock" /\ transfers[x].token = t
  BY LiveRows DEF Inv, TransferRow, Live, InlockRows
<1> HIDE DEF ins
<1>5. /\ Total(transfers, ins) \in Nat
      /\ \A y \in ins : Total(transfers, ins) >= transfers[y].quantity
  BY <1>4, OneRowOfTotal
<1>6. Surplus(t) >= 0 /\ Surplus(t) = vault[t] - (Total(transfers, ins) + Held(assets, t) + Held(fees, t))
  BY SurplusParts DEF VaultCoversOwed, ins
<1>7. vault[t] >= Total(transfers, ins) + Held(assets, t)
  BY <1>1, <1>3, <1>5, <1>6
<1>8. \A x \in ins, p \in Pids : vault[t] >= Balance(assets, p, t) + transfers[x].quantity
  BY <1>1, <1>3, <1>4, <1>5, <1>7
<1>9. vault[t] >= Held(assets, t)
  BY <1>1, <1>3, <1>5, <1>7
<1>10. \A p \in Pids : Balance(assets, p, t) \in Nat /\ vault[t] >= Balance(assets, p, t)
  BY <1>1, <1>3, <1>9
<1>11. \A p, n \in Pids : p # n => vault[t] >= Balance(assets, p, t) + Balance(assets, n, t)
  BY <1>1, <1>3, <1>9
<1> QED
  BY <1>1, <1>4, <1>8, <1>10, <1>11

(* As long as no debt below zero is pending and fees keep apart, no        *)
(* transfer fails for want of tokens in the contract, whatever tokens      *)
(* share a symbol.                                                         *)
THEOREM VaultAlwaysCoversEachTransfer ==
  ASSUME IsFiniteSet(XHashes)
  PROVE  Spec => ([]NoNegativeDebt /\ []FeesKeepApart => []VaultCoversEachTransfer)
<1>1. ASSUME Inv, NoNegativeDebt, VaultCoversOwed, AssetsCoverPromised, EveryPromiseIsCovered
      PROVE  VaultCoversEachTransfer
  <2> SUFFICES ASSUME NEW x \in XHashes, transfers[x] # NoRow, transfers[x].token \in Issued
               PROVE  vault[transfers[x].token] >= transfers[x].quantity
    BY DEF VaultCoversEachTransfer
  <2> DEFINE row == transfers[x]
             t == row.token
  <2>1. /\ row.pid \in Pids /\ row.quantity \in Nat /\ row.status \in {"inlock", "outlock"}
        /\ row.status = "outlock" /\ row.quantity > 0 => Enough(assets, row.pid, t, row.quantity)
    BY <1>1, LiveRows DEF Inv, TransferRow, EveryPromiseIsCovered
  <2>2. /\ vault[t] \in Nat
        /\ Balance(assets, row.pid, t) \in Nat /\ vault[t] >= Balance(assets, row.pid, t)
        /\ row.status = "inlock" => vault[t] >= Balance(assets, row.pid, t) + row.quantity
    BY <1>1, <2>1, HeldInVault, EosConstants
  <2> HIDE DEF row
  <2>3. row.status = "outlock" => Balance(assets, row.pid, t) >= row.quantity
    BY <2>1, <2>2 DEF Balance, Enough
  <2>4. vault[t] >= row.quantity
    BY <2>1, <2>2, <2>3
  <2> QED
    BY <2>4 DEF row
<1>2. Spec => []Inv
  BY InitInv, NextInv, EosConstants, PTL DEF Spec
<1> QED
  BY <1>1, <1>2, VaultAlwaysCoversOwed, AssetsAlwaysCoverPromised, PromisesAreAlwaysCovered, PTL
     DEF TokensAreCovered

(* And no inredeem or redeemdebt fails because a balance would leave the   *)
(* range of an asset, nor because one would fall below zero.               *)
THEOREM RedeemsAlwaysFit ==
  ASSUME IsFiniteSet(XHashes)
  PROVE  Spec => ([]NoNegativeDebt /\ []FeesKeepApart => []EveryRedeemFits)
<1>1. ASSUME Inv, NoNegativeDebt, VaultCoversOwed, AssetsCoverPromised, VaultInSupply
      PROVE  EveryRedeemFits
  <2>1. ASSUME NEW t \in Issued
        PROVE  \A n \in Int : n >= 0 /\ vault[t] >= n => Fits(n)
    <3>1. vault[t] \in Nat /\ vault[t] <= Supply /\ Supply \in Nat /\ MaxAmount \in Nat
          /\ Supply <= MaxAmount
      BY <1>1, EosConstants DEF Inv, TypeOK, VaultInSupply, EosConstants
    <3> QED
      BY <3>1 DEF Fits
  <2>2. ASSUME NEW x \in XHashes, transfers[x] # NoRow, transfers[x].status = "inlock",
               transfers[x].token \in Issued
        PROVE  Fits(Balance(assets, transfers[x].pid, transfers[x].token) + transfers[x].quantity)
    <3> DEFINE row == transfers[x]
               b == Balance(assets, row.pid, row.token)
    <3>1. row.pid \in Pids /\ row.quantity \in Nat
      BY <1>1, <2>2, LiveRows DEF Inv, TransferRow
    <3>2. b \in Nat /\ vault[row.token] >= b + row.quantity
      BY <1>1, <2>2, <3>1, HeldInVault, EosConstants
    <3> HIDE DEF b
    <3>3. b + row.quantity \in Int /\ b + row.quantity >= 0
      BY <3>1, <3>2
    <3>4. Fits(b + row.quantity)
      BY <2>1, <2>2, <3>2, <3>3
    <3> QED
      BY <3>4 DEF b
  <2>3. ASSUME NEW x \in XHashes, debts[x] # NoRow, debts[x].token \in Issued,
               Enough(assets, debts[x].pid, debts[x].token, debts[x].quantity)
        PROVE  LET less == SubFrom(assets, debts[x].pid, debts[x].token, debts[x].quantity)
               IN  /\ Fits(Balance(less, debts[x].pid, debts[x].token))
                   /\ Fits(Balance(less, debts[x].npid, debts[x].token) + debts[x].quantity)
    <3> DEFINE p == debts[x].pid
               n == debts[x].npid
               t == debts[x].token
               q == debts[x].quantity
               less == SubFrom(assets, p, t, q)
    <3>1. p \in Pids /\ n \in Pids /\ t \in Tokens /\ q \in Nat /\ Enough(assets, p, t, q)
      BY <1>1, <2>3, LiveRows DEF Inv, DebtRow, NoNegativeDebt, Live
    <3>2. /\ assets \in Book(Int) /\ t \in Issued
      BY <1>1, <2>3, Books DEF Inv
    <3> HIDE DEF p, n, t, q
    <3>3. /\ Balance(assets, p, t) >= q
          /\ Balance(less, p, t) = Balance(assets, p, t) - q
          /\ n # p => Balance(less, n, t) = Balance(assets, n, t)
      <4>1. q \in Int
        BY <3>1
      <4> QED
        BY <3>1, <3>2, <4>1, BalanceAfterSub, EosConstants
    <3> HIDE DEF less
    <3>4. /\ Balance(assets, p, t) \in Nat /\ Balance(assets, n, t) \in Nat /\ vault[t] \in Nat
          /\ vault[t] >= Balance(assets, p, t)
          /\ n # p => vault[t] >= Balance(assets, p, t) + Balance(assets, n, t)
      BY <1>1, <3>1, <3>2, HeldInVault, EosConstants
    <3>5. Fits(Balance(less, p, t))
      BY <2>1, <3>1, <3>2, <3>3, <3>4
    <3>6. CASE n = p
      <4>1. Balance(less, n, t) + q = Balance(assets, p, t)
        BY <3>1, <3>3, <3>4, <3>6
      <4> QED
        BY <2>1, <3>2, <3>4, <3>5, <4>1 DEF less, p, n, t, q
    <3>7. CASE n # p
      <4> DEFINE b == Balance(assets, n, t) + q
      <4>1. b \in Int /\ b >= 0 /\ vault[t] >= b
        BY <3>1, <3>3, <3>4, <3>7
      <4>2. Balance(less, n, t) + q = b
        BY <3>3, <3>7
      <4> HIDE DEF b
      <4>3. Fits(b)
        BY <2>1, <3>2, <4>1
      <4> QED
        BY <3>5, <4>2, <4>3 DEF less, p, n, t, q
    <3> QED
      BY <3>6, <3>7
  <2> QED
    BY <2>2, <2>3 DEF EveryRedeemFits
<1>2. Spec => []Inv
  BY InitInv, NextInv, EosConstants, PTL DEF Spec
<1> QED
  BY <1>1, <1>2, VaultAlwaysCoversOwed, AssetsAlwaysCoverPromised, VaultStaysInSupply, PTL
     DEF TokensAreCovered
=============================================================================
