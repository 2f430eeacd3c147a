--------------------------- MODULE EosHtlcV1Proofs ---------------------------
(***************************************************************************)
(* What holds of EosHtlcV1 for every set of users, keys, hashes and        *)
(* tokens.  Its records keep their keys as those of EosHtlc do, and so do  *)
(* the receivers of its debts, which EosHtlc may forget.                   *)
(***************************************************************************)
EXTENDS EosHtlcV1, EosHtlcProofs, WellFoundedInduction

(* The receiver of a debt has its key, like the debtor. *)
ReceiversHaveTheirPk == \A x \in XHashes : debts[x] # NoRow => HasPK(debts[x].npid)

V1Inv == Inv /\ ReceiversHaveTheirPk

LEMMA V1InitInv == EosConstants /\ Init => V1Inv
BY InitInv DEF V1Inv, ReceiversHaveTheirPk, Init

(* What has to be shown of a step for the receivers to keep their keys.    *)
LEMMA ReceiversKeepTheirPk ==
  ASSUME V1Inv,
         \A p \in Pids : pks[p] # NoRow /\ pks'[p] = NoRow =>
            \A x \in XHashes : debts'[x] # NoRow => debts'[x].npid # p,
         \A x \in XHashes : debts'[x] # NoRow =>
            \/ debts[x] # NoRow /\ debts'[x].npid = debts[x].npid
            \/ pks'[debts'[x].npid] # NoRow
  PROVE  ReceiversHaveTheirPk'
<1>1. ASSUME NEW x \in XHashes, debts'[x] # NoRow
      PROVE  pks'[debts'[x].npid] # NoRow
  <2>1. CASE debts[x] # NoRow /\ debts'[x].npid = debts[x].npid
    <3>1. debts[x].npid \in Pids /\ pks[debts[x].npid] # NoRow
      BY <2>1, LiveRows DEF V1Inv, Inv, ReceiversHaveTheirPk, HasPK, DebtRow
    <3> QED
      BY <1>1, <2>1, <3>1
  <2> QED
    BY <1>1, <2>1
<1> QED
  BY <1>1 DEF ReceiversHaveTheirPk, HasPK

(* A step that touches neither debts nor keys disturbs no receiver.        *)
LEMMA SameReceivers ==
  ASSUME ReceiversHaveTheirPk, UNCHANGED <<debts, pks>>
  PROVE  ReceiversHaveTheirPk'
BY DEF ReceiversHaveTheirPk, HasPK

-----------------------------------------------------------------------------
(* The actions that EosHtlc does not have in the same form. *)

LEMMA UpdatepkInv ==
  ASSUME EosConstants, V1Inv, NEW npk \in PKs, NEW pk \in PKs, Updatepk(npk, pk)
  PROVE  V1Inv'
<1>1. PICK pid \in Pids : FindPK(pk, pid) /\ pks' = [pks EXCEPT ![pid] = npk]
  BY DEF Updatepk
<1>2. /\ \A p \in Pids : pks[p] # npk
      /\ npk # NoRow
      /\ UNCHANGED <<transfers, debts, assets, fees, ratio, signers, vault>>
  BY DEF Updatepk, FindPK, EosConstants
<1>3. pks \in [Pids -> PKs \cup {NoRow}]
  BY DEF V1Inv, Inv, TypeOK
<1>4. \A p \in Pids : pks[p] # NoRow => pks'[p] # NoRow
  BY <1>1, <1>2, <1>3
<1>5. TypeOK'
  BY <1>1, <1>2 DEF V1Inv, Inv, TypeOK
<1>6. OneIdPerPk'
  BY <1>1, <1>2, <1>3 DEF V1Inv, Inv, OneIdPerPk, HasPK
<1>7. RecordsHaveTheirPk'
  BY <1>2, <1>4, RecordsKeepTheirPk DEF V1Inv
<1>8. ReceiversHaveTheirPk'
  BY <1>2, <1>4, ReceiversKeepTheirPk
<1> QED
  BY <1>5, <1>6, <1>7, <1>8 DEF V1Inv, Inv

LEMMA RemovepkInv ==
  ASSUME EosConstants, V1Inv, NEW pk \in PKs, Removepk(pk)
  PROVE  V1Inv'
<1>1. PICK pid \in Pids :
        /\ ~InDebt(pid) /\ ~InHtlc(pid)
        /\ ~HasRows(assets, pid) /\ ~HasRows(fees, pid)
        /\ pks' = [pks EXCEPT ![pid] = NoRow]
  BY DEF Removepk
<1>2. UNCHANGED <<transfers, debts, assets, fees, ratio, signers, vault>>
  BY DEF Removepk
<1>3. pks \in [Pids -> PKs \cup {NoRow}]
  BY DEF V1Inv, Inv, TypeOK
<1>4. \A p \in Pids : pks[p] # NoRow /\ pks'[p] = NoRow => p = pid
  BY <1>1, <1>3
<1>5. /\ \A x \in XHashes : transfers[x] # NoRow => transfers[x].pid # pid
      /\ \A x \in XHashes : debts[x] # NoRow => debts[x].pid # pid /\ debts[x].npid # pid
  BY <1>1 DEF InDebt, InHtlc, Live
<1>6. TypeOK'
  BY <1>1, <1>2 DEF V1Inv, Inv, TypeOK
<1>7. OneIdPerPk'
  BY <1>1, <1>3 DEF V1Inv, Inv, OneIdPerPk, HasPK
<1>8. RecordsHaveTheirPk'
  BY <1>1, <1>2, <1>4, <1>5, RecordsKeepTheirPk DEF V1Inv
<1>9. ReceiversHaveTheirPk'
  BY <1>2, <1>4, <1>5, ReceiversKeepTheirPk
<1> QED
  BY <1>6, <1>7, <1>8, <1>9 DEF V1Inv, Inv

LEMMA V1InlockInv ==
  ASSUME EosConstants, V1Inv,
         NEW u \in Users, NEW sent \in Issued, NEW t \in Tokens, NEW q \in Amounts,
         NEW x \in XHashes, NEW pk \in PKs, V1Inlock(u, sent, t.account, q, x, pk)
  PROVE  V1Inv'
<1> DEFINE token == [sent EXCEPT !.account = t.account]
<1>1. PICK pid \in Pids :
        /\ FindOrSavePk(pk, pid)
        /\ transfers' = [transfers EXCEPT ![x] =
             [status |-> "inlock", user |-> u, pid |-> pid, token |-> token,
              quantity |-> q, timeLeft |-> 2 * LockedTime]]
  BY DEF V1Inlock
<1>2. /\ pks' \in [Pids -> PKs \cup {NoRow}]
      /\ OneIdPerPk'
      /\ pks'[pid] # NoRow
      /\ \A p \in Pids : pks[p] # NoRow => pks'[p] # NoRow
  BY <1>1, FindOrSave DEF V1Inv, Inv, HasPK
<1>3. /\ token \in Tokens
      /\ UNCHANGED <<debts, assets, fees, ratio, signers>>
  BY DEF V1Inlock, EosConstants
<1>4. vault' \in [Tokens -> Nat]
  BY DEF V1Inv, Inv, TypeOK, V1Inlock, EosConstants
<1> HIDE DEF token
<1>5. Inv'
  BY <1>1, <1>2, <1>3, <1>4, NewTransferInv DEF V1Inv
<1>6. ReceiversHaveTheirPk'
  BY <1>2, <1>3, ReceiversKeepTheirPk
<1> QED
  BY <1>5, <1>6 DEF V1Inv

LEMMA V1OutlockInv ==
  ASSUME EosConstants, V1Inv,
         NEW u \in Users, NEW t \in Tokens, NEW q \in Amounts, NEW x \in XHashes,
         NEW pk \in PKs, V1Outlock(u, t, q, x, pk)
  PROVE  V1Inv'
<1>1. PICK pid \in Pids :
        /\ FindPK(pk, pid)
        /\ transfers' = [transfers EXCEPT ![x] =
             [status |-> "outlock", user |-> u, pid |-> pid, token |-> t,
              quantity |-> q, timeLeft |-> LockedTime]]
  BY DEF V1Outlock
<1>2. pks[pid] # NoRow
  BY <1>1 DEF FindPK, EosConstants
<1>3. UNCHANGED <<debts, pks, assets, fees, ratio, signers, vault>>
  BY DEF V1Outlock
<1>4. /\ pks' \in [Pids -> PKs \cup {NoRow}]
      /\ vault' \in [Tokens -> Nat]
      /\ OneIdPerPk'
  BY <1>3 DEF V1Inv, Inv, TypeOK, OneIdPerPk, HasPK
<1>5. Inv'
  BY <1>1, <1>2, <1>3, <1>4, NewTransferInv DEF V1Inv
<1> QED
  BY <1>3, <1>5, SameReceivers DEF V1Inv

LEMMA V1InrevokeInv ==
  ASSUME EosConstants, V1Inv, NEW x \in XHashes, V1Inrevoke(x)
  PROVE  V1Inv'
<1>1. Inv'
  BY PayBackInv DEF V1Inrevoke, V1Inv
<1> QED
  BY <1>1, SameReceivers DEF V1Inrevoke, V1Inv

LEMMA V1LockdebtInv ==
  ASSUME EosConstants, V1Inv,
         NEW npk \in PKs, NEW t \in Tokens, NEW q \in DebtAmounts, NEW x \in XHashes,
         NEW pk \in PKs, V1Lockdebt(npk, t, q, x, pk)
  PROVE  V1Inv'
<1>1. PICK pid \in Pids, npid \in Pids :
        /\ FindPK(pk, pid)
        /\ FindOrSavePk(npk, npid)
        /\ debts' = [debts EXCEPT ![x] =
             [pid |-> pid, npid |-> npid, token |-> t,
              quantity |-> q, timeLeft |-> 2 * LockedTime]]
  BY DEF V1Lockdebt
<1>2. UNCHANGED <<transfers, assets, fees, ratio, signers, vault>>
  BY DEF V1Lockdebt
<1>3. Inv' /\ HasPK(npid)'
  BY <1>1, <1>2, NewDebtInv DEF V1Inv
<1>4. \A p \in Pids : pks[p] # NoRow => pks'[p] # NoRow
  BY <1>1, FindOrSave DEF V1Inv, Inv, HasPK
<1>5. \A y \in XHashes : debts'[y] = debts[y] \/ debts'[y].npid = npid
  BY <1>1 DEF V1Inv, Inv, TypeOK
<1>6. ReceiversHaveTheirPk'
  BY <1>3, <1>4, <1>5, ReceiversKeepTheirPk DEF HasPK
<1> QED
  BY <1>3, <1>6 DEF V1Inv

(* The debt that is redeemed still stands when its key is looked at.       *)
LEMMA RedeemdebtKeepsKeys ==
  ASSUME NEW x \in XHashes, V1Redeemdebt(x)
  PROVE  UNCHANGED pks
<1>1. InDebt(debts[x].pid)
  BY DEF V1Redeemdebt, InDebt, Live
<1> QED
  BY <1>1 DEF V1Redeemdebt, V1CleanPk

LEMMA V1RedeemdebtInv ==
  ASSUME EosConstants, V1Inv, NEW x \in XHashes, V1Redeemdebt(x)
  PROVE  V1Inv'
<1> DEFINE row == debts[x]
<1>1. row \in DebtRow
  BY LiveRows DEF V1Inv, Inv, V1Redeemdebt
<1>2. /\ pks' = pks
      /\ pks[row.pid] # NoRow /\ pks[row.npid] # NoRow
      /\ Enough(assets, row.pid, row.token, row.quantity)
      /\ HandOver(row)
      /\ debts' = [debts EXCEPT ![x] = NoRow]
      /\ UNCHANGED <<transfers, fees, ratio, signers, vault>>
  BY RedeemdebtKeepsKeys DEF V1Redeemdebt, HasPK
<1> HIDE DEF row
<1>3. /\ assets' \in Book(-MaxAmount..MaxAmount)
      /\ \A p \in Pids \ {row.pid, row.npid} : HasRows(assets', p) <=> HasRows(assets, p)
  BY <1>1, <1>2, HandOverType DEF V1Inv, Inv
<1>4. TypeOK'
  BY <1>2, <1>3 DEF V1Inv, Inv, TypeOK
<1>5. \A y \in XHashes : debts'[y] # NoRow => debts'[y] = debts[y]
  BY <1>2 DEF V1Inv, Inv, TypeOK
<1>6. RecordsHaveTheirPk'
  BY <1>2, <1>3, <1>5, RecordsKeepTheirPk DEF V1Inv
<1>7. ReceiversHaveTheirPk'
  BY <1>2, <1>5, ReceiversKeepTheirPk
<1> QED
  BY <1>2, <1>4, <1>6, <1>7 DEF V1Inv, Inv, OneIdPerPk, HasPK

LEMMA V1RevokedebtInv ==
  ASSUME EosConstants, V1Inv, NEW x \in XHashes, V1Revokedebt(x)
  PROVE  V1Inv'
<1>1. Inv'
  BY RevokedebtInv DEF V1Revokedebt, V1Inv
<1>2. pks' = pks /\ debts' = [debts EXCEPT ![x] = NoRow]
  BY DEF V1Revokedebt, Revokedebt
<1>3. \A y \in XHashes : debts'[y] # NoRow => debts'[y] = debts[y]
  BY <1>2 DEF V1Inv, Inv, TypeOK
<1>4. ReceiversHaveTheirPk'
  BY <1>2, <1>3, ReceiversKeepTheirPk
<1> QED
  BY <1>1, <1>4 DEF V1Inv

LEMMA V1TickInv ==
  ASSUME EosConstants, V1Inv, Tick
  PROVE  V1Inv'
<1>1. Inv'
  BY TickInv DEF V1Inv
<1>2. \A x \in XHashes : debts'[x] # NoRow => debts[x] # NoRow /\ debts'[x].npid = debts[x].npid
  <2>1. ASSUME NEW r \in DebtRow PROVE Older(r).npid = r.npid
    BY DEF Older, DebtRow
  <2> QED
    BY <2>1, LiveRows DEF Tick, Aged, V1Inv, Inv
<1>3. pks' = pks
  BY DEF Tick
<1>4. ReceiversHaveTheirPk'
  BY <1>2, <1>3, ReceiversKeepTheirPk
<1> QED
  BY <1>1, <1>4 DEF V1Inv

-----------------------------------------------------------------------------
(* The steps that EosHtlc takes as well and that leave debts and keys alone. *)
SharedNext ==
  \/ \E t \in Issued, q \in Amounts : V1OtherTransfer(t, q)
  \/ \E u \in Users, x \in XHashes : V1Outredeem(u, x)
  \/ \E x \in XHashes : V1Inredeem(x)
  \/ \E x \in XHashes : V1Outrevoke(x)
  \/ \E pk \in PKs : V1WithdrawAll(pk)
  \/ \E pk \in PKs, t \in Tokens : V1WithdrawAccount(pk, t.account)
  \/ \E pk \in PKs, t \in Tokens : V1WithdrawToken(pk, t)
  \/ V1OwnerNext

LEMMA SharedStep ==
  ASSUME TypeOK, SharedNext
  PROVE  Next /\ UNCHANGED <<debts, pks>>
<1>1. CASE \E t \in Issued, q \in Amounts : V1OtherTransfer(t, q)
  BY <1>1 DEF V1OtherTransfer, OtherTransfer, Next, UserNext
<1>2. CASE \E u \in Users, x \in XHashes : V1Outredeem(u, x)
  BY <1>2 DEF V1Outredeem, Outredeem, Next, UserNext
<1>3. CASE \E x \in XHashes : V1Inredeem(x)
  BY <1>3 DEF V1Inredeem, Inredeem, Next, StoremanNext
<1>4. CASE \E x \in XHashes : V1Outrevoke(x)
  BY <1>4 DEF V1Outrevoke, Outrevoke, Next, StoremanNext
<1>5. CASE \E pk \in PKs : V1WithdrawAll(pk)
  BY <1>5 DEF V1WithdrawAll, WithdrawAll, Next, StoremanNext
<1>6. CASE \E pk \in PKs, t \in Tokens : V1WithdrawAccount(pk, t.account)
  BY <1>6 DEF V1WithdrawAccount, WithdrawAccount, Next, StoremanNext
<1>7. CASE \E pk \in PKs, t \in Tokens : V1WithdrawToken(pk, t)
  BY <1>7 DEF V1WithdrawToken, WithdrawToken, Next, StoremanNext
<1>8. CASE V1OwnerNext
  <2>1. ASSUME NEW c \in SigCodes, NEW n \in SigCodes, NEW a, V1Updatesig(c, n, a)
        PROVE  Updatesig(c, c, a)
    <3>1. signers \in [SigCodes -> SigActions \cup {NoRow}]
      BY DEF TypeOK
    <3>2. [signers EXCEPT ![c] = NoRow, ![c] = a] = [signers EXCEPT ![c] = a]
      BY <3>1
    <3> QED
      BY <2>1, <3>2 DEF V1Updatesig, Updatesig
  <2>2. CASE \E c, n \in SigCodes, a \in SigActions : V1Updatesig(c, n, a)
    BY <2>1, <2>2 DEF V1Updatesig, Next, OwnerNext
  <2> QED
    BY <1>8, <2>2 DEF V1OwnerNext, V1Setratio, V1Regsig, V1Unregsig,
                      Setratio, Regsig, Unregsig, Next, OwnerNext
<1> QED
  BY <1>1, <1>2, <1>3, <1>4, <1>5, <1>6, <1>7, <1>8 DEF SharedNext

LEMMA V1NextInv ==
  ASSUME EosConstants, V1Inv, [V1Next]_vars
  PROVE  V1Inv'
<1>1. CASE SharedNext
  BY <1>1, SharedStep, NextInv, SameReceivers DEF V1Inv, Inv
<1>2. CASE V1UserNext
  BY <1>1, <1>2, V1InlockInv, V1InrevokeInv DEF V1UserNext, SharedNext
<1>3. CASE V1StoremanNext
  BY <1>1, <1>3, UpdatepkInv, RemovepkInv, V1OutlockInv, V1LockdebtInv, V1RedeemdebtInv,
     V1RevokedebtInv DEF V1StoremanNext, SharedNext
<1>4. CASE V1OwnerNext
  BY <1>1, <1>4 DEF SharedNext
<1>5. CASE Tick
  BY <1>5, V1TickInv
<1>6. CASE UNCHANGED vars
  BY <1>6, NextInv, SameReceivers DEF V1Inv, vars
<1> QED
  BY <1>2, <1>3, <1>4, <1>5, <1>6 DEF V1Next

-----------------------------------------------------------------------------
(* A set of ids has a largest one, so that a new id is never one in use.   *)
LEMMA SmallestOf ==
  ASSUME NEW S \in SUBSET Nat, S # {}
  PROVE  \E x \in S : \A y \in S : x <= y
<1> DEFINE R == OpToRel(<, Nat)
<1>1. IsWellFoundedOn(R, Nat)
  BY NatLessThanWellFounded
<1>2. \A x, y \in Nat : <<x, y>> \in R <=> x < y
  BY DEF OpToRel
<1> HIDE DEF R
<1>3. PICK x \in S : \A y \in S : <<y, x>> \notin R
  BY <1>1, WFMin
<1>4. \A y \in S : ~(y < x)
  BY <1>2, <1>3
<1> QED
  BY <1>4

LEMMA LargestPid ==
  ASSUME EosConstants, NEW S \in SUBSET Pids, S # {}
  PROVE  Max(S) \in S /\ \A y \in S : Max(S) >= y
<1> DEFINE D == {k \in Nat : \E y \in S : k = MaxPid - y}
<1>1. MaxPid \in Nat /\ \A y \in S : y \in Nat /\ MaxPid - y \in Nat
  BY DEF EosConstants, Pids
<1>2. D # {} /\ D \in SUBSET Nat
  BY <1>1
<1>3. PICK d \in D : \A e \in D : d <= e
  BY <1>2, SmallestOf
<1>4. PICK x \in S : d = MaxPid - x
  OBVIOUS
<1>5. \A y \in S : x >= y
  BY <1>1, <1>3, <1>4
<1> QED
  BY <1>5 DEF Max

LEMMA AvailablePidIsFree ==
  ASSUME EosConstants, AvailablePid \in Pids
  PROVE  ~HasPK(AvailablePid)
<1> DEFINE used == {p \in Pids : pks[p] # NoRow}
<1>1. used \in SUBSET Pids /\ \A p \in used : p \in Int
  BY DEF Pids
<1>2. ASSUME used # {}, AvailablePid \in used
      PROVE  FALSE
  <2>1. /\ Max(used) \in Int
        /\ Max(used) >= AvailablePid
    BY <1>1, <1>2, LargestPid
  <2>2. AvailablePid = Max(used) + 1
    BY <1>2 DEF AvailablePid
  <2> QED
    BY <2>1, <2>2
<1> QED
  BY <1>2 DEF HasPK

(* Finding or saving a key changes no other key. *)
LEMMA SavedKeysStay ==
  ASSUME EosConstants, NEW pk, NEW pid \in Pids, FindOrSavePk(pk, pid),
         pks \in [Pids -> PKs \cup {NoRow}]
  PROVE  \A p \in Pids : HasPK(p) => pks'[p] = pks[p]
BY AvailablePidIsFree DEF FindOrSavePk, HasPK

-----------------------------------------------------------------------------
(* What a step does to the keys. *)
LEMMA KeySteps ==
  ASSUME EosConstants, V1Inv, [V1Next]_vars
  PROVE  \/ \A p \in Pids : HasPK(p) => pks'[p] = pks[p]
         \/ \E npk, pk \in PKs : Updatepk(npk, pk)
         \/ \E pk \in PKs : Removepk(pk)
<1>1. pks \in [Pids -> PKs \cup {NoRow}]
  BY DEF V1Inv, Inv, TypeOK
<1>2. CASE SharedNext
  BY <1>2, SharedStep DEF V1Inv, Inv
<1>3. CASE V1UserNext
  <2>1. ASSUME NEW u \in Users, NEW sent \in Issued, NEW t \in Tokens, NEW q \in Amounts,
               NEW x \in XHashes, NEW pk \in PKs, V1Inlock(u, sent, t.account, q, x, pk)
        PROVE  \A p \in Pids : HasPK(p) => pks'[p] = pks[p]
    BY <1>1, <2>1, SavedKeysStay DEF V1Inlock
  <2> QED
    BY <1>2, <1>3, <2>1 DEF V1UserNext, SharedNext, V1Inrevoke
<1>4. CASE V1StoremanNext
  <2>1. ASSUME NEW npk \in PKs, NEW pk \in PKs, NEW t \in Tokens, NEW q \in DebtAmounts,
               NEW x \in XHashes, V1Lockdebt(npk, t, q, x, pk)
        PROVE  \A p \in Pids : HasPK(p) => pks'[p] = pks[p]
    BY <1>1, <2>1, SavedKeysStay DEF V1Lockdebt
  <2> QED
    BY <1>2, <1>4, <2>1, RedeemdebtKeepsKeys
       DEF V1StoremanNext, SharedNext, V1Outlock, V1Revokedebt, Revokedebt
<1>5. CASE V1OwnerNext
  BY <1>2, <1>5 DEF SharedNext
<1>6. CASE Tick \/ UNCHANGED vars
  BY <1>6 DEF Tick, vars
<1> QED
  BY <1>3, <1>4, <1>5, <1>6 DEF V1Next

LEMMA KeysOfDebtsStep ==
  ASSUME EosConstants, V1Inv, [V1Next]_vars,
         NEW x \in XHashes, debts[x] # NoRow, debts'[x] # NoRow
  PROVE  /\ pks'[debts[x].pid] = pks[debts[x].pid]
         /\ pks'[debts[x].npid] = pks[debts[x].npid]
<1>1. /\ debts[x].pid \in Pids /\ HasPK(debts[x].pid)
      /\ debts[x].npid \in Pids /\ HasPK(debts[x].npid)
  BY LiveRows DEF V1Inv, Inv, DebtRow, RecordsHaveTheirPk, ReceiversHaveTheirPk
<1>2. \A p \in Pids : ~InDebt(p) => p # debts[x].pid /\ p # debts[x].npid
  BY DEF InDebt, Live
<1>3. pks \in [Pids -> PKs \cup {NoRow}]
  BY DEF V1Inv, Inv, TypeOK
<1>4. CASE \E npk, pk \in PKs : Updatepk(npk, pk)
  BY <1>1, <1>2, <1>3, <1>4 DEF Updatepk
<1>5. CASE \E pk \in PKs : Removepk(pk)
  BY <1>1, <1>2, <1>3, <1>5 DEF Removepk
<1> QED
  BY <1>1, <1>4, <1>5, KeySteps

-----------------------------------------------------------------------------
(* Promises: the locks of both versions have the same guard. *)
LEMMA V1NextCovered ==
  ASSUME EosConstants, IsFiniteSet(XHashes), Inv, Inv', AssetsCoverPromised, NoNegativeDebt,
         [V1Next]_vars
  PROVE  AssetsCoverPromised'
<1>0. /\ transfers \in [XHashes -> TransferRow \cup {NoRow}]
      /\ debts \in [XHashes -> DebtRow \cup {NoRow}]
      /\ \A p \in Pids, t \in Tokens : Balance(assets, p, t) \in Int
  BY Books DEF Inv, TypeOK
<1>1. CASE SharedNext
  BY <1>1, SharedStep, NextCovered DEF Inv
<1>2. CASE Tick \/ UNCHANGED vars
  BY <1>2, NextCovered DEF Next
<1>3. ASSUME NEW x \in XHashes, transfers' = [transfers EXCEPT ![x] = transfers'[x]],
             UNCHANGED <<debts, assets>>,
             transfers'[x] = NoRow \/ transfers'[x].status = "inlock"
      PROVE  AssetsCoverPromised'
  <2>1. \A y \in XHashes \ {x} : transfers'[y] = transfers[y]
    BY <1>0, <1>3
  <2> QED
    BY <1>0, <1>3, <2>1, NoPromiseCovered
<1>4. CASE V1UserNext
  <2>1. ASSUME NEW u \in Users, NEW sent \in Issued, NEW t \in Tokens, NEW q \in Amounts,
               NEW x \in XHashes, NEW pk \in PKs, V1Inlock(u, sent, t.account, q, x, pk)
        PROVE  AssetsCoverPromised'
    <3>1. /\ transfers' = [transfers EXCEPT ![x] = transfers'[x]]
          /\ transfers'[x].status = "inlock"
          /\ UNCHANGED <<debts, assets>>
      BY <1>0, <2>1 DEF V1Inlock
    <3> QED
      BY <1>3, <3>1
  <2>2. ASSUME NEW x \in XHashes, V1Inrevoke(x)
        PROVE  AssetsCoverPromised'
    <3>1. /\ transfers' = [transfers EXCEPT ![x] = transfers'[x]]
          /\ transfers'[x] = NoRow
          /\ UNCHANGED <<debts, assets>>
      BY <1>0, <2>2 DEF V1Inrevoke
    <3> QED
      BY <1>3, <3>1
  <2> QED
    BY <1>1, <1>4, <2>1, <2>2 DEF V1UserNext, SharedNext
<1>5. CASE V1StoremanNext
  <2>1. CASE \/ \E npk, pk \in PKs : Updatepk(npk, pk)
             \/ \E pk \in PKs : Removepk(pk)
    BY <2>1, IdleCovered DEF Updatepk, Removepk
  <2>2. ASSUME NEW u \in Users, NEW t \in Tokens, NEW q \in Amounts, NEW x \in XHashes,
               NEW pk \in PKs, V1Outlock(u, t, q, x, pk)
        PROVE  AssetsCoverPromised'
    BY <2>2, OutlockCovered DEF V1Outlock
  <2>3. ASSUME NEW npk \in PKs, NEW pk \in PKs, NEW t \in Tokens, NEW q \in DebtAmounts,
               NEW x \in XHashes, V1Lockdebt(npk, t, q, x, pk)
        PROVE  AssetsCoverPromised'
    BY <2>3, LockdebtCovered DEF V1Lockdebt
  <2>4. ASSUME NEW x \in XHashes, V1Redeemdebt(x)
        PROVE  AssetsCoverPromised'
    BY <2>4, RedeemdebtCovered DEF V1Redeemdebt
  <2>5. ASSUME NEW x \in XHashes, V1Revokedebt(x)
        PROVE  AssetsCoverPromised'
    <3>1. /\ debts'[x] = NoRow /\ transfers' = transfers /\ assets' = assets
          /\ \A y \in XHashes \ {x} : debts'[y] = debts[y]
      BY <1>0, <2>5 DEF V1Revokedebt, Revokedebt
    <3> QED
      BY <1>0, <3>1, NoPromiseCovered
  <2> QED
    BY <1>1, <1>5, <2>1, <2>2, <2>3, <2>4, <2>5 DEF V1StoremanNext, SharedNext
<1>6. CASE V1OwnerNext
  BY <1>1, <1>6 DEF SharedNext
<1> QED
  BY <1>2, <1>4, <1>5, <1>6 DEF V1Next

-----------------------------------------------------------------------------
(* In the earlier version too a storeman key has one id, though updatepk   *)
(* changes keys in place.                                                  *)
THEOREM V1PksAreUnique == V1Spec => []OneIdPerPk
<1>1. V1Inv => OneIdPerPk
  BY DEF V1Inv, Inv
<1> QED
  BY <1>1, V1InitInv, V1NextInv, EosConstants, PTL DEF V1Spec

(* Nothing is recorded under an id whose key removepk has erased.          *)
THEOREM V1RecordsHaveTheirPk == V1Spec => []RecordsHaveTheirPk
<1>1. V1Inv => RecordsHaveTheirPk
  BY DEF V1Inv, Inv
<1> QED
  BY <1>1, V1InitInv, V1NextInv, EosConstants, PTL DEF V1Spec

(* A debt is between the same two keys from lockdebt to its end.           *)
THEOREM V1DebtsKeepTheirKeys == V1Spec => DebtKeepsItsKeys
<1>1. ASSUME V1Inv, [V1Next]_vars
      PROVE  [\A x \in XHashes : debts[x] # NoRow /\ debts'[x] # NoRow =>
                 /\ pks'[debts[x].pid] = pks[debts[x].pid]
                 /\ pks'[debts[x].npid] = pks[debts[x].npid]]_vars
  BY <1>1, KeysOfDebtsStep, EosConstants
<1> QED
  BY <1>1, V1InitInv, V1NextInv, EosConstants, PTL DEF V1Spec, DebtKeepsItsKeys

(* The earlier version goes on covering its promises as EosHtlc does,      *)
(* though its loops over outlocks and debts do not visit every row: the    *)
(* ones they return from have visited all those of the token.              *)
THEOREM V1AssetsAlwaysCoverPromised ==
  ASSUME IsFiniteSet(XHashes)
  PROVE  /\ V1Spec => PromisesAreKept
         /\ V1Spec => ([]NoNegativeDebt => []AssetsCoverPromised)
<1>1. Init => V1Inv /\ AssetsCoverPromised
  BY V1InitInv, InitCovered, EosConstants
<1>2. V1Inv /\ [V1Next]_vars => V1Inv'
  BY V1NextInv, EosConstants
<1>3. V1Inv /\ [V1Next]_vars /\ AssetsCoverPromised /\ NoNegativeDebt => AssetsCoverPromised'
  BY <1>2, V1NextCovered, EosConstants DEF V1Inv
<1>4. V1Inv /\ [V1Next]_vars
        => [AssetsCoverPromised /\ NoNegativeDebt => AssetsCoverPromised']_vars
  BY <1>3
<1>5. V1Spec => PromisesAreKept
  BY <1>1, <1>2, <1>4, PTL DEF V1Spec, PromisesAreKept
<1>6. V1Spec => ([]NoNegativeDebt => []AssetsCoverPromised)
  BY <1>1, <1>2, <1>3, PTL DEF V1Spec
<1> QED
  BY <1>5, <1>6

-----------------------------------------------------------------------------
(* Solvency: an inlock may record another account than the one that was    *)
(* paid, but never another symbol.                                         *)

LEMMA SumOfOne ==
  ASSUME NEW S, IsFiniteSet(S), NEW a, NEW q, q \in Nat, NEW f,
         a \in S => f[a] = q, \A t \in S : t # a => f[t] = 0
  PROVE  Summable(f, S) /\ (a \in S => SumOf(f, S) = q) /\ (a \notin S => SumOf(f, S) = 0)
<1> DEFINE z == [t \in S |-> 0]
<1>1. Summable(f, S) /\ Summable(z, S) /\ \A t \in S : (t # a => f[t] = z[t]) /\ z[t] = 0
  BY DEF Summable
<1> HIDE DEF z
<1>2. SumOf(z, S) = 0
  BY <1>1, SumOfZeros
<1>3. CASE a \in S
  <2>1. SumOf(f, S) = SumOf(z, S) - z[a] + f[a]
    BY <1>1, <1>3, AddsUpdate
  <2> QED
    BY <1>1, <1>2, <1>3, <2>1
<1>4. CASE a \notin S
  <2>1. SumOf(f, S) = 0
    BY <1>1, <1>4, SumOfZeros
  <2> QED
    BY <1>1, <1>4, <2>1
<1> QED
  BY <1>3, <1>4

LEMMA V1InlockSolvent ==
  ASSUME EosConstants, IsFiniteSet(XHashes), Inv, Inv',
         NEW u \in Users, NEW sent \in Issued, NEW other \in Tokens, NEW q \in Amounts,
         NEW x \in XHashes, NEW pk \in PKs, V1Inlock(u, sent, other.account, q, x, pk), NEW s
  PROVE  SurplusOf(TokensOf(s))' >= SurplusOf(TokensOf(s))
<1> DEFINE token == [sent EXCEPT !.account = other.account]
           S == TokensOf(s)
           was == [t \in S |-> Surplus(t)]
           now == [t \in S |-> Surplus(t)']
           paid == [t \in S |-> IF t = token THEN q ELSE 0]
           taken == [t \in S |-> IF t = sent THEN q ELSE 0]
           more == [t \in S |-> was[t] + taken[t]]
           less == [t \in S |-> now[t] + paid[t]]
<1>1. sent \in Tokens /\ token \in Tokens /\ q \in Nat
  BY DEF EosConstants
<1>2. token.symbol = sent.symbol
  <2>1. sent = [account |-> sent.account, symbol |-> sent.symbol]
    BY <1>1 DEF EosConstants
  <2>2. [[account |-> sent.account, symbol |-> sent.symbol] EXCEPT !.account = other.account].symbol
          = sent.symbol
    OBVIOUS
  <2> QED
    BY <2>1, <2>2, Zenon
<1>3. token \in S <=> sent \in S
  BY <1>1, <1>2 DEF TokensOf
<1>4. /\ transfers \in TransferTable /\ transfers' \in TransferTable
      /\ vault \in [Tokens -> Nat]
  BY DEF Inv, TypeOK, TransferTable
<1>5. /\ transfers[x] = NoRow
      /\ vault' = [vault EXCEPT ![sent] = @ + q]
      /\ assets' = assets /\ fees' = fees
      /\ \A y \in XHashes \ {x} : transfers'[y] = transfers[y]
      /\ transfers'[x] # NoRow
      /\ transfers'[x].status = "inlock"
      /\ transfers'[x].token = token /\ transfers'[x].quantity = q
  <2>0. transfers \in [XHashes -> TransferRow \cup {NoRow}]
    BY <1>4 DEF TransferTable
  <2>1. /\ transfers[x] = NoRow
        /\ vault' = [vault EXCEPT ![sent] = @ + q]
        /\ assets' = assets /\ fees' = fees
    BY DEF V1Inlock
  <2>2. PICK pid \in Pids :
          transfers' = [transfers EXCEPT ![x] =
            [status |-> "inlock", user |-> u, pid |-> pid, token |-> token,
             quantity |-> q, timeLeft |-> 2 * LockedTime]]
    BY DEF V1Inlock
  <2> DEFINE row == [status |-> "inlock", user |-> u, pid |-> pid, token |-> token,
                     quantity |-> q, timeLeft |-> 2 * LockedTime]
  <2>3. row.status = "inlock" /\ row.token = token /\ row.quantity = q
    OBVIOUS
  <2> HIDE DEF row, token
  <2>4. row \in TransferRow
    BY <1>1 DEF row, TransferRow, EosConstants, Expired
  <2>5. row # NoRow
    BY <2>4 DEF EosConstants
  <2>6. transfers'[x] = row /\ \A y \in XHashes \ {x} : transfers'[y] = transfers[y]
    BY <2>0, <2>2 DEF row
  <2> HIDE DEF row
  <2> QED
    BY <2>1, <2>3, <2>5, <2>6, Zenon
<1> HIDE DEF token
<1>6. ASSUME NEW t \in Tokens
      PROVE  /\ Surplus(t) \in Int /\ Surplus(t)' \in Int
             /\ Surplus(t) + (IF t = sent THEN q ELSE 0) = Surplus(t)' + (IF t = token THEN q ELSE 0)
  <2> DEFINE L == Total(transfers, InlockRows(transfers, t))
             nL == Total(transfers', InlockRows(transfers', t))
             ha == Held(assets, t)
             hf == Held(fees, t)
             v == vault[t]
             nv == vault'[t]
  <2>1. L \in Int /\ nL = L - InOwed(transfers[x], t) + InOwed(transfers'[x], t)
    BY <1>4, <1>5, InlockTotals
  <2>2. InOwed(transfers[x], t) = 0 /\ InOwed(transfers'[x], t) = IF t = token THEN q ELSE 0
    BY <1>5 DEF InOwed
  <2>3. ha \in Int /\ hf \in Int /\ v \in Nat /\ Held(assets', t) = ha /\ Held(fees', t) = hf
    BY <1>5, HeldAreNumbers
  <2>4. nv = v + IF t = sent THEN q ELSE 0
    BY <1>1, <1>4, <1>5
  <2>5. Surplus(t) = v - (L + ha + hf) /\ Surplus(t)' = nv - (nL + ha + hf)
    BY <2>3, SurplusParts
  <2> HIDE DEF L, nL, ha, hf, v, nv
  <2> QED
    BY <1>1, <2>1, <2>2, <2>3, <2>4, <2>5
<1>7. IsFiniteSet(S) /\ S \subseteq Tokens
  BY TokensOfAreFinite
<1>8. /\ Summable(was, S) /\ Summable(now, S)
      /\ \A t \in S : more[t] = was[t] + taken[t] /\ less[t] = now[t] + paid[t]
      /\ \A t \in S : more[t] = less[t]
  BY <1>6, <1>7 DEF Summable
<1>9. /\ Summable(paid, S) /\ SumOf(paid, S) = IF token \in S THEN q ELSE 0
      /\ Summable(taken, S) /\ SumOf(taken, S) = IF sent \in S THEN q ELSE 0
  <2>0. /\ (token \in S => paid[token] = q) /\ \A t \in S : t # token => paid[t] = 0
        /\ (sent \in S => taken[sent] = q) /\ \A t \in S : t # sent => taken[t] = 0
    OBVIOUS
  <2> HIDE DEF S, paid, taken
  <2>1. Summable(paid, S) /\ (token \in S => SumOf(paid, S) = q)
                     /\ (token \notin S => SumOf(paid, S) = 0)
    BY <1>1, <1>7, <2>0, SumOfOne, Zenon
  <2>2. Summable(taken, S) /\ (sent \in S => SumOf(taken, S) = q)
                      /\ (sent \notin S => SumOf(taken, S) = 0)
    BY <1>1, <1>7, <2>0, SumOfOne, Zenon
  <2> QED
    BY <2>1, <2>2, Zenon
<1>10. SurplusOf(S) = SumOf(was, S) /\ SurplusOf(S)' = SumOf(now, S)
  BY DEF SurplusOf, TokensOf
<1> HIDE DEF was, now, paid, taken, more, less, S
<1>11. SumOf(more, S) = SumOf(less, S)
  BY <1>7, <1>8, SumSame
<1>12. /\ SumOf(more, S) = SumOf(was, S) + SumOf(taken, S)
       /\ SumOf(less, S) = SumOf(now, S) + SumOf(paid, S)
  BY <1>8, <1>9, SumsAdd
<1>13. SumOf(was, S) \in Int /\ SumOf(now, S) \in Int
  BY <1>8, AddsStep
<1>14. SumOf(paid, S) = SumOf(taken, S) /\ SumOf(paid, S) \in Nat
  BY <1>1, <1>3, <1>9
<1>15. SumOf(now, S) >= SumOf(was, S)
  <2> DEFINE a == SumOf(more, S)
             b == SumOf(less, S)
             c == SumOf(was, S)
             d == SumOf(now, S)
             e == SumOf(paid, S)
             f == SumOf(taken, S)
  <2>1. /\ a = b /\ a = c + f /\ b = d + e /\ e = f
        /\ c \in Int /\ d \in Int /\ e \in Nat /\ f \in Nat
    BY <1>11, <1>12, <1>13, <1>14
  <2> HIDE DEF a, b, c, d, e, f
  <2>2. c + e = d + e
    BY <2>1, Zenon
  <2>3. c = d /\ d >= c
    BY <2>1, <2>2
  <2> QED
    BY <2>3 DEF c, d
<1>16. SurplusOf(S)' >= SurplusOf(S)
  BY <1>10, <1>15
<1> QED
  BY <1>16 DEF S

LEMMA V1NextSymbols ==
  ASSUME EosConstants, IsFiniteSet(XHashes), Inv, Inv', [V1Next]_vars, NEW s
  PROVE  SurplusOf(TokensOf(s))' >= SurplusOf(TokensOf(s))
<1> DEFINE Goal == SurplusOf(TokensOf(s))' >= SurplusOf(TokensOf(s))
           Solvent == \A t \in Tokens : Surplus(t)' >= Surplus(t)
<1>0. /\ transfers \in [XHashes -> TransferRow \cup {NoRow}]
      /\ vault \in [Tokens -> Nat]
      /\ TypeOK
  BY DEF Inv, TypeOK
<1>1. Solvent => Goal
  BY SymbolSums, TokensOfAreFinite
<1>2. UNCHANGED <<transfers, assets, fees, vault>> => Solvent
  BY <1>0, IdleSolvent
<1>3. [Next]_vars => Goal
  <2>1. ASSUME NEW pk \in PKs, NEW t \in Tokens, WithdrawAccount(pk, t.account) PROVE Goal
    BY <2>1, WithdrawAccountOfSymbol
  <2>2. [Next]_vars /\ ~ (\E pk \in PKs, t \in Tokens : WithdrawAccount(pk, t.account)) => Solvent
    BY NextSolvent
  <2> HIDE DEF Goal, Solvent
  <2> QED
    BY <1>1, <2>1, <2>2
<1>5. \A x \in XHashes : V1Inrevoke(x) => Solvent
  BY PayBackSolvent DEF V1Inrevoke
<1>6. \A x \in XHashes : V1Redeemdebt(x) => Solvent
  BY RedeemdebtSolvent DEF V1Redeemdebt
<1>7. ASSUME NEW u \in Users, NEW t \in Tokens, NEW q \in Amounts, NEW x \in XHashes,
             NEW pk \in PKs, V1Outlock(u, t, q, x, pk)
      PROVE  Solvent
  <2>1. /\ transfers[x] = NoRow /\ transfers'[x].status = "outlock"
        /\ \A y \in XHashes \ {x} : transfers'[y] = transfers[y]
        /\ UNCHANGED <<assets, fees, vault>>
    BY <1>0, <1>7 DEF V1Outlock
  <2> QED
    BY <2>1, PromiseSolvent
<1>8. ASSUME NEW u \in Users, NEW sent \in Issued, NEW t \in Tokens, NEW q \in Amounts,
             NEW x \in XHashes, NEW pk \in PKs, V1Inlock(u, sent, t.account, q, x, pk)
      PROVE  Goal
  BY <1>8, V1InlockSolvent
<1> HIDE DEF Goal, Solvent
<1>4. SharedNext => Goal
  BY <1>0, <1>3, SharedStep
<1>9. V1UserNext => Goal
  BY <1>1, <1>4, <1>5, <1>8 DEF V1UserNext, SharedNext
<1>10. V1StoremanNext => Goal
  <2>1. ASSUME NEW npk \in PKs, NEW pk \in PKs, Updatepk(npk, pk) PROVE Solvent
    BY <1>2, <2>1 DEF Updatepk
  <2>2. ASSUME NEW pk \in PKs, Removepk(pk) PROVE Solvent
    BY <1>2, <2>2 DEF Removepk
  <2>3. ASSUME NEW npk \in PKs, NEW pk \in PKs, NEW t \in Tokens, NEW q \in DebtAmounts,
               NEW x \in XHashes, V1Lockdebt(npk, t, q, x, pk)
        PROVE  Solvent
    BY <1>2, <2>3 DEF V1Lockdebt
  <2>4. ASSUME NEW x \in XHashes, V1Revokedebt(x) PROVE Solvent
    BY <1>2, <2>4 DEF V1Revokedebt, Revokedebt
  <2> QED
    BY <1>1, <1>4, <1>6, <1>7, <2>1, <2>2, <2>3, <2>4 DEF V1StoremanNext, SharedNext
<1>11. V1OwnerNext => Goal
  BY <1>4 DEF SharedNext
<1>12. Tick \/ UNCHANGED vars => Goal
  BY <1>3 DEF Next
<1>13. Goal
  BY <1>9, <1>10, <1>11, <1>12 DEF V1Next
<1> QED
  BY <1>13 DEF Goal

(* The earlier version too is solvent in every symbol, though a memo may   *)
(* name an account that was not paid: no sequence of calls pays out more   *)
(* of a symbol than was paid in.                                           *)
THEOREM V1SymbolsAlwaysCovered ==
  ASSUME IsFiniteSet(XHashes)
  PROVE  V1Spec => []SymbolsAreCovered
<1>1. Init => V1Inv /\ SymbolsSolvent
  BY V1InitInv, InitSymbols, EosConstants
<1>2. V1Inv /\ SymbolsSolvent /\ [V1Next]_vars => V1Inv' /\ SymbolsSolvent'
  BY V1NextInv, V1NextSymbols, SymbolsStep, EosConstants DEF V1Inv
<1>3. SymbolsSolvent => SymbolsAreCovered
  BY SymbolsSolventCovers, EosConstants
<1> QED
  BY <1>1, <1>2, <1>3, PTL DEF V1Spec
=============================================================================
