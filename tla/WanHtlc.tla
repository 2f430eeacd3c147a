------------------------------ MODULE WanHtlc ------------------------------
(***************************************************************************)
(* The Wanchain side of the bridge:                                        *)
(* src/eos-wan-cross/solidity/contracts/htlc, with the mint, burn and      *)
(* transfer of the tokens it issues (tokenManager/WanToken.sol) and the    *)
(* quota table of QuotaLib.                                                *)
(*                                                                         *)
(* Inbound, a storeman locks (inSmgLock) what the user redeems with the    *)
(* secret (inUserRedeem, which mints) or what lapses (inSmgRevoke).        *)
(* Outbound, a user locks tokens (outUserLock), the storeman redeems       *)
(* (outSmgRedeem, which burns) or the user gets them back                  *)
(* (outUserRevoke).  A debt moves what one storeman owes to another.       *)
(*                                                                         *)
(* An Ethereum transaction completes or reverts as a whole: one step each. *)
(* A transaction keeps timeLeft = beginLockedTime + lockedTime - now, down *)
(* to 0; the code only compares that difference with zero.                 *)
(***************************************************************************)
EXTENDS QuotaLib, FiniteSets, FiniteSetsExt

CONSTANTS
  Users,          \* Wanchain accounts
  XHashes,        \* hashes of the swap secrets
  Values,         \* amounts of the tokens that are moved
  Quotas,         \* quotas the storeman group admin computes from deposits
  TxFeeRatios,    \* fee ratios of storeman groups
  Prices,         \* prices of a token in wan (token2WanRatio), over DefaultPrecise
  DefaultPrecise, \* TokenManagerStorage.DEFAULT_PRECISE
  RevokeRatios,   \* ratios the owner gives to setEconomics
  RatioPrecise,   \* HTLCTypes.RATIO_PRECISE
  LockedTime      \* HTLCLib.DEF_LOCKED_TIME, in ticks

Status == {"Locked", "Redeemed", "Revoked"}
TimeLeft == 0..2 * LockedTime
NoTx == [status |-> "None"]

UserTx == [status : Status, value : Nat, storeman : Storemen, token : Tokens,
           sender : Users, timeLeft : TimeLeft]
SmgTx  == [status : Status, value : Nat, storeman : Storemen, token : Tokens,
           user : Users, timeLeft : TimeLeft]
DebtTx == [status : Status, value : Nat, storeman : Storemen, token : Tokens,
           src : Storemen, timeLeft : TimeLeft]

ASSUME WanConstants ==
  /\ Values \subseteq Nat
  /\ Quotas \subseteq Nat
  /\ TxFeeRatios \subseteq Nat
  /\ Prices \subseteq Nat
  /\ DefaultPrecise \in Nat \ {0}
  /\ RevokeRatios \subseteq Nat
  /\ RatioPrecise \in Nat \ {0}
  /\ LockedTime \in Nat \ {0}

VARIABLES
  userTxs,      \* mapHashXUserTxs
  smgTxs,       \* mapHashXSmgTxs
  debtTxs,      \* mapHashXDebtTxs
  xHashFee,     \* mapXHashFee: the fee of an outbound lock, in wan
  storemanFee,  \* mapStoremanFee: what a storeman may withdraw, in wan
  revokeRatio,  \* revokeFeeRatio
  initialized,  \* setEconomics was called: tokenManager and admin are set
  halted,       \* Halt.halted
  supply,       \* totalSupply of each token
  custody,      \* what the contract holds of each token; users hold the rest
  wan           \* wan coins of the contract

wanVars == <<quotas, userTxs, smgTxs, debtTxs, xHashFee, storemanFee,
             revokeRatio, initialized, halted, supply, custody, wan>>

WanInit ==
  /\ QuotaInit
  /\ userTxs = [x \in XHashes |-> NoTx]
  /\ smgTxs = [x \in XHashes |-> NoTx]
  /\ debtTxs = [x \in XHashes |-> NoTx]
  /\ xHashFee = [x \in XHashes |-> 0]
  /\ storemanFee = [p \in Storemen |-> 0]
  /\ revokeRatio = 0
  /\ initialized = FALSE
  /\ halted = FALSE
  /\ supply = [t \in Tokens |-> 0]
  /\ custody = [t \in Tokens |-> 0]
  /\ wan = 0

(* Mutant: a settled transaction passes too. *)
IsKnown(table, x) == table[x] # NoTx

IsLocked(table, x) == table[x].status = "Locked"
InTime(tx) == tx.timeLeft > 0
Lapsed(tx) == tx.timeLeft = 0

(* How long a user's and a storeman's lock last. *)
UserLockTime == 2 * LockedTime
SmgLockTime == LockedTime

Running == initialized /\ ~halted

(* Mutant: a settled transaction is erased, as the EOS contract does. *)
Erase(table, x, status) == [table EXCEPT ![x] = NoTx]

Close(table, x, status) == [table EXCEPT ![x].status = status]

-----------------------------------------------------------------------------
(* Inbound *)

InSmgLock(user, t, value, x, p) ==
  /\ Running
  /\ smgTxs[x] = NoTx
  /\ QuotaInLock(t, p, value)
  /\ smgTxs' = [smgTxs EXCEPT ![x] =
       [status |-> "Locked", value |-> value, storeman |-> p, token |-> t,
        user |-> user, timeLeft |-> SmgLockTime]]
  /\ UNCHANGED <<userTxs, debtTxs, xHashFee, storemanFee, revokeRatio, initialized,
                 halted, supply, custody, wan>>

InUserRedeem(user, x) ==
  /\ Running
  /\ IsLocked(smgTxs, x)
  /\ InTime(smgTxs[x])
  /\ smgTxs[x].user = user
  /\ QuotaInRedeem(smgTxs[x].token, smgTxs[x].storeman, smgTxs[x].value)
  /\ smgTxs' = Close(smgTxs, x, "Redeemed")
  /\ supply' = [supply EXCEPT ![smgTxs[x].token] = @ + smgTxs[x].value]
  /\ UNCHANGED <<userTxs, debtTxs, xHashFee, storemanFee, revokeRatio, initialized,
                 halted, custody, wan>>

InSmgRevoke(x) ==
  /\ Running
  /\ IsLocked(smgTxs, x)
  /\ Lapsed(smgTxs[x])
  /\ QuotaInRevoke(smgTxs[x].token, smgTxs[x].storeman, smgTxs[x].value)
  /\ smgTxs' = Close(smgTxs, x, "Revoked")
  /\ UNCHANGED <<userTxs, debtTxs, xHashFee, storemanFee, revokeRatio, initialized,
                 halted, supply, custody, wan>>

-----------------------------------------------------------------------------
(* Outbound *)

(* The fee is in wan, at the price the token manager has for the token and *)
(* the storeman's ratio; what the user sends above it comes back in the    *)
(* same transaction.  The scale of the token, 1 ether over 10^decimals, is *)
(* one here.                                                               *)
OutboundFee(t, p, value, price) ==
  ((value * price * quotas[t][p].ratio) \div DefaultPrecise) \div DefaultPrecise

OutUserLock(user, t, value, x, p, price) ==
  /\ Running
  /\ userTxs[x] = NoTx
  /\ QuotaOutLock(t, p, value)
  /\ supply[t] - custody[t] >= value
  /\ custody' = [custody EXCEPT ![t] = @ + value]
  /\ userTxs' = [userTxs EXCEPT ![x] =
       [status |-> "Locked", value |-> value, storeman |-> p, token |-> t,
        sender |-> user, timeLeft |-> UserLockTime]]
  /\ xHashFee' = [xHashFee EXCEPT ![x] = OutboundFee(t, p, value, price)]
  /\ wan' = wan + OutboundFee(t, p, value, price)
  /\ UNCHANGED <<smgTxs, debtTxs, storemanFee, revokeRatio, initialized, halted, supply>>

(* Mutant: the last fee replaces the ones before it. *)
EarnLastFee(p, fee) == storemanFee' = [storemanFee EXCEPT ![p] = fee]

EarnFee(p, fee) == storemanFee' = [storemanFee EXCEPT ![p] = @ + fee]

OutSmgRedeem(x) ==
  /\ Running
  /\ IsLocked(userTxs, x)
  /\ InTime(userTxs[x])
  /\ LET tx == userTxs[x]
     IN  /\ QuotaOutRedeem(tx.token, tx.storeman, tx.value)
         /\ custody[tx.token] >= tx.value
         /\ custody' = [custody EXCEPT ![tx.token] = @ - tx.value]
         /\ supply[tx.token] >= tx.value
         /\ supply' = [supply EXCEPT ![tx.token] = @ - tx.value]
         /\ EarnFee(tx.storeman, xHashFee[x])
  /\ xHashFee' = [xHashFee EXCEPT ![x] = 0]
  /\ userTxs' = Close(userTxs, x, "Redeemed")
  /\ UNCHANGED <<smgTxs, debtTxs, revokeRatio, initialized, halted, wan>>

RevokeFee(x) == (xHashFee[x] * revokeRatio) \div RatioPrecise

OutUserRevoke(x) ==
  /\ Running
  /\ IsLocked(userTxs, x)
  /\ Lapsed(userTxs[x])
  /\ LET tx   == userTxs[x]
         left == xHashFee[x] - RevokeFee(x)
     IN  /\ QuotaOutRevoke(tx.token, tx.storeman, tx.value)
         /\ custody[tx.token] >= tx.value
         /\ custody' = [custody EXCEPT ![tx.token] = @ - tx.value]
         /\ left >= 0
         /\ wan >= left
         /\ wan' = wan - left
         /\ EarnFee(tx.storeman, RevokeFee(x))
  /\ xHashFee' = [xHashFee EXCEPT ![x] = 0]
  /\ userTxs' = Close(userTxs, x, "Revoked")
  /\ UNCHANGED <<smgTxs, debtTxs, revokeRatio, initialized, halted, supply>>

-----------------------------------------------------------------------------
(* Debt *)

InDebtLock(t, x, src, value, dst) ==
  /\ Running
  /\ debtTxs[x] = NoTx
  /\ QuotaDebtLock(t, value, src, dst)
  /\ debtTxs' = [debtTxs EXCEPT ![x] =
       [status |-> "Locked", value |-> value, storeman |-> dst, token |-> t,
        src |-> src, timeLeft |-> SmgLockTime]]
  /\ UNCHANGED <<userTxs, smgTxs, xHashFee, storemanFee, revokeRatio, initialized,
                 halted, supply, custody, wan>>

InDebtRedeem(x) ==
  /\ Running
  /\ IsLocked(debtTxs, x)
  /\ InTime(debtTxs[x])
  /\ QuotaDebtRedeem(debtTxs[x].token, debtTxs[x].value, debtTxs[x].src, debtTxs[x].storeman)
  /\ debtTxs' = Close(debtTxs, x, "Redeemed")
  /\ UNCHANGED <<userTxs, smgTxs, xHashFee, storemanFee, revokeRatio, initialized,
                 halted, supply, custody, wan>>

InDebtRevoke(x) ==
  /\ Running
  /\ IsLocked(debtTxs, x)
  /\ Lapsed(debtTxs[x])
  /\ QuotaDebtRevoke(debtTxs[x].token, debtTxs[x].value, debtTxs[x].src, debtTxs[x].storeman)
  /\ debtTxs' = Close(debtTxs, x, "Revoked")
  /\ UNCHANGED <<userTxs, smgTxs, xHashFee, storemanFee, revokeRatio, initialized,
                 halted, supply, custody, wan>>

-----------------------------------------------------------------------------
(* The storeman's fee: not stopped by a halt. *)

SmgWithdrawFee(p) ==
  /\ wan >= storemanFee[p]
  /\ wan' = wan - storemanFee[p]
  /\ storemanFee' = [storemanFee EXCEPT ![p] = 0]
  /\ UNCHANGED <<quotas, userTxs, smgTxs, debtTxs, xHashFee, revokeRatio, initialized,
                 halted, supply, custody>>

-----------------------------------------------------------------------------
(* The owner, and the storeman group admin that setEconomics names *)

htlcVars == <<userTxs, smgTxs, debtTxs, xHashFee, storemanFee, supply, custody, wan>>

(* Mutant: the ratio is taken as it comes. *)
SetEconomicsUnchecked(ratio) ==
  /\ revokeRatio' = ratio
  /\ initialized' = TRUE
  /\ UNCHANGED <<quotas, htlcVars, halted>>

SetEconomics(ratio) ==
  /\ ratio <= RatioPrecise
  /\ revokeRatio' = ratio
  /\ initialized' = TRUE
  /\ UNCHANGED <<quotas, htlcVars, halted>>

SetHalt(halt) ==
  /\ halted' = halt
  /\ UNCHANGED <<quotas, htlcVars, revokeRatio, initialized>>

AddStoremanGroup(t, p, quota, ratio) ==
  /\ initialized
  /\ QuotaAdd(t, p, quota, ratio)
  /\ UNCHANGED <<htlcVars, revokeRatio, initialized, halted>>

DeactivateStoremanGroup(t, p) ==
  /\ initialized
  /\ QuotaDeactivate(t, p)
  /\ UNCHANGED <<htlcVars, revokeRatio, initialized, halted>>

DelStoremanGroup(t, p) ==
  /\ initialized
  /\ QuotaDel(t, p)
  /\ UNCHANGED <<htlcVars, revokeRatio, initialized, halted>>

UpdateStoremanGroup(t, p, quota) ==
  /\ initialized
  /\ QuotaUpdate(t, p, quota)
  /\ UNCHANGED <<htlcVars, revokeRatio, initialized, halted>>

-----------------------------------------------------------------------------
(* A user sends tokens to the contract as to any account: nothing records it. *)
TransferToHtlc(t, value) ==
  /\ supply[t] - custody[t] >= value
  /\ custody' = [custody EXCEPT ![t] = @ + value]
  /\ UNCHANGED <<quotas, userTxs, smgTxs, debtTxs, xHashFee, storemanFee, revokeRatio,
                 initialized, halted, supply, wan>>

Older(tx) == IF tx = NoTx THEN NoTx
             ELSE [tx EXCEPT !.timeLeft = IF @ > 0 THEN @ - 1 ELSE @]
Aged(table) == [x \in XHashes |-> Older(table[x])]

WanTick ==
  /\ userTxs' = Aged(userTxs)
  /\ smgTxs' = Aged(smgTxs)
  /\ debtTxs' = Aged(debtTxs)
  /\ UNCHANGED <<quotas, xHashFee, storemanFee, revokeRatio, initialized, halted,
                 supply, custody, wan>>

-----------------------------------------------------------------------------
InboundNext ==
  \/ \E u \in Users, t \in Tokens, v \in Values, x \in XHashes, p \in Storemen :
       InSmgLock(u, t, v, x, p)
  \/ \E u \in Users, x \in XHashes : InUserRedeem(u, x)
  \/ \E x \in XHashes : InSmgRevoke(x)

OutboundNext ==
  \/ \E u \in Users, t \in Tokens, v \in Values, x \in XHashes, p \in Storemen, price \in Prices :
       OutUserLock(u, t, v, x, p, price)
  \/ \E x \in XHashes : OutSmgRedeem(x)
  \/ \E x \in XHashes : OutUserRevoke(x)
  \/ \E p \in Storemen : SmgWithdrawFee(p)
  \/ \E t \in Tokens, v \in Values : TransferToHtlc(t, v)

DebtNext ==
  \/ \E t \in Tokens, x \in XHashes, src, dst \in Storemen, v \in Values :
       InDebtLock(t, x, src, v, dst)
  \/ \E x \in XHashes : InDebtRedeem(x)
  \/ \E x \in XHashes : InDebtRevoke(x)

AdminNext ==
  \/ \E r \in RevokeRatios : SetEconomics(r)
  \/ \E h \in BOOLEAN : SetHalt(h)
  \/ \E t \in Tokens, p \in Storemen, q \in Quotas, r \in TxFeeRatios :
       AddStoremanGroup(t, p, q, r)
  \/ \E t \in Tokens, p \in Storemen : DeactivateStoremanGroup(t, p)
  \/ \E t \in Tokens, p \in Storemen : DelStoremanGroup(t, p)
  \/ \E t \in Tokens, p \in Storemen, q \in Quotas : UpdateStoremanGroup(t, p, q)

WanNext == InboundNext \/ OutboundNext \/ DebtNext \/ AdminNext \/ WanTick

WanSpec == WanInit /\ [][WanNext]_wanVars

-----------------------------------------------------------------------------
(* Properties *)

WanTypeOK ==
  /\ QuotaTypeOK
  /\ userTxs \in [XHashes -> UserTx \cup {NoTx}]
  /\ smgTxs \in [XHashes -> SmgTx \cup {NoTx}]
  /\ debtTxs \in [XHashes -> DebtTx \cup {NoTx}]
  /\ xHashFee \in [XHashes -> Nat]
  /\ storemanFee \in [Storemen -> Nat]
  /\ revokeRatio \in 0..RatioPrecise
  /\ initialized \in BOOLEAN
  /\ halted \in BOOLEAN
  /\ supply \in [Tokens -> Nat]
  /\ custody \in [Tokens -> Nat]
  /\ wan \in Nat

Locked(table) == {x \in XHashes : table[x].status = "Locked"}
Value(table, xs) == MapThenSumSet(LAMBDA x : table[x].value, xs)

(* The quota counters of a group are exactly its pending transactions:     *)
(* receivable is what it issues or takes over, payable what it takes back  *)
(* or hands over.  No lock, redeem or revoke counts twice or not at all.   *)
CountersMatchPending ==
  \A t \in Tokens, p \in Storemen :
    LET of(table) == {x \in Locked(table) : table[x].token = t /\ table[x].storeman = p}
        from == {x \in Locked(debtTxs) : debtTxs[x].token = t /\ debtTxs[x].src = p}
    IN  /\ quotas[t][p].receivable = Value(smgTxs, of(smgTxs)) + Value(debtTxs, of(debtTxs))
        /\ quotas[t][p].payable = Value(userTxs, of(userTxs)) + Value(debtTxs, from)

(* The tokens issued on Wanchain are exactly what the storemen owe: mint,  *)
(* burn and the handing over of debts keep the two together.               *)
SupplyIsDebt ==
  \A t \in Tokens : supply[t] = MapThenSumSet(LAMBDA p : quotas[t][p].debt, Storemen)

(* The contract holds every token a user has locked, for the burn or the   *)
(* return to come.                                                         *)
CustodyCoversLocked ==
  \A t \in Tokens :
    custody[t] >= Value(userTxs, {x \in Locked(userTxs) : userTxs[x].token = t})

(* The wan the contract holds is exactly the fees of pending outbound      *)
(* locks and the fees storemen have earned.                                *)
WanCoversFees ==
  wan = MapThenSumSet(LAMBDA x : xHashFee[x], XHashes)
        + MapThenSumSet(LAMBDA p : storemanFee[p], Storemen)

(* A group with a pending transaction is never deleted, and a group that   *)
(* hands over a debt stays inactive until the debt is settled.             *)
PendingGroupsExist ==
  /\ \A x \in Locked(userTxs) : IsExist(userTxs[x].token, userTxs[x].storeman)
  /\ \A x \in Locked(smgTxs) : IsExist(smgTxs[x].token, smgTxs[x].storeman)
  /\ \A x \in Locked(debtTxs) : /\ IsExist(debtTxs[x].token, debtTxs[x].storeman)
                                /\ NotActive(debtTxs[x].token, debtTxs[x].src)

(* While a debt of a group is pending, nothing else of that token is       *)
(* pending for it: one debt at a time, and no user lock beside it.         *)
DebtIsAlone ==
  \A d \in Locked(debtTxs) :
    /\ \A x \in Locked(debtTxs) : debtTxs[x].token = debtTxs[d].token
         /\ debtTxs[x].src = debtTxs[d].src => x = d
    /\ \A x \in Locked(userTxs) : ~(/\ userTxs[x].token = debtTxs[d].token
                                    /\ userTxs[x].storeman = debtTxs[d].src)
    /\ \A x \in Locked(smgTxs) : ~(/\ smgTxs[x].token = debtTxs[d].token
                                   /\ smgTxs[x].storeman = debtTxs[d].src)

(* A hash is used once in each table: a transaction goes from None to      *)
(* Locked, then to Redeemed or to Revoked, and stays there for good.       *)
OneWay(table, next) ==
  \A x \in XHashes :
    /\ table[x] # NoTx => next[x] # NoTx
    /\ table[x].status \in {"Redeemed", "Revoked"} => next[x].status = table[x].status
HashesAreUsedOnce ==
  [][OneWay(userTxs, userTxs') /\ OneWay(smgTxs, smgTxs') /\ OneWay(debtTxs, debtTxs')]_wanVars
=============================================================================
