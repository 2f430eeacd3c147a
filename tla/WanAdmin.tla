------------------------------ MODULE WanAdmin ------------------------------
(***************************************************************************)
(* The contracts around the HTLC of Wanchain, composed with it: the token  *)
(* manager (tokenManager/TokenManagerDelegate.sol), which knows the tokens *)
(* and mints and burns them, and the storeman group admin                  *)
(* (storemanGroupAdmin/StoremanGroupDelegate.sol), which takes the groups' *)
(* deposits and adds and deletes their quotas in the HTLC.                 *)
(*                                                                         *)
(* A group is recorded twice, with its deposit by the admin and with its   *)
(* quota by the HTLC, and a token is looked up again by each call that     *)
(* uses it; the properties are about the two records and about tokens that *)
(* are removed, priced anew or given another token contract meanwhile.     *)
(*                                                                         *)
(* supply and custody of WanHtlc are here those of the token contract      *)
(* registered last for the token; shelf keeps what they were for the       *)
(* others.  Assumed of the owner: the contracts given to updateToken are   *)
(* WanTokens that the token manager owns, each for one token.  The scale   *)
(* of every token is one: another one acts as another price does.          *)
(***************************************************************************)
EXTENDS WanHtlc

CONSTANTS
  Deposits,     \* what a group sends to register, or to append
  MinDeposits,  \* minimum deposits of tokens
  Delays,       \* delays before a deposit is withdrawn, in ticks
  MaxDeposit,   \* bound on the deposit of a group
  MaxContract   \* bound on the numbers of the token contracts of a token

(* The HTLC tokens a deposit stands for at a price over DefaultPrecise. *)
QuotaOf(deposit, price) == (deposit * DefaultPrecise) \div price

Contracts == 0..MaxContract

ASSUME AdminConstants ==
  /\ Deposits \subseteq Nat
  /\ MinDeposits \subseteq Nat \ {0} /\ MinDeposits # {}
  /\ Delays \subseteq Nat \ {0} /\ Delays # {}
  /\ MaxDeposit \in Nat
  /\ MaxContract \in Nat
  /\ \A price \in Prices : price > 0
  /\ \A d \in Deposits \cup 1..MaxDeposit, price \in Prices : QuotaOf(d, price) \in Quotas

VARIABLES
  tokenInfo,         \* mapTokenInfo
  contract,          \* the token contract registered last, of each token
  shelf,             \* what the other token contracts were left with
  htlcAddr,          \* TRUE once the token manager knows the HTLC
  smgs,              \* storemanGroupMap
  dependence,        \* TRUE once the admin knows the token manager and the HTLC
  whiteListEnabled,  \* isWhiteListEnabled
  whiteList,         \* whiteListMap: the groups listed, by token
  smgHalted,         \* Halt.halted of the admin
  adminWan           \* wan coins of the admin

contractVars == <<contract, shelf>>
managerVars == <<tokenInfo, contractVars, htlcAddr>>
listVars == <<whiteListEnabled, whiteList>>
groupVars == <<smgs, adminWan>>
ownVars == <<managerVars, listVars, groupVars, dependence, smgHalted>>
htlcOwnVars == <<quotas, userTxs, smgTxs, debtTxs, xHashFee, storemanFee,
                 revokeRatio, initialized, halted, wan>>
adminVars == <<wanVars, ownVars>>

(* What mapTokenInfo and storemanGroupMap hold where nothing was stored.   *)
(* waited is 0 until the group applies to unregister, and then one more    *)
(* than the ticks since, up to one past the longest delay.                 *)
NoToken == [registered |-> FALSE, price |-> 0, minDeposit |-> 0, delay |-> 0]
NoGroup == [deposit |-> 0, waited |-> 0]
LongestWait == Max(Delays) + 2

(* The books of a token contract that has issued nothing. *)
NoBook == [supply |-> 0, custody |-> 0]

AdminInit ==
  /\ WanInit
  /\ tokenInfo = [t \in Tokens |-> NoToken]
  /\ contract = [t \in Tokens |-> 0]
  /\ shelf = [t \in Tokens |-> [c \in Contracts |-> NoBook]]
  /\ htlcAddr = FALSE
  /\ smgs = [t \in Tokens |-> [p \in Storemen |-> NoGroup]]
  /\ dependence = FALSE
  /\ whiteListEnabled = FALSE
  /\ whiteList = [t \in Tokens |-> {}]
  /\ smgHalted = FALSE
  /\ adminWan = 0

Registered(t) == tokenInfo[t].registered

-----------------------------------------------------------------------------
(* The token manager *)

(* What the contracts of a token have issued, and what of it the HTLC holds. *)
Books(t) == [shelf[t] EXCEPT ![contract[t]] = [supply |-> supply[t], custody |-> custody[t]]]

(* The books of the contract in use move to supply and custody.  Contracts *)
(* that have issued nothing are alike: the first one stands for them all.  *)
UseContract(t, c) ==
  /\ Books(t)[c] = NoBook => \A d \in 0..(c - 1) : Books(t)[d] # NoBook
  /\ contract' = [contract EXCEPT ![t] = c]
  /\ shelf' = [shelf EXCEPT ![t] = [Books(t) EXCEPT ![c] = NoBook]]
  /\ supply' = [supply EXCEPT ![t] = Books(t)[c].supply]
  /\ custody' = [custody EXCEPT ![t] = Books(t)[c].custody]

Register(t, price, minDeposit, delay) ==
  /\ tokenInfo' = [tokenInfo EXCEPT ![t] =
       [registered |-> TRUE, price |-> price, minDeposit |-> minDeposit, delay |-> delay]]
  /\ UNCHANGED <<htlcOwnVars, htlcAddr, listVars, groupVars, dependence, smgHalted>>

(* A new token contract: one that has issued nothing. *)
AddToken(t, c, price, minDeposit, delay) ==
  /\ ~Registered(t)
  /\ Books(t)[c] = NoBook
  /\ UseContract(t, c)
  /\ Register(t, price, minDeposit, delay)

(* The token need not be registered, and its contract may be another one. *)
UpdateToken(t, c, price, minDeposit, delay) ==
  /\ UseContract(t, c)
  /\ Register(t, price, minDeposit, delay)

(* At any time, whatever is pending in the token. *)
RemoveToken(t) ==
  /\ Registered(t)
  /\ tokenInfo' = [tokenInfo EXCEPT ![t] = NoToken]
  /\ UNCHANGED <<wanVars, contractVars, htlcAddr, listVars, groupVars, dependence, smgHalted>>

SetHtlcAddr ==
  /\ htlcAddr' = TRUE
  /\ UNCHANGED <<wanVars, tokenInfo, contractVars, listVars, groupVars, dependence, smgHalted>>

-----------------------------------------------------------------------------
(* The storeman group admin *)

SetDependence ==
  /\ dependence' = TRUE
  /\ UNCHANGED <<wanVars, managerVars, listVars, groupVars, smgHalted>>

SetSmgHalt(halt) ==
  /\ smgHalted' = halt
  /\ UNCHANGED <<wanVars, managerVars, listVars, groupVars, dependence>>

EnableWhiteList(enable) ==
  /\ whiteListEnabled' = enable
  /\ UNCHANGED <<wanVars, managerVars, whiteList, groupVars, dependence, smgHalted>>

SetWhiteList(t, p, enable) ==
  /\ whiteListEnabled
  /\ enable # (p \in whiteList[t])
  /\ whiteList' = [whiteList EXCEPT ![t] = IF enable THEN @ \cup {p} ELSE @ \ {p}]
  /\ UNCHANGED <<wanVars, managerVars, whiteListEnabled, groupVars, dependence, smgHalted>>

SmgRunning == dependence /\ ~smgHalted

(* A listed group is taken off the list when it registers. *)
StoremanGroupRegister(t, p, value, txFeeRatio) ==
  /\ SmgRunning
  /\ smgs[t][p].deposit = 0
  /\ tokenInfo[t].minDeposit > 0
  /\ value >= tokenInfo[t].minDeposit
  /\ txFeeRatio < DefaultPrecise
  /\ whiteListEnabled => p \in whiteList[t]
  /\ whiteList' = IF whiteListEnabled THEN [whiteList EXCEPT ![t] = @ \ {p}] ELSE whiteList
  /\ AddStoremanGroup(t, p, QuotaOf(value, tokenInfo[t].price), txFeeRatio)
  /\ smgs' = [smgs EXCEPT ![t][p] = [deposit |-> value, waited |-> 0]]
  /\ adminWan' = adminWan + value
  /\ UNCHANGED <<managerVars, whiteListEnabled, dependence, smgHalted>>

StoremanGroupUnregister(t, p) ==
  /\ SmgRunning
  /\ smgs[t][p] # NoGroup
  /\ smgs[t][p].waited = 0
  /\ smgs' = [smgs EXCEPT ![t][p].waited = 1]
  /\ DeactivateStoremanGroup(t, p)
  /\ UNCHANGED <<managerVars, listVars, adminWan, dependence, smgHalted>>

(* With unregisterApplyTime zero the delay has passed since 1970; with the *)
(* token removed the delay is zero.                                        *)
DelayPassed(t, p) == smgs[t][p].waited = 0 \/ smgs[t][p].waited - 1 > tokenInfo[t].delay

(* Mutant: the record of the group stays. *)
WithdrawDepositAgain(t, p) ==
  /\ SmgRunning
  /\ smgs[t][p] # NoGroup
  /\ DelayPassed(t, p)
  /\ DelStoremanGroup(t, p)
  /\ adminWan >= smgs[t][p].deposit
  /\ adminWan' = adminWan - smgs[t][p].deposit
  /\ UNCHANGED <<smgs, managerVars, listVars, dependence, smgHalted>>

StoremanGroupWithdrawDeposit(t, p) ==
  /\ SmgRunning
  /\ smgs[t][p] # NoGroup
  /\ DelayPassed(t, p)
  /\ DelStoremanGroup(t, p)
  /\ adminWan >= smgs[t][p].deposit
  /\ adminWan' = adminWan - smgs[t][p].deposit
  /\ smgs' = [smgs EXCEPT ![t][p] = NoGroup]
  /\ UNCHANGED <<managerVars, listVars, dependence, smgHalted>>

(* Mutant: the record keeps the deposit it had. *)
AppendDepositUnrecorded(t, p, value) ==
  /\ SmgRunning
  /\ value > 0
  /\ smgs[t][p] # NoGroup
  /\ smgs[t][p].waited = 0
  /\ Registered(t)
  /\ smgs[t][p].deposit + value <= MaxDeposit
  /\ UpdateStoremanGroup(t, p, QuotaOf(smgs[t][p].deposit + value, tokenInfo[t].price))
  /\ adminWan' = adminWan + value
  /\ UNCHANGED <<smgs, managerVars, listVars, dependence, smgHalted>>

(* The price of a removed token is zero, and the division by it reverts. *)
StoremanGroupAppendDeposit(t, p, value) ==
  /\ SmgRunning
  /\ value > 0
  /\ smgs[t][p] # NoGroup
  /\ smgs[t][p].waited = 0
  /\ Registered(t)
  /\ smgs[t][p].deposit + value <= MaxDeposit
  /\ UpdateStoremanGroup(t, p, QuotaOf(smgs[t][p].deposit + value, tokenInfo[t].price))
  /\ smgs' = [smgs EXCEPT ![t][p].deposit = @ + value]
  /\ adminWan' = adminWan + value
  /\ UNCHANGED <<managerVars, listVars, dependence, smgHalted>>

-----------------------------------------------------------------------------
(* The HTLC: locks ask for a registered token; what mints, burns or moves  *)
(* tokens calls the contract registered by then, and reverts without one.  *)

KnownToken(table, x) == table[x] # NoTx /\ Registered(table[x].token)

LockInbound(user, t, value, x, p) ==
  Registered(t) /\ InSmgLock(user, t, value, x, p) /\ UNCHANGED ownVars
RedeemInbound(user, x) ==
  htlcAddr /\ KnownToken(smgTxs, x) /\ InUserRedeem(user, x) /\ UNCHANGED ownVars
RevokeInbound(x) == InSmgRevoke(x) /\ UNCHANGED ownVars

LockOutbound(user, t, value, x, p) ==
  Registered(t) /\ OutUserLock(user, t, value, x, p, tokenInfo[t].price) /\ UNCHANGED ownVars
RedeemOutbound(x) ==
  htlcAddr /\ KnownToken(userTxs, x) /\ OutSmgRedeem(x) /\ UNCHANGED ownVars

(* Mutant: where the token has no contract, the failure of the transfer is ignored. *)
RevokeOutboundUnpaid(x) ==
  /\ IF KnownToken(userTxs, x) THEN OutUserRevoke(x)
     ELSE /\ Running
          /\ IsLocked(userTxs, x)
          /\ Lapsed(userTxs[x])
          /\ QuotaOutRevoke(userTxs[x].token, userTxs[x].storeman, userTxs[x].value)
          /\ userTxs' = Close(userTxs, x, "Revoked")
          /\ UNCHANGED <<smgTxs, debtTxs, xHashFee, storemanFee, revokeRatio, initialized,
                         halted, supply, custody, wan>>
  /\ UNCHANGED ownVars

RevokeOutbound(x) == KnownToken(userTxs, x) /\ OutUserRevoke(x) /\ UNCHANGED ownVars

LockDebt(t, x, src, value, dst) ==
  Registered(t) /\ InDebtLock(t, x, src, value, dst) /\ UNCHANGED ownVars
RedeemDebt(x) == InDebtRedeem(x) /\ UNCHANGED ownVars

(* Mutant: the debt, too, asks for its token. *)
RevokeDebtOfToken(x) == KnownToken(debtTxs, x) /\ InDebtRevoke(x) /\ UNCHANGED ownVars

RevokeDebt(x) == InDebtRevoke(x) /\ UNCHANGED ownVars

WithdrawFee(p) == SmgWithdrawFee(p) /\ UNCHANGED ownVars
SetHtlcHalt(halt) == SetHalt(halt) /\ UNCHANGED ownVars
SetHtlcEconomics(ratio) == SetEconomics(ratio) /\ UNCHANGED ownVars

Waited(group) ==
  [group EXCEPT !.waited = IF @ = 0 \/ @ = LongestWait THEN @ ELSE @ + 1]

AdminTick ==
  /\ WanTick
  /\ smgs' = [t \in Tokens |-> [p \in Storemen |-> Waited(smgs[t][p])]]
  /\ UNCHANGED <<managerVars, listVars, adminWan, dependence, smgHalted>>

-----------------------------------------------------------------------------
ManagerNext ==
  \/ \E t \in Tokens, c \in Contracts, price \in Prices, m \in MinDeposits, d \in Delays :
       AddToken(t, c, price, m, d) \/ UpdateToken(t, c, price, m, d)
  \/ \E t \in Tokens : RemoveToken(t)
  \/ SetHtlcAddr

GroupNext ==
  \/ SetDependence
  \/ \E h \in BOOLEAN : SetSmgHalt(h)
  \/ \E e \in BOOLEAN : EnableWhiteList(e)
  \/ \E t \in Tokens, p \in Storemen, e \in BOOLEAN : SetWhiteList(t, p, e)
  \/ \E t \in Tokens, p \in Storemen, v \in Deposits, r \in TxFeeRatios :
       StoremanGroupRegister(t, p, v, r)
  \/ \E t \in Tokens, p \in Storemen : StoremanGroupUnregister(t, p)
  \/ \E t \in Tokens, p \in Storemen : StoremanGroupWithdrawDeposit(t, p)
  \/ \E t \in Tokens, p \in Storemen, v \in Deposits : StoremanGroupAppendDeposit(t, p, v)

HtlcNext ==
  \/ \E u \in Users, t \in Tokens, v \in Values, x \in XHashes, p \in Storemen :
       \/ LockInbound(u, t, v, x, p)
       \/ LockOutbound(u, t, v, x, p)
  \/ \E u \in Users, x \in XHashes : RedeemInbound(u, x)
  \/ \E t \in Tokens, x \in XHashes, src, dst \in Storemen, v \in Values :
       LockDebt(t, x, src, v, dst)
  \/ \E x \in XHashes : RevokeInbound(x)
  \/ \E x \in XHashes : RedeemOutbound(x)
  \/ \E x \in XHashes : RevokeOutbound(x)
  \/ \E x \in XHashes : RedeemDebt(x)
  \/ \E x \in XHashes : RevokeDebt(x)
  \/ \E p \in Storemen : WithdrawFee(p)
  \/ \E h \in BOOLEAN : SetHtlcHalt(h)
  \/ \E r \in RevokeRatios : SetHtlcEconomics(r)

AllNext == ManagerNext \/ GroupNext \/ HtlcNext \/ AdminTick

AdminSpec == AdminInit /\ [][AllNext]_adminVars

-----------------------------------------------------------------------------
(* Properties *)

(* The admin's record of a group and the HTLC's never part: a group has a  *)
(* quota exactly while it has a deposit, of the size the whole deposit     *)
(* stands for at one price (the one its token had when the group last      *)
(* registered or appended: updateToken leaves quotas alone), and is active *)
(* exactly until it applies to unregister.                                 *)
RecordsAgree ==
  \A t \in Tokens, p \in Storemen :
    /\ IsExist(t, p) <=> smgs[t][p].deposit > 0
    /\ IsExist(t, p) => /\ \E price \in Prices :
                           quotas[t][p].quota = QuotaOf(smgs[t][p].deposit, price)
                        /\ quotas[t][p].active <=> smgs[t][p].waited = 0

(* The admin holds exactly the deposits of the groups it has on record, so *)
(* that each can be returned and none is returned twice.                   *)
DepositsAreHeld ==
  adminWan = MapThenSumSet(LAMBDA t :
               MapThenSumSet(LAMBDA p : smgs[t][p].deposit, Storemen), Tokens)

(* A deposit is returned only to a group that applied to unregister, that  *)
(* waited for the delay of its token while the token is registered, and    *)
(* that owes nothing and has nothing pending.  The check of the time alone *)
(* lets a group pass that never applied; that it is active in the HTLC     *)
(* stops it.                                                               *)
DepositsLeaveLast ==
  [][\A t \in Tokens, p \in Storemen :
        smgs[t][p].deposit > 0 /\ smgs'[t][p].deposit = 0 =>
          /\ smgs[t][p].waited > 0
          /\ Registered(t) => smgs[t][p].waited - 1 > tokenInfo[t].delay
          /\ quotas[t][p].debt = 0
          /\ \A x \in XHashes :
               /\ x \in Locked(smgTxs) => smgTxs[x].storeman # p \/ smgTxs[x].token # t
               /\ x \in Locked(userTxs) => userTxs[x].storeman # p \/ userTxs[x].token # t
               /\ x \in Locked(debtTxs) => p \notin {debtTxs[x].storeman, debtTxs[x].src}
                                           \/ debtTxs[x].token # t]_adminVars

-----------------------------------------------------------------------------
(* Anybody may call the revokes. *)
AdminFairness ==
  /\ WF_adminVars(AdminTick)
  /\ \A x \in XHashes : /\ WF_adminVars(RevokeOutbound(x))
                        /\ WF_adminVars(RevokeInbound(x))
                        /\ WF_adminVars(RevokeDebt(x))

AdminFairSpec == AdminSpec /\ AdminFairness

(* The contract registered last is the one users locked in, or holds as    *)
(* much of its own tokens.                                                 *)
HoldsLocked(t) ==
  custody[t] >= Value(userTxs, {x \in Locked(userTxs) : userTxs[x].token = t})

(* No lock is stuck, unless the owner keeps halting the HTLC: locks of     *)
(* storemen and debts close whatever becomes of groups, tokens and their   *)
(* contracts, even when their token is removed for good, and locks of      *)
(* users unless their token comes to be without a contract, or to have one *)
(* that does not hold what they locked, time and again.                    *)
EveryTxCloses ==
  <>[]~halted =>
    \A x \in XHashes :
      /\ x \in Locked(smgTxs) ~> x \notin Locked(smgTxs)
      /\ x \in Locked(debtTxs) ~> x \notin Locked(debtTxs)
      /\ x \in Locked(userTxs) ~> \/ x \notin Locked(userTxs)
                                  \/ ~Registered(userTxs[x].token)
                                  \/ ~HoldsLocked(userTxs[x].token)

-----------------------------------------------------------------------------
(* All the contracts of a token taken together. *)

SupplyOfAll(t) == MapThenSumSet(LAMBDA c : Books(t)[c].supply, Contracts)
CustodyOfAll(t) == MapThenSumSet(LAMBDA c : Books(t)[c].custody, Contracts)

Whole == INSTANCE WanHtlc WITH supply <- [t \in Tokens |-> SupplyOfAll(t)],
                               custody <- [t \in Tokens |-> CustodyOfAll(t)]

(* Whatever the owner does to a token, its contracts together are the one  *)
(* token of WanHtlc: no token is minted, burnt, locked or given back but   *)
(* as WanHtlc says, so that what they issued is what the groups owe, and   *)
(* what the HTLC holds of them covers what users have locked.              *)
WholeIsHtlc == Whole!WanSpec
=============================================================================
