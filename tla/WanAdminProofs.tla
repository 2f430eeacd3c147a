--------------------------- MODULE WanAdminProofs ---------------------------
(***************************************************************************)
(* What holds of WanAdmin for every set of storemen, users, hashes, tokens,*)
(* deposits, prices and delays: the two records of a group never part; the *)
(* admin holds the deposits it recorded; a deposit leaves last; and the    *)
(* contracts of a token, whichever is registered, are together the one     *)
(* token of WanHtlc.                                                       *)
(***************************************************************************)
EXTENDS WanAdmin, WanHtlcProofs

(* The records of the groups are typed, and one without a deposit is the   *)
(* record of no group.                                                     *)
Groups == {g \in [deposit : Nat, waited : Nat] : g.deposit = 0 => g = NoGroup}

GroupsOK == smgs \in [Tokens -> [Storemen -> Groups]]

(* So are those of the tokens: one that is registered has a price.         *)
Infos ==
  {NoToken} \cup {i \in [registered : BOOLEAN, price : Prices, minDeposit : MinDeposits,
                        delay : Delays] : i.registered}

InfosOK == tokenInfo \in [Tokens -> Infos]

(* And no token contract holds more of its tokens for the HTLC than it has *)
(* issued.                                                                 *)
Ledger == {b \in [supply : Nat, custody : Nat] : b.custody <= b.supply}

ContractsOK ==
  /\ contract \in [Tokens -> Contracts]
  /\ shelf \in [Tokens -> [Contracts -> Ledger]]
  /\ supply \in [Tokens -> Nat] /\ custody \in [Tokens -> Nat]
  /\ \A t \in Tokens : custody[t] <= supply[t]

-----------------------------------------------------------------------------
(* How the records of the groups change. *)

LEMMA DepositsAreNat ==
  /\ \A v \in Deposits : v \in Nat
  /\ \A v \in Deposits \cup 1..MaxDeposit, price \in Prices : QuotaOf(v, price) \in Quotas
BY AdminConstants

(* A deposit of nothing stands for no quota, which QuotaAdd refuses. *)
LEMMA NothingBuysNoQuota == \A price \in Prices : QuotaOf(0, price) = 0
<1> SUFFICES ASSUME NEW price \in Prices PROVE QuotaOf(0, price) = 0
  OBVIOUS
<1>1. DefaultPrecise \in Nat /\ price \in Nat /\ price > 0
  BY WanConstants, AdminConstants
<1>2. 0 * DefaultPrecise = 0
  BY <1>1
<1>3. 0 \div price = 0
  BY <1>1
<1> QED
  BY <1>2, <1>3 DEF QuotaOf

LEMMA RegisterDoes ==
  ASSUME GroupsOK, InfosOK,
         NEW t \in Tokens, NEW p \in Storemen, NEW v \in Deposits, NEW r \in TxFeeRatios,
         StoremanGroupRegister(t, p, v, r)
  PROVE  /\ GroupsOK' /\ v \in Nat /\ v > 0 /\ tokenInfo[t].price \in Prices
         /\ smgs[t][p].deposit = 0 /\ smgs'[t][p] = [deposit |-> v, waited |-> 0]
         /\ \A u \in Tokens, o \in Storemen : u # t \/ o # p => smgs'[u][o] = smgs[u][o]
<1> DEFINE g == [deposit |-> v, waited |-> 0]
<1>0. tokenInfo[t].price \in Prices
  <2>1. tokenInfo[t] \in Infos /\ tokenInfo[t] # NoToken
    BY DEF InfosOK, StoremanGroupRegister, NoToken
  <2> QED
    BY <2>1 DEF Infos
<1>1. v \in Nat /\ v # 0
  BY <1>0, DepositsAreNat, NothingBuysNoQuota
  DEF StoremanGroupRegister, AddStoremanGroup, QuotaAdd
<1>2. g \in Groups
  BY <1>1 DEF Groups
<1>3. smgs' = [smgs EXCEPT ![t][p] = g] /\ smgs[t][p].deposit = 0
  BY DEF StoremanGroupRegister
<1>4. /\ GroupsOK' /\ smgs'[t][p] = g
      /\ \A u \in Tokens, o \in Storemen : u # t \/ o # p => smgs'[u][o] = smgs[u][o]
  BY <1>2, <1>3 DEF GroupsOK
<1> QED
  BY <1>0, <1>1, <1>3, <1>4

LEMMA UnregisterDoes ==
  ASSUME GroupsOK, NEW t \in Tokens, NEW p \in Storemen, StoremanGroupUnregister(t, p)
  PROVE  /\ GroupsOK' /\ smgs[t][p].deposit > 0
         /\ smgs'[t][p].deposit = smgs[t][p].deposit /\ smgs'[t][p].waited = 1
         /\ \A u \in Tokens, o \in Storemen : u # t \/ o # p => smgs'[u][o] = smgs[u][o]
<1> DEFINE g == [smgs[t][p] EXCEPT !.waited = 1]
<1>1. smgs[t][p] \in Groups /\ smgs[t][p] # NoGroup
  BY DEF GroupsOK, StoremanGroupUnregister
<1>2. /\ g \in Groups /\ smgs[t][p].deposit > 0
      /\ g.deposit = smgs[t][p].deposit /\ g.waited = 1
  BY <1>1 DEF Groups
<1>3. smgs' = [smgs EXCEPT ![t][p] = g]
  BY DEF StoremanGroupUnregister
<1> HIDE DEF g
<1>4. /\ GroupsOK' /\ smgs'[t][p] = g
      /\ \A u \in Tokens, o \in Storemen : u # t \/ o # p => smgs'[u][o] = smgs[u][o]
  BY <1>2, <1>3 DEF GroupsOK
<1> QED
  BY <1>2, <1>4

LEMMA WithdrawDoes ==
  ASSUME GroupsOK, NEW t \in Tokens, NEW p \in Storemen, StoremanGroupWithdrawDeposit(t, p)
  PROVE  /\ GroupsOK' /\ smgs[t][p].deposit > 0 /\ smgs'[t][p] = NoGroup
         /\ \A u \in Tokens, o \in Storemen : u # t \/ o # p => smgs'[u][o] = smgs[u][o]
<1>1. smgs[t][p] \in Groups /\ smgs[t][p] # NoGroup
  BY DEF GroupsOK, StoremanGroupWithdrawDeposit
<1>2. NoGroup \in Groups /\ smgs[t][p].deposit > 0
  BY <1>1 DEF Groups, NoGroup
<1>3. smgs' = [smgs EXCEPT ![t][p] = NoGroup]
  BY DEF StoremanGroupWithdrawDeposit
<1> QED
  BY <1>2, <1>3 DEF GroupsOK

LEMMA AppendDoes ==
  ASSUME GroupsOK, InfosOK, NEW t \in Tokens, NEW p \in Storemen, NEW v \in Deposits,
         StoremanGroupAppendDeposit(t, p, v)
  PROVE  /\ GroupsOK' /\ v \in Nat /\ smgs[t][p].deposit > 0 /\ tokenInfo[t].price \in Prices
         /\ smgs[t][p].deposit + v \in 1..MaxDeposit
         /\ smgs'[t][p].deposit = smgs[t][p].deposit + v
         /\ smgs'[t][p].waited = smgs[t][p].waited
         /\ \A u \in Tokens, o \in Storemen : u # t \/ o # p => smgs'[u][o] = smgs[u][o]
<1> DEFINE g == [smgs[t][p] EXCEPT !.deposit = @ + v]
<1>0. tokenInfo[t].price \in Prices
  <2>1. tokenInfo[t] \in Infos /\ tokenInfo[t] # NoToken
    BY DEF InfosOK, StoremanGroupAppendDeposit, Registered, NoToken
  <2> QED
    BY <2>1 DEF Infos
<1>1. smgs[t][p] \in Groups /\ smgs[t][p] # NoGroup /\ v \in Nat
  BY DepositsAreNat DEF GroupsOK, StoremanGroupAppendDeposit
<1>2. /\ g \in Groups /\ smgs[t][p].deposit > 0 /\ smgs[t][p].deposit \in Nat
      /\ g.deposit = smgs[t][p].deposit + v /\ g.waited = smgs[t][p].waited
  BY <1>1 DEF Groups
<1>3. smgs' = [smgs EXCEPT ![t][p] = g] /\ smgs[t][p].deposit + v <= MaxDeposit
  BY DEF StoremanGroupAppendDeposit
<1> HIDE DEF g
<1>4. /\ GroupsOK' /\ smgs'[t][p] = g
      /\ \A u \in Tokens, o \in Storemen : u # t \/ o # p => smgs'[u][o] = smgs[u][o]
  BY <1>2, <1>3 DEF GroupsOK
<1>5. smgs[t][p].deposit + v \in 1..MaxDeposit
  BY <1>1, <1>2, <1>3, AdminConstants
<1> QED
  BY <1>0, <1>1, <1>2, <1>4, <1>5

(* A tick moves the clock of the groups that wait. *)
LEMMA TickDoes ==
  ASSUME GroupsOK, AdminTick
  PROVE  /\ GroupsOK'
         /\ \A t \in Tokens, p \in Storemen :
              /\ smgs'[t][p].deposit = smgs[t][p].deposit
              /\ smgs'[t][p].waited = 0 <=> smgs[t][p].waited = 0
<1>1. ASSUME NEW g \in Groups
      PROVE  /\ Waited(g) \in Groups /\ Waited(g).deposit = g.deposit
             /\ Waited(g).waited = 0 <=> g.waited = 0
  <2>1. CASE g.waited = 0 \/ g.waited = LongestWait
    <3>1. Waited(g) = g
      BY <2>1 DEF Waited, Groups
    <3> QED
      BY <3>1
  <2>2. CASE g.waited # 0 /\ g.waited # LongestWait
    <3>1. Waited(g) = [g EXCEPT !.waited = @ + 1]
      BY <2>2 DEF Waited
    <3>2. g.deposit # 0
      BY <2>2 DEF Groups, NoGroup
    <3> QED
      BY <2>2, <3>1, <3>2 DEF Groups
  <2> QED
    BY <2>1, <2>2
<1>2. smgs' = [t \in Tokens |-> [p \in Storemen |-> Waited(smgs[t][p])]]
  BY DEF AdminTick
<1> QED
  BY <1>1, <1>2 DEF GroupsOK

LEMMA GroupsAtFirst == AdminInit => GroupsOK /\ InfosOK
BY DEF AdminInit, GroupsOK, Groups, NoGroup, InfosOK, Infos

LEMMA InfosStayTyped == InfosOK /\ [AllNext]_adminVars => InfosOK'
<1> SUFFICES ASSUME InfosOK, [AllNext]_adminVars PROVE InfosOK'
  OBVIOUS
<1>1. UNCHANGED tokenInfo => InfosOK'
  BY DEF InfosOK
<1>2. ASSUME NEW t \in Tokens, NEW price \in Prices, NEW m \in MinDeposits, NEW d \in Delays,
             Register(t, price, m, d)
      PROVE  InfosOK'
  <2> DEFINE i == [registered |-> TRUE, price |-> price, minDeposit |-> m, delay |-> d]
  <2>1. i \in Infos
    BY DEF Infos
  <2>2. tokenInfo' = [tokenInfo EXCEPT ![t] = i]
    BY <1>2 DEF Register
  <2> HIDE DEF i
  <2> QED
    BY <2>1, <2>2 DEF InfosOK
<1>3. ASSUME NEW t \in Tokens, RemoveToken(t) PROVE InfosOK'
  BY <1>3 DEF RemoveToken, InfosOK, Infos
<1>4. ManagerNext => InfosOK'
  BY <1>1, <1>2, <1>3 DEF ManagerNext, AddToken, UpdateToken, SetHtlcAddr
<1>5. GroupNext => UNCHANGED tokenInfo
  BY DEF GroupNext, SetDependence, SetSmgHalt, EnableWhiteList, SetWhiteList, managerVars,
         StoremanGroupRegister, StoremanGroupUnregister, StoremanGroupWithdrawDeposit,
         StoremanGroupAppendDeposit
<1>6. HtlcNext => UNCHANGED tokenInfo
  BY DEF HtlcNext, LockInbound, RedeemInbound, RevokeInbound, LockOutbound, RedeemOutbound,
         RevokeOutbound, LockDebt, RedeemDebt, RevokeDebt, WithdrawFee, SetHtlcHalt,
         SetHtlcEconomics, ownVars, managerVars
<1>7. AdminTick \/ UNCHANGED adminVars => UNCHANGED tokenInfo
  BY DEF AdminTick, adminVars, ownVars, managerVars
<1> QED
  BY <1>1, <1>4, <1>5, <1>6, <1>7 DEF AllNext

LEMMA GroupsStayTyped == GroupsOK /\ InfosOK /\ [AllNext]_adminVars => GroupsOK'
<1> SUFFICES ASSUME GroupsOK, InfosOK, [AllNext]_adminVars PROVE GroupsOK'
  OBVIOUS
<1>1. ASSUME UNCHANGED smgs PROVE GroupsOK'
  BY <1>1 DEF GroupsOK
<1>2. ManagerNext => UNCHANGED smgs
  BY DEF ManagerNext, AddToken, UpdateToken, Register, RemoveToken, SetHtlcAddr, groupVars
<1>3. HtlcNext => UNCHANGED smgs
  BY DEF HtlcNext, LockInbound, RedeemInbound, RevokeInbound, LockOutbound, RedeemOutbound,
         RevokeOutbound, LockDebt, RedeemDebt, RevokeDebt, WithdrawFee, SetHtlcHalt,
         SetHtlcEconomics, ownVars, groupVars
<1>4. CASE GroupNext
  BY <1>1, <1>4, RegisterDoes, UnregisterDoes, WithdrawDoes, AppendDoes
  DEF GroupNext, SetDependence, SetSmgHalt, EnableWhiteList, SetWhiteList, groupVars
<1>5. UNCHANGED adminVars => UNCHANGED smgs
  BY DEF adminVars, ownVars, groupVars
<1> QED
  BY <1>1, <1>2, <1>3, <1>4, <1>5, TickDoes DEF AllNext

LEMMA GroupsTyped == AdminSpec => [](GroupsOK /\ InfosOK)
BY GroupsAtFirst, GroupsStayTyped, InfosStayTyped, PTL DEF AdminSpec

-----------------------------------------------------------------------------
(* Every step of the whole but those of the token manager is a step of     *)
(* WanHtlc, or leaves what it has: the quotas the admin gives are among    *)
(* Quotas.                                                                 *)

LEMMA HtlcStepIsWans == InfosOK /\ HtlcNext => WanNext
<1> SUFFICES ASSUME InfosOK, HtlcNext PROVE WanNext
  OBVIOUS
<1>1. ASSUME NEW u \in Users, NEW t \in Tokens, NEW v \in Values, NEW x \in XHashes,
             NEW p \in Storemen, LockInbound(u, t, v, x, p)
      PROVE  InboundNext
  BY <1>1 DEF LockInbound, InboundNext
<1>8. ASSUME NEW u \in Users, NEW t \in Tokens, NEW v \in Values, NEW x \in XHashes,
             NEW p \in Storemen, LockOutbound(u, t, v, x, p)
      PROVE  OutboundNext
  <2>1. tokenInfo[t].price \in Prices
    BY <1>8 DEF InfosOK, Infos, LockOutbound, Registered, NoToken
  <2> QED
    BY <1>8, <2>1 DEF LockOutbound, OutboundNext
<1>2. ASSUME NEW u \in Users, NEW x \in XHashes, RedeemInbound(u, x)
      PROVE  InboundNext
  BY <1>2 DEF RedeemInbound, InboundNext
<1>3. ASSUME NEW t \in Tokens, NEW x \in XHashes, NEW src \in Storemen, NEW dst \in Storemen,
             NEW v \in Values, LockDebt(t, x, src, v, dst)
      PROVE  DebtNext
  BY <1>3 DEF LockDebt, DebtNext
<1>4. ASSUME NEW x \in XHashes,
             \/ RevokeInbound(x) \/ RedeemOutbound(x) \/ RevokeOutbound(x)
             \/ RedeemDebt(x) \/ RevokeDebt(x)
      PROVE  InboundNext \/ OutboundNext \/ DebtNext
  BY <1>4 DEF RevokeInbound, RedeemOutbound, RevokeOutbound, RedeemDebt, RevokeDebt,
              InboundNext, OutboundNext, DebtNext
<1>5. ASSUME NEW p \in Storemen, WithdrawFee(p)
      PROVE  OutboundNext
  BY <1>5 DEF WithdrawFee, OutboundNext
<1>6. ASSUME NEW h \in BOOLEAN, SetHtlcHalt(h)
      PROVE  AdminNext
  BY <1>6 DEF SetHtlcHalt, AdminNext
<1>7. ASSUME NEW r \in RevokeRatios, SetHtlcEconomics(r)
      PROVE  AdminNext
  BY <1>7 DEF SetHtlcEconomics, AdminNext
<1> QED
  BY <1>1, <1>2, <1>3, <1>4, <1>5, <1>6, <1>7, <1>8 DEF HtlcNext, WanNext

LEMMA GroupStepIsWans == GroupsOK /\ InfosOK /\ GroupNext => AdminNext \/ UNCHANGED wanVars
<1> SUFFICES ASSUME GroupsOK, InfosOK, GroupNext PROVE AdminNext \/ UNCHANGED wanVars
  OBVIOUS
<1>1. ASSUME NEW t \in Tokens, NEW p \in Storemen, NEW v \in Deposits, NEW r \in TxFeeRatios,
             StoremanGroupRegister(t, p, v, r)
      PROVE  AdminNext
  <2>1. QuotaOf(v, tokenInfo[t].price) \in Quotas
    BY <1>1, RegisterDoes, DepositsAreNat
  <2> QED
    BY <1>1, <2>1 DEF StoremanGroupRegister, AdminNext
<1>2. ASSUME NEW t \in Tokens, NEW p \in Storemen, StoremanGroupUnregister(t, p)
      PROVE  AdminNext
  BY <1>2 DEF StoremanGroupUnregister, AdminNext
<1>3. ASSUME NEW t \in Tokens, NEW p \in Storemen, StoremanGroupWithdrawDeposit(t, p)
      PROVE  AdminNext
  BY <1>3 DEF StoremanGroupWithdrawDeposit, AdminNext
<1>4. ASSUME NEW t \in Tokens, NEW p \in Storemen, NEW v \in Deposits,
             StoremanGroupAppendDeposit(t, p, v)
      PROVE  AdminNext
  <2>1. QuotaOf(smgs[t][p].deposit + v, tokenInfo[t].price) \in Quotas
    BY <1>4, AppendDoes, DepositsAreNat
  <2> QED
    BY <1>4, <2>1 DEF StoremanGroupAppendDeposit, AdminNext
<1> QED
  BY <1>1, <1>2, <1>3, <1>4
  DEF GroupNext, SetDependence, SetSmgHalt, EnableWhiteList, SetWhiteList

LEMMA OtherStepsAreWans == GroupsOK /\ InfosOK /\ [AllNext]_adminVars => ManagerNext \/ [WanNext]_wanVars
<1>2. AdminTick => WanNext
  BY DEF AdminTick, WanNext
<1>3. UNCHANGED adminVars => UNCHANGED wanVars
  BY DEF adminVars
<1> QED
  BY <1>2, <1>3, HtlcStepIsWans, GroupStepIsWans DEF AllNext, WanNext

-----------------------------------------------------------------------------
(* The token manager changes nothing of the HTLC but which token contract  *)
(* it finds.                                                               *)

LEMMA BooksTyped ==
  ASSUME ContractsOK, NEW t \in Tokens
  PROVE  /\ Books(t) \in [Contracts -> Ledger]
         /\ Books(t)[contract[t]] = [supply |-> supply[t], custody |-> custody[t]]
         /\ \A c \in Contracts \ {contract[t]} : Books(t)[c] = shelf[t][c]
<1> DEFINE b == [supply |-> supply[t], custody |-> custody[t]]
<1>1. b \in Ledger /\ shelf[t] \in [Contracts -> Ledger] /\ contract[t] \in Contracts
  BY DEF ContractsOK, Ledger
<1>2. Books(t) = [shelf[t] EXCEPT ![contract[t]] = b]
  BY DEF Books
<1> HIDE DEF b
<1>3. /\ Books(t) \in [Contracts -> Ledger]
      /\ Books(t)[contract[t]] = b
      /\ \A c \in Contracts \ {contract[t]} : Books(t)[c] = shelf[t][c]
  BY <1>1, <1>2
<1> QED
  BY <1>3 DEF b

LEMMA BooksTypedNext ==
  ContractsOK' => \A t \in Tokens : /\ Books(t)' \in [Contracts -> Ledger]
    /\ Books(t)'[contract'[t]] = [supply |-> supply'[t], custody |-> custody'[t]]
    /\ \A c \in Contracts \ {contract'[t]} : Books(t)'[c] = shelf'[t][c]
<1>1. ContractsOK => \A u \in Tokens : /\ Books(u) \in [Contracts -> Ledger]
         /\ Books(u)[contract[u]] = [supply |-> supply[u], custody |-> custody[u]]
         /\ \A c \in Contracts \ {contract[u]} : Books(u)[c] = shelf[u][c]
  BY BooksTyped
<1>2. (ContractsOK => \A u \in Tokens : /\ Books(u) \in [Contracts -> Ledger]
         /\ Books(u)[contract[u]] = [supply |-> supply[u], custody |-> custody[u]]
         /\ \A c \in Contracts \ {contract[u]} : Books(u)[c] = shelf[u][c])'
  BY <1>1, PTL
<1> QED
  BY <1>2

(* Which contract is registered makes no difference to the books of all.   *)
LEMMA UseContractDoes ==
  ASSUME ContractsOK, NEW t \in Tokens, NEW c \in Contracts, UseContract(t, c)
  PROVE  ContractsOK' /\ \A u \in Tokens : Books(u)' = Books(u)
<1> DEFINE books == Books(t)
           rest == [books EXCEPT ![c] = NoBook]
<1>1. books \in [Contracts -> Ledger] /\ books[c] \in Ledger
  BY BooksTyped
<1>2. /\ contract' = [contract EXCEPT ![t] = c] /\ shelf' = [shelf EXCEPT ![t] = rest]
      /\ supply' = [supply EXCEPT ![t] = books[c].supply]
      /\ custody' = [custody EXCEPT ![t] = books[c].custody]
  BY DEF UseContract
<1>3. NoBook \in Ledger
  BY DEF NoBook, Ledger
<1>4. rest \in [Contracts -> Ledger]
  BY <1>1, <1>3
<1>5. books[c].supply \in Nat /\ books[c].custody \in Nat /\ books[c].custody <= books[c].supply
      /\ books[c] = [supply |-> books[c].supply, custody |-> books[c].custody]
  BY <1>1 DEF Ledger
<1>6. [rest EXCEPT ![c] = books[c]] = books
  BY <1>1, <1>3
<1> HIDE DEF books, rest
<1>7. ContractsOK'
  BY <1>2, <1>4, <1>5 DEF ContractsOK
<1>8. /\ shelf'[t] = rest /\ contract'[t] = c
      /\ supply'[t] = books[c].supply /\ custody'[t] = books[c].custody
      /\ \A u \in Tokens \ {t} : /\ shelf'[u] = shelf[u] /\ contract'[u] = contract[u]
                                 /\ supply'[u] = supply[u] /\ custody'[u] = custody[u]
  BY <1>2 DEF ContractsOK
<1>9. Books(t)' = [shelf'[t] EXCEPT ![contract'[t]] = [supply |-> supply'[t], custody |-> custody'[t]]]
  BY DEF Books
<1>10. Books(t)' = [rest EXCEPT ![c] = [supply |-> books[c].supply, custody |-> books[c].custody]]
  BY <1>8, <1>9
<1>11. Books(t)' = books
  BY <1>5, <1>6, <1>10, Zenon
<1>12. \A u \in Tokens \ {t} : Books(u)' = Books(u)
  BY <1>8 DEF Books
<1> QED
  BY <1>7, <1>11, <1>12 DEF books

LEMMA ManagerDoes ==
  ASSUME ContractsOK, ManagerNext
  PROVE  ContractsOK' /\ UNCHANGED htlcOwnVars /\ \A u \in Tokens : Books(u)' = Books(u)
<1>1. ASSUME NEW t \in Tokens, NEW c \in Contracts, NEW price \in Prices, NEW m \in MinDeposits,
             NEW d \in Delays, AddToken(t, c, price, m, d) \/ UpdateToken(t, c, price, m, d)
      PROVE  UseContract(t, c) /\ UNCHANGED htlcOwnVars
  BY <1>1 DEF AddToken, UpdateToken, Register
<1>2. ASSUME UNCHANGED <<wanVars, contractVars>>
      PROVE  ContractsOK' /\ UNCHANGED htlcOwnVars /\ \A u \in Tokens : Books(u)' = Books(u)
  BY <1>2 DEF wanVars, htlcOwnVars, contractVars, ContractsOK, Books
<1>3. SetHtlcAddr \/ (\E t \in Tokens : RemoveToken(t)) => UNCHANGED <<wanVars, contractVars>>
  BY DEF SetHtlcAddr, RemoveToken
<1> QED
  BY <1>1, <1>2, <1>3, UseContractDoes DEF ManagerNext

(* What the other steps issue, or move to and from the HTLC, is tokens of  *)
(* the contract in use.                                                    *)
Issues(t) ==
  /\ supply' \in [Tokens -> Nat] /\ custody' \in [Tokens -> Nat]
  /\ custody'[t] <= supply'[t]
  /\ \A u \in Tokens \ {t} : supply'[u] = supply[u] /\ custody'[u] = custody[u]

LEMMA HtlcIssues ==
  ASSUME WanInv, ContractsOK, HtlcNext
  PROVE  /\ UNCHANGED contractVars
         /\ UNCHANGED <<supply, custody>> \/ \E t \in Tokens : Issues(t)
<1>0. /\ supply \in [Tokens -> Nat] /\ custody \in [Tokens -> Nat]
      /\ \A t \in Tokens : custody[t] <= supply[t]
  BY DEF ContractsOK
<1>1. UNCHANGED contractVars
  BY DEF HtlcNext, LockInbound, RedeemInbound, RevokeInbound, LockOutbound, RedeemOutbound,
         RevokeOutbound, LockDebt, RedeemDebt, RevokeDebt, WithdrawFee, SetHtlcHalt,
         SetHtlcEconomics, ownVars, managerVars
<1> DEFINE Some == \E t \in Tokens : Issues(t)
<1>2. ASSUME NEW u \in Users, NEW x \in XHashes, RedeemInbound(u, x) PROVE Some
  <2> DEFINE t == smgTxs[x].token
             v == smgTxs[x].value
  <2>1. t \in Tokens /\ v \in Nat
    BY <1>2, LockedSmg DEF RedeemInbound, InUserRedeem
  <2>2. supply' = [supply EXCEPT ![t] = @ + v] /\ custody' = custody
    BY <1>2 DEF RedeemInbound, InUserRedeem
  <2> HIDE DEF t, v
  <2>3. supply[t] + v \in Nat /\ supply[t] + v >= custody[t]
    BY <1>0, <2>1
  <2>4. Issues(t)
    BY <1>0, <2>1, <2>2, <2>3 DEF Issues
  <2> QED
    BY <2>1, <2>4
<1>3. ASSUME NEW u \in Users, NEW t \in Tokens, NEW v \in Values, NEW x \in XHashes,
             NEW p \in Storemen, LockOutbound(u, t, v, x, p)
      PROVE  Some
  <2>1. v \in Nat
    BY WanConstants
  <2>2. supply' = supply /\ custody' = [custody EXCEPT ![t] = @ + v] /\ supply[t] - custody[t] >= v
    BY <1>3 DEF LockOutbound, OutUserLock
  <2>3. custody[t] + v \in Nat /\ custody[t] + v <= supply[t]
    <3>1. custody[t] \in Nat /\ supply[t] \in Nat
      BY <1>0
    <3> QED
      BY <2>1, <2>2, <3>1
  <2>4. Issues(t)
    BY <1>0, <2>2, <2>3 DEF Issues
  <2> QED
    BY <2>4
<1>4. ASSUME NEW x \in XHashes, RedeemOutbound(x) PROVE Some
  <2> DEFINE t == userTxs[x].token
             v == userTxs[x].value
  <2>1. t \in Tokens /\ v \in Nat
    BY <1>4, LockedUser DEF RedeemOutbound, OutSmgRedeem
  <2>2. /\ supply' = [supply EXCEPT ![t] = @ - v] /\ custody' = [custody EXCEPT ![t] = @ - v]
        /\ custody[t] >= v /\ supply[t] >= v
    BY <1>4 DEF RedeemOutbound, OutSmgRedeem
  <2> HIDE DEF t, v
  <2>3. supply[t] - v \in Nat /\ custody[t] - v \in Nat /\ custody[t] - v <= supply[t] - v
    <3>1. custody[t] \in Nat /\ supply[t] \in Nat /\ custody[t] <= supply[t]
      BY <1>0, <2>1
    <3> QED
      BY <2>1, <2>2, <3>1
  <2>4. Issues(t)
    BY <1>0, <2>1, <2>2, <2>3 DEF Issues
  <2> QED
    BY <2>1, <2>4
<1>5. ASSUME NEW x \in XHashes, RevokeOutbound(x) PROVE Some
  <2> DEFINE t == userTxs[x].token
             v == userTxs[x].value
  <2>1. t \in Tokens /\ v \in Nat
    BY <1>5, LockedUser DEF RevokeOutbound, OutUserRevoke
  <2>2. supply' = supply /\ custody' = [custody EXCEPT ![t] = @ - v] /\ custody[t] >= v
    BY <1>5 DEF RevokeOutbound, OutUserRevoke
  <2> HIDE DEF t, v
  <2>3. custody[t] - v \in Nat /\ custody[t] - v <= supply[t]
    <3>1. custody[t] \in Nat /\ supply[t] \in Nat /\ custody[t] <= supply[t]
      BY <1>0, <2>1
    <3> QED
      BY <2>1, <2>2, <3>1
  <2>4. Issues(t)
    BY <1>0, <2>1, <2>2, <2>3 DEF Issues
  <2> QED
    BY <2>1, <2>4
<1> HIDE DEF Some
<1>6. UNCHANGED <<supply, custody>> \/ Some
  BY <1>2, <1>3, <1>4, <1>5
  DEF HtlcNext, LockInbound, RevokeInbound, LockDebt, RedeemDebt, RevokeDebt, WithdrawFee,
      SetHtlcHalt, SetHtlcEconomics, InSmgLock, InSmgRevoke, InDebtLock, InDebtRedeem,
      InDebtRevoke, SmgWithdrawFee, SetHalt, SetEconomics, htlcVars
<1> QED
  BY <1>1, <1>6 DEF Some

LEMMA StepsKeepContracts ==
  ASSUME ContractsOK, UNCHANGED contractVars,
         UNCHANGED <<supply, custody>> \/ \E t \in Tokens : Issues(t)
  PROVE  ContractsOK'
BY DEF ContractsOK, contractVars, Issues

LEMMA OthersIssueNothing ==
  GroupNext \/ AdminTick \/ UNCHANGED adminVars => UNCHANGED <<contractVars, supply, custody>>
BY DEF GroupNext, SetDependence, SetSmgHalt, EnableWhiteList, SetWhiteList, managerVars,
       StoremanGroupRegister, StoremanGroupUnregister, StoremanGroupWithdrawDeposit,
       StoremanGroupAppendDeposit, AddStoremanGroup, DeactivateStoremanGroup, DelStoremanGroup,
       UpdateStoremanGroup, htlcVars, AdminTick, WanTick, adminVars, ownVars, wanVars

LEMMA ContractsStayOK == WanInv /\ ContractsOK /\ [AllNext]_adminVars => ContractsOK'
BY ManagerDoes, HtlcIssues, OthersIssueNothing, StepsKeepContracts DEF AllNext

(* The HTLC's invariants are invariants of the whole. *)
LEMMA ManagerKeepsWanInv ==
  ASSUME WanInv, ContractsOK', UNCHANGED htlcOwnVars
  PROVE  WanInv' /\ (BooksInv => BooksInv')
<1>1. supply' \in [Tokens -> Nat] /\ custody' \in [Tokens -> Nat]
  BY DEF ContractsOK
<1>2. /\ quotas' = quotas /\ userTxs' = userTxs /\ smgTxs' = smgTxs /\ debtTxs' = debtTxs
      /\ xHashFee' = xHashFee /\ storemanFee' = storemanFee /\ revokeRatio' = revokeRatio
      /\ initialized' = initialized /\ halted' = halted /\ wan' = wan
  BY DEF htlcOwnVars
<1>3. QuotaInv' /\ TablesOK' /\ DistinctParties'
  BY <1>2 DEF WanInv, QuotaInv, QuotaTypeOK, PayableWithinDebt, TablesOK, DistinctParties, Locked
<1>4. MoneyOK'
  BY <1>1, <1>2 DEF WanInv, MoneyOK
<1>5. BooksInv => BooksInv'
  <2>1. CountersMatchPending => CountersMatchPending'
    BY <1>2, CountersParts
  <2>2. GoneAreClear => GoneAreClear'
    BY <1>2 DEF GoneAreClear, IsExist, IsDebtPaidOff
  <2>3. Moves(userTxs)' = Moves(userTxs) /\ Moves(smgTxs)' = Moves(smgTxs)
        /\ Moves(debtTxs)' = Moves(debtTxs)
    BY <1>2
  <2>4. SourcesAreInactive => SourcesAreInactive'
    BY <1>2 DEF SourcesAreInactive, NotActive, IsExist
  <2>5. DebtIsAlone => DebtIsAlone'
    BY <1>2 DEF DebtIsAlone
  <2> QED
    BY <2>1, <2>2, <2>3, <2>4, <2>5 DEF BooksInv
<1> QED
  BY <1>3, <1>4, <1>5 DEF WanInv

AllInv == WanInv /\ GroupsOK /\ InfosOK /\ ContractsOK

LEMMA AllInvStep ==
  ASSUME AllInv, [AllNext]_adminVars
  PROVE  AllInv' /\ (IsFiniteSet(XHashes) /\ BooksInv => BooksInv')
<1>1. GroupsOK' /\ InfosOK' /\ ContractsOK'
  BY GroupsStayTyped, InfosStayTyped, ContractsStayOK DEF AllInv
<1>2. CASE ManagerNext
  BY <1>1, <1>2, ManagerDoes, ManagerKeepsWanInv DEF AllInv
<1>3. CASE [WanNext]_wanVars
  BY <1>1, <1>3, WanNextInv, BooksStep DEF AllInv
<1> QED
  BY <1>2, <1>3, OtherStepsAreWans DEF AllInv

LEMMA AllInvariant == AdminSpec => []AllInv
<1>1. AdminInit => AllInv
  <2> SUFFICES ASSUME AdminInit PROVE AllInv
    OBVIOUS
  <2>1. WanInv /\ GroupsOK /\ InfosOK
    BY WanInitInv, GroupsAtFirst DEF AdminInit
  <2>2. 0 \in Contracts /\ NoBook \in Ledger
    BY AdminConstants DEF Contracts, NoBook, Ledger
  <2>3. ContractsOK
    BY <2>2 DEF AdminInit, WanInit, ContractsOK
  <2> QED
    BY <2>1, <2>3 DEF AllInv
<1>2. AllInv /\ [AllNext]_adminVars => AllInv'
  BY AllInvStep
<1> QED
  BY <1>1, <1>2, PTL DEF AdminSpec

LEMMA WholeKeepsBooks ==
  ASSUME IsFiniteSet(XHashes)
  PROVE  AdminSpec => []BooksInv
<1>1. AdminInit => BooksInv
  BY BooksAtFirst DEF AdminInit
<1>2. AllInv /\ BooksInv /\ [AllNext]_adminVars => BooksInv'
  BY AllInvStep
<1> QED
  BY <1>1, <1>2, AllInvariant, PTL DEF AdminSpec

-----------------------------------------------------------------------------
(* The two records of a group. *)

Agree(row, group) ==
  /\ row.quota # 0 <=> group.deposit > 0
  /\ row.quota # 0 => /\ \E price \in Prices : row.quota = QuotaOf(group.deposit, price)
                      /\ row.active <=> group.waited = 0

LEMMA AgreeParts ==
  RecordsAgree <=> \A t \in Tokens, p \in Storemen : Agree(quotas[t][p], smgs[t][p])
BY DEF RecordsAgree, Agree, IsExist

(* No step of the HTLC's users and storemen touches a quota or retires a   *)
(* group.                                                                  *)
LEMMA HtlcKeepsQuotas ==
  ASSUME WanInv, InfosOK, HtlcNext
  PROVE  \A t \in Tokens, p \in Storemen : Keeps(t, p)
<1>1. ASSUME NEW u \in Users, NEW t \in Tokens, NEW v \in Values, NEW x \in XHashes,
             NEW p \in Storemen, InSmgLock(u, t, v, x, p)
      PROVE  \A o \in Tokens, r \in Storemen : Keeps(o, r)
  BY <1>1, InSmgLockDoes DEF Shift
<1>13. ASSUME NEW u \in Users, NEW t \in Tokens, NEW v \in Values, NEW x \in XHashes,
              NEW p \in Storemen, LockOutbound(u, t, v, x, p)
       PROVE  \A o \in Tokens, r \in Storemen : Keeps(o, r)
  <2>1. tokenInfo[t].price \in Prices
    BY <1>13 DEF InfosOK, Infos, LockOutbound, Registered, NoToken
  <2> QED
    BY <1>13, <2>1, OutUserLockDoes DEF Shift, LockOutbound
<1>2. ASSUME NEW u \in Users, NEW x \in XHashes, InUserRedeem(u, x)
      PROVE  \A o \in Tokens, r \in Storemen : Keeps(o, r)
  BY <1>2, InUserRedeemDoes DEF Shift
<1>3. ASSUME NEW x \in XHashes, InSmgRevoke(x)
      PROVE  \A o \in Tokens, r \in Storemen : Keeps(o, r)
  BY <1>3, InSmgRevokeDoes DEF Shift
<1>4. ASSUME NEW x \in XHashes, OutSmgRedeem(x)
      PROVE  \A o \in Tokens, r \in Storemen : Keeps(o, r)
  BY <1>4, OutSmgRedeemDoes DEF Shift
<1>5. ASSUME NEW x \in XHashes, OutUserRevoke(x)
      PROVE  \A o \in Tokens, r \in Storemen : Keeps(o, r)
  BY <1>5, OutUserRevokeDoes DEF Shift
<1>6. ASSUME NEW t \in Tokens, NEW x \in XHashes, NEW src \in Storemen, NEW dst \in Storemen,
             NEW v \in Values, InDebtLock(t, x, src, v, dst)
      PROVE  \A o \in Tokens, r \in Storemen : Keeps(o, r)
  BY <1>6, InDebtLockDoes DEF PassOn
<1>7. ASSUME NEW x \in XHashes, InDebtRedeem(x)
      PROVE  \A o \in Tokens, r \in Storemen : Keeps(o, r)
  BY <1>7, InDebtRedeemDoes DEF PassOn
<1>8. ASSUME NEW x \in XHashes, InDebtRevoke(x)
      PROVE  \A o \in Tokens, r \in Storemen : Keeps(o, r)
  BY <1>8, InDebtRevokeDoes DEF PassOn
<1>9. ASSUME UNCHANGED quotas
      PROVE  \A o \in Tokens, r \in Storemen : Keeps(o, r)
  BY <1>9 DEF Keeps
<1>10. ASSUME NEW p \in Storemen, WithdrawFee(p) PROVE UNCHANGED quotas
  BY <1>10 DEF WithdrawFee, SmgWithdrawFee
<1>11. ASSUME NEW h \in BOOLEAN, SetHtlcHalt(h) PROVE UNCHANGED quotas
  BY <1>11 DEF SetHtlcHalt, SetHalt
<1>12. ASSUME NEW r \in RevokeRatios, SetHtlcEconomics(r) PROVE UNCHANGED quotas
  BY <1>12 DEF SetHtlcEconomics, SetEconomics
<1> HIDE DEF Keeps
<1> QED
  BY <1>1, <1>2, <1>3, <1>4, <1>5, <1>6, <1>7, <1>8, <1>9, <1>10, <1>11, <1>12, <1>13
  DEF HtlcNext, LockInbound, RedeemInbound, RevokeInbound, RedeemOutbound,
      RevokeOutbound, LockDebt, RedeemDebt, RevokeDebt

LEMMA RegisterAgrees ==
  ASSUME QuotaInv, GroupsOK, InfosOK, RecordsAgree,
         NEW t \in Tokens, NEW p \in Storemen, NEW v \in Deposits, NEW r \in TxFeeRatios,
         StoremanGroupRegister(t, p, v, r)
  PROVE  RecordsAgree'
<1> DEFINE price == tokenInfo[t].price
           q == QuotaOf(v, price)
<1>1. /\ v > 0 /\ smgs'[t][p] = [deposit |-> v, waited |-> 0] /\ price \in Prices
      /\ \A u \in Tokens, o \in Storemen : u # t \/ o # p => smgs'[u][o] = smgs[u][o]
  BY RegisterDoes
<1>2. QuotaAdd(t, p, q, r) /\ q \in Nat
  BY <1>1, WanConstants, DepositsAreNat DEF StoremanGroupRegister, AddStoremanGroup
<1>6. q = QuotaOf(v, price)
  OBVIOUS
<1> HIDE DEF price, q
<1>3. /\ quotas'[t][p].quota = q /\ q # 0 /\ quotas'[t][p].active = TRUE
      /\ \A u \in Tokens, o \in Storemen : u # t \/ o # p => quotas'[u][o] = quotas[u][o]
  BY <1>2 DEF QuotaAdd, QuotaInv, QuotaTypeOK
<1>4. Agree(quotas'[t][p], smgs'[t][p])
  BY <1>1, <1>3, <1>6 DEF Agree
<1>5. \A u \in Tokens, o \in Storemen : Agree(quotas'[u][o], smgs'[u][o])
  BY <1>1, <1>3, <1>4, AgreeParts
<1> QED
  BY <1>5 DEF RecordsAgree, Agree, IsExist

LEMMA UnregisterAgrees ==
  ASSUME QuotaInv, GroupsOK, RecordsAgree,
         NEW t \in Tokens, NEW p \in Storemen, StoremanGroupUnregister(t, p)
  PROVE  RecordsAgree'
<1>1. /\ smgs'[t][p].deposit = smgs[t][p].deposit /\ smgs'[t][p].waited = 1
      /\ \A u \in Tokens, o \in Storemen : u # t \/ o # p => smgs'[u][o] = smgs[u][o]
  BY UnregisterDoes
<1>2. QuotaDeactivate(t, p) /\ quotas[t][p] \in Quota
  BY RowType DEF StoremanGroupUnregister, DeactivateStoremanGroup
<1>3. /\ quotas'[t][p].quota = quotas[t][p].quota /\ quotas'[t][p].active = FALSE
      /\ \A u \in Tokens, o \in Storemen : u # t \/ o # p => quotas'[u][o] = quotas[u][o]
  BY <1>2 DEF QuotaDeactivate, QuotaInv, QuotaTypeOK, Quota
<1>4. Agree(quotas'[t][p], smgs'[t][p])
  BY <1>1, <1>3, AgreeParts DEF Agree
<1>5. \A u \in Tokens, o \in Storemen : Agree(quotas'[u][o], smgs'[u][o])
  BY <1>1, <1>3, <1>4, AgreeParts
<1> QED
  BY <1>5 DEF RecordsAgree, Agree, IsExist

LEMMA WithdrawAgrees ==
  ASSUME QuotaInv, GroupsOK, RecordsAgree,
         NEW t \in Tokens, NEW p \in Storemen, StoremanGroupWithdrawDeposit(t, p)
  PROVE  RecordsAgree'
<1>1. /\ smgs'[t][p] = NoGroup
      /\ \A u \in Tokens, o \in Storemen : u # t \/ o # p => smgs'[u][o] = smgs[u][o]
  BY WithdrawDoes
<1>2. QuotaDel(t, p)
  BY DEF StoremanGroupWithdrawDeposit, DelStoremanGroup
<1>3. /\ quotas'[t][p] = NoQuota
      /\ \A u \in Tokens, o \in Storemen : u # t \/ o # p => quotas'[u][o] = quotas[u][o]
  BY <1>2 DEF QuotaDel, QuotaInv, QuotaTypeOK
<1>4. Agree(quotas'[t][p], smgs'[t][p])
  BY <1>1, <1>3 DEF Agree, NoQuota, NoGroup
<1>5. \A u \in Tokens, o \in Storemen : Agree(quotas'[u][o], smgs'[u][o])
  BY <1>1, <1>3, <1>4, AgreeParts
<1> QED
  BY <1>5 DEF RecordsAgree, Agree, IsExist

LEMMA AppendAgrees ==
  ASSUME QuotaInv, GroupsOK, InfosOK, RecordsAgree,
         NEW t \in Tokens, NEW p \in Storemen, NEW v \in Deposits,
         StoremanGroupAppendDeposit(t, p, v)
  PROVE  RecordsAgree'
<1> DEFINE d == smgs[t][p].deposit + v
           price == tokenInfo[t].price
           q == QuotaOf(d, price)
<1>1. /\ d \in 1..MaxDeposit /\ price \in Prices
      /\ smgs'[t][p].deposit = d /\ smgs'[t][p].waited = smgs[t][p].waited
      /\ \A u \in Tokens, o \in Storemen : u # t \/ o # p => smgs'[u][o] = smgs[u][o]
  BY AppendDoes
<1>2. QuotaUpdate(t, p, q) /\ q \in Nat /\ quotas[t][p] \in Quota
  BY <1>1, WanConstants, DepositsAreNat, RowType
  DEF StoremanGroupAppendDeposit, UpdateStoremanGroup
<1>6. q = QuotaOf(d, price)
  OBVIOUS
<1> HIDE DEF d, price, q
<1>3. /\ quotas'[t][p].quota = q /\ q # 0 /\ IsExist(t, p)
      /\ quotas'[t][p].active = quotas[t][p].active
      /\ \A u \in Tokens, o \in Storemen : u # t \/ o # p => quotas'[u][o] = quotas[u][o]
  BY <1>2 DEF QuotaUpdate, QuotaInv, QuotaTypeOK, Quota
<1>4. Agree(quotas'[t][p], smgs'[t][p])
  BY <1>1, <1>3, <1>6, AgreeParts DEF Agree, IsExist
<1>5. \A u \in Tokens, o \in Storemen : Agree(quotas'[u][o], smgs'[u][o])
  BY <1>1, <1>3, <1>4, AgreeParts
<1> QED
  BY <1>5 DEF RecordsAgree, Agree, IsExist

LEMMA RecordsStayTogether ==
  AllInv /\ RecordsAgree /\ [AllNext]_adminVars => RecordsAgree'
<1> SUFFICES ASSUME AllInv, RecordsAgree, [AllNext]_adminVars
             PROVE  RecordsAgree'
  OBVIOUS
<1>0. QuotaInv /\ WanInv /\ GroupsOK /\ InfosOK
  BY DEF WanInv, AllInv
<1>1. ASSUME UNCHANGED smgs, \A t \in Tokens, p \in Storemen : Keeps(t, p)
      PROVE  RecordsAgree'
  BY <1>1 DEF RecordsAgree, IsExist, Keeps
<1>2. ASSUME UNCHANGED <<smgs, quotas>> PROVE RecordsAgree'
  BY <1>2 DEF RecordsAgree, IsExist
<1>3. ManagerNext => UNCHANGED <<smgs, quotas>>
  BY DEF ManagerNext, AddToken, UpdateToken, Register, RemoveToken, SetHtlcAddr, groupVars,
         wanVars, htlcOwnVars
<1>4. HtlcNext => UNCHANGED smgs
  BY DEF HtlcNext, LockInbound, RedeemInbound, RevokeInbound, LockOutbound, RedeemOutbound,
         RevokeOutbound, LockDebt, RedeemDebt, RevokeDebt, WithdrawFee, SetHtlcHalt,
         SetHtlcEconomics, ownVars, groupVars
<1>5. CASE HtlcNext
  BY <1>0, <1>1, <1>4, <1>5, HtlcKeepsQuotas
<1>6. CASE GroupNext
  BY <1>0, <1>2, <1>6, RegisterAgrees, UnregisterAgrees, WithdrawAgrees, AppendAgrees
  DEF GroupNext, SetDependence, SetSmgHalt, EnableWhiteList, SetWhiteList, groupVars, wanVars
<1>7. CASE AdminTick
  <2>1. UNCHANGED quotas
    BY <1>7 DEF AdminTick, WanTick
  <2>2. \A t \in Tokens, p \in Storemen :
          /\ smgs'[t][p].deposit = smgs[t][p].deposit
          /\ smgs'[t][p].waited = 0 <=> smgs[t][p].waited = 0
    BY <1>0, <1>7, TickDoes
  <2> QED
    BY <2>1, <2>2 DEF RecordsAgree, IsExist
<1>8. UNCHANGED adminVars => UNCHANGED <<smgs, quotas>>
  BY DEF adminVars, ownVars, groupVars, wanVars
<1> QED
  BY <1>2, <1>3, <1>5, <1>6, <1>7, <1>8 DEF AllNext

(* A group has a quota exactly while it has a deposit, of the size the     *)
(* whole deposit stands for at one price, and is active until it applies   *)
(* to unregister: no order of registering, appending, unregistering and    *)
(* withdrawing, of new prices and token contracts, and of what the HTLC    *)
(* does to its counters meanwhile parts the two contracts.                 *)
THEOREM RecordsAlwaysAgree == AdminSpec => []RecordsAgree
<1>1. AdminInit => RecordsAgree
  BY DEF AdminInit, WanInit, QuotaInit, RecordsAgree, IsExist, NoQuota, NoGroup
<1>2. AllInv /\ RecordsAgree /\ [AllNext]_adminVars => RecordsAgree'
  BY RecordsStayTogether
<1> QED
  BY <1>1, <1>2, AllInvariant, PTL DEF AdminSpec

-----------------------------------------------------------------------------
(* The deposits, summed up over the groups of a token and over the tokens. *)

Held(row) == MapThenSumSet(LAMBDA p : row[p].deposit, Storemen)
HeldOf(row) == [p \in Storemen |-> row[p].deposit]

AllHeld(groups) == MapThenSumSet(LAMBDA t : Held(groups[t]), Tokens)
AllHeldOf(groups) == [t \in Tokens |-> Held(groups[t])]

LEMMA HeldIsSum ==
  ASSUME IsFiniteSet(Storemen), NEW row
  PROVE  Held(row) = SumOf(HeldOf(row), Storemen)
<1> DEFINE f == HeldOf(row)
           body(it) == [s \in SUBSET Storemen |->
                          IF s = {} THEN 0 ELSE row[AnyOf(s)].deposit + it[s \ {AnyOf(s)}]]
           sol == CHOOSE it : it = body(it)
<1>1. ASSUME NEW it PROVE it = body(it) <=> Recursion(f, Storemen, it)
  <2>1. \A s \in SUBSET Storemen : s # {} => f[AnyOf(s)] = row[AnyOf(s)].deposit
    BY DEF AnyOf, HeldOf
  <2> HIDE DEF f
  <2> QED
    BY <2>1 DEF Recursion
<1>2. Held(row) = sol[Storemen]
  BY DEF Held, MapThenSumSet, MapThenFoldSet, AnyOf
<1> HIDE DEF f, body
<1>3. \E it : it = body(it)
  BY <1>1, RecursionExists
<1>4. sol = body(sol)
  BY <1>3, Zenon
<1>5. Recursion(f, Storemen, sol)
  BY <1>1, <1>4
<1> QED
  BY <1>2, <1>5, SolvedIsSum DEF f

LEMMA AllHeldIsSum ==
  ASSUME IsFiniteSet(Tokens), NEW groups
  PROVE  AllHeld(groups) = SumOf(AllHeldOf(groups), Tokens)
<1> DEFINE f == AllHeldOf(groups)
           body(it) == [s \in SUBSET Tokens |->
                          IF s = {} THEN 0 ELSE Held(groups[AnyOf(s)]) + it[s \ {AnyOf(s)}]]
           sol == CHOOSE it : it = body(it)
<1>1. ASSUME NEW it PROVE it = body(it) <=> Recursion(f, Tokens, it)
  <2>1. \A s \in SUBSET Tokens : s # {} => f[AnyOf(s)] = Held(groups[AnyOf(s)])
    BY DEF AnyOf, AllHeldOf
  <2> HIDE DEF f
  <2> QED
    BY <2>1 DEF Recursion
<1>2. AllHeld(groups) = sol[Tokens]
  BY DEF AllHeld, MapThenSumSet, MapThenFoldSet, AnyOf
<1> HIDE DEF f, body
<1>3. \E it : it = body(it)
  BY <1>1, RecursionExists
<1>4. sol = body(sol)
  BY <1>3, Zenon
<1>5. Recursion(f, Tokens, sol)
  BY <1>1, <1>4
<1> QED
  BY <1>2, <1>5, SolvedIsSum DEF f

LEMMA HeldParts ==
  /\ DepositsAreHeld <=> adminWan = AllHeld(smgs)
  /\ DepositsAreHeld' <=> adminWan' = AllHeld(smgs')
<1>1. DepositsAreHeld <=> adminWan = AllHeld(smgs)
  BY DEF DepositsAreHeld, AllHeld, Held
<1>2. (DepositsAreHeld <=> adminWan = AllHeld(smgs))'
  BY <1>1, PTL
<1> QED
  BY <1>1, <1>2

(* A table of deposits. *)
Counted(groups) == \A t \in Tokens, p \in Storemen : groups[t][p].deposit \in Nat

LEMMA HeldIsNat ==
  ASSUME IsFiniteSet(Storemen), NEW groups, Counted(groups), NEW t \in Tokens
  PROVE  Held(groups[t]) \in Nat
<1> DEFINE f == HeldOf(groups[t])
<1>1. Counts(f, Storemen)
  BY DEF HeldOf, Counts, Counted
<1>2. Held(groups[t]) = SumOf(f, Storemen)
  BY HeldIsSum
<1> HIDE DEF f
<1> QED
  BY <1>1, <1>2, SumStep

LEMMA HeldUpdate ==
  ASSUME IsFiniteSet(Storemen), NEW row, NEW nrow,
         \A r \in Storemen : row[r].deposit \in Nat /\ nrow[r].deposit \in Nat,
         NEW p \in Storemen, \A r \in Storemen \ {p} : nrow[r].deposit = row[r].deposit
  PROVE  Held(nrow) = Held(row) - row[p].deposit + nrow[p].deposit
<1> DEFINE f == HeldOf(row)
           g == HeldOf(nrow)
<1>1. /\ Counts(f, Storemen) /\ Counts(g, Storemen)
      /\ \A r \in Storemen \ {p} : g[r] = f[r]
      /\ f[p] = row[p].deposit /\ g[p] = nrow[p].deposit
  BY DEF HeldOf, Counts
<1>2. Held(row) = SumOf(f, Storemen) /\ Held(nrow) = SumOf(g, Storemen)
  BY HeldIsSum
<1> HIDE DEF f, g
<1>3. SumOf(g, Storemen) = SumOf(f, Storemen) - f[p] + g[p]
  BY <1>1, SumUpdate
<1> QED
  BY <1>1, <1>2, <1>3

LEMMA HeldSame ==
  ASSUME IsFiniteSet(Storemen), NEW row, NEW nrow,
         \A r \in Storemen : nrow[r].deposit = row[r].deposit
  PROVE  Held(nrow) = Held(row)
<1> DEFINE f == HeldOf(row)
           g == HeldOf(nrow)
<1>1. \A r \in Storemen : f[r] = g[r]
  BY DEF HeldOf
<1>2. Held(row) = SumOf(f, Storemen) /\ Held(nrow) = SumOf(g, Storemen)
  BY HeldIsSum
<1> HIDE DEF f, g
<1> QED
  BY <1>1, <1>2, SumSame

(* When one deposit changes, all deposits change by as much. *)
LEMMA AllHeldUpdate ==
  ASSUME IsFiniteSet(Tokens), IsFiniteSet(Storemen), NEW groups, NEW ngroups,
         Counted(groups), Counted(ngroups), NEW t \in Tokens, NEW p \in Storemen,
         \A u \in Tokens, o \in Storemen : u # t \/ o # p => ngroups[u][o] = groups[u][o]
  PROVE  /\ AllHeld(ngroups) = AllHeld(groups) - groups[t][p].deposit + ngroups[t][p].deposit
         /\ AllHeld(groups) \in Nat
<1> DEFINE f == AllHeldOf(groups)
           g == AllHeldOf(ngroups)
<1>1. /\ \A u \in Tokens : Held(groups[u]) \in Nat
      /\ \A u \in Tokens : Held(ngroups[u]) \in Nat
  BY HeldIsNat
<1>2. ASSUME NEW u \in Tokens \ {t}
      PROVE  Held(ngroups[u]) = Held(groups[u])
  <2>1. \A o \in Storemen : ngroups[u][o].deposit = groups[u][o].deposit
    OBVIOUS
  <2> QED
    BY <2>1, HeldSame
<1>3. Held(ngroups[t]) = Held(groups[t]) - groups[t][p].deposit + ngroups[t][p].deposit
  <2>1. /\ \A r \in Storemen : groups[t][r].deposit \in Nat /\ ngroups[t][r].deposit \in Nat
        /\ \A r \in Storemen \ {p} : ngroups[t][r].deposit = groups[t][r].deposit
    BY DEF Counted
  <2> QED
    BY <2>1, HeldUpdate
<1>4. /\ Counts(f, Tokens) /\ Counts(g, Tokens)
      /\ f[t] = Held(groups[t]) /\ g[t] = Held(ngroups[t])
      /\ \A u \in Tokens \ {t} : g[u] = f[u]
  BY <1>1, <1>2 DEF AllHeldOf, Counts
<1>5. AllHeld(groups) = SumOf(f, Tokens) /\ AllHeld(ngroups) = SumOf(g, Tokens)
  BY AllHeldIsSum
<1> HIDE DEF f, g
<1>6. SumOf(g, Tokens) = SumOf(f, Tokens) - f[t] + g[t] /\ SumOf(f, Tokens) \in Nat
  BY <1>4, SumUpdate, SumStep
<1>7. groups[t][p].deposit \in Nat /\ ngroups[t][p].deposit \in Nat /\ Held(groups[t]) \in Nat
  BY <1>1 DEF Counted
<1> QED
  BY <1>3, <1>4, <1>5, <1>6, <1>7

LEMMA AllHeldSame ==
  ASSUME IsFiniteSet(Tokens), IsFiniteSet(Storemen), NEW groups, NEW ngroups,
         \A u \in Tokens, o \in Storemen : ngroups[u][o].deposit = groups[u][o].deposit
  PROVE  AllHeld(ngroups) = AllHeld(groups)
<1> DEFINE f == AllHeldOf(groups)
           g == AllHeldOf(ngroups)
<1>1. \A u \in Tokens : Held(ngroups[u]) = Held(groups[u])
  BY HeldSame
<1>2. \A u \in Tokens : f[u] = g[u]
  BY <1>1 DEF AllHeldOf
<1>3. AllHeld(groups) = SumOf(f, Tokens) /\ AllHeld(ngroups) = SumOf(g, Tokens)
  BY AllHeldIsSum
<1> HIDE DEF f, g
<1> QED
  BY <1>2, <1>3, SumSame

LEMMA NoGroupsHoldNothing ==
  ASSUME IsFiniteSet(Tokens), IsFiniteSet(Storemen), NEW groups,
         \A t \in Tokens, p \in Storemen : groups[t][p].deposit = 0
  PROVE  AllHeld(groups) = 0
<1>1. ASSUME NEW t \in Tokens PROVE Held(groups[t]) = 0
  <2> DEFINE f == HeldOf(groups[t])
  <2>1. Held(groups[t]) = SumOf(f, Storemen) /\ \A p \in Storemen : f[p] = 0
    BY HeldIsSum DEF HeldOf
  <2> HIDE DEF f
  <2> QED
    BY <2>1, SumOfZeros
<1> DEFINE g == AllHeldOf(groups)
<1>2. AllHeld(groups) = SumOf(g, Tokens) /\ \A t \in Tokens : g[t] = 0
  BY <1>1, AllHeldIsSum DEF AllHeldOf
<1> HIDE DEF g
<1> QED
  BY <1>2, SumOfZeros

LEMMA GroupsAreCounted ==
  /\ GroupsOK => Counted(smgs)
  /\ GroupsOK' => Counted(smgs')
BY DEF GroupsOK, Groups, Counted

LEMMA DepositsStayHeld ==
  ASSUME IsFiniteSet(Tokens), IsFiniteSet(Storemen)
  PROVE  GroupsOK /\ InfosOK /\ DepositsAreHeld /\ [AllNext]_adminVars => DepositsAreHeld'
<1> SUFFICES ASSUME GroupsOK, InfosOK, DepositsAreHeld, [AllNext]_adminVars
             PROVE  DepositsAreHeld'
  OBVIOUS
<1>0. Counted(smgs) /\ Counted(smgs') /\ GroupsOK' /\ adminWan = AllHeld(smgs)
  BY GroupsAreCounted, GroupsStayTyped, HeldParts
<1>1. ASSUME NEW t \in Tokens, NEW p \in Storemen,
             \A u \in Tokens, o \in Storemen : u # t \/ o # p => smgs'[u][o] = smgs[u][o]
      PROVE  /\ AllHeld(smgs') = AllHeld(smgs) - smgs[t][p].deposit + smgs'[t][p].deposit
             /\ AllHeld(smgs) \in Nat
             /\ smgs[t][p].deposit \in Nat /\ smgs'[t][p].deposit \in Nat
  <2>1. smgs[t][p].deposit \in Nat /\ smgs'[t][p].deposit \in Nat
    BY <1>0 DEF Counted
  <2> QED
    BY <1>0, <1>1, <2>1, AllHeldUpdate
<1>2. ASSUME NEW t \in Tokens, NEW p \in Storemen, NEW v \in Deposits, NEW r \in TxFeeRatios,
             StoremanGroupRegister(t, p, v, r)
      PROVE  adminWan' = AllHeld(smgs')
  <2>1. /\ smgs[t][p].deposit = 0 /\ v \in Nat /\ smgs'[t][p] = [deposit |-> v, waited |-> 0]
        /\ \A u \in Tokens, o \in Storemen : u # t \/ o # p => smgs'[u][o] = smgs[u][o]
    BY <1>2, RegisterDoes
  <2>2. adminWan' = adminWan + v
    BY <1>2 DEF StoremanGroupRegister
  <2> QED
    BY <1>0, <1>1, <2>1, <2>2
<1>3. ASSUME NEW t \in Tokens, NEW p \in Storemen, StoremanGroupUnregister(t, p)
      PROVE  adminWan' = AllHeld(smgs')
  <2>1. /\ smgs'[t][p].deposit = smgs[t][p].deposit
        /\ \A u \in Tokens, o \in Storemen : u # t \/ o # p => smgs'[u][o] = smgs[u][o]
    BY <1>3, UnregisterDoes
  <2>2. adminWan' = adminWan
    BY <1>3 DEF StoremanGroupUnregister
  <2> QED
    BY <1>0, <1>1, <2>1, <2>2
<1>4. ASSUME NEW t \in Tokens, NEW p \in Storemen, StoremanGroupWithdrawDeposit(t, p)
      PROVE  adminWan' = AllHeld(smgs')
  <2>1. /\ smgs'[t][p].deposit = 0
        /\ \A u \in Tokens, o \in Storemen : u # t \/ o # p => smgs'[u][o] = smgs[u][o]
    BY <1>4, WithdrawDoes DEF NoGroup
  <2>2. adminWan' = adminWan - smgs[t][p].deposit
    BY <1>4 DEF StoremanGroupWithdrawDeposit
  <2> QED
    BY <1>0, <1>1, <2>1, <2>2
<1>5. ASSUME NEW t \in Tokens, NEW p \in Storemen, NEW v \in Deposits,
             StoremanGroupAppendDeposit(t, p, v)
      PROVE  adminWan' = AllHeld(smgs')
  <2>1. /\ smgs'[t][p].deposit = smgs[t][p].deposit + v /\ v \in Nat
        /\ \A u \in Tokens, o \in Storemen : u # t \/ o # p => smgs'[u][o] = smgs[u][o]
    BY <1>5, AppendDoes
  <2>2. adminWan' = adminWan + v
    BY <1>5 DEF StoremanGroupAppendDeposit
  <2> QED
    BY <1>0, <1>1, <2>1, <2>2
<1>6. ASSUME UNCHANGED groupVars PROVE adminWan' = AllHeld(smgs')
  BY <1>0, <1>6 DEF groupVars
<1>7. ASSUME GroupNext PROVE adminWan' = AllHeld(smgs')
  BY <1>2, <1>3, <1>4, <1>5, <1>6, <1>7
  DEF GroupNext, SetDependence, SetSmgHalt, EnableWhiteList, SetWhiteList
<1>8. ASSUME AdminTick PROVE adminWan' = AllHeld(smgs')
  <2>1. adminWan' = adminWan /\ \A t \in Tokens, p \in Storemen :
                                   smgs'[t][p].deposit = smgs[t][p].deposit
    BY <1>8, TickDoes DEF AdminTick
  <2> QED
    BY <1>0, <2>1, AllHeldSame
<1>9. ManagerNext => UNCHANGED groupVars
  BY DEF ManagerNext, AddToken, UpdateToken, Register, RemoveToken, SetHtlcAddr
<1>10. HtlcNext => UNCHANGED groupVars
  BY DEF HtlcNext, LockInbound, RedeemInbound, RevokeInbound, LockOutbound, RedeemOutbound,
         RevokeOutbound, LockDebt, RedeemDebt, RevokeDebt, WithdrawFee, SetHtlcHalt,
         SetHtlcEconomics, ownVars
<1>11. UNCHANGED adminVars => UNCHANGED groupVars
  BY DEF adminVars, ownVars
<1>12. adminWan' = AllHeld(smgs')
  BY <1>6, <1>7, <1>8, <1>9, <1>10, <1>11 DEF AllNext
<1> QED
  BY <1>12, HeldParts

(* The admin holds exactly the deposits on record, for every finite set of *)
(* tokens and groups: a deposit is not returned twice, and what a group    *)
(* appends is returned with the rest.                                      *)
THEOREM DepositsAreAlwaysHeld ==
  ASSUME IsFiniteSet(Tokens), IsFiniteSet(Storemen)
  PROVE  AdminSpec => []DepositsAreHeld
<1>1. AdminInit => DepositsAreHeld
  <2> SUFFICES ASSUME AdminInit PROVE DepositsAreHeld
    OBVIOUS
  <2>1. adminWan = 0 /\ \A t \in Tokens, p \in Storemen : smgs[t][p].deposit = 0
    BY DEF AdminInit, NoGroup
  <2> QED
    BY <2>1, NoGroupsHoldNothing, HeldParts
<1>2. GroupsOK /\ InfosOK /\ DepositsAreHeld /\ [AllNext]_adminVars => DepositsAreHeld'
  BY DepositsStayHeld
<1> QED
  BY <1>1, <1>2, GroupsTyped, PTL DEF AdminSpec

-----------------------------------------------------------------------------
(* A deposit that is returned. *)

Settled(t, p) ==
  /\ quotas[t][p].debt = 0
  /\ \A x \in XHashes :
       /\ x \in Locked(smgTxs) => smgTxs[x].storeman # p \/ smgTxs[x].token # t
       /\ x \in Locked(userTxs) => userTxs[x].storeman # p \/ userTxs[x].token # t
       /\ x \in Locked(debtTxs) => p \notin {debtTxs[x].storeman, debtTxs[x].src}
                                   \/ debtTxs[x].token # t

(* A group whose counters are zero has nothing pending. *)
LEMMA PaidOffIsSettled ==
  ASSUME IsFiniteSet(XHashes), WanInv, BooksInv, NEW t \in Tokens, NEW p \in Storemen,
         IsDebtPaidOff(t, p)
  PROVE  Settled(t, p)
<1>1. quotas[t][p].receivable = 0 /\ quotas[t][p].payable = 0 /\ quotas[t][p].debt = 0
  BY DEF IsDebtPaidOff
<1>2. /\ \A x \in Locked(userTxs) : quotas[userTxs[x].token][userTxs[x].storeman].payable > 0
      /\ \A x \in Locked(smgTxs) : quotas[smgTxs[x].token][smgTxs[x].storeman].receivable > 0
      /\ \A x \in Locked(debtTxs) :
           /\ quotas[debtTxs[x].token][debtTxs[x].storeman].receivable > 0
           /\ quotas[debtTxs[x].token][debtTxs[x].src].payable > 0
  BY PendingIsCounted DEF BooksInv
<1> QED
  BY <1>1, <1>2 DEF Settled

(* Only a withdrawal empties a record. *)
LEMMA DepositsLeaveByWithdrawal ==
  ASSUME GroupsOK, InfosOK, AllNext, NEW t \in Tokens, NEW p \in Storemen,
         smgs[t][p].deposit > 0, smgs'[t][p].deposit = 0
  PROVE  StoremanGroupWithdrawDeposit(t, p)
<1>1. ~ (UNCHANGED smgs)
  OBVIOUS
<1>2. ~ ManagerNext
  BY <1>1 DEF ManagerNext, AddToken, UpdateToken, Register, RemoveToken, SetHtlcAddr, groupVars
<1>3. ~ HtlcNext
  BY <1>1 DEF HtlcNext, LockInbound, RedeemInbound, RevokeInbound, LockOutbound, RedeemOutbound,
              RevokeOutbound, LockDebt, RedeemDebt, RevokeDebt, WithdrawFee, SetHtlcHalt,
              SetHtlcEconomics, ownVars, groupVars
<1>4. ~ AdminTick
  BY TickDoes
<1>5. GroupNext
  BY <1>2, <1>3, <1>4 DEF AllNext
<1>6. ASSUME NEW u \in Tokens, NEW o \in Storemen, NEW v \in Deposits, NEW r \in TxFeeRatios
      PROVE  ~ StoremanGroupRegister(u, o, v, r)
  <2> SUFFICES ASSUME StoremanGroupRegister(u, o, v, r) PROVE FALSE
    OBVIOUS
  <2>1. /\ v > 0 /\ smgs'[u][o] = [deposit |-> v, waited |-> 0]
        /\ \A w \in Tokens, q \in Storemen : w # u \/ q # o => smgs'[w][q] = smgs[w][q]
    BY RegisterDoes
  <2>2. t = u /\ p = o
    BY <2>1
  <2> QED
    BY <2>1, <2>2
<1>7. ASSUME NEW u \in Tokens, NEW o \in Storemen
      PROVE  ~ StoremanGroupUnregister(u, o)
  BY UnregisterDoes
<1>8. ASSUME NEW u \in Tokens, NEW o \in Storemen, NEW v \in Deposits
      PROVE  ~ StoremanGroupAppendDeposit(u, o, v)
  BY AppendDoes
<1>9. ASSUME NEW u \in Tokens, NEW o \in Storemen, StoremanGroupWithdrawDeposit(u, o)
      PROVE  u = t /\ o = p
  BY <1>9, WithdrawDoes
<1> QED
  BY <1>1, <1>5, <1>6, <1>7, <1>8, <1>9
  DEF GroupNext, SetDependence, SetSmgHalt, EnableWhiteList, SetWhiteList, groupVars

(* A deposit is returned only to a group that applied to unregister and    *)
(* waited out the delay of its token, that owes nothing and has nothing    *)
(* pending.  The two records agree, so that a group which never applied is *)
(* still active in the HTLC, whose delStoremanGroup refuses it; and the    *)
(* counters of the HTLC are the pending transactions, so that zero in all  *)
(* of them means that none is left.                                        *)
THEOREM DepositsAlwaysLeaveLast ==
  ASSUME IsFiniteSet(XHashes)
  PROVE  AdminSpec => DepositsLeaveLast
<1> DEFINE Last == \A t \in Tokens, p \in Storemen :
        smgs[t][p].deposit > 0 /\ smgs'[t][p].deposit = 0 =>
          /\ smgs[t][p].waited > 0
          /\ Registered(t) => smgs[t][p].waited - 1 > tokenInfo[t].delay
          /\ Settled(t, p)
<1>1. AllInv /\ BooksInv /\ RecordsAgree /\ [AllNext]_adminVars => [Last]_adminVars
  <2> SUFFICES ASSUME AllInv, BooksInv, RecordsAgree, AllNext,
                      NEW t \in Tokens, NEW p \in Storemen,
                      smgs[t][p].deposit > 0, smgs'[t][p].deposit = 0
               PROVE  /\ smgs[t][p].waited > 0
                      /\ Registered(t) => smgs[t][p].waited - 1 > tokenInfo[t].delay
                      /\ Settled(t, p)
    OBVIOUS
  <2>0. WanInv /\ GroupsOK /\ InfosOK
    BY DEF AllInv
  <2>1. StoremanGroupWithdrawDeposit(t, p)
    BY <2>0, DepositsLeaveByWithdrawal
  <2>2. NotActive(t, p) /\ IsDebtPaidOff(t, p) /\ DelayPassed(t, p)
    BY <2>1 DEF StoremanGroupWithdrawDeposit, DelStoremanGroup, QuotaDel
  <2>3. smgs[t][p].waited # 0
    BY <2>2 DEF RecordsAgree, NotActive
  <2>4. smgs[t][p].waited \in Nat
    BY <2>0 DEF GroupsOK, Groups
  <2> QED
    BY <2>0, <2>2, <2>3, <2>4, PaidOffIsSettled DEF DelayPassed
<1>2. [Last]_adminVars =>
        [\A t \in Tokens, p \in Storemen :
           smgs[t][p].deposit > 0 /\ smgs'[t][p].deposit = 0 =>
             /\ smgs[t][p].waited > 0
             /\ Registered(t) => smgs[t][p].waited - 1 > tokenInfo[t].delay
             /\ quotas[t][p].debt = 0
             /\ \A x \in XHashes :
                  /\ x \in Locked(smgTxs) => smgTxs[x].storeman # p \/ smgTxs[x].token # t
                  /\ x \in Locked(userTxs) => userTxs[x].storeman # p \/ userTxs[x].token # t
                  /\ x \in Locked(debtTxs) => p \notin {debtTxs[x].storeman, debtTxs[x].src}
                                              \/ debtTxs[x].token # t]_adminVars
  BY DEF Settled
<1>3. AdminSpec => []BooksInv
  BY WholeKeepsBooks
<1> HIDE DEF Last
<1> QED
  BY <1>1, <1>2, <1>3, AllInvariant, RecordsAlwaysAgree, PTL
  DEF AdminSpec, DepositsLeaveLast
-----------------------------------------------------------------------------
(* The contracts of a token together are the one token of WanHtlc. *)

SumSupply(books) == MapThenSumSet(LAMBDA c : books[c].supply, Contracts)
SumCustody(books) == MapThenSumSet(LAMBDA c : books[c].custody, Contracts)
SupplyIn(books) == [c \in Contracts |-> books[c].supply]
CustodyIn(books) == [c \in Contracts |-> books[c].custody]

LEMMA ContractsAreFinite == IsFiniteSet(Contracts)
BY AdminConstants, FS_Interval DEF Contracts

LEMMA SupplyIsSum ==
  ASSUME NEW books
  PROVE  SumSupply(books) = SumOf(SupplyIn(books), Contracts)
<1> DEFINE f == SupplyIn(books)
           body(it) == [s \in SUBSET Contracts |->
                          IF s = {} THEN 0 ELSE books[AnyOf(s)].supply + it[s \ {AnyOf(s)}]]
           sol == CHOOSE it : it = body(it)
<1>1. ASSUME NEW it PROVE it = body(it) <=> Recursion(f, Contracts, it)
  <2>1. \A s \in SUBSET Contracts : s # {} => f[AnyOf(s)] = books[AnyOf(s)].supply
    BY DEF AnyOf, SupplyIn
  <2> HIDE DEF f
  <2> QED
    BY <2>1 DEF Recursion
<1>2. SumSupply(books) = sol[Contracts]
  BY DEF SumSupply, MapThenSumSet, MapThenFoldSet, AnyOf
<1> HIDE DEF f, body
<1>3. \E it : it = body(it)
  BY <1>1, RecursionExists, ContractsAreFinite
<1>4. sol = body(sol)
  BY <1>3, Zenon
<1>5. Recursion(f, Contracts, sol)
  BY <1>1, <1>4
<1> QED
  BY <1>2, <1>5, SolvedIsSum, ContractsAreFinite DEF f

LEMMA CustodyIsSum ==
  ASSUME NEW books
  PROVE  SumCustody(books) = SumOf(CustodyIn(books), Contracts)
<1> DEFINE f == CustodyIn(books)
           body(it) == [s \in SUBSET Contracts |->
                          IF s = {} THEN 0 ELSE books[AnyOf(s)].custody + it[s \ {AnyOf(s)}]]
           sol == CHOOSE it : it = body(it)
<1>1. ASSUME NEW it PROVE it = body(it) <=> Recursion(f, Contracts, it)
  <2>1. \A s \in SUBSET Contracts : s # {} => f[AnyOf(s)] = books[AnyOf(s)].custody
    BY DEF AnyOf, CustodyIn
  <2> HIDE DEF f
  <2> QED
    BY <2>1 DEF Recursion
<1>2. SumCustody(books) = sol[Contracts]
  BY DEF SumCustody, MapThenSumSet, MapThenFoldSet, AnyOf
<1> HIDE DEF f, body
<1>3. \E it : it = body(it)
  BY <1>1, RecursionExists, ContractsAreFinite
<1>4. sol = body(sol)
  BY <1>3, Zenon
<1>5. Recursion(f, Contracts, sol)
  BY <1>1, <1>4
<1> QED
  BY <1>2, <1>5, SolvedIsSum, ContractsAreFinite DEF f

(* What one contract issues, all issue; and all of them together have at   *)
(* least what one has, and at least as much outside the HTLC.              *)
LEMMA LedgerSums ==
  ASSUME NEW books \in [Contracts -> Ledger], NEW nbooks \in [Contracts -> Ledger],
         NEW k \in Contracts, \A c \in Contracts \ {k} : nbooks[c] = books[c]
  PROVE  /\ SumSupply(books) \in Nat /\ SumCustody(books) \in Nat
         /\ SumSupply(nbooks) = SumSupply(books) - books[k].supply + nbooks[k].supply
         /\ SumCustody(nbooks) = SumCustody(books) - books[k].custody + nbooks[k].custody
         /\ SumSupply(books) >= books[k].supply /\ SumCustody(books) >= books[k].custody
         /\ SumSupply(books) - SumCustody(books) >= books[k].supply - books[k].custody
<1> DEFINE s == SupplyIn(books)
           ns == SupplyIn(nbooks)
           h == CustodyIn(books)
           nh == CustodyIn(nbooks)
           rest == Contracts \ {k}
<1>1. /\ Counts(s, Contracts) /\ Counts(ns, Contracts)
      /\ Counts(h, Contracts) /\ Counts(nh, Contracts)
      /\ \A c \in Contracts : h[c] <= s[c]
      /\ \A c \in rest : ns[c] = s[c] /\ nh[c] = h[c]
      /\ s[k] = books[k].supply /\ ns[k] = nbooks[k].supply
      /\ h[k] = books[k].custody /\ nh[k] = nbooks[k].custody
      /\ s[k] \in Nat /\ h[k] \in Nat
  BY ContractsAreFinite DEF SupplyIn, CustodyIn, Counts, Ledger
<1>2. /\ SumSupply(books) = SumOf(s, Contracts) /\ SumSupply(nbooks) = SumOf(ns, Contracts)
      /\ SumCustody(books) = SumOf(h, Contracts) /\ SumCustody(nbooks) = SumOf(nh, Contracts)
  BY SupplyIsSum, CustodyIsSum
<1> HIDE DEF s, ns, h, nh
<1>3. /\ SumOf(ns, Contracts) = SumOf(s, Contracts) - s[k] + ns[k]
      /\ SumOf(nh, Contracts) = SumOf(h, Contracts) - h[k] + nh[k]
  BY <1>1, SumUpdate
<1>4. /\ SumOf(s, Contracts) \in Nat /\ SumOf(s, Contracts) = s[k] + SumOf(s, rest)
      /\ SumOf(h, Contracts) \in Nat /\ SumOf(h, Contracts) = h[k] + SumOf(h, rest)
  BY <1>1, SumStep
<1>5. Counts(s, rest) /\ Counts(h, rest)
  BY <1>1, FS_Subset DEF Counts
<1>6. SumOf(s, rest) \in Nat /\ SumOf(h, rest) \in Nat
  BY <1>5, SumStep
<1>7. SumOf(h, rest) <= SumOf(s, rest)
  <2>1. Summable(s, rest) /\ Summable(h, rest) /\ \A c \in rest : h[c] <= s[c]
    BY <1>1, <1>5 DEF Counts, Summable
  <2> QED
    BY <2>1, SumOrdered
<1> DEFINE S == SumOf(s, Contracts)
           H == SumOf(h, Contracts)
           Sr == SumOf(s, rest)
           Hr == SumOf(h, rest)
           a == s[k]
           b == h[k]
<1>8. /\ a \in Nat /\ b \in Nat /\ Sr \in Nat /\ Hr \in Nat
      /\ S = a + Sr /\ H = b + Hr /\ Hr <= Sr
  BY <1>1, <1>4, <1>6, <1>7
<1> HIDE DEF S, H, Sr, Hr, a, b, rest
<1>9. S >= a /\ H >= b /\ S - H >= a - b
  BY <1>8
<1> QED
  BY <1>1, <1>2, <1>3, <1>4, <1>9 DEF S, H, a, b

LEMMA TotalsAre ==
  \A t \in Tokens : /\ SupplyOfAll(t) = SumSupply(Books(t)) /\ CustodyOfAll(t) = SumCustody(Books(t))
                    /\ SupplyOfAll(t)' = SumSupply(Books(t)')
                    /\ CustodyOfAll(t)' = SumCustody(Books(t)')
<1>1. \A t \in Tokens : /\ SupplyOfAll(t) = SumSupply(Books(t))
                        /\ CustodyOfAll(t) = SumCustody(Books(t))
  BY DEF SupplyOfAll, CustodyOfAll, SumSupply, SumCustody
<1>2. (\A t \in Tokens : /\ SupplyOfAll(t) = SumSupply(Books(t))
                         /\ CustodyOfAll(t) = SumCustody(Books(t)))'
  BY <1>1, PTL
<1> QED
  BY <1>1, <1>2

LEMMA TotalsCover ==
  ASSUME ContractsOK, NEW t \in Tokens
  PROVE  /\ SupplyOfAll(t) \in Nat /\ CustodyOfAll(t) \in Nat
         /\ SupplyOfAll(t) >= supply[t] /\ CustodyOfAll(t) >= custody[t]
         /\ SupplyOfAll(t) - CustodyOfAll(t) >= supply[t] - custody[t]
<1> DEFINE books == Books(t)
           k == contract[t]
<1>1. /\ books \in [Contracts -> Ledger] /\ k \in Contracts
      /\ books[k] = [supply |-> supply[t], custody |-> custody[t]]
  BY BooksTyped DEF ContractsOK
<1>2. SupplyOfAll(t) = SumSupply(books) /\ CustodyOfAll(t) = SumCustody(books)
  BY TotalsAre
<1>3. books[k].supply = supply[t] /\ books[k].custody = custody[t]
  BY <1>1
<1> HIDE DEF books, k
<1>4. /\ SumSupply(books) \in Nat /\ SumCustody(books) \in Nat
      /\ SumSupply(books) >= books[k].supply /\ SumCustody(books) >= books[k].custody
      /\ SumSupply(books) - SumCustody(books) >= books[k].supply - books[k].custody
  BY <1>1, LedgerSums
<1> QED
  BY <1>2, <1>3, <1>4

LEMMA TotalsStay ==
  (\A t \in Tokens : Books(t)' = Books(t))
    => \A t \in Tokens : SupplyOfAll(t)' = SupplyOfAll(t) /\ CustodyOfAll(t)' = CustodyOfAll(t)
BY TotalsAre

LEMMA TotalsMove ==
  ASSUME ContractsOK, ContractsOK', UNCHANGED contractVars, NEW t \in Tokens,
         \A u \in Tokens \ {t} : supply'[u] = supply[u] /\ custody'[u] = custody[u]
  PROVE  /\ SupplyOfAll(t)' = SupplyOfAll(t) - supply[t] + supply'[t]
         /\ CustodyOfAll(t)' = CustodyOfAll(t) - custody[t] + custody'[t]
         /\ \A u \in Tokens \ {t} : /\ SupplyOfAll(u)' = SupplyOfAll(u)
                                    /\ CustodyOfAll(u)' = CustodyOfAll(u)
<1> DEFINE books == Books(t)
           nbooks == Books(t)'
           k == contract[t]
<1>1. /\ books \in [Contracts -> Ledger] /\ k \in Contracts
      /\ books[k] = [supply |-> supply[t], custody |-> custody[t]]
      /\ \A c \in Contracts \ {k} : books[c] = shelf[t][c]
  BY BooksTyped DEF ContractsOK
<1>2. /\ nbooks \in [Contracts -> Ledger]
      /\ nbooks[contract'[t]] = [supply |-> supply'[t], custody |-> custody'[t]]
      /\ \A c \in Contracts \ {contract'[t]} : nbooks[c] = shelf'[t][c]
  BY BooksTypedNext
<1>3. contract' = contract /\ shelf' = shelf
  BY DEF contractVars
<1>4. /\ SupplyOfAll(t) = SumSupply(books) /\ CustodyOfAll(t) = SumCustody(books)
      /\ SupplyOfAll(t)' = SumSupply(nbooks) /\ CustodyOfAll(t)' = SumCustody(nbooks)
  BY TotalsAre
<1>5. /\ books[k].supply = supply[t] /\ books[k].custody = custody[t]
      /\ nbooks[k].supply = supply'[t] /\ nbooks[k].custody = custody'[t]
      /\ \A c \in Contracts \ {k} : nbooks[c] = books[c]
  BY <1>1, <1>2, <1>3
<1>6. ASSUME NEW u \in Tokens \ {t}
      PROVE  SupplyOfAll(u)' = SupplyOfAll(u) /\ CustodyOfAll(u)' = CustodyOfAll(u)
  <2>1. Books(u)' = Books(u)
    BY <1>3 DEF Books
  <2> QED
    BY <2>1, TotalsAre
<1> HIDE DEF books, nbooks, k
<1>7. /\ SumSupply(nbooks) = SumSupply(books) - books[k].supply + nbooks[k].supply
      /\ SumCustody(nbooks) = SumCustody(books) - books[k].custody + nbooks[k].custody
  BY <1>1, <1>2, <1>5, LedgerSums
<1>8. /\ SupplyOfAll(t)' = SupplyOfAll(t) - supply[t] + supply'[t]
      /\ CustodyOfAll(t)' = CustodyOfAll(t) - custody[t] + custody'[t]
  BY <1>4, <1>5, <1>7
<1> QED
  BY <1>6, <1>8

(* Nothing is issued, nor moved to or from the HTLC, by any contract. *)
Stays ==
  /\ [t \in Tokens |-> SupplyOfAll(t)]' = [t \in Tokens |-> SupplyOfAll(t)]
  /\ [t \in Tokens |-> CustodyOfAll(t)]' = [t \in Tokens |-> CustodyOfAll(t)]

LEMMA StaysIf ==
  (\A t \in Tokens : Books(t)' = Books(t)) \/ UNCHANGED <<contractVars, supply, custody>> => Stays
<1>1. UNCHANGED <<contractVars, supply, custody>> => \A t \in Tokens : Books(t)' = Books(t)
  BY DEF contractVars, Books
<1> QED
  BY <1>1, TotalsStay DEF Stays

LEMMA WholeInit == AdminInit => Whole!WanInit
<1> SUFFICES ASSUME AdminInit PROVE Whole!WanInit
  OBVIOUS
<1>1. ASSUME NEW t \in Tokens PROVE SupplyOfAll(t) = 0 /\ CustodyOfAll(t) = 0
  <2>1. \A c \in Contracts : Books(t)[c] = NoBook
    BY <1>1 DEF AdminInit, WanInit, Books, NoBook
  <2> DEFINE books == Books(t)
  <2>2. /\ \A c \in Contracts : SupplyIn(books)[c] = 0
        /\ \A c \in Contracts : CustodyIn(books)[c] = 0
    BY <2>1 DEF SupplyIn, CustodyIn, NoBook
  <2>3. SupplyOfAll(t) = SumSupply(books) /\ CustodyOfAll(t) = SumCustody(books)
    BY <1>1, TotalsAre
  <2> HIDE DEF books
  <2>4. SumOf(SupplyIn(books), Contracts) = 0 /\ SumOf(CustodyIn(books), Contracts) = 0
    BY <2>2, SumOfZeros, ContractsAreFinite
  <2> QED
    BY <2>3, <2>4, SupplyIsSum, CustodyIsSum
<1>2. /\ [t \in Tokens |-> SupplyOfAll(t)] = [t \in Tokens |-> 0]
      /\ [t \in Tokens |-> CustodyOfAll(t)] = [t \in Tokens |-> 0]
  BY <1>1
<1>3. WanInit
  BY DEF AdminInit
<1> QED
  BY <1>2, <1>3
  DEF WanInit, Whole!WanInit, QuotaInit, Whole!QuotaInit, NoQuota, Whole!NoQuota, NoTx,
         Whole!NoTx

(* The steps that touch no token are the same for the whole. *)
LEMMA StillInLock ==
  ASSUME Stays, NEW u \in Users, NEW t \in Tokens, NEW v \in Values, NEW x \in XHashes,
         NEW p \in Storemen
  PROVE  InSmgLock(u, t, v, x, p) => Whole!InSmgLock(u, t, v, x, p)
BY DEF Stays, InSmgLock, Whole!InSmgLock, QuotaInLock, Whole!QuotaInLock, Running, Whole!Running, NoTx, Whole!NoTx, IsLocked,
       Whole!IsLocked, Lapsed, Whole!Lapsed, Close, Whole!Close, SmgLockTime,
       Whole!SmgLockTime, IsExist, Whole!IsExist, IsActive, Whole!IsActive, NotActive,
       Whole!NotActive, InboundRoom, Whole!InboundRoom, OutboundRoom, Whole!OutboundRoom,
       Owing, Whole!Owing, Relieved, Whole!Relieved

LEMMA StillDebtLock ==
  ASSUME Stays, NEW t \in Tokens, NEW x \in XHashes, NEW src \in Storemen, NEW dst \in Storemen,
         NEW v \in Values
  PROVE  InDebtLock(t, x, src, v, dst) => Whole!InDebtLock(t, x, src, v, dst)
BY DEF Stays, InDebtLock, Whole!InDebtLock, QuotaDebtLock, Whole!QuotaDebtLock, Running, Whole!Running, NoTx, Whole!NoTx, IsLocked, Whole!IsLocked,
       Lapsed, Whole!Lapsed, Close, Whole!Close, SmgLockTime, Whole!SmgLockTime, IsExist,
       Whole!IsExist, IsActive, Whole!IsActive, NotActive, Whole!NotActive, InboundRoom,
       Whole!InboundRoom, OutboundRoom, Whole!OutboundRoom, Owing, Whole!Owing, Relieved,
       Whole!Relieved

LEMMA StillCloses ==
  ASSUME Stays, NEW x \in XHashes
  PROVE  /\ InSmgRevoke(x) => Whole!InSmgRevoke(x)
         /\ InDebtRedeem(x) => Whole!InDebtRedeem(x)
         /\ InDebtRevoke(x) => Whole!InDebtRevoke(x)
BY DEF Stays, InSmgRevoke, Whole!InSmgRevoke, InDebtRedeem, Whole!InDebtRedeem, InDebtRevoke,
       Whole!InDebtRevoke, QuotaInRevoke, Whole!QuotaInRevoke, QuotaDebtRedeem,
       Whole!QuotaDebtRedeem, QuotaDebtRevoke, Whole!QuotaDebtRevoke, InTime, Whole!InTime,
       Running, Whole!Running, IsLocked, Whole!IsLocked, Lapsed, Whole!Lapsed, Close, Whole!Close,
       IsExist, Whole!IsExist, IsActive, Whole!IsActive, NotActive, Whole!NotActive,
       InboundRoom, Whole!InboundRoom, OutboundRoom, Whole!OutboundRoom, Owing, Whole!Owing,
       Relieved, Whole!Relieved

LEMMA StillWithdraws ==
  ASSUME Stays, NEW p \in Storemen
  PROVE  SmgWithdrawFee(p) => Whole!SmgWithdrawFee(p)
BY DEF Stays, SmgWithdrawFee, Whole!SmgWithdrawFee

LEMMA StillAdmin ==
  ASSUME Stays
  PROVE  (AdminNext => Whole!AdminNext) /\ (WanTick => Whole!WanTick)
         /\ (UNCHANGED wanVars => UNCHANGED (Whole!wanVars))
BY DEF Stays, AdminNext, Whole!AdminNext, SetEconomics, Whole!SetEconomics, SetHalt,
       Whole!SetHalt, AddStoremanGroup, Whole!AddStoremanGroup, DeactivateStoremanGroup,
       Whole!DeactivateStoremanGroup, DelStoremanGroup, Whole!DelStoremanGroup,
       UpdateStoremanGroup, Whole!UpdateStoremanGroup, htlcVars, Whole!htlcVars, QuotaAdd,
       Whole!QuotaAdd, QuotaDeactivate, Whole!QuotaDeactivate, QuotaDel, Whole!QuotaDel,
       QuotaUpdate, Whole!QuotaUpdate, IsDebtPaidOff, Whole!IsDebtPaidOff, NoQuota,
       Whole!NoQuota, WanTick, Whole!WanTick, Aged, Whole!Aged, Older, Whole!Older,
       wanVars, Whole!wanVars, Running, Whole!Running, NoTx, Whole!NoTx, IsLocked,
       Whole!IsLocked, Lapsed, Whole!Lapsed, Close, Whole!Close, SmgLockTime,
       Whole!SmgLockTime, IsExist, Whole!IsExist, IsActive, Whole!IsActive, NotActive,
       Whole!NotActive, InboundRoom, Whole!InboundRoom, OutboundRoom, Whole!OutboundRoom,
       Owing, Whole!Owing, Relieved, Whole!Relieved

(* The four steps that move tokens move them in all the contracts as in    *)
(* the one in use.                                                         *)
LEMMA TotalsBecome ==
  ASSUME ContractsOK, ContractsOK', UNCHANGED contractVars, NEW t \in Tokens,
         \A u \in Tokens \ {t} : supply'[u] = supply[u] /\ custody'[u] = custody[u],
         NEW a \in Nat
  PROVE  /\ \A u \in Tokens \ {t} : SupplyOfAll(u)' = SupplyOfAll(u) /\ CustodyOfAll(u)' = CustodyOfAll(u)
         /\ supply'[t] = supply[t] + a => SupplyOfAll(t)' = SupplyOfAll(t) + a
         /\ supply'[t] = supply[t] - a => SupplyOfAll(t)' = SupplyOfAll(t) - a
         /\ supply'[t] = supply[t] => SupplyOfAll(t)' = SupplyOfAll(t)
         /\ custody'[t] = custody[t] + a => CustodyOfAll(t)' = CustodyOfAll(t) + a
         /\ custody'[t] = custody[t] - a => CustodyOfAll(t)' = CustodyOfAll(t) - a
         /\ custody'[t] = custody[t] => CustodyOfAll(t)' = CustodyOfAll(t)
<1> DEFINE S == SupplyOfAll(t)
           C == CustodyOfAll(t)
           S1 == SupplyOfAll(t)'
           C1 == CustodyOfAll(t)'
           m == supply[t]
           n == custody[t]
           m1 == supply'[t]
           n1 == custody'[t]
<1>1. S \in Nat /\ C \in Nat /\ m \in Nat /\ n \in Nat
  BY TotalsCover DEF ContractsOK
<1>2. /\ S1 = S - m + m1 /\ C1 = C - n + n1
      /\ \A u \in Tokens \ {t} : SupplyOfAll(u)' = SupplyOfAll(u) /\ CustodyOfAll(u)' = CustodyOfAll(u)
  BY TotalsMove
<1>3. S1 = S - m + m1 /\ C1 = C - n + n1
  BY <1>2
<1> HIDE DEF S, C, S1, C1, m, n, m1, n1
<1>4. /\ m1 = m + a => S1 = S + a
      /\ m1 = m - a => S1 = S - a
      /\ m1 = m => S1 = S
  BY <1>1, <1>3
<1>5. /\ n1 = n + a => C1 = C + a
      /\ n1 = n - a => C1 = C - a
      /\ n1 = n => C1 = C
  BY <1>1, <1>3
<1> QED
  BY <1>2, <1>4, <1>5 DEF S, C, S1, C1, m, n, m1, n1

LEMMA RedeemInboundOfAll ==
  ASSUME AllInv, ContractsOK', NEW u \in Users, NEW x \in XHashes, RedeemInbound(u, x)
  PROVE  Whole!InUserRedeem(u, x)
<1>0. smgTxs[x].token \in Tokens /\ smgTxs[x].value \in Nat
  BY LockedSmg DEF AllInv, RedeemInbound, InUserRedeem
<1> PICK t \in Tokens, v \in Nat : t = smgTxs[x].token /\ v = smgTxs[x].value
  BY <1>0
<1>1. t = smgTxs[x].token /\ v = smgTxs[x].value
  OBVIOUS
<1>2. /\ supply' = [supply EXCEPT ![t] = @ + v] /\ custody' = custody /\ UNCHANGED contractVars
  BY <1>1 DEF RedeemInbound, InUserRedeem, ownVars, managerVars
<1>3. supply \in [Tokens -> Nat]
  BY DEF AllInv, ContractsOK
<1>4. /\ supply'[t] = supply[t] + v /\ custody'[t] = custody[t]
      /\ \A w \in Tokens \ {t} : supply'[w] = supply[w] /\ custody'[w] = custody[w]
  BY <1>1, <1>2, <1>3
<1>5. /\ SupplyOfAll(t)' = SupplyOfAll(t) + v /\ CustodyOfAll(t)' = CustodyOfAll(t)
      /\ \A w \in Tokens \ {t} : SupplyOfAll(w)' = SupplyOfAll(w) /\ CustodyOfAll(w)' = CustodyOfAll(w)
  BY <1>1, <1>2, <1>4, TotalsBecome DEF AllInv
<1>6. /\ [w \in Tokens |-> SupplyOfAll(w)]' = [[w \in Tokens |-> SupplyOfAll(w)] EXCEPT ![t] = @ + v]
      /\ [w \in Tokens |-> CustodyOfAll(w)]' = [w \in Tokens |-> CustodyOfAll(w)]
  BY <1>1, <1>5
<1>7. InUserRedeem(u, x)
  BY DEF RedeemInbound
<1> QED
  BY <1>1, <1>6, <1>7
  DEF InUserRedeem, Whole!InUserRedeem, Running, Whole!Running, IsLocked, Whole!IsLocked,
      InTime, Whole!InTime, Close, Whole!Close, QuotaInRedeem, Whole!QuotaInRedeem,
      IsExist, Whole!IsExist, InboundRoom, Whole!InboundRoom, OutboundRoom, Whole!OutboundRoom,
      Owing, Whole!Owing, Relieved, Whole!Relieved

LEMMA LockOutboundOfAll ==
  ASSUME AllInv, ContractsOK', NEW u \in Users, NEW t \in Tokens, NEW v \in Values,
         NEW x \in XHashes, NEW p \in Storemen, LockOutbound(u, t, v, x, p)
  PROVE  \E price \in Prices : Whole!OutUserLock(u, t, v, x, p, price)
<1> DEFINE price == tokenInfo[t].price
<1>1. price \in Prices
  BY DEF AllInv, InfosOK, Infos, LockOutbound, Registered, NoToken
<1>2. OutUserLock(u, t, v, x, p, price) /\ UNCHANGED contractVars
  BY DEF LockOutbound, ownVars, managerVars
<1>3. supply \in [Tokens -> Nat] /\ custody \in [Tokens -> Nat] /\ v \in Nat
  BY WanConstants DEF AllInv, ContractsOK
<1> HIDE DEF price
<1>4. /\ supply' = supply /\ custody' = [custody EXCEPT ![t] = @ + v]
      /\ supply[t] - custody[t] >= v
  BY <1>2 DEF OutUserLock
<1>5. /\ supply'[t] = supply[t] /\ custody'[t] = custody[t] + v
      /\ \A w \in Tokens \ {t} : supply'[w] = supply[w] /\ custody'[w] = custody[w]
  BY <1>3, <1>4
<1>6. /\ SupplyOfAll(t)' = SupplyOfAll(t) /\ CustodyOfAll(t)' = CustodyOfAll(t) + v
      /\ \A w \in Tokens \ {t} : SupplyOfAll(w)' = SupplyOfAll(w) /\ CustodyOfAll(w)' = CustodyOfAll(w)
  BY <1>2, <1>3, <1>5, TotalsBecome DEF AllInv
<1>7. /\ [w \in Tokens |-> SupplyOfAll(w)]' = [w \in Tokens |-> SupplyOfAll(w)]
      /\ [w \in Tokens |-> CustodyOfAll(w)]' = [[w \in Tokens |-> CustodyOfAll(w)] EXCEPT ![t] = @ + v]
  BY <1>6
<1>8. SupplyOfAll(t) - CustodyOfAll(t) >= v
  <2> DEFINE S == SupplyOfAll(t)
             C == CustodyOfAll(t)
             m == supply[t]
             n == custody[t]
  <2>1. /\ S \in Nat /\ C \in Nat /\ m \in Nat /\ n \in Nat /\ S - C >= m - n /\ m - n >= v
    BY <1>3, <1>4, TotalsCover DEF AllInv
  <2> HIDE DEF S, C, m, n
  <2>2. S - C >= v
    BY <1>3, <2>1
  <2> QED
    BY <2>2 DEF S, C
<1>9. [w \in Tokens |-> SupplyOfAll(w)][t] - [w \in Tokens |-> CustodyOfAll(w)][t] >= v
  BY <1>8
<1>10. Whole!OutUserLock(u, t, v, x, p, price)
  BY <1>2, <1>7, <1>9
  DEF OutUserLock, Whole!OutUserLock, Running, Whole!Running, NoTx, Whole!NoTx, UserLockTime,
      Whole!UserLockTime, OutboundFee, Whole!OutboundFee, QuotaOutLock, Whole!QuotaOutLock,
      IsExist, Whole!IsExist, IsActive, Whole!IsActive, InboundRoom, Whole!InboundRoom,
      OutboundRoom, Whole!OutboundRoom
<1> QED
  BY <1>1, <1>10

LEMMA RedeemOutboundOfAll ==
  ASSUME AllInv, ContractsOK', NEW x \in XHashes, RedeemOutbound(x)
  PROVE  Whole!OutSmgRedeem(x)
<1>0. userTxs[x].token \in Tokens /\ userTxs[x].value \in Nat
  BY LockedUser DEF AllInv, RedeemOutbound, OutSmgRedeem
<1> PICK t \in Tokens, v \in Nat : t = userTxs[x].token /\ v = userTxs[x].value
  BY <1>0
<1>1. t = userTxs[x].token /\ v = userTxs[x].value
  OBVIOUS
<1>2. /\ supply' = [supply EXCEPT ![t] = @ - v] /\ custody' = [custody EXCEPT ![t] = @ - v]
      /\ custody[t] >= v /\ supply[t] >= v /\ UNCHANGED contractVars
  BY <1>1 DEF RedeemOutbound, OutSmgRedeem, ownVars, managerVars
<1>3. supply \in [Tokens -> Nat] /\ custody \in [Tokens -> Nat]
  BY DEF AllInv, ContractsOK
<1>4. /\ supply'[t] = supply[t] - v /\ custody'[t] = custody[t] - v
      /\ \A w \in Tokens \ {t} : supply'[w] = supply[w] /\ custody'[w] = custody[w]
  BY <1>1, <1>2, <1>3
<1>5. /\ SupplyOfAll(t)' = SupplyOfAll(t) - v /\ CustodyOfAll(t)' = CustodyOfAll(t) - v
      /\ \A w \in Tokens \ {t} : SupplyOfAll(w)' = SupplyOfAll(w) /\ CustodyOfAll(w)' = CustodyOfAll(w)
  BY <1>1, <1>2, <1>4, TotalsBecome DEF AllInv
<1>6. /\ [w \in Tokens |-> SupplyOfAll(w)]' = [[w \in Tokens |-> SupplyOfAll(w)] EXCEPT ![t] = @ - v]
      /\ [w \in Tokens |-> CustodyOfAll(w)]' = [[w \in Tokens |-> CustodyOfAll(w)] EXCEPT ![t] = @ - v]
  BY <1>1, <1>5
<1>7. SupplyOfAll(t) >= v /\ CustodyOfAll(t) >= v
  <2> DEFINE S == SupplyOfAll(t)
             C == CustodyOfAll(t)
             m == supply[t]
             n == custody[t]
  <2>1. S \in Nat /\ C \in Nat /\ m \in Nat /\ n \in Nat /\ S >= m /\ C >= n /\ m >= v /\ n >= v
    BY <1>1, <1>2, <1>3, TotalsCover DEF AllInv
  <2> HIDE DEF S, C, m, n
  <2>2. S >= v /\ C >= v
    BY <1>1, <2>1
  <2> QED
    BY <2>2 DEF S, C
<1>8. [w \in Tokens |-> SupplyOfAll(w)][t] >= v /\ [w \in Tokens |-> CustodyOfAll(w)][t] >= v
  BY <1>1, <1>7
<1>9. OutSmgRedeem(x)
  BY DEF RedeemOutbound
<1> QED
  BY <1>1, <1>6, <1>8, <1>9
  DEF OutSmgRedeem, Whole!OutSmgRedeem, Running, Whole!Running, IsLocked, Whole!IsLocked,
      InTime, Whole!InTime, Close, Whole!Close, EarnFee, Whole!EarnFee,
      QuotaOutRedeem, Whole!QuotaOutRedeem, IsExist, Whole!IsExist, InboundRoom,
      Whole!InboundRoom, OutboundRoom, Whole!OutboundRoom, Owing, Whole!Owing,
      Relieved, Whole!Relieved

LEMMA RevokeOutboundOfAll ==
  ASSUME AllInv, ContractsOK', NEW x \in XHashes, RevokeOutbound(x)
  PROVE  Whole!OutUserRevoke(x)
<1>0. userTxs[x].token \in Tokens /\ userTxs[x].value \in Nat
  BY LockedUser DEF AllInv, RevokeOutbound, OutUserRevoke
<1> PICK t \in Tokens, v \in Nat : t = userTxs[x].token /\ v = userTxs[x].value
  BY <1>0
<1>1. t = userTxs[x].token /\ v = userTxs[x].value
  OBVIOUS
<1>2. /\ supply' = supply /\ custody' = [custody EXCEPT ![t] = @ - v]
      /\ custody[t] >= v /\ UNCHANGED contractVars
  BY <1>1 DEF RevokeOutbound, OutUserRevoke, ownVars, managerVars
<1>3. supply \in [Tokens -> Nat] /\ custody \in [Tokens -> Nat]
  BY DEF AllInv, ContractsOK
<1>4. /\ supply'[t] = supply[t] /\ custody'[t] = custody[t] - v
      /\ \A w \in Tokens \ {t} : supply'[w] = supply[w] /\ custody'[w] = custody[w]
  BY <1>1, <1>2, <1>3
<1>5. /\ SupplyOfAll(t)' = SupplyOfAll(t) /\ CustodyOfAll(t)' = CustodyOfAll(t) - v
      /\ \A w \in Tokens \ {t} : SupplyOfAll(w)' = SupplyOfAll(w) /\ CustodyOfAll(w)' = CustodyOfAll(w)
  BY <1>1, <1>2, <1>4, TotalsBecome DEF AllInv
<1>6. /\ [w \in Tokens |-> SupplyOfAll(w)]' = [w \in Tokens |-> SupplyOfAll(w)]
      /\ [w \in Tokens |-> CustodyOfAll(w)]' = [[w \in Tokens |-> CustodyOfAll(w)] EXCEPT ![t] = @ - v]
  BY <1>1, <1>5
<1>7. CustodyOfAll(t) >= v
  <2> DEFINE C == CustodyOfAll(t)
             n == custody[t]
  <2>1. C \in Nat /\ n \in Nat /\ C >= n /\ n >= v
    BY <1>1, <1>2, <1>3, TotalsCover DEF AllInv
  <2> HIDE DEF C, n
  <2>2. C >= v
    BY <1>1, <2>1
  <2> QED
    BY <2>2 DEF C
<1>8. [w \in Tokens |-> CustodyOfAll(w)][t] >= v
  BY <1>1, <1>7
<1>9. OutUserRevoke(x)
  BY DEF RevokeOutbound
<1> QED
  BY <1>1, <1>6, <1>8, <1>9
  DEF OutUserRevoke, Whole!OutUserRevoke, Running, Whole!Running, IsLocked,
      Whole!IsLocked, Lapsed, Whole!Lapsed, Close, Whole!Close, EarnFee, Whole!EarnFee,
      RevokeFee, Whole!RevokeFee, QuotaOutRevoke, Whole!QuotaOutRevoke, IsExist, Whole!IsExist,
      InboundRoom, Whole!InboundRoom, OutboundRoom, Whole!OutboundRoom, Owing, Whole!Owing,
      Relieved, Whole!Relieved

LEMMA HtlcStepOfAll ==
  ASSUME AllInv, ContractsOK', HtlcNext
  PROVE  Whole!WanNext
<1>1. ASSUME NEW u \in Users, NEW t \in Tokens, NEW v \in Values, NEW x \in XHashes,
             NEW p \in Storemen, LockInbound(u, t, v, x, p)
      PROVE  Whole!InboundNext
  <2>1. Stays
    BY <1>1, StaysIf DEF LockInbound, InSmgLock, ownVars, managerVars
  <2> QED
    BY <1>1, <2>1, StillInLock DEF LockInbound, Whole!InboundNext
<1>2. ASSUME NEW u \in Users, NEW x \in XHashes, RedeemInbound(u, x)
      PROVE  Whole!InboundNext
  BY <1>2, RedeemInboundOfAll DEF Whole!InboundNext
<1>3. ASSUME NEW x \in XHashes, RevokeInbound(x)
      PROVE  Whole!InboundNext
  <2>1. Stays /\ InSmgRevoke(x)
    BY <1>3, StaysIf DEF RevokeInbound, InSmgRevoke, ownVars, managerVars
  <2> QED
    BY <2>1, StillCloses DEF Whole!InboundNext
<1>4. ASSUME NEW u \in Users, NEW t \in Tokens, NEW v \in Values, NEW x \in XHashes,
             NEW p \in Storemen, LockOutbound(u, t, v, x, p)
      PROVE  Whole!OutboundNext
  BY <1>4, LockOutboundOfAll DEF Whole!OutboundNext
<1>5. ASSUME NEW x \in XHashes, RedeemOutbound(x) \/ RevokeOutbound(x)
      PROVE  Whole!OutboundNext
  BY <1>5, RedeemOutboundOfAll, RevokeOutboundOfAll DEF Whole!OutboundNext
<1>6. ASSUME NEW p \in Storemen, WithdrawFee(p)
      PROVE  Whole!OutboundNext
  <2>1. Stays /\ SmgWithdrawFee(p)
    BY <1>6, StaysIf DEF WithdrawFee, SmgWithdrawFee, ownVars, managerVars
  <2> QED
    BY <2>1, StillWithdraws DEF Whole!OutboundNext
<1>7. ASSUME NEW t \in Tokens, NEW x \in XHashes, NEW src \in Storemen, NEW dst \in Storemen,
             NEW v \in Values, LockDebt(t, x, src, v, dst)
      PROVE  Whole!DebtNext
  <2>1. Stays
    BY <1>7, StaysIf DEF LockDebt, InDebtLock, ownVars, managerVars
  <2> QED
    BY <1>7, <2>1, StillDebtLock DEF LockDebt, Whole!DebtNext
<1>8. ASSUME NEW x \in XHashes, RedeemDebt(x) \/ RevokeDebt(x)
      PROVE  Whole!DebtNext
  <2>1. Stays /\ (InDebtRedeem(x) \/ InDebtRevoke(x))
    BY <1>8, StaysIf DEF RedeemDebt, RevokeDebt, InDebtRedeem, InDebtRevoke, ownVars, managerVars
  <2> QED
    BY <2>1, StillCloses DEF Whole!DebtNext
<1>9. ASSUME \/ \E h \in BOOLEAN : SetHtlcHalt(h)
             \/ \E r \in RevokeRatios : SetHtlcEconomics(r)
      PROVE  Whole!AdminNext
  <2>1. AdminNext
    BY <1>9 DEF SetHtlcHalt, SetHtlcEconomics, AdminNext
  <2>2. Stays
    BY <1>9, StaysIf DEF SetHtlcHalt, SetHtlcEconomics, SetHalt, SetEconomics, htlcVars,
                         ownVars, managerVars
  <2> QED
    BY <2>1, <2>2, StillAdmin
<1> QED
  BY <1>1, <1>2, <1>3, <1>4, <1>5, <1>6, <1>7, <1>8, <1>9 DEF HtlcNext, Whole!WanNext

LEMMA WholeStep == AllInv /\ [AllNext]_adminVars => [Whole!WanNext]_(Whole!wanVars)
<1> SUFFICES ASSUME AllInv, [AllNext]_adminVars PROVE [Whole!WanNext]_(Whole!wanVars)
  OBVIOUS
<1>1. ContractsOK'
  BY ContractsStayOK DEF AllInv
<1>2. ASSUME ManagerNext PROVE UNCHANGED (Whole!wanVars)
  <2>1. UNCHANGED htlcOwnVars /\ \A t \in Tokens : Books(t)' = Books(t)
    BY <1>2, ManagerDoes DEF AllInv
  <2>2. Stays
    BY <2>1, StaysIf
  <2> QED
    BY <2>1, <2>2 DEF Stays, htlcOwnVars, Whole!wanVars
<1>3. ASSUME GroupNext PROVE [Whole!WanNext]_(Whole!wanVars)
  <2>1. Stays
    BY <1>3, OthersIssueNothing, StaysIf
  <2>2. AdminNext \/ UNCHANGED wanVars
    BY <1>3, GroupStepIsWans DEF AllInv
  <2> QED
    BY <2>1, <2>2, StillAdmin DEF Whole!WanNext
<1>4. ASSUME AdminTick PROVE Whole!WanNext
  <2>1. Stays /\ WanTick
    BY <1>4, OthersIssueNothing, StaysIf DEF AdminTick
  <2> QED
    BY <2>1, StillAdmin DEF Whole!WanNext
<1>5. ASSUME UNCHANGED adminVars PROVE UNCHANGED (Whole!wanVars)
  <2>1. Stays /\ UNCHANGED wanVars
    BY <1>5, OthersIssueNothing, StaysIf DEF adminVars
  <2> QED
    BY <2>1, StillAdmin
<1> QED
  BY <1>1, <1>2, <1>3, <1>4, <1>5, HtlcStepOfAll DEF AllNext

(* The contracts of a token taken together are the one token of WanHtlc,   *)
(* however often the owner removes a token, adds it again with a new       *)
(* contract or gives it another one with updateToken: a step of the token  *)
(* manager moves nothing between contracts, and what the HTLC mints, burns *)
(* or moves in the one that is registered it mints, burns or moves in all. *)
(* Assumed is what WanAdmin says of the contracts the owner names: they    *)
(* are WanTokens of the token manager, each for one token.                 *)
THEOREM WholeImplementsHtlc == AdminSpec => WholeIsHtlc
<1>1. AdminInit => Whole!WanInit
  BY WholeInit
<1>2. AllInv /\ [AllNext]_adminVars => [Whole!WanNext]_(Whole!wanVars)
  BY WholeStep
<1> QED
  BY <1>1, <1>2, AllInvariant, PTL DEF AdminSpec, WholeIsHtlc, Whole!WanSpec
=============================================================================
