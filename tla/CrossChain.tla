----------------------------- MODULE CrossChain -----------------------------
(***************************************************************************)
(* The two contracts together: a swap has one leg in EosHtlc and one in    *)
(* WanHtlc, bound by the hash of a secret.  Neither chain sees the other;  *)
(* what carries a swap across are the parties, who watch both.             *)
(*                                                                         *)
(* The initiator of a swap draws the secret and opens the first leg, for   *)
(* twice LockedTime; the storeman that answers opens the second, for       *)
(* LockedTime.  The initiator takes the second leg, which publishes the    *)
(* secret, and with the secret the storeman takes the first.               *)
(*                                                                         *)
(*              initiator        first leg       second leg                *)
(*    inbound   user             Inlock          InSmgLock                 *)
(*    outbound  user             OutUserLock     Outlock                   *)
(*    debt      retiring group   Lockdebt        InDebtLock                *)
(*                                                                         *)
(* Assumed of the parties: a secret is drawn at random, hence new, and     *)
(* known to its initiator until it is published; a storeman answers only   *)
(* a first leg that outlasts its own, with the terms of that leg; and it   *)
(* takes a first leg before it lapses once it can.  Nothing is assumed of  *)
(* users, and nobody has to answer.  Where SettlesFirst holds, a group     *)
(* enters a debt (it answers one, or takes the second leg of its own) when *)
(* none of its debts is left to settle, answers only a debt whose row      *)
(* still names its key, and takes over nothing while it hands on: the      *)
(* contract on EOS erases keys.                                            *)
(* Both clocks tick together; the owners do not halt the contracts, change *)
(* a quota or charge fees here.                                            *)
(*                                                                         *)
(* A definition whose comment begins with "Mutant" is a wrong version of   *)
(* the one that follows it, there to show that a property notices.         *)
(***************************************************************************)
EXTENDS Integers, FiniteSets, FiniteSetsExt

CONSTANTS Users, Storemen, XHashes, Tokens, Amounts, Quotas,
          Supply, MaxAmount, LockedTime, MaxPid, NoRow,
          Kinds,       \* the kinds of swaps the parties open
          SettlesFirst \* whether groups settle one debt before they enter the next

VARIABLES
  transfers, debts, pks, assets, fees, ratio, signers, vault, \* EosHtlc
  quotas, userTxs, smgTxs, debtTxs, xHashFee, storemanFee,    \* WanHtlc
  revokeRatio, initialized, halted, supply, custody, wan,
  deals  \* by hash: what became of the two legs, which EOS forgets

Eos == INSTANCE EosHtlc WITH
         PKs <- Storemen, Issued <- Tokens, DebtAmounts <- Amounts,
         Ratios <- {0}, RatioPrecise <- 1,
         SigCodes <- {1}, SigActions <- {"verify"}
Wan == INSTANCE WanHtlc WITH
         Values <- Amounts, TxFeeRatios <- {0}, Prices <- {1}, DefaultPrecise <- 1,
         RevokeRatios <- {0}, RatioPrecise <- 1

(* The constants are those of both contracts. *)
ASSUME CrossConstants ==
  /\ Eos!EosConstants
  /\ Wan!WanConstants
  /\ Kinds \subseteq {"inbound", "outbound", "debt"}

eosVars == <<transfers, debts, pks, assets, fees, ratio, signers, vault>>
wanVars == <<quotas, userTxs, smgTxs, debtTxs, xHashFee, storemanFee,
             revokeRatio, initialized, halted, supply, custody, wan>>
crossVars == <<eosVars, wanVars, deals>>

NoDeal == [first |-> "none"]
Deal(kind, from, to, token, value) ==
  [kind |-> kind, from |-> from, to |-> to, token |-> token, value |-> value,
   first |-> "locked", second |-> "none"]

Init == Eos!Init /\ Wan!WanInit /\ deals = [x \in XHashes |-> NoDeal]

IsOpen(x, kind) == deals[x] # NoDeal /\ deals[x].kind = kind /\ deals[x].first = "locked"

(* The secret is public once the second leg has been redeemed. *)
Public(x) == deals[x] # NoDeal /\ deals[x].second = "redeemed"

OnEos(action) == action /\ UNCHANGED wanVars
OnWan(action) == action /\ UNCHANGED eosVars

Start(x, deal) == deals[x] = NoDeal /\ deal.kind \in Kinds /\ deals' = [deals EXCEPT ![x] = deal]
First(x, outcome) == deals[x] # NoDeal /\ deals' = [deals EXCEPT ![x].first = outcome]
Second(x, outcome) == deals[x] # NoDeal /\ deals' = [deals EXCEPT ![x].second = outcome]

Unanswered(x, kind) == IsOpen(x, kind) /\ deals[x].second = "none"

(* The first leg outlasts a second one that begins now. *)
Outlasts(leg) == leg.timeLeft > LockedTime

-----------------------------------------------------------------------------
(* Inbound *)

OpenInbound(u, t, v, x, p) ==
  Start(x, Deal("inbound", u, p, t, v)) /\ OnEos(Eos!Inlock(u, t, v, x, p))

AnswerInbound(x) ==
  /\ Unanswered(x, "inbound")
  /\ Outlasts(transfers[x])
  /\ Second(x, "locked")
  /\ OnWan(Wan!InSmgLock(deals[x].from, deals[x].token, deals[x].value, x, deals[x].to))

TakeInbound(x) ==
  Second(x, "redeemed") /\ OnWan(Wan!InUserRedeem(deals[x].from, x))

SettleInbound(x) == Public(x) /\ First(x, "redeemed") /\ OnEos(Eos!Inredeem(x))
CancelInbound(x) == First(x, "revoked") /\ OnEos(Eos!Inrevoke(x))
WithdrawInbound(x) == Second(x, "revoked") /\ OnWan(Wan!InSmgRevoke(x))

-----------------------------------------------------------------------------
(* Outbound *)

OpenOutbound(u, t, v, x, p) ==
  Start(x, Deal("outbound", u, p, t, v)) /\ OnWan(Wan!OutUserLock(u, t, v, x, p, 1))

AnswerOutbound(x) ==
  /\ Unanswered(x, "outbound")
  /\ Outlasts(userTxs[x])
  /\ Second(x, "locked")
  /\ OnEos(Eos!Outlock(deals[x].from, deals[x].token, deals[x].value, x, deals[x].to))

TakeOutbound(x) ==
  Second(x, "redeemed") /\ OnEos(Eos!Outredeem(deals[x].from, x))

SettleOutbound(x) == Public(x) /\ First(x, "redeemed") /\ OnWan(Wan!OutSmgRedeem(x))
CancelOutbound(x) == First(x, "revoked") /\ OnWan(Wan!OutUserRevoke(x))
WithdrawOutbound(x) == Second(x, "revoked") /\ OnEos(Eos!Outrevoke(x))

-----------------------------------------------------------------------------
(* Debt: group src retires, group dst takes over its assets and its debt. *)

OpenDebt(t, v, x, src, dst) ==
  Start(x, Deal("debt", src, dst, t, v)) /\ OnEos(Eos!Lockdebt(dst, t, v, x, src))

SettledDebts(p) ==
  \A x \in XHashes : IsOpen(x, "debt") /\ Public(x) => p \notin {deals[x].from, deals[x].to}

TakesOverNone(p) ==
  \A x \in XHashes : IsOpen(x, "debt") /\ deals[x].second = "locked" => deals[x].to # p

AnswerDebt(x) ==
  /\ Unanswered(x, "debt")
  /\ Outlasts(debts[x])
  /\ SettlesFirst => SettledDebts(deals[x].to) /\ pks[debts[x].npid] = deals[x].to
  /\ Second(x, "locked")
  /\ OnWan(Wan!InDebtLock(deals[x].token, x, deals[x].from, deals[x].value, deals[x].to))

(* Mutant: a group that took over a debt hands over its own at once. *)
TakeDebtAtOnce(x) == Second(x, "redeemed") /\ OnWan(Wan!InDebtRedeem(x))

TakeDebt(x) ==
  /\ Second(x, "redeemed")
  /\ SettlesFirst => SettledDebts(deals[x].from) /\ TakesOverNone(deals[x].from)
  /\ OnWan(Wan!InDebtRedeem(x))

SettleDebt(x) == Public(x) /\ First(x, "redeemed") /\ OnEos(Eos!Redeemdebt(x))
CancelDebt(x) == First(x, "revoked") /\ OnEos(Eos!Revokedebt(x))
WithdrawDebt(x) == Second(x, "revoked") /\ OnWan(Wan!InDebtRevoke(x))

-----------------------------------------------------------------------------
(* The owners set the contracts up; groups join and retire. *)

SetUp ==
  /\ ~initialized
  /\ Eos!Regsig(1, "verify")
  /\ Wan!SetEconomics(0)
  /\ UNCHANGED deals

Groups ==
  /\ UNCHANGED deals
  /\ \E t \in Tokens, p \in Storemen :
       \/ \E q \in Quotas : OnWan(Wan!AddStoremanGroup(t, p, q, 0))
       \/ OnWan(Wan!DeactivateStoremanGroup(t, p))
       \/ OnWan(Wan!DelStoremanGroup(t, p))

(* A storeman that can take a first leg does not wait until it lapses. *)
LastChance(x) ==
  /\ Public(x)
  /\ \/ IsOpen(x, "inbound") /\ transfers[x].timeLeft = 0
     \/ IsOpen(x, "outbound") /\ userTxs[x].timeLeft = 1
     \/ IsOpen(x, "debt") /\ debts[x].timeLeft = 0

Tick ==
  /\ \A x \in XHashes : ~LastChance(x)
  /\ Eos!Tick
  /\ Wan!WanTick
  /\ UNCHANGED deals

-----------------------------------------------------------------------------
Opens ==
  \/ \E u \in Users, t \in Tokens, v \in Amounts, x \in XHashes, p \in Storemen :
       OpenInbound(u, t, v, x, p) \/ OpenOutbound(u, t, v, x, p)
  \/ \E t \in Tokens, v \in Amounts, x \in XHashes, src, dst \in Storemen :
       OpenDebt(t, v, x, src, dst)

Answers(x) == AnswerInbound(x) \/ AnswerOutbound(x) \/ AnswerDebt(x)
Takes(x) == TakeInbound(x) \/ TakeOutbound(x) \/ TakeDebt(x)
Settles(x) == SettleInbound(x) \/ SettleOutbound(x) \/ SettleDebt(x)
Cancels(x) == CancelInbound(x) \/ CancelOutbound(x) \/ CancelDebt(x)
Withdraws(x) == WithdrawInbound(x) \/ WithdrawOutbound(x) \/ WithdrawDebt(x)

Next ==
  \/ Opens
  \/ \E x \in XHashes : Answers(x) \/ Takes(x) \/ Settles(x) \/ Cancels(x) \/ Withdraws(x)
  \/ SetUp
  \/ Groups
  \/ Tick

Spec == Init /\ [][Next]_crossVars

(* Time passes; who opened a leg that lapsed takes it back, and a storeman *)
(* that can take a first leg does.                                         *)
Fairness ==
  /\ WF_crossVars(Tick)
  /\ \A x \in XHashes : WF_crossVars(Settles(x)) /\ WF_crossVars(Cancels(x))

FairSpec == Spec /\ Fairness

-----------------------------------------------------------------------------
(* Properties *)

Sum(xs) == MapThenSumSet(LAMBDA x : deals[x].value, xs)

(* Deals in a token whose secret is public and whose first leg still waits. *)
Unsettled(kind, token) ==
  {x \in XHashes : IsOpen(x, kind) /\ Public(x) /\ deals[x].token = token}

(* What group p holds on EOS, or may take there with a public secret. *)
Holdings(p, t) ==
  MapThenSumSet(LAMBDA i : IF pks[i] = p THEN Eos!Balance(assets, i, t) ELSE 0, 0..MaxPid)
  + Sum({x \in Unsettled("inbound", t) \cup Unsettled("debt", t) : deals[x].to = p})
  - Sum({x \in Unsettled("debt", t) : deals[x].from = p})

(* What it owes on Wanchain, less what it may burn there already. *)
Owes(p, t) ==
  quotas[t][p].debt - Sum({x \in Unsettled("outbound", t) : deals[x].to = p})

(* Every token on Wanchain is backed on EOS by the group that owes it, at  *)
(* every moment, through swaps in both directions, handed over debts,      *)
(* lapsed legs and groups that come and go.                                *)
EveryTokenIsBacked == \A p \in Storemen, t \in Tokens : Holdings(p, t) = Owes(p, t)

(* A first leg whose secret is public can be taken until it lapses: no     *)
(* quota, asset, key or pending record of another swap is in the way.      *)
PublicSecretsPay ==
  \A x \in XHashes : deals[x].first = "locked" /\ Public(x) => ENABLED Settles(x)

(* A key in use stays in the contract on EOS ("clean pk ... if pk is not   *)
(* used"): the receiver of a debt that can be redeemed still has its key.  *)
KeysInUseStay ==
  \A x \in XHashes : IsOpen(x, "debt") /\ Public(x) => pks[debts[x].npid] = deals[x].to

(* What AtomicSwap calls the phase of a swap. *)
Phase(x) ==
  LET d == deals[x]
  IN  CASE d = NoDeal -> "none"
        [] d.first = "redeemed" -> "settled"
        [] d.first = "revoked" -> "cancelled"
        [] OTHER -> IF d.second = "redeemed" THEN "paid" ELSE "open"

Swap == INSTANCE AtomicSwap WITH Swaps <- XHashes, phase <- [x \in XHashes |-> Phase(x)]

(* Every swap is an atomic swap: if its second leg was redeemed its first  *)
(* leg is never revoked, and its first leg is redeemed only after that.    *)
SwapsAreAtomic == Swap!Spec

(* And it ends: settled once it is paid, cancelled if it is never paid.    *)
SwapsEnd == Swap!FairSpec
=============================================================================
