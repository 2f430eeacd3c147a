------------------------------ MODULE QuotaLib ------------------------------
(***************************************************************************)
(* The quota table of the Wanchain side                                    *)
(* (src/eos-wan-cross/solidity/contracts/lib/QuotaLib.sol): for each token *)
(* and storeman group, how much it may owe (quota), what it is about to    *)
(* owe (receivable), what it owes (debt) and how much of that is being     *)
(* paid back (payable).  The library is called by HTLCDelegate only; each  *)
(* of its functions is one relation between quotas and quotas' here.       *)
(*                                                                         *)
(* Arithmetic is SafeMath's: a subtraction below zero reverts, so it is a  *)
(* guard.  Sums stay far below 2^256 for any token supply.                 *)
(*                                                                         *)
(* A definition whose comment begins with "Mutant" is a wrong version of   *)
(* the one that follows it.  No specification uses it: it is there to show *)
(* that a property notices the mistake.                                    *)
(***************************************************************************)
EXTENDS Integers

CONSTANTS
  Tokens,   \* tokens of the original chain, as registered on Wanchain
  Storemen  \* public keys of the storeman groups

VARIABLE quotas

Quota == [quota : Nat, ratio : Nat, receivable : Nat, payable : Nat,
          debt : Nat, active : BOOLEAN]

(* What a mapping holds where nothing was stored. *)
NoQuota == [quota |-> 0, ratio |-> 0, receivable |-> 0, payable |-> 0,
            debt |-> 0, active |-> FALSE]

QuotaInit == quotas = [t \in Tokens |-> [p \in Storemen |-> NoQuota]]

IsExist(t, p)   == quotas[t][p].quota # 0
IsActive(t, p)  == IsExist(t, p) /\ quotas[t][p].active
NotActive(t, p) == IsExist(t, p) /\ ~quotas[t][p].active

(* Mutant: what is only locked so far is overlooked. *)
HasNoDebt(t, p) == quotas[t][p].debt = 0

IsDebtPaidOff(t, p) ==
  /\ quotas[t][p].receivable = 0
  /\ quotas[t][p].payable = 0
  /\ quotas[t][p].debt = 0

InboundRoom(t, p)  == quotas[t][p].quota - (quotas[t][p].receivable + quotas[t][p].debt)

(* Mutant: what is already on its way back is offered again. *)
OutboundRoomTwice(t, p) == quotas[t][p].debt

OutboundRoom(t, p) == quotas[t][p].debt - quotas[t][p].payable

-----------------------------------------------------------------------------
(* Groups come and go *)

QuotaAdd(t, p, quota, ratio) ==
  /\ quota > 0
  /\ ~IsExist(t, p)
  /\ quotas' = [quotas EXCEPT ![t][p] =
       [quota |-> quota, ratio |-> ratio, receivable |-> 0, payable |-> 0,
        debt |-> 0, active |-> TRUE]]

QuotaDeactivate(t, p) ==
  /\ IsActive(t, p)
  /\ quotas' = [quotas EXCEPT ![t][p].active = FALSE]

(* Mutant: an active group may go. *)
QuotaDelActive(t, p) ==
  /\ IsExist(t, p)
  /\ IsDebtPaidOff(t, p)
  /\ quotas' = [quotas EXCEPT ![t][p] = NoQuota]

QuotaDel(t, p) ==
  /\ NotActive(t, p)
  /\ IsDebtPaidOff(t, p)
  /\ quotas' = [quotas EXCEPT ![t][p] = NoQuota]

(* The new quota may be below what the group already owes. *)
QuotaUpdate(t, p, quota) ==
  /\ quota > 0
  /\ IsExist(t, p)
  /\ quotas' = [quotas EXCEPT ![t][p].quota = quota]

-----------------------------------------------------------------------------
(* Inbound: the storeman is about to issue value, and issues it or not. *)

(* Mutant: what the group was about to owe is forgotten. *)
OwingNothing(row, value) == [row EXCEPT !.receivable = @ - value]

(* The row of a group that owes what it was about to owe. *)
Owing(row, value) == [row EXCEPT !.receivable = @ - value, !.debt = @ + value]

(* Mutant: the debt stays after it is paid back. *)
RelievedOfNothing(row, value) == [row EXCEPT !.payable = @ - value]

(* The row of a group that has paid back what it was about to pay back. *)
Relieved(row, value) == [row EXCEPT !.debt = @ - value, !.payable = @ - value]

QuotaInLock(t, p, value) ==
  /\ value > 0
  /\ IsActive(t, p)
  /\ InboundRoom(t, p) >= value
  /\ quotas' = [quotas EXCEPT ![t][p].receivable = @ + value]

QuotaInRevoke(t, p, value) ==
  /\ value > 0
  /\ IsExist(t, p)
  /\ quotas[t][p].receivable >= value
  /\ quotas' = [quotas EXCEPT ![t][p].receivable = @ - value]

QuotaInRedeem(t, p, value) ==
  /\ value > 0
  /\ IsExist(t, p)
  /\ quotas[t][p].receivable >= value
  /\ quotas' = [quotas EXCEPT ![t][p] = Owing(@, value)]

-----------------------------------------------------------------------------
(* Outbound: the storeman is about to take back value, and takes it or not. *)

QuotaOutLock(t, p, value) ==
  /\ value > 0
  /\ IsActive(t, p)
  /\ OutboundRoom(t, p) >= value
  /\ quotas' = [quotas EXCEPT ![t][p].payable = @ + value]

(* Mutant: the other counter is lowered. *)
QuotaOutRevokeReceivable(t, p, value) ==
  /\ value > 0
  /\ IsExist(t, p)
  /\ quotas[t][p].receivable >= value
  /\ quotas' = [quotas EXCEPT ![t][p].receivable = @ - value]

QuotaOutRevoke(t, p, value) ==
  /\ value > 0
  /\ IsExist(t, p)
  /\ quotas[t][p].payable >= value
  /\ quotas' = [quotas EXCEPT ![t][p].payable = @ - value]

QuotaOutRedeem(t, p, value) ==
  /\ value > 0
  /\ IsExist(t, p)
  /\ quotas[t][p].debt >= value
  /\ quotas[t][p].payable >= value
  /\ quotas' = [quotas EXCEPT ![t][p] = Relieved(@, value)]

-----------------------------------------------------------------------------
(* Debt: a group that retires (src) passes what it owes to another (dst). *)

(* Mutant: a second debt beside a pending one. *)
QuotaDebtLockAgain(t, value, src, dst) ==
  /\ value > 0
  /\ NotActive(t, src)
  /\ IsActive(t, dst)
  /\ quotas[t][src].receivable = 0
  /\ OutboundRoom(t, src) >= value
  /\ InboundRoom(t, dst) >= value
  /\ quotas' = [quotas EXCEPT ![t][dst].receivable = @ + value,
                              ![t][src].payable = @ + value]

QuotaDebtLock(t, value, src, dst) ==
  /\ value > 0
  /\ NotActive(t, src)
  /\ IsActive(t, dst)
  /\ quotas[t][src].receivable = 0
  /\ quotas[t][src].payable = 0
  /\ quotas[t][src].debt >= value
  /\ InboundRoom(t, dst) >= value
  /\ quotas' = [quotas EXCEPT ![t][dst].receivable = @ + value,
                              ![t][src].payable = @ + value]

QuotaDebtRedeem(t, value, src, dst) ==
  /\ value > 0
  /\ IsExist(t, dst)
  /\ NotActive(t, src)
  /\ quotas[t][dst].receivable >= value
  /\ quotas[t][src].payable >= value
  /\ quotas[t][src].debt >= value
  /\ quotas' = [quotas EXCEPT ![t][dst] = Owing(@, value), ![t][src] = Relieved(@, value)]

(* Mutant: only the receiver's counter is given back. *)
QuotaDebtRevokeHalf(t, value, src, dst) ==
  /\ value > 0
  /\ IsExist(t, dst)
  /\ NotActive(t, src)
  /\ quotas[t][dst].receivable >= value
  /\ quotas' = [quotas EXCEPT ![t][dst].receivable = @ - value]

QuotaDebtRevoke(t, value, src, dst) ==
  /\ value > 0
  /\ IsExist(t, dst)
  /\ NotActive(t, src)
  /\ quotas[t][dst].receivable >= value
  /\ quotas[t][src].payable >= value
  /\ quotas' = [quotas EXCEPT ![t][dst].receivable = @ - value,
                              ![t][src].payable = @ - value]

-----------------------------------------------------------------------------
QuotaTypeOK == quotas \in [Tokens -> [Storemen -> Quota]]

(* A group never has more tokens on their way back than it owes:           *)
(* queryQuotaInfo and outLock subtract the one from the other.             *)
PayableWithinDebt ==
  \A t \in Tokens, p \in Storemen : quotas[t][p].payable <= quotas[t][p].debt
=============================================================================
