-------------------------- MODULE CrossChainProofs --------------------------
(***************************************************************************)
(* The composition implements AtomicSwap, for every set of users,          *)
(* storemen, tokens and hashes, any amounts, and any LockedTime: a swap    *)
(* whose second leg is redeemed is never cancelled, and its first leg is   *)
(* never redeemed before.                                                  *)
(*                                                                         *)
(* All that matters of a swap are its entries in the five tables and its   *)
(* deal.  Hence the inductive invariant is a statement SwapOK about six    *)
(* values, taken at every hash, and a step at one hash is a relation       *)
(* between these six and their new values.                                 *)
(*                                                                         *)
(* And every token on Wanchain is backed on EOS by the group that owes it, *)
(* as long as groups settle one debt before they enter the next.  The      *)
(* second invariant ties three things together: what a group holds on EOS, *)
(* in the books of the ids that are its own; what it owes on Wanchain; and *)
(* the swaps whose secret is public and whose first leg still waits, which *)
(* make up the difference.  A step moves an amount from one to another.    *)
(***************************************************************************)
EXTENDS CrossChain, Inductions

-----------------------------------------------------------------------------
(* The inductive invariant *)

UserDeal == [kind : {"inbound", "outbound"}, from : Users, to : Storemen, token : Tokens,
             value : Amounts, first : {"locked", "redeemed", "revoked"},
             second : {"none", "locked", "redeemed", "revoked"}]
DebtDeal == [kind : {"debt"}, from : Storemen, to : Storemen, token : Tokens,
             value : Amounts, first : {"locked", "redeemed", "revoked"},
             second : {"none", "locked", "redeemed", "revoked"}]
Deals == UserDeal \cup DebtDeal

Transfers == Eos!TransferRow \cup {NoRow}
Debts == Eos!DebtRow \cup {NoRow}
UserTxs == Wan!UserTx \cup {Wan!NoTx}
SmgTxs == Wan!SmgTx \cup {Wan!NoTx}
DebtTxs == Wan!DebtTx \cup {Wan!NoTx}

IsInlock(tr) == tr # NoRow /\ tr.status = "inlock"
IsOutlock(tr) == tr # NoRow /\ tr.status = "outlock"

FirstOpen(d, kind) == d # NoDeal /\ d.kind = kind /\ d.first = "locked"
SecondOpen(d, kind) == d # NoDeal /\ d.kind = kind /\ d.second = "locked"
Revealed(d) == d # NoDeal /\ d.second = "redeemed"

(* The contract that holds a leg has it locked exactly while the deal says *)
(* so.                                                                     *)
LegsAgree(tr, de, ut, st, dt, d) ==
  /\ IsInlock(tr) <=> FirstOpen(d, "inbound")
  /\ ut.status = "Locked" <=> FirstOpen(d, "outbound")
  /\ de # NoRow <=> FirstOpen(d, "debt")
  /\ st.status = "Locked" <=> SecondOpen(d, "inbound")
  /\ IsOutlock(tr) <=> SecondOpen(d, "outbound")
  /\ dt.status = "Locked" <=> SecondOpen(d, "debt")

(* While a second leg can be redeemed its first leg is locked and outlasts *)
(* it; and a first leg whose secret is public has not lapsed.              *)
LegsInTime(tr, de, ut, st, dt, d) ==
  /\ SecondOpen(d, "inbound") /\ st.timeLeft > 0 =>
       FirstOpen(d, "inbound") /\ tr.timeLeft > st.timeLeft
  /\ SecondOpen(d, "outbound") /\ tr.timeLeft >= 0 =>
       FirstOpen(d, "outbound") /\ ut.timeLeft > tr.timeLeft
  /\ SecondOpen(d, "debt") /\ dt.timeLeft > 0 =>
       FirstOpen(d, "debt") /\ de.timeLeft > dt.timeLeft
  /\ FirstOpen(d, "inbound") /\ Revealed(d) => tr.timeLeft >= 0
  /\ FirstOpen(d, "outbound") /\ Revealed(d) => ut.timeLeft > 0
  /\ FirstOpen(d, "debt") /\ Revealed(d) => de.timeLeft >= 0

(* A leg that is locked has the terms of the deal. *)
TermsAgree(tr, de, ut, st, dt, d) ==
  /\ IsInlock(tr) \/ IsOutlock(tr) => tr.token = d.token /\ tr.quantity = d.value
  /\ de # NoRow => de.token = d.token /\ de.quantity = d.value
  /\ ut.status = "Locked" => ut.token = d.token /\ ut.value = d.value /\ ut.storeman = d.to
  /\ st.status = "Locked" => st.token = d.token /\ st.value = d.value /\ st.storeman = d.to
  /\ dt.status = "Locked" => /\ dt.token = d.token /\ dt.value = d.value
                             /\ dt.storeman = d.to /\ dt.src = d.from

SwapOK(tr, de, ut, st, dt, d) ==
  /\ tr \in Transfers /\ de \in Debts
  /\ ut \in UserTxs /\ st \in SmgTxs /\ dt \in DebtTxs
  /\ d \in Deals \cup {NoDeal}
  /\ LegsAgree(tr, de, ut, st, dt, d)
  /\ LegsInTime(tr, de, ut, st, dt, d)
  /\ TermsAgree(tr, de, ut, st, dt, d)

Tables ==
  /\ transfers \in [XHashes -> Transfers] /\ debts \in [XHashes -> Debts]
  /\ userTxs \in [XHashes -> UserTxs] /\ smgTxs \in [XHashes -> SmgTxs]
  /\ debtTxs \in [XHashes -> DebtTxs]
  /\ deals \in [XHashes -> Deals \cup {NoDeal}]

SwapsOK ==
  \A x \in XHashes :
    SwapOK(transfers[x], debts[x], userTxs[x], smgTxs[x], debtTxs[x], deals[x])

CrossInv == Tables /\ SwapsOK

-----------------------------------------------------------------------------
(* Phases *)

PhaseOf(d) ==
  IF d = NoDeal THEN "none"
  ELSE IF d.first = "redeemed" THEN "settled"
  ELSE IF d.first = "revoked" THEN "cancelled"
  ELSE IF d.second = "redeemed" THEN "paid" ELSE "open"

(* The steps of one swap in AtomicSwap. *)
Moves(d, nd) ==
  \/ PhaseOf(nd) = PhaseOf(d)
  \/ PhaseOf(d) = "none" /\ PhaseOf(nd) = "open"
  \/ PhaseOf(d) = "open" /\ PhaseOf(nd) = "paid"
  \/ PhaseOf(d) = "paid" /\ PhaseOf(nd) = "settled"
  \/ PhaseOf(d) = "open" /\ PhaseOf(nd) = "cancelled"

(* A step of the swap of hash x: no other swap is touched, and this one    *)
(* stays in order and moves as AtomicSwap lets it.                         *)
StepAt(x) ==
  /\ Tables'
  /\ \A y \in XHashes \ {x} :
       /\ transfers'[y] = transfers[y] /\ debts'[y] = debts[y]
       /\ userTxs'[y] = userTxs[y] /\ smgTxs'[y] = smgTxs[y] /\ debtTxs'[y] = debtTxs[y]
       /\ deals'[y] = deals[y]
  /\ SwapOK(transfers'[x], debts'[x], userTxs'[x], smgTxs'[x], debtTxs'[x], deals'[x])
  /\ Moves(deals[x], deals'[x])

LEMMA StepAtKeeps ==
  ASSUME CrossInv, NEW x \in XHashes, StepAt(x)
  PROVE  CrossInv'
BY DEF CrossInv, SwapsOK, StepAt

LEMMA PhaseIs ==
  ASSUME NEW x, NEW d, d = deals[x]
  PROVE  Phase(x) = PhaseOf(d)
<1>1. NoDeal.first = "none"
  BY DEF NoDeal
<1>2. /\ d = NoDeal => d.first # "redeemed" /\ d.first # "revoked"
      /\ d.first = "redeemed" => d.first # "revoked"
  BY <1>1
<1>3. CASE d = NoDeal
  BY <1>2, <1>3, Zenon DEF Phase, PhaseOf
<1>4. CASE d # NoDeal /\ d.first = "redeemed"
  BY <1>2, <1>4, Zenon DEF Phase, PhaseOf
<1>5. CASE d # NoDeal /\ d.first = "revoked"
  BY <1>2, <1>5, Zenon DEF Phase, PhaseOf
<1>6. CASE d # NoDeal /\ d.first # "redeemed" /\ d.first # "revoked"
  BY <1>6, Zenon DEF Phase, PhaseOf
<1> QED
  BY <1>3, <1>4, <1>5, <1>6

LEMMA PhasesAre ==
  [y \in XHashes |-> Phase(y)] = [y \in XHashes |-> PhaseOf(deals[y])]
<1>1. \A y \in XHashes : Phase(y) = PhaseOf(deals[y])
  BY PhaseIs
<1> QED
  BY <1>1

LEMMA PhasesBecome ==
  ([y \in XHashes |-> Phase(y)])' = [y \in XHashes |-> PhaseOf(deals'[y])]
<1>1. ([y \in XHashes |-> Phase(y)] = [y \in XHashes |-> PhaseOf(deals[y])])'
  BY PhasesAre, PTL
<1> QED
  BY <1>1

LEMMA StepAtMoves ==
  ASSUME CrossInv, NEW x \in XHashes, StepAt(x)
  PROVE  [Swap!Next]_([y \in XHashes |-> Phase(y)])
<1> DEFINE phase == [y \in XHashes |-> Phase(y)]
           nphase == [y \in XHashes |-> PhaseOf(deals'[y])]
<1>1. phase = [y \in XHashes |-> PhaseOf(deals[y])]
  BY PhasesAre
<1>2. ([y \in XHashes |-> Phase(y)])' = nphase
  BY PhasesBecome
<1>3. \A y \in XHashes \ {x} : nphase[y] = phase[y]
  BY <1>1 DEF StepAt
<1>4. nphase = [phase EXCEPT ![x] = PhaseOf(deals'[x])]
  <2>1. \A y \in XHashes : nphase[y] = [phase EXCEPT ![x] = PhaseOf(deals'[x])][y]
    BY <1>1, <1>3
  <2> QED
    BY <2>1
<1>5. /\ phase[x] = PhaseOf(deals[x])
      /\ Moves(deals[x], deals'[x])
  BY <1>1 DEF StepAt
<1>6. CASE PhaseOf(deals'[x]) = PhaseOf(deals[x])
  <2>1. nphase = phase
    BY <1>1, <1>4, <1>5, <1>6
  <2> QED
    BY <1>2, <2>1
<1>7. CASE PhaseOf(deals'[x]) # PhaseOf(deals[x])
  <2>1. Swap!Open(x) \/ Swap!Pay(x) \/ Swap!Settle(x) \/ Swap!Cancel(x)
    BY <1>2, <1>4, <1>5, <1>7
    DEF Moves, Swap!Open, Swap!Pay, Swap!Settle, Swap!Cancel, Swap!Goes
  <2> QED
    BY <2>1 DEF Swap!Next
<1> QED
  BY <1>6, <1>7

(* The new entries of hash x. *)
Changes(x, tr, de, ut, st, dt, d) ==
  /\ transfers' = [transfers EXCEPT ![x] = tr] /\ debts' = [debts EXCEPT ![x] = de]
  /\ userTxs' = [userTxs EXCEPT ![x] = ut] /\ smgTxs' = [smgTxs EXCEPT ![x] = st]
  /\ debtTxs' = [debtTxs EXCEPT ![x] = dt] /\ deals' = [deals EXCEPT ![x] = d]

LEMMA ChangesStep ==
  ASSUME CrossInv, NEW x \in XHashes,
         NEW tr, NEW de, NEW ut, NEW st, NEW dt, NEW d,
         Changes(x, tr, de, ut, st, dt, d), SwapOK(tr, de, ut, st, dt, d), Moves(deals[x], d)
  PROVE  StepAt(x)
<1>1. /\ tr \in Transfers /\ de \in Debts /\ ut \in UserTxs /\ st \in SmgTxs
      /\ dt \in DebtTxs /\ d \in Deals \cup {NoDeal}
  BY DEF SwapOK
<1>2. /\ transfers'[x] = tr /\ debts'[x] = de /\ userTxs'[x] = ut /\ smgTxs'[x] = st
      /\ debtTxs'[x] = dt /\ deals'[x] = d
  BY DEF Changes, CrossInv, Tables
<1>3. Tables'
  BY <1>1 DEF Changes, CrossInv, Tables
<1>4. \A y \in XHashes \ {x} :
        /\ transfers'[y] = transfers[y] /\ debts'[y] = debts[y]
        /\ userTxs'[y] = userTxs[y] /\ smgTxs'[y] = smgTxs[y] /\ debtTxs'[y] = debtTxs[y]
        /\ deals'[y] = deals[y]
  BY DEF Changes, CrossInv, Tables
<1> QED
  BY <1>2, <1>3, <1>4 DEF StepAt

(* A table that a step leaves alone. *)
LEMMA Same ==
  ASSUME CrossInv, NEW x \in XHashes
  PROVE  /\ transfers = [transfers EXCEPT ![x] = transfers[x]]
         /\ debts = [debts EXCEPT ![x] = debts[x]]
         /\ userTxs = [userTxs EXCEPT ![x] = userTxs[x]]
         /\ smgTxs = [smgTxs EXCEPT ![x] = smgTxs[x]]
         /\ debtTxs = [debtTxs EXCEPT ![x] = debtTxs[x]]
BY DEF CrossInv, Tables

LEMMA Shapes ==
  /\ \A d \in Deals : d # NoDeal
  /\ NoDeal.first = "none"
  /\ NoRow \notin Eos!TransferRow /\ NoRow \notin Eos!DebtRow
  /\ Wan!NoTx.status = "None"
  /\ LockedTime \in Nat \ {0} /\ Amounts \subseteq Nat
BY CrossConstants DEF Deals, UserDeal, DebtDeal, NoDeal, CrossConstants, Eos!EosConstants,
   Eos!TransferRow, Eos!DebtRow, Wan!NoTx

LEMMA TimesAreInt ==
  ASSUME CrossInv, NEW x \in XHashes
  PROVE  /\ transfers[x] # NoRow => transfers[x].timeLeft \in Int
         /\ debts[x] # NoRow => debts[x].timeLeft \in Int
         /\ userTxs[x].status = "Locked" => userTxs[x].timeLeft \in Int
         /\ smgTxs[x].status = "Locked" => smgTxs[x].timeLeft \in Int
         /\ debtTxs[x].status = "Locked" => debtTxs[x].timeLeft \in Int
<1>1. SwapOK(transfers[x], debts[x], userTxs[x], smgTxs[x], debtTxs[x], deals[x])
  BY DEF CrossInv, SwapsOK
<1>2. /\ Eos!Expired..2 * LockedTime \in SUBSET Int
      /\ 0..2 * LockedTime \in SUBSET Int
  BY Shapes DEF Eos!Expired
<1> QED
  BY <1>1, <1>2, Shapes DEF SwapOK, Transfers, Debts, UserTxs, SmgTxs, DebtTxs,
     Eos!TransferRow, Eos!DebtRow, Wan!UserTx, Wan!SmgTx, Wan!DebtTx, Wan!TimeLeft

-----------------------------------------------------------------------------
(* Inbound *)

LEMMA OpenInboundStep ==
  ASSUME CrossInv, NEW u \in Users, NEW t \in Tokens, NEW v \in Amounts, NEW x \in XHashes,
         NEW p \in Storemen, OpenInbound(u, t, v, x, p)
  PROVE  StepAt(x)
<1>a. PICK pid \in Eos!Pids :
        transfers' = [transfers EXCEPT ![x] =
          [status |-> "inlock", user |-> u, pid |-> pid, token |-> t,
           quantity |-> v, timeLeft |-> 2 * LockedTime]]
  BY DEF OpenInbound, OnEos, Eos!Inlock
<1> DEFINE d == deals[x]
           nd == Deal("inbound", u, p, t, v)
           row == [status |-> "inlock", user |-> u, pid |-> pid, token |-> t,
                   quantity |-> v, timeLeft |-> 2 * LockedTime]
<1>1. d = NoDeal /\ transfers[x] = NoRow
  BY DEF OpenInbound, Start, OnEos, Eos!Inlock
<1>2. Changes(x, row, debts[x], userTxs[x], smgTxs[x], debtTxs[x], nd)
  <2>1. /\ transfers' = [transfers EXCEPT ![x] = row] /\ deals' = [deals EXCEPT ![x] = nd]
        /\ UNCHANGED <<debts, userTxs, smgTxs, debtTxs>>
    BY <1>a DEF OpenInbound, Start, OnEos, Eos!Inlock, wanVars
  <2> QED
    BY <2>1, Same DEF Changes
<1>3. SwapOK(transfers[x], debts[x], userTxs[x], smgTxs[x], debtTxs[x], d)
  BY DEF CrossInv, SwapsOK
<1>5. /\ row \in Eos!TransferRow /\ nd \in UserDeal
      /\ nd.kind = "inbound" /\ nd.first = "locked" /\ nd.second = "none"
      /\ nd.from = u /\ nd.to = p /\ nd.token = t /\ nd.value = v
  BY <1>1, Shapes DEF UserDeal, Eos!TransferRow, Eos!Expired, Deal
<1>6. SwapOK(row, debts[x], userTxs[x], smgTxs[x], debtTxs[x], nd)
  <2> HIDE DEF nd
  <2>1. LegsAgree(row, debts[x], userTxs[x], smgTxs[x], debtTxs[x], nd)
    BY <1>1, <1>3, <1>5, Shapes
    DEF SwapOK, LegsAgree, FirstOpen, SecondOpen, IsInlock, IsOutlock, Deals
  <2>2. LegsInTime(row, debts[x], userTxs[x], smgTxs[x], debtTxs[x], nd)
    BY <1>1, <1>3, <1>5, Shapes, TimesAreInt
    DEF SwapOK, LegsInTime, LegsAgree, FirstOpen, SecondOpen, Revealed, IsInlock, IsOutlock, Deals
  <2>3. TermsAgree(row, debts[x], userTxs[x], smgTxs[x], debtTxs[x], nd)
    BY <1>1, <1>3, <1>5, Shapes
    DEF SwapOK, TermsAgree, LegsAgree, FirstOpen, SecondOpen, IsInlock, IsOutlock, Deals
  <2> QED
    BY <1>3, <1>5, <2>1, <2>2, <2>3 DEF SwapOK, Transfers, Deals
<1>7. Moves(d, nd)
  <2> HIDE DEF nd
  <2> QED
    BY <1>1, <1>5, Shapes DEF Moves, PhaseOf, Deals
<1> QED
  BY <1>2, <1>6, <1>7, ChangesStep

LEMMA AnswerInboundStep ==
  ASSUME CrossInv, NEW x \in XHashes, AnswerInbound(x)
  PROVE  StepAt(x)
<1> DEFINE d == deals[x]
           nd == [d EXCEPT !.second = "locked"]
           row == [status |-> "Locked", value |-> d.value, storeman |-> d.to, token |-> d.token,
                   user |-> d.from, timeLeft |-> LockedTime]
<1>1. /\ d \in Deals /\ d.kind = "inbound" /\ d.first = "locked" /\ d.second = "none"
      /\ transfers[x].timeLeft > LockedTime /\ smgTxs[x] = Wan!NoTx
  BY DEF AnswerInbound, Unanswered, IsOpen, Outlasts, Second, CrossInv, Tables, OnWan, Wan!InSmgLock
<1>2. Changes(x, transfers[x], debts[x], userTxs[x], row, debtTxs[x], nd)
  <2>1. /\ smgTxs' = [smgTxs EXCEPT ![x] = row] /\ deals' = [deals EXCEPT ![x] = nd]
        /\ UNCHANGED <<transfers, debts, userTxs, debtTxs>>
    BY DEF AnswerInbound, Second, OnWan, Wan!InSmgLock, eosVars, Wan!SmgLockTime
  <2> QED
    BY <2>1, Same DEF Changes
<1>3. SwapOK(transfers[x], debts[x], userTxs[x], smgTxs[x], debtTxs[x], d)
  BY DEF CrossInv, SwapsOK
<1>4. d \in UserDeal
  BY <1>1 DEF Deals, DebtDeal
<1>5. /\ row \in Wan!SmgTx /\ nd \in UserDeal
      /\ nd.kind = "inbound" /\ nd.first = "locked" /\ nd.second = "locked"
      /\ nd.from = d.from /\ nd.to = d.to /\ nd.token = d.token /\ nd.value = d.value
  BY <1>1, <1>4, Shapes DEF UserDeal, Wan!SmgTx, Wan!Status, Wan!TimeLeft
<1>6. SwapOK(transfers[x], debts[x], userTxs[x], row, debtTxs[x], nd)
  <2> HIDE DEF nd
  <2>1. LegsAgree(transfers[x], debts[x], userTxs[x], row, debtTxs[x], nd)
    BY <1>1, <1>3, <1>4, <1>5, Shapes
    DEF SwapOK, LegsAgree, FirstOpen, SecondOpen, IsInlock, IsOutlock, Deals
  <2>2. LegsInTime(transfers[x], debts[x], userTxs[x], row, debtTxs[x], nd)
    BY <1>1, <1>3, <1>4, <1>5, Shapes, TimesAreInt
    DEF SwapOK, LegsInTime, LegsAgree, FirstOpen, SecondOpen, Revealed, IsInlock, IsOutlock, Deals
  <2>3. TermsAgree(transfers[x], debts[x], userTxs[x], row, debtTxs[x], nd)
    BY <1>1, <1>3, <1>4, <1>5, Shapes
    DEF SwapOK, TermsAgree, LegsAgree, FirstOpen, SecondOpen, IsInlock, IsOutlock, Deals
  <2> QED
    BY <1>3, <1>5, <2>1, <2>2, <2>3 DEF SwapOK, SmgTxs, Deals
<1>7. Moves(d, nd)
  <2> HIDE DEF nd
  <2> QED
    BY <1>1, <1>4, <1>5, Shapes DEF Moves, PhaseOf, Deals
<1> QED
  BY <1>2, <1>6, <1>7, ChangesStep

LEMMA TakeInboundStep ==
  ASSUME CrossInv, NEW x \in XHashes, TakeInbound(x)
  PROVE  StepAt(x)
<1> DEFINE d == deals[x]
           nd == [d EXCEPT !.second = "redeemed"]
           row == [smgTxs[x] EXCEPT !.status = "Redeemed"]
<1>1. d \in Deals /\ smgTxs[x].status = "Locked" /\ smgTxs[x].timeLeft > 0
  BY DEF TakeInbound, Second, OnWan, Wan!InUserRedeem, CrossInv, Tables, Wan!IsLocked, Wan!InTime
<1>2. Changes(x, transfers[x], debts[x], userTxs[x], row, debtTxs[x], nd)
  <2>1. /\ smgTxs' = [smgTxs EXCEPT ![x] = row] /\ deals' = [deals EXCEPT ![x] = nd]
        /\ UNCHANGED <<transfers, debts, userTxs, debtTxs>>
    BY DEF TakeInbound, Second, OnWan, Wan!InUserRedeem, eosVars, Wan!Close
  <2> QED
    BY <2>1, Same DEF Changes
<1>3. SwapOK(transfers[x], debts[x], userTxs[x], smgTxs[x], debtTxs[x], d)
  BY DEF CrossInv, SwapsOK
<1>4. /\ d.kind = "inbound" /\ d.second = "locked" /\ d \in UserDeal
  BY <1>1, <1>3 DEF SwapOK, LegsAgree, FirstOpen, SecondOpen, Deals, DebtDeal
<1>5. /\ nd \in UserDeal /\ nd.kind = "inbound"
      /\ nd.second = "redeemed" /\ nd.first = d.first
      /\ nd.from = d.from /\ nd.to = d.to /\ nd.token = d.token /\ nd.value = d.value
      /\ row \in Wan!SmgTx /\ row.status = "Redeemed"
  BY <1>1, <1>3, <1>4, Shapes DEF UserDeal, SwapOK, SmgTxs, Wan!SmgTx, Wan!Status, Wan!TimeLeft
<1>6. SwapOK(transfers[x], debts[x], userTxs[x], row, debtTxs[x], nd)
  <2> HIDE DEF nd, row
  <2>1. LegsAgree(transfers[x], debts[x], userTxs[x], row, debtTxs[x], nd)
    BY <1>1, <1>3, <1>4, <1>5, Shapes
    DEF SwapOK, LegsAgree, FirstOpen, SecondOpen, IsInlock, IsOutlock, Deals
  <2>2. LegsInTime(transfers[x], debts[x], userTxs[x], row, debtTxs[x], nd)
    BY <1>1, <1>3, <1>4, <1>5, Shapes, TimesAreInt
    DEF SwapOK, LegsInTime, LegsAgree, FirstOpen, SecondOpen, Revealed, IsInlock, IsOutlock, Deals
  <2>3. TermsAgree(transfers[x], debts[x], userTxs[x], row, debtTxs[x], nd)
    BY <1>1, <1>3, <1>4, <1>5, Shapes
    DEF SwapOK, TermsAgree, LegsAgree, FirstOpen, SecondOpen, IsInlock, IsOutlock, Deals
  <2> QED
    BY <1>3, <1>5, <2>1, <2>2, <2>3 DEF SwapOK, SmgTxs, Deals
<1>7. Moves(d, nd)
  <2>1. d.first = "locked"
    BY <1>1, <1>3, <1>4, Shapes DEF SwapOK, LegsInTime, FirstOpen, SecondOpen, Deals
  <2> HIDE DEF nd
  <2> QED
    BY <1>1, <1>4, <1>5, <2>1, Shapes DEF Moves, PhaseOf, Deals
<1> QED
  BY <1>2, <1>6, <1>7, ChangesStep

LEMMA SettleInboundStep ==
  ASSUME CrossInv, NEW x \in XHashes, SettleInbound(x)
  PROVE  StepAt(x)
<1> DEFINE d == deals[x]
           nd == [d EXCEPT !.first = "redeemed"]
<1>1. d \in Deals /\ IsInlock(transfers[x]) /\ d.second = "redeemed"
  BY DEF SettleInbound, First, OnEos, Eos!Inredeem, CrossInv, Tables, IsInlock, Public
<1>2. Changes(x, NoRow, debts[x], userTxs[x], smgTxs[x], debtTxs[x], nd)
  <2>1. /\ transfers' = [transfers EXCEPT ![x] = NoRow] /\ deals' = [deals EXCEPT ![x] = nd]
        /\ UNCHANGED <<debts, userTxs, smgTxs, debtTxs>>
    BY DEF SettleInbound, First, OnEos, Eos!Inredeem, wanVars
  <2> QED
    BY <2>1, Same DEF Changes
<1>3. SwapOK(transfers[x], debts[x], userTxs[x], smgTxs[x], debtTxs[x], d)
  BY DEF CrossInv, SwapsOK
<1>4. /\ d.kind = "inbound" /\ d.first = "locked" /\ d \in UserDeal
  BY <1>1, <1>3 DEF SwapOK, LegsAgree, FirstOpen, SecondOpen, Deals, DebtDeal
<1>5. /\ nd \in UserDeal /\ nd.kind = "inbound"
      /\ nd.first = "redeemed" /\ nd.second = d.second
      /\ nd.from = d.from /\ nd.to = d.to /\ nd.token = d.token /\ nd.value = d.value
  BY <1>1, <1>3, <1>4, Shapes DEF UserDeal
<1>6. SwapOK(NoRow, debts[x], userTxs[x], smgTxs[x], debtTxs[x], nd)
  <2> HIDE DEF nd
  <2>1. LegsAgree(NoRow, debts[x], userTxs[x], smgTxs[x], debtTxs[x], nd)
    BY <1>1, <1>3, <1>4, <1>5, Shapes
    DEF SwapOK, LegsAgree, FirstOpen, SecondOpen, IsInlock, IsOutlock, Deals
  <2>2. LegsInTime(NoRow, debts[x], userTxs[x], smgTxs[x], debtTxs[x], nd)
    BY <1>1, <1>3, <1>4, <1>5, Shapes, TimesAreInt
    DEF SwapOK, LegsInTime, LegsAgree, FirstOpen, SecondOpen, Revealed, IsInlock, IsOutlock, Deals
  <2>3. TermsAgree(NoRow, debts[x], userTxs[x], smgTxs[x], debtTxs[x], nd)
    BY <1>1, <1>3, <1>4, <1>5, Shapes
    DEF SwapOK, TermsAgree, LegsAgree, FirstOpen, SecondOpen, IsInlock, IsOutlock, Deals
  <2> QED
    BY <1>3, <1>5, <2>1, <2>2, <2>3 DEF SwapOK, Transfers, Deals
<1>7. Moves(d, nd)
  <2> HIDE DEF nd
  <2> QED
    BY <1>1, <1>4, <1>5, Shapes DEF Moves, PhaseOf, Deals
<1> QED
  BY <1>2, <1>6, <1>7, ChangesStep

LEMMA CancelInboundStep ==
  ASSUME CrossInv, NEW x \in XHashes, CancelInbound(x)
  PROVE  StepAt(x)
<1> DEFINE d == deals[x]
           nd == [d EXCEPT !.first = "revoked"]
<1>1. d \in Deals /\ IsInlock(transfers[x]) /\ transfers[x].timeLeft < 0
  BY DEF CancelInbound, First, OnEos, Eos!Inrevoke, CrossInv, Tables, IsInlock, Eos!Lapsed
<1>2. Changes(x, NoRow, debts[x], userTxs[x], smgTxs[x], debtTxs[x], nd)
  <2>1. /\ transfers' = [transfers EXCEPT ![x] = NoRow] /\ deals' = [deals EXCEPT ![x] = nd]
        /\ UNCHANGED <<debts, userTxs, smgTxs, debtTxs>>
    BY DEF CancelInbound, First, OnEos, Eos!Inrevoke, wanVars
  <2> QED
    BY <2>1, Same DEF Changes
<1>3. SwapOK(transfers[x], debts[x], userTxs[x], smgTxs[x], debtTxs[x], d)
  BY DEF CrossInv, SwapsOK
<1>4. /\ d.kind = "inbound" /\ d.first = "locked" /\ d \in UserDeal
  BY <1>1, <1>3 DEF SwapOK, LegsAgree, FirstOpen, SecondOpen, Deals, DebtDeal
<1>5. /\ nd \in UserDeal /\ nd.kind = "inbound"
      /\ nd.first = "revoked" /\ nd.second = d.second
      /\ nd.from = d.from /\ nd.to = d.to /\ nd.token = d.token /\ nd.value = d.value
  BY <1>1, <1>3, <1>4, Shapes DEF UserDeal
<1>6. SwapOK(NoRow, debts[x], userTxs[x], smgTxs[x], debtTxs[x], nd)
  <2> HIDE DEF nd
  <2>1. LegsAgree(NoRow, debts[x], userTxs[x], smgTxs[x], debtTxs[x], nd)
    BY <1>1, <1>3, <1>4, <1>5, Shapes
    DEF SwapOK, LegsAgree, FirstOpen, SecondOpen, IsInlock, IsOutlock, Deals
  <2>2. LegsInTime(NoRow, debts[x], userTxs[x], smgTxs[x], debtTxs[x], nd)
    BY <1>1, <1>3, <1>4, <1>5, Shapes, TimesAreInt
    DEF SwapOK, LegsInTime, LegsAgree, FirstOpen, SecondOpen, Revealed, IsInlock, IsOutlock, Deals
  <2>3. TermsAgree(NoRow, debts[x], userTxs[x], smgTxs[x], debtTxs[x], nd)
    BY <1>1, <1>3, <1>4, <1>5, Shapes
    DEF SwapOK, TermsAgree, LegsAgree, FirstOpen, SecondOpen, IsInlock, IsOutlock, Deals
  <2> QED
    BY <1>3, <1>5, <2>1, <2>2, <2>3 DEF SwapOK, Transfers, Deals
<1>7. Moves(d, nd)
  <2>1. d.second # "redeemed"
    BY <1>1, <1>3, <1>4, Shapes, TimesAreInt
    DEF SwapOK, LegsInTime, FirstOpen, Revealed, IsInlock, Deals
  <2> HIDE DEF nd
  <2> QED
    BY <1>1, <1>4, <1>5, <2>1, Shapes DEF Moves, PhaseOf, Deals
<1> QED
  BY <1>2, <1>6, <1>7, ChangesStep

LEMMA WithdrawInboundStep ==
  ASSUME CrossInv, NEW x \in XHashes, WithdrawInbound(x)
  PROVE  StepAt(x)
<1> DEFINE d == deals[x]
           nd == [d EXCEPT !.second = "revoked"]
           row == [smgTxs[x] EXCEPT !.status = "Revoked"]
<1>1. d \in Deals /\ smgTxs[x].status = "Locked"
  BY DEF WithdrawInbound, Second, OnWan, Wan!InSmgRevoke, CrossInv, Tables, Wan!IsLocked
<1>2. Changes(x, transfers[x], debts[x], userTxs[x], row, debtTxs[x], nd)
  <2>1. /\ smgTxs' = [smgTxs EXCEPT ![x] = row] /\ deals' = [deals EXCEPT ![x] = nd]
        /\ UNCHANGED <<transfers, debts, userTxs, debtTxs>>
    BY DEF WithdrawInbound, Second, OnWan, Wan!InSmgRevoke, eosVars, Wan!Close
  <2> QED
    BY <2>1, Same DEF Changes
<1>3. SwapOK(transfers[x], debts[x], userTxs[x], smgTxs[x], debtTxs[x], d)
  BY DEF CrossInv, SwapsOK
<1>4. /\ d.kind = "inbound" /\ d.second = "locked" /\ d \in UserDeal
  BY <1>1, <1>3 DEF SwapOK, LegsAgree, FirstOpen, SecondOpen, Deals, DebtDeal
<1>5. /\ nd \in UserDeal /\ nd.kind = "inbound"
      /\ nd.second = "revoked" /\ nd.first = d.first
      /\ nd.from = d.from /\ nd.to = d.to /\ nd.token = d.token /\ nd.value = d.value
      /\ row \in Wan!SmgTx /\ row.status = "Revoked"
  BY <1>1, <1>3, <1>4, Shapes DEF UserDeal, SwapOK, SmgTxs, Wan!SmgTx, Wan!Status, Wan!TimeLeft
<1>6. SwapOK(transfers[x], debts[x], userTxs[x], row, debtTxs[x], nd)
  <2> HIDE DEF nd, row
  <2>1. LegsAgree(transfers[x], debts[x], userTxs[x], row, debtTxs[x], nd)
    BY <1>1, <1>3, <1>4, <1>5, Shapes
    DEF SwapOK, LegsAgree, FirstOpen, SecondOpen, IsInlock, IsOutlock, Deals
  <2>2. LegsInTime(transfers[x], debts[x], userTxs[x], row, debtTxs[x], nd)
    BY <1>1, <1>3, <1>4, <1>5, Shapes, TimesAreInt
    DEF SwapOK, LegsInTime, LegsAgree, FirstOpen, SecondOpen, Revealed, IsInlock, IsOutlock, Deals
  <2>3. TermsAgree(transfers[x], debts[x], userTxs[x], row, debtTxs[x], nd)
    BY <1>1, <1>3, <1>4, <1>5, Shapes
    DEF SwapOK, TermsAgree, LegsAgree, FirstOpen, SecondOpen, IsInlock, IsOutlock, Deals
  <2> QED
    BY <1>3, <1>5, <2>1, <2>2, <2>3 DEF SwapOK, SmgTxs, Deals
<1>7. Moves(d, nd)
  <2> HIDE DEF nd
  <2> QED
    BY <1>1, <1>4, <1>5, Shapes DEF Moves, PhaseOf, Deals
<1> QED
  BY <1>2, <1>6, <1>7, ChangesStep

-----------------------------------------------------------------------------
(* Outbound *)

LEMMA OpenOutboundStep ==
  ASSUME CrossInv, NEW u \in Users, NEW t \in Tokens, NEW v \in Amounts, NEW x \in XHashes,
         NEW p \in Storemen, OpenOutbound(u, t, v, x, p)
  PROVE  StepAt(x)
<1> DEFINE d == deals[x]
           nd == Deal("outbound", u, p, t, v)
           row == [status |-> "Locked", value |-> v, storeman |-> p, token |-> t,
                   sender |-> u, timeLeft |-> 2 * LockedTime]
<1>1. d = NoDeal /\ userTxs[x] = Wan!NoTx
  BY DEF OpenOutbound, Start, OnWan, Wan!OutUserLock
<1>2. Changes(x, transfers[x], debts[x], row, smgTxs[x], debtTxs[x], nd)
  <2>1. /\ userTxs' = [userTxs EXCEPT ![x] = row] /\ deals' = [deals EXCEPT ![x] = nd]
        /\ UNCHANGED <<transfers, debts, smgTxs, debtTxs>>
    BY DEF OpenOutbound, Start, OnWan, Wan!OutUserLock, eosVars, Wan!UserLockTime
  <2> QED
    BY <2>1, Same DEF Changes
<1>3. SwapOK(transfers[x], debts[x], userTxs[x], smgTxs[x], debtTxs[x], d)
  BY DEF CrossInv, SwapsOK
<1>5. /\ row \in Wan!UserTx /\ nd \in UserDeal
      /\ nd.kind = "outbound" /\ nd.first = "locked" /\ nd.second = "none"
      /\ nd.from = u /\ nd.to = p /\ nd.token = t /\ nd.value = v
  BY <1>1, Shapes DEF UserDeal, Wan!UserTx, Wan!Status, Wan!TimeLeft, Deal
<1>6. SwapOK(transfers[x], debts[x], row, smgTxs[x], debtTxs[x], nd)
  <2> HIDE DEF nd
  <2>1. LegsAgree(transfers[x], debts[x], row, smgTxs[x], debtTxs[x], nd)
    BY <1>1, <1>3, <1>5, Shapes
    DEF SwapOK, LegsAgree, FirstOpen, SecondOpen, IsInlock, IsOutlock, Deals
  <2>2. LegsInTime(transfers[x], debts[x], row, smgTxs[x], debtTxs[x], nd)
    BY <1>1, <1>3, <1>5, Shapes, TimesAreInt
    DEF SwapOK, LegsInTime, LegsAgree, FirstOpen, SecondOpen, Revealed, IsInlock, IsOutlock, Deals
  <2>3. TermsAgree(transfers[x], debts[x], row, smgTxs[x], debtTxs[x], nd)
    BY <1>1, <1>3, <1>5, Shapes
    DEF SwapOK, TermsAgree, LegsAgree, FirstOpen, SecondOpen, IsInlock, IsOutlock, Deals
  <2> QED
    BY <1>3, <1>5, <2>1, <2>2, <2>3 DEF SwapOK, UserTxs, Deals
<1>7. Moves(d, nd)
  <2> HIDE DEF nd
  <2> QED
    BY <1>1, <1>5, Shapes DEF Moves, PhaseOf, Deals
<1> QED
  BY <1>2, <1>6, <1>7, ChangesStep

LEMMA AnswerOutboundStep ==
  ASSUME CrossInv, NEW x \in XHashes, AnswerOutbound(x)
  PROVE  StepAt(x)
<1> DEFINE d == deals[x]
<1>a. PICK pid \in Eos!Pids :
        transfers' = [transfers EXCEPT ![x] =
          [status |-> "outlock", user |-> d.from, pid |-> pid, token |-> d.token,
           quantity |-> d.value, timeLeft |-> LockedTime]]
  BY DEF AnswerOutbound, OnEos, Eos!Outlock
<1> DEFINE nd == [d EXCEPT !.second = "locked"]
           row == [status |-> "outlock", user |-> d.from, pid |-> pid, token |-> d.token,
                   quantity |-> d.value, timeLeft |-> LockedTime]
<1>1. /\ d \in Deals /\ d.kind = "outbound" /\ d.first = "locked" /\ d.second = "none"
      /\ userTxs[x].timeLeft > LockedTime /\ transfers[x] = NoRow
  BY DEF AnswerOutbound, Unanswered, IsOpen, Outlasts, Second, CrossInv, Tables, OnEos, Eos!Outlock
<1>2. Changes(x, row, debts[x], userTxs[x], smgTxs[x], debtTxs[x], nd)
  <2>1. /\ transfers' = [transfers EXCEPT ![x] = row] /\ deals' = [deals EXCEPT ![x] = nd]
        /\ UNCHANGED <<debts, userTxs, smgTxs, debtTxs>>
    BY <1>a DEF AnswerOutbound, Second, OnEos, Eos!Outlock, wanVars
  <2> QED
    BY <2>1, Same DEF Changes
<1>3. SwapOK(transfers[x], debts[x], userTxs[x], smgTxs[x], debtTxs[x], d)
  BY DEF CrossInv, SwapsOK
<1>4. d \in UserDeal
  BY <1>1 DEF Deals, DebtDeal
<1>5. /\ row \in Eos!TransferRow /\ nd \in UserDeal
      /\ nd.kind = "outbound" /\ nd.first = "locked" /\ nd.second = "locked"
      /\ nd.from = d.from /\ nd.to = d.to /\ nd.token = d.token /\ nd.value = d.value
  BY <1>1, <1>4, Shapes DEF UserDeal, Eos!TransferRow, Eos!Expired
<1>6. SwapOK(row, debts[x], userTxs[x], smgTxs[x], debtTxs[x], nd)
  <2> HIDE DEF nd
  <2>1. LegsAgree(row, debts[x], userTxs[x], smgTxs[x], debtTxs[x], nd)
    BY <1>1, <1>3, <1>4, <1>5, Shapes
    DEF SwapOK, LegsAgree, FirstOpen, SecondOpen, IsInlock, IsOutlock, Deals
  <2>2. LegsInTime(row, debts[x], userTxs[x], smgTxs[x], debtTxs[x], nd)
    BY <1>1, <1>3, <1>4, <1>5, Shapes, TimesAreInt
    DEF SwapOK, LegsInTime, LegsAgree, FirstOpen, SecondOpen, Revealed, IsInlock, IsOutlock, Deals
  <2>3. TermsAgree(row, debts[x], userTxs[x], smgTxs[x], debtTxs[x], nd)
    BY <1>1, <1>3, <1>4, <1>5, Shapes
    DEF SwapOK, TermsAgree, LegsAgree, FirstOpen, SecondOpen, IsInlock, IsOutlock, Deals
  <2> QED
    BY <1>3, <1>5, <2>1, <2>2, <2>3 DEF SwapOK, Transfers, Deals
<1>7. Moves(d, nd)
  <2> HIDE DEF nd
  <2> QED
    BY <1>1, <1>4, <1>5, Shapes DEF Moves, PhaseOf, Deals
<1> QED
  BY <1>2, <1>6, <1>7, ChangesStep

LEMMA TakeOutboundStep ==
  ASSUME CrossInv, NEW x \in XHashes, TakeOutbound(x)
  PROVE  StepAt(x)
<1> DEFINE d == deals[x]
           nd == [d EXCEPT !.second = "redeemed"]
<1>1. d \in Deals /\ IsOutlock(transfers[x]) /\ transfers[x].timeLeft >= 0
  BY DEF TakeOutbound, Second, OnEos, Eos!Outredeem, CrossInv, Tables, IsOutlock, Eos!InTime
<1>2. Changes(x, NoRow, debts[x], userTxs[x], smgTxs[x], debtTxs[x], nd)
  <2>1. /\ transfers' = [transfers EXCEPT ![x] = NoRow] /\ deals' = [deals EXCEPT ![x] = nd]
        /\ UNCHANGED <<debts, userTxs, smgTxs, debtTxs>>
    BY DEF TakeOutbound, Second, OnEos, Eos!Outredeem, wanVars
  <2> QED
    BY <2>1, Same DEF Changes
<1>3. SwapOK(transfers[x], debts[x], userTxs[x], smgTxs[x], debtTxs[x], d)
  BY DEF CrossInv, SwapsOK
<1>4. /\ d.kind = "outbound" /\ d.second = "locked" /\ d \in UserDeal
  BY <1>1, <1>3 DEF SwapOK, LegsAgree, FirstOpen, SecondOpen, Deals, DebtDeal
<1>5. /\ nd \in UserDeal /\ nd.kind = "outbound"
      /\ nd.second = "redeemed" /\ nd.first = d.first
      /\ nd.from = d.from /\ nd.to = d.to /\ nd.token = d.token /\ nd.value = d.value
  BY <1>1, <1>3, <1>4, Shapes DEF UserDeal
<1>6. SwapOK(NoRow, debts[x], userTxs[x], smgTxs[x], debtTxs[x], nd)
  <2> HIDE DEF nd
  <2>1. LegsAgree(NoRow, debts[x], userTxs[x], smgTxs[x], debtTxs[x], nd)
    BY <1>1, <1>3, <1>4, <1>5, Shapes
    DEF SwapOK, LegsAgree, FirstOpen, SecondOpen, IsInlock, IsOutlock, Deals
  <2>2. LegsInTime(NoRow, debts[x], userTxs[x], smgTxs[x], debtTxs[x], nd)
    BY <1>1, <1>3, <1>4, <1>5, Shapes, TimesAreInt
    DEF SwapOK, LegsInTime, LegsAgree, FirstOpen, SecondOpen, Revealed, IsInlock, IsOutlock, Deals
  <2>3. TermsAgree(NoRow, debts[x], userTxs[x], smgTxs[x], debtTxs[x], nd)
    BY <1>1, <1>3, <1>4, <1>5, Shapes
    DEF SwapOK, TermsAgree, LegsAgree, FirstOpen, SecondOpen, IsInlock, IsOutlock, Deals
  <2> QED
    BY <1>3, <1>5, <2>1, <2>2, <2>3 DEF SwapOK, Transfers, Deals
<1>7. Moves(d, nd)
  <2>1. d.first = "locked"
    BY <1>1, <1>3, <1>4, Shapes DEF SwapOK, LegsInTime, FirstOpen, SecondOpen, Deals
  <2> HIDE DEF nd
  <2> QED
    BY <1>1, <1>4, <1>5, <2>1, Shapes DEF Moves, PhaseOf, Deals
<1> QED
  BY <1>2, <1>6, <1>7, ChangesStep

LEMMA SettleOutboundStep ==
  ASSUME CrossInv, NEW x \in XHashes, SettleOutbound(x)
  PROVE  StepAt(x)
<1> DEFINE d == deals[x]
           nd == [d EXCEPT !.first = "redeemed"]
           row == [userTxs[x] EXCEPT !.status = "Redeemed"]
<1>1. d \in Deals /\ userTxs[x].status = "Locked" /\ d.second = "redeemed"
  BY DEF SettleOutbound, First, OnWan, Wan!OutSmgRedeem, CrossInv, Tables, Wan!IsLocked, Public
<1>2. Changes(x, transfers[x], debts[x], row, smgTxs[x], debtTxs[x], nd)
  <2>1. /\ userTxs' = [userTxs EXCEPT ![x] = row] /\ deals' = [deals EXCEPT ![x] = nd]
        /\ UNCHANGED <<transfers, debts, smgTxs, debtTxs>>
    BY DEF SettleOutbound, First, OnWan, Wan!OutSmgRedeem, eosVars, Wan!Close
  <2> QED
    BY <2>1, Same DEF Changes
<1>3. SwapOK(transfers[x], debts[x], userTxs[x], smgTxs[x], debtTxs[x], d)
  BY DEF CrossInv, SwapsOK
<1>4. /\ d.kind = "outbound" /\ d.first = "locked" /\ d \in UserDeal
  BY <1>1, <1>3 DEF SwapOK, LegsAgree, FirstOpen, SecondOpen, Deals, DebtDeal
<1>5. /\ nd \in UserDeal /\ nd.kind = "outbound"
      /\ nd.first = "redeemed" /\ nd.second = d.second
      /\ nd.from = d.from /\ nd.to = d.to /\ nd.token = d.token /\ nd.value = d.value
      /\ row \in Wan!UserTx /\ row.status = "Redeemed"
  BY <1>1, <1>3, <1>4, Shapes
  DEF UserDeal, SwapOK, UserTxs, Wan!UserTx, Wan!Status, Wan!TimeLeft
<1>6. SwapOK(transfers[x], debts[x], row, smgTxs[x], debtTxs[x], nd)
  <2> HIDE DEF nd, row
  <2>1. LegsAgree(transfers[x], debts[x], row, smgTxs[x], debtTxs[x], nd)
    BY <1>1, <1>3, <1>4, <1>5, Shapes
    DEF SwapOK, LegsAgree, FirstOpen, SecondOpen, IsInlock, IsOutlock, Deals
  <2>2. LegsInTime(transfers[x], debts[x], row, smgTxs[x], debtTxs[x], nd)
    BY <1>1, <1>3, <1>4, <1>5, Shapes, TimesAreInt
    DEF SwapOK, LegsInTime, LegsAgree, FirstOpen, SecondOpen, Revealed, IsInlock, IsOutlock, Deals
  <2>3. TermsAgree(transfers[x], debts[x], row, smgTxs[x], debtTxs[x], nd)
    BY <1>1, <1>3, <1>4, <1>5, Shapes
    DEF SwapOK, TermsAgree, LegsAgree, FirstOpen, SecondOpen, IsInlock, IsOutlock, Deals
  <2> QED
    BY <1>3, <1>5, <2>1, <2>2, <2>3 DEF SwapOK, UserTxs, Deals
<1>7. Moves(d, nd)
  <2> HIDE DEF nd
  <2> QED
    BY <1>1, <1>4, <1>5, Shapes DEF Moves, PhaseOf, Deals
<1> QED
  BY <1>2, <1>6, <1>7, ChangesStep

LEMMA CancelOutboundStep ==
  ASSUME CrossInv, NEW x \in XHashes, CancelOutbound(x)
  PROVE  StepAt(x)
<1> DEFINE d == deals[x]
           nd == [d EXCEPT !.first = "revoked"]
           row == [userTxs[x] EXCEPT !.status = "Revoked"]
<1>1. d \in Deals /\ userTxs[x].status = "Locked" /\ userTxs[x].timeLeft = 0
  BY DEF CancelOutbound, First, OnWan, Wan!OutUserRevoke, CrossInv, Tables, Wan!IsLocked, Wan!Lapsed
<1>2. Changes(x, transfers[x], debts[x], row, smgTxs[x], debtTxs[x], nd)
  <2>1. /\ userTxs' = [userTxs EXCEPT ![x] = row] /\ deals' = [deals EXCEPT ![x] = nd]
        /\ UNCHANGED <<transfers, debts, smgTxs, debtTxs>>
    BY DEF CancelOutbound, First, OnWan, Wan!OutUserRevoke, eosVars, Wan!Close
  <2> QED
    BY <2>1, Same DEF Changes
<1>3. SwapOK(transfers[x], debts[x], userTxs[x], smgTxs[x], debtTxs[x], d)
  BY DEF CrossInv, SwapsOK
<1>4. /\ d.kind = "outbound" /\ d.first = "locked" /\ d \in UserDeal
  BY <1>1, <1>3 DEF SwapOK, LegsAgree, FirstOpen, SecondOpen, Deals, DebtDeal
<1>5. /\ nd \in UserDeal /\ nd.kind = "outbound"
      /\ nd.first = "revoked" /\ nd.second = d.second
      /\ nd.from = d.from /\ nd.to = d.to /\ nd.token = d.token /\ nd.value = d.value
      /\ row \in Wan!UserTx /\ row.status = "Revoked"
  BY <1>1, <1>3, <1>4, Shapes
  DEF UserDeal, SwapOK, UserTxs, Wan!UserTx, Wan!Status, Wan!TimeLeft
<1>6. SwapOK(transfers[x], debts[x], row, smgTxs[x], debtTxs[x], nd)
  <2> HIDE DEF nd, row
  <2>1. LegsAgree(transfers[x], debts[x], row, smgTxs[x], debtTxs[x], nd)
    BY <1>1, <1>3, <1>4, <1>5, Shapes
    DEF SwapOK, LegsAgree, FirstOpen, SecondOpen, IsInlock, IsOutlock, Deals
  <2>2. LegsInTime(transfers[x], debts[x], row, smgTxs[x], debtTxs[x], nd)
    BY <1>1, <1>3, <1>4, <1>5, Shapes, TimesAreInt
    DEF SwapOK, LegsInTime, LegsAgree, FirstOpen, SecondOpen, Revealed, IsInlock, IsOutlock, Deals
  <2>3. TermsAgree(transfers[x], debts[x], row, smgTxs[x], debtTxs[x], nd)
    BY <1>1, <1>3, <1>4, <1>5, Shapes
    DEF SwapOK, TermsAgree, LegsAgree, FirstOpen, SecondOpen, IsInlock, IsOutlock, Deals
  <2> QED
    BY <1>3, <1>5, <2>1, <2>2, <2>3 DEF SwapOK, UserTxs, Deals
<1>7. Moves(d, nd)
  <2>1. d.second # "redeemed"
    BY <1>1, <1>3, <1>4, Shapes, TimesAreInt
    DEF SwapOK, LegsInTime, FirstOpen, Revealed, IsInlock, Deals
  <2> HIDE DEF nd
  <2> QED
    BY <1>1, <1>4, <1>5, <2>1, Shapes DEF Moves, PhaseOf, Deals
<1> QED
  BY <1>2, <1>6, <1>7, ChangesStep

LEMMA WithdrawOutboundStep ==
  ASSUME CrossInv, NEW x \in XHashes, WithdrawOutbound(x)
  PROVE  StepAt(x)
<1> DEFINE d == deals[x]
           nd == [d EXCEPT !.second = "revoked"]
<1>1. d \in Deals /\ IsOutlock(transfers[x])
  BY DEF WithdrawOutbound, Second, OnEos, Eos!Outrevoke, CrossInv, Tables, IsOutlock
<1>2. Changes(x, NoRow, debts[x], userTxs[x], smgTxs[x], debtTxs[x], nd)
  <2>1. /\ transfers' = [transfers EXCEPT ![x] = NoRow] /\ deals' = [deals EXCEPT ![x] = nd]
        /\ UNCHANGED <<debts, userTxs, smgTxs, debtTxs>>
    BY DEF WithdrawOutbound, Second, OnEos, Eos!Outrevoke, wanVars
  <2> QED
    BY <2>1, Same DEF Changes
<1>3. SwapOK(transfers[x], debts[x], userTxs[x], smgTxs[x], debtTxs[x], d)
  BY DEF CrossInv, SwapsOK
<1>4. /\ d.kind = "outbound" /\ d.second = "locked" /\ d \in UserDeal
  BY <1>1, <1>3 DEF SwapOK, LegsAgree, FirstOpen, SecondOpen, Deals, DebtDeal
<1>5. /\ nd \in UserDeal /\ nd.kind = "outbound"
      /\ nd.second = "revoked" /\ nd.first = d.first
      /\ nd.from = d.from /\ nd.to = d.to /\ nd.token = d.token /\ nd.value = d.value
  BY <1>1, <1>3, <1>4, Shapes DEF UserDeal
<1>6. SwapOK(NoRow, debts[x], userTxs[x], smgTxs[x], debtTxs[x], nd)
  <2> HIDE DEF nd
  <2>1. LegsAgree(NoRow, debts[x], userTxs[x], smgTxs[x], debtTxs[x], nd)
    BY <1>1, <1>3, <1>4, <1>5, Shapes
    DEF SwapOK, LegsAgree, FirstOpen, SecondOpen, IsInlock, IsOutlock, Deals
  <2>2. LegsInTime(NoRow, debts[x], userTxs[x], smgTxs[x], debtTxs[x], nd)
    BY <1>1, <1>3, <1>4, <1>5, Shapes, TimesAreInt
    DEF SwapOK, LegsInTime, LegsAgree, FirstOpen, SecondOpen, Revealed, IsInlock, IsOutlock, Deals
  <2>3. TermsAgree(NoRow, debts[x], userTxs[x], smgTxs[x], debtTxs[x], nd)
    BY <1>1, <1>3, <1>4, <1>5, Shapes
    DEF SwapOK, TermsAgree, LegsAgree, FirstOpen, SecondOpen, IsInlock, IsOutlock, Deals
  <2> QED
    BY <1>3, <1>5, <2>1, <2>2, <2>3 DEF SwapOK, Transfers, Deals
<1>7. Moves(d, nd)
  <2> HIDE DEF nd
  <2> QED
    BY <1>1, <1>4, <1>5, Shapes DEF Moves, PhaseOf, Deals
<1> QED
  BY <1>2, <1>6, <1>7, ChangesStep

-----------------------------------------------------------------------------
(* Debt *)

LEMMA OpenDebtStep ==
  ASSUME CrossInv, NEW t \in Tokens, NEW v \in Amounts, NEW x \in XHashes,
         NEW src \in Storemen, NEW dst \in Storemen, OpenDebt(t, v, x, src, dst)
  PROVE  StepAt(x)
<1>a. PICK pid, npid \in Eos!Pids :
        debts' = [debts EXCEPT ![x] =
          [pid |-> pid, npid |-> npid, token |-> t, quantity |-> v,
           timeLeft |-> 2 * LockedTime]]
  BY DEF OpenDebt, OnEos, Eos!Lockdebt
<1> DEFINE d == deals[x]
           nd == Deal("debt", src, dst, t, v)
           row == [pid |-> pid, npid |-> npid, token |-> t, quantity |-> v,
                   timeLeft |-> 2 * LockedTime]
<1>1. d = NoDeal /\ debts[x] = NoRow
  BY DEF OpenDebt, Start, OnEos, Eos!Lockdebt
<1>2. Changes(x, transfers[x], row, userTxs[x], smgTxs[x], debtTxs[x], nd)
  <2>1. /\ debts' = [debts EXCEPT ![x] = row] /\ deals' = [deals EXCEPT ![x] = nd]
        /\ UNCHANGED <<transfers, userTxs, smgTxs, debtTxs>>
    BY <1>a DEF OpenDebt, Start, OnEos, Eos!Lockdebt, wanVars
  <2> QED
    BY <2>1, Same DEF Changes
<1>3. SwapOK(transfers[x], debts[x], userTxs[x], smgTxs[x], debtTxs[x], d)
  BY DEF CrossInv, SwapsOK
<1>5. /\ row \in Eos!DebtRow /\ nd \in DebtDeal
      /\ nd.kind = "debt" /\ nd.first = "locked" /\ nd.second = "none"
      /\ nd.from = src /\ nd.to = dst /\ nd.token = t /\ nd.value = v
  BY <1>1, Shapes DEF DebtDeal, Eos!DebtRow, Eos!Expired, Deal
<1>6. SwapOK(transfers[x], row, userTxs[x], smgTxs[x], debtTxs[x], nd)
  <2> HIDE DEF nd
  <2>1. LegsAgree(transfers[x], row, userTxs[x], smgTxs[x], debtTxs[x], nd)
    BY <1>1, <1>3, <1>5, Shapes
    DEF SwapOK, LegsAgree, FirstOpen, SecondOpen, IsInlock, IsOutlock, Deals
  <2>2. LegsInTime(transfers[x], row, userTxs[x], smgTxs[x], debtTxs[x], nd)
    BY <1>1, <1>3, <1>5, Shapes, TimesAreInt
    DEF SwapOK, LegsInTime, LegsAgree, FirstOpen, SecondOpen, Revealed, IsInlock, IsOutlock, Deals
  <2>3. TermsAgree(transfers[x], row, userTxs[x], smgTxs[x], debtTxs[x], nd)
    BY <1>1, <1>3, <1>5, Shapes
    DEF SwapOK, TermsAgree, LegsAgree, FirstOpen, SecondOpen, IsInlock, IsOutlock, Deals
  <2> QED
    BY <1>3, <1>5, <2>1, <2>2, <2>3 DEF SwapOK, Debts, Deals
<1>7. Moves(d, nd)
  <2> HIDE DEF nd
  <2> QED
    BY <1>1, <1>5, Shapes DEF Moves, PhaseOf, Deals
<1> QED
  BY <1>2, <1>6, <1>7, ChangesStep

LEMMA AnswerDebtStep ==
  ASSUME CrossInv, NEW x \in XHashes, AnswerDebt(x)
  PROVE  StepAt(x)
<1> DEFINE d == deals[x]
           nd == [d EXCEPT !.second = "locked"]
           row == [status |-> "Locked", value |-> d.value, storeman |-> d.to, token |-> d.token,
                   src |-> d.from, timeLeft |-> LockedTime]
<1>1. /\ d \in Deals /\ d.kind = "debt" /\ d.first = "locked" /\ d.second = "none"
      /\ debts[x].timeLeft > LockedTime /\ debtTxs[x] = Wan!NoTx
  BY DEF AnswerDebt, Unanswered, IsOpen, Outlasts, Second, CrossInv, Tables, OnWan, Wan!InDebtLock
<1>2. Changes(x, transfers[x], debts[x], userTxs[x], smgTxs[x], row, nd)
  <2>1. /\ debtTxs' = [debtTxs EXCEPT ![x] = row] /\ deals' = [deals EXCEPT ![x] = nd]
        /\ UNCHANGED <<transfers, debts, userTxs, smgTxs>>
    BY DEF AnswerDebt, Second, OnWan, Wan!InDebtLock, eosVars, Wan!SmgLockTime
  <2> QED
    BY <2>1, Same DEF Changes
<1>3. SwapOK(transfers[x], debts[x], userTxs[x], smgTxs[x], debtTxs[x], d)
  BY DEF CrossInv, SwapsOK
<1>4. d \in DebtDeal
  BY <1>1 DEF Deals, UserDeal
<1>5. /\ row \in Wan!DebtTx /\ nd \in DebtDeal
      /\ nd.kind = "debt" /\ nd.first = "locked" /\ nd.second = "locked"
      /\ nd.from = d.from /\ nd.to = d.to /\ nd.token = d.token /\ nd.value = d.value
  BY <1>1, <1>4, Shapes DEF DebtDeal, Wan!DebtTx, Wan!Status, Wan!TimeLeft
<1>6. SwapOK(transfers[x], debts[x], userTxs[x], smgTxs[x], row, nd)
  <2> HIDE DEF nd
  <2>1. LegsAgree(transfers[x], debts[x], userTxs[x], smgTxs[x], row, nd)
    BY <1>1, <1>3, <1>4, <1>5, Shapes
    DEF SwapOK, LegsAgree, FirstOpen, SecondOpen, IsInlock, IsOutlock, Deals
  <2>2. LegsInTime(transfers[x], debts[x], userTxs[x], smgTxs[x], row, nd)
    BY <1>1, <1>3, <1>4, <1>5, Shapes, TimesAreInt
    DEF SwapOK, LegsInTime, LegsAgree, FirstOpen, SecondOpen, Revealed, IsInlock, IsOutlock, Deals
  <2>3. TermsAgree(transfers[x], debts[x], userTxs[x], smgTxs[x], row, nd)
    BY <1>1, <1>3, <1>4, <1>5, Shapes
    DEF SwapOK, TermsAgree, LegsAgree, FirstOpen, SecondOpen, IsInlock, IsOutlock, Deals
  <2> QED
    BY <1>3, <1>5, <2>1, <2>2, <2>3 DEF SwapOK, DebtTxs, Deals
<1>7. Moves(d, nd)
  <2> HIDE DEF nd
  <2> QED
    BY <1>1, <1>4, <1>5, Shapes DEF Moves, PhaseOf, Deals
<1> QED
  BY <1>2, <1>6, <1>7, ChangesStep

LEMMA TakeDebtStep ==
  ASSUME CrossInv, NEW x \in XHashes, TakeDebt(x)
  PROVE  StepAt(x)
<1> DEFINE d == deals[x]
           nd == [d EXCEPT !.second = "redeemed"]
           row == [debtTxs[x] EXCEPT !.status = "Redeemed"]
<1>1. d \in Deals /\ debtTxs[x].status = "Locked" /\ debtTxs[x].timeLeft > 0
  BY DEF TakeDebt, Second, OnWan, Wan!InDebtRedeem, CrossInv, Tables, Wan!IsLocked, Wan!InTime
<1>2. Changes(x, transfers[x], debts[x], userTxs[x], smgTxs[x], row, nd)
  <2>1. /\ debtTxs' = [debtTxs EXCEPT ![x] = row] /\ deals' = [deals EXCEPT ![x] = nd]
        /\ UNCHANGED <<transfers, debts, userTxs, smgTxs>>
    BY DEF TakeDebt, Second, OnWan, Wan!InDebtRedeem, eosVars, Wan!Close
  <2> QED
    BY <2>1, Same DEF Changes
<1>3. SwapOK(transfers[x], debts[x], userTxs[x], smgTxs[x], debtTxs[x], d)
  BY DEF CrossInv, SwapsOK
<1>4. /\ d.kind = "debt" /\ d.second = "locked" /\ d \in DebtDeal
  BY <1>1, <1>3 DEF SwapOK, LegsAgree, FirstOpen, SecondOpen, Deals, UserDeal
<1>5. /\ nd \in DebtDeal /\ nd.kind = "debt"
      /\ nd.second = "redeemed" /\ nd.first = d.first
      /\ nd.from = d.from /\ nd.to = d.to /\ nd.token = d.token /\ nd.value = d.value
      /\ row \in Wan!DebtTx /\ row.status = "Redeemed"
  BY <1>1, <1>3, <1>4, Shapes
  DEF DebtDeal, SwapOK, DebtTxs, Wan!DebtTx, Wan!Status, Wan!TimeLeft
<1>6. SwapOK(transfers[x], debts[x], userTxs[x], smgTxs[x], row, nd)
  <2> HIDE DEF nd, row
  <2>1. LegsAgree(transfers[x], debts[x], userTxs[x], smgTxs[x], row, nd)
    BY <1>1, <1>3, <1>4, <1>5, Shapes
    DEF SwapOK, LegsAgree, FirstOpen, SecondOpen, IsInlock, IsOutlock, Deals
  <2>2. LegsInTime(transfers[x], debts[x], userTxs[x], smgTxs[x], row, nd)
    BY <1>1, <1>3, <1>4, <1>5, Shapes, TimesAreInt
    DEF SwapOK, LegsInTime, LegsAgree, FirstOpen, SecondOpen, Revealed, IsInlock, IsOutlock, Deals
  <2>3. TermsAgree(transfers[x], debts[x], userTxs[x], smgTxs[x], row, nd)
    BY <1>1, <1>3, <1>4, <1>5, Shapes
    DEF SwapOK, TermsAgree, LegsAgree, FirstOpen, SecondOpen, IsInlock, IsOutlock, Deals
  <2> QED
    BY <1>3, <1>5, <2>1, <2>2, <2>3 DEF SwapOK, DebtTxs, Deals
<1>7. Moves(d, nd)
  <2>1. d.first = "locked"
    BY <1>1, <1>3, <1>4, Shapes DEF SwapOK, LegsInTime, FirstOpen, SecondOpen, Deals
  <2> HIDE DEF nd
  <2> QED
    BY <1>1, <1>4, <1>5, <2>1, Shapes DEF Moves, PhaseOf, Deals
<1> QED
  BY <1>2, <1>6, <1>7, ChangesStep

LEMMA SettleDebtStep ==
  ASSUME CrossInv, NEW x \in XHashes, SettleDebt(x)
  PROVE  StepAt(x)
<1> DEFINE d == deals[x]
           nd == [d EXCEPT !.first = "redeemed"]
<1>1. d \in Deals /\ debts[x] # NoRow /\ d.second = "redeemed"
  BY DEF SettleDebt, First, OnEos, Eos!Redeemdebt, CrossInv, Tables, Public
<1>2. Changes(x, transfers[x], NoRow, userTxs[x], smgTxs[x], debtTxs[x], nd)
  <2>1. /\ debts' = [debts EXCEPT ![x] = NoRow] /\ deals' = [deals EXCEPT ![x] = nd]
        /\ UNCHANGED <<transfers, userTxs, smgTxs, debtTxs>>
    BY DEF SettleDebt, First, OnEos, Eos!Redeemdebt, wanVars
  <2> QED
    BY <2>1, Same DEF Changes
<1>3. SwapOK(transfers[x], debts[x], userTxs[x], smgTxs[x], debtTxs[x], d)
  BY DEF CrossInv, SwapsOK
<1>4. /\ d.kind = "debt" /\ d.first = "locked" /\ d \in DebtDeal
  BY <1>1, <1>3 DEF SwapOK, LegsAgree, FirstOpen, SecondOpen, Deals, UserDeal
<1>5. /\ nd \in DebtDeal /\ nd.kind = "debt"
      /\ nd.first = "redeemed" /\ nd.second = d.second
      /\ nd.from = d.from /\ nd.to = d.to /\ nd.token = d.token /\ nd.value = d.value
  BY <1>1, <1>3, <1>4, Shapes DEF DebtDeal
<1>6. SwapOK(transfers[x], NoRow, userTxs[x], smgTxs[x], debtTxs[x], nd)
  <2> HIDE DEF nd
  <2>1. LegsAgree(transfers[x], NoRow, userTxs[x], smgTxs[x], debtTxs[x], nd)
    BY <1>1, <1>3, <1>4, <1>5, Shapes
    DEF SwapOK, LegsAgree, FirstOpen, SecondOpen, IsInlock, IsOutlock, Deals
  <2>2. LegsInTime(transfers[x], NoRow, userTxs[x], smgTxs[x], debtTxs[x], nd)
    BY <1>1, <1>3, <1>4, <1>5, Shapes, TimesAreInt
    DEF SwapOK, LegsInTime, LegsAgree, FirstOpen, SecondOpen, Revealed, IsInlock, IsOutlock, Deals
  <2>3. TermsAgree(transfers[x], NoRow, userTxs[x], smgTxs[x], debtTxs[x], nd)
    BY <1>1, <1>3, <1>4, <1>5, Shapes
    DEF SwapOK, TermsAgree, LegsAgree, FirstOpen, SecondOpen, IsInlock, IsOutlock, Deals
  <2> QED
    BY <1>3, <1>5, <2>1, <2>2, <2>3 DEF SwapOK, Debts, Deals
<1>7. Moves(d, nd)
  <2> HIDE DEF nd
  <2> QED
    BY <1>1, <1>4, <1>5, Shapes DEF Moves, PhaseOf, Deals
<1> QED
  BY <1>2, <1>6, <1>7, ChangesStep

LEMMA CancelDebtStep ==
  ASSUME CrossInv, NEW x \in XHashes, CancelDebt(x)
  PROVE  StepAt(x)
<1> DEFINE d == deals[x]
           nd == [d EXCEPT !.first = "revoked"]
<1>1. d \in Deals /\ debts[x] # NoRow /\ debts[x].timeLeft < 0
  BY DEF CancelDebt, First, OnEos, Eos!Revokedebt, CrossInv, Tables, Eos!Lapsed
<1>2. Changes(x, transfers[x], NoRow, userTxs[x], smgTxs[x], debtTxs[x], nd)
  <2>1. /\ debts' = [debts EXCEPT ![x] = NoRow] /\ deals' = [deals EXCEPT ![x] = nd]
        /\ UNCHANGED <<transfers, userTxs, smgTxs, debtTxs>>
    BY DEF CancelDebt, First, OnEos, Eos!Revokedebt, wanVars
  <2> QED
    BY <2>1, Same DEF Changes
<1>3. SwapOK(transfers[x], debts[x], userTxs[x], smgTxs[x], debtTxs[x], d)
  BY DEF CrossInv, SwapsOK
<1>4. /\ d.kind = "debt" /\ d.first = "locked" /\ d \in DebtDeal
  BY <1>1, <1>3 DEF SwapOK, LegsAgree, FirstOpen, SecondOpen, Deals, UserDeal
<1>5. /\ nd \in DebtDeal /\ nd.kind = "debt"
      /\ nd.first = "revoked" /\ nd.second = d.second
      /\ nd.from = d.from /\ nd.to = d.to /\ nd.token = d.token /\ nd.value = d.value
  BY <1>1, <1>3, <1>4, Shapes DEF DebtDeal
<1>6. SwapOK(transfers[x], NoRow, userTxs[x], smgTxs[x], debtTxs[x], nd)
  <2> HIDE DEF nd
  <2>1. LegsAgree(transfers[x], NoRow, userTxs[x], smgTxs[x], debtTxs[x], nd)
    BY <1>1, <1>3, <1>4, <1>5, Shapes
    DEF SwapOK, LegsAgree, FirstOpen, SecondOpen, IsInlock, IsOutlock, Deals
  <2>2. LegsInTime(transfers[x], NoRow, userTxs[x], smgTxs[x], debtTxs[x], nd)
    BY <1>1, <1>3, <1>4, <1>5, Shapes, TimesAreInt
    DEF SwapOK, LegsInTime, LegsAgree, FirstOpen, SecondOpen, Revealed, IsInlock, IsOutlock, Deals
  <2>3. TermsAgree(transfers[x], NoRow, userTxs[x], smgTxs[x], debtTxs[x], nd)
    BY <1>1, <1>3, <1>4, <1>5, Shapes
    DEF SwapOK, TermsAgree, LegsAgree, FirstOpen, SecondOpen, IsInlock, IsOutlock, Deals
  <2> QED
    BY <1>3, <1>5, <2>1, <2>2, <2>3 DEF SwapOK, Debts, Deals
<1>7. Moves(d, nd)
  <2>1. d.second # "redeemed"
    BY <1>1, <1>3, <1>4, Shapes, TimesAreInt
    DEF SwapOK, LegsInTime, FirstOpen, Revealed, IsInlock, Deals
  <2> HIDE DEF nd
  <2> QED
    BY <1>1, <1>4, <1>5, <2>1, Shapes DEF Moves, PhaseOf, Deals
<1> QED
  BY <1>2, <1>6, <1>7, ChangesStep

LEMMA WithdrawDebtStep ==
  ASSUME CrossInv, NEW x \in XHashes, WithdrawDebt(x)
  PROVE  StepAt(x)
<1> DEFINE d == deals[x]
           nd == [d EXCEPT !.second = "revoked"]
           row == [debtTxs[x] EXCEPT !.status = "Revoked"]
<1>1. d \in Deals /\ debtTxs[x].status = "Locked"
  BY DEF WithdrawDebt, Second, OnWan, Wan!InDebtRevoke, CrossInv, Tables, Wan!IsLocked
<1>2. Changes(x, transfers[x], debts[x], userTxs[x], smgTxs[x], row, nd)
  <2>1. /\ debtTxs' = [debtTxs EXCEPT ![x] = row] /\ deals' = [deals EXCEPT ![x] = nd]
        /\ UNCHANGED <<transfers, debts, userTxs, smgTxs>>
    BY DEF WithdrawDebt, Second, OnWan, Wan!InDebtRevoke, eosVars, Wan!Close
  <2> QED
    BY <2>1, Same DEF Changes
<1>3. SwapOK(transfers[x], debts[x], userTxs[x], smgTxs[x], debtTxs[x], d)
  BY DEF CrossInv, SwapsOK
<1>4. /\ d.kind = "debt" /\ d.second = "locked" /\ d \in DebtDeal
  BY <1>1, <1>3 DEF SwapOK, LegsAgree, FirstOpen, SecondOpen, Deals, UserDeal
<1>5. /\ nd \in DebtDeal /\ nd.kind = "debt"
      /\ nd.second = "revoked" /\ nd.first = d.first
      /\ nd.from = d.from /\ nd.to = d.to /\ nd.token = d.token /\ nd.value = d.value
      /\ row \in Wan!DebtTx /\ row.status = "Revoked"
  BY <1>1, <1>3, <1>4, Shapes
  DEF DebtDeal, SwapOK, DebtTxs, Wan!DebtTx, Wan!Status, Wan!TimeLeft
<1>6. SwapOK(transfers[x], debts[x], userTxs[x], smgTxs[x], row, nd)
  <2> HIDE DEF nd, row
  <2>1. LegsAgree(transfers[x], debts[x], userTxs[x], smgTxs[x], row, nd)
    BY <1>1, <1>3, <1>4, <1>5, Shapes
    DEF SwapOK, LegsAgree, FirstOpen, SecondOpen, IsInlock, IsOutlock, Deals
  <2>2. LegsInTime(transfers[x], debts[x], userTxs[x], smgTxs[x], row, nd)
    BY <1>1, <1>3, <1>4, <1>5, Shapes, TimesAreInt
    DEF SwapOK, LegsInTime, LegsAgree, FirstOpen, SecondOpen, Revealed, IsInlock, IsOutlock, Deals
  <2>3. TermsAgree(transfers[x], debts[x], userTxs[x], smgTxs[x], row, nd)
    BY <1>1, <1>3, <1>4, <1>5, Shapes
    DEF SwapOK, TermsAgree, LegsAgree, FirstOpen, SecondOpen, IsInlock, IsOutlock, Deals
  <2> QED
    BY <1>3, <1>5, <2>1, <2>2, <2>3 DEF SwapOK, DebtTxs, Deals
<1>7. Moves(d, nd)
  <2> HIDE DEF nd
  <2> QED
    BY <1>1, <1>4, <1>5, Shapes DEF Moves, PhaseOf, Deals
<1> QED
  BY <1>2, <1>6, <1>7, ChangesStep

-----------------------------------------------------------------------------
(* Time, the owners and the groups *)

SameTerms(row, old) == row.pid = old.pid /\ row.token = old.token /\ row.quantity = old.quantity

SameTx(tx, old) == tx.storeman = old.storeman /\ tx.token = old.token /\ tx.value = old.value

LEMMA EosRowsAge ==
  ASSUME CrossInv, Eos!Tick, NEW x \in XHashes
  PROVE  /\ transfers'[x] \in Transfers /\ debts'[x] \in Debts
         /\ IsInlock(transfers'[x]) <=> IsInlock(transfers[x])
         /\ IsOutlock(transfers'[x]) <=> IsOutlock(transfers[x])
         /\ debts'[x] = NoRow <=> debts[x] = NoRow
         /\ transfers'[x] = NoRow <=> transfers[x] = NoRow
         /\ transfers[x] # NoRow => SameTerms(transfers'[x], transfers[x])
         /\ debts[x] # NoRow => SameTerms(debts'[x], debts[x]) /\ debts'[x].npid = debts[x].npid
         /\ transfers[x] # NoRow =>
              transfers'[x].timeLeft = IF transfers[x].timeLeft > -1 THEN transfers[x].timeLeft - 1
                                       ELSE transfers[x].timeLeft
         /\ debts[x] # NoRow =>
              debts'[x].timeLeft = IF debts[x].timeLeft > -1 THEN debts[x].timeLeft - 1
                                   ELSE debts[x].timeLeft
<1>1. /\ transfers[x] \in Transfers /\ debts[x] \in Debts
      /\ transfers'[x] = IF transfers[x] = NoRow THEN NoRow ELSE Eos!Older(transfers[x])
      /\ debts'[x] = IF debts[x] = NoRow THEN NoRow ELSE Eos!Older(debts[x])
  BY DEF CrossInv, Tables, Eos!Tick, Eos!Aged
<1>2. CASE transfers[x] = NoRow /\ debts[x] = NoRow
  BY <1>1, <1>2 DEF IsInlock, IsOutlock
<1>3. ASSUME transfers[x] # NoRow
      PROVE  /\ transfers'[x] \in Eos!TransferRow /\ transfers'[x].status = transfers[x].status
             /\ SameTerms(transfers'[x], transfers[x])
             /\ transfers'[x].timeLeft = IF transfers[x].timeLeft > -1 THEN transfers[x].timeLeft - 1
                                         ELSE transfers[x].timeLeft
  BY <1>1, <1>3, Shapes DEF Transfers, Eos!TransferRow, Eos!Older, Eos!Expired, SameTerms
<1>4. ASSUME debts[x] # NoRow
      PROVE  /\ debts'[x] \in Eos!DebtRow
             /\ SameTerms(debts'[x], debts[x]) /\ debts'[x].npid = debts[x].npid
             /\ debts'[x].timeLeft = IF debts[x].timeLeft > -1 THEN debts[x].timeLeft - 1
                                     ELSE debts[x].timeLeft
  BY <1>1, <1>4, Shapes DEF Debts, Eos!DebtRow, Eos!Older, Eos!Expired, SameTerms
<1> QED
  BY <1>1, <1>3, <1>4, Shapes DEF IsInlock, IsOutlock, Transfers, Debts

Less1(n) == IF n > 0 THEN n - 1 ELSE n

LEMMA WanRowsAge ==
  ASSUME CrossInv, Wan!WanTick, NEW x \in XHashes
  PROVE  /\ userTxs'[x] \in UserTxs /\ smgTxs'[x] \in SmgTxs /\ debtTxs'[x] \in DebtTxs
         /\ userTxs'[x].status = userTxs[x].status /\ smgTxs'[x].status = smgTxs[x].status
         /\ debtTxs'[x].status = debtTxs[x].status
         /\ userTxs[x].status = "Locked" => SameTx(userTxs'[x], userTxs[x])
         /\ userTxs[x].status = "Locked" => userTxs'[x].timeLeft = Less1(userTxs[x].timeLeft)
         /\ smgTxs[x].status = "Locked" => SameTx(smgTxs'[x], smgTxs[x])
         /\ smgTxs[x].status = "Locked" => smgTxs'[x].timeLeft = Less1(smgTxs[x].timeLeft)
         /\ debtTxs[x].status = "Locked" => SameTx(debtTxs'[x], debtTxs[x]) /\ debtTxs'[x].src = debtTxs[x].src
         /\ debtTxs[x].status = "Locked" =>
              SameTx(debtTxs'[x], debtTxs[x]) /\ debtTxs'[x].src = debtTxs[x].src
         /\ debtTxs[x].status = "Locked" => debtTxs'[x].timeLeft = Less1(debtTxs[x].timeLeft)
<1>1. /\ userTxs[x] \in UserTxs /\ smgTxs[x] \in SmgTxs /\ debtTxs[x] \in DebtTxs
      /\ userTxs'[x] = Wan!Older(userTxs[x]) /\ smgTxs'[x] = Wan!Older(smgTxs[x])
      /\ debtTxs'[x] = Wan!Older(debtTxs[x])
  BY DEF CrossInv, Tables, Wan!WanTick, Wan!Aged
<1>2. /\ userTxs'[x] \in UserTxs /\ userTxs'[x].status = userTxs[x].status
      /\ userTxs[x].status = "Locked" => SameTx(userTxs'[x], userTxs[x])
      /\ userTxs[x].status = "Locked" => userTxs'[x].timeLeft = Less1(userTxs[x].timeLeft)
  <2>1. CASE userTxs[x] = Wan!NoTx
    BY <1>1, <2>1, Shapes DEF Wan!Older
  <2>2. CASE userTxs[x] # Wan!NoTx
    BY <1>1, <2>2, Shapes DEF Wan!Older, UserTxs, Wan!UserTx, Wan!TimeLeft, Less1, SameTx
  <2> QED
    BY <2>1, <2>2
<1>3. /\ smgTxs'[x] \in SmgTxs /\ smgTxs'[x].status = smgTxs[x].status
      /\ smgTxs[x].status = "Locked" => SameTx(smgTxs'[x], smgTxs[x])
      /\ smgTxs[x].status = "Locked" => smgTxs'[x].timeLeft = Less1(smgTxs[x].timeLeft)
  <2>1. CASE smgTxs[x] = Wan!NoTx
    BY <1>1, <2>1, Shapes DEF Wan!Older
  <2>2. CASE smgTxs[x] # Wan!NoTx
    BY <1>1, <2>2, Shapes DEF Wan!Older, SmgTxs, Wan!SmgTx, Wan!TimeLeft, Less1, SameTx
  <2> QED
    BY <2>1, <2>2
<1>4. /\ debtTxs'[x] \in DebtTxs /\ debtTxs'[x].status = debtTxs[x].status
      /\ debtTxs[x].status = "Locked" => SameTx(debtTxs'[x], debtTxs[x]) /\ debtTxs'[x].src = debtTxs[x].src
      /\ debtTxs[x].status = "Locked" => debtTxs'[x].timeLeft = Less1(debtTxs[x].timeLeft)
  <2>1. CASE debtTxs[x] = Wan!NoTx
    BY <1>1, <2>1, Shapes DEF Wan!Older
  <2>2. CASE debtTxs[x] # Wan!NoTx
    BY <1>1, <2>2, Shapes DEF Wan!Older, DebtTxs, Wan!DebtTx, Wan!TimeLeft, Less1, SameTx
  <2> QED
    BY <2>1, <2>2
<1> QED
  BY <1>2, <1>3, <1>4

(* Where a secret is public, LastChance stops the clock before its first   *)
(* leg lapses; and the two legs of a swap age together.                    *)
LEMMA TickKeeps ==
  ASSUME CrossInv, Tick
  PROVE  CrossInv' /\ UNCHANGED deals
<1>1. Eos!Tick /\ Wan!WanTick /\ UNCHANGED deals /\ \A x \in XHashes : ~LastChance(x)
  BY DEF Tick
<1>2. Tables'
  <2>1. /\ transfers' = [x \in XHashes |-> transfers'[x]] /\ debts' = [x \in XHashes |-> debts'[x]]
        /\ userTxs' = [x \in XHashes |-> userTxs'[x]] /\ smgTxs' = [x \in XHashes |-> smgTxs'[x]]
        /\ debtTxs' = [x \in XHashes |-> debtTxs'[x]]
    BY <1>1 DEF Eos!Tick, Wan!WanTick, Eos!Aged, Wan!Aged
  <2>2. \A x \in XHashes : /\ transfers'[x] \in Transfers /\ debts'[x] \in Debts
                           /\ userTxs'[x] \in UserTxs /\ smgTxs'[x] \in SmgTxs
                           /\ debtTxs'[x] \in DebtTxs
    BY <1>1, EosRowsAge, WanRowsAge
  <2> QED
    BY <1>1, <2>1, <2>2 DEF CrossInv, Tables
<1>3. ASSUME NEW x \in XHashes
      PROVE  SwapOK(transfers'[x], debts'[x], userTxs'[x], smgTxs'[x], debtTxs'[x], deals[x])
  <2> DEFINE d == deals[x]
  <2>1. SwapOK(transfers[x], debts[x], userTxs[x], smgTxs[x], debtTxs[x], d)
    BY <1>3 DEF CrossInv, SwapsOK
  <2>2. LegsAgree(transfers'[x], debts'[x], userTxs'[x], smgTxs'[x], debtTxs'[x], d)
    BY <1>1, <1>3, <2>1, EosRowsAge, WanRowsAge DEF SwapOK, LegsAgree
  <2>3. /\ FirstOpen(d, "inbound") /\ Revealed(d) => transfers[x].timeLeft # 0
        /\ FirstOpen(d, "outbound") /\ Revealed(d) => userTxs[x].timeLeft # 1
        /\ FirstOpen(d, "debt") /\ Revealed(d) => debts[x].timeLeft # 0
    BY <1>1, <1>3 DEF LastChance, FirstOpen, Revealed, IsOpen, Public
  <2>4. LegsInTime(transfers'[x], debts'[x], userTxs'[x], smgTxs'[x], debtTxs'[x], d)
    <3>1. LegsAgree(transfers[x], debts[x], userTxs[x], smgTxs[x], debtTxs[x], d)
          /\ LegsInTime(transfers[x], debts[x], userTxs[x], smgTxs[x], debtTxs[x], d)
      BY <2>1 DEF SwapOK
    <3> HIDE DEF d
    <3> QED
      BY <1>1, <1>3, <2>3, <3>1, EosRowsAge, WanRowsAge, TimesAreInt
      DEF LegsInTime, LegsAgree, Less1, IsInlock, IsOutlock
  <2>5. TermsAgree(transfers'[x], debts'[x], userTxs'[x], smgTxs'[x], debtTxs'[x], d)
    <3>1. TermsAgree(transfers[x], debts[x], userTxs[x], smgTxs[x], debtTxs[x], d)
      BY <2>1 DEF SwapOK
    <3> HIDE DEF d
    <3> QED
      BY <1>1, <1>3, <3>1, EosRowsAge, WanRowsAge
      DEF TermsAgree, SameTerms, SameTx, IsInlock, IsOutlock
  <2> QED
    BY <1>1, <1>3, <2>1, <2>2, <2>4, <2>5, EosRowsAge, WanRowsAge DEF SwapOK
<1> QED
  BY <1>1, <1>2, <1>3 DEF CrossInv, SwapsOK

LEMMA OwnersKeep ==
  ASSUME CrossInv, SetUp \/ Groups
  PROVE  CrossInv' /\ UNCHANGED deals
<1>1. UNCHANGED <<transfers, debts, userTxs, smgTxs, debtTxs, deals>>
  <2>1. CASE SetUp
    BY <2>1 DEF SetUp, Eos!Regsig, Wan!SetEconomics, Wan!htlcVars
  <2>2. CASE Groups
    BY <2>2 DEF Groups, OnWan, eosVars, Wan!AddStoremanGroup, Wan!DeactivateStoremanGroup,
       Wan!DelStoremanGroup, Wan!htlcVars
  <2> QED
    BY <2>1, <2>2
<1> QED
  BY <1>1 DEF CrossInv, Tables, SwapsOK

-----------------------------------------------------------------------------
(* The steps together *)

LEMMA InitCross == Init => CrossInv /\ Swap!Init
<1> SUFFICES ASSUME Init PROVE CrossInv /\ Swap!Init
  OBVIOUS
<1>1. /\ transfers = [x \in XHashes |-> NoRow] /\ debts = [x \in XHashes |-> NoRow]
      /\ userTxs = [x \in XHashes |-> Wan!NoTx] /\ smgTxs = [x \in XHashes |-> Wan!NoTx]
      /\ debtTxs = [x \in XHashes |-> Wan!NoTx] /\ deals = [x \in XHashes |-> NoDeal]
  BY DEF Init, Eos!Init, Wan!WanInit
<1>2. Tables
  BY <1>1 DEF Tables, Transfers, Debts, UserTxs, SmgTxs, DebtTxs
<1>3. SwapOK(NoRow, NoRow, Wan!NoTx, Wan!NoTx, Wan!NoTx, NoDeal)
  BY Shapes
  DEF SwapOK, LegsAgree, LegsInTime, TermsAgree, FirstOpen, SecondOpen, Revealed, IsInlock,
      IsOutlock,
     Transfers, Debts, UserTxs, SmgTxs, DebtTxs
<1>4. Swap!Init
  <2>1. PhaseOf(NoDeal) = "none"
    BY DEF PhaseOf
  <2> QED
    BY <1>1, <2>1, PhasesAre DEF Swap!Init
<1> QED
  BY <1>1, <1>2, <1>3, <1>4 DEF CrossInv, SwapsOK

LEMMA SwapSteps ==
  ASSUME CrossInv, Next
  PROVE  \/ \E x \in XHashes : StepAt(x)
         \/ CrossInv' /\ UNCHANGED deals
<1>1. CASE Opens
  <2>1. ASSUME NEW u \in Users, NEW t \in Tokens, NEW v \in Amounts, NEW x \in XHashes,
               NEW p \in Storemen, OpenInbound(u, t, v, x, p) \/ OpenOutbound(u, t, v, x, p)
        PROVE  StepAt(x)
    BY <2>1, OpenInboundStep, OpenOutboundStep
  <2>2. ASSUME NEW t \in Tokens, NEW v \in Amounts, NEW x \in XHashes,
               NEW src \in Storemen, NEW dst \in Storemen, OpenDebt(t, v, x, src, dst)
        PROVE  StepAt(x)
    BY <2>2, OpenDebtStep
  <2> QED
    BY <1>1, <2>1, <2>2 DEF Opens
<1>2. ASSUME NEW x \in XHashes, Answers(x) \/ Takes(x) \/ Settles(x) \/ Cancels(x) \/ Withdraws(x)
      PROVE  StepAt(x)
  <2>1. CASE Answers(x)
    BY <2>1, AnswerInboundStep, AnswerOutboundStep, AnswerDebtStep DEF Answers
  <2>2. CASE Takes(x)
    BY <2>2, TakeInboundStep, TakeOutboundStep, TakeDebtStep DEF Takes
  <2>3. CASE Settles(x)
    BY <2>3, SettleInboundStep, SettleOutboundStep, SettleDebtStep DEF Settles
  <2>4. CASE Cancels(x)
    BY <2>4, CancelInboundStep, CancelOutboundStep, CancelDebtStep DEF Cancels
  <2>5. CASE Withdraws(x)
    BY <2>5, WithdrawInboundStep, WithdrawOutboundStep, WithdrawDebtStep DEF Withdraws
  <2> QED
    BY <1>2, <2>1, <2>2, <2>3, <2>4, <2>5
<1> QED
  BY <1>1, <1>2, TickKeeps, OwnersKeep DEF Next

LEMMA SamePhases ==
  ASSUME UNCHANGED deals
  PROVE  ([y \in XHashes |-> Phase(y)])' = [y \in XHashes |-> Phase(y)]
BY PhasesAre, PhasesBecome

LEMMA NextCross ==
  ASSUME CrossInv, [Next]_crossVars
  PROVE  CrossInv' /\ [Swap!Next]_([y \in XHashes |-> Phase(y)])
<1>1. CASE UNCHANGED crossVars
  <2>1. UNCHANGED <<transfers, debts, userTxs, smgTxs, debtTxs, deals>>
    BY <1>1 DEF crossVars, eosVars, wanVars
  <2>2. CrossInv'
    BY <2>1 DEF CrossInv, Tables, SwapsOK
  <2> QED
    BY <2>1, <2>2, SamePhases
<1>2. CASE Next
  <2>1. ASSUME NEW x \in XHashes, StepAt(x)
        PROVE  CrossInv' /\ [Swap!Next]_([y \in XHashes |-> Phase(y)])
    BY <2>1, StepAtKeeps, StepAtMoves
  <2>2. ASSUME CrossInv', UNCHANGED deals
        PROVE  CrossInv' /\ [Swap!Next]_([y \in XHashes |-> Phase(y)])
    BY <2>2, SamePhases
  <2> QED
    BY <1>2, <2>1, <2>2, SwapSteps
<1> QED
  BY <1>1, <1>2

(* Every swap across the two chains is an atomic swap, for any number of   *)
(* users, groups, tokens and swaps at once, any amounts and any lock time: *)
(* when its second leg has been redeemed its first leg is never revoked,   *)
(* and its first leg is redeemed only then.                                *)
THEOREM EverySwapIsAtomic == Spec => SwapsAreAtomic
<1>1. Init => CrossInv /\ Swap!Init
  BY InitCross
<1>2. CrossInv /\ [Next]_crossVars
        => CrossInv' /\ [Swap!Next]_([x \in XHashes |-> Phase(x)])
  BY NextCross
<1>3. Spec => Swap!Init
  BY <1>1, PTL DEF Spec
<1>4. Spec => [][Swap!Next]_([x \in XHashes |-> Phase(x)])
  BY <1>1, <1>2, PTL DEF Spec
<1>5. Swap!Spec <=> Swap!Init /\ [][Swap!Next]_([x \in XHashes |-> Phase(x)])
  BY PTL DEF Swap!Spec
<1> QED
  BY <1>3, <1>4, <1>5, PTL DEF SwapsAreAtomic

-----------------------------------------------------------------------------
(* The composition runs both contracts: each of its steps is a step of one *)
(* contract while the other stands still, a step of both, or of neither.   *)
(* So what is proved of a contract by itself holds of it here.             *)

(* A deal between a user and a group, and one between two groups. *)
LEMMA PartiesOfDeal ==
  ASSUME CrossInv, NEW x \in XHashes, deals[x] # NoDeal
  PROVE  /\ deals[x].kind \in {"inbound", "outbound"} => deals[x].from \in Users
         /\ deals[x].kind = "debt" => deals[x].from \in Storemen
         /\ deals[x].to \in Storemen /\ deals[x].token \in Tokens /\ deals[x].value \in Amounts
BY DEF CrossInv, Tables, Deals, UserDeal, DebtDeal

LEMMA LegsOf ==
  ASSUME CrossInv, NEW x \in XHashes
  PROVE  LegsAgree(transfers[x], debts[x], userTxs[x], smgTxs[x], debtTxs[x], deals[x])
BY DEF CrossInv, SwapsOK, SwapOK

LEMMA StepsOfEos ==
  ASSUME CrossInv, Next
  PROVE  Eos!Next \/ UNCHANGED eosVars
<1>1. CASE Opens
  <2>1. ASSUME NEW u \in Users, NEW t \in Tokens, NEW v \in Amounts, NEW x \in XHashes,
               NEW p \in Storemen, OpenInbound(u, t, v, x, p)
        PROVE  Eos!Next
    BY <2>1 DEF OpenInbound, OnEos, Eos!Next, Eos!UserNext
  <2>2. ASSUME NEW u \in Users, NEW t \in Tokens, NEW v \in Amounts, NEW x \in XHashes,
               NEW p \in Storemen, OpenOutbound(u, t, v, x, p)
        PROVE  UNCHANGED eosVars
    BY <2>2 DEF OpenOutbound, OnWan
  <2>3. ASSUME NEW t \in Tokens, NEW v \in Amounts, NEW x \in XHashes,
               NEW src \in Storemen, NEW dst \in Storemen, OpenDebt(t, v, x, src, dst)
        PROVE  Eos!Next
    BY <2>3 DEF OpenDebt, OnEos, Eos!Next, Eos!StoremanNext
  <2> QED
    BY <1>1, <2>1, <2>2, <2>3 DEF Opens
<1>2. ASSUME NEW x \in XHashes, Answers(x) PROVE Eos!Next \/ UNCHANGED eosVars
  <2>1. CASE AnswerOutbound(x)
    <3>1. deals[x] # NoDeal /\ deals[x].kind = "outbound"
      BY <2>1 DEF AnswerOutbound, Unanswered, IsOpen
    <3>2. /\ deals[x].from \in Users /\ deals[x].to \in Storemen
          /\ deals[x].token \in Tokens /\ deals[x].value \in Amounts
      BY <1>2, <3>1, PartiesOfDeal
    <3>3. Eos!Outlock(deals[x].from, deals[x].token, deals[x].value, x, deals[x].to)
      BY <2>1 DEF AnswerOutbound, OnEos
    <3> QED
      BY <1>2, <3>2, <3>3 DEF Eos!Next, Eos!StoremanNext
  <2>2. CASE AnswerInbound(x) \/ AnswerDebt(x)
    BY <2>2 DEF AnswerInbound, AnswerDebt, OnWan
  <2> QED
    BY <1>2, <2>1, <2>2 DEF Answers
<1>3. ASSUME NEW x \in XHashes, Takes(x) PROVE Eos!Next \/ UNCHANGED eosVars
  <2>1. CASE TakeOutbound(x)
    <3>1. Eos!Outredeem(deals[x].from, x) /\ deals[x] # NoDeal
      BY <2>1 DEF TakeOutbound, OnEos, Second
    <3>2. IsOutlock(transfers[x])
      BY <3>1 DEF Eos!Outredeem, IsOutlock
    <3>3. deals[x].from \in Users
      BY <1>3, <3>1, <3>2, LegsOf, PartiesOfDeal DEF LegsAgree, SecondOpen
    <3> QED
      BY <1>3, <3>1, <3>3 DEF Eos!Next, Eos!UserNext
  <2>2. CASE TakeInbound(x) \/ TakeDebt(x)
    BY <2>2 DEF TakeInbound, TakeDebt, OnWan
  <2> QED
    BY <1>3, <2>1, <2>2 DEF Takes
<1>4. ASSUME NEW x \in XHashes, Settles(x) \/ Cancels(x) \/ Withdraws(x)
      PROVE  Eos!Next \/ UNCHANGED eosVars
  <2>1. CASE \/ SettleInbound(x) \/ SettleDebt(x) \/ CancelInbound(x) \/ CancelDebt(x)
             \/ WithdrawOutbound(x)
    <3>1. \/ Eos!Inredeem(x) \/ Eos!Redeemdebt(x) \/ Eos!Inrevoke(x) \/ Eos!Revokedebt(x)
          \/ Eos!Outrevoke(x)
      BY <2>1 DEF SettleInbound, SettleDebt, CancelInbound, CancelDebt, WithdrawOutbound, OnEos
    <3> QED
      BY <1>4, <3>1 DEF Eos!Next, Eos!UserNext, Eos!StoremanNext
  <2>2. CASE \/ SettleOutbound(x) \/ CancelOutbound(x) \/ WithdrawInbound(x) \/ WithdrawDebt(x)
    BY <2>2 DEF SettleOutbound, CancelOutbound, WithdrawInbound, WithdrawDebt, OnWan
  <2> QED
    BY <1>4, <2>1, <2>2 DEF Settles, Cancels, Withdraws
<1>5. CASE SetUp
  BY <1>5 DEF SetUp, Eos!Next, Eos!OwnerNext
<1>6. CASE Groups
  BY <1>6 DEF Groups, OnWan
<1>7. CASE Tick
  BY <1>7 DEF Tick, Eos!Next
<1> QED
  BY <1>1, <1>2, <1>3, <1>4, <1>5, <1>6, <1>7 DEF Next

LEMMA StepsOfWan ==
  ASSUME CrossInv, Next
  PROVE  Wan!WanNext \/ UNCHANGED wanVars
<1>1. CASE Opens
  <2>1. ASSUME NEW u \in Users, NEW t \in Tokens, NEW v \in Amounts, NEW x \in XHashes,
               NEW p \in Storemen, OpenInbound(u, t, v, x, p)
        PROVE  UNCHANGED wanVars
    BY <2>1 DEF OpenInbound, OnEos
  <2>2. ASSUME NEW u \in Users, NEW t \in Tokens, NEW v \in Amounts, NEW x \in XHashes,
               NEW p \in Storemen, OpenOutbound(u, t, v, x, p)
        PROVE  Wan!WanNext
    BY <2>2 DEF OpenOutbound, OnWan, Wan!WanNext, Wan!OutboundNext
  <2>3. ASSUME NEW t \in Tokens, NEW v \in Amounts, NEW x \in XHashes,
               NEW src \in Storemen, NEW dst \in Storemen, OpenDebt(t, v, x, src, dst)
        PROVE  UNCHANGED wanVars
    BY <2>3 DEF OpenDebt, OnEos
  <2> QED
    BY <1>1, <2>1, <2>2, <2>3 DEF Opens
<1>2. ASSUME NEW x \in XHashes, Answers(x) PROVE Wan!WanNext \/ UNCHANGED wanVars
  <2>1. CASE AnswerInbound(x)
    <3>1. deals[x] # NoDeal /\ deals[x].kind = "inbound"
      BY <2>1 DEF AnswerInbound, Unanswered, IsOpen
    <3>2. /\ deals[x].from \in Users /\ deals[x].to \in Storemen
          /\ deals[x].token \in Tokens /\ deals[x].value \in Amounts
      BY <1>2, <3>1, PartiesOfDeal
    <3>3. Wan!InSmgLock(deals[x].from, deals[x].token, deals[x].value, x, deals[x].to)
      BY <2>1 DEF AnswerInbound, OnWan
    <3> QED
      BY <1>2, <3>2, <3>3 DEF Wan!WanNext, Wan!InboundNext
  <2>2. CASE AnswerDebt(x)
    <3>1. deals[x] # NoDeal /\ deals[x].kind = "debt"
      BY <2>2 DEF AnswerDebt, Unanswered, IsOpen
    <3>2. /\ deals[x].from \in Storemen /\ deals[x].to \in Storemen
          /\ deals[x].token \in Tokens /\ deals[x].value \in Amounts
      BY <1>2, <3>1, PartiesOfDeal
    <3>3. Wan!InDebtLock(deals[x].token, x, deals[x].from, deals[x].value, deals[x].to)
      BY <2>2 DEF AnswerDebt, OnWan
    <3> QED
      BY <1>2, <3>2, <3>3 DEF Wan!WanNext, Wan!DebtNext
  <2>3. CASE AnswerOutbound(x)
    BY <2>3 DEF AnswerOutbound, OnEos
  <2> QED
    BY <1>2, <2>1, <2>2, <2>3 DEF Answers
<1>3. ASSUME NEW x \in XHashes, Takes(x) PROVE Wan!WanNext \/ UNCHANGED wanVars
  <2>1. CASE TakeInbound(x)
    <3>1. Wan!InUserRedeem(deals[x].from, x) /\ deals[x] # NoDeal
      BY <2>1 DEF TakeInbound, OnWan, Second
    <3>2. smgTxs[x].status = "Locked"
      BY <3>1 DEF Wan!InUserRedeem, Wan!IsLocked
    <3>3. deals[x].from \in Users
      BY <1>3, <3>1, <3>2, LegsOf, PartiesOfDeal DEF LegsAgree, SecondOpen
    <3> QED
      BY <1>3, <3>1, <3>3 DEF Wan!WanNext, Wan!InboundNext
  <2>2. CASE TakeDebt(x)
    <3>1. Wan!InDebtRedeem(x)
      BY <2>2 DEF TakeDebt, OnWan
    <3> QED
      BY <1>3, <3>1 DEF Wan!WanNext, Wan!DebtNext
  <2>3. CASE TakeOutbound(x)
    BY <2>3 DEF TakeOutbound, OnEos
  <2> QED
    BY <1>3, <2>1, <2>2, <2>3 DEF Takes
<1>4. ASSUME NEW x \in XHashes, Settles(x) \/ Cancels(x) \/ Withdraws(x)
      PROVE  Wan!WanNext \/ UNCHANGED wanVars
  <2>1. CASE \/ SettleOutbound(x) \/ CancelOutbound(x) \/ WithdrawInbound(x) \/ WithdrawDebt(x)
    <3>1. \/ Wan!OutSmgRedeem(x) \/ Wan!OutUserRevoke(x) \/ Wan!InSmgRevoke(x)
          \/ Wan!InDebtRevoke(x)
      BY <2>1 DEF SettleOutbound, CancelOutbound, WithdrawInbound, WithdrawDebt, OnWan
    <3> QED
      BY <1>4, <3>1 DEF Wan!WanNext, Wan!OutboundNext, Wan!InboundNext, Wan!DebtNext
  <2>2. CASE \/ SettleInbound(x) \/ SettleDebt(x) \/ CancelInbound(x) \/ CancelDebt(x)
             \/ WithdrawOutbound(x)
    BY <2>2 DEF SettleInbound, SettleDebt, CancelInbound, CancelDebt, WithdrawOutbound, OnEos
  <2> QED
    BY <1>4, <2>1, <2>2 DEF Settles, Cancels, Withdraws
<1>5. CASE SetUp
  BY <1>5 DEF SetUp, Wan!WanNext, Wan!AdminNext
<1>6. CASE Groups
  <2>1. PICK t \in Tokens, p \in Storemen :
          \/ \E q \in Quotas : Wan!AddStoremanGroup(t, p, q, 0)
          \/ Wan!DeactivateStoremanGroup(t, p)
          \/ Wan!DelStoremanGroup(t, p)
    BY <1>6 DEF Groups, OnWan
  <2>2. Wan!AdminNext
    BY <2>1 DEF Wan!AdminNext
  <2> QED
    BY <2>2 DEF Wan!WanNext
<1>7. CASE Tick
  BY <1>7 DEF Tick, Wan!WanNext
<1> QED
  BY <1>1, <1>2, <1>3, <1>4, <1>5, <1>6, <1>7 DEF Next

(* Whatever the parties do in a swap is something the contract on EOS      *)
(* allows: its behaviour here is one it has by itself.                     *)
THEOREM SwapsRunOnEos == Spec => Eos!Spec
<1>1. Init => CrossInv /\ Eos!Init
  BY InitCross DEF Init
<1>2. CrossInv /\ [Next]_crossVars => CrossInv'
  BY NextCross
<1>3. CrossInv /\ [Next]_crossVars => [Eos!Next]_(Eos!vars)
  BY StepsOfEos DEF crossVars, eosVars, Eos!vars
<1> QED
  BY <1>1, <1>2, <1>3, PTL DEF Spec, Eos!Spec

(* And so is its behaviour on Wanchain. *)
THEOREM SwapsRunOnWan == Spec => Wan!WanSpec
<1>1. Init => CrossInv /\ Wan!WanInit
  BY InitCross DEF Init
<1>2. CrossInv /\ [Next]_crossVars => CrossInv'
  BY NextCross
<1>3. CrossInv /\ [Next]_crossVars => [Wan!WanNext]_(Wan!wanVars)
  BY StepsOfWan DEF crossVars, wanVars, Wan!wanVars
<1> QED
  BY <1>1, <1>2, <1>3, PTL DEF Spec, Wan!WanSpec


-----------------------------------------------------------------------------
(* The invariant of the backing *)

Keys == [Eos!Pids -> Storemen \cup {NoRow}]
QuotaTable == [Tokens -> [Storemen -> Wan!Quota]]

BooksOK ==
  /\ pks \in Keys
  /\ assets \in Eos!Book(Nat)
  /\ \A i \in Eos!Pids : pks[i] = NoRow => \A t \in Tokens : assets[i][t] = NoRow

(* A group that is gone owes nothing: it is added anew with no debt. *)
GoneOweNothing(q) ==
  \A t \in Tokens, p \in Storemen : q[t][p].quota = 0 => q[t][p].debt = 0

QuotasOK == quotas \in QuotaTable /\ GoneOweNothing(quotas)

(* A debt that has been answered, and one whose secret is public. *)
Entered(d) == FirstOpen(d, "debt") /\ d.second \in {"locked", "redeemed"}
Waiting(d) == FirstOpen(d, "debt") /\ Revealed(d)

(* The rows of a swap on EOS stand under the ids of its parties. *)
KeyOK(keys, tr, de, d) ==
  /\ IsInlock(tr) \/ IsOutlock(tr) => keys[tr.pid] = d.to
  /\ FirstOpen(d, "debt") => keys[de.pid] = d.from
  /\ Entered(d) => keys[de.npid] = d.to

KeysOK == \A x \in XHashes : KeyOK(pks, transfers[x], debts[x], deals[x])

(* No group hands over its assets while it is to receive others: its key   *)
(* would be erased with the last of its assets.                            *)
InOrder ==
  \A x, y \in XHashes :
    x # y /\ Waiting(deals[x]) /\ Entered(deals[y]) => deals[x].from # deals[y].to

(* A debt that has been answered is between two groups. *)
TwoParties ==
  \A x \in XHashes :
    deals[x] # NoDeal /\ deals[x].kind = "debt" /\ deals[x].second # "none"
      => deals[x].from # deals[x].to

KindsOK == \A x \in XHashes : deals[x] # NoDeal => deals[x].kind \in Kinds

-----------------------------------------------------------------------------
(* The account of a group in a token *)

(* What stands under the ids of group p. *)
HeldOf(keys, book, p, t) ==
  [i \in Eos!Pids |-> IF keys[i] = p THEN Eos!Balance(book, i, t) ELSE 0]

Waits(d, kind, t) == FirstOpen(d, kind) /\ Revealed(d) /\ d.token = t

(* What one swap adds to the three sums of Holdings and Owes. *)
InFor(d, p, t) ==
  IF (Waits(d, "inbound", t) \/ Waits(d, "debt", t)) /\ d.to = p THEN d.value ELSE 0
FromFor(d, p, t) == IF Waits(d, "debt", t) /\ d.from = p THEN d.value ELSE 0
OutFor(d, p, t) == IF Waits(d, "outbound", t) /\ d.to = p THEN d.value ELSE 0

InOf(table, p, t) == [x \in XHashes |-> InFor(table[x], p, t)]
FromOf(table, p, t) == [x \in XHashes |-> FromFor(table[x], p, t)]
OutOf(table, p, t) == [x \in XHashes |-> OutFor(table[x], p, t)]

Held(keys, book, p, t) == SumOf(HeldOf(keys, book, p, t), Eos!Pids)
Coming(table, p, t) == SumOf(InOf(table, p, t), XHashes)
Going(table, p, t) == SumOf(FromOf(table, p, t), XHashes)
Burning(table, p, t) == SumOf(OutOf(table, p, t), XHashes)

BalancedAt(keys, book, table, q, p, t) ==
  Held(keys, book, p, t) + Coming(table, p, t) - Going(table, p, t)
    = q[t][p].debt - Burning(table, p, t)

Balanced ==
  \A p \in Storemen, t \in Tokens : BalancedAt(pks, assets, deals, quotas, p, t)

BackInv ==
  CrossInv /\ BooksOK /\ QuotasOK /\ KeysOK /\ InOrder /\ TwoParties /\ KindsOK /\ Balanced

-----------------------------------------------------------------------------
(* The sums of the property are these. *)

LEMMA PidsAreFinite == IsFiniteSet(Eos!Pids) /\ Eos!Pids \subseteq Nat /\ NoRow \notin Nat \cup Storemen
BY CrossConstants, FS_Interval DEF CrossConstants, Eos!EosConstants, Eos!Pids

LEMMA DealsAreSum ==
  ASSUME NEW xs, IsFiniteSet(xs)
  PROVE  Sum(xs) = SumOf([x \in xs |-> deals[x].value], xs)
<1> DEFINE f == [x \in xs |-> deals[x].value]
           body(it) == [s \in SUBSET xs |->
                          IF s = {} THEN 0
                          ELSE deals[AnyOf(s)].value + it[s \ {AnyOf(s)}]]
           sol == CHOOSE it : it = body(it)
<1>1. ASSUME NEW it PROVE it = body(it) <=> Recursion(f, xs, it)
  <2>1. \A s \in SUBSET xs : s # {} => f[AnyOf(s)] = deals[AnyOf(s)].value
    BY DEF AnyOf
  <2> HIDE DEF f
  <2> QED
    BY <2>1 DEF Recursion
<1>2. Sum(xs) = sol[xs]
  BY DEF Sum, MapThenSumSet, MapThenFoldSet, AnyOf
<1> HIDE DEF f, body
<1>3. \E it : it = body(it)
  BY <1>1, RecursionExists
<1>4. sol = body(sol)
  BY <1>3, Zenon
<1>5. Recursion(f, xs, sol)
  BY <1>1, <1>4
<1> QED
  BY <1>2, <1>5, SolvedIsSum DEF f

HeldNow(p, t) ==
  MapThenSumSet(LAMBDA i : IF pks[i] = p THEN Eos!Balance(assets, i, t) ELSE 0, 0..MaxPid)

LEMMA HeldNowIs ==
  ASSUME NEW p, NEW t
  PROVE  HeldNow(p, t) = Held(pks, assets, p, t)
<1> DEFINE xs == 0..MaxPid
           f == [i \in xs |-> IF pks[i] = p THEN Eos!Balance(assets, i, t) ELSE 0]
           body(it) == [s \in SUBSET xs |->
                          IF s = {} THEN 0
                          ELSE (IF pks[AnyOf(s)] = p THEN Eos!Balance(assets, AnyOf(s), t) ELSE 0)
                               + it[s \ {AnyOf(s)}]]
           sol == CHOOSE it : it = body(it)
<1>1. ASSUME NEW it PROVE it = body(it) <=> Recursion(f, xs, it)
  <2>1. \A s \in SUBSET xs : s # {} =>
          f[AnyOf(s)] = IF pks[AnyOf(s)] = p THEN Eos!Balance(assets, AnyOf(s), t) ELSE 0
    BY DEF AnyOf
  <2> HIDE DEF f, xs
  <2> QED
    BY <2>1 DEF Recursion
<1>2. HeldNow(p, t) = sol[xs]
  BY DEF HeldNow, MapThenSumSet, MapThenFoldSet, AnyOf
<1>3. IsFiniteSet(xs) /\ xs = Eos!Pids
  BY PidsAreFinite DEF Eos!Pids
<1> HIDE DEF f, body, xs
<1>4. \E it : it = body(it)
  BY <1>1, <1>3, RecursionExists
<1>5. sol = body(sol)
  BY <1>4, Zenon
<1>6. Recursion(f, xs, sol)
  BY <1>1, <1>5
<1>7. HeldNow(p, t) = SumOf(f, xs)
  BY <1>2, <1>3, <1>6, SolvedIsSum
<1>8. f = HeldOf(pks, assets, p, t)
  BY <1>3 DEF f, HeldOf
<1> QED
  BY <1>3, <1>7, <1>8, Zenon DEF Held

(* Deals that count are deals with an amount. *)
DealTable == [XHashes -> Deals \cup {NoDeal}]

LEMMA DealValues == \A d \in Deals \cup {NoDeal} : d # NoDeal => d.value \in Nat
BY Shapes DEF Deals, UserDeal, DebtDeal

LEMMA SumsCount ==
  ASSUME IsFiniteSet(XHashes), NEW table \in DealTable, NEW p, NEW t
  PROVE  /\ Counts(InOf(table, p, t), XHashes) /\ Coming(table, p, t) \in Nat
         /\ Counts(FromOf(table, p, t), XHashes) /\ Going(table, p, t) \in Nat
         /\ Counts(OutOf(table, p, t), XHashes) /\ Burning(table, p, t) \in Nat
<1>1. \A x \in XHashes : table[x] # NoDeal => table[x].value \in Nat
  BY DealValues DEF DealTable
<1>2. /\ Counts(InOf(table, p, t), XHashes) /\ Counts(FromOf(table, p, t), XHashes)
      /\ Counts(OutOf(table, p, t), XHashes)
  BY <1>1 DEF Counts, InOf, FromOf, OutOf, InFor, FromFor, OutFor, Waits, FirstOpen
<1> QED
  BY <1>2, SumStep DEF Coming, Going, Burning

LEMMA SumOfDeals ==
  ASSUME IsFiniteSet(XHashes), deals \in DealTable, NEW xs \in SUBSET XHashes, NEW f, Counts(f, XHashes),
         \A x \in xs : f[x] = deals[x].value, \A x \in XHashes \ xs : f[x] = 0
  PROVE  Sum(xs) = SumOf(f, XHashes)
<1> DEFINE g == [x \in xs |-> deals[x].value]
<1>1. IsFiniteSet(xs) /\ \A x \in xs : g[x] = f[x]
  BY FS_Subset
<1>2. Sum(xs) = SumOf(g, xs)
  BY <1>1, DealsAreSum
<1> HIDE DEF g
<1>3. SumOf(g, xs) = SumOf(f, XHashes)
  BY <1>1, SumSupport
<1> QED
  BY <1>2, <1>3

LEMMA BalancedIsBacked ==
  ASSUME IsFiniteSet(XHashes), BackInv
  PROVE  EveryTokenIsBacked
<1> SUFFICES ASSUME NEW p \in Storemen, NEW t \in Tokens
             PROVE  Holdings(p, t) = Owes(p, t)
  BY DEF EveryTokenIsBacked
<1> DEFINE in == {x \in Unsettled("inbound", t) \cup Unsettled("debt", t) : deals[x].to = p}
           from == {x \in Unsettled("debt", t) : deals[x].from = p}
           out == {x \in Unsettled("outbound", t) : deals[x].to = p}
<1>1. deals \in DealTable
  BY DEF BackInv, CrossInv, Tables, DealTable
<1>2. /\ in \in SUBSET XHashes /\ from \in SUBSET XHashes /\ out \in SUBSET XHashes
      /\ \A x \in XHashes, kind \in {"inbound", "outbound", "debt"} :
           x \in Unsettled(kind, t) <=> Waits(deals[x], kind, t)
  BY DEF Unsettled, Waits, IsOpen, Public, FirstOpen, Revealed
<1>3. Sum(in) = Coming(deals, p, t)
  <2>1. /\ \A x \in in : InOf(deals, p, t)[x] = deals[x].value
        /\ \A x \in XHashes \ in : InOf(deals, p, t)[x] = 0
    BY <1>2 DEF InOf, InFor
  <2> QED
    BY <1>1, <1>2, <2>1, SumsCount, SumOfDeals DEF Coming
<1>4. Sum(from) = Going(deals, p, t)
  <2>1. /\ \A x \in from : FromOf(deals, p, t)[x] = deals[x].value
        /\ \A x \in XHashes \ from : FromOf(deals, p, t)[x] = 0
    BY <1>2 DEF FromOf, FromFor
  <2> QED
    BY <1>1, <1>2, <2>1, SumsCount, SumOfDeals DEF Going
<1>5. Sum(out) = Burning(deals, p, t)
  <2>1. /\ \A x \in out : OutOf(deals, p, t)[x] = deals[x].value
        /\ \A x \in XHashes \ out : OutOf(deals, p, t)[x] = 0
    BY <1>2 DEF OutOf, OutFor
  <2> QED
    BY <1>1, <1>2, <2>1, SumsCount, SumOfDeals DEF Burning
<1>6. /\ Holdings(p, t) = HeldNow(p, t) + Sum(in) - Sum(from)
      /\ Owes(p, t) = quotas[t][p].debt - Sum(out)
  BY DEF Holdings, HeldNow, Owes
<1>7. BalancedAt(pks, assets, deals, quotas, p, t)
  BY DEF BackInv, Balanced
<1> HIDE DEF in, from, out
<1> QED
  BY <1>3, <1>4, <1>5, <1>6, <1>7, HeldNowIs DEF BalancedAt

-----------------------------------------------------------------------------
(* How the sums change *)

(* A deal counts anew. *)
LEMMA SumsMove ==
  ASSUME IsFiniteSet(XHashes), NEW table \in DealTable, NEW ntable \in DealTable, NEW x \in XHashes,
         \A y \in XHashes \ {x} : ntable[y] = table[y], NEW p, NEW t
  PROVE  /\ Coming(ntable, p, t) = Coming(table, p, t) - InFor(table[x], p, t) + InFor(ntable[x], p, t)
         /\ Going(ntable, p, t) = Going(table, p, t) - FromFor(table[x], p, t) + FromFor(ntable[x], p, t)
         /\ Burning(ntable, p, t)
              = Burning(table, p, t) - OutFor(table[x], p, t) + OutFor(ntable[x], p, t)
<1>1. /\ Counts(InOf(table, p, t), XHashes) /\ Counts(InOf(ntable, p, t), XHashes)
      /\ Counts(FromOf(table, p, t), XHashes) /\ Counts(FromOf(ntable, p, t), XHashes)
      /\ Counts(OutOf(table, p, t), XHashes) /\ Counts(OutOf(ntable, p, t), XHashes)
  BY SumsCount
<1>2. /\ \A y \in XHashes \ {x} : InOf(ntable, p, t)[y] = InOf(table, p, t)[y]
      /\ InOf(table, p, t)[x] = InFor(table[x], p, t)
      /\ InOf(ntable, p, t)[x] = InFor(ntable[x], p, t)
  BY DEF InOf
<1>3. /\ \A y \in XHashes \ {x} : FromOf(ntable, p, t)[y] = FromOf(table, p, t)[y]
      /\ FromOf(table, p, t)[x] = FromFor(table[x], p, t)
      /\ FromOf(ntable, p, t)[x] = FromFor(ntable[x], p, t)
  BY DEF FromOf
<1>4. /\ \A y \in XHashes \ {x} : OutOf(ntable, p, t)[y] = OutOf(table, p, t)[y]
      /\ OutOf(table, p, t)[x] = OutFor(table[x], p, t)
      /\ OutOf(ntable, p, t)[x] = OutFor(ntable[x], p, t)
  BY DEF OutOf
<1>5. SumOf(InOf(ntable, p, t), XHashes)
        = SumOf(InOf(table, p, t), XHashes) - InOf(table, p, t)[x] + InOf(ntable, p, t)[x]
  BY <1>1, <1>2, SumUpdate
<1>6. SumOf(FromOf(ntable, p, t), XHashes)
        = SumOf(FromOf(table, p, t), XHashes) - FromOf(table, p, t)[x] + FromOf(ntable, p, t)[x]
  BY <1>1, <1>3, SumUpdate
<1>7. SumOf(OutOf(ntable, p, t), XHashes)
        = SumOf(OutOf(table, p, t), XHashes) - OutOf(table, p, t)[x] + OutOf(ntable, p, t)[x]
  BY <1>1, <1>4, SumUpdate
<1> QED
  BY <1>2, <1>3, <1>4, <1>5, <1>6, <1>7, Zenon DEF Coming, Going, Burning

LEMMA HeldCounts ==
  ASSUME NEW keys, NEW book \in Eos!Book(Nat), NEW p, NEW t \in Tokens
  PROVE  Counts(HeldOf(keys, book, p, t), Eos!Pids) /\ Held(keys, book, p, t) \in Nat
<1>1. \A i \in Eos!Pids : HeldOf(keys, book, p, t)[i] \in Nat
  BY DEF HeldOf, Eos!Balance, Eos!Book
<1> QED
  BY <1>1, PidsAreFinite, SumStep DEF Counts, Held

(* A key that comes or goes where nothing stands is of no account. *)
LEMMA HeldByOthers ==
  ASSUME NEW keys, NEW nkeys, NEW book \in Eos!Book(Nat), NEW p, NEW t \in Tokens,
         \A i \in Eos!Pids : nkeys[i] # keys[i] => book[i][t] = NoRow
  PROVE  Held(nkeys, book, p, t) = Held(keys, book, p, t)
<1>1. \A i \in Eos!Pids : HeldOf(nkeys, book, p, t)[i] = HeldOf(keys, book, p, t)[i]
  BY DEF HeldOf, Eos!Balance
<1> QED
  BY <1>1, PidsAreFinite, SumSame, Zenon DEF Held

(* A book where the balance of i in token s changes by v, and no other. *)
BookMoves(book, nbook, i, s, v) ==
  \A j \in Eos!Pids, r \in Tokens :
    Eos!Balance(nbook, j, r) = Eos!Balance(book, j, r) + IF j = i /\ r = s THEN v ELSE 0

LEMMA HeldMoves ==
  ASSUME NEW keys \in Keys, NEW book \in Eos!Book(Nat), NEW nbook \in Eos!Book(Nat),
         NEW i \in Eos!Pids, NEW s \in Tokens, NEW v \in Int, BookMoves(book, nbook, i, s, v),
         NEW p, NEW t \in Tokens
  PROVE  Held(keys, nbook, p, t)
           = Held(keys, book, p, t) + IF keys[i] = p /\ t = s THEN v ELSE 0
<1> DEFINE f == HeldOf(keys, book, p, t)
           g == HeldOf(keys, nbook, p, t)
<1>1. Counts(f, Eos!Pids) /\ Counts(g, Eos!Pids) /\ Held(keys, book, p, t) \in Nat
  BY HeldCounts
<1>2. /\ \A j \in Eos!Pids \ {i} : Eos!Balance(nbook, j, t) = Eos!Balance(book, j, t)
      /\ Eos!Balance(nbook, i, t) = Eos!Balance(book, i, t) + IF t = s THEN v ELSE 0
  <2>1. \A j \in Eos!Pids, r \in Tokens : Eos!Balance(book, j, r) \in Nat
    BY DEF Eos!Balance, Eos!Book
  <2> QED
    BY <2>1 DEF BookMoves
<1>3. /\ \A j \in Eos!Pids \ {i} : g[j] = f[j]
      /\ f[i] \in Nat /\ g[i] = f[i] + IF keys[i] = p /\ t = s THEN v ELSE 0
  <2>1. \A j \in Eos!Pids \ {i} : g[j] = f[j]
    BY <1>2 DEF HeldOf
  <2>2. f[i] = IF keys[i] = p THEN Eos!Balance(book, i, t) ELSE 0
    BY DEF HeldOf
  <2>3. g[i] = IF keys[i] = p THEN Eos!Balance(nbook, i, t) ELSE 0
    BY DEF HeldOf
  <2>4. f[i] \in Nat
    BY <1>1 DEF Counts
  <2> HIDE DEF f, g
  <2> QED
    BY <1>2, <2>1, <2>2, <2>3, <2>4
<1>4. SumOf(g, Eos!Pids) = SumOf(f, Eos!Pids) - f[i] + g[i]
  BY <1>1, <1>3, SumUpdate
<1>5. Held(keys, nbook, p, t) = SumOf(g, Eos!Pids) /\ Held(keys, book, p, t) = SumOf(f, Eos!Pids)
  BY Zenon DEF Held
<1> HIDE DEF f, g
<1> QED
  BY <1>1, <1>3, <1>4, <1>5

(* The balances after an addition and a subtraction. *)
LEMMA Added ==
  ASSUME NEW book \in Eos!Book(Nat), NEW i \in Eos!Pids, NEW s \in Tokens, NEW v \in Nat
  PROVE  /\ Eos!AddTo(book, i, s, v) \in Eos!Book(Nat)
         /\ \A j \in Eos!Pids, r \in Tokens :
              j # i => Eos!AddTo(book, i, s, v)[j][r] = book[j][r]
         /\ BookMoves(book, Eos!AddTo(book, i, s, v), i, s, v)
<1> DEFINE b == Eos!Balance(book, i, s)
           nbook == Eos!AddTo(book, i, s, v)
<1>1. b \in Nat /\ b + v \in Nat /\ b + v # NoRow
  <2>1. b \in Nat
    BY DEF Eos!Balance, Eos!Book
  <2>2. b + v \in Nat
    BY <2>1
  <2> QED
    BY <2>1, <2>2, PidsAreFinite
<1>2. /\ nbook \in Eos!Book(Nat)
      /\ \A j \in Eos!Pids, r \in Tokens :
           nbook[j][r] = IF j = i /\ r = s THEN b + v ELSE book[j][r]
  BY <1>1 DEF Eos!AddTo, Eos!Book
<1> HIDE DEF nbook
<1>3. ASSUME NEW j \in Eos!Pids, NEW r \in Tokens
      PROVE  Eos!Balance(nbook, j, r) = Eos!Balance(book, j, r) + IF j = i /\ r = s THEN v ELSE 0
  <2>1. Eos!Balance(book, j, r) \in Nat
    BY DEF Eos!Balance, Eos!Book
  <2>2. CASE j = i /\ r = s
    <3>1. Eos!Balance(nbook, j, r) = b + v
      BY <1>1, <1>2, <2>2 DEF Eos!Balance
    <3> QED
      BY <2>2, <3>1
  <2>3. CASE ~(j = i /\ r = s)
    <3>1. Eos!Balance(nbook, j, r) = Eos!Balance(book, j, r)
      BY <1>2, <2>3 DEF Eos!Balance
    <3> QED
      BY <2>1, <2>3, <3>1
  <2> QED
    BY <2>2, <2>3
<1> QED
  BY <1>2, <1>3 DEF nbook, BookMoves

LEMMA Taken ==
  ASSUME NEW book \in Eos!Book(Nat), NEW i \in Eos!Pids, NEW s \in Tokens, NEW v \in Nat,
         Eos!Enough(book, i, s, v)
  PROVE  /\ Eos!SubFrom(book, i, s, v) \in Eos!Book(Nat)
         /\ \A j \in Eos!Pids, r \in Tokens :
              j # i => Eos!SubFrom(book, i, s, v)[j][r] = book[j][r]
         /\ BookMoves(book, Eos!SubFrom(book, i, s, v), i, s, 0 - v)
<1> DEFINE b == book[i][s]
           left == IF b = v THEN NoRow ELSE b - v
           nbook == Eos!SubFrom(book, i, s, v)
<1>1. b \in Nat /\ b >= v /\ b - v \in Nat /\ b # NoRow
  <2>1. b \in Nat /\ b >= v /\ b # NoRow
    BY DEF Eos!Enough, Eos!Book
  <2> QED
    BY <2>1
<1>2. (IF left = NoRow THEN 0 ELSE left) = b + (0 - v)
  BY <1>1, PidsAreFinite
<1>3. left \in Nat \cup {NoRow}
  BY <1>1
<1> HIDE DEF left
<1>4. /\ nbook \in Eos!Book(Nat)
      /\ \A j \in Eos!Pids, r \in Tokens :
           nbook[j][r] = IF j = i /\ r = s THEN left ELSE book[j][r]
  BY <1>3 DEF Eos!SubFrom, Eos!Book, left
<1> HIDE DEF nbook
<1>5. ASSUME NEW j \in Eos!Pids, NEW r \in Tokens
      PROVE  Eos!Balance(nbook, j, r)
               = Eos!Balance(book, j, r) + IF j = i /\ r = s THEN 0 - v ELSE 0
  <2>1. Eos!Balance(book, j, r) \in Nat
    BY DEF Eos!Balance, Eos!Book
  <2>2. CASE j = i /\ r = s
    <3>1. Eos!Balance(nbook, j, r) = (IF left = NoRow THEN 0 ELSE left)
      BY <1>4, <2>2 DEF Eos!Balance
    <3>2. Eos!Balance(book, j, r) = b
      BY <1>1, <2>2 DEF Eos!Balance
    <3> QED
      BY <1>2, <2>2, <3>1, <3>2
  <2>3. CASE ~(j = i /\ r = s)
    <3>1. Eos!Balance(nbook, j, r) = Eos!Balance(book, j, r)
      BY <1>4, <2>3 DEF Eos!Balance
    <3> QED
      BY <2>1, <2>3, <3>1
  <2> QED
    BY <2>2, <2>3
<1> QED
  BY <1>4, <1>5 DEF nbook, BookMoves

-----------------------------------------------------------------------------
(* An id that is given out was free. *)

LEMMA SmallestNumber ==
  ASSUME NEW S \in SUBSET Nat, S # {}
  PROVE  \E n \in S : \A k \in S : n <= k
<1> DEFINE R == OpToRel(<, Nat)
<1>1. IsWellFoundedOn(R, Nat)
  BY NatLessThanWellFounded
<1>2. \A k, n \in Nat : <<k, n>> \in R <=> k < n
  BY DEF OpToRel
<1> HIDE DEF R
<1>3. PICK n \in S : \A k \in S : <<k, n>> \notin R
  BY <1>1, WFMin
<1>4. \A k \in S : ~(k < n)
  BY <1>2, <1>3
<1> QED
  BY <1>4

LEMMA LastId ==
  ASSUME NEW S \in SUBSET Eos!Pids, S # {}
  PROVE  Eos!Max(S) \in S /\ \A i \in S : Eos!Max(S) >= i
<1> DEFINE D == {k \in Nat : \E i \in S : k = MaxPid - i}
<1>1. MaxPid \in Nat /\ \A i \in S : i \in Nat /\ MaxPid - i \in Nat
  BY CrossConstants DEF CrossConstants, Eos!EosConstants, Eos!Pids
<1>2. D # {} /\ D \in SUBSET Nat
  BY <1>1
<1>3. PICK d \in D : \A e \in D : d <= e
  BY <1>2, SmallestNumber
<1>4. PICK i \in S : d = MaxPid - i
  OBVIOUS
<1>5. \A j \in S : i >= j
  BY <1>1, <1>3, <1>4
<1> QED
  BY <1>5 DEF Eos!Max

LEMMA NewIdIsFree ==
  ASSUME Eos!AvailablePid \in Eos!Pids
  PROVE  pks[Eos!AvailablePid] = NoRow
<1> DEFINE used == {i \in Eos!Pids : pks[i] # NoRow}
<1>1. used \in SUBSET Eos!Pids /\ \A i \in used : i \in Int
  BY DEF Eos!Pids
<1>2. ASSUME used # {}, Eos!AvailablePid \in used
      PROVE  FALSE
  <2>1. Eos!Max(used) \in Int /\ Eos!Max(used) >= Eos!AvailablePid
    BY <1>1, <1>2, LastId
  <2>2. Eos!AvailablePid = Eos!Max(used) + 1
    BY <1>2 DEF Eos!AvailablePid
  <2> QED
    BY <2>1, <2>2
<1> QED
  BY <1>2

(* What a step may do to the keys of ids in use: nothing. *)
KeysStay == pks' \in Keys /\ \A i \in Eos!Pids : pks[i] # NoRow => pks'[i] = pks[i]

LEMMA FoundOrSaved ==
  ASSUME BooksOK, NEW k \in Storemen, NEW i \in Eos!Pids, Eos!FindOrSavePk(k, i)
  PROVE  KeysStay /\ pks'[i] = k
<1>1. CASE Eos!FindPK(k, i) /\ UNCHANGED pks
  BY <1>1 DEF BooksOK, KeysStay, Eos!FindPK
<1>2. CASE i = Eos!AvailablePid /\ pks' = [pks EXCEPT ![i] = k]
  BY <1>2, NewIdIsFree DEF BooksOK, KeysStay, Keys
<1> QED
  BY <1>1, <1>2 DEF Eos!FindOrSavePk

LEMMA SameKeysStay ==
  ASSUME BooksOK, UNCHANGED pks
  PROVE  KeysStay
BY DEF BooksOK, KeysStay

-----------------------------------------------------------------------------
(* What the calls on Wanchain do to the debts of the groups *)

RowIs(table, ntable, t, p, q) == ntable = [table EXCEPT ![t][p] = q]

LEMMA RowChanges ==
  ASSUME NEW table \in QuotaTable, GoneOweNothing(table), NEW t \in Tokens, NEW p \in Storemen,
         NEW q \in Wan!Quota, q.quota = 0 => q.debt = 0,
         NEW ntable, RowIs(table, ntable, t, p, q)
  PROVE  /\ ntable \in QuotaTable /\ GoneOweNothing(ntable)
         /\ \A s \in Tokens, r \in Storemen :
              ntable[s][r] = IF s = t /\ r = p THEN q ELSE table[s][r]
<1>1. /\ ntable \in QuotaTable
      /\ \A s \in Tokens, r \in Storemen :
           ntable[s][r] = IF s = t /\ r = p THEN q ELSE table[s][r]
  BY DEF RowIs, QuotaTable
<1> QED
  BY <1>1 DEF GoneOweNothing

LEMMA RowOf ==
  ASSUME QuotasOK, NEW t \in Tokens, NEW p \in Storemen
  PROVE  quotas[t][p] \in Wan!Quota /\ (quotas[t][p].quota = 0 => quotas[t][p].debt = 0)
BY DEF QuotasOK, QuotaTable, GoneOweNothing

(* The debt of group p in t changes by v, and no other debt does. *)
DebtMoves(t, p, v) ==
  \A s \in Tokens, r \in Storemen :
    quotas'[s][r].debt = quotas[s][r].debt + IF s = t /\ r = p THEN v ELSE 0

DebtsStay == \A s \in Tokens, r \in Storemen : quotas'[s][r].debt = quotas[s][r].debt

LEMMA NewRow ==
  ASSUME QuotasOK, NEW t \in Tokens, NEW p \in Storemen,
         NEW q \in Wan!Quota, q.quota = 0 => q.debt = 0, RowIs(quotas, quotas', t, p, q)
  PROVE  /\ QuotasOK'
         /\ q.debt = quotas[t][p].debt => DebtsStay
         /\ \A v \in Int : q.debt = quotas[t][p].debt + v => DebtMoves(t, p, v)
<1>1. /\ quotas' \in QuotaTable /\ GoneOweNothing(quotas')
      /\ \A s \in Tokens, r \in Storemen :
           quotas'[s][r] = IF s = t /\ r = p THEN q ELSE quotas[s][r]
  BY RowChanges DEF QuotasOK
<1>2. \A s \in Tokens, r \in Storemen : quotas[s][r].debt \in Nat
  BY RowOf DEF Wan!Quota
<1> QED
  BY <1>1, <1>2 DEF QuotasOK, DebtsStay, DebtMoves

LEMMA LocksOweNothing ==
  ASSUME QuotasOK, NEW t \in Tokens, NEW p \in Storemen, NEW v \in Nat,
         \/ Wan!QuotaInLock(t, p, v) \/ Wan!QuotaInRevoke(t, p, v)
         \/ Wan!QuotaOutLock(t, p, v) \/ Wan!QuotaOutRevoke(t, p, v)
  PROVE  QuotasOK' /\ DebtsStay
<1> DEFINE row == quotas[t][p]
<1>1. row \in Wan!Quota /\ (row.quota = 0 => row.debt = 0)
  BY RowOf
<1>2. ASSUME NEW q \in Wan!Quota, q.quota = row.quota, q.debt = row.debt,
             RowIs(quotas, quotas', t, p, q)
      PROVE  QuotasOK' /\ DebtsStay
  BY <1>1, <1>2, NewRow
<1>3. CASE Wan!QuotaInLock(t, p, v)
  <2> DEFINE q == [row EXCEPT !.receivable = @ + v]
  <2>1. q \in Wan!Quota /\ q.quota = row.quota /\ q.debt = row.debt
    BY <1>1 DEF Wan!Quota
  <2>2. RowIs(quotas, quotas', t, p, q)
    BY <1>3 DEF Wan!QuotaInLock, RowIs
  <2> QED
    BY <1>2, <2>1, <2>2
<1>4. CASE Wan!QuotaInRevoke(t, p, v)
  <2> DEFINE q == [row EXCEPT !.receivable = @ - v]
  <2>1. q \in Wan!Quota /\ q.quota = row.quota /\ q.debt = row.debt
    BY <1>1, <1>4 DEF Wan!Quota, Wan!QuotaInRevoke
  <2>2. RowIs(quotas, quotas', t, p, q)
    BY <1>4 DEF Wan!QuotaInRevoke, RowIs
  <2> QED
    BY <1>2, <2>1, <2>2
<1>5. CASE Wan!QuotaOutLock(t, p, v)
  <2> DEFINE q == [row EXCEPT !.payable = @ + v]
  <2>1. q \in Wan!Quota /\ q.quota = row.quota /\ q.debt = row.debt
    BY <1>1 DEF Wan!Quota
  <2>2. RowIs(quotas, quotas', t, p, q)
    BY <1>5 DEF Wan!QuotaOutLock, RowIs
  <2> QED
    BY <1>2, <2>1, <2>2
<1>6. CASE Wan!QuotaOutRevoke(t, p, v)
  <2> DEFINE q == [row EXCEPT !.payable = @ - v]
  <2>1. q \in Wan!Quota /\ q.quota = row.quota /\ q.debt = row.debt
    BY <1>1, <1>6 DEF Wan!Quota, Wan!QuotaOutRevoke
  <2>2. RowIs(quotas, quotas', t, p, q)
    BY <1>6 DEF Wan!QuotaOutRevoke, RowIs
  <2> QED
    BY <1>2, <2>1, <2>2
<1> QED
  BY <1>3, <1>4, <1>5, <1>6

LEMMA OwingIs ==
  ASSUME NEW row \in Wan!Quota, NEW v \in Nat, row.receivable >= v
  PROVE  /\ Wan!Owing(row, v) \in Wan!Quota /\ Wan!Owing(row, v).debt = row.debt + v
         /\ Wan!Owing(row, v).quota = row.quota
<1> DEFINE mid == [row EXCEPT !.receivable = @ - v]
<1>1. mid \in Wan!Quota /\ mid.debt = row.debt /\ mid.quota = row.quota
  BY DEF Wan!Quota
<1>2. Wan!Owing(row, v) = [mid EXCEPT !.debt = @ + v]
  BY DEF Wan!Owing, Wan!Quota
<1> HIDE DEF mid
<1> QED
  BY <1>1, <1>2 DEF Wan!Quota

LEMMA RelievedIs ==
  ASSUME NEW row \in Wan!Quota, NEW v \in Nat, row.payable >= v, row.debt >= v
  PROVE  /\ Wan!Relieved(row, v) \in Wan!Quota /\ Wan!Relieved(row, v).debt = row.debt + (0 - v)
         /\ Wan!Relieved(row, v).quota = row.quota
<1> DEFINE mid == [row EXCEPT !.debt = @ - v]
<1>1. mid \in Wan!Quota /\ mid.debt = row.debt - v /\ mid.quota = row.quota /\ mid.payable = row.payable
  BY DEF Wan!Quota
<1>2. Wan!Relieved(row, v) = [mid EXCEPT !.payable = @ - v]
  BY DEF Wan!Relieved, Wan!Quota
<1> HIDE DEF mid
<1> QED
  BY <1>1, <1>2 DEF Wan!Quota

LEMMA MintOwes ==
  ASSUME QuotasOK, NEW t \in Tokens, NEW p \in Storemen, NEW v \in Nat, Wan!QuotaInRedeem(t, p, v)
  PROVE  QuotasOK' /\ DebtMoves(t, p, v)
<1>1. /\ RowIs(quotas, quotas', t, p, Wan!Owing(quotas[t][p], v))
      /\ quotas[t][p].receivable >= v /\ quotas[t][p].quota # 0
  BY DEF Wan!QuotaInRedeem, Wan!IsExist, RowIs
<1> QED
  BY <1>1, RowOf, OwingIs, NewRow

LEMMA BurnRelieves ==
  ASSUME QuotasOK, NEW t \in Tokens, NEW p \in Storemen, NEW v \in Nat, Wan!QuotaOutRedeem(t, p, v)
  PROVE  QuotasOK' /\ DebtMoves(t, p, 0 - v)
<1>1. /\ RowIs(quotas, quotas', t, p, Wan!Relieved(quotas[t][p], v))
      /\ quotas[t][p].payable >= v /\ quotas[t][p].debt >= v /\ quotas[t][p].quota # 0
  BY DEF Wan!QuotaOutRedeem, Wan!IsExist, RowIs
<1> QED
  BY <1>1, RowOf, RelievedIs, NewRow

(* Two rows of a token change, one after the other. *)
TwoRowsAre(t, p, q, r, s) == quotas' = [quotas EXCEPT ![t][p] = q, ![t][r] = s]

LEMMA TwoRowsChange ==
  ASSUME QuotasOK, NEW t \in Tokens, NEW p \in Storemen, NEW r \in Storemen, r # p,
         NEW q \in Wan!Quota, NEW s \in Wan!Quota,
         q.quota = 0 => q.debt = 0, s.quota = 0 => s.debt = 0, TwoRowsAre(t, p, q, r, s)
  PROVE  /\ QuotasOK'
         /\ \A u \in Tokens, o \in Storemen :
              quotas'[u][o] = IF u = t /\ o = p THEN q ELSE IF u = t /\ o = r THEN s ELSE quotas[u][o]
<1>1. /\ quotas' \in QuotaTable
      /\ \A u \in Tokens, o \in Storemen :
           quotas'[u][o] = IF u = t /\ o = p THEN q ELSE IF u = t /\ o = r THEN s ELSE quotas[u][o]
  BY DEF TwoRowsAre, QuotasOK, QuotaTable
<1>2. GoneOweNothing(quotas')
  BY <1>1 DEF QuotasOK, GoneOweNothing
<1> QED
  BY <1>1, <1>2 DEF QuotasOK

LEMMA PendingDebtsOweNothing ==
  ASSUME QuotasOK, NEW t \in Tokens, NEW v \in Nat, NEW src \in Storemen, NEW dst \in Storemen,
         src # dst, Wan!QuotaDebtLock(t, v, src, dst) \/ Wan!QuotaDebtRevoke(t, v, src, dst)
  PROVE  QuotasOK' /\ DebtsStay
<1> DEFINE a == quotas[t][dst]
           b == quotas[t][src]
<1>1. /\ a \in Wan!Quota /\ (a.quota = 0 => a.debt = 0)
      /\ b \in Wan!Quota /\ (b.quota = 0 => b.debt = 0)
  BY RowOf
<1>2. ASSUME NEW q \in Wan!Quota, q.quota = a.quota, q.debt = a.debt,
             NEW s \in Wan!Quota, s.quota = b.quota, s.debt = b.debt,
             TwoRowsAre(t, dst, q, src, s)
      PROVE  QuotasOK' /\ DebtsStay
  BY <1>1, <1>2, TwoRowsChange DEF DebtsStay
<1>3. CASE Wan!QuotaDebtLock(t, v, src, dst)
  <2> DEFINE q == [a EXCEPT !.receivable = @ + v]
             s == [b EXCEPT !.payable = @ + v]
  <2>1. /\ q \in Wan!Quota /\ q.quota = a.quota /\ q.debt = a.debt
        /\ s \in Wan!Quota /\ s.quota = b.quota /\ s.debt = b.debt
    BY <1>1 DEF Wan!Quota
  <2>2. TwoRowsAre(t, dst, q, src, s)
    BY <1>3 DEF Wan!QuotaDebtLock, TwoRowsAre, QuotasOK, QuotaTable
  <2> QED
    BY <1>2, <2>1, <2>2
<1>4. CASE Wan!QuotaDebtRevoke(t, v, src, dst)
  <2> DEFINE q == [a EXCEPT !.receivable = @ - v]
             s == [b EXCEPT !.payable = @ - v]
  <2>1. /\ q \in Wan!Quota /\ q.quota = a.quota /\ q.debt = a.debt
        /\ s \in Wan!Quota /\ s.quota = b.quota /\ s.debt = b.debt
    BY <1>1, <1>4 DEF Wan!Quota, Wan!QuotaDebtRevoke
  <2>2. TwoRowsAre(t, dst, q, src, s)
    BY <1>4 DEF Wan!QuotaDebtRevoke, TwoRowsAre, QuotasOK, QuotaTable
  <2> QED
    BY <1>2, <2>1, <2>2
<1> QED
  BY <1>3, <1>4

(* A debt passes from src to dst. *)
DebtPasses(t, v, src, dst) ==
  \A s \in Tokens, r \in Storemen :
    quotas'[s][r].debt = quotas[s][r].debt + (IF s = t /\ r = dst THEN v ELSE 0)
                                           - (IF s = t /\ r = src THEN v ELSE 0)

LEMMA RedeemedDebtPasses ==
  ASSUME QuotasOK, NEW t \in Tokens, NEW v \in Nat, NEW src \in Storemen, NEW dst \in Storemen,
         src # dst, Wan!QuotaDebtRedeem(t, v, src, dst)
  PROVE  QuotasOK' /\ DebtPasses(t, v, src, dst)
<1> DEFINE a == quotas[t][dst]
           b == quotas[t][src]
           q == Wan!Owing(a, v)
           s == Wan!Relieved(b, v)
<1>1. /\ a \in Wan!Quota /\ (a.quota = 0 => a.debt = 0)
      /\ b \in Wan!Quota /\ (b.quota = 0 => b.debt = 0)
  BY RowOf
<1>2. /\ a.receivable >= v /\ a.quota # 0
      /\ b.payable >= v /\ b.debt >= v /\ b.quota # 0
  BY DEF Wan!QuotaDebtRedeem, Wan!IsExist, Wan!NotActive
<1>3. TwoRowsAre(t, dst, q, src, s)
  BY DEF Wan!QuotaDebtRedeem, TwoRowsAre, QuotasOK, QuotaTable
<1>4. /\ q \in Wan!Quota /\ q.debt = a.debt + v /\ q.quota = a.quota
      /\ s \in Wan!Quota /\ s.debt = b.debt + (0 - v) /\ s.quota = b.quota
  BY <1>1, <1>2, OwingIs, RelievedIs
<1> HIDE DEF q, s
<1>5. /\ QuotasOK'
      /\ \A u \in Tokens, o \in Storemen :
           quotas'[u][o] = IF u = t /\ o = dst THEN q ELSE IF u = t /\ o = src THEN s ELSE quotas[u][o]
  BY <1>1, <1>2, <1>3, <1>4, TwoRowsChange
<1>6. \A u \in Tokens, o \in Storemen : quotas[u][o].debt \in Nat
  BY RowOf DEF Wan!Quota
<1> QED
  BY <1>4, <1>5, <1>6 DEF DebtPasses

LEMMA GroupsOweNothing ==
  ASSUME QuotasOK, NEW t \in Tokens, NEW p \in Storemen,
         \/ \E v \in Nat : Wan!QuotaAdd(t, p, v, 0)
         \/ Wan!QuotaDeactivate(t, p) \/ Wan!QuotaDel(t, p)
  PROVE  QuotasOK' /\ DebtsStay
<1> DEFINE row == quotas[t][p]
<1>1. row \in Wan!Quota /\ (row.quota = 0 => row.debt = 0)
  BY RowOf
<1>2. ASSUME NEW v \in Nat, Wan!QuotaAdd(t, p, v, 0)
      PROVE  QuotasOK' /\ DebtsStay
  <2> DEFINE q == [quota |-> v, ratio |-> 0, receivable |-> 0, payable |-> 0,
                   debt |-> 0, active |-> TRUE]
  <2>1. q \in Wan!Quota /\ q.debt = 0 /\ row.debt = 0
    BY <1>1, <1>2 DEF Wan!Quota, Wan!QuotaAdd, Wan!IsExist
  <2>2. RowIs(quotas, quotas', t, p, q)
    BY <1>2 DEF Wan!QuotaAdd, RowIs
  <2> QED
    BY <2>1, <2>2, NewRow
<1>3. CASE Wan!QuotaDeactivate(t, p)
  <2> DEFINE q == [row EXCEPT !.active = FALSE]
  <2>1. q \in Wan!Quota /\ q.quota = row.quota /\ q.debt = row.debt
    BY <1>1 DEF Wan!Quota
  <2>2. RowIs(quotas, quotas', t, p, q)
    BY <1>3 DEF Wan!QuotaDeactivate, RowIs
  <2> QED
    BY <1>1, <2>1, <2>2, NewRow
<1>4. CASE Wan!QuotaDel(t, p)
  <2>1. Wan!NoQuota \in Wan!Quota /\ Wan!NoQuota.debt = 0 /\ row.debt = 0
    BY <1>4 DEF Wan!Quota, Wan!NoQuota, Wan!QuotaDel, Wan!IsDebtPaidOff
  <2>2. RowIs(quotas, quotas', t, p, Wan!NoQuota)
    BY <1>4 DEF Wan!QuotaDel, RowIs
  <2> QED
    BY <2>1, <2>2, NewRow
<1> QED
  BY <1>2, <1>3, <1>4

LEMMA SameQuotas ==
  ASSUME QuotasOK, UNCHANGED quotas
  PROVE  QuotasOK' /\ DebtsStay
BY DEF QuotasOK, DebtsStay

-----------------------------------------------------------------------------
(* What a step of one swap must leave in order *)

LEMMA SwapAt ==
  ASSUME CrossInv, NEW x \in XHashes
  PROVE  SwapOK(transfers[x], debts[x], userTxs[x], smgTxs[x], debtTxs[x], deals[x])
BY DEF CrossInv, SwapsOK

(* A key in use is that of a group. *)
LEMMA KeyHolds ==
  ASSUME NEW tr, NEW de, NEW ut, NEW st, NEW dt, NEW d, SwapOK(tr, de, ut, st, dt, d),
         NEW keys, KeyOK(keys, tr, de, d),
         NEW nkeys, \A i \in Eos!Pids : keys[i] # NoRow => nkeys[i] = keys[i]
  PROVE  KeyOK(nkeys, tr, de, d)
<1>1. ASSUME IsInlock(tr) \/ IsOutlock(tr)
      PROVE  nkeys[tr.pid] = d.to
  <2>1. d \in Deals /\ tr \in Eos!TransferRow
    BY <1>1 DEF SwapOK, LegsAgree, FirstOpen, SecondOpen, IsInlock, IsOutlock, Transfers
  <2>2. d.to # NoRow /\ tr.pid \in Eos!Pids
    BY <2>1, PidsAreFinite DEF Deals, UserDeal, DebtDeal, Eos!TransferRow
  <2> QED
    BY <1>1, <2>2 DEF KeyOK
<1>2. ASSUME FirstOpen(d, "debt")
      PROVE  nkeys[de.pid] = d.from /\ (Entered(d) => nkeys[de.npid] = d.to)
  <2>1. d \in DebtDeal /\ de \in Eos!DebtRow
    BY <1>2 DEF SwapOK, LegsAgree, FirstOpen, Deals, UserDeal, Debts
  <2>2. d.to # NoRow /\ d.from # NoRow /\ de.pid \in Eos!Pids /\ de.npid \in Eos!Pids
    BY <2>1, PidsAreFinite DEF DebtDeal, Eos!DebtRow
  <2> QED
    BY <1>2, <2>2 DEF KeyOK
<1> QED
  BY <1>1, <1>2 DEF KeyOK, Entered

LEMMA KeysFollow ==
  ASSUME BackInv, NEW x \in XHashes, StepAt(x), KeysStay,
         KeyOK(pks', transfers'[x], debts'[x], deals'[x])
  PROVE  KeysOK'
<1>1. ASSUME NEW y \in XHashes, y # x
      PROVE  KeyOK(pks', transfers'[y], debts'[y], deals'[y])
  <2>1. /\ transfers'[y] = transfers[y] /\ debts'[y] = debts[y] /\ deals'[y] = deals[y]
    BY <1>1 DEF StepAt
  <2>2. KeyOK(pks, transfers[y], debts[y], deals[y])
    BY DEF BackInv, KeysOK
  <2>3. SwapOK(transfers[y], debts[y], userTxs[y], smgTxs[y], debtTxs[y], deals[y])
    BY SwapAt DEF BackInv
  <2>4. KeyOK(pks', transfers[y], debts[y], deals[y])
    BY <2>2, <2>3, KeyHolds DEF KeysStay
  <2> QED
    BY <2>1, <2>4
<1> QED
  BY <1>1 DEF KeysOK

(* What a deal says by itself. *)
DealOK(d) ==
  /\ d # NoDeal => d.kind \in Kinds
  /\ d # NoDeal /\ d.kind = "debt" /\ d.second # "none" => d.from # d.to

(* And what it says beside the deals of other hashes. *)
OrderOK(x, nd) ==
  \A y \in XHashes \ {x} :
    /\ Entered(nd) /\ Waiting(deals[y]) => deals[y].from # nd.to
    /\ Waiting(nd) /\ Entered(deals[y]) => nd.from # deals[y].to

LEMMA DealsFollow ==
  ASSUME BackInv, NEW x \in XHashes, StepAt(x), DealOK(deals'[x]), OrderOK(x, deals'[x])
  PROVE  InOrder' /\ TwoParties' /\ KindsOK'
<1>1. \A y \in XHashes \ {x} : deals'[y] = deals[y]
  BY DEF StepAt
<1>2. InOrder'
  BY <1>1 DEF BackInv, InOrder, OrderOK, Entered, Waiting
<1> QED
  BY <1>1, <1>2 DEF BackInv, TwoParties, KindsOK, DealOK

LEMMA DealsOK ==
  ASSUME BackInv, NEW x \in XHashes
  PROVE  /\ DealOK(deals[x]) /\ OrderOK(x, deals[x])
         /\ KeyOK(pks, transfers[x], debts[x], deals[x])
BY DEF BackInv, InOrder, TwoParties, KindsOK, DealOK, OrderOK, KeysOK

(* A group comes to hold h more and to owe g more, and the deal of x makes *)
(* up the difference.                                                      *)
HeldBy(p, t, h) == h \in Int /\ Held(pks', assets', p, t) = Held(pks, assets, p, t) + h
OwedBy(p, t, g) == g \in Int /\ quotas'[t][p].debt = quotas[t][p].debt + g
MadeUp(x, p, t, h, g) ==
  h + InFor(deals'[x], p, t) - InFor(deals[x], p, t)
    - FromFor(deals'[x], p, t) + FromFor(deals[x], p, t)
    = g - OutFor(deals'[x], p, t) + OutFor(deals[x], p, t)

LEMMA Rebalance ==
  ASSUME IsFiniteSet(XHashes), BackInv, NEW x \in XHashes, StepAt(x),
         NEW p \in Storemen, NEW t \in Tokens, NEW h, NEW g,
         HeldBy(p, t, h), OwedBy(p, t, g), MadeUp(x, p, t, h, g)
  PROVE  BalancedAt(pks', assets', deals', quotas', p, t)
<1>1. /\ deals \in DealTable /\ deals' \in DealTable
      /\ \A y \in XHashes \ {x} : deals'[y] = deals[y]
  BY DEF BackInv, CrossInv, Tables, DealTable, StepAt
<1>2. BalancedAt(pks, assets, deals, quotas, p, t)
  BY DEF BackInv, Balanced
<1>3. /\ Coming(deals', p, t) = Coming(deals, p, t) - InFor(deals[x], p, t) + InFor(deals'[x], p, t)
      /\ Going(deals', p, t) = Going(deals, p, t) - FromFor(deals[x], p, t) + FromFor(deals'[x], p, t)
      /\ Burning(deals', p, t)
              = Burning(deals, p, t) - OutFor(deals[x], p, t) + OutFor(deals'[x], p, t)
  BY <1>1, SumsMove
<1>4. /\ Coming(deals, p, t) \in Nat /\ Going(deals, p, t) \in Nat /\ Burning(deals, p, t) \in Nat
      /\ Held(pks, assets, p, t) \in Nat /\ quotas[t][p].debt \in Nat
  <2>1. quotas[t][p] \in Wan!Quota /\ assets \in Eos!Book(Nat)
    BY RowOf DEF BackInv, BooksOK
  <2> QED
    BY <1>1, <2>1, SumsCount, HeldCounts DEF Wan!Quota
<1>5. /\ \A d \in {deals[x], deals'[x]} :
           InFor(d, p, t) \in Nat /\ FromFor(d, p, t) \in Nat /\ OutFor(d, p, t) \in Nat
  <2>1. \A d \in {deals[x], deals'[x]} : d \in Deals \cup {NoDeal}
    BY <1>1 DEF DealTable
  <2> QED
    BY <2>1, DealValues DEF InFor, FromFor, OutFor, Waits, FirstOpen
<1> DEFINE a == InFor(deals[x], p, t)
           b == InFor(deals'[x], p, t)
           c == FromFor(deals[x], p, t)
           e == FromFor(deals'[x], p, t)
           i == OutFor(deals[x], p, t)
           j == OutFor(deals'[x], p, t)
           H == Held(pks, assets, p, t)
           C == Coming(deals, p, t)
           G == Going(deals, p, t)
           B == Burning(deals, p, t)
           D == quotas[t][p].debt
<1>6. /\ a \in Nat /\ b \in Nat /\ c \in Nat /\ e \in Nat /\ i \in Nat /\ j \in Nat
      /\ H \in Nat /\ C \in Nat /\ G \in Nat /\ B \in Nat /\ D \in Nat
      /\ h \in Int /\ g \in Int
  BY <1>4, <1>5 DEF HeldBy, OwedBy
<1>7. H + C - G = D - B /\ h + b - a - e + c = g - j + i
  BY <1>2 DEF BalancedAt, MadeUp
<1>8. /\ Held(pks', assets', p, t) = H + h /\ quotas'[t][p].debt = D + g
      /\ Coming(deals', p, t) = C - a + b /\ Going(deals', p, t) = G - c + e
      /\ Burning(deals', p, t) = B - i + j
  BY <1>3 DEF HeldBy, OwedBy
<1> HIDE DEF a, b, c, e, i, j, H, C, G, B, D
<1>9. (H + h) + (C - a + b) - (G - c + e) = (D + g) - (B - i + j)
  BY <1>6, <1>7
<1> QED
  BY <1>8, <1>9 DEF BalancedAt

(* The first leg waits, and its secret is public. *)
IsDue(d) == d # NoDeal /\ d.first = "locked" /\ Revealed(d)

LEMMA NothingDue ==
  ASSUME NEW d, ~IsDue(d), NEW p, NEW t
  PROVE  InFor(d, p, t) = 0 /\ FromFor(d, p, t) = 0 /\ OutFor(d, p, t) = 0
BY DEF IsDue, InFor, FromFor, OutFor, Waits, FirstOpen

LEMMA SameHeld ==
  ASSUME BooksOK, KeysStay, UNCHANGED assets, NEW p, NEW t \in Tokens
  PROVE  Held(pks', assets', p, t) = Held(pks, assets, p, t)
<1>1. \A i \in Eos!Pids : pks'[i] # pks[i] => assets[i][t] = NoRow
  BY DEF BooksOK, KeysStay
<1>2. Held(pks', assets, p, t) = Held(pks, assets, p, t)
  BY <1>1, HeldByOthers DEF BooksOK
<1>3. assets' = assets
  OBVIOUS
<1> QED
  BY <1>2, <1>3, Zenon

LEMMA SameBooksOK ==
  ASSUME BooksOK, KeysStay, UNCHANGED assets
  PROVE  BooksOK'
<1>1. pks' \in Keys /\ assets' \in Eos!Book(Nat)
  BY DEF BooksOK, KeysStay
<1>2. \A i \in Eos!Pids : pks'[i] = NoRow => pks[i] = NoRow
  BY DEF KeysStay
<1> QED
  BY <1>1, <1>2 DEF BooksOK

LEMMA NumbersNow ==
  ASSUME BackInv, NEW p \in Storemen, NEW t \in Tokens
  PROVE  Held(pks, assets, p, t) \in Nat /\ quotas[t][p].debt \in Nat
<1>1. quotas[t][p] \in Wan!Quota /\ assets \in Eos!Book(Nat)
  BY RowOf DEF BackInv, BooksOK
<1> QED
  BY <1>1, HeldCounts DEF Wan!Quota

LEMMA DebtStays ==
  ASSUME BackInv, DebtsStay, NEW p \in Storemen, NEW t \in Tokens
  PROVE  OwedBy(p, t, 0)
<1>1. quotas'[t][p].debt = quotas[t][p].debt
  BY DEF DebtsStay
<1> QED
  BY <1>1, NumbersNow DEF OwedBy

(* A step that moves nothing: no leg with a public secret comes or goes. *)
LEMMA QuietStep ==
  ASSUME IsFiniteSet(XHashes), BackInv, NEW x \in XHashes, StepAt(x),
         UNCHANGED assets, KeysStay, QuotasOK', DebtsStay,
         ~IsDue(deals[x]), ~IsDue(deals'[x]),
         DealOK(deals'[x]), OrderOK(x, deals'[x]),
         KeyOK(pks', transfers'[x], debts'[x], deals'[x])
  PROVE  BackInv'
<1>1. CrossInv'
  BY StepAtKeeps DEF BackInv
<1>2. BooksOK'
  BY SameBooksOK DEF BackInv
<1>3. KeysOK' /\ InOrder' /\ TwoParties' /\ KindsOK'
  BY KeysFollow, DealsFollow
<1>4. ASSUME NEW p \in Storemen, NEW t \in Tokens
      PROVE  BalancedAt(pks', assets', deals', quotas', p, t)
  <2>1. HeldBy(p, t, 0)
    <3>1. Held(pks', assets', p, t) = Held(pks, assets, p, t)
      BY SameHeld DEF BackInv
    <3> QED
      BY <3>1, NumbersNow DEF HeldBy
  <2>2. OwedBy(p, t, 0)
    BY DebtStays
  <2>3. /\ InFor(deals[x], p, t) = 0 /\ FromFor(deals[x], p, t) = 0 /\ OutFor(deals[x], p, t) = 0
        /\ InFor(deals'[x], p, t) = 0 /\ FromFor(deals'[x], p, t) = 0 /\ OutFor(deals'[x], p, t) = 0
    BY NothingDue
  <2>4. MadeUp(x, p, t, 0, 0)
    BY <2>3 DEF MadeUp
  <2> QED
    BY <2>1, <2>2, <2>4, Rebalance
<1>5. Balanced'
  BY <1>4 DEF Balanced
<1> QED
  BY <1>1, <1>2, <1>3, <1>5 DEF BackInv

-----------------------------------------------------------------------------
(* Steps that move nothing: locks, and legs that lapse *)

SameParties(nd, d) ==
  /\ d # NoDeal /\ nd # NoDeal /\ nd.kind = d.kind /\ nd.from = d.from /\ nd.to = d.to
  /\ nd.token = d.token /\ nd.value = d.value

LEMMA FirstIs ==
  ASSUME CrossInv, NEW x \in XHashes, NEW o \in {"redeemed", "revoked"}, First(x, o)
  PROVE  /\ SameParties(deals'[x], deals[x])
         /\ deals'[x].first = o /\ deals'[x].second = deals[x].second
<1>1. deals[x] \in Deals /\ deals'[x] = [deals[x] EXCEPT !.first = o]
  BY DEF First, CrossInv, Tables
<1>2. /\ deals'[x].kind = deals[x].kind /\ deals'[x].from = deals[x].from
      /\ deals'[x].to = deals[x].to /\ deals'[x].token = deals[x].token
      /\ deals'[x].value = deals[x].value /\ deals'[x].first = o
      /\ deals'[x].second = deals[x].second
  BY <1>1 DEF Deals, UserDeal, DebtDeal
<1> QED
  BY <1>1, <1>2, Shapes DEF SameParties

LEMMA SecondIs ==
  ASSUME CrossInv, NEW x \in XHashes, NEW o, Second(x, o)
  PROVE  /\ SameParties(deals'[x], deals[x])
         /\ deals'[x].second = o /\ deals'[x].first = deals[x].first
<1>1. deals[x] \in Deals /\ deals'[x] = [deals[x] EXCEPT !.second = o]
  BY DEF Second, CrossInv, Tables
<1>2. /\ deals'[x].kind = deals[x].kind /\ deals'[x].from = deals[x].from
      /\ deals'[x].to = deals[x].to /\ deals'[x].token = deals[x].token
      /\ deals'[x].value = deals[x].value /\ deals'[x].second = o
      /\ deals'[x].first = deals[x].first
  BY <1>1 DEF Deals, UserDeal, DebtDeal
<1>3. deals'[x] # NoDeal
  <2>1. deals[x].first # "none"
    BY <1>1 DEF Deals, UserDeal, DebtDeal
  <2> QED
    BY <1>2, <2>1, Shapes
<1> QED
  BY <1>1, <1>2, <1>3, Shapes DEF SameParties

LEMMA DealStays ==
  ASSUME BackInv, NEW x \in XHashes, NEW nd, SameParties(nd, deals[x]),
         nd.kind = "debt" /\ nd.second # "none" => deals[x].second # "none",
         Entered(nd) => Entered(deals[x]), Waiting(nd) => Waiting(deals[x])
  PROVE  DealOK(nd) /\ OrderOK(x, nd)
<1>1. DealOK(deals[x]) /\ OrderOK(x, deals[x])
  BY DealsOK
<1> QED
  BY <1>1 DEF SameParties, DealOK, OrderOK

LEMMA KeysCarry ==
  ASSUME BackInv, NEW x \in XHashes, KeysStay, NEW ntr, NEW nde, NEW nd, SameParties(nd, deals[x]),
         IsInlock(ntr) \/ IsOutlock(ntr) => ntr = transfers[x],
         FirstOpen(nd, "debt") => FirstOpen(deals[x], "debt") /\ nde = debts[x],
         Entered(nd) => Entered(deals[x])
  PROVE  KeyOK(pks', ntr, nde, nd)
<1>1. KeyOK(pks, transfers[x], debts[x], deals[x])
  BY DealsOK
<1>2. SwapOK(transfers[x], debts[x], userTxs[x], smgTxs[x], debtTxs[x], deals[x])
  BY SwapAt DEF BackInv
<1>3. KeyOK(pks', transfers[x], debts[x], deals[x])
  BY <1>1, <1>2, KeyHolds DEF KeysStay
<1> QED
  BY <1>3 DEF KeyOK, SameParties, Entered

(* A leg closes that nobody can claim, or one opens that changes no key. *)
LEMMA LapsedStep ==
  ASSUME IsFiniteSet(XHashes), BackInv, NEW x \in XHashes, StepAt(x),
         UNCHANGED assets, KeysStay, QuotasOK', DebtsStay,
         SameParties(deals'[x], deals[x]), ~IsDue(deals[x]), ~IsDue(deals'[x]),
         deals'[x].kind = "debt" /\ deals'[x].second # "none" => deals[x].second # "none",
         Entered(deals'[x]) => Entered(deals[x]),
         IsInlock(transfers'[x]) \/ IsOutlock(transfers'[x]) => transfers'[x] = transfers[x],
         FirstOpen(deals'[x], "debt") => FirstOpen(deals[x], "debt") /\ debts'[x] = debts[x]
  PROVE  BackInv'
<1>1. ~Waiting(deals'[x])
  BY DEF Waiting, FirstOpen, IsDue
<1>2. DealOK(deals'[x]) /\ OrderOK(x, deals'[x])
  BY <1>1, DealStays
<1>3. KeyOK(pks', transfers'[x], debts'[x], deals'[x])
  BY KeysCarry
<1> QED
  BY <1>2, <1>3, QuietStep

LEMMA Cancelled ==
  ASSUME CrossInv, NEW x \in XHashes, StepAt(x), First(x, "revoked")
  PROVE  ~IsDue(deals[x]) /\ ~IsDue(deals'[x]) /\ ~FirstOpen(deals'[x], "debt")
<1>1. deals'[x].first = "revoked" /\ deals'[x] # NoDeal /\ Moves(deals[x], deals'[x])
  BY FirstIs DEF StepAt, SameParties
<1>2. PhaseOf(deals'[x]) = "cancelled"
  BY <1>1 DEF PhaseOf
<1> QED
  BY <1>1, <1>2 DEF Moves, PhaseOf, IsDue, Revealed, FirstOpen

LEMMA CancelKeeps ==
  ASSUME IsFiniteSet(XHashes), BackInv, NEW x \in XHashes,
         CancelInbound(x) \/ CancelOutbound(x) \/ CancelDebt(x)
  PROVE  BackInv'
<1>1. CrossInv /\ BooksOK /\ QuotasOK
  BY DEF BackInv
<1>2. StepAt(x) /\ First(x, "revoked")
  BY <1>1, CancelInboundStep, CancelOutboundStep, CancelDebtStep
  DEF CancelInbound, CancelOutbound, CancelDebt
<1>3. UNCHANGED <<assets, pks>>
  BY DEF CancelInbound, CancelOutbound, CancelDebt, OnEos, OnWan, eosVars, Eos!Inrevoke, Eos!Revokedebt
<1>4. QuotasOK' /\ DebtsStay
  <2>1. CASE CancelInbound(x) \/ CancelDebt(x)
    BY <1>1, <2>1, SameQuotas DEF CancelInbound, CancelDebt, OnEos, wanVars
  <2>2. CASE CancelOutbound(x)
    <3>1. /\ userTxs[x].status = "Locked"
          /\ Wan!QuotaOutRevoke(userTxs[x].token, userTxs[x].storeman, userTxs[x].value)
      BY <2>2 DEF CancelOutbound, OnWan, Wan!OutUserRevoke, Wan!IsLocked
    <3>2. userTxs[x] \in Wan!UserTx
      BY <1>1, <3>1, Shapes DEF CrossInv, Tables, UserTxs
    <3>3. userTxs[x].token \in Tokens /\ userTxs[x].storeman \in Storemen /\ userTxs[x].value \in Nat
      BY <3>2 DEF Wan!UserTx
    <3> QED
      BY <1>1, <3>1, <3>3, LocksOweNothing
  <2> QED
    BY <2>1, <2>2
<1>5. KeysStay
  BY <1>1, <1>3, SameKeysStay
<1>6. SameParties(deals'[x], deals[x]) /\ deals'[x].second = deals[x].second
  BY <1>1, <1>2, FirstIs
<1>7. ~IsDue(deals[x]) /\ ~IsDue(deals'[x]) /\ ~FirstOpen(deals'[x], "debt")
  BY <1>1, <1>2, Cancelled
<1>8. ~(IsInlock(transfers'[x]) \/ IsOutlock(transfers'[x])) \/ transfers'[x] = transfers[x]
  BY <1>1
  DEF CrossInv, Tables, CancelInbound, CancelOutbound, CancelDebt, OnEos, OnWan, eosVars,
     Eos!Inrevoke, Eos!Revokedebt, IsInlock, IsOutlock
<1> QED
  BY <1>2, <1>3, <1>4, <1>5, <1>6, <1>7, <1>8, LapsedStep DEF Entered

LEMMA WithdrawKeeps ==
  ASSUME IsFiniteSet(XHashes), BackInv, NEW x \in XHashes,
         WithdrawInbound(x) \/ WithdrawOutbound(x) \/ WithdrawDebt(x)
  PROVE  BackInv'
<1>1. CrossInv /\ BooksOK /\ QuotasOK
  BY DEF BackInv
<1>2. StepAt(x) /\ Second(x, "revoked")
  BY <1>1, WithdrawInboundStep, WithdrawOutboundStep, WithdrawDebtStep
  DEF WithdrawInbound, WithdrawOutbound, WithdrawDebt
<1>3. UNCHANGED <<assets, pks, debts>>
  BY DEF WithdrawInbound, WithdrawOutbound, WithdrawDebt, OnEos, OnWan, eosVars, Eos!Outrevoke
<1>a. SwapOK(transfers[x], debts[x], userTxs[x], smgTxs[x], debtTxs[x], deals[x])
  BY <1>1, SwapAt
<1>4. QuotasOK' /\ DebtsStay /\ deals[x].second = "locked"
  <2>1. CASE WithdrawOutbound(x)
    <3>1. IsOutlock(transfers[x]) /\ UNCHANGED quotas
      BY <2>1 DEF WithdrawOutbound, OnEos, Eos!Outrevoke, wanVars, IsOutlock
    <3>2. deals[x].second = "locked"
      BY <1>a, <3>1 DEF SwapOK, LegsAgree, SecondOpen
    <3> QED
      BY <1>1, <3>1, <3>2, SameQuotas
  <2>2. CASE WithdrawInbound(x)
    <3>1. /\ smgTxs[x].status = "Locked"
          /\ Wan!QuotaInRevoke(smgTxs[x].token, smgTxs[x].storeman, smgTxs[x].value)
      BY <2>2 DEF WithdrawInbound, OnWan, Wan!InSmgRevoke, Wan!IsLocked
    <3>2. smgTxs[x] \in Wan!SmgTx
      BY <1>1, <3>1, Shapes DEF CrossInv, Tables, SmgTxs
    <3>3. smgTxs[x].token \in Tokens /\ smgTxs[x].storeman \in Storemen /\ smgTxs[x].value \in Nat
      BY <3>2 DEF Wan!SmgTx
    <3>4. deals[x].second = "locked"
      BY <1>a, <3>1 DEF SwapOK, LegsAgree, SecondOpen
    <3> QED
      BY <1>1, <3>1, <3>3, <3>4, LocksOweNothing
  <2>3. CASE WithdrawDebt(x)
    <3>1. /\ debtTxs[x].status = "Locked"
          /\ Wan!QuotaDebtRevoke(debtTxs[x].token, debtTxs[x].value, debtTxs[x].src,
                                 debtTxs[x].storeman)
      BY <2>3 DEF WithdrawDebt, OnWan, Wan!InDebtRevoke, Wan!IsLocked
    <3>2. debtTxs[x] \in Wan!DebtTx
      BY <1>1, <3>1, Shapes DEF CrossInv, Tables, DebtTxs
    <3>3. /\ debtTxs[x].token \in Tokens /\ debtTxs[x].storeman \in Storemen
          /\ debtTxs[x].value \in Nat /\ debtTxs[x].src \in Storemen
      BY <3>2 DEF Wan!DebtTx
    <3>4. SecondOpen(deals[x], "debt")
      BY <1>a, <3>1 DEF SwapOK, LegsAgree
    <3>5. debtTxs[x].src = deals[x].from /\ debtTxs[x].storeman = deals[x].to
      BY <1>a, <3>1 DEF SwapOK, TermsAgree
    <3>6. debtTxs[x].src # debtTxs[x].storeman
      BY <3>4, <3>5 DEF BackInv, TwoParties, SecondOpen
    <3> QED
      BY <1>1, <3>1, <3>3, <3>4, <3>6, PendingDebtsOweNothing DEF SecondOpen
  <2> QED
    BY <2>1, <2>2, <2>3
<1>5. KeysStay
  BY <1>1, <1>3, SameKeysStay
<1>6. /\ SameParties(deals'[x], deals[x]) /\ deals'[x].second = "revoked"
      /\ deals'[x].first = deals[x].first
  BY <1>1, <1>2, SecondIs
<1>7. ~(IsInlock(transfers'[x]) \/ IsOutlock(transfers'[x])) \/ transfers'[x] = transfers[x]
  BY <1>1
  DEF CrossInv, Tables, WithdrawInbound, WithdrawOutbound, WithdrawDebt, OnEos, OnWan, eosVars,
     Eos!Outrevoke, IsInlock, IsOutlock
<1>8. ~IsDue(deals[x]) /\ ~IsDue(deals'[x]) /\ ~Entered(deals'[x])
  BY <1>4, <1>6 DEF IsDue, Revealed, Entered
<1>9. FirstOpen(deals'[x], "debt") => FirstOpen(deals[x], "debt") /\ debts'[x] = debts[x]
  BY <1>3, <1>6 DEF FirstOpen, SameParties
<1> QED
  BY <1>2, <1>3, <1>4, <1>5, <1>6, <1>7, <1>8, <1>9, LapsedStep

LEMMA AnswerInboundKeeps ==
  ASSUME IsFiniteSet(XHashes), BackInv, NEW x \in XHashes, AnswerInbound(x)
  PROVE  BackInv'
<1>1. CrossInv /\ BooksOK /\ QuotasOK
  BY DEF BackInv
<1>2. /\ StepAt(x) /\ Second(x, "locked") /\ deals[x].second = "none"
      /\ deals[x] # NoDeal /\ deals[x].kind = "inbound"
      /\ UNCHANGED <<assets, pks, transfers, debts>>
      /\ Wan!QuotaInLock(deals[x].token, deals[x].to, deals[x].value)
  BY <1>1, AnswerInboundStep
  DEF AnswerInbound, Unanswered, IsOpen, OnWan, eosVars, Wan!InSmgLock
<1>3. deals[x] \in Deals
  BY <1>1, <1>2 DEF CrossInv, Tables
<1>4. deals[x].token \in Tokens /\ deals[x].to \in Storemen /\ deals[x].value \in Nat
  BY <1>3, Shapes DEF Deals, UserDeal, DebtDeal
<1>5. QuotasOK' /\ DebtsStay /\ KeysStay
  BY <1>1, <1>2, <1>4, LocksOweNothing, SameKeysStay
<1>6. /\ SameParties(deals'[x], deals[x]) /\ deals'[x].second = "locked"
      /\ deals'[x].first = deals[x].first
  BY <1>1, <1>2, SecondIs
<1>7. ~IsDue(deals[x]) /\ ~IsDue(deals'[x]) /\ deals'[x].kind = "inbound"
  BY <1>2, <1>6 DEF IsDue, Revealed, SameParties
<1>8. ~FirstOpen(deals'[x], "debt") /\ ~Entered(deals'[x])
  BY <1>7 DEF Entered, FirstOpen
<1>9. transfers'[x] = transfers[x]
  BY <1>2
<1> QED
  BY <1>2, <1>5, <1>6, <1>7, <1>8, <1>9, LapsedStep

LEMMA AnswerOutboundKeeps ==
  ASSUME IsFiniteSet(XHashes), BackInv, NEW x \in XHashes, AnswerOutbound(x)
  PROVE  BackInv'
<1>1. CrossInv /\ BooksOK /\ QuotasOK
  BY DEF BackInv
<1>2. /\ StepAt(x) /\ Second(x, "locked") /\ deals[x].second = "none"
      /\ deals[x] # NoDeal /\ deals[x].kind = "outbound"
      /\ UNCHANGED <<assets, pks, debts, quotas>>
  BY <1>1, AnswerOutboundStep
  DEF AnswerOutbound, Unanswered, IsOpen, OnEos, wanVars, Eos!Outlock
<1>3. QuotasOK' /\ DebtsStay /\ KeysStay
  BY <1>1, <1>2, SameQuotas, SameKeysStay
<1>4. /\ SameParties(deals'[x], deals[x]) /\ deals'[x].second = "locked"
      /\ deals'[x].first = deals[x].first
  BY <1>1, <1>2, SecondIs
<1>5. ~IsDue(deals[x]) /\ ~IsDue(deals'[x]) /\ deals'[x].kind = "outbound"
  BY <1>2, <1>4 DEF IsDue, Revealed, SameParties
<1>6. ~FirstOpen(deals'[x], "debt") /\ ~Entered(deals'[x]) /\ ~Waiting(deals'[x])
  BY <1>5 DEF Entered, FirstOpen, Waiting
<1>7. DealOK(deals'[x]) /\ OrderOK(x, deals'[x])
  BY <1>4, <1>5, <1>6, DealStays
<1>8. pks'[transfers'[x].pid] = deals'[x].to
  <2>1. PICK pid \in Eos!Pids :
          /\ Eos!FindPK(deals[x].to, pid)
          /\ transfers' = [transfers EXCEPT ![x] =
               [status |-> "outlock", user |-> deals[x].from, pid |-> pid, token |-> deals[x].token,
                quantity |-> deals[x].value, timeLeft |-> LockedTime]]
    BY DEF AnswerOutbound, OnEos, Eos!Outlock
  <2>2. transfers'[x].pid = pid
    BY <1>1, <2>1 DEF CrossInv, Tables
  <2> QED
    BY <1>2, <1>4, <2>1, <2>2 DEF Eos!FindPK, SameParties
<1>9. KeyOK(pks', transfers'[x], debts'[x], deals'[x])
  BY <1>6, <1>8 DEF KeyOK
<1> QED
  BY <1>2, <1>3, <1>5, <1>7, <1>9, QuietStep

(* The groups of a debt that is answered are two, and the one that takes   *)
(* over has settled what it owed before.                                   *)
LEMMA AnswerDebtKeeps ==
  ASSUME IsFiniteSet(XHashes), SettlesFirst \/ "debt" \notin Kinds, BackInv,
         NEW x \in XHashes, AnswerDebt(x)
  PROVE  BackInv'
<1>1. CrossInv /\ BooksOK /\ QuotasOK
  BY DEF BackInv
<1>2. /\ StepAt(x) /\ Second(x, "locked") /\ deals[x].second = "none"
      /\ deals[x] # NoDeal /\ deals[x].kind = "debt"
      /\ UNCHANGED <<assets, pks, debts, transfers>>
      /\ Wan!QuotaDebtLock(deals[x].token, deals[x].value, deals[x].from, deals[x].to)
      /\ SettlesFirst => SettledDebts(deals[x].to) /\ pks[debts[x].npid] = deals[x].to
  BY <1>1, AnswerDebtStep
  DEF AnswerDebt, Unanswered, IsOpen, OnWan, eosVars, Wan!InDebtLock
<1>3. SettlesFirst
  BY <1>2 DEF BackInv, KindsOK
<1>4. deals[x] \in DebtDeal
  BY <1>1, <1>2 DEF CrossInv, Tables, Deals, UserDeal
<1>5. /\ deals[x].token \in Tokens /\ deals[x].to \in Storemen /\ deals[x].from \in Storemen
      /\ deals[x].value \in Nat
  BY <1>4, Shapes DEF DebtDeal
<1>6. deals[x].from # deals[x].to
  BY <1>2 DEF Wan!QuotaDebtLock, Wan!NotActive, Wan!IsActive
<1>7. QuotasOK' /\ DebtsStay /\ KeysStay
  BY <1>1, <1>2, <1>5, <1>6, PendingDebtsOweNothing, SameKeysStay
<1>8. /\ SameParties(deals'[x], deals[x]) /\ deals'[x].second = "locked"
      /\ deals'[x].first = deals[x].first
  BY <1>1, <1>2, SecondIs
<1>9. ~IsDue(deals[x]) /\ ~IsDue(deals'[x]) /\ ~Waiting(deals'[x])
  BY <1>2, <1>8 DEF IsDue, Revealed, SameParties, Waiting
<1>10. DealOK(deals'[x])
  BY <1>6, <1>8, DealsOK DEF DealOK, SameParties
<1>11. OrderOK(x, deals'[x])
  <2>1. \A y \in XHashes : Waiting(deals[y]) => deals[y].from # deals[x].to
    BY <1>2, <1>3 DEF SettledDebts, Waiting, FirstOpen, Revealed, IsOpen, Public
  <2> QED
    BY <1>8, <1>9, <2>1 DEF OrderOK, SameParties
<1>12. KeyOK(pks', transfers'[x], debts'[x], deals'[x])
  <2>1. KeyOK(pks, transfers[x], debts[x], deals[x])
    BY DealsOK
  <2> QED
    BY <1>2, <1>3, <1>8, <2>1 DEF KeyOK, SameParties, FirstOpen
<1> QED
  BY <1>2, <1>7, <1>9, <1>10, <1>11, <1>12, QuietStep

LEMMA OpenKeeps ==
  ASSUME IsFiniteSet(XHashes), BackInv, NEW x \in XHashes, StepAt(x),
         NEW nd, Start(x, nd), nd.first = "locked", nd.second = "none", nd # NoDeal,
         UNCHANGED assets, KeysStay, QuotasOK', DebtsStay,
         KeyOK(pks', transfers'[x], debts'[x], nd)
  PROVE  BackInv'
<1>1. deals[x] = NoDeal /\ deals'[x] = nd /\ nd.kind \in Kinds
  BY DEF Start, BackInv, CrossInv, Tables
<1>2. ~IsDue(deals[x]) /\ ~IsDue(deals'[x]) /\ ~Entered(deals'[x]) /\ ~Waiting(deals'[x])
  BY <1>1 DEF IsDue, Revealed, Entered, Waiting
<1>3. DealOK(deals'[x]) /\ OrderOK(x, deals'[x])
  BY <1>1, <1>2 DEF DealOK, OrderOK
<1> QED
  BY <1>1, <1>2, <1>3, QuietStep

LEMMA OpenInboundKeeps ==
  ASSUME IsFiniteSet(XHashes), BackInv, NEW u \in Users, NEW t \in Tokens, NEW v \in Amounts,
         NEW x \in XHashes, NEW p \in Storemen, OpenInbound(u, t, v, x, p)
  PROVE  BackInv'
<1> DEFINE nd == Deal("inbound", u, p, t, v)
<1>1. CrossInv /\ BooksOK /\ QuotasOK
  BY DEF BackInv
<1>2. StepAt(x) /\ Start(x, nd) /\ UNCHANGED <<assets, quotas>>
  BY <1>1, OpenInboundStep DEF OpenInbound, OnEos, wanVars, Eos!Inlock
<1>3. PICK pid \in Eos!Pids :
        /\ Eos!FindOrSavePk(p, pid)
        /\ transfers' = [transfers EXCEPT ![x] =
             [status |-> "inlock", user |-> u, pid |-> pid, token |-> t,
              quantity |-> v, timeLeft |-> 2 * LockedTime]]
  BY DEF OpenInbound, OnEos, Eos!Inlock
<1>4. KeysStay /\ pks'[pid] = p /\ transfers'[x].pid = pid
  BY <1>1, <1>3, FoundOrSaved DEF CrossInv, Tables
<1>5. /\ nd.first = "locked" /\ nd.second = "none" /\ nd # NoDeal /\ nd.to = p
      /\ nd.kind = "inbound"
  BY Shapes DEF Deal
<1>6. KeyOK(pks', transfers'[x], debts'[x], nd)
  <2> HIDE DEF nd
  <2> QED
    BY <1>4, <1>5 DEF KeyOK, FirstOpen, Entered
<1>7. QuotasOK' /\ DebtsStay
  BY <1>1, <1>2, SameQuotas
<1> HIDE DEF nd
<1> QED
  BY <1>2, <1>4, <1>5, <1>6, <1>7, OpenKeeps

LEMMA OpenOutboundKeeps ==
  ASSUME IsFiniteSet(XHashes), BackInv, NEW u \in Users, NEW t \in Tokens, NEW v \in Amounts,
         NEW x \in XHashes, NEW p \in Storemen, OpenOutbound(u, t, v, x, p)
  PROVE  BackInv'
<1> DEFINE nd == Deal("outbound", u, p, t, v)
<1>1. CrossInv /\ BooksOK /\ QuotasOK
  BY DEF BackInv
<1>2. /\ StepAt(x) /\ Start(x, nd) /\ UNCHANGED <<assets, pks, transfers>>
      /\ Wan!QuotaOutLock(t, p, v)
  BY <1>1, OpenOutboundStep DEF OpenOutbound, OnWan, eosVars, Wan!OutUserLock
<1>3. QuotasOK' /\ DebtsStay /\ KeysStay
  BY <1>1, <1>2, Shapes, LocksOweNothing, SameKeysStay
<1>4. /\ nd.first = "locked" /\ nd.second = "none" /\ nd # NoDeal /\ nd.kind = "outbound"
  BY Shapes DEF Deal
<1>5. ~IsInlock(transfers'[x]) /\ ~IsOutlock(transfers'[x])
  <2>1. SwapOK(transfers[x], debts[x], userTxs[x], smgTxs[x], debtTxs[x], deals[x])
    BY <1>1, SwapAt
  <2> QED
    BY <1>2, <2>1 DEF Start, SwapOK, LegsAgree, FirstOpen, SecondOpen
<1> HIDE DEF nd
<1>6. KeyOK(pks', transfers'[x], debts'[x], nd)
  BY <1>4, <1>5 DEF KeyOK, FirstOpen, Entered
<1> QED
  BY <1>2, <1>3, <1>4, <1>6, OpenKeeps

LEMMA OpenDebtKeeps ==
  ASSUME IsFiniteSet(XHashes), BackInv, NEW t \in Tokens, NEW v \in Amounts, NEW x \in XHashes,
         NEW src \in Storemen, NEW dst \in Storemen, OpenDebt(t, v, x, src, dst)
  PROVE  BackInv'
<1> DEFINE nd == Deal("debt", src, dst, t, v)
<1>1. CrossInv /\ BooksOK /\ QuotasOK
  BY DEF BackInv
<1>2. StepAt(x) /\ Start(x, nd) /\ UNCHANGED <<assets, quotas, transfers>>
  BY <1>1, OpenDebtStep DEF OpenDebt, OnEos, wanVars, Eos!Lockdebt
<1>3. PICK pid \in Eos!Pids, npid \in Eos!Pids :
        /\ Eos!FindPK(src, pid)
        /\ Eos!FindOrSavePk(dst, npid)
        /\ debts' = [debts EXCEPT ![x] =
             [pid |-> pid, npid |-> npid, token |-> t,
              quantity |-> v, timeLeft |-> 2 * LockedTime]]
  BY DEF OpenDebt, OnEos, Eos!Lockdebt
<1>4. KeysStay /\ pks[pid] = src /\ debts'[x].pid = pid
  BY <1>1, <1>3, FoundOrSaved DEF CrossInv, Tables, Eos!FindPK
<1>5. /\ nd.first = "locked" /\ nd.second = "none" /\ nd # NoDeal /\ nd.from = src
  BY Shapes DEF Deal
<1>6. ~IsInlock(transfers'[x]) /\ ~IsOutlock(transfers'[x])
  <2>1. SwapOK(transfers[x], debts[x], userTxs[x], smgTxs[x], debtTxs[x], deals[x])
    BY <1>1, SwapAt
  <2> QED
    BY <1>2, <2>1 DEF Start, SwapOK, LegsAgree, FirstOpen, SecondOpen
<1>7. pks'[pid] = src
  BY <1>4, PidsAreFinite DEF KeysStay
<1> HIDE DEF nd
<1>8. KeyOK(pks', transfers'[x], debts'[x], nd)
  BY <1>4, <1>5, <1>6, <1>7 DEF KeyOK, Entered
<1>9. QuotasOK' /\ DebtsStay
  BY <1>1, <1>2, SameQuotas
<1> QED
  BY <1>2, <1>4, <1>5, <1>8, <1>9, OpenKeeps

-----------------------------------------------------------------------------
(* Steps that move an amount *)

LEMMA MovedStep ==
  ASSUME BackInv, NEW x \in XHashes, StepAt(x), BooksOK', QuotasOK', KeysOK',
         DealOK(deals'[x]), OrderOK(x, deals'[x]), Balanced'
  PROVE  BackInv'
BY StepAtKeeps, DealsFollow DEF BackInv

(* What v counts for group p in token t, if it is group q's in token s. *)
Share(v, q, s, p, t) == IF p = q /\ t = s THEN v ELSE 0

LEMMA SharesAre ==
  ASSUME NEW d \in Deals, IsDue(d), NEW p, NEW t
  PROVE  /\ d.kind = "inbound" => /\ InFor(d, p, t) = Share(d.value, d.to, d.token, p, t)
                                  /\ FromFor(d, p, t) = 0 /\ OutFor(d, p, t) = 0
         /\ d.kind = "outbound" => /\ OutFor(d, p, t) = Share(d.value, d.to, d.token, p, t)
                                   /\ FromFor(d, p, t) = 0 /\ InFor(d, p, t) = 0
         /\ d.kind = "debt" => /\ InFor(d, p, t) = Share(d.value, d.to, d.token, p, t)
                               /\ FromFor(d, p, t) = Share(d.value, d.from, d.token, p, t)
                               /\ OutFor(d, p, t) = 0
BY DEF IsDue, InFor, FromFor, OutFor, Waits, FirstOpen, Share

LEMMA SharesCount ==
  ASSUME NEW d \in Deals, NEW q, NEW p, NEW t
  PROVE  Share(d.value, q, d.token, p, t) \in Nat
<1>1. d.value \in Nat
  BY DealValues, Shapes
<1> QED
  BY <1>1 DEF Share

LEMMA HeldStays ==
  ASSUME BackInv, UNCHANGED <<assets, pks>>, NEW p \in Storemen, NEW t \in Tokens
  PROVE  HeldBy(p, t, 0)
<1>1. Held(pks', assets', p, t) = Held(pks, assets, p, t)
  BY SameKeysStay, SameHeld DEF BackInv
<1> QED
  BY <1>1, NumbersNow DEF HeldBy

(* The secret of x becomes public, and its first leg waits. *)
LEMMA SecretOut ==
  ASSUME CrossInv, NEW x \in XHashes, StepAt(x), Second(x, "redeemed"), deals[x].second = "locked",
         deals[x].first = "locked"
  PROVE  /\ deals[x] \in Deals /\ deals'[x] \in Deals /\ SameParties(deals'[x], deals[x])
         /\ ~IsDue(deals[x]) /\ IsDue(deals'[x])
<1>1. /\ SameParties(deals'[x], deals[x]) /\ deals'[x].second = "redeemed"
      /\ deals'[x].first = deals[x].first
  BY SecondIs
<1>2. deals[x] \in Deals /\ deals'[x] \in Deals
  BY <1>1 DEF CrossInv, Tables, StepAt, SameParties
<1> QED
  BY <1>1, <1>2 DEF IsDue, Revealed, SameParties

(* The first leg of x, whose secret is public, is taken. *)
LEMMA FirstTaken ==
  ASSUME CrossInv, NEW x \in XHashes, StepAt(x), First(x, "redeemed"), Public(x),
         deals[x].first = "locked"
  PROVE  /\ deals[x] \in Deals /\ SameParties(deals'[x], deals[x])
         /\ IsDue(deals[x]) /\ ~IsDue(deals'[x])
         /\ ~FirstOpen(deals'[x], "debt") /\ ~Entered(deals'[x]) /\ ~Waiting(deals'[x])
         /\ deals'[x].second = deals[x].second
<1>1. /\ SameParties(deals'[x], deals[x]) /\ deals'[x].first = "redeemed"
      /\ deals'[x].second = deals[x].second
  BY FirstIs
<1>2. deals[x] \in Deals
  BY <1>1 DEF CrossInv, Tables, SameParties
<1> QED
  BY <1>1, <1>2 DEF IsDue, Revealed, Public, FirstOpen, Entered, Waiting, SameParties

LEMMA TakeInboundKeeps ==
  ASSUME IsFiniteSet(XHashes), BackInv, NEW x \in XHashes, TakeInbound(x)
  PROVE  BackInv'
<1> DEFINE d == deals[x]
<1>1. CrossInv /\ BooksOK /\ QuotasOK
  BY DEF BackInv
<1>2. /\ StepAt(x) /\ Second(x, "redeemed") /\ UNCHANGED <<assets, pks, transfers, debts>>
      /\ smgTxs[x].status = "Locked" /\ smgTxs[x].timeLeft > 0
      /\ Wan!QuotaInRedeem(smgTxs[x].token, smgTxs[x].storeman, smgTxs[x].value)
  BY <1>1, TakeInboundStep DEF TakeInbound, OnWan, eosVars, Wan!InUserRedeem, Wan!IsLocked,
     Wan!InTime
<1>3. /\ d.kind = "inbound" /\ d.second = "locked" /\ d.first = "locked"
      /\ Wan!QuotaInRedeem(d.token, d.to, d.value)
  BY <1>1, <1>2, SwapAt DEF SwapOK, LegsAgree, LegsInTime, FirstOpen, SecondOpen, TermsAgree
<1>4. /\ d \in Deals /\ deals'[x] \in Deals /\ SameParties(deals'[x], d)
      /\ ~IsDue(d) /\ IsDue(deals'[x])
  BY <1>1, <1>2, <1>3, SecretOut
<1>5. d.token \in Tokens /\ d.to \in Storemen /\ d.value \in Nat
  BY <1>4, Shapes DEF Deals, UserDeal, DebtDeal
<1>6. QuotasOK' /\ DebtMoves(d.token, d.to, d.value)
  BY <1>1, <1>3, <1>5, MintOwes
<1>7. KeysStay /\ BooksOK'
  BY <1>1, <1>2, SameKeysStay, SameBooksOK
<1>8. deals'[x].kind = "inbound" /\ ~FirstOpen(deals'[x], "debt") /\ ~Entered(deals'[x])
      /\ ~Waiting(deals'[x])
  BY <1>3, <1>4 DEF SameParties, FirstOpen, Entered, Waiting
<1>9. DealOK(deals'[x]) /\ OrderOK(x, deals'[x])
  BY <1>4, <1>8, DealStays
<1>10. KeysOK'
  <2>1. transfers'[x] = transfers[x]
    BY <1>2
  <2>2. KeyOK(pks', transfers'[x], debts'[x], deals'[x])
    BY <1>4, <1>7, <1>8, <2>1, KeysCarry
  <2> QED
    BY <1>2, <1>7, <2>2, KeysFollow
<1>11. ASSUME NEW p \in Storemen, NEW t \in Tokens
       PROVE  BalancedAt(pks', assets', deals', quotas', p, t)
  <2> DEFINE w == Share(d.value, d.to, d.token, p, t)
  <2>1. w \in Nat
    BY <1>4, SharesCount
  <2>2. OwedBy(p, t, w)
    BY <1>6, <2>1 DEF DebtMoves, Share, OwedBy
  <2>3. /\ InFor(deals'[x], p, t) = w /\ FromFor(deals'[x], p, t) = 0 /\ OutFor(deals'[x], p, t) = 0
    BY <1>4, <1>8, SharesAre DEF SameParties
  <2>4. InFor(d, p, t) = 0 /\ FromFor(d, p, t) = 0 /\ OutFor(d, p, t) = 0
    BY <1>4, NothingDue
  <2>5. HeldBy(p, t, 0)
    BY <1>2, HeldStays
  <2> HIDE DEF w
  <2>6. MadeUp(x, p, t, 0, w)
    BY <2>1, <2>3, <2>4 DEF MadeUp
  <2> QED
    BY <1>2, <2>2, <2>5, <2>6, Rebalance
<1> QED
  BY <1>2, <1>6, <1>7, <1>9, <1>10, <1>11, MovedStep DEF Balanced

LEMMA SettleOutboundKeeps ==
  ASSUME IsFiniteSet(XHashes), BackInv, NEW x \in XHashes, SettleOutbound(x)
  PROVE  BackInv'
<1> DEFINE d == deals[x]
<1>1. CrossInv /\ BooksOK /\ QuotasOK
  BY DEF BackInv
<1>2. /\ StepAt(x) /\ First(x, "redeemed") /\ Public(x)
      /\ UNCHANGED <<assets, pks, transfers, debts>>
      /\ userTxs[x].status = "Locked"
      /\ Wan!QuotaOutRedeem(userTxs[x].token, userTxs[x].storeman, userTxs[x].value)
  BY <1>1, SettleOutboundStep DEF SettleOutbound, OnWan, eosVars, Wan!OutSmgRedeem, Wan!IsLocked
<1>3. /\ d.kind = "outbound" /\ d.first = "locked"
      /\ Wan!QuotaOutRedeem(d.token, d.to, d.value)
  BY <1>1, <1>2, SwapAt DEF SwapOK, LegsAgree, FirstOpen, TermsAgree
<1>4. /\ d \in Deals /\ SameParties(deals'[x], d) /\ IsDue(d) /\ ~IsDue(deals'[x])
      /\ ~FirstOpen(deals'[x], "debt") /\ ~Entered(deals'[x]) /\ ~Waiting(deals'[x])
      /\ deals'[x].second = d.second
  BY <1>1, <1>2, <1>3, FirstTaken
<1>5. d.token \in Tokens /\ d.to \in Storemen /\ d.value \in Nat
  BY <1>4, Shapes DEF Deals, UserDeal, DebtDeal
<1>6. QuotasOK' /\ DebtMoves(d.token, d.to, 0 - d.value)
  BY <1>1, <1>3, <1>5, BurnRelieves
<1>7. KeysStay /\ BooksOK'
  BY <1>1, <1>2, SameKeysStay, SameBooksOK
<1>8. DealOK(deals'[x]) /\ OrderOK(x, deals'[x])
  BY <1>4, DealStays
<1>9. KeysOK'
  <2>1. transfers'[x] = transfers[x]
    BY <1>2
  <2>2. KeyOK(pks', transfers'[x], debts'[x], deals'[x])
    BY <1>4, <1>7, <2>1, KeysCarry
  <2> QED
    BY <1>2, <1>7, <2>2, KeysFollow
<1>10. ASSUME NEW p \in Storemen, NEW t \in Tokens
       PROVE  BalancedAt(pks', assets', deals', quotas', p, t)
  <2> DEFINE w == Share(d.value, d.to, d.token, p, t)
  <2>1. w \in Nat
    BY <1>4, SharesCount
  <2>2. OwedBy(p, t, 0 - w)
    BY <1>6, <2>1 DEF DebtMoves, Share, OwedBy
  <2>3. InFor(d, p, t) = 0 /\ FromFor(d, p, t) = 0 /\ OutFor(d, p, t) = w
    BY <1>3, <1>4, SharesAre
  <2>4. /\ InFor(deals'[x], p, t) = 0 /\ FromFor(deals'[x], p, t) = 0 /\ OutFor(deals'[x], p, t) = 0
    BY <1>4, NothingDue
  <2>5. HeldBy(p, t, 0)
    BY <1>2, HeldStays
  <2> HIDE DEF w
  <2>6. MadeUp(x, p, t, 0, 0 - w)
    BY <2>1, <2>3, <2>4 DEF MadeUp
  <2> QED
    BY <1>2, <2>2, <2>5, <2>6, Rebalance
<1> QED
  BY <1>2, <1>6, <1>7, <1>8, <1>9, <1>10, MovedStep DEF Balanced

LEMMA SettleInboundKeeps ==
  ASSUME IsFiniteSet(XHashes), BackInv, NEW x \in XHashes, SettleInbound(x)
  PROVE  BackInv'
<1> DEFINE d == deals[x]
           row == transfers[x]
<1>1. CrossInv /\ BooksOK /\ QuotasOK
  BY DEF BackInv
<1>2. /\ StepAt(x) /\ First(x, "redeemed") /\ Public(x)
      /\ UNCHANGED <<pks, debts, quotas>> /\ IsInlock(row) /\ pks[row.pid] # NoRow
      /\ assets' = Eos!AddTo(assets, row.pid, row.token, row.quantity)
      /\ transfers' = [transfers EXCEPT ![x] = NoRow]
  BY <1>1, SettleInboundStep
  DEF SettleInbound, OnEos, wanVars, Eos!Inredeem, IsInlock, Eos!HasPK
<1>3. /\ d.kind = "inbound" /\ d.first = "locked" /\ row \in Eos!TransferRow
      /\ row.token = d.token /\ row.quantity = d.value
  BY <1>1, <1>2, SwapAt DEF SwapOK, LegsAgree, FirstOpen, TermsAgree, Transfers, IsInlock
<1>4. /\ d \in Deals /\ SameParties(deals'[x], d) /\ IsDue(d) /\ ~IsDue(deals'[x])
      /\ ~FirstOpen(deals'[x], "debt") /\ ~Entered(deals'[x]) /\ ~Waiting(deals'[x])
      /\ deals'[x].second = d.second
  BY <1>1, <1>2, <1>3, FirstTaken
<1>5. /\ d.token \in Tokens /\ d.to \in Storemen /\ d.value \in Nat /\ row.pid \in Eos!Pids
      /\ pks[row.pid] = d.to
  <2>1. KeyOK(pks, transfers[x], debts[x], deals[x])
    BY DealsOK
  <2> QED
    BY <1>2, <1>3, <1>4, <2>1, Shapes DEF Deals, UserDeal, DebtDeal, Eos!TransferRow, KeyOK
<1>6. /\ assets' \in Eos!Book(Nat)
      /\ \A j \in Eos!Pids, r \in Tokens : j # row.pid => assets'[j][r] = assets[j][r]
      /\ BookMoves(assets, assets', row.pid, d.token, d.value)
  <2>1. assets' = Eos!AddTo(assets, row.pid, d.token, d.value) /\ assets \in Eos!Book(Nat)
    BY <1>1, <1>2, <1>3 DEF BooksOK
  <2> HIDE DEF d, row
  <2> QED
    BY <1>5, <2>1, Added
<1>7. KeysStay /\ BooksOK' /\ QuotasOK' /\ DebtsStay
  <2>1. KeysStay /\ QuotasOK' /\ DebtsStay
    BY <1>1, <1>2, SameKeysStay, SameQuotas
  <2> QED
    BY <1>1, <1>2, <1>6, <2>1 DEF BooksOK
<1>8. DealOK(deals'[x]) /\ OrderOK(x, deals'[x])
  BY <1>4, DealStays
<1>9. KeysOK'
  <2>1. transfers'[x] = NoRow
    BY <1>1, <1>2 DEF CrossInv, Tables
  <2>2. KeyOK(pks', transfers'[x], debts'[x], deals'[x])
    BY <1>4, <2>1 DEF KeyOK, IsInlock, IsOutlock
  <2> QED
    BY <1>2, <1>7, <2>2, KeysFollow
<1>10. ASSUME NEW p \in Storemen, NEW t \in Tokens
       PROVE  BalancedAt(pks', assets', deals', quotas', p, t)
  <2> DEFINE w == Share(d.value, d.to, d.token, p, t)
  <2>1. w \in Nat
    BY <1>4, SharesCount
  <2>2. OwedBy(p, t, 0)
    BY <1>7, DebtStays
  <2>3. InFor(d, p, t) = w /\ FromFor(d, p, t) = 0 /\ OutFor(d, p, t) = 0
    BY <1>3, <1>4, SharesAre
  <2>4. /\ InFor(deals'[x], p, t) = 0 /\ FromFor(deals'[x], p, t) = 0 /\ OutFor(deals'[x], p, t) = 0
    BY <1>4, NothingDue
  <2>5. HeldBy(p, t, w)
    <3>1. Held(pks, assets', p, t)
            = Held(pks, assets, p, t) + IF pks[row.pid] = p /\ t = d.token THEN d.value ELSE 0
      <4> HIDE DEF d, row
      <4>1. pks \in Keys /\ assets \in Eos!Book(Nat) /\ d.value \in Int
        BY <1>1, <1>5 DEF BooksOK
      <4> QED
        BY <1>5, <1>6, <4>1, HeldMoves
    <3>2. w = IF pks[row.pid] = p /\ t = d.token THEN d.value ELSE 0
      BY <1>5 DEF Share
    <3>3. pks' = pks
      BY <1>2
    <3> HIDE DEF w, d, row
    <3>4. Held(pks', assets', p, t) = Held(pks, assets, p, t) + w
      BY <3>1, <3>2, <3>3, Zenon
    <3> QED
      BY <2>1, <3>4 DEF HeldBy
  <2> HIDE DEF w
  <2>6. MadeUp(x, p, t, w, 0)
    BY <2>1, <2>3, <2>4 DEF MadeUp
  <2> QED
    BY <1>2, <2>2, <2>5, <2>6, Rebalance
<1> QED
  BY <1>2, <1>7, <1>8, <1>9, <1>10, MovedStep DEF Balanced

LEMMA TakeOutboundKeeps ==
  ASSUME IsFiniteSet(XHashes), BackInv, NEW x \in XHashes, TakeOutbound(x)
  PROVE  BackInv'
<1> DEFINE d == deals[x]
           row == transfers[x]
<1>1. CrossInv /\ BooksOK /\ QuotasOK
  BY DEF BackInv
<1>2. /\ StepAt(x) /\ Second(x, "redeemed")
      /\ UNCHANGED <<pks, debts, quotas>> /\ IsOutlock(row) /\ row.timeLeft >= 0
      /\ Eos!Enough(assets, row.pid, row.token, row.quantity)
      /\ assets' = Eos!SubFrom(assets, row.pid, row.token, row.quantity)
      /\ transfers' = [transfers EXCEPT ![x] = NoRow]
  BY <1>1, TakeOutboundStep
  DEF TakeOutbound, OnEos, wanVars, Eos!Outredeem, Eos!InTime, IsOutlock
<1>3. /\ d.kind = "outbound" /\ d.second = "locked" /\ d.first = "locked" /\ row \in Eos!TransferRow
      /\ row.token = d.token /\ row.quantity = d.value
  BY <1>1, <1>2, SwapAt
  DEF SwapOK, LegsAgree, LegsInTime, FirstOpen, SecondOpen, TermsAgree, Transfers, IsOutlock
<1>4. /\ d \in Deals /\ deals'[x] \in Deals /\ SameParties(deals'[x], d)
      /\ ~IsDue(d) /\ IsDue(deals'[x])
  BY <1>1, <1>2, <1>3, SecretOut
<1>5. /\ d.token \in Tokens /\ d.to \in Storemen /\ d.value \in Nat /\ row.pid \in Eos!Pids
      /\ pks[row.pid] = d.to
  <2>1. KeyOK(pks, transfers[x], debts[x], deals[x])
    BY DealsOK
  <2> QED
    BY <1>2, <1>3, <1>4, <2>1, Shapes DEF Deals, UserDeal, DebtDeal, Eos!TransferRow, KeyOK
<1>6. /\ assets' \in Eos!Book(Nat)
      /\ \A j \in Eos!Pids, r \in Tokens : j # row.pid => assets'[j][r] = assets[j][r]
      /\ BookMoves(assets, assets', row.pid, d.token, 0 - d.value)
  <2>1. /\ assets' = Eos!SubFrom(assets, row.pid, d.token, d.value) /\ assets \in Eos!Book(Nat)
        /\ Eos!Enough(assets, row.pid, d.token, d.value)
    BY <1>1, <1>2, <1>3 DEF BooksOK
  <2> HIDE DEF d, row
  <2> QED
    BY <1>5, <2>1, Taken
<1>7. KeysStay /\ BooksOK' /\ QuotasOK' /\ DebtsStay
  <2>1. KeysStay /\ QuotasOK' /\ DebtsStay
    BY <1>1, <1>2, SameKeysStay, SameQuotas
  <2>2. pks[row.pid] # NoRow
    BY <1>5, PidsAreFinite
  <2> QED
    BY <1>1, <1>2, <1>6, <2>1, <2>2 DEF BooksOK
<1>8. deals'[x].kind = "outbound" /\ ~FirstOpen(deals'[x], "debt") /\ ~Entered(deals'[x])
      /\ ~Waiting(deals'[x])
  BY <1>3, <1>4 DEF SameParties, FirstOpen, Entered, Waiting
<1>9. DealOK(deals'[x]) /\ OrderOK(x, deals'[x])
  BY <1>4, <1>8, DealStays
<1>10. KeysOK'
  <2>1. transfers'[x] = NoRow
    BY <1>1, <1>2 DEF CrossInv, Tables
  <2>2. KeyOK(pks', transfers'[x], debts'[x], deals'[x])
    BY <1>8, <2>1 DEF KeyOK, IsInlock, IsOutlock
  <2> QED
    BY <1>2, <1>7, <2>2, KeysFollow
<1>11. ASSUME NEW p \in Storemen, NEW t \in Tokens
       PROVE  BalancedAt(pks', assets', deals', quotas', p, t)
  <2> DEFINE w == Share(d.value, d.to, d.token, p, t)
  <2>1. w \in Nat
    BY <1>4, SharesCount
  <2>2. OwedBy(p, t, 0)
    BY <1>7, DebtStays
  <2>3. /\ InFor(deals'[x], p, t) = 0 /\ FromFor(deals'[x], p, t) = 0 /\ OutFor(deals'[x], p, t) = w
    BY <1>4, <1>8, SharesAre DEF SameParties
  <2>4. InFor(d, p, t) = 0 /\ FromFor(d, p, t) = 0 /\ OutFor(d, p, t) = 0
    BY <1>4, NothingDue
  <2>5. HeldBy(p, t, 0 - w)
    <3>1. Held(pks, assets', p, t)
            = Held(pks, assets, p, t) + IF pks[row.pid] = p /\ t = d.token THEN 0 - d.value ELSE 0
      <4> HIDE DEF d, row
      <4>1. pks \in Keys /\ assets \in Eos!Book(Nat) /\ 0 - d.value \in Int
        BY <1>1, <1>5 DEF BooksOK
      <4> QED
        BY <1>5, <1>6, <4>1, HeldMoves
    <3>2. 0 - w = IF pks[row.pid] = p /\ t = d.token THEN 0 - d.value ELSE 0
      BY <1>5 DEF Share
    <3>3. pks' = pks
      BY <1>2
    <3> HIDE DEF w, d, row
    <3>4. Held(pks', assets', p, t) = Held(pks, assets, p, t) + (0 - w)
      BY <3>1, <3>2, <3>3, Zenon
    <3> QED
      BY <2>1, <3>4 DEF HeldBy
  <2> HIDE DEF w
  <2>6. MadeUp(x, p, t, 0 - w, 0)
    BY <2>1, <2>3, <2>4 DEF MadeUp
  <2> QED
    BY <1>2, <2>2, <2>5, <2>6, Rebalance
<1> QED
  BY <1>2, <1>7, <1>9, <1>10, <1>11, MovedStep DEF Balanced

(* A debt passes on Wanchain: the assets that stand for it are to follow,  *)
(* and no group that is to receive some has any to hand over.              *)
LEMMA TakeDebtKeeps ==
  ASSUME IsFiniteSet(XHashes), SettlesFirst \/ "debt" \notin Kinds, BackInv,
         NEW x \in XHashes, TakeDebt(x)
  PROVE  BackInv'
<1> DEFINE d == deals[x]
           row == debtTxs[x]
<1>1. CrossInv /\ BooksOK /\ QuotasOK
  BY DEF BackInv
<1>2. /\ StepAt(x) /\ Second(x, "redeemed") /\ UNCHANGED <<assets, pks, transfers, debts>>
      /\ SettlesFirst => SettledDebts(d.from) /\ TakesOverNone(d.from)
      /\ row.status = "Locked" /\ row.timeLeft > 0
      /\ Wan!QuotaDebtRedeem(row.token, row.value, row.src, row.storeman)
  BY <1>1, TakeDebtStep DEF TakeDebt, OnWan, eosVars, Wan!InDebtRedeem, Wan!IsLocked, Wan!InTime
<1>3. /\ d # NoDeal /\ d.kind = "debt" /\ d.second = "locked" /\ d.first = "locked"
      /\ Wan!QuotaDebtRedeem(d.token, d.value, d.from, d.to)
  BY <1>1, <1>2, SwapAt DEF SwapOK, LegsAgree, LegsInTime, FirstOpen, SecondOpen, TermsAgree
<1>4. /\ d \in Deals /\ deals'[x] \in Deals /\ SameParties(deals'[x], d)
      /\ ~IsDue(d) /\ IsDue(deals'[x])
  BY <1>1, <1>2, <1>3, SecretOut
<1>5. /\ d.token \in Tokens /\ d.to \in Storemen /\ d.from \in Storemen /\ d.value \in Nat
      /\ d.from # d.to /\ SettlesFirst
  <2>1. d \in DebtDeal
    BY <1>3, <1>4 DEF Deals, UserDeal
  <2> QED
    BY <1>3, <2>1, Shapes DEF DebtDeal, BackInv, TwoParties, KindsOK
<1>6. QuotasOK' /\ DebtPasses(d.token, d.value, d.from, d.to)
  BY <1>1, <1>3, <1>5, RedeemedDebtPasses
<1>7. KeysStay /\ BooksOK'
  BY <1>1, <1>2, SameKeysStay, SameBooksOK
<1>8. deals'[x].second = "redeemed" /\ deals'[x].first = "locked" /\ Entered(d)
  BY <1>1, <1>2, <1>3, SecondIs DEF Entered, FirstOpen
<1>9. DealOK(deals'[x]) /\ OrderOK(x, deals'[x])
  <2>1. ASSUME NEW y \in XHashes \ {x}, Waiting(deals[y])
        PROVE  deals[y].from # d.to
    BY <1>8, <2>1 DEF BackInv, InOrder
  <2>2. ASSUME NEW y \in XHashes \ {x}, Entered(deals[y])
        PROVE  d.from # deals[y].to
    <3>1. CASE deals[y].second = "locked"
      BY <1>2, <1>5, <2>2, <3>1 DEF TakesOverNone, IsOpen, Entered, FirstOpen
    <3>2. CASE deals[y].second = "redeemed"
      BY <1>2, <1>5, <2>2, <3>2 DEF SettledDebts, IsOpen, Public, Entered, FirstOpen
    <3> QED
      BY <2>2, <3>1, <3>2 DEF Entered
  <2>3. DealOK(d)
    BY DealsOK
  <2> QED
    BY <1>4, <1>5, <2>1, <2>2, <2>3 DEF DealOK, OrderOK, SameParties
<1>10. KeysOK'
  <2>1. transfers'[x] = transfers[x] /\ debts'[x] = debts[x]
    BY <1>2
  <2>2. FirstOpen(d, "debt")
    BY <1>3 DEF FirstOpen
  <2>3. KeyOK(pks', transfers'[x], debts'[x], deals'[x])
    BY <1>4, <1>7, <1>8, <2>1, <2>2, KeysCarry
  <2> QED
    BY <1>2, <1>7, <2>3, KeysFollow
<1>11. ASSUME NEW p \in Storemen, NEW t \in Tokens
       PROVE  BalancedAt(pks', assets', deals', quotas', p, t)
  <2> DEFINE w == Share(d.value, d.to, d.token, p, t)
             z == Share(d.value, d.from, d.token, p, t)
  <2>1. w \in Nat /\ z \in Nat
    BY <1>4, SharesCount
  <2>2. OwedBy(p, t, w - z)
    <3>1. quotas'[t][p].debt = quotas[t][p].debt + w - z
      BY <1>6 DEF DebtPasses, Share
    <3>2. quotas[t][p].debt \in Nat
      BY NumbersNow
    <3> HIDE DEF w, z
    <3> QED
      BY <2>1, <3>1, <3>2 DEF OwedBy
  <2>3. /\ InFor(deals'[x], p, t) = w /\ FromFor(deals'[x], p, t) = z /\ OutFor(deals'[x], p, t) = 0
    BY <1>3, <1>4, SharesAre DEF SameParties
  <2>4. InFor(d, p, t) = 0 /\ FromFor(d, p, t) = 0 /\ OutFor(d, p, t) = 0
    BY <1>4, NothingDue
  <2>5. HeldBy(p, t, 0)
    BY <1>2, HeldStays
  <2> HIDE DEF w, z
  <2>6. MadeUp(x, p, t, 0, w - z)
    BY <2>1, <2>3, <2>4 DEF MadeUp
  <2> QED
    BY <1>2, <2>2, <2>5, <2>6, Rebalance
<1> QED
  BY <1>2, <1>6, <1>7, <1>9, <1>10, <1>11, MovedStep DEF Balanced

(* The assets follow, and the key of the group that gave them goes with    *)
(* the last of its records: no debt was to bring it others.                *)
LEMMA KeysAfterDebt ==
  ASSUME BackInv, NEW x \in XHashes, StepAt(x), Waiting(deals[x]), debts[x] \in Eos!DebtRow,
         UNCHANGED transfers, debts' = [debts EXCEPT ![x] = NoRow],
         NEW book, Eos!CleanPk(debts[x].pid, book, debts'),
         ~FirstOpen(deals'[x], "debt"), ~Entered(deals'[x]), SameParties(deals'[x], deals[x])
  PROVE  KeysOK'
<1> DEFINE pid == debts[x].pid
<1>1. CrossInv /\ pks \in Keys /\ pid \in Eos!Pids
  BY DEF BackInv, BooksOK, Eos!DebtRow
<1>2. ASSUME NEW i \in Eos!Pids, Eos!IsPkUsed(pid, book, debts') \/ i # pid
      PROVE  pks'[i] = pks[i]
  BY <1>1, <1>2 DEF Eos!CleanPk, Keys
<1>3. ASSUME NEW y \in XHashes
      PROVE  IsInlock(transfers'[y]) \/ IsOutlock(transfers'[y]) => pks'[transfers'[y].pid] = deals'[y].to
  <2> SUFFICES ASSUME IsInlock(transfers[y]) \/ IsOutlock(transfers[y])
               PROVE  pks'[transfers[y].pid] = deals'[y].to
    OBVIOUS
  <2>1. deals'[y].to = deals[y].to
    BY DEF StepAt, SameParties
  <2>2. pks[transfers[y].pid] = deals[y].to
    BY DEF BackInv, KeysOK, KeyOK
  <2>3. transfers[y] # NoRow /\ transfers[y] \in Eos!TransferRow
    BY <1>1 DEF IsInlock, IsOutlock, CrossInv, Tables, Transfers
  <2>4. transfers[y].pid \in Eos!Pids
    BY <2>3 DEF Eos!TransferRow
  <2>5. transfers[y].pid = pid => Eos!IsPkUsed(pid, book, debts')
    BY <2>3 DEF Eos!IsPkUsed, Eos!Live
  <2> QED
    BY <1>2, <2>1, <2>2, <2>4, <2>5
<1>4. ASSUME NEW y \in XHashes, y # x, FirstOpen(deals[y], "debt")
      PROVE  /\ pks'[debts[y].pid] = deals[y].from
             /\ Entered(deals[y]) => pks'[debts[y].npid] = deals[y].to
  <2>1. KeyOK(pks, transfers[y], debts[y], deals[y])
    BY DealsOK
  <2>2. debts[y] \in Eos!DebtRow /\ debts[y] # NoRow /\ debts'[y] = debts[y]
    BY <1>1, <1>4, SwapAt DEF SwapOK, LegsAgree, Debts, StepAt
  <2>3. debts[y].pid \in Eos!Pids /\ debts[y].npid \in Eos!Pids
    BY <2>2 DEF Eos!DebtRow
  <2>4. debts[y].pid = pid => Eos!IsPkUsed(pid, book, debts')
    BY <2>2 DEF Eos!IsPkUsed, Eos!Live
  <2>5. Entered(deals[y]) => debts[y].npid # pid
    <3> SUFFICES ASSUME Entered(deals[y]), debts[y].npid = pid
                 PROVE  FALSE
      OBVIOUS
    <3>1. pks[pid] = deals[y].to
      BY <1>4, <2>1 DEF KeyOK
    <3>2. pks[pid] = deals[x].from
      BY DealsOK DEF KeyOK, Waiting
    <3> QED
      BY <1>4, <3>1, <3>2 DEF BackInv, InOrder
  <2> QED
    BY <1>2, <1>4, <2>1, <2>3, <2>4, <2>5 DEF KeyOK
<1>5. ASSUME NEW y \in XHashes
      PROVE  KeyOK(pks', transfers'[y], debts'[y], deals'[y])
  <2>1. CASE y = x
    BY <1>3, <2>1 DEF KeyOK
  <2>2. CASE y # x
    BY <1>3, <1>4, <2>2 DEF KeyOK, StepAt, Entered
  <2> QED
    BY <2>1, <2>2
<1> QED
  BY <1>5 DEF KeysOK

LEMMA SettleDebtKeeps ==
  ASSUME IsFiniteSet(XHashes), BackInv, NEW x \in XHashes, SettleDebt(x)
  PROVE  BackInv'
<1> DEFINE d == deals[x]
           row == debts[x]
           mid == Eos!SubFrom(assets, row.pid, row.token, row.quantity)
<1>1. CrossInv /\ BooksOK /\ QuotasOK
  BY DEF BackInv
<1>2. /\ StepAt(x) /\ First(x, "redeemed") /\ Public(x)
      /\ UNCHANGED <<transfers, quotas>> /\ row # NoRow
      /\ Eos!Enough(assets, row.pid, row.token, row.quantity)
      /\ assets' = Eos!AddTo(mid, row.npid, row.token, row.quantity)
      /\ debts' = [debts EXCEPT ![x] = NoRow]
      /\ Eos!CleanPk(row.pid, assets', debts')
  BY <1>1, SettleDebtStep DEF SettleDebt, OnEos, wanVars, Eos!Redeemdebt, Eos!HandOver
<1>3. /\ d.kind = "debt" /\ d.first = "locked" /\ row \in Eos!DebtRow
      /\ row.token = d.token /\ row.quantity = d.value
  BY <1>1, <1>2, SwapAt DEF SwapOK, LegsAgree, FirstOpen, TermsAgree, Debts
<1>4. /\ d \in Deals /\ SameParties(deals'[x], d) /\ IsDue(d) /\ ~IsDue(deals'[x])
      /\ ~FirstOpen(deals'[x], "debt") /\ ~Entered(deals'[x]) /\ ~Waiting(deals'[x])
      /\ deals'[x].second = d.second
  BY <1>1, <1>2, <1>3, FirstTaken
<1>5. Waiting(d) /\ Entered(d)
  BY <1>3, <1>4 DEF IsDue, Revealed, Waiting, Entered, FirstOpen
<1>6. /\ d.token \in Tokens /\ d.to \in Storemen /\ d.from \in Storemen /\ d.value \in Nat
      /\ row.pid \in Eos!Pids /\ row.npid \in Eos!Pids
      /\ pks[row.pid] = d.from /\ pks[row.npid] = d.to /\ d.from # d.to
  <2>1. KeyOK(pks, transfers[x], debts[x], deals[x])
    BY DealsOK
  <2>2. d \in DebtDeal
    BY <1>3, <1>4 DEF Deals, UserDeal
  <2>3. d.from # d.to
    BY <1>5 DEF BackInv, TwoParties, Entered, FirstOpen
  <2> QED
    BY <1>3, <1>5, <2>1, <2>2, <2>3, Shapes DEF DebtDeal, Eos!DebtRow, KeyOK, Entered
<1>7. /\ mid \in Eos!Book(Nat) /\ BookMoves(assets, mid, row.pid, d.token, 0 - d.value)
      /\ \A j \in Eos!Pids, r \in Tokens : j # row.pid => mid[j][r] = assets[j][r]
  <2>1. /\ mid = Eos!SubFrom(assets, row.pid, d.token, d.value) /\ assets \in Eos!Book(Nat)
        /\ Eos!Enough(assets, row.pid, d.token, d.value)
    BY <1>1, <1>2, <1>3 DEF BooksOK
  <2> HIDE DEF d, row, mid
  <2> QED
    BY <1>6, <2>1, Taken
<1>8. /\ assets' \in Eos!Book(Nat) /\ BookMoves(mid, assets', row.npid, d.token, d.value)
      /\ \A j \in Eos!Pids, r \in Tokens : j # row.npid => assets'[j][r] = mid[j][r]
  <2> HIDE DEF mid
  <2>1. assets' = Eos!AddTo(mid, row.npid, d.token, d.value)
    BY <1>2, <1>3
  <2> HIDE DEF d, row
  <2> QED
    BY <1>6, <1>7, <2>1, Added
<1> HIDE DEF mid
<1>9. /\ pks' \in Keys
      /\ \A i \in Eos!Pids : pks'[i] # pks[i] =>
           i = row.pid /\ pks'[i] = NoRow /\ \A t \in Tokens : assets'[i][t] = NoRow
  <2>1. pks \in Keys
    BY <1>1 DEF BooksOK
  <2>2. CASE Eos!IsPkUsed(row.pid, assets', debts')
    BY <1>2, <2>1, <2>2 DEF Eos!CleanPk
  <2>3. CASE ~Eos!IsPkUsed(row.pid, assets', debts')
    <3>1. pks' = [pks EXCEPT ![row.pid] = NoRow] /\ \A t \in Tokens : assets'[row.pid][t] = NoRow
      BY <1>2, <2>3 DEF Eos!CleanPk, Eos!IsPkUsed, Eos!HasRows
    <3> QED
      BY <1>6, <2>1, <3>1 DEF Keys
  <2> QED
    BY <2>2, <2>3
<1>10. BooksOK' /\ QuotasOK' /\ DebtsStay
  <2>1. QuotasOK' /\ DebtsStay
    BY <1>1, <1>2, SameQuotas
  <2>2. ASSUME NEW i \in Eos!Pids, pks'[i] = NoRow, NEW t \in Tokens
        PROVE  assets'[i][t] = NoRow
    <3>1. CASE pks'[i] # pks[i]
      BY <1>9, <2>2, <3>1
    <3>2. CASE pks'[i] = pks[i]
      <4>1. i # row.pid /\ i # row.npid
        BY <1>6, <2>2, <3>2, PidsAreFinite
      <4> QED
        BY <1>1, <1>7, <1>8, <2>2, <3>2, <4>1 DEF BooksOK
    <3> QED
      BY <3>1, <3>2
  <2> QED
    BY <1>8, <1>9, <2>1, <2>2 DEF BooksOK
<1>11. KeysOK'
  BY <1>2, <1>3, <1>4, <1>5, KeysAfterDebt
<1>12. DealOK(deals'[x]) /\ OrderOK(x, deals'[x])
  BY <1>4, DealStays
<1>13. ASSUME NEW p \in Storemen, NEW t \in Tokens
       PROVE  BalancedAt(pks', assets', deals', quotas', p, t)
  <2> DEFINE w == Share(d.value, d.to, d.token, p, t)
             z == Share(d.value, d.from, d.token, p, t)
  <2>1. w \in Nat /\ z \in Nat
    BY <1>4, SharesCount
  <2>2. OwedBy(p, t, 0)
    BY <1>10, DebtStays
  <2>3. InFor(d, p, t) = w /\ FromFor(d, p, t) = z /\ OutFor(d, p, t) = 0
    BY <1>3, <1>4, SharesAre
  <2>4. /\ InFor(deals'[x], p, t) = 0 /\ FromFor(deals'[x], p, t) = 0 /\ OutFor(deals'[x], p, t) = 0
    BY <1>4, NothingDue
  <2>5. HeldBy(p, t, w - z)
    <3>1. pks \in Keys /\ assets \in Eos!Book(Nat) /\ d.value \in Int /\ 0 - d.value \in Int
      BY <1>1, <1>6 DEF BooksOK
    <3>2. Held(pks, mid, p, t)
            = Held(pks, assets, p, t) + IF pks[row.pid] = p /\ t = d.token THEN 0 - d.value ELSE 0
      <4> HIDE DEF d, row
      <4> QED
        BY <1>6, <1>7, <3>1, HeldMoves
    <3>3. Held(pks, assets', p, t)
            = Held(pks, mid, p, t) + IF pks[row.npid] = p /\ t = d.token THEN d.value ELSE 0
      <4> HIDE DEF d, row
      <4> QED
        BY <1>6, <1>7, <1>8, <3>1, HeldMoves
    <3>4. Held(pks', assets', p, t) = Held(pks, assets', p, t)
      <4>1. \A i \in Eos!Pids : pks'[i] # pks[i] => assets'[i][t] = NoRow
        BY <1>9
      <4> QED
        BY <1>8, <4>1, HeldByOthers
    <3>5. /\ 0 - z = IF pks[row.pid] = p /\ t = d.token THEN 0 - d.value ELSE 0
          /\ w = IF pks[row.npid] = p /\ t = d.token THEN d.value ELSE 0
      BY <1>6 DEF Share
    <3>6. Held(pks, assets, p, t) \in Nat
      BY NumbersNow
    <3> HIDE DEF w, z, d, row
    <3>7. Held(pks, mid, p, t) = Held(pks, assets, p, t) + (0 - z)
      BY <3>2, <3>5, Zenon
    <3>8. Held(pks, assets', p, t) = Held(pks, mid, p, t) + w
      BY <3>3, <3>5, Zenon
    <3> QED
      BY <2>1, <3>4, <3>6, <3>7, <3>8 DEF HeldBy
  <2> HIDE DEF w, z
  <2>6. MadeUp(x, p, t, w - z, 0)
    BY <2>1, <2>3, <2>4 DEF MadeUp
  <2> QED
    BY <1>2, <2>2, <2>5, <2>6, Rebalance
<1> QED
  BY <1>2, <1>10, <1>11, <1>12, <1>13, MovedStep DEF Balanced

-----------------------------------------------------------------------------
(* Time, the owners and the groups *)

LEMMA CalmStep ==
  ASSUME BackInv, CrossInv', UNCHANGED <<pks, assets, deals>>, QuotasOK', DebtsStay, KeysOK'
  PROVE  BackInv'
<1>1. BooksOK' /\ InOrder' /\ TwoParties' /\ KindsOK'
  BY DEF BackInv, BooksOK, InOrder, TwoParties, KindsOK
<1>2. ASSUME NEW p \in Storemen, NEW t \in Tokens
      PROVE  BalancedAt(pks', assets', deals', quotas', p, t)
  <2>1. BalancedAt(pks, assets, deals, quotas, p, t)
    BY DEF BackInv, Balanced
  <2>2. /\ Held(pks', assets', p, t) = Held(pks, assets, p, t)
        /\ Coming(deals', p, t) = Coming(deals, p, t) /\ Going(deals', p, t) = Going(deals, p, t)
        /\ Burning(deals', p, t) = Burning(deals, p, t)
    BY Zenon
  <2>3. quotas'[t][p].debt = quotas[t][p].debt
    BY DEF DebtsStay
  <2> QED
    BY <2>1, <2>2, <2>3 DEF BalancedAt
<1> QED
  BY <1>1, <1>2 DEF BackInv, Balanced

LEMMA StutterKeeps ==
  ASSUME BackInv, CrossInv', UNCHANGED <<transfers, debts, pks, assets, deals>>, QuotasOK', DebtsStay
  PROVE  BackInv'
<1>1. KeysOK'
  BY DEF BackInv, KeysOK
<1> QED
  BY <1>1, CalmStep

LEMMA OwnersKeepBacking ==
  ASSUME BackInv, SetUp \/ Groups
  PROVE  BackInv'
<1>1. CrossInv /\ QuotasOK
  BY DEF BackInv
<1>2. CrossInv'
  BY <1>1, OwnersKeep
<1>3. /\ UNCHANGED <<transfers, debts, pks, assets, deals>> /\ QuotasOK' /\ DebtsStay
  <2>1. CASE SetUp
    <3>1. UNCHANGED <<transfers, debts, pks, assets, deals, quotas>>
      BY <2>1 DEF SetUp, Eos!Regsig, Wan!SetEconomics
    <3> QED
      BY <1>1, <3>1, SameQuotas
  <2>2. CASE Groups
    <3>1. UNCHANGED <<transfers, debts, pks, assets, deals>>
      BY <2>2 DEF Groups, OnWan, eosVars
    <3>2. Quotas \subseteq Nat
      BY CrossConstants DEF CrossConstants, Wan!WanConstants
    <3>3. PICK t \in Tokens, p \in Storemen :
            \/ \E q \in Quotas : Wan!QuotaAdd(t, p, q, 0)
            \/ Wan!QuotaDeactivate(t, p) \/ Wan!QuotaDel(t, p)
      BY <2>2 DEF Groups, OnWan, Wan!AddStoremanGroup, Wan!DeactivateStoremanGroup,
         Wan!DelStoremanGroup
    <3> QED
      BY <1>1, <3>1, <3>2, <3>3, GroupsOweNothing
  <2> QED
    BY <2>1, <2>2
<1> QED
  BY <1>2, <1>3, StutterKeeps

LEMMA TickKeepsBacking ==
  ASSUME BackInv, Tick
  PROVE  BackInv'
<1>1. CrossInv /\ QuotasOK
  BY DEF BackInv
<1>2. CrossInv' /\ UNCHANGED deals
  BY <1>1, TickKeeps
<1>3. /\ UNCHANGED <<pks, assets, quotas>> /\ Eos!Tick
  BY DEF Tick, Eos!Tick, Wan!WanTick
<1>4. ASSUME NEW x \in XHashes
      PROVE  KeyOK(pks, transfers'[x], debts'[x], deals[x])
  <2>1. KeyOK(pks, transfers[x], debts[x], deals[x])
    BY DealsOK
  <2>2. /\ IsInlock(transfers'[x]) \/ IsOutlock(transfers'[x])
             => transfers'[x].pid = transfers[x].pid /\ (IsInlock(transfers[x]) \/ IsOutlock(transfers[x]))
        /\ FirstOpen(deals[x], "debt") => debts'[x].pid = debts[x].pid /\ debts'[x].npid = debts[x].npid
    <3>1. FirstOpen(deals[x], "debt") => debts[x] # NoRow
      BY <1>1, SwapAt DEF SwapOK, LegsAgree
    <3> QED
      BY <1>1, <1>3, <3>1, EosRowsAge DEF SameTerms, IsInlock, IsOutlock
  <2> QED
    BY <2>1, <2>2 DEF KeyOK, Entered
<1>5. KeysOK'
  BY <1>2, <1>3, <1>4 DEF KeysOK
<1>6. QuotasOK' /\ DebtsStay
  BY <1>1, <1>3, SameQuotas
<1> QED
  BY <1>2, <1>3, <1>5, <1>6, CalmStep

-----------------------------------------------------------------------------
(* The steps together *)

LEMMA InitBacked ==
  ASSUME IsFiniteSet(XHashes), Init
  PROVE  BackInv
<1>1. CrossInv
  BY InitCross
<1>2. /\ pks = [i \in Eos!Pids |-> NoRow]
      /\ assets = [i \in Eos!Pids |-> [t \in Tokens |-> NoRow]]
      /\ transfers = [x \in XHashes |-> NoRow] /\ debts = [x \in XHashes |-> NoRow]
      /\ deals = [x \in XHashes |-> NoDeal]
      /\ quotas = [t \in Tokens |-> [p \in Storemen |-> Wan!NoQuota]]
  BY DEF Init, Eos!Init, Wan!WanInit, Wan!QuotaInit
<1>3. BooksOK
  BY <1>2 DEF BooksOK, Keys, Eos!Book
<1>4. QuotasOK
  <2>1. Wan!NoQuota \in Wan!Quota /\ Wan!NoQuota.debt = 0
    BY DEF Wan!NoQuota, Wan!Quota
  <2> QED
    BY <1>2, <2>1 DEF QuotasOK, QuotaTable, GoneOweNothing
<1>5. KeysOK /\ InOrder /\ TwoParties /\ KindsOK
  <2>1. \A x \in XHashes : deals[x] = NoDeal /\ transfers[x] = NoRow
    BY <1>2
  <2> QED
    BY <2>1 DEF KeysOK, KeyOK, InOrder, TwoParties, KindsOK, Waiting, Entered, FirstOpen,
       IsInlock, IsOutlock
<1>6. ASSUME NEW p \in Storemen, NEW t \in Tokens
      PROVE  BalancedAt(pks, assets, deals, quotas, p, t)
  <2>1. Held(pks, assets, p, t) = 0
    <3>1. \A i \in Eos!Pids : HeldOf(pks, assets, p, t)[i] = 0
      BY <1>2 DEF HeldOf, Eos!Balance
    <3> QED
      BY <3>1, SumOfZeros, PidsAreFinite DEF Held
  <2>2. Coming(deals, p, t) = 0 /\ Going(deals, p, t) = 0 /\ Burning(deals, p, t) = 0
    <3>1. \A x \in XHashes : InOf(deals, p, t)[x] = 0 /\ FromOf(deals, p, t)[x] = 0
                             /\ OutOf(deals, p, t)[x] = 0
      BY <1>2 DEF InOf, FromOf, OutOf, InFor, FromFor, OutFor, Waits, FirstOpen
    <3> QED
      BY <3>1, SumOfZeros DEF Coming, Going, Burning
  <2>3. quotas[t][p].debt = 0
    BY <1>2 DEF Wan!NoQuota
  <2> QED
    BY <2>1, <2>2, <2>3 DEF BalancedAt
<1> QED
  BY <1>1, <1>3, <1>4, <1>5, <1>6 DEF BackInv, Balanced

LEMMA BackingKept ==
  ASSUME IsFiniteSet(XHashes), SettlesFirst \/ "debt" \notin Kinds, BackInv, [Next]_crossVars
  PROVE  BackInv'
<1>1. CASE UNCHANGED crossVars
  <2>1. UNCHANGED <<transfers, debts, pks, assets, deals, quotas, userTxs, smgTxs, debtTxs>>
    BY <1>1 DEF crossVars, eosVars, wanVars
  <2>2. CrossInv'
    BY <2>1 DEF BackInv, CrossInv, Tables, SwapsOK
  <2>3. QuotasOK' /\ DebtsStay
    BY <2>1, SameQuotas DEF BackInv
  <2> QED
    BY <2>1, <2>2, <2>3, StutterKeeps
<1>2. CASE Opens
  <2>1. ASSUME NEW u \in Users, NEW t \in Tokens, NEW v \in Amounts, NEW x \in XHashes,
               NEW p \in Storemen, OpenInbound(u, t, v, x, p) \/ OpenOutbound(u, t, v, x, p)
        PROVE  BackInv'
    BY <2>1, OpenInboundKeeps, OpenOutboundKeeps
  <2>2. ASSUME NEW t \in Tokens, NEW v \in Amounts, NEW x \in XHashes,
               NEW src \in Storemen, NEW dst \in Storemen, OpenDebt(t, v, x, src, dst)
        PROVE  BackInv'
    BY <2>2, OpenDebtKeeps
  <2> QED
    BY <1>2, <2>1, <2>2 DEF Opens
<1>3. ASSUME NEW x \in XHashes, Answers(x) \/ Takes(x) \/ Settles(x) \/ Cancels(x) \/ Withdraws(x)
      PROVE  BackInv'
  <2>1. CASE Answers(x)
    BY <2>1, AnswerInboundKeeps, AnswerOutboundKeeps, AnswerDebtKeeps DEF Answers
  <2>2. CASE Takes(x)
    BY <2>2, TakeInboundKeeps, TakeOutboundKeeps, TakeDebtKeeps DEF Takes
  <2>3. CASE Settles(x)
    BY <2>3, SettleInboundKeeps, SettleOutboundKeeps, SettleDebtKeeps DEF Settles
  <2>4. CASE Cancels(x)
    BY <2>4, CancelKeeps DEF Cancels
  <2>5. CASE Withdraws(x)
    BY <2>5, WithdrawKeeps DEF Withdraws
  <2> QED
    BY <1>3, <2>1, <2>2, <2>3, <2>4, <2>5
<1>4. CASE SetUp \/ Groups
  BY <1>4, OwnersKeepBacking
<1>5. CASE Tick
  BY <1>5, TickKeepsBacking
<1> QED
  BY <1>1, <1>2, <1>3, <1>4, <1>5 DEF Next

(* Every token on Wanchain is backed on EOS by the group that owes it, for *)
(* any number of users, groups, tokens and swaps at once and any amounts,  *)
(* as long as groups settle one debt before they enter the next (or no     *)
(* group hands over any).                                                  *)
THEOREM TokensAreBacked ==
  ASSUME IsFiniteSet(XHashes), SettlesFirst \/ "debt" \notin Kinds
  PROVE  Spec => []EveryTokenIsBacked
<1>1. Init => BackInv
  BY InitBacked
<1>2. BackInv /\ [Next]_crossVars => BackInv'
  BY BackingKept
<1>3. BackInv => EveryTokenIsBacked
  BY BalancedIsBacked
<1> QED
  BY <1>1, <1>2, <1>3, PTL DEF Spec

(* And the key of a group that is to receive the assets of another stays   *)
(* in the contract until it has received them.                             *)
THEOREM KeysOfReceiversStay ==
  ASSUME IsFiniteSet(XHashes), SettlesFirst \/ "debt" \notin Kinds
  PROVE  Spec => []KeysInUseStay
<1>1. Init => BackInv
  BY InitBacked
<1>2. BackInv /\ [Next]_crossVars => BackInv'
  BY BackingKept
<1>3. BackInv => KeysInUseStay
  BY DEF BackInv, KeysOK, KeyOK, KeysInUseStay, IsOpen, Public, Entered, FirstOpen
<1> QED
  BY <1>1, <1>2, <1>3, PTL DEF Spec

-----------------------------------------------------------------------------
(* What is proved of each contract by itself, for the constants of the     *)
(* composition.                                                            *)
EosP == INSTANCE EosHtlcProofs WITH
          PKs <- Storemen, Issued <- Tokens, DebtAmounts <- Amounts,
          Ratios <- {0}, RatioPrecise <- 1,
          SigCodes <- {1}, SigActions <- {"verify"}
WanP == INSTANCE WanHtlcProofs WITH
          Values <- Amounts, TxFeeRatios <- {0}, Prices <- {1}, DefaultPrecise <- 1,
          RevokeRatios <- {0}, RatioPrecise <- 1

(* Both instances of a contract are the same contract. *)
LEMMA SameEos == (Eos!Init <=> EosP!Init) /\ (Eos!Next <=> EosP!Next)
BY DEF Eos!Pids, EosP!Pids, Eos!Init, EosP!Init, Eos!FindPK, EosP!FindPK, Eos!AvailablePid,
   EosP!AvailablePid, Eos!FindOrSavePk, EosP!FindOrSavePk, Eos!Live, EosP!Live, Eos!Scan,
   EosP!Scan, Eos!IsPkDebt, EosP!IsPkDebt, Eos!Inlock, EosP!Inlock, Eos!OtherTransfer,
   EosP!OtherTransfer, Eos!InTime, EosP!InTime, Eos!Enough, EosP!Enough, Eos!SubFrom, EosP!SubFrom,
   Eos!Outredeem, EosP!Outredeem, Eos!Lapsed, EosP!Lapsed, Eos!ProratedFee, EosP!ProratedFee,
   Eos!RevokeFee, EosP!RevokeFee, Eos!Balance, EosP!Balance, Eos!AddTo, EosP!AddTo, Eos!Inrevoke,
   EosP!Inrevoke, Eos!UserNext, EosP!UserNext, Eos!HasPK, EosP!HasPK, Eos!Inredeem, EosP!Inredeem,
   Eos!HasSigner, EosP!HasSigner, Eos!Total, EosP!Total, Eos!HtlcPendAsset, EosP!HtlcPendAsset,
   Eos!PendDebtAsset, EosP!PendDebtAsset, Eos!OutPendAsset, EosP!OutPendAsset, Eos!Outlock,
   EosP!Outlock, Eos!Outrevoke, EosP!Outrevoke, Eos!Lockdebt, EosP!Lockdebt, Eos!HasRows,
   EosP!HasRows, Eos!IsPkUsed, EosP!IsPkUsed, Eos!CleanPk, EosP!CleanPk, Eos!Redeemdebt,
   EosP!Redeemdebt, Eos!Revokedebt, EosP!Revokedebt, Eos!Paid, EosP!Paid, Eos!IssueFees,
   EosP!IssueFees, Eos!FeeRows, EosP!FeeRows, Eos!WithdrawAll, EosP!WithdrawAll, Eos!RowsFrom,
   EosP!RowsFrom, Eos!WithdrawAccount, EosP!WithdrawAccount, Eos!WithdrawToken, EosP!WithdrawToken,
   Eos!StoremanNext, EosP!StoremanNext, Eos!Setratio, EosP!Setratio, Eos!Regsig, EosP!Regsig,
   Eos!Updatesig, EosP!Updatesig, Eos!Unregsig, EosP!Unregsig, Eos!OwnerNext, EosP!OwnerNext,
   Eos!Expired, EosP!Expired, Eos!Older, EosP!Older, Eos!Aged, EosP!Aged, Eos!Tick, EosP!Tick,
   Eos!Next, EosP!Next, Eos!vars, EosP!vars, Eos!MapThenSumSet, EosP!MapThenSumSet,
   Eos!MapThenFoldSet, EosP!MapThenFoldSet, Eos!Max, EosP!Max, Eos!Fits, EosP!Fits, Eos!Silent,
   EosP!Silent, Eos!CanPay, EosP!CanPay, Eos!Left, EosP!Left, Eos!HandOver, EosP!HandOver

LEMMA SameWan ==
  /\ Wan!WanInit <=> WanP!WanInit
  /\ Wan!WanNext <=> WanP!WanNext
BY DEF Wan!NoQuota, WanP!NoQuota, Wan!QuotaInit, WanP!QuotaInit, Wan!NoTx, WanP!NoTx, Wan!WanInit,
   WanP!WanInit, Wan!Running, WanP!Running, Wan!IsExist, WanP!IsExist, Wan!IsActive, WanP!IsActive,
   Wan!InboundRoom, WanP!InboundRoom, Wan!QuotaInLock, WanP!QuotaInLock, Wan!Locked, WanP!Locked,
   Wan!SmgLockTime, WanP!SmgLockTime, Wan!InSmgLock, WanP!InSmgLock, Wan!IsLocked, WanP!IsLocked,
   Wan!InTime, WanP!InTime, Wan!Owing, WanP!Owing, Wan!QuotaInRedeem, WanP!QuotaInRedeem,
   Wan!Close, WanP!Close, Wan!InUserRedeem, WanP!InUserRedeem, Wan!Lapsed, WanP!Lapsed,
   Wan!QuotaInRevoke, WanP!QuotaInRevoke, Wan!InSmgRevoke, WanP!InSmgRevoke, Wan!InboundNext,
   WanP!InboundNext, Wan!OutboundRoom, WanP!OutboundRoom, Wan!QuotaOutLock, WanP!QuotaOutLock,
   Wan!UserLockTime, WanP!UserLockTime, Wan!OutboundFee, WanP!OutboundFee, Wan!OutUserLock,
   WanP!OutUserLock, Wan!Relieved, WanP!Relieved, Wan!QuotaOutRedeem, WanP!QuotaOutRedeem,
   Wan!EarnFee, WanP!EarnFee, Wan!OutSmgRedeem, WanP!OutSmgRedeem, Wan!RevokeFee, WanP!RevokeFee,
   Wan!QuotaOutRevoke, WanP!QuotaOutRevoke, Wan!OutUserRevoke, WanP!OutUserRevoke,
   Wan!SmgWithdrawFee, WanP!SmgWithdrawFee, Wan!TransferToHtlc, WanP!TransferToHtlc,
   Wan!OutboundNext, WanP!OutboundNext, Wan!NotActive, WanP!NotActive, Wan!QuotaDebtLock,
   WanP!QuotaDebtLock, Wan!InDebtLock, WanP!InDebtLock, Wan!QuotaDebtRedeem, WanP!QuotaDebtRedeem,
   Wan!InDebtRedeem, WanP!InDebtRedeem, Wan!QuotaDebtRevoke, WanP!QuotaDebtRevoke,
   Wan!InDebtRevoke, WanP!InDebtRevoke, Wan!DebtNext, WanP!DebtNext, Wan!htlcVars, WanP!htlcVars,
   Wan!SetEconomics, WanP!SetEconomics, Wan!SetHalt, WanP!SetHalt, Wan!QuotaAdd, WanP!QuotaAdd,
   Wan!AddStoremanGroup, WanP!AddStoremanGroup, Wan!QuotaDeactivate, WanP!QuotaDeactivate,
   Wan!DeactivateStoremanGroup, WanP!DeactivateStoremanGroup, Wan!IsDebtPaidOff,
   WanP!IsDebtPaidOff, Wan!QuotaDel, WanP!QuotaDel, Wan!DelStoremanGroup, WanP!DelStoremanGroup,
   Wan!QuotaUpdate, WanP!QuotaUpdate, Wan!UpdateStoremanGroup, WanP!UpdateStoremanGroup,
   Wan!AdminNext, WanP!AdminNext, Wan!Older, WanP!Older, Wan!Aged, WanP!Aged, Wan!WanTick,
   WanP!WanTick, Wan!WanNext, WanP!WanNext, Wan!wanVars, WanP!wanVars

LEMMA EosAlone == Spec => EosP!Spec
<1>1. /\ Eos!Init => EosP!Init
      /\ [Eos!Next]_(Eos!vars) => [EosP!Next]_(EosP!vars)
  BY SameEos DEF Eos!vars, EosP!vars
<1> QED
  BY <1>1, SwapsRunOnEos, PTL DEF Eos!Spec, EosP!Spec

LEMMA WanAlone == Spec => WanP!WanSpec
<1>1. /\ Wan!WanInit => WanP!WanInit
      /\ [Wan!WanNext]_(Wan!wanVars) => [WanP!WanNext]_(WanP!wanVars)
  BY SameWan DEF Wan!wanVars, WanP!wanVars
<1> QED
  BY <1>1, SwapsRunOnWan, PTL DEF Wan!WanSpec, WanP!WanSpec

(* The covering of every promise and of every pending transaction, in the  *)
(* words of the composition.                                               *)
WanCovers(x) ==
  LET tx == userTxs[x]
  IN  /\ tx.value > 0
      /\ Wan!IsExist(tx.token, tx.storeman)
      /\ quotas[tx.token][tx.storeman].payable >= tx.value
      /\ quotas[tx.token][tx.storeman].debt >= tx.value
      /\ custody[tx.token] >= tx.value
      /\ supply[tx.token] >= tx.value

DebtFits(row) ==
  LET less == Eos!SubFrom(assets, row.pid, row.token, row.quantity)
  IN  /\ Eos!Fits(Eos!Balance(less, row.pid, row.token))
      /\ Eos!Fits(Eos!Balance(less, row.npid, row.token) + row.quantity)

EosCovers(x) ==
  /\ transfers[x] # NoRow => Eos!HasPK(transfers[x].pid)
  /\ debts[x] # NoRow /\ debts[x].quantity > 0
       => /\ Eos!HasPK(debts[x].pid)
          /\ Eos!Enough(assets, debts[x].pid, debts[x].token, debts[x].quantity)

EosFits(x) ==
  /\ transfers[x] # NoRow /\ transfers[x].status = "inlock" /\ transfers[x].token \in Tokens
       => Eos!Fits(Eos!Balance(assets, transfers[x].pid, transfers[x].token) + transfers[x].quantity)
  /\ /\ debts[x] # NoRow /\ debts[x].token \in Tokens
     /\ Eos!Enough(assets, debts[x].pid, debts[x].token, debts[x].quantity)
     => DebtFits(debts[x])

LEMMA PromisesCarry == EosP!EveryPromiseIsCovered => \A x \in XHashes : EosCovers(x)
BY DEF EosP!EveryPromiseIsCovered, EosCovers, Eos!HasPK, EosP!HasPK, Eos!Enough, EosP!Enough

LEMMA FitsCarry == EosP!EveryRedeemFits => \A x \in XHashes : EosFits(x)
BY DEF EosP!EveryRedeemFits, EosFits, DebtFits, Eos!Fits, EosP!Fits, Eos!Balance, EosP!Balance,
       Eos!Enough, EosP!Enough, Eos!SubFrom, EosP!SubFrom

LEMMA PendingCarry ==
  WanP!EveryPendingTxIsCovered => \A x \in XHashes : userTxs[x].status = "Locked" => WanCovers(x)
BY DEF WanP!EveryPendingTxIsCovered, WanP!Locked, WanP!UserTxCovered, WanCovers,
   Wan!IsExist, WanP!IsExist

(* Nobody halts the contract on Wanchain, and it is set up before its      *)
(* first transaction.                                                      *)
SetUpFirst ==
  /\ ~halted
  /\ ~initialized => \A x \in XHashes : userTxs[x] = Wan!NoTx

LEMMA SetUpFirstKept ==
  ASSUME SetUpFirst, [Next]_crossVars
  PROVE  SetUpFirst'
<1>1. ASSUME UNCHANGED wanVars PROVE SetUpFirst'
  BY <1>1 DEF SetUpFirst, wanVars
<1>2. ASSUME Wan!Running, UNCHANGED <<initialized, halted>> PROVE SetUpFirst'
  BY <1>2 DEF SetUpFirst, Wan!Running
<1>3. CASE Opens
  BY <1>1, <1>2, <1>3 DEF Opens, OpenInbound, OpenOutbound, OpenDebt, OnEos, OnWan, Wan!OutUserLock
<1>4. ASSUME NEW x \in XHashes, Answers(x) PROVE SetUpFirst'
  BY <1>1, <1>2, <1>4 DEF Answers, AnswerInbound, AnswerOutbound, AnswerDebt, OnEos, OnWan,
     Wan!InSmgLock, Wan!InDebtLock
<1>5. ASSUME NEW x \in XHashes, Takes(x) PROVE SetUpFirst'
  BY <1>1, <1>2, <1>5 DEF Takes, TakeInbound, TakeOutbound, TakeDebt, OnEos, OnWan,
     Wan!InUserRedeem, Wan!InDebtRedeem
<1>6. ASSUME NEW x \in XHashes, Settles(x) PROVE SetUpFirst'
  BY <1>1, <1>2, <1>6 DEF Settles, SettleInbound, SettleOutbound, SettleDebt, OnEos, OnWan,
     Wan!OutSmgRedeem
<1>7. ASSUME NEW x \in XHashes, Cancels(x) PROVE SetUpFirst'
  BY <1>1, <1>2, <1>7 DEF Cancels, CancelInbound, CancelOutbound, CancelDebt, OnEos, OnWan,
     Wan!OutUserRevoke
<1>8. ASSUME NEW x \in XHashes, Withdraws(x) PROVE SetUpFirst'
  BY <1>1, <1>2, <1>8 DEF Withdraws, WithdrawInbound, WithdrawOutbound, WithdrawDebt, OnEos,
     OnWan, Wan!InSmgRevoke, Wan!InDebtRevoke
<1>9. CASE SetUp
  BY <1>9 DEF SetUp, Wan!SetEconomics, Wan!htlcVars, SetUpFirst
<1>10. CASE Groups
  <2>1. UNCHANGED <<userTxs, initialized, halted>>
    BY <1>10 DEF Groups, OnWan, Wan!AddStoremanGroup, Wan!DeactivateStoremanGroup,
       Wan!DelStoremanGroup, Wan!htlcVars
  <2> QED
    BY <2>1 DEF SetUpFirst
<1>11. CASE Tick
  BY <1>11 DEF Tick, Wan!WanTick, Wan!Aged, Wan!Older, SetUpFirst
<1>12. CASE UNCHANGED crossVars
  BY <1>1, <1>12 DEF crossVars
<1> QED
  BY <1>3, <1>4, <1>5, <1>6, <1>7, <1>8, <1>9, <1>10, <1>11, <1>12 DEF Next

(* What Settles asks for, contract by contract: every condition that the   *)
(* contract checks before it hands over the first leg of a swap.           *)
MaySettleInbound(x) ==
  /\ IsInlock(transfers[x])
  /\ Eos!InTime(transfers[x])
  /\ Eos!HasPK(transfers[x].pid)
  /\ Eos!Fits(Eos!Balance(assets, transfers[x].pid, transfers[x].token) + transfers[x].quantity)

MaySettleOutbound(x) ==
  /\ Wan!Running
  /\ Wan!IsLocked(userTxs, x)
  /\ Wan!InTime(userTxs[x])
  /\ WanCovers(x)

MaySettleDebt(x) ==
  LET row == debts[x]
  IN  /\ row # NoRow
      /\ Eos!InTime(row)
      /\ Eos!HasPK(row.pid)
      /\ Eos!HasPK(row.npid)
      /\ Eos!Enough(assets, row.pid, row.token, row.quantity)
      /\ DebtFits(row)

MaySettle(x) ==
  \/ deals[x].kind = "inbound" /\ MaySettleInbound(x)
  \/ deals[x].kind = "outbound" /\ MaySettleOutbound(x)
  \/ deals[x].kind = "debt" /\ MaySettleDebt(x)

(* No quota, asset, key, supply or custody is ever missing when the secret *)
(* of a swap is public and its first leg still waits: PublicSecretsPay,    *)
(* with the conditions of the contracts written out.                       *)
PublicSecretsMaySettle ==
  \A x \in XHashes : deals[x].first = "locked" /\ Public(x) => MaySettle(x)

THEOREM PublicSecretsAreNeverRefused ==
  ASSUME IsFiniteSet(XHashes), IsFiniteSet(Storemen), SettlesFirst \/ "debt" \notin Kinds
  PROVE  Spec => []PublicSecretsMaySettle
<1>1. ASSUME BackInv, SetUpFirst, EosP!EveryPromiseIsCovered, EosP!EveryRedeemFits,
             WanP!EveryPendingTxIsCovered
      PROVE  PublicSecretsMaySettle
  <2> SUFFICES ASSUME NEW x \in XHashes, deals[x].first = "locked", Public(x)
               PROVE  MaySettle(x)
    BY DEF PublicSecretsMaySettle
  <2>1. /\ SwapOK(transfers[x], debts[x], userTxs[x], smgTxs[x], debtTxs[x], deals[x])
        /\ KeyOK(pks, transfers[x], debts[x], deals[x])
    BY <1>1 DEF BackInv, CrossInv, SwapsOK, KeysOK
  <2>2. /\ deals[x] # NoDeal /\ deals[x].second = "redeemed" /\ deals[x].value \in Nat \ {0}
        /\ deals[x].kind \in {"inbound", "outbound", "debt"} /\ deals[x].to \in Storemen
        /\ deals[x].token \in Tokens
    BY <1>1, CrossConstants, PartiesOfDeal
    DEF Public, BackInv, KindsOK, CrossConstants, Eos!EosConstants
  <2>3. EosCovers(x) /\ EosFits(x) /\ (userTxs[x].status = "Locked" => WanCovers(x))
    BY <1>1, PromisesCarry, FitsCarry, PendingCarry
  <2>4. CASE deals[x].kind = "inbound"
    <3>1. IsInlock(transfers[x]) /\ transfers[x].timeLeft >= 0
          /\ transfers[x].token = deals[x].token
      BY <2>1, <2>2, <2>4 DEF SwapOK, LegsAgree, LegsInTime, TermsAgree, FirstOpen, Revealed
    <3> QED
      BY <2>2, <2>3, <2>4, <3>1
      DEF MaySettle, MaySettleInbound, EosCovers, EosFits, IsInlock, Eos!InTime
  <2>5. CASE deals[x].kind = "outbound"
    <3>1. userTxs[x].status = "Locked" /\ userTxs[x].timeLeft > 0
      BY <2>1, <2>2, <2>5 DEF SwapOK, LegsAgree, LegsInTime, FirstOpen, Revealed
    <3>2. Wan!Running
      BY <1>1, <3>1, Shapes DEF SetUpFirst, Wan!Running
    <3> QED
      BY <2>3, <2>5, <3>1, <3>2 DEF MaySettle, MaySettleOutbound, Wan!IsLocked, Wan!InTime
  <2>6. CASE deals[x].kind = "debt"
    <3>1. /\ debts[x] # NoRow /\ debts[x].timeLeft >= 0 /\ debts[x].quantity = deals[x].value
          /\ pks[debts[x].npid] = deals[x].to /\ debts[x].token = deals[x].token
      BY <2>1, <2>2, <2>6
      DEF SwapOK, LegsAgree, LegsInTime, TermsAgree, FirstOpen, Revealed, KeyOK, Entered
    <3>2. Eos!HasPK(debts[x].npid)
      BY <2>2, <3>1, PidsAreFinite DEF Eos!HasPK
    <3>3. debts[x].quantity > 0
      BY <2>2, <3>1
    <3> QED
      BY <2>2, <2>3, <2>6, <3>1, <3>2, <3>3
      DEF MaySettle, MaySettleDebt, EosCovers, EosFits, Eos!InTime
  <2> QED
    BY <2>2, <2>4, <2>5, <2>6
<1>2. Init => BackInv /\ SetUpFirst
  BY InitBacked DEF Init, Wan!WanInit, SetUpFirst
<1>3. BackInv /\ SetUpFirst /\ [Next]_crossVars => BackInv' /\ SetUpFirst'
  BY BackingKept, SetUpFirstKept
<1>4. Spec => [](EosP!EveryPromiseIsCovered /\ EosP!EveryRedeemFits)
  <2>1. EosP!Spec => ([]EosP!NoNegativeDebt => []EosP!EveryPromiseIsCovered)
    BY CrossConstants, EosP!PromisesAreAlwaysCovered
    DEF CrossConstants, Eos!EosConstants, Eos!TransferRow, EosP!TransferRow, Eos!DebtRow,
        EosP!DebtRow, Eos!Pids, EosP!Pids, Eos!Expired, EosP!Expired, IsFiniteSet,
        Eos!IsFiniteSet, EosP!IsFiniteSet
  <2>2. EosP!Spec => ([]EosP!NoNegativeDebt /\ []EosP!FeesKeepApart => []EosP!EveryRedeemFits)
    BY CrossConstants, EosP!RedeemsAlwaysFit
    DEF CrossConstants, Eos!EosConstants, Eos!TransferRow, EosP!TransferRow, Eos!DebtRow,
        EosP!DebtRow, Eos!Pids, EosP!Pids, Eos!Expired, EosP!Expired, IsFiniteSet,
        Eos!IsFiniteSet, EosP!IsFiniteSet
  <2>3. EosP!Spec => []EosP!NoNegativeDebt
    BY CrossConstants, EosP!DebtsStayPositive
    DEF CrossConstants, Eos!EosConstants, Eos!TransferRow, EosP!TransferRow, Eos!DebtRow,
        EosP!DebtRow, Eos!Pids, EosP!Pids, Eos!Expired, EosP!Expired, IsFiniteSet,
        Eos!IsFiniteSet, EosP!IsFiniteSet
  <2>4. EosP!Spec => []EosP!FeesKeepApart
    BY CrossConstants, EosP!FreeRevokesKeepFeesApart
    DEF CrossConstants, Eos!EosConstants, Eos!TransferRow, EosP!TransferRow, Eos!DebtRow,
        EosP!DebtRow, Eos!Pids, EosP!Pids, Eos!Expired, EosP!Expired, IsFiniteSet,
        Eos!IsFiniteSet, EosP!IsFiniteSet
  <2> QED
    BY <2>1, <2>2, <2>3, <2>4, EosAlone, PTL
<1>5. Spec => []WanP!EveryPendingTxIsCovered
  <2>1. WanP!WanSpec => []WanP!EveryPendingTxIsCovered
    BY CrossConstants, WanP!PendingTxsAreAlwaysCovered
    DEF CrossConstants, Wan!WanConstants, IsFiniteSet, WanP!IsFiniteSet
  <2> QED
    BY <2>1, WanAlone, PTL
<1> QED
  BY <1>1, <1>2, <1>3, <1>4, <1>5, PTL DEF Spec
=============================================================================
