---------------------------- MODULE Rewards_proofs ----------------------------
(***************************************************************************)
(* Theorems about Rewards for every number of users, purchases and         *)
(* applications of codes, every limit and every amount, and about Pricing  *)
(* for every set of orders.                                                *)
(***************************************************************************)
EXTENDS Rewards, Pricing, FiniteSetTheorems, SequenceTheorems, WellFoundedInduction, TLAPS

(***************************************************************************)
(* Type correctness.  RewardTypeOK is inductive once it is known that the  *)
(* handlers of newPurchase start when their purchase is over.              *)
(***************************************************************************)
PayoutSteps   == {"none", "todo", "open", "done"}
CountingSteps == {"none", "todo", "counted", "lost"}
UserRow       == [referrer : Users \cup {Nobody}, pending : BOOLEAN]
Carts         == [uses : Int, credit : Int, referral : Int, charge : Int, newRow : BOOLEAN]
InTx(c)       == \/ at[c] \in {"selling", "releasing", "applying"}
                 \/ c \in Purchases /\ payout[c] = "open"

TxOK ==
  /\ at \in [Clients -> SaleSteps \cup ApplySteps]
  /\ payout \in [Purchases -> PayoutSteps]
  /\ \A p \in Purchases : payout[p] # "none" => at[p] = "done"
  /\ open = {c \in Clients : InTx(c)}
  /\ stale \in [Clients -> SUBSET Rows]

RowsOK ==
  /\ user \in [Users -> UserRow]
  /\ userUsed \in [Users -> Int]
  /\ globalRows \in Seq(Int)
  /\ credit \in [Users -> Int]
  /\ referral \in [Users -> Int]
  /\ who \in [Clients -> Users]
  /\ cart \in [Purchases -> Carts]
  /\ counting \in [Purchases -> CountingSteps]
  /\ seen \in [Purchases -> UserRow]
  /\ copy \in [Applications -> Users \cup {Nobody}]
  /\ applied \in [Users -> Nat]
  /\ paidFor \in [Users -> Nat]
  /\ earned \in [Users -> Nat]

LEMMA TypesAreParts == RewardTypeOK /\ (\A p \in Purchases : payout[p] # "none" => at[p] = "done")
                         <=> TxOK /\ RowsOK
  BY DEF RewardTypeOK, TxOK, RowsOK, InTx, UserRow, Carts, PayoutSteps, CountingSteps

LEMMA RowSets ==
  ASSUME RowsOK
  PROVE  /\ \A p \in Purchases : Touched(p) \in SUBSET Rows
         /\ \A p \in Purchases : {<<"user", who[p]>>} \in SUBSET Rows
         /\ \A p \in Purchases : seen[p].referrer \in Users => PayoutRows(p) \in SUBSET Rows
         /\ \A a \in Applications : ApplyRows(a) \in SUBSET Rows
         /\ \A a \in Applications : {<<"user", who[a]>>} \in SUBSET Rows
  BY DEF RowsOK, Rows, Touched, PayoutRows, ApplyRows, Clients

\* A request that opens a transaction moves to a step that holds one.
LEMMA TxBegins ==
  ASSUME TxOK, NEW c \in Clients, NEW there \in {"selling", "releasing", "applying"},
         at[c] # "done", Goto(c, there), BeginTx(c), UNCHANGED payout
  PROVE  TxOK'
<1>1. at' \in [Clients -> SaleSteps \cup ApplySteps]
  BY DEF TxOK, Goto, SaleSteps, ApplySteps
<1> QED
  BY <1>1 DEF TxOK, Goto, BeginTx, InTx

\* A request that ends its transaction moves to a step that holds none.
LEMMA TxEnds ==
  ASSUME TxOK, NEW c \in Clients,
         NEW there \in (SaleSteps \cup ApplySteps) \ {"selling", "releasing", "applying"},
         at[c] # "done", Goto(c, there), NEW rows \in SUBSET Rows, EndTx(c, rows),
         UNCHANGED payout
  PROVE  TxOK'
<1>1. at' \in [Clients -> SaleSteps \cup ApplySteps]
  BY DEF TxOK, Goto
<1>2. c \notin Purchases \/ payout[c] = "none"
  BY DEF TxOK
<1>3. open' = {d \in Clients : InTx(d)'}
  BY <1>1, <1>2 DEF TxOK, EndTx, Goto, InTx
<1>4. stale' \in [Clients -> SUBSET Rows]
  BY DEF TxOK, EndTx
<1> QED
  BY <1>1, <1>3, <1>4 DEF TxOK, Goto

\* All other moves of a request are between steps without a transaction.
LEMMA TxElsewhere ==
  ASSUME TxOK, NEW c \in Clients,
         NEW there \in (SaleSteps \cup ApplySteps) \ {"selling", "releasing", "applying"},
         at[c] \notin {"selling", "releasing", "applying", "done"}, Goto(c, there),
         UNCHANGED <<open, payout>>, stale' \in [Clients -> SUBSET Rows]
  PROVE  TxOK'
<1>1. at' \in [Clients -> SaleSteps \cup ApplySteps]
  BY DEF TxOK, Goto
<1> QED
  BY <1>1 DEF TxOK, Goto, InTx

\* The end of a payout, whose purchase is over.
LEMMA PayoutTxEnds ==
  ASSUME TxOK, NEW p \in Purchases, payout[p] \in {"todo", "open"},
         NEW rows \in SUBSET Rows, EndPayout(p, rows), UNCHANGED at
  PROVE  TxOK'
<1>1. at[p] = "done" /\ p \in Clients
  BY DEF TxOK, Clients
<1>2. open' = {d \in Clients : InTx(d)'}
  BY <1>1 DEF TxOK, EndPayout, EndTx, InTx, PayoutSteps
<1>3. stale' \in [Clients -> SUBSET Rows]
  BY DEF TxOK, EndPayout, EndTx
<1> QED
  BY <1>1, <1>2, <1>3 DEF TxOK, EndPayout, PayoutSteps

LEMMA NextTxOK == TxOK /\ RowsOK /\ [Next]_rewardVars => TxOK'
<1> SUFFICES ASSUME TxOK, RowsOK, [Next]_rewardVars PROVE TxOK'
  OBVIOUS
<1>0. {} \in SUBSET Rows /\ stale \in [Clients -> SUBSET Rows]
  BY DEF TxOK
<1>1. ASSUME NEW p \in Purchases, SaleStep(p) PROVE TxOK'
  <2>0. p \in Clients
    BY DEF Clients
  <2>1. CASE SaleBegin(p) \/ UndoBegin(p)
    BY <2>0, <2>1, TxBegins DEF SaleBegin, UndoBegin, handlers
  <2>2. CASE SaleRefuse(p) \/ ChargeFails(p)
    <3>1. \E there \in (SaleSteps \cup ApplySteps) \ {"selling", "releasing", "applying"} : Goto(p, there)
      BY <2>2 DEF SaleRefuse, ChargeFails, SaleSteps
    <3> QED
      BY <1>0, <2>0, <2>2, <3>1, TxElsewhere DEF SaleRefuse, ChargeFails, handlers
  <2>3. CASE SaleCommit(p) \/ SaleConflict(p) \/ UndoCommit(p) \/ UndoFails(p) \/ Crash(p)
    <3>1. \E there \in (SaleSteps \cup ApplySteps) \ {"selling", "releasing", "applying"} : Goto(p, there)
      BY <2>3 DEF SaleCommit, SaleConflict, UndoCommit, UndoFails, Crash, SaleSteps
    <3>2. \E rows \in SUBSET Rows : EndTx(p, rows)
      BY <1>0, <2>3, RowSets DEF SaleCommit, SaleConflict, UndoCommit, UndoFails, Crash
    <3> QED
      BY <2>0, <2>3, <3>1, <3>2, TxEnds
      DEF SaleCommit, SaleConflict, UndoCommit, UndoFails, Crash, handlers
  <2>4. CASE ChargeSucceeds(p)
    BY <1>0, <2>0, <2>4 DEF ChargeSucceeds, Goto, TxOK, InTx, SaleSteps, PayoutSteps
  <2> QED
    BY <1>1, <2>1, <2>2, <2>3, <2>4 DEF SaleStep
<1>2. ASSUME NEW p \in Purchases, EventStep(p) PROVE TxOK'
  <2>1. CASE CountUses(p) \/ CountLost(p)
    BY <2>1 DEF CountUses, CountLost, TxOK, InTx
  <2>2. CASE PayoutBegin(p)
    BY <2>2 DEF PayoutBegin, BeginTx, TxOK, InTx, PayoutSteps, Clients
  <2>3. CASE PayReferrer(p) \/ MarkUnreferred(p) \/ PayoutEnds(p)
    <3>1. \E rows \in SUBSET Rows : EndPayout(p, rows)
      BY <1>0, <2>3, RowSets DEF PayReferrer, MarkUnreferred, PayoutEnds
    <3> QED
      BY <2>3, <3>1, PayoutTxEnds DEF PayReferrer, MarkUnreferred, PayoutEnds
  <2> QED
    BY <1>2, <2>1, <2>2, <2>3 DEF EventStep
<1>3. ASSUME NEW a \in Applications, ApplyStep(a) PROVE TxOK'
  <2>0. a \in Clients
    BY DEF Clients
  <2>1. CASE ApplyRead(a)
    BY <1>0, <2>0, <2>1, TxElsewhere DEF ApplyRead, handlers, ApplySteps
  <2>2. CASE ApplyBegin(a)
    BY <2>0, <2>2, TxBegins DEF ApplyBegin, handlers
  <2>3. CASE ApplyRefuse(a)
    <3>1. stale' \in [Clients -> SUBSET Rows]
      BY <1>0, <2>3, RowSets DEF ApplyRefuse
    <3> QED
      BY <2>0, <2>3, <3>1, TxElsewhere DEF ApplyRefuse, handlers, ApplySteps
  <2>4. CASE ApplyCommit(a) \/ ApplyEnds(a)
    <3>1. \E there \in (SaleSteps \cup ApplySteps) \ {"selling", "releasing", "applying"} : Goto(a, there)
      BY <2>4 DEF ApplyCommit, ApplyEnds, ApplySteps
    <3>2. \E rows \in SUBSET Rows : EndTx(a, rows)
      BY <1>0, <2>4, RowSets DEF ApplyCommit, ApplyEnds
    <3> QED
      BY <2>0, <2>4, <3>1, <3>2, TxEnds DEF ApplyCommit, ApplyEnds, handlers
  <2> QED
    BY <1>3, <2>1, <2>2, <2>3, <2>4 DEF ApplyStep
<1>4. CASE UNCHANGED rewardVars
  BY <1>4 DEF rewardVars, TxOK, InTx
<1> QED
  BY <1>1, <1>2, <1>3, <1>4 DEF Next

\* The cart of a purchase is whole amounts.
LEMMA CartIsWhole ==
  ASSUME RowsOK, NEW u \in Users, NEW n \in 1..MaxTickets, NEW uses \in Int
  PROVE  CartFor(u, n, uses) \in Carts
<1>1. n \in Int /\ credit[u] \in Int /\ referral[u] \in Int
  BY AmountsAreNat DEF RowsOK
<1> QED
  BY <1>1 DEF CartFor, Carts, Least

\* Updates of a field of a row of users.
LEMMA RowUpdates ==
  ASSUME NEW r \in UserRow, NEW v \in Users \cup {Nobody}
  PROVE  /\ [r EXCEPT !.pending = FALSE] \in UserRow
         /\ [r EXCEPT !.pending = FALSE].referrer = r.referrer
         /\ [r EXCEPT !.pending = FALSE].pending = FALSE
         /\ [r EXCEPT !.referrer = v] \in UserRow
         /\ [r EXCEPT !.referrer = v].pending = r.pending
  BY DEF UserRow

\* Updates of a counter, and of a balance.
LEMMA CounterUpdates ==
  ASSUME NEW S, NEW f, NEW x \in S, NEW n \in Int
  PROVE  /\ f \in [S -> Nat] => [f EXCEPT ![x] = @ + 1] \in [S -> Nat]
         /\ f \in [S -> Int] => [f EXCEPT ![x] = @ + n] \in [S -> Int]
<1>1. ASSUME f \in [S -> Nat] PROVE [f EXCEPT ![x] = @ + 1] \in [S -> Nat]
  BY <1>1
<1>2. ASSUME f \in [S -> Int] PROVE [f EXCEPT ![x] = @ + n] \in [S -> Int]
  BY <1>2
<1> QED
  BY <1>1, <1>2

LEMMA NextRowsOK == TxOK /\ RowsOK /\ [Next]_rewardVars => RowsOK'
<1> SUFFICES ASSUME TxOK, RowsOK, [Next]_rewardVars PROVE RowsOK'
  OBVIOUS
<1>0. /\ Reward \in Nat /\ UserLimit \in Nat
      /\ Purchases \subseteq Clients /\ Applications \subseteq Clients
      /\ \A p \in Purchases : /\ cart[p].uses \in Int /\ cart[p].credit \in Int
                             /\ cart[p].referral \in Int /\ who[p] \in Users
      /\ \A a \in Applications : who[a] \in Users
  BY AmountsAreNat, LimitsAreSet DEF RowsOK, Carts, Clients
<1>1. ASSUME NEW p \in Purchases, SaleStep(p) PROVE RowsOK'
  <2>1. CASE SaleBegin(p)
    <3>1. PICK n \in 1..MaxTickets, uses \in Int : cart' = [cart EXCEPT ![p] = CartFor(who[p], n, uses)]
      <4>1. \A n \in 1..MaxTickets : UsesLeft(who[p], n) \in Int
        BY <1>0, AmountsAreNat DEF UsesLeft, Least, RowsOK
      <4> QED
        BY <2>1, <4>1 DEF SaleBegin
    <3> QED
      BY <1>0, <2>1, <3>1, CartIsWhole DEF SaleBegin, RowsOK, tables, handlers, history
  <2>2. CASE \/ SaleRefuse(p) \/ SaleConflict(p) \/ ChargeFails(p) \/ UndoBegin(p)
             \/ UndoFails(p) \/ Crash(p)
    BY <2>2 DEF SaleRefuse, SaleConflict, ChargeFails, UndoBegin, UndoFails, Crash, RowsOK,
                tables, handlers, history
  <2>3. CASE SaleCommit(p)
    <3>1. globalRows' \in Seq(Int)
      BY <2>3, AppendProperties DEF SaleCommit, RowsOK
    <3>2. userUsed' \in [Users -> Int] /\ credit' \in [Users -> Int] /\ referral' \in [Users -> Int]
      BY SMTT(30), <1>0, <2>3 DEF SaleCommit, RowsOK
    <3> QED
      BY <2>3, <3>1, <3>2 DEF SaleCommit, RowsOK, handlers, history
  <2>4. CASE ChargeSucceeds(p)
    BY <2>4 DEF ChargeSucceeds, RowsOK, tables, history, CountingSteps
  <2>5. CASE UndoCommit(p)
    <3>1. userUsed' \in [Users -> Int] /\ credit' \in [Users -> Int] /\ referral' \in [Users -> Int]
      BY SMTT(30), <1>0, <2>5 DEF UndoCommit, UsesReturned, RowsOK
    <3> QED
      BY <2>5, <3>1 DEF UndoCommit, RowsOK, handlers, history
  <2> QED
    BY <1>1, <2>1, <2>2, <2>3, <2>4, <2>5 DEF SaleStep
<1>2. ASSUME NEW p \in Purchases, EventStep(p) PROVE RowsOK'
  <2>0. seen[p] \in UserRow /\ user[who[p]] \in UserRow /\ Unread \in UserRow /\ p \in Clients
    BY <1>0 DEF RowsOK, UserRow, Unread
  <2> DEFINE paidRow == [seen[p] EXCEPT !.pending = FALSE]
             ownRow  == [user[who[p]] EXCEPT !.referrer = who[p]]
  <2>a. paidRow \in UserRow /\ ownRow \in UserRow
    BY <1>0, <2>0, RowUpdates
  <2>1. CASE CountUses(p)
    <3>1. PICK i \in DOMAIN globalRows : globalRows' = [globalRows EXCEPT ![i] = @ + cart[p].uses]
      BY <2>1 DEF CountUses, Counted
    <3>2. globalRows \in Seq(Int) /\ i \in 1..Len(globalRows) /\ globalRows[i] + cart[p].uses \in Int
      BY SMTT(30), <1>0, <3>1 DEF RowsOK
    <3>3. globalRows' \in Seq(Int)
      BY <3>1, <3>2, ExceptSeq
    <3> QED
      BY <2>1, <3>3 DEF CountUses, RowsOK, history, CountingSteps
  <2>2. CASE CountLost(p)
    BY <2>2 DEF CountLost, RowsOK, tables, history, CountingSteps
  <2>3. CASE PayoutBegin(p)
    BY <2>0, <2>3 DEF PayoutBegin, RowsOK, tables, history
  <2>4. CASE PayReferrer(p)
    <3>1. user' = [user EXCEPT ![who[p]] = paidRow] /\ seen' = [seen EXCEPT ![p] = Unread]
      BY <2>4 DEF PayReferrer, EndPayout
    <3>2. user' \in [Users -> UserRow] /\ seen' \in [Purchases -> UserRow]
      <4> HIDE DEF paidRow
      <4> QED
        BY <2>0, <2>a, <3>1 DEF RowsOK
    <3>3. credit' \in [Users -> Int] /\ paidFor' \in [Users -> Nat] /\ earned' \in [Users -> Nat]
      <4>1. /\ credit' = [credit EXCEPT ![seen[p].referrer] = @ + Reward]
            /\ paidFor' = [paidFor EXCEPT ![who[p]] = @ + 1]
            /\ earned' = [earned EXCEPT ![seen[p].referrer] = @ + 1]
            /\ seen[p].referrer \in Users /\ who[p] \in Users
        BY <1>0, <2>4 DEF PayReferrer
      <4>2. Reward \in Int /\ credit \in [Users -> Int] /\ paidFor \in [Users -> Nat] /\ earned \in [Users -> Nat]
        BY <1>0 DEF RowsOK
      <4>3. credit' \in [Users -> Int]
        BY <4>1, <4>2, CounterUpdates
      <4>4. paidFor' \in [Users -> Nat]
        BY <4>1, <4>2, CounterUpdates, 1 \in Int
      <4>5. earned' \in [Users -> Nat]
        BY <4>1, <4>2, CounterUpdates, 1 \in Int
      <4> QED
        BY <4>3, <4>4, <4>5
    <3>4. UNCHANGED <<userUsed, globalRows, referral, who, cart, counting, copy, applied>>
      BY <2>4 DEF PayReferrer
    <3> QED
      BY <3>2, <3>3, <3>4 DEF RowsOK
  <2>5. CASE MarkUnreferred(p)
    <3>1. user' = [user EXCEPT ![who[p]] = ownRow] /\ seen' = [seen EXCEPT ![p] = Unread]
      BY <2>5 DEF MarkUnreferred, EndPayout
    <3>2. user' \in [Users -> UserRow] /\ seen' \in [Purchases -> UserRow]
      <4> HIDE DEF ownRow
      <4> QED
        BY <2>0, <2>a, <3>1 DEF RowsOK
    <3> QED
      BY <2>5, <3>2 DEF MarkUnreferred, RowsOK, history
  <2>6. CASE PayoutEnds(p)
    BY <2>0, <2>6 DEF PayoutEnds, EndPayout, RowsOK, tables, history
  <2> QED
    BY <1>2, <2>1, <2>2, <2>3, <2>4, <2>5, <2>6 DEF EventStep
<1>3. ASSUME NEW a \in Applications, ApplyStep(a) PROVE RowsOK'
  <2>0. user[who[a]] \in UserRow
    BY <1>0 DEF RowsOK
  <2> DEFINE ownRow == [user[who[a]] EXCEPT !.referrer = who[a]]
  <2>a. ownRow \in UserRow
    BY <1>0, <2>0, RowUpdates
  <2>1. CASE ApplyRead(a)
    <3>1. user[who[a]].referrer \in Users \cup {Nobody}
      BY <2>0 DEF UserRow
    <3> QED
      BY <2>1, <3>1 DEF ApplyRead, RowsOK, tables, handlers, history
  <2>2. CASE ApplyBegin(a) \/ ApplyEnds(a)
    BY <2>2 DEF ApplyBegin, ApplyEnds, RowsOK, tables, handlers, history
  <2>3. CASE ApplyRefuse(a)
    <3>1. user' \in {user, [user EXCEPT ![who[a]] = ownRow]}
      BY <2>3 DEF ApplyRefuse
    <3>2. user' \in [Users -> UserRow]
      <4> HIDE DEF ownRow
      <4> QED
        BY <2>a, <3>1 DEF RowsOK
    <3> QED
      BY <2>3, <3>2 DEF ApplyRefuse, RowsOK, handlers, history
  <2>4. CASE ApplyCommit(a)
    <3>1. PICK owner \in Users :
            user' = [user EXCEPT ![who[a]] = [referrer |-> owner, pending |-> TRUE]]
      BY <2>4 DEF ApplyCommit
    <3>2. user' \in [Users -> UserRow]
      BY <3>1 DEF RowsOK, UserRow
    <3>3. referral' \in [Users -> Int] /\ applied' \in [Users -> Nat]
      <4>1. /\ referral' = [referral EXCEPT ![who[a]] = @ + Reward]
            /\ applied' = [applied EXCEPT ![who[a]] = @ + 1]
            /\ who[a] \in Users
        BY <1>0, <2>4 DEF ApplyCommit
      <4>2. Reward \in Int /\ 1 \in Int /\ referral \in [Users -> Int] /\ applied \in [Users -> Nat]
        BY <1>0 DEF RowsOK
      <4>3. referral' \in [Users -> Int]
        BY <4>1, <4>2, CounterUpdates
      <4>4. applied' \in [Users -> Nat]
        BY <4>1, <4>2, CounterUpdates
      <4> QED
        BY <4>3, <4>4
    <3>4. UNCHANGED <<userUsed, globalRows, credit, who, cart, counting, seen, copy, paidFor, earned>>
      BY <2>4 DEF ApplyCommit, handlers
    <3> QED
      BY <3>2, <3>3, <3>4 DEF RowsOK
  <2> QED
    BY <1>3, <2>1, <2>2, <2>3, <2>4 DEF ApplyStep
<1>4. CASE UNCHANGED rewardVars
  BY <1>4 DEF rewardVars, RowsOK
<1> QED
  BY <1>1, <1>2, <1>3, <1>4 DEF Next

LEMMA InitOK == Init => TxOK /\ RowsOK
<1> SUFFICES ASSUME Init PROVE TxOK /\ RowsOK
  OBVIOUS
<1>1. TxOK
  BY DEF Init, TxOK, InTx, SaleSteps, ApplySteps, PayoutSteps, Clients
<1>2. Unread \in UserRow /\ Empty \in Carts /\ <<>> \in Seq(Int)
  BY DEF Unread, UserRow, Empty, Carts
<1> QED
  BY <1>1, <1>2, AmountsAreNat DEF Init, RowsOK, CountingSteps

\* Every state of the rewards is well-typed; the open transactions are exactly those of
\* the requests and handlers in a step that holds one, and no handler runs before its
\* purchase is over.
THEOREM RewardsAreWellTyped == Spec => []RewardTypeOK
<1>1. TxOK /\ RowsOK /\ [Next]_rewardVars => (TxOK /\ RowsOK)'
  BY NextTxOK, NextRowsOK
<1> QED
  BY InitOK, <1>1, TypesAreParts, PTL DEF Spec

(***************************************************************************)
(* What is spent.  NothingOverspent is not inductive: a purchase decides   *)
(* on its snapshot what it will take.  What makes it safe is that a        *)
(* decision holds until a row it rests on has been written by somebody     *)
(* else, and then its commit fails.                                        *)
(***************************************************************************)
CartNotNegative(p) == cart[p].uses >= 0 /\ cart[p].credit >= 0 /\ cart[p].referral >= 0

\* What p decided to take is still there, or p will fail to commit.
Fits(p) ==
  at[p] = "selling" =>
    /\ cart[p].uses > 0 /\ <<"usage", who[p]>> \notin stale[p]
         => userUsed[who[p]] + cart[p].uses <= UserLimit
    /\ cart[p].credit > 0 /\ <<"credit", who[p]>> \notin stale[p]
         => cart[p].credit <= credit[who[p]]
    /\ cart[p].referral > 0 /\ <<"referral", who[p]>> \notin stale[p]
         => cart[p].referral <= referral[who[p]]

SpendInv ==
  /\ NothingOverspent
  /\ \A p \in Purchases : CartNotNegative(p)
  /\ \A p \in Purchases : Fits(p)

\* No cart takes more than there is in the snapshot.
LEMMA CartFits ==
  ASSUME RowsOK, NEW u \in Users, NEW n \in 1..MaxTickets, NEW uses \in 0..n,
         credit[u] >= 0, referral[u] >= 0
  PROVE  LET taken == CartFor(u, n, uses)
         IN  /\ taken.uses = uses
             /\ 0 <= taken.referral /\ taken.referral <= referral[u]
             /\ 0 <= taken.credit /\ taken.credit <= credit[u]
<1>1. n \in Nat /\ uses \in Nat /\ uses <= n /\ credit[u] \in Int /\ referral[u] \in Int
  BY AmountsAreNat DEF RowsOK
<1> QED
  BY <1>1 DEF CartFor, Least

\* What fits goes on to fit while nobody takes from its user unseen.
LEMMA StillFits ==
  ASSUME RowsOK, RowsOK', NEW q \in Purchases, Fits(q), at[q] = "selling",
         UNCHANGED <<who, cart>>, stale[q] \subseteq stale'[q],
         userUsed'[who[q]] <= userUsed[who[q]] \/ <<"usage", who[q]>> \in stale'[q],
         credit'[who[q]] >= credit[who[q]] \/ <<"credit", who[q]>> \in stale'[q],
         referral'[who[q]] >= referral[who[q]] \/ <<"referral", who[q]>> \in stale'[q]
  PROVE  Fits(q)'
<1>1. /\ who[q] \in Users /\ cart[q].uses \in Int /\ cart[q].credit \in Int /\ cart[q].referral \in Int
      /\ userUsed[who[q]] \in Int /\ credit[who[q]] \in Int /\ referral[who[q]] \in Int
      /\ userUsed'[who[q]] \in Int /\ credit'[who[q]] \in Int /\ referral'[who[q]] \in Int
  BY DEF RowsOK, Carts, Clients
<1> QED
  BY <1>1, LimitsAreSet DEF Fits

\* What a transaction commits is stale for every purchase that is deciding.
LEMMA OthersSeeIt ==
  ASSUME TxOK, NEW c \in Clients, NEW rows, EndTx(c, rows),
         NEW q \in Purchases, q # c, at[q] = "selling"
  PROVE  stale'[q] = stale[q] \cup rows
  BY DEF TxOK, EndTx, InTx, Clients

\* What an amount is after an update.
LEMMA AmountAfter ==
  ASSUME NEW S, NEW f \in [S -> Int], NEW x, NEW y \in S, NEW n \in Int
  PROVE  /\ [f EXCEPT ![x] = @ + n][y] = IF y = x THEN f[y] + n ELSE f[y]
         /\ [f EXCEPT ![x] = @ - n][y] = IF y = x THEN f[y] - n ELSE f[y]
<1>1. CASE x = y
  BY <1>1
<1>2. CASE x # y
  BY <1>2
<1> QED
  BY <1>1, <1>2

LEMMA NextSpendInv == TxOK /\ RowsOK /\ RowsOK' /\ SpendInv /\ [Next]_rewardVars => SpendInv'
<1> SUFFICES ASSUME TxOK, RowsOK, RowsOK', SpendInv, [Next]_rewardVars PROVE SpendInv'
  OBVIOUS
<1>0. /\ Reward \in Nat /\ UserLimit \in Nat /\ Purchases \subseteq Clients /\ Applications \subseteq Clients
      /\ \A p \in Purchases : /\ who[p] \in Users /\ CartNotNegative(p) /\ Fits(p)
                             /\ cart[p].uses \in Int /\ cart[p].credit \in Int /\ cart[p].referral \in Int
      /\ \A u \in Users : /\ userUsed[u] \in Int /\ credit[u] \in Int /\ referral[u] \in Int
                          /\ credit[u] >= 0 /\ referral[u] >= 0 /\ userUsed[u] <= UserLimit
  BY AmountsAreNat, LimitsAreSet DEF RowsOK, Carts, Clients, SpendInv, NothingOverspent
<1>b. userUsed \in [Users -> Int] /\ credit \in [Users -> Int] /\ referral \in [Users -> Int]
  BY DEF RowsOK
\* Steps that change nothing that is spent.
<1>a. ASSUME UNCHANGED <<userUsed, credit, referral, who, cart>>,
             \A q \in Purchases : at'[q] = "selling" => at[q] = "selling" /\ stale[q] \subseteq stale'[q]
      PROVE  SpendInv'
  <2>1. ASSUME NEW q \in Purchases PROVE Fits(q)'
    <3>1. CASE at'[q] # "selling"
      BY <3>1 DEF Fits
    <3>2. CASE at'[q] = "selling"
      <4>1. /\ userUsed'[who[q]] <= userUsed[who[q]] /\ credit'[who[q]] >= credit[who[q]]
            /\ referral'[who[q]] >= referral[who[q]]
        BY <1>0, <1>a
      <4> QED
        BY <1>0, <1>a, <3>2, <4>1, StillFits
    <3> QED
      BY <3>1, <3>2
  <2> QED
    BY <1>0, <1>a, <2>1 DEF SpendInv, NothingOverspent, CartNotNegative
<1>1. ASSUME NEW p \in Purchases, SaleStep(p) PROVE SpendInv'
  <2>0. p \in Clients /\ who[p] \in Users
    BY <1>0
  <2>1. CASE SaleBegin(p)
    <3>0. PICK n \in 1..MaxTickets : \E uses \in 0..n :
            /\ cart' = [cart EXCEPT ![p] = CartFor(who[p], n, uses)]
            /\ uses > 0 => userUsed[who[p]] + uses <= UserLimit
      <4>1. ASSUME NEW n \in 1..MaxTickets, userUsed[who[p]] < UserLimit
            PROVE  UsesLeft(who[p], n) \in 0..n /\ userUsed[who[p]] + UsesLeft(who[p], n) <= UserLimit
        BY <1>0, <4>1, AmountsAreNat DEF UsesLeft, Least
      <4>2. ASSUME NEW n \in 1..MaxTickets PROVE 0 \in 0..n
        BY AmountsAreNat
      <4> QED
        BY <2>1, <4>1, <4>2 DEF SaleBegin
    <3>1. PICK uses \in 0..n : /\ cart' = [cart EXCEPT ![p] = CartFor(who[p], n, uses)]
                               /\ uses > 0 => userUsed[who[p]] + uses <= UserLimit
      BY <3>0
    <3> DEFINE taken == CartFor(who[p], n, uses)
    <3>2. /\ taken.uses = uses /\ uses \in Nat
          /\ 0 <= taken.referral /\ taken.referral <= referral[who[p]]
          /\ 0 <= taken.credit /\ taken.credit <= credit[who[p]]
      BY <1>0, CartFits, AmountsAreNat
    <3>3. /\ UNCHANGED <<userUsed, credit, referral, who, stale>>
          /\ at' = [at EXCEPT ![p] = "selling"] /\ cart' = [cart EXCEPT ![p] = taken]
      BY <2>1, <3>1 DEF SaleBegin, BeginTx, Goto, tables
    <3> HIDE DEF taken
    <3>4. ASSUME NEW q \in Purchases PROVE CartNotNegative(q)' /\ Fits(q)'
      <4>1. CASE q = p
        <5>1. cart'[q] = taken /\ who'[q] = who[p] /\ at'[q] = "selling"
          BY <3>3, <4>1 DEF RowsOK, TxOK, Clients
        <5>2. UNCHANGED <<userUsed, credit, referral>>
          BY <3>3
        <5> QED
          BY <1>0, <3>1, <3>2, <5>1, <5>2 DEF CartNotNegative, Fits
      <4>2. CASE q # p
        BY <1>0, <3>3, <4>2 DEF CartNotNegative, Fits, TxOK, RowsOK
      <4> QED
        BY <4>1, <4>2
    <3> QED
      BY <1>0, <3>3, <3>4 DEF SpendInv, NothingOverspent
  <2>2. CASE SaleRefuse(p) \/ ChargeSucceeds(p) \/ ChargeFails(p) \/ UndoBegin(p)
    <3>1. \E there \in {"refused", "done", "undoing", "releasing"} : at' = [at EXCEPT ![p] = there]
      BY <2>2 DEF SaleRefuse, ChargeSucceeds, ChargeFails, UndoBegin, Goto
    <3>2. UNCHANGED <<userUsed, credit, referral, who, cart, stale>>
      BY <2>2 DEF SaleRefuse, ChargeSucceeds, ChargeFails, UndoBegin, BeginTx, tables
    <3> QED
      BY <1>a, <2>0, <3>1, <3>2 DEF TxOK
  <2>3. CASE SaleConflict(p) \/ UndoFails(p) \/ Crash(p)
    <3>1. \E there \in {"refused", "stranded"} : at' = [at EXCEPT ![p] = there]
      BY <2>3 DEF SaleConflict, UndoFails, Crash, Goto
    <3>2. UNCHANGED <<userUsed, credit, referral, who, cart>> /\ EndTx(p, {})
      BY <2>3 DEF SaleConflict, UndoFails, Crash, tables
    <3>3. ASSUME NEW q \in Purchases, at'[q] = "selling" PROVE at[q] = "selling" /\ stale[q] \subseteq stale'[q]
      <4>1. at[q] = "selling" /\ q # p
        BY <2>0, <3>1, <3>3 DEF TxOK
      <4> QED
        BY <2>0, <3>2, <4>1, OthersSeeIt
    <3> QED
      BY <1>a, <3>2, <3>3
  <2>4. CASE SaleCommit(p)
    <3>1. /\ at[p] = "selling" /\ ~Conflict(p, Touched(p)) /\ EndTx(p, Touched(p))
          /\ at' = [at EXCEPT ![p] = "charging"] /\ UNCHANGED <<who, cart>>
          /\ userUsed' = [userUsed EXCEPT ![who[p]] = @ + cart[p].uses]
          /\ credit'   = [credit EXCEPT ![who[p]] = @ - cart[p].credit]
          /\ referral' = [referral EXCEPT ![who[p]] = @ - cart[p].referral]
      BY <2>4 DEF SaleCommit, Goto
    <3>2. /\ cart[p].uses > 0 => <<"usage", who[p]>> \in Touched(p) \ stale[p]
          /\ cart[p].credit > 0 => <<"credit", who[p]>> \in Touched(p) \ stale[p]
          /\ cart[p].referral > 0 => <<"referral", who[p]>> \in Touched(p) \ stale[p]
      BY <2>0, <3>1 DEF Conflict, Touched, Rows
    <3>3. /\ userUsed[who[p]] + cart[p].uses <= UserLimit
          /\ cart[p].credit <= credit[who[p]]
          /\ cart[p].referral <= referral[who[p]]
      BY <1>0, <2>0, <3>1, <3>2 DEF Fits, CartNotNegative
    <3>4. ASSUME NEW u \in Users PROVE credit'[u] >= 0 /\ referral'[u] >= 0 /\ userUsed'[u] <= UserLimit
      <4>1. /\ userUsed'[u] = IF u = who[p] THEN userUsed[u] + cart[p].uses ELSE userUsed[u]
            /\ credit'[u] = IF u = who[p] THEN credit[u] - cart[p].credit ELSE credit[u]
            /\ referral'[u] = IF u = who[p] THEN referral[u] - cart[p].referral ELSE referral[u]
        BY <1>0, <1>b, <3>1, AmountAfter
      <4> QED
        BY <1>0, <2>0, <3>3, <4>1
    <3>5. ASSUME NEW q \in Purchases PROVE Fits(q)'
      <4>1. CASE at'[q] # "selling"
        BY <4>1 DEF Fits
      <4>2. CASE at'[q] = "selling"
        <5>1. at[q] = "selling" /\ q # p
          BY <2>0, <3>1, <4>2 DEF TxOK
        <5>2. stale'[q] = stale[q] \cup Touched(p)
          BY <2>0, <3>1, <5>1, OthersSeeIt
        <5>a. who[q] \in Users /\ CartNotNegative(p)
          BY <1>0
        <5>3. userUsed'[who[q]] <= userUsed[who[q]] \/ <<"usage", who[q]>> \in stale'[q]
          <6>1. userUsed'[who[q]] = IF who[q] = who[p] THEN userUsed[who[q]] + cart[p].uses
                                                       ELSE userUsed[who[q]]
            BY <1>0, <1>b, <3>1, <5>a, AmountAfter
          <6> QED
            BY <1>0, <3>2, <5>2, <5>a, <6>1 DEF CartNotNegative
        <5>4. credit'[who[q]] >= credit[who[q]] \/ <<"credit", who[q]>> \in stale'[q]
          <6>1. credit'[who[q]] = IF who[q] = who[p] THEN credit[who[q]] - cart[p].credit
                                                     ELSE credit[who[q]]
            BY <1>0, <1>b, <3>1, <5>a, AmountAfter
          <6> QED
            BY <1>0, <3>2, <5>2, <5>a, <6>1 DEF CartNotNegative
        <5>5. referral'[who[q]] >= referral[who[q]] \/ <<"referral", who[q]>> \in stale'[q]
          <6>1. referral'[who[q]] = IF who[q] = who[p] THEN referral[who[q]] - cart[p].referral
                                                       ELSE referral[who[q]]
            BY <1>0, <1>b, <3>1, <5>a, AmountAfter
          <6> QED
            BY <1>0, <3>2, <5>2, <5>a, <6>1 DEF CartNotNegative
        <5> QED
          BY <1>0, <3>1, <5>1, <5>2, <5>3, <5>4, <5>5, StillFits
      <4> QED
        BY <4>1, <4>2
    <3> QED
      BY <1>0, <3>1, <3>4, <3>5 DEF SpendInv, NothingOverspent, CartNotNegative
  <2>5. CASE UndoCommit(p)
    <3>1. /\ EndTx(p, Touched(p))
          /\ at' = [at EXCEPT ![p] = "undone"] /\ UNCHANGED <<who, cart>>
          /\ userUsed' = [userUsed EXCEPT ![who[p]] = @ - cart[p].uses]
          /\ credit'   = [credit EXCEPT ![who[p]] = @ + cart[p].credit]
          /\ referral' = [referral EXCEPT ![who[p]] = @ + cart[p].referral]
      BY <2>5 DEF UndoCommit, UsesReturned, Goto
    <3>2. ASSUME NEW u \in Users
          PROVE  credit'[u] >= credit[u] /\ referral'[u] >= referral[u] /\ userUsed'[u] <= userUsed[u]
      <4>1. /\ userUsed'[u] = IF u = who[p] THEN userUsed[u] - cart[p].uses ELSE userUsed[u]
            /\ credit'[u] = IF u = who[p] THEN credit[u] + cart[p].credit ELSE credit[u]
            /\ referral'[u] = IF u = who[p] THEN referral[u] + cart[p].referral ELSE referral[u]
        BY <1>0, <1>b, <3>1, AmountAfter
      <4> QED
        BY <1>0, <4>1 DEF CartNotNegative
    <3>3. ASSUME NEW q \in Purchases PROVE Fits(q)'
      <4>1. CASE at'[q] # "selling"
        BY <4>1 DEF Fits
      <4>2. CASE at'[q] = "selling"
        <5>1. at[q] = "selling" /\ q # p
          BY <2>0, <3>1, <4>2 DEF TxOK
        <5>2. stale[q] \subseteq stale'[q]
          BY <2>0, <3>1, <5>1, OthersSeeIt
        <5> QED
          BY <1>0, <3>1, <3>2, <5>1, <5>2, StillFits
      <4> QED
        BY <4>1, <4>2
    <3>4. ASSUME NEW u \in Users PROVE credit'[u] >= 0 /\ referral'[u] >= 0 /\ userUsed'[u] <= UserLimit
      <4>1. credit'[u] \in Int /\ referral'[u] \in Int /\ userUsed'[u] \in Int
        BY DEF RowsOK
      <4> QED
        BY <1>0, <3>2, <4>1
    <3> QED
      BY <1>0, <3>1, <3>3, <3>4 DEF SpendInv, NothingOverspent, CartNotNegative
  <2> QED
    BY <1>1, <2>1, <2>2, <2>3, <2>4, <2>5 DEF SaleStep
<1>2. ASSUME NEW p \in Purchases, EventStep(p) PROVE SpendInv'
  <2>0. p \in Clients
    BY <1>0
  <2>1. CASE CountUses(p) \/ CountLost(p) \/ PayoutBegin(p)
    <3>1. UNCHANGED <<userUsed, credit, referral, who, cart, at, stale>>
      BY <2>1 DEF CountUses, CountLost, PayoutBegin, BeginTx, tables, history
    <3> QED
      BY <1>a, <3>1
  <2>2. CASE PayReferrer(p) \/ MarkUnreferred(p) \/ PayoutEnds(p)
    <3>1. UNCHANGED <<userUsed, referral, who, cart, at>>
      BY <2>2 DEF PayReferrer, MarkUnreferred, PayoutEnds, tables
    <3>2. \E rows : EndTx(p, rows)
      BY <2>2 DEF PayReferrer, MarkUnreferred, PayoutEnds, EndPayout
    <3>3. \/ UNCHANGED credit
          \/ seen[p].referrer \in Users /\ credit' = [credit EXCEPT ![seen[p].referrer] = @ + Reward]
      BY <2>2 DEF PayReferrer, MarkUnreferred, PayoutEnds, tables
    <3>4. ASSUME NEW u \in Users PROVE credit'[u] >= credit[u] /\ credit'[u] >= 0
      <4>1. \/ credit'[u] = credit[u]
            \/ credit'[u] = IF u = seen[p].referrer THEN credit[u] + Reward ELSE credit[u]
        BY <1>0, <1>b, <3>3, AmountAfter
      <4> QED
        BY <1>0, <4>1
    <3>5. at[p] = "done"
      BY <2>2 DEF PayReferrer, MarkUnreferred, PayoutEnds, TxOK
    <3>6. ASSUME NEW q \in Purchases PROVE Fits(q)'
      <4>1. CASE at'[q] # "selling"
        BY <4>1 DEF Fits
      <4>2. CASE at'[q] = "selling"
        <5>1. at[q] = "selling" /\ q # p
          BY <3>1, <3>5, <4>2
        <5>2. stale[q] \subseteq stale'[q]
          BY <2>0, <3>2, <5>1, OthersSeeIt
        <5> QED
          <6>1. /\ userUsed'[who[q]] <= userUsed[who[q]] /\ credit'[who[q]] >= credit[who[q]]
                /\ referral'[who[q]] >= referral[who[q]]
            BY <1>0, <3>1, <3>4
          <6> QED
            BY <1>0, <3>1, <5>1, <5>2, <6>1, StillFits
      <4> QED
        BY <4>1, <4>2
    <3> QED
      BY <1>0, <3>1, <3>4, <3>6 DEF SpendInv, NothingOverspent, CartNotNegative
  <2> QED
    BY <1>2, <2>1, <2>2 DEF EventStep
<1>3. ASSUME NEW a \in Applications, ApplyStep(a) PROVE SpendInv'
  <2>0. a \in Clients /\ a \notin Purchases /\ who[a] \in Users
    BY <1>0, RequestsDiffer DEF RowsOK
  <2>1. UNCHANGED <<userUsed, credit, who, cart>>
    BY <1>3 DEF ApplyStep, ApplyRead, ApplyBegin, ApplyRefuse, ApplyCommit, ApplyEnds, tables
  <2>2. \/ UNCHANGED referral
        \/ referral' = [referral EXCEPT ![who[a]] = @ + Reward]
    BY <1>3 DEF ApplyStep, ApplyRead, ApplyBegin, ApplyRefuse, ApplyCommit, ApplyEnds, tables
  <2>3. ASSUME NEW u \in Users PROVE referral'[u] >= referral[u] /\ referral'[u] >= 0
    <3>1. \/ referral'[u] = referral[u]
          \/ referral'[u] = IF u = who[a] THEN referral[u] + Reward ELSE referral[u]
      BY <1>0, <1>b, <2>2, AmountAfter
    <3> QED
      BY <1>0, <3>1
  <2>4. ASSUME NEW q \in Purchases PROVE at'[q] = at[q]
    BY <1>3, <2>0, <2>4 DEF ApplyStep, ApplyRead, ApplyBegin, ApplyRefuse, ApplyCommit, ApplyEnds, Goto, TxOK, Clients
  <2>5. ASSUME NEW q \in Purchases, at[q] = "selling" PROVE stale[q] \subseteq stale'[q]
    <3>1. CASE \E rows : EndTx(a, rows)
      BY <2>0, <2>5, <3>1, OthersSeeIt
    <3>2. CASE UNCHANGED stale
      BY <3>2
    <3>3. CASE ApplyRefuse(a)
      BY <1>0, <3>3 DEF ApplyRefuse
    <3> QED
      BY <1>3, <3>1, <3>2, <3>3 DEF ApplyStep, ApplyRead, ApplyBegin, ApplyCommit, ApplyEnds, BeginTx
  <2>6. ASSUME NEW q \in Purchases PROVE Fits(q)'
    <3>1. CASE at[q] # "selling"
      BY <2>4, <3>1 DEF Fits
    <3>2. CASE at[q] = "selling"
      <4>1. /\ userUsed'[who[q]] <= userUsed[who[q]] /\ credit'[who[q]] >= credit[who[q]]
            /\ referral'[who[q]] >= referral[who[q]]
        BY <1>0, <2>1, <2>3
      <4> QED
        BY <1>0, <2>1, <2>5, <3>2, <4>1, StillFits
    <3> QED
      BY <3>1, <3>2
  <2> QED
    BY <1>0, <2>1, <2>3, <2>6 DEF SpendInv, NothingOverspent, CartNotNegative
<1>4. CASE UNCHANGED rewardVars
  BY <1>4, <1>a DEF rewardVars
<1> QED
  BY <1>1, <1>2, <1>3, <1>4 DEF Next

LEMMA InitSpendInv == Init => SpendInv
  BY AmountsAreNat, LimitsAreSet DEF Init, SpendInv, NothingOverspent, CartNotNegative, Fits, Empty

\* For every number of users and racing purchases, limit and amount: no balance is
\* overdrawn and no user has more uses of the promotion than the limit.
THEOREM RewardsNotOverspent == Spec => []NothingOverspent
<1>1. SpendInv => NothingOverspent
  BY DEF SpendInv
<1>2. /\ Init => TxOK /\ RowsOK /\ SpendInv
      /\ TxOK /\ RowsOK /\ SpendInv /\ [Next]_rewardVars => (TxOK /\ RowsOK /\ SpendInv)'
  BY InitOK, InitSpendInv, NextTxOK, NextRowsOK, NextSpendInv
<1> QED
  BY <1>1, <1>2, PTL DEF Spec

(***************************************************************************)
(* What referrers are paid.  A payout goes by the user in its snapshot,    *)
(* which is the user of the table until the row is written by another.     *)
(***************************************************************************)
SeenIsUser(p) == payout[p] = "open" /\ <<"user", who[p]>> \notin stale[p] => seen[p] = user[who[p]]

PayInv ==
  /\ PayoutsExplained
  /\ \A p \in Purchases : SeenIsUser(p)

\* A payout that is open goes on to see its user while nobody writes the row unseen.
LEMMA StillSeen ==
  ASSUME NEW q \in Purchases, SeenIsUser(q),
         payout'[q] = "open" =>
           /\ payout[q] = "open"
           /\ who'[q] = who[q] /\ seen'[q] = seen[q]
           /\ stale[q] \subseteq stale'[q]
           /\ user'[who[q]] = user[who[q]] \/ <<"user", who[q]>> \in stale'[q]
  PROVE  SeenIsUser(q)'
  BY DEF SeenIsUser

\* What a transaction commits is stale for every payout that is open.
LEMMA PayoutsSeeIt ==
  ASSUME TxOK, NEW c \in Clients, NEW rows, EndTx(c, rows),
         NEW q \in Purchases, q # c, payout[q] = "open"
  PROVE  stale'[q] = stale[q] \cup rows
  BY DEF TxOK, EndTx, InTx, Clients

\* A row of users written in a transaction is stale for the payouts that saw it.
LEMMA PayoutsSeeUsers ==
  ASSUME TxOK, RowsOK, NEW c \in Clients, NEW u \in Users, NEW row, NEW rows,
         <<"user", u>> \in rows, user' = [user EXCEPT ![u] = row], EndTx(c, rows), UNCHANGED who,
         NEW q \in Purchases, q # c, SeenIsUser(q),
         payout'[q] = payout[q], seen'[q] = seen[q]
  PROVE  SeenIsUser(q)'
<1>1. ASSUME payout[q] = "open" PROVE stale'[q] = stale[q] \cup rows
  BY <1>1, PayoutsSeeIt
<1>2. who[q] \in Users /\ (who[q] # u => user'[who[q]] = user[who[q]])
  BY DEF RowsOK, Clients
<1> QED
  BY <1>1, <1>2, StillSeen

LEMMA NextPayInv == TxOK /\ RowsOK /\ PayInv /\ [Next]_rewardVars => PayInv'
<1> SUFFICES ASSUME TxOK, RowsOK, PayInv, [Next]_rewardVars PROVE PayInv'
  OBVIOUS
<1>0. /\ Purchases \subseteq Clients /\ Applications \subseteq Clients
      /\ \A p \in Purchases : who[p] \in Users /\ seen[p] \in UserRow /\ SeenIsUser(p)
      /\ \A u \in Users : /\ user[u] \in UserRow /\ paidFor[u] \in Nat /\ applied[u] \in Nat
                          /\ paidFor[u] + (IF user[u].pending THEN 1 ELSE 0) <= applied[u]
  BY DEF RowsOK, Clients, PayInv, PayoutsExplained
<1>b. /\ payout \in [Purchases -> PayoutSteps] /\ seen \in [Purchases -> UserRow]
      /\ user \in [Users -> UserRow] /\ paidFor \in [Users -> Nat] /\ applied \in [Users -> Nat]
  BY DEF TxOK, RowsOK
\* Steps that change no user and no history.
<1>a. ASSUME UNCHANGED <<user, paidFor, applied, who, seen>>,
             \A q \in Purchases : payout'[q] = "open" => payout[q] = "open" /\ stale[q] \subseteq stale'[q]
      PROVE  PayInv'
  <2>1. ASSUME NEW q \in Purchases PROVE SeenIsUser(q)'
    BY <1>0, <1>a, StillSeen
  <2> QED
    BY <1>0, <1>a, <2>1 DEF PayInv, PayoutsExplained
<1>1. ASSUME NEW p \in Purchases, SaleStep(p) PROVE PayInv'
  <2>1. UNCHANGED <<user, paidFor, applied, who, seen>>
    BY <1>1 DEF SaleStep, SaleBegin, SaleRefuse, SaleCommit, SaleConflict, ChargeSucceeds,
                ChargeFails, UndoBegin, UndoCommit, UndoFails, Crash, tables, handlers, history
  <2>2. ASSUME NEW q \in Purchases, payout'[q] = "open" PROVE payout[q] = "open"
    BY <1>1, <1>b, <2>2 DEF SaleStep, SaleBegin, SaleRefuse, SaleCommit, SaleConflict, ChargeSucceeds,
                ChargeFails, UndoBegin, UndoCommit, UndoFails, Crash, handlers
  <2>3. UNCHANGED stale \/ \E rows : EndTx(p, rows)
    BY <1>1 DEF SaleStep, SaleBegin, SaleRefuse, SaleCommit, SaleConflict, ChargeSucceeds,
                ChargeFails, UndoBegin, UndoCommit, UndoFails, Crash, BeginTx
  <2>4. at[p] # "done"
    BY <1>1 DEF SaleStep, SaleBegin, SaleRefuse, SaleCommit, SaleConflict, ChargeSucceeds,
                ChargeFails, UndoBegin, UndoCommit, UndoFails, Crash
  <2>5. ASSUME NEW q \in Purchases, payout[q] = "open" PROVE stale[q] \subseteq stale'[q]
    <3>1. q # p
      BY <2>4, <2>5 DEF TxOK
    <3> QED
      BY <1>0, <2>3, <2>5, <3>1, PayoutsSeeIt
  <2> QED
    BY <1>a, <2>1, <2>2, <2>5
<1>2. ASSUME NEW p \in Purchases, EventStep(p) PROVE PayInv'
  <2>0. p \in Clients /\ who[p] \in Users
    BY <1>0
  <2>1. CASE CountUses(p) \/ CountLost(p)
    BY <1>a, <2>1 DEF CountUses, CountLost, tables, history
  <2>2. CASE PayoutBegin(p)
    <3>1. /\ UNCHANGED <<user, paidFor, applied, who, stale>>
          /\ payout' = [payout EXCEPT ![p] = "open"] /\ seen' = [seen EXCEPT ![p] = user[who[p]]]
      BY <2>2 DEF PayoutBegin, BeginTx, tables, history
    <3>2. ASSUME NEW q \in Purchases PROVE SeenIsUser(q)'
      <4>1. CASE q = p
        BY <1>b, <3>1, <4>1 DEF SeenIsUser
      <4>2. CASE q # p
        BY <1>0, <1>b, <3>1, <4>2 DEF SeenIsUser
      <4> QED
        BY <4>1, <4>2
    <3> QED
      BY <1>0, <3>1, <3>2 DEF PayInv, PayoutsExplained
  <2>3. CASE PayReferrer(p)
    <3> DEFINE row == [seen[p] EXCEPT !.pending = FALSE]
    <3>1. /\ payout[p] = "open" /\ seen[p].pending /\ ~Conflict(p, PayoutRows(p))
          /\ user' = [user EXCEPT ![who[p]] = row]
          /\ paidFor' = [paidFor EXCEPT ![who[p]] = @ + 1]
          /\ payout' = [payout EXCEPT ![p] = "done"] /\ seen' = [seen EXCEPT ![p] = Unread]
          /\ EndTx(p, PayoutRows(p)) /\ UNCHANGED <<who, applied>>
      BY <2>3 DEF PayReferrer, EndPayout
    <3>2. row.pending = FALSE
      BY <1>0, RowUpdates
    <3> HIDE DEF row
    <3>3. user[who[p]].pending
      BY <1>0, <3>1 DEF SeenIsUser, Conflict, PayoutRows
    <3>4. ASSUME NEW u \in Users
          PROVE  paidFor'[u] + (IF user'[u].pending THEN 1 ELSE 0) <= applied'[u]
      <4>1. CASE u = who[p]
        <5>1. paidFor'[u] = paidFor[u] + 1 /\ user'[u].pending = FALSE
          BY <1>b, <3>1, <3>2, <4>1
        <5>2. paidFor[u] + 1 <= applied[u] /\ paidFor[u] \in Nat
          BY <1>0, <3>3, <4>1
        <5> QED
          BY <3>1, <5>1, <5>2
      <4>2. CASE u # who[p]
        BY <1>0, <1>b, <3>1, <4>2
      <4> QED
        BY <4>1, <4>2
    <3>5. ASSUME NEW q \in Purchases PROVE SeenIsUser(q)'
      <4>1. CASE q = p
        BY <1>b, <3>1, <4>1 DEF SeenIsUser
      <4>2. CASE q # p
        <5>1. <<"user", who[p]>> \in PayoutRows(p) /\ payout'[q] = payout[q] /\ seen'[q] = seen[q]
          BY <1>b, <3>1, <4>2 DEF PayoutRows
        <5> QED
          BY <1>0, <2>0, <3>1, <4>2, <5>1, PayoutsSeeUsers
      <4> QED
        BY <4>1, <4>2
    <3> QED
      BY <3>4, <3>5 DEF PayInv, PayoutsExplained
  <2>4. CASE MarkUnreferred(p)
    <3> DEFINE row == [user[who[p]] EXCEPT !.referrer = who[p]]
    <3>1. /\ payout[p] = "open" /\ user' = [user EXCEPT ![who[p]] = row]
          /\ payout' = [payout EXCEPT ![p] = "done"] /\ seen' = [seen EXCEPT ![p] = Unread]
          /\ EndTx(p, {<<"user", who[p]>>}) /\ UNCHANGED <<who, applied, paidFor>>
      BY <2>4 DEF MarkUnreferred, EndPayout, history
    <3>2. row.pending = user[who[p]].pending
      BY <1>0, RowUpdates
    <3> HIDE DEF row
    <3>3. ASSUME NEW u \in Users
          PROVE  paidFor'[u] + (IF user'[u].pending THEN 1 ELSE 0) <= applied'[u]
      <4>1. user'[u].pending = user[u].pending
        BY <1>b, <3>1, <3>2
      <4> QED
        BY <1>0, <3>1, <4>1
    <3>4. ASSUME NEW q \in Purchases PROVE SeenIsUser(q)'
      <4>1. CASE q = p
        BY <1>b, <3>1, <4>1 DEF SeenIsUser
      <4>2. CASE q # p
        <5>1. payout'[q] = payout[q] /\ seen'[q] = seen[q]
          BY <1>b, <3>1, <4>2
        <5> QED
          BY <1>0, <2>0, <3>1, <4>2, <5>1, PayoutsSeeUsers
      <4> QED
        BY <4>1, <4>2
    <3> QED
      BY <3>3, <3>4 DEF PayInv, PayoutsExplained
  <2>5. CASE PayoutEnds(p)
    <3>1. /\ payout' = [payout EXCEPT ![p] = "done"] /\ seen' = [seen EXCEPT ![p] = Unread]
          /\ EndTx(p, {}) /\ UNCHANGED <<user, who, applied, paidFor>>
      BY <2>5 DEF PayoutEnds, EndPayout, tables, history
    <3>2. ASSUME NEW q \in Purchases PROVE SeenIsUser(q)'
      <4>1. CASE q = p
        BY <1>b, <3>1, <4>1 DEF SeenIsUser
      <4>2. CASE q # p
        <5>1. payout'[q] = payout[q] /\ seen'[q] = seen[q]
          BY <1>b, <3>1, <4>2
        <5> QED
          BY <1>0, <2>0, <3>1, <4>2, <5>1, StillSeen, PayoutsSeeIt
      <4> QED
        BY <4>1, <4>2
    <3> QED
      BY <1>0, <3>1, <3>2 DEF PayInv, PayoutsExplained
  <2> QED
    BY <1>2, <2>1, <2>2, <2>3, <2>4, <2>5 DEF EventStep
<1>3. ASSUME NEW a \in Applications, ApplyStep(a) PROVE PayInv'
  <2>0. a \in Clients /\ a \notin Purchases /\ who[a] \in Users
    BY <1>0, RequestsDiffer DEF RowsOK
  <2>1. CASE ApplyRead(a) \/ ApplyBegin(a)
    BY <1>a, <2>1 DEF ApplyRead, ApplyBegin, BeginTx, tables, handlers, history
  <2>2. CASE ApplyEnds(a)
    <3>1. UNCHANGED <<user, paidFor, applied, who, seen, payout>> /\ EndTx(a, {})
      BY <2>2 DEF ApplyEnds, tables, handlers, history
    <3>2. ASSUME NEW q \in Purchases, payout[q] = "open" PROVE stale[q] \subseteq stale'[q]
      BY <2>0, <3>1, <3>2, PayoutsSeeIt
    <3> QED
      BY <1>a, <3>1, <3>2
  <2>3. CASE ApplyRefuse(a)
    <3>1. CASE UNCHANGED <<user, stale>>
      BY <1>a, <2>3, <3>1 DEF ApplyRefuse, handlers, history
    <3>2. CASE /\ user' = [user EXCEPT ![who[a]].referrer = who[a]]
               /\ stale' = [c \in Clients |->
                     IF c \in open THEN stale[c] \cup {<<"user", who[a]>>} ELSE stale[c]]
      <4> DEFINE row == [user[who[a]] EXCEPT !.referrer = who[a]]
      <4>1. user' = [user EXCEPT ![who[a]] = row] /\ UNCHANGED <<paidFor, applied, who, seen, payout>>
        BY <2>3, <3>2 DEF ApplyRefuse, handlers, history
      <4>2. row.pending = user[who[a]].pending
        BY <1>0, <2>0, RowUpdates
      <4> HIDE DEF row
      <4>3. ASSUME NEW u \in Users
            PROVE  paidFor'[u] + (IF user'[u].pending THEN 1 ELSE 0) <= applied'[u]
        <5>1. user'[u].pending = user[u].pending
          BY <1>b, <4>1, <4>2
        <5> QED
          BY <1>0, <4>1, <5>1
      <4>4. ASSUME NEW q \in Purchases PROVE SeenIsUser(q)'
        <5>1. ASSUME payout[q] = "open" PROVE stale'[q] = stale[q] \cup {<<"user", who[a]>>}
          BY <1>0, <3>2, <5>1 DEF TxOK, InTx
        <5>2. who[q] # who[a] => user'[who[q]] = user[who[q]]
          BY <1>0, <1>b, <4>1
        <5> QED
          BY <1>0, <4>1, <5>1, <5>2, StillSeen
      <4> QED
        BY <4>3, <4>4 DEF PayInv, PayoutsExplained
    <3> QED
      BY <2>3, <3>1, <3>2 DEF ApplyRefuse
  <2>4. CASE ApplyCommit(a)
    <3>1. PICK owner \in Users :
            user' = [user EXCEPT ![who[a]] = [referrer |-> owner, pending |-> TRUE]]
      BY <2>4 DEF ApplyCommit
    <3>2. /\ applied' = [applied EXCEPT ![who[a]] = @ + 1] /\ EndTx(a, ApplyRows(a))
          /\ UNCHANGED <<paidFor, who, seen, payout>>
      BY <2>4 DEF ApplyCommit, handlers
    <3>3. ASSUME NEW u \in Users
          PROVE  paidFor'[u] + (IF user'[u].pending THEN 1 ELSE 0) <= applied'[u]
      <4>1. CASE u = who[a]
        <5>1. applied'[u] = applied[u] + 1 /\ paidFor'[u] = paidFor[u]
          BY <1>b, <3>2, <4>1
        <5>2. paidFor[u] <= applied[u] /\ paidFor[u] \in Nat /\ applied[u] \in Nat
          BY <1>0
        <5> QED
          BY <5>1, <5>2
      <4>2. CASE u # who[a]
        BY <1>0, <1>b, <3>1, <3>2, <4>2
      <4> QED
        BY <4>1, <4>2
    <3>4. ASSUME NEW q \in Purchases PROVE SeenIsUser(q)'
      <4>1. q # a /\ <<"user", who[a]>> \in ApplyRows(a)
        BY <2>0 DEF ApplyRows
      <4> QED
        BY <1>0, <2>0, <3>1, <3>2, <4>1, PayoutsSeeUsers
    <3> QED
      BY <3>3, <3>4 DEF PayInv, PayoutsExplained
  <2> QED
    BY <1>3, <2>1, <2>2, <2>3, <2>4 DEF ApplyStep
<1>4. CASE UNCHANGED rewardVars
  BY <1>4, <1>a DEF rewardVars
<1> QED
  BY <1>1, <1>2, <1>3, <1>4 DEF Next

LEMMA InitPayInv == Init => PayInv
  BY DEF Init, PayInv, PayoutsExplained, SeenIsUser, Unread

\* However many first purchases of a user are handled at once, and whatever of them is
\* lost: a referrer is paid at most once for each time a code was applied, and not while
\* the payout is still marked as pending.
THEOREM ReferrersPaidOnce == Spec => []PayoutsExplained
<1>1. PayInv => PayoutsExplained
  BY DEF PayInv
<1>2. /\ Init => TxOK /\ RowsOK /\ PayInv
      /\ TxOK /\ RowsOK /\ PayInv /\ [Next]_rewardVars => (TxOK /\ RowsOK /\ PayInv)'
  BY InitOK, InitPayInv, NextTxOK, NextRowsOK, NextPayInv
<1> QED
  BY <1>1, <1>2, PTL DEF Spec

(***************************************************************************)
(* Sums.  A sum over a finite set is a recursion over its subsets, each of *)
(* which gives up a chosen member.  Where an induction is called for, the  *)
(* smallest set for which it fails is led to a contradiction.              *)
(***************************************************************************)
Chosen(s) == CHOOSE x \in s : TRUE

Adds(g, S, it) ==
  it = [s \in SUBSET S |-> IF s = {} THEN 0
                           ELSE LET x == CHOOSE x \in s : TRUE IN g[x] + it[s \ {x}]]
Sums(g, S) == CHOOSE it : Adds(g, S, it)
Sum(g, S) == FoldFunctionOnSet(LAMBDA x, y : x + y, 0, g, S)

LEMMA SumIs == ASSUME NEW g, NEW S PROVE Sum(g, S) = Sums(g, S)[S]
  BY DEF Sum, FoldFunctionOnSet, MapThenFoldSet, Sums, Adds

\* A set of numbers has a least one.
LEMMA LeastOfNats ==
  ASSUME NEW S \in SUBSET Nat, S # {}
  PROVE  \E x \in S : \A y \in S : x <= y
<1>1. PICK R : R = OpToRel(<, Nat)  OBVIOUS
<1>2. IsWellFoundedOn(R, Nat)  BY <1>1, NatLessThanWellFounded
<1>3. PICK x \in S : \A y \in S : ~(<<y, x>> \in R)  BY <1>2, WFMin
<1>4. \A m, n \in Nat : m < n => <<m, n>> \in R  BY <1>1 DEF OpToRel
<1>5. \A y \in S : ~(y < x)  BY <1>3, <1>4
<1> QED  BY <1>5

\* A property of finite sets fails for none, or for one of those with the fewest elements.
LEMMA SmallestOfSets ==
  ASSUME NEW F, F # {}, \A s \in F : IsFiniteSet(s)
  PROVE  \E s \in F : \A t \in F : Cardinality(s) <= Cardinality(t)
<1> PICK C : C = {Cardinality(s) : s \in F}  OBVIOUS
<1>1. \A s \in F : Cardinality(s) \in Nat  BY FS_CardinalityType
<1>2. C \in SUBSET Nat /\ C # {}  BY <1>1
<1>3. PICK n \in C : \A m \in C : n <= m  BY <1>2, LeastOfNats
<1>4. PICK s \in F : n = Cardinality(s)  BY <1>3
<1> QED  BY <1>3, <1>4

LEMMA ChosenIsIn ==
  ASSUME NEW s, s # {}, IsFiniteSet(s)
  PROVE  /\ Chosen(s) \in s
         /\ \A x \in s : /\ IsFiniteSet(s \ {x}) /\ Cardinality(s \ {x}) < Cardinality(s)
<1>1. Chosen(s) \in s  BY DEF Chosen
<1>2. ASSUME NEW x \in s PROVE IsFiniteSet(s \ {x}) /\ Cardinality(s \ {x}) < Cardinality(s)
  <2>1. IsFiniteSet(s \ {x}) /\ Cardinality(s \ {x}) = Cardinality(s) - 1  BY FS_RemoveElement
  <2>2. Cardinality(s) \in Nat  BY FS_CardinalityType
  <2> QED  BY <2>1, <2>2
<1> QED  BY <1>1, <1>2

\* it adds up g over the subsets of S.
Sound(g, S, it) == /\ it \in [SUBSET S -> Int]
                   /\ \A s \in SUBSET S : it[s] = IF s = {} THEN 0 ELSE g[Chosen(s)] + it[s \ {Chosen(s)}]

LEMMA SoundAdds ==
  ASSUME NEW g, NEW S, NEW it, Sound(g, S, it)
  PROVE  Adds(g, S, it)
<1>1. \A s \in SUBSET S : it[s] = IF s = {} THEN 0 ELSE LET x == CHOOSE x \in s : TRUE IN g[x] + it[s \ {x}]
  BY DEF Sound, Chosen
<1>2. it = [s \in SUBSET S |-> it[s]]  BY DEF Sound
<1> QED  BY <1>1, <1>2 DEF Adds

\* Up to the subsets of n elements.
SoundTo(g, S, it, n) ==
  /\ it \in [SUBSET S -> Int]
  /\ \A s \in SUBSET S :
       Cardinality(s) <= n => it[s] = IF s = {} THEN 0 ELSE g[Chosen(s)] + it[s \ {Chosen(s)}]

LEMMA SumsExist ==
  ASSUME NEW S, IsFiniteSet(S), NEW g, \A x \in S : g[x] \in Int
  PROVE  \E it : Sound(g, S, it)
<1>1. \A s \in SUBSET S : IsFiniteSet(s) /\ Cardinality(s) \in Nat /\ Cardinality(s) <= Cardinality(S)
  BY FS_Subset, FS_CardinalityType
<1> PICK Failing : Failing = {n \in Nat : ~ \E it : SoundTo(g, S, it, n)}  OBVIOUS
<1>2. \E it : SoundTo(g, S, it, 0)
  <2> PICK it : it = [s \in SUBSET S |-> 0]  OBVIOUS
  <2>1. ASSUME NEW s \in SUBSET S, Cardinality(s) <= 0 PROVE s = {}
    BY <1>1, <2>1, FS_EmptySet
  <2>2. SoundTo(g, S, it, 0)  BY <2>1 DEF SoundTo
  <2> QED  BY <2>2
<1>3. ASSUME NEW n \in Nat, NEW it, SoundTo(g, S, it, n)
      PROVE  \E jt : SoundTo(g, S, jt, n + 1)
  <2> PICK jt : jt = [s \in SUBSET S |-> IF Cardinality(s) <= n THEN it[s] ELSE g[Chosen(s)] + it[s \ {Chosen(s)}]]
    OBVIOUS
  <2>1. ASSUME NEW s \in SUBSET S, s # {} PROVE Chosen(s) \in S /\ s \ {Chosen(s)} \in SUBSET S
    BY <1>1, <2>1, ChosenIsIn
  <2>2. \A s \in SUBSET S : it[s] \in Int  BY <1>3 DEF SoundTo
  <2>3. Cardinality({}) = 0  BY FS_EmptySet
  <2>4. jt \in [SUBSET S -> Int]
    <3>1. ASSUME NEW s \in SUBSET S PROVE jt[s] \in Int
      <4>1. CASE Cardinality(s) <= n  BY <2>2, <4>1
      <4>2. CASE ~(Cardinality(s) <= n)
        <5>1. s # {}  BY <2>3, <4>2
        <5>2. g[Chosen(s)] \in Int /\ it[s \ {Chosen(s)}] \in Int  BY <2>1, <2>2, <5>1
        <5> QED  BY <4>2, <5>2
      <4> QED  BY <4>1, <4>2
    <3> QED  BY <3>1
  <2>5. ASSUME NEW s \in SUBSET S, Cardinality(s) <= n + 1
        PROVE  jt[s] = IF s = {} THEN 0 ELSE g[Chosen(s)] + jt[s \ {Chosen(s)}]
    <3>1. CASE s = {}
      <4>1. jt[s] = it[s] /\ it[s] = 0  BY <1>3, <2>3, <3>1 DEF SoundTo
      <4> QED  BY <3>1, <4>1
    <3>2. CASE s # {}
      <4> PICK r : r = s \ {Chosen(s)}  OBVIOUS
      <4>1. r \in SUBSET S  BY <2>1, <3>2
      <4>2. Cardinality(r) < Cardinality(s)  BY <1>1, <3>2, ChosenIsIn
      <4>3. Cardinality(r) <= n  BY <1>1, <2>5, <4>1, <4>2
      <4>4. jt[r] = it[r]  BY <4>1, <4>3
      <4>5. jt[s] = g[Chosen(s)] + it[r]
        <5>1. CASE Cardinality(s) <= n
          <6>1. jt[s] = it[s]  BY <5>1
          <6> QED  BY <1>3, <3>2, <5>1, <6>1 DEF SoundTo
        <5>2. CASE ~(Cardinality(s) <= n)  BY <5>2
        <5> QED  BY <5>1, <5>2
      <4> QED  BY <3>2, <4>4, <4>5
    <3> QED  BY <3>1, <3>2
  <2>6. SoundTo(g, S, jt, n + 1)  BY <2>4, <2>5 DEF SoundTo
  <2> QED  BY <2>6
<1>4. Failing = {}
  <2> SUFFICES ASSUME Failing # {} PROVE FALSE  OBVIOUS
  <2>1. PICK n \in Failing : \A m \in Failing : n <= m  BY LeastOfNats
  <2>2. n \in Nat /\ n # 0  BY <1>2
  <2>3. n - 1 \in Nat /\ n - 1 \notin Failing  BY <2>1, <2>2
  <2>4. PICK it : SoundTo(g, S, it, n - 1)  BY <2>3
  <2>5. \E jt : SoundTo(g, S, jt, (n - 1) + 1)  BY <1>3, <2>3, <2>4
  <2>6. (n - 1) + 1 = n  BY <2>2
  <2> QED  BY <2>5, <2>6
<1>5. PICK it : SoundTo(g, S, it, Cardinality(S))
  BY <1>1, <1>4
<1>6. Sound(g, S, it)  BY <1>1, <1>5 DEF Sound, SoundTo
<1> QED  BY <1>6

\* What adds up g is unique.
LEMMA SumsAgree ==
  ASSUME NEW S, IsFiniteSet(S), NEW T \in SUBSET S, NEW g, NEW it, NEW jt, NEW h,
         \A x \in T : g[x] = h[x] /\ g[x] \in Int,
         Sound(g, S, it), Sound(h, T, jt)
  PROVE  it[T] = jt[T]
<1> PICK F : F = {s \in SUBSET T : it[s] # jt[s]}  OBVIOUS
<1>1. \A s \in SUBSET T : IsFiniteSet(s) /\ Cardinality(s) \in Nat /\ s \in SUBSET S
  BY FS_Subset, FS_CardinalityType
<1>2. F = {}
  <2> SUFFICES ASSUME F # {} PROVE FALSE  OBVIOUS
  <2>1. PICK s \in F : \A t \in F : Cardinality(s) <= Cardinality(t)  BY <1>1, SmallestOfSets
  <2>2. s \in SUBSET T /\ it[s] # jt[s] /\ s \in SUBSET S  BY <1>1
  <2>3. CASE s = {}  BY <2>2, <2>3 DEF Sound
  <2>4. CASE s # {}
    <3> PICK r : r = s \ {Chosen(s)}  OBVIOUS
    <3>1. Chosen(s) \in T /\ r \in SUBSET T /\ Cardinality(r) < Cardinality(s)
      BY <1>1, <2>2, <2>4, ChosenIsIn
    <3>2. r \notin F
      <4>1. Cardinality(r) \in Nat /\ Cardinality(s) \in Nat  BY <1>1, <2>2, <3>1
      <4> QED  BY <2>1, <3>1, <4>1
    <3>3. it[r] = jt[r]  BY <3>1, <3>2
    <3>4. it[s] = g[Chosen(s)] + it[r]  BY <2>2, <2>4 DEF Sound
    <3>5. jt[s] = h[Chosen(s)] + jt[r]  BY <2>2, <2>4 DEF Sound
    <3> QED  BY <2>2, <3>1, <3>3, <3>4, <3>5
  <2> QED  BY <2>3, <2>4
<1> QED  BY <1>2

\* The order in which g is added up does not matter.
LEMMA AnyMayBeFirst ==
  ASSUME NEW S, IsFiniteSet(S), NEW g, \A x \in S : g[x] \in Int, NEW it, Sound(g, S, it),
         NEW p \in S
  PROVE  it[S] = g[p] + it[S \ {p}]
<1> PICK F : F = {s \in SUBSET S : \E y \in s : it[s] # g[y] + it[s \ {y}]}  OBVIOUS
<1>1. \A s \in SUBSET S : IsFiniteSet(s) /\ Cardinality(s) \in Nat /\ it[s] \in Int
  BY FS_Subset, FS_CardinalityType DEF Sound
<1>2. F = {}
  <2> SUFFICES ASSUME F # {} PROVE FALSE  OBVIOUS
  <2>1. PICK s \in F : \A t \in F : Cardinality(s) <= Cardinality(t)  BY <1>1, SmallestOfSets
  <2>2. PICK y \in s : it[s] # g[y] + it[s \ {y}]  BY <2>1
  <2>3. s \in SUBSET S /\ s # {}  BY <2>2
  <2> PICK x : x = Chosen(s)  OBVIOUS
  <2>4. x \in s /\ it[s] = g[x] + it[s \ {x}]  BY <1>1, <2>3, ChosenIsIn DEF Sound
  <2>5. x # y  BY <2>2, <2>4
  <2>6. /\ Cardinality(s \ {x}) < Cardinality(s) /\ s \ {x} \in SUBSET S
        /\ Cardinality(s \ {y}) < Cardinality(s) /\ s \ {y} \in SUBSET S
    BY <1>1, <2>3, <2>4, ChosenIsIn
  <2>7. ASSUME NEW r \in SUBSET S, Cardinality(r) < Cardinality(s) PROVE r \notin F
    <3>1. Cardinality(s) \in Nat /\ Cardinality(r) \in Nat  BY <1>1, <2>3
    <3>2. ~(Cardinality(s) <= Cardinality(r))  BY <2>7, <3>1
    <3> QED  BY <2>1, <3>2
  <2>8. it[s \ {x}] = g[y] + it[(s \ {x}) \ {y}]  BY <2>5, <2>6, <2>7
  <2>9. it[s \ {y}] = g[x] + it[(s \ {y}) \ {x}]  BY <2>4, <2>5, <2>6, <2>7
  <2>10. (s \ {x}) \ {y} = (s \ {y}) \ {x}  OBVIOUS
  <2>11. g[x] \in Int /\ g[y] \in Int /\ it[(s \ {x}) \ {y}] \in Int  BY <1>1, <2>3, <2>4
  <2>12. PICK n : n = it[(s \ {x}) \ {y}]  OBVIOUS
  <2>13. it[s] = g[x] + (g[y] + n)  BY <2>4, <2>8, <2>12
  <2>14. g[y] + it[s \ {y}] = g[y] + (g[x] + n)  BY <2>9, <2>10, <2>12
  <2>15. g[x] + (g[y] + n) = g[y] + (g[x] + n)  BY <2>11, <2>12
  <2> QED  BY <2>2, <2>13, <2>14, <2>15
<1> QED  BY <1>2

\* What a sum is.
LEMMA SumIsSound ==
  ASSUME NEW S, IsFiniteSet(S), NEW g, \A x \in S : g[x] \in Int
  PROVE  Sound(g, S, Sums(g, S))
<1>1. PICK it : Sound(g, S, it)  BY SumsExist
<1>2. Adds(g, S, Sums(g, S))  BY <1>1, SoundAdds DEF Sums
<1> PICK jt : jt = Sums(g, S)  OBVIOUS
<1>3. /\ jt = [s \in SUBSET S |-> jt[s]]
      /\ \A s \in SUBSET S : jt[s] = IF s = {} THEN 0 ELSE g[Chosen(s)] + jt[s \ {Chosen(s)}]
  BY <1>2 DEF Adds, Chosen
<1>4. \A s \in SUBSET S : IsFiniteSet(s) /\ Cardinality(s) \in Nat  BY FS_Subset, FS_CardinalityType
<1> PICK F : F = {s \in SUBSET S : jt[s] \notin Int}  OBVIOUS
<1>5. F = {}
  <2> SUFFICES ASSUME F # {} PROVE FALSE  OBVIOUS
  <2>1. PICK s \in F : \A t \in F : Cardinality(s) <= Cardinality(t)  BY <1>4, SmallestOfSets
  <2>2. s \in SUBSET S /\ jt[s] \notin Int  BY <2>1
  <2>3. s # {}
    <3>1. s = {} => jt[s] = 0  BY <1>3
    <3> QED  BY <2>2, <3>1
  <2> PICK r : r = s \ {Chosen(s)}  OBVIOUS
  <2>4. Chosen(s) \in S /\ r \in SUBSET S /\ Cardinality(r) < Cardinality(s)  BY <1>4, <2>2, <2>3, ChosenIsIn
  <2>5. r \notin F
    <3>1. Cardinality(s) \in Nat /\ Cardinality(r) \in Nat  BY <1>4, <2>2, <2>4
    <3> QED  BY <2>1, <2>4, <3>1
  <2>6. jt[s] = g[Chosen(s)] + jt[r]  BY <1>3, <2>2, <2>3
  <2>7. g[Chosen(s)] \in Int /\ jt[r] \in Int  BY <2>4, <2>5
  <2> QED  BY <2>2, <2>6, <2>7
<1>6. \A s \in SUBSET S : jt[s] \in Int  BY <1>5
<1> QED  BY <1>3, <1>6 DEF Sound

\* The sum over no places is nothing; the sum over a finite set is that over all but one of
\* its members and what is there; it depends on no more than what is summed.
LEMMA SumOfNone == ASSUME NEW g PROVE Sum(g, {}) = 0
<1>1. Sound(g, {}, Sums(g, {}))  BY SumIsSound, FS_EmptySet
<1> QED  BY <1>1, SumIs DEF Sound

LEMMA SumIsInt ==
  ASSUME NEW S, IsFiniteSet(S), NEW g, \A x \in S : g[x] \in Int
  PROVE  Sum(g, S) \in Int
<1>1. Sound(g, S, Sums(g, S))  BY SumIsSound
<1>2. Sums(g, S)[S] \in Int  BY <1>1 DEF Sound
<1> QED  BY <1>2, SumIs

LEMMA SumSame ==
  ASSUME NEW S, IsFiniteSet(S), NEW g, NEW h, \A x \in S : g[x] = h[x] /\ g[x] \in Int
  PROVE  Sum(g, S) = Sum(h, S)
<1>1. Sound(g, S, Sums(g, S)) /\ Sound(h, S, Sums(h, S))  BY SumIsSound
<1>2. Sums(g, S)[S] = Sums(h, S)[S]  BY <1>1, SumsAgree
<1> QED  BY <1>2, SumIs

LEMMA SumWithout ==
  ASSUME NEW S, IsFiniteSet(S), NEW g, \A x \in S : g[x] \in Int, NEW p \in S
  PROVE  Sum(g, S) = g[p] + Sum(g, S \ {p})
<1> PICK T : T = S \ {p}  OBVIOUS
<1>1. IsFiniteSet(T) /\ T \in SUBSET S  BY FS_Subset
<1>2. Sound(g, S, Sums(g, S)) /\ Sound(g, T, Sums(g, T))  BY <1>1, SumIsSound
<1>3. Sums(g, S)[S] = g[p] + Sums(g, S)[T]  BY <1>2, AnyMayBeFirst
<1>4. Sums(g, S)[T] = Sums(g, T)[T]  BY <1>1, <1>2, SumsAgree
<1> QED  BY <1>3, <1>4, SumIs


\* One more place, and one less.
LEMMA SumJoins ==
  ASSUME NEW S, IsFiniteSet(S), NEW p, p \notin S, NEW g, \A x \in S \cup {p} : g[x] \in Int
  PROVE  Sum(g, S \cup {p}) = Sum(g, S) + g[p]
<1> PICK T : T = S \cup {p}  OBVIOUS
<1>1. IsFiniteSet(T) /\ p \in T /\ T \ {p} = S /\ g[p] \in Int  BY FS_AddElement
<1>2. Sum(g, T) = g[p] + Sum(g, S)  BY <1>1, SumWithout
<1>3. Sum(g, S) \in Int  BY SumIsInt
<1> QED  BY <1>1, <1>2, <1>3

LEMMA SumLeaves ==
  ASSUME NEW S, IsFiniteSet(S), NEW p \in S, NEW g, \A x \in S : g[x] \in Int
  PROVE  Sum(g, S \ {p}) = Sum(g, S) - g[p]
<1>1. IsFiniteSet(S \ {p})  BY FS_Subset
<1>2. Sum(g, S) = g[p] + Sum(g, S \ {p})  BY SumWithout
<1>3. Sum(g, S \ {p}) \in Int  BY <1>1, SumIsInt
<1> QED  BY <1>2, <1>3

(***************************************************************************)
(* What was spent.  Balances are accounted for in every step: a commit     *)
(* takes what it adds to the standing purchases, an undo gives back what   *)
(* it removes from them, and the history counts what is paid in.           *)
(***************************************************************************)
SpentOwn  == [p \in Purchases |-> cart[p].credit]
SpentHalf == [p \in Purchases |-> cart[p].referral]
Used      == [p \in Purchases |-> cart[p].uses]

Balanced(u) ==
  /\ credit[u] + Sum(SpentOwn, PurchasesOf(u)) = FirstCredits + Reward * earned[u]
  /\ referral[u] + Sum(SpentHalf, PurchasesOf(u)) = Reward * applied[u]
  /\ userUsed[u] = Sum(Used, PurchasesOf(u))

LEMMA BalancesAre == BalancesAccounted <=> \A u \in Users : Balanced(u)
BY DEF BalancesAccounted, Balanced, SumOver, Sum, SpentOwn, SpentHalf, Used

BalanceInv == IsFiniteSet(Standing) /\ \A u \in Users : Balanced(u)

\* Whole amounts are summed, of finitely many purchases.
LEMMA Spends ==
  ASSUME RowsOK, BalanceInv, NEW u \in Users
  PROVE  /\ IsFiniteSet(PurchasesOf(u)) /\ PurchasesOf(u) \subseteq Purchases
         /\ \A p \in Purchases : SpentOwn[p] \in Int /\ SpentHalf[p] \in Int /\ Used[p] \in Int
<1>1. PurchasesOf(u) \subseteq Standing  BY DEF PurchasesOf
<1>2. IsFiniteSet(PurchasesOf(u))  BY <1>1, FS_Subset DEF BalanceInv
<1>3. \A p \in Purchases : SpentOwn[p] \in Int /\ SpentHalf[p] \in Int /\ Used[p] \in Int
  BY DEF RowsOK, Carts, SpentOwn, SpentHalf, Used
<1> QED  BY <1>2, <1>3 DEF PurchasesOf, Standing

\* Nothing joins or leaves the purchases that stand.
LEMMA SumsStay ==
  ASSUME RowsOK, BalanceInv, UNCHANGED who,
         \A p \in Purchases : (p \in Standing)' <=> p \in Standing,
         \A p \in Standing : cart'[p] = cart[p]
  PROVE  /\ IsFiniteSet(Standing')
         /\ \A u \in Users : /\ Sum(SpentOwn, PurchasesOf(u))' = Sum(SpentOwn, PurchasesOf(u))
                             /\ Sum(SpentHalf, PurchasesOf(u))' = Sum(SpentHalf, PurchasesOf(u))
                             /\ Sum(Used, PurchasesOf(u))' = Sum(Used, PurchasesOf(u))
<1>1. Standing' = Standing  BY DEF Standing
<1>2. ASSUME NEW u \in Users
      PROVE  /\ Sum(SpentOwn, PurchasesOf(u))' = Sum(SpentOwn, PurchasesOf(u))
             /\ Sum(SpentHalf, PurchasesOf(u))' = Sum(SpentHalf, PurchasesOf(u))
             /\ Sum(Used, PurchasesOf(u))' = Sum(Used, PurchasesOf(u))
  <2> PICK S : S = PurchasesOf(u)  OBVIOUS
  <2>1. PurchasesOf(u)' = S  BY <1>1 DEF PurchasesOf
  <2>2. IsFiniteSet(S) /\ \A p \in S : /\ SpentOwn[p] \in Int /\ SpentHalf[p] \in Int /\ Used[p] \in Int
                                       /\ p \in Standing /\ p \in Purchases
    BY Spends DEF PurchasesOf
  <2>3. \A p \in S : SpentOwn'[p] = SpentOwn[p] /\ SpentHalf'[p] = SpentHalf[p] /\ Used'[p] = Used[p]
    BY <2>2 DEF SpentOwn, SpentHalf, Used
  <2>4. Sum(SpentOwn', S) = Sum(SpentOwn, S)  BY <2>2, <2>3, SumSame
  <2>5. Sum(SpentHalf', S) = Sum(SpentHalf, S)  BY <2>2, <2>3, SumSame
  <2>6. Sum(Used', S) = Sum(Used, S)  BY <2>2, <2>3, SumSame
  <2> QED  BY <2>1, <2>4, <2>5, <2>6
<1> QED  BY <1>1, <1>2 DEF BalanceInv


\* A purchase commits, or is undone: it is the one that joins or leaves those that stand.
LEMMA SumsGrow ==
  ASSUME RowsOK, BalanceInv, UNCHANGED <<who, cart>>, NEW p \in Purchases, p \notin Standing,
         \A q \in Purchases : (q \in Standing)' <=> q \in Standing \cup {p}
  PROVE  /\ IsFiniteSet(Standing')
         /\ \A u \in Users : u # who[p] =>
              /\ Sum(SpentOwn, PurchasesOf(u))' = Sum(SpentOwn, PurchasesOf(u))
              /\ Sum(SpentHalf, PurchasesOf(u))' = Sum(SpentHalf, PurchasesOf(u))
              /\ Sum(Used, PurchasesOf(u))' = Sum(Used, PurchasesOf(u))
         /\ Sum(SpentOwn, PurchasesOf(who[p]))' = Sum(SpentOwn, PurchasesOf(who[p])) + cart[p].credit
         /\ Sum(SpentHalf, PurchasesOf(who[p]))' = Sum(SpentHalf, PurchasesOf(who[p])) + cart[p].referral
         /\ Sum(Used, PurchasesOf(who[p]))' = Sum(Used, PurchasesOf(who[p])) + cart[p].uses
<1>1. Standing' = Standing \cup {p}  BY DEF Standing
<1>2. UNCHANGED <<SpentOwn, SpentHalf, Used>>  BY DEF SpentOwn, SpentHalf, Used
<1>3. ASSUME NEW u \in Users, u # who[p] PROVE PurchasesOf(u)' = PurchasesOf(u)
  BY <1>1, <1>3 DEF PurchasesOf
<1> PICK u : u = who[p]  OBVIOUS
<1> PICK S : S = PurchasesOf(u)  OBVIOUS
<1>4. PurchasesOf(u)' = S \cup {p}  BY <1>1 DEF PurchasesOf
<1>5. u \in Users /\ IsFiniteSet(S) /\ p \notin S
      /\ (\A q \in S \cup {p} : SpentOwn[q] \in Int) /\ (\A q \in S \cup {p} : SpentHalf[q] \in Int)
      /\ (\A q \in S \cup {p} : Used[q] \in Int)
  <2>1. u \in Users  BY DEF RowsOK, Clients
  <2>2. IsFiniteSet(S) /\ S \subseteq Purchases  BY <2>1, Spends
  <2>3. (\A q \in Purchases : SpentOwn[q] \in Int) /\ (\A q \in Purchases : SpentHalf[q] \in Int)
        /\ (\A q \in Purchases : Used[q] \in Int)
    BY <2>1, Spends
  <2>4. p \notin S  BY DEF PurchasesOf
  <2>5. S \cup {p} \subseteq Purchases  BY <2>2
  <2> QED  BY <2>1, <2>2, <2>3, <2>4, <2>5
<1>6. SpentOwn[p] = cart[p].credit /\ SpentHalf[p] = cart[p].referral /\ Used[p] = cart[p].uses
  BY DEF SpentOwn, SpentHalf, Used
<1>7. Sum(SpentOwn, S \cup {p}) = Sum(SpentOwn, S) + cart[p].credit
  <2> PICK g : g = SpentOwn  OBVIOUS
  <2>1. IsFiniteSet(S) /\ p \notin S /\ \A q \in S \cup {p} : g[q] \in Int  BY <1>5
  <2>2. Sum(g, S \cup {p}) = Sum(g, S) + g[p]  BY <2>1, SumJoins
  <2> QED  BY <1>6, <2>2
<1>8. Sum(SpentHalf, S \cup {p}) = Sum(SpentHalf, S) + cart[p].referral
  <2> PICK g : g = SpentHalf  OBVIOUS
  <2>1. IsFiniteSet(S) /\ p \notin S /\ \A q \in S \cup {p} : g[q] \in Int  BY <1>5
  <2>2. Sum(g, S \cup {p}) = Sum(g, S) + g[p]  BY <2>1, SumJoins
  <2> QED  BY <1>6, <2>2
<1>9. Sum(Used, S \cup {p}) = Sum(Used, S) + cart[p].uses
  <2> PICK g : g = Used  OBVIOUS
  <2>1. IsFiniteSet(S) /\ p \notin S /\ \A q \in S \cup {p} : g[q] \in Int  BY <1>5
  <2>2. Sum(g, S \cup {p}) = Sum(g, S) + g[p]  BY <2>1, SumJoins
  <2> QED  BY <1>6, <2>2
<1>10. IsFiniteSet(Standing')  BY <1>1, FS_AddElement DEF BalanceInv
<1> QED  BY <1>2, <1>3, <1>4, <1>7, <1>8, <1>9, <1>10

LEMMA SumsShrink ==
  ASSUME RowsOK, BalanceInv, UNCHANGED <<who, cart>>, NEW p \in Standing,
         \A q \in Purchases : (q \in Standing)' <=> q \in Standing \ {p}
  PROVE  /\ IsFiniteSet(Standing')
         /\ \A u \in Users : u # who[p] =>
              /\ Sum(SpentOwn, PurchasesOf(u))' = Sum(SpentOwn, PurchasesOf(u))
              /\ Sum(SpentHalf, PurchasesOf(u))' = Sum(SpentHalf, PurchasesOf(u))
              /\ Sum(Used, PurchasesOf(u))' = Sum(Used, PurchasesOf(u))
         /\ Sum(SpentOwn, PurchasesOf(who[p]))' = Sum(SpentOwn, PurchasesOf(who[p])) - cart[p].credit
         /\ Sum(SpentHalf, PurchasesOf(who[p]))' = Sum(SpentHalf, PurchasesOf(who[p])) - cart[p].referral
         /\ Sum(Used, PurchasesOf(who[p]))' = Sum(Used, PurchasesOf(who[p])) - cart[p].uses
<1>1. Standing' = Standing \ {p} /\ p \in Purchases  BY DEF Standing
<1>2. UNCHANGED <<SpentOwn, SpentHalf, Used>>  BY DEF SpentOwn, SpentHalf, Used
<1>3. ASSUME NEW u \in Users, u # who[p] PROVE PurchasesOf(u)' = PurchasesOf(u)
  BY <1>1, <1>3 DEF PurchasesOf
<1> PICK u : u = who[p]  OBVIOUS
<1> PICK S : S = PurchasesOf(u)  OBVIOUS
<1>4. PurchasesOf(u)' = S \ {p}  BY <1>1 DEF PurchasesOf
<1>5. u \in Users /\ IsFiniteSet(S) /\ p \in S
      /\ (\A q \in S : SpentOwn[q] \in Int) /\ (\A q \in S : SpentHalf[q] \in Int)
      /\ (\A q \in S : Used[q] \in Int)
  BY <1>1, Spends DEF RowsOK, Clients, PurchasesOf
<1>6. SpentOwn[p] = cart[p].credit /\ SpentHalf[p] = cart[p].referral /\ Used[p] = cart[p].uses
  BY <1>1 DEF SpentOwn, SpentHalf, Used
<1>7. Sum(SpentOwn, S \ {p}) = Sum(SpentOwn, S) - cart[p].credit
  <2> PICK g : g = SpentOwn  OBVIOUS
  <2>1. IsFiniteSet(S) /\ p \in S /\ \A q \in S : g[q] \in Int  BY <1>5
  <2>2. Sum(g, S \ {p}) = Sum(g, S) - g[p]  BY <2>1, SumLeaves
  <2> QED  BY <1>6, <2>2
<1>8. Sum(SpentHalf, S \ {p}) = Sum(SpentHalf, S) - cart[p].referral
  <2> PICK g : g = SpentHalf  OBVIOUS
  <2>1. IsFiniteSet(S) /\ p \in S /\ \A q \in S : g[q] \in Int  BY <1>5
  <2>2. Sum(g, S \ {p}) = Sum(g, S) - g[p]  BY <2>1, SumLeaves
  <2> QED  BY <1>6, <2>2
<1>9. Sum(Used, S \ {p}) = Sum(Used, S) - cart[p].uses
  <2> PICK g : g = Used  OBVIOUS
  <2>1. IsFiniteSet(S) /\ p \in S /\ \A q \in S : g[q] \in Int  BY <1>5
  <2>2. Sum(g, S \ {p}) = Sum(g, S) - g[p]  BY <2>1, SumLeaves
  <2> QED  BY <1>6, <2>2
<1>10. IsFiniteSet(Standing')  BY <1>1, FS_Subset DEF BalanceInv
<1> QED  BY <1>2, <1>3, <1>4, <1>7, <1>8, <1>9, <1>10

StandingSteps == {"charging", "undoing", "releasing", "done", "stranded"}

\* A request moves: it alone may come to stand or no longer do so.
LEMMA StandsAfter ==
  ASSUME TxOK, NEW c \in Clients, NEW there, Goto(c, there)
  PROVE  /\ c \notin Purchases => \A q \in Purchases : (q \in Standing)' <=> q \in Standing
         /\ c \in Purchases /\ there \in StandingSteps => \A q \in Purchases : (q \in Standing)' <=> q \in Standing \cup {c}
         /\ c \in Purchases /\ there \notin StandingSteps => \A q \in Purchases : (q \in Standing)' <=> q \in Standing \ {c}
<1>1. at'[c] = there /\ \A q \in Purchases : q # c => at'[q] = at[q]
  BY DEF TxOK, Goto, Clients
<1> QED  BY <1>1 DEF Standing, StandingSteps

BalancesStay == UNCHANGED <<userUsed, credit, referral, applied, earned>>

\* A step that neither spends nor gives keeps the accounts.
LEMMA BalancedStill ==
  ASSUME RowsOK, BalanceInv, UNCHANGED who, BalancesStay,
         \A p \in Purchases : (p \in Standing)' <=> p \in Standing,
         \A p \in Standing : cart'[p] = cart[p]
  PROVE  BalanceInv'
<1>1. /\ IsFiniteSet(Standing')
      /\ \A u \in Users : /\ Sum(SpentOwn, PurchasesOf(u))' = Sum(SpentOwn, PurchasesOf(u))
                          /\ Sum(SpentHalf, PurchasesOf(u))' = Sum(SpentHalf, PurchasesOf(u))
                          /\ Sum(Used, PurchasesOf(u))' = Sum(Used, PurchasesOf(u))
  BY SumsStay
<1>2. \A u \in Users : Balanced(u)'  BY <1>1 DEF BalanceInv, Balanced, BalancesStay
<1> QED  BY <1>1, <1>2 DEF BalanceInv

LEMMA SumsAreInt ==
  ASSUME RowsOK, BalanceInv, NEW u \in Users
  PROVE  /\ Sum(SpentOwn, PurchasesOf(u)) \in Int /\ Sum(SpentHalf, PurchasesOf(u)) \in Int
         /\ Sum(Used, PurchasesOf(u)) \in Int
         /\ credit[u] \in Int /\ referral[u] \in Int /\ userUsed[u] \in Int
         /\ earned[u] \in Nat /\ applied[u] \in Nat
<1>1. IsFiniteSet(PurchasesOf(u))
      /\ \A p \in PurchasesOf(u) : SpentOwn[p] \in Int /\ SpentHalf[p] \in Int /\ Used[p] \in Int
  BY Spends
<1> QED  BY <1>1, SumIsInt DEF RowsOK

\* A commit takes what it decided on.
LEMMA CommitBalances ==
  ASSUME TxOK, RowsOK, BalanceInv, NEW p \in Purchases, SaleCommit(p)
  PROVE  BalanceInv'
<1> PICK v : v = who[p]  OBVIOUS
<1> PICK c : c = cart[p]  OBVIOUS
<1>1. v \in Users /\ c.uses \in Int /\ c.credit \in Int /\ c.referral \in Int
  BY DEF RowsOK, Carts, Clients
<1>2. /\ userUsed' = [userUsed EXCEPT ![v] = @ + c.uses]
      /\ credit'   = [credit EXCEPT ![v] = @ - c.credit]
      /\ referral' = [referral EXCEPT ![v] = @ - c.referral]
      /\ UNCHANGED <<who, cart, applied, earned>>
  BY DEF SaleCommit, history
<1>3. p \notin Standing /\ \A q \in Purchases : (q \in Standing)' <=> q \in Standing \cup {p}
  BY StandsAfter DEF SaleCommit, Standing, StandingSteps, Clients
<1>4. /\ IsFiniteSet(Standing')
      /\ \A u \in Users : u # v =>
           /\ Sum(SpentOwn, PurchasesOf(u))' = Sum(SpentOwn, PurchasesOf(u))
           /\ Sum(SpentHalf, PurchasesOf(u))' = Sum(SpentHalf, PurchasesOf(u))
           /\ Sum(Used, PurchasesOf(u))' = Sum(Used, PurchasesOf(u))
      /\ Sum(SpentOwn, PurchasesOf(v))' = Sum(SpentOwn, PurchasesOf(v)) + c.credit
      /\ Sum(SpentHalf, PurchasesOf(v))' = Sum(SpentHalf, PurchasesOf(v)) + c.referral
      /\ Sum(Used, PurchasesOf(v))' = Sum(Used, PurchasesOf(v)) + c.uses
  BY <1>2, <1>3, SumsGrow
<1>5. /\ credit'[v] = credit[v] - c.credit /\ referral'[v] = referral[v] - c.referral
      /\ userUsed'[v] = userUsed[v] + c.uses
      /\ \A u \in Users : u # v => credit'[u] = credit[u] /\ referral'[u] = referral[u] /\ userUsed'[u] = userUsed[u]
  BY <1>1, <1>2 DEF RowsOK
<1>6. ASSUME NEW u \in Users, u # v PROVE Balanced(u)'
  BY <1>2, <1>4, <1>5, <1>6 DEF BalanceInv, Balanced
<1>7. Balanced(v)'
  <2>1. /\ Sum(SpentOwn, PurchasesOf(v)) \in Int /\ Sum(SpentHalf, PurchasesOf(v)) \in Int
        /\ Sum(Used, PurchasesOf(v)) \in Int
        /\ credit[v] \in Int /\ referral[v] \in Int /\ userUsed[v] \in Int
    BY <1>1, SumsAreInt
  <2>2. Balanced(v)  BY <1>1 DEF BalanceInv
  <2>3. credit[v] - c.credit + (Sum(SpentOwn, PurchasesOf(v)) + c.credit) = credit[v] + Sum(SpentOwn, PurchasesOf(v))
    BY <1>1, <2>1
  <2>4. referral[v] - c.referral + (Sum(SpentHalf, PurchasesOf(v)) + c.referral) = referral[v] + Sum(SpentHalf, PurchasesOf(v))
    BY <1>1, <2>1
  <2> QED  BY <1>2, <1>4, <1>5, <2>2, <2>3, <2>4 DEF Balanced
<1> QED  BY <1>4, <1>6, <1>7 DEF BalanceInv

\* An undo gives it back.
LEMMA UndoBalances ==
  ASSUME TxOK, RowsOK, BalanceInv, NEW p \in Purchases, UndoCommit(p)
  PROVE  BalanceInv'
<1> PICK v : v = who[p]  OBVIOUS
<1> PICK c : c = cart[p]  OBVIOUS
<1>1. v \in Users /\ c.uses \in Int /\ c.credit \in Int /\ c.referral \in Int
  BY DEF RowsOK, Carts, Clients
<1>2. /\ userUsed' = [userUsed EXCEPT ![v] = @ - c.uses]
      /\ credit'   = [credit EXCEPT ![v] = @ + c.credit]
      /\ referral' = [referral EXCEPT ![v] = @ + c.referral]
      /\ UNCHANGED <<who, cart, applied, earned>>
  BY DEF UndoCommit, UsesReturned, history
<1>3. p \in Standing /\ \A q \in Purchases : (q \in Standing)' <=> q \in Standing \ {p}
  BY StandsAfter DEF UndoCommit, Standing, StandingSteps, Clients
<1>4. /\ IsFiniteSet(Standing')
      /\ \A u \in Users : u # v =>
           /\ Sum(SpentOwn, PurchasesOf(u))' = Sum(SpentOwn, PurchasesOf(u))
           /\ Sum(SpentHalf, PurchasesOf(u))' = Sum(SpentHalf, PurchasesOf(u))
           /\ Sum(Used, PurchasesOf(u))' = Sum(Used, PurchasesOf(u))
      /\ Sum(SpentOwn, PurchasesOf(v))' = Sum(SpentOwn, PurchasesOf(v)) - c.credit
      /\ Sum(SpentHalf, PurchasesOf(v))' = Sum(SpentHalf, PurchasesOf(v)) - c.referral
      /\ Sum(Used, PurchasesOf(v))' = Sum(Used, PurchasesOf(v)) - c.uses
  BY <1>2, <1>3, SumsShrink
<1>5. /\ credit'[v] = credit[v] + c.credit /\ referral'[v] = referral[v] + c.referral
      /\ userUsed'[v] = userUsed[v] - c.uses
      /\ \A u \in Users : u # v => credit'[u] = credit[u] /\ referral'[u] = referral[u] /\ userUsed'[u] = userUsed[u]
  BY <1>1, <1>2 DEF RowsOK
<1>6. ASSUME NEW u \in Users, u # v PROVE Balanced(u)'
  BY <1>2, <1>4, <1>5, <1>6 DEF BalanceInv, Balanced
<1>7. Balanced(v)'
  <2>1. /\ Sum(SpentOwn, PurchasesOf(v)) \in Int /\ Sum(SpentHalf, PurchasesOf(v)) \in Int
        /\ Sum(Used, PurchasesOf(v)) \in Int
        /\ credit[v] \in Int /\ referral[v] \in Int /\ userUsed[v] \in Int
    BY <1>1, SumsAreInt
  <2>2. Balanced(v)  BY <1>1 DEF BalanceInv
  <2>3. credit[v] + c.credit + (Sum(SpentOwn, PurchasesOf(v)) - c.credit) = credit[v] + Sum(SpentOwn, PurchasesOf(v))
    BY <1>1, <2>1
  <2>4. referral[v] + c.referral + (Sum(SpentHalf, PurchasesOf(v)) - c.referral) = referral[v] + Sum(SpentHalf, PurchasesOf(v))
    BY <1>1, <2>1
  <2> QED  BY <1>2, <1>4, <1>5, <2>2, <2>3, <2>4 DEF Balanced
<1> QED  BY <1>4, <1>6, <1>7 DEF BalanceInv


\* A payout gives the referrer what the history says was earned.
LEMMA PayoutBalances ==
  ASSUME RowsOK, BalanceInv, NEW p \in Purchases, PayReferrer(p)
  PROVE  BalanceInv'
<1> PICK v : v = seen[p].referrer  OBVIOUS
<1>1. /\ v \in Users
      /\ credit' = [credit EXCEPT ![v] = @ + Reward] /\ earned' = [earned EXCEPT ![v] = @ + 1]
      /\ UNCHANGED <<userUsed, referral, who, at, cart, applied>>
  BY DEF PayReferrer
<1>2. /\ IsFiniteSet(Standing')
      /\ \A u \in Users : /\ Sum(SpentOwn, PurchasesOf(u))' = Sum(SpentOwn, PurchasesOf(u))
                          /\ Sum(SpentHalf, PurchasesOf(u))' = Sum(SpentHalf, PurchasesOf(u))
                          /\ Sum(Used, PurchasesOf(u))' = Sum(Used, PurchasesOf(u))
  BY <1>1, SumsStay DEF Standing
<1>3. /\ credit'[v] = credit[v] + Reward /\ earned'[v] = earned[v] + 1
      /\ \A u \in Users : u # v => credit'[u] = credit[u] /\ earned'[u] = earned[u]
  BY <1>1 DEF RowsOK
<1>4. ASSUME NEW u \in Users, u # v PROVE Balanced(u)'
  BY <1>1, <1>2, <1>3, <1>4 DEF BalanceInv, Balanced
<1>5. Balanced(v)'
  <2> PICK s : s = Sum(SpentOwn, PurchasesOf(v))  OBVIOUS
  <2>1. s \in Int /\ credit[v] \in Int /\ earned[v] \in Nat  BY <1>1, SumsAreInt
  <2>2. Balanced(v) /\ credit[v] + s = FirstCredits + Reward * earned[v]  BY <1>1 DEF BalanceInv, Balanced
  <2>3. Reward * (earned[v] + 1) = Reward * earned[v] + Reward  BY <2>1, AmountsAreNat
  <2> PICK n : n = Reward * earned[v]  OBVIOUS
  <2>4. n \in Int /\ credit[v] + s = FirstCredits + n  BY <2>1, <2>2, AmountsAreNat
  <2> PICK x : x = credit[v]  OBVIOUS
  <2>5. x + Reward + s = FirstCredits + (n + Reward)
    <3>1. x \in Int /\ s \in Int /\ Reward \in Int  BY <2>1, AmountsAreNat
    <3>2. x + Reward + s = (x + s) + Reward  BY <3>1
    <3>3. FirstCredits \in Int /\ n \in Int /\ x + s = FirstCredits + n  BY <2>1, <2>4, AmountsAreNat
    <3> QED  BY <3>1, <3>2, <3>3
  <2>6. credit'[v] + Sum(SpentOwn, PurchasesOf(v))' = FirstCredits + Reward * earned'[v]
    BY <1>1, <1>2, <1>3, <2>3, <2>5
  <2> QED  BY <1>1, <1>2, <2>2, <2>6 DEF Balanced
<1> QED  BY <1>2, <1>4, <1>5 DEF BalanceInv

\* So does the use of a code with the referral credits of who used it.
LEMMA ApplyBalances ==
  ASSUME TxOK, RowsOK, BalanceInv, NEW a \in Applications, ApplyCommit(a)
  PROVE  BalanceInv'
<1> PICK v : v = who[a]  OBVIOUS
<1>1. /\ v \in Users
      /\ referral' = [referral EXCEPT ![v] = @ + Reward] /\ applied' = [applied EXCEPT ![v] = @ + 1]
      /\ UNCHANGED <<userUsed, credit, who, cart, earned>>
  BY DEF ApplyCommit, RowsOK, Clients
<1>2. \A q \in Purchases : (q \in Standing)' <=> q \in Standing
  BY StandsAfter, RequestsDiffer DEF ApplyCommit, Clients
<1>3. /\ IsFiniteSet(Standing')
      /\ \A u \in Users : /\ Sum(SpentOwn, PurchasesOf(u))' = Sum(SpentOwn, PurchasesOf(u))
                          /\ Sum(SpentHalf, PurchasesOf(u))' = Sum(SpentHalf, PurchasesOf(u))
                          /\ Sum(Used, PurchasesOf(u))' = Sum(Used, PurchasesOf(u))
  BY <1>1, <1>2, SumsStay
<1>4. /\ referral'[v] = referral[v] + Reward /\ applied'[v] = applied[v] + 1
      /\ \A u \in Users : u # v => referral'[u] = referral[u] /\ applied'[u] = applied[u]
  BY <1>1 DEF RowsOK
<1>5. ASSUME NEW u \in Users, u # v PROVE Balanced(u)'
  BY <1>1, <1>3, <1>4, <1>5 DEF BalanceInv, Balanced
<1>6. Balanced(v)'
  <2> PICK s : s = Sum(SpentHalf, PurchasesOf(v))  OBVIOUS
  <2>1. s \in Int /\ referral[v] \in Int /\ applied[v] \in Nat  BY <1>1, SumsAreInt
  <2>2. Balanced(v) /\ referral[v] + s = Reward * applied[v]  BY <1>1 DEF BalanceInv, Balanced
  <2>3. Reward * (applied[v] + 1) = Reward * applied[v] + Reward  BY <2>1, AmountsAreNat
  <2>4. referral[v] + Reward + s = Reward * applied[v] + Reward  BY <2>1, <2>2, AmountsAreNat
  <2>5. referral'[v] + Sum(SpentHalf, PurchasesOf(v))' = Reward * applied'[v]
    BY <1>1, <1>3, <1>4, <2>3, <2>4
  <2> QED  BY <1>1, <1>3, <2>2, <2>5 DEF Balanced
<1> QED  BY <1>3, <1>5, <1>6 DEF BalanceInv

LEMMA NextBalanceInv == TxOK /\ RowsOK /\ BalanceInv /\ [Next]_rewardVars => BalanceInv'
<1> SUFFICES ASSUME TxOK, RowsOK, BalanceInv, [Next]_rewardVars PROVE BalanceInv'
  OBVIOUS
<1>0. Purchases \subseteq Clients /\ Applications \subseteq Clients /\ Purchases \cap Applications = {}
  BY RequestsDiffer DEF Clients
<1>1. ASSUME NEW p \in Purchases, SaleStep(p) PROVE BalanceInv'
  <2>1. CASE SaleBegin(p)
    <3>1. \A q \in Purchases : q # p => cart'[q] = cart[q]
      BY <2>1 DEF SaleBegin, RowsOK
    <3>2. p \notin Standing /\ \A q \in Purchases : (q \in Standing)' <=> q \in Standing \ {p}
      BY <1>0, <2>1, StandsAfter DEF SaleBegin, Standing, StandingSteps
    <3>3. \A q \in Standing : cart'[q] = cart[q]
      BY <3>1, <3>2 DEF Standing
    <3> QED
      BY <2>1, <3>2, <3>3, BalancedStill DEF SaleBegin, tables, history, BalancesStay
  <2>2. CASE SaleRefuse(p) \/ SaleConflict(p)
    <3>1. p \notin Standing /\ Goto(p, "refused") /\ UNCHANGED <<who, cart>> /\ BalancesStay
      BY <2>2 DEF SaleRefuse, SaleConflict, Standing, tables, history, BalancesStay
    <3>2. \A q \in Purchases : (q \in Standing)' <=> q \in Standing \ {p}
      BY <1>0, <3>1, StandsAfter DEF StandingSteps
    <3> QED
      BY <3>1, <3>2, BalancedStill
  <2>3. CASE SaleCommit(p)  BY <2>3, CommitBalances
  <2>4. CASE UndoCommit(p)  BY <2>4, UndoBalances
  <2>5. CASE ChargeSucceeds(p) \/ ChargeFails(p) \/ UndoBegin(p) \/ UndoFails(p) \/ (Crash(p) /\ at[p] # "selling")
    <3>1. p \in Standing /\ UNCHANGED <<who, cart>> /\ BalancesStay
      BY <2>5 DEF ChargeSucceeds, ChargeFails, UndoBegin, UndoFails, Crash, Standing, tables, history, BalancesStay
    <3>2. \E there \in StandingSteps : Goto(p, there)
      BY <2>5 DEF ChargeSucceeds, ChargeFails, UndoBegin, UndoFails, Crash, StandingSteps
    <3>3. \A q \in Purchases : (q \in Standing)' <=> q \in Standing \cup {p}
      BY <1>0, <3>2, StandsAfter
    <3> QED
      BY <3>1, <3>3, BalancedStill
  <2>6. CASE Crash(p) /\ at[p] = "selling"
    <3>1. p \notin Standing /\ Goto(p, "refused") /\ UNCHANGED <<who, cart>> /\ BalancesStay
      BY <2>6 DEF Crash, Standing, tables, history, BalancesStay
    <3>2. \A q \in Purchases : (q \in Standing)' <=> q \in Standing \ {p}
      BY <1>0, <3>1, StandsAfter DEF StandingSteps
    <3> QED
      BY <3>1, <3>2, BalancedStill
  <2> QED
    BY <1>1, <2>1, <2>2, <2>3, <2>4, <2>5, <2>6 DEF SaleStep
<1>2. ASSUME NEW p \in Purchases, EventStep(p) PROVE BalanceInv'
  <2>1. CASE PayReferrer(p)  BY <2>1, PayoutBalances
  <2>2. CASE CountUses(p) \/ CountLost(p) \/ PayoutBegin(p) \/ MarkUnreferred(p) \/ PayoutEnds(p)
    <3>1. UNCHANGED <<who, cart, at>> /\ BalancesStay
      BY <2>2 DEF CountUses, CountLost, PayoutBegin, MarkUnreferred, PayoutEnds, tables, history, BalancesStay
    <3> QED
      BY <3>1, BalancedStill DEF Standing
  <2> QED
    BY <1>2, <2>1, <2>2 DEF EventStep
<1>3. ASSUME NEW a \in Applications, ApplyStep(a) PROVE BalanceInv'
  <2>1. CASE ApplyCommit(a)  BY <2>1, ApplyBalances
  <2>2. CASE ApplyRead(a) \/ ApplyBegin(a) \/ ApplyRefuse(a) \/ ApplyEnds(a)
    <3>1. UNCHANGED <<who, cart>> /\ BalancesStay
      BY <2>2 DEF ApplyRead, ApplyBegin, ApplyRefuse, ApplyEnds, tables, history, BalancesStay
    <3>2. \E there \in ApplySteps : Goto(a, there)
      BY <2>2 DEF ApplyRead, ApplyBegin, ApplyRefuse, ApplyEnds, ApplySteps
    <3>3. \A q \in Purchases : (q \in Standing)' <=> q \in Standing
      BY <1>0, <3>2, StandsAfter
    <3> QED
      BY <3>1, <3>3, BalancedStill
  <2> QED
    BY <1>3, <2>1, <2>2 DEF ApplyStep
<1>4. CASE UNCHANGED rewardVars
  BY <1>4, BalancedStill DEF rewardVars, Standing, BalancesStay
<1> QED
  BY <1>1, <1>2, <1>3, <1>4 DEF Next

LEMMA InitBalanceInv == Init => BalanceInv
<1> SUFFICES ASSUME Init PROVE BalanceInv
  OBVIOUS
<1>1. Standing = {}
  BY DEF Init, Standing, Clients
<1>2. ASSUME NEW u \in Users PROVE Balanced(u)
  <2>1. PurchasesOf(u) = {}
    BY <1>1 DEF PurchasesOf
  <2>2. Sum(SpentOwn, PurchasesOf(u)) = 0 /\ Sum(SpentHalf, PurchasesOf(u)) = 0 /\ Sum(Used, PurchasesOf(u)) = 0
    BY <2>1, SumOfNone
  <2>3. Reward * 0 = 0 /\ FirstCredits + 0 = FirstCredits
    BY AmountsAreNat
  <2> QED
    BY <2>2, <2>3 DEF Init, Balanced
<1> QED
  BY <1>1, <1>2, FS_EmptySet DEF BalanceInv

\* However purchases, their undos, payouts and uses of codes overlap and wherever they fail, no
\* credit and no use of the promotion is lost, made up, spent twice or given back twice.
THEOREM BalancesAddUp == Spec => []BalancesAccounted
<1>1. BalanceInv => BalancesAccounted
  BY BalancesAre DEF BalanceInv
<1>2. /\ Init => TxOK /\ RowsOK /\ BalanceInv
      /\ TxOK /\ RowsOK /\ BalanceInv /\ [Next]_rewardVars => (TxOK /\ RowsOK /\ BalanceInv)'
  BY InitOK, InitBalanceInv, NextTxOK, NextRowsOK, NextBalanceInv
<1> QED
  BY <1>1, <1>2, PTL DEF Spec


(***************************************************************************)
(* What was counted.  The rows without a user are added up as a sequence,  *)
(* one row at a time joins it, and one of them at a time is increased.     *)
(***************************************************************************)
CountedSales == {p \in Purchases : counting[p] = "counted"}

CountInv ==
  /\ IsFiniteSet(CountedSales)
  /\ Sum(globalRows, DOMAIN globalRows) = Sum(Used, CountedSales)
  /\ \A p \in Purchases : cart[p].uses > 0 /\ at[p] = "done" <=> counting[p] # "none"

LEMMA CountIs == CountInv => GlobalCountAccounted
<1>1. FoldSeq(LAMBDA x, y : x + y, 0, globalRows) = Sum(globalRows, DOMAIN globalRows)
  BY DEF FoldSeq, FoldFunction, Sum
<1>2. (LET Uses(p) == cart[p].uses IN SumOver(CountedSales, Uses)) = Sum(Used, CountedSales)
  BY DEF SumOver, Sum, Used
<1> QED
  BY <1>1, <1>2 DEF CountInv, CountedSales, GlobalCountAccounted

LEMMA RowAdded ==
  ASSUME NEW s \in Seq(Int)
  PROVE  Sum(Append(s, 0), DOMAIN Append(s, 0)) = Sum(s, DOMAIN s)
<1> PICK t : t = Append(s, 0)  OBVIOUS
<1> PICK n : n = Len(s) + 1  OBVIOUS
<1> PICK S : S = 1..Len(s)  OBVIOUS
<1>1. Len(s) \in Nat /\ DOMAIN s = S /\ \A i \in S : s[i] \in Int
  BY LenProperties, ElementOfSeq
<1>2. t \in Seq(Int) /\ Len(t) = n /\ t[n] = 0 /\ \A i \in S : t[i] = s[i]
  BY <1>1, AppendProperties
<1>3. DOMAIN t = S \cup {n} /\ n \notin S /\ IsFiniteSet(S)
  <2>1. DOMAIN t = 1..n  BY <1>2, LenProperties
  <2>2. IsFiniteSet(1..Len(s))  BY <1>1, FS_Interval
  <2> QED  BY <1>1, <2>1, <2>2
<1>4. Sum(t, S \cup {n}) = Sum(t, S) + t[n]
  <2>1. \A i \in S \cup {n} : t[i] \in Int  BY <1>1, <1>2
  <2> QED  BY <1>3, <2>1, SumJoins
<1>5. Sum(t, S) = Sum(s, S) /\ Sum(s, S) \in Int
  <2>1. \A i \in S : s[i] = t[i] /\ s[i] \in Int  BY <1>1, <1>2
  <2>2. Sum(s, S) = Sum(t, S)  BY <1>3, <2>1, SumSame
  <2>3. Sum(s, S) \in Int  BY <1>3, <2>1, SumIsInt
  <2> QED  BY <2>2, <2>3
<1> PICK m : m = Sum(s, S)  OBVIOUS
<1>6. Sum(t, S) + t[n] = m  BY <1>2, <1>5
<1>7. Sum(t, DOMAIN t) = m  BY <1>3, <1>4, <1>6
<1>8. Sum(s, DOMAIN s) = m  BY <1>1
<1> QED  BY <1>7, <1>8

LEMMA RowIncreased ==
  ASSUME NEW s \in Seq(Int), NEW i \in DOMAIN s, NEW n \in Int, NEW t, t = [s EXCEPT ![i] = @ + n]
  PROVE  Sum(t, DOMAIN t) = Sum(s, DOMAIN s) + n
<1> PICK D : D = DOMAIN s  OBVIOUS
<1> PICK T : T = D \ {i}  OBVIOUS
<1>1. IsFiniteSet(D) /\ (\A k \in D : s[k] \in Int) /\ DOMAIN t = D
  <2>1. D = 1..Len(s) /\ Len(s) \in Int /\ 1 \in Int  BY LenProperties
  <2>2. IsFiniteSet(1..Len(s))  BY <2>1, FS_Interval
  <2>3. \A k \in D : s[k] \in Int  BY <2>1, ElementOfSeq
  <2>4. DOMAIN t = D  OBVIOUS
  <2> QED  BY <2>1, <2>2, <2>3, <2>4
<1>2. t[i] = s[i] + n /\ (\A k \in T : t[k] = s[k])  OBVIOUS
<1>3. (\A k \in D : t[k] \in Int) /\ IsFiniteSet(T) /\ \A k \in T : s[k] = t[k] /\ s[k] \in Int
  BY <1>1, <1>2, FS_Subset
<1>4. Sum(s, D) = s[i] + Sum(s, T)
  <2>1. i \in D /\ \A k \in D : s[k] \in Int  BY <1>1
  <2> QED  BY <1>1, <2>1, SumWithout
<1>5. Sum(t, D) = t[i] + Sum(t, T)
  <2>1. i \in D /\ \A k \in D : t[k] \in Int  BY <1>3
  <2> QED  BY <1>1, <2>1, SumWithout
<1>6. Sum(s, T) = Sum(t, T)  BY <1>3, SumSame
<1>7. Sum(s, T) \in Int
  <2>1. \A k \in T : s[k] \in Int  BY <1>3
  <2> QED  BY <1>3, <2>1, SumIsInt
<1> PICK m : m = Sum(s, T)  OBVIOUS
<1>8. s[i] \in Int /\ m \in Int /\ Sum(t, D) = (s[i] + n) + m /\ Sum(s, D) = s[i] + m
  BY <1>1, <1>2, <1>4, <1>5, <1>6, <1>7
<1>9. (s[i] + n) + m = (s[i] + m) + n  BY <1>8
<1> QED  BY <1>1, <1>8, <1>9

\* Only the number of uses of sales that were counted matters.
LEMMA CountsStay ==
  ASSUME RowsOK, CountInv, CountedSales' = CountedSales, \A p \in CountedSales : cart'[p] = cart[p]
  PROVE  IsFiniteSet(CountedSales') /\ Sum(Used, CountedSales)' = Sum(Used, CountedSales)
<1>1. IsFiniteSet(CountedSales)  BY DEF CountInv
<1>2. \A p \in CountedSales : Used[p] = Used'[p] /\ Used[p] \in Int
  BY DEF CountedSales, Used, RowsOK, Carts
<1>3. Sum(Used, CountedSales) = Sum(Used', CountedSales)  BY <1>1, <1>2, SumSame
<1> QED  BY <1>1, <1>3

\* A step after which the same sales are counted, and the rows add up to the same.
LEMMA CountedStill ==
  ASSUME RowsOK, CountInv, CountedSales' = CountedSales, \A p \in CountedSales : cart'[p] = cart[p],
         Sum(globalRows, DOMAIN globalRows)' = Sum(globalRows, DOMAIN globalRows),
         \A p \in Purchases : cart'[p].uses > 0 /\ at'[p] = "done" <=> counting'[p] # "none"
  PROVE  CountInv'
BY CountsStay DEF CountInv

\* Neither the handler nor the database has moved.
LEMMA CountedAside ==
  ASSUME RowsOK, CountInv, UNCHANGED <<counting, globalRows>>,
         \A p \in Purchases : cart'[p] = cart[p] \/ (at[p] # "done" /\ at'[p] # "done"),
         \A p \in Purchases : at'[p] = "done" <=> at[p] = "done"
  PROVE  CountInv'
<1>1. \A p \in Purchases : at[p] # "done" => counting[p] = "none"  BY DEF CountInv
<1>2. CountedSales' = CountedSales  BY DEF CountedSales
<1>3. \A p \in CountedSales : cart'[p] = cart[p]  BY <1>1 DEF CountedSales
<1>4. \A p \in Purchases : cart'[p].uses > 0 /\ at'[p] = "done" <=> counting'[p] # "none"
  BY <1>1 DEF CountInv
<1> QED  BY <1>2, <1>3, <1>4, CountedStill

LEMMA UsesCounted ==
  ASSUME RowsOK, CountInv, NEW p \in Purchases, CountUses(p)
  PROVE  CountInv'
<1>1. PICK i \in DOMAIN globalRows : globalRows' = [globalRows EXCEPT ![i] = @ + cart[p].uses]
  BY DEF CountUses, Counted
<1>2. globalRows \in Seq(Int) /\ cart[p].uses \in Int /\ \A q \in Purchases : Used[q] \in Int
  BY DEF RowsOK, Carts, Used
<1>3. Sum(globalRows, DOMAIN globalRows)' = Sum(globalRows, DOMAIN globalRows) + cart[p].uses
  <2> PICK s : s = globalRows  OBVIOUS
  <2> PICK n : n = cart[p].uses  OBVIOUS
  <2> PICK t : t = [s EXCEPT ![i] = @ + n]  OBVIOUS
  <2>1. s \in Seq(Int) /\ n \in Int /\ i \in DOMAIN s  BY <1>2
  <2>2. Sum(t, DOMAIN t) = Sum(s, DOMAIN s) + n  BY <2>1, RowIncreased
  <2>3. globalRows' = t  BY <1>1
  <2> QED  BY <2>2, <2>3
<1> PICK S : S = CountedSales  OBVIOUS
<1>4. p \notin S /\ CountedSales' = S \cup {p} /\ Used' = Used /\ Used[p] = cart[p].uses
  BY DEF CountUses, CountedSales, Used, RowsOK
<1>5. IsFiniteSet(S) /\ IsFiniteSet(S \cup {p}) /\ \A q \in S \cup {p} : Used[q] \in Int
  BY <1>2, FS_AddElement DEF CountInv, CountedSales
<1>6. Sum(Used, S \cup {p}) = Sum(Used, S) + cart[p].uses
  <2>1. Sum(Used, S \cup {p}) = Sum(Used, S) + Used[p]  BY <1>4, <1>5, SumJoins
  <2> QED  BY <1>4, <2>1
<1>7. Sum(globalRows, DOMAIN globalRows)' = Sum(Used, CountedSales)'
  BY <1>3, <1>4, <1>6 DEF CountInv
<1>8. \A q \in Purchases : cart'[q].uses > 0 /\ at'[q] = "done" <=> counting'[q] # "none"
  BY DEF CountUses, CountInv, RowsOK
<1> QED  BY <1>4, <1>5, <1>7, <1>8 DEF CountInv

\* Only a charge that succeeds makes a purchase done.
LEMMA DoneAfter ==
  ASSUME TxOK, NEW c \in Clients, NEW there, Goto(c, there), at[c] # "done",
         c \in Purchases => there # "done"
  PROVE  \A q \in Purchases : /\ at'[q] = "done" <=> at[q] = "done"
                              /\ q # c => at'[q] = at[q]
                              /\ q = c => at'[q] = there
BY DEF TxOK, Goto, Clients

LEMMA NextCountInv == TxOK /\ RowsOK /\ CountInv /\ [Next]_rewardVars => CountInv'
<1> SUFFICES ASSUME TxOK, RowsOK, CountInv, [Next]_rewardVars PROVE CountInv'
  OBVIOUS
<1>0. Purchases \subseteq Clients /\ Applications \subseteq Clients /\ Purchases \cap Applications = {}
  BY RequestsDiffer DEF Clients
<1>1. ASSUME NEW p \in Purchases, SaleStep(p) PROVE CountInv'
  <2>1. CASE SaleBegin(p)
    <3>1. \A q \in Purchases : /\ at'[q] = "done" <=> at[q] = "done"
                               /\ q = p => at'[q] = "selling"
      BY <1>0, <2>1, DoneAfter DEF SaleBegin
    <3>2. \A q \in Purchases : q # p => cart'[q] = cart[q]
      BY <2>1 DEF SaleBegin, RowsOK
    <3>3. UNCHANGED <<counting, globalRows>> /\ at[p] = "new"
      BY <2>1 DEF SaleBegin, tables, handlers
    <3> QED
      BY <3>1, <3>2, <3>3, CountedAside
  <2>2. CASE SaleCommit(p)
    <3>1. \A q \in Purchases : at'[q] = "done" <=> at[q] = "done"
      BY <1>0, <2>2, DoneAfter DEF SaleCommit
    <3>2. Sum(globalRows, DOMAIN globalRows)' = Sum(globalRows, DOMAIN globalRows)
      <4>1. globalRows' = globalRows \/ globalRows' = Append(globalRows, 0)
        BY <2>2 DEF SaleCommit
      <4>2. globalRows \in Seq(Int)
        BY DEF RowsOK
      <4> QED
        BY <4>1, <4>2, RowAdded
    <3>3. UNCHANGED <<counting, cart>>
      BY <2>2 DEF SaleCommit, handlers
    <3> QED
      BY <3>1, <3>2, <3>3, CountedStill DEF CountInv, CountedSales
  <2>3. CASE ChargeSucceeds(p)
    <3>1. /\ at[p] = "charging" /\ at'[p] = "done"
          /\ \A q \in Purchases : q # p => at'[q] = at[q]
      BY <1>0, <2>3 DEF ChargeSucceeds, Goto, TxOK
    <3>2. /\ counting'[p] = IF cart[p].uses > 0 THEN "todo" ELSE "none"
          /\ \A q \in Purchases : q # p => counting'[q] = counting[q]
      BY <2>3 DEF ChargeSucceeds, RowsOK
    <3>3. UNCHANGED <<cart, globalRows>>
      BY <2>3 DEF ChargeSucceeds, tables
    <3>4. counting[p] = "none"
      BY <3>1 DEF CountInv
    <3>5. CountedSales' = CountedSales
      BY <3>2, <3>4 DEF CountedSales
    <3>6. \A q \in Purchases : cart'[q].uses > 0 /\ at'[q] = "done" <=> counting'[q] # "none"
      BY <3>1, <3>2, <3>3 DEF CountInv
    <3> QED
      BY <3>3, <3>5, <3>6, CountedStill
  <2>4. CASE SaleRefuse(p) \/ SaleConflict(p) \/ ChargeFails(p) \/ UndoBegin(p) \/ UndoCommit(p) \/ UndoFails(p) \/ Crash(p)
    <3>1. \E there \in SaleSteps : there # "done" /\ Goto(p, there)
      BY <2>4 DEF SaleRefuse, SaleConflict, ChargeFails, UndoBegin, UndoCommit, UndoFails, Crash, SaleSteps
    <3>2. at[p] # "done" /\ UNCHANGED <<counting, globalRows, cart>>
      BY <2>4 DEF SaleRefuse, SaleConflict, ChargeFails, UndoBegin, UndoCommit, UndoFails, Crash, tables, handlers
    <3>3. \A q \in Purchases : at'[q] = "done" <=> at[q] = "done"
      BY <1>0, <3>1, <3>2, DoneAfter
    <3> QED
      BY <3>2, <3>3, CountedAside
  <2> QED
    BY <1>1, <2>1, <2>2, <2>3, <2>4 DEF SaleStep
<1>2. ASSUME NEW p \in Purchases, EventStep(p) PROVE CountInv'
  <2>1. CASE CountUses(p)  BY <2>1, UsesCounted
  <2>2. CASE CountLost(p)
    <3>1. /\ counting[p] = "todo" /\ counting'[p] = "lost"
          /\ \A q \in Purchases : q # p => counting'[q] = counting[q]
      BY <2>2 DEF CountLost, RowsOK
    <3>2. UNCHANGED <<cart, at, globalRows>>
      BY <2>2 DEF CountLost, tables
    <3>3. CountedSales' = CountedSales
      BY <3>1 DEF CountedSales
    <3>4. \A q \in Purchases : cart'[q].uses > 0 /\ at'[q] = "done" <=> counting'[q] # "none"
      BY <3>1, <3>2 DEF CountInv
    <3> QED
      BY <3>2, <3>3, <3>4, CountedStill
  <2>3. CASE PayoutBegin(p) \/ PayReferrer(p) \/ MarkUnreferred(p) \/ PayoutEnds(p)
    <3>1. UNCHANGED <<cart, at, counting, globalRows>>
      BY <2>3 DEF PayoutBegin, PayReferrer, MarkUnreferred, PayoutEnds, tables
    <3> QED
      BY <3>1, CountedAside
  <2> QED
    BY <1>2, <2>1, <2>2, <2>3 DEF EventStep
<1>3. ASSUME NEW a \in Applications, ApplyStep(a) PROVE CountInv'
  <2>1. UNCHANGED <<cart, counting, globalRows>>
    BY <1>3 DEF ApplyStep, ApplyRead, ApplyBegin, ApplyRefuse, ApplyCommit, ApplyEnds, tables, handlers
  <2>2. at[a] # "done" /\ \E there \in ApplySteps : Goto(a, there)
    BY <1>3 DEF ApplyStep, ApplyRead, ApplyBegin, ApplyRefuse, ApplyCommit, ApplyEnds, ApplySteps
  <2>3. \A q \in Purchases : at'[q] = "done" <=> at[q] = "done"
    BY <1>0, <2>2, DoneAfter
  <2> QED
    BY <2>1, <2>3, CountedAside
<1>4. CASE UNCHANGED rewardVars
  BY <1>4, CountedAside DEF rewardVars
<1> QED
  BY <1>1, <1>2, <1>3, <1>4 DEF Next

LEMMA InitCountInv == Init => CountInv
<1> SUFFICES ASSUME Init PROVE CountInv
  OBVIOUS
<1>1. CountedSales = {} /\ globalRows = <<>> /\ DOMAIN globalRows = {}
  BY DEF Init, CountedSales
<1>2. Sum(globalRows, DOMAIN globalRows) = 0 /\ Sum(Used, CountedSales) = 0
  BY <1>1, SumOfNone
<1>3. \A p \in Purchases : at[p] = "new" /\ counting[p] = "none"
  BY DEF Init, Clients
<1> QED
  BY <1>1, <1>2, <1>3, FS_EmptySet DEF CountInv

\* Whichever of the rows without a user a handler finds, and however many there are: each sale
\* is counted in full and once, or its event was lost, and no sale is counted that is not done.
THEOREM SalesAreCountedOnce == Spec => []GlobalCountAccounted
<1>1. /\ Init => TxOK /\ RowsOK /\ CountInv
      /\ TxOK /\ RowsOK /\ CountInv /\ [Next]_rewardVars => (TxOK /\ RowsOK /\ CountInv)'
  BY InitOK, InitCountInv, NextTxOK, NextRowsOK, NextCountInv
<1> QED
  BY <1>1, CountIs, PTL DEF Spec

(***************************************************************************)
(* Pricing. First arithmetic: quotients, and Rounded, which stays within half *)
(* of its denominator whichever way a half goes.                           *)
(***************************************************************************)
\* Division with remainder.
LEMMA QuotientIs ==
  ASSUME NEW a \in Nat, NEW b \in Nat \ {0}
  PROVE  /\ a \div b \in Nat /\ a % b \in Nat
         /\ a % b < b
         /\ a = b * (a \div b) + (a % b)
<1>1. a \div b \in Nat  BY SMTT(20)
<1>2. a % b \in Nat  OBVIOUS
<1>3. a % b < b  OBVIOUS
<1>4. a = b * (a \div b) + (a % b)  OBVIOUS
<1> QED BY <1>1, <1>2, <1>3, <1>4

\* Multiplying by a natural number keeps the order.
LEMMA TimesGrows ==
  ASSUME NEW a \in Int, NEW b \in Int, NEW c \in Nat, a <= b
  PROVE  a * c <= b * c
OBVIOUS

\* A factor of two moves out of a product.
LEMMA TwiceTimes ==
  ASSUME NEW a \in Int, NEW b \in Int
  PROVE  (2 * a) * b = 2 * (a * b) /\ (2 * a) * b = 2 * (b * a) /\ a * b \in Int /\ b * a \in Int
OBVIOUS

\* What Math.round makes of a quotient is within a half of it.
LEMMA RoundedNearby ==
  ASSUME NEW num \in Nat, NEW den \in Nat \ {0}
  PROVE  /\ Rounded(num, den) \in Nat
         /\ 2 * (Rounded(num, den) * den) <= 2 * num + den
         /\ 2 * num - den <= 2 * (Rounded(num, den) * den)
<1>1. CASE (2 * num) % (2 * den) = den /\ order.roundsDown
  <2> PICK q : q = num \div den  OBVIOUS
  <2> PICK p : p = (2 * num) \div (2 * den)  OBVIOUS
  <2>1. q \in Nat /\ num = den * q + (num % den) /\ num % den \in Nat /\ num % den < den  BY QuotientIs
  <2>2. 2 * num \in Nat /\ 2 * den \in Nat \ {0}  OBVIOUS
  <2>3. p \in Nat /\ 2 * num = (2 * den) * p + den  BY <1>1, <2>2, QuotientIs
  <2>4. (2 * den) * p = 2 * (den * p)
    <3>1. den \in Int /\ p \in Int  BY <2>3
    <3> QED  BY <3>1, TwiceTimes
  <2>5. p = q
    <3>1. CASE p < q
      <4>1. (p + 1) * den <= q * den  BY <2>1, <2>3, <3>1, TimesGrows
      <4>2. (p + 1) * den = den * p + den /\ q * den = den * q  BY <2>1, <2>3
      <4>3. den * p \in Int /\ den * q \in Int  BY <2>1, <2>3
      <4> QED  BY <2>1, <2>3, <2>4, <4>1, <4>2, <4>3
    <3>2. CASE q < p
      <4>1. (q + 1) * den <= p * den  BY <2>1, <2>3, <3>2, TimesGrows
      <4>2. (q + 1) * den = den * q + den /\ p * den = den * p  BY <2>1, <2>3
      <4>3. den * p \in Int /\ den * q \in Int  BY <2>1, <2>3
      <4> QED  BY <2>1, <2>3, <2>4, <4>1, <4>2, <4>3
    <3> QED  BY <2>1, <2>3, <3>1, <3>2
  <2>6. Rounded(num, den) = q  BY <1>1 DEF Rounded
  <2>7. q * den = den * q /\ den * q \in Int  BY <2>1
  <2> QED  BY <2>1, <2>3, <2>4, <2>5, <2>6, <2>7
<1>2. CASE ~((2 * num) % (2 * den) = den /\ order.roundsDown)
  <2> PICK q : q = (2 * num + den) \div (2 * den)  OBVIOUS
  <2>1. 2 * num + den \in Nat /\ 2 * den \in Nat \ {0}  OBVIOUS
  <2>2. PICK r \in Nat : q \in Nat /\ 2 * num + den = (2 * den) * q + r /\ r < 2 * den  BY <2>1, QuotientIs
  <2>3. (2 * den) * q = 2 * (q * den) /\ q * den \in Int
    <3>1. den \in Int /\ q \in Int  BY <2>2
    <3> QED  BY <3>1, TwiceTimes
  <2>4. Rounded(num, den) = q  BY <1>2 DEF Rounded
  <2> QED  BY <2>2, <2>3, <2>4
<1> QED  BY <1>1, <1>2

\* A quotient of at most p is rounded to at most p.
LEMMA RoundedWithin ==
  ASSUME NEW num \in Nat, NEW den \in Nat \ {0}, NEW p \in Nat, num <= p * den
  PROVE  Rounded(num, den) \in 0..p
<1> PICK r : r = Rounded(num, den)  OBVIOUS
<1>1. r \in Nat /\ 2 * (r * den) <= 2 * num + den  BY RoundedNearby
<1>2. SUFFICES ASSUME p < r PROVE FALSE  BY <1>1
<1>3. (p + 1) * den <= r * den  BY <1>1, <1>2, TimesGrows
<1>4. (p + 1) * den = p * den + den /\ p * den \in Int /\ r * den \in Int  BY <1>1
<1> QED  BY <1>1, <1>3, <1>4

(***************************************************************************)
(* Sums of what the items of a set have: the theory of sums again, for what *)
(* Pricing adds up.                                                        *)
(***************************************************************************)
\* What holds of no element, and of one element more whenever it holds, holds of a finite set.
LEMMA GrowingSets ==
  ASSUME NEW S, IsFiniteSet(S), NEW G, {} \in G,
         \A s \in SUBSET S : \A x \in S \ s : s \in G => s \cup {x} \in G
  PROVE  S \in G
<1> SUFFICES ASSUME S \notin G PROVE FALSE  OBVIOUS
<1> PICK F : F = {s \in SUBSET S : s \notin G}  OBVIOUS
<1>1. F # {}  OBVIOUS
<1>2. \A s \in F : IsFiniteSet(s)  BY FS_Subset
<1>3. PICK s \in F : \A t \in F : Cardinality(s) <= Cardinality(t)  BY <1>1, <1>2, SmallestOfSets
<1>4. PICK x : x \in s  OBVIOUS
<1>5. IsFiniteSet(s \ {x}) /\ Cardinality(s \ {x}) < Cardinality(s)  BY <1>2, <1>4, ChosenIsIn
<1>6. Cardinality(s \ {x}) \in Nat /\ Cardinality(s) \in Nat  BY <1>2, <1>5, FS_CardinalityType
<1>7. s \ {x} \notin F  BY <1>3, <1>5, <1>6
<1>8. (s \ {x}) \cup {x} = s  BY <1>4
<1> QED  BY <1>4, <1>7, <1>8

\* Total is the sum that is known from Rewards.
LEMMA TotalIs == ASSUME NEW g, NEW S PROVE Total(g, S) = Sum(g, S)
BY DEF Total, Sum

\* Nothing adds up to nothing.
LEMMA TotalOfNone == ASSUME NEW g PROVE Total(g, {}) = 0
BY SumOfNone, TotalIs

\* A sum of integers is an integer.
LEMMA TotalIsInt ==
  ASSUME NEW S, IsFiniteSet(S), NEW g, \A x \in S : g[x] \in Int
  PROVE  Total(g, S) \in Int
BY SumIsInt, TotalIs

\* A sum depends on its terms only.
LEMMA TotalSame ==
  ASSUME NEW S, IsFiniteSet(S), NEW g, NEW h, \A x \in S : g[x] = h[x] /\ g[x] \in Int
  PROVE  Total(g, S) = Total(h, S)
BY SumSame, TotalIs

\* A term can be taken out of a sum.
LEMMA TotalWithout ==
  ASSUME NEW S, IsFiniteSet(S), NEW g, \A x \in S : g[x] \in Int, NEW p \in S
  PROVE  Total(g, S) = g[p] + Total(g, S \ {p})
BY SumWithout, TotalIs

\* A term can be added to a sum.
LEMMA TotalJoins ==
  ASSUME NEW S, IsFiniteSet(S), NEW p, p \notin S, NEW g, \A x \in S \cup {p} : g[x] \in Int
  PROVE  Total(g, S \cup {p}) = Total(g, S) + g[p]
BY SumJoins, TotalIs

\* Sums add up.
LEMMA TotalOfSums ==
  ASSUME NEW S, IsFiniteSet(S), NEW f, NEW g, NEW h,
         \A x \in S : f[x] \in Int /\ g[x] \in Int /\ h[x] = f[x] + g[x]
  PROVE  Total(h, S) = Total(f, S) + Total(g, S)
<1> PICK G : G = {s \in SUBSET S : Total(h, s) = Total(f, s) + Total(g, s)}  OBVIOUS
<1>1. {} \in G  BY TotalOfNone
<1>2. ASSUME NEW s \in SUBSET S, NEW x \in S \ s, s \in G PROVE s \cup {x} \in G
  <2>1. IsFiniteSet(s)  BY FS_Subset
  <2>2. \A y \in s \cup {x} : f[y] \in Int /\ g[y] \in Int /\ h[y] \in Int  OBVIOUS
  <2>3. /\ Total(h, s \cup {x}) = Total(h, s) + h[x]
        /\ Total(f, s \cup {x}) = Total(f, s) + f[x]
        /\ Total(g, s \cup {x}) = Total(g, s) + g[x]
    BY <2>1, <2>2, TotalJoins
  <2>4. Total(f, s) \in Int /\ Total(g, s) \in Int  BY <2>1, <2>2, TotalIsInt
  <2>5. Total(h, s) = Total(f, s) + Total(g, s) /\ h[x] = f[x] + g[x]  BY <1>2
  <2>6. Total(h, s \cup {x}) = Total(f, s \cup {x}) + Total(g, s \cup {x})
    BY <2>2, <2>3, <2>4, <2>5
  <2> QED  BY <2>6
<1> QED  BY <1>1, <1>2, GrowingSets

\* A sum of larger terms is larger.
LEMMA TotalsGrow ==
  ASSUME NEW S, IsFiniteSet(S), NEW f, NEW g,
         \A x \in S : f[x] \in Int /\ g[x] \in Int /\ f[x] <= g[x]
  PROVE  Total(f, S) <= Total(g, S)
<1> PICK G : G = {s \in SUBSET S : Total(f, s) <= Total(g, s)}  OBVIOUS
<1>1. {} \in G
  <2>1. Total(f, {}) = 0 /\ Total(g, {}) = 0  BY TotalOfNone
  <2> QED  BY <2>1
<1>2. ASSUME NEW s \in SUBSET S, NEW x \in S \ s, s \in G PROVE s \cup {x} \in G
  <2>1. IsFiniteSet(s)  BY FS_Subset
  <2>2. \A y \in s \cup {x} : f[y] \in Int /\ g[y] \in Int  OBVIOUS
  <2>3. /\ Total(f, s \cup {x}) = Total(f, s) + f[x]
        /\ Total(g, s \cup {x}) = Total(g, s) + g[x]
    BY <2>1, <2>2, TotalJoins
  <2>4. Total(f, s) \in Int /\ Total(g, s) \in Int  BY <2>1, <2>2, TotalIsInt
  <2>5. Total(f, s) <= Total(g, s) /\ f[x] <= g[x]  BY <1>2
  <2>6. Total(f, s \cup {x}) <= Total(g, s \cup {x})
    BY <2>2, <2>3, <2>4, <2>5
  <2> QED  BY <2>6
<1> QED  BY <1>1, <1>2, GrowingSets

\* A common factor moves out of a sum.
LEMMA TotalScaled ==
  ASSUME NEW S, IsFiniteSet(S), NEW f, NEW g, NEW c \in Int,
         \A x \in S : f[x] \in Int /\ g[x] = f[x] * c
  PROVE  Total(g, S) = Total(f, S) * c
<1> PICK G : G = {s \in SUBSET S : Total(g, s) = Total(f, s) * c}  OBVIOUS
<1>1. {} \in G
  <2>1. Total(f, {}) = 0 /\ Total(g, {}) = 0  BY TotalOfNone
  <2> QED  BY <2>1
<1>2. ASSUME NEW s \in SUBSET S, NEW x \in S \ s, s \in G PROVE s \cup {x} \in G
  <2>1. IsFiniteSet(s)  BY FS_Subset
  <2>2. \A y \in s \cup {x} : f[y] \in Int /\ g[y] \in Int  OBVIOUS
  <2>3. /\ Total(f, s \cup {x}) = Total(f, s) + f[x]
        /\ Total(g, s \cup {x}) = Total(g, s) + g[x]
    BY <2>1, <2>2, TotalJoins
  <2>4. Total(f, s) \in Int /\ f[x] \in Int  BY <2>1, <2>2, TotalIsInt
  <2>5. Total(g, s) = Total(f, s) * c /\ g[x] = f[x] * c  BY <1>2
  <2>6. (Total(f, s) + f[x]) * c = Total(f, s) * c + f[x] * c  BY <2>4
  <2>7. Total(g, s \cup {x}) = Total(f, s \cup {x}) * c
    BY <2>3, <2>5, <2>6
  <2> QED  BY <2>7
<1> QED  BY <1>1, <1>2, GrowingSets

\* The sum of equal terms.
LEMMA TotalOfEqual ==
  ASSUME NEW S, IsFiniteSet(S), NEW f, NEW c \in Int, \A x \in S : f[x] = c
  PROVE  Total(f, S) = Cardinality(S) * c
<1> PICK G : G = {s \in SUBSET S : Total(f, s) = Cardinality(s) * c}  OBVIOUS
<1>1. {} \in G
  <2>1. Total(f, {}) = 0 /\ Cardinality({}) = 0  BY TotalOfNone, FS_EmptySet
  <2> QED  BY <2>1
<1>2. ASSUME NEW s \in SUBSET S, NEW x \in S \ s, s \in G PROVE s \cup {x} \in G
  <2>1. IsFiniteSet(s)  BY FS_Subset
  <2>2. \A y \in s \cup {x} : f[y] \in Int  OBVIOUS
  <2>3. Total(f, s \cup {x}) = Total(f, s) + f[x]  BY <2>1, <2>2, TotalJoins
  <2>4. Cardinality(s \cup {x}) = Cardinality(s) + 1 /\ Cardinality(s) \in Nat
    BY <2>1, FS_AddElement, FS_CardinalityType
  <2>5. Total(f, s) = Cardinality(s) * c /\ f[x] = c  BY <1>2
  <2>6. (Cardinality(s) + 1) * c = Cardinality(s) * c + c  BY <2>4
  <2>7. Total(f, s \cup {x}) = Cardinality(s \cup {x}) * c  BY <2>3, <2>4, <2>5, <2>6
  <2> QED  BY <2>7
<1> QED  BY <1>1, <1>2, GrowingSets

\* Terms that are nothing do not count.
LEMMA TotalOfPart ==
  ASSUME NEW S, IsFiniteSet(S), NEW T \in SUBSET S, NEW f,
         \A x \in T : f[x] \in Int, \A x \in S \ T : f[x] = 0
  PROVE  Total(f, S) = Total(f, T)
<1> PICK G : G = {s \in SUBSET S : Total(f, s) = Total(f, s \cap T)}  OBVIOUS
<1>1. {} \in G
  <2>1. {} \cap T = {}  OBVIOUS
  <2> QED  BY <2>1
<1>2. ASSUME NEW s \in SUBSET S, NEW x \in S \ s, s \in G PROVE s \cup {x} \in G
  <2>1. IsFiniteSet(s) /\ IsFiniteSet(s \cap T) BY FS_Subset
  <2>2. \A y \in s \cup {x} : f[y] \in Int  OBVIOUS
  <2>3. Total(f, s \cup {x}) = Total(f, s) + f[x]  BY <2>1, <2>2, TotalJoins
  <2>4. Total(f, s) = Total(f, s \cap T) /\ Total(f, s) \in Int  BY <1>2, <2>1, <2>2, TotalIsInt
  <2>5. CASE x \in T
    <3>1. (s \cup {x}) \cap T = (s \cap T) \cup {x} /\ x \notin s \cap T  BY <2>5
    <3>2. Total(f, (s \cap T) \cup {x}) = Total(f, s \cap T) + f[x]  BY <2>1, <2>2, <3>1, TotalJoins
    <3> QED  BY <2>3, <2>4, <3>1, <3>2
  <2>6. CASE x \notin T
    <3>1. (s \cup {x}) \cap T = s \cap T /\ f[x] = 0  BY <2>6
    <3> QED  BY <2>3, <2>4, <3>1
  <2> QED  BY <2>5, <2>6
<1>3. S \in G  BY <1>1, <1>2, GrowingSets
<1>4. S \cap T = T  OBVIOUS
<1> QED  BY <1>3, <1>4

\* The sum after one term has changed.
LEMMA TotalChanges ==
  ASSUME NEW S, IsFiniteSet(S), NEW f, NEW g, NEW p \in S, g[p] \in Int,
         \A x \in S : f[x] \in Int, \A x \in S \ {p} : g[x] = f[x]
  PROVE  Total(g, S) = Total(f, S) - f[p] + g[p]
<1>1. IsFiniteSet(S \ {p})  BY FS_Subset
<1>2. Total(f, S) = f[p] + Total(f, S \ {p})  BY TotalWithout
<1>3. \A x \in S : g[x] \in Int  OBVIOUS
<1>4. Total(g, S) = g[p] + Total(g, S \ {p})  BY <1>3, TotalWithout
<1>5. Total(g, S \ {p}) = Total(f, S \ {p})  BY <1>1, <1>3, TotalSame
<1>6. Total(f, S \ {p}) \in Int  BY <1>1, TotalIsInt
<1> QED  BY <1>2, <1>4, <1>5, <1>6

Priced == order.prices \in Seq(Nat)
Listed == [items : SUBSET Items, sorted : BOOLEAN]

\* The items of an order, and the lists made of them, are finite.
LEMMA ItemsAre ==
  ASSUME Priced
  PROVE  /\ Items \subseteq Nat /\ IsFiniteSet(Items) /\ order.prices \in [Items -> Nat]
         /\ \A list \in Listed : list.items \in SUBSET Items /\ IsFiniteSet(list.items)
<1>1. Len(order.prices) \in Nat /\ order.prices \in [1..Len(order.prices) -> Nat]  BY DEF Priced
<1>2. IsFiniteSet(Items)  BY <1>1, FS_Interval DEF Items
<1>3. Items \subseteq Nat  BY <1>1 DEF Items
<1>4. ASSUME NEW list \in Listed PROVE list.items \in SUBSET Items /\ IsFiniteSet(list.items)
  BY <1>2, FS_Subset DEF Listed
<1> QED  BY <1>1, <1>2, <1>3, <1>4 DEF Items

\* Ahead is a strict order of the items, by price or as they were bought.
LEMMA AheadOrders ==
  ASSUME Priced, NEW list \in Listed, NEW i \in Items, NEW j \in Items
  PROVE  /\ ~ Ahead(list, i, i)
         /\ i # j => Ahead(list, i, j) \/ Ahead(list, j, i)
         /\ \A k \in Items : Ahead(list, k, i) /\ Ahead(list, i, j) => Ahead(list, k, j)
<1> PICK p : p = order.prices  OBVIOUS
<1>1. \A k \in Items : k \in Nat /\ p[k] \in Nat  BY ItemsAre
<1> QED  BY <1>1 DEF Ahead

\* The places of a list of n items are 0 to n-1, in that order.
LEMMA PlacesDiffer ==
  ASSUME Priced, NEW list \in Listed, NEW i \in list.items
  PROVE  /\ Place(list, i) \in 0..(Cardinality(list.items) - 1)
         /\ \A j \in list.items : Ahead(list, i, j) => Place(list, i) < Place(list, j)
<1>1. IsFiniteSet(list.items) /\ list.items \subseteq Items  BY ItemsAre
<1>2. Cardinality(list.items) \in Nat  BY <1>1, FS_CardinalityType
<1> DEFINE InFront(k) == {j \in list.items : Ahead(list, j, k)}
<1>3. \A k \in list.items : IsFiniteSet(InFront(k)) /\ Cardinality(InFront(k)) \in Nat
  BY <1>1, FS_Subset, FS_CardinalityType
<1> PICK place : place = [k \in list.items |-> Cardinality(InFront(k))]  OBVIOUS
<1>0. \A k \in list.items : Place(list, k) = place[k]  BY DEF Place
<1>4. Place(list, i) \in 0..(Cardinality(list.items) - 1)
  <2>1. InFront(i) \in SUBSET list.items /\ i \notin InFront(i)  BY <1>1, AheadOrders
  <2>2. Cardinality(InFront(i)) <= Cardinality(list.items) /\ Cardinality(InFront(i)) # Cardinality(list.items)
    BY <1>1, <2>1, FS_Subset
  <2>3. place[i] = Cardinality(InFront(i)) /\ place[i] \in Nat  BY <1>3
  <2> HIDE DEF InFront
  <2> QED  BY <1>2, <1>0, <2>2, <2>3
<1>5. ASSUME NEW j \in list.items, Ahead(list, i, j) PROVE Place(list, i) < Place(list, j)
  <2>1. InFront(i) \in SUBSET InFront(j) /\ i \in InFront(j) /\ i \notin InFront(i)  BY <1>1, <1>5, AheadOrders
  <2>2. Cardinality(InFront(i)) <= Cardinality(InFront(j)) /\ Cardinality(InFront(i)) # Cardinality(InFront(j))
    BY <1>3, <2>1, FS_Subset
  <2>3. /\ place[i] = Cardinality(InFront(i)) /\ place[j] = Cardinality(InFront(j))
        /\ place[i] \in Nat /\ place[j] \in Nat
    BY <1>3
  <2> HIDE DEF InFront
  <2> QED  BY <1>0, <2>2, <2>3
<1> QED  BY <1>4, <1>5

\* Every place is that of one item.
LEMMA PlacesAreTaken ==
  ASSUME Priced, NEW list \in Listed
  PROVE  /\ \A i, j \in list.items : Place(list, i) = Place(list, j) => i = j
         /\ \A r \in 0..(Cardinality(list.items) - 1) : \E i \in list.items : Place(list, i) = r
<1>1. IsFiniteSet(list.items) /\ list.items \subseteq Items  BY ItemsAre
<1> PICK n \in Nat : n = Cardinality(list.items)  BY <1>1, FS_CardinalityType
<1> PICK place : place = [i \in list.items |-> Place(list, i)]  OBVIOUS
<1>2. \A i \in list.items : Place(list, i) \in 0..(n - 1)  BY PlacesDiffer
<1>3. \A i, j \in list.items : Place(list, i) = Place(list, j) => i = j
  <2> SUFFICES ASSUME NEW i \in list.items, NEW j \in list.items, Place(list, i) = Place(list, j), i # j
               PROVE  FALSE
    OBVIOUS
  <2>1. Ahead(list, i, j) \/ Ahead(list, j, i)  BY <1>1, AheadOrders
  <2>2. Place(list, i) < Place(list, j) \/ Place(list, j) < Place(list, i)  BY <2>1, PlacesDiffer
  <2> QED  BY <1>2, <2>2
<1>4. place \in Injection(list.items, 0..(n - 1))  BY <1>2, <1>3 DEF Injection, IsInjective
<1>5. IsFiniteSet(0..(n - 1)) /\ Cardinality(0..(n - 1)) = n
  <2>1. 0 \in Int /\ n - 1 \in Int  OBVIOUS
  <2>2. IsFiniteSet(0..(n - 1)) /\ Cardinality(0..(n - 1)) = IF 0 > n - 1 THEN 0 ELSE (n - 1) - 0 + 1
    BY <2>1, FS_Interval
  <2> QED  BY <2>2
<1>6. place \in Surjection(list.items, 0..(n - 1))  BY <1>4, <1>5, FS_Injection
<1>7. \A r \in 0..(n - 1) : \E i \in list.items : place[i] = r  BY <1>6 DEF Surjection
<1> QED  BY <1>3, <1>7

\* There is a first of some items.
LEMMA FirstIsIn ==
  ASSUME Priced, NEW list \in Listed, NEW ids \in SUBSET list.items, ids # {}
  PROVE  FirstOf(list, ids) \in ids
<1>1. IsFiniteSet(list.items)  BY ItemsAre
<1>2. Cardinality(list.items) \in Nat  BY <1>1, FS_CardinalityType
<1> PICK R : R = {Place(list, i) : i \in ids}  OBVIOUS
<1>3. \A i \in ids : Place(list, i) \in Nat  BY <1>2, PlacesDiffer
<1>4. R \in SUBSET Nat /\ R # {}  BY <1>3
<1>5. PICK r \in R : \A q \in R : r <= q  BY <1>4, LeastOfNats
<1>6. \E i \in ids : \A j \in ids : Place(list, i) <= Place(list, j)  BY <1>5
<1> QED  BY <1>6 DEF FirstOf

\* The first m items of a list are m of them, or all.
LEMMA TakeCounts ==
  ASSUME Priced, NEW list \in Listed, NEW m \in Nat
  PROVE  /\ Take(list, m) \in Listed /\ Take(list, m).items \subseteq list.items
         /\ Take(list, m).sorted = list.sorted
         /\ Cardinality(Take(list, m).items) = Smaller(Cardinality(list.items), m)
<1>1. IsFiniteSet(list.items) /\ list.items \subseteq Items  BY ItemsAre
<1> PICK n \in Nat : n = Cardinality(list.items)  BY <1>1, FS_CardinalityType
<1> PICK T : T = {i \in list.items : Place(list, i) < m}  OBVIOUS
<1>2. list = [items |-> list.items, sorted |-> list.sorted] /\ list.sorted \in BOOLEAN  BY DEF Listed
<1>3. Take(list, m) = [items |-> T, sorted |-> list.sorted]  BY <1>2 DEF Take
<1>4. T \subseteq Items  BY <1>1
<1>5. Take(list, m) \in Listed /\ Take(list, m).items = T /\ Take(list, m).sorted = list.sorted
  BY <1>2, <1>3, <1>4 DEF Listed
<1> PICK s \in Nat : s = Smaller(n, m)  BY DEF Smaller
<1> PICK place : place = [i \in T |-> Place(list, i)]  OBVIOUS
<1>6. \A i \in list.items : Place(list, i) \in 0..(n - 1)  BY PlacesDiffer
<1>7. \A i \in T : i \in list.items /\ Place(list, i) \in 0..(s - 1)  BY <1>6 DEF Smaller
<1>8. place \in Injection(T, 0..(s - 1))  BY <1>7, PlacesAreTaken DEF Injection, IsInjective
<1>9. \A r \in 0..(s - 1) : \E i \in T : place[i] = r
  <2> SUFFICES ASSUME NEW r \in 0..(s - 1) PROVE \E i \in T : place[i] = r  OBVIOUS
  <2>1. r \in 0..(n - 1) /\ r < m  BY DEF Smaller
  <2>2. PICK i \in list.items : Place(list, i) = r  BY <2>1, PlacesAreTaken
  <2> QED  BY <2>1, <2>2
<1>10. place \in Surjection(T, 0..(s - 1))  BY <1>8, <1>9 DEF Surjection, Injection
<1>11. IsFiniteSet(0..(s - 1)) /\ Cardinality(0..(s - 1)) = s
  <2>1. 0 \in Int /\ s - 1 \in Int  OBVIOUS
  <2>2. IsFiniteSet(0..(s - 1)) /\ Cardinality(0..(s - 1)) = IF 0 > s - 1 THEN 0 ELSE (s - 1) - 0 + 1
    BY <2>1, FS_Interval
  <2> QED  BY <2>2
<1>12. Cardinality(T) = s  BY <1>8, <1>10, <1>11, FS_Injection
<1> QED  BY <1>5, <1>12

(***************************************************************************)
(* What is computed in n steps: distribute's two loops and the filters of a *)
(* promotion.                                                              *)
(***************************************************************************)
\* What holds at first, and after a step whenever it held before, holds after each step.
LEMMA StepByStep ==
  ASSUME NEW n \in Nat, NEW G, 0 \in G, \A k \in 0..(n - 1) : k \in G => k + 1 \in G
  PROVE  \A k \in 0..n : k \in G
<1> PICK F : F = {k \in 0..n : k \notin G}  OBVIOUS
<1> SUFFICES ASSUME F # {} PROVE FALSE  OBVIOUS
<1>1. F \in SUBSET Nat  OBVIOUS
<1>2. PICK k \in F : \A j \in F : k <= j  BY <1>1, LeastOfNats
<1>3. k \in 0..n /\ k # 0 /\ k \notin G  OBVIOUS
<1>4. k - 1 \in 0..(n - 1) /\ k - 1 \notin F /\ k - 1 \in 0..n  BY <1>2, <1>3
<1>5. k - 1 \in G  BY <1>4
<1>6. (k - 1) + 1 \in G  BY <1>4, <1>5
<1>7. (k - 1) + 1 = k  BY <1>3
<1> QED  BY <1>3, <1>6, <1>7

Stepping(n, D, next)   == \A k \in 1..n : \A y \in D : next[<<k, y>>] \in D
StepsOf(n, D, x, next) ==
  {f \in [0..n -> D] : f[0] = x /\ \A k \in 1..n : f[k] = next[<<k, f[k - 1]>>]}

\* There is a function that takes the steps.
LEMMA StepsExist ==
  ASSUME NEW n \in Nat, NEW D, NEW x \in D, NEW next, Stepping(n, D, next)
  PROVE  StepsOf(n, D, x, next) # {}
<1> USE DEF Stepping, StepsOf
<1>0. PICK G : G = {m \in 0..n : \E f \in [0..n -> D] : f[0] = x /\ \A k \in 1..m : f[k] = next[<<k, f[k - 1]>>]}
  OBVIOUS
<1>1. 0 \in G
  <2> PICK f : f = [k \in 0..n |-> x]  OBVIOUS
  <2>1. f \in [0..n -> D] /\ f[0] = x /\ \A k \in 1..0 : f[k] = next[<<k, f[k - 1]>>]  OBVIOUS
  <2> QED  BY <1>0, <2>1
<1>2. ASSUME NEW m \in 0..(n - 1), m \in G PROVE m + 1 \in G
  <2>1. PICK f \in [0..n -> D] : f[0] = x /\ \A k \in 1..m : f[k] = next[<<k, f[k - 1]>>]  BY <1>0, <1>2
  <2>2. m \in 0..n /\ m + 1 \in 1..n  OBVIOUS
  <2>3. next[<<m + 1, f[m]>>] \in D  BY <2>2
  <2> PICK g : g = [f EXCEPT ![m + 1] = next[<<m + 1, f[m]>>]]  OBVIOUS
  <2>4. g \in [0..n -> D]  BY <2>3
  <2>5. \A k \in 0..n : k # m + 1 => g[k] = f[k]  BY <2>1
  <2>6. g[m + 1] = next[<<m + 1, f[m]>>]  BY <2>1, <2>2
  <2>7. g[0] = x  BY <2>1, <2>2, <2>5
  <2>8. ASSUME NEW k \in 1..(m + 1) PROVE g[k] = next[<<k, g[k - 1]>>]
    <3>1. k - 1 \in 0..n /\ k - 1 # m + 1  BY <2>2
    <3>2. g[k - 1] = f[k - 1]  BY <2>5, <3>1
    <3>3. CASE k = m + 1
      <4>1. k - 1 = m  BY <3>3, <2>2
      <4> QED  BY <2>6, <3>2, <3>3, <4>1
    <3>4. CASE k # m + 1
      <4>1. k \in 1..m /\ k \in 0..n  BY <2>2, <3>4
      <4> QED  BY <2>1, <2>5, <3>2, <3>4, <4>1
    <3> QED  BY <3>3, <3>4
  <2>9. \A k \in 1..(m + 1) : g[k] = next[<<k, g[k - 1]>>]  BY <2>8
  <2>10. m + 1 \in 0..n  BY <2>2
  <2> QED  BY <1>0, <2>4, <2>7, <2>9, <2>10
<1>3. \A m \in 0..(n - 1) : m \in G => m + 1 \in G  BY <1>2
<1>4. \A m \in 0..n : m \in G  BY <1>1, <1>3, StepByStep
<1>5. n \in G  BY <1>4
<1> QED  BY <1>0, <1>5

\* Shares of prices.
Shares(prices, ids) == {s \in [ids -> Nat] : \A i \in ids : s[i] <= prices[i]}

\* A cent more for an item that is not paid in full, if there is one.
LEMMA OneMoreGives ==
  ASSUME Priced, NEW list \in Listed, NEW prices, \A i \in list.items : prices[i] \in Nat,
         NEW shares \in [list.items -> Nat]
  PROVE  /\ OneMore(prices, list, shares) \in [list.items -> Nat]
         /\ \A i \in list.items : OneMore(prices, list, shares)[i] \in shares[i]..(shares[i] + 1)
         /\ shares \in Shares(prices, list.items) /\ Total(shares, list.items) < Total(prices, list.items) =>
              /\ OneMore(prices, list, shares) \in Shares(prices, list.items)
              /\ Total(OneMore(prices, list, shares), list.items) = Total(shares, list.items) + 1
<1> PICK ids : ids = list.items  OBVIOUS
<1> PICK more : more = OneMore(prices, list, shares)  OBVIOUS
<1> PICK room : room = {i \in ids : shares[i] < prices[i]}  OBVIOUS
<1>1. IsFiniteSet(ids)  BY ItemsAre
<1>2. CASE room = {}
  <2>1. more = shares  BY <1>2 DEF OneMore
  <2>2. ASSUME shares \in Shares(prices, ids), Total(shares, ids) < Total(prices, ids) PROVE FALSE
    <3>1. \A i \in ids : shares[i] = prices[i] /\ shares[i] \in Int  BY <1>2, <2>2 DEF Shares
    <3>2. Total(shares, ids) = Total(prices, ids) /\ Total(shares, ids) \in Int
      BY <1>1, <3>1, TotalSame, TotalIsInt
    <3> QED  BY <2>2, <3>2
  <2> QED  BY <2>1, <2>2
<1>3. CASE room # {}
  <2> PICK i : i = FirstOf(list, room)  OBVIOUS
  <2>1. i \in ids /\ shares[i] < prices[i]  BY <1>3, FirstIsIn
  <2>2. more = [shares EXCEPT ![i] = @ + 1]  BY <1>3 DEF OneMore
  <2>3. more \in [ids -> Nat] /\ more[i] = shares[i] + 1 /\ \A j \in ids \ {i} : more[j] = shares[j]
    BY <2>1, <2>2
  <2>4. \A j \in ids : more[j] \in shares[j]..(shares[j] + 1)  BY <2>3
  <2>5. shares \in Shares(prices, ids) => more \in Shares(prices, ids)  BY <2>1, <2>3 DEF Shares
  <2>6. Total(more, ids) = Total(shares, ids) - shares[i] + more[i] /\ Total(shares, ids) \in Int
    BY <1>1, <2>1, <2>3, TotalChanges, TotalIsInt
  <2>7. Total(more, ids) = Total(shares, ids) + 1  BY <2>1, <2>3, <2>6
  <2> QED  BY <2>3, <2>4, <2>5, <2>7
<1> QED  BY <1>2, <1>3

\* A cent less for an item that is paid at all, if there is one.
LEMMA OneLessTakes ==
  ASSUME Priced, NEW list \in Listed, NEW shares \in [list.items -> Nat]
  PROVE  /\ OneLess(list, shares) \in [list.items -> Nat]
         /\ \A i \in list.items : OneLess(list, shares)[i] \in (shares[i] - 1)..shares[i]
         /\ 0 < Total(shares, list.items) =>
              Total(OneLess(list, shares), list.items) = Total(shares, list.items) - 1
<1> PICK ids : ids = list.items  OBVIOUS
<1> PICK less : less = OneLess(list, shares)  OBVIOUS
<1> PICK some : some = {i \in ids : shares[i] > 0}  OBVIOUS
<1>1. IsFiniteSet(ids)  BY ItemsAre
<1>2. CASE some = {}
  <2>1. less = shares  BY <1>2 DEF OneLess
  <2>2. \A i \in ids : shares[i] = 0  BY <1>2
  <2>3. Total(shares, ids) = Cardinality(ids) * 0 /\ Cardinality(ids) \in Nat
    BY <1>1, <2>2, TotalOfEqual, FS_CardinalityType
  <2> QED  BY <2>1, <2>2, <2>3
<1>3. CASE some # {}
  <2> PICK i : i = FirstOf(list, some)  OBVIOUS
  <2>1. i \in ids /\ shares[i] > 0  BY <1>3, FirstIsIn
  <2>2. less = [shares EXCEPT ![i] = @ - 1]  BY <1>3 DEF OneLess
  <2>3. less \in [ids -> Nat] /\ less[i] = shares[i] - 1 /\ \A j \in ids \ {i} : less[j] = shares[j]
    BY <2>1, <2>2
  <2>4. \A j \in ids : less[j] \in (shares[j] - 1)..shares[j]  BY <2>3
  <2>5. Total(less, ids) = Total(shares, ids) - shares[i] + less[i] /\ Total(shares, ids) \in Int
    BY <1>1, <2>1, <2>3, TotalChanges, TotalIsInt
  <2>6. Total(less, ids) = Total(shares, ids) - 1  BY <2>1, <2>3, <2>5
  <2> QED  BY <2>3, <2>4, <2>6
<1> QED  BY <1>2, <1>3

MoreSteps(prices, list, shares, n) ==
  CHOOSE f : f = [k \in 0..n |-> IF k = 0 THEN shares ELSE OneMore(prices, list, f[k - 1])]
LessSteps(list, shares, n) ==
  CHOOSE f : f = [k \in 0..n |-> IF k = 0 THEN shares ELSE OneLess(list, f[k - 1])]

\* Corrected is one of the two loops.
LEMMA CorrectedBySteps ==
  ASSUME NEW prices, NEW list, NEW shares, NEW amount, NEW sum, sum = Total(shares, list.items)
  PROVE  Corrected(prices, list, shares, amount) =
           IF sum < amount THEN MoreSteps(prices, list, shares, amount - sum)[amount - sum]
           ELSE LessSteps(list, shares, sum - amount)[sum - amount]
BY DEF Corrected, MoreSteps, LessSteps

\* The loop that hands out cents.
LEMMA MoreStepsAre ==
  ASSUME Priced, NEW list \in Listed, NEW prices, \A i \in list.items : prices[i] \in Nat,
         NEW shares \in [list.items -> Nat], NEW n \in Nat
  PROVE  /\ MoreSteps(prices, list, shares, n)[0] = shares
         /\ \A k \in 1..n : MoreSteps(prices, list, shares, n)[k]
                              = OneMore(prices, list, MoreSteps(prices, list, shares, n)[k - 1])
<1>01. PICK D : D = [list.items -> Nat]  OBVIOUS
<1>02. PICK next : next = [ky \in (1..n) \X D |-> OneMore(prices, list, ky[2])]  OBVIOUS
<1>1. \A k \in 1..n : \A y \in D : next[<<k, y>>] = OneMore(prices, list, y)  BY <1>02
<1>2. \A y \in D : OneMore(prices, list, y) \in D  BY <1>01, OneMoreGives
<1>3. \A k \in 1..n : \A y \in D : next[<<k, y>>] \in D  BY <1>1, <1>2
<1>4. shares \in D  BY <1>01
<1>0. Stepping(n, D, next)  BY <1>3 DEF Stepping
<1>00. StepsOf(n, D, shares, next) # {}  BY <1>0, <1>4, StepsExist
<1>5. PICK f \in [0..n -> D] : f[0] = shares /\ \A k \in 1..n : f[k] = next[<<k, f[k - 1]>>]
  BY <1>00 DEF StepsOf
<1>6. ASSUME NEW k \in 1..n PROVE f[k] = OneMore(prices, list, f[k - 1])
  <2>1. k - 1 \in 0..n  OBVIOUS
  <2>2. f[k - 1] \in D  BY <1>5, <2>1
  <2> QED  BY <1>1, <1>5, <2>2
<1>7. f = [k \in 0..n |-> IF k = 0 THEN shares ELSE OneMore(prices, list, f[k - 1])]
  <2>1. \A k \in 0..n : f[k] = IF k = 0 THEN shares ELSE OneMore(prices, list, f[k - 1])
    <3> SUFFICES ASSUME NEW k \in 0..n PROVE f[k] = IF k = 0 THEN shares ELSE OneMore(prices, list, f[k - 1])
      OBVIOUS
    <3>1. k = 0 \/ k \in 1..n  OBVIOUS
    <3>2. k \in 1..n => k # 0  OBVIOUS
    <3> QED  BY <1>5, <1>6, <3>1, <3>2
  <2>2. f = [k \in 0..n |-> f[k]]  BY <1>5
  <2> QED  BY <2>1, <2>2
<1> PICK g : g = MoreSteps(prices, list, shares, n)  OBVIOUS
<1>8. g = [k \in 0..n |-> IF k = 0 THEN shares ELSE OneMore(prices, list, g[k - 1])]  BY <1>7 DEF MoreSteps
<1>9. \A k \in 0..n : g[k] = IF k = 0 THEN shares ELSE OneMore(prices, list, g[k - 1])  BY <1>8
<1>10. 0 \in 0..n /\ \A k \in 1..n : k \in 0..n /\ k # 0  OBVIOUS
<1> QED  BY <1>9, <1>10

\* The loop that takes back cents.
LEMMA LessStepsAre ==
  ASSUME Priced, NEW list \in Listed, NEW shares \in [list.items -> Nat], NEW n \in Nat
  PROVE  /\ LessSteps(list, shares, n)[0] = shares
         /\ \A k \in 1..n : LessSteps(list, shares, n)[k] = OneLess(list, LessSteps(list, shares, n)[k - 1])
<1>01. PICK D : D = [list.items -> Nat]  OBVIOUS
<1>02. PICK next : next = [ky \in (1..n) \X D |-> OneLess(list, ky[2])]  OBVIOUS
<1>1. \A k \in 1..n : \A y \in D : next[<<k, y>>] = OneLess(list, y)  BY <1>02
<1>2. \A y \in D : OneLess(list, y) \in D  BY <1>01, OneLessTakes
<1>3. \A k \in 1..n : \A y \in D : next[<<k, y>>] \in D  BY <1>1, <1>2
<1>4. shares \in D  BY <1>01
<1>0. Stepping(n, D, next)  BY <1>3 DEF Stepping
<1>00. StepsOf(n, D, shares, next) # {}  BY <1>0, <1>4, StepsExist
<1>5. PICK f \in [0..n -> D] : f[0] = shares /\ \A k \in 1..n : f[k] = next[<<k, f[k - 1]>>]
  BY <1>00 DEF StepsOf
<1>6. ASSUME NEW k \in 1..n PROVE f[k] = OneLess(list, f[k - 1])
  <2>1. k - 1 \in 0..n  OBVIOUS
  <2>2. f[k - 1] \in D  BY <1>5, <2>1
  <2> QED  BY <1>1, <1>5, <2>2
<1>7. f = [k \in 0..n |-> IF k = 0 THEN shares ELSE OneLess(list, f[k - 1])]
  <2>1. \A k \in 0..n : f[k] = IF k = 0 THEN shares ELSE OneLess(list, f[k - 1])
    <3> SUFFICES ASSUME NEW k \in 0..n PROVE f[k] = IF k = 0 THEN shares ELSE OneLess(list, f[k - 1])
      OBVIOUS
    <3>1. k = 0 \/ k \in 1..n  OBVIOUS
    <3>2. k \in 1..n => k # 0  OBVIOUS
    <3> QED  BY <1>5, <1>6, <3>1, <3>2
  <2>2. f = [k \in 0..n |-> f[k]]  BY <1>5
  <2> QED  BY <2>1, <2>2
<1> PICK g : g = LessSteps(list, shares, n)  OBVIOUS
<1>8. g = [k \in 0..n |-> IF k = 0 THEN shares ELSE OneLess(list, g[k - 1])]  BY <1>7 DEF LessSteps
<1>9. \A k \in 0..n : g[k] = IF k = 0 THEN shares ELSE OneLess(list, g[k - 1])  BY <1>8
<1>10. 0 \in 0..n /\ \A k \in 1..n : k \in 0..n /\ k # 0  OBVIOUS
<1> QED  BY <1>9, <1>10

\* Whatever the rounding did, the shares end up adding up to the amount, none above its price,
\* and none further from where it was than the amount was from their sum.
LEMMA CorrectedGives ==
  ASSUME Priced, NEW list \in Listed, NEW prices, \A i \in list.items : prices[i] \in Nat,
         NEW shares \in Shares(prices, list.items),
         NEW amount \in Nat, amount <= Total(prices, list.items),
         NEW d \in Nat, amount - Total(shares, list.items) \in (-d)..d
  PROVE  /\ Corrected(prices, list, shares, amount) \in Shares(prices, list.items)
         /\ Total(Corrected(prices, list, shares, amount), list.items) = amount
         /\ \A i \in list.items : Corrected(prices, list, shares, amount)[i] - shares[i] \in (-d)..d
<1> PICK ids : ids = list.items  OBVIOUS
<1> PICK result : result = Corrected(prices, list, shares, amount)  OBVIOUS
<1>1. IsFiniteSet(ids)  BY ItemsAre
<1>2. shares \in [list.items -> Nat] /\ \A i \in ids : shares[i] \in Nat /\ shares[i] <= prices[i]  BY DEF Shares
<1> PICK sum \in Int : sum = Total(shares, ids)  BY <1>1, <1>2, TotalIsInt
<1> PICK total \in Int : total = Total(prices, ids)  BY <1>1, TotalIsInt
<1>3. CASE sum < amount
  <2> PICK n \in Nat : n = amount - sum  BY <1>3
  <2>01. PICK f : f = MoreSteps(prices, list, shares, n)  OBVIOUS
  <2>1. f[0] = shares /\ \A k \in 1..n : f[k] = OneMore(prices, list, f[k - 1])
    <3>1. /\ MoreSteps(prices, list, shares, n)[0] = shares
          /\ \A k \in 1..n : MoreSteps(prices, list, shares, n)[k]
                               = OneMore(prices, list, MoreSteps(prices, list, shares, n)[k - 1])
      BY <1>2, MoreStepsAre
    <3> QED  BY <2>01, <3>1
  <2> DEFINE Kept(k) == /\ f[k] \in Shares(prices, list.items)
                        /\ Total(f[k], ids) = sum + k
                        /\ \A i \in ids : f[k][i] - shares[i] \in 0..k
  <2> PICK G : G = {k \in 0..n : Kept(k)}  OBVIOUS
  <2>2. 0 \in G
    <3>1. \A i \in ids : shares[i] - shares[i] \in 0..0  BY <1>2
    <3> QED  BY <2>1, <3>1
  <2>3. ASSUME NEW k \in 0..(n - 1), k \in G PROVE k + 1 \in G
    <3> PICK s : s = f[k]  OBVIOUS
    <3> PICK t : t = OneMore(prices, list, s)  OBVIOUS
    <3>1. s \in Shares(prices, list.items) /\ Total(s, ids) = sum + k /\ \A i \in ids : s[i] - shares[i] \in 0..k
      BY <2>3
    <3>2. k + 1 \in 1..n /\ k + 1 \in 0..n /\ (k + 1) - 1 = k  OBVIOUS
    <3>3. f[k + 1] = t  BY <2>1, <3>2
    <3>4. sum + k < total  OBVIOUS
    <3>5. s \in [list.items -> Nat]  BY <3>1 DEF Shares
    <3>6. t \in Shares(prices, list.items) /\ Total(t, ids) = (sum + k) + 1
          /\ \A i \in ids : t[i] \in s[i]..(s[i] + 1)
      BY <3>1, <3>4, <3>5, OneMoreGives
    <3>7. (sum + k) + 1 = sum + (k + 1)  OBVIOUS
    <3>8. \A i \in ids : t[i] - shares[i] \in 0..(k + 1)  BY <1>2, <3>1, <3>5, <3>6
    <3> QED  BY <3>2, <3>3, <3>6, <3>7, <3>8
  <2>4. \A k \in 0..n : k \in G  BY <2>2, <2>3, StepByStep
  <2>5. Kept(n)  BY <2>4
  <2>6. result = f[n]  BY <1>3, <2>01, CorrectedBySteps
  <2>7. sum + n = amount /\ n <= d  OBVIOUS
  <2> QED  BY <2>5, <2>6, <2>7
<1>4. CASE ~ sum < amount
  <2> PICK n \in Nat : n = sum - amount  BY <1>4
  <2>01. PICK f : f = LessSteps(list, shares, n)  OBVIOUS
  <2>1. f[0] = shares /\ \A k \in 1..n : f[k] = OneLess(list, f[k - 1])
    <3>1. /\ LessSteps(list, shares, n)[0] = shares
          /\ \A k \in 1..n : LessSteps(list, shares, n)[k]
                               = OneLess(list, LessSteps(list, shares, n)[k - 1])
      BY <1>2, LessStepsAre
    <3> QED  BY <2>01, <3>1
  <2> DEFINE Kept(k) == /\ f[k] \in [list.items -> Nat]
                        /\ Total(f[k], ids) = sum - k
                        /\ \A i \in ids : f[k][i] - shares[i] \in (-k)..0
  <2> PICK G : G = {k \in 0..n : Kept(k)}  OBVIOUS
  <2>2. 0 \in G
    <3>1. \A i \in ids : shares[i] - shares[i] \in (-0)..0  BY <1>2
    <3> QED  BY <1>2, <2>1, <3>1
  <2>3. ASSUME NEW k \in 0..(n - 1), k \in G PROVE k + 1 \in G
    <3> PICK s : s = f[k]  OBVIOUS
    <3> PICK t : t = OneLess(list, s)  OBVIOUS
    <3>1. s \in [list.items -> Nat] /\ Total(s, ids) = sum - k /\ \A i \in ids : s[i] - shares[i] \in (-k)..0
      BY <2>3
    <3>2. k + 1 \in 1..n /\ k + 1 \in 0..n /\ (k + 1) - 1 = k  OBVIOUS
    <3>3. f[k + 1] = t  BY <2>1, <3>2
    <3>4. 0 < sum - k  OBVIOUS
    <3>6. t \in [list.items -> Nat] /\ Total(t, ids) = (sum - k) - 1
          /\ \A i \in ids : t[i] \in (s[i] - 1)..s[i]
      BY <3>1, <3>4, OneLessTakes
    <3>7. (sum - k) - 1 = sum - (k + 1)  OBVIOUS
    <3>8. \A i \in ids : t[i] - shares[i] \in (-(k + 1))..0  BY <1>2, <3>1, <3>6
    <3> QED  BY <3>2, <3>3, <3>6, <3>7, <3>8
  <2>4. \A k \in 0..n : k \in G  BY <2>2, <2>3, StepByStep
  <2>5. Kept(n)  BY <2>4
  <2>6. result = f[n]  BY <1>4, <2>01, CorrectedBySteps
  <2>7. sum - n = amount /\ n <= d  OBVIOUS
  <2>8. \A i \in ids : f[n][i] <= prices[i]  BY <1>2, <2>5
  <2>9. f[n] \in Shares(prices, list.items)  BY <2>5, <2>8 DEF Shares
  <2> QED  BY <2>5, <2>6, <2>7, <2>9
<1> QED  BY <1>3, <1>4

\* A positive factor cancels.
LEMMA CancelTimes ==
  ASSUME NEW a \in Int, NEW b \in Int, NEW c \in Nat \ {0}, a * c <= b * c
  PROVE  a <= b
<1> SUFFICES ASSUME b + 1 <= a PROVE FALSE  OBVIOUS
<1>1. (b + 1) * c <= a * c  BY TimesGrows
<1>2. (b + 1) * c = b * c + c /\ b * c \in Int /\ a * c \in Int  OBVIOUS
<1> QED  BY <1>1, <1>2

\* The rounded shares are off by at most half a cent for each item.
LEMMA RoundingErrors ==
  ASSUME NEW ids, IsFiniteSet(ids), NEW p, \A i \in ids : p[i] \in Nat,
         NEW total \in Nat \ {0}, total = Total(p, ids), NEW given \in Nat, given <= total,
         NEW s, s = [i \in ids |-> Rounded(p[i] * given, total)],
         NEW n \in Nat, n = Cardinality(ids)
  PROVE  /\ s \in Shares(p, ids)
         /\ \A i \in ids : 2 * (s[i] * total) - 2 * (p[i] * given) \in (-total)..total
         /\ 2 * given - 2 * Total(s, ids) \in (-n)..n
<1>1. ASSUME NEW i \in ids
      PROVE  /\ s[i] \in Nat /\ s[i] <= p[i] /\ p[i] * given \in Nat /\ s[i] * total \in Int
             /\ 2 * (s[i] * total) - 2 * (p[i] * given) \in (-total)..total
  <2> PICK q \in Nat : q = p[i]  OBVIOUS
  <2> PICK r : r = Rounded(q * given, total)  OBVIOUS
  <2>1. q * given \in Nat  OBVIOUS
  <2>2. given * q <= total * q  BY TimesGrows
  <2>3. given * q = q * given /\ total * q = q * total  OBVIOUS
  <2>4. r \in Nat /\ r <= q  BY <2>1, <2>2, <2>3, RoundedWithin
  <2>5. 2 * (r * total) <= 2 * (q * given) + total /\ 2 * (q * given) - total <= 2 * (r * total)
    BY <2>1, RoundedNearby
  <2>6. r * total \in Int  BY <2>4
  <2>7. s[i] = r  OBVIOUS
  <2> QED  BY <2>1, <2>4, <2>5, <2>6, <2>7
<1>2. s \in Shares(p, ids)  BY <1>1 DEF Shares
<1> PICK sum \in Int : sum = Total(s, ids)  BY <1>1, TotalIsInt
<1>3. PICK twice : twice = [i \in ids |-> s[i] * (2 * total)]  OBVIOUS
<1>4. PICK share : share = [i \in ids |-> p[i] * (2 * given)]  OBVIOUS
<1>5. PICK most : most = [i \in ids |-> share[i] + total]  OBVIOUS
<1>6. PICK least : least = [i \in ids |-> share[i] - total]  OBVIOUS
<1>7. PICK same : same = [i \in ids |-> total]  OBVIOUS
<1>8. PICK minus : minus = [i \in ids |-> - total]  OBVIOUS
<1>9. ASSUME NEW i \in ids
      PROVE  /\ twice[i] \in Int /\ share[i] \in Int /\ most[i] \in Int /\ least[i] \in Int
             /\ twice[i] <= most[i] /\ least[i] <= twice[i]
  <2>1. s[i] \in Int /\ p[i] \in Int  BY <1>1
  <2>2. twice[i] = 2 * (s[i] * total) /\ share[i] = 2 * (p[i] * given)
    <3>1. s[i] * (2 * total) = 2 * (s[i] * total)  BY <2>1
    <3>2. p[i] * (2 * given) = 2 * (p[i] * given)  BY <2>1
    <3> QED  BY <1>3, <1>4, <3>1, <3>2
  <2>3. most[i] = share[i] + total /\ least[i] = share[i] - total  BY <1>5, <1>6
  <2> QED  BY <1>1, <2>2, <2>3
<1>10. Total(twice, ids) = sum * (2 * total)  BY <1>1, <1>3, TotalScaled
<1>11. Total(share, ids) = total * (2 * given)  BY <1>4, TotalScaled
<1>12. Total(same, ids) = n * total /\ Total(minus, ids) = n * (- total)  BY <1>7, <1>8, TotalOfEqual
<1>13. Total(most, ids) = total * (2 * given) + n * total
  BY <1>5, <1>7, <1>9, <1>11, <1>12, TotalOfSums
<1>14. Total(least, ids) = total * (2 * given) + n * (- total)
  <2>1. \A i \in ids : share[i] \in Int /\ minus[i] \in Int /\ least[i] = share[i] + minus[i]
    BY <1>6, <1>8, <1>9
  <2> QED  BY <1>11, <1>12, <2>1, TotalOfSums
<1>15. sum * (2 * total) <= total * (2 * given) + n * total
  BY <1>9, <1>10, <1>13, TotalsGrow
<1>16. total * (2 * given) + n * (- total) <= sum * (2 * total)
  BY <1>9, <1>10, <1>14, TotalsGrow
<1>17. 2 * sum <= 2 * given + n
  <2>1. (2 * sum) * total = sum * (2 * total)  OBVIOUS
  <2>2. (2 * given + n) * total = total * (2 * given) + n * total  OBVIOUS
  <2>3. 2 * sum \in Int /\ 2 * given + n \in Int  OBVIOUS
  <2> QED  BY <1>15, <2>1, <2>2, <2>3, CancelTimes
<1>18. 2 * given - n <= 2 * sum
  <2>1. (2 * sum) * total = sum * (2 * total)  OBVIOUS
  <2>2. (2 * given - n) * total = total * (2 * given) + n * (- total)  OBVIOUS
  <2>3. 2 * sum \in Int /\ 2 * given - n \in Int  OBVIOUS
  <2> QED  BY <1>16, <2>1, <2>2, <2>3, CancelTimes
<1> QED  BY <1>1, <1>2, <1>17, <1>18

\* A share is in proportion to the price to within a cent per item.
Proportional(amount, prices, ids, shares) ==
  LET total == Total(prices, ids)
      slack == total * Cardinality(ids)
  IN  \A i \in ids : shares[i] * total - prices[i] * Smaller(amount, total) \in (-slack)..slack

\* distribute(), for every amount and any prices: the shares add up to the amount, or to the
\* prices if those are less; no share is negative or above its price; and each is in proportion
\* to its price to within a cent per item, however the halves were rounded.
THEOREM DistributeGives ==
  ASSUME Priced, NEW list \in Listed, NEW prices, \A i \in list.items : prices[i] \in Nat,
         NEW amount \in Nat
  PROVE  /\ Distribute(amount, prices, list) \in Shares(prices, list.items)
         /\ Total(Distribute(amount, prices, list), list.items)
              = Smaller(amount, Total(prices, list.items))
         /\ Proportional(amount, prices, list.items, Distribute(amount, prices, list))
<1> PICK ids : ids = list.items  OBVIOUS
<1> PICK result : result = Distribute(amount, prices, list)  OBVIOUS
<1>1. IsFiniteSet(ids)  BY ItemsAre
<1> PICK n \in Nat : n = Cardinality(ids)  BY <1>1, FS_CardinalityType
<1>2. Total(prices, ids) \in Nat
  <2>1. PICK none : none = [i \in ids |-> 0]  OBVIOUS
  <2>2. Total(none, ids) = n * 0  BY <1>1, <2>1, TotalOfEqual
  <2>3. Total(none, ids) <= Total(prices, ids)  BY <1>1, <2>1, TotalsGrow
  <2>4. Total(prices, ids) \in Int  BY <1>1, TotalIsInt
  <2> QED  BY <2>2, <2>3, <2>4
<1> PICK total \in Nat : total = Total(prices, ids)  BY <1>2
<1> PICK given \in Nat : given = Smaller(total, amount)  BY DEF Smaller
<1>3. given = Smaller(amount, total) /\ given <= total /\ given <= amount  BY DEF Smaller
<1>4. CASE total = 0 \/ amount = 0
  <2>1. result = [i \in ids |-> 0] /\ given = 0  BY <1>4 DEF Distribute, Smaller
  <2>2. result \in Shares(prices, ids)  BY <2>1 DEF Shares
  <2>3. Total(result, ids) = n * 0  BY <1>1, <2>1, TotalOfEqual
  <2>4. total * n \in Nat  OBVIOUS
  <2>5. ASSUME NEW i \in ids PROVE result[i] * total - prices[i] * given \in (-(total * n))..(total * n)
    <3>1. result[i] * total = 0 /\ prices[i] * given = 0  BY <2>1
    <3> QED  BY <2>4, <3>1
  <2> QED  BY <1>3, <2>1, <2>2, <2>3, <2>5 DEF Proportional
<1>5. CASE ~(total = 0 \/ amount = 0)
  <2> PICK s : s = [i \in ids |-> Rounded(prices[i] * given, total)]  OBVIOUS
  <2>1. /\ s \in Shares(prices, ids)
        /\ \A i \in ids : 2 * (s[i] * total) - 2 * (prices[i] * given) \in (-total)..total
        /\ 2 * given - 2 * Total(s, ids) \in (-n)..n
    BY <1>1, <1>3, <1>5, RoundingErrors
  <2>2. \A i \in ids : s[i] \in Int  BY <2>1 DEF Shares
  <2> PICK sum \in Int : sum = Total(s, ids)  BY <1>1, <2>2, TotalIsInt
  <2> PICK d \in Nat : (d = given - sum \/ d = sum - given) /\ given - sum \in (-d)..d
    <3>1. CASE sum <= given
      <4>1. given - sum \in Nat  BY <3>1
      <4> QED  BY <4>1
    <3>2. CASE given <= sum
      <4>1. sum - given \in Nat  BY <3>2
      <4> QED  BY <4>1
    <3> QED  BY <3>1, <3>2
  <2>3. 2 * d <= n  BY <2>1
  <2>4. result = Corrected(prices, list, s, given)  BY <1>5 DEF Distribute
  <2>5. /\ result \in Shares(prices, ids)
        /\ Total(result, ids) = given
        /\ \A i \in ids : result[i] - s[i] \in (-d)..d
    BY <1>3, <2>1, <2>4, CorrectedGives
  <2>6. n # 0
    <3>1. n = 0 => ids = {}  BY <1>1, FS_EmptySet
    <3>2. ids = {} => total = 0  BY TotalOfNone
    <3> QED  BY <1>5, <3>1, <3>2
  <2>7. ASSUME NEW i \in ids PROVE result[i] * total - prices[i] * given \in (-(total * n))..(total * n)
    <3> PICK r \in Int : r = result[i]  BY <2>5 DEF Shares
    <3> PICK t \in Int : t = s[i]  BY <2>2
    <3> PICK pg \in Int : pg = prices[i] * given  OBVIOUS
    <3>0. r - t \in (-d)..d  BY <2>5
    <3>1. r <= t + d /\ t - d <= r  BY <3>0
    <3>2. r * total <= (t + d) * total /\ (t - d) * total <= r * total  BY <3>1, TimesGrows
    <3>3. (t + d) * total = t * total + d * total /\ (t - d) * total = t * total - d * total
      OBVIOUS
    <3>4. 2 * (t * total) - 2 * pg \in (-total)..total  BY <2>1
    <3>5. (2 * d) * total <= n * total  BY <2>3, TimesGrows
    <3>6. (2 * d) * total = 2 * (d * total) /\ n * total = total * n  OBVIOUS
    <3>7. total <= n * total
      <4>1. 1 \in Int /\ n \in Int /\ 1 <= n  BY <2>6
      <4>2. 1 * total <= n * total  BY <4>1, TimesGrows
      <4> QED  BY <4>2
    <3>8. d * total \in Int /\ t * total \in Int /\ r * total \in Int /\ n * total \in Int  OBVIOUS
    <3>9. r * total - pg <= n * total /\ -(n * total) <= r * total - pg
      BY <3>2, <3>3, <3>4, <3>5, <3>6, <3>7, <3>8
    <3> QED  BY <3>6, <3>8, <3>9
  <2> QED  BY <1>3, <2>5, <2>7 DEF Proportional
<1> QED  BY <1>4, <1>5

(***************************************************************************)
(* What promotions take off.                                               *)
(***************************************************************************)
\* There is one way to divide with remainder.
LEMMA QuotientUnique ==
  ASSUME NEW a \in Nat, NEW b \in Nat \ {0}, NEW q \in Nat, NEW r \in Nat, r < b, a = b * q + r
  PROVE  a \div b = q /\ a % b = r
<1> PICK u \in Nat : u = a \div b  BY QuotientIs
<1> PICK v \in Nat : v = a % b  BY QuotientIs
<1>1. a = b * u + v /\ v < b  BY QuotientIs
<1>2. b * u = u * b /\ b * q = q * b /\ u * b \in Int /\ q * b \in Int  OBVIOUS
<1>3. u = q
  <2>1. CASE u < q
    <3>1. (u + 1) * b <= q * b  BY <2>1, TimesGrows
    <3>2. (u + 1) * b = u * b + b  OBVIOUS
    <3> QED  BY <1>1, <1>2, <3>1, <3>2
  <2>2. CASE q < u
    <3>1. (q + 1) * b <= u * b  BY <2>2, TimesGrows
    <3>2. (q + 1) * b = q * b + b  OBVIOUS
    <3> QED  BY <1>1, <1>2, <3>1, <3>2
  <2> QED  BY <2>1, <2>2
<1> QED  BY <1>1, <1>2, <1>3

\* Quotient and remainder of the next number.
LEMMA NextQuotient ==
  ASSUME NEW a \in Nat, NEW b \in Nat \ {0}
  PROVE  /\ (a % b) + 1 < b => (a + 1) \div b = a \div b /\ (a + 1) % b = (a % b) + 1
         /\ (a % b) + 1 = b => (a + 1) \div b = (a \div b) + 1 /\ (a + 1) % b = 0
<1> PICK q \in Nat : q = a \div b  BY QuotientIs
<1> PICK r \in Nat : r = a % b  BY QuotientIs
<1>1. a = b * q + r /\ r < b /\ b * q \in Nat  BY QuotientIs
<1>2. ASSUME r + 1 < b PROVE (a + 1) \div b = q /\ (a + 1) % b = r + 1
  <2>1. a + 1 = b * q + (r + 1) /\ a + 1 \in Nat /\ r + 1 \in Nat  BY <1>1
  <2> QED  BY <1>2, <2>1, QuotientUnique
<1>3. ASSUME r + 1 = b PROVE (a + 1) \div b = q + 1 /\ (a + 1) % b = 0
  <2>1. b * (q + 1) = b * q + b  OBVIOUS
  <2>2. a + 1 = b * (q + 1) + 0 /\ a + 1 \in Nat /\ q + 1 \in Nat /\ 0 \in Nat /\ 0 < b  BY <1>1, <1>3, <2>1
  <2> QED  BY <2>2, QuotientUnique
<1> QED  BY <1>2, <1>3

\* How many of count tickets are paid, when of every n the first m are.
LEMMA PaidCounts ==
  ASSUME NEW n \in Nat, NEW m \in 1..(n - 1), NEW count \in Nat
  PROVE  PaidOf(count, n, m) = (count \div n) * m + Smaller(count % n, m)
<1>1. n \in Nat \ {0} /\ m \in Nat  OBVIOUS
<1> DEFINE Paid(k) == (k \div n) * m + Smaller(k % n, m)
<1>2. PICK G : G = {k \in 0..count : PaidOf(k, n, m) = Paid(k)}  OBVIOUS
<1>3. 0 \in G
  <2>1. 0 = n * 0 + 0  BY <1>1
  <2>2. 0 \div n = 0 /\ 0 % n = 0  BY <1>1, <2>1, QuotientUnique
  <2>3. Paid(0) = 0  BY <1>1, <2>2 DEF Smaller
  <2>4. {k \in 0..(0 - 1) : k % n < m} = {}  OBVIOUS
  <2>5. PaidOf(0, n, m) = 0  BY <2>4, FS_EmptySet DEF PaidOf
  <2> QED  BY <1>2, <2>3, <2>5
<1>4. ASSUME NEW k \in 0..(count - 1), k \in G PROVE k + 1 \in G
  <2>1. k \in Nat /\ PaidOf(k, n, m) = Paid(k)  BY <1>2, <1>4
  <2> PICK q \in Nat : q = k \div n  BY <1>1, <2>1, QuotientIs
  <2> PICK r \in Nat : r = k % n /\ r < n  BY <1>1, <2>1, QuotientIs
  <2>2. PICK T : T = {j \in 0..(k - 1) : j % n < m}  OBVIOUS
  <2>3. PICK U : U = {j \in 0..((k + 1) - 1) : j % n < m}  OBVIOUS
  <2>4. IsFiniteSet(T) /\ Cardinality(T) \in Nat
    <3>1. IsFiniteSet(0..(k - 1))  BY <2>1, FS_Interval
    <3> QED  BY <2>2, <3>1, FS_Subset, FS_CardinalityType
  <2>5. k \notin T  BY <2>2, <2>1
  <2>6. U = IF r < m THEN T \cup {k} ELSE T
    <3>1. 0..((k + 1) - 1) = (0..(k - 1)) \cup {k}  BY <2>1
    <3>2. k % n = r  OBVIOUS
    <3> QED  BY <2>2, <2>3, <3>1, <3>2
  <2>7. Cardinality(U) = IF r < m THEN Cardinality(T) + 1 ELSE Cardinality(T)
    BY <2>4, <2>5, <2>6, FS_AddElement
  <2>8. Cardinality(T) = q * m + Smaller(r, m)  BY <2>1, <2>2 DEF PaidOf
  <2>9. q * m \in Nat /\ (q + 1) * m = q * m + m  BY <1>1
  <2>10. Paid(k + 1) = Cardinality(U)
    <3>1. CASE r + 1 < n
      <4>1. (k + 1) \div n = q /\ (k + 1) % n = r + 1  BY <1>1, <2>1, <3>1, NextQuotient
      <4>2. Paid(k + 1) = q * m + Smaller(r + 1, m)  BY <4>1
      <4>3. Smaller(r + 1, m) = IF r < m THEN Smaller(r, m) + 1 ELSE Smaller(r, m)
        BY <1>1 DEF Smaller
      <4>4. Smaller(r, m) \in Nat  BY <1>1 DEF Smaller
      <4> QED  BY <2>7, <2>8, <2>9, <4>2, <4>3, <4>4
    <3>2. CASE ~ r + 1 < n
      <4>0. r + 1 = n  BY <3>2
      <4>1. (k + 1) \div n = q + 1 /\ (k + 1) % n = 0  BY <1>1, <2>1, <4>0, NextQuotient
      <4>2. Paid(k + 1) = (q + 1) * m + 0  BY <1>1, <4>1 DEF Smaller
      <4>3. ~ r < m /\ Smaller(r, m) = m  BY <1>1, <4>0 DEF Smaller
      <4> QED  BY <1>1, <2>7, <2>8, <2>9, <4>2, <4>3
    <3> QED  BY <3>1, <3>2
  <2>11. PaidOf(k + 1, n, m) = Cardinality(U)  BY <2>3 DEF PaidOf
  <2>12. k + 1 \in 0..count  OBVIOUS
  <2> QED  BY <1>2, <2>10, <2>11, <2>12
<1>5. \A k \in 0..count : k \in G  BY <1>3, <1>4, StepByStep
<1>6. count \in 0..count  OBVIOUS
<1> QED  BY <1>2, <1>5, <1>6

\* The discount qualifier n4m, for all n > m > 0 and every number of tickets: the free tickets
\* are those that are left when tickets are bought one by one and of every n the first m are paid.
THEOREM FreeIsWhatIsNotPaid ==
  ASSUME NEW n \in Nat, NEW m \in 1..(n - 1), NEW count \in Nat
  PROVE  /\ FreeOutOf(count, n, m) \in 0..count
         /\ FreeOutOf(count, n, m) = count - PaidOf(count, n, m)
<1>1. n \in Nat \ {0} /\ m \in Nat  OBVIOUS
<1> PICK q \in Nat : q = count \div n  BY <1>1, QuotientIs
<1> PICK r \in Nat : r = count % n /\ r < n /\ count = n * q + r  BY <1>1, QuotientIs
<1>2. PaidOf(count, n, m) = q * m + Smaller(r, m)  BY PaidCounts
<1>3. FreeOutOf(count, n, m) = q * (n - m) + (IF r > m THEN r - m ELSE 0)  BY DEF FreeOutOf
<1>4. q * (n - m) = n * q - q * m /\ q * m \in Nat /\ n * q \in Nat  BY <1>1
<1>5. q * (n - m) \in Nat
  <2>1. n - m \in Nat  BY <1>1
  <2> QED  BY <2>1
<1> QED  BY <1>1, <1>2, <1>3, <1>4, <1>5 DEF Smaller

\* findMatchingTier, for every schedule and amount: the tier below the first that is too high is
\* the highest that was reached.
THEOREM TiersAreBest ==
  ASSUME NEW V, NEW tiers, IsSchedule(tiers, V), NEW amount \in Int, 0 \in V
  PROVE  FindMatchingTier(amount, tiers) = BestTier(amount, tiers) /\ BestTier(amount, tiers) \in V
<1>1. /\ tiers \in Seq(Nat \X V) /\ tiers # <<>>
      /\ \A i, j \in DOMAIN tiers : i < j => tiers[i][1] < tiers[j][1]
  BY DEF IsSchedule
<1> PICK n \in Nat : n = Len(tiers) /\ n # 0 /\ DOMAIN tiers = 1..n  BY <1>1
<1>2. \A i \in 1..n : tiers[i][1] \in Nat /\ tiers[i][2] \in V
  <2>1. \A i \in 1..n : tiers[i] \in Nat \X V  BY <1>1
  <2> QED  BY <2>1
<1> PICK first : first = [i \in 1..n |-> tiers[i][1]]  OBVIOUS
<1>3. \A i \in 1..n : first[i] \in Nat  BY <1>2
<1>4. \A i, j \in 1..n : i < j => first[i] < first[j]  BY <1>1
<1>01. PICK above : above = {i \in 1..n : first[i] > amount}  OBVIOUS
<1>02. PICK reached : reached = {i \in 1..n : first[i] <= amount}  OBVIOUS
<1>03. \A i \in 1..n : (i \in above <=> first[i] > amount) /\ (i \in reached <=> first[i] <= amount)
  BY <1>01, <1>02
<1>04. above \subseteq 1..n /\ reached \subseteq 1..n  BY <1>01, <1>02
<1>5. above = {i \in DOMAIN tiers : tiers[i][1] > amount} /\ reached = {i \in DOMAIN tiers : tiers[i][1] <= amount}
  BY <1>01, <1>02
<1>6. CASE above = {}
  <2>1. FindMatchingTier(amount, tiers) = tiers[n][2]  BY <1>5, <1>6 DEF FindMatchingTier
  <2>2. reached = 1..n
    <3>1. \A i \in 1..n : first[i] <= amount  BY <1>3, <1>03, <1>6
    <3> QED  BY <1>02, <3>1
  <2> PICK k : k = CHOOSE i \in reached : \A j \in reached : j <= i  OBVIOUS
  <2>3. n \in reached /\ \A j \in reached : j <= n  BY <2>2
  <2>4. k \in reached /\ \A j \in reached : j <= k  BY <2>3
  <2>5. k = n  BY <2>2, <2>3, <2>4
  <2>6. BestTier(amount, tiers) = tiers[n][2]  BY <1>5, <2>3, <2>5 DEF BestTier
  <2>7. n \in 1..n  OBVIOUS
  <2> QED  BY <1>2, <2>1, <2>6, <2>7
<1>7. CASE above # {} /\ 1 \in above
  <2>1. FindMatchingTier(amount, tiers) = 0  BY <1>5, <1>7 DEF FindMatchingTier
  <2>2. reached = {}
    <3> SUFFICES ASSUME NEW i \in 1..n, first[i] <= amount PROVE FALSE  BY <1>02
    <3>1. 1 \in 1..n /\ first[1] > amount /\ (i = 1 \/ 1 < i)  BY <1>7, <1>03, <1>04
    <3>2. first[1] <= first[i]  BY <1>3, <1>4, <3>1
    <3> QED  BY <1>3, <3>1, <3>2
  <2>3. BestTier(amount, tiers) = 0  BY <1>5, <2>2 DEF BestTier
  <2> QED  BY <2>1, <2>3
<1>8. CASE above # {} /\ 1 \notin above
  <2>01. PICK f : f = CHOOSE i \in above : \A j \in above : i <= j  OBVIOUS
  <2>1. \E i \in above : \A j \in above : i <= j
    <3>1. above \in SUBSET Nat  BY <1>04
    <3> QED  BY <1>8, <3>1, LeastOfNats
  <2>2. f \in above /\ \A j \in above : f <= j  BY <2>01, <2>1
  <2>3. f \in 1..n /\ f # 1 /\ f - 1 \in 1..n
    <3>1. f \in 1..n /\ f # 1  BY <1>8, <1>04, <2>2
    <3> QED  BY <3>1
  <2>4. FindMatchingTier(amount, tiers) = tiers[f - 1][2]  BY <1>5, <1>8, <2>01 DEF FindMatchingTier
  <2>5. f - 1 \in reached
    <3>1. f - 1 \notin above
      <4>1. ~ f <= f - 1  BY <2>3
      <4> QED  BY <2>2, <4>1
    <3> QED  BY <1>3, <1>03, <2>3, <3>1
  <2>6. ASSUME NEW j \in reached PROVE j <= f - 1
    <3>1. j \in 1..n /\ first[j] <= amount /\ first[f] > amount  BY <1>03, <1>04, <2>2
    <3>2. ~ f < j /\ f # j
      <4>1. first[f] \in Nat /\ first[j] \in Nat  BY <1>3, <2>3, <3>1
      <4>2. ~ first[f] < first[j] /\ first[f] # first[j]  BY <3>1, <4>1
      <4> QED  BY <1>4, <2>3, <3>1, <4>2
    <3>3. f \in Int /\ j \in Int  BY <2>3, <3>1
    <3> QED  BY <3>2, <3>3
  <2>02. PICK k : k = CHOOSE i \in reached : \A j \in reached : j <= i  OBVIOUS
  <2>7. k \in reached /\ \A j \in reached : j <= k  BY <2>02, <2>5, <2>6
  <2>8. k = f - 1
    <3>1. k <= f - 1 /\ f - 1 <= k  BY <2>5, <2>6, <2>7
    <3>2. k \in 1..n  BY <1>04, <2>7
    <3> QED  BY <2>3, <3>1, <3>2
  <2>9. BestTier(amount, tiers) = tiers[f - 1][2]  BY <1>5, <2>02, <2>5, <2>8 DEF BestTier
  <2> QED  BY <1>2, <2>3, <2>4, <2>9
<1> QED  BY <1>6, <1>7, <1>8

\* A criterion only leaves items out.
LEMMA QualifyNarrows ==
  ASSUME Priced, NEW list \in Listed, NEW c, IsCriterion(c)
  PROVE  /\ Qualify(c, list) \in Listed
         /\ Qualify(c, list).items \subseteq list.items
         /\ c.type = "n4m" => Cardinality(Qualify(c, list).items)
                                = FreeOutOf(Cardinality(list.items), c.n, c.m)
<1> PICK ids : ids = list.items  OBVIOUS
<1>1. IsFiniteSet(ids) /\ ids \subseteq Items  BY ItemsAre
<1> PICK count \in Nat : count = Cardinality(ids)  BY <1>1, FS_CardinalityType
<1>2. list = [items |-> ids, sorted |-> list.sorted] /\ list.sorted \in BOOLEAN  BY DEF Listed
<1> PICK cheap : cheap = Cheapest(list)  OBVIOUS
<1>3. cheap = [items |-> ids, sorted |-> TRUE]  BY <1>2 DEF Cheapest
<1>4. cheap \in Listed /\ cheap.items = ids  BY <1>1, <1>3 DEF Listed
<1>5. c.type \in {"only", "limitByPurchaseDate", "n4m", "freeTickets", "limitByMinTicketCount"}
  BY DEF IsCriterion
<1>6. ASSUME NEW some \in SUBSET ids PROVE [items |-> some, sorted |-> list.sorted] \in Listed
  BY <1>1, <1>2, <1>6 DEF Listed
<1>7. CASE c.type = "only"
  <2>1. Qualify(c, list) = [list EXCEPT !.items = {i \in @ : order.kinds[i] \in c.kinds}]
    BY <1>7 DEF Qualify
  <2>2. PICK some \in SUBSET ids : some = {i \in ids : order.kinds[i] \in c.kinds}  OBVIOUS
  <2>3. Qualify(c, list) = [items |-> some, sorted |-> list.sorted]  BY <1>2, <2>1, <2>2
  <2> QED  BY <1>6, <1>7, <2>3
<1>8. CASE c.type = "limitByPurchaseDate"
  <2>1. Qualify(c, list) = IF c.now THEN list ELSE [list EXCEPT !.items = {}]  BY <1>8 DEF Qualify
  <2>2. Qualify(c, list) = list \/ Qualify(c, list) = [items |-> {}, sorted |-> list.sorted]
    BY <1>2, <2>1
  <2>3. {} \in SUBSET ids  OBVIOUS
  <2> QED  BY <1>6, <1>8, <2>2, <2>3
<1>9. CASE c.type = "n4m"
  <2>1. c.n \in Nat /\ c.m \in 1..(c.n - 1)  BY <1>9 DEF IsCriterion
  <2> PICK free \in 0..count : free = FreeOutOf(count, c.n, c.m)  BY <2>1, FreeIsWhatIsNotPaid
  <2>2. Qualify(c, list) = Take(cheap, free)  BY <1>9 DEF Qualify
  <2>3. free \in Nat  OBVIOUS
  <2>4. /\ Take(cheap, free) \in Listed /\ Take(cheap, free).items \subseteq cheap.items
        /\ Cardinality(Take(cheap, free).items) = Smaller(Cardinality(cheap.items), free)
    BY <1>4, <2>3, TakeCounts
  <2>5. Smaller(count, free) = free  BY DEF Smaller
  <2> QED  BY <1>4, <2>2, <2>4, <2>5
<1>10. CASE c.type = "freeTickets"
  <2>1. c.count \in Nat  BY <1>10 DEF IsCriterion
  <2>2. Qualify(c, list) = Take(cheap, c.count)  BY <1>10 DEF Qualify
  <2>3. Take(cheap, c.count) \in Listed /\ Take(cheap, c.count).items \subseteq cheap.items
    BY <1>4, <2>1, TakeCounts
  <2> QED  BY <1>4, <1>10, <2>2, <2>3
<1>11. CASE c.type = "limitByMinTicketCount"
  <2>1. Qualify(c, list) = IF Cardinality(list.items) >= c.n THEN list ELSE [list EXCEPT !.items = {}]
    BY <1>11 DEF Qualify
  <2>2. Qualify(c, list) = list \/ Qualify(c, list) = [items |-> {}, sorted |-> list.sorted]
    BY <1>2, <2>1
  <2>3. {} \in SUBSET ids  OBVIOUS
  <2> QED  BY <1>6, <1>11, <2>2, <2>3
<1> QED  BY <1>5, <1>7, <1>8, <1>9, <1>10, <1>11

FilterSteps(promo, unpaid) ==
  CHOOSE f : f = [k \in 0..Len(promo.criteria) |->
                    IF k = 0 THEN unpaid ELSE Qualify(promo.criteria[k], f[k - 1])]

\* So do any number of them, one after another.
LEMMA QualifiedNarrows ==
  ASSUME Priced, NEW promo, IsPromotion(promo), NEW unpaid \in Listed
  PROVE  /\ Qualified(promo, unpaid) \in Listed
         /\ Qualified(promo, unpaid).items \subseteq unpaid.items
         /\ Len(promo.criteria) = 1 => Qualified(promo, unpaid) = Qualify(promo.criteria[1], unpaid)
<1> PICK n \in Nat : n = Len(promo.criteria) /\ n # 0  BY DEF IsPromotion
<1>1. \A k \in 1..n : IsCriterion(promo.criteria[k])  BY DEF IsPromotion
<1>2. PICK D : D = {list \in Listed : list.items \subseteq unpaid.items}  OBVIOUS
<1>3. PICK next : next = [ky \in (1..n) \X D |-> Qualify(promo.criteria[ky[1]], ky[2])]  OBVIOUS
<1>4. \A k \in 1..n : \A y \in D : next[<<k, y>>] = Qualify(promo.criteria[k], y)  BY <1>3
<1>5. ASSUME NEW k \in 1..n, NEW y \in D PROVE Qualify(promo.criteria[k], y) \in D
  BY <1>1, <1>2, QualifyNarrows
<1>6. Stepping(n, D, next)  BY <1>4, <1>5 DEF Stepping
<1>7. unpaid \in D  BY <1>2
<1>8. StepsOf(n, D, unpaid, next) # {}  BY <1>6, <1>7, StepsExist
<1>9. PICK f \in [0..n -> D] : f[0] = unpaid /\ \A k \in 1..n : f[k] = next[<<k, f[k - 1]>>]
  BY <1>8 DEF StepsOf
<1>10. ASSUME NEW k \in 1..n PROVE f[k] = Qualify(promo.criteria[k], f[k - 1])
  <2>1. k - 1 \in 0..n  OBVIOUS
  <2>2. f[k - 1] \in D  BY <1>9, <2>1
  <2> QED  BY <1>4, <1>9, <2>2
<1>11. f = [k \in 0..n |-> IF k = 0 THEN unpaid ELSE Qualify(promo.criteria[k], f[k - 1])]
  <2>1. \A k \in 0..n : f[k] = IF k = 0 THEN unpaid ELSE Qualify(promo.criteria[k], f[k - 1])
    <3> SUFFICES ASSUME NEW k \in 0..n PROVE f[k] = IF k = 0 THEN unpaid ELSE Qualify(promo.criteria[k], f[k - 1])
      OBVIOUS
    <3>1. k = 0 \/ k \in 1..n  OBVIOUS
    <3>2. k \in 1..n => k # 0  OBVIOUS
    <3> QED  BY <1>9, <1>10, <3>1, <3>2
  <2>2. f = [k \in 0..n |-> f[k]]  BY <1>9
  <2> QED  BY <2>1, <2>2
<1>12. PICK g : g = FilterSteps(promo, unpaid)  OBVIOUS
<1>13. g = [k \in 0..n |-> IF k = 0 THEN unpaid ELSE Qualify(promo.criteria[k], g[k - 1])]
  BY <1>11, <1>12 DEF FilterSteps
<1>14. \A k \in 0..n : g[k] = IF k = 0 THEN unpaid ELSE Qualify(promo.criteria[k], g[k - 1])  BY <1>13
<1>15. PICK G : G = {k \in 0..n : g[k] \in D}  OBVIOUS
<1>16. 0 \in 0..n /\ n \in 0..n  OBVIOUS
<1>17. g[0] = unpaid  BY <1>14, <1>16
<1>18. ASSUME NEW k \in 0..(n - 1), k \in G PROVE k + 1 \in G
  <2>1. k + 1 \in 0..n /\ k + 1 \in 1..n /\ k + 1 # 0 /\ (k + 1) - 1 = k  OBVIOUS
  <2>2. g[k + 1] = Qualify(promo.criteria[k + 1], g[k])  BY <1>14, <2>1
  <2>3. g[k] \in D  BY <1>15, <1>18
  <2> QED  BY <1>5, <1>15, <2>1, <2>2, <2>3
<1>19. 0 \in G  BY <1>7, <1>15, <1>16, <1>17
<1>20. \A k \in 0..n : k \in G  BY <1>18, <1>19, StepByStep
<1>21. Qualified(promo, unpaid) = g[n]  BY <1>12 DEF Qualified, Filtered, FilterSteps
<1>22. n = 1 => g[n] = Qualify(promo.criteria[1], unpaid)
  <2> SUFFICES ASSUME n = 1 PROVE g[1] = Qualify(promo.criteria[1], unpaid)  OBVIOUS
  <2>1. 1 \in 0..n /\ 1 # 0 /\ 1 - 1 = 0  OBVIOUS
  <2> QED  BY <1>14, <1>17, <2>1
<1> QED  BY <1>2, <1>15, <1>16, <1>20, <1>21, <1>22

\* What is negative is rounded to an integer as well.
LEMMA RoundedIsInt ==
  ASSUME NEW num \in Int, NEW den \in Nat \ {0}
  PROVE  Rounded(num, den) \in Int
<1>1. num \div den \in Int  BY SMTT(20)
<1>2. 2 * num + den \in Int /\ 2 * den \in Nat \ {0}  OBVIOUS
<1>3. \A a \in Int : \A b \in Nat \ {0} : a \div b \in Int  BY SMTT(20)
<1>4. (2 * num + den) \div (2 * den) \in Int  BY <1>2, <1>3
<1> QED  BY <1>1, <1>4 DEF Rounded

\* A rate of at most 100% takes off at most the price.
LEMMA AtRateGives ==
  ASSUME Priced, NEW ids \in SUBSET Items, NEW percent \in 0..100
  PROVE  AtRate(percent, ids) \in Shares(order.prices, ids)
<1> SUFFICES ASSUME NEW i \in ids PROVE Rounded(order.prices[i] * percent, 100) \in 0..order.prices[i]
  BY ItemsAre DEF AtRate, Shares
<1> PICK p \in Nat : p = order.prices[i]  BY ItemsAre
<1>1. p * percent \in Nat /\ 100 \in Nat \ {0}  OBVIOUS
<1>2. percent * p <= 100 * p  BY TimesGrows
<1>3. percent * p = p * percent /\ 100 * p = p * 100  OBVIOUS
<1>4. p * percent <= p * 100  BY <1>2, <1>3
<1> QED  BY <1>1, <1>4, RoundedWithin

\* Shares of prices add up to at most the prices.
LEMMA SharesAreSmall ==
  ASSUME NEW ids, IsFiniteSet(ids), NEW prices, \A i \in ids : prices[i] \in Nat,
         NEW s \in Shares(prices, ids)
  PROVE  Total(s, ids) \in Nat /\ Total(s, ids) <= Total(prices, ids)
<1>1. \A i \in ids : s[i] \in Nat /\ s[i] <= prices[i]  BY DEF Shares
<1>2. Total(s, ids) \in Int /\ Total(s, ids) <= Total(prices, ids)  BY <1>1, TotalIsInt, TotalsGrow
<1>3. PICK none : none = [i \in ids |-> 0]  OBVIOUS
<1>4. Total(none, ids) = Cardinality(ids) * 0  BY <1>3, TotalOfEqual
<1>5. Cardinality(ids) \in Nat  BY FS_CardinalityType
<1>6. Total(none, ids) <= Total(s, ids)  BY <1>1, <1>3, TotalsGrow
<1> QED  BY <1>2, <1>4, <1>5, <1>6

\* A discount takes at most its price off an item, and no negative amount unless a user names
\* the price; a tiered one takes off the highest tier reached.
LEMMA DiscountsGive ==
  ASSUME Priced, NEW list \in Listed, NEW f, IsDiscount(f), Computable(f, list.items)
  PROVE  /\ Discounts(f, list) \in [list.items -> Int]
         /\ \A i \in list.items : Discounts(f, list)[i] <= order.prices[i]
         /\ f.type # "fixedPrice" => Discounts(f, list) \in Shares(order.prices, list.items)
         /\ Total(Discounts(f, list), list.items) <= Total(order.prices, list.items)
         /\ f.type = "tieredFixedByTotalValue" =>
              Total(Discounts(f, list), list.items)
                = Smaller(BestTier(Total(order.prices, list.items), f.tiers), Total(order.prices, list.items))
<1>01. PICK ids : ids = list.items  OBVIOUS
<1>02. PICK price : price = order.prices  OBVIOUS
<1>03. PICK result : result = Discounts(f, list)  OBVIOUS
<1>1. IsFiniteSet(ids) /\ ids \subseteq Items /\ \A i \in ids : price[i] \in Nat  BY <1>01, <1>02, ItemsAre
<1>2. PICK total \in Nat : total = Total(price, ids)
  <2>1. \A i \in ids : price[i] <= price[i]  BY <1>1
  <2>2. [i \in ids |-> price[i]] \in Shares(price, ids)  BY <1>1, <2>1 DEF Shares
  <2>3. Total([i \in ids |-> price[i]], ids) \in Nat  BY <1>1, <2>2, SharesAreSmall
  <2>4. Total(price, ids) = Total([i \in ids |-> price[i]], ids)  BY <1>1, TotalSame
  <2> QED  BY <2>3, <2>4
<1>3. Cardinality(ids) \in Nat  BY <1>1, FS_CardinalityType
<1>4. SUFFICES /\ result \in Shares(price, ids) \/ (f.type = "fixedPrice" /\ result \in [ids -> Int]
                                                    /\ \A i \in ids : result[i] <= price[i])
               /\ f.type = "tieredFixedByTotalValue" =>
                    Total(result, ids) = Smaller(BestTier(total, f.tiers), total)
  <2>1. result \in Shares(price, ids) => result \in [ids -> Int] /\ \A i \in ids : result[i] <= price[i]
    BY DEF Shares
  <2>2. result \in [ids -> Int] /\ \A i \in ids : result[i] <= price[i]  BY <1>4, <2>1
  <2>3. Total(result, ids) <= Total(price, ids)  BY <1>1, <2>2, TotalsGrow
  <2> QED  BY <1>01, <1>02, <1>03, <1>2, <1>4, <2>2, <2>3
<1>5. f.type \in {"simpleRate", "simpleFixed", "freeTicket"} \cup PricesNamed \cup TieredRates \cup TieredSums
  BY DEF IsDiscount
<1>6. CASE f.type = "simpleRate"
  <2>1. result = AtRate(f.rate, ids) /\ f.rate \in 0..100  BY <1>6, <1>01, <1>03 DEF Discounts, IsDiscount
  <2> QED  BY <1>1, <1>02, <1>6, <2>1, AtRateGives
<1>7. CASE f.type = "simpleFixed"
  <2>1. result = [i \in ids |-> Smaller(f.fixed, price[i])] /\ f.fixed \in Nat
    BY <1>7, <1>01, <1>02, <1>03 DEF Discounts, IsDiscount
  <2>2. \A i \in ids : Smaller(f.fixed, price[i]) \in Nat /\ Smaller(f.fixed, price[i]) <= price[i]
    BY <1>1, <2>1 DEF Smaller
  <2> QED  BY <1>7, <2>1, <2>2 DEF Shares
<1>8. CASE f.type = "flatPrice"
  <2>1. result = [i \in ids |-> price[i] - Smaller(f.price, price[i])] /\ f.price \in Nat
    BY <1>8, <1>01, <1>02, <1>03 DEF Discounts, IsDiscount, PricesNamed
  <2>2. \A i \in ids : /\ price[i] - Smaller(f.price, price[i]) \in Nat
                       /\ price[i] - Smaller(f.price, price[i]) <= price[i]
    BY <1>1, <2>1 DEF Smaller
  <2> QED  BY <1>8, <2>1, <2>2 DEF Shares
<1>9. CASE f.type = "fixedPrice"
  <2>1. result = [i \in ids |-> price[i] - f.price] /\ f.price \in Nat
    BY <1>9, <1>01, <1>02, <1>03 DEF Discounts, IsDiscount, PricesNamed
  <2>2. \A i \in ids : price[i] - f.price \in Int /\ price[i] - f.price <= price[i]  BY <1>1, <2>1
  <2> QED  BY <1>9, <2>1, <2>2
<1>10. CASE f.type = "childRate"
  <2>1. result = [i \in ids |-> price[i] - f.price] /\ f.price \in Nat
    BY <1>10, <1>01, <1>02, <1>03 DEF Discounts, IsDiscount, PricesNamed
  <2>2. \A i \in ids : f.price < price[i]  BY <1>10, <1>01, <1>02 DEF Computable
  <2>3. \A i \in ids : price[i] - f.price \in Nat /\ price[i] - f.price <= price[i]  BY <1>1, <2>1, <2>2
  <2> QED  BY <1>10, <2>1, <2>3 DEF Shares
<1>11. CASE f.type = "fixedTransactionPrice"
  <2>1. result = Distribute(total - f.price, price, list) /\ f.price \in Nat
    BY <1>11, <1>01, <1>02, <1>03, <1>2 DEF Discounts, IsDiscount, PricesNamed
  <2>2. total > f.price  BY <1>11, <1>01, <1>02, <1>2 DEF Computable
  <2>3. total - f.price \in Nat  BY <2>1, <2>2
  <2> QED  BY <1>1, <1>01, <1>11, <2>1, <2>3, DistributeGives
<1>12. CASE f.type \in TieredRates
  <2>1. PICK amount \in Nat : result = AtRate(Tier(amount, f.tiers), ids)
    BY <1>12, <1>01, <1>02, <1>03, <1>2, <1>3 DEF Discounts, TieredRates
  <2>2. IsSchedule(f.tiers, 0..100)  BY <1>12 DEF IsDiscount
  <2>3. Tier(amount, f.tiers) \in 0..100  BY <2>2, TiersAreBest DEF Tier
  <2>4. result \in Shares(price, ids)  BY <1>1, <1>02, <2>1, <2>3, AtRateGives
  <2> QED  BY <1>12, <2>4 DEF TieredRates
<1>13. CASE f.type = "tieredFixedByQty"
  <2>1. result = Distribute(Tier(Cardinality(ids), f.tiers), price, list)
    BY <1>13, <1>01, <1>02, <1>03 DEF Discounts
  <2>2. IsSchedule(f.tiers, Nat)  BY <1>13 DEF IsDiscount, TieredSums
  <2>3. Tier(Cardinality(ids), f.tiers) \in Nat  BY <1>3, <2>2, TiersAreBest DEF Tier
  <2> QED  BY <1>1, <1>01, <1>13, <2>1, <2>3, DistributeGives
<1>14. CASE f.type = "tieredFixedByTotalValue"
  <2>1. result = Distribute(Tier(total, f.tiers), price, list)
    BY <1>14, <1>01, <1>02, <1>03, <1>2 DEF Discounts
  <2>2. IsSchedule(f.tiers, Nat)  BY <1>14 DEF IsDiscount, TieredSums
  <2>3. Tier(total, f.tiers) \in Nat /\ Tier(total, f.tiers) = BestTier(total, f.tiers)
    BY <1>2, <2>2, TiersAreBest DEF Tier
  <2>4. result \in Shares(price, ids) /\ Total(result, ids) = Smaller(Tier(total, f.tiers), total)
    BY <1>1, <1>01, <1>2, <2>1, <2>3, DistributeGives
  <2> QED  BY <2>3, <2>4
<1>15. CASE f.type = "freeTicket"
  <2>1. result = [i \in ids |-> price[i]]  BY <1>15, <1>01, <1>02, <1>03 DEF Discounts
  <2> QED  BY <1>1, <1>15, <2>1 DEF Shares
<1> QED
  BY <1>5, <1>6, <1>7, <1>8, <1>9, <1>10, <1>11, <1>12, <1>13, <1>14, <1>15 DEF PricesNamed, TieredSums

\* What refunds take back of a discount adds up to the discount, or to nothing.
LEMMA RefundsAddUp ==
  ASSUME Priced, NEW list \in Listed, NEW d \in [list.items -> Int], NEW p, IsPromotion(p)
  PROVE  Total(RefundAdjustments(p.refund, list, d), list.items) \in {0, Total(d, list.items)}
<1>01. PICK ids : ids = list.items  OBVIOUS
<1>02. PICK result : result = RefundAdjustments(p.refund, list, d)  OBVIOUS
<1>1. IsFiniteSet(ids)  BY <1>01, ItemsAre
<1>2. PICK n \in Nat : n = Cardinality(ids)  BY <1>1, FS_CardinalityType
<1>3. PICK total \in Int : total = Total(d, ids)  BY <1>01, <1>1, TotalIsInt
<1>4. p.refund \in {"refundDiscountedAmt", "refundOriginalAmt", "refundAverageAmt"}  BY DEF IsPromotion
<1>5. CASE p.refund = "refundDiscountedAmt"
  BY <1>5, <1>01, <1>02 DEF RefundAdjustments
<1>6. CASE p.refund = "refundOriginalAmt"
  <2>1. result = [i \in ids |-> 0]  BY <1>6, <1>01, <1>02 DEF RefundAdjustments
  <2>2. Total(result, ids) = n * 0  BY <1>1, <1>2, <2>1, TotalOfEqual
  <2> QED  BY <1>01, <1>02, <1>2, <2>2
<1>7. CASE p.refund = "refundAverageAmt" /\ n = 0
  <2>1. ids = {}  BY <1>1, <1>2, <1>7, FS_EmptySet
  <2> QED  BY <1>01, <2>1, TotalOfNone
<1>8. CASE p.refund = "refundAverageAmt" /\ n # 0
  <2>1. PICK split : split = Rounded(total, n)  OBVIOUS
  <2>2. split \in Int  BY <1>2, <1>8, <2>1, RoundedIsInt
  <2>3. result = [i \in ids |-> IF Place(list, i) < n - 1 THEN split ELSE total - (n - 1) * split]
    BY <1>8, <1>01, <1>02, <1>2, <1>3, <2>1 DEF RefundAdjustments
  <2>4. PICK last \in ids : Place(list, last) = n - 1
    <3>1. n - 1 \in 0..(n - 1)  BY <1>8
    <3> QED  BY <1>01, <1>2, <3>1, PlacesAreTaken
  <2>5. ASSUME NEW i \in ids \ {last} PROVE result[i] = split
    <3>1. Place(list, i) \in 0..(n - 1)  BY <1>01, <1>2, PlacesDiffer
    <3>2. Place(list, i) # n - 1  BY <1>01, <2>4, PlacesAreTaken
    <3> QED  BY <2>3, <3>1, <3>2
  <2>6. result[last] = total - (n - 1) * split /\ (n - 1) * split \in Int
    <3>1. ~ Place(list, last) < n - 1  BY <2>4
    <3> QED  BY <2>2, <2>3, <3>1
  <2>7. PICK equal : equal = [i \in ids |-> split]  OBVIOUS
  <2>8. Total(equal, ids) = n * split  BY <1>1, <1>2, <2>2, <2>7, TotalOfEqual
  <2>9. Total(result, ids) = Total(equal, ids) - equal[last] + result[last]
    <3>1. result[last] \in Int  BY <1>3, <2>6
    <3>2. \A x \in ids : equal[x] \in Int  BY <2>2, <2>7
    <3>3. \A x \in ids \ {last} : result[x] = equal[x]  BY <2>5, <2>7
    <3>4. PICK others : others = ids \ {last} /\ IsFiniteSet(others)  BY <1>1, FS_Subset
    <3>5. \A x \in ids : result[x] \in Int  BY <2>2, <2>5, <3>1
    <3>6. Total(equal, ids) = equal[last] + Total(equal, others)  BY <1>1, <3>2, <3>4, TotalWithout
    <3>7. Total(result, ids) = result[last] + Total(result, others)  BY <1>1, <3>4, <3>5, TotalWithout
    <3>8. \A x \in others : equal[x] = result[x] /\ equal[x] \in Int  BY <3>2, <3>3, <3>4
    <3>9. Total(equal, others) = Total(result, others)  BY <3>4, <3>8, TotalSame
    <3>10. Total(equal, others) \in Int  BY <3>4, <3>8, TotalIsInt
    <3> QED  BY <3>1, <3>2, <3>6, <3>7, <3>9, <3>10
  <2>10. (n - 1) * split = n * split - split /\ n * split \in Int  BY <2>2
  <2>11. equal[last] = split  BY <2>7
  <2>12. Total(result, ids) = total  BY <1>3, <2>2, <2>6, <2>8, <2>9, <2>10, <2>11
  <2> QED  BY <1>01, <1>02, <1>3, <2>12
<1> QED  BY <1>4, <1>5, <1>6, <1>7, <1>8

(***************************************************************************)
(* The inductive invariant of the builder, in parts.                       *)
(***************************************************************************)
Unsealed == {"ordered", "passed", "promoted", "referred", "credited", "absorbed"}
PricingTypeOK ==
  /\ order \in Orders
  /\ step \in Unsealed \cup {"sealed", "refused"}
  /\ tagsTried \in Nat
  /\ outstanding \in [Items -> Nat]
  /\ discountValue \in [Items -> Int]
  /\ books \in [Accounts -> Int]
  /\ paid \in [Means -> [Items -> Int]]

\* The means that have not been used yet, by step.
Later ==
  CASE step \in {"ordered", "passed"} -> Means \ {"routePass"}
    [] step = "promoted" -> Means \ {"routePass", "discount"}
    [] step = "referred" -> {"userCredit", "absorbed", "payment"}
    [] step = "credited" -> {"absorbed", "payment"}
    [] step = "absorbed" -> {"payment"}
    [] OTHER             -> {}
NotYet ==
  /\ \A m \in Later : paid[m] = Zero
  /\ step \in {"ordered", "passed"} => promotions = <<>> /\ \A i \in Items : outstanding[i] \in {0, order.prices[i]}
  /\ step \in Unsealed => books.payment = 0 /\ books.transfer = 0

\* What an item still costs is its price less what has been given for it.
Given(i) == paid["routePass"][i] + paid["discount"][i] + paid["referralCredits"][i]
              + paid["userCredit"][i] + paid["absorbed"][i]
ItemsAddUp ==
  /\ \A i \in Items : outstanding[i] = order.prices[i] - Given(i)
  /\ \A i \in Items : discountValue[i] = paid["discount"][i] + paid["absorbed"][i]
  /\ ~ NamedPrice => \A m \in Means : \A i \in Items : paid[m][i] >= 0
  /\ step = "sealed" /\ order.kind = "tickets" => paid["payment"] = outstanding

BooksAddUp ==
  /\ step \in Unsealed => /\ Total(books, Accounts) = Total(outstanding, Items)
                          /\ books.payables + books.cogs = 0
                          /\ books.cogs = books.referralCredits + books.userCredit
  /\ step = "sealed" => ExcessCredit = 0 /\ OperatorIsOwed

HalfAtMost ==
  step = "referred" => 2 * Total(paid["referralCredits"], Items)
                         <= Total(Plus(outstanding, paid["referralCredits"]), Items) + 1

PricingInv ==
  /\ PricingTypeOK
  /\ NotYet
  /\ ItemsAddUp
  /\ BooksAddUp
  /\ HalfAtMost
  /\ step = "credited" => SharedInProportion
  /\ PromotionsAsAdvertised

-----------------------------------------------------------------------------
(***************************************************************************)
(* The books: sums over the means of payment and over the accounts.        *)
(***************************************************************************)
\* A sum of four terms.
LEMMA TotalOfFour ==
  ASSUME NEW a, NEW b, NEW c, NEW d, a # b, a # c, a # d, b # c, b # d, c # d,
         NEW g, g[a] \in Int, g[b] \in Int, g[c] \in Int, g[d] \in Int
  PROVE  IsFiniteSet({a, b, c, d}) /\ Total(g, {a, b, c, d}) = g[a] + g[b] + g[c] + g[d]
<1>2. g[a] \in Int /\ g[b] \in Int /\ g[c] \in Int /\ g[d] \in Int  OBVIOUS
<1>3. PICK s0 : s0 = {}  OBVIOUS
<1>4. PICK s1 : s1 = s0 \cup {a}  OBVIOUS
<1>5. PICK s2 : s2 = s1 \cup {b}  OBVIOUS
<1>6. PICK s3 : s3 = s2 \cup {c}  OBVIOUS
<1>7. PICK s4 : s4 = s3 \cup {d}  OBVIOUS
<1>8. s4 = {a, b, c, d} /\ a \notin s0 /\ b \notin s1 /\ c \notin s2 /\ d \notin s3
  BY <1>3, <1>4, <1>5, <1>6, <1>7
<1>9. /\ \A x \in s0 \cup {a} : g[x] \in Int
      /\ \A x \in s1 \cup {b} : g[x] \in Int
      /\ \A x \in s2 \cup {c} : g[x] \in Int
      /\ \A x \in s3 \cup {d} : g[x] \in Int
  BY <1>2, <1>3, <1>4, <1>5, <1>6
<1>10. IsFiniteSet(s0) /\ Total(g, s0) = 0  BY <1>3, FS_EmptySet, TotalOfNone
<1>0. IsFiniteSet(s1) /\ IsFiniteSet(s2) /\ IsFiniteSet(s3) /\ IsFiniteSet(s4)
  BY <1>4, <1>5, <1>6, <1>7, <1>10, FS_AddElement
<1>11. Total(g, s1) = 0 + g[a]  BY <1>4, <1>8, <1>9, <1>10, TotalJoins
<1>12. Total(g, s2) = 0 + g[a] + g[b]  BY <1>5, <1>8, <1>9, <1>0, <1>11, TotalJoins
<1>13. Total(g, s3) = 0 + g[a] + g[b] + g[c]
  BY <1>6, <1>8, <1>9, <1>0, <1>12, TotalJoins
<1>14. Total(g, s4) = 0 + g[a] + g[b] + g[c] + g[d]
  <2>1. d \notin s3 /\ \A x \in s3 \cup {d} : g[x] \in Int  BY <1>8, <1>9
  <2>2. Total(g, s3 \cup {d}) = Total(g, s3) + g[d]  BY <1>0, <2>1, TotalJoins
  <2> QED  BY <1>7, <1>13, <2>2
<1>15. 0 + g[a] + g[b] + g[c] + g[d] = g[a] + g[b] + g[c] + g[d]  BY <1>2
<1> QED  BY <1>0, <1>8, <1>14, <1>15

\* The sums over the means of payment.
LEMMA TotalOfMeans ==
  ASSUME NEW g \in [Means -> Int]
  PROVE  /\ IsFiniteSet(Means)
         /\ Total(g, Means) = g["routePass"] + g["referralCredits"] + g["userCredit"] + g["payment"]
                                + g["discount"] + g["absorbed"]
<1>1. \A m \in Means : g[m] \in Int  OBVIOUS
<1>2. PICK s0 : s0 = {}  OBVIOUS
<1>3. "routePass" \in Means /\ "referralCredits" \in Means /\ "userCredit" \in Means
      /\ "payment" \in Means /\ "discount" \in Means /\ "absorbed" \in Means
  BY DEF Means
<1>4. PICK s1 \in SUBSET Means : s1 = s0 \cup {"routePass"}  BY <1>2, <1>3
<1>5. PICK s2 \in SUBSET Means : s2 = s1 \cup {"referralCredits"}  BY <1>3
<1>6. PICK s3 \in SUBSET Means : s3 = s2 \cup {"userCredit"}  BY <1>3
<1>7. PICK s4 \in SUBSET Means : s4 = s3 \cup {"payment"}  BY <1>3
<1>8. PICK s5 \in SUBSET Means : s5 = s4 \cup {"discount"}  BY <1>3
<1>9. Means = s5 \cup {"absorbed"}
  BY <1>2, <1>4, <1>5, <1>6, <1>7, <1>8 DEF Means
<1>10. ASSUME NEW s \in SUBSET Means, IsFiniteSet(s), NEW a \in Means, a \notin s
       PROVE  IsFiniteSet(s \cup {a}) /\ Total(g, s \cup {a}) = Total(g, s) + g[a]
  <2>1. \A x \in s \cup {a} : g[x] \in Int  BY <1>1
  <2> QED  BY <1>10, <2>1, TotalJoins, FS_AddElement
<1>11. IsFiniteSet(s0) /\ Total(g, s0) = 0  BY <1>2, FS_EmptySet, TotalOfNone
<1>12. /\ "routePass" \notin s0 /\ "referralCredits" \notin s1 /\ "userCredit" \notin s2
       /\ "payment" \notin s3 /\ "discount" \notin s4 /\ "absorbed" \notin s5
  BY <1>2, <1>4, <1>5, <1>6, <1>7, <1>8
<1>13. IsFiniteSet(s1) /\ Total(g, s1) = 0 + g["routePass"]
  <2>1. s0 \in SUBSET Means  BY <1>2
  <2> QED  BY <1>3, <1>4, <1>10, <1>11, <1>12, <2>1
<1>14. IsFiniteSet(s2) /\ Total(g, s2) = Total(g, s1) + g["referralCredits"]
  BY <1>3, <1>5, <1>10, <1>12, <1>13
<1>15. IsFiniteSet(s3) /\ Total(g, s3) = Total(g, s2) + g["userCredit"]
  BY <1>3, <1>6, <1>10, <1>12, <1>14
<1>16. IsFiniteSet(s4) /\ Total(g, s4) = Total(g, s3) + g["payment"]
  BY <1>3, <1>7, <1>10, <1>12, <1>15
<1>17. IsFiniteSet(s5) /\ Total(g, s5) = Total(g, s4) + g["discount"]
  BY <1>3, <1>8, <1>10, <1>12, <1>16
<1>18. IsFiniteSet(Means) /\ Total(g, Means) = Total(g, s5) + g["absorbed"]
  BY <1>3, <1>9, <1>10, <1>12, <1>17
<1>19. \A m \in Means : g[m] \in Int  BY <1>1
<1> QED  BY <1>3, <1>13, <1>14, <1>15, <1>16, <1>17, <1>18, <1>19

\* The sum over the accounts.
LEMMA TotalOfAccounts ==
  ASSUME NEW b \in [Accounts -> Int]
  PROVE  /\ IsFiniteSet(Accounts)
         /\ Total(b, Accounts) = b.ticketSale + b.routePass + b.discrepancy + b.discount
                                   + b.referralCredits + b.userCredit + b.payables + b.cogs
                                   + b.payment + b.transfer
<1>1. \A a \in Accounts : b[a] \in Int  OBVIOUS
<1>2. PICK four : four = {"ticketSale", "routePass", "discrepancy", "discount"}  OBVIOUS
<1>3. PICK eight : eight = (((four \cup {"referralCredits"}) \cup {"userCredit"}) \cup {"payables"}) \cup {"cogs"}
  OBVIOUS
<1>4. /\ "referralCredits" \notin four
      /\ "userCredit" \notin four \cup {"referralCredits"}
      /\ "payables" \notin (four \cup {"referralCredits"}) \cup {"userCredit"}
      /\ "cogs" \notin ((four \cup {"referralCredits"}) \cup {"userCredit"}) \cup {"payables"}
  BY <1>2
<1>5. "payment" \notin eight /\ "transfer" \notin eight \cup {"payment"}
      /\ Accounts = (eight \cup {"payment"}) \cup {"transfer"}
  BY <1>2, <1>3 DEF Accounts
<1>6. four \subseteq Accounts  BY <1>2 DEF Accounts
<1>7. IsFiniteSet(four)
      /\ Total(b, four) = b["ticketSale"] + b["routePass"] + b["discrepancy"] + b["discount"]
  <2>1. b["ticketSale"] \in Int /\ b["routePass"] \in Int /\ b["discrepancy"] \in Int /\ b["discount"] \in Int
    BY <1>1, <1>2, <1>6
  <2> QED  BY <1>2, <2>1, TotalOfFour
<1>8. ASSUME NEW s \in SUBSET Accounts, IsFiniteSet(s), NEW a \in Accounts, a \notin s
      PROVE  IsFiniteSet(s \cup {a}) /\ Total(b, s \cup {a}) = Total(b, s) + b[a]
  <2>1. \A x \in s \cup {a} : b[x] \in Int  BY <1>1
  <2> QED  BY <1>8, <2>1, TotalJoins, FS_AddElement
<1>9. {"referralCredits", "userCredit", "payables", "cogs", "payment", "transfer"} \subseteq Accounts
  BY DEF Accounts
<1>10. PICK five \in SUBSET Accounts : five = four \cup {"referralCredits"}  BY <1>6, <1>9
<1>11. PICK six \in SUBSET Accounts : six = five \cup {"userCredit"}  BY <1>9
<1>12. PICK seven \in SUBSET Accounts : seven = six \cup {"payables"}  BY <1>9
<1>13. eight \in SUBSET Accounts /\ eight = seven \cup {"cogs"}  BY <1>3, <1>9, <1>10, <1>11, <1>12
<1>14. PICK nine \in SUBSET Accounts : nine = eight \cup {"payment"}  BY <1>9, <1>13
<1>15. Accounts = nine \cup {"transfer"}  BY <1>5, <1>14
<1>16. "referralCredits" \in Accounts /\ "userCredit" \in Accounts /\ "payables" \in Accounts
       /\ "cogs" \in Accounts /\ "payment" \in Accounts /\ "transfer" \in Accounts
  BY <1>9
<1>17. IsFiniteSet(five) /\ Total(b, five) = Total(b, four) + b["referralCredits"]
  BY <1>4, <1>6, <1>7, <1>8, <1>10, <1>16
<1>18. IsFiniteSet(six) /\ Total(b, six) = Total(b, five) + b["userCredit"]
  <2>1. "userCredit" \notin five  BY <1>4, <1>10
  <2> QED  BY <1>8, <1>11, <1>16, <1>17, <2>1
<1>19. IsFiniteSet(seven) /\ Total(b, seven) = Total(b, six) + b["payables"]
  <2>1. "payables" \notin six  BY <1>4, <1>10, <1>11
  <2> QED  BY <1>8, <1>12, <1>16, <1>18, <2>1
<1>20. IsFiniteSet(eight) /\ Total(b, eight) = Total(b, seven) + b["cogs"]
  <2>1. "cogs" \notin seven  BY <1>4, <1>10, <1>11, <1>12
  <2> QED  BY <1>8, <1>13, <1>16, <1>19, <2>1
<1>21. IsFiniteSet(nine) /\ Total(b, nine) = Total(b, eight) + b["payment"]
  BY <1>5, <1>8, <1>13, <1>14, <1>16, <1>20
<1>22. IsFiniteSet(Accounts) /\ Total(b, Accounts) = Total(b, nine) + b["transfer"]
  <2>1. "transfer" \notin nine  BY <1>5, <1>14
  <2> QED  BY <1>8, <1>15, <1>16, <1>21, <2>1
<1> QED  BY <1>7, <1>17, <1>18, <1>19, <1>20, <1>21, <1>22

\* A booking changes the balance of the books by its amount.
LEMMA BookedIs ==
  ASSUME NEW b \in [Accounts -> Int], NEW a \in Accounts, NEW x \in Int
  PROVE  /\ Debit(b, a, x) \in [Accounts -> Int] /\ Credit(b, a, x) \in [Accounts -> Int]
         /\ Total(Debit(b, a, x), Accounts) = Total(b, Accounts) - x
         /\ Total(Credit(b, a, x), Accounts) = Total(b, Accounts) + x
<1>1. Debit(b, a, x) \in [Accounts -> Int] /\ Credit(b, a, x) \in [Accounts -> Int]
  BY DEF Debit, Credit
<1>2. \A y \in Accounts \ {a} : Debit(b, a, x)[y] = b[y] /\ Credit(b, a, x)[y] = b[y]
  BY DEF Debit, Credit
<1>3. Debit(b, a, x)[a] = b[a] - x /\ Credit(b, a, x)[a] = b[a] + x  BY DEF Debit, Credit
<1>4. IsFiniteSet(Accounts) /\ \A y \in Accounts : b[y] \in Int  BY TotalOfAccounts
<1>5. Total(Debit(b, a, x), Accounts) = Total(b, Accounts) - b[a] + Debit(b, a, x)[a]
      /\ Total(Credit(b, a, x), Accounts) = Total(b, Accounts) - b[a] + Credit(b, a, x)[a]
  BY <1>1, <1>2, <1>4, TotalChanges
<1>6. Total(b, Accounts) \in Int  BY <1>4, TotalIsInt
<1> QED  BY <1>1, <1>3, <1>4, <1>5, <1>6

\* Orders are what they were assumed to be.
LEMMA OrderIs == ASSUME order \in Orders PROVE IsOrder(order) /\ Priced
BY OrdersAreOrders DEF IsOrder, Priced

\* Amounts of items, subtracted and added item by item.
LEMMA AmountsAre ==
  ASSUME Priced, NEW s \in [Items -> Int], NEW t \in [Items -> Int]
  PROVE  /\ Less(s, t) \in [Items -> Int] /\ \A i \in Items : Less(s, t)[i] = s[i] - t[i]
         /\ Plus(s, t) \in [Items -> Int] /\ \A i \in Items : Plus(s, t)[i] = s[i] + t[i]
         /\ Total(Less(s, t), Items) = Total(s, Items) - Total(t, Items)
         /\ Total(Plus(s, t), Items) = Total(s, Items) + Total(t, Items)
         /\ Total(s, Items) \in Int /\ Total(t, Items) \in Int
<1>1. IsFiniteSet(Items)  BY ItemsAre
<1>2. PICK less : less = Less(s, t)  OBVIOUS
<1>3. PICK plus : plus = Plus(s, t)  OBVIOUS
<1>4. less \in [Items -> Int] /\ \A i \in Items : less[i] = s[i] - t[i]  BY <1>2 DEF Less
<1>5. plus \in [Items -> Int] /\ \A i \in Items : plus[i] = s[i] + t[i]  BY <1>3 DEF Plus
<1>6. \A i \in Items : less[i] \in Int /\ t[i] \in Int /\ s[i] = less[i] + t[i]  BY <1>4
<1>7. Total(s, Items) = Total(less, Items) + Total(t, Items)  BY <1>1, <1>6, TotalOfSums
<1>8. \A i \in Items : s[i] \in Int /\ t[i] \in Int /\ plus[i] = s[i] + t[i]  BY <1>5
<1>9. Total(plus, Items) = Total(s, Items) + Total(t, Items)  BY <1>1, <1>8, TotalOfSums
<1>10. Total(s, Items) \in Int /\ Total(t, Items) \in Int /\ Total(less, Items) \in Int
  BY <1>1, <1>4, TotalIsInt
<1>11. Total(less, Items) = Total(s, Items) - Total(t, Items)  BY <1>7, <1>10
<1> QED  BY <1>2, <1>3, <1>4, <1>5, <1>9, <1>10, <1>11

\* Amounts of some of the items, as amounts of all.
LEMMA SpreadIs ==
  ASSUME Priced, NEW ids \in SUBSET Items, NEW a \in [ids -> Int]
  PROVE  /\ Spread(a) \in [Items -> Int]
         /\ \A i \in ids : Spread(a)[i] = a[i]
         /\ \A i \in Items \ ids : Spread(a)[i] = 0
         /\ Total(Spread(a), Items) = Total(a, ids)
<1>1. IsFiniteSet(Items) /\ IsFiniteSet(ids)  BY ItemsAre, FS_Subset
<1>2. PICK b : b = Spread(a)  OBVIOUS
<1>3. b = [i \in Items |-> IF i \in ids THEN a[i] ELSE 0]  BY <1>2 DEF Spread
<1>4. b \in [Items -> Int] /\ (\A i \in ids : b[i] = a[i]) /\ \A i \in Items \ ids : b[i] = 0  BY <1>3
<1>5. \A i \in ids : a[i] \in Int /\ b[i] \in Int  BY <1>4
<1>6. Total(b, Items) = Total(b, ids)  BY <1>1, <1>4, <1>5, TotalOfPart
<1>7. \A i \in ids : a[i] = b[i] /\ a[i] \in Int  BY <1>4
<1>8. Total(a, ids) = Total(b, ids)  BY <1>1, <1>7, TotalSame
<1> QED  BY <1>2, <1>4, <1>6, <1>8

\* Nothing for any item.
LEMMA ZeroIs ==
  ASSUME Priced
  PROVE  Zero \in [Items -> Nat] /\ (\A i \in Items : Zero[i] = 0) /\ Total(Zero, Items) = 0
<1>1. IsFiniteSet(Items) /\ Cardinality(Items) \in Nat  BY ItemsAre, FS_CardinalityType
<1>2. Zero \in [Items -> Nat] /\ \A i \in Items : Zero[i] = 0  BY DEF Zero
<1>3. Total(Zero, Items) = Cardinality(Items) * 0  BY <1>1, <1>2, TotalOfEqual
<1> QED  BY <1>1, <1>2, <1>3

\* The means that have not been used by a step have paid for nothing.
LEMMA NotYetIs ==
  ASSUME PricingInv
  PROVE  /\ Priced /\ IsOrder(order)
         /\ step \in {"ordered", "passed"} => \A m \in Means \ {"routePass"} : paid[m] = Zero
         /\ step = "promoted" => \A m \in Means \ {"routePass", "discount"} : paid[m] = Zero
         /\ step = "referred" => \A m \in {"userCredit", "absorbed", "payment"} : paid[m] = Zero
         /\ step = "credited" => \A m \in {"absorbed", "payment"} : paid[m] = Zero
         /\ step = "absorbed" => paid["payment"] = Zero
BY OrderIs DEF PricingInv, PricingTypeOK, NotYet, Later

\* What a promotion was advertised to give does not change once it is applied.
LEMMA AdvertisedKept ==
  ASSUME PromotionsAsAdvertised, order' = order, promotions' = promotions,
         paid["routePass"]' = paid["routePass"]
  PROVE  PromotionsAsAdvertised'
BY DEF PromotionsAsAdvertised, Items

\* The builder starts with the books and the items in order.
LEMMA PricingStarts ==
  ASSUME PricingInit PROVE PricingInv
<1>1. order \in Orders /\ Priced /\ step = "ordered"  BY OrderIs DEF PricingInit
<1>2. order.prices \in [Items -> Nat] /\ outstanding = order.prices  BY <1>1, ItemsAre DEF PricingInit
<1>3. Zero \in [Items -> Nat] /\ \A i \in Items : Zero[i] = 0  BY <1>1, ZeroIs
<1>4. paid = [m \in Means |-> Zero] /\ discountValue = Zero /\ promotions = <<>>  BY DEF PricingInit
<1>5. PICK sale \in Int : sale = Total(order.prices, Items)
  <2>1. \A i \in Items : order.prices[i] \in Int  BY <1>2
  <2>2. IsFiniteSet(Items)  BY <1>1, ItemsAre
  <2> QED  BY <2>1, <2>2, TotalIsInt
<1>6. NoBooks \in [Accounts -> Int] /\ \A a \in Accounts : NoBooks[a] = 0  BY DEF NoBooks
<1>7. SaleAccount \in {"ticketSale", "routePass"} /\ {"ticketSale", "routePass"} \subseteq Accounts
  BY DEF SaleAccount, Accounts
<1>8. books = Credit(NoBooks, SaleAccount, sale)  BY <1>5 DEF PricingInit
<1>9. Total(NoBooks, Accounts) = 0  BY <1>6, TotalOfAccounts DEF Accounts
<1>10. books \in [Accounts -> Int] /\ Total(books, Accounts) = sale
  <2>1. SaleAccount \in Accounts  BY <1>7
  <2> QED  BY <1>5, <1>6, <1>8, <1>9, <2>1, BookedIs
<1>11. \A a \in Accounts \ {"ticketSale", "routePass"} : books[a] = 0
  BY <1>6, <1>7, <1>8 DEF Credit
<1>12. PricingTypeOK
  <2>1. tagsTried = 0  BY DEF PricingInit
  <2> QED  BY <1>1, <1>2, <1>3, <1>4, <1>10, <2>1 DEF PricingTypeOK, Unsealed
<1>13. NotYet
  <2>1. books.payment = 0 /\ books.transfer = 0  BY <1>11 DEF Accounts
  <2> QED  BY <1>1, <1>2, <1>4, <2>1 DEF NotYet, Later
<1>14. ItemsAddUp
  <2>1. \A m \in Means : \A i \in Items : paid[m][i] = 0  BY <1>3, <1>4
  <2>2. \A i \in Items : Given(i) = 0  BY <2>1 DEF Given, Means
  <2>3. \A i \in Items : outstanding[i] = order.prices[i] - Given(i)
    <3>1. \A i \in Items : order.prices[i] \in Nat  BY <1>2
    <3> QED  BY <1>2, <2>2, <3>1
  <2>4. \A i \in Items : discountValue[i] = paid["discount"][i] + paid["absorbed"][i]
    BY <1>3, <1>4, <2>1 DEF Means
  <2>5. \A m \in Means : \A i \in Items : paid[m][i] >= 0  BY <2>1
  <2> QED  BY <1>1, <2>3, <2>4, <2>5 DEF ItemsAddUp
<1>15. BooksAddUp
  <2>1. books.payables = 0 /\ books.cogs = 0 /\ books.referralCredits = 0 /\ books.userCredit = 0
    BY <1>11 DEF Accounts
  <2>2. Total(books, Accounts) = Total(outstanding, Items)  BY <1>2, <1>5, <1>10
  <2>3. books.payables + books.cogs = 0 /\ books.cogs = books.referralCredits + books.userCredit  BY <2>1
  <2>4. step # "sealed"  BY <1>1
  <2> QED  BY <2>2, <2>3, <2>4 DEF BooksAddUp
<1>16. PromotionsAsAdvertised  BY <1>4 DEF PromotionsAsAdvertised
<1> QED  BY <1>1, <1>12, <1>13, <1>14, <1>15, <1>16 DEF PricingInv, HalfAtMost

\* A step that changes nothing but the step.
LEMMA OnlyTheStep ==
  ASSUME PricingInv,
         UNCHANGED <<order, tagsTried, outstanding, discountValue, books, paid, promotions>>,
         \/ step = "ordered" /\ step' = "passed"
         \/ step = "passed" /\ step' = "promoted"
         \/ step' = "refused"
  PROVE  PricingInv'
<1>1. UNCHANGED <<Items, Zero>>  BY DEF Items, Zero
<1>2. PricingTypeOK'  BY <1>1 DEF PricingInv, PricingTypeOK, Unsealed
<1>3. NotYet'
  <2>1. \A m \in Later' : m \in Later
    BY DEF Later
  <2>2. step' \in Unsealed => step \in Unsealed  BY DEF Unsealed
  <2>3. step' \in {"ordered", "passed"} => step \in {"ordered", "passed"}  OBVIOUS
  <2> QED  BY <1>1, <2>1, <2>2, <2>3 DEF PricingInv, NotYet
<1>4. ItemsAddUp'
  BY <1>1 DEF PricingInv, ItemsAddUp, Given, NamedPrice
<1>5. BooksAddUp'
  <2>1. step' \in Unsealed => step \in Unsealed  BY DEF Unsealed
  <2>2. step' # "sealed"  OBVIOUS
  <2> QED  BY <1>1, <2>1, <2>2 DEF PricingInv, BooksAddUp
<1>6. step' # "referred" /\ step' # "credited"  OBVIOUS
<1>7. PromotionsAsAdvertised'  BY AdvertisedKept DEF PricingInv
<1> QED  BY <1>2, <1>3, <1>4, <1>5, <1>6, <1>7 DEF PricingInv, HalfAtMost

(***************************************************************************)
(* Every step of the builder preserves the invariant.                      *)
(***************************************************************************)
\* Passes pay for whole items: their cost and the residual come to what the items had outstanding.
LEMMA RoutePassKeeps ==
  ASSUME PricingInv, ApplyRoutePass PROVE PricingInv'
<1>1. Priced /\ IsOrder(order) /\ step = "ordered" /\ order.kind = "tickets"
  BY NotYetIs DEF ApplyRoutePass
<1>2. /\ order' = order /\ step' = step /\ discountValue' = discountValue /\ promotions' = promotions
      /\ tagsTried' = tagsTried + 1 /\ tagsTried < Len(order.tags)
  BY DEF ApplyRoutePass
<1>3. UNCHANGED <<Items, Zero>>  BY <1>2 DEF Items, Zero
<1>4. /\ tagsTried \in Nat /\ outstanding \in [Items -> Nat] /\ books \in [Accounts -> Int]
      /\ paid \in [Means -> [Items -> Int]]
  BY DEF PricingInv, PricingTypeOK
<1>5. PICK tag : tag = order.tags[tagsTried + 1]  OBVIOUS
<1>6. tag.passes \in Seq(Nat)
  <2>1. tagsTried + 1 \in 1..Len(order.tags)  BY <1>1, <1>2, <1>4 DEF IsOrder
  <2> QED  BY <1>1, <1>5, <2>1 DEF IsOrder
<1>7. PICK all : all = AsTheyCome({i \in Items : order.kinds[i] \in tag.kinds /\ outstanding[i] > 0})  OBVIOUS
<1>8. all \in Listed /\ all.items \subseteq Items  BY <1>7 DEF AsTheyCome, Listed
<1>9. PICK ids : ids = Take(all, Len(tag.passes)).items  OBVIOUS
<1>10. PICK most \in Nat : most = Len(tag.passes)  BY <1>6
<1>11. ids \subseteq Items /\ IsFiniteSet(ids) /\ Cardinality(ids) \in Nat /\ Cardinality(ids) <= most
  <2>1. Take(all, most).items \subseteq all.items
        /\ Cardinality(Take(all, most).items) = Smaller(Cardinality(all.items), most)
    BY <1>1, <1>8, <1>10, TakeCounts
  <2>2. ids \in SUBSET Items /\ Cardinality(ids) = Smaller(Cardinality(all.items), most)
    BY <1>8, <1>9, <1>10, <2>1
  <2>3. IsFiniteSet(ids) /\ Cardinality(ids) \in Nat  BY <1>1, <2>2, ItemsAre, FS_Subset, FS_CardinalityType
  <2>4. IsFiniteSet(all.items)  BY <1>1, <1>8, ItemsAre
  <2>5. Cardinality(all.items) \in Nat  BY <2>4, FS_CardinalityType
  <2> QED  BY <1>10, <2>2, <2>3, <2>5 DEF Smaller
<1>12. PICK due : due = [i \in ids |-> outstanding[i]]  OBVIOUS
<1>13. PICK values : values = Spread(due)  OBVIOUS
<1>14. /\ outstanding' = Less(outstanding, values)
       /\ books' = PassesBooked(tag, ids, books)
       /\ paid' = [paid EXCEPT !["routePass"] = Plus(@, values)]
  BY <1>5, <1>7, <1>9, <1>12, <1>13 DEF ApplyRoutePass
<1>15. due \in [ids -> Int]  BY <1>4, <1>11, <1>12
<1>16. /\ values \in [Items -> Int]
       /\ \A i \in ids : values[i] = outstanding[i]
       /\ \A i \in Items \ ids : values[i] = 0
       /\ Total(values, Items) = Total(outstanding, ids)
  <2>1. /\ values \in [Items -> Int]
        /\ \A i \in ids : values[i] = due[i]
        /\ \A i \in Items \ ids : values[i] = 0
        /\ Total(values, Items) = Total(due, ids)
    BY <1>1, <1>11, <1>13, <1>15, SpreadIs
  <2>2. \A i \in ids : due[i] = outstanding[i] /\ due[i] \in Int  BY <1>12, <1>15
  <2>3. Total(due, ids) = Total(outstanding, ids)  BY <1>11, <2>2, TotalSame
  <2> QED  BY <2>1, <2>2, <2>3
<1>17. PICK value \in Int : value = Total(values, Items) /\ value = Total(outstanding, ids)
  BY <1>1, <1>16, AmountsAre
<1>18. outstanding \in [Items -> Int]  BY <1>4
<1>19. /\ \A i \in Items : outstanding'[i] = outstanding[i] - values[i]
       /\ outstanding' \in [Items -> Int]
       /\ Total(outstanding', Items) = Total(outstanding, Items) - value
  BY <1>1, <1>14, <1>16, <1>17, <1>18, AmountsAre
<1>20. \A i \in Items : outstanding'[i] \in {0, outstanding[i]}
  <2> SUFFICES ASSUME NEW i \in Items PROVE outstanding'[i] \in {0, outstanding[i]}  OBVIOUS
  <2>1. outstanding[i] \in Nat /\ values[i] \in {0, outstanding[i]}  BY <1>4, <1>16
  <2> QED  BY <1>19, <2>1
<1>21. outstanding' \in [Items -> Nat]
  <2>1. \A i \in Items : outstanding'[i] \in Nat  BY <1>4, <1>20
  <2> QED  BY <1>19, <2>1
<1>22. PICK passes : passes = Plus(paid["routePass"], values)  OBVIOUS
<1>23. "routePass" \in Means /\ "routePass" \in Accounts /\ "discrepancy" \in Accounts  BY DEF Means, Accounts
<1>24. passes \in [Items -> Int] /\ \A i \in Items : passes[i] = paid["routePass"][i] + values[i]
  <2>1. paid["routePass"] \in [Items -> Int]  BY <1>4, <1>23
  <2>2. values \in [Items -> Int]  BY <1>16
  <2> QED  BY ONLY <1>1, <1>22, <2>1, <2>2, AmountsAre
<1>25. /\ paid' \in [Means -> [Items -> Int]]
       /\ paid'["routePass"] = passes
       /\ \A m \in Means \ {"routePass"} : paid'[m] = paid[m]
  BY <1>4, <1>14, <1>22, <1>23, <1>24
<1>26. PICK cost \in Int : cost = Total(tag.passes, 1..Cardinality(ids))
  <2>1. \A k \in 1..Cardinality(ids) : tag.passes[k] \in Int
    <3> SUFFICES ASSUME NEW k \in 1..Cardinality(ids) PROVE tag.passes[k] \in Int  OBVIOUS
    <3>1. k \in 1..Len(tag.passes)  BY <1>10, <1>11
    <3> QED  BY <1>6, <3>1
  <2>2. IsFiniteSet(1..Cardinality(ids))  BY <1>11, FS_Interval
  <2> QED  BY <2>1, <2>2, TotalIsInt
<1>27. PICK b : b = Debit(books, "routePass", cost)  OBVIOUS
<1>28. books' = Debit(b, "discrepancy", value - cost)
  BY <1>14, <1>17, <1>26, <1>27 DEF PassesBooked
<1>29. b \in [Accounts -> Int] /\ Total(b, Accounts) = Total(books, Accounts) - cost
  BY <1>4, <1>23, <1>26, <1>27, BookedIs
<1>30. books' \in [Accounts -> Int] /\ Total(books', Accounts) = Total(b, Accounts) - (value - cost)
  BY <1>17, <1>23, <1>26, <1>28, <1>29, BookedIs
<1>31. \A a \in Accounts \ {"routePass", "discrepancy"} : books'[a] = books[a]
  BY <1>4, <1>23, <1>27, <1>28 DEF Debit
<1>32. PricingTypeOK'
  BY <1>1, <1>2, <1>3, <1>4, <1>21, <1>25, <1>30 DEF PricingInv, PricingTypeOK, Unsealed
<1>33. NotYet'
  <2>1. \A m \in Means \ {"routePass"} : paid'[m] = Zero  BY <1>1, <1>25, NotYetIs
  <2>2. Later' = Means \ {"routePass"}  BY <1>1, <1>2 DEF Later
  <2>3. promotions' = <<>> /\ \A i \in Items : outstanding[i] \in {0, order.prices[i]}
    BY <1>1, <1>2 DEF PricingInv, NotYet
  <2>4. books'.payment = 0 /\ books'.transfer = 0
    <3>1. books.payment = 0 /\ books.transfer = 0  BY <1>1 DEF PricingInv, NotYet, Unsealed
    <3> QED  BY <1>31, <3>1 DEF Accounts
  <2>5. \A i \in Items : outstanding'[i] \in {0, order.prices[i]}  BY <1>20, <2>3
  <2> QED  BY <1>2, <1>3, <2>1, <2>2, <2>3, <2>4, <2>5 DEF NotYet
<1>34. ItemsAddUp'
  <2>1. /\ \A i \in Items : outstanding[i] = order.prices[i] - Given(i)
        /\ \A i \in Items : discountValue[i] = paid["discount"][i] + paid["absorbed"][i]
        /\ ~ NamedPrice => \A m \in Means : \A i \in Items : paid[m][i] >= 0
    BY DEF PricingInv, ItemsAddUp
  <2>2. ASSUME NEW i \in Items
        PROVE  /\ outstanding'[i] = order.prices[i] - Given(i)'
               /\ discountValue[i] = paid'["discount"][i] + paid'["absorbed"][i]
    <3>1. /\ paid["routePass"][i] \in Int /\ paid["discount"][i] \in Int /\ paid["referralCredits"][i] \in Int
          /\ paid["userCredit"][i] \in Int /\ paid["absorbed"][i] \in Int
      BY <1>4 DEF Means
    <3>2. /\ paid'["discount"] = paid["discount"] /\ paid'["referralCredits"] = paid["referralCredits"]
          /\ paid'["userCredit"] = paid["userCredit"] /\ paid'["absorbed"] = paid["absorbed"]
          /\ paid'["routePass"][i] = paid["routePass"][i] + values[i]
      BY <1>24, <1>25 DEF Means
    <3>3. Given(i)' = Given(i) + values[i] /\ Given(i) \in Int  BY <1>16, <3>1, <3>2 DEF Given
    <3>4. order.prices[i] \in Int /\ values[i] \in Int  BY <1>1, <1>16, ItemsAre
    <3>5. outstanding'[i] = order.prices[i] - Given(i)'  BY <1>19, <2>1, <3>3, <3>4
    <3> QED  BY <2>1, <3>2, <3>5
  <2>3. ASSUME ~ NamedPrice, NEW m \in Means, NEW i \in Items PROVE paid'[m][i] >= 0
    <3>1. CASE m = "routePass"
      <4>1. paid["routePass"][i] >= 0 /\ paid["routePass"][i] \in Int  BY <1>4, <1>23, <2>1, <2>3
      <4>2. values[i] \in Nat  BY <1>4, <1>16
      <4> QED  BY <1>24, <1>25, <3>1, <4>1, <4>2
    <3>2. CASE m # "routePass"
      BY <1>25, <2>1, <2>3, <3>2
    <3> QED  BY <3>1, <3>2
  <2>4. NamedPrice' <=> NamedPrice  BY <1>2 DEF NamedPrice
  <2>5. step' # "sealed"  BY <1>1, <1>2
  <2> QED  BY <1>2, <1>3, <2>2, <2>3, <2>4, <2>5 DEF ItemsAddUp
<1>35. BooksAddUp'
  <2>1. /\ Total(books, Accounts) = Total(outstanding, Items)
        /\ books.payables + books.cogs = 0 /\ books.cogs = books.referralCredits + books.userCredit
    BY <1>1 DEF PricingInv, BooksAddUp, Unsealed
  <2>2. Total(books', Accounts) = Total(outstanding', Items)
    <3>1. Total(outstanding, Items) \in Int  BY <1>1, <1>18, AmountsAre
    <3> QED  BY <1>17, <1>19, <1>26, <1>29, <1>30, <2>1, <3>1
  <2>3. /\ books'.payables = books.payables /\ books'.cogs = books.cogs
        /\ books'.referralCredits = books.referralCredits /\ books'.userCredit = books.userCredit
    BY <1>31 DEF Accounts
  <2>4. step' # "sealed"  BY <1>1, <1>2
  <2> QED  BY <1>3, <2>1, <2>2, <2>3, <2>4 DEF BooksAddUp
<1>36. PromotionsAsAdvertised'
  <2>1. promotions' = <<>>  BY <1>1, <1>2 DEF PricingInv, NotYet
  <2> QED  BY <2>1 DEF PromotionsAsAdvertised
<1>37. step' # "referred" /\ step' # "credited"  BY <1>1, <1>2
<1> QED  BY <1>32, <1>33, <1>34, <1>35, <1>36, <1>37 DEF PricingInv, HalfAtMost

\* Whom a promotion is for: no more of the unpaid items than it qualifies and allows.
LEMMA LimitedIs ==
  ASSUME PricingInv, NEW p, IsPromotion(p), WithinLimits(p)
  PROVE  /\ Unpaid \in Listed /\ Unpaid.items = {i \in Items : outstanding[i] > 0}
         /\ Limited(p) \in Listed /\ Limited(p).items \subseteq Unpaid.items
         /\ Cardinality(Limited(p).items) <= Cardinality(Qualified(p, Unpaid).items)
         /\ p.userLimit = Unlimited => Limited(p) = Qualified(p, Unpaid)
         /\ order.kind = "tickets" /\ p.userLimit # Unlimited =>
              order.userUsed + Cardinality(Limited(p).items) <= p.userLimit
<1>1. Priced /\ IsOrder(order)  BY NotYetIs
<1>2. Unpaid \in Listed /\ Unpaid.items = {i \in Items : outstanding[i] > 0}
  BY DEF Unpaid, AsTheyCome, Listed
<1>3. PICK list : list = Qualified(p, Unpaid)  OBVIOUS
<1>4. list \in Listed /\ list.items \subseteq Unpaid.items  BY <1>1, <1>2, <1>3, QualifiedNarrows
<1>5. PICK n \in Nat : n = Cardinality(list.items)
  <2>1. IsFiniteSet(list.items)  BY <1>1, <1>4, ItemsAre
  <2> QED  BY <2>1, FS_CardinalityType
<1>6. CASE order.kind = "passes" \/ p.userLimit = Unlimited
  <2>1. Limited(p) = list  BY <1>3, <1>6 DEF Limited
  <2>2. order.kind = "passes" => order.kind # "tickets"  OBVIOUS
  <2> QED  BY <1>2, <1>3, <1>4, <1>5, <1>6, <2>1, <2>2
<1>7. CASE ~ (order.kind = "passes" \/ p.userLimit = Unlimited)
  <2>1. p.userLimit \in Nat /\ order.userUsed \in Nat  BY <1>1, <1>7 DEF IsPromotion, IsOrder
  <2>2. p.userLimit > order.userUsed  BY <1>7 DEF WithinLimits
  <2>3. PICK left \in Nat : left = p.userLimit - order.userUsed  BY <2>1, <2>2
  <2>4. Limited(p) = Take(list, left)  BY <1>3, <1>7, <2>3 DEF Limited
  <2>5. /\ Take(list, left) \in Listed /\ Take(list, left).items \subseteq list.items
        /\ Cardinality(Take(list, left).items) = Smaller(n, left)
    BY <1>1, <1>4, <1>5, TakeCounts
  <2>6. Smaller(n, left) <= n /\ Smaller(n, left) <= left /\ Smaller(n, left) \in Nat  BY DEF Smaller
  <2>7. order.userUsed + Smaller(n, left) <= p.userLimit  BY <2>1, <2>3, <2>6
  <2> QED  BY <1>2, <1>3, <1>4, <1>5, <1>7, <2>4, <2>5, <2>6, <2>7
<1> QED  BY <1>6, <1>7

\* What is applied is as advertised.
LEMMA AppliedAsAdvertised ==
  ASSUME PricingInv, step = "passed", NEW p, IsPromotion(p), ApplyPromotion(p)
  PROVE  PromotionsAsAdvertised'
<1>1. Priced /\ IsOrder(order)  BY NotYetIs
<1>2. PICK list : list = Limited(p)  OBVIOUS
<1>3. PICK amounts : amounts = Discounts(p.discount, list)  OBVIOUS
<1>4. PICK refunds : refunds = RefundAdjustments(p.refund, list, amounts)  OBVIOUS
<1>5. PICK a : a = [promo |-> p, ids |-> list.items, discounts |-> amounts, refunds |-> refunds]  OBVIOUS
<1>6. /\ WithinLimits(p) /\ Computable(p.discount, list.items) /\ order' = order
      /\ promotions' = Append(promotions, a)
      /\ paid' = [paid EXCEPT !["discount"] = Spread(amounts)]
  BY <1>2, <1>3, <1>4, <1>5 DEF ApplyPromotion
<1>7. promotions = <<>>  BY DEF PricingInv, NotYet
<1>8. promotions' = <<a>>  BY <1>6, <1>7
<1>9. /\ Unpaid \in Listed /\ Unpaid.items = {i \in Items : outstanding[i] > 0}
      /\ list \in Listed /\ list.items \subseteq Unpaid.items
      /\ Cardinality(list.items) <= Cardinality(Qualified(p, Unpaid).items)
      /\ p.userLimit = Unlimited => list = Qualified(p, Unpaid)
      /\ order.kind = "tickets" /\ p.userLimit # Unlimited =>
           order.userUsed + Cardinality(list.items) <= p.userLimit
  BY <1>2, <1>6, LimitedIs
<1>10. IsDiscount(p.discount)  BY DEF IsPromotion
<1>11. PICK price : price = Total(order.prices, list.items)  OBVIOUS
<1>12. PICK given : given = Total(amounts, list.items)  OBVIOUS
<1>13. /\ amounts \in [list.items -> Int] /\ given <= price
       /\ p.discount.type = "tieredFixedByTotalValue" =>
            given = Smaller(BestTier(price, p.discount.tiers), price)
  BY <1>1, <1>3, <1>6, <1>9, <1>10, <1>11, <1>12, DiscountsGive
<1>14. Total(refunds, list.items) \in {0, given}  BY <1>1, <1>4, <1>9, <1>12, <1>13, RefundsAddUp
<1>15. Unpaid.items = {i \in Items : paid["routePass"][i] < order.prices[i]}
  <2>1. /\ outstanding \in [Items -> Nat] /\ paid \in [Means -> [Items -> Int]]
        /\ \A i \in Items : outstanding[i] = order.prices[i] - Given(i)
    BY DEF PricingInv, PricingTypeOK, ItemsAddUp
  <2>2. ASSUME NEW i \in Items PROVE outstanding[i] > 0 <=> paid["routePass"][i] < order.prices[i]
    <3>1. /\ paid["discount"][i] = 0 /\ paid["referralCredits"][i] = 0
          /\ paid["userCredit"][i] = 0 /\ paid["absorbed"][i] = 0
      <4>1. /\ paid["discount"] = Zero /\ paid["referralCredits"] = Zero
            /\ paid["userCredit"] = Zero /\ paid["absorbed"] = Zero
        BY NotYetIs DEF Means
      <4> QED  BY <1>1, <4>1, ZeroIs
    <3>2. paid["routePass"][i] \in Int /\ order.prices[i] \in Int /\ outstanding[i] \in Int
      BY <1>1, <2>1, ItemsAre DEF Means
    <3>3. Given(i) = paid["routePass"][i]  BY <3>1, <3>2 DEF Given
    <3> QED  BY <2>1, <3>2, <3>3
  <2> QED  BY <1>9, <2>2
<1>16. PICK first : first = p.criteria[1]  OBVIOUS
<1>17. PICK unpaid \in Nat : unpaid = Cardinality(Unpaid.items)
  <2>1. IsFiniteSet(Unpaid.items)  BY <1>1, <1>9, ItemsAre
  <2> QED  BY <2>1, FS_CardinalityType
<1>18. ASSUME Len(p.criteria) = 1, first.type = "n4m"
       PROVE  IF p.userLimit = Unlimited
              THEN Cardinality(list.items) = unpaid - PaidOf(unpaid, first.n, first.m)
              ELSE Cardinality(list.items) <= unpaid - PaidOf(unpaid, first.n, first.m)
  <2>1. IsCriterion(first)  BY <1>16, <1>18 DEF IsPromotion
  <2>2. first.n \in Nat /\ first.m \in 1..(first.n - 1)  BY <1>18, <2>1 DEF IsCriterion
  <2>3. Qualified(p, Unpaid) = Qualify(first, Unpaid)  BY <1>1, <1>9, <1>16, <1>18, QualifiedNarrows
  <2>4. Cardinality(Qualify(first, Unpaid).items) = FreeOutOf(unpaid, first.n, first.m)
    BY <1>1, <1>9, <1>17, <1>18, <2>1, QualifyNarrows
  <2>5. FreeOutOf(unpaid, first.n, first.m) = unpaid - PaidOf(unpaid, first.n, first.m)
    BY <2>2, FreeIsWhatIsNotPaid
  <2> QED  BY <1>9, <2>3, <2>4, <2>5
<1>19. Items' = Items /\ paid'["routePass"] = paid["routePass"]
  <2>1. paid'["routePass"] = paid["routePass"]
    BY <1>6 DEF PricingInv, PricingTypeOK, Means
  <2> QED  BY <1>6, <2>1 DEF Items
<1>20. unpaid = Cardinality({i \in Items' : paid'["routePass"][i] < order'.prices[i]})
  BY <1>6, <1>15, <1>17, <1>19
<1>21. DOMAIN promotions' = {1} /\ promotions'[1] = a  BY <1>8
<1>22. a.promo = p /\ a.ids = list.items /\ a.discounts = amounts /\ a.refunds = refunds  BY <1>5
<1>23. SUFFICES ASSUME NEW k \in {1}
       PROVE  /\ Len(a.promo.criteria) = 1 /\ first.type = "n4m" =>
                   IF a.promo.userLimit = Unlimited
                   THEN Cardinality(a.ids) = unpaid - PaidOf(unpaid, first.n, first.m)
                   ELSE Cardinality(a.ids) <= unpaid - PaidOf(unpaid, first.n, first.m)
              /\ a.promo.discount.type = "tieredFixedByTotalValue" =>
                   given = Smaller(BestTier(price, a.promo.discount.tiers), price)
              /\ order.kind = "tickets" /\ a.promo.userLimit # Unlimited =>
                   order.userUsed + Cardinality(a.ids) <= a.promo.userLimit
              /\ given <= price
              /\ Total(a.refunds, a.ids) \in {0, given}
  <2>1. /\ price = Total(order'.prices, a.ids) /\ given = Total(a.discounts, a.ids)
        /\ first = a.promo.criteria[1]
    BY <1>6, <1>11, <1>12, <1>16, <1>22
  <2> QED  BY <1>6, <1>20, <1>21, <1>23, <2>1 DEF PromotionsAsAdvertised
<1> QED  BY <1>9, <1>13, <1>14, <1>18, <1>22

\* A discount comes off what is outstanding, item by item.
LEMMA PromotionKeeps ==
  ASSUME PricingInv, step = "passed", NEW p, IsPromotion(p), ApplyPromotion(p)
  PROVE  PricingInv'
<1>1. Priced /\ IsOrder(order)  BY NotYetIs
<1>2. PICK list : list = Limited(p)  OBVIOUS
<1>3. PICK amounts : amounts = Discounts(p.discount, list)  OBVIOUS
<1>4. PICK values : values = Spread(amounts)  OBVIOUS
<1>5. PICK ids : ids = list.items  OBVIOUS
<1>6. PICK a : a = [promo |-> p, ids |-> list.items, discounts |-> amounts,
                    refunds |-> RefundAdjustments(p.refund, list, amounts)]
  OBVIOUS
<1>7. /\ WithinLimits(p) /\ Computable(p.discount, list.items)
      /\ books' = Debit(books, "discount", Total(amounts, list.items))
      /\ outstanding' = Less(outstanding, values)
      /\ discountValue' = Plus(discountValue, values)
      /\ paid' = [paid EXCEPT !["discount"] = values]
      /\ promotions' = Append(promotions, a)
      /\ step' = "promoted"
      /\ order' = order /\ tagsTried' = tagsTried
  BY <1>2, <1>3, <1>4, <1>6 DEF ApplyPromotion, DiscountLeaves, NotRefundable
<1>8. UNCHANGED <<Items, Zero>>  BY <1>7 DEF Items, Zero
<1>9. /\ outstanding \in [Items -> Nat] /\ outstanding \in [Items -> Int]
      /\ discountValue \in [Items -> Int] /\ books \in [Accounts -> Int]
      /\ paid \in [Means -> [Items -> Int]] /\ tagsTried \in Nat /\ order \in Orders
  BY DEF PricingInv, PricingTypeOK
<1>10. /\ promotions = <<>> /\ \A i \in Items : outstanding[i] \in {0, order.prices[i]}
       /\ books.payment = 0 /\ books.transfer = 0
  BY DEF PricingInv, NotYet, Unsealed
<1>11. /\ list \in Listed /\ ids \subseteq Items /\ IsFiniteSet(ids)
       /\ \A i \in ids : outstanding[i] > 0
  <2>1. /\ Unpaid.items = {i \in Items : outstanding[i] > 0}
        /\ list \in Listed /\ list.items \subseteq Unpaid.items
    BY <1>2, <1>7, LimitedIs
  <2> QED  BY <1>1, <1>5, <2>1, ItemsAre
<1>12. /\ amounts \in [ids -> Int] /\ \A i \in ids : amounts[i] <= order.prices[i]
       /\ p.discount.type # "fixedPrice" => \A i \in ids : amounts[i] >= 0
  <2>1. IsDiscount(p.discount)  BY DEF IsPromotion
  <2>2. /\ amounts \in [ids -> Int] /\ \A i \in ids : amounts[i] <= order.prices[i]
        /\ p.discount.type # "fixedPrice" => amounts \in Shares(order.prices, ids)
    BY <1>1, <1>3, <1>5, <1>7, <1>11, <2>1, DiscountsGive
  <2> QED  BY <2>2 DEF Shares
<1>13. PICK sum \in Int : sum = Total(amounts, ids)
  <2>1. \A i \in ids : amounts[i] \in Int  BY <1>12
  <2> QED  BY <1>11, <2>1, TotalIsInt
<1>14. /\ values \in [Items -> Int]
       /\ \A i \in ids : values[i] = amounts[i]
       /\ \A i \in Items \ ids : values[i] = 0
       /\ Total(values, Items) = sum
  BY <1>1, <1>4, <1>11, <1>12, <1>13, SpreadIs
<1>15. /\ \A i \in Items : outstanding'[i] = outstanding[i] - values[i]
       /\ outstanding' \in [Items -> Int]
       /\ Total(outstanding', Items) = Total(outstanding, Items) - sum
       /\ Total(outstanding, Items) \in Int
  <2>1. outstanding' = Less(outstanding, values)  BY <1>7
  <2>2. outstanding \in [Items -> Int] /\ values \in [Items -> Int]  BY <1>9, <1>14
  <2> QED  BY ONLY <1>1, <1>14, <2>1, <2>2, AmountsAre
<1>16. /\ \A i \in Items : discountValue'[i] = discountValue[i] + values[i]
       /\ discountValue' \in [Items -> Int]
  <2>1. discountValue' = Plus(discountValue, values)  BY <1>7
  <2>2. discountValue \in [Items -> Int] /\ values \in [Items -> Int]  BY <1>9, <1>14
  <2> QED  BY ONLY <1>1, <2>1, <2>2, AmountsAre
<1>17. outstanding' \in [Items -> Nat]
  <2>1. ASSUME NEW i \in Items PROVE outstanding'[i] \in Nat
    <3>1. CASE i \in ids
      <4>1. outstanding[i] = order.prices[i] /\ outstanding[i] \in Nat  BY <1>9, <1>10, <1>11, <3>1
      <4>2. values[i] \in Int /\ values[i] <= outstanding[i]  BY <1>12, <1>14, <3>1, <4>1
      <4> QED  BY <1>15, <4>1, <4>2
    <3>2. CASE i \notin ids
      <4>1. outstanding[i] \in Nat /\ values[i] = 0  BY <1>9, <1>14, <3>2
      <4> QED  BY <1>15, <4>1
    <3> QED  BY <3>1, <3>2
  <2> QED  BY <1>15, <2>1
<1>18. "discount" \in Means /\ "discount" \in Accounts  BY DEF Means, Accounts
<1>19. /\ paid' \in [Means -> [Items -> Int]]
       /\ paid'["discount"] = values
       /\ \A m \in Means \ {"discount"} : paid'[m] = paid[m]
  BY <1>7, <1>9, <1>14, <1>18
<1>20. books' \in [Accounts -> Int] /\ Total(books', Accounts) = Total(books, Accounts) - sum
  BY <1>5, <1>7, <1>9, <1>13, <1>18, BookedIs
<1>21. \A x \in Accounts \ {"discount"} : books'[x] = books[x]
  BY <1>7, <1>9 DEF Debit
<1>22. \A m \in Means \ {"routePass"} : paid[m] = Zero  BY NotYetIs
<1>23. PricingTypeOK'
  BY <1>7, <1>8, <1>9, <1>16, <1>17, <1>19, <1>20 DEF PricingTypeOK, Unsealed
<1>24. NotYet'
  <2>1. Later' = Means \ {"routePass", "discount"}  BY <1>7 DEF Later
  <2>2. \A m \in Later' : paid'[m] = Zero  BY <1>19, <1>22, <2>1
  <2>3. books'.payment = 0 /\ books'.transfer = 0  BY <1>10, <1>21 DEF Accounts
  <2> QED  BY <1>7, <1>8, <2>2, <2>3 DEF NotYet
<1>25. ItemsAddUp'
  <2>1. /\ \A i \in Items : outstanding[i] = order.prices[i] - Given(i)
        /\ \A i \in Items : discountValue[i] = paid["discount"][i] + paid["absorbed"][i]
        /\ ~ NamedPrice => \A m \in Means : \A i \in Items : paid[m][i] >= 0
    BY DEF PricingInv, ItemsAddUp
  <2>2. ASSUME NEW i \in Items
        PROVE  /\ outstanding'[i] = order.prices[i] - Given(i)'
               /\ discountValue'[i] = paid'["discount"][i] + paid'["absorbed"][i]
    <3>1. /\ paid["routePass"][i] \in Int /\ paid["discount"][i] \in Int /\ paid["referralCredits"][i] \in Int
          /\ paid["userCredit"][i] \in Int /\ paid["absorbed"][i] \in Int
      BY <1>9 DEF Means
    <3>2. /\ paid'["routePass"] = paid["routePass"] /\ paid'["referralCredits"] = paid["referralCredits"]
          /\ paid'["userCredit"] = paid["userCredit"] /\ paid'["absorbed"] = paid["absorbed"]
          /\ paid'["discount"][i] = values[i]
      BY <1>19 DEF Means
    <3>3. paid["discount"][i] = 0
      <4>1. paid["discount"] = Zero  BY <1>22 DEF Means
      <4> QED  BY <1>1, <4>1, ZeroIs
    <3>4. values[i] \in Int  BY <1>14
    <3>5. Given(i)' = Given(i) + values[i] /\ Given(i) \in Int  BY <3>1, <3>2, <3>3, <3>4 DEF Given
    <3>6. order.prices[i] \in Int  BY <1>1, ItemsAre
    <3>7. outstanding'[i] = order.prices[i] - Given(i)'  BY <1>15, <2>1, <3>4, <3>5, <3>6
    <3>8. discountValue'[i] = paid'["discount"][i] + paid'["absorbed"][i]
      BY <1>16, <2>1, <3>1, <3>2, <3>3, <3>4
    <3> QED  BY <3>7, <3>8
  <2>3. ~ NamedPrice  BY <1>10 DEF NamedPrice
  <2>4. NamedPrice' <=> p.discount.type = "fixedPrice"
    <3>1. promotions' = <<a>>  BY <1>7, <1>10
    <3>2. DOMAIN promotions' = {1} /\ promotions'[1] = a /\ a.promo = p  BY <1>6, <3>1
    <3> QED  BY <3>2 DEF NamedPrice
  <2>5. ASSUME ~ NamedPrice', NEW m \in Means, NEW i \in Items PROVE paid'[m][i] >= 0
    <3>1. CASE m = "discount"
      <4>1. values[i] >= 0  BY <1>12, <1>14, <2>4, <2>5
      <4> QED  BY <1>19, <3>1, <4>1
    <3>2. CASE m # "discount"
      BY <1>19, <2>1, <2>3, <3>2
    <3> QED  BY <3>1, <3>2
  <2>6. step' # "sealed"  BY <1>7
  <2> QED  BY <1>7, <1>8, <2>2, <2>5, <2>6 DEF ItemsAddUp
<1>26. BooksAddUp'
  <2>1. /\ Total(books, Accounts) = Total(outstanding, Items)
        /\ books.payables + books.cogs = 0 /\ books.cogs = books.referralCredits + books.userCredit
    BY DEF PricingInv, BooksAddUp, Unsealed
  <2>2. Total(books', Accounts) = Total(outstanding', Items)  BY <1>15, <1>20, <2>1
  <2>3. /\ books'.payables = books.payables /\ books'.cogs = books.cogs
        /\ books'.referralCredits = books.referralCredits /\ books'.userCredit = books.userCredit
    BY <1>21 DEF Accounts
  <2>4. step' # "sealed"  BY <1>7
  <2> QED  BY <1>8, <2>1, <2>2, <2>3, <2>4 DEF BooksAddUp
<1>27. PromotionsAsAdvertised'  BY AppliedAsAdvertised
<1>28. step' # "referred" /\ step' # "credited"  BY <1>7
<1> QED  BY <1>23, <1>24, <1>25, <1>26, <1>27, <1>28 DEF PricingInv, HalfAtMost

\* Whichever of the promotions is chosen.
LEMMA PromoCodeKeeps ==
  ASSUME PricingInv, ApplyPromoCode PROVE PricingInv'
<1>1. step = "passed"  BY DEF ApplyPromoCode
<1>2. PICK p \in Best : ApplyPromotion(p)  BY DEF ApplyPromoCode
<1>3. p \in order.promos  BY <1>2 DEF Best, Candidates
<1>4. IsPromotion(p)  BY <1>3, NotYetIs DEF IsOrder
<1> QED  BY <1>1, <1>2, <1>4, PromotionKeeps

\* What is outstanding is never negative.
LEMMA OutstandingIs ==
  ASSUME PricingInv
  PROVE  /\ outstanding \in [Items -> Nat] /\ outstanding \in [Items -> Int]
         /\ Total(outstanding, Items) \in Nat
<1>1. outstanding \in [Items -> Nat]  BY DEF PricingInv, PricingTypeOK
<1>2. \A i \in Items : outstanding[i] \in Nat /\ outstanding[i] <= outstanding[i]  BY <1>1
<1>3. outstanding \in Shares(outstanding, Items)  BY <1>1, <1>2 DEF Shares
<1>4. IsFiniteSet(Items)  BY NotYetIs, ItemsAre
<1>5. Total(outstanding, Items) \in Nat  BY <1>2, <1>3, <1>4, SharesAreSmall
<1> QED  BY <1>1, <1>5

\* What redeeming credits does to the items and the books.
LEMMA RedeemGives ==
  ASSUME PricingInv, NEW account \in {"referralCredits", "userCredit"}, NEW amount \in Nat,
         Redeem(account, amount), paid[account] = Zero, step \in Unsealed
  PROVE  /\ UNCHANGED <<order, tagsTried, discountValue, promotions>>
         /\ outstanding' \in [Items -> Nat]
         /\ books' \in [Accounts -> Int] /\ Total(books', Accounts) = Total(outstanding', Items)
         /\ books'.payables + books'.cogs = 0 /\ books'.cogs = books'.referralCredits + books'.userCredit
         /\ books'.payment = 0 /\ books'.transfer = 0
         /\ paid' \in [Means -> [Items -> Int]] /\ \A m \in Means \ {account} : paid'[m] = paid[m]
         /\ paid'[account] \in Shares(outstanding, Items)
         /\ Total(paid'[account], Items) = Smaller(amount, Total(outstanding, Items))
         /\ Proportional(amount, outstanding, Items, paid'[account])
         /\ \A i \in Items : outstanding'[i] = outstanding[i] - paid'[account][i]
<1>1. Priced  BY NotYetIs
<1>2. /\ outstanding \in [Items -> Nat] /\ outstanding \in [Items -> Int]
      /\ Total(outstanding, Items) \in Nat
  BY OutstandingIs
<1>3. books \in [Accounts -> Int] /\ paid \in [Means -> [Items -> Int]]
  BY DEF PricingInv, PricingTypeOK
<1>4. PICK list : list = AsTheyCome(Items)  OBVIOUS
<1>5. list \in Listed /\ list.items = Items  BY <1>4 DEF AsTheyCome, Listed
<1>6. PICK values : values = Distribute(amount, outstanding, list)  OBVIOUS
<1>7. /\ values \in Shares(outstanding, Items)
      /\ Total(values, Items) = Smaller(amount, Total(outstanding, Items))
      /\ Proportional(amount, outstanding, Items, values)
  <2>1. \A i \in list.items : outstanding[i] \in Nat  BY <1>2, <1>5
  <2> QED  BY <1>1, <1>5, <1>6, <2>1, DistributeGives
<1>8. PICK sum \in Nat : sum = Total(values, Items)  BY <1>2, <1>7 DEF Smaller
<1>9. /\ outstanding' = Less(outstanding, values)
      /\ paid' = [paid EXCEPT ![account] = values]
      /\ books' = Credit(Debit(Debit(books, account, sum), "cogs", sum), "payables", sum)
      /\ UNCHANGED <<order, tagsTried, discountValue, promotions>>
  BY <1>4, <1>6, <1>8 DEF Redeem
<1>10. values \in [Items -> Int] /\ \A i \in Items : values[i] \in Nat /\ values[i] <= outstanding[i]
  BY <1>7 DEF Shares
<1>11. /\ \A i \in Items : outstanding'[i] = outstanding[i] - values[i]
       /\ outstanding' \in [Items -> Int]
       /\ Total(outstanding', Items) = Total(outstanding, Items) - sum
  BY <1>1, <1>2, <1>8, <1>9, <1>10, AmountsAre
<1>12. outstanding' \in [Items -> Nat]
  <2>1. \A i \in Items : outstanding'[i] \in Nat  BY <1>2, <1>10, <1>11
  <2> QED  BY <1>11, <2>1
<1>13. account \in Means /\ account \in Accounts /\ "cogs" \in Accounts /\ "payables" \in Accounts
       /\ account # "cogs" /\ account # "payables"
  BY DEF Means, Accounts
<1>14. /\ paid' \in [Means -> [Items -> Int]] /\ paid'[account] = values
       /\ \A m \in Means \ {account} : paid'[m] = paid[m]
  BY <1>3, <1>9, <1>10, <1>13
<1>15. PICK b : b = Debit(books, account, sum)  OBVIOUS
<1>16. PICK c : c = Debit(b, "cogs", sum)  OBVIOUS
<1>17. books' = Credit(c, "payables", sum)  BY <1>9, <1>15, <1>16
<1>18. b \in [Accounts -> Int] /\ Total(b, Accounts) = Total(books, Accounts) - sum
  BY <1>3, <1>8, <1>13, <1>15, BookedIs
<1>19. c \in [Accounts -> Int] /\ Total(c, Accounts) = Total(b, Accounts) - sum
  BY <1>8, <1>13, <1>16, <1>18, BookedIs
<1>20. books' \in [Accounts -> Int] /\ Total(books', Accounts) = Total(c, Accounts) + sum
  BY <1>8, <1>13, <1>17, <1>19, BookedIs
<1>21. /\ Total(books, Accounts) = Total(outstanding, Items)
       /\ books.payables + books.cogs = 0 /\ books.cogs = books.referralCredits + books.userCredit
       /\ books.payment = 0 /\ books.transfer = 0
  BY DEF PricingInv, BooksAddUp, NotYet
<1>22. Total(books', Accounts) = Total(outstanding', Items)
  BY <1>2, <1>8, <1>11, <1>18, <1>19, <1>20, <1>21
<1>23. /\ books'[account] = books[account] - sum /\ books'["cogs"] = books["cogs"] - sum
       /\ books'["payables"] = books["payables"] + sum
       /\ \A x \in Accounts \ {account, "cogs", "payables"} : books'[x] = books[x]
  <2>1. b[account] = books[account] - sum /\ \A x \in Accounts \ {account} : b[x] = books[x]
    BY <1>3, <1>13, <1>15 DEF Debit
  <2>2. c["cogs"] = b["cogs"] - sum /\ \A x \in Accounts \ {"cogs"} : c[x] = b[x]
    BY <1>13, <1>16, <1>18 DEF Debit
  <2>3. books'["payables"] = c["payables"] + sum /\ \A x \in Accounts \ {"payables"} : books'[x] = c[x]
    BY <1>13, <1>17, <1>19 DEF Credit
  <2> QED  BY <1>13, <2>1, <2>2, <2>3
<1>24. /\ books["payables"] \in Int /\ books["cogs"] \in Int
       /\ books["referralCredits"] \in Int /\ books["userCredit"] \in Int
  BY <1>3 DEF Accounts
<1>25. books'.payables + books'.cogs = 0  BY <1>8, <1>21, <1>23, <1>24
<1>26. books'.cogs = books'.referralCredits + books'.userCredit
  <2>1. CASE account = "referralCredits"
    <3>1. books'["userCredit"] = books["userCredit"]  BY <1>23, <2>1 DEF Accounts
    <3> QED  BY <1>8, <1>21, <1>23, <1>24, <2>1, <3>1
  <2>2. CASE account = "userCredit"
    <3>1. books'["referralCredits"] = books["referralCredits"]  BY <1>23, <2>2 DEF Accounts
    <3> QED  BY <1>8, <1>21, <1>23, <1>24, <2>2, <3>1
  <2> QED  BY <2>1, <2>2
<1>27. books'.payment = 0 /\ books'.transfer = 0
  <2>1. "payment" \in Accounts \ {account, "cogs", "payables"}
        /\ "transfer" \in Accounts \ {account, "cogs", "payables"}
    BY DEF Accounts
  <2> QED  BY <1>21, <1>23, <2>1
<1> QED  BY <1>7, <1>9, <1>11, <1>12, <1>14, <1>20, <1>22, <1>25, <1>26, <1>27

\* What holds after either, whichever the account.
LEMMA RedeemKeeps ==
  ASSUME PricingInv, NEW account \in {"referralCredits", "userCredit"}, NEW amount \in Nat,
         Redeem(account, amount), paid[account] = Zero,
         \/ account = "referralCredits" /\ step = "promoted" /\ step' = "referred"
         \/ account = "userCredit" /\ step = "referred" /\ step' = "credited"
  PROVE  PricingTypeOK' /\ NotYet' /\ ItemsAddUp' /\ BooksAddUp' /\ PromotionsAsAdvertised'
<1>1. Priced  BY NotYetIs
<1>2. step \in Unsealed /\ step' \in Unsealed  BY DEF Unsealed
<1>3. /\ UNCHANGED <<order, tagsTried, discountValue, promotions>>
      /\ outstanding' \in [Items -> Nat]
      /\ books' \in [Accounts -> Int] /\ Total(books', Accounts) = Total(outstanding', Items)
      /\ books'.payables + books'.cogs = 0 /\ books'.cogs = books'.referralCredits + books'.userCredit
      /\ books'.payment = 0 /\ books'.transfer = 0
      /\ paid' \in [Means -> [Items -> Int]] /\ \A m \in Means \ {account} : paid'[m] = paid[m]
      /\ paid'[account] \in Shares(outstanding, Items)
      /\ \A i \in Items : outstanding'[i] = outstanding[i] - paid'[account][i]
  BY <1>2, RedeemGives
<1>4. UNCHANGED <<Items, Zero>>  BY <1>3 DEF Items, Zero
<1>5. /\ outstanding \in [Items -> Nat] /\ paid \in [Means -> [Items -> Int]]
      /\ tagsTried \in Nat /\ order \in Orders /\ discountValue \in [Items -> Int]
  BY DEF PricingInv, PricingTypeOK
<1>6. \A i \in Items : paid'[account][i] \in Nat  BY <1>3 DEF Shares
<1>7. account \in Means  BY DEF Means
<1>8. PricingTypeOK'  BY <1>2, <1>3, <1>4, <1>5 DEF PricingTypeOK
<1>9. NotYet'
  <2>1. \A m \in Later' : m \in Later /\ m \in Means /\ m # account  BY DEF Later, Means
  <2>2. \A m \in Later' : paid'[m] = Zero  BY <1>3, <2>1 DEF PricingInv, NotYet
  <2>3. step' \notin {"ordered", "passed"}  OBVIOUS
  <2> QED  BY <1>3, <1>4, <2>2, <2>3 DEF NotYet
<1>10. ItemsAddUp'
  <2>1. /\ \A i \in Items : outstanding[i] = order.prices[i] - Given(i)
        /\ \A i \in Items : discountValue[i] = paid["discount"][i] + paid["absorbed"][i]
        /\ ~ NamedPrice => \A m \in Means : \A i \in Items : paid[m][i] >= 0
    BY DEF PricingInv, ItemsAddUp
  <2>2. ASSUME NEW i \in Items
        PROVE  /\ outstanding'[i] = order.prices[i] - Given(i)'
               /\ discountValue'[i] = paid'["discount"][i] + paid'["absorbed"][i]
    <3>1. /\ paid["routePass"][i] \in Int /\ paid["discount"][i] \in Int /\ paid["referralCredits"][i] \in Int
          /\ paid["userCredit"][i] \in Int /\ paid["absorbed"][i] \in Int
      BY <1>5 DEF Means
    <3>2. paid'["routePass"] = paid["routePass"] /\ paid'["discount"] = paid["discount"]
          /\ paid'["absorbed"] = paid["absorbed"]
      BY <1>3 DEF Means
    <3>3. paid[account][i] = 0  BY <1>1, ZeroIs
    <3>4. PICK v \in Nat : v = paid'[account][i]  BY <1>6
    <3>5. Given(i)' = Given(i) + v /\ Given(i) \in Int
      <4>1. CASE account = "referralCredits"
        <5>1. paid'["userCredit"] = paid["userCredit"]  BY <1>3, <4>1 DEF Means
        <5> QED  BY <3>1, <3>2, <3>3, <3>4, <4>1, <5>1 DEF Given
      <4>2. CASE account = "userCredit"
        <5>1. paid'["referralCredits"] = paid["referralCredits"]  BY <1>3, <4>2 DEF Means
        <5> QED  BY <3>1, <3>2, <3>3, <3>4, <4>2, <5>1 DEF Given
      <4> QED  BY <4>1, <4>2
    <3>6. order.prices[i] \in Int  BY <1>1, ItemsAre
    <3>7. outstanding'[i] = order.prices[i] - Given(i)'  BY <1>3, <2>1, <3>4, <3>5, <3>6
    <3> QED  BY <1>3, <2>1, <3>2, <3>7
  <2>3. ASSUME ~ NamedPrice, NEW m \in Means, NEW i \in Items PROVE paid'[m][i] >= 0
    <3>1. CASE m = account
      <4>1. paid'[m][i] \in Nat  BY <1>6, <3>1
      <4> QED  BY <4>1
    <3>2. CASE m # account
      BY <1>3, <2>1, <2>3, <3>2
    <3> QED  BY <3>1, <3>2
  <2>4. NamedPrice' <=> NamedPrice  BY <1>3 DEF NamedPrice
  <2>5. step' # "sealed"  OBVIOUS
  <2> QED  BY <1>3, <1>4, <2>2, <2>3, <2>4, <2>5 DEF ItemsAddUp
<1>11. BooksAddUp'
  <2>1. step' # "sealed"  OBVIOUS
  <2> QED  BY <1>3, <1>4, <2>1 DEF BooksAddUp
<1>12. PromotionsAsAdvertised'
  <2>1. paid'["routePass"] = paid["routePass"]  BY <1>3 DEF Means
  <2> QED  BY <1>3, <2>1, AdvertisedKept DEF PricingInv
<1> QED  BY <1>8, <1>9, <1>10, <1>11, <1>12

\* Referral credits: at most half, rounded.
LEMMA ReferralCreditsKeep ==
  ASSUME PricingInv, ApplyReferralCredits PROVE PricingInv'
<1>1. Priced /\ IsOrder(order) /\ step = "promoted" /\ step' = "referred"
  BY NotYetIs DEF ApplyReferralCredits
<1>2. PICK total \in Nat : total = Total(outstanding, Items)  BY OutstandingIs
<1>3. PICK half : half = Rounded(total, 2)  OBVIOUS
<1>4. half \in Nat /\ 2 * half <= total + 1
  <2>1. 2 \in Nat \ {0}  OBVIOUS
  <2>2. half \in Nat /\ 2 * (half * 2) <= 2 * total + 2  BY <1>3, <2>1, RoundedNearby
  <2> QED  BY <2>2
<1>5. PICK amount \in Nat : amount = Smaller(order.referralCredits, half) /\ amount <= half
  <2>1. order.referralCredits \in Nat  BY <1>1 DEF IsOrder
  <2> QED  BY <1>4, <2>1 DEF Smaller
<1>6. PICK account \in {"referralCredits", "userCredit"} : account = "referralCredits"  OBVIOUS
<1>7. Redeem(account, amount)  BY <1>2, <1>3, <1>5, <1>6 DEF ApplyReferralCredits
<1>8. paid[account] = Zero  BY <1>1, <1>6, NotYetIs DEF Means
<1>9. PricingTypeOK' /\ NotYet' /\ ItemsAddUp' /\ BooksAddUp' /\ PromotionsAsAdvertised'
  BY <1>1, <1>6, <1>7, <1>8, RedeemKeeps
<1>10. step \in Unsealed  BY <1>1 DEF Unsealed
<1>11. /\ UNCHANGED <<order, tagsTried, discountValue, promotions>>
       /\ outstanding' \in [Items -> Nat]
       /\ paid'[account] \in Shares(outstanding, Items)
       /\ Total(paid'[account], Items) = Smaller(amount, total)
       /\ \A i \in Items : outstanding'[i] = outstanding[i] - paid'[account][i]
  BY <1>2, <1>7, <1>8, <1>10, RedeemGives
<1>12. Items' = Items  BY <1>11 DEF Items
<1>13. PICK values : values = paid'["referralCredits"]  OBVIOUS
<1>14. values \in [Items -> Int] /\ outstanding' \in [Items -> Int]  BY <1>6, <1>11, <1>13 DEF Shares
<1>15. PICK left \in [Items -> Int] : left = outstanding'  BY <1>14
<1>16. Plus(left, values) = outstanding
  <2>1. Plus(left, values) = [i \in Items |-> left[i] + values[i]]  BY DEF Plus
  <2>2. \A i \in Items : left[i] + values[i] = outstanding[i]
    <3>1. \A i \in Items : outstanding[i] \in Int  BY OutstandingIs
    <3> QED  BY <1>6, <1>11, <1>13, <1>14, <1>15, <3>1
  <2>3. outstanding = [i \in Items |-> outstanding[i]]  BY OutstandingIs
  <2> QED  BY <2>1, <2>2, <2>3
<1>17. HalfAtMost'
  <2>1. Plus(outstanding, paid["referralCredits"])' = Plus(left, values)
    BY <1>12, <1>13, <1>15 DEF Plus
  <2>2. 2 * Total(values, Items) <= total + 1
    <3>1. Total(values, Items) <= half /\ Total(values, Items) \in Nat
      BY <1>4, <1>5, <1>6, <1>11, <1>13 DEF Smaller
    <3> QED  BY <1>4, <3>1
  <2> QED  BY <1>2, <1>12, <1>13, <1>16, <2>1, <2>2 DEF HalfAtMost
<1> QED  BY <1>1, <1>9, <1>17 DEF PricingInv

\* Credits: all of it, in proportion.
LEMMA CreditsKeep ==
  ASSUME PricingInv, ApplyCredits PROVE PricingInv'
<1>1. Priced /\ IsOrder(order) /\ step = "referred" /\ step' = "credited"
  BY NotYetIs DEF ApplyCredits
<1>2. PICK total \in Nat : total = Total(outstanding, Items)  BY OutstandingIs
<1>3. PICK amount \in Nat : amount = order.credits  BY <1>1 DEF IsOrder
<1>4. PICK account \in {"referralCredits", "userCredit"} : account = "userCredit"  OBVIOUS
<1>5. Redeem(account, amount)  BY <1>3, <1>4 DEF ApplyCredits
<1>6. paid[account] = Zero  BY <1>1, <1>4, NotYetIs
<1>7. PricingTypeOK' /\ NotYet' /\ ItemsAddUp' /\ BooksAddUp' /\ PromotionsAsAdvertised'
  BY <1>1, <1>4, <1>5, <1>6, RedeemKeeps
<1>8. step \in Unsealed  BY <1>1 DEF Unsealed
<1>9. /\ UNCHANGED <<order, tagsTried, discountValue, promotions>>
      /\ outstanding' \in [Items -> Nat]
      /\ \A m \in Means \ {account} : paid'[m] = paid[m]
      /\ paid'[account] \in Shares(outstanding, Items)
      /\ Total(paid'[account], Items) = Smaller(amount, total)
      /\ Proportional(amount, outstanding, Items, paid'[account])
      /\ \A i \in Items : outstanding'[i] = outstanding[i] - paid'[account][i]
  BY <1>2, <1>5, <1>6, <1>8, RedeemGives
<1>10. Items' = Items  BY <1>9 DEF Items
<1>11. PICK values : values = paid'["userCredit"]  OBVIOUS
<1>12. values \in [Items -> Int] /\ outstanding' \in [Items -> Int]  BY <1>4, <1>9, <1>11 DEF Shares
<1>13. PICK left \in [Items -> Int] : left = outstanding'  BY <1>12
<1>14. Plus(left, values) = outstanding
  <2>1. Plus(left, values) = [i \in Items |-> left[i] + values[i]]  BY DEF Plus
  <2>2. \A i \in Items : left[i] + values[i] = outstanding[i]
    <3>1. \A i \in Items : outstanding[i] \in Int  BY OutstandingIs
    <3> QED  BY <1>4, <1>9, <1>11, <1>12, <1>13, <3>1
  <2>3. outstanding = [i \in Items |-> outstanding[i]]  BY OutstandingIs
  <2> QED  BY <2>1, <2>2, <2>3
<1>15. paid'["referralCredits"] = paid["referralCredits"]  BY <1>4, <1>9 DEF Means
<1>16. 2 * Total(paid["referralCredits"], Items) <= Total(Plus(outstanding, paid["referralCredits"]), Items) + 1
  BY <1>1 DEF PricingInv, HalfAtMost
<1>17. \A i \in Items : values[i] * total - outstanding[i] * Smaller(amount, total)
         \in -(total * Len(order.prices))..(total * Len(order.prices))
  <2>1. Cardinality(Items) = Len(order.prices)
    <3>1. Len(order.prices) \in Nat  BY <1>1 DEF Priced
    <3>2. Cardinality(1..Len(order.prices)) = Len(order.prices)
      <4>01. PICK n \in Nat : n = Len(order.prices)  BY <3>1
      <4>1. Cardinality(1..n) = IF 1 > n THEN 0 ELSE n - 1 + 1
        <5>1. 1 \in Int /\ n \in Int  OBVIOUS
        <5> QED  BY ONLY <5>1, FS_Interval
      <4>2. Cardinality(1..n) = n  BY ONLY <4>1, n \in Nat
      <4> QED  BY <4>01, <4>2
    <3> QED  BY <3>2 DEF Items
  <2> QED  BY <1>2, <1>4, <1>9, <1>11, <2>1 DEF Proportional
<1>18. SharedInProportion'
  <2>1. Plus(outstanding, paid["userCredit"])' = outstanding
    BY <1>10, <1>11, <1>13, <1>14 DEF Plus
  <2>2. Plus(Plus(outstanding, paid["userCredit"]), paid["referralCredits"])'
          = Plus(outstanding, paid["referralCredits"])
    BY <1>10, <1>15, <2>1 DEF Plus
  <2>3. InProportion(order.credits, Plus(outstanding, paid["userCredit"]), paid["userCredit"])'
    BY <1>2, <1>3, <1>9, <1>10, <1>11, <1>17, <2>1 DEF InProportion
  <2>4. Total(values, Items) = Smaller(order.credits, total)  BY <1>3, <1>4, <1>9, <1>11
  <2> QED  BY <1>2, <1>9, <1>10, <1>11, <1>15, <1>16, <2>1, <2>2, <2>3, <2>4 DEF SharedInProportion
<1> QED  BY <1>1, <1>7, <1>18 DEF PricingInv, HalfAtMost

\* What is not worth charging is given away.
LEMMA AbsorbKeeps ==
  ASSUME PricingInv, AbsorbSmallPayments PROVE PricingInv'
<1>1. Priced /\ step = "credited" /\ step' = "absorbed"
      /\ UNCHANGED <<order, tagsTried, promotions>>
  BY NotYetIs DEF AbsorbSmallPayments
<1>2. UNCHANGED <<Items, Zero>>  BY <1>1 DEF Items, Zero
<1>3. /\ order \in Orders /\ tagsTried \in Nat
      /\ outstanding \in [Items -> Nat] /\ discountValue \in [Items -> Int]
      /\ books \in [Accounts -> Int] /\ paid \in [Means -> [Items -> Int]]
  BY DEF PricingInv, PricingTypeOK
<1>4. PICK total \in Nat : total = Total(outstanding, Items)  BY OutstandingIs
<1>5. /\ Total(books, Accounts) = total
      /\ books.payables + books.cogs = 0 /\ books.cogs = books.referralCredits + books.userCredit
      /\ books.payment = 0 /\ books.transfer = 0
  BY <1>1, <1>4 DEF PricingInv, BooksAddUp, NotYet, Unsealed
<1>6. /\ \A i \in Items : outstanding[i] = order.prices[i] - Given(i)
      /\ \A i \in Items : discountValue[i] = paid["discount"][i] + paid["absorbed"][i]
      /\ ~ NamedPrice => \A m \in Means : \A i \in Items : paid[m][i] >= 0
  BY DEF PricingInv, ItemsAddUp
<1>7. Zero \in [Items -> Nat] /\ (\A i \in Items : Zero[i] = 0) /\ Total(Zero, Items) = 0  BY <1>1, ZeroIs
<1>8. paid["absorbed"] = Zero /\ paid["payment"] = Zero  BY <1>1, NotYetIs
<1>9. step' # "sealed" /\ step' # "referred" /\ step' # "credited" /\ step' \notin {"ordered", "passed"}
      /\ step' \in Unsealed /\ step \in Unsealed /\ Later' = {"payment"}
  BY <1>1 DEF Later, Unsealed
<1>10. NamedPrice' <=> NamedPrice  BY <1>1 DEF NamedPrice
<1>11. CASE ExcessCredit > 0 /\ ExcessCredit <= MinCharge
  <2>1. /\ outstanding' = Zero
        /\ discountValue' = Plus(discountValue, outstanding)
        /\ paid' = [paid EXCEPT !["absorbed"] = outstanding]
        /\ books' = Debit(books, "discount", total)
    BY <1>5, <1>11 DEF AbsorbSmallPayments, NotRefundable, ExcessCredit
  <2>2. "absorbed" \in Means /\ "discount" \in Accounts  BY DEF Means, Accounts
  <2>3. outstanding \in [Items -> Int]  BY OutstandingIs
  <2>4. discountValue' \in [Items -> Int] /\ \A i \in Items : discountValue'[i] = discountValue[i] + outstanding[i]
    BY <1>1, <1>3, <2>1, <2>3, AmountsAre
  <2>5. /\ paid' \in [Means -> [Items -> Int]] /\ paid'["absorbed"] = outstanding
        /\ \A m \in Means \ {"absorbed"} : paid'[m] = paid[m]
    BY <1>3, <2>1, <2>2, <2>3
  <2>6. books' \in [Accounts -> Int] /\ Total(books', Accounts) = 0
    <3>1. books' \in [Accounts -> Int] /\ Total(books', Accounts) = Total(books, Accounts) - total
      BY <1>3, <2>1, <2>2, BookedIs
    <3> QED  BY <1>5, <3>1
  <2>7. \A x \in Accounts \ {"discount"} : books'[x] = books[x]  BY <1>3, <2>1 DEF Debit
  <2>8. PricingTypeOK'  BY <1>1, <1>2, <1>3, <1>7, <1>9, <2>1, <2>4, <2>5, <2>6 DEF PricingTypeOK
  <2>9. NotYet'
    <3>1. books'.payment = 0 /\ books'.transfer = 0  BY <1>5, <2>7 DEF Accounts
    <3>2. paid'["payment"] = Zero  BY <1>8, <2>5 DEF Means
    <3> QED  BY <1>2, <1>9, <3>1, <3>2 DEF NotYet
  <2>10. ItemsAddUp'
    <3>1. ASSUME NEW i \in Items
          PROVE  /\ outstanding'[i] = order.prices[i] - Given(i)'
                 /\ discountValue'[i] = paid'["discount"][i] + paid'["absorbed"][i]
      <4>1. /\ paid["routePass"][i] \in Int /\ paid["discount"][i] \in Int /\ paid["referralCredits"][i] \in Int
            /\ paid["userCredit"][i] \in Int /\ paid["absorbed"][i] \in Int
        BY <1>3 DEF Means
      <4>2. /\ paid'["routePass"] = paid["routePass"] /\ paid'["discount"] = paid["discount"]
            /\ paid'["referralCredits"] = paid["referralCredits"] /\ paid'["userCredit"] = paid["userCredit"]
        BY <2>5 DEF Means
      <4>3. paid["absorbed"][i] = 0 /\ paid'["absorbed"][i] = outstanding[i] /\ outstanding[i] \in Int
        BY <1>7, <1>8, <2>3, <2>5
      <4>4. Given(i)' = Given(i) + outstanding[i] /\ Given(i) \in Int  BY <4>1, <4>2, <4>3 DEF Given
      <4>5. order.prices[i] \in Int  BY <1>1, ItemsAre
      <4>6. outstanding'[i] = order.prices[i] - Given(i)'  BY <1>6, <1>7, <2>1, <4>3, <4>4, <4>5
      <4>7. discountValue'[i] = paid'["discount"][i] + paid'["absorbed"][i]
        BY <1>6, <2>4, <4>1, <4>2, <4>3
      <4> QED  BY <4>6, <4>7
    <3>2. ASSUME ~ NamedPrice, NEW m \in Means, NEW i \in Items PROVE paid'[m][i] >= 0
      <4>1. CASE m = "absorbed"
        <5>1. outstanding[i] \in Nat  BY <1>3
        <5> QED  BY <2>5, <4>1, <5>1
      <4>2. CASE m # "absorbed"
        BY <1>6, <2>5, <3>2, <4>2
      <4> QED  BY <4>1, <4>2
    <3> QED  BY <1>1, <1>2, <1>9, <1>10, <3>1, <3>2 DEF ItemsAddUp
  <2>11. BooksAddUp'
    <3>1. /\ books'.payables = books.payables /\ books'.cogs = books.cogs
          /\ books'.referralCredits = books.referralCredits /\ books'.userCredit = books.userCredit
      BY <2>7 DEF Accounts
    <3> QED  BY <1>2, <1>5, <1>7, <1>9, <2>1, <2>6, <3>1 DEF BooksAddUp
  <2>12. PromotionsAsAdvertised'
    <3>1. paid'["routePass"] = paid["routePass"]  BY <2>5 DEF Means
    <3> QED  BY <1>1, <3>1, AdvertisedKept DEF PricingInv
  <2> QED  BY <1>9, <2>8, <2>9, <2>10, <2>11, <2>12 DEF PricingInv, HalfAtMost
<1>12. CASE ~ (ExcessCredit > 0 /\ ExcessCredit <= MinCharge)
  <2>1. UNCHANGED <<outstanding, discountValue, paid, books>>  BY <1>12 DEF AbsorbSmallPayments
  <2>2. PricingTypeOK'  BY <1>1, <1>2, <1>3, <1>9, <2>1 DEF PricingTypeOK
  <2>3. NotYet'  BY <1>2, <1>5, <1>8, <1>9, <2>1 DEF NotYet
  <2>4. ItemsAddUp'
    <3>1. \A i \in Items : Given(i)' = Given(i)  BY <2>1 DEF Given
    <3> QED  BY <1>1, <1>2, <1>6, <1>9, <1>10, <2>1, <3>1 DEF ItemsAddUp
  <2>5. BooksAddUp'  BY <1>2, <1>4, <1>5, <1>9, <2>1 DEF BooksAddUp
  <2>6. PromotionsAsAdvertised'  BY <1>1, <2>1, AdvertisedKept DEF PricingInv
  <2> QED  BY <1>9, <2>2, <2>3, <2>4, <2>5, <2>6 DEF PricingInv, HalfAtMost
<1> QED  BY <1>11, <1>12

\* The card pays for the rest, which is what the operator is still owed.
LEMMA FinalizeKeeps ==
  ASSUME PricingInv, FinalizeForPayment PROVE PricingInv'
<1>1. Priced /\ step \in Unsealed /\ step' = "sealed"
      /\ UNCHANGED <<order, tagsTried, outstanding, discountValue, promotions>>
  BY NotYetIs DEF FinalizeForPayment, ReadyForPayment, Unsealed
<1>2. UNCHANGED <<Items, Zero>>  BY <1>1 DEF Items, Zero
<1>3. /\ order \in Orders /\ tagsTried \in Nat
      /\ outstanding \in [Items -> Nat] /\ discountValue \in [Items -> Int]
      /\ books \in [Accounts -> Int] /\ paid \in [Means -> [Items -> Int]]
  BY DEF PricingInv, PricingTypeOK
<1>4. PICK excess \in Nat : excess = Total(outstanding, Items)  BY OutstandingIs
<1>5. /\ Total(books, Accounts) = excess
      /\ books.payables + books.cogs = 0 /\ books.cogs = books.referralCredits + books.userCredit
      /\ books.payment = 0 /\ books.transfer = 0
  BY <1>1, <1>4 DEF PricingInv, BooksAddUp, NotYet
<1>6. /\ "payment" \in Accounts /\ "transfer" \in Accounts /\ "cogs" \in Accounts /\ "payment" \in Means
  BY DEF Accounts, Means
<1>7. /\ books' = [Credit(Debit(books, "payment", excess), "transfer", excess)
                     EXCEPT !["cogs"] = books["cogs"] - excess]
      /\ paid' = IF order.kind = "tickets" THEN [paid EXCEPT !["payment"] = outstanding] ELSE paid
  BY <1>5 DEF FinalizeForPayment, ExcessCredit, CogsAfter
<1>8. books' \in [Accounts -> Int] /\ books'["payment"] = books["payment"] - excess
      /\ books'["transfer"] = books["transfer"] + excess /\ books'["cogs"] = books["cogs"] - excess
      /\ \A x \in Accounts \ {"payment", "transfer", "cogs"} : books'[x] = books[x]
  <2>1. PICK b : b = Debit(books, "payment", excess)  OBVIOUS
  <2>2. b \in [Accounts -> Int] /\ b["payment"] = books["payment"] - excess
        /\ \A x \in Accounts \ {"payment"} : b[x] = books[x]
    BY <1>3, <1>6, <2>1 DEF Debit
  <2>3. PICK c : c = Credit(b, "transfer", excess)  OBVIOUS
  <2>4. c \in [Accounts -> Int] /\ c["transfer"] = b["transfer"] + excess
        /\ \A x \in Accounts \ {"transfer"} : c[x] = b[x]
    BY <1>6, <2>2, <2>3 DEF Credit
  <2>5. books' = [c EXCEPT !["cogs"] = books["cogs"] - excess]  BY <1>7, <2>1, <2>3
  <2>6. books["cogs"] - excess \in Int  BY <1>3, <1>6
  <2>7. books' \in [Accounts -> Int] /\ books'["cogs"] = books["cogs"] - excess
        /\ \A x \in Accounts \ {"cogs"} : books'[x] = c[x]
    BY <1>6, <2>4, <2>5, <2>6
  <2> QED  BY <1>6, <2>2, <2>4, <2>7
<1>9. /\ paid' \in [Means -> [Items -> Int]]
      /\ \A m \in Means \ {"payment"} : paid'[m] = paid[m]
      /\ order.kind = "tickets" => paid'["payment"] = outstanding
      /\ paid'["payment"] \in {outstanding, paid["payment"]}
  <2>1. outstanding \in [Items -> Int]  BY OutstandingIs
  <2> QED  BY <1>3, <1>6, <1>7, <2>1
<1>10. PricingTypeOK'  BY <1>1, <1>2, <1>3, <1>8, <1>9 DEF PricingTypeOK, Unsealed
<1>11. NotYet'
  <2>1. Later' = {} /\ step' \notin Unsealed /\ step' \notin {"ordered", "passed"}
    BY <1>1 DEF Later, Unsealed
  <2> QED  BY <2>1 DEF NotYet
<1>12. ItemsAddUp'
  <2>1. /\ \A i \in Items : outstanding[i] = order.prices[i] - Given(i)
        /\ \A i \in Items : discountValue[i] = paid["discount"][i] + paid["absorbed"][i]
        /\ ~ NamedPrice => \A m \in Means : \A i \in Items : paid[m][i] >= 0
    BY DEF PricingInv, ItemsAddUp
  <2>2. /\ paid'["routePass"] = paid["routePass"] /\ paid'["discount"] = paid["discount"]
        /\ paid'["referralCredits"] = paid["referralCredits"]
        /\ paid'["userCredit"] = paid["userCredit"] /\ paid'["absorbed"] = paid["absorbed"]
    BY <1>9 DEF Means
  <2>3. \A i \in Items : Given(i)' = Given(i)  BY <2>2 DEF Given
  <2>4. NamedPrice' <=> NamedPrice  BY <1>1 DEF NamedPrice
  <2>5. ASSUME ~ NamedPrice, NEW m \in Means, NEW i \in Items PROVE paid'[m][i] >= 0
    <3>1. paid[m][i] >= 0 /\ outstanding[i] >= 0 /\ paid["payment"][i] >= 0
      BY <1>3, <1>6, <2>1, <2>5
    <3> QED  BY <1>9, <3>1
  <2> QED  BY <1>1, <1>2, <1>9, <2>1, <2>2, <2>3, <2>4, <2>5 DEF ItemsAddUp
<1>13. BooksAddUp'
  <2>1. /\ books["ticketSale"] \in Int /\ books["routePass"] \in Int /\ books["discrepancy"] \in Int
        /\ books["discount"] \in Int /\ books["referralCredits"] \in Int /\ books["userCredit"] \in Int
        /\ books["payables"] \in Int /\ books["cogs"] \in Int
    BY <1>3 DEF Accounts
  <2>2. /\ books'["ticketSale"] = books["ticketSale"] /\ books'["routePass"] = books["routePass"]
        /\ books'["discrepancy"] = books["discrepancy"] /\ books'["discount"] = books["discount"]
        /\ books'["referralCredits"] = books["referralCredits"] /\ books'["userCredit"] = books["userCredit"]
        /\ books'["payables"] = books["payables"]
    BY <1>8 DEF Accounts
  <2>3. excess = books["ticketSale"] + books["routePass"] + books["discrepancy"] + books["discount"]
                   + books["referralCredits"] + books["userCredit"] + books["payables"] + books["cogs"]
    <3>1. Total(books, Accounts) = books["ticketSale"] + books["routePass"] + books["discrepancy"] + books["discount"]
                   + books["referralCredits"] + books["userCredit"] + books["payables"] + books["cogs"]
                   + books["payment"] + books["transfer"]
      BY <1>3, TotalOfAccounts
    <3> QED  BY <1>5, <2>1, <3>1
  <2>4. Total(books', Accounts)
          = books'["ticketSale"] + books'["routePass"] + books'["discrepancy"] + books'["discount"]
              + books'["referralCredits"] + books'["userCredit"] + books'["payables"] + books'["cogs"]
              + books'["payment"] + books'["transfer"]
    BY <1>8, TotalOfAccounts
  <2>5. books'["payment"] = - excess /\ books'["transfer"] = excess  BY <1>5, <1>8
  <2>6. Total(books', Accounts) = 0  BY <1>8, <2>1, <2>2, <2>3, <2>4, <2>5
  <2>7. books'.transfer + books'.payables = - books'.cogs  BY <1>5, <1>8, <2>1, <2>2, <2>5
  <2>8. books'.transfer + books'.payables
          = books'.ticketSale + books'.discount + books'.routePass + books'.discrepancy
    <3>1. excess + books["payables"]
            = books["ticketSale"] + books["discount"] + books["routePass"] + books["discrepancy"]
      <4>1. PICK s \in Int : s = books["ticketSale"] + books["routePass"] + books["discrepancy"] + books["discount"]
        BY <2>1
      <4>2. s = books["ticketSale"] + books["discount"] + books["routePass"] + books["discrepancy"]
        BY <2>1, <4>1
      <4>3. excess = s + books["referralCredits"] + books["userCredit"] + books["payables"] + books["cogs"]
        BY <2>1, <2>3, <4>1
      <4>4. books["cogs"] = books["referralCredits"] + books["userCredit"]
            /\ books["payables"] + books["cogs"] = 0
        BY <1>5
      <4>5. excess = s + books["cogs"]  BY <2>1, <4>3, <4>4
      <4>7. PICK p \in Int, c \in Int : p = books["payables"] /\ c = books["cogs"]  BY <2>1
      <4>8. excess = s + c /\ p + c = 0  BY <4>4, <4>5, <4>7
      <4>6. excess + books["payables"] = s  BY <4>7, <4>8
      <4> QED  BY <4>2, <4>6
    <3> QED  BY <2>2, <2>5, <3>1
  <2>9. step' \notin Unsealed  BY <1>1 DEF Unsealed
  <2> QED  BY <2>6, <2>7, <2>8, <2>9 DEF BooksAddUp, OperatorIsOwed, ExcessCredit
<1>14. PromotionsAsAdvertised'
  <2>1. paid'["routePass"] = paid["routePass"]  BY <1>9 DEF Means
  <2> QED  BY <1>1, <2>1, AdvertisedKept DEF PricingInv
<1>15. step' # "referred" /\ step' # "credited"  BY <1>1
<1> QED  BY <1>10, <1>11, <1>12, <1>13, <1>14, <1>15 DEF PricingInv, HalfAtMost

\* For every set of orders, whatever they hold: at every step of the builder the items and the
\* books are where they should be.
THEOREM PricingIsInvariant == PricingSpec => []PricingInv
<1>1. PricingInit => PricingInv  BY PricingStarts
<1>2. PricingInv /\ [PricingNext]_pricingVars => PricingInv'
  <2> SUFFICES ASSUME PricingInv, [PricingNext]_pricingVars PROVE PricingInv'  OBVIOUS
  <2>1. CASE ApplyRoutePass  BY <2>1, RoutePassKeeps
  <2>2. CASE PassesApplied  BY <2>2, OnlyTheStep DEF PassesApplied
  <2>3. CASE ApplyPromoCode  BY <2>3, PromoCodeKeeps
  <2>4. CASE NoPromoCode  BY <2>4, OnlyTheStep DEF NoPromoCode
  <2>5. CASE RefusePromoCode  BY <2>5, OnlyTheStep DEF RefusePromoCode, Refuse
  <2>6. CASE ApplyReferralCredits  BY <2>6, ReferralCreditsKeep
  <2>7. CASE ApplyCredits  BY <2>7, CreditsKeep
  <2>8. CASE AbsorbSmallPayments  BY <2>8, AbsorbKeeps
  <2>9. CASE FinalizeForPayment  BY <2>9, FinalizeKeeps
  <2>10. CASE PriceHasChanged  BY <2>10, OnlyTheStep DEF PriceHasChanged, Refuse
  <2>11. CASE UNCHANGED pricingVars
    <3>1. UNCHANGED <<Items, Zero, Later>>  BY <2>11 DEF pricingVars, Items, Zero, Later
    <3>2. PricingTypeOK'  BY <2>11, <3>1 DEF PricingInv, PricingTypeOK, pricingVars
    <3>3. NotYet'  BY <2>11, <3>1 DEF PricingInv, NotYet, pricingVars
    <3>4. ItemsAddUp'  BY <2>11, <3>1 DEF PricingInv, ItemsAddUp, Given, NamedPrice, pricingVars
    <3>5. BooksAddUp'
      BY <2>11, <3>1 DEF PricingInv, BooksAddUp, ExcessCredit, OperatorIsOwed, pricingVars
    <3>6. HalfAtMost'  BY <2>11, <3>1 DEF PricingInv, HalfAtMost, Plus, pricingVars
    <3>7. (step = "credited" => SharedInProportion)'
      BY <2>11, <3>1 DEF PricingInv, SharedInProportion, InProportion, Plus, pricingVars
    <3>8. PromotionsAsAdvertised'  BY <2>11, AdvertisedKept DEF PricingInv, pricingVars
    <3> QED  BY <3>2, <3>3, <3>4, <3>5, <3>6, <3>7, <3>8 DEF PricingInv
  <2> QED
    BY <2>1, <2>2, <2>3, <2>4, <2>5, <2>6, <2>7, <2>8, <2>9, <2>10, <2>11 DEF PricingNext
<1> QED  BY <1>1, <1>2, PTL DEF PricingSpec

\* What the records of a sealed purchase say of an item.
LEMMA SealedIsPaidFor ==
  ASSUME PricingInv, step = "sealed", order.kind = "tickets", NEW i \in Items
  PROVE  /\ GivenBy(Means, i) = order.prices[i]
         /\ ~ NamedPrice => \A m \in Means : paid[m][i] \in 0..order.prices[i]
<1>1. Priced  BY NotYetIs
<1>2. /\ outstanding \in [Items -> Nat] /\ paid \in [Means -> [Items -> Int]]
      /\ outstanding[i] = order.prices[i] - Given(i)
      /\ discountValue[i] = paid["discount"][i] + paid["absorbed"][i]
      /\ paid["payment"] = outstanding
      /\ ~ NamedPrice => \A m \in Means : paid[m][i] >= 0
  BY DEF PricingInv, PricingTypeOK, ItemsAddUp
<1>3. PICK g : g = [m \in Means |-> paid[m][i]]  OBVIOUS
<1>4. g \in [Means -> Int]  BY <1>2, <1>3
<1>5. Total(g, Means) = g["routePass"] + g["referralCredits"] + g["userCredit"] + g["payment"]
                             + g["discount"] + g["absorbed"]
  BY <1>4, TotalOfMeans
<1>6. GivenBy(Means, i) = Total(g, Means)  BY <1>3 DEF GivenBy
<1>7. PICK rp \in Int, ref \in Int, uc \in Int, pay \in Int, dis \in Int, abs \in Int :
         /\ rp = paid["routePass"][i] /\ ref = paid["referralCredits"][i] /\ uc = paid["userCredit"][i]
         /\ pay = paid["payment"][i] /\ dis = paid["discount"][i] /\ abs = paid["absorbed"][i]
  BY <1>2 DEF Means
<1>8. /\ g["routePass"] = rp /\ g["referralCredits"] = ref /\ g["userCredit"] = uc
       /\ g["payment"] = pay /\ g["discount"] = dis /\ g["absorbed"] = abs
  BY <1>3, <1>7 DEF Means
<1>9. PICK price \in Nat : price = order.prices[i]  BY <1>1, ItemsAre
<1>10. pay = price - (rp + dis + ref + uc + abs)  BY <1>2, <1>7, <1>9 DEF Given
<1>11. GivenBy(Means, i) = price
  <2>1. GivenBy(Means, i) = rp + ref + uc + pay + dis + abs  BY <1>5, <1>6, <1>8
  <2> QED  BY <1>10, <2>1
<1>12. ASSUME ~ NamedPrice, NEW m \in Means PROVE paid[m][i] \in 0..order.prices[i]
  <2>1. /\ rp >= 0 /\ ref >= 0 /\ uc >= 0 /\ pay >= 0 /\ dis >= 0 /\ abs >= 0
    BY <1>2, <1>7, <1>12 DEF Means
  <2>2. /\ rp \in 0..price /\ ref \in 0..price /\ uc \in 0..price
        /\ pay \in 0..price /\ dis \in 0..price /\ abs \in 0..price
    BY <1>10, <2>1
  <2>3. paid[m][i] \in {rp, ref, uc, pay, dis, abs}  BY <1>7 DEF Means
  <2> QED  BY <1>9, <2>2, <2>3
<1> QED  BY <1>9, <1>11, <1>12

\* For every order: at each step the books are out of balance by what the items have outstanding,
\* the assertions of build() and of finalizeForPayment never fail, and what the operator is owed
\* is the price less what passes and discounts took off.
THEOREM BooksBalanceAlways == PricingSpec => []BooksBalance
<1>1. PricingInv => BooksBalance
  <2> SUFFICES ASSUME PricingInv PROVE BooksBalance  OBVIOUS
  <2>1. BooksAddUp  BY DEF PricingInv
  <2> QED  BY <2>1 DEF BooksAddUp, BooksBalance, ExcessCredit, Unsealed
<1> QED  BY <1>1, PricingIsInvariant, PTL

\* For every order of tickets: the shares of the means of payment add up to each item's price,
\* none is negative, and credits are shared in proportion.
THEOREM EveryItemIsPaidForAlways == PricingSpec => []EveryItemIsPaidFor
<1>1. PricingInv => EveryItemIsPaidFor
  BY SealedIsPaidFor DEF PricingInv, EveryItemIsPaidFor
<1> QED  BY <1>1, PricingIsInvariant, PTL

\* For every order and promotion: n for the price of m, the highest tier reached, no more items
\* than the user has uses left, at most the price; refunds take back the discount, or nothing.
THEOREM PromotionsAsAdvertisedAlways == PricingSpec => []PromotionsAsAdvertised
<1>1. PricingInv => PromotionsAsAdvertised  BY DEF PricingInv
<1> QED  BY <1>1, PricingIsInvariant, PTL
===============================================================================
