----------------------------- MODULE RoutePasses ------------------------------
(***************************************************************************)
(* The passes of one user for one route: bought by card, used by ticket    *)
(* purchases instead of money, refunded through Stripe, expired by         *)
(* operators and by a nightly job, issued for nothing.  A purchase, of     *)
(* passes or of tickets, is undone when its card is declined.              *)
(*                                                                         *)
(* Every handler keeps the passes it read in memory ("mine") and writes    *)
(* their rows later, in transactions of DbTransactions.                    *)
(***************************************************************************)
EXTENDS Integers, FiniteSets

CONSTANTS
  Orders,       \* requests POST /transactions/route_passes/payment
  Sales,        \* requests POST /transactions/tickets/payment that apply passes
  Refunds,      \* requests POST /transactions/route_passes/{id}/refund/payment
  Expiries,     \* requests POST /companies/{id}/route_passes/.../expire
  MaxPasses,    \* bound on the rows of the table routePasses
  MaxQuantity,  \* bound on the passes or tickets of a request
  Faults        \* which failures of the environment are considered

Clients == Orders \cup Sales \cup Refunds \cup Expiries
PassIds == 1..MaxPasses

ASSUME PassesBound == MaxPasses \in Nat
ASSUME QuantityBound == MaxQuantity \in Nat \ {0}
ASSUME HandlersFinite == IsFiniteSet(Clients)
ASSUME FaultKinds == Faults \subseteq {"crash", "lostReply", "dbError"}
ASSUME HandlersDisjoint ==
  /\ Orders \cap (Sales \cup Refunds \cup Expiries) = {}
  /\ Sales \cap (Refunds \cup Expiries) = {}
  /\ Refunds \cap Expiries = {}

VARIABLES
  status,         \* table routePasses: the status of each pass ("none": no row)
  at,             \* how far each handler is
  mine,           \* the passes each handler holds in memory
  tickets,        \* the number of tickets of each sale, until it is committed
  charged,        \* orders whose card Stripe has charged
  stripeRefunds,  \* passes whose price Stripe has returned
  lapsed,         \* passes for which the nightly job has booked an expiry
  open, stale

passVars == <<status, at, mine, tickets, charged, stripeRefunds, lapsed, open, stale>>

INSTANCE DbTransactions

Statuses == {"none", "valid", "void", "refunded", "failed", "expired"}
Steps ==
  {"new", "read", "open", "stripe", "charged", "undoing", "releasing",
   "done", "undone", "rejected", "stranded"}

\* The transaction a handler committed stands: it was not undone.
Standing(c)  == at[c] \in {"stripe", "charged", "undoing", "releasing", "done", "stranded"}
Committed(c) == Standing(c) \/ at[c] = "undone"

Valid  == {p \in PassIds : status[p] = "valid"}
Unborn == {p \in PassIds : status[p] = "none"}

\* Passes of a set in the order of their ids, the first n of them.
First(passes, n) == {p \in passes : Cardinality({q \in passes : q < p}) < n}

Goto(c, step) == at' = [at EXCEPT ![c] = step]

\* The handler ends without effect, and what it had in memory with it.
Drop(c) ==
  /\ Goto(c, "rejected")
  /\ mine' = [mine EXCEPT ![c] = {}]
  /\ tickets' = [s \in Sales |-> IF s = c THEN 0 ELSE tickets[s]]

Write(passes, s) == status' = [p \in PassIds |-> IF p \in passes THEN s ELSE status[p]]

Init ==
  /\ status = [p \in PassIds |-> "none"]
  /\ at = [c \in Clients |-> "new"]
  /\ mine = [c \in Clients |-> {}]
  /\ tickets = [s \in Sales |-> 0]
  /\ charged = {}
  /\ stripeRefunds = {}
  /\ lapsed = {}
  /\ open = {}
  /\ stale = [c \in Clients |-> {}]

(***************************************************************************)
(* Passes come into being.                                                 *)
(***************************************************************************)

\* purchaseRoutePass: valid, and the transaction committed, before Stripe is asked.
BuyPasses(o) ==
  /\ at[o] = "new"
  /\ \E n \in 1..MaxQuantity :
       LET bought == First(Unborn, n)
       IN  /\ Cardinality(bought) = n
           /\ Write(bought, "valid")
           /\ mine' = [mine EXCEPT ![o] = bought]
  /\ Goto(o, "stripe")
  /\ UNCHANGED <<tickets, charged, stripeRefunds, lapsed, open, stale>>

\* issue_free, or the refund of a ticket to a pass: no payment behind the pass.
GrantPass ==
  /\ Unborn # {}
  /\ Write(First(Unborn, 1), "valid")
  /\ UNCHANGED <<at, mine, tickets, charged, stripeRefunds, lapsed, open, stale>>

(***************************************************************************)
(* applyRoutePass: a sale of n tickets uses the oldest valid passes, and   *)
(* charges the card for the tickets they do not cover.                     *)
(***************************************************************************)
SaleBegin(s) ==
  /\ at[s] = "new"
  /\ Valid # {}
  /\ \E n \in 1..MaxQuantity :
       /\ tickets' = [tickets EXCEPT ![s] = n]
       /\ mine' = [mine EXCEPT ![s] = First(Valid, n)]
  /\ Goto(s, "open")
  /\ BeginTx(s)
  /\ UNCHANGED <<status, charged, stripeRefunds, lapsed>>

\* Nothing is left to charge when the passes cover the tickets.
SaleCommit(s) ==
  /\ at[s] = "open"
  /\ ~Conflict(s, mine[s])
  /\ Write(mine[s], "void")
  /\ Goto(s, IF tickets[s] > Cardinality(mine[s]) THEN "stripe" ELSE "charged")
  /\ tickets' = [tickets EXCEPT ![s] = 0]
  /\ EndTx(s, mine[s])
  /\ UNCHANGED <<mine, charged, stripeRefunds, lapsed>>

(***************************************************************************)
(* chargeSale, for orders of passes and for sales.                         *)
(***************************************************************************)
ChargeCard(c) ==
  /\ at[c] = "stripe"
  /\ charged' = charged \cup ({c} \cap Orders)
  /\ Goto(c, "charged")
  /\ UNCHANGED <<status, mine, tickets, stripeRefunds, lapsed, open, stale>>

\* Declined, or charged with the answer lost; the reason is stored.
ChargeFails(c) ==
  /\ at[c] = "stripe"
  /\ \/ UNCHANGED charged
     \/ "lostReply" \in Faults /\ charged' = charged \cup ({c} \cap Orders)
  /\ Goto(c, "undoing")
  /\ UNCHANGED <<status, mine, tickets, stripeRefunds, lapsed, open, stale>>

\* The payment row receives the result of the charge, or its update throws.
RecordCharge(c) ==
  /\ at[c] = "charged"
  /\ \/ Goto(c, "done")
     \/ "dbError" \in Faults /\ Goto(c, "undoing")
  /\ UNCHANGED <<status, mine, tickets, charged, stripeRefunds, lapsed, open, stale>>

(***************************************************************************)
(* prepareRoutePassRefund: the pass is read, and its status checked,       *)
(* outside of the transaction; the snapshot is taken later, by the first   *)
(* query inside of it, which finds the payment.                            *)
(***************************************************************************)
RefundRead(r) ==
  /\ at[r] = "new"
  /\ \E p \in Valid : mine' = [mine EXCEPT ![r] = {p}]
  /\ Goto(r, "read")
  /\ UNCHANGED <<status, tickets, charged, stripeRefunds, lapsed, open, stale>>

\* retrieveCharge needs the id of the charge.
ChargeRecorded(o) == at[o] = "done"

\* The purchase of the pass has a recorded charge with the price of a pass left.
Refundable(p) ==
  \E o \in Orders :
    /\ p \in mine[o]
    /\ ChargeRecorded(o)
    /\ Cardinality(mine[o] \cap stripeRefunds) < Cardinality(mine[o])

RefundBegin(r) ==
  /\ at[r] = "read"
  /\ \A p \in mine[r] : Refundable(p)
  /\ Goto(r, "open")
  /\ BeginTx(r)
  /\ UNCHANGED <<status, mine, tickets, charged, stripeRefunds, lapsed>>

RefundReject(r) ==
  /\ at[r] = "read"
  /\ \E p \in mine[r] : ~Refundable(p)
  /\ Drop(r)
  /\ UNCHANGED <<status, charged, stripeRefunds, lapsed, open, stale>>

RefundCommit(r) ==
  /\ at[r] = "open"
  /\ ~Conflict(r, mine[r])
  /\ Write(mine[r], "refunded")
  /\ Goto(r, "stripe")
  /\ EndTx(r, mine[r])
  /\ UNCHANGED <<mine, tickets, charged, stripeRefunds, lapsed>>

\* The idempotency key is the pass's: Stripe returns its price once.
StripeRefund(r) ==
  /\ at[r] = "stripe"
  /\ stripeRefunds' = stripeRefunds \cup mine[r]
  /\ Goto(r, "done")
  /\ UNCHANGED <<status, mine, tickets, charged, lapsed, open, stale>>

StripeRefundFails(r) ==
  /\ at[r] = "stripe"
  /\ \/ UNCHANGED stripeRefunds
     \/ "lostReply" \in Faults /\ stripeRefunds' = stripeRefunds \cup mine[r]
  /\ Goto(r, "undoing")
  /\ UNCHANGED <<status, mine, tickets, charged, lapsed, open, stale>>

(***************************************************************************)
(* Expiry: by an operator, of one pass or of the oldest ones; by the       *)
(* nightly job, of the oldest, past their date, in one statement.          *)
(***************************************************************************)
ExpireBegin(e) ==
  /\ at[e] = "new"
  /\ Valid # {}
  /\ \/ \E p \in Valid : mine' = [mine EXCEPT ![e] = {p}]
     \/ \E n \in 1..MaxQuantity : mine' = [mine EXCEPT ![e] = First(Valid, n)]
  /\ Goto(e, "open")
  /\ BeginTx(e)
  /\ UNCHANGED <<status, tickets, charged, stripeRefunds, lapsed>>

ExpireCommit(e) ==
  /\ at[e] = "open"
  /\ ~Conflict(e, mine[e])
  /\ Write(mine[e], "expired")
  /\ Goto(e, "done")
  /\ EndTx(e, mine[e])
  /\ UNCHANGED <<mine, tickets, charged, stripeRefunds, lapsed>>

ExpireDue ==
  /\ Valid # {}
  /\ \E n \in 1..MaxPasses :
       LET due == First(Valid, n)
       IN  /\ Write(due, "expired")
           /\ lapsed' = lapsed \cup due
           /\ stale' = [c \in Clients |-> IF c \in open THEN stale[c] \cup due ELSE {}]
  /\ UNCHANGED <<at, mine, tickets, charged, stripeRefunds, open>>

(***************************************************************************)
(* What all handlers share: conflicts, undo, crashes.                      *)
(***************************************************************************)

\* The first transaction aborts.
Abort(c) ==
  /\ at[c] = "open"
  /\ Conflict(c, mine[c])
  /\ Drop(c)
  /\ EndTx(c, {})
  /\ UNCHANGED <<status, charged, stripeRefunds, lapsed>>

UndoBegin(c) ==
  /\ at[c] = "undoing"
  /\ Goto(c, "releasing")
  /\ BeginTx(c)
  /\ UNCHANGED <<status, mine, tickets, charged, stripeRefunds, lapsed>>

\* Mutant of UndoneStatus: the undo of an order is that of a sale.
AlwaysValid(c)  == "valid"
\* A pass that was bought has failed; one that was used or refunded is valid again.
UndoneStatus(c) == IF c \in Orders THEN "failed" ELSE "valid"

\* Mutant of Released: only one pass is given back.
OneReleased(c) == First(mine[c], 1)
\* The passes the undo functions remember.
Released(c)    == mine[c]

\* Whatever the rows say by now.
UndoCommit(c) ==
  /\ at[c] = "releasing"
  /\ ~Conflict(c, mine[c])
  /\ Write(Released(c), UndoneStatus(c))
  /\ Goto(c, "undone")
  /\ EndTx(c, mine[c])
  /\ UNCHANGED <<mine, tickets, charged, stripeRefunds, lapsed>>

UndoConflict(c) ==
  /\ at[c] = "releasing"
  /\ Conflict(c, mine[c])
  /\ Goto(c, "stranded")
  /\ EndTx(c, {})
  /\ UNCHANGED <<status, mine, tickets, charged, stripeRefunds, lapsed>>

\* The server stops: before the commit nothing has happened; after it nobody goes on.
CrashEarly(c) ==
  /\ "crash" \in Faults
  /\ at[c] \in {"read", "open"}
  /\ Drop(c)
  /\ EndTx(c, {})
  /\ UNCHANGED <<status, charged, stripeRefunds, lapsed>>

\* Stripe may or may not have done what it was asked for.
CrashLate(c) ==
  /\ "crash" \in Faults
  /\ at[c] \in {"stripe", "charged", "undoing", "releasing"}
  /\ Goto(c, "stranded")
  /\ EndTx(c, {})
  /\ \/ UNCHANGED <<charged, stripeRefunds>>
     \/ /\ at[c] = "stripe"
        /\ charged' = charged \cup ({c} \cap Orders)
        /\ stripeRefunds' = IF c \in Refunds THEN stripeRefunds \cup mine[c] ELSE stripeRefunds
  /\ UNCHANGED <<status, mine, tickets, lapsed>>

-------------------------------------------------------------------------------
ChargeStep(c) == ChargeCard(c) \/ ChargeFails(c) \/ RecordCharge(c)
OrderStep(o)  == BuyPasses(o) \/ ChargeStep(o)
SaleStep(s)   == SaleBegin(s) \/ SaleCommit(s) \/ ChargeStep(s)
RefundStep(r) ==
  \/ RefundRead(r) \/ RefundBegin(r) \/ RefundReject(r) \/ RefundCommit(r)
  \/ StripeRefund(r) \/ StripeRefundFails(r)
ExpireStep(e) == ExpireBegin(e) \/ ExpireCommit(e)
SharedStep(c) ==
  Abort(c) \/ UndoBegin(c) \/ UndoCommit(c) \/ UndoConflict(c)
  \/ CrashEarly(c) \/ CrashLate(c)

Next ==
  \/ \E o \in Orders : OrderStep(o)
  \/ \E s \in Sales : SaleStep(s)
  \/ \E r \in Refunds : RefundStep(r)
  \/ \E e \in Expiries : ExpireStep(e)
  \/ \E c \in Clients : SharedStep(c)
  \/ GrantPass
  \/ ExpireDue

Spec == Init /\ [][Next]_passVars

-------------------------------------------------------------------------------
(***************************************************************************)
(* Properties.                                                             *)
(***************************************************************************)

\* Every variable stays within its type; handlers have an open transaction exactly
\* in the two steps that hold one.
PassTypeOK ==
  /\ status \in [PassIds -> Statuses]
  /\ at \in [Clients -> Steps]
  /\ mine \in [Clients -> SUBSET PassIds]
  /\ tickets \in [Sales -> 0..MaxQuantity]
  /\ charged \subseteq Orders
  /\ stripeRefunds \subseteq PassIds
  /\ lapsed \subseteq PassIds
  /\ open = {c \in Clients : at[c] \in {"open", "releasing"}}
  /\ stale \in [Clients -> SUBSET PassIds]
  /\ \A c \in Clients \ open : stale[c] = {}

\* A pass is never lost: one that cannot be used any more was taken by a sale, a
\* refund, an expiry or the undo of its purchase that stands in the books, whatever
\* other undos and refunds of the same pass have come between.
PassIsAccounted ==
  \A p \in PassIds :
    /\ status[p] = "void"     => \E s \in Sales : Standing(s) /\ p \in mine[s]
    /\ status[p] = "refunded" => \E r \in Refunds : Standing(r) /\ p \in mine[r]
    /\ status[p] = "failed"   => \E o \in Orders : at[o] = "undone" /\ p \in mine[o]
    /\ status[p] = "expired"  =>
         p \in lapsed \/ \E e \in Expiries : Standing(e) /\ p \in mine[e]

\* The sales, refunds and expiries that hold a pass in the books.
Takers(p) == {c \in Sales \cup Refunds \cup Expiries : Standing(c) /\ p \in mine[c]}

\* Refunds that were booked, those undone since included.
BookedRefunds(p) == {r \in Refunds : Committed(r) /\ p \in mine[r]}

\* How often the books have discharged a pass.
Discharges(p) == Cardinality(Takers(p)) + (IF p \in lapsed THEN 1 ELSE 0)

\* However sales and expiries race for a pass, it is discharged once; each refund of
\* it, which works on an unlocked copy, can add one.
DischargedOnce ==
  \A p \in PassIds : Discharges(p) <= 1 + Cardinality(BookedRefunds(p))

\* A pass whose purchase was undone is usable only if a sale that had used it, while
\* its card was being charged, was undone as well.
UnpaidPassExplained ==
  \A o \in Orders : \A p \in mine[o] :
    at[o] = "undone" /\ status[p] = "valid" =>
      \E s \in Sales : at[s] = "undone" /\ p \in mine[s]

\* Stripe returns money only for a pass of a charged and recorded purchase.
RefundsArePaid ==
  \A p \in stripeRefunds : \E o \in Orders :
    p \in mine[o] /\ o \in charged /\ at[o] = "done"
===============================================================================
