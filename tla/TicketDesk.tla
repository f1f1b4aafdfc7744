------------------------------ MODULE TicketDesk ------------------------------
(***************************************************************************)
(* Purchases together with what operators do to tickets and trips while    *)
(* they run: refunds through Stripe, refunds to a route pass, replacement  *)
(* tickets, edits of a trip and of its status.                             *)
(***************************************************************************)
EXTENDS TicketSale

CONSTANTS
  Refunds,        \* requests POST /transactions/tickets/{id}/refund/payment
  PassRefunds,    \* requests POST /transactions/tickets/{id}/refund/route_pass
  Conversions,    \* requests POST /transactions/tickets/issue_free
  Edits,          \* requests PUT /trips/{id} that change the capacity
  MaxCapacity,    \* bound on the capacity an edit asks for
  StatusTrips     \* trips whose status is set by POST /trips/{id}/statuses

RefundRequests == Refunds \cup PassRefunds

ASSUME DeskClients == OtherClients = RefundRequests
ASSUME RefundKinds == Refunds \cap PassRefunds = {}
ASSUME ReplacementTickets == FreeTickets = Conversions
ASSUME DeskActors == (Conversions \cup Edits \cup Trips) \cap Clients = {}
ASSUME CapacityBound == MaxCapacity \in Nat
ASSUME StatusTripsAreTrips == StatusTrips \subseteq Trips

VARIABLES
  refund,         \* how far each refund is, its ticket, the status it found
  refundTxn,      \* transactions.committed of each refund's transaction
  conversion,     \* per issue_free request: carried out, tickets cancelled
  stripeRefunds,  \* tickets whose price Stripe has returned
  edit            \* per edit: what it read and computed

deskVars == <<refund, refundTxn, conversion, stripeRefunds, edit>>
vars     == <<saleVars, deskVars>>

NoRefund == [at |-> "new", ticket |-> NoTrip, was |-> "none"]

DeskInit ==
  /\ Init
  /\ refund = [r \in RefundRequests |-> NoRefund]
  /\ refundTxn = [r \in RefundRequests |-> FALSE]
  /\ conversion = [c \in Conversions |-> [done |-> FALSE, cancelled |-> {}]]
  /\ stripeRefunds = {}
  /\ edit = [e \in Edits |-> [at |-> "new", trip |-> NoTrip, capacity |-> 0, seats |-> 0]]

(***************************************************************************)
(* ticketRefund items of committed transactions: those of refunds carry    *)
(* the price, those of issue_free carry 0.00.                              *)
(***************************************************************************)
PricedItems(x) == {r \in RefundRequests : refundTxn[r] /\ refund[r].ticket = x}
ZeroItems(x)   == {c \in Conversions : x \in conversion[c].cancelled}

\* Mutant of RefundableToCard: items of other refunds are not counted.
RefundableTwice(x) == Cardinality(ZeroItems(x)) <= 1

\* previouslyRefunded is _.sum of decimal strings: two of them concatenate and the
\* comparison with NaN fails.
RefundableToCard(x) == PricedItems(x) = {} /\ Cardinality(ZeroItems(x)) <= 1

\* previouslyRefunded === 0 holds of the empty sum only, not of the string '0.00'.
RefundableToPass(x) == PricedItems(x) = {} /\ ZeroItems(x) = {}

\* charge.amount - charge.amount_refunded, in tickets (the price of a ticket is 1).
StripeBalance(b) ==
  Cardinality(TicketsOf(b)) - Cardinality(stripeRefunds \cap TicketsOf(b))

\* The hook of a status change of ticket x, on the seat counter of its trip.
MoveSeat(x, from, to) ==
  trip' = [trip EXCEPT ![ticket[x].trip].seatsAvailable = @ + SeatDelta(from, to)]
RowsOf(x, from, to) ==
  {x} \cup (IF SeatDelta(from, to) # 0 THEN {ticket[x].trip} ELSE {})
SetStatus(x, status) == ticket' = [ticket EXCEPT ![x].status = status]

(***************************************************************************)
(* Refund through Stripe: prepareTicketRefund, refundViaStripe...          *)
(***************************************************************************)

\* Mutant of ChargeRecorded: a payment without its charge is accepted.
ChargeExpected(b) == payment[b] \in {"empty", "recorded"}

\* retrieveCharge needs the charge's id, recorded at the end of the sale.
ChargeRecorded(b) == payment[b] = "recorded"

RefundBegin(r) ==
  /\ refund[r].at = "new"
  /\ \E x \in SoldTickets :
       /\ ticket[x].status \in {"valid", "void"}
       /\ ~order[x[1]].free
       /\ RefundableToCard(x)
       /\ ChargeRecorded(x[1])
       /\ StripeBalance(x[1]) >= 1
       /\ refund' = [refund EXCEPT ![r] =
                       [at |-> "open", ticket |-> x, was |-> ticket[x].status]]
  /\ BeginTx(r)
  /\ UNCHANGED <<dbVars, order, sale, charged, refundTxn, conversion, stripeRefunds, edit>>

RefundCommit(r) ==
  LET x == refund[r].ticket
      rows == RowsOf(x, refund[r].was, "refunded")
  IN  /\ refund[r].at = "open"
      /\ ~Conflict(r, rows)
      /\ SetStatus(x, "refunded")
      /\ MoveSeat(x, refund[r].was, "refunded")
      /\ refund' = [refund EXCEPT ![r].at = "calling"]
      /\ refundTxn' = [refundTxn EXCEPT ![r] = TRUE]
      /\ EndTx(r, rows)
      /\ UNCHANGED <<committed, payment, order, sale, charged,
                     conversion, stripeRefunds, edit>>

RefundConflict(r) ==
  /\ refund[r].at = "open"
  /\ Conflict(r, RowsOf(refund[r].ticket, refund[r].was, "refunded"))
  /\ refund' = [refund EXCEPT ![r].at = "rejected"]
  /\ EndTx(r, {})
  /\ UNCHANGED <<dbVars, order, sale, charged, refundTxn, conversion, stripeRefunds, edit>>

\* The idempotency key is the ticket's: Stripe returns its price once.
StripeRefund(r) ==
  /\ refund[r].at = "calling"
  /\ stripeRefunds' = stripeRefunds \cup {refund[r].ticket}
  /\ refund' = [refund EXCEPT ![r].at = "done"]
  /\ UNCHANGED <<saleVars, refundTxn, conversion, edit>>

StripeRefundFails(r) ==
  /\ refund[r].at = "calling"
  /\ \/ UNCHANGED stripeRefunds
     \/ /\ "lostReply" \in Faults
        /\ stripeRefunds' = stripeRefunds \cup {refund[r].ticket}
  /\ refund' = [refund EXCEPT ![r].at = "undoing"]
  /\ UNCHANGED <<saleVars, refundTxn, conversion, edit>>

RefundUndoBegin(r) ==
  /\ refund[r].at = "undoing"
  /\ refund' = [refund EXCEPT ![r].at = "releasing"]
  /\ BeginTx(r)
  /\ UNCHANGED <<dbVars, order, sale, charged, refundTxn, conversion, stripeRefunds, edit>>

\* Always back to "valid", and to a seat, without looking at availability.
RefundUndoCommit(r) ==
  LET x == refund[r].ticket
      rows == RowsOf(x, "refunded", "valid")
  IN  /\ refund[r].at = "releasing"
      /\ ~Conflict(r, rows)
      /\ SetStatus(x, "valid")
      /\ MoveSeat(x, "refunded", "valid")
      /\ refund' = [refund EXCEPT ![r].at = "undone"]
      /\ refundTxn' = [refundTxn EXCEPT ![r] = FALSE]
      /\ EndTx(r, rows)
      /\ UNCHANGED <<committed, payment, order, sale, charged,
                     conversion, stripeRefunds, edit>>

RefundUndoConflict(r) ==
  /\ refund[r].at = "releasing"
  /\ Conflict(r, RowsOf(refund[r].ticket, "refunded", "valid"))
  /\ refund' = [refund EXCEPT ![r].at = "stranded"]
  /\ EndTx(r, {})
  /\ UNCHANGED <<dbVars, order, sale, charged, refundTxn, conversion, stripeRefunds, edit>>

\* A crash while Stripe is called may come before or after the refund.
RefundCrash(r) ==
  /\ "crash" \in Faults
  /\ refund[r].at \in {"open", "calling", "undoing", "releasing"}
  /\ refund' = [refund EXCEPT ![r].at = IF @ = "open" THEN "rejected" ELSE "stranded"]
  /\ \/ UNCHANGED stripeRefunds
     \/ /\ refund[r].at = "calling"
        /\ stripeRefunds' = stripeRefunds \cup {refund[r].ticket}
  /\ EndTx(r, {})
  /\ UNCHANGED <<dbVars, order, sale, charged, refundTxn, conversion, edit>>

(***************************************************************************)
(* Refund to a route pass: one REPEATABLE READ transaction, no Stripe call *)
(* and no need of a recorded charge.                                       *)
(***************************************************************************)
PassRefundBegin(p) ==
  /\ refund[p].at = "new"
  /\ \E x \in SoldTickets :
       /\ ticket[x].status \in {"valid", "void"}
       /\ RefundableToPass(x)
       /\ refund' = [refund EXCEPT ![p] =
                       [at |-> "open", ticket |-> x, was |-> ticket[x].status]]
  /\ BeginTx(p)
  /\ UNCHANGED <<dbVars, order, sale, charged, refundTxn, conversion, stripeRefunds, edit>>

\* An update that changes nothing ("void" to "void") writes no row.
PassRefundCommit(p) ==
  LET x == refund[p].ticket
      rows == IF refund[p].was = "void" THEN {} ELSE RowsOf(x, refund[p].was, "void")
  IN  /\ refund[p].at = "open"
      /\ ~Conflict(p, rows)
      /\ SetStatus(x, "void")
      /\ MoveSeat(x, refund[p].was, "void")
      /\ refund' = [refund EXCEPT ![p].at = "done"]
      /\ refundTxn' = [refundTxn EXCEPT ![p] = TRUE]
      /\ EndTx(p, rows)
      /\ UNCHANGED <<committed, payment, order, sale, charged,
                     conversion, stripeRefunds, edit>>

PassRefundAbort(p) ==
  /\ refund[p].at = "open"
  /\ \/ Conflict(p, RowsOf(refund[p].ticket, refund[p].was, "void"))
     \/ "crash" \in Faults
  /\ refund' = [refund EXCEPT ![p].at = "rejected"]
  /\ EndTx(p, {})
  /\ UNCHANGED <<dbVars, order, sale, charged, refundTxn, conversion, stripeRefunds, edit>>

(***************************************************************************)
(* issue_free: a SERIALIZABLE transaction, hence one step. A ticket on     *)
(* trip t for the user, in place of the cancelled ones.                    *)
(***************************************************************************)
Cancellable(cancelled)       == \A x \in cancelled : ticket[x].status = "valid"

IssueFree(c, user, t, cancelled) ==
  LET freed(s) == Cardinality({x \in cancelled : ticket[x].trip = s})
  IN  /\ ~conversion[c].done
      /\ trip[t].running
      /\ Cancellable(cancelled)
      /\ trip' = [s \in Trips |-> [trip[s] EXCEPT !.seatsAvailable =
                    @ + freed(s) - (IF s = t THEN 1 ELSE 0)]]
      /\ trip'[t].seatsAvailable >= 0
      /\ ticket' = [x \in TicketIds |->
           CASE x = c -> [status |-> "valid", user |-> user, trip |-> t]
             [] x \in cancelled -> [ticket[x] EXCEPT !.status = "void"]
             [] OTHER -> ticket[x]]
      /\ conversion' = [conversion EXCEPT ![c] = [done |-> TRUE, cancelled |-> cancelled]]
      /\ EndTx(c, {t} \cup cancelled \cup {ticket[x].trip : x \in cancelled})
      /\ UNCHANGED <<committed, payment, order, sale, charged,
                     refund, refundTxn, stripeRefunds, edit>>

(***************************************************************************)
(* PUT /trips/{id}: the trip is read outside of the transaction that later *)
(* writes an absolute seatsAvailable.                                      *)
(***************************************************************************)
\* A change that would leave fewer than no seats is refused.
Affordable(t, change)       == -change <= trip[t].seatsAvailable

EditRead(e) ==
  /\ edit[e].at = "new"
  /\ \E t \in Trips, n \in 0..MaxCapacity :
       LET change == n - trip[t].capacity
       IN  /\ change # 0
           /\ Affordable(t, change)
           /\ edit' = [edit EXCEPT ![e] =
                [at |-> "read", trip |-> t, capacity |-> n,
                 seats |-> trip[t].seatsAvailable + change]]
  /\ UNCHANGED <<saleVars, refund, refundTxn, conversion, stripeRefunds>>

EditWrite(e) ==
  /\ edit[e].at = "read"
  /\ trip' = [trip EXCEPT ![edit[e].trip].capacity = edit[e].capacity,
                          ![edit[e].trip].seatsAvailable = edit[e].seats]
  /\ edit' = [edit EXCEPT ![e].at = "done"]
  /\ EndTx(e, {edit[e].trip})
  /\ UNCHANGED <<ticket, committed, payment, order, sale, charged,
                 refund, refundTxn, conversion, stripeRefunds>>

\* POST /trips/{id}/statuses: cancels a trip, or puts it back.
SetTripStatus(t) ==
  /\ trip' = [trip EXCEPT ![t].running = ~@]
  /\ EndTx(t, {t})
  /\ UNCHANGED <<ticket, committed, payment, order, sale, charged, deskVars>>

-------------------------------------------------------------------------------
RefundStep(r) ==
  \/ RefundBegin(r) \/ RefundCommit(r) \/ RefundConflict(r)
  \/ StripeRefund(r) \/ StripeRefundFails(r)
  \/ RefundUndoBegin(r) \/ RefundUndoCommit(r) \/ RefundUndoConflict(r)
  \/ RefundCrash(r)

PassRefundStep(p) == PassRefundBegin(p) \/ PassRefundCommit(p) \/ PassRefundAbort(p)

DeskNext ==
  \/ Next /\ UNCHANGED deskVars
  \/ \E r \in Refunds : RefundStep(r)
  \/ \E p \in PassRefunds : PassRefundStep(p)
  \/ \E c \in Conversions, user \in Users, t \in Trips, cancelled \in SUBSET TicketIds :
       IssueFree(c, user, t, cancelled)
  \/ \E e \in Edits : EditRead(e) \/ EditWrite(e)
  \/ \E t \in StatusTrips : SetTripStatus(t)

DeskSpec == DeskInit /\ [][DeskNext]_vars

-------------------------------------------------------------------------------
(***************************************************************************)
(* Properties.                                                             *)
(***************************************************************************)

\* Tickets of an undone sale that the desk had already taken back: undoing the sale
\* gave their seat back a second time.
Leaked(t) ==
  {x \in SoldTickets :
     /\ ticket[x].trip = t
     /\ ticket[x].status = "failed"
     /\ PricedItems(x) \cup ZeroItems(x) # {}}

\* Refunds whose undo put a ticket of trip t back on its seat.
Restored(t) ==
  {r \in Refunds : refund[r].at = "undone" /\ ticket[refund[r].ticket].trip = t}

\* Trips whose counter an edit has overwritten with what it had computed.
Edited(t) == \E e \in Edits : edit[e].at = "done" /\ edit[e].trip = t

\* Exact accounts of the seats of a trip nobody edits, under sales, refunds,
\* conversions, conflicts, crashes and lost replies: the counter differs from the
\* tickets by one seat for each ticket voided by the desk while its card was being
\* charged in vain.
SeatLedger ==
  \A t \in Trips : ~Edited(t) =>
    trip[t].seatsAvailable =
      trip[t].capacity - Cardinality(Occupied(t)) + Cardinality(Leaked(t))

\* A trip nobody edits is overbooked only by a refund that Stripe refused after its
\* seat was resold, or by a leaked seat, one passenger for each.
OverbookingIsExplained ==
  \A t \in Trips : ~Edited(t) =>
    Cardinality(Occupied(t))
      <= trip[t].capacity + Cardinality(Restored(t)) + Cardinality(Leaked(t))

\* However refunds of both kinds race on a ticket, at most one of them stands.
RefundedOnce ==
  \A x \in SoldTickets : Cardinality(PricedItems(x)) <= 1

\* Money goes back to the card only for a ticket that was paid by card in a sale that
\* stands; the ticket is then refunded, and stays so whatever else is done to it, unless
\* Stripe's answer was lost and a refund of it was undone: but for that, nobody rides
\* on a ticket whose price was returned.
StripeReturnsWhatItCharged ==
  \A x \in stripeRefunds :
    /\ charged[x[1]] /\ committed[x[1]]
    /\ \/ ticket[x].status = "refunded"
       \/ \E r \in Refunds : refund[r].ticket = x /\ refund[r].at = "undone"

\* No ticket is created on a trip that is cancelled at that moment, although the
\* status was read from an older snapshot.
NoTicketOnCancelledTrip ==
  [][\A x \in TicketIds :
       ticket[x].status = "none" /\ ticket'[x].status # "none"
         => trip[ticket'[x].trip].running]_vars
===============================================================================
