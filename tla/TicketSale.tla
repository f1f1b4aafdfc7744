------------------------------ MODULE TicketSale ------------------------------
(***************************************************************************)
(* The purchase of tickets: POST /transactions/tickets/payment.            *)
(*                                                                         *)
(* A booking prepares the sale in one REPEATABLE READ transaction of the   *)
(* database (tickets created, seats taken), commits it, charges Stripe     *)
(* outside of any transaction, and undoes the sale in a second database    *)
(* transaction when the charge fails.                                      *)
(* Transactions of the database are those of DbTransactions.               *)
(***************************************************************************)
EXTENDS Integers, FiniteSets

CONSTANTS
  Trips,          \* rows of the table trips
  Users,          \* users that buy
  Bookings,       \* requests to buy, one handler execution each
  Items,          \* positions in the request's list of trips
  NoTrip,         \* an unused position
  Capacity,       \* trips.capacity when the trip is created
  Faults,         \* which failures of the environment are considered
  FreeTickets,    \* tickets issued by other handlers than the sale
  OtherClients    \* other handlers that open database transactions

SoldTickets == Bookings \X Items
TicketIds   == SoldTickets \cup FreeTickets
Clients     == Bookings \cup OtherClients

ASSUME NoTripIsNoTrip == NoTrip \notin Trips
ASSUME CapacityIsNat == Capacity \in Nat
ASSUME ItemsFinite == IsFiniteSet(Items)
ASSUME FaultKinds == Faults \subseteq {"crash", "lostReply", "dbError"}
ASSUME ClientsDisjoint == Bookings \cap OtherClients = {}
ASSUME TicketsDisjoint == SoldTickets \cap FreeTickets = {}

VARIABLES
  trip,       \* table trips: capacity, seatsAvailable, running
  ticket,     \* table tickets: status ("none": no such row), user, trip
  order,      \* the body of each booking's request
  sale,       \* how far the handler of each booking is
  committed,  \* transactions.committed of the booking's transaction row
  payment,    \* the booking's row of payments: its charge, or the error it ended in
  charged,    \* what Stripe did: the booking's card was charged
  open,       \* clients inside a database transaction
  stale       \* per client, the rows committed by others since its snapshot

dbVars   == <<trip, ticket, committed, payment>>
txVars   == <<open, stale>>
saleVars == <<trip, ticket, order, sale, committed, payment, charged, open, stale>>

INSTANCE DbTransactions

(***************************************************************************)
(* Ticket statuses and the seat counter (models/Ticket.js).                *)
(***************************************************************************)
\* Mutants of VoidStatuses: a status that the hooks forget.
VoidButFailed   == {"void", "refunded"}
VoidButRefunded == {"void", "failed"}
VoidStatuses    == {"void", "refunded", "failed"}
ValidStatuses   == {"valid", "pending"}
Statuses        == VoidStatuses \cup ValidStatuses

\* Mutant of SoldStatus: tickets are sold as pending and never confirmed.
SoldAsPending == "pending"
\* The status in which a sale creates its tickets.
SoldStatus    == "valid"

\* The hook afterUpdate: what a status change from what the instance in memory
\* remembers adds to seatsAvailable.
SeatDelta(from, to) ==
  CASE from \in ValidStatuses /\ to \in VoidStatuses -> 1
    [] from \in VoidStatuses /\ to \in ValidStatuses -> -1
    [] OTHER -> 0

\* Tickets that occupy a seat of trip t.
Occupied(t) ==
  {x \in TicketIds : ticket[x].status \in ValidStatuses /\ ticket[x].trip = t}

NoTicket == [status |-> "none", user |-> NoTrip, trip |-> NoTrip]
Tickets ==
  [status : Statuses \cup {"none"}, user : Users \cup {NoTrip}, trip : Trips \cup {NoTrip}]

(***************************************************************************)
(* The request.                                                            *)
(***************************************************************************)
Orders ==
  {o \in [user : Users, trips : [Items -> Trips \cup {NoTrip}], free : BOOLEAN] :
     \E i \in Items : o.trips[i] # NoTrip}

Lines(b, t)   == {i \in Items : order[b].trips[i] = t}
Asked(b)      == {order[b].trips[i] : i \in Items} \ {NoTrip}
TicketsOf(b)  == {<<b, i>> : i \in {j \in Items : order[b].trips[j] # NoTrip}}

\* The error a charge ends in: Stripe refused the card, a call to Stripe had no answer,
\* or the database could not record the charge.
Errors == {"declined", "unanswered", "unrecorded"}

SaleStates ==
  {"new", "selling", "charging", "charged", "undoing", "releasing",
   "sold", "failed", "refused", "stranded"} \cup Errors
Ended    == {"sold", "failed", "refused", "stranded"}
InFlight == SaleStates \ (Ended \cup {"new"})

Init ==
  /\ trip = [t \in Trips |->
               [capacity |-> Capacity, seatsAvailable |-> Capacity, running |-> TRUE]]
  /\ ticket = [x \in TicketIds |-> NoTicket]
  /\ order \in [Bookings -> Orders]
  /\ sale = [b \in Bookings |-> "new"]
  /\ committed = [b \in Bookings |-> FALSE]
  /\ payment = [b \in Bookings |-> "none"]
  /\ charged = [b \in Bookings |-> FALSE]
  /\ open = {}
  /\ stale = [c \in Clients |-> {}]

(***************************************************************************)
(* prepareTicketSale: the first database transaction.                      *)
(***************************************************************************)

\* Mutant of Available: one free seat is enough for several passengers.
AvailableForOne(b) == \A t \in Asked(b) : trip[t].seatsAvailable > 0

\* runOrderChecks and the "sold out" check, on the snapshot.
Available(b) ==
  \A t \in Asked(b) : trip[t].seatsAvailable - Cardinality(Lines(b, t)) >= 0
AllRunning(b) == \A t \in Asked(b) : trip[t].running

\* Mutant of NoDuplicates: only tickets that are not paid yet are looked at.
NoPendingDuplicates(b) ==
  \A t \in Asked(b) : \A x \in Occupied(t) :
    ticket[x].status = "pending" => ticket[x].user # order[b].user

NoDuplicates(b) ==
  \A t \in Asked(b) : \A x \in Occupied(t) : ticket[x].user # order[b].user
Acceptable(b) == AllRunning(b) /\ NoDuplicates(b) /\ Available(b)

SaleBegin(b) ==
  /\ sale[b] = "new"
  /\ Acceptable(b)
  /\ sale' = [sale EXCEPT ![b] = "selling"]
  /\ BeginTx(b)
  /\ UNCHANGED <<dbVars, order, charged>>

SaleRefuse(b) ==
  /\ sale[b] = "new"
  /\ ~Acceptable(b)
  /\ sale' = [sale EXCEPT ![b] = "refused"]
  /\ UNCHANGED <<dbVars, order, charged, txVars>>

\* The tickets are created valid, each hook takes its seat, and the transaction
\* and its payment are recorded as committed, before any money is collected.
SaleCommit(b) ==
  /\ sale[b] = "selling"
  /\ ~Conflict(b, Asked(b))
  /\ ticket' = [x \in TicketIds |->
       IF x \in TicketsOf(b)
         THEN [status |-> SoldStatus, user |-> order[b].user, trip |-> order[b].trips[x[2]]]
         ELSE ticket[x]]
  /\ trip' = [t \in Trips |->
       [trip[t] EXCEPT !.seatsAvailable = @ - Cardinality(Lines(b, t))]]
  /\ committed' = [committed EXCEPT ![b] = TRUE]
  /\ payment' = [payment EXCEPT ![b] = "empty"]
  /\ sale' = [sale EXCEPT ![b] = "charging"]
  /\ EndTx(b, Asked(b))
  /\ UNCHANGED <<order, charged>>

\* Mutant of SaleConflict: a transaction may abort for no reason.
SaleAborts(b) ==
  /\ sale[b] = "selling"
  /\ sale' = [sale EXCEPT ![b] = "refused"]
  /\ EndTx(b, {})
  /\ UNCHANGED <<dbVars, order, charged>>

\* "could not serialize access due to concurrent update": rolled back.
SaleConflict(b) ==
  /\ sale[b] = "selling"
  /\ Conflict(b, Asked(b))
  /\ sale' = [sale EXCEPT ![b] = "refused"]
  /\ EndTx(b, {})
  /\ UNCHANGED <<dbVars, order, charged>>

(***************************************************************************)
(* chargeSale: Stripe, outside of any database transaction.                *)
(***************************************************************************)

\* A payment of 0.00 never reaches Stripe.
ChargeNothing(b) ==
  /\ sale[b] = "charging"
  /\ order[b].free
  /\ sale' = [sale EXCEPT ![b] = "charged"]
  /\ UNCHANGED <<dbVars, order, charged, txVars>>

ChargeCard(b) ==
  /\ sale[b] = "charging"
  /\ ~order[b].free
  /\ charged' = [charged EXCEPT ![b] = TRUE]
  /\ sale' = [sale EXCEPT ![b] = "charged"]
  /\ UNCHANGED <<dbVars, order, txVars>>

ChargeDeclined(b) ==
  /\ sale[b] = "charging"
  /\ ~order[b].free
  /\ sale' = [sale EXCEPT ![b] = "declined"]
  /\ UNCHANGED <<dbVars, order, charged, txVars>>

\* A call to Stripe has no answer: whether the card was charged is not known to the caller.
ChargeReplyLost(b) ==
  /\ "lostReply" \in Faults
  /\ sale[b] = "charging"
  /\ ~order[b].free
  /\ \/ UNCHANGED charged
     \/ charged' = [charged EXCEPT ![b] = TRUE]
  /\ sale' = [sale EXCEPT ![b] = "unanswered"]
  /\ UNCHANGED <<dbVars, order, txVars>>

RecordCharge(b) ==
  /\ sale[b] = "charged"
  /\ payment' = [payment EXCEPT ![b] = "recorded"]
  /\ sale' = [sale EXCEPT ![b] = "sold"]
  /\ UNCHANGED <<trip, ticket, committed, order, charged, txVars>>

\* The update of the payment row throws inside the same try block.
RecordChargeFails(b) ==
  /\ "dbError" \in Faults
  /\ sale[b] = "charged"
  /\ sale' = [sale EXCEPT ![b] = "unrecorded"]
  /\ UNCHANGED <<dbVars, order, charged, txVars>>

\* Mutants of RecordError: every error is taken for a refusal, or the catch block never
\* throws.
RecordRefusal(b) ==
  /\ sale[b] \in Errors
  /\ payment' = [payment EXCEPT ![b] = "declined"]
  /\ sale' = [sale EXCEPT ![b] = "undoing"]
  /\ UNCHANGED <<trip, ticket, committed, order, charged, txVars>>
RecordErrorAndHang(b) ==
  /\ sale[b] \in Errors
  /\ payment' = [payment EXCEPT ![b] = sale[b]]
  /\ UNCHANGED <<trip, ticket, committed, order, sale, charged, txVars>>

\* The catch block stores the error itself and throws a ChargeError, whatever it was.
RecordError(b) ==
  /\ sale[b] \in Errors
  /\ payment' = [payment EXCEPT ![b] = sale[b]]
  /\ sale' = [sale EXCEPT ![b] = "undoing"]
  /\ UNCHANGED <<trip, ticket, committed, order, charged, txVars>>

(***************************************************************************)
(* undoFn: the second database transaction, after a ChargeError.           *)
(***************************************************************************)
UndoBegin(b) ==
  /\ sale[b] = "undoing"
  /\ sale' = [sale EXCEPT ![b] = "releasing"]
  /\ BeginTx(b)
  /\ UNCHANGED <<dbVars, order, charged>>

\* The instances in memory still say "valid", so every ticket gives back a seat,
\* whatever its row says by now.
UndoCommit(b) ==
  /\ sale[b] = "releasing"
  /\ ~Conflict(b, Asked(b) \cup TicketsOf(b))
  /\ ticket' = [x \in TicketIds |->
       IF x \in TicketsOf(b) THEN [ticket[x] EXCEPT !.status = "failed"] ELSE ticket[x]]
  /\ trip' = [t \in Trips |->
       [trip[t] EXCEPT !.seatsAvailable =
          @ + SeatDelta(SoldStatus, "failed") * Cardinality(Lines(b, t))]]
  /\ committed' = [committed EXCEPT ![b] = FALSE]
  /\ sale' = [sale EXCEPT ![b] = "failed"]
  /\ EndTx(b, Asked(b) \cup TicketsOf(b))
  /\ UNCHANGED <<payment, order, charged>>

\* The undo transaction aborts; the handler only emits "!!! ERROR UNDOING".
UndoConflict(b) ==
  /\ sale[b] = "releasing"
  /\ Conflict(b, Asked(b) \cup TicketsOf(b))
  /\ sale' = [sale EXCEPT ![b] = "stranded"]
  /\ EndTx(b, {})
  /\ UNCHANGED <<dbVars, order, charged>>

\* The server stops, or the database cannot be reached: an open transaction is
\* rolled back, and nothing resumes the handler.
Crash(b) ==
  /\ "crash" \in Faults
  /\ sale[b] \in InFlight
  /\ sale' = [sale EXCEPT ![b] = IF sale[b] = "selling" THEN "refused" ELSE "stranded"]
  /\ EndTx(b, {})
  /\ UNCHANGED <<dbVars, order, charged>>

-------------------------------------------------------------------------------
\* What the handler of b does by itself, once the request has arrived.
Handle(b) ==
  \/ SaleCommit(b) \/ SaleConflict(b)
  \/ ChargeNothing(b) \/ ChargeCard(b) \/ ChargeDeclined(b) \/ ChargeReplyLost(b)
  \/ RecordCharge(b) \/ RecordChargeFails(b) \/ RecordError(b)
  \/ UndoBegin(b) \/ UndoCommit(b) \/ UndoConflict(b)

SaleStep(b) == SaleBegin(b) \/ SaleRefuse(b) \/ Handle(b) \/ Crash(b)

Next == \E b \in Bookings : SaleStep(b)

Fairness == \A b \in Bookings : WF_saleVars(Handle(b))

Spec     == Init /\ [][Next]_saleVars
FairSpec == Spec /\ Fairness

-------------------------------------------------------------------------------
(***************************************************************************)
(* Properties.                                                             *)
(***************************************************************************)

\* Every variable stays within its type; a booking has an open transaction exactly
\* in its two steps that hold one, and only open transactions have stale rows.
TypeOK ==
  /\ trip \in [Trips -> [capacity : Nat, seatsAvailable : Int, running : BOOLEAN]]
  /\ ticket \in [TicketIds -> Tickets]
  /\ order \in [Bookings -> Orders]
  /\ sale \in [Bookings -> SaleStates]
  /\ committed \in [Bookings -> BOOLEAN]
  /\ payment \in [Bookings -> {"none", "empty", "recorded"} \cup Errors]
  /\ charged \in [Bookings -> BOOLEAN]
  /\ open \subseteq Clients
  /\ stale \in [Clients -> SUBSET (Trips \cup TicketIds)]
  /\ \A b \in Bookings : b \in open <=> sale[b] \in {"selling", "releasing"}
  /\ \A c \in Clients \ open : stale[c] = {}

\* The seat counter of a trip, kept by relative updates from the ticket hooks of
\* concurrent transactions, agrees with the tickets that occupy its seats: what
\* util/smoketest.js looks for in the database.
SeatsMatchTickets ==
  \A t \in Trips :
    trip[t].seatsAvailable = trip[t].capacity - Cardinality(Occupied(t))

\* However purchases interleave, no trip is sold beyond its capacity: the sold-out
\* check reads a snapshot and holds only thanks to the conflict on the trip row.
NotOversold == \A t \in Trips : Cardinality(Occupied(t)) <= trip[t].capacity

\* Two purchases of one user, each of which saw no ticket of the other, never both
\* end up holding a seat on the same trip (checkNoDuplicates under concurrency).
OnePurchasePerTrip ==
  \A x, y \in SoldTickets :
    /\ ticket[x].status \in ValidStatuses
    /\ ticket[y].status \in ValidStatuses
    /\ ticket[x].trip = ticket[y].trip
    /\ ticket[x].user = ticket[y].user
    => x[1] = y[1]

\* The seats of a purchase over several trips are taken and given back together,
\* with the transaction row that accounts for them (GET /transactions/check).
AllOrNothing ==
  \A b \in Bookings : \A x \in TicketsOf(b) :
    ticket[x].status = IF committed[b] THEN "valid"
                       ELSE IF sale[b] = "failed" THEN "failed" ELSE "none"

\* Whatever fault a purchase meets, and wherever it stops, its rows tell where its money
\* is: a customer is charged without holding tickets only if his own payment row keeps an
\* error that says so, an error stored as a refusal never hides a charge, one stored as
\* unrecorded always stands for a charge, and a purchase that ends with its tickets kept
\* has a recorded payment, or else its undo or its handler was lost.
MoneyIsTraced ==
  \A b \in Bookings :
    /\ charged[b] => committed[b] \/ payment[b] \in {"unanswered", "unrecorded"}
    /\ payment[b] = "declined" => ~charged[b]
    /\ payment[b] \in {"recorded", "unrecorded"} => charged[b] \/ order[b].free
    /\ committed[b] /\ sale[b] \in Ended \ {"stranded"} => payment[b] = "recorded"

\* Purchases that exclude each other by conflict do not all lose: when every
\* handler has ended, and each request alone could have been served, some request
\* got its tickets (test/transactionDeadlocks.js, "Concurrent payments").
SomeoneSucceeds ==
  /\ Bookings # {}
  /\ \A b \in Bookings : sale[b] \in Ended
  /\ \A b \in Bookings : \A t \in Asked(b) : Cardinality(Lines(b, t)) <= Capacity
  => \E b \in Bookings : sale[b] # "refused"

\* A handler that has started ends, whatever the others do, as long as the server
\* runs: no conflict makes it wait for ever.
EverySaleEnds ==
  \A b \in Bookings : (sale[b] \in InFlight) ~> (sale[b] \in Ended)

(***************************************************************************)
(* The abstract inventory this protocol implements.                        *)
(***************************************************************************)
HoldState(b) ==
  CASE sale[b] \in {"new", "selling", "refused"} -> "none"
    [] sale[b] = "sold"   -> "kept"
    [] sale[b] = "failed" -> "released"
    [] OTHER              -> "held"

Hold ==
  [b \in Bookings |->
     IF HoldState(b) = "none"
       THEN [state |-> "none", user |-> NoTrip, seats |-> [i \in Items |-> NoTrip]]
       ELSE [state |-> HoldState(b), user |-> order[b].user, seats |-> order[b].trips]]

Inventory == INSTANCE SeatInventory WITH hold <- Hold

\* The two database transactions of a purchase, with their snapshots, their relative
\* updates of the seat counter and their aborts, implement an inventory in which
\* seats are reserved and released in single steps.
ImplementsInventory == Inventory!Spec

(***************************************************************************)
(* What the repository says of the program and the program does not do.    *)
(***************************************************************************)

\* test/transactions.js, "When payment fails it fails cleanly": once the handler of
\* a declined card has ended, the ticket is failed and the seat available again.
\* endpoints/transactions.js:48-50 promises as much: the tickets are valid "if Stripe
\* has been successfully charged".
PaymentFailsCleanly ==
  \A b \in Bookings :
    sale[b] \in Ended /\ payment[b] \in Errors =>
      \A x \in TicketsOf(b) : ticket[x].status = "failed"
===============================================================================
