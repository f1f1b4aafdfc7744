-------------------------- MODULE TicketDesk_proofs --------------------------
(***************************************************************************)
(* Theorems about TicketDesk for every set of trips, users, purchases,     *)
(* refunds, replacements and edits, and every choice of faults.            *)
(***************************************************************************)
EXTENDS TicketDesk, TicketSale_proofs

(***************************************************************************)
(* The invariant. What the desk does to a ticket depends on how far its    *)
(* sale and its refunds are, so none of the properties is inductive alone. *)
(***************************************************************************)
DeskItems(x)    == PricedItems(x) \cup ZeroItems(x)
RefundStates ==
  {"new", "open", "rejected", "calling", "undoing", "releasing", "done", "undone", "stranded"}
\* The states of a refund whose ticketRefund item is committed.
Recorded     == {"calling", "undoing", "releasing", "done", "stranded"}

RefundRows   ==
  [at : RefundStates, ticket : SoldTickets \cup {NoTrip}, was : {"none", "valid", "void"}]

DeskTypeOK ==
  /\ refund \in [RefundRequests -> RefundRows]
  /\ refundTxn \in [RefundRequests -> BOOLEAN]
  /\ conversion \in [Conversions -> [done : BOOLEAN, cancelled : SUBSET TicketIds]]
  /\ stripeRefunds \subseteq SoldTickets
  /\ edit \in [Edits -> [at : {"new", "read", "done"}, trip : Trips \cup {NoTrip},
                         capacity : Nat, seats : Int]]
  /\ \A e \in Edits : edit[e].at # "new" => edit[e].trip \in Trips
  /\ \A r \in RefundRequests : r \in open <=> refund[r].at \in {"open", "releasing"}

\* A charge is recorded only by the last step of a sale.
SoldIsRecorded == \A b \in Bookings : payment[b] = "recorded" => sale[b] = "sold"

\* Rows of sold tickets follow the orders; replacement tickets come from issue_free.
RowsOK ==
  /\ \A x \in SoldTickets : ticket[x].status # "none" =>
       x \in TicketsOf(x[1]) /\ ticket[x].trip = order[x[1]].trips[x[2]]
  /\ \A c \in Conversions :
       /\ ticket[c].status # "none" => conversion[c].done /\ ticket[c].trip \in Trips
       /\ ~conversion[c].done => conversion[c].cancelled = {}
       /\ \A x \in conversion[c].cancelled : ticket[x].status # "none"

\* What the desk may have made of a ticket in each state of its sale.
StatusFollowsSale ==
  \A x \in SoldTickets : x \in TicketsOf(x[1]) =>
    /\ sale[x[1]] \in {"new", "selling", "refused"} => ticket[x].status = "none"
    /\ sale[x[1]] = "failed" => ticket[x].status = "failed"
    /\ sale[x[1]] \in HeldStates \ {"sold"} =>
         ticket[x].status = IF DeskItems(x) = {} THEN "valid" ELSE "void"
    /\ sale[x[1]] = "sold" => ticket[x].status \in {"valid", "void", "refunded"}

VoidHasItems == \A x \in SoldTickets : ticket[x].status = "void" => DeskItems(x) # {}

RefundLife ==
  \A r \in RefundRequests :
    /\ refundTxn[r] <=> refund[r].at \in Recorded
    /\ refund[r].at # "new" =>
         /\ refund[r].ticket \in SoldTickets
         /\ ticket[refund[r].ticket].status # "none"
    /\ r \in PassRefunds =>
         /\ refund[r].at \in {"new", "open", "rejected", "done"}
         /\ refund[r].at = "open" => refund[r].was = "valid"
    /\ r \in Refunds /\ refund[r].at # "new" =>
         sale[refund[r].ticket[1]] = "sold" /\ ~order[refund[r].ticket[1]].free
    /\ r \in Refunds /\ refundTxn[r] => ticket[refund[r].ticket].status = "refunded"
    /\ refund[r].at = "open" => refund[r].was \in {"valid", "void"}

\* A ticket that is not stale for a refund is as the refund found it.
StillRefundable ==
  \A r \in RefundRequests :
    refund[r].at = "open" /\ refund[r].ticket \notin stale[r] =>
      ticket[refund[r].ticket].status = refund[r].was /\ PricedItems(refund[r].ticket) = {}

OneRefundStands ==
  \A r, s \in RefundRequests :
    refundTxn[r] /\ refundTxn[s] /\ refund[r].ticket = refund[s].ticket => r = s

HandlerInv ==
  TypeOK /\ CommittedWhileHeld /\ PaymentFollowsSale /\ SoldIsRecorded /\ DeskTypeOK

DeskInv ==
  /\ HandlerInv
  /\ RowsOK
  /\ StatusFollowsSale
  /\ VoidHasItems
  /\ RefundLife
  /\ StillRefundable
  /\ OneRefundStands
  /\ SeatsFinite

LEMMA InitDeskInv == DeskInit => DeskInv
<1> SUFFICES ASSUME DeskInit PROVE DeskInv
  OBVIOUS
<1>1. TypeOK /\ CommittedWhileHeld /\ PaymentFollowsSale
  BY InitLifeInv DEF DeskInit, LifeInv
<1>2. DeskTypeOK
  BY DEF DeskInit, Init, DeskTypeOK, RefundRows, RefundStates, NoRefund
<1>3. \A x \in TicketIds : ticket[x].status = "none"
  BY DEF DeskInit, Init, NoTicket
<1>4. SoldTickets \subseteq TicketIds /\ Conversions \subseteq TicketIds
  BY ReplacementTickets DEF TicketIds
<1>5. RowsOK /\ StatusFollowsSale /\ VoidHasItems
  BY <1>3, <1>4 DEF DeskInit, Init, RowsOK, StatusFollowsSale, VoidHasItems, HeldStates, Errors, SoldTickets
<1>6. SoldIsRecorded /\ RefundLife /\ StillRefundable /\ OneRefundStands
  BY DEF DeskInit, Init, SoldIsRecorded, RefundLife, StillRefundable, OneRefundStands, NoRefund,
         Recorded
<1>7. SeatsFinite
  BY InitSeatInv DEF DeskInit, SeatInv
<1> QED
  BY <1>1, <1>2, <1>5, <1>6, <1>7 DEF DeskInv, HandlerInv

(***************************************************************************)
(* What the statements of the desk do to the rows.                         *)
(***************************************************************************)

\* The desk's handlers are no purchases, and its tickets no sold ones.
LEMMA DeskNames ==
  /\ RefundRequests \subseteq Clients
  /\ RefundRequests \cap Bookings = {}
  /\ Bookings \subseteq Clients
  /\ SoldTickets \subseteq TicketIds /\ Conversions \subseteq TicketIds
  /\ SoldTickets \cap Conversions = {}
  /\ TicketIds = SoldTickets \cup Conversions
  BY DeskClients, ClientsDisjoint, ReplacementTickets, TicketsDisjoint DEF Clients, TicketIds

\* A ticket that exists is on a trip.
LEMMA TicketsAreOnTrips ==
  ASSUME TypeOK, RowsOK, NEW x \in TicketIds, ticket[x].status # "none"
  PROVE  ticket[x].trip \in Trips
<1>1. CASE x \in Conversions
  BY <1>1 DEF RowsOK
<1>2. CASE x \in SoldTickets
  <2>1. x \in TicketsOf(x[1]) /\ ticket[x].trip = order[x[1]].trips[x[2]] /\ x[1] \in Bookings
    BY <1>2 DEF RowsOK, SoldTickets
  <2>2. ticket[x].trip \in Asked(x[1])
    BY <2>1 DEF TicketsOf, Asked
  <2> QED
    BY <2>1, <2>2, RequestedRows DEF TypeOK
<1> QED
  BY <1>1, <1>2, DeskNames

LEMMA StatusChanged ==
  ASSUME NEW row \in Tickets, NEW status \in Statuses
  PROVE  /\ [row EXCEPT !.status = status] \in Tickets
         /\ [row EXCEPT !.status = status].status = status
         /\ [row EXCEPT !.status = status].user = row.user
         /\ [row EXCEPT !.status = status].trip = row.trip
  BY DEF Tickets

\* A refund moves on, and nothing else of the refunds changes.
LEMMA RefundAt ==
  ASSUME DeskTypeOK, NEW r \in RefundRequests, NEW v \in RefundStates,
         refund' = [refund EXCEPT ![r].at = v]
  PROVE  /\ refund' \in [RefundRequests -> RefundRows]
         /\ refund'[r].at = v
         /\ \A s \in RefundRequests :
              /\ refund'[s].ticket = refund[s].ticket /\ refund'[s].was = refund[s].was
              /\ s # r => refund'[s] = refund[s]
<1>1. refund[r] \in RefundRows
  BY DEF DeskTypeOK
<1>2. [refund[r] EXCEPT !.at = v] \in RefundRows
  BY <1>1 DEF RefundRows
<1>3. /\ [refund[r] EXCEPT !.at = v].at = v
      /\ [refund[r] EXCEPT !.at = v].ticket = refund[r].ticket
      /\ [refund[r] EXCEPT !.at = v].was = refund[r].was
  BY <1>1 DEF RefundRows
<1> QED
  BY <1>2, <1>3 DEF DeskTypeOK

LEMMA SetStatusMoves ==
  ASSUME TypeOK, NEW x \in TicketIds, NEW status \in Statuses, SetStatus(x, status)
  PROVE  /\ ticket' \in [TicketIds -> Tickets]
         /\ ticket'[x].status = status
         /\ ticket'[x].user = ticket[x].user /\ ticket'[x].trip = ticket[x].trip
         /\ \A y \in TicketIds \ {x} : ticket'[y] = ticket[y]
<1>1. ticket[x] \in Tickets
  BY DEF TypeOK
<1>2. [ticket[x] EXCEPT !.status = status] \in Tickets
  BY <1>1 DEF Tickets
<1> QED
  BY <1>1, <1>2 DEF SetStatus, TypeOK, Tickets

LEMMA MoveSeatMoves ==
  ASSUME TypeOK, NEW x, NEW from, NEW to, MoveSeat(x, from, to)
  PROVE  /\ trip' \in [Trips -> [capacity : Nat, seatsAvailable : Int, running : BOOLEAN]]
         /\ \A t \in Trips :
              /\ trip'[t].capacity = trip[t].capacity /\ trip'[t].running = trip[t].running
              /\ trip'[t].seatsAvailable =
                   trip[t].seatsAvailable + (IF t = ticket[x].trip THEN SeatDelta(from, to) ELSE 0)
<1>1. SeatDelta(from, to) \in Int
  BY DEF SeatDelta
<1>2. ASSUME NEW t \in Trips
      PROVE  /\ trip'[t] \in [capacity : Nat, seatsAvailable : Int, running : BOOLEAN]
             /\ trip'[t].capacity = trip[t].capacity /\ trip'[t].running = trip[t].running
             /\ trip'[t].seatsAvailable =
                  trip[t].seatsAvailable + (IF t = ticket[x].trip THEN SeatDelta(from, to) ELSE 0)
  <2>1. trip[t] \in [capacity : Nat, seatsAvailable : Int, running : BOOLEAN]
    BY DEF TypeOK
  <2>2. CASE t = ticket[x].trip
    <3>1. trip'[t] = [trip[t] EXCEPT !.seatsAvailable = @ + SeatDelta(from, to)]
      BY <2>2 DEF MoveSeat, TypeOK
    <3> QED
      BY <1>1, <2>1, <2>2, <3>1
  <2>3. CASE t # ticket[x].trip
    BY <2>1, <2>3 DEF MoveSeat, TypeOK
  <2> QED
    BY <2>2, <2>3
<1>3. trip' = [t \in Trips |-> trip'[t]]
  BY DEF MoveSeat, TypeOK
<1> QED
  BY <1>2, <1>3

\* Beginning and ending a transaction, seen from the others.
LEMMA TxSeenByOthers ==
  ASSUME TypeOK, NEW c
  PROVE  /\ c \in Clients /\ BeginTx(c) =>
              TxOK' /\ open' = open \cup {c} /\ stale' = stale
         /\ \A rows \in SUBSET (Trips \cup TicketIds) : EndTx(c, rows) =>
              /\ TxOK' /\ open' = open \ {c}
              /\ \A d \in Clients \ {c} : d \in open => stale'[d] = stale[d] \cup rows
  BY DEF TypeOK, TxOK, BeginTx, EndTx

LEMMA DeskRows ==
  ASSUME TypeOK, RowsOK, NEW x \in TicketIds, ticket[x].status # "none", NEW from, NEW to
  PROVE  /\ RowsOf(x, from, to) \in SUBSET (Trips \cup TicketIds)
         /\ x \in RowsOf(x, from, to)
         /\ SeatDelta(from, to) # 0 => ticket[x].trip \in RowsOf(x, from, to)
  BY TicketsAreOnTrips DEF RowsOf

\* What a desk step leaves alone.
SalesKept == UNCHANGED <<committed, payment, order, sale, charged>>

\* A desk step that keeps the sales keeps what is known of the handlers, if the rows and
\* the transactions stay well-formed.
LEMMA SalesKeptHandlers ==
  ASSUME HandlerInv, SalesKept, TxOK', DeskTypeOK',
         trip' \in [Trips -> [capacity : Nat, seatsAvailable : Int, running : BOOLEAN]],
         ticket' \in [TicketIds -> Tickets],
         \A b \in Bookings : b \in open' <=> b \in open
  PROVE  HandlerInv'
<1>1. TypeOK'
  BY DEF HandlerInv, SalesKept, TypeOK, TxOK
<1>2. (CommittedWhileHeld /\ PaymentFollowsSale /\ SoldIsRecorded)'
  BY DEF HandlerInv, SalesKept, CommittedWhileHeld, PaymentFollowsSale, SoldIsRecorded
<1> QED
  BY <1>1, <1>2 DEF HandlerInv

LEMMA SaleKeepsHandlers ==
  ASSUME HandlerInv, NEW b \in Bookings, SaleStep(b), UNCHANGED deskVars
  PROVE  HandlerInv'
<1>1. TypeOK' /\ (CommittedWhileHeld /\ PaymentFollowsSale)'
  BY NextTypeOK, StepLife DEF HandlerInv, Next
<1>2. SoldIsRecorded'
  BY DEF HandlerInv, TypeOK, SoldIsRecorded, SaleStep, Handle, SaleBegin, SaleRefuse, SaleCommit,
         SaleConflict, ChargeNothing, ChargeCard, ChargeDeclined, ChargeReplyLost,
         RecordCharge, RecordChargeFails, RecordError, UndoBegin, UndoCommit, UndoConflict,
         Crash, dbVars, InFlight, Ended, Errors
<1>3. \A d \in Clients \ {b} : d \in open' <=> d \in open
  BY DEF SaleStep, Handle, SaleBegin, SaleRefuse, SaleCommit,
         SaleConflict, ChargeNothing, ChargeCard, ChargeDeclined, ChargeReplyLost,
         RecordCharge, RecordChargeFails, RecordError, UndoBegin, UndoCommit, UndoConflict,
         Crash, BeginTx, EndTx, txVars
<1>4. DeskTypeOK'
  BY <1>3, DeskNames DEF HandlerInv, DeskTypeOK, deskVars
<1> QED
  BY <1>1, <1>2, <1>4 DEF HandlerInv

\* A refund picks an existing ticket of a recorded sale and opens a transaction.
LEMMA RefundBegins ==
  ASSUME DeskInv, NEW r \in RefundRequests,
         \/ r \in Refunds /\ RefundBegin(r)
         \/ r \in PassRefunds /\ PassRefundBegin(r)
  PROVE  /\ HandlerInv'
         /\ UNCHANGED <<trip, ticket, refundTxn, conversion, stripeRefunds, edit, stale>>
         /\ SalesKept /\ ~refundTxn[r] /\ stale[r] = {} /\ refund[r].at = "new"
         /\ \E x \in SoldTickets :
              /\ refund' = [refund EXCEPT ![r] =
                              [at |-> "open", ticket |-> x, was |-> ticket[x].status]]
              /\ ticket[x].status \in {"valid", "void"}
              /\ PricedItems(x) = {}
              /\ r \in Refunds => sale[x[1]] = "sold" /\ ~order[x[1]].free
              /\ r \in PassRefunds => ticket[x].status = "valid"
<1>1. /\ UNCHANGED <<trip, ticket, refundTxn, conversion, stripeRefunds, edit, stale>>
      /\ SalesKept /\ refund[r].at = "new" /\ BeginTx(r)
  BY DEF RefundBegin, PassRefundBegin, SalesKept, dbVars, BeginTx
<1>2. r \in Clients /\ r \notin Bookings /\ ~refundTxn[r] /\ r \notin open /\ stale[r] = {}
  BY <1>1, DeskNames
  DEF DeskInv, HandlerInv, RefundLife, Recorded, DeskTypeOK, TypeOK
<1>3. PICK x \in SoldTickets :
        /\ refund' = [refund EXCEPT ![r] =
                        [at |-> "open", ticket |-> x, was |-> ticket[x].status]]
        /\ ticket[x].status \in {"valid", "void"}
        /\ PricedItems(x) = {}
        /\ r \in Refunds => sale[x[1]] = "sold" /\ ~order[x[1]].free
        /\ r \in PassRefunds => ticket[x].status = "valid"
  <2>1. CASE r \in Refunds /\ RefundBegin(r)
    <3>1. r \notin PassRefunds
      BY <2>1, RefundKinds
    <3> QED
      BY <2>1, <3>1
      DEF RefundBegin, RefundableToCard, ChargeRecorded, DeskInv, HandlerInv, SoldIsRecorded,
          SoldTickets
  <2>2. CASE r \in PassRefunds /\ PassRefundBegin(r)
    <3>1. r \notin Refunds
      BY <2>2, RefundKinds
    <3> QED
      BY <2>2, <3>1
      DEF PassRefundBegin, RefundableToPass, DeskInv, VoidHasItems, DeskItems
  <2> QED
    BY <2>1, <2>2
<1>4. TxOK' /\ \A d \in Clients \ {r} : d \in open' <=> d \in open
  BY <1>1, <1>2, TxSeenByOthers DEF DeskInv, HandlerInv
<1>5. DeskTypeOK'
  BY <1>1, <1>3, <1>2, <1>4, DeskNames
  DEF DeskInv, HandlerInv, DeskTypeOK, RefundRows, RefundStates, BeginTx
<1>6. HandlerInv'
  BY <1>1, <1>2, <1>4, <1>5, DeskNames, SalesKeptHandlers DEF DeskInv, HandlerInv, TypeOK
<1> QED
  BY <1>1, <1>2, <1>3, <1>6

\* The steps of a refund that write no ticket.
RefundMoves(r) ==
  \/ RefundConflict(r) \/ StripeRefund(r) \/ StripeRefundFails(r)
  \/ RefundUndoBegin(r) \/ RefundUndoConflict(r) \/ RefundCrash(r)

LEMMA RefundMovesOn ==
  ASSUME DeskInv, NEW r \in RefundRequests,
         \/ r \in Refunds /\ RefundMoves(r)
         \/ r \in PassRefunds /\ PassRefundAbort(r)
  PROVE  /\ HandlerInv'
         /\ UNCHANGED <<trip, ticket, refundTxn, conversion, edit>> /\ SalesKept
         /\ refund' = [refund EXCEPT ![r].at = refund'[r].at]
         /\ refund[r].at # "new" /\ refund'[r].at \in RefundStates \ {"new", "open", "undone"}
         /\ refund[r].at \in Recorded <=> refund'[r].at \in Recorded
         /\ r \in PassRefunds => refund'[r].at = "rejected"
         /\ \A d \in Clients \ {r} : d \in open => stale'[d] = stale[d]
<1>1. /\ UNCHANGED <<trip, ticket, refundTxn, conversion, edit>> /\ SalesKept
      /\ refund[r].at # "new"
      /\ BeginTx(r) \/ EndTx(r, {}) \/ UNCHANGED txVars
  BY DEF RefundMoves, RefundConflict, StripeRefund, StripeRefundFails, RefundUndoBegin,
         RefundUndoConflict, RefundCrash, PassRefundAbort, SalesKept, dbVars, saleVars, txVars
<1>2. refund[r] \in RefundRows
  BY DEF DeskInv, HandlerInv, DeskTypeOK
<1>3. /\ refund' = [refund EXCEPT ![r].at = refund'[r].at]
      /\ refund'[r].at \in RefundStates \ {"new", "open", "undone"}
      /\ refund[r].at \in Recorded <=> refund'[r].at \in Recorded
      /\ r \in PassRefunds => refund'[r].at = "rejected"
  <2>1. PICK v \in {"rejected", "calling", "undoing", "releasing", "done", "stranded"} :
          /\ refund' = [refund EXCEPT ![r].at = v]
          /\ refund[r].at = "open" <=> v = "rejected"
          /\ refund[r].at \in {"open", "calling", "undoing", "releasing"}
          /\ r \in PassRefunds => v = "rejected"
    BY RefundKinds
    DEF RefundMoves, RefundConflict, StripeRefund, StripeRefundFails, RefundUndoBegin,
        RefundUndoConflict, RefundCrash, PassRefundAbort
  <2>2. refund'[r].at = v
    BY <2>1, RefundAt DEF DeskInv, HandlerInv, RefundStates
  <2> QED
    BY <2>1, <2>2 DEF RefundStates, Recorded
<1>4. /\ r \in Clients /\ r \notin Bookings
      /\ {} \in SUBSET (Trips \cup TicketIds)
  BY DeskNames
<1>5. /\ TxOK' /\ \A d \in Clients \ {r} : d \in open' <=> d \in open
      /\ \A d \in Clients \ {r} : d \in open => stale'[d] = stale[d]
  <2>1. TypeOK /\ TxOK
    BY DEF DeskInv, HandlerInv, TypeOK, TxOK
  <2>2. CASE BeginTx(r)
    BY <1>4, <2>1, <2>2, TxSeenByOthers
  <2>3. CASE EndTx(r, {})
    <3>1. /\ TxOK' /\ open' = open \ {r}
          /\ \A d \in Clients \ {r} : d \in open => stale'[d] = stale[d] \cup {}
      BY <1>4, <2>1, <2>3, TxSeenByOthers
    <3>2. \A S : S \cup {} = S
      OBVIOUS
    <3>3. \A d \in Clients \ {r} : d \in open => stale'[d] = stale[d]
      BY <3>1, <3>2
    <3> QED
      BY <3>1, <3>3
  <2>4. CASE UNCHANGED txVars
    BY <2>1, <2>4 DEF TxOK, txVars
  <2> QED
    BY <1>1, <2>2, <2>3, <2>4
<1>6. r \in open' <=> refund'[r].at \in {"open", "releasing"}
  BY <1>2
  DEF RefundMoves, RefundConflict, StripeRefund, StripeRefundFails, RefundUndoBegin,
      RefundUndoConflict, RefundCrash, PassRefundAbort, DeskInv, HandlerInv, DeskTypeOK,
      RefundRows, BeginTx, EndTx, saleVars
<1>7. stripeRefunds' \subseteq SoldTickets
  <2>1. stripeRefunds' = stripeRefunds \/ stripeRefunds' = stripeRefunds \cup {refund[r].ticket}
    BY DEF RefundMoves, RefundConflict, StripeRefund, StripeRefundFails, RefundUndoBegin,
           RefundUndoConflict, RefundCrash, PassRefundAbort
  <2> QED
    BY <1>1, <2>1 DEF DeskInv, HandlerInv, DeskTypeOK, RefundLife
<1>8. DeskTypeOK'
  <2>1. refund' \in [RefundRequests -> RefundRows]
    BY <1>3, RefundAt DEF DeskInv, HandlerInv
  <2>2. \A s \in RefundRequests : s \in open' <=> refund'[s].at \in {"open", "releasing"}
    BY <1>3, <1>5, <1>6, DeskNames DEF DeskInv, HandlerInv, DeskTypeOK
  <2> QED
    BY <1>1, <1>7, <2>1, <2>2 DEF DeskInv, HandlerInv, DeskTypeOK
<1>9. HandlerInv'
  BY <1>1, <1>4, <1>5, <1>8, DeskNames, SalesKeptHandlers DEF DeskInv, HandlerInv, TypeOK
<1> QED
  BY <1>1, <1>3, <1>5, <1>9

\* The steps of a refund that write its ticket: what they read is what the row still is.
RefundWrites(r, from, to) ==
  /\ refund[r].at = "open" /\ from = refund[r].was
  /\ \/ r \in Refunds /\ RefundCommit(r) /\ to = "refunded"
     \/ r \in PassRefunds /\ PassRefundCommit(r) /\ to = "void"

\* The effect of a write of the desk on a ticket, and on the seat counter of its trip.
TicketMoves(c, x, from, to) ==
  /\ x \in SoldTickets /\ ticket[x].status = from /\ ticket[x].trip \in Trips
  /\ ticket'[x].status = to /\ ticket'[x].user = ticket[x].user /\ ticket'[x].trip = ticket[x].trip
  /\ \A y \in TicketIds \ {x} : ticket'[y] = ticket[y]
  /\ \A t \in Trips :
       /\ trip'[t].capacity = trip[t].capacity /\ trip'[t].running = trip[t].running
       /\ trip'[t].seatsAvailable =
            trip[t].seatsAvailable + (IF t = ticket[x].trip THEN SeatDelta(from, to) ELSE 0)
  /\ \A d \in Clients \ {c} : d \in open =>
       /\ stale[d] \subseteq stale'[d]
       /\ from # to => x \in stale'[d]
       /\ SeatDelta(from, to) # 0 => ticket[x].trip \in stale'[d]

LEMMA RefundWritesTicket ==
  ASSUME DeskInv, NEW r \in RefundRequests, NEW from, NEW to, RefundWrites(r, from, to)
  PROVE  /\ HandlerInv'
         /\ TicketMoves(r, refund[r].ticket, from, to)
         /\ PricedItems(refund[r].ticket) = {}
         /\ from \in {"valid", "void"} /\ (r \in PassRefunds => from = "valid")
         /\ to \in {"refunded", "void"} /\ (r \in Refunds => to = "refunded")
         /\ from # to
         /\ refund' = [refund EXCEPT ![r].at = refund'[r].at]
         /\ refund'[r].at = IF r \in Refunds THEN "calling" ELSE "done"
         /\ refundTxn' = [refundTxn EXCEPT ![r] = TRUE]
         /\ UNCHANGED <<conversion, stripeRefunds, edit>> /\ SalesKept
<1> DEFINE x == refund[r].ticket
<1>1. /\ x \in SoldTickets /\ x \in TicketIds /\ ticket[x].status # "none"
      /\ from \in {"valid", "void"} /\ (r \in PassRefunds => from = "valid")
      /\ TypeOK /\ RowsOK /\ r \in Clients /\ r \notin Bookings
      /\ ticket[x].trip \in Trips
  BY DeskNames, TicketsAreOnTrips
  DEF RefundWrites, DeskInv, HandlerInv, DeskTypeOK, RefundLife
<1>2. /\ ~Conflict(r, RowsOf(x, from, to))
      /\ SetStatus(x, to) /\ MoveSeat(x, from, to) /\ EndTx(r, RowsOf(x, from, to))
      /\ refund' = [refund EXCEPT ![r].at = IF r \in Refunds THEN "calling" ELSE "done"]
      /\ refundTxn' = [refundTxn EXCEPT ![r] = TRUE]
      /\ UNCHANGED <<conversion, stripeRefunds, edit>> /\ SalesKept
      /\ to \in {"refunded", "void"} /\ (r \in Refunds => to = "refunded")
      /\ to \in Statuses /\ from # to
  BY <1>1, RefundKinds
  DEF RefundWrites, RefundCommit, PassRefundCommit, SalesKept, Statuses, VoidStatuses
<1>3. /\ RowsOf(x, from, to) \in SUBSET (Trips \cup TicketIds)
      /\ x \in RowsOf(x, from, to)
      /\ SeatDelta(from, to) # 0 => ticket[x].trip \in RowsOf(x, from, to)
  BY <1>1, DeskRows
<1>4. ticket[x].status = from /\ PricedItems(x) = {}
  BY <1>2, <1>3 DEF Conflict, RefundWrites, DeskInv, StillRefundable
<1>5. /\ TxOK' /\ open' = open \ {r}
      /\ \A d \in Clients \ {r} : d \in open => stale'[d] = stale[d] \cup RowsOf(x, from, to)
  BY <1>1, <1>2, <1>3, TxSeenByOthers
<1>6. TicketMoves(r, x, from, to)
  <2>1. /\ ticket'[x].status = to /\ ticket'[x].user = ticket[x].user
        /\ ticket'[x].trip = ticket[x].trip
        /\ \A y \in TicketIds \ {x} : ticket'[y] = ticket[y]
    BY <1>1, <1>2, SetStatusMoves
  <2>2. \A t \in Trips :
          /\ trip'[t].capacity = trip[t].capacity /\ trip'[t].running = trip[t].running
          /\ trip'[t].seatsAvailable =
               trip[t].seatsAvailable + (IF t = ticket[x].trip THEN SeatDelta(from, to) ELSE 0)
    BY <1>1, <1>2, MoveSeatMoves
  <2> QED
    BY <1>1, <1>3, <1>4, <1>5, <2>1, <2>2 DEF TicketMoves
<1>7. /\ ticket' \in [TicketIds -> Tickets]
      /\ trip' \in [Trips -> [capacity : Nat, seatsAvailable : Int, running : BOOLEAN]]
  BY <1>1, <1>2, SetStatusMoves, MoveSeatMoves
<1>8. refund[r] \in RefundRows
  BY DEF DeskInv, HandlerInv, DeskTypeOK
<1>9. /\ refund' = [refund EXCEPT ![r].at = refund'[r].at]
      /\ refund'[r].at = IF r \in Refunds THEN "calling" ELSE "done"
      /\ \A s \in RefundRequests \ {r} : refund'[s] = refund[s]
  BY <1>2, <1>8 DEF DeskInv, HandlerInv, DeskTypeOK
<1>10. DeskTypeOK'
  <2>1. refund' \in [RefundRequests -> RefundRows]
    BY <1>1, <1>2, RefundAt DEF DeskInv, HandlerInv, RefundStates
  <2>2. \A s \in RefundRequests : s \in open' <=> refund'[s].at \in {"open", "releasing"}
    BY <1>5, <1>9 DEF DeskInv, HandlerInv, DeskTypeOK
  <2> QED
    BY <1>2, <2>1, <2>2 DEF DeskInv, HandlerInv, DeskTypeOK
<1>11. HandlerInv'
  BY <1>1, <1>2, <1>5, <1>7, <1>10, SalesKeptHandlers DEF DeskInv
<1> QED
  BY <1>1, <1>2, <1>4, <1>6, <1>9, <1>11

LEMMA RefundUndoWritesTicket ==
  ASSUME DeskInv, NEW r \in Refunds, RefundUndoCommit(r)
  PROVE  /\ HandlerInv'
         /\ TicketMoves(r, refund[r].ticket, "refunded", "valid")
         /\ refundTxn[r] /\ refund[r].at = "releasing"
         /\ refund' = [refund EXCEPT ![r].at = "undone"]
         /\ refundTxn' = [refundTxn EXCEPT ![r] = FALSE]
         /\ UNCHANGED <<conversion, stripeRefunds, edit>> /\ SalesKept
<1> DEFINE x == refund[r].ticket
<1>1. /\ x \in SoldTickets /\ x \in TicketIds /\ ticket[x].status = "refunded"
      /\ TypeOK /\ RowsOK /\ r \in Clients /\ r \notin Bookings /\ r \in RefundRequests
      /\ ticket[x].trip \in Trips
      /\ refundTxn[r]
  BY DeskNames, TicketsAreOnTrips
  DEF RefundUndoCommit, DeskInv, HandlerInv, DeskTypeOK, RefundLife, RefundRequests, Recorded
<1>2. /\ SetStatus(x, "valid") /\ MoveSeat(x, "refunded", "valid")
      /\ EndTx(r, RowsOf(x, "refunded", "valid"))
      /\ refund[r].at = "releasing"
      /\ refund' = [refund EXCEPT ![r].at = "undone"]
      /\ refundTxn' = [refundTxn EXCEPT ![r] = FALSE]
      /\ UNCHANGED <<conversion, stripeRefunds, edit>> /\ SalesKept
      /\ "valid" \in Statuses
  BY DEF RefundUndoCommit, SalesKept, Statuses, ValidStatuses
<1>3. /\ RowsOf(x, "refunded", "valid") \in SUBSET (Trips \cup TicketIds)
      /\ x \in RowsOf(x, "refunded", "valid")
      /\ SeatDelta("refunded", "valid") # 0 => ticket[x].trip \in RowsOf(x, "refunded", "valid")
  BY <1>1, DeskRows
<1>5. /\ TxOK' /\ open' = open \ {r}
      /\ \A d \in Clients \ {r} : d \in open =>
           stale'[d] = stale[d] \cup RowsOf(x, "refunded", "valid")
  BY <1>1, <1>2, <1>3, TxSeenByOthers
<1>6. TicketMoves(r, x, "refunded", "valid")
  <2>1. /\ ticket'[x].status = "valid" /\ ticket'[x].user = ticket[x].user
        /\ ticket'[x].trip = ticket[x].trip
        /\ \A y \in TicketIds \ {x} : ticket'[y] = ticket[y]
    BY <1>1, <1>2, SetStatusMoves
  <2>2. \A t \in Trips :
          /\ trip'[t].capacity = trip[t].capacity /\ trip'[t].running = trip[t].running
          /\ trip'[t].seatsAvailable =
               trip[t].seatsAvailable
                 + (IF t = ticket[x].trip THEN SeatDelta("refunded", "valid") ELSE 0)
    BY <1>1, <1>2, MoveSeatMoves
  <2> QED
    BY <1>1, <1>3, <1>5, <2>1, <2>2 DEF TicketMoves
<1>7. /\ ticket' \in [TicketIds -> Tickets]
      /\ trip' \in [Trips -> [capacity : Nat, seatsAvailable : Int, running : BOOLEAN]]
  BY <1>1, <1>2, SetStatusMoves, MoveSeatMoves
<1>8. refund[r] \in RefundRows
  BY <1>1 DEF DeskInv, HandlerInv, DeskTypeOK
<1>9. DeskTypeOK'
  <2>1. refund' \in [RefundRequests -> RefundRows]
    BY <1>1, <1>2, RefundAt DEF DeskInv, HandlerInv, RefundStates
  <2>2. \A s \in RefundRequests : s \in open' <=> refund'[s].at \in {"open", "releasing"}
    BY <1>1, <1>2, <1>5 DEF DeskInv, HandlerInv, DeskTypeOK
  <2> QED
    BY <1>2, <2>1, <2>2 DEF DeskInv, HandlerInv, DeskTypeOK
<1>10. HandlerInv'
  BY <1>1, <1>2, <1>5, <1>7, <1>9, SalesKeptHandlers DEF DeskInv
<1> QED
  BY <1>1, <1>2, <1>6, <1>10

\* issue_free: the seats of the cancelled tickets come back, the new ticket takes one.
Freed(cancelled, s) == {x \in cancelled : ticket[x].trip = s}

LEMMA IssueFreeSeats ==
  ASSUME DeskInv, NEW c \in Conversions, NEW user \in Users, NEW t \in Trips,
         NEW cancelled \in SUBSET TicketIds, IssueFree(c, user, t, cancelled),
         NEW s \in Trips
  PROVE  /\ Freed(cancelled, s) \subseteq Occupied(s)
         /\ IsFiniteSet(Freed(cancelled, s)) /\ Cardinality(Freed(cancelled, s)) \in Nat
         /\ trip'[s] \in [capacity : Nat, seatsAvailable : Int, running : BOOLEAN]
         /\ trip'[s].capacity = trip[s].capacity /\ trip'[s].running = trip[s].running
         /\ trip'[s].seatsAvailable = trip[s].seatsAvailable
              + Cardinality(Freed(cancelled, s)) - (IF s = t THEN 1 ELSE 0)
<1>1. /\ Freed(cancelled, s) \subseteq Occupied(s)
      /\ IsFiniteSet(Freed(cancelled, s)) /\ Cardinality(Freed(cancelled, s)) \in Nat
  <2>1. Freed(cancelled, s) \subseteq Occupied(s)
    BY DEF IssueFree, Cancellable, Freed, Occupied, ValidStatuses
  <2> QED
    BY <2>1, FS_Subset, FS_CardinalityType DEF DeskInv, SeatsFinite
<1>2. trip'[s] = [trip[s] EXCEPT !.seatsAvailable =
                    @ + Cardinality(Freed(cancelled, s)) - (IF s = t THEN 1 ELSE 0)]
  BY DEF IssueFree, Freed
<1>3. trip[s] \in [capacity : Nat, seatsAvailable : Int, running : BOOLEAN]
  BY DEF DeskInv, HandlerInv, TypeOK
<1> QED
  BY <1>1, <1>2, <1>3

LEMMA IssueFreeSeen ==
  ASSUME DeskInv, NEW c \in Conversions, NEW user \in Users, NEW t \in Trips,
         NEW cancelled \in SUBSET TicketIds, IssueFree(c, user, t, cancelled),
         NEW d \in Clients, d \in open
  PROVE  /\ stale[d] \subseteq stale'[d] /\ t \in stale'[d]
         /\ cancelled \subseteq stale'[d]
         /\ \A x \in cancelled : ticket[x].trip \in stale'[d]
<1> DEFINE rows == {t} \cup cancelled \cup {ticket[x].trip : x \in cancelled}
<1>1. EndTx(c, rows)
  BY DEF IssueFree
<1>2. d # c
  BY DeskActors
<1>3. stale'[d] = stale[d] \cup rows
  BY <1>1, <1>2 DEF EndTx
<1> QED
  BY <1>3

LEMMA IssueFreeWrites ==
  ASSUME DeskInv, NEW c \in Conversions, NEW user \in Users, NEW t \in Trips,
         NEW cancelled \in SUBSET TicketIds, IssueFree(c, user, t, cancelled)
  PROVE  /\ HandlerInv'
         /\ ticket[c].status = "none" /\ c \notin cancelled /\ conversion[c].cancelled = {}
         /\ \A x \in cancelled : ticket[x].status = "valid"
         /\ ticket'[c] = [status |-> "valid", user |-> user, trip |-> t]
         /\ \A x \in cancelled : ticket'[x].status = "void" /\ ticket'[x].trip = ticket[x].trip
         /\ \A x \in TicketIds \ (cancelled \cup {c}) : ticket'[x] = ticket[x]
         /\ conversion' = [conversion EXCEPT ![c] = [done |-> TRUE, cancelled |-> cancelled]]
         /\ trip'[t].seatsAvailable >= 0 /\ trip[t].running
         /\ UNCHANGED <<refund, refundTxn, stripeRefunds, edit>> /\ SalesKept
<1> DEFINE rows == {t} \cup cancelled \cup {ticket[x].trip : x \in cancelled}
<1>1. /\ ~conversion[c].done /\ trip[t].running /\ trip'[t].seatsAvailable >= 0
      /\ \A x \in cancelled : ticket[x].status = "valid"
      /\ conversion' = [conversion EXCEPT ![c] = [done |-> TRUE, cancelled |-> cancelled]]
      /\ EndTx(c, rows)
      /\ UNCHANGED <<refund, refundTxn, stripeRefunds, edit>> /\ SalesKept
  BY DEF IssueFree, Cancellable, SalesKept
<1>2. /\ c \in TicketIds /\ c \notin Clients /\ TypeOK /\ RowsOK /\ SeatsFinite
      /\ ticket[c].status = "none" /\ c \notin cancelled /\ conversion[c].cancelled = {}
  BY <1>1, DeskNames, DeskActors DEF DeskInv, HandlerInv, RowsOK
<1>3. /\ ticket' = [x \in TicketIds |->
           CASE x = c -> [status |-> "valid", user |-> user, trip |-> t]
             [] x \in cancelled -> [ticket[x] EXCEPT !.status = "void"]
             [] OTHER -> ticket[x]]
  BY DEF IssueFree
<1>4. /\ ticket'[c] = [status |-> "valid", user |-> user, trip |-> t]
      /\ \A x \in TicketIds \ (cancelled \cup {c}) : ticket'[x] = ticket[x]
      /\ \A x \in cancelled : ticket'[x] = [ticket[x] EXCEPT !.status = "void"]
  BY <1>2, <1>3
<1>5. \A x \in TicketIds : ticket'[x] \in Tickets
  <2>1. [status |-> "valid", user |-> user, trip |-> t] \in Tickets
    BY DEF Tickets, Statuses, ValidStatuses
  <2>2. ASSUME NEW x \in cancelled PROVE ticket'[x] \in Tickets
    <3>1. x \in TicketIds /\ "void" \in Statuses
      BY DEF Statuses, VoidStatuses
    <3>2. ticket[x] \in Tickets
      BY <1>2, <3>1 DEF TypeOK
    <3>3. [ticket[x] EXCEPT !.status = "void"] \in Tickets
      BY <3>1, <3>2, StatusChanged
    <3> QED
      BY <1>4, <3>3
  <2> QED
    BY <1>2, <1>4, <2>1, <2>2 DEF TypeOK
<1>6. ASSUME NEW x \in cancelled
      PROVE  ticket'[x].status = "void" /\ ticket'[x].trip = ticket[x].trip
               /\ ticket[x].trip \in Trips
  <2>1. x \in TicketIds /\ ticket[x].status # "none" /\ "void" \in Statuses
    BY <1>1 DEF Statuses, VoidStatuses
  <2>2. ticket[x] \in Tickets
    BY <1>2, <2>1 DEF TypeOK
  <2>3. /\ [ticket[x] EXCEPT !.status = "void"].status = "void"
        /\ [ticket[x] EXCEPT !.status = "void"].trip = ticket[x].trip
    BY <2>1, <2>2, StatusChanged
  <2>4. ticket'[x] = [ticket[x] EXCEPT !.status = "void"]
    BY <1>4
  <2> QED
    BY <1>2, <2>1, <2>3, <2>4, TicketsAreOnTrips
<1>8. \A s \in Trips :
        trip'[s] \in [capacity : Nat, seatsAvailable : Int, running : BOOLEAN]
  BY IssueFreeSeats
<1>9. /\ ticket' \in [TicketIds -> Tickets]
      /\ trip' \in [Trips -> [capacity : Nat, seatsAvailable : Int, running : BOOLEAN]]
  <2>1. trip' = [s \in Trips |-> trip'[s]]
    BY DEF IssueFree
  <2> QED
    BY <1>3, <1>5, <1>8, <2>1
<1>10. /\ TxOK' /\ open' = open \ {c}
       /\ \A d \in Clients : d \in open => stale'[d] = stale[d] \cup rows
  <2>1. rows \in SUBSET (Trips \cup TicketIds)
    BY <1>6
  <2> QED
    BY <1>1, <1>2, <2>1, TxSeenByOthers
<1>11. \A d \in Clients : d \in open' <=> d \in open
  BY <1>2, <1>10
<1>12. DeskTypeOK'
  BY <1>1, <1>11, DeskNames DEF DeskInv, HandlerInv, DeskTypeOK
<1>13. HandlerInv'
  BY <1>1, <1>9, <1>10, <1>11, <1>12, DeskNames, SalesKeptHandlers DEF DeskInv
<1> QED
  BY <1>1, <1>2, <1>4, <1>6, <1>13

\* Edits of a trip and of its status touch no ticket and no refund.
TripSteps ==
  \/ \E e \in Edits : EditRead(e) \/ EditWrite(e)
  \/ \E t \in StatusTrips : SetTripStatus(t)

LEMMA TripStepsKeepTickets ==
  ASSUME DeskInv, TripSteps
  PROVE  /\ HandlerInv'
         /\ UNCHANGED <<ticket, refund, refundTxn, conversion, stripeRefunds>> /\ SalesKept
         /\ \A d \in Clients : d \in open =>
              /\ stale[d] \subseteq stale'[d]
              /\ \A t \in Trips : trip'[t] # trip[t] => t \in stale'[d]
         /\ \A t \in Trips :
              ~Edited(t)' => /\ ~Edited(t)
                             /\ trip'[t].capacity = trip[t].capacity
                             /\ trip'[t].seatsAvailable = trip[t].seatsAvailable
<1>1. /\ TypeOK /\ TxOK /\ DeskTypeOK /\ StatusTrips \subseteq Trips
      /\ Edits \cap Clients = {} /\ Trips \cap Clients = {}
  BY DeskActors, StatusTripsAreTrips DEF DeskInv, HandlerInv, TypeOK, TxOK
<1>2. CASE \E e \in Edits : EditRead(e)
  <2>1. PICK e \in Edits : EditRead(e)
    BY <1>2
  <2>2. /\ UNCHANGED <<ticket, refund, refundTxn, conversion, stripeRefunds>> /\ SalesKept
        /\ trip' = trip /\ open' = open /\ stale' = stale
    BY <2>1 DEF EditRead, SalesKept, saleVars
  <2>3. PICK t \in Trips, n \in 0..MaxCapacity :
          edit' = [edit EXCEPT ![e] =
                     [at |-> "read", trip |-> t, capacity |-> n,
                      seats |-> trip[t].seatsAvailable + (n - trip[t].capacity)]]
    BY <2>1 DEF EditRead
  <2>4. [at |-> "read", trip |-> t, capacity |-> n,
         seats |-> trip[t].seatsAvailable + (n - trip[t].capacity)]
          \in [at : {"new", "read", "done"}, trip : Trips \cup {NoTrip},
               capacity : Nat, seats : Int]
    BY <1>1, CapacityBound DEF TypeOK
  <2>5. DeskTypeOK'
    BY <1>1, <2>2, <2>3, <2>4 DEF DeskTypeOK
  <2>6. HandlerInv'
    BY <1>1, <2>2, <2>5, SalesKeptHandlers DEF DeskInv, TypeOK, TxOK
  <2>7. \A s \in Trips : Edited(s) => Edited(s)'
    BY <1>1, <2>1, <2>3 DEF Edited, EditRead, DeskTypeOK
  <2> QED
    BY <2>2, <2>6, <2>7
<1>3. CASE \E e \in Edits : EditWrite(e)
  <2>1. PICK e \in Edits : EditWrite(e)
    BY <1>3
  <2>2. /\ UNCHANGED <<ticket, refund, refundTxn, conversion, stripeRefunds>> /\ SalesKept
        /\ EndTx(e, {edit[e].trip}) /\ edit[e].at = "read"
        /\ edit' = [edit EXCEPT ![e].at = "done"]
    BY <2>1 DEF EditWrite, SalesKept
  <2>3. edit[e] \in [at : {"new", "read", "done"}, trip : Trips \cup {NoTrip},
                     capacity : Nat, seats : Int]
    BY <1>1 DEF DeskTypeOK
  <2> DEFINE u == edit[e].trip
  <2>4. ASSUME NEW t \in Trips
        PROVE  /\ trip'[t] \in [capacity : Nat, seatsAvailable : Int, running : BOOLEAN]
               /\ t # u => trip'[t] = trip[t]
    BY <1>1, <2>1, <2>3 DEF EditWrite, TypeOK
  <2>5. trip' \in [Trips -> [capacity : Nat, seatsAvailable : Int, running : BOOLEAN]]
    <3>1. trip' = [t \in Trips |-> trip'[t]]
      BY <1>1, <2>1 DEF EditWrite, TypeOK
    <3> QED
      BY <2>4, <3>1
  <2>6. /\ TxOK' /\ open' = open \ {e}
        /\ \A d \in Clients : d \in open => stale'[d] = stale[d] \cup {u}
    <3>1. u \in Trips
      BY <1>1, <2>2 DEF DeskTypeOK
    <3> QED
      BY <1>1, <2>2, <3>1, TxSeenByOthers
  <2>7. \A d \in Clients : d \in open' <=> d \in open
    BY <1>1, <2>6
  <2>8. edit'[e].trip = u /\ edit'[e].at = "done" /\ \A d \in Edits \ {e} : edit'[d] = edit[d]
    BY <1>1, <2>2, <2>3 DEF DeskTypeOK
  <2>9. DeskTypeOK'
    <3>1. [edit[e] EXCEPT !.at = "done"] \in [at : {"new", "read", "done"},
             trip : Trips \cup {NoTrip}, capacity : Nat, seats : Int]
      BY <2>3
    <3> QED
      BY <1>1, <2>2, <2>7, <3>1, DeskNames DEF DeskTypeOK
  <2>10. HandlerInv'
    BY <1>1, <2>2, <2>5, <2>6, <2>7, <2>9, DeskNames, SalesKeptHandlers DEF DeskInv, TypeOK
  <2>11. \A t \in Trips : ~Edited(t)' => ~Edited(t) /\ t # u
    BY <2>2, <2>8 DEF Edited
  <2> QED
    BY <2>2, <2>4, <2>6, <2>10, <2>11
<1>4. CASE \E t \in StatusTrips : SetTripStatus(t)
  <2>1. PICK u \in StatusTrips : SetTripStatus(u)
    BY <1>4
  <2>2. /\ UNCHANGED <<ticket, refund, refundTxn, conversion, stripeRefunds, edit>> /\ SalesKept
        /\ EndTx(u, {u}) /\ u \in Trips /\ u \notin Clients
    BY <1>1, <2>1 DEF SetTripStatus, SalesKept, deskVars
  <2>3. ASSUME NEW t \in Trips
        PROVE  /\ trip'[t] \in [capacity : Nat, seatsAvailable : Int, running : BOOLEAN]
               /\ t # u => trip'[t] = trip[t]
               /\ trip'[t].capacity = trip[t].capacity
               /\ trip'[t].seatsAvailable = trip[t].seatsAvailable
    <3>1. trip[t] \in [capacity : Nat, seatsAvailable : Int, running : BOOLEAN]
      BY <1>1 DEF TypeOK
    <3>2. trip'[t] = IF t = u THEN [trip[t] EXCEPT !.running = ~@] ELSE trip[t]
      BY <1>1, <2>1 DEF SetTripStatus, TypeOK
    <3> QED
      BY <3>1, <3>2
  <2>4. trip' \in [Trips -> [capacity : Nat, seatsAvailable : Int, running : BOOLEAN]]
    <3>1. trip' = [t \in Trips |-> trip'[t]]
      BY <1>1, <2>1 DEF SetTripStatus, TypeOK
    <3> QED
      BY <2>3, <3>1
  <2>5. /\ TxOK' /\ open' = open \ {u}
        /\ \A d \in Clients : d \in open => stale'[d] = stale[d] \cup {u}
    BY <1>1, <2>2, TxSeenByOthers
  <2>6. \A d \in Clients : d \in open' <=> d \in open
    BY <2>2, <2>5
  <2>7. DeskTypeOK'
    BY <1>1, <2>2, <2>6, DeskNames DEF DeskTypeOK
  <2>8. HandlerInv'
    BY <1>1, <2>2, <2>4, <2>5, <2>6, <2>7, DeskNames, SalesKeptHandlers DEF DeskInv, TypeOK
  <2>9. \A t \in Trips : Edited(t)' <=> Edited(t)
    BY <2>2 DEF Edited
  <2> QED
    BY <2>2, <2>3, <2>5, <2>8, <2>9
<1> QED
  BY <1>2, <1>3, <1>4 DEF TripSteps

(***************************************************************************)
(* Every step keeps the invariant.                                         *)
(***************************************************************************)

\* What a step of a purchase does to the tickets the desk may be working on.
LEMMA SaleWritesTickets ==
  ASSUME DeskInv, NEW b \in Bookings, SaleStep(b), UNCHANGED deskVars
  PROVE  /\ order' = order /\ sale[b] # "sold"
         /\ \A d \in Bookings \ {b} : sale'[d] = sale[d]
         /\ \A x \in TicketIds \ TicketsOf(b) : ticket'[x] = ticket[x]
         /\ SaleCommit(b) => /\ sale[b] = "selling" /\ sale'[b] = "charging"
                             /\ \A x \in TicketsOf(b) :
                                  /\ ticket[x].status = "none" /\ ticket'[x].status = "valid"
                                  /\ ticket'[x].trip = order[b].trips[x[2]]
         /\ UndoCommit(b) => /\ sale[b] = "releasing" /\ sale'[b] = "failed"
                             /\ \A x \in TicketsOf(b) :
                                  /\ ticket[x].status \in {"valid", "void"}
                                  /\ ticket'[x].status = "failed"
                                  /\ ticket'[x].trip = ticket[x].trip
         /\ ~SaleCommit(b) /\ ~UndoCommit(b) =>
              /\ trip' = trip /\ ticket' = ticket
              /\ sale[b] \in {"new", "selling"} => sale'[b] \in {"selling", "refused"}
              /\ sale[b] \in HeldStates => sale'[b] \in HeldStates
              /\ sale[b] \notin {"refused", "failed"}
         /\ \A d \in Clients \ {b} : d \in open =>
              /\ stale[d] \subseteq stale'[d]
              /\ SaleCommit(b) \/ UndoCommit(b) => Asked(b) \subseteq stale'[d]
              /\ UndoCommit(b) => TicketsOf(b) \subseteq stale'[d]
<1>1. TypeOK /\ TicketsOf(b) \subseteq SoldTickets /\ TicketsOf(b) \subseteq TicketIds
  BY RequestedRows, DeskNames DEF DeskInv, HandlerInv, TypeOK
<1>2. \A x \in TicketsOf(b) : x \in SoldTickets /\ x[1] = b
  BY <1>1, OwnTickets
<1>3. \A x \in TicketsOf(b) :
        /\ sale[b] = "selling" => ticket[x].status = "none"
        /\ sale[b] = "releasing" => ticket[x].status \in {"valid", "void"}
  BY <1>2 DEF DeskInv, StatusFollowsSale, HeldStates, Errors
<1>4. CASE SaleCommit(b)
  <2>1. /\ sale[b] = "selling" /\ sale'[b] = "charging" /\ order' = order
        /\ \A d \in Bookings \ {b} : sale'[d] = sale[d]
        /\ EndTx(b, Asked(b)) /\ ~UndoCommit(b)
    BY <1>1, <1>4 DEF SaleCommit, UndoCommit, TypeOK
  <2>2. /\ \A x \in TicketsOf(b) :
             ticket'[x].status = "valid" /\ ticket'[x].trip = order[b].trips[x[2]]
        /\ \A x \in TicketIds \ TicketsOf(b) : ticket'[x] = ticket[x]
    BY <1>1, <1>4 DEF SaleCommit, SoldStatus
  <2>3. \A d \in Clients \ {b} : d \in open => stale'[d] = stale[d] \cup Asked(b)
    BY <2>1 DEF EndTx
  <2> QED
    BY <1>3, <1>4, <2>1, <2>2, <2>3
<1>5. CASE UndoCommit(b)
  <2>1. /\ sale[b] = "releasing" /\ sale'[b] = "failed" /\ order' = order
        /\ \A d \in Bookings \ {b} : sale'[d] = sale[d]
        /\ EndTx(b, Asked(b) \cup TicketsOf(b)) /\ ~SaleCommit(b)
    BY <1>1, <1>5 DEF SaleCommit, UndoCommit, TypeOK
  <2>2. ASSUME NEW x \in TicketsOf(b)
        PROVE  ticket'[x].status = "failed" /\ ticket'[x].trip = ticket[x].trip
    <3>1. ticket'[x] = [ticket[x] EXCEPT !.status = "failed"] /\ ticket[x] \in Tickets
      BY <1>1, <1>5 DEF UndoCommit, TypeOK
    <3>2. "failed" \in Statuses
      BY DEF Statuses, VoidStatuses
    <3> QED
      BY <3>1, <3>2, StatusChanged
  <2>3. \A x \in TicketIds \ TicketsOf(b) : ticket'[x] = ticket[x]
    BY <1>5 DEF UndoCommit
  <2>4. \A d \in Clients \ {b} : d \in open =>
          stale'[d] = stale[d] \cup (Asked(b) \cup TicketsOf(b))
    BY <2>1 DEF EndTx
  <2> QED
    BY <1>3, <1>5, <2>1, <2>2, <2>3, <2>4
<1>6. CASE ~SaleCommit(b) /\ ~UndoCommit(b)
  <2>1. trip' = trip /\ ticket' = ticket /\ order' = order
    BY <1>6, QuietSteps DEF Quiet
  <2>2. /\ sale[b] # "sold" /\ \A d \in Bookings \ {b} : sale'[d] = sale[d]
        /\ sale[b] \in {"new", "selling"} => sale'[b] \in {"selling", "refused"}
        /\ sale[b] \in HeldStates => sale'[b] \in HeldStates
        /\ sale[b] \notin {"refused", "failed"}
    BY <1>1, <1>6
    DEF TypeOK, SaleStep, Handle, SaleBegin, SaleRefuse, SaleConflict, ChargeNothing, ChargeCard,
        ChargeDeclined, ChargeReplyLost, RecordCharge, RecordChargeFails, RecordError,
        UndoBegin, UndoConflict, Crash, HeldStates, Errors, InFlight, Ended, SaleStates
  <2>3. \A d \in Clients \ {b} : d \in open => stale[d] \subseteq stale'[d]
    BY <1>6
    DEF SaleStep, Handle, SaleBegin, SaleRefuse, SaleConflict, ChargeNothing, ChargeCard,
        ChargeDeclined, ChargeReplyLost, RecordCharge, RecordChargeFails, RecordError,
        UndoBegin, UndoConflict, Crash, BeginTx, EndTx, txVars
  <2> QED
    BY <1>6, <2>1, <2>2, <2>3
<1> QED
  BY <1>4, <1>5, <1>6

LEMMA SaleKeepsDesk ==
  ASSUME DeskInv, NEW b \in Bookings, SaleStep(b), UNCHANGED deskVars
  PROVE  DeskInv'
<1>1. HandlerInv'
  BY SaleKeepsHandlers DEF DeskInv
<1>2. /\ order' = order /\ sale[b] # "sold"
      /\ \A d \in Bookings \ {b} : sale'[d] = sale[d]
      /\ \A x \in TicketIds \ TicketsOf(b) : ticket'[x] = ticket[x]
  BY SaleWritesTickets
<1>3. /\ TypeOK /\ TicketsOf(b) \subseteq SoldTickets
      /\ \A x \in TicketsOf(b) : x \in TicketIds /\ x[1] = b
      /\ \A d : TicketsOf(d)' = TicketsOf(d)
  BY <1>2, RequestedRows, DeskNames, OwnTickets DEF DeskInv, HandlerInv, TypeOK, TicketsOf
<1>4. \A x : DeskItems(x)' = DeskItems(x) /\ PricedItems(x)' = PricedItems(x)
  BY DEF deskVars, DeskItems, PricedItems, ZeroItems
<1>5. ASSUME NEW x \in TicketIds, ticket[x].status # "none"
      PROVE  ticket'[x].status # "none" /\ ticket'[x].trip = ticket[x].trip
  BY <1>2, <1>5, SaleWritesTickets
<1>6. RowsOK'
  <2>1. ASSUME NEW x \in SoldTickets, ticket'[x].status # "none"
        PROVE  x \in TicketsOf(x[1]) /\ ticket'[x].trip = order[x[1]].trips[x[2]]
    <3>1. x \in TicketIds
      BY DeskNames
    <3>2. CASE ticket[x].status # "none"
      BY <3>1, <3>2, <1>5 DEF DeskInv, RowsOK
    <3>3. CASE ticket[x].status = "none"
      <4>1. x \in TicketsOf(b) /\ SaleCommit(b)
        BY <2>1, <3>1, <3>3, <1>2, SaleWritesTickets
      <4> QED
        BY <1>3, <4>1, SaleWritesTickets
    <3> QED
      BY <3>2, <3>3
  <2>2. \A c \in Conversions : ticket'[c] = ticket[c] /\ conversion' = conversion
    BY <1>2, <1>3, DeskNames DEF deskVars
  <2>3. \A c \in Conversions : \A x \in conversion[c].cancelled : ticket'[x].status # "none"
    BY <1>5 DEF DeskInv, HandlerInv, DeskTypeOK, RowsOK
  <2> QED
    BY <1>2, <1>3, <2>1, <2>2, <2>3 DEF DeskInv, RowsOK
<1>7. (StatusFollowsSale /\ VoidHasItems)'
  <2>1. ASSUME NEW x \in SoldTickets, x \in TicketsOf(b)
        PROVE  /\ sale'[b] \in {"new", "selling", "refused"} => ticket'[x].status = "none"
               /\ sale'[b] = "failed" => ticket'[x].status = "failed"
               /\ sale'[b] \in HeldStates \ {"sold"} =>
                    ticket'[x].status = IF DeskItems(x) = {} THEN "valid" ELSE "void"
               /\ sale'[b] = "sold" => ticket'[x].status \in {"valid", "void", "refunded"}
               /\ ticket'[x].status = "void" => DeskItems(x) # {}
    <3>1. CASE SaleCommit(b)
      <4>1. DeskItems(x) = {}
        <5>1. ticket[x].status = "none"
          BY <2>1, <3>1, SaleWritesTickets
        <5> QED
          BY <5>1 DEF DeskItems, PricedItems, ZeroItems, DeskInv, RefundLife, RowsOK, Recorded
      <4>2. sale'[b] = "charging" /\ ticket'[x].status = "valid"
        BY <2>1, <3>1, SaleWritesTickets
      <4> QED
        BY <4>1, <4>2 DEF HeldStates, Errors
    <3>2. CASE UndoCommit(b)
      <4>1. sale'[b] = "failed" /\ ticket'[x].status = "failed"
        BY <2>1, <3>2, SaleWritesTickets
      <4> QED
        BY <4>1 DEF HeldStates, Errors
    <3>3. CASE ~SaleCommit(b) /\ ~UndoCommit(b)
      <4>1. /\ ticket' = ticket /\ sale[b] \in SaleStates
            /\ sale[b] \in {"new", "selling"} => sale'[b] \in {"selling", "refused"}
            /\ sale[b] \in HeldStates => sale'[b] \in HeldStates
            /\ sale[b] \notin {"refused", "failed", "sold"}
        BY <1>2, <1>3, <3>3, SaleWritesTickets DEF TypeOK
      <4>2. x[1] = b
        BY <1>3, <2>1
      <4> QED
        BY <2>1, <4>1, <4>2
        DEF DeskInv, StatusFollowsSale, VoidHasItems, HeldStates, Errors, SaleStates, Ended
    <3> QED
      BY <3>1, <3>2, <3>3
  <2>2. ASSUME NEW x \in SoldTickets, x \notin TicketsOf(b)
        PROVE  ticket'[x] = ticket[x] /\ (x \in TicketsOf(x[1]) => sale'[x[1]] = sale[x[1]])
    <3>1. x[1] \in Bookings /\ x \in TicketIds
      BY DeskNames DEF SoldTickets
    <3> QED
      BY <1>2, <2>2, <3>1
  <2>3. VoidHasItems'
    BY <1>4, <2>1, <2>2 DEF DeskInv, VoidHasItems
  <2>4. StatusFollowsSale'
    BY <1>3, <1>4, <2>1, <2>2 DEF DeskInv, StatusFollowsSale
  <2> QED
    BY <2>3, <2>4
<1>8. RefundLife'
  <2>1. UNCHANGED <<refund, refundTxn>>
    BY DEF deskVars
  <2>2. ASSUME NEW r \in RefundRequests, refund[r].at # "new"
        PROVE  /\ refund[r].ticket \in SoldTickets
               /\ ticket'[refund[r].ticket].status # "none"
               /\ r \in Refunds =>
                    /\ sale'[refund[r].ticket[1]] = "sold"
                    /\ ticket'[refund[r].ticket] = ticket[refund[r].ticket]
    <3>1. /\ refund[r].ticket \in SoldTickets
          /\ ticket[refund[r].ticket].status # "none"
          /\ r \in Refunds => sale[refund[r].ticket[1]] = "sold"
      BY <2>2 DEF DeskInv, RefundLife
    <3>2. refund[r].ticket \in TicketIds /\ refund[r].ticket[1] \in Bookings
      BY <3>1, DeskNames DEF SoldTickets
    <3> QED
      BY <1>2, <1>3, <1>5, <3>1, <3>2
  <2> QED
    BY <1>2, <2>1, <2>2 DEF DeskInv, RefundLife, Recorded
<1>9. StillRefundable'
  <2>1. UNCHANGED <<refund, refundTxn>>
    BY DEF deskVars
  <2>2. ASSUME NEW r \in RefundRequests, refund[r].at = "open", refund[r].ticket \notin stale'[r]
        PROVE  ticket'[refund[r].ticket] = ticket[refund[r].ticket]
                 /\ refund[r].ticket \notin stale[r]
    <3>1. r \in Clients \ {b} /\ r \in open
      BY <2>2, DeskNames DEF DeskInv, HandlerInv, DeskTypeOK
    <3>2. refund[r].ticket \in TicketIds /\ ticket[refund[r].ticket].status # "none"
      BY <2>2, DeskNames DEF DeskInv, RefundLife
    <3>3. /\ stale[r] \subseteq stale'[r]
          /\ UndoCommit(b) => TicketsOf(b) \subseteq stale'[r]
      BY <3>1, SaleWritesTickets
    <3> QED
      BY <2>2, <3>2, <3>3, <1>2, SaleWritesTickets
  <2> QED
    BY <1>4, <2>1, <2>2 DEF DeskInv, StillRefundable
<1>10. OneRefundStands'
  BY DEF DeskInv, OneRefundStands, deskVars
<1>11. SeatsFinite'
  <2>1. ASSUME NEW t \in Trips PROVE IsFiniteSet(Occupied(t)')
    <3>1. /\ IsFiniteSet(Occupied(t)) /\ IsFiniteSet(Mine(b, t))
          /\ Mine(b, t) = {x \in TicketsOf(b) : order[b].trips[x[2]] = t}
      BY <1>3, MineCount, MineIsAsked DEF DeskInv, SeatsFinite, TypeOK
    <3>2. IsFiniteSet(Occupied(t) \cup Mine(b, t))
      BY <3>1, FS_Union
    <3>3. Occupied(t)' \subseteq Occupied(t) \cup Mine(b, t)
      <4>1. ASSUME NEW x \in Occupied(t)', x \notin Occupied(t) PROVE x \in Mine(b, t)
        <5>1. x \in TicketIds /\ ticket'[x] # ticket[x] /\ ticket'[x].status \in ValidStatuses
          BY <4>1 DEF Occupied
        <5>2. x \in TicketsOf(b) /\ SaleCommit(b)
          BY <1>2, <5>1, SaleWritesTickets DEF ValidStatuses
        <5>3. ticket'[x].trip = order[b].trips[x[2]] /\ ticket'[x].trip = t
          BY <4>1, <5>2, SaleWritesTickets DEF Occupied
        <5> QED
          BY <3>1, <5>2, <5>3
      <4> QED
        BY <4>1
    <3> QED
      BY <3>2, <3>3, FS_Subset
  <2> QED
    BY <2>1 DEF SeatsFinite
<1> QED
  BY <1>1, <1>6, <1>7, <1>8, <1>9, <1>10, <1>11 DEF DeskInv

\* Steps that write no ticket and no item keep what is known of the tickets.
LEMMA TicketsKept ==
  ASSUME DeskInv, UNCHANGED <<ticket, refundTxn, conversion>>, SalesKept,
         \A r \in RefundRequests : refundTxn[r] => refund'[r].ticket = refund[r].ticket
  PROVE  /\ RowsOK' /\ StatusFollowsSale' /\ VoidHasItems' /\ OneRefundStands' /\ SeatsFinite'
         /\ \A x : PricedItems(x)' = PricedItems(x)
<1>1. \A x : PricedItems(x)' = PricedItems(x) /\ DeskItems(x)' = DeskItems(x)
  BY DEF DeskItems, PricedItems, ZeroItems
<1>2. \A b : TicketsOf(b)' = TicketsOf(b)
  BY DEF SalesKept, TicketsOf
<1>3. (RowsOK /\ StatusFollowsSale /\ VoidHasItems)'
  BY <1>1, <1>2
  DEF SalesKept, DeskInv, RowsOK, StatusFollowsSale, VoidHasItems
<1>4. OneRefundStands'
  BY DEF DeskInv, OneRefundStands
<1>5. SeatsFinite'
  BY DEF DeskInv, SeatsFinite, Occupied
<1> QED
  BY <1>1, <1>3, <1>4, <1>5

LEMMA BeginKeepsDesk ==
  ASSUME DeskInv, NEW r \in RefundRequests,
         \/ r \in Refunds /\ RefundBegin(r)
         \/ r \in PassRefunds /\ PassRefundBegin(r)
  PROVE  DeskInv'
<1>1. /\ HandlerInv'
      /\ UNCHANGED <<trip, ticket, refundTxn, conversion, stripeRefunds, edit, stale>>
      /\ SalesKept /\ ~refundTxn[r] /\ stale[r] = {} /\ refund[r].at = "new"
  BY RefundBegins
<1>2. PICK x \in SoldTickets :
        /\ refund' = [refund EXCEPT ![r] =
                        [at |-> "open", ticket |-> x, was |-> ticket[x].status]]
        /\ ticket[x].status \in {"valid", "void"}
        /\ PricedItems(x) = {}
        /\ r \in Refunds => sale[x[1]] = "sold" /\ ~order[x[1]].free
        /\ r \in PassRefunds => ticket[x].status = "valid"
  BY RefundBegins
<1>3. /\ refund'[r] = [at |-> "open", ticket |-> x, was |-> ticket[x].status]
      /\ \A s \in RefundRequests \ {r} : refund'[s] = refund[s]
  BY <1>2 DEF DeskInv, HandlerInv, DeskTypeOK
<1>4. /\ RowsOK' /\ StatusFollowsSale' /\ VoidHasItems' /\ OneRefundStands' /\ SeatsFinite'
      /\ \A y : PricedItems(y)' = PricedItems(y)
  <2>1. \A s \in RefundRequests : refundTxn[s] => refund'[s].ticket = refund[s].ticket
    BY <1>1, <1>3
  <2> QED
    BY <1>1, <2>1, TicketsKept
<1>5. RefundLife'
  BY <1>1, <1>2, <1>3 DEF DeskInv, RefundLife, Recorded, SalesKept
<1>6. StillRefundable'
  <2>1. ASSUME NEW s \in RefundRequests, refund'[s].at = "open", refund'[s].ticket \notin stale[s]
        PROVE  /\ ticket[refund'[s].ticket].status = refund'[s].was
               /\ PricedItems(refund'[s].ticket) = {}
    <3>1. CASE s = r
      BY <1>2, <1>3, <3>1
    <3>2. CASE s # r
      BY <1>3, <2>1, <3>2 DEF DeskInv, StillRefundable
    <3> QED
      BY <3>1, <3>2
  <2> QED
    BY <1>1, <1>4, <2>1 DEF StillRefundable
<1> QED
  BY <1>1, <1>4, <1>5, <1>6 DEF DeskInv

LEMMA MoveKeepsDesk ==
  ASSUME DeskInv, NEW r \in RefundRequests,
         \/ r \in Refunds /\ RefundMoves(r)
         \/ r \in PassRefunds /\ PassRefundAbort(r)
  PROVE  DeskInv'
<1>1. /\ HandlerInv'
      /\ UNCHANGED <<trip, ticket, refundTxn, conversion, edit>> /\ SalesKept
      /\ refund' = [refund EXCEPT ![r].at = refund'[r].at]
      /\ refund[r].at # "new" /\ refund'[r].at \in RefundStates \ {"new", "open", "undone"}
      /\ refund[r].at \in Recorded <=> refund'[r].at \in Recorded
      /\ r \in PassRefunds => refund'[r].at = "rejected"
      /\ \A d \in Clients \ {r} : d \in open => stale'[d] = stale[d]
  BY RefundMovesOn
<1>2. \A s \in RefundRequests :
        /\ refund'[s].ticket = refund[s].ticket /\ refund'[s].was = refund[s].was
        /\ s # r => refund'[s] = refund[s]
  BY <1>1, RefundAt DEF DeskInv, HandlerInv
<1>3. /\ RowsOK' /\ StatusFollowsSale' /\ VoidHasItems' /\ OneRefundStands' /\ SeatsFinite'
      /\ \A y : PricedItems(y)' = PricedItems(y)
  BY <1>1, <1>2, TicketsKept
<1>4. RefundLife'
  BY <1>1, <1>2 DEF DeskInv, RefundLife, SalesKept
<1>5. StillRefundable'
  <2>1. ASSUME NEW s \in RefundRequests, refund'[s].at = "open"
        PROVE  s # r /\ refund'[s] = refund[s] /\ stale'[s] = stale[s]
    <3>1. s # r
      BY <1>1, <2>1
    <3>2. s \in Clients /\ s \in open
      BY <1>2, <2>1, <3>1, DeskNames DEF DeskInv, HandlerInv, DeskTypeOK
    <3> QED
      BY <1>1, <1>2, <3>1, <3>2
  <2> QED
    BY <1>1, <1>3, <2>1 DEF DeskInv, StillRefundable
<1> QED
  BY <1>1, <1>3, <1>4, <1>5 DEF DeskInv

\* Edits and statuses of trips.
LEMMA TripStepKeepsDesk ==
  ASSUME DeskInv, TripSteps
  PROVE  DeskInv'
<1>1. /\ HandlerInv'
      /\ UNCHANGED <<ticket, refund, refundTxn, conversion, stripeRefunds>> /\ SalesKept
      /\ \A d \in Clients : d \in open => stale[d] \subseteq stale'[d]
  BY TripStepsKeepTickets
<1>2. /\ RowsOK' /\ StatusFollowsSale' /\ VoidHasItems' /\ OneRefundStands' /\ SeatsFinite'
      /\ \A y : PricedItems(y)' = PricedItems(y)
  BY <1>1, TicketsKept
<1>3. RefundLife'
  BY <1>1 DEF DeskInv, RefundLife, SalesKept
<1>4. StillRefundable'
  BY <1>1, <1>2, DeskNames DEF DeskInv, StillRefundable, HandlerInv, DeskTypeOK
<1> QED
  BY <1>1, <1>2, <1>3, <1>4 DEF DeskInv

\* A move of one sold ticket by a refund keeps the rows well-formed.
LEMMA TicketMoveKeepsRows ==
  ASSUME DeskInv, NEW c, NEW x, NEW from, NEW to, TicketMoves(c, x, from, to),
         from \in {"valid", "void", "refunded"}, to \in {"valid", "void", "refunded"},
         UNCHANGED conversion, SalesKept
  PROVE  /\ RowsOK' /\ SeatsFinite'
         /\ \A y \in TicketIds : ticket[y].status # "none" => ticket'[y].status # "none"
         /\ \A y \in SoldTickets \ {x} : ticket'[y] = ticket[y]
<1>1. /\ x \in TicketIds /\ x \notin Conversions
      /\ \A y \in TicketIds \ {x} : ticket'[y] = ticket[y]
      /\ ticket[x].status = from /\ ticket'[x].status = to /\ ticket'[x].trip = ticket[x].trip
  BY DeskNames DEF TicketMoves
<1>2. \A b : TicketsOf(b)' = TicketsOf(b)
  BY DEF SalesKept, TicketsOf
<1>3. \A y \in TicketIds :
        /\ ticket[y].status # "none" <=> ticket'[y].status # "none"
        /\ ticket'[y].trip = ticket[y].trip
  BY <1>1
<1>4. RowsOK'
  BY <1>2, <1>3, DeskNames DEF DeskInv, RowsOK, SalesKept, HandlerInv, DeskTypeOK
<1>5. SeatsFinite'
  <2>1. ASSUME NEW t \in Trips PROVE IsFiniteSet(Occupied(t)')
    <3>1. IsFiniteSet(Occupied(t)) /\ IsFiniteSet({x})
      BY FS_Singleton DEF DeskInv, SeatsFinite
    <3>2. IsFiniteSet(Occupied(t) \cup {x})
      BY <3>1, FS_Union
    <3>3. Occupied(t)' \subseteq Occupied(t) \cup {x}
      BY <1>1 DEF Occupied
    <3> QED
      BY <3>2, <3>3, FS_Subset
  <2> QED
    BY <2>1 DEF SeatsFinite
<1> QED
  BY <1>1, <1>3, <1>4, <1>5, DeskNames

\* A refund writes its ticket and records its item.
LEMMA WriteKeepsDesk ==
  ASSUME DeskInv, NEW r \in RefundRequests, NEW from, NEW to, RefundWrites(r, from, to)
  PROVE  DeskInv'
<1>0. PICK x : x = refund[r].ticket
  OBVIOUS
<1>1. /\ HandlerInv'
      /\ TicketMoves(r, x, from, to)
      /\ PricedItems(x) = {}
      /\ from \in {"valid", "void"} /\ (r \in PassRefunds => from = "valid")
      /\ to \in {"refunded", "void"} /\ (r \in Refunds => to = "refunded")
      /\ from # to
      /\ refund' = [refund EXCEPT ![r].at = refund'[r].at]
      /\ refund'[r].at = (IF r \in Refunds THEN "calling" ELSE "done")
      /\ refundTxn' = [refundTxn EXCEPT ![r] = TRUE]
      /\ UNCHANGED <<conversion, stripeRefunds, edit>> /\ SalesKept
  BY <1>0, RefundWritesTicket
<1>2. /\ \A s \in RefundRequests :
           /\ refund'[s].ticket = refund[s].ticket /\ refund'[s].was = refund[s].was
           /\ s # r => refund'[s] = refund[s] /\ refundTxn'[s] = refundTxn[s]
      /\ refundTxn'[r]
      /\ refund[r].at = "open"
  <2>1. refund'[r].at \in RefundStates /\ DeskTypeOK
    BY <1>1 DEF RefundStates, DeskInv, HandlerInv
  <2>2. \A s \in RefundRequests :
          /\ refund'[s].ticket = refund[s].ticket /\ refund'[s].was = refund[s].was
          /\ s # r => refund'[s] = refund[s]
    BY <1>1, <2>1, RefundAt
  <2>3. refundTxn'[r] /\ \A s \in RefundRequests \ {r} : refundTxn'[s] = refundTxn[s]
    BY <1>1, <2>1 DEF DeskTypeOK
  <2>4. refund[r].at = "open"
    BY DEF RefundWrites
  <2> QED
    BY <2>2, <2>3, <2>4
<1>3. /\ RowsOK' /\ SeatsFinite'
      /\ \A y \in TicketIds : ticket[y].status # "none" => ticket'[y].status # "none"
      /\ \A y \in SoldTickets \ {x} : ticket'[y] = ticket[y]
  BY <1>1, TicketMoveKeepsRows
<1>4. /\ x \in SoldTickets /\ ticket[x].status = from /\ ticket'[x].status = to
      /\ r \in Refunds => sale[x[1]] = "sold"
      /\ r \notin Refunds => to = "void" /\ from = "valid"
  BY <1>0, <1>1, <1>2 DEF TicketMoves, DeskInv, RefundLife, RefundWrites, RefundRequests
<1>5. \A y : /\ ZeroItems(y)' = ZeroItems(y)
             /\ PricedItems(y)' = IF y = x THEN {r} ELSE PricedItems(y)
  <2>1. \A y : ZeroItems(y)' = ZeroItems(y)
    BY <1>1 DEF ZeroItems
  <2>2. ASSUME NEW y PROVE PricedItems(y)' = IF y = x THEN {r} ELSE PricedItems(y)
    <3>1. \A s \in RefundRequests : s \in PricedItems(y)' <=>
            IF s = r THEN y = x ELSE s \in PricedItems(y)
      BY <1>0, <1>2 DEF PricedItems
    <3>2. r \notin PricedItems(y)
      BY <1>2 DEF PricedItems, DeskInv, RefundLife, Recorded
    <3>3. PricedItems(y) \subseteq RefundRequests /\ PricedItems(y)' \subseteq RefundRequests
      BY DEF PricedItems
    <3> QED
      BY <1>1, <3>1, <3>2, <3>3
  <2> QED
    BY <2>1, <2>2
<1>6. \A b : TicketsOf(b)' = TicketsOf(b)
  BY <1>1 DEF SalesKept, TicketsOf
<1>7. (StatusFollowsSale /\ VoidHasItems)'
  <2>1. DeskItems(x)' # {}
    BY <1>5 DEF DeskItems
  <2>2. \A y \in SoldTickets \ {x} : DeskItems(y)' = DeskItems(y)
    BY <1>5 DEF DeskItems
  <2>3. x \in TicketsOf(x[1])
    BY <1>1, <1>4 DEF DeskInv, RowsOK
  <2>4. sale' = sale
    BY <1>1 DEF SalesKept
  <2>5. \/ sale[x[1]] = "sold"
        \/ sale[x[1]] \in HeldStates \ {"sold"} /\ to = "void"
    <3>1. sale[x[1]] \in SaleStates /\ from \notin {"none", "failed"}
      BY <1>1, <1>4 DEF DeskInv, HandlerInv, TypeOK, SoldTickets
    <3>2. sale[x[1]] \notin {"new", "selling", "refused", "failed"}
      BY <1>4, <2>3, <3>1 DEF DeskInv, StatusFollowsSale
    <3> QED
      BY <1>4, <3>1, <3>2 DEF SaleStates, HeldStates, Errors, Ended
  <2>6. VoidHasItems'
    BY <1>3, <2>1, <2>2 DEF DeskInv, VoidHasItems
  <2>7. StatusFollowsSale'
    BY <1>1, <1>3, <1>4, <1>6, <2>1, <2>2, <2>4, <2>5 DEF DeskInv, StatusFollowsSale, HeldStates, Errors
  <2> QED
    BY <2>6, <2>7
<1>8. OneRefundStands'
  <2>1. \A s \in RefundRequests \ {r} : refundTxn'[s] => refund'[s].ticket # x
    <3>1. \A s \in RefundRequests : ~(refundTxn[s] /\ refund[s].ticket = x)
      BY <1>1 DEF PricedItems
    <3>2. \A s \in RefundRequests \ {r} :
            refundTxn'[s] = refundTxn[s] /\ refund'[s].ticket = refund[s].ticket
      BY <1>2
    <3> QED
      BY <3>1, <3>2
  <2>2. ASSUME NEW p \in RefundRequests, NEW q \in RefundRequests,
               refundTxn'[p], refundTxn'[q], refund'[p].ticket = refund'[q].ticket
        PROVE  p = q
    <3>1. CASE p # r /\ q # r
      <4>1. refundTxn[p] /\ refundTxn[q] /\ refund[p].ticket = refund[q].ticket
        BY <1>2, <2>2, <3>1
      <4> QED
        BY <4>1 DEF DeskInv, OneRefundStands
    <3>2. CASE p = r \/ q = r
      BY <1>0, <1>2, <2>1, <2>2, <3>2
    <3> QED
      BY <3>1, <3>2
  <2> QED
    BY <2>2 DEF OneRefundStands
<1>9. RefundLife'
  <2>1. ASSUME NEW s \in RefundRequests, s # r, refund[s].at # "new"
        PROVE  /\ refund[s].ticket \in SoldTickets
               /\ ticket'[refund[s].ticket].status # "none"
               /\ s \in Refunds /\ refundTxn[s] =>
                    ticket'[refund[s].ticket].status = "refunded"
    <3>1. refund[s].ticket \in SoldTickets /\ ticket[refund[s].ticket].status # "none"
      BY <2>1 DEF DeskInv, RefundLife
    <3>2. ticket'[refund[s].ticket].status # "none"
      BY <1>3, <3>1, DeskNames
    <3>3. refundTxn[s] => refund[s].ticket # x
      BY <1>1 DEF PricedItems
    <3> QED
      BY <1>3, <3>1, <3>2, <3>3 DEF DeskInv, RefundLife
  <2>2. sale' = sale /\ order' = order
    BY <1>1 DEF SalesKept
  <2>3. ASSUME NEW s \in RefundRequests, s # r
        PROVE  /\ refundTxn'[s] <=> refund'[s].at \in Recorded
               /\ refund'[s].at # "new" =>
                    /\ refund'[s].ticket \in SoldTickets
                    /\ ticket'[refund'[s].ticket].status # "none"
               /\ s \in PassRefunds =>
                    /\ refund'[s].at \in {"new", "open", "rejected", "done"}
                    /\ refund'[s].at = "open" => refund'[s].was = "valid"
               /\ s \in Refunds /\ refund'[s].at # "new" =>
                    sale'[refund'[s].ticket[1]] = "sold" /\ ~order'[refund'[s].ticket[1]].free
               /\ s \in Refunds /\ refundTxn'[s] =>
                    ticket'[refund'[s].ticket].status = "refunded"
               /\ refund'[s].at = "open" => refund'[s].was \in {"valid", "void"}
    <3>1. refund'[s] = refund[s] /\ (refundTxn'[s] <=> refundTxn[s])
      BY <1>2, <2>3
    <3>2. refundTxn[s] => refund[s].at # "new"
      BY DEF DeskInv, RefundLife, Recorded
    <3> QED
      BY <2>1, <2>2, <2>3, <3>1, <3>2 DEF DeskInv, RefundLife
  <2>4. /\ refundTxn'[r] /\ refund'[r].at \in Recorded \ {"new", "open"}
        /\ refund'[r].ticket = x /\ x \in SoldTickets
        /\ ticket'[x].status = to /\ to # "none" /\ (r \in Refunds => to = "refunded")
        /\ r \in PassRefunds => r \notin Refunds /\ refund'[r].at = "done"
        /\ r \in Refunds => sale'[x[1]] = "sold" /\ ~order'[x[1]].free
    BY <1>0, <1>1, <1>2, <1>4, <2>2, RefundKinds DEF DeskInv, RefundLife, Recorded
  <2> QED
    BY <2>3, <2>4 DEF RefundLife
<1>10. StillRefundable'
  <2>1. ASSUME NEW s \in RefundRequests, refund'[s].at = "open",
               refund'[s].ticket \notin stale'[s]
        PROVE  /\ refund'[s] = refund[s] /\ refund[s].ticket \notin stale[s]
               /\ refund[s].ticket # x /\ refund[s].ticket \in SoldTickets
    <3>1. s # r /\ refund'[s] = refund[s]
      BY <1>1, <1>2, <2>1
    <3>2. s \in open /\ s \in Clients \ {r} /\ refund[s].ticket \in SoldTickets
      BY <2>1, <3>1, DeskNames DEF DeskInv, HandlerInv, DeskTypeOK, RefundLife
    <3>3. stale[s] \subseteq stale'[s] /\ x \in stale'[s]
      BY <1>1, <3>2 DEF TicketMoves
    <3> QED
      BY <2>1, <3>1, <3>2, <3>3
  <2> QED
    BY <1>3, <1>5, <2>1 DEF DeskInv, StillRefundable
<1> QED
  BY <1>1, <1>3, <1>7, <1>8, <1>9, <1>10 DEF DeskInv

\* The undo of a refund puts its ticket back and takes its item out.
LEMMA UndoKeepsDesk ==
  ASSUME DeskInv, NEW r \in Refunds, RefundUndoCommit(r)
  PROVE  DeskInv'
<1>0. PICK x : x = refund[r].ticket
  OBVIOUS
<1>1. /\ HandlerInv'
      /\ TicketMoves(r, x, "refunded", "valid")
      /\ refundTxn[r] /\ refund[r].at = "releasing"
      /\ refund' = [refund EXCEPT ![r].at = "undone"]
      /\ refundTxn' = [refundTxn EXCEPT ![r] = FALSE]
      /\ UNCHANGED <<conversion, stripeRefunds, edit>> /\ SalesKept
      /\ r \in RefundRequests
  BY <1>0, RefundUndoWritesTicket DEF RefundRequests
<1>2. /\ \A s \in RefundRequests :
           /\ refund'[s].ticket = refund[s].ticket /\ refund'[s].was = refund[s].was
           /\ s # r => refund'[s] = refund[s] /\ refundTxn'[s] = refundTxn[s]
      /\ refund'[r].at = "undone" /\ ~refundTxn'[r]
  <2>1. "undone" \in RefundStates /\ DeskTypeOK
    BY DEF RefundStates, DeskInv, HandlerInv
  <2> QED
    BY <1>1, <2>1, RefundAt DEF DeskTypeOK
<1>3. /\ RowsOK' /\ SeatsFinite'
      /\ \A y \in TicketIds : ticket[y].status # "none" => ticket'[y].status # "none"
      /\ \A y \in SoldTickets \ {x} : ticket'[y] = ticket[y]
  BY <1>1, TicketMoveKeepsRows
<1>4. /\ x \in SoldTickets /\ ticket[x].status = "refunded" /\ ticket'[x].status = "valid"
      /\ sale[x[1]] = "sold"
  BY <1>0, <1>1 DEF TicketMoves, DeskInv, RefundLife
<1>5. \A y \in SoldTickets \ {x} : DeskItems(y)' = DeskItems(y)
  <2>1. \A y : ZeroItems(y)' = ZeroItems(y)
    BY <1>1 DEF ZeroItems
  <2>2. ASSUME NEW y \in SoldTickets \ {x} PROVE PricedItems(y)' = PricedItems(y)
    BY <1>0, <1>2 DEF PricedItems
  <2> QED
    BY <2>1, <2>2 DEF DeskItems
<1>6. \A b : TicketsOf(b)' = TicketsOf(b)
  BY <1>1 DEF SalesKept, TicketsOf
<1>7. (StatusFollowsSale /\ VoidHasItems)'
  <2>1. VoidHasItems'
    BY <1>3, <1>4, <1>5 DEF DeskInv, VoidHasItems
  <2>2. sale' = sale
    BY <1>1 DEF SalesKept
  <2>3. StatusFollowsSale'
    BY <1>3, <1>4, <1>5, <1>6, <2>2 DEF DeskInv, StatusFollowsSale, HeldStates, Errors
  <2> QED
    BY <2>1, <2>3
<1>8. \A s \in RefundRequests \ {r} : refundTxn[s] => refund[s].ticket # x
  BY <1>0, <1>1 DEF DeskInv, OneRefundStands
<1>9. OneRefundStands'
  <2>1. ASSUME NEW p \in RefundRequests, NEW q \in RefundRequests,
               refundTxn'[p], refundTxn'[q], refund'[p].ticket = refund'[q].ticket
        PROVE  p = q
    <3>1. refundTxn[p] /\ refundTxn[q] /\ refund[p].ticket = refund[q].ticket
      BY <1>2, <2>1
    <3> QED
      BY <3>1 DEF DeskInv, OneRefundStands
  <2> QED
    BY <2>1 DEF OneRefundStands
<1>10. RefundLife'
  <2>1. sale' = sale /\ order' = order
    BY <1>1 DEF SalesKept
  <2>2. ASSUME NEW s \in RefundRequests, refund[s].at # "new"
        PROVE  /\ refund[s].ticket \in SoldTickets
               /\ ticket'[refund[s].ticket].status # "none"
               /\ s # r /\ s \in Refunds /\ refundTxn[s] =>
                    ticket'[refund[s].ticket].status = "refunded"
    <3>1. refund[s].ticket \in SoldTickets /\ ticket[refund[s].ticket].status # "none"
      BY <2>2 DEF DeskInv, RefundLife
    <3>2. ticket'[refund[s].ticket].status # "none"
      BY <1>3, <3>1, DeskNames
    <3> QED
      BY <1>3, <1>8, <3>1, <3>2 DEF DeskInv, RefundLife
  <2>3. ASSUME NEW s \in RefundRequests, s # r
        PROVE  /\ refundTxn'[s] <=> refund'[s].at \in Recorded
               /\ refund'[s].at # "new" =>
                    /\ refund'[s].ticket \in SoldTickets
                    /\ ticket'[refund'[s].ticket].status # "none"
               /\ s \in PassRefunds =>
                    /\ refund'[s].at \in {"new", "open", "rejected", "done"}
                    /\ refund'[s].at = "open" => refund'[s].was = "valid"
               /\ s \in Refunds /\ refund'[s].at # "new" =>
                    sale'[refund'[s].ticket[1]] = "sold" /\ ~order'[refund'[s].ticket[1]].free
               /\ s \in Refunds /\ refundTxn'[s] =>
                    ticket'[refund'[s].ticket].status = "refunded"
               /\ refund'[s].at = "open" => refund'[s].was \in {"valid", "void"}
    <3>1. refund'[s] = refund[s] /\ (refundTxn'[s] <=> refundTxn[s])
      BY <1>2, <2>3
    <3>2. refundTxn[s] => refund[s].at # "new"
      BY DEF DeskInv, RefundLife, Recorded
    <3> QED
      BY <2>1, <2>2, <2>3, <3>1, <3>2 DEF DeskInv, RefundLife
  <2>4. /\ ~refundTxn'[r] /\ refund'[r].at = "undone" /\ refund'[r].ticket = x
        /\ r \in Refunds /\ r \notin PassRefunds
        /\ x \in SoldTickets /\ ticket'[x].status = "valid"
        /\ sale'[x[1]] = "sold" /\ ~order'[x[1]].free
    BY <1>0, <1>1, <1>2, <1>4, <2>1, RefundKinds DEF DeskInv, RefundLife
  <2> QED
    BY <2>3, <2>4 DEF RefundLife, Recorded
<1>11. StillRefundable'
  <2>1. ASSUME NEW s \in RefundRequests, refund'[s].at = "open",
               refund'[s].ticket \notin stale'[s]
        PROVE  /\ refund'[s] = refund[s] /\ refund[s].ticket \notin stale[s]
               /\ refund[s].ticket # x /\ refund[s].ticket \in SoldTickets
    <3>1. s # r /\ refund'[s] = refund[s]
      BY <1>2, <2>1
    <3>2. s \in open /\ s \in Clients \ {r} /\ refund[s].ticket \in SoldTickets
      BY <2>1, <3>1, DeskNames DEF DeskInv, HandlerInv, DeskTypeOK, RefundLife
    <3>3. stale[s] \subseteq stale'[s] /\ x \in stale'[s]
      BY <1>1, <3>2 DEF TicketMoves
    <3> QED
      BY <2>1, <3>1, <3>2, <3>3
  <2>2. ASSUME NEW y \in SoldTickets \ {x} PROVE PricedItems(y)' = PricedItems(y)
    BY <1>0, <1>2 DEF PricedItems
  <2> QED
    BY <1>3, <2>1, <2>2 DEF DeskInv, StillRefundable
<1> QED
  BY <1>1, <1>3, <1>7, <1>9, <1>10, <1>11 DEF DeskInv

\* A replacement ticket cancels valid tickets and leaves refunded ones alone.
LEMMA IssueKeepsDesk ==
  ASSUME DeskInv, NEW c \in Conversions, NEW user \in Users, NEW t \in Trips,
         NEW cancelled \in SUBSET TicketIds, IssueFree(c, user, t, cancelled)
  PROVE  DeskInv'
<1>1. /\ HandlerInv'
      /\ ticket[c].status = "none" /\ c \notin cancelled /\ conversion[c].cancelled = {}
      /\ \A x \in cancelled : ticket[x].status = "valid"
      /\ ticket'[c] = [status |-> "valid", user |-> user, trip |-> t]
      /\ \A x \in cancelled : ticket'[x].status = "void" /\ ticket'[x].trip = ticket[x].trip
      /\ \A x \in TicketIds \ (cancelled \cup {c}) : ticket'[x] = ticket[x]
      /\ conversion' = [conversion EXCEPT ![c] = [done |-> TRUE, cancelled |-> cancelled]]
      /\ UNCHANGED <<refund, refundTxn, stripeRefunds, edit>> /\ SalesKept
  BY IssueFreeWrites
<1>13. \A d \in Clients : d \in open =>
         stale[d] \subseteq stale'[d] /\ cancelled \subseteq stale'[d]
  BY IssueFreeSeen
<1>2. /\ sale' = sale /\ order' = order
      /\ \A b : TicketsOf(b)' = TicketsOf(b)
  BY <1>1 DEF SalesKept, TicketsOf
<1>3. /\ conversion'[c] = [done |-> TRUE, cancelled |-> cancelled]
      /\ \A e \in Conversions \ {c} : conversion'[e] = conversion[e]
  BY <1>1 DEF DeskInv, HandlerInv, DeskTypeOK
<1>4. /\ \A x \in TicketIds : ticket[x].status # "none" =>
           ticket'[x].status # "none" /\ ticket'[x].trip = ticket[x].trip
      /\ \A x \in SoldTickets \ cancelled : ticket'[x] = ticket[x]
      /\ \A x \in cancelled : x \in TicketIds
      /\ \A x \in TicketIds \ {c} : ticket'[x].status # "none" => ticket[x].status # "none"
  BY <1>1, DeskNames
<1>5. /\ \A x : PricedItems(x)' = PricedItems(x)
      /\ \A x \in cancelled : DeskItems(x)' # {}
      /\ \A x : x \notin cancelled => DeskItems(x)' = DeskItems(x)
  <2>1. \A x : PricedItems(x)' = PricedItems(x)
    BY <1>1 DEF PricedItems
  <2>2. \A x \in cancelled : c \in ZeroItems(x)'
    BY <1>3 DEF ZeroItems
  <2>3. \A x : x \notin cancelled => ZeroItems(x)' = ZeroItems(x)
    BY <1>1, <1>3 DEF ZeroItems
  <2> QED
    BY <2>1, <2>2, <2>3 DEF DeskItems
<1>6. RowsOK'
  <2>1. ASSUME NEW x \in SoldTickets, ticket'[x].status # "none"
        PROVE  x \in TicketsOf(x[1]) /\ ticket'[x].trip = order[x[1]].trips[x[2]]
    <3>1. x \in TicketIds \ {c}
      BY DeskNames
    <3>2. ticket[x].status # "none" /\ ticket'[x].trip = ticket[x].trip
      BY <1>4, <2>1, <3>1
    <3> QED
      BY <3>2 DEF DeskInv, RowsOK
  <2>2. ASSUME NEW e \in Conversions
        PROVE  /\ ticket'[e].status # "none" => conversion'[e].done /\ ticket'[e].trip \in Trips
               /\ ~conversion'[e].done => conversion'[e].cancelled = {}
               /\ \A x \in conversion'[e].cancelled : ticket'[x].status # "none"
    <3>1. CASE e = c
      BY <3>1, <1>1, <1>3, <1>4
    <3>2. CASE e # c
      <4>1. /\ ticket'[e].status # "none" => ticket[e].status # "none"
                                             /\ ticket'[e].trip = ticket[e].trip
            /\ conversion'[e] = conversion[e] /\ conversion[e].cancelled \subseteq TicketIds
        BY <3>2, <1>3, <1>4, DeskNames DEF DeskInv, HandlerInv, DeskTypeOK
      <4> QED
        BY <4>1, <1>4 DEF DeskInv, RowsOK
    <3> QED
      BY <3>1, <3>2
  <2> QED
    BY <1>2, <2>1, <2>2 DEF RowsOK
<1>7. VoidHasItems'
  BY <1>4, <1>5 DEF DeskInv, VoidHasItems
<1>8. StatusFollowsSale'
  <2>1. ASSUME NEW x \in SoldTickets, x \in TicketsOf(x[1])
        PROVE  /\ sale[x[1]] \in {"new", "selling", "refused"} => ticket'[x].status = "none"
               /\ sale[x[1]] = "failed" => ticket'[x].status = "failed"
               /\ sale[x[1]] \in HeldStates \ {"sold"} =>
                    ticket'[x].status = IF DeskItems(x)' = {} THEN "valid" ELSE "void"
               /\ sale[x[1]] = "sold" => ticket'[x].status \in {"valid", "void", "refunded"}
    <3>1. CASE x \in cancelled
      <4>1. ticket[x].status = "valid" /\ ticket'[x].status = "void" /\ DeskItems(x)' # {}
        BY <3>1, <1>1, <1>5
      <4> QED
        BY <2>1, <4>1 DEF DeskInv, StatusFollowsSale
    <3>2. CASE x \notin cancelled
      <4>1. ticket'[x] = ticket[x] /\ DeskItems(x)' = DeskItems(x)
        BY <3>2, <1>4, <1>5
      <4> QED
        BY <2>1, <4>1 DEF DeskInv, StatusFollowsSale
    <3> QED
      BY <3>1, <3>2
  <2> QED
    BY <1>2, <2>1 DEF StatusFollowsSale
<1>9. RefundLife'
  <2>1. ASSUME NEW s \in RefundRequests, refund[s].at # "new"
        PROVE  /\ ticket'[refund[s].ticket].status # "none"
               /\ s \in Refunds /\ refundTxn[s] =>
                    ticket'[refund[s].ticket].status = "refunded"
    <3>1. refund[s].ticket \in SoldTickets /\ ticket[refund[s].ticket].status # "none"
      BY <2>1 DEF DeskInv, RefundLife
    <3>2. ticket[refund[s].ticket].status = "refunded" => refund[s].ticket \notin cancelled
      BY <1>1
    <3> QED
      BY <1>4, <2>1, <3>1, <3>2, DeskNames DEF DeskInv, RefundLife
  <2>2. UNCHANGED <<refund, refundTxn>>
    BY <1>1
  <2>3. \A s \in RefundRequests : refundTxn[s] => refund[s].at # "new"
    BY DEF DeskInv, RefundLife, Recorded
  <2> QED
    BY <1>2, <2>1, <2>2, <2>3 DEF DeskInv, RefundLife
<1>10. StillRefundable'
  <2>1. ASSUME NEW s \in RefundRequests, refund[s].at = "open", refund[s].ticket \notin stale'[s]
        PROVE  ticket'[refund[s].ticket] = ticket[refund[s].ticket]
                 /\ refund[s].ticket \notin stale[s]
    <3>1. s \in open /\ s \in Clients /\ refund[s].ticket \in SoldTickets
      BY <2>1, DeskNames DEF DeskInv, HandlerInv, DeskTypeOK, RefundLife
    <3> QED
      BY <1>4, <1>13, <2>1, <3>1
  <2>2. refund' = refund
    BY <1>1
  <2> QED
    BY <1>5, <2>1, <2>2 DEF DeskInv, StillRefundable
<1>11. OneRefundStands'
  BY <1>1 DEF DeskInv, OneRefundStands
<1>12. SeatsFinite'
  <2>1. ASSUME NEW s \in Trips PROVE IsFiniteSet(Occupied(s)')
    <3>1. IsFiniteSet(Occupied(s)) /\ IsFiniteSet({c})
      BY FS_Singleton DEF DeskInv, SeatsFinite
    <3>2. IsFiniteSet(Occupied(s) \cup {c})
      BY <3>1, FS_Union
    <3>3. Occupied(s)' \subseteq Occupied(s) \cup {c}
      BY <1>1 DEF Occupied, ValidStatuses
    <3> QED
      BY <3>2, <3>3, FS_Subset
  <2> QED
    BY <2>1 DEF SeatsFinite
<1> QED
  BY <1>1, <1>6, <1>7, <1>8, <1>9, <1>10, <1>11, <1>12 DEF DeskInv

\* The kinds of steps of the desk.
LEMMA DeskSteps ==
  ASSUME DeskNext
  PROVE  \/ \E b \in Bookings : SaleStep(b) /\ UNCHANGED deskVars
         \/ \E r \in RefundRequests :
              \/ r \in Refunds /\ RefundBegin(r)
              \/ r \in PassRefunds /\ PassRefundBegin(r)
         \/ \E r \in RefundRequests :
              \/ r \in Refunds /\ RefundMoves(r)
              \/ r \in PassRefunds /\ PassRefundAbort(r)
         \/ \E r \in RefundRequests : \E from, to : RefundWrites(r, from, to)
         \/ \E r \in Refunds : RefundUndoCommit(r)
         \/ \E c \in Conversions, user \in Users, t \in Trips, cancelled \in SUBSET TicketIds :
              IssueFree(c, user, t, cancelled)
         \/ TripSteps
<1>1. ASSUME NEW r \in Refunds, RefundCommit(r)
      PROVE  RefundWrites(r, refund[r].was, "refunded")
  BY <1>1 DEF RefundWrites, RefundCommit
<1>2. ASSUME NEW r \in PassRefunds, PassRefundCommit(r)
      PROVE  RefundWrites(r, refund[r].was, "void")
  BY <1>2 DEF RefundWrites, PassRefundCommit
<1>3. Refunds \subseteq RefundRequests /\ PassRefunds \subseteq RefundRequests
  BY DEF RefundRequests
<1>4. ASSUME NEW r \in Refunds, RefundStep(r)
      PROVE  \/ RefundBegin(r) \/ RefundMoves(r) \/ RefundUndoCommit(r)
             \/ \E from, to : RefundWrites(r, from, to)
  BY <1>1, <1>4 DEF RefundStep, RefundMoves
<1>5. ASSUME NEW r \in PassRefunds, PassRefundStep(r)
      PROVE  \/ PassRefundBegin(r) \/ PassRefundAbort(r)
             \/ \E from, to : RefundWrites(r, from, to)
  BY <1>2, <1>5 DEF PassRefundStep
<1> QED
  BY <1>3, <1>4, <1>5 DEF DeskNext, Next, TripSteps

LEMMA NextDeskInv == DeskInv /\ [DeskNext]_vars => DeskInv'
<1> SUFFICES ASSUME DeskInv, [DeskNext]_vars PROVE DeskInv'
  OBVIOUS
<1>1. CASE DeskNext
  BY <1>1, DeskSteps, SaleKeepsDesk, BeginKeepsDesk, MoveKeepsDesk, WriteKeepsDesk,
     UndoKeepsDesk, IssueKeepsDesk, TripStepKeepsDesk
<1>2. CASE UNCHANGED vars
  <2>1. /\ UNCHANGED <<trip, ticket, order, sale, committed, payment, charged, open, stale>>
        /\ UNCHANGED <<refund, refundTxn, conversion, stripeRefunds, edit>> /\ SalesKept
    BY <1>2 DEF vars, saleVars, deskVars, SalesKept
  <2>2. /\ RowsOK' /\ StatusFollowsSale' /\ VoidHasItems' /\ OneRefundStands' /\ SeatsFinite'
        /\ \A x : PricedItems(x)' = PricedItems(x)
    BY <2>1, TicketsKept
  <2>3. HandlerInv'
    BY <2>1, SalesKeptHandlers DEF DeskInv, HandlerInv, TypeOK, TxOK, DeskTypeOK
  <2>4. RefundLife'
    BY <2>1 DEF DeskInv, RefundLife
  <2>5. StillRefundable'
    BY <2>1, <2>2 DEF DeskInv, StillRefundable
  <2> QED
    BY <2>2, <2>3, <2>4, <2>5 DEF DeskInv
<1> QED
  BY <1>1, <1>2

LEMMA DeskInvHolds == DeskSpec => []DeskInv
  BY InitDeskInv, NextDeskInv, PTL DEF DeskSpec

\* However refunds to the card and to a pass race on a ticket, and whatever fails in
\* between, at most one of them stands.
THEOREM TicketsAreRefundedOnce == DeskSpec => []RefundedOnce
<1>1. DeskInv => RefundedOnce
  <2> SUFFICES ASSUME DeskInv, NEW x \in SoldTickets PROVE Cardinality(PricedItems(x)) <= 1
    BY DEF RefundedOnce
  <2>1. \A r, s \in PricedItems(x) : r = s
    BY DEF DeskInv, OneRefundStands, PricedItems
  <2>2. CASE PricedItems(x) = {}
    BY <2>2, FS_EmptySet
  <2>3. CASE PricedItems(x) # {}
    <3>1. PICK r : r \in PricedItems(x)
      BY <2>3
    <3>2. PricedItems(x) = {r}
      BY <2>1, <3>1
    <3>3. Cardinality({r}) = 1
      BY FS_Singleton
    <3> QED
      BY <3>2, <3>3
  <2> QED
    BY <2>2, <2>3
<1> QED
  BY <1>1, DeskInvHolds, PTL

(***************************************************************************)
(* Snapshots of trips: what a sale has read of a trip that is not stale    *)
(* still is so, whatever the desk does.                                    *)
(***************************************************************************)
StillRunning ==
  \A b \in Bookings : sale[b] = "selling" => \A t \in Asked(b) \ stale[b] : trip[t].running

\* Every write of a trip by another handler makes the trip stale.
LEMMA SellingTripsKept ==
  ASSUME DeskInv, DeskNext, NEW d \in Bookings, sale'[d] = "selling",
         NEW t \in Asked(d) \ stale'[d]
  PROVE  \/ SaleBegin(d) /\ trip' = trip
         \/ /\ sale[d] = "selling" /\ t \in Asked(d) \ stale[d]
            /\ trip'[t].seatsAvailable = trip[t].seatsAvailable
            /\ trip'[t].running = trip[t].running
<1>1. /\ TypeOK /\ t \in Trips /\ d \in Clients
      /\ trip[t] \in [capacity : Nat, seatsAvailable : Int, running : BOOLEAN]
      /\ sale[d] = "selling" => d \in open
      /\ RefundRequests \cap Bookings = {}
  BY RequestedRows, DeskNames DEF DeskInv, HandlerInv, TypeOK
<1>2. ASSUME NEW b \in Bookings, SaleStep(b), UNCHANGED deskVars, b = d
      PROVE  SaleBegin(d) /\ trip' = trip
  BY <1>1, <1>2
  DEF TypeOK, SaleStep, Handle, SaleBegin, SaleRefuse, SaleCommit, SaleConflict,
      ChargeNothing, ChargeCard, ChargeDeclined, ChargeReplyLost, RecordCharge,
      RecordChargeFails, RecordError, UndoBegin, UndoCommit, UndoConflict, Crash, dbVars
<1>3. ASSUME NEW b \in Bookings, SaleStep(b), UNCHANGED deskVars, b # d
      PROVE  /\ sale[d] = "selling" /\ t \in Asked(d) \ stale[d]
             /\ trip'[t].seatsAvailable = trip[t].seatsAvailable
             /\ trip'[t].running = trip[t].running
  <2>1. /\ sale[d] = "selling" /\ d \in open /\ d \in Clients \ {b}
        /\ stale[d] \subseteq stale'[d]
        /\ SaleCommit(b) \/ UndoCommit(b) => t \notin Asked(b)
    BY <1>1, <1>3, SaleWritesTickets
  <2>2. CASE SaleCommit(b)
    <3>1. Cardinality(Lines(b, t)) = 0
      BY <1>1, <2>1, <2>2, MineIsAsked, FS_EmptySet DEF TypeOK
    <3>2. trip'[t] = [trip[t] EXCEPT !.seatsAvailable = @ - Cardinality(Lines(b, t))]
      BY <1>1, <2>2 DEF SaleCommit
    <3> QED
      BY <1>1, <2>1, <3>1, <3>2
  <2>3. CASE UndoCommit(b)
    <3>1. Cardinality(Lines(b, t)) = 0 /\ SeatDelta(SoldStatus, "failed") = 1
      BY <1>1, <2>1, <2>3, MineIsAsked, FS_EmptySet
      DEF TypeOK, SeatDelta, SoldStatus, ValidStatuses, VoidStatuses
    <3>2. trip'[t] = [trip[t] EXCEPT !.seatsAvailable =
                        @ + SeatDelta(SoldStatus, "failed") * Cardinality(Lines(b, t))]
      BY <1>1, <2>3 DEF UndoCommit
    <3>3. trip'[t] = [trip[t] EXCEPT !.seatsAvailable = @ + 0]
      BY <3>1, <3>2
    <3> QED
      BY <1>1, <2>1, <3>3
  <2>4. CASE ~SaleCommit(b) /\ ~UndoCommit(b)
    BY <2>1, <2>4, <1>3, SaleWritesTickets
  <2> QED
    BY <2>2, <2>3, <2>4
<1>4. ASSUME sale' = sale, stale[d] \subseteq stale'[d],
             /\ trip'[t].seatsAvailable = trip[t].seatsAvailable
             /\ trip'[t].running = trip[t].running
      PROVE  /\ sale[d] = "selling" /\ t \in Asked(d) \ stale[d]
             /\ trip'[t].seatsAvailable = trip[t].seatsAvailable
             /\ trip'[t].running = trip[t].running
  BY <1>4
<1>5. ASSUME NEW r \in RefundRequests,
             \/ r \in Refunds /\ RefundBegin(r)
             \/ r \in PassRefunds /\ PassRefundBegin(r)
      PROVE  sale' = sale /\ stale' = stale /\ trip' = trip
  BY <1>5, RefundBegins DEF SalesKept
<1>6. ASSUME NEW r \in RefundRequests,
             \/ r \in Refunds /\ RefundMoves(r)
             \/ r \in PassRefunds /\ PassRefundAbort(r)
      PROVE  sale' = sale /\ stale[d] \subseteq stale'[d] /\ trip' = trip
  <2>1. sale' = sale /\ trip' = trip /\ (d \in open => stale'[d] = stale[d])
    BY <1>1, <1>6, RefundMovesOn DEF SalesKept
  <2> QED
    BY <1>1, <2>1
<1>7. ASSUME NEW r \in RefundRequests, NEW x, NEW from, NEW to, TicketMoves(r, x, from, to),
             sale' = sale
      PROVE  /\ stale[d] \subseteq stale'[d]
             /\ trip'[t].seatsAvailable = trip[t].seatsAvailable
             /\ trip'[t].running = trip[t].running
  <2>1. d \in Clients \ {r} /\ d \in open
    BY <1>1, <1>7
  <2>2. /\ stale[d] \subseteq stale'[d]
        /\ SeatDelta(from, to) # 0 => ticket[x].trip \in stale'[d]
        /\ trip'[t].running = trip[t].running
        /\ trip'[t].seatsAvailable =
             trip[t].seatsAvailable + (IF t = ticket[x].trip THEN SeatDelta(from, to) ELSE 0)
    BY <1>1, <1>7, <2>1 DEF TicketMoves
  <2>3. (IF t = ticket[x].trip THEN SeatDelta(from, to) ELSE 0) = 0
    BY <2>2
  <2> QED
    BY <1>1, <2>2, <2>3
<1>8. ASSUME NEW c \in Conversions, NEW user \in Users, NEW u \in Trips,
             NEW cancelled \in SUBSET TicketIds, IssueFree(c, user, u, cancelled)
      PROVE  /\ sale' = sale /\ stale[d] \subseteq stale'[d]
             /\ trip'[t].seatsAvailable = trip[t].seatsAvailable
             /\ trip'[t].running = trip[t].running
  <2>1. sale' = sale /\ d \in open
    BY <1>1, <1>8, IssueFreeWrites DEF SalesKept
  <2>2. /\ stale[d] \subseteq stale'[d] /\ u \in stale'[d]
        /\ \A x \in cancelled : ticket[x].trip \in stale'[d]
        /\ trip'[t].running = trip[t].running
        /\ trip'[t].seatsAvailable = trip[t].seatsAvailable
             + Cardinality(Freed(cancelled, t)) - (IF t = u THEN 1 ELSE 0)
    <3>1. /\ stale[d] \subseteq stale'[d] /\ u \in stale'[d] /\ cancelled \subseteq stale'[d]
          /\ \A x \in cancelled : ticket[x].trip \in stale'[d]
      BY <1>1, <1>8, <2>1, IssueFreeSeen
    <3>2. /\ trip'[t].running = trip[t].running
          /\ trip'[t].seatsAvailable = trip[t].seatsAvailable
               + Cardinality(Freed(cancelled, t)) - (IF t = u THEN 1 ELSE 0)
      BY <1>1, <1>8, IssueFreeSeats
    <3> QED
      BY <1>1, <2>1, <3>1, <3>2
  <2>3. t # u /\ Cardinality(Freed(cancelled, t)) = 0
    <3>1. Freed(cancelled, t) = {}
      BY <2>2 DEF Freed
    <3> QED
      BY <2>2, <3>1, FS_EmptySet
  <2> QED
    BY <1>1, <2>1, <2>2, <2>3
<1>9. ASSUME TripSteps
      PROVE  sale' = sale /\ stale[d] \subseteq stale'[d] /\ trip'[t] = trip[t]
  BY <1>1, <1>9, TripStepsKeepTickets DEF SalesKept
<1> QED
  <2>1. ASSUME NEW r \in RefundRequests, NEW from, NEW to, RefundWrites(r, from, to)
        PROVE  /\ sale[d] = "selling" /\ t \in Asked(d) \ stale[d]
               /\ trip'[t].seatsAvailable = trip[t].seatsAvailable
               /\ trip'[t].running = trip[t].running
    BY <2>1, <1>4, <1>7, RefundWritesTicket DEF SalesKept
  <2>2. ASSUME NEW r \in Refunds, RefundUndoCommit(r)
        PROVE  /\ sale[d] = "selling" /\ t \in Asked(d) \ stale[d]
               /\ trip'[t].seatsAvailable = trip[t].seatsAvailable
               /\ trip'[t].running = trip[t].running
    <3>1. r \in RefundRequests
      BY DEF RefundRequests
    <3> QED
      BY <2>2, <3>1, <1>4, <1>7, RefundUndoWritesTicket DEF SalesKept
  <2> QED
    BY <1>2, <1>3, <1>4, <1>5, <1>6, <1>8, <1>9, <2>1, <2>2, DeskSteps

SnapshotsOfTrips == StillAvailable /\ StillRunning

LEMMA NextSnapshots ==
  DeskInv /\ SnapshotsOfTrips /\ [DeskNext]_vars => SnapshotsOfTrips'
<1> SUFFICES ASSUME DeskInv, SnapshotsOfTrips, [DeskNext]_vars PROVE SnapshotsOfTrips'
  OBVIOUS
<1>1. CASE UNCHANGED vars
  BY <1>1
  DEF vars, saleVars, SnapshotsOfTrips, StillAvailable, StillRunning, Asked, Lines
<1>2. CASE DeskNext
  <2>1. order' = order
    BY <1>2, DeskSteps, SaleWritesTickets, RefundBegins, RefundMovesOn, RefundWritesTicket,
       RefundUndoWritesTicket, IssueFreeWrites, TripStepsKeepTickets DEF SalesKept
  <2>2. \A d : Asked(d)' = Asked(d) /\ \A t : Lines(d, t)' = Lines(d, t)
    BY <2>1 DEF Asked, Lines
  <2>3. ASSUME NEW d \in Bookings, sale'[d] = "selling", NEW t \in Asked(d) \ stale'[d]
        PROVE  /\ trip'[t].seatsAvailable - Cardinality(Lines(d, t)) >= 0
               /\ trip'[t].running
    <3>1. CASE SaleBegin(d) /\ trip' = trip
      BY <2>3, <3>1 DEF SaleBegin, Acceptable, Available, AllRunning
    <3>2. CASE /\ sale[d] = "selling" /\ t \in Asked(d) \ stale[d]
               /\ trip'[t].seatsAvailable = trip[t].seatsAvailable
               /\ trip'[t].running = trip[t].running
      BY <3>2 DEF SnapshotsOfTrips, StillAvailable, StillRunning
    <3> QED
      BY <1>2, <2>3, <3>1, <3>2, SellingTripsKept
  <2>4. ASSUME NEW d \in Bookings, sale'[d] = "selling", NEW t \in Asked(d)' \ stale'[d]
        PROVE  /\ trip'[t].seatsAvailable - Cardinality(Lines(d, t)') >= 0
               /\ trip'[t].running
    BY <2>2, <2>3, <2>4
  <2> QED
    BY <2>4 DEF SnapshotsOfTrips, StillAvailable, StillRunning
<1> QED
  BY <1>1, <1>2

LEMMA SnapshotsHold == DeskSpec => []SnapshotsOfTrips
<1>1. DeskInit => SnapshotsOfTrips
  BY DEF DeskInit, Init, SnapshotsOfTrips, StillAvailable, StillRunning
<1> QED
  BY <1>1, NextSnapshots, DeskInvHolds, PTL DEF DeskSpec

\* No ticket is created on a trip that is cancelled at that moment, although a purchase
\* reads the status of the trip from an older snapshot.
THEOREM CancelledTripsTakeNobody == DeskSpec => NoTicketOnCancelledTrip
<1>1. DeskInv /\ SnapshotsOfTrips /\ [DeskNext]_vars =>
        [\A x \in TicketIds : ticket[x].status = "none" /\ ticket'[x].status # "none"
           => trip[ticket'[x].trip].running]_vars
  <2> SUFFICES ASSUME DeskInv, SnapshotsOfTrips, DeskNext,
                      NEW x \in TicketIds, ticket[x].status = "none", ticket'[x].status # "none"
               PROVE  trip[ticket'[x].trip].running
    OBVIOUS
  <2>1. ASSUME NEW b \in Bookings, SaleStep(b), UNCHANGED deskVars
        PROVE  trip[ticket'[x].trip].running
    <3>1. x \in TicketsOf(b) /\ SaleCommit(b)
      BY <2>1, SaleWritesTickets
    <3>2. ticket'[x].trip = order[b].trips[x[2]] /\ sale[b] = "selling"
      BY <2>1, <3>1, SaleWritesTickets
    <3>3. ticket'[x].trip \in Asked(b) \ stale[b]
      BY <3>1, <3>2 DEF TicketsOf, Asked, SaleCommit, Conflict
    <3> QED
      BY <3>2, <3>3 DEF SnapshotsOfTrips, StillRunning
  <2>2. ASSUME NEW r, NEW y, NEW from \in {"valid", "void", "refunded"}, NEW to,
               TicketMoves(r, y, from, to)
        PROVE  FALSE
    BY <2>2 DEF TicketMoves
  <2>3. ASSUME NEW c \in Conversions, NEW user \in Users, NEW t \in Trips,
               NEW cancelled \in SUBSET TicketIds, IssueFree(c, user, t, cancelled)
        PROVE  trip[ticket'[x].trip].running
    <3>1. /\ \A y \in cancelled : ticket[y].status = "valid"
          /\ \A y \in TicketIds \ (cancelled \cup {c}) : ticket'[y] = ticket[y]
          /\ ticket'[c] = [status |-> "valid", user |-> user, trip |-> t]
          /\ trip[t].running
      BY <2>3, IssueFreeWrites
    <3>2. x = c
      BY <3>1
    <3> QED
      BY <3>1, <3>2
  <2>4. ticket' # ticket
    OBVIOUS
  <2>5. ASSUME NEW r \in RefundRequests, NEW from, NEW to, RefundWrites(r, from, to)
        PROVE  FALSE
    <3>1. TicketMoves(r, refund[r].ticket, from, to) /\ from \in {"valid", "void", "refunded"}
      BY <2>5, RefundWritesTicket
    <3> QED
      BY <2>2, <3>1
  <2>6. ASSUME NEW r \in Refunds, RefundUndoCommit(r)
        PROVE  FALSE
    <3>1. TicketMoves(r, refund[r].ticket, "refunded", "valid")
      BY <2>6, RefundUndoWritesTicket
    <3> QED
      BY <2>2, <3>1
  <2>7. /\ \A r \in RefundRequests :
             ~ (\/ r \in Refunds /\ RefundBegin(r)
                \/ r \in PassRefunds /\ PassRefundBegin(r))
        /\ \A r \in RefundRequests :
             ~ (\/ r \in Refunds /\ RefundMoves(r)
                \/ r \in PassRefunds /\ PassRefundAbort(r))
        /\ ~TripSteps
    BY <2>4, RefundBegins, RefundMovesOn, TripStepsKeepTickets
  <2> QED
    BY <2>1, <2>3, <2>5, <2>6, <2>7, DeskSteps
<1> QED
  BY <1>1, DeskInvHolds, SnapshotsHold, PTL DEF DeskSpec, NoTicketOnCancelledTrip


(***************************************************************************)
(* The money that Stripe returns.                                          *)
(***************************************************************************)
StripeInv ==
  \A x \in stripeRefunds :
    \E r \in Refunds : refund[r].ticket = x /\ refund[r].at \in Recorded \cup {"undone"}

\* A refund that moves on may add its own ticket to what Stripe returned, while its item
\* is recorded.
LEMMA RefundMovesMoney ==
  ASSUME DeskTypeOK, StripeInv, NEW r \in Refunds, NEW v \in RefundStates \ {"new"},
         refund[r].at # "undone",
         refund' = [refund EXCEPT ![r].at = v],
         refund[r].at \in Recorded => v \in Recorded \cup {"undone"},
         \/ stripeRefunds' = stripeRefunds
         \/ stripeRefunds' = stripeRefunds \cup {refund[r].ticket} /\ v \in Recorded
  PROVE  StripeInv'
<1>1. Refunds \subseteq RefundRequests
  BY DEF RefundRequests
<1>2. /\ refund'[r].at = v
      /\ \A s \in Refunds : /\ refund'[s].ticket = refund[s].ticket
                            /\ s # r => refund'[s] = refund[s]
  BY <1>1, RefundAt
<1> SUFFICES ASSUME NEW x \in stripeRefunds'
             PROVE  \E s \in Refunds :
                      refund'[s].ticket = x /\ refund'[s].at \in Recorded \cup {"undone"}
  BY DEF StripeInv, Recorded
<1>3. CASE x \in stripeRefunds
  <2>1. PICK s \in Refunds : refund[s].ticket = x /\ refund[s].at \in Recorded \cup {"undone"}
    BY <1>3 DEF StripeInv
  <2> QED
    BY <1>2, <2>1
<1>4. CASE x \notin stripeRefunds
  BY <1>2, <1>4
<1> QED
  BY <1>3, <1>4

LEMMA NextStripeInv == DeskInv /\ StripeInv /\ [DeskNext]_vars => StripeInv'
<1> SUFFICES ASSUME DeskInv, StripeInv, [DeskNext]_vars PROVE StripeInv'
  OBVIOUS
<1>1. DeskTypeOK /\ Refunds \subseteq RefundRequests /\ Refunds \cap PassRefunds = {}
  BY RefundKinds DEF DeskInv, HandlerInv, RefundRequests
<1>2. ASSUME UNCHANGED <<refund, stripeRefunds>>
      PROVE  StripeInv'
  BY <1>2 DEF StripeInv, Recorded
<1>3. ASSUME NEW r \in PassRefunds, stripeRefunds' = stripeRefunds,
             \A s \in RefundRequests \ {r} : refund'[s] = refund[s]
      PROVE  StripeInv'
  <2>1. \A s \in Refunds : refund'[s] = refund[s]
    BY <1>1, <1>3
  <2> QED
    BY <1>3, <2>1 DEF StripeInv, Recorded
<1>4. ASSUME NEW r \in Refunds, RefundBegin(r)
      PROVE  StripeInv'
  <2>1. PICK x \in SoldTickets :
          refund' = [refund EXCEPT ![r] =
                       [at |-> "open", ticket |-> x, was |-> ticket[x].status]]
    BY <1>4 DEF RefundBegin
  <2>2. refund'[r].at = "open" /\ \A s \in Refunds \ {r} : refund'[s] = refund[s]
    BY <1>1, <2>1 DEF DeskTypeOK
  <2>3. refund[r].at = "new" /\ stripeRefunds' = stripeRefunds
    BY <1>4 DEF RefundBegin
  <2> QED
    BY <2>2, <2>3 DEF StripeInv, Recorded
<1>5. ASSUME NEW r \in Refunds, RefundMoves(r)
      PROVE  StripeInv'
  <2>1. /\ refund' = [refund EXCEPT ![r].at = refund'[r].at]
        /\ refund'[r].at \in RefundStates \ {"new"}
        /\ refund[r].at \in Recorded <=> refund'[r].at \in Recorded
    BY <1>1, <1>5, RefundMovesOn
  <2>2. refund[r].at # "undone"
    BY <1>5 DEF RefundMoves, RefundConflict, StripeRefund, StripeRefundFails, RefundUndoBegin,
                RefundUndoConflict, RefundCrash
  <2>3. \/ stripeRefunds' = stripeRefunds
        \/ /\ refund[r].at = "calling"
           /\ stripeRefunds' = stripeRefunds \cup {refund[r].ticket}
    BY <1>5 DEF RefundMoves, RefundConflict, StripeRefund, StripeRefundFails, RefundUndoBegin,
                RefundUndoConflict, RefundCrash
  <2>4. refund[r].at = "calling" => refund'[r].at \in Recorded
    BY <2>1 DEF Recorded
  <2> QED
    BY <1>1, <2>1, <2>2, <2>3, <2>4, RefundMovesMoney
<1>6. ASSUME NEW r \in RefundRequests, NEW from, NEW to, RefundWrites(r, from, to)
      PROVE  StripeInv'
  <2>1. /\ refund' = [refund EXCEPT ![r].at = refund'[r].at]
        /\ refund'[r].at = IF r \in Refunds THEN "calling" ELSE "done"
        /\ stripeRefunds' = stripeRefunds /\ refund[r].at = "open"
    BY <1>6, RefundWritesTicket DEF RefundWrites
  <2>2. CASE r \in Refunds
    BY <1>1, <2>1, <2>2, RefundMovesMoney DEF RefundStates, Recorded
  <2>3. CASE r \in PassRefunds
    BY <1>1, <1>3, <2>1, <2>3, RefundAt DEF RefundStates
  <2> QED
    BY <2>2, <2>3 DEF RefundRequests
<1>7. ASSUME NEW r \in Refunds, RefundUndoCommit(r)
      PROVE  StripeInv'
  <2>1. /\ refund' = [refund EXCEPT ![r].at = "undone"] /\ refund[r].at = "releasing"
        /\ stripeRefunds' = stripeRefunds
    BY <1>7 DEF RefundUndoCommit
  <2> QED
    BY <1>1, <2>1, RefundMovesMoney DEF RefundStates
<1>8. ASSUME NEW r \in PassRefunds, PassRefundBegin(r) \/ PassRefundAbort(r)
      PROVE  StripeInv'
  <2>1. stripeRefunds' = stripeRefunds
    BY <1>8 DEF PassRefundBegin, PassRefundAbort
  <2>2. \A s \in RefundRequests \ {r} : refund'[s] = refund[s]
    BY <1>1, <1>8 DEF PassRefundBegin, PassRefundAbort, DeskTypeOK
  <2> QED
    BY <1>3, <2>1, <2>2
<1>9. CASE DeskNext
  <2>1. ASSUME NEW b \in Bookings, SaleStep(b), UNCHANGED deskVars
        PROVE  StripeInv'
    BY <1>2, <2>1 DEF deskVars
  <2>2. ASSUME NEW c \in Conversions, NEW user \in Users, NEW t \in Trips,
               NEW cancelled \in SUBSET TicketIds, IssueFree(c, user, t, cancelled)
        PROVE  StripeInv'
    BY <1>2, <2>2, IssueFreeWrites
  <2>3. ASSUME TripSteps
        PROVE  StripeInv'
    BY <1>2, <2>3, TripStepsKeepTickets
  <2> QED
    BY <1>4, <1>5, <1>6, <1>7, <1>8, <1>9, <2>1, <2>2, <2>3, DeskSteps
<1> QED
  BY <1>2, <1>9 DEF vars, deskVars

\* Stripe returns the price of a ticket only if the card was charged for it in a sale that
\* stands, and the ticket is then refunded unless a refund whose answer was lost was undone.
THEOREM StripeReturnsOnlyWhatItCharged == DeskSpec => []StripeReturnsWhatItCharged
<1>1. DeskInit => StripeInv
  BY DEF DeskInit, StripeInv
<1>2. DeskInv /\ StripeInv => StripeReturnsWhatItCharged
  <2> SUFFICES ASSUME DeskInv, StripeInv, NEW x \in stripeRefunds
               PROVE  /\ charged[x[1]] /\ committed[x[1]]
                      /\ \/ ticket[x].status = "refunded"
                         \/ \E r \in Refunds : refund[r].ticket = x /\ refund[r].at = "undone"
    BY DEF StripeReturnsWhatItCharged
  <2>1. PICK r \in Refunds : refund[r].ticket = x /\ refund[r].at \in Recorded \cup {"undone"}
    BY DEF StripeInv
  <2>2. r \in RefundRequests /\ refund[r].at # "new"
    BY <2>1 DEF RefundRequests, Recorded
  <2>3. /\ x \in SoldTickets /\ sale[x[1]] = "sold" /\ ~order[x[1]].free
        /\ x[1] \in Bookings
    BY <2>1, <2>2 DEF DeskInv, RefundLife, SoldTickets
  <2>4. committed[x[1]]
    BY <2>3 DEF DeskInv, HandlerInv, CommittedWhileHeld, HeldStates, Errors
  <2>5. charged[x[1]]
    BY <2>3 DEF DeskInv, HandlerInv, PaymentFollowsSale, TypeOK
  <2>6. refund[r].at \in Recorded => ticket[x].status = "refunded"
    BY <2>1, <2>2 DEF DeskInv, RefundLife
  <2> QED
    BY <2>1, <2>4, <2>5, <2>6
<1> QED
  BY <1>1, <1>2, NextStripeInv, DeskInvHolds, PTL DEF DeskSpec


(***************************************************************************)
(* The accounts of the seats.                                              *)
(***************************************************************************)

\* The account of a trip: its counter is off by the leaked seats, and below zero by no
\* more than the refunds that put a passenger back.
AccountOK(t) ==
  /\ IsFiniteSet(Leaked(t)) /\ IsFiniteSet(Restored(t))
  /\ ~Edited(t) =>
       /\ trip[t].seatsAvailable =
            trip[t].capacity - Cardinality(Occupied(t)) + Cardinality(Leaked(t))
       /\ trip[t].seatsAvailable + Cardinality(Restored(t)) >= 0

SeatAccounts == \A t \in Trips : AccountOK(t)

LEMMA AccountCounts ==
  ASSUME DeskInv, SeatAccounts, NEW t \in Trips
  PROVE  /\ trip[t].seatsAvailable \in Int /\ trip[t].capacity \in Nat
         /\ IsFiniteSet(Occupied(t)) /\ Cardinality(Occupied(t)) \in Nat
         /\ IsFiniteSet(Leaked(t)) /\ Cardinality(Leaked(t)) \in Nat
         /\ IsFiniteSet(Restored(t)) /\ Cardinality(Restored(t)) \in Nat
  BY FS_CardinalityType
  DEF DeskInv, HandlerInv, TypeOK, SeatsFinite, SeatAccounts, AccountOK

\* A failed ticket and what the desk did of it do not change.
LEMMA LeakedKept ==
  ASSUME NEW t,
         \A x \in SoldTickets : ticket[x].status = "failed" \/ ticket'[x].status = "failed" =>
           ticket'[x] = ticket[x] /\ DeskItems(x)' = DeskItems(x)
  PROVE  Leaked(t)' = Leaked(t)
<1>1. ASSUME NEW x \in SoldTickets
      PROVE  x \in Leaked(t)' <=> x \in Leaked(t)
  <2>1. x \in Leaked(t) <=>
          ticket[x].trip = t /\ ticket[x].status = "failed" /\ DeskItems(x) # {}
    BY DEF Leaked, DeskItems
  <2>2. x \in Leaked(t)' <=>
          ticket'[x].trip = t /\ ticket'[x].status = "failed" /\ DeskItems(x)' # {}
    BY DEF Leaked, DeskItems
  <2>3. CASE ticket[x].status = "failed" \/ ticket'[x].status = "failed"
    BY <2>1, <2>2, <2>3
  <2>4. CASE ticket[x].status # "failed" /\ ticket'[x].status # "failed"
    BY <2>1, <2>2, <2>4
  <2> QED
    BY <2>3, <2>4
<1> QED
  BY <1>1 DEF Leaked

\* No refund is undone or was, and the tickets stay on their trips.
LEMMA RestoredKept ==
  ASSUME NEW t,
         \A r \in Refunds : refund[r].at = "undone" \/ refund'[r].at = "undone" =>
           /\ refund'[r].at = refund[r].at /\ refund'[r].ticket = refund[r].ticket
           /\ ticket'[refund[r].ticket].trip = ticket[refund[r].ticket].trip
  PROVE  Restored(t)' = Restored(t)
  BY DEF Restored

\* A refund under way is about a ticket that exists.
LEMMA RefundedTickets ==
  ASSUME DeskInv, NEW r \in Refunds, refund[r].at = "undone"
  PROVE  /\ refund[r].ticket \in SoldTickets /\ refund[r].ticket \in TicketIds
         /\ ticket[refund[r].ticket].status # "none"
         /\ sale[refund[r].ticket[1]] = "sold"
  BY DeskNames DEF DeskInv, RefundLife, RefundRequests

\* Steps that write no ticket, no counter of a trip that is not edited, and undo no refund.
LEMMA QuietAccounts ==
  ASSUME DeskInv, SeatAccounts, ticket' = ticket,
         \A x : DeskItems(x)' = DeskItems(x),
         \A r \in Refunds : refund[r].at = "undone" \/ refund'[r].at = "undone" =>
           refund'[r] = refund[r],
         \A t \in Trips : ~Edited(t)' =>
           /\ ~Edited(t)
           /\ trip'[t].capacity = trip[t].capacity
           /\ trip'[t].seatsAvailable = trip[t].seatsAvailable
  PROVE  SeatAccounts'
<1> SUFFICES ASSUME NEW t \in Trips PROVE AccountOK(t)'
  BY DEF SeatAccounts
<1>1. Leaked(t)' = Leaked(t)
  BY LeakedKept
<1>2. Restored(t)' = Restored(t)
  BY RestoredKept
<1>3. Occupied(t)' = Occupied(t)
  BY DEF Occupied
<1> QED
  BY <1>1, <1>2, <1>3 DEF SeatAccounts, AccountOK

LEMMA CommitKeepsAccounts ==
  ASSUME DeskInv, SnapshotsOfTrips, SeatAccounts, NEW b \in Bookings, SaleCommit(b),
         UNCHANGED deskVars
  PROVE  SeatAccounts'
<1> SUFFICES ASSUME NEW t \in Trips PROVE AccountOK(t)'
  BY DEF SeatAccounts
<1>1. /\ TypeOK /\ TicketsOf(b) \subseteq SoldTickets
      /\ sale[b] = "selling" /\ Asked(b) \cap stale[b] = {}
      /\ SaleStep(b)
  BY RequestedRows DEF DeskInv, HandlerInv, TypeOK, SaleCommit, Conflict, SaleStep, Handle
<1>2. /\ \A x \in TicketsOf(b) : ticket[x].status = "none" /\ ticket'[x].status = "valid"
      /\ \A x \in TicketIds \ TicketsOf(b) : ticket'[x] = ticket[x]
  BY <1>1, SaleWritesTickets
<1>3. /\ Occupied(t)' = Occupied(t) \cup Mine(b, t)
      /\ Occupied(t) \cap Mine(b, t) = {}
      /\ trip'[t] = [trip[t] EXCEPT !.seatsAvailable = @ - Cardinality(Lines(b, t))]
  BY <1>1, <1>2, CommitTakesSeats
<1>4. \A x : DeskItems(x)' = DeskItems(x)
  BY DEF deskVars, DeskItems, PricedItems, ZeroItems
<1>5. Leaked(t)' = Leaked(t)
  BY <1>2, <1>4, LeakedKept, DeskNames
<1>6. Restored(t)' = Restored(t)
  BY <1>2, RestoredKept, RefundedTickets DEF deskVars
<1>7. Edited(t)' <=> Edited(t)
  BY DEF deskVars, Edited
<1>8. /\ IsFiniteSet(Mine(b, t)) /\ Cardinality(Mine(b, t)) = Cardinality(Lines(b, t))
      /\ Cardinality(Lines(b, t)) \in Nat
  BY MineCount, LinesCount
<1>9. Cardinality(Occupied(t)') = Cardinality(Occupied(t)) + Cardinality(Lines(b, t))
  BY <1>3, <1>8, CountAdded, AccountCounts
<1>10. /\ trip'[t].capacity = trip[t].capacity
       /\ trip'[t].seatsAvailable = trip[t].seatsAvailable - Cardinality(Lines(b, t))
  BY <1>1, <1>3 DEF TypeOK
<1>11. ~Edited(t) => trip'[t].seatsAvailable + Cardinality(Restored(t)) >= 0
  <2>1. CASE t \in Asked(b)
    <3>1. trip[t].seatsAvailable - Cardinality(Lines(b, t)) >= 0
      BY <1>1, <2>1 DEF SnapshotsOfTrips, StillAvailable
    <3>2. Cardinality(Restored(t)) \in Nat /\ trip[t].seatsAvailable \in Int
      BY AccountCounts
    <3> QED
      BY <1>8, <1>10, <3>1, <3>2
  <2>2. CASE t \notin Asked(b)
    <3>1. Cardinality(Lines(b, t)) = 0
      BY <1>1, <2>2, MineIsAsked, FS_EmptySet DEF TypeOK
    <3> QED
      BY <1>10, <3>1, AccountCounts DEF SeatAccounts, AccountOK
  <2> QED
    BY <2>1, <2>2
<1> QED
  BY <1>5, <1>6, <1>7, <1>8, <1>9, <1>10, <1>11, AccountCounts DEF SeatAccounts, AccountOK

\* The tickets of a sale on a trip that the desk has taken back.
Released(b, t) == {x \in Mine(b, t) : DeskItems(x) # {}}

LEMMA UndoSaleSeats ==
  ASSUME DeskInv, NEW b \in Bookings, UndoCommit(b), UNCHANGED deskVars, NEW t \in Trips
  PROVE  /\ Mine(b, t) \ Released(b, t) \subseteq Occupied(t)
         /\ Occupied(t)' = Occupied(t) \ (Mine(b, t) \ Released(b, t))
         /\ Leaked(t)' = Leaked(t) \cup Released(b, t)
         /\ Leaked(t) \cap Released(b, t) = {}
<1>1. /\ TypeOK /\ TicketsOf(b) \subseteq SoldTickets /\ SoldTickets \subseteq TicketIds
      /\ sale[b] = "releasing" /\ SaleStep(b)
  BY RequestedRows, DeskNames DEF DeskInv, HandlerInv, TypeOK, UndoCommit, SaleStep, Handle
<1>2. /\ \A x \in TicketsOf(b) : /\ ticket[x].status \in {"valid", "void"}
                                 /\ ticket'[x].status = "failed"
                                 /\ ticket'[x].trip = ticket[x].trip
      /\ \A x \in TicketIds \ TicketsOf(b) : ticket'[x] = ticket[x]
  BY <1>1, SaleWritesTickets
<1>3. \A x : DeskItems(x)' = DeskItems(x)
  BY DEF deskVars, DeskItems, PricedItems, ZeroItems
<1>4. \A x \in TicketsOf(b) :
        /\ ticket[x].status = "valid" <=> DeskItems(x) = {}
        /\ ticket[x].trip = order[b].trips[x[2]]
  <2>1. \A x \in TicketsOf(b) : x \in SoldTickets /\ x[1] = b
    BY <1>1, OwnTickets
  <2>2. \A x \in TicketsOf(b) : ticket[x].trip = order[b].trips[x[2]]
    BY <1>2, <2>1 DEF DeskInv, RowsOK
  <2>3. \A x \in TicketsOf(b) : ticket[x].status = IF DeskItems(x) = {} THEN "valid" ELSE "void"
    BY <1>1, <2>1 DEF DeskInv, StatusFollowsSale, HeldStates, Errors
  <2> QED
    BY <2>2, <2>3
<1>5. Mine(b, t) = {x \in TicketsOf(b) : ticket[x].trip = t}
  <2>1. Mine(b, t) = {x \in TicketsOf(b) : order[b].trips[x[2]] = t}
    BY <1>1, MineIsAsked DEF TypeOK
  <2> QED
    BY <1>4, <2>1
<1>6. ASSUME NEW x \in TicketIds
      PROVE  /\ x \in Occupied(t)' <=> x \in Occupied(t) \ (Mine(b, t) \ Released(b, t))
             /\ x \in Mine(b, t) \ Released(b, t) => x \in Occupied(t)
  <2>1. CASE x \in TicketsOf(b)
    BY <1>2, <1>4, <1>5, <2>1 DEF Occupied, Released, ValidStatuses
  <2>2. CASE x \notin TicketsOf(b)
    BY <1>2, <1>5, <2>2 DEF Occupied, Released
  <2> QED
    BY <2>1, <2>2
<1>7. ASSUME NEW x \in SoldTickets
      PROVE  /\ x \in Leaked(t)' <=> x \in Leaked(t) \cup Released(b, t)
             /\ ~(x \in Leaked(t) /\ x \in Released(b, t))
  <2>1. x \in Leaked(t) <=>
          ticket[x].trip = t /\ ticket[x].status = "failed" /\ DeskItems(x) # {}
    BY DEF Leaked, DeskItems
  <2>2. x \in Leaked(t)' <=>
          ticket'[x].trip = t /\ ticket'[x].status = "failed" /\ DeskItems(x)' # {}
    BY DEF Leaked, DeskItems
  <2>3. CASE x \in TicketsOf(b)
    BY <1>2, <1>3, <1>5, <2>1, <2>2, <2>3 DEF Released
  <2>4. CASE x \notin TicketsOf(b)
    BY <1>1, <1>2, <1>3, <1>5, <2>1, <2>2, <2>4 DEF Released
  <2> QED
    BY <2>3, <2>4
<1>8. /\ Occupied(t)' \subseteq TicketIds /\ Occupied(t) \subseteq TicketIds
      /\ Leaked(t)' \subseteq SoldTickets /\ Leaked(t) \subseteq SoldTickets
      /\ Mine(b, t) \subseteq SoldTickets /\ Released(b, t) \subseteq SoldTickets
  BY <1>1, <1>5 DEF Occupied, Leaked, Released
<1> QED
  BY <1>1, <1>6, <1>7, <1>8

LEMMA UndoKeepsAccounts ==
  ASSUME DeskInv, SeatAccounts, NEW b \in Bookings, UndoCommit(b), UNCHANGED deskVars
  PROVE  SeatAccounts'
<1> SUFFICES ASSUME NEW t \in Trips PROVE AccountOK(t)'
  BY DEF SeatAccounts
<1>1. TypeOK /\ SaleStep(b)
  BY DEF DeskInv, HandlerInv, SaleStep, Handle
<1>2. Restored(t)' = Restored(t)
  <2>1. /\ \A x \in TicketsOf(b) : ticket'[x].trip = ticket[x].trip
        /\ \A x \in TicketIds \ TicketsOf(b) : ticket'[x] = ticket[x]
    BY <1>1, SaleWritesTickets
  <2> QED
    BY <2>1, RestoredKept, RefundedTickets DEF deskVars
<1>3. Edited(t)' <=> Edited(t)
  BY DEF deskVars, Edited
<1>4. /\ IsFiniteSet(Mine(b, t)) /\ Cardinality(Mine(b, t)) = Cardinality(Lines(b, t))
      /\ Cardinality(Lines(b, t)) \in Nat
  BY MineCount, LinesCount
<1>5. /\ IsFiniteSet(Released(b, t)) /\ Cardinality(Released(b, t)) \in Nat
      /\ IsFiniteSet(Mine(b, t) \ Released(b, t))
      /\ Cardinality(Mine(b, t) \ Released(b, t)) =
           Cardinality(Lines(b, t)) - Cardinality(Released(b, t))
  <2>1. Released(b, t) \subseteq Mine(b, t)
    BY DEF Released
  <2> QED
    <3>1. IsFiniteSet(Released(b, t)) /\ Cardinality(Released(b, t)) \in Nat
      BY <1>4, <2>1, FS_Subset, FS_CardinalityType
    <3> QED
      BY <1>4, <2>1, <3>1, CountRemoved
<1>6. Cardinality(Occupied(t)') =
        Cardinality(Occupied(t)) - (Cardinality(Lines(b, t)) - Cardinality(Released(b, t)))
  <2>1. IsFiniteSet(Occupied(t))
    BY AccountCounts
  <2>2. /\ Mine(b, t) \ Released(b, t) \subseteq Occupied(t)
        /\ Occupied(t)' = Occupied(t) \ (Mine(b, t) \ Released(b, t))
    BY UndoSaleSeats
  <2>3. Cardinality(Occupied(t) \ (Mine(b, t) \ Released(b, t))) =
          Cardinality(Occupied(t)) - Cardinality(Mine(b, t) \ Released(b, t))
    BY <2>1, <2>2, CountRemoved
  <2> QED
    BY <1>5, <2>2, <2>3
<1>7. /\ IsFiniteSet(Leaked(t)')
      /\ Cardinality(Leaked(t)') = Cardinality(Leaked(t)) + Cardinality(Released(b, t))
  <2>1. /\ Leaked(t)' = Leaked(t) \cup Released(b, t)
        /\ Leaked(t) \cap Released(b, t) = {}
    BY UndoSaleSeats
  <2>2. IsFiniteSet(Leaked(t))
    BY AccountCounts
  <2> QED
    BY <1>5, <2>1, <2>2, CountAdded
<1>8. /\ trip'[t].capacity = trip[t].capacity
      /\ trip'[t].seatsAvailable = trip[t].seatsAvailable + Cardinality(Lines(b, t))
  <2>1. SeatDelta(SoldStatus, "failed") = 1
    BY DEF SeatDelta, SoldStatus, ValidStatuses, VoidStatuses
  <2>2. trip'[t] = [trip[t] EXCEPT !.seatsAvailable =
                      @ + SeatDelta(SoldStatus, "failed") * Cardinality(Lines(b, t))]
    BY DEF UndoCommit
  <2>3. SeatDelta(SoldStatus, "failed") * Cardinality(Lines(b, t)) = Cardinality(Lines(b, t))
    BY <1>4, <2>1
  <2> QED
    BY <1>1, <2>2, <2>3 DEF TypeOK
<1> QED
  BY <1>2, <1>3, <1>4, <1>5, <1>6, <1>7, <1>8, AccountCounts DEF SeatAccounts, AccountOK


\* A write of the desk moves its ticket between occupying its seat and not.
LEMMA TicketMovesSeats ==
  ASSUME DeskInv, NEW c, NEW x, NEW from, NEW to, TicketMoves(c, x, from, to), NEW t \in Trips
  PROVE  /\ x \in TicketIds
         /\ t # ticket[x].trip => Occupied(t)' = Occupied(t)
         /\ t = ticket[x].trip /\ from \in ValidStatuses /\ to \in VoidStatuses =>
              /\ Occupied(t)' = Occupied(t) \ {x} /\ {x} \subseteq Occupied(t)
              /\ trip'[t].seatsAvailable = trip[t].seatsAvailable + 1
         /\ t = ticket[x].trip /\ from \in VoidStatuses /\ to \in ValidStatuses =>
              /\ Occupied(t)' = Occupied(t) \cup {x} /\ Occupied(t) \cap {x} = {}
              /\ trip'[t].seatsAvailable = trip[t].seatsAvailable - 1
         /\ t = ticket[x].trip /\ from \in VoidStatuses /\ to \in VoidStatuses =>
              /\ Occupied(t)' = Occupied(t)
              /\ trip'[t].seatsAvailable = trip[t].seatsAvailable
         /\ t # ticket[x].trip => trip'[t].seatsAvailable = trip[t].seatsAvailable
         /\ trip'[t].capacity = trip[t].capacity
<1>1. /\ x \in TicketIds /\ ticket[x].status = from
      /\ ticket'[x].status = to /\ ticket'[x].trip = ticket[x].trip
      /\ \A y \in TicketIds \ {x} : ticket'[y] = ticket[y]
      /\ trip'[t].capacity = trip[t].capacity
      /\ trip'[t].seatsAvailable =
           trip[t].seatsAvailable + (IF t = ticket[x].trip THEN SeatDelta(from, to) ELSE 0)
  BY DeskNames DEF TicketMoves
<1>2. trip[t].seatsAvailable \in Int
  BY DEF DeskInv, HandlerInv, TypeOK
<1>3. ValidStatuses \cap VoidStatuses = {}
  BY DEF ValidStatuses, VoidStatuses
<1>4. ASSUME NEW y \in TicketIds
      PROVE  /\ y # x => (y \in Occupied(t)' <=> y \in Occupied(t))
             /\ x \in Occupied(t) <=> from \in ValidStatuses /\ ticket[x].trip = t
             /\ x \in Occupied(t)' <=> to \in ValidStatuses /\ ticket[x].trip = t
  BY <1>1 DEF Occupied
<1>5. Occupied(t) \subseteq TicketIds /\ Occupied(t)' \subseteq TicketIds
  BY DEF Occupied
<1>6. /\ from \in ValidStatuses /\ to \in VoidStatuses => SeatDelta(from, to) = 1
      /\ from \in VoidStatuses /\ to \in ValidStatuses => SeatDelta(from, to) = -1
      /\ from \in VoidStatuses /\ to \in VoidStatuses => SeatDelta(from, to) = 0
  BY <1>3 DEF SeatDelta
<1>7. CASE t # ticket[x].trip
  <2>1. \A y \in TicketIds : y \in Occupied(t)' <=> y \in Occupied(t)
    BY <1>4, <1>7
  <2>2. Occupied(t)' = Occupied(t)
    BY <1>5, <2>1
  <2> QED
    BY <1>1, <1>2, <1>7, <2>2
<1>8. CASE t = ticket[x].trip /\ from \in ValidStatuses /\ to \in VoidStatuses
  <2>1. Occupied(t)' = Occupied(t) \ {x} /\ {x} \subseteq Occupied(t)
    BY <1>1, <1>3, <1>4, <1>5, <1>8
  <2> QED
    BY <1>1, <1>3, <1>6, <1>8, <2>1
<1>9. CASE t = ticket[x].trip /\ from \in VoidStatuses /\ to \in ValidStatuses
  <2>1. Occupied(t)' = Occupied(t) \cup {x} /\ Occupied(t) \cap {x} = {}
    BY <1>1, <1>3, <1>4, <1>5, <1>9
  <2> QED
    BY <1>1, <1>2, <1>3, <1>6, <1>9, <2>1
<1>10. CASE t = ticket[x].trip /\ from \in VoidStatuses /\ to \in VoidStatuses
  <2>1. Occupied(t)' = Occupied(t)
    BY <1>1, <1>3, <1>4, <1>5, <1>10
  <2> QED
    BY <1>1, <1>2, <1>3, <1>6, <1>10, <2>1
<1> QED
  BY <1>1, <1>7, <1>8, <1>9, <1>10

\* A desk write on a ticket that is not failed leaks no seat.
LEMMA TicketMovesLeaked ==
  ASSUME DeskInv, NEW r \in RefundRequests, NEW from, NEW to, NEW v,
         TicketMoves(r, refund[r].ticket, from, to), from # "failed", to # "failed",
         refundTxn' = [refundTxn EXCEPT ![r] = v], conversion' = conversion,
         \A s \in RefundRequests : refund'[s].ticket = refund[s].ticket,
         NEW t \in Trips
  PROVE  Leaked(t)' = Leaked(t)
<1>0. PICK x : x = refund[r].ticket
  OBVIOUS
<1>1. ASSUME NEW y \in SoldTickets, y # x
      PROVE  DeskItems(y)' = DeskItems(y)
  <2>1. \A s \in RefundRequests :
          refundTxn'[s] /\ refund'[s].ticket = y <=> refundTxn[s] /\ refund[s].ticket = y
    BY <1>0, <1>1 DEF DeskInv, HandlerInv, DeskTypeOK
  <2>2. PricedItems(y)' = PricedItems(y)
    BY <2>1 DEF PricedItems
  <2>3. ZeroItems(y)' = ZeroItems(y)
    BY DEF ZeroItems
  <2> QED
    BY <2>2, <2>3 DEF DeskItems
<1>2. /\ ticket[x].status # "failed" /\ ticket'[x].status # "failed"
      /\ \A y \in SoldTickets \ {x} : ticket'[y] = ticket[y]
  BY <1>0, DeskNames DEF TicketMoves
<1> QED
  BY <1>1, <1>2, LeakedKept

LEMMA WriteKeepsAccounts ==
  ASSUME DeskInv, SeatAccounts, NEW r \in RefundRequests, NEW from, NEW to,
         RefundWrites(r, from, to)
  PROVE  SeatAccounts'
<1> SUFFICES ASSUME NEW t \in Trips PROVE AccountOK(t)'
  BY DEF SeatAccounts
<1>1. /\ TicketMoves(r, refund[r].ticket, from, to)
      /\ from \in {"valid", "void"} /\ to \in {"refunded", "void"} /\ from # to
      /\ refund' = [refund EXCEPT ![r].at = refund'[r].at]
      /\ refund'[r].at = IF r \in Refunds THEN "calling" ELSE "done"
      /\ refundTxn' = [refundTxn EXCEPT ![r] = TRUE]
      /\ UNCHANGED <<conversion, edit>> /\ refund[r].at = "open"
  BY RefundWritesTicket DEF RefundWrites
<1>2. /\ \A s \in RefundRequests : /\ refund'[s].ticket = refund[s].ticket
                                   /\ s # r => refund'[s] = refund[s]
      /\ Refunds \subseteq RefundRequests
  BY <1>1, RefundAt DEF DeskInv, HandlerInv, RefundStates, RefundRequests
<1>3. Leaked(t)' = Leaked(t)
  BY <1>1, <1>2, TicketMovesLeaked
<1>4. Restored(t)' = Restored(t)
  <2>1. \A x \in TicketIds : ticket'[x].trip = ticket[x].trip
    BY <1>1 DEF TicketMoves
  <2> QED
    BY <1>1, <1>2, <2>1, RestoredKept, RefundedTickets
<1>5. Edited(t)' <=> Edited(t)
  BY <1>1 DEF Edited
<1>0. PICK x : x = refund[r].ticket
  OBVIOUS
<1>6. TicketMoves(r, x, from, to)
  BY <1>0, <1>1
<1>7. /\ to \in VoidStatuses
      /\ from \in ValidStatuses \/ from \in VoidStatuses
  BY <1>1 DEF VoidStatuses, ValidStatuses
<1>8. CASE t = ticket[x].trip /\ from \in ValidStatuses
  <2>1. /\ Occupied(t)' = Occupied(t) \ {x} /\ {x} \subseteq Occupied(t)
        /\ trip'[t].seatsAvailable = trip[t].seatsAvailable + 1
        /\ trip'[t].capacity = trip[t].capacity
    BY <1>6, <1>7, <1>8, TicketMovesSeats
  <2>2. Cardinality(Occupied(t)') = Cardinality(Occupied(t)) - 1
    <3>1. IsFiniteSet(Occupied(t)) /\ Cardinality({x}) = 1
      BY AccountCounts, FS_Singleton
    <3> QED
      BY <2>1, <3>1, CountRemoved
  <2> QED
    BY <1>3, <1>4, <1>5, <2>1, <2>2, AccountCounts DEF SeatAccounts, AccountOK
<1>9. CASE t # ticket[x].trip \/ from \notin ValidStatuses
  <2>1. /\ Occupied(t)' = Occupied(t)
        /\ trip'[t].seatsAvailable = trip[t].seatsAvailable
        /\ trip'[t].capacity = trip[t].capacity
    BY <1>6, <1>7, <1>9, TicketMovesSeats
  <2> QED
    BY <1>3, <1>4, <1>5, <2>1 DEF SeatAccounts, AccountOK
<1> QED
  BY <1>8, <1>9

\* A refund that Stripe refused puts its passenger back.
LEMMA RefundUndoKeepsAccounts ==
  ASSUME DeskInv, SeatAccounts, NEW r \in Refunds, RefundUndoCommit(r)
  PROVE  SeatAccounts'
<1> SUFFICES ASSUME NEW t \in Trips PROVE AccountOK(t)'
  BY DEF SeatAccounts
<1>1. /\ TicketMoves(r, refund[r].ticket, "refunded", "valid")
      /\ refund[r].at = "releasing" /\ refund' = [refund EXCEPT ![r].at = "undone"]
      /\ refundTxn' = [refundTxn EXCEPT ![r] = FALSE]
      /\ UNCHANGED <<conversion, edit>> /\ r \in RefundRequests
  BY RefundUndoWritesTicket DEF RefundRequests
<1>2. /\ refund'[r].at = "undone"
      /\ \A s \in RefundRequests : /\ refund'[s].ticket = refund[s].ticket
                                   /\ s # r => refund'[s] = refund[s]
      /\ Refunds \subseteq RefundRequests
  BY <1>1, RefundAt DEF DeskInv, HandlerInv, RefundStates, RefundRequests
<1>3. Leaked(t)' = Leaked(t)
  BY <1>1, <1>2, TicketMovesLeaked
<1>4. Edited(t)' <=> Edited(t)
  BY <1>1 DEF Edited
<1>0. PICK x : x = refund[r].ticket
  OBVIOUS
<1>5. TicketMoves(r, x, "refunded", "valid")
  BY <1>0, <1>1
<1>6. "refunded" \in VoidStatuses /\ "valid" \in ValidStatuses
  BY DEF VoidStatuses, ValidStatuses
<1>7. \A s \in Refunds :
        /\ s # r => (s \in Restored(t)' <=> s \in Restored(t))
        /\ r \in Restored(t)' <=> ticket[x].trip = t
        /\ r \notin Restored(t)
  <2>1. \A y \in TicketIds : ticket'[y].trip = ticket[y].trip
    BY <1>1 DEF TicketMoves
  <2>2. r \in Restored(t)' <=> ticket[x].trip = t
    BY <1>0, <1>2, <1>5, <2>1, TicketMovesSeats DEF Restored
  <2>3. r \notin Restored(t)
    BY <1>1 DEF Restored
  <2>4. ASSUME NEW s \in Refunds, s # r
        PROVE  s \in Restored(t)' <=> s \in Restored(t)
    <3>1. refund'[s] = refund[s]
      BY <1>2, <2>4
    <3>2. CASE refund[s].at = "undone"
      BY <2>1, <3>1, <3>2, RefundedTickets DEF Restored
    <3>3. CASE refund[s].at # "undone"
      BY <3>1, <3>3 DEF Restored
    <3> QED
      BY <3>2, <3>3
  <2> QED
    BY <2>2, <2>3, <2>4
<1>8. Restored(t) \subseteq Refunds /\ Restored(t)' \subseteq Refunds
  BY DEF Restored
<1>9. CASE t = ticket[x].trip
  <2>1. /\ Occupied(t)' = Occupied(t) \cup {x} /\ Occupied(t) \cap {x} = {}
        /\ trip'[t].seatsAvailable = trip[t].seatsAvailable - 1
        /\ trip'[t].capacity = trip[t].capacity
    BY <1>5, <1>6, <1>9, TicketMovesSeats
  <2>2. Cardinality(Occupied(t)') = Cardinality(Occupied(t)) + 1
    <3>1. IsFiniteSet(Occupied(t)) /\ IsFiniteSet({x}) /\ Cardinality({x}) = 1
      BY AccountCounts, FS_Singleton
    <3> QED
      BY <2>1, <3>1, CountAdded
  <2>3. Restored(t)' = Restored(t) \cup {r} /\ Restored(t) \cap {r} = {}
    BY <1>7, <1>8, <1>9
  <2>4. /\ IsFiniteSet(Restored(t)')
        /\ Cardinality(Restored(t)') = Cardinality(Restored(t)) + 1
    <3>1. IsFiniteSet(Restored(t)) /\ IsFiniteSet({r}) /\ Cardinality({r}) = 1
      BY AccountCounts, FS_Singleton
    <3> QED
      BY <2>3, <3>1, CountAdded
  <2> QED
    BY <1>3, <1>4, <2>1, <2>2, <2>4, AccountCounts DEF SeatAccounts, AccountOK
<1>10. CASE t # ticket[x].trip
  <2>1. /\ Occupied(t)' = Occupied(t)
        /\ trip'[t].seatsAvailable = trip[t].seatsAvailable
        /\ trip'[t].capacity = trip[t].capacity
    BY <1>5, <1>10, TicketMovesSeats
  <2>2. Restored(t)' = Restored(t)
    BY <1>7, <1>8, <1>10
  <2> QED
    BY <1>3, <1>4, <2>1, <2>2 DEF SeatAccounts, AccountOK
<1> QED
  BY <1>9, <1>10


\* A replacement ticket takes a seat of its trip, and gives back those of the tickets it
\* replaces.
LEMMA IssueKeepsAccounts ==
  ASSUME DeskInv, SeatAccounts, NEW c \in Conversions, NEW user \in Users, NEW u \in Trips,
         NEW cancelled \in SUBSET TicketIds, IssueFree(c, user, u, cancelled)
  PROVE  SeatAccounts'
<1> SUFFICES ASSUME NEW t \in Trips PROVE AccountOK(t)'
  BY DEF SeatAccounts
<1>1. /\ ticket[c].status = "none" /\ c \notin cancelled /\ conversion[c].cancelled = {}
      /\ \A x \in cancelled : ticket[x].status = "valid"
      /\ ticket'[c] = [status |-> "valid", user |-> user, trip |-> u]
      /\ \A x \in cancelled : ticket'[x].status = "void" /\ ticket'[x].trip = ticket[x].trip
      /\ \A x \in TicketIds \ (cancelled \cup {c}) : ticket'[x] = ticket[x]
      /\ conversion' = [conversion EXCEPT ![c] = [done |-> TRUE, cancelled |-> cancelled]]
      /\ UNCHANGED <<refund, refundTxn, stripeRefunds, edit>>
      /\ trip'[u].seatsAvailable >= 0
  BY IssueFreeWrites
<1>2. /\ Freed(cancelled, t) \subseteq Occupied(t)
      /\ IsFiniteSet(Freed(cancelled, t)) /\ Cardinality(Freed(cancelled, t)) \in Nat
      /\ trip'[t].capacity = trip[t].capacity
      /\ trip'[t].seatsAvailable = trip[t].seatsAvailable
           + Cardinality(Freed(cancelled, t)) - (IF t = u THEN 1 ELSE 0)
  BY IssueFreeSeats
<1>3. Leaked(t)' = Leaked(t)
  <2>1. ASSUME NEW x \in SoldTickets, ticket[x].status = "failed" \/ ticket'[x].status = "failed"
        PROVE  ticket'[x] = ticket[x] /\ DeskItems(x)' = DeskItems(x)
    <3>1. x \in TicketIds /\ x # c
      BY DeskNames
    <3>2. x \notin cancelled
      BY <1>1, <2>1
    <3>3. ZeroItems(x)' = ZeroItems(x)
      <4>1. \A e \in Conversions : x \in conversion'[e].cancelled <=> x \in conversion[e].cancelled
        BY <1>1, <3>2 DEF DeskInv, HandlerInv, DeskTypeOK
      <4> QED
        BY <4>1 DEF ZeroItems
    <3>4. PricedItems(x)' = PricedItems(x)
      BY <1>1 DEF PricedItems
    <3> QED
      BY <1>1, <3>1, <3>2, <3>3, <3>4 DEF DeskItems
  <2> QED
    BY <2>1, LeakedKept
<1>4. Restored(t)' = Restored(t)
  <2>1. \A x \in TicketIds : ticket[x].status # "none" => ticket'[x].trip = ticket[x].trip
    BY <1>1
  <2> QED
    BY <1>1, <2>1, RestoredKept, RefundedTickets
<1>5. Edited(t)' <=> Edited(t)
  BY <1>1 DEF Edited
<1>6. /\ IsFiniteSet(Occupied(t) \ Freed(cancelled, t))
      /\ Cardinality(Occupied(t) \ Freed(cancelled, t)) =
           Cardinality(Occupied(t)) - Cardinality(Freed(cancelled, t))
  <2>1. IsFiniteSet(Occupied(t))
    BY AccountCounts
  <2> QED
    BY <1>2, <2>1, CountRemoved
<1>7. c \in TicketIds /\ c \notin Occupied(t)
  BY <1>1, DeskNames DEF Occupied, ValidStatuses
<1>8. \A x \in TicketIds \ {c} :
        x \in Occupied(t)' <=> x \in Occupied(t) \ Freed(cancelled, t)
  BY <1>1 DEF Occupied, Freed, ValidStatuses
<1>9. Occupied(t)' \subseteq TicketIds /\ Occupied(t) \subseteq TicketIds
  BY DEF Occupied
<1>10. c \in Occupied(t)' <=> t = u
  BY <1>1, <1>7 DEF Occupied, ValidStatuses
<1>11. CASE t = u
  <2>1. Occupied(t)' = (Occupied(t) \ Freed(cancelled, t)) \cup {c}
    BY <1>7, <1>8, <1>9, <1>10, <1>11
  <2>2. Cardinality((Occupied(t) \ Freed(cancelled, t)) \cup {c}) =
          Cardinality(Occupied(t) \ Freed(cancelled, t)) + 1
    <3>1. IsFiniteSet({c}) /\ Cardinality({c}) = 1
      BY FS_Singleton
    <3>2. (Occupied(t) \ Freed(cancelled, t)) \cap {c} = {}
      BY <1>7
    <3> QED
      BY <1>6, <3>1, <3>2, CountAdded
  <2>3. trip'[t].seatsAvailable + Cardinality(Restored(t)) >= 0
    BY <1>1, <1>2, <1>11, AccountCounts
  <2> QED
    BY <1>2, <1>3, <1>4, <1>5, <1>6, <1>11, <2>1, <2>2, <2>3, AccountCounts
    DEF SeatAccounts, AccountOK
<1>12. CASE t # u
  <2>1. Occupied(t)' = Occupied(t) \ Freed(cancelled, t)
    BY <1>7, <1>8, <1>9, <1>10, <1>12
  <2> QED
    BY <1>2, <1>3, <1>4, <1>5, <1>6, <1>12, <2>1, AccountCounts DEF SeatAccounts, AccountOK
<1> QED
  BY <1>11, <1>12

\* The steps of a refund that write no ticket.
LEMMA RefundQuietAccounts ==
  ASSUME DeskInv, SeatAccounts, NEW r \in RefundRequests,
         UNCHANGED <<trip, ticket, refundTxn, conversion, edit>>, SalesKept,
         refund[r].at # "undone", refund'[r].at # "undone",
         refundTxn[r] => refund'[r].ticket = refund[r].ticket,
         \A s \in RefundRequests \ {r} : refund'[s] = refund[s]
  PROVE  SeatAccounts'
<1>1. \A x : DeskItems(x)' = DeskItems(x)
  <2>1. \A x : PricedItems(x)' = PricedItems(x)
    BY DEF PricedItems
  <2> QED
    BY <2>1 DEF DeskItems, ZeroItems
<1>2. \A s \in Refunds : refund[s].at = "undone" \/ refund'[s].at = "undone" =>
        refund'[s] = refund[s]
  BY DEF RefundRequests
<1>3. \A t \in Trips : Edited(t)' <=> Edited(t)
  BY DEF Edited
<1> QED
  BY <1>1, <1>2, <1>3, QuietAccounts

LEMMA NextAccounts ==
  DeskInv /\ SnapshotsOfTrips /\ SeatAccounts /\ [DeskNext]_vars => SeatAccounts'
<1> SUFFICES ASSUME DeskInv, SnapshotsOfTrips, SeatAccounts, [DeskNext]_vars PROVE SeatAccounts'
  OBVIOUS
<1>1. DeskTypeOK
  BY DEF DeskInv, HandlerInv
<1>2. ASSUME UNCHANGED <<trip, ticket>>, UNCHANGED deskVars
      PROVE  SeatAccounts'
  <2>1. \A x : DeskItems(x)' = DeskItems(x)
    BY <1>2 DEF deskVars, DeskItems, PricedItems, ZeroItems
  <2>2. refund' = refund /\ \A t : Edited(t)' <=> Edited(t)
    BY <1>2 DEF deskVars, Edited
  <2> QED
    BY <1>2, <2>1, <2>2, QuietAccounts
<1>3. ASSUME NEW b \in Bookings, SaleStep(b), UNCHANGED deskVars
      PROVE  SeatAccounts'
  <2>1. CASE SaleCommit(b)
    BY <1>3, <2>1, CommitKeepsAccounts
  <2>2. CASE UndoCommit(b)
    BY <1>3, <2>2, UndoKeepsAccounts
  <2>3. CASE ~SaleCommit(b) /\ ~UndoCommit(b)
    <3>1. trip' = trip /\ ticket' = ticket
      BY <1>3, <2>3, SaleWritesTickets
    <3> QED
      BY <1>2, <1>3, <3>1
  <2> QED
    BY <2>1, <2>2, <2>3
<1>4. ASSUME NEW r \in RefundRequests,
             \/ r \in Refunds /\ RefundBegin(r)
             \/ r \in PassRefunds /\ PassRefundBegin(r)
      PROVE  SeatAccounts'
  <2>1. /\ UNCHANGED <<trip, ticket, refundTxn, conversion, edit>> /\ SalesKept
        /\ ~refundTxn[r] /\ refund[r].at = "new"
    BY <1>4, RefundBegins
  <2>2. PICK x \in SoldTickets :
          refund' = [refund EXCEPT ![r] =
                       [at |-> "open", ticket |-> x, was |-> ticket[x].status]]
    BY <1>4, RefundBegins
  <2>3. refund'[r].at = "open" /\ \A s \in RefundRequests \ {r} : refund'[s] = refund[s]
    BY <1>1, <2>2 DEF DeskTypeOK
  <2> QED
    BY <2>1, <2>3, RefundQuietAccounts
<1>5. ASSUME NEW r \in RefundRequests,
             \/ r \in Refunds /\ RefundMoves(r)
             \/ r \in PassRefunds /\ PassRefundAbort(r)
      PROVE  SeatAccounts'
  <2>1. /\ UNCHANGED <<trip, ticket, refundTxn, conversion, edit>> /\ SalesKept
        /\ refund' = [refund EXCEPT ![r].at = refund'[r].at]
        /\ refund'[r].at \in RefundStates \ {"new", "open", "undone"}
    BY <1>5, RefundMovesOn
  <2>2. refund[r].at # "undone"
    BY <1>5 DEF RefundMoves, RefundConflict, StripeRefund, StripeRefundFails, RefundUndoBegin,
                RefundUndoConflict, RefundCrash, PassRefundAbort
  <2>3. /\ refund'[r].ticket = refund[r].ticket
        /\ \A s \in RefundRequests \ {r} : refund'[s] = refund[s]
    BY <1>1, <2>1, RefundAt
  <2> QED
    BY <2>1, <2>2, <2>3, RefundQuietAccounts
<1>6. ASSUME TripSteps
      PROVE  SeatAccounts'
  <2>1. /\ UNCHANGED <<ticket, refund, refundTxn, conversion>>
        /\ \A t \in Trips : ~Edited(t)' => /\ ~Edited(t)
                                           /\ trip'[t].capacity = trip[t].capacity
                                           /\ trip'[t].seatsAvailable = trip[t].seatsAvailable
    BY <1>6, TripStepsKeepTickets
  <2>2. \A x : DeskItems(x)' = DeskItems(x)
    BY <2>1 DEF DeskItems, PricedItems, ZeroItems
  <2> QED
    BY <2>1, <2>2, QuietAccounts
<1>7. CASE DeskNext
  BY <1>3, <1>4, <1>5, <1>6, <1>7, WriteKeepsAccounts, RefundUndoKeepsAccounts,
     IssueKeepsAccounts, DeskSteps
<1> QED
  BY <1>2, <1>7 DEF vars, saleVars

LEMMA InitAccounts == DeskInit => SeatAccounts
<1> SUFFICES ASSUME DeskInit, NEW t \in Trips PROVE AccountOK(t)
  BY DEF SeatAccounts
<1>1. \A x \in TicketIds : ticket[x].status = "none"
  BY DEF DeskInit, Init, NoTicket
<1>2. Occupied(t) = {} /\ Leaked(t) = {} /\ Restored(t) = {}
  BY <1>1, DeskNames
  DEF Occupied, Leaked, Restored, ValidStatuses, DeskInit, NoRefund, RefundRequests
<1>3. trip[t].seatsAvailable = Capacity /\ trip[t].capacity = Capacity
  BY DEF DeskInit, Init
<1> QED
  BY <1>2, <1>3, CapacityIsNat, FS_EmptySet DEF AccountOK

LEMMA AccountsHold == DeskSpec => []SeatAccounts
  BY InitAccounts, NextAccounts, DeskInvHolds, SnapshotsHold, PTL DEF DeskSpec

\* The seat counter of a trip nobody edits differs from the tickets that occupy its seats by
\* one seat for each ticket that the desk voided while its card was being charged in vain.
THEOREM SeatsAreAccountedFor == DeskSpec => []SeatLedger
<1>1. SeatAccounts => SeatLedger
  BY DEF SeatAccounts, AccountOK, SeatLedger
<1> QED
  BY <1>1, AccountsHold, PTL

\* A trip nobody edits carries more passengers than it has seats only as far as refunds that
\* Stripe refused put them back, or seats were given back twice.
THEOREM OverbookingHasACause == DeskSpec => []OverbookingIsExplained
<1>1. DeskInv /\ SeatAccounts => OverbookingIsExplained
  <2> SUFFICES ASSUME DeskInv, SeatAccounts, NEW t \in Trips, ~Edited(t)
               PROVE  Cardinality(Occupied(t))
                        <= trip[t].capacity + Cardinality(Restored(t)) + Cardinality(Leaked(t))
    BY DEF OverbookingIsExplained
  <2> QED
    BY AccountCounts DEF SeatAccounts, AccountOK
<1> QED
  BY <1>1, AccountsHold, DeskInvHolds, PTL
===============================================================================
