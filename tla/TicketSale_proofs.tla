-------------------------- MODULE TicketSale_proofs --------------------------
(***************************************************************************)
(* Theorems about TicketSale for every set of trips, users and bookings,   *)
(* every capacity and every choice of faults.                              *)
(***************************************************************************)
EXTENDS TicketSale, FiniteSetTheorems, TLAPS

(***************************************************************************)
(* Facts about requests and the bookkeeping of database transactions.      *)
(***************************************************************************)

\* The number of passengers of a request on a trip is a natural number.
LEMMA LinesCount ==
  ASSUME NEW b, NEW t
  PROVE  IsFiniteSet(Lines(b, t)) /\ Cardinality(Lines(b, t)) \in Nat
<1>1. Lines(b, t) \in SUBSET Items
  BY DEF Lines
<1> QED
  BY <1>1, ItemsFinite, FS_Subset, FS_CardinalityType

\* A request names trips, and its tickets are rows of the sale.
LEMMA RequestedRows ==
  ASSUME order \in [Bookings -> Orders], NEW b \in Bookings
  PROVE  /\ Asked(b) \subseteq Trips
         /\ TicketsOf(b) \subseteq SoldTickets
         /\ Asked(b) \cup TicketsOf(b) \subseteq Trips \cup TicketIds
<1>1. order[b].trips \in [Items -> Trips \cup {NoTrip}]
  BY DEF Orders
<1> QED
  BY <1>1 DEF Asked, TicketsOf, SoldTickets, TicketIds

\* What TypeOK says of the open transactions.
TxOK ==
  /\ open \subseteq Clients
  /\ stale \in [Clients -> SUBSET (Trips \cup TicketIds)]
  /\ \A c \in Clients \ open : stale[c] = {}

\* Opening and ending a transaction keeps the bookkeeping well-formed.
LEMMA TxBookkeeping ==
  ASSUME TxOK, NEW c \in Clients
  PROVE  /\ BeginTx(c) => TxOK'
         /\ \A rows \in SUBSET (Trips \cup TicketIds) : EndTx(c, rows) => TxOK'
  BY DEF TxOK, BeginTx, EndTx

(***************************************************************************)
(* Type correctness.                                                       *)
(***************************************************************************)
LEMMA InitTypeOK == Init => TypeOK
<1> SUFFICES ASSUME Init PROVE TypeOK
  OBVIOUS
<1>1. trip \in [Trips -> [capacity : Nat, seatsAvailable : Int, running : BOOLEAN]]
  BY CapacityIsNat DEF Init
<1>2. ticket \in [TicketIds -> Tickets]
  BY DEF Init, Tickets, NoTicket
<1>3. \A b \in Bookings : b \in open <=> sale[b] \in {"selling", "releasing"}
  BY DEF Init
<1> QED
  BY <1>1, <1>2, <1>3 DEF Init, TypeOK, SaleStates, Errors

LEMMA NextTypeOK == TypeOK /\ [Next]_saleVars => TypeOK'
<1> SUFFICES ASSUME TypeOK, [Next]_saleVars PROVE TypeOK'
  OBVIOUS
<1>a. CASE UNCHANGED saleVars
  BY <1>a DEF TypeOK, saleVars, Lines, Asked
<1>b. ASSUME NEW b \in Bookings, SaleStep(b) PROVE TypeOK'
  <2>1. TxOK /\ b \in Clients /\ SoldTickets \subseteq TicketIds
    BY DEF TypeOK, TxOK, Clients, TicketIds
  <2>2. /\ Asked(b) \in SUBSET (Trips \cup TicketIds)
        /\ Asked(b) \cup TicketsOf(b) \in SUBSET (Trips \cup TicketIds)
        /\ {} \in SUBSET (Trips \cup TicketIds)
    BY RequestedRows DEF TypeOK
  <2>3. SUFFICES
          /\ trip' \in [Trips -> [capacity : Nat, seatsAvailable : Int, running : BOOLEAN]]
          /\ ticket' \in [TicketIds -> Tickets]
          /\ order' = order
          /\ sale' \in [Bookings -> SaleStates]
          /\ committed' \in [Bookings -> BOOLEAN]
          /\ payment' \in [Bookings -> {"none", "empty", "recorded"} \cup Errors]
          /\ charged' \in [Bookings -> BOOLEAN]
          /\ TxOK'
          /\ \A d \in Bookings : d \in open' <=> sale'[d] \in {"selling", "releasing"}
    BY DEF TypeOK, TxOK
  <2>4. CASE SaleBegin(b)
    BY <2>1, <2>4, TxBookkeeping
    DEF SaleBegin, TypeOK, BeginTx, dbVars, SaleStates, Errors
  <2>5. CASE SaleRefuse(b)
    BY <2>1, <2>5 DEF SaleRefuse, TypeOK, TxOK, txVars, dbVars, SaleStates, Errors
  <2>6. CASE SaleCommit(b)
    <3>1. trip' \in [Trips -> [capacity : Nat, seatsAvailable : Int, running : BOOLEAN]]
      <4>1. ASSUME NEW t \in Trips
            PROVE  [trip[t] EXCEPT !.seatsAvailable = @ - Cardinality(Lines(b, t))]
                     \in [capacity : Nat, seatsAvailable : Int, running : BOOLEAN]
        BY LinesCount DEF TypeOK
      <4> QED
        BY <4>1, <2>6 DEF SaleCommit
    <3>2. ticket' \in [TicketIds -> Tickets]
      <4>1. ASSUME NEW x \in TicketsOf(b)
            PROVE  [status |-> SoldStatus, user |-> order[b].user,
                    trip |-> order[b].trips[x[2]]] \in Tickets
        BY RequestedRows
        DEF TypeOK, Orders, TicketsOf, SoldStatus, Tickets, Statuses, ValidStatuses
      <4> QED
        BY <4>1, <2>6 DEF SaleCommit, TypeOK
    <3>3. TxOK'
      BY <2>1, <2>2, <2>6, TxBookkeeping DEF SaleCommit
    <3> QED
      BY <3>1, <3>2, <3>3, <2>6 DEF SaleCommit, TypeOK, EndTx, SaleStates, Errors
  <2>7. CASE SaleConflict(b)
    BY <2>1, <2>2, <2>7, TxBookkeeping DEF SaleConflict, TypeOK, EndTx, dbVars, SaleStates, Errors
  <2>8. CASE ChargeNothing(b) \/ ChargeCard(b) \/ ChargeDeclined(b) \/ ChargeReplyLost(b)
    BY <2>1, <2>8
    DEF ChargeNothing, ChargeCard, ChargeDeclined, ChargeReplyLost, TypeOK, TxOK, txVars,
        dbVars, SaleStates, Errors
  <2>9. CASE RecordCharge(b) \/ RecordChargeFails(b) \/ RecordError(b)
    BY <2>1, <2>9
    DEF RecordCharge, RecordChargeFails, RecordError, TypeOK, TxOK, txVars, dbVars, SaleStates, Errors
  <2>10. CASE UndoBegin(b)
    BY <2>1, <2>10, TxBookkeeping DEF UndoBegin, TypeOK, BeginTx, dbVars, SaleStates, Errors
  <2>11. CASE UndoCommit(b)
    <3>1. trip' \in [Trips -> [capacity : Nat, seatsAvailable : Int, running : BOOLEAN]]
      <4>1. ASSUME NEW t \in Trips
            PROVE  [trip[t] EXCEPT !.seatsAvailable =
                      @ + SeatDelta(SoldStatus, "failed") * Cardinality(Lines(b, t))]
                     \in [capacity : Nat, seatsAvailable : Int, running : BOOLEAN]
        <5>1. SeatDelta(SoldStatus, "failed") = 1
          BY DEF SeatDelta, SoldStatus, ValidStatuses, VoidStatuses
        <5>2. Cardinality(Lines(b, t)) \in Int
          BY LinesCount
        <5> QED
          BY <5>1, <5>2 DEF TypeOK
      <4> QED
        BY <4>1, <2>11 DEF UndoCommit
    <3>2. ticket' \in [TicketIds -> Tickets]
      BY <2>11 DEF UndoCommit, TypeOK, Tickets, Statuses, VoidStatuses
    <3>3. TxOK'
      BY <2>1, <2>2, <2>11, TxBookkeeping DEF UndoCommit
    <3> QED
      BY <3>1, <3>2, <3>3, <2>11 DEF UndoCommit, TypeOK, EndTx, SaleStates, Errors
  <2>12. CASE UndoConflict(b)
    BY <2>1, <2>2, <2>12, TxBookkeeping DEF UndoConflict, TypeOK, EndTx, dbVars, SaleStates, Errors
  <2>13. CASE Crash(b)
    BY <2>1, <2>2, <2>13, TxBookkeeping DEF Crash, TypeOK, EndTx, dbVars, SaleStates, Errors
  <2> QED
    BY <1>b, <2>4, <2>5, <2>6, <2>7, <2>8, <2>9, <2>10, <2>11, <2>12, <2>13
    DEF SaleStep, Handle
<1> QED
  BY <1>a, <1>b DEF Next

\* Every state of the sale is well-typed, and the open database transactions are
\* exactly those of the handlers in a step that holds one.
THEOREM SaleIsWellTyped == Spec => []TypeOK
  BY InitTypeOK, NextTypeOK, PTL DEF Spec

(***************************************************************************)
(* The life of a purchase: what the database and Stripe hold of it in each *)
(* state of its handler. The safety properties below are not inductive by  *)
(* themselves: they say nothing of the states between the transactions.    *)
(***************************************************************************)
HeldStates ==
  {"charging", "charged", "undoing", "releasing", "sold", "stranded"} \cup Errors

CommittedWhileHeld == \A b \in Bookings : committed[b] <=> sale[b] \in HeldStates

PaymentFollowsSale ==
  \A b \in Bookings :
    /\ sale[b] \in {"new", "selling", "refused"} => payment[b] = "none"
    /\ sale[b] \in {"charging", "charged"} \cup Errors => payment[b] = "empty"
    /\ sale[b] \in {"undoing", "releasing", "failed"} => payment[b] \in Errors
    /\ sale[b] = "sold" => payment[b] = "recorded"
    /\ sale[b] \in {"new", "selling", "refused", "charging", "declined"} => ~charged[b]
    /\ sale[b] \in {"charged", "sold", "unrecorded"} => charged[b] = ~order[b].free
    /\ payment[b] = "declined" => ~charged[b]
    /\ payment[b] \in {"recorded", "unrecorded"} => charged[b] = ~order[b].free

LifeInv == TypeOK /\ AllOrNothing /\ CommittedWhileHeld /\ PaymentFollowsSale

\* Tickets belong to one booking.
LEMMA OwnTickets ==
  ASSUME NEW b, NEW x \in TicketsOf(b)
  PROVE  x[1] = b
  BY DEF TicketsOf

LEMMA InitLifeInv == Init => LifeInv
<1> SUFFICES ASSUME Init PROVE LifeInv
  OBVIOUS
<1>1. TypeOK
  BY InitTypeOK
<1>2. AllOrNothing
  <2>1. \A b \in Bookings : TicketsOf(b) \subseteq TicketIds
    BY <1>1, RequestedRows DEF TypeOK, TicketIds
  <2> QED
    BY <2>1 DEF Init, AllOrNothing, NoTicket
<1>3. CommittedWhileHeld /\ PaymentFollowsSale
  BY DEF Init, CommittedWhileHeld, HeldStates, PaymentFollowsSale, Errors
<1> QED
  BY <1>1, <1>2, <1>3 DEF LifeInv

LEMMA StepAllOrNothing ==
  ASSUME LifeInv, NEW b \in Bookings, SaleStep(b)
  PROVE  AllOrNothing'
<1>1. /\ TicketsOf(b) \subseteq TicketIds
      /\ \A d \in Bookings : TicketsOf(d) \subseteq TicketIds
  BY RequestedRows DEF LifeInv, TypeOK, TicketIds
<1>2. /\ order' = order
      /\ \A d \in Bookings : TicketsOf(d)' = TicketsOf(d)
  BY DEF SaleStep, Handle, SaleBegin, SaleRefuse, SaleCommit, SaleConflict, ChargeNothing,
         ChargeCard, ChargeDeclined, ChargeReplyLost, RecordCharge, RecordChargeFails,
         RecordError, UndoBegin, UndoCommit, UndoConflict, Crash, TicketsOf
<1>3. CASE SaleCommit(b)
  <2>1. ASSUME NEW d \in Bookings, NEW x \in TicketsOf(d)
        PROVE  ticket'[x].status = IF committed'[d] THEN "valid"
                                   ELSE IF sale'[d] = "failed" THEN "failed" ELSE "none"
    <3>1. CASE d = b
      BY <3>1, <1>1, <1>3 DEF SaleCommit, SoldStatus, LifeInv, TypeOK
    <3>2. CASE d # b
      <4>1. x \notin TicketsOf(b) /\ x \in TicketIds
        BY <3>2, <1>1, OwnTickets
      <4> QED
        BY <3>2, <4>1, <1>3 DEF SaleCommit, LifeInv, TypeOK, AllOrNothing
    <3> QED
      BY <3>1, <3>2
  <2> QED
    BY <2>1, <1>2 DEF AllOrNothing
<1>4. CASE UndoCommit(b)
  <2>1. ASSUME NEW d \in Bookings, NEW x \in TicketsOf(d)
        PROVE  ticket'[x].status = IF committed'[d] THEN "valid"
                                   ELSE IF sale'[d] = "failed" THEN "failed" ELSE "none"
    <3>1. CASE d = b
      BY <3>1, <1>1, <1>4 DEF UndoCommit, LifeInv, TypeOK, Tickets
    <3>2. CASE d # b
      <4>1. x \notin TicketsOf(b) /\ x \in TicketIds
        BY <3>2, <1>1, OwnTickets
      <4> QED
        BY <3>2, <4>1, <1>4 DEF UndoCommit, LifeInv, TypeOK, AllOrNothing
    <3> QED
      BY <3>1, <3>2
  <2> QED
    BY <2>1, <1>2 DEF AllOrNothing
<1>5. CASE ~SaleCommit(b) /\ ~UndoCommit(b)
  <2>1. /\ ticket' = ticket /\ committed' = committed
        /\ \A d \in Bookings : (sale'[d] = "failed") <=> (sale[d] = "failed")
    BY <1>5
    DEF SaleStep, Handle, SaleBegin, SaleRefuse, SaleConflict, ChargeNothing, ChargeCard,
        ChargeDeclined, ChargeReplyLost, RecordCharge, RecordChargeFails, RecordError,
        UndoBegin, UndoConflict, Crash, dbVars, LifeInv, TypeOK, InFlight, Ended, Errors
  <2> QED
    BY <2>1, <1>2 DEF AllOrNothing, LifeInv
<1> QED
  BY <1>3, <1>4, <1>5

LEMMA StepLife ==
  ASSUME TypeOK, CommittedWhileHeld, PaymentFollowsSale, NEW b \in Bookings, SaleStep(b)
  PROVE  (CommittedWhileHeld /\ PaymentFollowsSale)'
<1> USE DEF TypeOK, CommittedWhileHeld, PaymentFollowsSale, HeldStates, Errors, dbVars
<1>1. CASE SaleBegin(b) \/ SaleRefuse(b) \/ SaleConflict(b)
  BY <1>1 DEF SaleBegin, SaleRefuse, SaleConflict
<1>2. CASE SaleCommit(b)
  BY <1>2 DEF SaleCommit
<1>3. CASE ChargeNothing(b) \/ ChargeCard(b) \/ ChargeDeclined(b)
  <2>1. CASE ChargeNothing(b)
    <3>1. charged[b] = ~order[b].free
      BY <2>1 DEF ChargeNothing
    <3> QED
      BY <2>1, <3>1 DEF ChargeNothing
  <2>2. CASE ChargeCard(b)
    <3>1. charged'[b] = ~order'[b].free
      BY <2>2 DEF ChargeCard
    <3> QED
      BY ZenonT(60), <2>2, <3>1 DEF ChargeCard
  <2>3. CASE ChargeDeclined(b)
    BY <2>3 DEF ChargeDeclined
  <2> QED
    BY <1>3, <2>1, <2>2, <2>3
<1>4. CASE ChargeReplyLost(b)
  BY <1>4 DEF ChargeReplyLost
<1>5. CASE RecordCharge(b) \/ RecordChargeFails(b) \/ RecordError(b)
  BY <1>5 DEF RecordCharge, RecordChargeFails, RecordError
<1>6. CASE UndoBegin(b) \/ UndoConflict(b)
  BY <1>6 DEF UndoBegin, UndoConflict
<1>7. CASE UndoCommit(b)
  BY <1>7 DEF UndoCommit
<1>8. CASE Crash(b)
  BY <1>8 DEF Crash, InFlight, Ended, SaleStates, Errors
<1> QED
  BY <1>1, <1>2, <1>3, <1>4, <1>5, <1>6, <1>7, <1>8 DEF SaleStep, Handle

LEMMA NextLifeInv == LifeInv /\ [Next]_saleVars => LifeInv'
<1> SUFFICES ASSUME LifeInv, [Next]_saleVars PROVE LifeInv'
  OBVIOUS
<1>1. TypeOK'
  BY NextTypeOK DEF LifeInv
<1>2. CASE UNCHANGED saleVars
  BY <1>1, <1>2
  DEF saleVars, LifeInv, AllOrNothing, TicketsOf, CommittedWhileHeld, PaymentFollowsSale
<1>3. CASE Next
  BY <1>1, <1>3, StepAllOrNothing, StepLife DEF Next, LifeInv
<1> QED
  BY <1>2, <1>3

LEMMA LifeInvHolds == Spec => []LifeInv
  BY InitLifeInv, NextLifeInv, PTL DEF Spec

\* The tickets of a purchase are sold together, undone together, and agree with the
\* transaction row that accounts for them, in every reachable state.
THEOREM PurchasesAreAtomic == Spec => []AllOrNothing
<1>1. LifeInv => AllOrNothing
  BY DEF LifeInv
<1> QED
  BY <1>1, LifeInvHolds, PTL

\* Under every interleaving and fault, the rows of a purchase tell where its money is: the
\* error is stored before the undo begins, and no later step of the sale touches it.
THEOREM MoneyIsAlwaysTraced == Spec => []MoneyIsTraced
<1>1. LifeInv => MoneyIsTraced
  <2> SUFFICES ASSUME LifeInv, NEW b \in Bookings
               PROVE  /\ charged[b] => committed[b] \/ payment[b] \in {"unanswered", "unrecorded"}
                      /\ payment[b] = "declined" => ~charged[b]
                      /\ payment[b] \in {"recorded", "unrecorded"} => charged[b] \/ order[b].free
                      /\ committed[b] /\ sale[b] \in Ended \ {"stranded"}
                           => payment[b] = "recorded"
    BY DEF MoneyIsTraced
  <2>1. sale[b] \in SaleStates
    BY DEF LifeInv, TypeOK
  <2>2. CASE committed[b]
    BY <2>2 DEF LifeInv, CommittedWhileHeld, HeldStates, PaymentFollowsSale, Ended, Errors
  <2>3. CASE ~committed[b]
    BY <2>1, <2>3
    DEF LifeInv, CommittedWhileHeld, HeldStates, PaymentFollowsSale, Ended, Errors, SaleStates
  <2> QED
    BY <2>2, <2>3
<1> QED
  BY <1>1, LifeInvHolds, PTL

(***************************************************************************)
(* Seats.                                                                  *)
(***************************************************************************)

\* Adding fresh elements to a finite set, and removing elements from it, count exactly.
LEMMA CountAdded ==
  ASSUME NEW S, NEW T, IsFiniteSet(S), IsFiniteSet(T), S \cap T = {}
  PROVE  IsFiniteSet(S \cup T) /\ Cardinality(S \cup T) = Cardinality(S) + Cardinality(T)
<1>1. Cardinality(S \cap T) = 0
  BY FS_EmptySet
<1>2. Cardinality(S) \in Nat /\ Cardinality(T) \in Nat
  BY FS_CardinalityType
<1>3. /\ IsFiniteSet(S \cup T)
      /\ Cardinality(S \cup T) = Cardinality(S) + Cardinality(T) - Cardinality(S \cap T)
  BY FS_Union
<1> QED
  BY <1>1, <1>2, <1>3

LEMMA CountRemoved ==
  ASSUME NEW S, NEW T, IsFiniteSet(S), T \subseteq S
  PROVE  IsFiniteSet(S \ T) /\ Cardinality(S \ T) = Cardinality(S) - Cardinality(T)
<1>1. S \cap T = T
  OBVIOUS
<1>2. IsFiniteSet(S \ T) /\ Cardinality(S \ T) = Cardinality(S) - Cardinality(S \cap T)
  BY FS_Difference
<1> QED
  BY <1>1, <1>2

\* The tickets of booking b on trip t, in bijection with its passengers on the trip.
Mine(b, t) == {<<b, i>> : i \in Lines(b, t)}

LEMMA MineCount ==
  ASSUME NEW b, NEW t
  PROVE  IsFiniteSet(Mine(b, t)) /\ Cardinality(Mine(b, t)) = Cardinality(Lines(b, t))
<1> DEFINE f == [i \in Lines(b, t) |-> <<b, i>>]
<1>1. f \in Bijection(Lines(b, t), Mine(b, t))
  BY DEF Bijection, Injection, Surjection, IsInjective, Mine
<1>2. ExistsBijection(Lines(b, t), Mine(b, t))
  BY <1>1 DEF ExistsBijection
<1> QED
  BY <1>2, LinesCount, FS_Bijection

\* Tickets of b on a trip are among the tickets it asks for.
LEMMA MineIsAsked ==
  ASSUME order \in [Bookings -> Orders], NEW b \in Bookings, NEW t \in Trips
  PROVE  /\ Mine(b, t) = {x \in TicketsOf(b) : order[b].trips[x[2]] = t}
         /\ Mine(b, t) \subseteq TicketIds
         /\ t \notin Asked(b) => Lines(b, t) = {}
<1>1. t # NoTrip
  BY NoTripIsNoTrip
<1> QED
  BY <1>1 DEF Mine, Lines, TicketsOf, Asked, TicketIds, SoldTickets

\* The row of a ticket that occupies a seat names the user and the trip of its request.
RowsFollowOrders ==
  \A b \in Bookings : \A x \in TicketsOf(b) :
    ticket[x].status # "none" =>
      ticket[x].user = order[b].user /\ ticket[x].trip = order[b].trips[x[2]]

SeatsFinite == \A t \in Trips : IsFiniteSet(Occupied(t))

\* The steps that move no seat.
Quiet == trip' = trip /\ ticket' = ticket /\ order' = order

LEMMA QuietSteps ==
  ASSUME NEW b \in Bookings, SaleStep(b), ~SaleCommit(b), ~UndoCommit(b)
  PROVE  Quiet
BY DEF Quiet, SaleStep, Handle, SaleBegin, SaleRefuse, SaleConflict, ChargeNothing,
       ChargeCard, ChargeDeclined, ChargeReplyLost, RecordCharge, RecordChargeFails,
       RecordError, UndoBegin, UndoConflict, Crash, dbVars

\* What a committed sale does to the seats of a trip.
LEMMA CommitTakesSeats ==
  ASSUME TypeOK, NEW b \in Bookings, SaleCommit(b), NEW t \in Trips,
         \A x \in TicketsOf(b) : ticket[x].status = "none"
  PROVE  /\ Occupied(t)' = Occupied(t) \cup Mine(b, t)
         /\ Occupied(t) \cap Mine(b, t) = {}
         /\ trip'[t] = [trip[t] EXCEPT !.seatsAvailable = @ - Cardinality(Lines(b, t))]
<1>1. /\ Mine(b, t) = {x \in TicketsOf(b) : order[b].trips[x[2]] = t}
      /\ TicketsOf(b) \subseteq TicketIds
  BY MineIsAsked, RequestedRows DEF TypeOK, TicketIds
<1>2. \A x \in TicketsOf(b) : ticket[x].status = "none"
  OBVIOUS
<1>3. /\ \A x \in TicketsOf(b) :
           ticket'[x].status = "valid" /\ ticket'[x].trip = order[b].trips[x[2]]
      /\ \A x \in TicketIds \ TicketsOf(b) : ticket'[x] = ticket[x]
  BY <1>1 DEF SaleCommit, SoldStatus
<1>4. trip'[t] = [trip[t] EXCEPT !.seatsAvailable = @ - Cardinality(Lines(b, t))]
  BY DEF SaleCommit
<1>5. Occupied(t) \cap Mine(b, t) = {}
  BY <1>1, <1>2 DEF Occupied, ValidStatuses
<1>6. ASSUME NEW x \in TicketIds
      PROVE  x \in Occupied(t)' <=> x \in Occupied(t) \cup Mine(b, t)
  <2>1. CASE x \in TicketsOf(b)
    <3>1. ticket'[x].status = "valid" /\ ticket'[x].trip = order[b].trips[x[2]]
      BY <2>1, <1>3
    <3>2. x \in Occupied(t)' <=> order[b].trips[x[2]] = t
      BY <3>1 DEF Occupied, ValidStatuses
    <3>3. x \notin Occupied(t)
      BY <2>1, <1>2 DEF Occupied, ValidStatuses
    <3> QED
      BY <2>1, <1>1, <3>2, <3>3
  <2>2. CASE x \notin TicketsOf(b)
    BY <2>2, <1>1, <1>3 DEF Occupied
  <2> QED
    BY <2>1, <2>2
<1>7. Occupied(t)' \subseteq TicketIds /\ Occupied(t) \cup Mine(b, t) \subseteq TicketIds
  BY <1>1 DEF Occupied
<1> QED
  BY <1>4, <1>5, <1>6, <1>7

LEMMA CommitMovesSeats ==
  ASSUME LifeInv, NEW b \in Bookings, SaleCommit(b), NEW t \in Trips
  PROVE  /\ Occupied(t)' = Occupied(t) \cup Mine(b, t)
         /\ Occupied(t) \cap Mine(b, t) = {}
         /\ trip'[t] = [trip[t] EXCEPT !.seatsAvailable = @ - Cardinality(Lines(b, t))]
<1>1. \A x \in TicketsOf(b) : ticket[x].status = "none"
  BY DEF LifeInv, AllOrNothing, CommittedWhileHeld, HeldStates, Errors, SaleCommit
<1> QED
  BY <1>1, CommitTakesSeats DEF LifeInv

\* What an undone sale does to the seats of a trip.
LEMMA UndoMovesSeats ==
  ASSUME LifeInv, RowsFollowOrders, NEW b \in Bookings, UndoCommit(b), NEW t \in Trips
  PROVE  /\ Occupied(t)' = Occupied(t) \ Mine(b, t)
         /\ Mine(b, t) \subseteq Occupied(t)
         /\ trip'[t] = [trip[t] EXCEPT !.seatsAvailable = @ + Cardinality(Lines(b, t))]
<1>1. /\ Mine(b, t) = {x \in TicketsOf(b) : order[b].trips[x[2]] = t}
      /\ TicketsOf(b) \subseteq TicketIds
  BY MineIsAsked, RequestedRows DEF LifeInv, TypeOK, TicketIds
<1>2. \A x \in TicketsOf(b) : ticket[x].status = "valid"
  BY DEF LifeInv, AllOrNothing, CommittedWhileHeld, HeldStates, Errors, UndoCommit
<1>3. \A x \in TicketIds :
        ticket'[x] = IF x \in TicketsOf(b) THEN [ticket[x] EXCEPT !.status = "failed"]
                     ELSE ticket[x]
  BY DEF UndoCommit
<1>4. Mine(b, t) \subseteq Occupied(t)
  BY <1>1, <1>2 DEF RowsFollowOrders, Occupied, ValidStatuses
<1>5. \A x \in TicketsOf(b) : ticket[x].trip = order[b].trips[x[2]]
  BY <1>2 DEF RowsFollowOrders
<1>6. ASSUME NEW x \in TicketIds
      PROVE  x \in Occupied(t)' <=> x \in Occupied(t) \ Mine(b, t)
  <2>1. CASE x \in TicketsOf(b)
    <3>1. ticket'[x].status = "failed"
      BY ZenonT(60), <2>1, <1>3 DEF LifeInv, TypeOK, Tickets
    <3>2. x \in Occupied(t) => x \in Mine(b, t)
      BY <2>1, <1>1, <1>5 DEF Occupied
    <3> QED
      BY <3>1, <3>2 DEF Occupied, ValidStatuses
  <2>2. CASE x \notin TicketsOf(b)
    BY <2>2, <1>1, <1>3 DEF Occupied
  <2> QED
    BY <2>1, <2>2
<1>7. Occupied(t)' \subseteq TicketIds /\ Occupied(t) \ Mine(b, t) \subseteq TicketIds
  BY DEF Occupied
<1>8. trip'[t] = [trip[t] EXCEPT !.seatsAvailable = @ + Cardinality(Lines(b, t))]
  <2>1. SeatDelta(SoldStatus, "failed") = 1
    BY DEF SeatDelta, SoldStatus, ValidStatuses, VoidStatuses
  <2>2. Cardinality(Lines(b, t)) \in Nat
    BY LinesCount
  <2>3. SeatDelta(SoldStatus, "failed") * Cardinality(Lines(b, t)) = Cardinality(Lines(b, t))
    BY <2>1, <2>2
  <2> QED
    BY <2>3 DEF UndoCommit
<1> QED
  BY <1>4, <1>6, <1>7, <1>8

(***************************************************************************)
(* The counter agrees with the tickets.                                    *)
(***************************************************************************)
SeatInv ==
  LifeInv /\ RowsFollowOrders /\ SeatsFinite /\ SeatsMatchTickets

LEMMA InitSeatInv == Init => SeatInv
<1> SUFFICES ASSUME Init PROVE SeatInv
  OBVIOUS
<1>1. LifeInv
  BY InitLifeInv
<1>2. \A x \in TicketIds : ticket[x].status = "none"
  BY DEF Init, NoTicket
<1>3. \A b \in Bookings : TicketsOf(b) \subseteq TicketIds
  BY <1>1, RequestedRows DEF LifeInv, TypeOK, TicketIds
<1>4. \A t \in Trips : Occupied(t) = {}
  BY <1>2 DEF Occupied, ValidStatuses
<1>5. ASSUME NEW t \in Trips
      PROVE  /\ IsFiniteSet(Occupied(t))
             /\ trip[t].seatsAvailable = trip[t].capacity - Cardinality(Occupied(t))
  <2>1. IsFiniteSet(Occupied(t)) /\ Cardinality(Occupied(t)) = 0
    BY <1>4, FS_EmptySet
  <2>2. trip[t].seatsAvailable = trip[t].capacity /\ trip[t].capacity \in Int
    BY CapacityIsNat DEF Init
  <2> QED
    BY <2>1, <2>2
<1> QED
  BY <1>1, <1>2, <1>3, <1>5 DEF SeatInv, RowsFollowOrders, SeatsFinite, SeatsMatchTickets

LEMMA StepRowsFollowOrders ==
  ASSUME LifeInv, RowsFollowOrders, NEW b \in Bookings, SaleStep(b)
  PROVE  RowsFollowOrders'
<1>1. \A d \in Bookings : TicketsOf(d) \subseteq TicketIds
  BY RequestedRows DEF LifeInv, TypeOK, TicketIds
<1>2. CASE SaleCommit(b)
  <2>1. order' = order /\ \A d \in Bookings : TicketsOf(d)' = TicketsOf(d)
    BY <1>2 DEF SaleCommit, TicketsOf
  <2>2. ASSUME NEW d \in Bookings, NEW x \in TicketsOf(d), ticket'[x].status # "none"
        PROVE  ticket'[x].user = order[d].user /\ ticket'[x].trip = order[d].trips[x[2]]
    <3>1. CASE d = b
      BY <3>1, <1>1, <1>2 DEF SaleCommit
    <3>2. CASE d # b
      <4>1. x \notin TicketsOf(b)
        BY <3>2, OwnTickets
      <4>2. ticket'[x] = ticket[x]
        BY <4>1, <1>1, <1>2 DEF SaleCommit
      <4> QED
        BY <4>2, <2>2 DEF RowsFollowOrders
    <3> QED
      BY <3>1, <3>2
  <2> QED
    BY <2>1, <2>2 DEF RowsFollowOrders
<1>3. CASE UndoCommit(b)
  <2>1. order' = order /\ \A d \in Bookings : TicketsOf(d)' = TicketsOf(d)
    BY <1>3 DEF UndoCommit, TicketsOf
  <2>2. ASSUME NEW d \in Bookings, NEW x \in TicketsOf(d), ticket'[x].status # "none"
        PROVE  ticket'[x].user = order[d].user /\ ticket'[x].trip = order[d].trips[x[2]]
    <3>1. CASE x \in TicketsOf(b)
      <4>1. ticket[x].status = "valid"
        BY <3>1, <1>3
        DEF UndoCommit, LifeInv, AllOrNothing, CommittedWhileHeld, HeldStates, Errors
      <4>2. ticket'[x].user = ticket[x].user /\ ticket'[x].trip = ticket[x].trip
        BY <3>1, <1>1, <1>3 DEF UndoCommit, LifeInv, TypeOK, Tickets
      <4> QED
        BY <4>1, <4>2 DEF RowsFollowOrders
    <3>2. CASE x \notin TicketsOf(b)
      <4>1. ticket'[x] = ticket[x]
        BY <3>2, <1>1, <1>3 DEF UndoCommit
      <4> QED
        BY <4>1, <2>2 DEF RowsFollowOrders
    <3> QED
      BY <3>1, <3>2
  <2> QED
    BY <2>1, <2>2 DEF RowsFollowOrders
<1>4. CASE ~SaleCommit(b) /\ ~UndoCommit(b)
  BY <1>4, QuietSteps DEF Quiet, RowsFollowOrders, TicketsOf
<1> QED
  BY <1>2, <1>3, <1>4

LEMMA StepSeats ==
  ASSUME SeatInv, NEW b \in Bookings, SaleStep(b), NEW t \in Trips
  PROVE  /\ IsFiniteSet(Occupied(t)')
         /\ trip'[t].seatsAvailable = trip'[t].capacity - Cardinality(Occupied(t)')
<1>1. /\ IsFiniteSet(Occupied(t))
      /\ Cardinality(Occupied(t)) \in Nat
      /\ trip[t].seatsAvailable = trip[t].capacity - Cardinality(Occupied(t))
  BY FS_CardinalityType DEF SeatInv, SeatsFinite, SeatsMatchTickets
<1>2. trip[t] \in [capacity : Nat, seatsAvailable : Int, running : BOOLEAN]
  BY DEF SeatInv, LifeInv, TypeOK
<1>3. /\ IsFiniteSet(Mine(b, t))
      /\ Cardinality(Mine(b, t)) = Cardinality(Lines(b, t))
      /\ Cardinality(Lines(b, t)) \in Nat
  BY MineCount, LinesCount
<1>4. CASE SaleCommit(b)
  <2>1. /\ Occupied(t)' = Occupied(t) \cup Mine(b, t)
        /\ Occupied(t) \cap Mine(b, t) = {}
        /\ trip'[t] = [trip[t] EXCEPT !.seatsAvailable = @ - Cardinality(Lines(b, t))]
    BY <1>4, CommitMovesSeats DEF SeatInv
  <2>2. /\ IsFiniteSet(Occupied(t)')
        /\ Cardinality(Occupied(t)') = Cardinality(Occupied(t)) + Cardinality(Lines(b, t))
    BY <2>1, <1>1, <1>3, CountAdded
  <2>3. /\ trip'[t].seatsAvailable = trip[t].seatsAvailable - Cardinality(Lines(b, t))
        /\ trip'[t].capacity = trip[t].capacity
    BY <2>1, <1>2
  <2> QED
    BY <2>2, <2>3, <1>1, <1>2, <1>3
<1>5. CASE UndoCommit(b)
  <2>1. /\ Occupied(t)' = Occupied(t) \ Mine(b, t)
        /\ Mine(b, t) \subseteq Occupied(t)
        /\ trip'[t] = [trip[t] EXCEPT !.seatsAvailable = @ + Cardinality(Lines(b, t))]
    BY <1>5, UndoMovesSeats DEF SeatInv
  <2>3. /\ IsFiniteSet(Occupied(t)')
        /\ Cardinality(Occupied(t)') = Cardinality(Occupied(t)) - Cardinality(Lines(b, t))
    BY <2>1, <1>1, <1>3, CountRemoved
  <2>4. /\ trip'[t].seatsAvailable = trip[t].seatsAvailable + Cardinality(Lines(b, t))
        /\ trip'[t].capacity = trip[t].capacity
    BY <2>1, <1>2
  <2> QED
    BY <2>3, <2>4, <1>1, <1>2, <1>3
<1>6. CASE ~SaleCommit(b) /\ ~UndoCommit(b)
  <2>1. Quiet
    BY <1>6, QuietSteps
  <2>2. Occupied(t)' = Occupied(t) /\ trip'[t] = trip[t]
    BY <2>1 DEF Quiet, Occupied
  <2> QED
    BY <2>2, <1>1
<1> QED
  BY <1>4, <1>5, <1>6

LEMMA NextSeatInv == SeatInv /\ [Next]_saleVars => SeatInv'
<1> SUFFICES ASSUME SeatInv, [Next]_saleVars PROVE SeatInv'
  OBVIOUS
<1>1. LifeInv'
  BY NextLifeInv DEF SeatInv
<1>2. CASE UNCHANGED saleVars
  BY <1>1, <1>2
  DEF saleVars, SeatInv, RowsFollowOrders, TicketsOf, SeatsFinite, SeatsMatchTickets, Occupied
<1>3. ASSUME NEW b \in Bookings, SaleStep(b) PROVE SeatInv'
  <2>1. RowsFollowOrders'
    BY <1>3, StepRowsFollowOrders DEF SeatInv
  <2>2. SeatsFinite' /\ SeatsMatchTickets'
    BY <1>3, StepSeats DEF SeatsFinite, SeatsMatchTickets
  <2> QED
    BY <1>1, <2>1, <2>2 DEF SeatInv
<1> QED
  BY <1>2, <1>3 DEF Next

LEMMA SeatInvHolds == Spec => []SeatInv
  BY InitSeatInv, NextSeatInv, PTL DEF Spec

\* The seat counter of every trip agrees with its tickets in every reachable state,
\* whatever conflicts, declines, lost answers and crashes happen.
THEOREM CountersMatchTickets == Spec => []SeatsMatchTickets
<1>1. SeatInv => SeatsMatchTickets
  BY DEF SeatInv
<1> QED
  BY <1>1, SeatInvHolds, PTL

(***************************************************************************)
(* Isolation. A trip that is not stale in the transaction of a sale still  *)
(* is as the order checks saw it: this is what first-updater-wins buys.    *)
(***************************************************************************)
StillAvailable ==
  \A b \in Bookings : sale[b] = "selling" =>
    \A t \in Asked(b) \ stale[b] : trip[t].seatsAvailable - Cardinality(Lines(b, t)) >= 0

StillUnique ==
  \A b \in Bookings : sale[b] = "selling" =>
    \A t \in Asked(b) \ stale[b] : \A x \in Occupied(t) : ticket[x].user # order[b].user

NoTripOverdrawn == \A t \in Trips : trip[t].seatsAvailable >= 0

SnapshotInv ==
  SeatInv /\ StillAvailable /\ StillUnique /\ NoTripOverdrawn /\ OnePurchasePerTrip

\* A ticket that exists stays with its user and its trip.
LEMMA UsersKept ==
  ASSUME SeatInv, NEW b \in Bookings, SaleStep(b),
         NEW x \in TicketIds, ticket[x].status # "none"
  PROVE  ticket'[x].user = ticket[x].user /\ ticket'[x].trip = ticket[x].trip
<1>1. CASE SaleCommit(b)
  <2>1. x \notin TicketsOf(b)
    BY <1>1
    DEF SaleCommit, SeatInv, LifeInv, AllOrNothing, CommittedWhileHeld, HeldStates, Errors
  <2> QED
    BY <1>1, <2>1 DEF SaleCommit
<1>2. CASE UndoCommit(b)
  BY <1>2 DEF UndoCommit, SeatInv, LifeInv, TypeOK, Tickets
<1>3. CASE ~SaleCommit(b) /\ ~UndoCommit(b)
  BY <1>3, QuietSteps DEF Quiet
<1> QED
  BY <1>1, <1>2, <1>3

\* A step of b leaves the trips that b does not ask for as they are.
LEMMA OtherTripsKept ==
  ASSUME SeatInv, NEW b \in Bookings, SaleStep(b), NEW t \in Trips,
         SaleCommit(b) \/ UndoCommit(b) => t \notin Asked(b)
  PROVE  trip'[t].seatsAvailable = trip[t].seatsAvailable /\ Occupied(t)' = Occupied(t)
<1>1. trip[t] \in [capacity : Nat, seatsAvailable : Int, running : BOOLEAN]
  BY DEF SeatInv, LifeInv, TypeOK
<1>2. CASE SaleCommit(b) \/ UndoCommit(b)
  <2>1. Mine(b, t) = {} /\ Cardinality(Lines(b, t)) = 0
    <3>1. Lines(b, t) = {}
      BY <1>2, MineIsAsked DEF SeatInv, LifeInv, TypeOK
    <3> QED
      BY <3>1, FS_EmptySet DEF Mine
  <2>2. CASE SaleCommit(b)
    <3>1. /\ Occupied(t)' = Occupied(t) \cup Mine(b, t)
          /\ trip'[t] = [trip[t] EXCEPT !.seatsAvailable = @ - Cardinality(Lines(b, t))]
      BY <2>2, CommitMovesSeats DEF SeatInv
    <3>2. trip'[t].seatsAvailable = trip[t].seatsAvailable - Cardinality(Lines(b, t))
      BY <3>1, <1>1
    <3> QED
      BY <3>1, <3>2, <2>1, <1>1
  <2>3. CASE UndoCommit(b)
    <3>1. /\ Occupied(t)' = Occupied(t) \ Mine(b, t)
          /\ trip'[t] = [trip[t] EXCEPT !.seatsAvailable = @ + Cardinality(Lines(b, t))]
      BY <2>3, UndoMovesSeats DEF SeatInv
    <3>2. trip'[t].seatsAvailable = trip[t].seatsAvailable + Cardinality(Lines(b, t))
      BY <3>1, <1>1
    <3> QED
      BY <3>1, <3>2, <2>1, <1>1
  <2> QED
    BY <1>2, <2>2, <2>3
<1>3. CASE ~SaleCommit(b) /\ ~UndoCommit(b)
  BY <1>3, QuietSteps DEF Quiet, Occupied
<1> QED
  BY <1>2, <1>3

\* A trip that is not stale for d after a step was not stale before, and did not change.
LEMMA FreshTripsKept ==
  ASSUME SeatInv, NEW b \in Bookings, SaleStep(b), ~SaleBegin(b),
         NEW d \in Bookings, sale'[d] = "selling", NEW t \in Asked(d) \ stale'[d]
  PROVE  /\ sale[d] = "selling"
         /\ t \in Asked(d) \ stale[d]
         /\ trip'[t].seatsAvailable = trip[t].seatsAvailable
         /\ Occupied(t)' = Occupied(t)
         /\ \A x \in Occupied(t) : ticket'[x].user = ticket[x].user
<1>1. TypeOK /\ t \in Trips /\ d \in Clients
  BY RequestedRows DEF SeatInv, LifeInv, TypeOK, Clients
<1>2. sale[d] = "selling" /\ d # b
  BY <1>1
  DEF TypeOK, SaleStep, Handle, SaleBegin, SaleRefuse, SaleCommit, SaleConflict,
      ChargeNothing, ChargeCard, ChargeDeclined, ChargeReplyLost, RecordCharge,
      RecordChargeFails, RecordError, UndoBegin, UndoCommit, UndoConflict, Crash
<1>3. d \in open
  BY <1>1, <1>2 DEF TypeOK
<1>4. CASE SaleCommit(b) \/ UndoCommit(b)
  <2>1. EndTx(b, Asked(b)) \/ EndTx(b, Asked(b) \cup TicketsOf(b))
    BY <1>4 DEF SaleCommit, UndoCommit
  <2>2. stale[d] \cup Asked(b) \subseteq stale'[d]
    BY <1>1, <1>2, <1>3, <2>1 DEF EndTx
  <2>3. t \notin Asked(b) /\ t \in Asked(d) \ stale[d]
    BY <2>2
  <2>4. trip'[t].seatsAvailable = trip[t].seatsAvailable /\ Occupied(t)' = Occupied(t)
    BY <1>1, <2>3, OtherTripsKept
  <2> QED
    BY <1>2, <2>3, <2>4, UsersKept DEF Occupied, ValidStatuses
<1>5. CASE ~SaleCommit(b) /\ ~UndoCommit(b)
  <2>1. stale[d] \subseteq stale'[d]
    BY <1>1, <1>2, <1>3, <1>5
    DEF SaleStep, Handle, SaleRefuse, SaleConflict, ChargeNothing, ChargeCard,
        ChargeDeclined, ChargeReplyLost, RecordCharge, RecordChargeFails, RecordError,
        UndoBegin, UndoConflict, Crash, BeginTx, EndTx, txVars
  <2> QED
    BY <1>1, <1>2, <1>5, <2>1, OtherTripsKept, UsersKept DEF Occupied, ValidStatuses
<1> QED
  BY <1>4, <1>5

LEMMA InitSnapshotInv == Init => SnapshotInv
<1> SUFFICES ASSUME Init PROVE SnapshotInv
  OBVIOUS
<1>1. SeatInv
  BY InitSeatInv
<1>2. StillAvailable /\ StillUnique
  BY DEF Init, StillAvailable, StillUnique
<1>3. NoTripOverdrawn
  BY CapacityIsNat DEF Init, NoTripOverdrawn
<1>4. OnePurchasePerTrip
  BY DEF Init, OnePurchasePerTrip, NoTicket, ValidStatuses, TicketIds
<1> QED
  BY <1>1, <1>2, <1>3, <1>4 DEF SnapshotInv

LEMMA StepSnapshots ==
  ASSUME SnapshotInv, NEW b \in Bookings, SaleStep(b)
  PROVE  StillAvailable' /\ StillUnique'
<1>1. order' = order
  BY DEF SaleStep, Handle, SaleBegin, SaleRefuse, SaleCommit, SaleConflict, ChargeNothing,
         ChargeCard, ChargeDeclined, ChargeReplyLost, RecordCharge, RecordChargeFails,
         RecordError, UndoBegin, UndoCommit, UndoConflict, Crash
<1>2. \A d \in Bookings : Asked(d)' = Asked(d) /\ \A t : Lines(d, t)' = Lines(d, t)
  BY <1>1 DEF Asked, Lines
<1>3. ASSUME NEW d \in Bookings, sale'[d] = "selling", NEW t \in Asked(d) \ stale'[d]
      PROVE  /\ trip'[t].seatsAvailable - Cardinality(Lines(d, t)) >= 0
             /\ \A x \in Occupied(t)' : ticket'[x].user # order[d].user
  <2>1. CASE SaleBegin(b) /\ d = b
    BY <2>1, <1>3 DEF SaleBegin, Acceptable, Available, NoDuplicates, dbVars, Occupied
  <2>2. CASE SaleBegin(b) /\ d # b
    <3>1. /\ sale[d] = "selling" /\ t \in Asked(d) \ stale[d]
          /\ trip' = trip /\ ticket' = ticket /\ Occupied(t)' = Occupied(t)
      BY <2>2, <1>3
      DEF SaleBegin, BeginTx, dbVars, Occupied, SnapshotInv, SeatInv, LifeInv, TypeOK
    <3> QED
      BY <3>1 DEF SnapshotInv, StillAvailable, StillUnique
  <2>3. CASE ~SaleBegin(b)
    <3>1. /\ sale[d] = "selling" /\ t \in Asked(d) \ stale[d]
          /\ trip'[t].seatsAvailable = trip[t].seatsAvailable
          /\ Occupied(t)' = Occupied(t)
          /\ \A x \in Occupied(t) : ticket'[x].user = ticket[x].user
      BY <2>3, <1>3, FreshTripsKept DEF SnapshotInv
    <3> QED
      BY <3>1 DEF SnapshotInv, StillAvailable, StillUnique
  <2> QED
    BY <2>1, <2>2, <2>3
<1>4. ASSUME NEW d \in Bookings, sale'[d] = "selling", NEW t \in Asked(d) \ stale'[d]
      PROVE  trip'[t].seatsAvailable - Cardinality(Lines(d, t)') >= 0
  BY <1>2, <1>3, <1>4
<1> QED
  BY <1>1, <1>2, <1>3, <1>4 DEF StillAvailable, StillUnique

LEMMA StepNotOverdrawn ==
  ASSUME SnapshotInv, NEW b \in Bookings, SaleStep(b), NEW t \in Trips
  PROVE  trip'[t].seatsAvailable >= 0
<1>1. /\ trip[t].seatsAvailable >= 0
      /\ trip[t] \in [capacity : Nat, seatsAvailable : Int, running : BOOLEAN]
      /\ Cardinality(Lines(b, t)) \in Nat
  BY LinesCount DEF SnapshotInv, NoTripOverdrawn, SeatInv, LifeInv, TypeOK
<1>2. CASE SaleCommit(b) /\ t \in Asked(b)
  <2>1. t \notin stale[b] /\ sale[b] = "selling"
    BY <1>2 DEF SaleCommit, Conflict
  <2>2. trip[t].seatsAvailable - Cardinality(Lines(b, t)) >= 0
    BY <1>2, <2>1 DEF SnapshotInv, StillAvailable
  <2>3. trip'[t] = [trip[t] EXCEPT !.seatsAvailable = @ - Cardinality(Lines(b, t))]
    BY <1>2, CommitMovesSeats DEF SnapshotInv, SeatInv
  <2>4. trip'[t].seatsAvailable = trip[t].seatsAvailable - Cardinality(Lines(b, t))
    BY <2>3, <1>1
  <2> QED
    BY <2>2, <2>4
<1>3. CASE UndoCommit(b) /\ t \in Asked(b)
  <2>1. trip'[t] = [trip[t] EXCEPT !.seatsAvailable = @ + Cardinality(Lines(b, t))]
    BY <1>3, UndoMovesSeats DEF SnapshotInv, SeatInv
  <2>2. trip'[t].seatsAvailable = trip[t].seatsAvailable + Cardinality(Lines(b, t))
    BY <2>1, <1>1
  <2> QED
    BY <2>2, <1>1
<1>4. CASE SaleCommit(b) \/ UndoCommit(b) => t \notin Asked(b)
  <2>1. trip'[t].seatsAvailable = trip[t].seatsAvailable
    BY <1>4, OtherTripsKept DEF SnapshotInv
  <2> QED
    BY <2>1, <1>1
<1> QED
  BY <1>2, <1>3, <1>4

LEMMA StepOnePurchase ==
  ASSUME SnapshotInv, NEW b \in Bookings, SaleStep(b)
  PROVE  OnePurchasePerTrip'
<1>1. TicketsOf(b) \subseteq SoldTickets /\ SoldTickets \subseteq TicketIds
  BY RequestedRows DEF SnapshotInv, SeatInv, LifeInv, TypeOK, TicketIds
<1>2. CASE SaleCommit(b)
  <2>1. ASSUME NEW x \in TicketsOf(b), NEW y \in SoldTickets \ TicketsOf(b),
               ticket'[y].status \in ValidStatuses,
               ticket'[x].trip = ticket'[y].trip
        PROVE  ticket'[x].user # ticket'[y].user
    <3>1. /\ ticket'[x].user = order[b].user /\ ticket'[x].trip = order[b].trips[x[2]]
          /\ ticket'[y] = ticket[y]
      BY <1>1, <1>2 DEF SaleCommit
    <3>2. ticket'[x].trip \in Asked(b) /\ ticket'[x].trip \notin stale[b]
      <4>1. \E i \in Items : x = <<b, i>> /\ order[b].trips[i] # NoTrip
        BY DEF TicketsOf
      <4>2. x[2] \in Items /\ order[b].trips[x[2]] # NoTrip
        BY <4>1
      <4>3. ticket'[x].trip \in Asked(b)
        BY <3>1, <4>2 DEF Asked
      <4>4. Asked(b) \cap stale[b] = {}
        BY <1>2 DEF SaleCommit, Conflict
      <4> QED
        BY <4>3, <4>4
    <3>3. y \in Occupied(ticket'[x].trip)
      BY <1>1, <2>1, <3>1 DEF Occupied
    <3> QED
      BY <1>2, <3>1, <3>2, <3>3 DEF SnapshotInv, StillUnique, SaleCommit
  <2>2. ASSUME NEW x \in SoldTickets, NEW y \in SoldTickets,
               ticket'[x].status \in ValidStatuses, ticket'[y].status \in ValidStatuses,
               ticket'[x].trip = ticket'[y].trip, ticket'[x].user = ticket'[y].user
        PROVE  x[1] = y[1]
    <3>1. CASE x \in TicketsOf(b) /\ y \in TicketsOf(b)
      BY <3>1, OwnTickets
    <3>2. CASE x \in TicketsOf(b) /\ y \notin TicketsOf(b)
      BY <3>2, <2>1, <2>2
    <3>3. CASE x \notin TicketsOf(b) /\ y \in TicketsOf(b)
      BY <3>3, <2>1, <2>2
    <3>4. CASE x \notin TicketsOf(b) /\ y \notin TicketsOf(b)
      <4>1. ticket'[x] = ticket[x] /\ ticket'[y] = ticket[y]
        BY <3>4, <1>1, <1>2 DEF SaleCommit
      <4> QED
        BY <4>1, <2>2 DEF SnapshotInv, OnePurchasePerTrip
    <3> QED
      BY <3>1, <3>2, <3>3, <3>4
  <2> QED
    BY <2>2 DEF OnePurchasePerTrip
<1>3. CASE UndoCommit(b)
  <2>1. ASSUME NEW x \in SoldTickets, ticket'[x].status \in ValidStatuses
        PROVE  ticket'[x] = ticket[x]
    <3>1. x \notin TicketsOf(b)
      BY <1>1, <1>3, <2>1
      DEF UndoCommit, ValidStatuses, SnapshotInv, SeatInv, LifeInv, TypeOK, Tickets
    <3> QED
      BY <1>1, <1>3, <3>1 DEF UndoCommit
  <2> QED
    BY <2>1 DEF SnapshotInv, OnePurchasePerTrip
<1>4. CASE ~SaleCommit(b) /\ ~UndoCommit(b)
  BY <1>4, QuietSteps DEF Quiet, SnapshotInv, OnePurchasePerTrip
<1> QED
  BY <1>2, <1>3, <1>4

LEMMA NextSnapshotInv == SnapshotInv /\ [Next]_saleVars => SnapshotInv'
<1> SUFFICES ASSUME SnapshotInv, [Next]_saleVars PROVE SnapshotInv'
  OBVIOUS
<1>1. SeatInv'
  BY NextSeatInv DEF SnapshotInv
<1>2. CASE UNCHANGED saleVars
  BY <1>1, <1>2
  DEF saleVars, SnapshotInv, StillAvailable, StillUnique, NoTripOverdrawn,
      OnePurchasePerTrip, Asked, Lines, Occupied
<1>3. ASSUME NEW b \in Bookings, SaleStep(b) PROVE SnapshotInv'
  <2>1. NoTripOverdrawn'
    BY <1>3, StepNotOverdrawn DEF NoTripOverdrawn
  <2> QED
    BY <1>1, <1>3, <2>1, StepSnapshots, StepOnePurchase DEF SnapshotInv
<1> QED
  BY <1>2, <1>3 DEF Next

LEMMA SnapshotInvHolds == Spec => []SnapshotInv
  BY InitSnapshotInv, NextSnapshotInv, PTL DEF Spec

\* No trip is ever sold beyond its capacity, however many purchases interleave.
THEOREM TripsAreNotOversold == Spec => []NotOversold
<1>1. SnapshotInv => NotOversold
  <2> SUFFICES ASSUME SnapshotInv, NEW t \in Trips
               PROVE  Cardinality(Occupied(t)) <= trip[t].capacity
    BY DEF NotOversold
  <2>1. Cardinality(Occupied(t)) \in Nat /\ trip[t].capacity \in Nat
    BY FS_CardinalityType DEF SnapshotInv, SeatInv, SeatsFinite, LifeInv, TypeOK
  <2>2. /\ trip[t].seatsAvailable = trip[t].capacity - Cardinality(Occupied(t))
        /\ trip[t].seatsAvailable >= 0
    BY DEF SnapshotInv, SeatInv, SeatsMatchTickets, NoTripOverdrawn
  <2> QED
    BY <2>1, <2>2
<1> QED
  BY <1>1, SnapshotInvHolds, PTL

\* Two purchases of one user never both hold a seat on the same trip.
THEOREM PurchasesDoNotDuplicate == Spec => []OnePurchasePerTrip
<1>1. SnapshotInv => OnePurchasePerTrip
  BY DEF SnapshotInv
<1> QED
  BY <1>1, SnapshotInvHolds, PTL

(***************************************************************************)
(* Refinement: the purchase implements the inventory.                      *)
(***************************************************************************)

\* In the behaviours of Spec only sales issue tickets, and nobody edits a trip.
OnlySoldTickets ==
  \A x \in TicketIds : ticket[x].status # "none" => x \in SoldTickets /\ x \in TicketsOf(x[1])
TripsAsCreated == \A t \in Trips : trip[t].capacity = Capacity /\ trip[t].running

InventoryInv == SnapshotInv /\ OnlySoldTickets /\ TripsAsCreated

LEMMA InitInventoryInv == Init => InventoryInv
<1>1. Init => OnlySoldTickets /\ TripsAsCreated
  BY DEF Init, OnlySoldTickets, TripsAsCreated, NoTicket
<1> QED
  BY <1>1, InitSnapshotInv DEF InventoryInv

LEMMA NextInventoryInv == InventoryInv /\ [Next]_saleVars => InventoryInv'
<1> SUFFICES ASSUME InventoryInv, [Next]_saleVars PROVE InventoryInv'
  OBVIOUS
<1>1. SnapshotInv'
  BY NextSnapshotInv DEF InventoryInv
<1>2. CASE UNCHANGED saleVars
  BY <1>1, <1>2 DEF saleVars, InventoryInv, OnlySoldTickets, TripsAsCreated, TicketsOf
<1>3. ASSUME NEW b \in Bookings, SaleStep(b) PROVE (OnlySoldTickets /\ TripsAsCreated)'
  <2>1. CASE SaleCommit(b) \/ UndoCommit(b)
    <3>1. TripsAsCreated'
      <4>1. ASSUME NEW t \in Trips
            PROVE  trip'[t].capacity = trip[t].capacity /\ trip'[t].running = trip[t].running
        <5>1. /\ trip[t] \in [capacity : Nat, seatsAvailable : Int, running : BOOLEAN]
              /\ LifeInv /\ RowsFollowOrders
          BY DEF InventoryInv, SnapshotInv, SeatInv, LifeInv, TypeOK
        <5>2. CASE SaleCommit(b)
          <6>1. trip'[t] = [trip[t] EXCEPT !.seatsAvailable = @ - Cardinality(Lines(b, t))]
            BY <5>1, <5>2, CommitMovesSeats
          <6> QED
            BY <5>1, <6>1
        <5>3. CASE UndoCommit(b)
          <6>1. trip'[t] = [trip[t] EXCEPT !.seatsAvailable = @ + Cardinality(Lines(b, t))]
            BY <5>1, <5>3, UndoMovesSeats
          <6> QED
            BY <5>1, <6>1
        <5> QED
          BY <2>1, <5>2, <5>3
      <4> QED
        BY <4>1 DEF InventoryInv, TripsAsCreated
    <3>2. /\ \A d : TicketsOf(d)' = TicketsOf(d)
          /\ TicketsOf(b) \subseteq SoldTickets
      BY <2>1, RequestedRows
      DEF SaleCommit, UndoCommit, TicketsOf, InventoryInv, SnapshotInv, SeatInv, LifeInv, TypeOK
    <3>3. ASSUME NEW x \in TicketIds, x \notin TicketsOf(b) PROVE ticket'[x] = ticket[x]
      BY <2>1, <3>3 DEF SaleCommit, UndoCommit
    <3> QED
      BY <3>1, <3>2, <3>3, OwnTickets DEF InventoryInv, OnlySoldTickets
  <2>2. CASE ~SaleCommit(b) /\ ~UndoCommit(b)
    BY <2>2, <1>3, QuietSteps DEF Quiet, InventoryInv, OnlySoldTickets, TripsAsCreated, TicketsOf
  <2> QED
    BY <2>1, <2>2
<1> QED
  BY <1>1, <1>2, <1>3 DEF Next, InventoryInv

LEMMA InventoryInvHolds == Spec => []InventoryInv
  BY InitInventoryInv, NextInventoryInv, PTL DEF Spec

\* What the inventory sees of a booking.
HoldOf(s, o) ==
  IF s \in {"new", "selling", "refused"} THEN Inventory!None
  ELSE [state |-> IF s = "sold" THEN "kept" ELSE IF s = "failed" THEN "released" ELSE "held",
        user |-> o.user, seats |-> o.trips]

LEMMA HoldIs ==
  /\ Hold  = [b \in Bookings |-> HoldOf(sale[b], order[b])]
  /\ Hold' = [b \in Bookings |-> HoldOf(sale'[b], order'[b])]
  BY DEF Hold, HoldState, HoldOf, Inventory!None

\* A step of b moves the hold of b alone.
LEMMA HoldMoves ==
  ASSUME TypeOK, NEW b \in Bookings, SaleStep(b)
  PROVE  Hold' = [Hold EXCEPT ![b] = HoldOf(sale'[b], order[b])]
<1>1. order' = order /\ \A d \in Bookings \ {b} : sale'[d] = sale[d]
  BY DEF TypeOK, SaleStep, Handle, SaleBegin, SaleRefuse, SaleCommit, SaleConflict, ChargeNothing,
         ChargeCard, ChargeDeclined, ChargeReplyLost, RecordCharge, RecordChargeFails,
         RecordError, UndoBegin, UndoCommit, UndoConflict, Crash
<1>2. \A d \in Bookings \ {b} : HoldOf(sale'[d], order'[d]) = HoldOf(sale[d], order[d])
  BY <1>1
<1>3. Hold = [d \in Bookings |-> HoldOf(sale[d], order[d])]
  BY HoldIs
<1>4. Hold' = [d \in Bookings |-> HoldOf(sale'[d], order'[d])]
  BY HoldIs
<1> QED
  BY <1>1, <1>2, <1>3, <1>4

\* The seats the inventory counts as taken are the tickets that occupy the trip.
LEMMA TakenIsOccupied ==
  ASSUME InventoryInv, NEW t \in Trips
  PROVE  /\ Inventory!Taken(t) = Occupied(t)
         /\ \A a \in Bookings : Inventory!Holding(a) <=> sale[a] \in HeldStates
         /\ \A a \in Bookings : Inventory!Holding(a) =>
              /\ Hold[a].user = order[a].user
              /\ Inventory!Seats(a, t) = Lines(a, t)
<1>1. /\ TypeOK /\ AllOrNothing /\ CommittedWhileHeld /\ RowsFollowOrders /\ OnlySoldTickets
      /\ t # NoTrip
  BY NoTripIsNoTrip DEF InventoryInv, SnapshotInv, SeatInv, LifeInv
<1>2. ASSUME NEW a \in Bookings
      PROVE  /\ Inventory!Holding(a) <=> sale[a] \in HeldStates
             /\ Inventory!Holding(a) =>
                  Hold[a].user = order[a].user /\ Hold[a].seats = order[a].trips
  <2>1. Hold[a] = HoldOf(sale[a], order[a]) /\ sale[a] \in SaleStates
    BY HoldIs, <1>1 DEF TypeOK
  <2> QED
    BY <2>1 DEF Inventory!Holding, HoldOf, HeldStates, Errors, SaleStates, Ended, Inventory!None
<1>3. ASSUME NEW a \in Bookings, Inventory!Holding(a)
      PROVE  Inventory!Seats(a, t) = Lines(a, t)
  BY <1>2, <1>3 DEF Inventory!Seats, Lines
<1>4. ASSUME NEW a \in Bookings, NEW i \in Items
      PROVE  <<a, i>> \in Inventory!Taken(t) <=> <<a, i>> \in Occupied(t)
  <2>1. <<a, i>> \in TicketIds /\ (<<a, i>> \in TicketsOf(a) <=> order[a].trips[i] # NoTrip)
    BY DEF TicketIds, SoldTickets, TicketsOf
  <2>2. <<a, i>> \in Inventory!Taken(t) <=> sale[a] \in HeldStates /\ order[a].trips[i] = t
    BY <1>2, <1>3 DEF Inventory!Taken, Lines
  <2>3. CASE <<a, i>> \in TicketsOf(a)
    <3>1. ticket[<<a, i>>].status \in ValidStatuses <=> sale[a] \in HeldStates
      BY <1>1, <2>3 DEF AllOrNothing, CommittedWhileHeld, ValidStatuses
    <3>2. ticket[<<a, i>>].status # "none" => ticket[<<a, i>>].trip = order[a].trips[i]
      BY <1>1, <2>3 DEF RowsFollowOrders
    <3> QED
      BY <2>1, <2>2, <3>1, <3>2 DEF Occupied, ValidStatuses
  <2>4. CASE <<a, i>> \notin TicketsOf(a)
    <3>1. ticket[<<a, i>>].status = "none"
      BY <1>1, <2>1, <2>4 DEF OnlySoldTickets
    <3> QED
      BY <1>1, <2>1, <2>2, <2>4, <3>1 DEF Occupied, ValidStatuses
  <2> QED
    BY <2>3, <2>4
<1>5. Occupied(t) \subseteq Bookings \X Items
  BY <1>1 DEF Occupied, OnlySoldTickets, SoldTickets, ValidStatuses
<1>6. Inventory!Taken(t) \subseteq Bookings \X Items
  BY DEF Inventory!Taken
<1>7. Inventory!Taken(t) = Occupied(t)
  BY <1>4, <1>5, <1>6
<1> QED
  BY <1>2, <1>3, <1>7

LEMMA CommitReserves ==
  ASSUME InventoryInv, NEW b \in Bookings, SaleCommit(b)
  PROVE  Inventory!Reserve(b, order[b].user, order[b].trips)
<1>1. /\ TypeOK /\ sale[b] = "selling"
      /\ Asked(b) \cap stale[b] = {}
  BY DEF SaleCommit, Conflict, InventoryInv, SnapshotInv, SeatInv, LifeInv
<1>2. Hold[b] = Inventory!None
  BY <1>1, HoldIs DEF HoldOf
<1>3. ASSUME NEW t \in Trips, Lines(b, t) # {}
      PROVE  /\ Cardinality(Inventory!Taken(t)) + Cardinality(Lines(b, t)) <= Capacity
             /\ \A a \in Bookings :
                  Inventory!Holding(a) /\ Hold[a].user = order[b].user
                    => Inventory!Seats(a, t) = {}
  <2>1. t \in Asked(b) \ stale[b]
    BY <1>1, <1>3, MineIsAsked DEF TypeOK
  <2>2. /\ trip[t].seatsAvailable - Cardinality(Lines(b, t)) >= 0
        /\ trip[t].seatsAvailable = trip[t].capacity - Cardinality(Occupied(t))
        /\ trip[t].capacity = Capacity
        /\ \A x \in Occupied(t) : ticket[x].user # order[b].user
    BY <1>1, <2>1
    DEF InventoryInv, SnapshotInv, StillAvailable, StillUnique, SeatInv, SeatsMatchTickets,
        TripsAsCreated
  <2>3. Cardinality(Occupied(t)) \in Nat /\ Cardinality(Lines(b, t)) \in Nat
    BY LinesCount, FS_CardinalityType DEF InventoryInv, SnapshotInv, SeatInv, SeatsFinite
  <2>4. Cardinality(Inventory!Taken(t)) + Cardinality(Lines(b, t)) <= Capacity
    BY <2>2, <2>3, TakenIsOccupied, CapacityIsNat
  <2>5. ASSUME NEW a \in Bookings, Inventory!Holding(a), Hold[a].user = order[b].user,
               NEW i \in Inventory!Seats(a, t)
        PROVE  FALSE
    <3>1. i \in Items /\ order[a].user = order[b].user /\ i \in Lines(a, t)
      BY <2>5, TakenIsOccupied DEF Lines
    <3>2. <<a, i>> \in Inventory!Taken(t)
      BY <2>5, <3>1 DEF Inventory!Taken
    <3>3. <<a, i>> \in Occupied(t)
      BY <3>2, TakenIsOccupied
    <3>4. <<a, i>> \in TicketsOf(a) /\ ticket[<<a, i>>].status # "none"
      BY <3>1, <3>3, NoTripIsNoTrip DEF TicketsOf, Lines, Occupied, ValidStatuses
    <3>5. ticket[<<a, i>>].user = order[a].user
      BY <3>4 DEF InventoryInv, SnapshotInv, SeatInv, RowsFollowOrders
    <3> QED
      BY <2>2, <3>1, <3>3, <3>5
  <2> QED
    BY <2>4, <2>5
<1>4. Hold' = [Hold EXCEPT ![b] =
                 [state |-> "held", user |-> order[b].user, seats |-> order[b].trips]]
  <2>1. sale'[b] = "charging" /\ SaleStep(b)
    BY <1>1 DEF SaleCommit, TypeOK, SaleStep, Handle
  <2>2. HoldOf(sale'[b], order[b]) =
          [state |-> "held", user |-> order[b].user, seats |-> order[b].trips]
    BY <2>1 DEF HoldOf
  <2> QED
    BY <1>1, <2>1, <2>2, HoldMoves
<1>5. \A t : {i \in Items : order[b].trips[i] = t} = Lines(b, t)
  BY DEF Lines
<1>6. \A S : Inventory!Cardinality(S) = Cardinality(S)
  BY DEF Inventory!Cardinality, Cardinality
<1> QED
  BY <1>2, <1>3, <1>4, <1>5, <1>6 DEF Inventory!Reserve

\* Every step of a purchase is a step of the inventory, or none.
LEMMA StepImplementsInventory ==
  ASSUME InventoryInv, NEW b \in Bookings, SaleStep(b)
  PROVE  [Inventory!Next]_Hold
<1>1. /\ TypeOK /\ order[b].user \in Users
      /\ order[b].trips \in [Items -> Trips \cup {NoTrip}]
  BY DEF InventoryInv, SnapshotInv, SeatInv, LifeInv, TypeOK, Orders
<1>2. /\ Hold \in [Bookings -> {HoldOf(sale[d], order[d]) : d \in Bookings}]
      /\ Hold[b] = HoldOf(sale[b], order[b])
      /\ Hold' = [Hold EXCEPT ![b] = HoldOf(sale'[b], order[b])]
  BY <1>1, HoldIs, HoldMoves
<1>3. CASE SaleCommit(b)
  BY <1>1, <1>3, CommitReserves DEF Inventory!Next
<1>4. ASSUME NEW outcome \in {"kept", "released"},
             sale[b] \in {"charged", "releasing"},
             sale'[b] = IF outcome = "kept" THEN "sold" ELSE "failed"
      PROVE  Inventory!Next
  <2>1. Hold[b] = [state |-> "held", user |-> order[b].user, seats |-> order[b].trips]
    BY <1>2, <1>4 DEF HoldOf
  <2>2. HoldOf(sale'[b], order[b]) =
          [state |-> outcome, user |-> order[b].user, seats |-> order[b].trips]
    BY <1>4 DEF HoldOf
  <2>3. [Hold[b] EXCEPT !.state = outcome] = HoldOf(sale'[b], order[b])
    BY <2>1, <2>2
  <2>4. Hold' = [Hold EXCEPT ![b].state = outcome]
    BY <1>2, <2>3
  <2>5. Inventory!Settle(b, outcome)
    BY <2>1, <2>4 DEF Inventory!Settle
  <2> QED
    BY <2>5 DEF Inventory!Next
<1>5. CASE RecordCharge(b)
  BY <1>1, <1>4, <1>5 DEF RecordCharge, TypeOK
<1>6. CASE UndoCommit(b)
  BY <1>1, <1>4, <1>6 DEF UndoCommit, TypeOK
<1>7. CASE ~SaleCommit(b) /\ ~RecordCharge(b) /\ ~UndoCommit(b)
  <2>1. \/ {sale[b], sale'[b]} \subseteq {"new", "selling", "refused"}
        \/ {sale[b], sale'[b]} \subseteq
             {"charging", "charged", "undoing", "releasing", "stranded"} \cup Errors
    BY <1>1, <1>7
    DEF TypeOK, SaleStep, Handle, SaleBegin, SaleRefuse, SaleConflict, ChargeNothing,
        ChargeCard, ChargeDeclined, ChargeReplyLost, RecordChargeFails, RecordError,
        UndoBegin, UndoConflict, Crash, InFlight, SaleStates, Ended, Errors
  <2>2. HoldOf(sale'[b], order[b]) = HoldOf(sale[b], order[b])
    BY <2>1 DEF HoldOf, Errors
  <2> QED
    BY <1>2, <2>2
<1> QED
  BY <1>3, <1>5, <1>6, <1>7

\* The purchase, with its two database transactions, its snapshots and its relative
\* updates of the seat counters, implements the inventory: a sale takes all of its
\* seats in one step, only while they are free, and gives them back at most once.
THEOREM SalesImplementInventory == Spec => ImplementsInventory
<1>1. Init => Inventory!Init
  <2> SUFFICES ASSUME Init PROVE Hold = [b \in Bookings |-> Inventory!None]
    BY DEF Inventory!Init
  <2>1. \A b \in Bookings : HoldOf(sale[b], order[b]) = Inventory!None
    BY DEF Init, HoldOf
  <2> QED
    BY <2>1, HoldIs
<1>2. InventoryInv /\ [Next]_saleVars => [Inventory!Next]_Hold
  <2>1. UNCHANGED saleVars => UNCHANGED Hold
    BY HoldIs DEF saleVars
  <2> QED
    BY <2>1, StepImplementsInventory DEF Next
<1> QED
  BY <1>1, <1>2, InventoryInvHolds, PTL DEF Spec, ImplementsInventory, Inventory!Spec

(***************************************************************************)
(* Conflicts and refusals are caused by a purchase that got through.       *)
(***************************************************************************)
EachFitsAlone ==
  \A b \in Bookings : \A t \in Asked(b) : Cardinality(Lines(b, t)) <= Capacity
GotThrough(b) == sale[b] \notin {"new", "selling", "refused"}

LosersHaveAWinner ==
  EachFitsAlone /\ (\E b \in Bookings : sale[b] = "refused" \/ stale[b] # {})
    => \E d \in Bookings : GotThrough(d)

WinnerInv == InventoryInv /\ LosersHaveAWinner

\* Whoever occupies a seat has got through.
LEMMA OccupantsGotThrough ==
  ASSUME InventoryInv, NEW t \in Trips, NEW x \in Occupied(t)
  PROVE  \E d \in Bookings : GotThrough(d)
<1>1. /\ x \in TicketIds /\ ticket[x].status \in ValidStatuses
      /\ x \in SoldTickets /\ x \in TicketsOf(x[1]) /\ x[1] \in Bookings
  BY DEF Occupied, InventoryInv, OnlySoldTickets, ValidStatuses, SoldTickets
<1>2. sale[x[1]] \in HeldStates
  BY <1>1
  DEF InventoryInv, SnapshotInv, SeatInv, LifeInv, AllOrNothing, CommittedWhileHeld, ValidStatuses
<1> QED
  BY <1>1, <1>2 DEF GotThrough, HeldStates, Errors

LEMMA StepWinner ==
  ASSUME "crash" \notin Faults, WinnerInv, NEW b \in Bookings, SaleStep(b)
  PROVE  LosersHaveAWinner'
<1>1. /\ TypeOK /\ SeatsFinite /\ SeatsMatchTickets /\ TripsAsCreated /\ InventoryInv
      /\ Asked(b) \subseteq Trips
  BY RequestedRows
  DEF WinnerInv, InventoryInv, SnapshotInv, SeatInv, LifeInv, TypeOK
<1>2. /\ order' = order /\ \A d \in Bookings \ {b} : sale'[d] = sale[d]
      /\ GotThrough(b) => sale'[b] \notin {"new", "selling", "refused"}
  BY <1>1
  DEF TypeOK, SaleStep, Handle, SaleBegin, SaleRefuse, SaleCommit, SaleConflict,
      ChargeNothing, ChargeCard, ChargeDeclined, ChargeReplyLost, RecordCharge,
      RecordChargeFails, RecordError, UndoBegin, UndoCommit, UndoConflict, Crash, GotThrough
<1>3. ASSUME NEW d \in Bookings, GotThrough(d)
      PROVE  sale'[d] \notin {"new", "selling", "refused"}
  BY <1>2, <1>3 DEF GotThrough
<1>4. EachFitsAlone' <=> EachFitsAlone
  <2>1. \A d \in Bookings : Asked(d)' = Asked(d) /\ \A t : Lines(d, t)' = Lines(d, t)
    BY <1>2 DEF Asked, Lines
  <2> QED
    BY <2>1 DEF EachFitsAlone
<1>5. CASE SaleRefuse(b)
  <2>1. ASSUME EachFitsAlone PROVE \E t \in Trips : Occupied(t) # {}
    <3>1. CASE ~AllRunning(b)
      BY <3>1, <1>1 DEF AllRunning, TripsAsCreated
    <3>2. CASE ~NoDuplicates(b)
      BY <3>2, <1>1 DEF NoDuplicates
    <3>3. CASE ~Available(b)
      <4>1. PICK t \in Asked(b) : ~(trip[t].seatsAvailable - Cardinality(Lines(b, t)) >= 0)
        BY <3>3 DEF Available
      <4>2. /\ t \in Trips
            /\ trip[t].seatsAvailable = Capacity - Cardinality(Occupied(t))
            /\ Cardinality(Lines(b, t)) <= Capacity
        BY <1>1, <2>1 DEF SeatsMatchTickets, TripsAsCreated, EachFitsAlone
      <4>3. Cardinality(Lines(b, t)) \in Nat
        BY LinesCount
      <4>4. Cardinality(Occupied(t)) # 0
        BY <4>1, <4>2, <4>3, CapacityIsNat
      <4> QED
        BY <4>2, <4>4, FS_EmptySet
    <3> QED
      BY <1>5, <3>1, <3>2, <3>3 DEF SaleRefuse, Acceptable
  <2>2. ASSUME EachFitsAlone PROVE \E d \in Bookings : GotThrough(d)
    BY <1>1, <2>1, <2>2, OccupantsGotThrough
  <2> QED
    BY <1>3, <1>4, <2>2 DEF LosersHaveAWinner, GotThrough
<1>6. CASE SaleCommit(b) \/ UndoCommit(b)
  <2>1. sale'[b] \in {"charging", "failed"}
    BY <1>1, <1>6 DEF SaleCommit, UndoCommit, TypeOK
  <2> QED
    BY <2>1 DEF LosersHaveAWinner, GotThrough
<1>7. CASE ~SaleRefuse(b) /\ ~SaleCommit(b) /\ ~UndoCommit(b)
  <2>1. \A d \in Bookings : stale'[d] # {} => stale[d] # {}
    BY <1>1, <1>7
    DEF TypeOK, Clients, SaleStep, Handle, SaleBegin, SaleConflict, ChargeNothing, ChargeCard,
        ChargeDeclined, ChargeReplyLost, RecordCharge, RecordChargeFails, RecordError,
        UndoBegin, UndoConflict, Crash, BeginTx, EndTx, txVars
  <2>2. sale'[b] = "refused" => stale[b] # {}
    BY <1>1, <1>7
    DEF TypeOK, SaleStep, Handle, SaleBegin, SaleConflict, ChargeNothing, ChargeCard,
        ChargeDeclined, ChargeReplyLost, RecordCharge, RecordChargeFails, RecordError,
        UndoBegin, UndoConflict, Crash, Conflict
  <2>3. ASSUME EachFitsAlone, NEW d \in Bookings, sale'[d] = "refused" \/ stale'[d] # {}
        PROVE  \E a \in Bookings : GotThrough(a)
    <3>1. sale[d] = "refused" \/ stale[d] # {}
      BY <1>2, <2>1, <2>2, <2>3
    <3> QED
      BY <2>3, <3>1 DEF WinnerInv, LosersHaveAWinner
  <2> QED
    BY <1>3, <1>4, <2>3 DEF LosersHaveAWinner, GotThrough
<1> QED
  BY <1>5, <1>6, <1>7

\* Purchases that exclude each other by conflict do not all lose: unless the server
\* crashes, when every handler has ended and each request alone could have been served,
\* some request got through.
THEOREM ConflictsLeaveAWinner == "crash" \notin Faults => (Spec => []SomeoneSucceeds)
<1> SUFFICES ASSUME "crash" \notin Faults PROVE Spec => []SomeoneSucceeds
  OBVIOUS
<1>1. Init => WinnerInv
  <2>1. Init => LosersHaveAWinner
    BY DEF Init, LosersHaveAWinner, Clients
  <2> QED
    BY <2>1, InitInventoryInv DEF WinnerInv
<1>2. WinnerInv /\ [Next]_saleVars => WinnerInv'
  <2> SUFFICES ASSUME WinnerInv, [Next]_saleVars PROVE WinnerInv'
    OBVIOUS
  <2>1. InventoryInv'
    BY NextInventoryInv DEF WinnerInv
  <2>2. CASE UNCHANGED saleVars
    BY <2>1, <2>2
    DEF saleVars, WinnerInv, LosersHaveAWinner, EachFitsAlone, GotThrough, Asked, Lines
  <2>3. CASE Next
    BY <2>1, <2>3, StepWinner DEF Next, WinnerInv
  <2> QED
    BY <2>2, <2>3
<1>3. WinnerInv => SomeoneSucceeds
  BY DEF WinnerInv, LosersHaveAWinner, SomeoneSucceeds, EachFitsAlone, GotThrough, Ended
<1> QED
  BY <1>1, <1>2, <1>3, PTL DEF Spec
===============================================================================
