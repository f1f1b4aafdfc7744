---------------------------- MODULE Timetable_proofs ----------------------------
(***************************************************************************)
(* That tickets keep the date they were bought for, and that a trip's       *)
(* vehicle is its driver's, for every number of trips, requests, tickets    *)
(* and vehicles.                                                            *)
(*                                                                         *)
(* The date.  A ticket holds stops of one live trip, since neither the      *)
(* deletion of a trip nor an edit of its stops takes a stop a ticket holds: *)
(* its trip is a function of its stops.  A sale that is under way knows the *)
(* date of its trip, or the trip was written since and the sale will abort; *)
(* an edit that counted and is to write another date knows of every ticket  *)
(* on the trip that it is late, or the trip was written since its snapshot, *)
(* and the edit will abort.                                                 *)
(*                                                                         *)
(* The vehicle.  A trip outside apart that names a vehicle names one that   *)
(* exists: a vehicle that is added later is on no such trip.               *)
(***************************************************************************)
EXTENDS Timetable, FiniteSetTheorems, TLAPS

-----------------------------------------------------------------------------
(* Types *)

TripRows == [live : BOOLEAN, date : Dates, vehicle : Vehicles \cup {None}, driver : Drivers \cup {None}]
StopRows == [trip : Trips \cup {Unborn, Gone}, time : Times \cup {None}]
Tickets  == [status : Statuses \cup {None}, stops : SUBSET Stops, date : Dates \cup {0}]

Waiting  == [step : {"new", "done"}]
Choosing == [step : {"chosen"}, trip : Trips, vehicle : Vehicles \cup {None}, driver : Drivers]
Saving   == [step : {"saving"}, trip : Trips, vehicle : Vehicles \cup {None}, driver : Drivers, was : TripRows]
Booking  == [step : {"booking"}, trip : Trips, stops : SUBSET Stops, date : Dates]
GivenTimes == UNION {[keep -> Times \cup {Unset}] : keep \in SUBSET Stops}
Editing  == [step : {"read", "counted", "writing"}, trip : Trips, was : TripRows, date : Dates \cup {Unset},
             crew : Crews, other : {Unset, None}, times : GivenTimes, new : Times \cup {Unset, None}, seen : Dates, stops : SUBSET Stops]

RowsOK == /\ tripRow \in [Trips -> TripRows]
          /\ stopRow \in [Stops -> StopRows]
          /\ owner \in [Vehicles -> Drivers \cup {Unborn, Gone}]
          /\ booked \in [Clients -> Tickets]
RequestsOK == asked \in [Clients -> Waiting \cup Choosing \cup Saving \cup Booking \cup Editing]
TransactionsOK == /\ open \subseteq Clients
                  /\ stale \in [Clients -> SUBSET (Trips \cup Stops)]
TypeOK == RowsOK /\ RequestsOK /\ TransactionsOK

-----------------------------------------------------------------------------
(* The invariant *)

HasTicket(b) == booked[b].stops # {}
Riding(b, t) == HasTicket(b) /\ booked[b].stops \subseteq StopsIn(t)

\* A request makes one booking, with its last step.
BookedLast == \A b \in Clients : asked[b].step # "done" => booked[b] = NoTicket
NoStopsNoTicket == \A b \in Clients : HasTicket(b) <=> booked[b].status # None

\* All stops of a ticket are of one trip, and that trip is live.
TicketsRideATrip ==
  \A b \in Clients : HasTicket(b) => \E t \in Trips : tripRow[t].live /\ booked[b].stops \subseteq StopsIn(t)

\* What a transaction has read still holds, or it will abort.
InTransaction(r) == asked[r].step \in {"booking", "writing"} => r \in open
SaleKnowsTrip(r) ==
  asked[r].step = "booking" =>
    /\ asked[r].stops # {}
    /\ \/ asked[r].trip \in stale[r]
       \/ tripRow[asked[r].trip].live /\ tripRow[asked[r].trip].date = asked[r].date
EditKnowsStops(r) ==
  asked[r].step = "writing" =>
    \A s \in asked[r].stops : s \in stale[r] \/ stopRow[s].trip = asked[r].trip

\* An edit that counted has found no ticket that could become valid and is not late.
Counted(r) == \/ asked[r].step = "counted"
              \/ asked[r].step = "writing" /\ DateChanges(asked[r])
EditKnowsTickets(r) ==
  Counted(r) =>
    \/ asked[r].step = "writing" /\ asked[r].trip \in stale[r]
    \/ \A b \in Clients : Riding(b, asked[r].trip) => b \in late
CountedToChange(r) == asked[r].step = "counted" => DateChanges(asked[r])

RequestKnows(r) == /\ InTransaction(r)
                   /\ SaleKnowsTrip(r)
                   /\ EditKnowsStops(r)
                   /\ EditKnowsTickets(r)
                   /\ CountedToChange(r)

\* Of every ticket, whatever its status.
DateKept(b, t) == Riding(b, t) /\ booked[b].date # tripRow[t].date => b \in late

DateInv == /\ BookedLast
           /\ NoStopsNoTicket
           /\ TicketsRideATrip
           /\ \A r \in Clients : RequestKnows(r)
           /\ \A b \in Clients, t \in Trips : DateKept(b, t)

OwnVehicle(t) ==
  t \notin apart /\ tripRow[t].live /\ tripRow[t].vehicle # None
    => Exists(tripRow[t].vehicle) /\ owner[tripRow[t].vehicle] = tripRow[t].driver
CrewInv == \A t \in Trips : OwnVehicle(t)

TimetableInv == TypeOK /\ DateInv /\ CrewInv

-----------------------------------------------------------------------------
(* Types are kept. *)

(* A request's record is told by its step. *)
LEMMA RecordOfStep ==
  ASSUME RequestsOK, NEW r \in Clients
  PROVE  /\ asked[r].step \in {"new", "done"} => asked[r] \in Waiting
         /\ asked[r].step = "chosen" => asked[r] \in Choosing
         /\ asked[r].step = "saving" => asked[r] \in Saving
         /\ asked[r].step = "booking" => asked[r] \in Booking
         /\ asked[r].step \in {"read", "counted", "writing"} => asked[r] \in Editing
<1>1. asked[r] \in Waiting \cup Choosing \cup Saving \cup Booking \cup Editing  BY DEF RequestsOK
<1>2. CASE asked[r] \in Waiting  BY <1>2 DEF Waiting
<1>3. CASE asked[r] \in Choosing  BY <1>3 DEF Choosing
<1>4. CASE asked[r] \in Saving  BY <1>4 DEF Saving
<1>5. CASE asked[r] \in Booking  BY <1>5 DEF Booking
<1>6. CASE asked[r] \in Editing  BY <1>6 DEF Editing
<1> QED  BY <1>1, <1>2, <1>3, <1>4, <1>5, <1>6

(* The answer ends a request. *)
LEMMA AnsweredIsWaiting == Answered \in Waiting /\ Answered.step = "done"
BY DEF Answered, Waiting

(* Beginning and ending a transaction. *)
LEMMA BeginKeepsType ==
  ASSUME TransactionsOK, NEW r \in Clients, BeginTx(r)
  PROVE  TransactionsOK'
BY DEF TransactionsOK, BeginTx

LEMMA EndKeepsType ==
  ASSUME TransactionsOK, NEW r \in Clients, NEW rows \in SUBSET (Trips \cup Stops), EndTx(r, rows)
  PROVE  TransactionsOK'
<1>1. open' \subseteq Clients  BY DEF TransactionsOK, EndTx
<1>2. \A d \in Clients : stale'[d] \in SUBSET (Trips \cup Stops)  BY DEF TransactionsOK, EndTx
<1>3. stale' \in [Clients -> SUBSET (Trips \cup Stops)]  BY <1>2 DEF EndTx
<1> QED  BY <1>1, <1>3 DEF TransactionsOK

LEMMA SameKeepsType ==
  ASSUME TransactionsOK, UNCHANGED <<open, stale>>
  PROVE  TransactionsOK'
BY DEF TransactionsOK

(* A request takes its next step, the others do not. *)
LEMMA NextStepKeepsType ==
  ASSUME RequestsOK, NEW r \in Clients, NEW a \in Waiting \cup Choosing \cup Saving \cup Booking \cup Editing,
         asked' = [asked EXCEPT ![r] = a]
  PROVE  RequestsOK'
BY DEF RequestsOK

LEMMA AnswerKeepsType ==
  ASSUME RequestsOK, NEW r \in Clients, asked' = [asked EXCEPT ![r] = Answered]
  PROVE  RequestsOK'
BY AnsweredIsWaiting, NextStepKeepsType

(* Writing one field of a trip. *)
LEMMA TripFields ==
  ASSUME RowsOK, NEW t \in Trips
  PROVE  /\ tripRow[t] \in TripRows /\ tripRow[t].live \in BOOLEAN /\ tripRow[t].date \in Dates
         /\ tripRow[t].vehicle \in Vehicles \cup {None} /\ tripRow[t].driver \in Drivers \cup {None}
BY DEF RowsOK, TripRows

LEMMA ChangedType ==
  ASSUME NEW S, NEW to \in S \cup {Unset}, NEW was, NEW current \in S
  PROVE  Changed(to, was, current) \in S
BY DEF Changed

LEMMA PostTripType ==
  ASSUME TypeOK, NEW r \in Clients, NEW t \in Trips, NEW date \in Dates, PostTrip(r, t, date)
  PROVE  TypeOK'
<1>0. PICK S \in SUBSET Stops : \E time \in [S -> Times] :
        stopRow' = [s \in Stops |-> IF s \in S THEN [trip |-> t, time |-> time[s]] ELSE stopRow[s]]
  BY DEF PostTrip
<1>1. PICK time \in [S -> Times] :
        stopRow' = [s \in Stops |-> IF s \in S THEN [trip |-> t, time |-> time[s]] ELSE stopRow[s]]
  BY <1>0
<1>2. stopRow' \in [Stops -> StopRows]
  <2>1. ASSUME NEW s \in Stops PROVE stopRow'[s] \in StopRows
    BY <1>1, <2>1 DEF TypeOK, RowsOK, StopRows
  <2> QED  BY <1>1, <2>1
<1>3. tripRow' \in [Trips -> TripRows]  BY DEF PostTrip, TypeOK, RowsOK, TripRows
<1>4. RowsOK'  BY <1>2, <1>3 DEF PostTrip, TypeOK, RowsOK
<1>5. RequestsOK'  BY AnswerKeepsType DEF PostTrip, TypeOK
<1>6. TransactionsOK'  BY SameKeepsType DEF PostTrip, TypeOK
<1> QED  BY <1>4, <1>5, <1>6 DEF TypeOK

LEMMA DeleteTripType ==
  ASSUME TypeOK, NEW r \in Clients, NEW t \in Trips, DeleteTrip(r, t)
  PROVE  TypeOK'
<1>1. stopRow' \in [Stops -> StopRows]
  <2>1. ASSUME NEW s \in Stops PROVE stopRow'[s] \in StopRows
    BY <2>1 DEF DeleteTrip, TypeOK, RowsOK, StopRows
  <2> QED  BY <2>1 DEF DeleteTrip
<1>2. tripRow' \in [Trips -> TripRows]  BY DEF DeleteTrip, TypeOK, RowsOK, TripRows
<1>3. RowsOK'  BY <1>1, <1>2 DEF DeleteTrip, TypeOK, RowsOK
<1>4. RequestsOK'  BY AnswerKeepsType DEF DeleteTrip, TypeOK
<1>5. {t} \cup StopsIn(t) \in SUBSET (Trips \cup Stops)  BY DEF StopsIn
<1>6. TransactionsOK'  BY <1>5, EndKeepsType DEF DeleteTrip, TypeOK
<1> QED  BY <1>3, <1>4, <1>6 DEF TypeOK

LEMMA EditReadType ==
  ASSUME TypeOK, NEW r \in Clients, NEW t \in Trips, EditRead(r, t)
  PROVE  TypeOK'
<1>1. PICK keep \in SUBSET StopsIn(t), date \in Dates \cup {Unset}, crew \in Crews, new \in Times \cup {Unset, None},
          other \in {Unset, None} :
        \E times \in [keep -> Times \cup {Unset}] :
          /\ other # Unset => date = Unset /\ crew = <<Unset, Unset>>
          /\ Changes(t, times, date, crew, new, other) <= MaxChanges
          /\ asked' = [asked EXCEPT ![r] = [step |-> "read", trip |-> t, was |-> tripRow[t], date |-> date,
                       crew |-> crew, other |-> other, times |-> times, new |-> new, seen |-> tripRow[t].date, stops |-> {}]]
  BY Zenon DEF EditRead
<1>2. PICK times \in [keep -> Times \cup {Unset}] :
        asked' = [asked EXCEPT ![r] = [step |-> "read", trip |-> t, was |-> tripRow[t], date |-> date,
                       crew |-> crew, other |-> other, times |-> times, new |-> new, seen |-> tripRow[t].date, stops |-> {}]]
  BY <1>1
<1>3. keep \in SUBSET Stops  BY DEF StopsIn
<1>4. times \in GivenTimes  BY <1>3 DEF GivenTimes
<1>5. [step |-> "read", trip |-> t, was |-> tripRow[t], date |-> date, crew |-> crew, other |-> other, times |-> times,
       new |-> new, seen |-> tripRow[t].date, stops |-> {}] \in Editing
  BY <1>4, TripFields DEF TypeOK, Editing
<1>6. RequestsOK'  BY <1>2, <1>5, NextStepKeepsType DEF TypeOK
<1>7. RowsOK'  BY DEF EditRead, tables, TypeOK, RowsOK
<1>8. TransactionsOK'  BY SameKeepsType DEF EditRead, TypeOK
<1> QED  BY <1>6, <1>7, <1>8 DEF TypeOK

LEMMA EditCountType ==
  ASSUME TypeOK, NEW r \in Clients, EditCount(r)
  PROVE  TypeOK'
<1>1. asked[r] \in Editing  BY RecordOfStep DEF TypeOK, EditCount
<1>2. \/ asked' = [asked EXCEPT ![r].step = "counted"]
      \/ asked' = [asked EXCEPT ![r] = Answered]
  BY DEF EditCount
<1>3. [asked[r] EXCEPT !.step = "counted"] \in Editing  BY <1>1 DEF Editing
<1>4. asked' = [asked EXCEPT ![r].step = "counted"] => asked' = [asked EXCEPT ![r] = [asked[r] EXCEPT !.step = "counted"]]
  BY DEF TypeOK, RequestsOK
<1>5. RequestsOK'  BY <1>2, <1>3, <1>4, AnswerKeepsType, NextStepKeepsType DEF TypeOK
<1>6. RowsOK'  BY DEF EditCount, tables, TypeOK, RowsOK
<1>7. TransactionsOK'  BY SameKeepsType DEF EditCount, TypeOK
<1> QED  BY <1>5, <1>6, <1>7 DEF TypeOK

LEMMA EditBeginType ==
  ASSUME TypeOK, NEW r \in Clients, EditBegin(r)
  PROVE  TypeOK'
<1>1. asked[r] \in Editing  BY RecordOfStep DEF TypeOK, EditBegin
<1>2. PICK seen \in Dates :
        asked' = [asked EXCEPT ![r].step = "writing", ![r].stops = StopsIn(asked[r].trip), ![r].seen = seen]
  <2>1. asked[r].trip \in Trips  BY <1>1 DEF Editing
  <2>2. tripRow[asked[r].trip].date \in Dates  BY <2>1, TripFields DEF TypeOK
  <2>3. DateChanges(asked[r]) => asked[r].date \in Dates  BY <1>1 DEF Editing, DateChanges
  <2>4. (IF DateChanges(asked[r]) THEN asked[r].date ELSE tripRow[asked[r].trip].date) \in Dates  BY <2>2, <2>3
  <2> QED  BY <2>4 DEF EditBegin
<1>3. [asked[r] EXCEPT !.step = "writing", !.stops = StopsIn(asked[r].trip), !.seen = seen] \in Editing
  BY <1>1 DEF Editing, StopsIn
<1>4. asked' = [asked EXCEPT ![r] = [asked[r] EXCEPT !.step = "writing", !.stops = StopsIn(asked[r].trip), !.seen = seen]]
  BY <1>2 DEF TypeOK, RequestsOK
<1>5. RequestsOK'  BY <1>3, <1>4, NextStepKeepsType DEF TypeOK
<1>6. RowsOK'  BY DEF EditBegin, tables, TypeOK, RowsOK
<1>7. TransactionsOK'  BY BeginKeepsType DEF EditBegin, TypeOK
<1> QED  BY <1>5, <1>6, <1>7 DEF TypeOK

LEMMA RowsOfEditType ==
  ASSUME NEW e \in Editing
  PROVE  RowsOfEdit(e) \in SUBSET (Trips \cup Stops)
BY DEF RowsOfEdit, Editing

(* What an edit writes to its trip. *)
LEMMA EditCommitTrip ==
  ASSUME TypeOK, NEW r \in Clients, EditCommit(r)
  PROVE  LET e == asked[r]
             t == e.trip
         IN /\ e \in Editing /\ t \in Trips /\ e.was \in TripRows
            /\ tripRow' \in [Trips -> TripRows]
            /\ \A u \in Trips : /\ tripRow'[u].live = tripRow[u].live
                                /\ u # t => tripRow'[u] = tripRow[u]
            /\ tripRow'[t].date = Changed(e.date, e.was.date, tripRow[t].date)
            /\ tripRow'[t].vehicle = Changed(e.crew[1], e.was.vehicle, tripRow[t].vehicle)
            /\ tripRow'[t].driver = Changed(e.crew[2], e.was.driver, tripRow[t].driver)
<1>1. asked[r] \in Editing  BY RecordOfStep DEF TypeOK, EditCommit
<1> PICK e \in Editing : e = asked[r]  BY <1>1
<1> PICK t \in Trips : t = e.trip  BY DEF Editing
<1>2. e.was \in TripRows  BY DEF Editing
<1>3. tripRow[t] \in TripRows  BY TripFields DEF TypeOK
<1>4. e.crew[1] \in Vehicles \cup {None, Unset} /\ e.crew[2] \in Drivers \cup {None, Unset}
  BY CrewsNameRows DEF Editing
<1>5. e.date \in Dates \cup {Unset}  BY DEF Editing
<1>6. PICK date \in Dates : date = Changed(e.date, e.was.date, tripRow[t].date)
  BY <1>3, <1>5 DEF Changed, TripRows
<1>7. PICK v \in Vehicles \cup {None} : v = Changed(e.crew[1], e.was.vehicle, tripRow[t].vehicle)
  BY <1>3, <1>4 DEF Changed, TripRows
<1>8. PICK d \in Drivers \cup {None} : d = Changed(e.crew[2], e.was.driver, tripRow[t].driver)
  BY <1>3, <1>4 DEF Changed, TripRows
<1>9. tripRow' = [tripRow EXCEPT ![t].date = Changed(e.date, e.was.date, @),
                                 ![t].vehicle = Changed(e.crew[1], e.was.vehicle, @),
                                 ![t].driver = Changed(e.crew[2], e.was.driver, @)]
  BY DEF EditCommit
<1>10. tripRow \in [Trips -> TripRows]  BY DEF TypeOK, RowsOK
<1>11. tripRow' = [tripRow EXCEPT ![t] = [tripRow[t] EXCEPT !.date = date, !.vehicle = v, !.driver = d]]
  BY <1>3, <1>6, <1>7, <1>8, <1>9, <1>10 DEF TripRows
<1>12. [tripRow[t] EXCEPT !.date = date, !.vehicle = v, !.driver = d] \in TripRows  BY <1>3 DEF TripRows
<1>13. tripRow' \in [Trips -> TripRows]  BY <1>10, <1>11, <1>12
<1>14. tripRow'[t] = [tripRow[t] EXCEPT !.date = date, !.vehicle = v, !.driver = d]  BY <1>10, <1>11
<1>15. /\ tripRow'[t].live = tripRow[t].live /\ tripRow'[t].date = date
       /\ tripRow'[t].vehicle = v /\ tripRow'[t].driver = d
  BY <1>3, <1>14 DEF TripRows
<1>16. \A u \in Trips : u # t => tripRow'[u] = tripRow[u]  BY <1>10, <1>11
<1> QED  BY <1>2, <1>6, <1>7, <1>8, <1>13, <1>15, <1>16

(* What it writes to the stops: a stop keeps its trip, is dropped, or is new. *)
LEMMA EditCommitStops ==
  ASSUME TypeOK, NEW r \in Clients, EditCommit(r),
         \A s \in asked[r].stops : stopRow[s].trip = asked[r].trip
  PROVE  /\ stopRow' \in [Stops -> StopRows]
         /\ \A s \in Stops : \/ stopRow'[s].trip = stopRow[s].trip
                             \/ s \in Dropped(asked[r])
                             \/ stopRow[s].trip = Unborn
<1> PICK e \in Editing : e = asked[r]  BY RecordOfStep DEF TypeOK, EditCommit
<1> PICK t \in Trips : t = e.trip  BY DEF Editing
<1>1. PICK add \in AddedStops(e) :
        stopRow' = [s \in Stops |->
                CASE s \in add        -> [trip |-> t, time |-> IF e.new = Unset THEN None ELSE e.new]
                  [] s \in Dropped(e) -> [trip |-> Gone, time |-> None]
                  [] s \in Retimed(e) -> [trip |-> t, time |-> e.times[s]]
                  [] OTHER            -> stopRow[s]]
  BY DEF EditCommit
<1>2. \A s \in add : stopRow[s].trip = Unborn  BY DEF AddedStops
<1>3. \A s \in e.stops : s \notin add  BY <1>2, RowsAreDistinct
<1>4. \A s \in Stops : s \in add => s \notin Dropped(e) /\ s \notin Retimed(e)
  BY <1>3 DEF Dropped, Retimed
<1>5. \A s \in Stops : s \in Retimed(e) => s \notin Dropped(e) /\ s \in e.stops  BY DEF Dropped, Retimed
<1>6. e.new \in Times \cup {Unset, None}  BY DEF Editing
<1>7. \A s \in Retimed(e) : e.times[s] \in Times
  <2>1. PICK keep \in SUBSET Stops : e.times \in [keep -> Times \cup {Unset}]  BY DEF Editing, GivenTimes
  <2> QED  BY <2>1 DEF Retimed
<1>8. ASSUME NEW s \in Stops
      PROVE  /\ stopRow'[s] \in StopRows
             /\ \/ stopRow'[s].trip = stopRow[s].trip \/ s \in Dropped(e) \/ stopRow[s].trip = Unborn
  <2>1. stopRow'[s] = CASE s \in add        -> [trip |-> t, time |-> IF e.new = Unset THEN None ELSE e.new]
                  [] s \in Dropped(e) -> [trip |-> Gone, time |-> None]
                  [] s \in Retimed(e) -> [trip |-> t, time |-> e.times[s]]
                  [] OTHER            -> stopRow[s]
    BY <1>1
  <2>2. CASE s \in add
    <3>1. stopRow'[s] = [trip |-> t, time |-> IF e.new = Unset THEN None ELSE e.new]  BY <2>1, <2>2, <1>4
    <3> QED  BY <3>1, <1>6, <1>2, <2>2 DEF StopRows
  <2>3. CASE s \in Dropped(e)
    <3>1. stopRow'[s] = [trip |-> Gone, time |-> None]  BY <2>1, <2>3, <1>4, <1>5
    <3> QED  BY <3>1, <2>3 DEF StopRows
  <2>4. CASE s \in Retimed(e)
    <3>1. stopRow'[s] = [trip |-> t, time |-> e.times[s]]  BY <2>1, <2>4, <1>4, <1>5
    <3> QED  BY <3>1, <2>4, <1>5, <1>7 DEF StopRows
  <2>5. CASE s \notin add \cup Dropped(e) \cup Retimed(e)
    <3>1. stopRow'[s] = stopRow[s]  BY <2>1, <2>5
    <3> QED  BY <3>1 DEF TypeOK, RowsOK
  <2> QED  BY <2>2, <2>3, <2>4, <2>5
<1> QED  BY <1>1, <1>8

(* An edit that is written: no stop of the trip was written since its snapshot. *)
LEMMA EditHasItsStops ==
  ASSUME TypeOK, NEW r \in Clients, EditKnowsStops(r), asked[r].step = "writing", EditFits(r)
  PROVE  /\ asked[r].trip \in Trips /\ asked[r].stops \subseteq Stops
         /\ \A s \in asked[r].stops : stopRow[s].trip = asked[r].trip
         /\ DateChanges(asked[r]) => asked[r].trip \notin stale[r]
<1> PICK e \in Editing : e = asked[r]  BY RecordOfStep DEF TypeOK
<1>1. e.trip \in Trips /\ e.stops \subseteq Stops  BY DEF Editing
<1>2. stale[r] \cap RowsOfEdit(e) = {}  BY DEF EditFits, Conflict
<1> QED  BY <1>1, <1>2 DEF EditKnowsStops, RowsOfEdit

LEMMA EditCommitType ==
  ASSUME TypeOK, NEW r \in Clients, EditKnowsStops(r), EditCommit(r)
  PROVE  TypeOK'
<1>1. asked[r] \in Editing /\ tripRow' \in [Trips -> TripRows]  BY EditCommitTrip
<1>2. \A s \in asked[r].stops : stopRow[s].trip = asked[r].trip  BY EditHasItsStops DEF EditCommit
<1>3. stopRow' \in [Stops -> StopRows]  BY <1>2, EditCommitStops
<1>4. RowsOK'  BY <1>1, <1>3 DEF EditCommit, TypeOK, RowsOK
<1>5. RequestsOK'  BY AnswerKeepsType DEF EditCommit, TypeOK
<1>6. TransactionsOK'  BY <1>1, RowsOfEditType, EndKeepsType DEF EditCommit, TypeOK
<1> QED  BY <1>4, <1>5, <1>6 DEF TypeOK

(* A request is answered, and changes no table. *)
LEMMA RefusedType ==
  ASSUME TypeOK, NEW r \in Clients, asked' = [asked EXCEPT ![r] = Answered], UNCHANGED tables,
         EndTx(r, {}) \/ UNCHANGED <<open, stale>>
  PROVE  TypeOK'
<1>1. RowsOK'  BY DEF tables, TypeOK, RowsOK
<1>2. RequestsOK'  BY AnswerKeepsType DEF TypeOK
<1>3. TransactionsOK'  BY SameKeepsType, EndKeepsType DEF TypeOK
<1> QED  BY <1>1, <1>2, <1>3 DEF TypeOK

LEMMA ChosenType ==
  ASSUME TypeOK, NEW r \in Clients, NEW t \in Trips, NEW v \in Vehicles \cup {None}, NEW d \in Drivers,
         asked' = [asked EXCEPT ![r] = [step |-> "chosen", trip |-> t, vehicle |-> v, driver |-> d]],
         UNCHANGED <<tables, history, open, stale>>
  PROVE  TypeOK'
<1>1. [step |-> "chosen", trip |-> t, vehicle |-> v, driver |-> d] \in Choosing  BY DEF Choosing
<1>2. RequestsOK'  BY <1>1, NextStepKeepsType DEF TypeOK
<1>3. RowsOK'  BY DEF tables, TypeOK, RowsOK
<1>4. TransactionsOK'  BY SameKeepsType DEF TypeOK
<1> QED  BY <1>2, <1>3, <1>4 DEF TypeOK

LEMMA SetVehicleType ==
  ASSUME TypeOK, NEW r \in Clients, NEW t \in Trips, NEW v \in Vehicles, SetVehicleRead(r, t, v)
  PROVE  TypeOK'
<1>1. owner[v] \in Drivers  BY DEF SetVehicleRead, Exists
<1> QED  BY <1>1, ChosenType DEF SetVehicleRead

LEMMA SetDriverType ==
  ASSUME TypeOK, NEW r \in Clients, NEW t \in Trips, NEW d \in Drivers, SetDriverRead(r, t, d)
  PROVE  TypeOK'
<1>1. PICK v \in Vehicles \cup {None} :
        asked' = [asked EXCEPT ![r] = [step |-> "chosen", trip |-> t, vehicle |-> v, driver |-> d]]
  BY DEF SetDriverRead
<1> QED  BY <1>1, ChosenType DEF SetDriverRead

LEMMA CrewTripType ==
  ASSUME TypeOK, NEW r \in Clients, CrewTripRead(r)
  PROVE  TypeOK'
<1> PICK a \in Choosing : a = asked[r]  BY RecordOfStep DEF TypeOK, CrewTripRead
<1>1. a.trip \in Trips  BY DEF Choosing
<1>2. tripRow[a.trip] \in TripRows  BY <1>1, TripFields DEF TypeOK
<1>3. [step |-> "saving", trip |-> a.trip, vehicle |-> a.vehicle, driver |-> a.driver, was |-> tripRow[a.trip]] \in Saving
  BY <1>2 DEF Choosing, Saving
<1>4. RequestsOK'
  <2>1. CASE tripRow[a.trip].live
    <3>1. asked' = [asked EXCEPT ![r] = [step |-> "saving", trip |-> a.trip, vehicle |-> a.vehicle,
                                         driver |-> a.driver, was |-> tripRow[a.trip]]]
      BY <2>1 DEF CrewTripRead
    <3> QED  BY <3>1, <1>3, NextStepKeepsType DEF TypeOK
  <2>2. CASE ~tripRow[a.trip].live
    <3>1. asked' = [asked EXCEPT ![r] = Answered]  BY <2>2 DEF CrewTripRead
    <3> QED  BY <3>1, AnswerKeepsType DEF TypeOK
  <2> QED  BY <2>1, <2>2
<1>5. RowsOK'  BY DEF CrewTripRead, tables, TypeOK, RowsOK
<1>6. TransactionsOK'  BY SameKeepsType DEF CrewTripRead, TypeOK
<1> QED  BY <1>4, <1>5, <1>6 DEF TypeOK

(* What setVehicle and setDriver save of a trip. *)
LEMMA CrewSaveTrip ==
  ASSUME TypeOK, NEW r \in Clients, CrewSave(r)
  PROVE  LET a == asked[r]
             t == a.trip
         IN /\ a \in Saving /\ t \in Trips
            /\ tripRow' \in [Trips -> TripRows]
            /\ \A u \in Trips : u # t => tripRow'[u] = tripRow[u]
            /\ tripRow'[t].live = tripRow[t].live /\ tripRow'[t].date = tripRow[t].date
            /\ tripRow'[t].vehicle = Changed(a.vehicle, a.was.vehicle, tripRow[t].vehicle)
            /\ tripRow'[t].driver = Changed(a.driver, a.was.driver, tripRow[t].driver)
<1> PICK a \in Saving : a = asked[r]  BY RecordOfStep DEF TypeOK, CrewSave
<1> PICK t \in Trips : t = a.trip  BY DEF Saving
<1>1. tripRow[t] \in TripRows  BY TripFields DEF TypeOK
<1>2. PICK v \in Vehicles \cup {None} : v = Changed(a.vehicle, a.was.vehicle, tripRow[t].vehicle)
  BY <1>1 DEF Changed, TripRows, Saving
<1>3. PICK d \in Drivers \cup {None} : d = Changed(a.driver, a.was.driver, tripRow[t].driver)
  BY <1>1 DEF Changed, TripRows, Saving
<1>4. SavedCrew(a, tripRow[t]) = [tripRow[t] EXCEPT !.vehicle = v, !.driver = d]
  BY <1>1, <1>2, <1>3 DEF SavedCrew, TripRows
<1>5. tripRow \in [Trips -> TripRows]  BY DEF TypeOK, RowsOK
<1>6. tripRow' = [tripRow EXCEPT ![t] = [tripRow[t] EXCEPT !.vehicle = v, !.driver = d]]
  BY <1>4, <1>5 DEF CrewSave
<1>7. [tripRow[t] EXCEPT !.vehicle = v, !.driver = d] \in TripRows  BY <1>1 DEF TripRows
<1>8. tripRow' \in [Trips -> TripRows]  BY <1>5, <1>6, <1>7
<1>9. tripRow'[t] = [tripRow[t] EXCEPT !.vehicle = v, !.driver = d]  BY <1>5, <1>6
<1>10. /\ tripRow'[t].live = tripRow[t].live /\ tripRow'[t].date = tripRow[t].date
       /\ tripRow'[t].vehicle = v /\ tripRow'[t].driver = d
  BY <1>1, <1>9 DEF TripRows
<1>11. \A u \in Trips : u # t => tripRow'[u] = tripRow[u]  BY <1>5, <1>6
<1> QED  BY <1>2, <1>3, <1>8, <1>10, <1>11

LEMMA CrewSaveType ==
  ASSUME TypeOK, NEW r \in Clients, CrewSave(r)
  PROVE  TypeOK'
<1>1. asked[r].trip \in Trips /\ tripRow' \in [Trips -> TripRows]  BY CrewSaveTrip
<1>2. RowsOK'  BY <1>1 DEF CrewSave, TypeOK, RowsOK
<1>3. RequestsOK'  BY AnswerKeepsType DEF CrewSave, TypeOK
<1>4. PICK rows \in SUBSET (Trips \cup Stops) : EndTx(r, rows)  BY <1>1 DEF CrewSave
<1>5. TransactionsOK'  BY <1>4, EndKeepsType DEF TypeOK
<1> QED  BY <1>2, <1>3, <1>5 DEF TypeOK

LEMMA OwnerType ==
  ASSUME TypeOK, NEW r \in Clients, NEW v \in Vehicles, NEW d \in Drivers, GiveVehicle(r, v, d) \/ AddVehicle(r, v, d)
  PROVE  TypeOK'
<1>1. owner' \in [Vehicles -> Drivers \cup {Unborn, Gone}]
  BY DEF GiveVehicle, AddVehicle, TypeOK, RowsOK
<1>2. RowsOK'  BY <1>1 DEF GiveVehicle, AddVehicle, TypeOK, RowsOK
<1>3. RequestsOK'  BY AnswerKeepsType DEF GiveVehicle, AddVehicle, TypeOK
<1>4. TransactionsOK'  BY SameKeepsType DEF GiveVehicle, AddVehicle, TypeOK
<1> QED  BY <1>2, <1>3, <1>4 DEF TypeOK

(* The deletion of a vehicle takes it off every trip. *)
LEMMA DeleteVehicleTrip ==
  ASSUME TypeOK, NEW r \in Clients, NEW v \in Vehicles, DeleteVehicle(r, v)
  PROVE  /\ tripRow' \in [Trips -> TripRows]
         /\ \A t \in Trips : /\ tripRow'[t].live = tripRow[t].live
                             /\ tripRow'[t].date = tripRow[t].date
                             /\ tripRow'[t].driver = tripRow[t].driver
                             /\ tripRow'[t].vehicle = IF tripRow[t].vehicle = v THEN None ELSE tripRow[t].vehicle
<1>1. tripRow' = [t \in Trips |-> IF tripRow[t].vehicle = v THEN [tripRow[t] EXCEPT !.vehicle = None] ELSE tripRow[t]]
  BY DEF DeleteVehicle
<1>2. ASSUME NEW t \in Trips
      PROVE  /\ tripRow'[t] \in TripRows
             /\ tripRow'[t].live = tripRow[t].live
             /\ tripRow'[t].date = tripRow[t].date
             /\ tripRow'[t].driver = tripRow[t].driver
             /\ tripRow'[t].vehicle = IF tripRow[t].vehicle = v THEN None ELSE tripRow[t].vehicle
  <2>1. tripRow[t] \in TripRows  BY TripFields DEF TypeOK
  <2>2. tripRow'[t] = IF tripRow[t].vehicle = v THEN [tripRow[t] EXCEPT !.vehicle = None] ELSE tripRow[t]  BY <1>1
  <2> QED  BY <2>1, <2>2 DEF TripRows
<1> QED  BY <1>1, <1>2

LEMMA DeleteVehicleType ==
  ASSUME TypeOK, NEW r \in Clients, NEW v \in Vehicles, DeleteVehicle(r, v)
  PROVE  TypeOK'
<1>1. owner' \in [Vehicles -> Drivers \cup {Unborn, Gone}]  BY DEF DeleteVehicle, TypeOK, RowsOK
<1>2. RowsOK'  BY <1>1, DeleteVehicleTrip DEF DeleteVehicle, TypeOK, RowsOK
<1>3. RequestsOK'  BY AnswerKeepsType DEF DeleteVehicle, TypeOK
<1>4. TripsWith(v) \in SUBSET (Trips \cup Stops)  BY DEF TripsWith
<1>5. TransactionsOK'  BY <1>4, EndKeepsType DEF DeleteVehicle, TypeOK
<1> QED  BY <1>2, <1>3, <1>5 DEF TypeOK

LEMMA BookBeginType ==
  ASSUME TypeOK, NEW r \in Clients, NEW t \in Trips, BookBegin(r, t)
  PROVE  TypeOK'
<1>1. PICK S \in StopsToAsk(t) :
        asked' = [asked EXCEPT ![r] = [step |-> "booking", trip |-> t, stops |-> S, date |-> tripRow[t].date]]
  BY DEF BookBegin
<1>2. S \in SUBSET Stops  BY DEF StopsToAsk, StopsIn
<1>3. [step |-> "booking", trip |-> t, stops |-> S, date |-> tripRow[t].date] \in Booking
  BY <1>2, TripFields DEF Booking, TypeOK
<1>4. RequestsOK'  BY <1>1, <1>3, NextStepKeepsType DEF TypeOK
<1>5. RowsOK'  BY DEF BookBegin, tables, TypeOK, RowsOK
<1>6. TransactionsOK'  BY BeginKeepsType DEF BookBegin, TypeOK
<1> QED  BY <1>4, <1>5, <1>6 DEF TypeOK

LEMMA BookCommitType ==
  ASSUME TypeOK, NEW r \in Clients, BookCommit(r)
  PROVE  TypeOK'
<1> PICK b \in Booking : b = asked[r]  BY RecordOfStep DEF TypeOK, BookCommit
<1>1. [status |-> "valid", stops |-> b.stops, date |-> b.date] \in Tickets  BY DEF Booking, Tickets, Statuses
<1>2. booked' \in [Clients -> Tickets]  BY <1>1 DEF BookCommit, TypeOK, RowsOK
<1>3. RowsOK'  BY <1>2 DEF BookCommit, TypeOK, RowsOK
<1>4. RequestsOK'  BY AnswerKeepsType DEF BookCommit, TypeOK
<1>5. {b.trip} \in SUBSET (Trips \cup Stops)  BY DEF Booking
<1>6. TransactionsOK'  BY <1>5, EndKeepsType DEF BookCommit, TypeOK
<1> QED  BY <1>3, <1>4, <1>6 DEF TypeOK

(* The trip of a ticket is the one its stops are of. *)
LEMMA TripOfRiding ==
  ASSUME NEW b \in Clients, NEW t \in Trips, Riding(b, t), booked[b].stops \subseteq Stops
  PROVE  TripOf(b) = t
<1>1. booked[b].stops \cap StopsIn(t) # {}  BY DEF Riding, HasTicket
<1>2. ASSUME NEW u \in Trips, booked[b].stops \cap StopsIn(u) # {}
      PROVE  u = t
  BY <1>2 DEF Riding, StopsIn
<1> QED  BY <1>1, <1>2 DEF TripOf

(* One field of a ticket is written. *)
LEMMA ChangeTicketRow ==
  ASSUME TypeOK, NEW b \in Clients, NEW status \in Statuses, ChangeTicket(b, status)
  PROVE  /\ booked' \in [Clients -> Tickets]
         /\ \A c \in Clients : /\ booked'[c].stops = booked[c].stops
                               /\ booked'[c].date = booked[c].date
                               /\ c # b => booked'[c] = booked[c]
         /\ booked[b].status \in Statuses /\ booked'[b].status = status
<1>1. booked \in [Clients -> Tickets]  BY DEF TypeOK, RowsOK
<1>2. booked' = [booked EXCEPT ![b].status = status]  BY DEF ChangeTicket
<1>3. booked' = [booked EXCEPT ![b] = [booked[b] EXCEPT !.status = status]]  BY <1>1, <1>2
<1>4. [booked[b] EXCEPT !.status = status] \in Tickets  BY <1>1 DEF Tickets
<1>5. booked'[b] = [booked[b] EXCEPT !.status = status]  BY <1>1, <1>3
<1>6. /\ booked'[b].stops = booked[b].stops /\ booked'[b].date = booked[b].date
      /\ booked'[b].status = status
  BY <1>1, <1>5 DEF Tickets
<1>7. booked[b].status \in Statuses  BY DEF ChangeTicket, StatusAfter, Statuses
<1> QED  BY <1>1, <1>3, <1>4, <1>6, <1>7

LEMMA ChangeTicketType ==
  ASSUME TypeOK, NoStopsNoTicket, TicketsRideATrip, NEW b \in Clients, NEW status \in Statuses, ChangeTicket(b, status)
  PROVE  TypeOK'
<1>1. RowsOK'  BY ChangeTicketRow DEF ChangeTicket, TypeOK, RowsOK
<1>2. RequestsOK'  BY DEF ChangeTicket, TypeOK, RequestsOK
<1>3. HasTicket(b)  BY ChangeTicketRow, RowsAreDistinct DEF NoStopsNoTicket
<1>4. PICK t \in Trips : Riding(b, t)  BY <1>3 DEF TicketsRideATrip, Riding
<1>5. booked[b].stops \subseteq Stops  BY DEF TypeOK, RowsOK, Tickets
<1>6. TripOf(b) \in Trips  BY <1>4, <1>5, TripOfRiding
<1>7. PICK rows \in SUBSET (Trips \cup Stops) : EndTx(b, rows)  BY <1>6 DEF ChangeTicket
<1>8. TransactionsOK'  BY <1>7, EndKeepsType DEF TypeOK
<1> QED  BY <1>1, <1>2, <1>8 DEF TypeOK

-----------------------------------------------------------------------------
(* The vehicle of a trip *)

LEMMA CrewStays ==
  ASSUME CrewInv, UNCHANGED owner, apart \subseteq apart',
         \A t \in Trips : /\ tripRow'[t].live => tripRow[t].live
                          /\ tripRow'[t].vehicle = tripRow[t].vehicle
                          /\ tripRow'[t].driver = tripRow[t].driver
  PROVE  CrewInv'
BY DEF CrewInv, OwnVehicle, Exists

LEMMA PostTripCrew ==
  ASSUME TypeOK, CrewInv, NEW r \in Clients, NEW t \in Trips, NEW date \in Dates, PostTrip(r, t, date)
  PROVE  CrewInv'
<1>1. tripRow' = [tripRow EXCEPT ![t] = [live |-> TRUE, date |-> date, vehicle |-> None, driver |-> None]]
      /\ UNCHANGED <<owner, apart>>
  BY DEF PostTrip
<1> SUFFICES ASSUME NEW u \in Trips PROVE OwnVehicle(u)'  BY DEF CrewInv
<1>2. CASE u = t
  <2>1. tripRow'[u].vehicle = None  BY <1>1, <1>2 DEF TypeOK, RowsOK
  <2> QED  BY <2>1 DEF OwnVehicle
<1>3. CASE u # t
  <2>1. tripRow'[u] = tripRow[u]  BY <1>1, <1>3 DEF TypeOK, RowsOK
  <2> QED  BY <1>1, <2>1 DEF CrewInv, OwnVehicle, Exists
<1> QED  BY <1>2, <1>3

LEMMA DeleteTripCrew ==
  ASSUME TypeOK, CrewInv, NEW r \in Clients, NEW t \in Trips, DeleteTrip(r, t)
  PROVE  CrewInv'
<1>1. ASSUME NEW u \in Trips
      PROVE  /\ tripRow'[u].live => tripRow[u].live
             /\ tripRow'[u].vehicle = tripRow[u].vehicle /\ tripRow'[u].driver = tripRow[u].driver
  <2>1. tripRow[u] \in TripRows  BY TripFields DEF TypeOK
  <2>2. tripRow'[u] = IF u = t THEN [tripRow[u] EXCEPT !.live = FALSE] ELSE tripRow[u]
    BY DEF DeleteTrip, TypeOK, RowsOK
  <2> QED  BY <2>1, <2>2 DEF TripRows
<1> QED  BY <1>1, CrewStays DEF DeleteTrip, history

LEMMA EditCommitCrew ==
  ASSUME TypeOK, CrewInv, NEW r \in Clients, EditCommit(r)
  PROVE  CrewInv'
<1> PICK e \in Editing : e = asked[r]  BY EditCommitTrip
<1> PICK t \in Trips : t = e.trip  BY DEF Editing
<1>1. UNCHANGED owner /\ apart' = IF CrewChanges(e) THEN apart \cup {t} ELSE apart  BY DEF EditCommit
<1>2. \A u \in Trips : /\ tripRow'[u].live = tripRow[u].live
                       /\ u # t => tripRow'[u] = tripRow[u]
  BY EditCommitTrip
<1>3. CASE CrewChanges(e)
  <2>1. apart' = apart \cup {t}  BY <1>1, <1>3
  <2> QED  BY <1>1, <1>2, <2>1 DEF CrewInv, OwnVehicle, Exists
<1>4. CASE ~CrewChanges(e)
  <2>1. e.crew[1] \in {Unset, e.was.vehicle} /\ e.crew[2] \in {Unset, e.was.driver}  BY <1>4 DEF CrewChanges
  <2>2. tripRow'[t].vehicle = tripRow[t].vehicle /\ tripRow'[t].driver = tripRow[t].driver
    BY <2>1, EditCommitTrip DEF Changed
  <2>3. apart' = apart  BY <1>1, <1>4
  <2> QED  BY <1>1, <1>2, <2>2, <2>3, CrewStays
<1> QED  BY <1>3, <1>4

LEMMA CrewSaveCrew ==
  ASSUME TypeOK, CrewInv, NEW r \in Clients, CrewSave(r)
  PROVE  CrewInv'
<1> PICK a \in Saving : a = asked[r]  BY CrewSaveTrip
<1> PICK t \in Trips : t = a.trip  BY DEF Saving
<1>1. UNCHANGED owner /\ MaySave(a)  BY DEF CrewSave
<1>2. \A u \in Trips : u # t => tripRow'[u] = tripRow[u]  BY CrewSaveTrip
<1>3. apart' = IF SameCrew(tripRow[t], a.was) /\ (a.vehicle = None \/ owner[a.vehicle] = a.driver)
                 THEN apart \ {t} ELSE apart \cup {t}
  BY DEF CrewSave
<1> SUFFICES ASSUME NEW u \in Trips PROVE OwnVehicle(u)'  BY DEF CrewInv
<1>4. CASE u # t
  BY <1>1, <1>2, <1>3, <1>4 DEF CrewInv, OwnVehicle, Exists
<1>5. CASE u = t
  <2>1. CASE SameCrew(tripRow[t], a.was) /\ (a.vehicle = None \/ owner[a.vehicle] = a.driver)
    <3>1. a.vehicle # Unset /\ a.driver # Unset  BY UnsetNamesNothing DEF Saving
    <3>2. tripRow'[t].vehicle = a.vehicle /\ tripRow'[t].driver = a.driver
      BY <2>1, <3>1, CrewSaveTrip DEF Changed, SameCrew
    <3> QED  BY <1>1, <1>5, <2>1, <3>2 DEF OwnVehicle, MaySave, Exists
  <2>2. CASE ~(SameCrew(tripRow[t], a.was) /\ (a.vehicle = None \/ owner[a.vehicle] = a.driver))
    <3>1. t \in apart'  BY <1>3, <2>2
    <3> QED  BY <3>1, <1>5 DEF OwnVehicle
  <2> QED  BY <2>1, <2>2
<1> QED  BY <1>4, <1>5

LEMMA GiveVehicleCrew ==
  ASSUME TypeOK, CrewInv, NEW r \in Clients, NEW v \in Vehicles, NEW d \in Drivers, GiveVehicle(r, v, d)
  PROVE  CrewInv'
<1>1. UNCHANGED tripRow /\ owner' = [owner EXCEPT ![v] = d]
      /\ apart' = IF d = owner[v] THEN apart ELSE apart \cup TripsWith(v)
  BY DEF GiveVehicle
<1> SUFFICES ASSUME NEW t \in Trips, OwnVehicle(t), t \notin apart', tripRow[t].live, tripRow[t].vehicle # None
             PROVE  owner'[tripRow[t].vehicle] \in Drivers /\ owner'[tripRow[t].vehicle] = tripRow[t].driver
  BY <1>1 DEF CrewInv, OwnVehicle, Exists
<1>2. t \notin apart  BY <1>1
<1>3. tripRow[t].vehicle \in Vehicles  BY TripFields DEF TypeOK
<1>4. owner[tripRow[t].vehicle] \in Drivers /\ owner[tripRow[t].vehicle] = tripRow[t].driver
  BY <1>2 DEF OwnVehicle, Exists
<1>5. CASE tripRow[t].vehicle = v
  <2>1. t \in TripsWith(v)  BY <1>5 DEF TripsWith
  <2>2. d = owner[v]  BY <1>1, <2>1
  <2> QED  BY <1>1, <1>3, <1>4, <1>5, <2>2 DEF TypeOK, RowsOK
<1>6. CASE tripRow[t].vehicle # v
  BY <1>1, <1>3, <1>4, <1>6 DEF TypeOK, RowsOK
<1> QED  BY <1>5, <1>6

LEMMA AddVehicleCrew ==
  ASSUME TypeOK, CrewInv, NEW r \in Clients, NEW v \in Vehicles, NEW d \in Drivers, AddVehicle(r, v, d)
  PROVE  CrewInv'
<1>1. UNCHANGED <<tripRow, apart>> /\ owner' = [owner EXCEPT ![v] = d] /\ owner[v] = Unborn
  BY DEF AddVehicle, history
<1> SUFFICES ASSUME NEW t \in Trips, OwnVehicle(t), t \notin apart, tripRow[t].live, tripRow[t].vehicle # None
             PROVE  owner'[tripRow[t].vehicle] \in Drivers /\ owner'[tripRow[t].vehicle] = tripRow[t].driver
  BY <1>1 DEF CrewInv, OwnVehicle, Exists
<1>2. tripRow[t].vehicle \in Vehicles  BY TripFields DEF TypeOK
<1>3. owner[tripRow[t].vehicle] \in Drivers /\ owner[tripRow[t].vehicle] = tripRow[t].driver
  BY DEF OwnVehicle, Exists
<1>4. owner' \in [Vehicles -> Drivers \cup {Unborn, Gone}]  BY <1>1 DEF TypeOK, RowsOK
<1>5. CASE tripRow[t].vehicle # v  BY <1>1, <1>2, <1>3, <1>5 DEF TypeOK, RowsOK
<1>6. CASE tripRow[t].vehicle = v  BY <1>1, <1>3, <1>6, RowsAreDistinct
<1> QED  BY <1>5, <1>6

LEMMA DeleteVehicleCrew ==
  ASSUME TypeOK, CrewInv, NEW r \in Clients, NEW v \in Vehicles, DeleteVehicle(r, v)
  PROVE  CrewInv'
<1>1. UNCHANGED apart /\ owner' = [owner EXCEPT ![v] = Gone]  BY DEF DeleteVehicle, history
<1> SUFFICES ASSUME NEW t \in Trips, t \notin apart, tripRow'[t].live, tripRow'[t].vehicle # None
             PROVE  owner'[tripRow'[t].vehicle] \in Drivers /\ owner'[tripRow'[t].vehicle] = tripRow'[t].driver
  BY <1>1 DEF CrewInv, OwnVehicle, Exists
<1>2. /\ tripRow[t].live /\ tripRow[t].vehicle # v /\ tripRow'[t].vehicle = tripRow[t].vehicle
      /\ tripRow'[t].driver = tripRow[t].driver
  BY DeleteVehicleTrip
<1>3. tripRow[t].vehicle \in Vehicles  BY <1>2, TripFields DEF TypeOK
<1>4. owner[tripRow[t].vehicle] \in Drivers /\ owner[tripRow[t].vehicle] = tripRow[t].driver
  BY <1>2 DEF CrewInv, OwnVehicle, Exists
<1> QED  BY <1>1, <1>2, <1>3, <1>4 DEF TypeOK, RowsOK

-----------------------------------------------------------------------------
(* The date of a ticket: what a step leaves alone.  None of the tickets'     *)
(* stops changes its trip, since a stop that does was dropped or unborn.     *)

HeldStopsStay == \A b \in Clients : \A s \in booked[b].stops : stopRow'[s].trip = stopRow[s].trip
TicketsStand  == \A b \in Clients : booked'[b].stops = booked[b].stops /\ booked'[b].date = booked[b].date
TripsStand    == \A t \in Trips : tripRow'[t].live = tripRow[t].live /\ tripRow'[t].date = tripRow[t].date

LEMMA RidingStays ==
  ASSUME TypeOK, HeldStopsStay, TicketsStand, NEW b \in Clients, NEW t \in Trips
  PROVE  Riding(b, t)' <=> Riding(b, t)
<1>1. booked[b].stops \subseteq Stops  BY DEF TypeOK, RowsOK, Tickets
<1>2. booked'[b].stops = booked[b].stops  BY DEF TicketsStand
<1>3. \A s \in booked[b].stops : stopRow'[s].trip = stopRow[s].trip  BY DEF HeldStopsStay
<1>4. (booked[b].stops \subseteq StopsIn(t))' <=> booked[b].stops \subseteq StopsIn(t)
  BY <1>1, <1>2, <1>3 DEF StopsIn
<1> QED  BY <1>2, <1>4 DEF Riding, HasTicket

(* A ticket's trip cannot be deleted, and its date changes only if it is late. *)
LEMMA TicketsStay ==
  ASSUME TypeOK, DateInv, HeldStopsStay, TicketsStand, late \subseteq late',
         \A b \in Clients, t \in Trips :
            Riding(b, t) /\ tripRow[t].live
              => tripRow'[t].live /\ (tripRow'[t].date = tripRow[t].date \/ b \in late')
  PROVE  TicketsRideATrip' /\ \A b \in Clients, t \in Trips : DateKept(b, t)'
<1>1. \A b \in Clients, t \in Trips : Riding(b, t)' <=> Riding(b, t)  BY RidingStays
<1>2. \A b \in Clients : HasTicket(b)' <=> HasTicket(b)  BY DEF HasTicket, TicketsStand
<1>3. TicketsRideATrip'
  <2> SUFFICES ASSUME NEW b \in Clients, HasTicket(b)'
               PROVE  (\E t \in Trips : tripRow[t].live /\ booked[b].stops \subseteq StopsIn(t))'
    BY DEF TicketsRideATrip
  <2>1. PICK t \in Trips : tripRow[t].live /\ booked[b].stops \subseteq StopsIn(t)
    BY <1>2 DEF DateInv, TicketsRideATrip
  <2>2. Riding(b, t)  BY <1>2, <2>1 DEF Riding
  <2>3. tripRow'[t].live /\ Riding(b, t)'  BY <1>1, <2>1, <2>2
  <2> QED  BY <2>3 DEF Riding
<1>4. ASSUME NEW b \in Clients, NEW t \in Trips PROVE DateKept(b, t)'
  <2> SUFFICES ASSUME Riding(b, t), booked'[b].date # tripRow'[t].date PROVE b \in late'
    BY <1>1 DEF DateKept
  <2>1. PICK u \in Trips : tripRow[u].live /\ booked[b].stops \subseteq StopsIn(u)
    BY DEF DateInv, TicketsRideATrip, Riding
  <2>2. PICK s \in booked[b].stops : TRUE  BY DEF Riding, HasTicket
  <2>3. t = u  BY <2>1, <2>2 DEF Riding, StopsIn
  <2>4. tripRow'[t].date = tripRow[t].date \/ b \in late'  BY <2>1, <2>3
  <2>5. booked'[b].date = booked[b].date  BY DEF TicketsStand
  <2>6. b \in late' \/ booked[b].date # tripRow[t].date  BY <2>4, <2>5
  <2> QED  BY <2>6 DEF DateInv, DateKept
<1> QED  BY <1>3, <1>4

(* A request that does not move knows what it knew: what changed in the       *)
(* tables is among the rows its transaction would conflict with.             *)
TripSeen(x, t) == \/ ~tripRow[t].live
                  \/ tripRow'[t].live /\ tripRow'[t].date = tripRow[t].date
                  \/ t \in stale'[x]
StopSeen(x, s) == \/ stopRow'[s].trip = stopRow[s].trip
                  \/ stopRow[s].trip \notin Trips
                  \/ s \in stale'[x]
TransactionGrows(x) == x \in open => x \in open' /\ stale[x] \subseteq stale'[x]

(* A ticket that is new to trip t is late for the edits that have counted, and *)
(* its sale wrote the trip.                                                   *)
NewTicketSeen(x, b, t) == Riding(b, t)' /\ ~Riding(b, t) =>
                            /\ asked[x].step = "counted" /\ asked[x].trip = t => b \in late'
                            /\ x \in open => t \in stale'[x]

LEMMA RequestStill ==
  ASSUME TypeOK, NEW x \in Clients, RequestKnows(x), asked'[x] = asked[x], late \subseteq late',
         TransactionGrows(x),
         x \in open => \A t \in Trips : TripSeen(x, t),
         x \in open => \A s \in Stops : StopSeen(x, s),
         \A b \in Clients, t \in Trips : NewTicketSeen(x, b, t)
  PROVE  RequestKnows(x)'
<1>1. InTransaction(x)'  BY DEF RequestKnows, InTransaction, TransactionGrows
<1>2. SaleKnowsTrip(x)'
  <2> SUFFICES ASSUME asked[x].step = "booking"
               PROVE  /\ asked[x].stops # {}
                      /\ \/ asked[x].trip \in stale'[x]
                         \/ tripRow'[asked[x].trip].live /\ tripRow'[asked[x].trip].date = asked[x].date
    BY DEF SaleKnowsTrip
  <2>1. x \in open  BY DEF RequestKnows, InTransaction
  <2>2. asked[x].trip \in Trips  BY RecordOfStep DEF TypeOK, Booking
  <2>3. TripSeen(x, asked[x].trip)  BY <2>1, <2>2
  <2>4. SaleKnowsTrip(x)  BY DEF RequestKnows
  <2> QED  BY <2>1, <2>3, <2>4 DEF SaleKnowsTrip, TripSeen, TransactionGrows
<1>3. EditKnowsStops(x)'
  <2> SUFFICES ASSUME asked[x].step = "writing", NEW s \in asked[x].stops
               PROVE  s \in stale'[x] \/ stopRow'[s].trip = asked[x].trip
    BY DEF EditKnowsStops
  <2>1. x \in open  BY DEF RequestKnows, InTransaction
  <2>2. asked[x].trip \in Trips /\ s \in Stops  BY RecordOfStep DEF TypeOK, Editing
  <2>3. StopSeen(x, s)  BY <2>1, <2>2
  <2>4. s \in stale[x] \/ stopRow[s].trip = asked[x].trip  BY DEF RequestKnows, EditKnowsStops
  <2> QED  BY <2>1, <2>2, <2>3, <2>4 DEF StopSeen, TransactionGrows
<1>4. EditKnowsTickets(x)'
  <2>1. Counted(x)' <=> Counted(x)  BY DEF Counted, DateChanges
  <2> SUFFICES ASSUME Counted(x), ~(asked[x].step = "writing" /\ asked[x].trip \in stale'[x]),
                      NEW b \in Clients, Riding(b, asked[x].trip)'
               PROVE  b \in late'
    BY <2>1 DEF EditKnowsTickets, Riding, HasTicket, StopsIn
  <2>2. PICK t \in Trips : t = asked[x].trip  BY RecordOfStep DEF TypeOK, Editing, Counted
  <2>3. asked[x].step = "writing" => x \in open  BY DEF RequestKnows, InTransaction
  <2>4. NewTicketSeen(x, b, t)  OBVIOUS
  <2>5. Riding(b, t)'  BY <2>2 DEF Riding, HasTicket, StopsIn
  <2>6. Riding(b, t) \/ b \in late'  BY <2>2, <2>3, <2>4, <2>5 DEF NewTicketSeen, Counted
  <2>7. ~(asked[x].step = "writing" /\ asked[x].trip \in stale[x])  BY <2>3 DEF TransactionGrows
  <2>8. Riding(b, t) => b \in late  BY <2>2, <2>7 DEF RequestKnows, EditKnowsTickets
  <2> QED  BY <2>6, <2>8
<1>5. CountedToChange(x)'  BY DEF RequestKnows, CountedToChange, DateChanges
<1> QED  BY <1>1, <1>2, <1>3, <1>4, <1>5 DEF RequestKnows

(* A transaction that ends makes no other forget. *)
LEMMA EndGrows ==
  ASSUME NEW r \in Clients, NEW rows, EndTx(r, rows), NEW x \in Clients \ {r}
  PROVE  TransactionGrows(x) /\ (x \in open => rows \subseteq stale'[x])
BY DEF EndTx, TransactionGrows

LEMMA BeginGrows ==
  ASSUME NEW r \in Clients, BeginTx(r), NEW x \in Clients
  PROVE  TransactionGrows(x)
BY DEF BeginTx, TransactionGrows

(* The conjuncts of DateInv that are about the tickets alone. *)
LEMMA BookedStays ==
  ASSUME TypeOK, DateInv, NEW r \in Clients, NEW a, asked' = [asked EXCEPT ![r] = a], UNCHANGED booked,
         a.step = "done" \/ asked[r].step # "done"
  PROVE  BookedLast' /\ NoStopsNoTicket'
<1>1. NoStopsNoTicket'  BY DEF DateInv, NoStopsNoTicket, HasTicket
<1>2. ASSUME NEW b \in Clients, asked'[b].step # "done" PROVE booked'[b] = NoTicket
  BY <1>2 DEF DateInv, BookedLast, TypeOK, RequestsOK
<1> QED  BY <1>1, <1>2 DEF BookedLast, NoTicket

-----------------------------------------------------------------------------
(* Each step keeps DateInv. *)

(* A step of r that changes no stop, no ticket and no date: the others know    *)
(* what they knew.                                                           *)
LEMMA OthersStill ==
  ASSUME TypeOK, DateInv, NEW r \in Clients, NEW a, asked' = [asked EXCEPT ![r] = a],
         a.step = "done" \/ asked[r].step # "done",
         UNCHANGED <<stopRow, booked>>, TripsStand, late \subseteq late',
         \A x \in Clients \ {r} : TransactionGrows(x),
         RequestKnows(r)'
  PROVE  DateInv'
<1>1. HeldStopsStay  BY DEF HeldStopsStay
<1>2. TicketsStand  BY DEF TicketsStand
<1>3. BookedLast' /\ NoStopsNoTicket'  BY BookedStays
<1>4. TicketsRideATrip' /\ \A b \in Clients, t \in Trips : DateKept(b, t)'
  BY <1>1, <1>2, TicketsStay DEF TripsStand
<1>5. ASSUME NEW x \in Clients, x # r PROVE RequestKnows(x)'
  <2>1. asked'[x] = asked[x]  BY <1>5 DEF TypeOK, RequestsOK
  <2>2. \A t \in Trips : TripSeen(x, t)  BY DEF TripSeen, TripsStand
  <2>3. \A s \in Stops : StopSeen(x, s)  BY DEF StopSeen
  <2>4. \A b \in Clients, t \in Trips : NewTicketSeen(x, b, t)
    BY <1>1, <1>2, RidingStays DEF NewTicketSeen
  <2>5. RequestKnows(x)  BY DEF DateInv
  <2>6. TransactionGrows(x)  BY <1>5
  <2> QED  BY <2>1, <2>2, <2>3, <2>4, <2>5, <2>6, RequestStill
<1>6. \A x \in Clients : RequestKnows(x)'
  <2> SUFFICES ASSUME NEW x \in Clients PROVE RequestKnows(x)'  OBVIOUS
  <2>1. CASE x = r  BY <2>1
             DEF RequestKnows, InTransaction, SaleKnowsTrip, EditKnowsStops, EditKnowsTickets, CountedToChange,
                 Counted, DateChanges, Riding, HasTicket, StopsIn
  <2> QED  BY <2>1, <1>5
<1> QED  BY <1>3, <1>4, <1>6 DEF DateInv

(* A step of r that also leaves r with nothing to remember. *)
LEMMA QuietStep ==
  ASSUME TypeOK, DateInv, NEW r \in Clients, NEW a, asked' = [asked EXCEPT ![r] = a],
         a.step \notin {"booking", "counted", "writing"},
         a.step = "done" \/ asked[r].step # "done",
         UNCHANGED <<stopRow, booked>>, TripsStand, late \subseteq late',
         \A x \in Clients \ {r} : TransactionGrows(x)
  PROVE  DateInv'
<1>1. asked'[r].step \notin {"booking", "counted", "writing"}  BY DEF TypeOK, RequestsOK
<1>2. RequestKnows(r)'
  BY <1>1 DEF RequestKnows, InTransaction, SaleKnowsTrip, EditKnowsStops, EditKnowsTickets, CountedToChange, Counted
<1> QED  BY <1>2, OthersStill

(* Requests that are read or answered, and change no table. *)
LEMMA UnchangedGrows ==
  ASSUME UNCHANGED <<open, stale>>, NEW x
  PROVE  TransactionGrows(x)
BY DEF TransactionGrows

LEMMA AnswerDate ==
  ASSUME TypeOK, DateInv, NEW r \in Clients, asked' = [asked EXCEPT ![r] = Answered],
         UNCHANGED <<stopRow, booked, late>>, TripsStand,
         (\E rows : EndTx(r, rows)) \/ UNCHANGED <<open, stale>>
  PROVE  DateInv'
<1>1. \A x \in Clients \ {r} : TransactionGrows(x)  BY EndGrows, UnchangedGrows
<1> QED  BY <1>1, AnsweredIsWaiting, QuietStep

LEMMA ReadDate ==
  ASSUME TypeOK, DateInv, NEW r \in Clients, NEW a, asked' = [asked EXCEPT ![r] = a],
         a.step \notin {"booking", "counted", "writing"}, a.step = "done" \/ asked[r].step # "done",
         UNCHANGED <<tables, history, open, stale>>
  PROVE  DateInv'
<1>1. \A x \in Clients \ {r} : TransactionGrows(x)  BY UnchangedGrows
<1>2. TripsStand  BY DEF TripsStand, tables
<1> QED  BY <1>1, <1>2, QuietStep DEF tables, history

LEMMA PostTripDate ==
  ASSUME TypeOK, DateInv, NEW r \in Clients, NEW t \in Trips, NEW date \in Dates, PostTrip(r, t, date)
  PROVE  DateInv'
<1>1. PICK S \in SUBSET {s \in Stops : stopRow[s].trip = Unborn} : \E time \in [S -> Times] :
        stopRow' = [s \in Stops |-> IF s \in S THEN [trip |-> t, time |-> time[s]] ELSE stopRow[s]]
  BY DEF PostTrip
<1>2. /\ ~tripRow[t].live /\ UNCHANGED <<booked, late, open, stale>>
      /\ asked' = [asked EXCEPT ![r] = Answered]
      /\ \A u \in Trips : u # t => tripRow'[u] = tripRow[u]
  BY DEF PostTrip, TypeOK, RowsOK
<1>3. \A s \in Stops : stopRow'[s].trip = stopRow[s].trip \/ stopRow[s].trip = Unborn  BY <1>1
<1>4. HeldStopsStay
  <2> SUFFICES ASSUME NEW b \in Clients, NEW s \in booked[b].stops PROVE stopRow'[s].trip = stopRow[s].trip
    BY DEF HeldStopsStay
  <2>1. s \in Stops  BY DEF TypeOK, RowsOK, Tickets
  <2>2. stopRow[s].trip \in Trips  BY <2>1 DEF DateInv, TicketsRideATrip, HasTicket, StopsIn
  <2> QED  BY <2>1, <2>2, <1>3, RowsAreDistinct
<1>5. TicketsStand  BY <1>2 DEF TicketsStand
<1>6. BookedLast' /\ NoStopsNoTicket'  BY <1>2, AnsweredIsWaiting, BookedStays
<1>7. TicketsRideATrip' /\ \A b \in Clients, u \in Trips : DateKept(b, u)'
  BY <1>2, <1>4, <1>5, TicketsStay
<1>8. ASSUME NEW x \in Clients PROVE RequestKnows(x)'
  <2>1. CASE x = r
    <3>1. asked'[r].step = "done"  BY <1>2, AnsweredIsWaiting DEF TypeOK, RequestsOK
    <3> QED  BY <2>1, <3>1
             DEF RequestKnows, InTransaction, SaleKnowsTrip, EditKnowsStops, EditKnowsTickets, CountedToChange, Counted
  <2>2. CASE x # r
    <3>1. asked'[x] = asked[x]  BY <1>2, <2>2 DEF TypeOK, RequestsOK
    <3>2. \A u \in Trips : TripSeen(x, u)  BY <1>2 DEF TripSeen
    <3>3. \A s \in Stops : StopSeen(x, s)  BY <1>3, RowsAreDistinct DEF StopSeen
    <3>4. \A b \in Clients, u \in Trips : NewTicketSeen(x, b, u)
      BY <1>4, <1>5, RidingStays DEF NewTicketSeen
    <3>5. RequestKnows(x)  BY DEF DateInv
    <3>6. TransactionGrows(x)  BY <1>2, UnchangedGrows
    <3> QED  BY <1>2, <3>1, <3>2, <3>3, <3>4, <3>5, <3>6, RequestStill
  <2> QED  BY <2>1, <2>2
<1> QED  BY <1>6, <1>7, <1>8 DEF DateInv

(* A trip or an edit is written: what it writes is among the rows of its       *)
(* transaction, and it takes no stop that a ticket holds.                    *)
LEMMA WriteStep ==
  ASSUME TypeOK, DateInv, NEW r \in Clients, NEW rows, asked' = [asked EXCEPT ![r] = Answered],
         UNCHANGED <<booked, late>>, EndTx(r, rows), HeldStopsStay,
         \A b \in Clients, t \in Trips :
            Riding(b, t) /\ tripRow[t].live
              => tripRow'[t].live /\ (tripRow'[t].date = tripRow[t].date \/ b \in late),
         \A t \in Trips : t \in rows \/ (tripRow'[t].live = tripRow[t].live /\ tripRow'[t].date = tripRow[t].date),
         \A s \in Stops : s \in rows \/ stopRow'[s].trip = stopRow[s].trip \/ stopRow[s].trip = Unborn
  PROVE  DateInv'
<1>1. TicketsStand  BY DEF TicketsStand
<1>2. BookedLast' /\ NoStopsNoTicket'  BY AnsweredIsWaiting, BookedStays
<1>3. TicketsRideATrip' /\ \A b \in Clients, u \in Trips : DateKept(b, u)'
  BY <1>1, TicketsStay
<1>4. ASSUME NEW x \in Clients PROVE RequestKnows(x)'
  <2>1. CASE x = r
    <3>1. asked'[r].step = "done"  BY AnsweredIsWaiting DEF TypeOK, RequestsOK
    <3> QED  BY <2>1, <3>1
             DEF RequestKnows, InTransaction, SaleKnowsTrip, EditKnowsStops, EditKnowsTickets, CountedToChange, Counted
  <2>2. CASE x # r
    <3>1. asked'[x] = asked[x]  BY <2>2 DEF TypeOK, RequestsOK
    <3>2. TransactionGrows(x) /\ (x \in open => rows \subseteq stale'[x])  BY <2>2, EndGrows
    <3>3. x \in open => \A u \in Trips : TripSeen(x, u)  BY <3>2 DEF TripSeen
    <3>4. x \in open => \A s \in Stops : StopSeen(x, s)  BY <3>2, RowsAreDistinct DEF StopSeen
    <3>5. \A b \in Clients, u \in Trips : NewTicketSeen(x, b, u)
      BY <1>1, RidingStays DEF NewTicketSeen
    <3>6. RequestKnows(x)  BY DEF DateInv
    <3> QED  BY <3>1, <3>2, <3>3, <3>4, <3>5, <3>6, RequestStill
  <2> QED  BY <2>1, <2>2
<1> QED  BY <1>2, <1>3, <1>4 DEF DateInv

LEMMA DeleteTripDate ==
  ASSUME TypeOK, DateInv, NEW r \in Clients, NEW t \in Trips, DeleteTrip(r, t)
  PROVE  DateInv'
<1>1. /\ ~Held(StopsIn(t)) /\ UNCHANGED <<booked, late>> /\ EndTx(r, {t} \cup StopsIn(t))
      /\ asked' = [asked EXCEPT ![r] = Answered]
      /\ \A u \in Trips : u # t => tripRow'[u] = tripRow[u]
      /\ \A s \in Stops : s \in StopsIn(t) \/ stopRow'[s] = stopRow[s]
  BY DEF DeleteTrip, history, TypeOK, RowsOK
<1>2. \A b \in Clients : booked[b].stops \cap StopsIn(t) = {}  BY <1>1 DEF Held
<1>3. HeldStopsStay
  <2> SUFFICES ASSUME NEW b \in Clients, NEW s \in booked[b].stops PROVE stopRow'[s].trip = stopRow[s].trip
    BY DEF HeldStopsStay
  <2>1. s \in Stops  BY DEF TypeOK, RowsOK, Tickets
  <2> QED  BY <1>1, <1>2, <2>1
<1>4. \A b \in Clients : ~Riding(b, t)  BY <1>2 DEF Riding, HasTicket
<1>5. \A b \in Clients, u \in Trips : Riding(b, u) => tripRow'[u] = tripRow[u]  BY <1>1, <1>4
<1>6. \A u \in Trips : u \in {t} \cup StopsIn(t)
                         \/ (tripRow'[u].live = tripRow[u].live /\ tripRow'[u].date = tripRow[u].date)
  BY <1>1
<1>7. \A s \in Stops : s \in {t} \cup StopsIn(t) \/ stopRow'[s].trip = stopRow[s].trip
  BY <1>1
<1> QED  BY <1>1, <1>3, <1>5, <1>6, <1>7, WriteStep

LEMMA EditCommitDate ==
  ASSUME TypeOK, DateInv, NEW r \in Clients, EditCommit(r)
  PROVE  DateInv'
<1>1. /\ asked[r].step = "writing" /\ EditFits(r) /\ UNCHANGED <<booked, late>>
      /\ asked' = [asked EXCEPT ![r] = Answered] /\ EndTx(r, RowsOfEdit(asked[r]))
  BY DEF EditCommit
<1>2. EditKnowsStops(r) /\ EditKnowsTickets(r)  BY DEF DateInv, RequestKnows
<1>3. /\ asked[r].trip \in Trips /\ asked[r].stops \subseteq Stops
      /\ \A s \in asked[r].stops : stopRow[s].trip = asked[r].trip
      /\ DateChanges(asked[r]) => asked[r].trip \notin stale[r]
  BY <1>1, <1>2, EditHasItsStops
<1> PICK t \in Trips : t = asked[r].trip  BY <1>3
<1>4. \A s \in Stops : stopRow'[s].trip = stopRow[s].trip \/ s \in Dropped(asked[r]) \/ stopRow[s].trip = Unborn
  BY <1>3, EditCommitStops
<1>5. ~Held(Dropped(asked[r])) /\ Dropped(asked[r]) \subseteq RowsOfEdit(asked[r])
  BY <1>1 DEF EditFits, Dropped, RowsOfEdit
<1>6. HeldStopsStay
  <2> SUFFICES ASSUME NEW b \in Clients, NEW s \in booked[b].stops PROVE stopRow'[s].trip = stopRow[s].trip
    BY DEF HeldStopsStay
  <2>1. s \in Stops  BY DEF TypeOK, RowsOK, Tickets
  <2>2. stopRow[s].trip \in Trips  BY <2>1 DEF DateInv, TicketsRideATrip, HasTicket, StopsIn
  <2>3. s \notin Dropped(asked[r])  BY <1>5 DEF Held
  <2> QED  BY <1>4, <2>1, <2>2, <2>3, RowsAreDistinct
<1>7. \A u \in Trips : tripRow'[u].live = tripRow[u].live /\ (u # t => tripRow'[u].date = tripRow[u].date)
  BY EditCommitTrip
<1>8. ~DateChanges(asked[r]) => tripRow'[t].date = tripRow[t].date
  BY EditCommitTrip DEF DateChanges, Changed
<1>9. DateChanges(asked[r]) => t \in RowsOfEdit(asked[r])  BY DEF RowsOfEdit
<1>10. DateChanges(asked[r]) => \A b \in Clients : Riding(b, t) => b \in late
  BY <1>1, <1>2, <1>3 DEF EditKnowsTickets, Counted
<1>11. ASSUME NEW b \in Clients, NEW u \in Trips, Riding(b, u), tripRow[u].live
       PROVE  tripRow'[u].live /\ (tripRow'[u].date = tripRow[u].date \/ b \in late)
  BY <1>7, <1>8, <1>10, <1>11
<1>12. \A u \in Trips : u \in RowsOfEdit(asked[r])
                          \/ (tripRow'[u].live = tripRow[u].live /\ tripRow'[u].date = tripRow[u].date)
  BY <1>7, <1>8, <1>9
<1>13. \A s \in Stops : s \in RowsOfEdit(asked[r]) \/ stopRow'[s].trip = stopRow[s].trip \/ stopRow[s].trip = Unborn
  BY <1>4, <1>5 DEF Dropped, RowsOfEdit
<1> QED  BY <1>1, <1>6, <1>11, <1>12, <1>13, WriteStep

LEMMA EditCountDate ==
  ASSUME TypeOK, DateInv, NEW r \in Clients, EditCount(r)
  PROVE  DateInv'
<1>1. asked[r] \in Editing /\ asked[r].step = "read" /\ DateChanges(asked[r])
  BY RecordOfStep DEF TypeOK, EditCount
<1> PICK t \in Trips : t = asked[r].trip  BY <1>1 DEF Editing
<1>2. UNCHANGED <<tables, open, stale>>  BY DEF EditCount
<1>3. CASE Bookings(t) # {}
  <2>1. asked' = [asked EXCEPT ![r] = Answered] /\ UNCHANGED late  BY <1>3 DEF EditCount
  <2>2. TripsStand  BY <1>2 DEF TripsStand, tables
  <2> QED  BY <1>2, <2>1, <2>2, AnswerDate DEF tables
<1>4. CASE Bookings(t) = {}
  <2>1. /\ asked' = [asked EXCEPT ![r].step = "counted"]
        /\ late' = late \cup {b \in Clients : booked[b].status \in {"failed", "void"} /\ TripOf(b) = t}
    BY <1>4 DEF EditCount
  <2> PICK a \in Editing : a = [asked[r] EXCEPT !.step = "counted"]  BY <1>1 DEF Editing
  <2>2. /\ a.step = "counted" /\ a.trip = t /\ a.date = asked[r].date /\ a.was = asked[r].was
    BY <1>1 DEF Editing
  <2>3. asked' = [asked EXCEPT ![r] = a] /\ asked'[r] = a  BY <2>1 DEF TypeOK, RequestsOK
  <2>4. DateChanges(a)  BY <1>1, <2>2 DEF DateChanges
  <2>5. \A b \in Clients : Riding(b, t)' <=> Riding(b, t)
    BY <1>2, RidingStays DEF tables, HeldStopsStay, TicketsStand
  <2>6. ASSUME NEW b \in Clients, Riding(b, t) PROVE b \in late'
    <3>1. booked[b].stops \subseteq Stops /\ booked[b].status \in Statuses \cup {None}
      BY DEF TypeOK, RowsOK, Tickets
    <3>2. TripOf(b) = t  BY <2>6, <3>1, TripOfRiding
    <3>3. booked[b].status \in Statuses  BY <2>6, <3>1 DEF DateInv, NoStopsNoTicket, Riding
    <3>4. booked[b].status \notin {"valid", "refunded"}  BY <1>4, <3>2 DEF Bookings
    <3>5. booked[b].status \in {"failed", "void"}  BY <3>3, <3>4 DEF Statuses
    <3> QED  BY <2>1, <3>2, <3>5
  <2>7. EditKnowsTickets(r)'
    <3>1. asked'[r].trip = t  BY <2>2, <2>3
    <3>2. \A b \in Clients : Riding(b, asked[r].trip)' => b \in late'
      BY <2>5, <2>6, <3>1 DEF Riding, HasTicket, StopsIn
    <3> QED  BY <3>2 DEF EditKnowsTickets
  <2>8. RequestKnows(r)'
    BY <2>2, <2>3, <2>4, <2>7
    DEF RequestKnows, InTransaction, SaleKnowsTrip, EditKnowsStops, CountedToChange, DateChanges
  <2>9. \A x \in Clients : TransactionGrows(x)  BY <1>2, UnchangedGrows
  <2>10. TripsStand /\ UNCHANGED <<stopRow, booked>>  BY <1>2 DEF TripsStand, tables
  <2> QED  BY <1>1, <2>1, <2>3, <2>8, <2>9, <2>10, OthersStill
<1> QED  BY <1>3, <1>4

LEMMA EditBeginDate ==
  ASSUME TypeOK, DateInv, NEW r \in Clients, EditBegin(r)
  PROVE  DateInv'
<1>1. /\ asked[r].step = "counted" \/ (asked[r].step = "read" /\ ~DateChanges(asked[r]))
      /\ BeginTx(r) /\ UNCHANGED <<tables, history>>
  BY DEF EditBegin
<1>2. asked[r] \in Editing  BY <1>1, RecordOfStep DEF TypeOK
<1> PICK t \in Trips : t = asked[r].trip  BY <1>2 DEF Editing
<1>3. PICK seen : asked' = [asked EXCEPT ![r].step = "writing", ![r].stops = StopsIn(t), ![r].seen = seen]
  BY DEF EditBegin
<1> PICK a : a = [asked[r] EXCEPT !.step = "writing", !.stops = StopsIn(t), !.seen = seen]  OBVIOUS
<1>4. /\ a.step = "writing" /\ a.trip = t /\ a.stops = StopsIn(t)
      /\ a.date = asked[r].date /\ a.was = asked[r].was
  BY <1>2 DEF Editing
<1>5. asked' = [asked EXCEPT ![r] = a] /\ asked'[r] = a  BY <1>3 DEF TypeOK, RequestsOK
<1>6. \A b \in Clients : Riding(b, t)' <=> Riding(b, t)
  BY <1>1, RidingStays DEF tables, HeldStopsStay, TicketsStand
<1>7. EditKnowsTickets(r)'
  <2> SUFFICES ASSUME DateChanges(asked'[r]), NEW b \in Clients, Riding(b, asked[r].trip)' PROVE b \in late'
    BY <1>4, <1>5 DEF EditKnowsTickets, Counted, DateChanges
  <2>1. DateChanges(asked[r])  BY <1>4, <1>5 DEF DateChanges
  <2>2. asked[r].step = "counted"  BY <1>1, <2>1
  <2>3. Riding(b, t)  BY <1>4, <1>5, <1>6 DEF Riding, HasTicket, StopsIn
  <2>4. b \in late  BY <2>2, <2>3 DEF DateInv, RequestKnows, EditKnowsTickets, Counted
  <2> QED  BY <1>1, <2>4 DEF history
<1>8. EditKnowsStops(r)'  BY <1>1, <1>4, <1>5 DEF EditKnowsStops, StopsIn, tables
<1>9. InTransaction(r)'  BY <1>1 DEF BeginTx, InTransaction
<1>10. RequestKnows(r)'  BY <1>4, <1>5, <1>7, <1>8, <1>9 DEF RequestKnows, SaleKnowsTrip, CountedToChange
<1>11. \A x \in Clients : TransactionGrows(x)  BY <1>1, BeginGrows
<1>12. TripsStand /\ UNCHANGED <<stopRow, booked, late>>  BY <1>1 DEF TripsStand, tables, history
<1> QED  BY <1>1, <1>5, <1>10, <1>11, <1>12, OthersStill

LEMMA BookBeginDate ==
  ASSUME TypeOK, DateInv, NEW r \in Clients, NEW t \in Trips, BookBegin(r, t)
  PROVE  DateInv'
<1>1. /\ asked[r].step = "new" /\ tripRow[t].live /\ BeginTx(r) /\ UNCHANGED <<tables, history>>
  BY DEF BookBegin, Fresh, New
<1>2. PICK S \in StopsToAsk(t) :
        asked' = [asked EXCEPT ![r] = [step |-> "booking", trip |-> t, stops |-> S, date |-> tripRow[t].date]]
  BY DEF BookBegin
<1>3. S # {}  BY FS_EmptySet DEF StopsToAsk
<1> PICK a : a = [step |-> "booking", trip |-> t, stops |-> S, date |-> tripRow[t].date]  OBVIOUS
<1>4. asked' = [asked EXCEPT ![r] = a] /\ asked'[r] = a  BY <1>2 DEF TypeOK, RequestsOK
<1>5. SaleKnowsTrip(r)'  BY <1>1, <1>3, <1>4 DEF SaleKnowsTrip, tables
<1>6. InTransaction(r)'  BY <1>1 DEF BeginTx, InTransaction
<1>7. RequestKnows(r)'
  BY <1>4, <1>5, <1>6 DEF RequestKnows, EditKnowsStops, EditKnowsTickets, Counted, CountedToChange
<1>8. \A x \in Clients : TransactionGrows(x)  BY <1>1, BeginGrows
<1>9. TripsStand /\ UNCHANGED <<stopRow, booked, late>>  BY <1>1 DEF TripsStand, tables, history
<1> QED  BY <1>1, <1>4, <1>7, <1>8, <1>9, OthersStill

LEMMA BookCommitDate ==
  ASSUME TypeOK, DateInv, NEW r \in Clients, BookCommit(r)
  PROVE  DateInv'
<1> PICK a \in Booking : a = asked[r]  BY RecordOfStep DEF TypeOK, BookCommit
<1> PICK t \in Trips : t = a.trip  BY DEF Booking
<1>1. /\ a.step = "booking" /\ t \notin stale[r] /\ a.stops \subseteq StopsIn(t)
      /\ EndTx(r, {t}) /\ UNCHANGED <<tripRow, stopRow>>
      /\ asked' = [asked EXCEPT ![r] = Answered]
      /\ booked' = [booked EXCEPT ![r] = [status |-> "valid", stops |-> a.stops, date |-> a.date]]
      /\ late' = IF \E e \in Clients : asked[e].step = "counted" /\ asked[e].trip = t THEN late \cup {r} ELSE late
  BY DEF BookCommit, BookFits, Conflict
<1>2. a.stops # {} /\ tripRow[t].live /\ tripRow[t].date = a.date
  BY <1>1 DEF DateInv, RequestKnows, SaleKnowsTrip
<1>3. /\ booked'[r].status = "valid" /\ booked'[r].stops = a.stops /\ booked'[r].date = a.date
      /\ \A b \in Clients : b # r => booked'[b] = booked[b]
  BY <1>1 DEF TypeOK, RowsOK
<1>4. asked'[r].step = "done" /\ \A x \in Clients : x # r => asked'[x] = asked[x]
  BY <1>1, AnsweredIsWaiting DEF TypeOK, RequestsOK
<1>5. late \subseteq late'  BY <1>1
<1>6. BookedLast'
  <2> SUFFICES ASSUME NEW b \in Clients, asked'[b].step # "done" PROVE booked'[b] = NoTicket
    BY DEF BookedLast, NoTicket
  <2> QED  BY <1>3, <1>4 DEF DateInv, BookedLast
<1>7. NoStopsNoTicket'
  <2> SUFFICES ASSUME NEW b \in Clients PROVE booked'[b].stops # {} <=> booked'[b].status # None
    BY DEF NoStopsNoTicket, HasTicket
  <2>1. CASE b = r  BY <1>2, <1>3, <2>1, RowsAreDistinct DEF Statuses
  <2>2. CASE b # r  BY <1>3, <2>2 DEF DateInv, NoStopsNoTicket, HasTicket
  <2> QED  BY <2>1, <2>2
<1>8. \A b \in Clients, u \in Trips : b # r => (Riding(b, u)' <=> Riding(b, u))
  BY <1>1, <1>3 DEF Riding, HasTicket, StopsIn
<1>9. \A u \in Trips : Riding(r, u)' => u = t
  <2> SUFFICES ASSUME NEW u \in Trips, Riding(r, u)' PROVE u = t  OBVIOUS
  <2>1. PICK s \in a.stops : TRUE  BY <1>2
  <2>2. stopRow[s].trip = t  BY <1>1, <2>1 DEF StopsIn
  <2>3. stopRow'[s].trip = u  BY <1>3, <2>1 DEF Riding, StopsIn
  <2> QED  BY <1>1, <2>2, <2>3
<1>10. TicketsRideATrip'
  <2> SUFFICES ASSUME NEW b \in Clients, booked'[b].stops # {}
               PROVE  \E u \in Trips : tripRow'[u].live /\ booked'[b].stops \subseteq {s \in Stops : stopRow'[s].trip = u}
    BY DEF TicketsRideATrip, HasTicket, StopsIn
  <2>1. CASE b = r  BY <1>1, <1>2, <1>3, <2>1 DEF StopsIn
  <2>2. CASE b # r
    <3>1. HasTicket(b)  BY <1>3, <2>2 DEF HasTicket
    <3>2. PICK u \in Trips : tripRow[u].live /\ booked[b].stops \subseteq StopsIn(u)
      BY <3>1 DEF DateInv, TicketsRideATrip
    <3> QED  BY <1>1, <1>3, <2>2, <3>2 DEF StopsIn
  <2> QED  BY <2>1, <2>2
<1>11. ASSUME NEW b \in Clients, NEW u \in Trips PROVE DateKept(b, u)'
  <2> SUFFICES ASSUME Riding(b, u)', booked'[b].date # tripRow'[u].date PROVE b \in late'
    BY DEF DateKept
  <2>1. CASE b = r  BY <1>1, <1>2, <1>3, <1>9, <2>1
  <2>2. CASE b # r
    <3>1. Riding(b, u) /\ booked[b].date # tripRow[u].date  BY <1>1, <1>3, <1>8, <2>2
    <3> QED  BY <1>5, <3>1 DEF DateInv, DateKept
  <2> QED  BY <2>1, <2>2
<1>12. ASSUME NEW x \in Clients PROVE RequestKnows(x)'
  <2>1. CASE x = r
    BY <1>4, <2>1
    DEF RequestKnows, InTransaction, SaleKnowsTrip, EditKnowsStops, EditKnowsTickets, CountedToChange, Counted
  <2>2. CASE x # r
    <3>1. asked'[x] = asked[x]  BY <1>4, <2>2
    <3>2. TransactionGrows(x) /\ (x \in open => {t} \subseteq stale'[x])  BY <1>1, <2>2, EndGrows
    <3>3. \A u \in Trips : TripSeen(x, u)  BY <1>1 DEF TripSeen
    <3>4. \A s \in Stops : StopSeen(x, s)  BY <1>1 DEF StopSeen
    <3>5. ASSUME NEW b \in Clients, NEW u \in Trips, Riding(b, u)', ~Riding(b, u)
          PROVE  /\ asked[x].step = "counted" /\ asked[x].trip = u => b \in late'
                 /\ x \in open => u \in stale'[x]
      <4>1. b = r  BY <1>8, <3>5
      <4>2. u = t  BY <1>9, <3>5, <4>1
      <4> QED  BY <1>1, <3>2, <4>1, <4>2
    <3>6. \A b \in Clients, u \in Trips : NewTicketSeen(x, b, u)  BY <3>5 DEF NewTicketSeen
    <3>7. RequestKnows(x)  BY DEF DateInv
    <3> QED  BY <1>5, <3>1, <3>2, <3>3, <3>4, <3>6, <3>7, RequestStill
  <2> QED  BY <2>1, <2>2
<1> QED  BY <1>6, <1>7, <1>10, <1>11, <1>12 DEF DateInv

LEMMA ChangeTicketDate ==
  ASSUME TypeOK, DateInv, NEW b \in Clients, NEW status \in Statuses, ChangeTicket(b, status)
  PROVE  DateInv'
<1>1. UNCHANGED <<tripRow, stopRow, asked, late>>  BY DEF ChangeTicket, history
<1>2. PICK rows : EndTx(b, rows)  BY DEF ChangeTicket
<1>3. /\ \A c \in Clients : /\ booked'[c].stops = booked[c].stops
                            /\ booked'[c].date = booked[c].date
                            /\ c # b => booked'[c] = booked[c]
      /\ booked[b].status \in Statuses /\ booked'[b].status = status
  BY ChangeTicketRow
<1>4. asked[b].step = "done"  BY <1>3, RowsAreDistinct DEF DateInv, BookedLast, NoTicket
<1>5. HeldStopsStay  BY <1>1 DEF HeldStopsStay
<1>6. TicketsStand  BY <1>3 DEF TicketsStand
<1>7. BookedLast'
  <2> SUFFICES ASSUME NEW c \in Clients, asked'[c].step # "done" PROVE booked'[c] = NoTicket
    BY DEF BookedLast, NoTicket
  <2> QED  BY <1>1, <1>3, <1>4 DEF DateInv, BookedLast
<1>8. NoStopsNoTicket'
  <2> SUFFICES ASSUME NEW c \in Clients PROVE booked'[c].stops # {} <=> booked'[c].status # None
    BY DEF NoStopsNoTicket, HasTicket
  <2>1. booked[c].stops # {} <=> booked[c].status # None  BY DEF DateInv, NoStopsNoTicket, HasTicket
  <2> QED  BY <1>3, <2>1, RowsAreDistinct
<1>9. TicketsRideATrip' /\ \A c \in Clients, u \in Trips : DateKept(c, u)'
  BY <1>1, <1>5, <1>6, TicketsStay
<1>10. ASSUME NEW x \in Clients PROVE RequestKnows(x)'
  <2>1. CASE x = b
    BY <1>1, <1>4, <2>1
    DEF RequestKnows, InTransaction, SaleKnowsTrip, EditKnowsStops, EditKnowsTickets, CountedToChange, Counted
  <2>2. CASE x # b
    <3>1. TransactionGrows(x)  BY <1>2, <2>2, EndGrows
    <3>2. \A u \in Trips : TripSeen(x, u)  BY <1>1 DEF TripSeen
    <3>3. \A s \in Stops : StopSeen(x, s)  BY <1>1 DEF StopSeen
    <3>4. \A c \in Clients, u \in Trips : NewTicketSeen(x, c, u)
      BY <1>5, <1>6, RidingStays DEF NewTicketSeen
    <3>5. RequestKnows(x) /\ asked'[x] = asked[x]  BY <1>1 DEF DateInv
    <3> QED  BY <1>1, <3>1, <3>2, <3>3, <3>4, <3>5, RequestStill
  <2> QED  BY <2>1, <2>2
<1> QED  BY <1>7, <1>8, <1>9, <1>10 DEF DateInv

-----------------------------------------------------------------------------
(* The invariant is inductive. *)

LEMMA InvInitially ==
  ASSUME TimetableInit
  PROVE  TimetableInv
<1>1. /\ tripRow \in [Trips -> [live : {TRUE}, date : FirstDates, vehicle : {None}, driver : {None}]]
      /\ stopRow \in [Stops -> [trip : Trips, time : Times] \cup {[trip |-> Unborn, time |-> None]}]
      /\ owner \in [Vehicles -> Drivers \cup {Unborn}]
      /\ booked = [r \in Clients |-> NoTicket]
      /\ asked = [r \in Clients |-> [step |-> "new"]]
      /\ late = {} /\ apart = {} /\ open = {} /\ stale = [r \in Clients |-> {}]
  BY DEF TimetableInit
<1>2. tripRow \in [Trips -> TripRows]  BY <1>1, DatesStart DEF TripRows
<1>3. stopRow \in [Stops -> StopRows]  BY <1>1 DEF StopRows
<1>4. NoTicket \in Tickets  BY DEF NoTicket, Tickets
<1>5. [step |-> "new"] \in Waiting  BY DEF Waiting
<1>6. TypeOK
  BY <1>1, <1>2, <1>3, <1>4, <1>5 DEF TypeOK, RowsOK, RequestsOK, TransactionsOK
<1>7. \A b \in Clients : booked[b] = NoTicket /\ asked[b].step = "new"  BY <1>1
<1>8. \A b \in Clients : ~HasTicket(b) /\ booked[b].status = None  BY <1>7 DEF HasTicket, NoTicket
<1>9. BookedLast /\ NoStopsNoTicket /\ TicketsRideATrip
  BY <1>7, <1>8 DEF BookedLast, NoStopsNoTicket, TicketsRideATrip
<1>10. \A b \in Clients, t \in Trips : DateKept(b, t)  BY <1>8 DEF DateKept, Riding
<1>11. \A r \in Clients : RequestKnows(r)
  BY <1>7 DEF RequestKnows, InTransaction, SaleKnowsTrip, EditKnowsStops, EditKnowsTickets, CountedToChange, Counted
<1>12. \A t \in Trips : tripRow[t].vehicle = None  BY <1>1
<1>13. CrewInv  BY <1>12 DEF CrewInv, OwnVehicle
<1> QED  BY <1>6, <1>9, <1>10, <1>11, <1>13 DEF TimetableInv, DateInv

(* Steps that leave trips and vehicles alone. *)
LEMMA CrewUnseen ==
  ASSUME CrewInv, UNCHANGED <<tripRow, owner, apart>>
  PROVE  CrewInv'
BY CrewStays

LEMMA TripRequestInv ==
  ASSUME TimetableInv, NEW r \in Clients, NEW t \in Trips, TripRequest(r, t)
  PROVE  TimetableInv'
<1>0. TypeOK /\ DateInv /\ CrewInv  BY DEF TimetableInv
<1>1. ASSUME NEW date \in Dates, PostTrip(r, t, date) PROVE TimetableInv'
  BY <1>0, <1>1, PostTripType, PostTripDate, PostTripCrew DEF TimetableInv
<1>2. CASE DeleteTrip(r, t)
  BY <1>0, <1>2, DeleteTripType, DeleteTripDate, DeleteTripCrew DEF TimetableInv
<1>3. CASE EditRead(r, t)
  <2>1. PICK keep \in SUBSET StopsIn(t), date \in Dates \cup {Unset}, crew \in Crews, new \in Times \cup {Unset, None},
            other \in {Unset, None} :
          \E times \in [keep -> Times \cup {Unset}] :
            /\ other # Unset => date = Unset /\ crew = <<Unset, Unset>>
            /\ Changes(t, times, date, crew, new, other) <= MaxChanges
            /\ asked' = [asked EXCEPT ![r] = [step |-> "read", trip |-> t, was |-> tripRow[t], date |-> date,
                         crew |-> crew, other |-> other, times |-> times, new |-> new, seen |-> tripRow[t].date, stops |-> {}]]
    BY <1>3, Zenon DEF EditRead
  <2>2. asked[r].step # "done" /\ UNCHANGED <<tables, history, open, stale>>  BY <1>3 DEF EditRead, New
  <2>3. DateInv'
    <3>1. PICK times \in [keep -> Times \cup {Unset}] :
            asked' = [asked EXCEPT ![r] = [step |-> "read", trip |-> t, was |-> tripRow[t], date |-> date,
                         crew |-> crew, other |-> other, times |-> times, new |-> new, seen |-> tripRow[t].date, stops |-> {}]]
      BY <2>1
    <3> PICK a : a = [step |-> "read", trip |-> t, was |-> tripRow[t], date |-> date, crew |-> crew,
                      other |-> other, times |-> times, new |-> new, seen |-> tripRow[t].date, stops |-> {}]
      OBVIOUS
    <3>2. asked' = [asked EXCEPT ![r] = a] /\ a.step = "read"  BY <3>1
    <3> QED  BY <1>0, <2>2, <3>2, ReadDate
  <2>4. CrewInv'  BY <1>0, <2>2, CrewUnseen DEF tables, history
  <2> QED  BY <1>0, <1>3, <2>3, <2>4, EditReadType DEF TimetableInv
<1>4. ASSUME NEW v \in Vehicles, SetVehicleRead(r, t, v) PROVE TimetableInv'
  <2> PICK a : a = [step |-> "chosen", trip |-> t, vehicle |-> v, driver |-> owner[v]]  OBVIOUS
  <2>1. asked' = [asked EXCEPT ![r] = a] /\ a.step = "chosen"  BY <1>4 DEF SetVehicleRead
  <2>2. asked[r].step # "done" /\ UNCHANGED <<tables, history, open, stale>>  BY <1>4 DEF SetVehicleRead, Fresh, New
  <2>3. DateInv'  BY <1>0, <2>1, <2>2, ReadDate
  <2>4. CrewInv'  BY <1>0, <2>2, CrewUnseen DEF tables, history
  <2> QED  BY <1>0, <1>4, <2>3, <2>4, SetVehicleType DEF TimetableInv
<1>5. ASSUME NEW d \in Drivers, SetDriverRead(r, t, d) PROVE TimetableInv'
  <2>0. PICK v \in Vehicles \cup {None} :
          asked' = [asked EXCEPT ![r] = [step |-> "chosen", trip |-> t, vehicle |-> v, driver |-> d]]
    BY <1>5 DEF SetDriverRead
  <2> PICK a : a = [step |-> "chosen", trip |-> t, vehicle |-> v, driver |-> d]  OBVIOUS
  <2>1. asked' = [asked EXCEPT ![r] = a] /\ a.step = "chosen"  BY <2>0
  <2>2. asked[r].step # "done" /\ UNCHANGED <<tables, history, open, stale>>  BY <1>5 DEF SetDriverRead, Fresh, New
  <2>3. DateInv'  BY <1>0, <2>1, <2>2, ReadDate
  <2>4. CrewInv'  BY <1>0, <2>2, CrewUnseen DEF tables, history
  <2> QED  BY <1>0, <1>5, <2>3, <2>4, SetDriverType DEF TimetableInv
<1>6. CASE BookBegin(r, t)
  <2>1. CrewInv'  BY <1>0, <1>6, CrewUnseen DEF BookBegin, tables, history
  <2> QED  BY <1>0, <1>6, <2>1, BookBeginType, BookBeginDate DEF TimetableInv
<1> QED  BY <1>1, <1>2, <1>3, <1>4, <1>5, <1>6 DEF TripRequest

LEMMA VehicleRequestInv ==
  ASSUME TimetableInv, NEW r \in Clients, NEW v \in Vehicles, VehicleRequest(r, v)
  PROVE  TimetableInv'
<1>0. TypeOK /\ DateInv /\ CrewInv  BY DEF TimetableInv
<1>1. ASSUME NEW d \in Drivers, GiveVehicle(r, v, d) \/ AddVehicle(r, v, d) PROVE TimetableInv'
  <2>1. /\ asked' = [asked EXCEPT ![r] = Answered]
        /\ UNCHANGED <<tripRow, stopRow, booked, late, open, stale>>
    BY <1>1 DEF GiveVehicle, AddVehicle, history
  <2>2. TripsStand  BY <2>1 DEF TripsStand
  <2>3. DateInv'  BY <1>0, <2>1, <2>2, AnswerDate
  <2>4. TypeOK'  BY <1>0, <1>1, OwnerType
  <2>5. CrewInv'  BY <1>0, <1>1, GiveVehicleCrew, AddVehicleCrew
  <2> QED  BY <2>3, <2>4, <2>5 DEF TimetableInv
<1>2. CASE DeleteVehicle(r, v)
  <2>1. /\ asked' = [asked EXCEPT ![r] = Answered] /\ EndTx(r, TripsWith(v))
        /\ UNCHANGED <<stopRow, booked, late>>
    BY <1>2 DEF DeleteVehicle, history
  <2>2. TripsStand  BY <1>0, <1>2, DeleteVehicleTrip DEF TripsStand
  <2>3. DateInv'  BY <1>0, <2>1, <2>2, AnswerDate
  <2> QED  BY <1>0, <1>2, <2>3, DeleteVehicleType, DeleteVehicleCrew DEF TimetableInv
<1> QED  BY <1>1, <1>2 DEF VehicleRequest

(* A request that is refused. *)
LEMMA RefusedInv ==
  ASSUME TimetableInv, NEW r \in Clients, asked' = [asked EXCEPT ![r] = Answered], UNCHANGED <<tables, history>>,
         EndTx(r, {}) \/ UNCHANGED <<open, stale>>
  PROVE  TimetableInv'
<1>0. TypeOK /\ DateInv /\ CrewInv  BY DEF TimetableInv
<1>1. TypeOK'  BY <1>0, RefusedType
<1>2. TripsStand /\ UNCHANGED <<stopRow, booked, late>>  BY DEF TripsStand, tables, history
<1>3. DateInv'  BY <1>0, <1>2, AnswerDate
<1>4. CrewInv'  BY <1>0, CrewUnseen DEF tables, history
<1> QED  BY <1>1, <1>3, <1>4 DEF TimetableInv

LEMMA HandlingInv ==
  ASSUME TimetableInv, NEW r \in Clients, Handling(r)
  PROVE  TimetableInv'
<1>0. TypeOK /\ DateInv /\ CrewInv  BY DEF TimetableInv
<1>1. CASE EditCount(r)
  <2>1. CrewInv'  BY <1>0, <1>1, CrewUnseen DEF EditCount, tables
  <2> QED  BY <1>0, <1>1, <2>1, EditCountType, EditCountDate DEF TimetableInv
<1>2. CASE EditBegin(r)
  <2>1. CrewInv'  BY <1>0, <1>2, CrewUnseen DEF EditBegin, tables, history
  <2> QED  BY <1>0, <1>2, <2>1, EditBeginType, EditBeginDate DEF TimetableInv
<1>3. CASE EditCommit(r)
  <2>1. EditKnowsStops(r)  BY <1>0 DEF DateInv, RequestKnows
  <2> QED  BY <1>0, <1>3, <2>1, EditCommitType, EditCommitDate, EditCommitCrew DEF TimetableInv
<1>4. CASE EditAborts(r)  BY <1>4, RefusedInv DEF EditAborts
<1>5. CASE CrewTripRead(r)
  <2> PICK a : a = IF tripRow[asked[r].trip].live
                     THEN [step |-> "saving", trip |-> asked[r].trip, vehicle |-> asked[r].vehicle,
                           driver |-> asked[r].driver, was |-> tripRow[asked[r].trip]]
                     ELSE Answered
    OBVIOUS
  <2>1. asked' = [asked EXCEPT ![r] = a] /\ a.step \in {"saving", "done"}
    BY <1>5, AnsweredIsWaiting DEF CrewTripRead
  <2>2. asked[r].step # "done" /\ UNCHANGED <<tables, history, open, stale>>  BY <1>5 DEF CrewTripRead
  <2>3. DateInv'  BY <1>0, <2>1, <2>2, ReadDate
  <2>4. CrewInv'  BY <1>0, <2>2, CrewUnseen DEF tables, history
  <2> QED  BY <1>0, <1>5, <2>3, <2>4, CrewTripType DEF TimetableInv
<1>6. CASE CrewSave(r)
  <2>1. asked' = [asked EXCEPT ![r] = Answered] /\ UNCHANGED <<stopRow, booked, late>>  BY <1>6 DEF CrewSave
  <2>2. \E rows : EndTx(r, rows)  BY <1>6 DEF CrewSave
  <2>3. TripsStand
    <3> SUFFICES ASSUME NEW t \in Trips
                 PROVE  tripRow'[t].live = tripRow[t].live /\ tripRow'[t].date = tripRow[t].date
      BY DEF TripsStand
    <3>1. CASE t = asked[r].trip  BY <1>0, <1>6, <3>1, CrewSaveTrip
    <3>2. CASE t # asked[r].trip
      <4>1. tripRow'[t] = tripRow[t]  BY <1>0, <1>6, <3>2, CrewSaveTrip
      <4> QED  BY <4>1
    <3> QED  BY <3>1, <3>2
  <2>4. DateInv'  BY <1>0, <2>1, <2>2, <2>3, AnswerDate
  <2> QED  BY <1>0, <1>6, <2>4, CrewSaveType, CrewSaveCrew DEF TimetableInv
<1>7. CASE CrewSaveFails(r)  BY <1>7, RefusedInv DEF CrewSaveFails
<1>8. CASE BookCommit(r)
  <2>1. CrewInv'  BY <1>0, <1>8, CrewUnseen DEF BookCommit
  <2> QED  BY <1>0, <1>8, <2>1, BookCommitType, BookCommitDate DEF TimetableInv
<1>9. CASE BookAborts(r)  BY <1>9, RefusedInv DEF BookAborts
<1> QED  BY <1>1, <1>2, <1>3, <1>4, <1>5, <1>6, <1>7, <1>8, <1>9 DEF Handling

LEMMA TicketChangeInv ==
  ASSUME TimetableInv, NEW r \in Clients, NEW status \in Statuses, ChangeTicket(r, status)
  PROVE  TimetableInv'
<1>0. TypeOK /\ DateInv /\ CrewInv  BY DEF TimetableInv
<1>1. CrewInv'  BY <1>0, CrewUnseen DEF ChangeTicket, history
<1>2. TypeOK'  BY <1>0, ChangeTicketType DEF DateInv
<1> QED  BY <1>0, <1>1, <1>2, ChangeTicketDate DEF TimetableInv

LEMMA StutterInv ==
  ASSUME TimetableInv, UNCHANGED ttVars
  PROVE  TimetableInv'
<1>0. UNCHANGED <<tripRow, stopRow, owner, booked, asked, late, apart, open, stale>>  BY DEF ttVars, tables
<1>1. TypeOK'  BY <1>0 DEF TimetableInv, TypeOK, RowsOK, RequestsOK, TransactionsOK
<1>2. CrewInv'  BY <1>0, CrewUnseen DEF TimetableInv
<1>3. HeldStopsStay /\ TicketsStand  BY <1>0 DEF HeldStopsStay, TicketsStand
<1>4. BookedLast' /\ NoStopsNoTicket'
  BY <1>0 DEF TimetableInv, DateInv, BookedLast, NoStopsNoTicket, HasTicket, NoTicket
<1>5. TicketsRideATrip' /\ \A b \in Clients, t \in Trips : DateKept(b, t)'
  BY <1>0, <1>3, TicketsStay DEF TimetableInv
<1>6. ASSUME NEW x \in Clients PROVE RequestKnows(x)'
  <2>1. TransactionGrows(x)  BY <1>0, UnchangedGrows
  <2>2. \A t \in Trips : TripSeen(x, t)  BY <1>0 DEF TripSeen
  <2>3. \A s \in Stops : StopSeen(x, s)  BY <1>0 DEF StopSeen
  <2>4. TypeOK /\ RequestKnows(x) /\ asked'[x] = asked[x]  BY <1>0 DEF TimetableInv, DateInv
  <2>5. \A b \in Clients, t \in Trips : NewTicketSeen(x, b, t)  BY <1>3, <2>4, RidingStays DEF NewTicketSeen
  <2> QED  BY <1>0, <2>1, <2>2, <2>3, <2>4, <2>5, RequestStill
<1>7. DateInv'  BY <1>4, <1>5, <1>6 DEF DateInv
<1> QED  BY <1>1, <1>2, <1>7 DEF TimetableInv

(* The tables, what every request under way knows of them, and the tickets and *)
(* vehicles stay as TimetableInv has them.                                    *)
THEOREM TimetableInvariant == TimetableSpec => []TimetableInv
<1>1. TimetableInit => TimetableInv  BY InvInitially
<1>2. TimetableInv /\ [TimetableNext]_ttVars => TimetableInv'
  <2> SUFFICES ASSUME TimetableInv, [TimetableNext]_ttVars PROVE TimetableInv'  OBVIOUS
  <2>1. CASE UNCHANGED ttVars  BY <2>1, StutterInv
  <2>2. CASE TimetableNext
    <3>1. PICK r \in Clients :
            \/ \E t \in Trips : TripRequest(r, t)
            \/ \E v \in Vehicles : VehicleRequest(r, v)
            \/ Handling(r)
            \/ \E status \in Statuses : ChangeTicket(r, status)
      BY <2>2 DEF TimetableNext
    <3> QED  BY <3>1, TripRequestInv, VehicleRequestInv, HandlingInv, TicketChangeInv
  <2> QED  BY <2>1, <2>2
<1> QED  BY <1>1, <1>2, PTL DEF TimetableSpec

(* A ticket that is valid or refunded is for the date its passenger bought, or *)
(* it was sold or brought back after an edit of the date had counted.        *)
THEOREM DatesAreKept == TimetableSpec => []TicketsKeepTheirDate
<1>1. TimetableInv => TicketsKeepTheirDate
  <2> SUFFICES ASSUME TypeOK, DateInv, NEW b \in Clients, booked[b].status \in {"valid", "refunded"},
                      booked[b].date # tripRow[TripOf(b)].date
               PROVE  b \in late
    BY DEF TimetableInv, TicketsKeepTheirDate
  <2>1. HasTicket(b)  BY RowsAreDistinct DEF Statuses, DateInv, NoStopsNoTicket
  <2>2. PICK t \in Trips : Riding(b, t)  BY <2>1 DEF DateInv, TicketsRideATrip, Riding
  <2>3. booked[b].stops \subseteq Stops  BY DEF TypeOK, RowsOK, Tickets
  <2>4. TripOf(b) = t  BY <2>2, <2>3, TripOfRiding
  <2> QED  BY <2>2, <2>4 DEF DateInv, DateKept
<1> QED  BY <1>1, TimetableInvariant, PTL

(* A trip whose crew one request chose has a vehicle of its driver. *)
THEOREM VehiclesAreTheirDrivers == TimetableSpec => []VehicleIsItsDrivers
<1>1. TimetableInv => VehicleIsItsDrivers  BY DEF TimetableInv, CrewInv, OwnVehicle, VehicleIsItsDrivers
<1> QED  BY <1>1, TimetableInvariant, PTL
===============================================================================
