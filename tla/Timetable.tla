------------------------------- MODULE Timetable --------------------------------
(***************************************************************************)
(* Trips as operators, drivers and passengers see them at once: the date of *)
(* a trip, the times of its stops, and the vehicle and driver that run it. *)
(* POST, PUT and DELETE of trips, setVehicle and setDriver, POST, PUT and  *)
(* DELETE of vehicles run while tickets are bought and cancelled.          *)
(*                                                                         *)
(* A time is in hours from midnight of day 0.  Edits are the requests that *)
(* PUT a trip, each other client makes one request of any other kind.      *)
(***************************************************************************)
EXTENDS Integers, FiniteSets, DbTransactions

CONSTANTS
  Edits,               \* those of Clients that PUT a trip
  Trips, Stops,        \* rows trips and tripStops may have
  Drivers, Vehicles,
  Dates, Times,
  FirstDates,          \* the dates of the trips posted so far
  Crews,               \* <<vehicle, driver>> a PUT of a trip may name
  Unset, None,         \* a field the request leaves out, a null
  MaxStops,            \* bound on the stops a trip is created with
  MaxChanges,          \* bound on the things one PUT of a trip changes
  MaxRequests          \* bound on the requests made

ASSUME EditsAreClients == Edits \subseteq Clients
ASSUME DatesStart == FirstDates \subseteq Dates
ASSUME CrewsNameRows == Crews \subseteq (Vehicles \cup {Unset, None}) \X (Drivers \cup {Unset, None})
ASSUME UnsetNamesNothing == Unset \notin Vehicles \cup Drivers \cup {None}

VARIABLES
  tripRow,    \* table trips: date, vehicle, driver
  stopRow,    \* table tripStops: trip, time
  owner,      \* table vehicles: driverId
  booked,     \* table tickets, one per booking: status, stops, the date it was bought for
  asked,      \* per request, what its handler has read so far
  late,       \* history: tickets bought, or brought back, after an edit of the date had counted
  apart       \* history: trips whose vehicle and driver no one request has chosen, or vehicles given away

tables  == <<tripRow, stopRow, owner, booked>>
ttVars  == <<tables, asked, late, apart, open, stale>>
history == <<late, apart>>

Unborn == "unborn"
Gone   == "gone"
Statuses == {"valid", "failed", "void", "refunded"}
NoTicket == [status |-> None, stops |-> {}, date |-> 0]

ASSUME RowsAreDistinct == {Unborn, Gone} \cap (Trips \cup Drivers) = {} /\ None \notin Statuses

StopsIn(t) == {s \in Stops : stopRow[s].trip = t}

(* Trips posted earlier. *)
TimetableInit ==
  /\ tripRow \in [Trips -> [live : {TRUE}, date : FirstDates, vehicle : {None}, driver : {None}]]
  /\ stopRow \in [Stops -> [trip : Trips, time : Times] \cup {[trip |-> Unborn, time |-> None]}]
  /\ \A t \in Trips : Cardinality(StopsIn(t)) <= MaxStops
  /\ owner \in [Vehicles -> Drivers \cup {Unborn}]
  /\ booked = [r \in Clients |-> NoTicket]
  /\ asked = [r \in Clients |-> [step |-> "new"]]
  /\ late = {} /\ apart = {}
  /\ open = {} /\ stale = [r \in Clients |-> {}]

Exists(v)  == owner[v] \in Drivers
Held(S)    == \E b \in Clients : booked[b].stops \cap S # {}
Answered   == [step |-> "done"]
New(r)     == /\ asked[r].step = "new"
              /\ Cardinality({c \in Clients : asked[c].step # "new"}) < MaxRequests
Fresh(r)   == New(r) /\ r \notin Edits

\* A ticket's trip is that of its stops.
TripOf(b) == CHOOSE t \in Trips : booked[b].stops \cap StopsIn(t) # {}

-----------------------------------------------------------------------------
(* POST /trips and DELETE /trips/{id}.  The times of a new trip are not
   compared with its date. *)

PostTrip(r, t, date) ==
  /\ Fresh(r) /\ ~tripRow[t].live
  /\ \E S \in SUBSET {s \in Stops : stopRow[s].trip = Unborn} :
       \E time \in [S -> Times] :
         /\ Cardinality(S) <= MaxStops
         /\ stopRow' = [s \in Stops |-> IF s \in S THEN [trip |-> t, time |-> time[s]] ELSE stopRow[s]]
  /\ tripRow' = [tripRow EXCEPT ![t] = [live |-> TRUE, date |-> date, vehicle |-> None, driver |-> None]]
  /\ asked' = [asked EXCEPT ![r] = Answered]
  /\ UNCHANGED <<owner, booked, late, apart, open, stale>>

\* The stops go with the trip; a ticket on one of them keeps both.
DeleteTrip(r, t) ==
  /\ Fresh(r) /\ tripRow[t].live
  /\ ~Held(StopsIn(t))
  /\ tripRow' = [tripRow EXCEPT ![t].live = FALSE]
  /\ stopRow' = [s \in Stops |-> IF s \in StopsIn(t) THEN [trip |-> Gone, time |-> None] ELSE stopRow[s]]
  /\ asked' = [asked EXCEPT ![r] = Answered]
  /\ EndTx(r, {t} \cup StopsIn(t))
  /\ UNCHANGED <<owner, booked, history>>

-----------------------------------------------------------------------------
(* PUT /trips/{id}: the trip is read; when the date is to change the tickets
   are counted; then one transaction writes the trip and its stops. *)

Fits(time, date) == time - 24 * date > -8 /\ time - 24 * date < 18

DateChanges(e) == e.date # Unset /\ e.date # e.was.date
CrewChanges(e) == \/ e.crew[1] \notin {Unset, e.was.vehicle}
                  \/ e.crew[2] \notin {Unset, e.was.driver}

Changes(t, times, date, crew, new, other) ==
  Cardinality({s \in StopsIn(t) : s \in DOMAIN times => times[s] # Unset})
    + Cardinality({date, new, crew[1], crew[2]} \ {Unset, None}) + (IF other = Unset THEN 0 ELSE 1)

\* times: the listed stops of the trip, and the time each is given;
\* new: the time of a stop to be added; other: of the trip's columns none of these changes
\* but another, as the capacity, which becomes null when the request names none.
EditRead(r, t) ==
  /\ New(r) /\ r \in Edits /\ tripRow[t].live
  /\ \E keep \in SUBSET StopsIn(t), date \in Dates \cup {Unset}, crew \in Crews, new \in Times \cup {Unset, None},
        other \in {Unset, None} :
       \E times \in [keep -> Times \cup {Unset}] :
         /\ other # Unset => date = Unset /\ crew = <<Unset, Unset>>
         /\ Changes(t, times, date, crew, new, other) <= MaxChanges
         /\ asked' = [asked EXCEPT ![r] = [step |-> "read", trip |-> t, was |-> tripRow[t], date |-> date,
                                        crew |-> crew, other |-> other, times |-> times, new |-> new, seen |-> tripRow[t].date,
                                        stops |-> {}]]
  /\ UNCHANGED <<tables, history, open, stale>>

\* Mutant of Bookings: only refunds are looked for.
RefundsOnly(t) == {b \in Clients : booked[b].status = "refunded" /\ TripOf(b) = t}
Bookings(t) == {b \in Clients : booked[b].status \in {"valid", "refunded"} /\ TripOf(b) = t}

EditCount(r) ==
  LET t == asked[r].trip
  IN /\ asked[r].step = "read" /\ DateChanges(asked[r])
     /\ IF Bookings(t) = {}
          THEN /\ asked' = [asked EXCEPT ![r].step = "counted"]
               /\ late' = late \cup {b \in Clients : booked[b].status \in {"failed", "void"} /\ TripOf(b) = t}
          ELSE asked' = [asked EXCEPT ![r] = Answered] /\ UNCHANGED late
     /\ UNCHANGED <<tables, apart, open, stale>>

EditBegin(r) ==
  LET t == asked[r].trip
  IN /\ \/ asked[r].step = "counted"
        \/ asked[r].step = "read" /\ ~DateChanges(asked[r])
     /\ tripRow[t].live
     /\ BeginTx(r)
     /\ asked' = [asked EXCEPT ![r].step = "writing", ![r].stops = StopsIn(t),
                               ![r].seen = IF DateChanges(asked[r]) THEN asked[r].date ELSE tripRow[t].date]
     /\ UNCHANGED <<tables, history>>

Dropped(e) == e.stops \ DOMAIN e.times
Retimed(e) == {s \in e.stops \cap DOMAIN e.times : e.times[s] # Unset}
RowsOfEdit(e) == e.stops \cup IF e.other # Unset \/ DateChanges(e) \/ CrewChanges(e) THEN {e.trip} ELSE {}
TimesFit(e) == /\ \A s \in DOMAIN e.times : e.times[s] # Unset => Fits(e.times[s], e.seen)
               /\ e.new \in Times => Fits(e.new, e.seen)

EditFits(r) ==
  LET e == asked[r]
  IN /\ tripRow[e.trip].live
     /\ ~Conflict(r, RowsOfEdit(e))
     /\ TimesFit(e)
     /\ ~Held(Dropped(e))
     /\ e.crew[1] \in Vehicles => Exists(e.crew[1])

\* Sequelize writes the columns that differ from what was read.
Changed(to, was, current) == IF to \in {Unset, was} THEN current ELSE to

AddedStops(e) == IF e.new = None THEN {{}} ELSE {{s} : s \in {i \in Stops : stopRow[i].trip = Unborn}}

EditCommit(r) ==
  LET e == asked[r]
      t == e.trip
  IN /\ e.step = "writing" /\ EditFits(r)
     /\ tripRow' = [tripRow EXCEPT ![t].date = Changed(e.date, e.was.date, @),
                                   ![t].vehicle = Changed(e.crew[1], e.was.vehicle, @),
                                   ![t].driver = Changed(e.crew[2], e.was.driver, @)]
     /\ \E add \in AddedStops(e) :
          /\ stopRow' = [s \in Stops |->
                CASE s \in add        -> [trip |-> t, time |-> IF e.new = Unset THEN None ELSE e.new]
                  [] s \in Dropped(e) -> [trip |-> Gone, time |-> None]
                  [] s \in Retimed(e) -> [trip |-> t, time |-> e.times[s]]
                  [] OTHER            -> stopRow[s]]
     /\ apart' = IF CrewChanges(e) THEN apart \cup {t} ELSE apart
     /\ asked' = [asked EXCEPT ![r] = Answered]
     /\ EndTx(r, RowsOfEdit(e))
     /\ UNCHANGED <<owner, booked, late>>

EditAborts(r) ==
  /\ asked[r].step = "writing" /\ ~EditFits(r)
  /\ asked' = [asked EXCEPT ![r] = Answered]
  /\ EndTx(r, {})
  /\ UNCHANGED <<tables, history>>

-----------------------------------------------------------------------------
(* setVehicle, of an operator, takes the driver of the vehicle; setDriver, of
   a driver, takes one of his vehicles, or none. *)

SetVehicleRead(r, t, v) ==
  /\ Fresh(r) /\ Exists(v)
  /\ asked' = [asked EXCEPT ![r] = [step |-> "chosen", trip |-> t, vehicle |-> v, driver |-> owner[v]]]
  /\ UNCHANGED <<tables, history, open, stale>>

SetDriverRead(r, t, d) ==
  /\ Fresh(r)
  /\ \E v \in {i \in Vehicles : owner[i] = d} \cup {None} :
       asked' = [asked EXCEPT ![r] = [step |-> "chosen", trip |-> t, vehicle |-> v, driver |-> d]]
  /\ UNCHANGED <<tables, history, open, stale>>

CrewTripRead(r) ==
  LET a == asked[r]
      read == [step |-> "saving", trip |-> a.trip, vehicle |-> a.vehicle, driver |-> a.driver, was |-> tripRow[a.trip]]
  IN /\ a.step = "chosen"
     /\ asked' = [asked EXCEPT ![r] = IF tripRow[a.trip].live THEN read ELSE Answered]
     /\ UNCHANGED <<tables, history, open, stale>>

\* Mutant of SavedCrew: the driver is not saved.
VehicleSaved(a, row) == [row EXCEPT !.vehicle = Changed(a.vehicle, a.was.vehicle, @)]
SavedCrew(a, row) == [row EXCEPT !.vehicle = Changed(a.vehicle, a.was.vehicle, @),
                                 !.driver = Changed(a.driver, a.was.driver, @)]

SameCrew(x, y) == x.vehicle = y.vehicle /\ x.driver = y.driver
MaySave(a) == tripRow[a.trip].live /\ (a.vehicle # None => Exists(a.vehicle))

CrewSave(r) ==
  LET a == asked[r]
      t == a.trip
  IN /\ a.step = "saving" /\ MaySave(a)
     /\ tripRow' = [tripRow EXCEPT ![t] = SavedCrew(a, @)]
     /\ apart' = IF SameCrew(tripRow[t], a.was) /\ (a.vehicle = None \/ owner[a.vehicle] = a.driver)
                   THEN apart \ {t} ELSE apart \cup {t}
     /\ asked' = [asked EXCEPT ![r] = Answered]
     /\ EndTx(r, IF SameCrew(a, a.was) THEN {} ELSE {t})
     /\ UNCHANGED <<stopRow, owner, booked, late>>

CrewSaveFails(r) ==
  /\ asked[r].step = "saving" /\ ~MaySave(asked[r])
  /\ asked' = [asked EXCEPT ![r] = Answered]
  /\ UNCHANGED <<tables, history, open, stale>>

-----------------------------------------------------------------------------
(* POST, PUT and DELETE of vehicles. *)

TripsWith(v) == {t \in Trips : tripRow[t].live /\ tripRow[t].vehicle = v}

\* A driver may name any driver as the new one; an admin's request changes none.
GiveVehicle(r, v, d) ==
  /\ Fresh(r) /\ Exists(v)
  /\ owner' = [owner EXCEPT ![v] = d]
  /\ apart' = IF d = owner[v] THEN apart ELSE apart \cup TripsWith(v)
  /\ asked' = [asked EXCEPT ![r] = Answered]
  /\ UNCHANGED <<tripRow, stopRow, booked, late, open, stale>>

AddVehicle(r, v, d) ==
  /\ Fresh(r) /\ owner[v] = Unborn
  /\ owner' = [owner EXCEPT ![v] = d]
  /\ asked' = [asked EXCEPT ![r] = Answered]
  /\ UNCHANGED <<tripRow, stopRow, booked, history, open, stale>>

\* The foreign key of trips is set to NULL.
DeleteVehicle(r, v) ==
  /\ Fresh(r) /\ Exists(v)
  /\ owner' = [owner EXCEPT ![v] = Gone]
  /\ tripRow' = [t \in Trips |-> IF tripRow[t].vehicle = v THEN [tripRow[t] EXCEPT !.vehicle = None] ELSE tripRow[t]]
  /\ asked' = [asked EXCEPT ![r] = Answered]
  /\ EndTx(r, TripsWith(v))
  /\ UNCHANGED <<stopRow, booked, history>>

-----------------------------------------------------------------------------
(* Tickets: what TicketSale and TicketDesk do to them, as far as trips and
   stops see it.  A sale writes the seat counter of the trip. *)

\* Where a passenger boards and alights.
StopsToAsk(t) == {S \in SUBSET StopsIn(t) : Cardinality(S) \in 1 .. 2}

BookBegin(r, t) ==
  /\ Fresh(r) /\ tripRow[t].live
  /\ \E S \in StopsToAsk(t) :
       asked' = [asked EXCEPT ![r] = [step |-> "booking", trip |-> t, stops |-> S, date |-> tripRow[t].date]]
  /\ BeginTx(r)
  /\ UNCHANGED <<tables, history>>

BookFits(r) == ~Conflict(r, {asked[r].trip}) /\ asked[r].stops \subseteq StopsIn(asked[r].trip)

BookCommit(r) ==
  LET b == asked[r]
  IN /\ b.step = "booking" /\ BookFits(r)
     /\ booked' = [booked EXCEPT ![r] = [status |-> "valid", stops |-> b.stops, date |-> b.date]]
     /\ late' = IF \E e \in Clients : asked[e].step = "counted" /\ asked[e].trip = b.trip
                  THEN late \cup {r} ELSE late
     /\ asked' = [asked EXCEPT ![r] = Answered]
     /\ EndTx(r, {b.trip})
     /\ UNCHANGED <<tripRow, stopRow, owner, apart>>

BookAborts(r) ==
  /\ asked[r].step = "booking" /\ ~BookFits(r)
  /\ asked' = [asked EXCEPT ![r] = Answered]
  /\ EndTx(r, {})
  /\ UNCHANGED <<tables, history>>

StatusAfter(status) ==
  CASE status = "valid"    -> {"failed", "void", "refunded"}
    [] status = "void"     -> {"refunded"}
    [] status = "refunded" -> {"valid"}
    [] OTHER               -> {}

\* The payment fails, the ticket is cancelled or refunded, a refund is undone.
ChangeTicket(b, status) ==
  /\ status \in StatusAfter(booked[b].status)
  /\ booked' = [booked EXCEPT ![b].status = status]
  /\ EndTx(b, IF "valid" \in {status, booked[b].status} THEN {TripOf(b)} ELSE {})
  /\ UNCHANGED <<tripRow, stopRow, owner, asked, history>>

-----------------------------------------------------------------------------
TripRequest(r, t) ==
  \/ \E date \in Dates : PostTrip(r, t, date)
  \/ DeleteTrip(r, t)
  \/ EditRead(r, t)
  \/ \E v \in Vehicles : SetVehicleRead(r, t, v)
  \/ \E d \in Drivers : SetDriverRead(r, t, d)
  \/ BookBegin(r, t)

VehicleRequest(r, v) ==
  \/ \E d \in Drivers : GiveVehicle(r, v, d) \/ AddVehicle(r, v, d)
  \/ DeleteVehicle(r, v)

Handling(r) ==
  \/ EditCount(r) \/ EditBegin(r) \/ EditCommit(r) \/ EditAborts(r)
  \/ CrewTripRead(r) \/ CrewSave(r) \/ CrewSaveFails(r)
  \/ BookCommit(r) \/ BookAborts(r)

TimetableNext ==
  \E r \in Clients :
    \/ \E t \in Trips : TripRequest(r, t)
    \/ \E v \in Vehicles : VehicleRequest(r, v)
    \/ Handling(r)
    \/ \E status \in Statuses : ChangeTicket(r, status)

TimetableSpec == TimetableInit /\ [][TimetableNext]_ttVars

-----------------------------------------------------------------------------
(* A ticket that is valid or refunded is for the date it was bought for.  The
   tickets are counted before, and outside of, the transaction that writes the
   date: the exceptions were bought between the two, or were neither valid nor
   refunded when they were counted (and a refused refund made them valid). *)
TicketsKeepTheirDate ==
  \A b \in Clients :
    booked[b].status \in {"valid", "refunded"} /\ booked[b].date # tripRow[TripOf(b)].date => b \in late

(* The vehicle of a trip is one of its driver's, unless two requests that set
   them overlapped (each writes only the columns that differ from the trip it
   read), an edit of the trip set them, or the vehicle was given away. *)
VehicleIsItsDrivers ==
  \A t \in Trips \ apart :
    tripRow[t].live /\ tripRow[t].vehicle # None => owner[tripRow[t].vehicle] = tripRow[t].driver

===============================================================================
