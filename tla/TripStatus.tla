------------------------------ MODULE TripStatus -------------------------------
(***************************************************************************)
(* What the monitoring daemon says of one trip: from the pings its bus has *)
(* sent and the tickets sold so far, whether the bus is silent, under way, *)
(* late or arrived, and how severe that is (processStatus).                *)
(*                                                                         *)
(* The module follows one trip through its day.  The clock counts minutes; *)
(* pings, bookings, a cancellation and polls happen at any of its moments. *)
(* What becomes of the events a poll raises is Monitoring.                 *)
(***************************************************************************)
EXTENDS Integers, SequencesExt, FiniteSetsExt

CONSTANTS
  Moments,       \* the minutes of the day at which something may happen
  TripStops,     \* the stops in order: [time, canBoard, place]
  Places,        \* where a bus may be when it pings
  Metres,        \* Metres[p][q]: the distance of two places
  NotifyEmpty,   \* the route has the tag notify-when-empty
  MaxPings,      \* bound on the pings of the trip
  MaxRiders      \* bound on the bookings and cancelled tickets of the trip

ASSUME StopsAreInOrder ==
  \A i, j \in DOMAIN TripStops : i < j => TripStops[i].time < TripStops[j].time
ASSUME DistancesAreNat == \A p \in Places : \A s \in DOMAIN TripStops : Metres[p][TripStops[s].place] \in Nat
ASSUME StopsAreTimed ==
  DOMAIN TripStops \subseteq Nat \ {0} /\ \A s \in DOMAIN TripStops : TripStops[s].time \in Nat
ASSUME DayIsKnown == Moments # {} /\ "nowhere" \notin Places
ASSUME PingBoundsAreNat == MaxPings \in Nat /\ MaxRiders \in Nat /\ Moments \subseteq Nat

VARIABLES
  now,        \* the time
  pings,      \* table pings: [time, place] of each ping of the trip
  riders,     \* table tickets: the valid tickets that board at each stop
  cancelled,  \* trips.status is 'cancelled'
  latest,     \* latestData of the daemon: its last status of this trip
  bookings    \* how many tickets were sold or cancelled (bound)

tripVars == <<now, pings, riders, cancelled, latest, bookings>>

GeofenceRadius == 120
Speed == 35                                   \* km/h
Nowhere == [time |-> 0, place |-> "nowhere"]  \* no such ping
NoStop == 0
Never == -1

Event(kind, severity, mins) == [kind |-> kind, severity |-> severity, mins |-> mins]
OK       == Event("ok", 0, 0)
DontCare == Event("dontCare", -1, 0)
NoPings(severity, mins) == Event("noPings", severity, mins)

Distance(a, b) == IF a > b THEN a - b ELSE b - a

(* The ping near the stop whose time is closest to the time of the stop, the
   earlier of two as close; undefined when no ping is near. *)
Near(stop, ps) == {p \in ps : Metres[p.place][stop.place] <= GeofenceRadius}
LastOf(stop, ps) == {p \in ps : \A q \in ps : q.time <= p.time}       \* mutant: the last of them
Closest(stop, ps) == {p \in ps : \A q \in ps : Distance(p.time, stop.time) <= Distance(q.time, stop.time)}
BestPing(stop, ps) ==
  LET near == Near(stop, ps) IN IF near = {} THEN Nowhere
                                  ELSE CHOOSE p \in Closest(stop, near) : \A q \in Closest(stop, near) : p.time <= q.time

LastPing(ps) == IF ps = {} THEN Nowhere ELSE CHOOSE p \in ps : \A q \in ps : q.time <= p.time

(* Boarding stops, with passengers unless the route is to be watched when
   it runs empty. *)
Relevant == {s \in DOMAIN TripStops : TripStops[s].canBoard /\ (NotifyEmpty \/ riders[s] > 0)}

NextRelevant == LET ahead == {s \in Relevant : TripStops[s].time > now} IN IF ahead = {} THEN NoStop ELSE Min(ahead)
PrevRelevant == LET passed == {s \in Relevant : TripStops[s].time <= now} IN IF passed = {} THEN NoStop ELSE Max(passed)

(* Whether the next stop is watched already: from half an hour before the
   first, a quarter of an hour before the others. *)
NextIsClose(s) ==
  s # NoStop /\ TripStops[s].time - now <= (IF s = Min(Relevant) THEN 30 ELSE 15)

(* A lone pick-up may be left five minutes early, any other two. *)
ArrivalWindow == IF Cardinality(Relevant) > 1 THEN -2 ELSE -5
Deviation(s, ps) == BestPing(TripStops[s], ps).time - TripStops[s].time
Arrived(s, ps) == s # NoStop /\ BestPing(TripStops[s], ps) # Nowhere /\ Deviation(s, ps) >= ArrivalWindow

RecentlyPinged(ps) == LastPing(ps) # Nowhere /\ now - LastPing(ps).time <= 5

(* At 35 km/h from the last ping, the bus is at least ten minutes late. *)
ExpectedLate(s, ps) ==
  60 * Metres[LastPing(ps).place][TripStops[s].place] >= (10 + TripStops[s].time - now) * 1000 * Speed

NumFiveMins(mins) == (mins + 4) \div 5

PrevForgotten(s, ps) ==                                               \* mutant: only stops ahead count
  IF Arrived(s, ps) THEN Event("arrived", 0, 0) ELSE DontCare
PrevPingEvent(s, ps) ==
  CASE s = NoStop -> DontCare
    [] s # NoStop /\ Arrived(s, ps) -> Event("arrived", 0, 0)
    [] s # NoStop /\ ~Arrived(s, ps) /\ RecentlyPinged(ps) -> Event("switchedOn", 0, 0)
    [] OTHER -> NoPings(4, 5)

PingEvent(next, prev, ps) ==
  IF ~NextIsClose(next) THEN PrevPingEvent(prev, ps)
  ELSE LET left == TripStops[next].time - now
       IN CASE RecentlyPinged(ps) -> OK
            [] ~RecentlyPinged(ps) /\ left <= 5 -> NoPings(4, 5)
            [] ~RecentlyPinged(ps) /\ left > 5 /\ left <= 25 -> NoPings(3, NumFiveMins(left) * 5)
            [] OTHER -> DontCare

EtaEvent(s, ps) ==
  CASE LastPing(ps) = Nowhere -> DontCare
    [] LastPing(ps) # Nowhere /\ ExpectedLate(s, ps) -> Event("lateETA", 3, 10)
    [] OTHER -> Event("onTrack", 0, 0)
ArrivalEvent(late) ==
  CASE late > 15 -> Event("lateArrival", 3, late)
    [] late > 5 /\ late <= 15 -> Event("lateArrival", 2, late)
    [] OTHER -> Event("onTime", 0, 0)
DistanceEvent(next, prev, ps) ==
  CASE NextIsClose(next) -> EtaEvent(next, ps)
    [] ~NextIsClose(next) /\ prev # NoStop /\ Arrived(prev, ps) -> ArrivalEvent(Deviation(prev, ps))
    [] ~NextIsClose(next) /\ prev # NoStop /\ ~Arrived(prev, ps) -> EtaEvent(prev, ps)
    [] OTHER -> DontCare

EmergencyEvent == IF cancelled THEN Event("emergency", 5, 0) ELSE DontCare

(* _.maxBy: the first of the most severe. *)
MostSevere(es) == es[Min({i \in DOMAIN es : \A j \in DOMAIN es : es[j].severity <= es[i].severity})]

Status ==
  LET next == NextRelevant
      prev == PrevRelevant
      ping == PingEvent(next, prev, pings)
      distance == DistanceEvent(next, prev, pings)
  IN [date |-> now, ping |-> ping, distance |-> distance, emergency |-> EmergencyEvent,
      worst |-> MostSevere(<<EmergencyEvent, distance, ping>>),
      arrivalTime |-> IF Arrived(prev, pings) THEN BestPing(TripStops[prev], pings).time ELSE Never,
      prev |-> prev, watched |-> Relevant, nobody |-> \A s \in DOMAIN riders : riders[s] = 0]

(* The text message of monitoringSms: a severe event of a trip with
   passengers. *)
IsTexted(status) == ~status.nobody /\ status.worst.severity >= 3

Unpolled == [date |-> Never, ping |-> DontCare, distance |-> DontCare, emergency |-> DontCare, worst |-> DontCare,
             arrivalTime |-> Never, prev |-> NoStop, watched |-> {}, nobody |-> TRUE]

TripInit ==
  /\ now = Min(Moments)
  /\ pings = {}
  /\ riders \in [DOMAIN TripStops -> {0, 1}]
  /\ \A s \in DOMAIN TripStops : riders[s] > 0 => TripStops[s].canBoard
  /\ cancelled = FALSE
  /\ latest = Unpolled
  /\ bookings = 0

Pass ==
  /\ \E t \in Moments : t > now
  /\ now' = Min({t \in Moments : t > now})
  /\ UNCHANGED <<pings, riders, cancelled, latest, bookings>>

(* POST /trips/{id}/pings; the row gets the server's time. *)
Ping(place) ==
  /\ Cardinality(pings) < MaxPings
  /\ pings' = pings \cup {[time |-> now, place |-> place]}
  /\ UNCHANGED <<now, riders, cancelled, latest, bookings>>

(* A ticket from the stop is sold, or stops being valid. *)
Book(s, n) ==
  /\ bookings < MaxRiders
  /\ TripStops[s].canBoard
  /\ riders[s] + n \in 0..2
  /\ riders' = [riders EXCEPT ![s] = @ + n]
  /\ bookings' = bookings + 1
  /\ UNCHANGED <<now, pings, cancelled, latest>>

Cancel ==
  /\ ~cancelled
  /\ cancelled' = TRUE
  /\ UNCHANGED <<now, pings, riders, latest, bookings>>

Poll ==
  /\ latest' = Status
  /\ UNCHANGED <<now, pings, riders, cancelled, bookings>>

TripNext ==
  \/ Pass
  \/ \E p \in Places : Ping(p)
  \/ \E s \in DOMAIN TripStops, n \in {-1, 1} : Book(s, n)
  \/ Cancel
  \/ Poll

TripSpec == TripInit /\ [][TripNext]_tripVars

-----------------------------------------------------------------------------
Passengers == \E s \in DOMAIN riders : riders[s] > 0
FirstWatched == Min(Relevant)

(* From 25 minutes before its first stop with passengers on, a bus that has
   never sent a ping is reported at every poll, whichever stop the daemon
   looks at by then: the branches of processStatus for the next and for the
   previous stop leave no gap between two stops or after the last one.  Its
   event passes the schema of events/definitions.js, which emit enforces. *)
SilentBusIsReported ==
  pings = {} /\ Relevant # {} /\ now >= TripStops[FirstWatched].time - 25
    => /\ Status.ping.kind = "noPings" /\ Status.ping.severity >= 3
       /\ Status.ping.mins \in {5, 10, 15, 20, 25}
       /\ Passengers => IsTexted(Status)

(* Once a poll has seen the bus arrive at a stop, later polls do not take
   that back, nor report a greater deviation from the timetable, while the
   same stops are watched: later pings can only bring the best ping closer to
   the time of the stop.  (A ticket sold at a second stop narrows the window
   from five minutes to two, and may.) *)
ArrivalIsFinal ==
  [][latest.arrivalTime # Never /\ latest'.prev = latest.prev /\ latest'.watched = latest.watched
       => LET due == TripStops[latest.prev].time
          IN latest'.arrivalTime # Never /\ Distance(latest'.arrivalTime, due) <= Distance(latest.arrivalTime, due)]_latest

===============================================================================
