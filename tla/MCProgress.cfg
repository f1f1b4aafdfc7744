\* Three purchases race for the two seats of one trip; nothing fails but conflicts and cards.
\* A server and its monitor reload their subscriptions while two are edited and queries fail.
SPECIFICATION ProgressSpec
CONSTANTS
  Trips = {t1}
  Users = {u1, u2}
  Bookings = {b1, b2, b3}
  Items = {1}
  NoTrip = NoTrip
  Capacity = 2
  Faults = {}
  FreeTickets = {}
  OtherClients = {}
  Servers = {s1}
  Monitors = {m1}
  Subs = {a1, a2}
  Bad = {a2}
  Keys = {}
  Repeating = {}
  Tasks = {}
  Reloads = {r1, r2}
  LastStopTime = 0
  MaxClock = 0
  MaxEdits = 2
  MaxFaults = 2
INVARIANTS
  SomeoneSucceeds
PROPERTIES
  EverySaleEnds
  BusSettles
CHECK_DEADLOCK FALSE
