SPECIFICATION TimetableSpec
CONSTANTS
  Clients = {e1, e2, r1, r2}
  Edits = {e1, e2}
  Trips = {t1}
  Stops = {s1, s2}
  Drivers = {d1, d2}
  Vehicles = {v1}
  Dates = {0, 1}
  FirstDates = {0}
  Times = {16, 18}
  Crews <- MCCrews
  MaxStops = 1
  MaxChanges = 2
  MaxRequests = 3
  Unset = unset
  None = none
SYMMETRY TimetableSymmetry
INVARIANTS
  TicketsKeepTheirDate
  VehicleIsItsDrivers
CHECK_DEADLOCK FALSE
