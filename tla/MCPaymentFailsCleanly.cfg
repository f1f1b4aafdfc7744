\* Two declined cards on one trip: are both purchases undone?
SPECIFICATION Spec
CONSTANTS
  t1 = t1
  t2 = t2
  u1 = u1
  u2 = u2
  b1 = b1
  b2 = b2
  b3 = b3
  Trips = {t1}
  Users = {u1, u2}
  Bookings = {b1, b2}
  Items = {1}
  NoTrip = NoTrip
  Capacity = 2
  Faults = {}
  FreeTickets = {}
  OtherClients = {}
CHECK_DEADLOCK FALSE
INVARIANTS
  PaymentFailsCleanly
