\* Two purchases of the last seat, a refund of each kind, a replacement ticket, an edit of the capacity, a cancelled trip.
SPECIFICATION DeskSpec
CONSTANTS
  t1 = t1
  t2 = t2
  u1 = u1
  u2 = u2
  b1 = b1
  b2 = b2
  r1 = r1
  r2 = r2
  p1 = p1
  c1 = c1
  e1 = e1
  Trips = {t1}
  Users = {u1, u2}
  Bookings = {b1, b2}
  Items = {1}
  NoTrip = NoTrip
  Capacity = 1
  Faults = {"crash", "lostReply", "dbError"}
  FreeTickets = {c1}
  OtherClients = {r1, p1}
  Refunds = {r1}
  PassRefunds = {p1}
  Conversions = {c1}
  Edits = {e1}
  MaxCapacity = 2
  StatusTrips = {t1}
SYMMETRY Symmetry
CHECK_DEADLOCK FALSE
INVARIANTS
  SeatLedger
  OverbookingIsExplained
  RefundedOnce
  StripeReturnsWhatItCharged
PROPERTIES
  NoTicketOnCancelledTrip
