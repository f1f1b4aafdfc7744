\* Two purchases of up to two seats over two trips of two seats; every fault.
SPECIFICATION Spec
CONSTANTS
  t1 = t1
  t2 = t2
  u1 = u1
  u2 = u2
  b1 = b1
  b2 = b2
  b3 = b3
  Trips = {t1, t2}
  Users = {u1, u2}
  Bookings = {b1, b2}
  Items = {1, 2}
  NoTrip = NoTrip
  Capacity = 2
  Faults = {"crash", "lostReply", "dbError"}
  FreeTickets = {}
  OtherClients = {}
SYMMETRY Symmetry
CHECK_DEADLOCK FALSE
INVARIANTS
  SeatsMatchTickets
  OnePurchasePerTrip
  AllOrNothing
  MoneyIsTraced
PROPERTIES
  ImplementsInventory
