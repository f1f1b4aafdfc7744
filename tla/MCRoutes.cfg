\* Two posts, a withdrawal, two conversions, an activation and an expiry of one route.
\* A trip of three stops through its day.
SPECIFICATION RoutesSpec
CONSTANTS
  u1 = u1
  u2 = u2
  p1 = p1
  p2 = p2
  w1 = w1
  k1 = k1
  k2 = k2
  a1 = a1
  x1 = x1
  Users = {u1, u2}
  Posts = {p1, p2}
  Withdrawals = {w1}
  Conversions = {k1, k2}
  Activations = {a1}
  Expirations = {x1}
  MaxBids = 2
  Faults = {"crash", "lostReply", "dbError", "passTaken"}
  Moments <- MCMoments
  TripStops <- MCTripStops
  Places <- MCPlaces
  Metres <- MCMetres
  NotifyEmpty = FALSE
  MaxPings = 2
  MaxRiders = 1
SYMMETRY Symmetry
CHECK_DEADLOCK FALSE
INVARIANTS
  FailedBidNeverConverted
  DuplicateBidsExplained
  ConversionsExplained
  ConvertedBidIsVoid
  SilentBusIsReported
PROPERTIES
  ArrivalIsFinal
