SPECIFICATION BooksSpec
CONSTANTS
  Orders <- MCOrders
  MinCharge = 50
  Unlimited = Unlimited
  MaxRows = 4
  MaxChanges = 2
  PerPage = 2
  FirstSize = 1
  Rows = {i1, i2}
  Passengers = {p1, p2}
  Devices = {d1}
  Admin = Admin
  Mails = {m1}
  Places = {here}
  Nowhere = Nowhere
  Hours = {0, 1}
  Nothing = Nothing
  Limit = 1
  WebRequests = {w1, w2}
  MaxAsks = 2
  MaxLinks = 1
SYMMETRY Symmetric
INVARIANTS
  BooksBalance
  EveryItemIsPaidFor
  PromotionsAsAdvertised
  ReportsAreComplete
  TravelTimeFitsTrip
CHECK_DEADLOCK FALSE
