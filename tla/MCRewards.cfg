SPECIFICATION Spec
CONSTANTS
  Users = {u1, u2}
  Nobody = Nobody
  Purchases = {p1, p2}
  Applications = {a1, a2}
  GlobalLimit = 1
  UserLimit = 2
  MaxTickets = 2
  FirstCredits = 1
  Reward = 1
SYMMETRY Symmetry
INVARIANTS
  BalancesAccounted
  NothingOverspent
  GlobalCountAccounted
  PayoutsExplained
CHECK_DEADLOCK FALSE
