SPECIFICATION AccountSpec
CONSTANTS
  Users = {u1, u2, u3}
  Members = {u1, u2}
  Numbers = {n1, n2}
  Emails = {e1, e2}
  Customers = {c1, c2}
  Cards = {k1, k2, k3}
  None = None
  Requests = {r1, r2}
  Scenes <- AllScenes
  MaxCalls <- CallsOf
SYMMETRY Symmetry
INVARIANTS
  OneReferralCode
  VerifiedWasProved
  NumbersAreGivenOn
  CardsAreKept
CHECK_DEADLOCK FALSE
