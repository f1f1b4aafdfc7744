SPECIFICATION PricingSpec
CONSTANTS
  Orders <- HalfPrice
  MinCharge = 50
  Unlimited = Unlimited
INVARIANTS
  RefundsAsDocumented
CHECK_DEADLOCK FALSE
