\* One purchase of up to two passes, two sales that use them, a refund, an operator's expiry, the nightly job.
\* Two monitors that poll one trip, and two subscriptions to its alerts, one of them invalid.
SPECIFICATION RidersSpec
CONSTANTS
  o1 = o1
  s1 = s1
  s2 = s2
  r1 = r1
  e1 = e1
  Orders = {o1}
  Sales = {s1, s2}
  Refunds = {r1}
  Expiries = {e1}
  MaxPasses = 2
  MaxQuantity = 2
  Faults = {"crash", "lostReply", "dbError"}
  Servers = {}
  Monitors = {m1, m2}
  Subs = {b1, b2}
  Bad = {b2}
  Keys = {silent}
  Repeating = {silent}
  Tasks = {t1, t2}
  Reloads = {}
  LastStopTime = 4
  MaxClock = 3
  MaxEdits = 0
  MaxFaults = 2
SYMMETRY Symmetry
CHECK_DEADLOCK FALSE
INVARIANTS
  PassIsAccounted
  DischargedOnce
  UnpaidPassExplained
  AlertsAreNotRepeated
  AlertsReachSubscribers
