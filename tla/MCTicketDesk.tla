----------------------------- MODULE MCTicketDesk -----------------------------
(***************************************************************************)
(* TicketDesk on small instances; the runs differ by which handlers take   *)
(* part and by the faults considered.                                      *)
(***************************************************************************)
EXTENDS TicketDesk, TLC

CONSTANTS t1, t2, u1, u2, b1, b2, r1, r2, p1, c1, e1

Symmetry ==
  Permutations(Trips) \cup Permutations(Users) \cup Permutations(Bookings)
    \cup Permutations(Refunds)
===============================================================================
