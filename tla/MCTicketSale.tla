----------------------------- MODULE MCTicketSale -----------------------------
(***************************************************************************)
(* TicketSale on small instances. Users, trips and bookings are            *)
(* interchangeable, so their permutations are a symmetry of the safety     *)
(* runs (not of the liveness run).                                         *)
(***************************************************************************)
EXTENDS TicketSale, TLC

CONSTANTS t1, t2, u1, u2, b1, b2, b3

Symmetry == Permutations(Trips) \cup Permutations(Users) \cup Permutations(Bookings)
===============================================================================
