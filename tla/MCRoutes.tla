------------------------------- MODULE MCRoutes --------------------------------
(***************************************************************************)
(* The bids that start a route (CrowdstartBids) and a trip of it that the  *)
(* daemon watches (TripStatus), which share no row, each in behaviours of  *)
(* its own; the first state chooses.  Handlers of one kind are             *)
(* interchangeable; bids are not, since they are numbered as they come.    *)
(***************************************************************************)
EXTENDS CrowdstartBids, MCTripStatus, TLC

CONSTANTS u1, u2, p1, p2, w1, k1, k2, a1, x1

VARIABLE part

RoutesInit ==
  /\ Init /\ TripInit
  /\ \/ part = "bids" /\ \A s \in DOMAIN TripStops : riders[s] = 0
     \/ part = "trip" /\ \A p \in Posts : user[p] = u1
RoutesNext ==
  \/ part = "bids" /\ Next /\ UNCHANGED <<part, tripVars>>
  \/ part = "trip" /\ TripNext /\ UNCHANGED <<part, bidVars>>
RoutesSpec == RoutesInit /\ [][RoutesNext]_<<part, bidVars, tripVars>>

Symmetry == Permutations(Posts) \cup Permutations(Conversions)
===============================================================================
