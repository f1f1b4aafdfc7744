---------------------------- MODULE SeatInventory ----------------------------
(***************************************************************************)
(* What the purchase of tickets promises, without databases, counters or   *)
(* interleaved steps: a booking takes all of its seats in one indivisible  *)
(* step, only while they are free and its user has no other booking on the *)
(* same trips, and later keeps them or gives all of them back, once.       *)
(***************************************************************************)
EXTENDS Integers, FiniteSets

CONSTANTS Trips, Users, Bookings, Items, NoTrip, Capacity

VARIABLE hold   \* what each booking holds

None == [state |-> "none", user |-> NoTrip, seats |-> [i \in Items |-> NoTrip]]

Holding(b)  == hold[b].state \in {"held", "kept"}
Seats(b, t) == {i \in Items : hold[b].seats[i] = t}
Taken(t)    == {x \in Bookings \X Items : Holding(x[1]) /\ x[2] \in Seats(x[1], t)}

Init == hold = [b \in Bookings |-> None]

Reserve(b, user, seats) ==
  /\ hold[b] = None
  /\ \A t \in Trips :
       LET wanted == {i \in Items : seats[i] = t}
       IN  wanted # {} =>
             /\ Cardinality(Taken(t)) + Cardinality(wanted) <= Capacity
             /\ \A a \in Bookings :
                  Holding(a) /\ hold[a].user = user => Seats(a, t) = {}
  /\ hold' = [hold EXCEPT ![b] = [state |-> "held", user |-> user, seats |-> seats]]

Settle(b, outcome) ==
  /\ hold[b].state = "held"
  /\ hold' = [hold EXCEPT ![b].state = outcome]

Next ==
  \E b \in Bookings :
    \/ \E user \in Users, seats \in [Items -> Trips \cup {NoTrip}] : Reserve(b, user, seats)
    \/ \E outcome \in {"kept", "released"} : Settle(b, outcome)

Spec == Init /\ [][Next]_hold
===============================================================================
