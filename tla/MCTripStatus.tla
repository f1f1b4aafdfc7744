----------------------------- MODULE MCTripStatus ------------------------------
EXTENDS TripStatus

(* Two stops to board, twenty minutes apart, and one to alight; a depot a
   quarter of an hour from both. *)
MCMoments == {5, 14, 26, 29, 32, 37, 46, 53, 70}
MCTripStops == <<[time |-> 30, canBoard |-> TRUE, place |-> "first"],
                 [time |-> 50, canBoard |-> TRUE, place |-> "second"],
                 [time |-> 65, canBoard |-> FALSE, place |-> "end"]>>
MCPlaces == {"first", "second", "depot"}
MCMetres == [p \in MCPlaces \cup {"end"} |->
              [q \in MCPlaces \cup {"end"} |->
                IF p = q THEN 50 ELSE IF {p, q} = {"first", "second"} THEN 5000 ELSE 9000]]
===============================================================================
