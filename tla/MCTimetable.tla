------------------------------ MODULE MCTimetable -------------------------------
EXTENDS Timetable, TLC

MCCrews == {<<Unset, Unset>>} \cup {<<v, Unset>> : v \in Vehicles}
TimetableSymmetry == Permutations(Edits) \cup Permutations(Clients \ Edits) \cup Permutations(Stops) \cup Permutations(Drivers)
===============================================================================
