---------------------------- MODULE MCRoutePasses -----------------------------
(***************************************************************************)
(* RoutePasses and the alerts of the daemon (Monitoring), which share no   *)
(* row, each in behaviours of its own; the first state chooses.  Handlers  *)
(* of one kind and monitors are interchangeable; passes are not, since     *)
(* they are used in order.                                                 *)
(***************************************************************************)
EXTENDS RoutePasses, Monitoring, TLC

CONSTANTS o1, s1, s2, r1, e1

VARIABLE part

RidersInit ==
  /\ Init /\ MonInit
  /\ \/ part = "passes" /\ table = Subs
     \/ part = "alerts"
RidersNext ==
  \/ part = "passes" /\ Next /\ UNCHANGED <<part, monVars>>
  \/ part = "alerts" /\ MonNext /\ UNCHANGED <<part, passVars>>
RidersSpec == RidersInit /\ [][RidersNext]_<<part, passVars, monVars>>

Symmetry == Permutations(Sales) \cup Permutations(Monitors) \cup Permutations(Tasks)
===============================================================================
