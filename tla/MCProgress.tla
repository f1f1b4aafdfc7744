------------------------------- MODULE MCProgress -------------------------------
(* What must happen in the end: purchases (TicketSale) and the reloading of   *)
(* subscriptions (Monitoring), each in behaviours of its own, as the two share *)
(* nothing; the first state chooses.                                          *)
EXTENDS TicketSale, Monitoring

VARIABLE part
progressVars == <<part, saleVars, monVars>>

ProgressInit ==
  /\ Init /\ MonInit
  /\ \/ part = "sale" /\ table = Subs
     \/ part = "bus" /\ \A b \in Bookings : order[b] = CHOOSE o \in Orders : TRUE

SaleMove(A) == part = "sale" /\ A /\ UNCHANGED <<part, monVars>>
BusMove(A)  == part = "bus" /\ A /\ UNCHANGED <<part, saleVars>>

ProgressSpec ==
  /\ ProgressInit
  /\ [][SaleMove(Next) \/ BusMove(MonNext)]_progressVars
  /\ \A b \in Bookings : WF_progressVars(SaleMove(Handle(b)))
  /\ \A p \in Procs : WF_progressVars(BusMove(LoopStep(p)))

(* SubscriptionsSettle, of the behaviours in which the processes run. *)
BusSettles == part = "bus" => SubscriptionsSettle
===============================================================================
