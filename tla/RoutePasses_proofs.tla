-------------------------- MODULE RoutePasses_proofs --------------------------
(***************************************************************************)
(* Theorems about RoutePasses for every number of requests, every number   *)
(* of passes and every choice of faults, and about Reports for every size  *)
(* of table and of page.                                                   *)
(***************************************************************************)
EXTENDS RoutePasses, Reports, FiniteSetTheorems, TLAPS

\* The first passes of a set are passes of the set.
LEMMA FirstIsSubset ==
  ASSUME NEW passes, NEW n
  PROVE  First(passes, n) \subseteq passes
  BY DEF First

\* Every pass a handler can take is a row of the table.
LEMMA TableRows == Valid \subseteq PassIds /\ Unborn \subseteq PassIds
  BY DEF Valid, Unborn

\* The status of every pass after a write.
LEMMA Written ==
  ASSUME NEW passes, NEW s, Write(passes, s), NEW p \in PassIds
  PROVE  status'[p] = IF p \in passes THEN s ELSE status[p]
  BY DEF Write

\* A write of a status keeps the table well-typed.
LEMMA WriteOK ==
  ASSUME NEW passes, NEW s \in Statuses, Write(passes, s), status \in [PassIds -> Statuses]
  PROVE  status' \in [PassIds -> Statuses]
  BY DEF Write

(***************************************************************************)
(* Type correctness.                                                       *)
(***************************************************************************)

\* What PassTypeOK says of handlers and their transactions.
TxOK ==
  /\ at \in [Clients -> Steps]
  /\ open = {c \in Clients : at[c] \in {"open", "releasing"}}
  /\ stale \in [Clients -> SUBSET PassIds]
  /\ \A c \in Clients \ open : stale[c] = {}

\* A handler that opens a transaction moves to a step that holds one.
LEMMA TxBegins ==
  ASSUME TxOK, NEW c \in Clients, NEW step \in {"open", "releasing"},
         at[c] \notin {"open", "releasing"}, Goto(c, step), BeginTx(c)
  PROVE  TxOK'
<1>1. at' \in [Clients -> Steps]
  BY DEF TxOK, Goto, Steps
<1> QED
  BY <1>1 DEF TxOK, Goto, BeginTx

\* A handler that ends its transaction moves to a step that holds none.
LEMMA TxEnds ==
  ASSUME TxOK, NEW c \in Clients, NEW step \in Steps \ {"open", "releasing"}, Goto(c, step),
         NEW rows \in SUBSET PassIds, EndTx(c, rows)
  PROVE  TxOK'
<1>1. at' \in [Clients -> Steps]
  BY DEF TxOK, Goto
<1>2. open' = {d \in Clients : at'[d] \in {"open", "releasing"}}
  BY <1>1 DEF TxOK, EndTx, Goto
<1>3. stale' \in [Clients -> SUBSET PassIds] /\ \A d \in Clients \ open' : stale'[d] = {}
  BY DEF TxOK, EndTx
<1> QED
  BY <1>1, <1>2, <1>3 DEF TxOK

\* All other moves are between steps without a transaction.
LEMMA TxElsewhere ==
  ASSUME TxOK, NEW c \in Clients, NEW step \in Steps \ {"open", "releasing"}, Goto(c, step),
         at[c] \notin {"open", "releasing"}, UNCHANGED <<open, stale>>
  PROVE  TxOK'
<1>1. at' \in [Clients -> Steps]
  BY DEF TxOK, Goto
<1> QED
  BY <1>1 DEF TxOK, Goto

LEMMA PassInitType == Init => PassTypeOK
  BY QuantityBound DEF Init, PassTypeOK, Statuses, Steps

\* What PassTypeOK says of everything else.
RowsOK ==
  /\ status \in [PassIds -> Statuses]
  /\ mine \in [Clients -> SUBSET PassIds]
  /\ tickets \in [Sales -> 0..MaxQuantity]
  /\ charged \subseteq Orders
  /\ stripeRefunds \subseteq PassIds
  /\ lapsed \subseteq PassIds

LEMMA NextTxOK == PassTypeOK /\ [Next]_passVars => TxOK'
<1> SUFFICES ASSUME PassTypeOK, [Next]_passVars PROVE TxOK'
  OBVIOUS
<1>0. TxOK /\ mine \in [Clients -> SUBSET PassIds] /\ {} \in SUBSET PassIds
  BY DEF PassTypeOK, TxOK
<1>1. ASSUME NEW c \in Clients,
             \/ BuyPasses(c) \/ ChargeStep(c) \/ RefundRead(c)
             \/ StripeRefund(c) \/ StripeRefundFails(c) \/ RefundReject(c)
      PROVE  TxOK'
  <2>1. at[c] \notin {"open", "releasing"} /\ UNCHANGED <<open, stale>>
    BY <1>1 DEF BuyPasses, ChargeStep, ChargeCard, ChargeFails, RecordCharge, RefundRead,
                StripeRefund, StripeRefundFails, RefundReject
  <2>2. \E step \in Steps \ {"open", "releasing"} : Goto(c, step)
    BY <1>1 DEF BuyPasses, ChargeStep, ChargeCard, ChargeFails, RecordCharge, RefundRead,
                StripeRefund, StripeRefundFails, RefundReject, Drop, Steps
  <2> QED
    BY <1>0, <2>1, <2>2, TxElsewhere
<1>2. ASSUME NEW c \in Clients,
             SaleBegin(c) \/ RefundBegin(c) \/ ExpireBegin(c) \/ UndoBegin(c)
      PROVE  TxOK'
  <2>1. \E step \in {"open", "releasing"} : Goto(c, step)
    BY <1>2 DEF SaleBegin, RefundBegin, ExpireBegin, UndoBegin
  <2>2. at[c] \notin {"open", "releasing"} /\ BeginTx(c)
    BY <1>2 DEF SaleBegin, RefundBegin, ExpireBegin, UndoBegin
  <2> QED
    BY <1>0, <2>1, <2>2, TxBegins
<1>3. ASSUME NEW c \in Clients,
             \/ SaleCommit(c) \/ RefundCommit(c) \/ ExpireCommit(c) \/ Abort(c)
             \/ UndoCommit(c) \/ UndoConflict(c) \/ CrashEarly(c) \/ CrashLate(c)
      PROVE  TxOK'
  <2>1. \E step \in Steps \ {"open", "releasing"} : Goto(c, step)
    BY <1>3 DEF SaleCommit, RefundCommit, ExpireCommit, Abort, UndoCommit, UndoConflict,
                CrashEarly, CrashLate, Drop, Steps
  <2>2. EndTx(c, mine[c]) \/ EndTx(c, {})
    BY <1>3 DEF SaleCommit, RefundCommit, ExpireCommit, Abort, UndoCommit, UndoConflict,
                CrashEarly, CrashLate
  <2> QED
    BY <1>0, <2>1, <2>2, TxEnds
<1>4. CASE GrantPass \/ UNCHANGED passVars
  BY <1>0, <1>4 DEF GrantPass, passVars, TxOK
<1>5. CASE ExpireDue
  <2>1. PICK n \in 1..MaxPasses :
          stale' = [c \in Clients |->
                      IF c \in open THEN stale[c] \cup First(Valid, n) ELSE {}]
    BY <1>5 DEF ExpireDue
  <2>2. First(Valid, n) \subseteq PassIds
    BY FirstIsSubset, TableRows
  <2> QED
    BY <1>0, <1>5, <2>1, <2>2 DEF ExpireDue, TxOK
<1> QED
  BY <1>1, <1>2, <1>3, <1>4, <1>5
  DEF Next, OrderStep, SaleStep, RefundStep, ExpireStep, SharedStep, Clients

\* A handler that ends without effect forgets its passes and tickets.
LEMMA DropOK ==
  ASSUME PassTypeOK, NEW c \in Clients, Drop(c)
  PROVE  /\ mine' \in [Clients -> SUBSET PassIds]
         /\ tickets' \in [Sales -> 0..MaxQuantity]
  BY QuantityBound DEF Drop, PassTypeOK

LEMMA NextRowsOK == PassTypeOK /\ [Next]_passVars => RowsOK'
<1> SUFFICES ASSUME PassTypeOK, [Next]_passVars PROVE RowsOK'
  OBVIOUS
<1> USE DEF RowsOK
<1>0. /\ RowsOK
      /\ {"valid", "void", "refunded", "failed", "expired"} \subseteq Statuses
      /\ \A passes, n : First(passes, n) \subseteq passes
  BY FirstIsSubset DEF PassTypeOK, Statuses
<1>1. ASSUME NEW o \in Orders, BuyPasses(o) PROVE RowsOK'
  <2>1. PICK bought : Write(bought, "valid") /\ mine' = [mine EXCEPT ![o] = bought]
                        /\ bought \subseteq PassIds
    BY <1>0, <1>1, TableRows DEF BuyPasses
  <2> QED
    BY <1>0, <1>1, <2>1, WriteOK DEF BuyPasses, Clients
<1>2. ASSUME NEW c \in Clients, ChargeStep(c) PROVE RowsOK'
  BY <1>0, <1>2 DEF ChargeStep, ChargeCard, ChargeFails, RecordCharge
<1>3. ASSUME NEW s \in Sales, SaleBegin(s) PROVE RowsOK'
  <2>1. PICK n \in 1..MaxQuantity :
          /\ tickets' = [tickets EXCEPT ![s] = n]
          /\ mine' = [mine EXCEPT ![s] = First(Valid, n)]
    BY <1>3 DEF SaleBegin
  <2>2. n \in 0..MaxQuantity /\ First(Valid, n) \subseteq PassIds
    BY <1>0, TableRows, QuantityBound
  <2> QED
    BY <1>0, <1>3, <2>1, <2>2 DEF SaleBegin, Clients
<1>4. ASSUME NEW s \in Sales, SaleCommit(s) PROVE RowsOK'
  <2>1. status' \in [PassIds -> Statuses]
    BY <1>0, <1>4, WriteOK DEF SaleCommit
  <2>2. tickets' \in [Sales -> 0..MaxQuantity]
    BY <1>0, <1>4, QuantityBound DEF SaleCommit
  <2> QED
    BY <1>0, <1>4, <2>1, <2>2 DEF SaleCommit
<1>5. ASSUME NEW r \in Refunds, RefundStep(r) PROVE RowsOK'
  <2>0. r \in Clients
    BY DEF Clients
  <2>1. CASE RefundRead(r)
    BY <1>0, <2>0, <2>1, TableRows DEF RefundRead
  <2>2. CASE RefundBegin(r)
    BY <1>0, <2>2 DEF RefundBegin
  <2>3. CASE RefundReject(r)
    BY <1>0, <2>0, <2>3, DropOK DEF RefundReject
  <2>4. CASE RefundCommit(r)
    BY <1>0, <2>4, WriteOK DEF RefundCommit
  <2>5. CASE StripeRefund(r) \/ StripeRefundFails(r)
    BY <1>0, <2>0, <2>5 DEF StripeRefund, StripeRefundFails
  <2> QED
    BY <1>5, <2>1, <2>2, <2>3, <2>4, <2>5 DEF RefundStep
<1>6. ASSUME NEW e \in Expiries, ExpireStep(e) PROVE RowsOK'
  <2>1. CASE ExpireBegin(e)
    <3>1. \E passes \in SUBSET PassIds : mine' = [mine EXCEPT ![e] = passes]
      BY <1>0, <2>1, TableRows DEF ExpireBegin
    <3> QED
      BY <1>0, <2>1, <3>1 DEF ExpireBegin
  <2>2. CASE ExpireCommit(e)
    BY <1>0, <2>2, WriteOK DEF ExpireCommit
  <2> QED
    BY <1>6, <2>1, <2>2 DEF ExpireStep
<1>7. ASSUME NEW c \in Clients, SharedStep(c) PROVE RowsOK'
  <2>1. CASE Abort(c) \/ CrashEarly(c)
    BY <1>0, <2>1, DropOK DEF Abort, CrashEarly
  <2>2. CASE UndoBegin(c) \/ UndoConflict(c)
    BY <1>0, <2>2 DEF UndoBegin, UndoConflict
  <2>3. CASE UndoCommit(c)
    <3>1. UndoneStatus(c) \in Statuses
      BY <1>0 DEF UndoneStatus
    <3> QED
      BY <1>0, <2>3, <3>1, WriteOK DEF UndoCommit
  <2>4. CASE CrashLate(c)
    BY <1>0, <2>4 DEF CrashLate
  <2> QED
    BY <1>7, <2>1, <2>2, <2>3, <2>4 DEF SharedStep
<1>8. CASE GrantPass
  BY <1>0, <1>8, WriteOK DEF GrantPass
<1>9. CASE ExpireDue
  <2>1. PICK due \in SUBSET PassIds : Write(due, "expired") /\ lapsed' = lapsed \cup due
    BY <1>0, <1>9, TableRows DEF ExpireDue
  <2> QED
    BY <1>0, <1>9, <2>1, WriteOK DEF ExpireDue
<1>10. CASE UNCHANGED passVars
  BY <1>0, <1>10 DEF passVars
<1> QED
  BY <1>1, <1>2, <1>3, <1>4, <1>5, <1>6, <1>7, <1>8, <1>9, <1>10
  DEF Next, OrderStep, SaleStep, Clients

\* Every state of the passes is well-typed, and the open database transactions are
\* exactly those of the handlers in a step that holds one.
THEOREM PassesAreWellTyped == Spec => []PassTypeOK
<1>1. PassTypeOK /\ [Next]_passVars => PassTypeOK'
  BY NextTxOK, NextRowsOK DEF TxOK, RowsOK, PassTypeOK
<1> QED
  BY PassInitType, <1>1, PTL DEF Spec

(***************************************************************************)
(* What a step does to one pass and to one handler.                        *)
(***************************************************************************)

\* The six ways in which the status of a pass changes.
LEMMA WhoWrites ==
  ASSUME PassTypeOK, [Next]_passVars, NEW p \in PassIds, status'[p] # status[p]
  PROVE  \/ status[p] = "none" /\ status'[p] = "valid"
         \/ \E s \in Sales : SaleCommit(s) /\ p \in mine[s] /\ status'[p] = "void"
         \/ \E r \in Refunds : RefundCommit(r) /\ p \in mine[r] /\ status'[p] = "refunded"
         \/ \E e \in Expiries : ExpireCommit(e) /\ p \in mine[e] /\ status'[p] = "expired"
         \/ ExpireDue /\ p \in lapsed' /\ status'[p] = "expired"
         \/ \E c \in Clients : UndoCommit(c) /\ p \in mine[c] /\ status'[p] = UndoneStatus(c)
<1>1. ASSUME NEW o \in Orders, BuyPasses(o) PROVE status[p] = "none" /\ status'[p] = "valid"
  <2>1. PICK n : Write(First(Unborn, n), "valid")
    BY <1>1 DEF BuyPasses
  <2> QED
    BY <2>1, Written, FirstIsSubset DEF Unborn
<1>2. ASSUME GrantPass PROVE status[p] = "none" /\ status'[p] = "valid"
  <2>1. Write(First(Unborn, 1), "valid")
    BY <1>2 DEF GrantPass
  <2> QED
    BY <2>1, Written, FirstIsSubset DEF Unborn
<1>3. ASSUME ExpireDue PROVE p \in lapsed' /\ status'[p] = "expired"
  <2>1. PICK due : Write(due, "expired") /\ lapsed' = lapsed \cup due
    BY <1>3 DEF ExpireDue
  <2> QED
    BY <2>1, Written
<1>4. ASSUME NEW s \in Sales, SaleCommit(s) PROVE p \in mine[s] /\ status'[p] = "void"
  BY <1>4, Written DEF SaleCommit
<1>5. ASSUME NEW r \in Refunds, RefundCommit(r) PROVE p \in mine[r] /\ status'[p] = "refunded"
  BY <1>5, Written DEF RefundCommit
<1>6. ASSUME NEW e \in Expiries, ExpireCommit(e) PROVE p \in mine[e] /\ status'[p] = "expired"
  BY <1>6, Written DEF ExpireCommit
<1>7. ASSUME NEW c \in Clients, UndoCommit(c) PROVE p \in mine[c] /\ status'[p] = UndoneStatus(c)
  BY <1>7, Written DEF UndoCommit, Released
<1>8. ASSUME NEW c, \/ ChargeStep(c) \/ SaleBegin(c) \/ RefundRead(c) \/ RefundBegin(c)
                   \/ RefundReject(c) \/ StripeRefund(c) \/ StripeRefundFails(c)
                   \/ ExpireBegin(c) \/ Abort(c) \/ UndoBegin(c) \/ UndoConflict(c)
                   \/ CrashEarly(c) \/ CrashLate(c) \/ UNCHANGED passVars
      PROVE  FALSE
  BY <1>8 DEF ChargeStep, ChargeCard, ChargeFails, RecordCharge, SaleBegin, RefundRead,
              RefundBegin, RefundReject, StripeRefund, StripeRefundFails, ExpireBegin, Abort,
              UndoBegin, UndoConflict, CrashEarly, CrashLate, passVars
<1> QED
  BY <1>1, <1>2, <1>3, <1>4, <1>5, <1>6, <1>7, <1>8
  DEF Next, OrderStep, SaleStep, RefundStep, ExpireStep, SharedStep

\* A step of one handler leaves alone how far another one is and what it remembers.
LEMMA OthersUntouched ==
  ASSUME PassTypeOK, NEW c \in Clients, NEW d \in Clients \ {c},
         OrderStep(d) \/ SaleStep(d) \/ RefundStep(d) \/ ExpireStep(d) \/ SharedStep(d)
  PROVE  at'[c] = at[c] /\ mine'[c] = mine[c]
<1>1. at \in [Clients -> Steps] /\ mine \in [Clients -> SUBSET PassIds]
  BY DEF PassTypeOK
<1>2. at'[c] = at[c]
  BY <1>1 DEF OrderStep, SaleStep, RefundStep, ExpireStep, SharedStep, BuyPasses, ChargeStep,
              ChargeCard, ChargeFails, RecordCharge, SaleBegin, SaleCommit, RefundRead,
              RefundBegin, RefundReject, RefundCommit, StripeRefund, StripeRefundFails,
              ExpireBegin, ExpireCommit, Abort, UndoBegin, UndoCommit, UndoConflict,
              CrashEarly, CrashLate, Drop, Goto
<1>3. mine'[c] = mine[c]
  BY <1>1 DEF OrderStep, SaleStep, RefundStep, ExpireStep, SharedStep, BuyPasses, ChargeStep,
              ChargeCard, ChargeFails, RecordCharge, SaleBegin, SaleCommit, RefundRead,
              RefundBegin, RefundReject, RefundCommit, StripeRefund, StripeRefundFails,
              ExpireBegin, ExpireCommit, Abort, UndoBegin, UndoCommit, UndoConflict,
              CrashEarly, CrashLate, Drop
<1> QED
  BY <1>2, <1>3

\* A handler that has committed never forgets its passes; only an undo that commits
\* takes it out of the books, and nothing moves one that has ended well or is undone.
LEMMA CommittedStays ==
  ASSUME PassTypeOK, [Next]_passVars, NEW c \in Clients, Committed(c)
  PROVE  /\ mine'[c] = mine[c]
         /\ Committed(c)'
         /\ Standing(c) => Standing(c)' \/ UndoCommit(c)
         /\ at[c] \in {"done", "undone"} => at'[c] = at[c]
<1>0. at \in [Clients -> Steps] /\ mine \in [Clients -> SUBSET PassIds]
  BY DEF PassTypeOK
<1>1. CASE at'[c] = at[c] /\ mine'[c] = mine[c]
  BY <1>1 DEF Committed, Standing
<1>2. CASE ChargeStep(c)
  BY <1>0, <1>2 DEF ChargeStep, ChargeCard, ChargeFails, RecordCharge, Goto, Committed, Standing
<1>3. CASE StripeRefund(c) \/ StripeRefundFails(c)
  BY <1>0, <1>3 DEF StripeRefund, StripeRefundFails, Goto, Committed, Standing
<1>4. CASE UndoBegin(c) \/ UndoCommit(c) \/ UndoConflict(c) \/ CrashLate(c)
  BY <1>0, <1>4 DEF UndoBegin, UndoCommit, UndoConflict, CrashLate, Goto, Committed, Standing
<1>5. CASE \/ BuyPasses(c) \/ SaleBegin(c) \/ SaleCommit(c) \/ RefundRead(c)
           \/ RefundBegin(c) \/ RefundReject(c) \/ RefundCommit(c)
           \/ ExpireBegin(c) \/ ExpireCommit(c) \/ Abort(c) \/ CrashEarly(c)
  BY <1>5 DEF BuyPasses, SaleBegin, SaleCommit, RefundRead, RefundBegin, RefundReject,
              RefundCommit, ExpireBegin, ExpireCommit, Abort, CrashEarly, Committed, Standing
<1>6. CASE GrantPass \/ ExpireDue \/ UNCHANGED passVars
  BY <1>1, <1>6 DEF GrantPass, ExpireDue, passVars
<1>7. ASSUME NEW d \in Clients,
             OrderStep(d) \/ SaleStep(d) \/ RefundStep(d) \/ ExpireStep(d) \/ SharedStep(d)
      PROVE  d = c \/ (at'[c] = at[c] /\ mine'[c] = mine[c])
  BY <1>7, OthersUntouched
<1>8. ASSUME OrderStep(c) \/ SaleStep(c) \/ RefundStep(c) \/ ExpireStep(c) \/ SharedStep(c)
      PROVE  /\ mine'[c] = mine[c]
             /\ Committed(c)'
             /\ Standing(c) => Standing(c)' \/ UndoCommit(c)
             /\ at[c] \in {"done", "undone"} => at'[c] = at[c]
  BY <1>2, <1>3, <1>4, <1>5, <1>8
  DEF OrderStep, SaleStep, RefundStep, ExpireStep, SharedStep
<1> QED
  BY <1>1, <1>6, <1>7, <1>8 DEF Next, Clients

(***************************************************************************)
(* No pass is lost.  PassIsAccounted is inductive with the types: a pass   *)
(* changes its status only together with the handler that accounts for it, *)
(* and an undo that takes a handler out of the books writes all its passes.*)
(***************************************************************************)
LEMMA NextAccounted == PassTypeOK /\ PassIsAccounted /\ [Next]_passVars => PassIsAccounted'
<1> SUFFICES ASSUME PassTypeOK, PassIsAccounted, [Next]_passVars, NEW p \in PassIds
             PROVE  /\ status'[p] = "void" => \E s \in Sales : Standing(s)' /\ p \in mine'[s]
                    /\ status'[p] = "refunded" =>
                         \E r \in Refunds : Standing(r)' /\ p \in mine'[r]
                    /\ status'[p] = "failed" =>
                         \E o \in Orders : at'[o] = "undone" /\ p \in mine'[o]
                    /\ status'[p] = "expired" =>
                         p \in lapsed' \/ \E e \in Expiries : Standing(e)' /\ p \in mine'[e]
  BY DEF PassIsAccounted
<1>0. at \in [Clients -> Steps] /\ mine \in [Clients -> SUBSET PassIds]
  BY DEF PassTypeOK
\* The pass keeps its status: so does, in the books, whoever accounts for it.
<1>1. CASE status'[p] = status[p]
  <2>1. ASSUME NEW c \in Clients, Standing(c), p \in mine[c], status[p] # UndoneStatus(c)
        PROVE  Standing(c)' /\ p \in mine'[c]
    <3>1. ~UndoCommit(c)
      BY <1>1, <2>1, Written DEF UndoCommit, Released
    <3> QED
      BY <2>1, <3>1, CommittedStays DEF Committed
  <2>2. ASSUME NEW s \in Sales, status[p] = "void", Standing(s), p \in mine[s]
        PROVE  Standing(s)' /\ p \in mine'[s]
    BY <2>1, <2>2 DEF UndoneStatus, Clients
  <2>3. ASSUME NEW r \in Refunds, status[p] = "refunded", Standing(r), p \in mine[r]
        PROVE  Standing(r)' /\ p \in mine'[r]
    BY <2>1, <2>3 DEF UndoneStatus, Clients
  <2>4. ASSUME NEW o \in Orders, at[o] = "undone", p \in mine[o]
        PROVE  at'[o] = "undone" /\ p \in mine'[o]
    BY <2>4, CommittedStays DEF Committed, Clients
  <2>5. ASSUME NEW e \in Expiries, status[p] = "expired", Standing(e), p \in mine[e]
        PROVE  Standing(e)' /\ p \in mine'[e]
    BY <2>1, <2>5 DEF UndoneStatus, Clients
  <2>6. lapsed \subseteq lapsed'
    BY DEF Next, OrderStep, SaleStep, RefundStep, ExpireStep, SharedStep, BuyPasses,
           ChargeStep, ChargeCard, ChargeFails, RecordCharge, SaleBegin, SaleCommit,
           RefundRead, RefundBegin, RefundReject, RefundCommit, StripeRefund,
           StripeRefundFails, ExpireBegin, ExpireCommit, Abort, UndoBegin, UndoCommit,
           UndoConflict, CrashEarly, CrashLate, GrantPass, ExpireDue, passVars
  <2> QED
    BY <1>1, <2>2, <2>3, <2>4, <2>5, <2>6 DEF PassIsAccounted
\* The pass changes its status: whoever changes it accounts for it.
<1>2. CASE status'[p] # status[p]
  <2>1. CASE status'[p] = "valid"
    BY <2>1
  <2>2. ASSUME NEW s \in Sales, SaleCommit(s), p \in mine[s]
        PROVE  Standing(s)' /\ p \in mine'[s]
    BY <1>0, <2>2 DEF SaleCommit, Goto, Standing, Clients
  <2>3. ASSUME NEW r \in Refunds, RefundCommit(r), p \in mine[r]
        PROVE  Standing(r)' /\ p \in mine'[r]
    BY <1>0, <2>3 DEF RefundCommit, Goto, Standing, Clients
  <2>4. ASSUME NEW e \in Expiries, ExpireCommit(e), p \in mine[e]
        PROVE  Standing(e)' /\ p \in mine'[e]
    BY <1>0, <2>4 DEF ExpireCommit, Goto, Standing, Clients
  <2>5. ASSUME NEW c \in Clients, UndoCommit(c), p \in mine[c], status'[p] = UndoneStatus(c)
        PROVE  \/ status'[p] = "valid"
               \/ /\ status'[p] = "failed"
                  /\ c \in Orders /\ at'[c] = "undone" /\ p \in mine'[c]
    BY <1>0, <2>5 DEF UndoCommit, UndoneStatus, Goto
  <2> QED
    BY <1>2, <2>1, <2>2, <2>3, <2>4, <2>5, WhoWrites
<1> QED
  BY <1>1, <1>2

\* A pass that cannot be used any more was taken by a sale, a refund, an expiry or the
\* undo of its purchase that stands in the books: for any number of requests, passes
\* and faults, no undo of one handler destroys what another one holds.
THEOREM PassesAreAccounted == Spec => []PassIsAccounted
<1>1. Init => PassIsAccounted
  BY DEF Init, PassIsAccounted
<1> QED
  BY <1>1, NextAccounted, PassesAreWellTyped, PTL DEF Spec

(***************************************************************************)
(* Money.  UnpaidPassExplained and RefundsArePaid are not inductive: they  *)
(* rest on every pass belonging to at most one purchase, and on refunds    *)
(* being of passes of finished, charged purchases from their transaction   *)
(* on, before Stripe has returned anything.                                *)
(***************************************************************************)
BoughtAreRows == \A o \in Orders : \A p \in mine[o] : status[p] # "none"
OnePurchase   == \A o1, o2 \in Orders : mine[o1] \cap mine[o2] # {} => o1 = o2
DoneIsCharged == \A o \in Orders : at[o] \in {"charged", "done"} => o \in charged
PaidFor(r)    == \A p \in mine[r] : \E o \in Orders : p \in mine[o] /\ at[o] = "done"
RefundsFollowCharges == \A r \in Refunds : at[r] = "open" \/ Committed(r) => PaidFor(r)

ExpiriesAreFinal == \A e \in Expiries : at[e] \in {"new", "open", "done", "rejected"}

MoneyInv ==
  BoughtAreRows /\ OnePurchase /\ DoneIsCharged /\ RefundsFollowCharges /\ ExpiriesAreFinal

\* A pass row does not disappear.
LEMMA RowsStay ==
  ASSUME PassTypeOK, [Next]_passVars, NEW p \in PassIds, status[p] # "none"
  PROVE  status'[p] # "none"
<1>1. CASE status'[p] = status[p]
  BY <1>1
<1>2. CASE status'[p] # status[p]
  BY <1>2, WhoWrites DEF UndoneStatus
<1> QED
  BY <1>1, <1>2

\* A purchase gets passes when it creates their rows, and at no other time.
LEMMA PurchaseMemory ==
  ASSUME PassTypeOK, [Next]_passVars, NEW o \in Orders
  PROVE  \/ mine'[o] \subseteq mine[o]
         \/ /\ BuyPasses(o)
            /\ mine'[o] \subseteq Unborn
            /\ \A p \in mine'[o] : status'[p] = "valid"
            /\ \A d \in Clients \ {o} : mine'[d] = mine[d]
<1>0. mine \in [Clients -> SUBSET PassIds] /\ o \in Clients
  BY DEF PassTypeOK, Clients
<1>1. CASE BuyPasses(o)
  <2>1. PICK bought : /\ bought \subseteq Unborn
                      /\ Write(bought, "valid")
                      /\ mine' = [mine EXCEPT ![o] = bought]
    BY <1>1, FirstIsSubset DEF BuyPasses
  <2>2. \A p \in bought : status'[p] = "valid"
    BY <2>1, Written, TableRows
  <2> QED
    BY <1>0, <1>1, <2>1, <2>2
<1>2. CASE ChargeStep(o) \/ SharedStep(o)
  BY <1>0, <1>2 DEF ChargeStep, ChargeCard, ChargeFails, RecordCharge, SharedStep, Abort,
                    UndoBegin, UndoCommit, UndoConflict, CrashEarly, CrashLate, Drop
<1>3. CASE GrantPass \/ ExpireDue \/ UNCHANGED passVars
  BY <1>3 DEF GrantPass, ExpireDue, passVars
<1>4. ASSUME NEW d \in Clients \ {o},
             OrderStep(d) \/ SaleStep(d) \/ RefundStep(d) \/ ExpireStep(d) \/ SharedStep(d)
      PROVE  mine'[o] \subseteq mine[o]
  BY <1>0, <1>4, OthersUntouched
<1> QED
  BY <1>1, <1>2, <1>3, <1>4, HandlersDisjoint DEF Next, OrderStep, Clients

LEMMA NextBoughtAreRows ==
  ASSUME PassTypeOK, MoneyInv, [Next]_passVars PROVE BoughtAreRows'
<1> SUFFICES ASSUME NEW o \in Orders, NEW p \in mine'[o] PROVE status'[p] # "none"
  BY DEF BoughtAreRows
<1>1. CASE p \in mine[o]
  <2>1. p \in PassIds /\ status[p] # "none"
    BY <1>1 DEF PassTypeOK, MoneyInv, BoughtAreRows, Clients
  <2> QED
    BY <2>1, RowsStay
<1>2. CASE p \notin mine[o]
  BY <1>2, PurchaseMemory
<1> QED
  BY <1>1, <1>2

LEMMA NextOnePurchase ==
  ASSUME PassTypeOK, MoneyInv, [Next]_passVars PROVE OnePurchase'
<1> SUFFICES ASSUME NEW o1 \in Orders, NEW o2 \in Orders, NEW p,
                    p \in mine'[o1], p \in mine'[o2], o1 # o2
             PROVE  FALSE
  BY DEF OnePurchase
<1>1. ASSUME NEW o \in Orders, NEW d \in Orders, o # d, p \in mine'[o], p \in mine'[d]
      PROVE  p \in mine[o]
  <2>1. SUFFICES ASSUME p \notin mine[o] PROVE FALSE
    OBVIOUS
  <2>2. p \in Unborn /\ p \in mine[d]
    BY <1>1, <2>1, PurchaseMemory DEF Clients
  <2> QED
    BY <1>1, <2>2 DEF Unborn, MoneyInv, BoughtAreRows
<1>2. p \in mine[o1] /\ p \in mine[o2]
  BY <1>1
<1> QED
  BY <1>2 DEF MoneyInv, OnePurchase

\* Money that Stripe took stays taken.
LEMMA ChargedGrows == [Next]_passVars => charged \subseteq charged'
  BY DEF Next, OrderStep, SaleStep, RefundStep, ExpireStep, SharedStep, BuyPasses,
         ChargeStep, ChargeCard, ChargeFails, RecordCharge, SaleBegin, SaleCommit,
         RefundRead, RefundBegin, RefundReject, RefundCommit, StripeRefund,
         StripeRefundFails, ExpireBegin, ExpireCommit, Abort, UndoBegin, UndoCommit,
         UndoConflict, CrashEarly, CrashLate, GrantPass, ExpireDue, passVars

LEMMA NextDoneIsCharged ==
  ASSUME PassTypeOK, MoneyInv, [Next]_passVars PROVE DoneIsCharged'
<1> SUFFICES ASSUME NEW o \in Orders, at'[o] \in {"charged", "done"} PROVE o \in charged'
  BY DEF DoneIsCharged
<1>0. at \in [Clients -> Steps] /\ o \in Clients
  BY DEF PassTypeOK, Clients
<1>1. CASE at[o] \in {"charged", "done"}
  BY <1>1, ChargedGrows DEF MoneyInv, DoneIsCharged
<1>2. CASE at[o] \notin {"charged", "done"}
  <2>1. CASE ChargeStep(o)
    BY <1>0, <1>2, <2>1 DEF ChargeStep, ChargeCard, ChargeFails, RecordCharge, Goto
  <2>2. CASE BuyPasses(o) \/ SharedStep(o)
    BY <1>0, <1>2, <2>2 DEF BuyPasses, SharedStep, Abort, UndoBegin, UndoCommit, UndoConflict,
                            CrashEarly, CrashLate, Drop, Goto
  <2>3. CASE GrantPass \/ ExpireDue \/ UNCHANGED passVars
    BY <1>2, <2>3 DEF GrantPass, ExpireDue, passVars
  <2>4. ASSUME NEW d \in Clients \ {o},
               OrderStep(d) \/ SaleStep(d) \/ RefundStep(d) \/ ExpireStep(d) \/ SharedStep(d)
        PROVE  FALSE
    BY <1>0, <1>2, <2>4, OthersUntouched
  <2> QED
    BY <2>1, <2>2, <2>3, <2>4, HandlersDisjoint DEF Next, OrderStep, Clients
<1> QED
  BY <1>1, <1>2

\* A purchase that has ended well stays a good reason for a refund.
LEMMA PaidForStays ==
  ASSUME PassTypeOK, [Next]_passVars, NEW r, PaidFor(r), mine'[r] = mine[r]
  PROVE  PaidFor(r)'
<1>1. \A o \in Orders : at[o] = "done" => at'[o] = "done" /\ mine'[o] = mine[o]
  BY CommittedStays DEF Committed, Standing, Clients
<1> QED
  BY <1>1 DEF PaidFor

LEMMA NextRefundsFollowCharges ==
  ASSUME PassTypeOK, MoneyInv, [Next]_passVars PROVE RefundsFollowCharges'
<1> SUFFICES ASSUME NEW r \in Refunds, at'[r] = "open" \/ Committed(r)' PROVE PaidFor(r)'
  BY DEF RefundsFollowCharges
<1>0. at \in [Clients -> Steps] /\ mine \in [Clients -> SUBSET PassIds] /\ r \in Clients
  BY DEF PassTypeOK, Clients
<1>1. ASSUME at[r] = "open" \/ Committed(r), mine'[r] = mine[r] PROVE PaidFor(r)'
  BY <1>1, PaidForStays DEF MoneyInv, RefundsFollowCharges
<1>2. CASE RefundRead(r) \/ RefundReject(r) \/ Abort(r) \/ CrashEarly(r)
  BY <1>0, <1>2 DEF RefundRead, RefundReject, Abort, CrashEarly, Drop, Goto, Committed, Standing
<1>3. CASE RefundBegin(r)
  <2>1. PaidFor(r) /\ mine'[r] = mine[r]
    BY <1>3 DEF RefundBegin, Refundable, ChargeRecorded, PaidFor
  <2> QED
    BY <2>1, PaidForStays
<1>4. CASE \/ RefundCommit(r) \/ StripeRefund(r) \/ StripeRefundFails(r)
           \/ UndoBegin(r) \/ UndoCommit(r) \/ UndoConflict(r) \/ CrashLate(r)
  <2>1. (at[r] = "open" \/ Committed(r)) /\ mine'[r] = mine[r]
    BY <1>4 DEF RefundCommit, StripeRefund, StripeRefundFails, UndoBegin, UndoCommit,
                UndoConflict, CrashLate, Committed, Standing
  <2> QED
    BY <1>1, <2>1
<1>5. ASSUME at'[r] = at[r], mine'[r] = mine[r] PROVE PaidFor(r)'
  BY <1>1, <1>5 DEF Committed, Standing
<1>6. CASE GrantPass \/ ExpireDue \/ UNCHANGED passVars
  BY <1>5, <1>6 DEF GrantPass, ExpireDue, passVars
<1>7. ASSUME NEW d \in Clients \ {r},
             OrderStep(d) \/ SaleStep(d) \/ RefundStep(d) \/ ExpireStep(d) \/ SharedStep(d)
      PROVE  PaidFor(r)'
  <2>1. at'[r] = at[r] /\ mine'[r] = mine[r]
    BY <1>0, <1>7, OthersUntouched
  <2> QED
    BY <1>5, <2>1
<1> QED
  BY <1>2, <1>3, <1>4, <1>6, <1>7, HandlersDisjoint DEF Next, RefundStep, SharedStep, Clients

\* Nothing undoes an expiry: it asks Stripe for nothing.
LEMMA NextExpiriesAreFinal ==
  ASSUME PassTypeOK, MoneyInv, [Next]_passVars PROVE ExpiriesAreFinal'
<1> SUFFICES ASSUME NEW e \in Expiries PROVE at'[e] \in {"new", "open", "done", "rejected"}
  BY DEF ExpiriesAreFinal
<1>0. /\ at \in [Clients -> Steps] /\ e \in Clients
      /\ at[e] \in {"new", "open", "done", "rejected"}
  BY DEF PassTypeOK, Clients, MoneyInv, ExpiriesAreFinal
<1>1. CASE ExpireStep(e) \/ SharedStep(e)
  BY <1>0, <1>1 DEF ExpireStep, ExpireBegin, ExpireCommit, SharedStep, Abort, UndoBegin,
                    UndoCommit, UndoConflict, CrashEarly, CrashLate, Drop, Goto
<1>2. CASE GrantPass \/ ExpireDue \/ UNCHANGED passVars
  BY <1>0, <1>2 DEF GrantPass, ExpireDue, passVars
<1>3. ASSUME NEW d \in Clients \ {e},
             OrderStep(d) \/ SaleStep(d) \/ RefundStep(d) \/ ExpireStep(d) \/ SharedStep(d)
      PROVE  at'[e] = at[e]
  BY <1>0, <1>3, OthersUntouched
<1> QED
  BY <1>0, <1>1, <1>2, <1>3, HandlersDisjoint DEF Next, Clients

LEMMA MoneyIsInvariant == Spec => []MoneyInv
<1>1. Init => MoneyInv
  BY DEF Init, MoneyInv, BoughtAreRows, OnePurchase, DoneIsCharged, RefundsFollowCharges,
         ExpiriesAreFinal, Committed, Standing, Clients
<1>2. PassTypeOK /\ MoneyInv /\ [Next]_passVars => MoneyInv'
  BY NextBoughtAreRows, NextOnePurchase, NextDoneIsCharged, NextRefundsFollowCharges,
     NextExpiriesAreFinal
  DEF MoneyInv
<1> QED
  BY <1>1, <1>2, PassesAreWellTyped, PTL DEF Spec

(***************************************************************************)
(* What follows for the books and for Stripe.                              *)
(***************************************************************************)

LEMMA NextPaid ==
  ASSUME PassTypeOK, MoneyInv, RefundsArePaid, [Next]_passVars PROVE RefundsArePaid'
<1> SUFFICES ASSUME NEW p \in stripeRefunds'
             PROVE  \E o \in Orders : p \in mine'[o] /\ o \in charged' /\ at'[o] = "done"
  BY DEF RefundsArePaid
<1>1. p \in stripeRefunds \/ \E r \in Refunds : at[r] = "stripe" /\ p \in mine[r]
  BY DEF Next, OrderStep, SaleStep, RefundStep, ExpireStep, SharedStep, BuyPasses,
         ChargeStep, ChargeCard, ChargeFails, RecordCharge, SaleBegin, SaleCommit,
         RefundRead, RefundBegin, RefundReject, RefundCommit, StripeRefund,
         StripeRefundFails, ExpireBegin, ExpireCommit, Abort, UndoBegin, UndoCommit,
         UndoConflict, CrashEarly, CrashLate, GrantPass, ExpireDue, passVars
<1>2. \E o \in Orders : p \in mine[o] /\ o \in charged /\ at[o] = "done"
  BY <1>1 DEF RefundsArePaid, MoneyInv, RefundsFollowCharges, PaidFor, DoneIsCharged,
              Committed, Standing
<1> QED
  BY <1>2, CommittedStays, ChargedGrows DEF Committed, Standing, Clients

\* Stripe returns money only for a pass whose purchase it charged and whose charge is
\* on record, whatever is lost, retried or crashes.
THEOREM PassRefundsArePaid == Spec => []RefundsArePaid
<1>1. Init => RefundsArePaid
  BY DEF Init, RefundsArePaid
<1> QED
  BY <1>1, NextPaid, MoneyIsInvariant, PassesAreWellTyped, PTL DEF Spec

LEMMA NextExplained ==
  ASSUME PassTypeOK, MoneyInv, UnpaidPassExplained, [Next]_passVars PROVE UnpaidPassExplained'
<1> SUFFICES ASSUME NEW o \in Orders, NEW p \in mine'[o],
                    at'[o] = "undone", status'[p] = "valid"
             PROVE  \E s \in Sales : at'[s] = "undone" /\ p \in mine'[s]
  BY DEF UnpaidPassExplained
<1>0. at \in [Clients -> Steps] /\ mine \in [Clients -> SUBSET PassIds] /\ o \in Clients
  BY DEF PassTypeOK, Clients
<1>1. p \in mine[o] /\ p \in PassIds
  <2>1. ~BuyPasses(o)
    BY <1>0 DEF BuyPasses, Goto
  <2> QED
    BY <1>0, <2>1, PurchaseMemory
<1>2. ASSUME NEW s \in Sales, at[s] = "undone", p \in mine[s]
      PROVE  at'[s] = "undone" /\ p \in mine'[s]
  BY <1>2, CommittedStays DEF Committed, Clients
\* The purchase is undone in this step: its passes fail in the same transaction.
<1>3. CASE at[o] # "undone"
  <2>1. UndoCommit(o)
    <3>1. CASE ChargeStep(o)
      BY <1>0, <1>3, <3>1 DEF ChargeStep, ChargeCard, ChargeFails, RecordCharge, Goto
    <3>2. CASE BuyPasses(o) \/ Abort(o) \/ UndoBegin(o) \/ UndoConflict(o)
               \/ CrashEarly(o) \/ CrashLate(o)
      BY <1>0, <1>3, <3>2 DEF BuyPasses, Abort, UndoBegin, UndoConflict, CrashEarly,
                              CrashLate, Drop, Goto
    <3>3. CASE GrantPass \/ ExpireDue \/ UNCHANGED passVars
      BY <1>3, <3>3 DEF GrantPass, ExpireDue, passVars
    <3>4. ASSUME NEW d \in Clients \ {o},
                 \/ OrderStep(d) \/ SaleStep(d) \/ RefundStep(d) \/ ExpireStep(d)
                 \/ SharedStep(d)
          PROVE  FALSE
      BY <1>0, <1>3, <3>4, OthersUntouched
    <3> QED
      BY <3>1, <3>2, <3>3, <3>4, HandlersDisjoint DEF Next, OrderStep, SharedStep, Clients
  <2>2. status'[p] = "failed"
    BY <1>1, <2>1, Written DEF UndoCommit, Released, UndoneStatus
  <2> QED
    BY <2>2
\* It was undone before: only the undo of a sale makes a pass valid that is a row.
<1>4. CASE at[o] = "undone"
  <2>1. CASE status'[p] = status[p]
    BY <1>1, <1>2, <1>4, <2>1 DEF UnpaidPassExplained
  <2>2. CASE status'[p] # status[p]
    <3>1. PICK c \in Clients : UndoCommit(c) /\ p \in mine[c] /\ c \notin Orders
      BY <1>1, <2>2, WhoWrites DEF MoneyInv, BoughtAreRows, UndoneStatus
    <3>2. CASE c \in Sales
      BY <1>0, <3>1, <3>2 DEF UndoCommit, Goto
    <3>3. CASE c \in Refunds
      <4>1. PICK d \in Orders : p \in mine[d] /\ at[d] = "done"
        BY <3>1, <3>3 DEF UndoCommit, MoneyInv, RefundsFollowCharges, PaidFor, Committed, Standing
      <4>2. d = o
        BY <1>1, <4>1 DEF MoneyInv, OnePurchase
      <4> QED
        BY <1>4, <4>1, <4>2
    <3>4. CASE c \in Expiries
      BY <3>1, <3>4 DEF UndoCommit, MoneyInv, ExpiriesAreFinal
    <3> QED
      BY <3>1, <3>2, <3>3, <3>4 DEF Clients
  <2> QED
    BY <2>1, <2>2
<1> QED
  BY <1>3, <1>4

\* A pass whose card was declined can pay for a ticket only if a sale that used it was
\* undone too; no refund, expiry or other purchase revives it.
THEOREM UnpaidPassesAreExplained == Spec => []UnpaidPassExplained
<1>1. Init => UnpaidPassExplained
  BY DEF Init, UnpaidPassExplained, Clients
<1> QED
  BY <1>1, NextExplained, MoneyIsInvariant, PassesAreWellTyped, PTL DEF Spec

(***************************************************************************)
(* One discharge.  A sale or an expiry does not look at a pass again when  *)
(* it commits: what it read still holds because nobody has written the row *)
(* (SnapshotsHold).  Only then is the count of the books inductive, with   *)
(* one discharge less while the pass is valid (Books).                     *)
(***************************************************************************)
SnapshotsHold ==
  \A c \in Sales \cup Expiries :
    at[c] = "open" => \A p \in mine[c] \ stale[c] : status[p] = "valid"

LEMMA NextSnapshotsHold ==
  ASSUME PassTypeOK, SnapshotsHold, [Next]_passVars PROVE SnapshotsHold'
<1> SUFFICES ASSUME NEW c \in Sales \cup Expiries, at'[c] = "open",
                    NEW p \in mine'[c] \ stale'[c]
             PROVE  status'[p] = "valid"
  BY DEF SnapshotsHold
<1>0. /\ at \in [Clients -> Steps] /\ mine \in [Clients -> SUBSET PassIds] /\ c \in Clients
      /\ stale \in [Clients -> SUBSET PassIds]
      /\ open = {d \in Clients : at[d] \in {"open", "releasing"}}
  BY DEF PassTypeOK, Clients
<1>1. CASE SaleBegin(c) \/ ExpireBegin(c)
  <2>1. mine'[c] \subseteq Valid /\ status' = status
    BY <1>0, <1>1, FirstIsSubset DEF SaleBegin, ExpireBegin
  <2> QED
    BY <2>1 DEF Valid
\* Whoever writes a row while the transaction is open adds it to its stale rows.
<1>2. ASSUME at[c] = "open", mine'[c] = mine[c], stale[c] \subseteq stale'[c],
             NEW rows, status' = status \/ Write(rows, "valid") \/ rows \subseteq stale'[c],
             \A q \in PassIds \ rows : status'[q] = status[q]
      PROVE  status'[p] = "valid"
  <2>1. p \in PassIds /\ status[p] = "valid"
    BY <1>0, <1>2 DEF SnapshotsHold
  <2> QED
    BY <1>2, <2>1, Written
<1>3. CASE GrantPass \/ ExpireDue \/ UNCHANGED passVars
  <2>1. CASE GrantPass
    <3>1. \A q \in PassIds \ First(Unborn, 1) : status'[q] = status[q]
      BY <2>1, Written DEF GrantPass
    <3> QED
      BY <1>2, <2>1, <3>1 DEF GrantPass
  <2>2. CASE ExpireDue
    <3>1. PICK n \in 1..MaxPasses :
            /\ Write(First(Valid, n), "expired")
            /\ stale' = [d \in Clients |->
                           IF d \in open THEN stale[d] \cup First(Valid, n) ELSE {}]
      BY <2>2 DEF ExpireDue
    <3>2. \A q \in PassIds \ First(Valid, n) : status'[q] = status[q]
      BY <3>1, Written
    <3>3. at[c] = "open" /\ mine'[c] = mine[c]
      BY <2>2 DEF ExpireDue
    <3>4. stale'[c] = stale[c] \cup First(Valid, n)
      BY <1>0, <3>1, <3>3
    <3> QED
      BY <1>2, <3>2, <3>3, <3>4
  <2>3. CASE UNCHANGED passVars
    BY <1>0, <2>3 DEF passVars, SnapshotsHold
  <2> QED
    BY <1>3, <2>1, <2>2, <2>3
<1>4. ASSUME NEW d \in Clients \ {c},
             OrderStep(d) \/ SaleStep(d) \/ RefundStep(d) \/ ExpireStep(d) \/ SharedStep(d)
      PROVE  status'[p] = "valid"
  <2>1. at[c] = "open" /\ mine'[c] = mine[c]
    BY <1>0, <1>4, OthersUntouched
  <2>2. CASE BuyPasses(d)
    <3>1. PICK bought : Write(bought, "valid")
      BY <2>2 DEF BuyPasses
    <3>2. \A q \in PassIds \ bought : status'[q] = status[q]
      BY <3>1, Written
    <3> QED
      BY <1>2, <2>1, <2>2, <3>1, <3>2 DEF BuyPasses
  <2>3. CASE SaleCommit(d) \/ RefundCommit(d) \/ ExpireCommit(d) \/ UndoCommit(d)
    <3>1. \A q \in PassIds \ mine[d] : status'[q] = status[q]
      BY <2>3, Written DEF SaleCommit, RefundCommit, ExpireCommit, UndoCommit, Released
    <3>2. EndTx(d, mine[d])
      BY <2>3 DEF SaleCommit, RefundCommit, ExpireCommit, UndoCommit
    <3>3. stale'[c] = stale[c] \cup mine[d]
      BY <1>0, <2>1, <3>2 DEF EndTx
    <3> QED
      BY <1>2, <2>1, <3>1, <3>3
  <2>4. CASE ~(BuyPasses(d) \/ SaleCommit(d) \/ RefundCommit(d) \/ ExpireCommit(d)
               \/ UndoCommit(d))
    <3>1. status' = status
      BY <1>4, <2>4 DEF OrderStep, SaleStep, RefundStep, ExpireStep, SharedStep, ChargeStep,
                        ChargeCard, ChargeFails, RecordCharge, SaleBegin, RefundRead,
                        RefundBegin, RefundReject, StripeRefund, StripeRefundFails,
                        ExpireBegin, Abort, UndoBegin, UndoConflict, CrashEarly, CrashLate
    <3>2. UNCHANGED stale \/ EndTx(d, {})
      BY <1>4, <2>4 DEF OrderStep, SaleStep, RefundStep, ExpireStep, SharedStep, ChargeStep,
                        ChargeCard, ChargeFails, RecordCharge, SaleBegin, RefundRead,
                        RefundBegin, RefundReject, StripeRefund, StripeRefundFails,
                        ExpireBegin, Abort, UndoBegin, UndoConflict, CrashEarly, CrashLate,
                        BeginTx
    <3>3. stale'[c] = stale[c]
      BY <1>0, <2>1, <3>2 DEF EndTx
    <3> QED
      BY <1>2, <2>1, <3>1, <3>3
  <2> QED
    BY <2>2, <2>3, <2>4
<1>5. CASE ChargeStep(c) \/ SaleCommit(c) \/ ExpireCommit(c) \/ SharedStep(c)
  BY <1>0, <1>5 DEF ChargeStep, ChargeCard, ChargeFails, RecordCharge, SaleCommit,
                    ExpireCommit, SharedStep, Abort, UndoBegin, UndoCommit, UndoConflict,
                    CrashEarly, CrashLate, Drop, Goto
<1> QED
  BY <1>1, <1>3, <1>4, <1>5, HandlersDisjoint DEF Next, SaleStep, ExpireStep, Clients

Takes(c) ==
  \/ c \in Sales /\ SaleCommit(c)
  \/ c \in Refunds /\ RefundCommit(c)
  \/ c \in Expiries /\ ExpireCommit(c)

\* The handlers that hold a pass in the books are finitely many.
LEMMA BooksAreFinite ==
  ASSUME NEW p
  PROVE  /\ IsFiniteSet(Takers(p)) /\ Cardinality(Takers(p)) \in Nat
         /\ IsFiniteSet(BookedRefunds(p)) /\ Cardinality(BookedRefunds(p)) \in Nat
<1>1. Takers(p) \subseteq Clients /\ BookedRefunds(p) \subseteq Clients
  BY DEF Takers, BookedRefunds, Clients
<1> QED
  BY <1>1, HandlersFinite, FS_Subset, FS_CardinalityType

\* A handler enters the books by the commit of its transaction only.
LEMMA EntersBooks ==
  ASSUME PassTypeOK, [Next]_passVars, NEW c \in Clients \ Orders, ~Committed(c)
  PROVE  Committed(c)' => Takes(c) /\ Standing(c)' /\ mine'[c] = mine[c]
<1>0. at \in [Clients -> Steps] /\ c \in Clients
  BY DEF PassTypeOK
<1>1. CASE Takes(c)
  BY <1>0, <1>1 DEF Takes, SaleCommit, RefundCommit, ExpireCommit, Goto, Standing
<1>2. CASE at'[c] = at[c]
  BY <1>2 DEF Committed, Standing
<1>3. CASE ChargeStep(c) \/ StripeRefund(c) \/ StripeRefundFails(c)
  BY <1>3 DEF ChargeStep, ChargeCard, ChargeFails, RecordCharge, StripeRefund,
              StripeRefundFails, Committed, Standing
<1>4. CASE UndoBegin(c) \/ UndoCommit(c) \/ UndoConflict(c) \/ CrashLate(c)
  BY <1>4 DEF UndoBegin, UndoCommit, UndoConflict, CrashLate, Committed, Standing
<1>5. CASE \/ SaleBegin(c) \/ RefundRead(c) \/ RefundBegin(c) \/ RefundReject(c)
           \/ ExpireBegin(c) \/ Abort(c) \/ CrashEarly(c)
  BY <1>0, <1>5 DEF SaleBegin, RefundRead, RefundBegin, RefundReject, ExpireBegin, Abort,
                    CrashEarly, Drop, Goto, Committed, Standing
<1>6. CASE GrantPass \/ ExpireDue \/ UNCHANGED passVars
  BY <1>2, <1>6 DEF GrantPass, ExpireDue, passVars
<1>7. ASSUME NEW d \in Clients \ {c},
             OrderStep(d) \/ SaleStep(d) \/ RefundStep(d) \/ ExpireStep(d) \/ SharedStep(d)
      PROVE  at'[c] = at[c]
  BY <1>0, <1>7, OthersUntouched
<1>8. ASSUME \/ c \in Sales /\ SaleStep(c)
             \/ c \in Refunds /\ RefundStep(c)
             \/ c \in Expiries /\ ExpireStep(c)
             \/ SharedStep(c)
      PROVE  Committed(c)' => Takes(c) /\ Standing(c)' /\ mine'[c] = mine[c]
  BY <1>1, <1>3, <1>4, <1>5, <1>8 DEF SaleStep, RefundStep, ExpireStep, SharedStep, Takes
<1> QED
  BY <1>2, <1>6, <1>7, <1>8 DEF Next, Clients

\* A commit books one more discharge of each of its passes.
LEMMA TakeAdds ==
  ASSUME PassTypeOK, NEW c \in Clients, Takes(c), NEW p \in mine[c]
  PROVE  /\ c \notin Takers(p) /\ Takers(p)' = Takers(p) \cup {c}
         /\ c \notin BookedRefunds(p)
         /\ BookedRefunds(p)' = BookedRefunds(p) \cup ({c} \cap Refunds)
<1>0. at \in [Clients -> Steps] /\ c \in Sales \cup Refunds \cup Expiries
  BY DEF PassTypeOK, Takes
<1>1. ~Committed(c) /\ Standing(c)' /\ mine' = mine
  BY <1>0 DEF Takes, SaleCommit, RefundCommit, ExpireCommit, Goto, Committed, Standing
<1>2. \A d \in Clients \ {c} : at'[d] = at[d]
  BY OthersUntouched DEF Takes, SaleStep, RefundStep, ExpireStep
<1>3. \A d \in Clients \ {c} : (Standing(d)' <=> Standing(d)) /\ (Committed(d)' <=> Committed(d))
  BY <1>2 DEF Standing, Committed
<1> QED
  BY <1>0, <1>1, <1>3 DEF Takers, BookedRefunds, Committed, Clients

\* The commit of an undo takes one discharge of each of its passes back.
LEMMA UndoRemoves ==
  ASSUME PassTypeOK, NEW c \in Clients \ Orders, UndoCommit(c), NEW p \in mine[c]
  PROVE  /\ c \in Takers(p) /\ Takers(p)' = Takers(p) \ {c}
         /\ BookedRefunds(p)' = BookedRefunds(p)
<1>0. at \in [Clients -> Steps] /\ c \in Sales \cup Refunds \cup Expiries
  BY DEF PassTypeOK, Clients
<1>1. Standing(c) /\ ~Standing(c)' /\ Committed(c) /\ Committed(c)' /\ mine' = mine
  BY <1>0 DEF UndoCommit, Goto, Committed, Standing
<1>2. \A d \in Clients \ {c} : at'[d] = at[d]
  BY OthersUntouched DEF SharedStep
<1>3. \A d \in Clients \ {c} : (Standing(d)' <=> Standing(d)) /\ (Committed(d)' <=> Committed(d))
  BY <1>2 DEF Standing, Committed
<1> QED
  BY <1>0, <1>1, <1>3 DEF Takers, BookedRefunds, Clients

\* Nothing else changes who holds a pass in the books.
LEMMA BooksUnchanged ==
  ASSUME PassTypeOK, [Next]_passVars, NEW p,
         \A c \in Clients \ Orders : Takes(c) \/ UndoCommit(c) => p \notin mine[c]
  PROVE  Takers(p)' = Takers(p) /\ BookedRefunds(p)' = BookedRefunds(p)
<1>1. ASSUME NEW c \in Clients \ Orders
      PROVE  /\ (Standing(c) /\ p \in mine[c])' <=> Standing(c) /\ p \in mine[c]
             /\ (Committed(c) /\ p \in mine[c])' <=> Committed(c) /\ p \in mine[c]
  <2>1. CASE Committed(c)
    <3>1. mine'[c] = mine[c] /\ Committed(c)'
      BY <2>1, CommittedStays
    <3>2. p \in mine[c] /\ Standing(c) => Standing(c)'
      BY <2>1, CommittedStays
    <3>3. Standing(c)' => Standing(c)
      BY <2>1, CommittedStays DEF Committed, Standing
    <3> QED
      BY <2>1, <3>1, <3>2, <3>3
  <2>2. CASE ~Committed(c)
    <3>1. ~Standing(c) /\ (Standing(c)' => Committed(c)')
      BY <2>2 DEF Committed
    <3> QED
      BY <2>2, <3>1, EntersBooks
  <2> QED
    BY <2>1, <2>2
<1>2. Sales \cup Refunds \cup Expiries = Clients \ Orders /\ Refunds \subseteq Clients \ Orders
  BY HandlersDisjoint DEF Clients
<1> QED
  BY <1>1, <1>2 DEF Takers, BookedRefunds

\* A pass that is valid, or not a row yet, has one discharge less.
Books ==
  \A p \in PassIds :
    Discharges(p)
      <= (IF status[p] \in {"valid", "none"} THEN 0 ELSE 1) + Cardinality(BookedRefunds(p))

LEMMA NextBooks ==
  ASSUME PassTypeOK, SnapshotsHold, Books, ExpiriesAreFinal, [Next]_passVars PROVE Books'
<1> DEFINE Slack(p) == IF status[p] \in {"valid", "none"} THEN 0 ELSE 1
           Late(p)  == IF p \in lapsed THEN 1 ELSE 0
<1> SUFFICES ASSUME NEW p \in PassIds
             PROVE  Cardinality(Takers(p)') + Late(p)'
                      <= Slack(p)' + Cardinality(BookedRefunds(p)')
  BY DEF Books, Discharges
<1>0. /\ Cardinality(Takers(p)) + Late(p) <= Slack(p) + Cardinality(BookedRefunds(p))
      /\ Cardinality(Takers(p)) \in Nat /\ Cardinality(BookedRefunds(p)) \in Nat
      /\ IsFiniteSet(Takers(p)) /\ IsFiniteSet(BookedRefunds(p))
      /\ Slack(p) \in {0, 1} /\ Slack(p)' \in {0, 1} /\ Late(p) \in {0, 1} /\ Late(p)' \in {0, 1}
  BY BooksAreFinite DEF Books, Discharges
<1>1. ASSUME NEW c \in Clients, Takes(c), p \in mine[c]
      PROVE  Cardinality(Takers(p)') + Late(p)' <= Slack(p)' + Cardinality(BookedRefunds(p)')
  <2>1. Cardinality(Takers(p)') = Cardinality(Takers(p)) + 1
    BY <1>0, <1>1, TakeAdds, FS_AddElement
  <2>2. Late(p)' = Late(p) /\ Slack(p)' = 1
    <3>1. \E s \in {"void", "refunded", "expired"} : Write(mine[c], s)
      BY <1>1 DEF Takes, SaleCommit, RefundCommit, ExpireCommit
    <3>2. lapsed' = lapsed
      BY <1>1 DEF Takes, SaleCommit, RefundCommit, ExpireCommit
    <3> QED
      BY <1>1, <3>1, <3>2, Written
  <2>3. CASE c \in Refunds
    <3>1. Cardinality(BookedRefunds(p)') = Cardinality(BookedRefunds(p)) + 1
      <4>1. c \notin BookedRefunds(p) /\ BookedRefunds(p)' = BookedRefunds(p) \cup {c}
        <5>1. {c} \cap Refunds = {c}
          BY <2>3
        <5> QED
          BY <1>1, <5>1, TakeAdds
      <4> QED
        BY <1>0, <4>1, FS_AddElement
    <3> QED
      BY <1>0, <2>1, <2>2, <3>1
  <2>4. CASE c \in Sales \cup Expiries
    <3>1. status[p] = "valid"
      BY <1>1, <2>4, HandlersDisjoint
      DEF Takes, SaleCommit, ExpireCommit, Conflict, SnapshotsHold
    <3>2. BookedRefunds(p)' = BookedRefunds(p)
      BY <1>1, <2>4, TakeAdds, HandlersDisjoint
    <3> QED
      BY <1>0, <2>1, <2>2, <3>1, <3>2
  <2> QED
    BY <1>1, <2>3, <2>4 DEF Takes
<1>2. ASSUME NEW c \in Clients \ Orders, UndoCommit(c), p \in mine[c]
      PROVE  Cardinality(Takers(p)') + Late(p)' <= Slack(p)' + Cardinality(BookedRefunds(p)')
  <2>1. Cardinality(Takers(p)') = Cardinality(Takers(p)) - 1
    BY <1>0, <1>2, UndoRemoves, FS_RemoveElement
  <2>2. BookedRefunds(p)' = BookedRefunds(p) /\ Late(p)' = Late(p)
    BY <1>2, UndoRemoves DEF UndoCommit
  <2> QED
    BY <1>0, <2>1, <2>2
<1>3. ASSUME \A c \in Clients \ Orders : Takes(c) \/ UndoCommit(c) => p \notin mine[c]
      PROVE  Cardinality(Takers(p)') + Late(p)' <= Slack(p)' + Cardinality(BookedRefunds(p)')
  <2>1. Takers(p)' = Takers(p) /\ BookedRefunds(p)' = BookedRefunds(p)
    BY <1>3, BooksUnchanged
  <2>2. Late(p)' - Slack(p)' <= Late(p) - Slack(p)
    <3>1. CASE ExpireDue
      <4>1. PICK due \in SUBSET Valid : Write(due, "expired") /\ lapsed' = lapsed \cup due
        BY <3>1, FirstIsSubset DEF ExpireDue
      <4>2. CASE p \in due
        <5>1. Slack(p) = 0 /\ Slack(p)' = 1
          BY <4>1, <4>2, Written DEF Valid
        <5> QED
          BY <1>0, <5>1
      <4>3. CASE p \notin due
        BY <4>1, <4>3, Written
      <4> QED
        BY <4>2, <4>3
    <3>2. CASE ~ExpireDue
      <4>1. lapsed' = lapsed
        BY <3>2 DEF Next, OrderStep, SaleStep, RefundStep, ExpireStep, SharedStep, BuyPasses,
           ChargeStep, ChargeCard, ChargeFails, RecordCharge, SaleBegin, SaleCommit,
           RefundRead, RefundBegin, RefundReject, RefundCommit, StripeRefund,
           StripeRefundFails, ExpireBegin, ExpireCommit, Abort, UndoBegin, UndoCommit,
           UndoConflict, CrashEarly, CrashLate, GrantPass, passVars
      <4>2. Slack(p) <= Slack(p)'
        <5>1. CASE status'[p] = status[p]
          BY <5>1
        <5>2. CASE status'[p] # status[p]
          BY <1>3, <3>2, <5>2, WhoWrites, HandlersDisjoint
          DEF Takes, UndoneStatus, Clients
        <5> QED
          BY <5>1, <5>2
      <4> QED
        BY <1>0, <4>1, <4>2
    <3> QED
      BY <3>1, <3>2
  <2> QED
    BY <1>0, <2>1, <2>2
<1> QED
  BY <1>1, <1>2, <1>3

\* However sales, expiries and the nightly job race for a pass, and whatever is undone,
\* it is discharged at most once more than refunds of it were booked.
THEOREM PassesAreDischargedOnce == Spec => []DischargedOnce
<1>1. Init => SnapshotsHold /\ Books
  <2> SUFFICES ASSUME Init PROVE SnapshotsHold /\ Books
    OBVIOUS
  <2>1. SnapshotsHold
    BY DEF Init, SnapshotsHold, Clients
  <2>2. ASSUME NEW p \in PassIds PROVE Discharges(p) = 0 /\ Cardinality(BookedRefunds(p)) = 0
    <3>1. Takers(p) = {} /\ BookedRefunds(p) = {} /\ p \notin lapsed
      BY DEF Init, Takers, BookedRefunds, Clients
    <3> QED
      BY <3>1, FS_EmptySet DEF Discharges
  <2> QED
    BY <2>1, <2>2 DEF Books
<1>2. /\ PassTypeOK /\ SnapshotsHold /\ Books /\ ExpiriesAreFinal
      /\ [Next]_passVars
      => (SnapshotsHold /\ Books)'
  BY NextSnapshotsHold, NextBooks
<1>3. Books => DischargedOnce
  <2> SUFFICES ASSUME Books, NEW p \in PassIds
               PROVE  Discharges(p) <= 1 + Cardinality(BookedRefunds(p))
    BY DEF DischargedOnce
  <2>1. Discharges(p) \in Nat /\ Cardinality(BookedRefunds(p)) \in Nat
    BY BooksAreFinite DEF Discharges
  <2> QED
    BY <2>1 DEF Books
<1>4. MoneyInv => ExpiriesAreFinal
  BY DEF MoneyInv
<1> QED
  BY <1>1, <1>2, <1>3, <1>4, MoneyIsInvariant, PassesAreWellTyped, PTL DEF Spec

(***************************************************************************)
(* Reports: an inductive invariant, from how many rows come before each    *)
(* one in the order of the report.                                         *)
(***************************************************************************)

\* What the variables hold.
ReportKinds == UNION {Scenes[s] : s \in DOMAIN Scenes}
Row == [live : BOOLEAN, mine : BOOLEAN, sale : Nat, cut : BOOLEAN]
PrintedLine == [id : Nat, page : Nat, discounts : SUBSET Nat]
Report ==
  [kind : ReportKinds, at : {"idle", "dump", "ids", "page", "done", "failed"},
   page : Nat \ {0}, size : Nat, view : Seq(Row), out : SUBSET (Nat \cup PrintedLine),
   ids : SUBSET Nat, count : Nat \cup {-1}, rows : SUBSET Nat, fit : Nat \cup {-1},
   start : SUBSET Nat, left : BOOLEAN]

\* The rows of a transaction have higher ids than those of earlier ones.
TableOK ==
  /\ table \in Seq(Row) /\ sales \in Nat /\ changes \in Nat
  /\ \A i \in DOMAIN table : table[i].sale <= sales
  /\ \A i, j \in DOMAIN table : i < j => table[i].sale <= table[j].sale
StepOK ==
  /\ rd.at = "dump" => rd.kind \in Dumps
  /\ rd.at \in {"ids", "page"} => rd.kind \notin Dumps
  /\ rd.at = "ids" => rd.kind \in ByIds /\ rd.fit = -1 /\ rd.count = -1
  /\ rd.at \in {"idle", "failed"} => rd.out = {} /\ rd.page = 1 /\ rd.fit = -1 /\ rd.count = -1
ReportTypeOK == TableOK /\ rd \in Report /\ IsFiniteSet(rd.ids) /\ StepOK

\* The rows that come before one of them in a report of this kind.
Front(kind, ids, i) == {j \in ids : IF kind = "stream" THEN j < i ELSE j > i}
Rank(kind, ids, i)  == Cardinality(Front(kind, ids, i))

\* The rows a dump reads.
Picked(kind, view) == IF kind = "stream" THEN {i \in DOMAIN view : view[i].live} ELSE Wanted(view)

\* What is out of a dump is the pages before this one, every line on the page of its row and
\* with the discount of its row, and a page that is not full was the last.
PagesAreOut(kind, view, out, page, size) ==
  /\ page = 1 => out = {} /\ (kind # "dump" => size = PerPage)
  /\ {l.id : l \in out}
       = {i \in Picked(kind, view) : view[i].mine /\ Rank(kind, Picked(kind, view), i) < PerPage * (page - 1)}
  /\ \A l \in out :
       /\ l = [id |-> l.id, page |-> l.page,
               discounts |-> IF view[l.id].cut THEN {view[l.id].sale} ELSE {}]
       /\ l.page \in Nat \ {0}
       /\ Rank(kind, Picked(kind, view), l.id) \in (PerPage * (l.page - 1))..(PerPage * l.page - 1)
  /\ page > 1 /\ size < PerPage =>
       \A i \in Picked(kind, view) : Rank(kind, Picked(kind, view), i) < PerPage * (page - 1)
DumpInv ==
  rd.kind \in Dumps /\ rd.at \in {"dump", "done"} =>
    /\ PagesAreOut(rd.kind, rd.view, rd.out, rd.page, rd.size)
    /\ rd.at = "done" => rd.size < PerPage

\* The rows a list goes through, and what it need not have seen.
Listing == IF rd.kind = "history" THEN OfCompany ELSE Wanted(table)
Excused ==
  \/ rd.left
  \/ rd.kind = "transactions" /\ Ties
  \/ rd.kind = "admin" /\ Cardinality(OfCompany) > PerPage

\* The page that has been read and not been answered with; that it shows there is no other.
Fetched   == IF rd.kind = "history" THEN rd.ids ELSE rd.rows
IsFetched == IF rd.kind = "history" THEN rd.at = "page" ELSE rd.fit # -1
ShownLast == IF rd.kind = "history" THEN Cardinality(rd.ids) < PerPage ELSE rd.fit <= PerPage * rd.page

\* The rows there were at first of which fewer than n come before have been seen.
Seen(start, ids, out, n) == \A i \in start : Rank("list", ids, i) < n => i \in out

ListInv ==
  /\ rd.start \subseteq Listing
  /\ Seen(rd.start, Listing, rd.out, PerPage * (rd.page - 1))
  /\ IsFetched => /\ Seen(rd.start, Listing, rd.out \cup Fetched, PerPage * rd.page)
                  /\ ShownLast => rd.start \subseteq rd.out \cup Fetched
  /\ rd.kind = "history" /\ rd.fit # -1 => rd.rows = rd.ids
\* A list that counts what its page of ids has, when they are all of them.
AdminInv ==
  /\ rd.page = 1 /\ rd.start \subseteq Wanted(table)
  /\ rd.at = "page" => rd.start \subseteq rd.ids /\ rd.ids \subseteq OfCompany
  /\ rd.fit # -1 => rd.start \subseteq rd.rows
  /\ rd.count # -1 => rd.count <= PerPage
ListsInv ==
  rd.at \in {"ids", "page"} /\ ~ Excused => IF rd.kind = "admin" THEN AdminInv ELSE ListInv

ReportInv == ReportTypeOK /\ DumpInv /\ ListsInv /\ PagesMissNothing

\* An ordering of a finite set that a relation agrees with: as many come before a member in
\* the relation as in the ordering.
Ranking(s, ids, R) ==
  /\ s \in [1..Cardinality(ids) -> ids]
  /\ \A a, b \in 1..Cardinality(ids) : a < b => s[a] # s[b] /\ <<s[a], s[b]>> \in R
Asymmetric(R, ids) == \A x, y \in ids : <<x, y>> \in R => <<y, x>> \notin R
Predecessors(R, ids, i) == {j \in ids : <<j, i>> \in R}
Slice(s, first, size) == {s[k] : k \in {n \in DOMAIN s : n \in (first + 1)..(first + size)}}

\* Every member of a finite set has a place in an ordering of it.
LEMMA RankingIsOnto ==
  ASSUME NEW ids, IsFiniteSet(ids), NEW R, NEW s, Ranking(s, ids, R), NEW i \in ids
  PROVE  \E k \in 1..Cardinality(ids) : s[k] = i
<1> PICK n \in Nat : n = Cardinality(ids)  BY FS_CardinalityType
<1> PICK D : D = 1..n  OBVIOUS
<1>1. IsFiniteSet(D) /\ Cardinality(D) = n
  <2>1. 1 \in Int /\ n \in Int  OBVIOUS
  <2>2. IsFiniteSet(1..n) /\ Cardinality(1..n) = IF 1 > n THEN 0 ELSE n - 1 + 1  BY ONLY <2>1, FS_Interval
  <2> QED  BY <2>2
<1>2. s \in [D -> ids] /\ \A a, b \in D : a < b => s[a] # s[b]  BY DEF Ranking
<1>3. s \in Injection(D, ids)
  <2>1. \A a, b \in D : a # b => s[a] # s[b]
    <3>1. ASSUME NEW a \in D, NEW b \in D, a # b PROVE s[a] # s[b]
      <4>1. a < b \/ b < a  BY <3>1
      <4> QED  BY <1>2, <4>1
    <3> QED  BY <3>1
  <2> QED  BY <1>2, <2>1 DEF Injection, IsInjective
<1>4. s \in Surjection(D, ids)  BY <1>1, <1>3, FS_Injection
<1> QED  BY <1>4 DEF Surjection

\* The member at a place comes after as many as there are places before it.
LEMMA RankIs ==
  ASSUME NEW ids, IsFiniteSet(ids), NEW R, Asymmetric(R, ids), NEW s, Ranking(s, ids, R),
         NEW k \in 1..Cardinality(ids)
  PROVE  IsFiniteSet(Predecessors(R, ids, s[k])) /\ Cardinality(Predecessors(R, ids, s[k])) = k - 1
<1> PICK n \in Nat : n = Cardinality(ids)  BY FS_CardinalityType
<1> PICK D : D = 1..(k - 1)  OBVIOUS
<1> PICK P : P = Predecessors(R, ids, s[k])  OBVIOUS
<1>1. IsFiniteSet(D) /\ Cardinality(D) = k - 1
  <2>1. 1 \in Int /\ k - 1 \in Int  OBVIOUS
  <2>2. IsFiniteSet(1..(k - 1)) /\ Cardinality(1..(k - 1)) = IF 1 > k - 1 THEN 0 ELSE (k - 1) - 1 + 1
    BY ONLY <2>1, FS_Interval
  <2> QED  BY <2>2
<1>2. \A a \in 1..n : s[a] \in ids  BY DEF Ranking
<1>3. \A a, b \in 1..n : a < b => s[a] # s[b] /\ <<s[a], s[b]>> \in R  BY DEF Ranking
<1>4. \A a \in D : a \in 1..n /\ a < k  OBVIOUS
<1>5. \A a \in D : s[a] \in P  BY <1>2, <1>3, <1>4 DEF Predecessors
<1>6. \A j \in P : \E a \in D : s[a] = j
  <2> SUFFICES ASSUME NEW j \in P PROVE \E a \in D : s[a] = j  OBVIOUS
  <2>1. j \in ids /\ <<j, s[k]>> \in R  BY DEF Predecessors
  <2>2. PICK a \in 1..n : s[a] = j  BY <2>1, RankingIsOnto
  <2>3. ~ k < a  BY <1>2, <1>3, <2>1, <2>2 DEF Asymmetric
  <2>4. k # a  BY <1>2, <2>1, <2>2 DEF Asymmetric
  <2>5. a \in D  BY <2>3, <2>4
  <2> QED  BY <2>2, <2>5
<1>7. PICK f : f = [a \in D |-> s[a]]  OBVIOUS
<1>8. f \in Injection(D, P)
  <2>1. f \in [D -> P]  BY <1>5, <1>7
  <2>2. ASSUME NEW a \in D, NEW b \in D, a # b PROVE f[a] # f[b]
    <3>1. a < b \/ b < a  BY <2>2
    <3>2. a \in 1..n /\ b \in 1..n  BY <1>4
    <3> QED  BY <1>3, <1>7, <3>1, <3>2
  <2> QED  BY <2>1, <2>2 DEF Injection, IsInjective
<1>9. IsFiniteSet(P)
  <2>1. P \in SUBSET ids  BY DEF Predecessors
  <2> QED  BY <2>1, FS_Subset
<1>10. f \in Surjection(D, P)
  <2>1. f \in [D -> P]  BY <1>5, <1>7
  <2>2. \A j \in P : \E a \in D : f[a] = j  BY <1>6, <1>7
  <2> QED  BY <2>1, <2>2 DEF Surjection
<1> QED  BY <1>1, <1>8, <1>9, <1>10, FS_Injection

\* The rows of a page, in terms of how many come before each, and what a page that is not
\* full says.
IsPageOf(ids, R, s, first, size) ==
  /\ Slice(s, first, size) \subseteq ids
  /\ \A i \in ids :
       i \in Slice(s, first, size) <=> Cardinality(Predecessors(R, ids, i)) \in first..(first + size - 1)
  /\ IsFiniteSet(Slice(s, first, size)) /\ Cardinality(Slice(s, first, size)) \in Nat
  /\ Cardinality(Slice(s, first, size)) < size =>
       \A i \in ids : Cardinality(Predecessors(R, ids, i)) < first + size
  /\ \A i \in ids : Cardinality(Predecessors(R, ids, i)) \in 0..(Cardinality(ids) - 1)

\* The rows between two places are known by how many come before them, and fewer than asked
\* for are the last.
LEMMA PageIs ==
  ASSUME NEW ids, IsFiniteSet(ids), NEW R, Asymmetric(R, ids), NEW s, Ranking(s, ids, R),
         NEW first \in Nat, NEW size \in Nat, size # 0
  PROVE  IsPageOf(ids, R, s, first, size)
<1> PICK rows : rows = Slice(s, first, size)  OBVIOUS
<1> PICK n \in Nat : n = Cardinality(ids)  BY FS_CardinalityType
<1>1. DOMAIN s = 1..n /\ \A a \in 1..n : s[a] \in ids  BY DEF Ranking
<1>2. \A k \in 1..n : Cardinality(Predecessors(R, ids, s[k])) = k - 1  BY RankIs
<1>3. \A i \in ids : \E k \in 1..n : s[k] = i  BY RankingIsOnto
<1>4. \A i \in ids : Cardinality(Predecessors(R, ids, i)) \in 0..(n - 1)
  <2> SUFFICES ASSUME NEW i \in ids PROVE Cardinality(Predecessors(R, ids, i)) \in 0..(n - 1)  OBVIOUS
  <2>1. PICK k \in 1..n : s[k] = i  BY <1>3
  <2> QED  BY <1>2, <2>1
<1>5. rows = {i \in ids : Cardinality(Predecessors(R, ids, i)) \in first..(first + size - 1)}
  <2>1. ASSUME NEW i \in rows
        PROVE  i \in ids /\ Cardinality(Predecessors(R, ids, i)) \in first..(first + size - 1)
    <3>1. PICK k \in 1..n : s[k] = i /\ k \in (first + 1)..(first + size)  BY <1>1 DEF Slice
    <3> QED  BY <1>1, <1>2, <3>1
  <2>2. ASSUME NEW i \in ids, Cardinality(Predecessors(R, ids, i)) \in first..(first + size - 1)
        PROVE  i \in rows
    <3>1. PICK k \in 1..n : s[k] = i  BY <1>3
    <3>2. k - 1 \in first..(first + size - 1)  BY <1>2, <2>2, <3>1
    <3>3. k \in (first + 1)..(first + size)  BY <3>2
    <3> QED  BY <1>1, <3>1, <3>3 DEF Slice
  <2> QED  BY <2>1, <2>2
<1>6. rows \in SUBSET ids  BY <1>5
<1>7. IsFiniteSet(rows) /\ Cardinality(rows) \in Nat  BY <1>6, FS_Subset, FS_CardinalityType
<1>8. ASSUME Cardinality(rows) < size, NEW i \in ids
      PROVE  Cardinality(Predecessors(R, ids, i)) < first + size
  <2> SUFFICES ASSUME Cardinality(Predecessors(R, ids, i)) >= first + size PROVE FALSE  BY <1>4
  <2>1. PICK k \in 1..n : s[k] = i  BY <1>3
  <2>2. k > first + size  BY <1>2, <2>1
  <2> PICK D : D = (first + 1)..(first + size)  OBVIOUS
  <2>3. \A a \in D : a \in 1..n  BY <2>2
  <2>4. IsFiniteSet(D) /\ Cardinality(D) = size
    <3>1. first + 1 \in Int /\ first + size \in Int  OBVIOUS
    <3>2. /\ IsFiniteSet((first + 1)..(first + size))
          /\ Cardinality((first + 1)..(first + size))
               = IF first + 1 > first + size THEN 0 ELSE (first + size) - (first + 1) + 1
      BY ONLY <3>1, FS_Interval
    <3> QED  BY <3>2
  <2>5. PICK f : f = [a \in D |-> s[a]]  OBVIOUS
  <2>6. f \in Injection(D, rows)
    <3>1. \A a \in D : s[a] \in rows
      <4>1. \A a \in D : a \in DOMAIN s /\ a \in (first + 1)..(first + size)  BY <1>1, <2>3
      <4> QED  BY <4>1 DEF Slice
    <3>2. ASSUME NEW a \in D, NEW b \in D, a # b PROVE f[a] # f[b]
      <4>1. a < b \/ b < a  BY <3>2
      <4>2. a \in 1..n /\ b \in 1..n  BY <2>3
      <4>3. \A x, y \in 1..n : x < y => s[x] # s[y]  BY DEF Ranking
      <4> QED  BY <2>5, <4>1, <4>2, <4>3
    <3>3. f \in [D -> rows]  BY <2>5, <3>1
    <3> QED  BY <3>2, <3>3 DEF Injection, IsInjective
  <2>7. Cardinality(D) <= Cardinality(rows)  BY <1>7, <2>6, FS_Injection
  <2> QED  BY <1>7, <1>8, <2>4, <2>7
<1>9. \A i \in ids : i \in rows <=> Cardinality(Predecessors(R, ids, i)) \in first..(first + size - 1)
  BY <1>5
<1> QED  BY <1>4, <1>6, <1>7, <1>8, <1>9 DEF IsPageOf

\* Where the places of a page begin and end.
LEMMA PageBounds ==
  ASSUME NEW page \in Nat \ {0}
  PROVE  /\ PerPage * (page - 1) \in Nat /\ PerPage * page \in Nat
         /\ PerPage * page = PerPage * (page - 1) + PerPage
         /\ PerPage * ((page + 1) - 1) = PerPage * page
         /\ PerPage \in Nat \ {0}
<1>1. PerPage \in Nat \ {0}  BY SmallFirst
<1>2. page - 1 \in Nat  OBVIOUS
<1>3. PerPage * (page - 1) = PerPage * page - PerPage  BY <1>1, <1>2
<1>4. PerPage * (page - 1) \in Nat /\ PerPage * page \in Nat  BY <1>1, <1>2
<1> QED  BY <1>1, <1>3, <1>4

\* A place is on one page only.
LEMMA OnePagePerRank ==
  ASSUME NEW p \in Nat \ {0}, NEW q \in Nat \ {0}, NEW x \in Int,
         x \in (PerPage * (p - 1))..(PerPage * p - 1), x \in (PerPage * (q - 1))..(PerPage * q - 1)
  PROVE  p = q
<1>1. PerPage \in Nat \ {0}  BY SmallFirst
<1>2. ASSUME NEW a \in Nat \ {0}, NEW b \in Nat \ {0}, a < b
      PROVE  PerPage * a <= PerPage * (b - 1)
  <2>1. PICK d \in Nat : b - 1 = a + d
    <3>1. b - 1 - a \in Nat  BY <1>2
    <3> QED  BY <3>1
  <2>2. PerPage * (b - 1) = PerPage * a + PerPage * d  BY <1>1, <2>1
  <2>3. PerPage * a \in Nat /\ PerPage * d \in Nat  BY <1>1
  <2> QED  BY <2>2, <2>3
<1>3. /\ PerPage * (p - 1) \in Int /\ PerPage * p \in Int
      /\ PerPage * (q - 1) \in Int /\ PerPage * q \in Int
  BY <1>1
<1>4. ~ p < q  BY <1>2, <1>3
<1>5. ~ q < p  BY <1>2, <1>3
<1> QED  BY <1>4, <1>5

\* Finitely many rows come before each row of a finite selection.
LEMMA RanksAreNumbers ==
  ASSUME NEW kind, NEW ids, IsFiniteSet(ids), NEW i
  PROVE  IsFiniteSet(Front(kind, ids, i)) /\ Rank(kind, ids, i) \in Nat
<1>1. Front(kind, ids, i) \in SUBSET ids  BY DEF Front
<1> QED  BY <1>1, FS_Subset, FS_CardinalityType DEF Rank

\* A table has finitely many rows, numbered from one.
LEMMA RowsAreFinite ==
  ASSUME NEW view \in Seq(Row)
  PROVE  IsFiniteSet(DOMAIN view) /\ DOMAIN view \subseteq Nat
<1> PICK n \in Nat : DOMAIN view = 1..n  OBVIOUS
<1>1. 1 \in Int /\ n \in Int  OBVIOUS
<1>2. IsFiniteSet(1..n)  BY ONLY <1>1, FS_Interval
<1> QED  BY <1>2

\* A query that orders by id.
ById(kind, ids, view) ==
  \A a, b \in ids : a # b /\ Before(view, a, b) => IF kind = "stream" THEN a < b ELSE a > b

\* The rows of a page of a query that orders by id: those that have as many rows before them
\* as its LIMIT and OFFSET say, and a page that is not full is the last.
LEMMA PagesAre ==
  ASSUME NEW view \in Seq(Row), NEW ids, ids = Selected(view), ids \subseteq DOMAIN view,
         NEW kind, ById(kind, ids, view), NEW page \in Nat \ {0}, NEW rows \in Pages(view, page)
  PROVE  /\ IsFiniteSet(ids) /\ Cardinality(ids) \in Nat
         /\ rows = {i \in ids : Rank(kind, ids, i) \in (PerPage * (page - 1))..(PerPage * page - 1)}
         /\ Cardinality(rows) \in Nat
         /\ Cardinality(rows) < PerPage => \A i \in ids : Rank(kind, ids, i) < PerPage * page
         /\ \A i \in ids : Rank(kind, ids, i) \in 0..(Cardinality(ids) - 1)
<1>1. IsFiniteSet(ids) /\ Cardinality(ids) \in Nat /\ ids \subseteq Nat
  BY RowsAreFinite, FS_Subset, FS_CardinalityType
<1> PICK first \in Nat : first = PerPage * (page - 1) /\ first + PerPage = PerPage * page
  BY PageBounds
<1>2. Offset(page) = first  BY DEF Offset
<1>3. PICK s \in Ordered(view) : rows = Slice(s, first, PerPage)
  BY <1>2 DEF Pages, Slice
<1>01. PICK R : R = {pair \in ids \X ids : IF kind = "stream" THEN pair[1] < pair[2] ELSE pair[1] > pair[2]}
  OBVIOUS
<1>4. \A x, y \in ids : <<x, y>> \in R <=> IF kind = "stream" THEN x < y ELSE x > y  BY <1>01
<1>5. Asymmetric(R, ids)  BY <1>1, <1>4 DEF Asymmetric
<1>6. Ranking(s, ids, R)
  <2>1. /\ s \in [1..Cardinality(ids) -> ids]
        /\ \A a, b \in DOMAIN s : a < b => s[a] # s[b] /\ Before(view, s[a], s[b])
    BY DEF Ordered
  <2>2. ASSUME NEW a \in 1..Cardinality(ids), NEW b \in 1..Cardinality(ids), a < b
        PROVE  s[a] # s[b] /\ <<s[a], s[b]>> \in R
    <3>1. s[a] \in ids /\ s[b] \in ids /\ s[a] # s[b] /\ Before(view, s[a], s[b])  BY <2>1, <2>2
    <3> QED  BY <1>4, <3>1 DEF ById
  <2> QED  BY <2>1, <2>2 DEF Ranking
<1>7. \A i \in ids : Predecessors(R, ids, i) = Front(kind, ids, i)
  BY <1>4 DEF Predecessors, Front
<1>8. PerPage \in Nat \ {0}  BY SmallFirst
<1>9. /\ rows \subseteq ids
      /\ \A i \in ids : i \in rows <=> Cardinality(Predecessors(R, ids, i)) \in first..(first + PerPage - 1)
      /\ IsFiniteSet(rows) /\ Cardinality(rows) \in Nat
      /\ Cardinality(rows) < PerPage =>
           \A i \in ids : Cardinality(Predecessors(R, ids, i)) < first + PerPage
      /\ \A i \in ids : Cardinality(Predecessors(R, ids, i)) \in 0..(Cardinality(ids) - 1)
  <2>1. PICK size \in Nat : size = PerPage /\ size # 0  BY <1>8
  <2>2. IsPageOf(ids, R, s, first, size)  BY <1>1, <1>5, <1>6, <2>1, PageIs
  <2> QED  BY <1>3, <2>1, <2>2 DEF IsPageOf
<1>10. \A i \in ids : Rank(kind, ids, i) = Cardinality(Predecessors(R, ids, i))  BY <1>7 DEF Rank
<1>11. first + PerPage - 1 = PerPage * page - 1  BY <1>8
<1>12. rows = {i \in ids : Rank(kind, ids, i) \in first..(PerPage * page - 1)}  BY <1>9, <1>10, <1>11
<1>13. Cardinality(rows) < PerPage => \A i \in ids : Rank(kind, ids, i) < PerPage * page
  BY <1>9, <1>10
<1>14. \A i \in ids : Rank(kind, ids, i) \in 0..(Cardinality(ids) - 1)  BY <1>9, <1>10
<1> QED  BY <1>1, <1>9, <1>12, <1>13, <1>14

\* Every row of a page is on it with the discount of its row, and with no other.
LEMMA LinesAre ==
  ASSUME NEW view, NEW page, NEW rows \in SUBSET DOMAIN view, NEW i \in rows
  PROVE  Line(view, page, rows, i)
           = [id |-> i, page |-> page,
              discounts |-> IF view[i].cut THEN {view[i].sale} ELSE {}]
<1>1. {sale \in {view[j].sale : j \in rows} : i \in Discounted(view, rows, sale)}
        = IF view[i].cut THEN {view[i].sale} ELSE {}
  BY DEF Discounted, TicketsOf, DiscountAmounts
<1> QED  BY <1>1 DEF Line

\* A dump reads rows of its snapshot, and those of the company are what is wanted of it.
LEMMA PickedAre ==
  ASSUME NEW view \in Seq(Row), NEW kind
  PROVE  /\ Picked(kind, view) \subseteq DOMAIN view /\ IsFiniteSet(Picked(kind, view))
         /\ \A i : Rank(kind, Picked(kind, view), i) \in Nat
         /\ Wanted(view) = {i \in Picked(kind, view) : view[i].mine}
<1>1. Picked(kind, view) \subseteq DOMAIN view  BY DEF Picked, Wanted
<1>2. IsFiniteSet(Picked(kind, view))  BY <1>1, RowsAreFinite, FS_Subset
<1>3. Wanted(view) = {i \in Picked(kind, view) : view[i].mine}  BY DEF Picked, Wanted
<1> QED  BY <1>1, <1>2, <1>3, RanksAreNumbers

\* Before the first page nothing is out.
LEMMA NothingIsOut ==
  ASSUME NEW view \in Seq(Row), NEW kind, NEW size, kind # "dump" => size = PerPage
  PROVE  PagesAreOut(kind, view, {}, 1, size)
<1>1. \A i \in Picked(kind, view) : ~ Rank(kind, Picked(kind, view), i) < PerPage * (1 - 1)
  <2>1. PerPage * (1 - 1) = 0  BY SmallFirst
  <2> QED  BY <2>1, PickedAre
<1>2. ~ 1 > 1  OBVIOUS
<1> QED  BY <1>1, <1>2 DEF PagesAreOut

\* The rows of a page, and what is printed of them.
PageRows(kind, view, page) ==
  {i \in Picked(kind, view) :
     Rank(kind, Picked(kind, view), i) \in (PerPage * (page - 1))..(PerPage * page - 1)}
PageLines(view, page, rows) == {Line(view, page, rows, i) : i \in {j \in rows : view[j].mine}}

\* A page more is out.
LEMMA PageGoesOut ==
  ASSUME NEW view \in Seq(Row), NEW kind, NEW out, NEW page \in Nat \ {0}, NEW size,
         PagesAreOut(kind, view, out, page, size),
         NEW rows, NEW found \in Nat, rows = PageRows(kind, view, page),
         found < PerPage =>
           \A i \in Picked(kind, view) : Rank(kind, Picked(kind, view), i) < PerPage * page
  PROVE  PagesAreOut(kind, view, out \cup PageLines(view, page, rows), page + 1, found)
<1> PICK ids : ids = Picked(kind, view)  OBVIOUS
<1> PICK rank : rank = [i \in ids |-> Rank(kind, ids, i)]  OBVIOUS
<1> PICK low \in Nat : low = PerPage * (page - 1)  BY PageBounds
<1> PICK high \in Nat : high = PerPage * page /\ high = PerPage * ((page + 1) - 1) /\ low < high
  BY PageBounds
<1>01. PICK shown : shown = {j \in rows : view[j].mine}  OBVIOUS
<1>02. PICK more : more = {Line(view, page, rows, i) : i \in shown}  OBVIOUS
<1>1. \A i \in ids : rank[i] \in Nat /\ rank[i] = Rank(kind, ids, i)  BY PickedAre
<1>2. ids \subseteq DOMAIN view  BY PickedAre
<1>3. rows = {i \in ids : rank[i] \in low..(high - 1)}  BY <1>1 DEF PageRows
<1>4. \A i \in rows : Line(view, page, rows, i)
          = [id |-> i, page |-> page, discounts |-> IF view[i].cut THEN {view[i].sale} ELSE {}]
  BY <1>2, <1>3, LinesAre
<1>5. \A l \in more : /\ l.id \in shown /\ l.page = page
                      /\ l = [id |-> l.id, page |-> l.page,
                              discounts |-> IF view[l.id].cut THEN {view[l.id].sale} ELSE {}]
  <2> SUFFICES ASSUME NEW l \in more
               PROVE  /\ l.id \in shown /\ l.page = page
                      /\ l = [id |-> l.id, page |-> l.page,
                              discounts |-> IF view[l.id].cut THEN {view[l.id].sale} ELSE {}]
    OBVIOUS
  <2>1. PICK i \in shown : l = Line(view, page, rows, i)  BY <1>02
  <2>2. i \in rows  BY <1>01
  <2>3. l = [id |-> i, page |-> page, discounts |-> IF view[i].cut THEN {view[i].sale} ELSE {}]
    BY <1>4, <2>1, <2>2
  <2>4. l.id = i /\ l.page = page  BY <2>3
  <2> QED  BY <2>3, <2>4
<1>6. \A i \in shown : \E l \in more : l.id = i
  <2> SUFFICES ASSUME NEW i \in shown PROVE \E l \in more : l.id = i  OBVIOUS
  <2>1. i \in rows  BY <1>01
  <2>2. PICK l : l = Line(view, page, rows, i)  OBVIOUS
  <2>3. l \in more  BY <1>02, <2>2
  <2>4. l = [id |-> i, page |-> page, discounts |-> IF view[i].cut THEN {view[i].sale} ELSE {}]
    BY <1>4, <2>1, <2>2
  <2>5. l.id = i  BY <2>4
  <2> QED  BY <2>3, <2>5
<1>7. {l.id : l \in out} = {i \in ids : view[i].mine /\ rank[i] < low}
  BY <1>1 DEF PagesAreOut
<1>8. {l.id : l \in out \cup more} = {i \in ids : view[i].mine /\ rank[i] < high}
  <2>1. {l.id : l \in out \cup more} = {l.id : l \in out} \cup shown
    <3>1. {l.id : l \in more} = shown  BY <1>5, <1>6
    <3> QED  BY <3>1
  <2>2. shown = {i \in ids : view[i].mine /\ rank[i] \in low..(high - 1)}  BY <1>01, <1>3
  <2>3. \A i \in ids : rank[i] < high <=> rank[i] < low \/ rank[i] \in low..(high - 1)  BY <1>1
  <2> QED  BY <1>7, <2>1, <2>2, <2>3
<1>9. \A l \in out \cup more :
        /\ l = [id |-> l.id, page |-> l.page, discounts |-> IF view[l.id].cut THEN {view[l.id].sale} ELSE {}]
        /\ l.page \in Nat \ {0}
        /\ Rank(kind, ids, l.id) \in (PerPage * (l.page - 1))..(PerPage * l.page - 1)
  <2>1. ASSUME NEW l \in out
        PROVE  /\ l = [id |-> l.id, page |-> l.page,
                       discounts |-> IF view[l.id].cut THEN {view[l.id].sale} ELSE {}]
               /\ l.page \in Nat \ {0}
               /\ Rank(kind, ids, l.id) \in (PerPage * (l.page - 1))..(PerPage * l.page - 1)
    BY <2>1 DEF PagesAreOut
  <2>2. ASSUME NEW l \in more
        PROVE  /\ l = [id |-> l.id, page |-> l.page,
                       discounts |-> IF view[l.id].cut THEN {view[l.id].sale} ELSE {}]
               /\ l.page \in Nat \ {0}
               /\ Rank(kind, ids, l.id) \in (PerPage * (l.page - 1))..(PerPage * l.page - 1)
    <3>1. l.id \in ids /\ rank[l.id] \in low..(high - 1) /\ l.page = page  BY <1>01, <1>3, <1>5
    <3> QED  BY <1>1, <1>5, <3>1
  <2> QED  BY <2>1, <2>2
<1>10. found < PerPage => \A i \in ids : Rank(kind, ids, i) < high  OBVIOUS
<1>11. page + 1 # 1  OBVIOUS
<1>12. {i \in ids : view[i].mine /\ rank[i] < high} = {i \in ids : view[i].mine /\ Rank(kind, ids, i) < high}
  BY <1>1
<1>13. PagesAreOut(kind, view, out \cup more, page + 1, found)
  <2>1. {l.id : l \in out \cup more}
          = {i \in Picked(kind, view) : view[i].mine
               /\ Rank(kind, Picked(kind, view), i) < PerPage * ((page + 1) - 1)}
    BY <1>8, <1>12
  <2>2. found < PerPage => \A i \in Picked(kind, view) :
          Rank(kind, Picked(kind, view), i) < PerPage * ((page + 1) - 1)
    BY <1>10
  <2> QED  BY <1>9, <1>11, <2>1, <2>2 DEF PagesAreOut
<1> QED  BY <1>01, <1>02, <1>13 DEF PageLines

\* What a query selects is finite, and are rows of the table it reads, or, for the rows of a
\* page of a user's transactions, of the ids that were read; a dump reads all it picks.
LEMMA SelectedAre ==
  ASSUME ReportTypeOK, NEW view \in Seq(Row)
  PROVE  /\ IsFiniteSet(Selected(view)) /\ Selected(view) \subseteq Nat
         /\ rd.at # "page" \/ rd.kind # "history" => Selected(view) \subseteq DOMAIN view
         /\ rd.at = "dump" => Selected(view) = Picked(rd.kind, view)
<1>1. Wanted(view) \subseteq DOMAIN view  BY DEF Wanted
<1>2. rd.ids \subseteq Nat /\ IsFiniteSet(rd.ids)  BY DEF ReportTypeOK, Report
<1>3. Selected(view) \subseteq DOMAIN view \/ Selected(view) = rd.ids  BY <1>1 DEF Selected
<1>4. rd.at # "page" \/ rd.kind # "history" => Selected(view) \subseteq DOMAIN view  BY <1>1 DEF Selected
<1>5. rd.at = "dump" => Selected(view) = Picked(rd.kind, view)
  BY DEF Selected, Picked, ReportTypeOK, StepOK, Dumps
<1> QED  BY <1>2, <1>3, <1>4, <1>5, RowsAreFinite, FS_Subset

\* A page holds finitely many rows of its selection, and no other.
LEMMA PagesAreSelected ==
  ASSUME ReportTypeOK, NEW view \in Seq(Row), NEW page, NEW rows \in Pages(view, page)
  PROVE  /\ rows \subseteq Selected(view) /\ rows \subseteq Nat
         /\ IsFiniteSet(rows) /\ Cardinality(rows) \in Nat
<1>1. rows \subseteq Selected(view)
  <2>1. PICK s \in Ordered(view) : rows = Slice(s, Offset(page), PerPage)  BY DEF Pages, Slice
  <2>2. \A k \in DOMAIN s : s[k] \in Selected(view)  BY DEF Ordered
  <2> QED  BY <2>1, <2>2 DEF Slice
<1> QED  BY <1>1, SelectedAre, FS_Subset, FS_CardinalityType

\* A transaction adds rows after those there are.
LEMMA RowsAreAdded ==
  ASSUME TableOK, NEW n \in 1..2, NEW ours \in [1..n -> BOOLEAN], NEW cut \in [1..n -> BOOLEAN],
         Add(n, ours, cut)
  PROVE  /\ table' \in Seq(Row) /\ sales' = sales + 1 /\ UNCHANGED <<changes, rd>>
         /\ DOMAIN table \subseteq DOMAIN table'
         /\ \A i \in DOMAIN table : table'[i] = table[i]
         /\ \A i \in DOMAIN table' : i \notin DOMAIN table =>
              /\ table'[i].sale = sales + 1 /\ table'[i].live
              /\ \A j \in DOMAIN table : j < i
<1>1. table \in Seq(Row) /\ sales \in Nat  BY DEF TableOK
<1> PICK m \in Nat : m = Len(table) /\ DOMAIN table = 1..m  BY <1>1
<1>01. PICK new : new = [k \in 1..n |-> [live |-> TRUE, mine |-> ours[k], sale |-> sales + 1, cut |-> cut[k]]]
  OBVIOUS
<1>2. \A k \in 1..n : new[k] \in Row /\ new[k].sale = sales + 1 /\ new[k].live  BY <1>01, <1>1 DEF Row
<1>3. new \in Seq(Row) /\ Len(new) = n /\ DOMAIN new = 1..n
  <2>1. new = [k \in 1..n |-> new[k]]  BY <1>01
  <2>2. n \in Nat  OBVIOUS
  <2>3. new \in [1..n -> Row]  BY <1>2, <2>1
  <2> QED  BY <2>2, <2>3
<1>4. table' = table \o new /\ sales' = sales + 1 /\ UNCHANGED <<changes, rd>>  BY <1>01 DEF Add
<1>5. /\ table' \in Seq(Row) /\ DOMAIN table' = 1..(m + n)
      /\ \A i \in 1..m : table'[i] = table[i]
      /\ \A i \in 1..n : table'[m + i] = new[i]
  BY <1>1, <1>3, <1>4
<1>6. ASSUME NEW i \in DOMAIN table', i \notin DOMAIN table
      PROVE  table'[i].sale = sales + 1 /\ table'[i].live /\ \A j \in DOMAIN table : j < i
  <2>1. i - m \in 1..n /\ m + (i - m) = i  BY <1>5, <1>6
  <2>2. table'[i] = new[i - m]  BY <1>5, <2>1
  <2> QED  BY <1>2, <1>5, <1>6, <2>1, <2>2
<1> QED  BY <1>4, <1>5, <1>6

\* Every step keeps the table in the order of its sales.
LEMMA NextTableOK == TableOK /\ [ReportNext]_reportVars => TableOK'
<1> SUFFICES ASSUME TableOK, [ReportNext]_reportVars PROVE TableOK'  OBVIOUS
<1>0. /\ table \in Seq(Row) /\ sales \in Nat /\ changes \in Nat
      /\ \A i \in DOMAIN table : table[i].sale <= sales
      /\ \A i, j \in DOMAIN table : i < j => table[i].sale <= table[j].sale
  BY DEF TableOK
<1>1. CASE UNCHANGED <<table, sales, changes>>  BY <1>0, <1>1 DEF TableOK
<1>2. ASSUME NEW n \in 1..2, NEW ours \in [1..n -> BOOLEAN], NEW cut \in [1..n -> BOOLEAN], Add(n, ours, cut)
      PROVE  TableOK'
  <2>1. /\ table' \in Seq(Row) /\ sales' = sales + 1 /\ changes' = changes
        /\ DOMAIN table \subseteq DOMAIN table'
        /\ \A i \in DOMAIN table : table'[i] = table[i]
        /\ \A i \in DOMAIN table' : i \notin DOMAIN table =>
              table'[i].sale = sales + 1 /\ \A j \in DOMAIN table : j < i
    BY <1>2, RowsAreAdded
  <2>2. \A i \in DOMAIN table' : table'[i].sale <= sales + 1 /\ i \in Int /\ table'[i].sale \in Nat
    <3>1. \A i \in DOMAIN table' : table'[i] \in Row /\ i \in Int  BY <2>1
    <3>2. \A i \in DOMAIN table' : table'[i].sale \in Nat  BY <3>1 DEF Row
    <3>3. \A i \in DOMAIN table : table'[i].sale = table[i].sale /\ table[i].sale <= sales  BY <1>0, <2>1
    <3>4. \A i \in DOMAIN table' : i \notin DOMAIN table => table'[i].sale = sales + 1  BY <2>1
    <3> QED  BY <1>0, <2>1, <3>1, <3>2, <3>3, <3>4
  <2>3. ASSUME NEW i \in DOMAIN table', NEW j \in DOMAIN table', i < j PROVE table'[i].sale <= table'[j].sale
    <3>1. CASE j \in DOMAIN table
      <4>1. i \in DOMAIN table
        <5>1. i \notin DOMAIN table => j < i  BY <2>1, <3>1
        <5> QED  BY <2>2, <2>3, <5>1
      <4> QED  BY <1>0, <2>1, <2>3, <3>1, <4>1
    <3>2. CASE j \notin DOMAIN table  BY <1>0, <2>1, <2>2, <3>2
    <3> QED  BY <3>1, <3>2
  <2> QED  BY <1>0, <2>1, <2>2, <2>3 DEF TableOK
<1>3. ASSUME NEW i \in DOMAIN table, Turn(i) \/ Delete(i) PROVE TableOK'
  <2>1. sales' = sales /\ changes' = changes + 1 /\ changes' \in Nat  BY <1>0, <1>3 DEF Turn, Delete
  <2>2. table' = [table EXCEPT ![i].mine = ~ @] \/ table' = [table EXCEPT ![i].live = FALSE]
    BY <1>3 DEF Turn, Delete
  <2>3. DOMAIN table' = DOMAIN table /\ \A j \in DOMAIN table : table[j] \in Row  BY <1>0, <2>2
  <2>4. \A j \in DOMAIN table : table'[j].sale = table[j].sale /\ table'[j] \in Row
    <3> SUFFICES ASSUME NEW j \in DOMAIN table
                 PROVE  table'[j].sale = table[j].sale /\ table'[j] \in Row
      OBVIOUS
    <3>1. CASE j # i
      <4>1. table'[j] = table[j]  BY <2>2, <3>1
      <4> QED  BY <2>3, <4>1
    <3>2. CASE j = i
      <4>1. table'[j] = [table[j] EXCEPT !.mine = ~ @] \/ table'[j] = [table[j] EXCEPT !.live = FALSE]
        BY <2>2, <3>2
      <4>2. table[j] \in Row  BY <2>3
      <4> QED  BY <4>1, <4>2 DEF Row
    <3> QED  BY <3>1, <3>2
  <2>5. table' \in Seq(Row)
    <3>1. PICK m \in Nat : DOMAIN table = 1..m  BY <1>0
    <3>2. table' = [j \in 1..m |-> table'[j]]  BY <2>2, <2>3, <3>1
    <3>3. table' \in [1..m -> Row]  BY <2>3, <2>4, <3>1, <3>2
    <3> QED  BY <3>3
  <2> QED  BY <1>0, <2>1, <2>3, <2>4, <2>5 DEF TableOK
<1> QED
  BY <1>1, <1>2, <1>3 DEF ReportNext, reportVars, BeginDump, DumpPage, EndDump, DumpFails,
     BeginList, ReadIds, ReadCount, ReadRows, Reply

\* The steps that leave the report alone, but for a row that leaves it.
LEMMA ChangesKeepTypes ==
  ASSUME ReportTypeOK, TableOK', rd' = [rd EXCEPT !.left = rd'.left], rd'.left \in BOOLEAN
  PROVE  ReportTypeOK'
<1>1. rd \in Report /\ IsFiniteSet(rd.ids) /\ StepOK  BY DEF ReportTypeOK
<1>2. rd' \in Report  BY <1>1 DEF Report
<1>3. /\ rd'.kind = rd.kind /\ rd'.at = rd.at /\ rd'.fit = rd.fit /\ rd'.count = rd.count
      /\ rd'.out = rd.out /\ rd'.page = rd.page /\ rd'.ids = rd.ids
  BY <1>1 DEF Report
<1>4. StepOK'  BY <1>1, <1>3 DEF StepOK
<1>5. IsFiniteSet(rd.ids)'  BY <1>1, <1>3
<1> QED  BY <1>2, <1>4, <1>5 DEF ReportTypeOK

\* A page of a dump keeps the types.
LEMMA DumpPageKeepsTypes == ASSUME ReportTypeOK, TableOK', DumpPage PROVE ReportTypeOK'
<1>1. rd \in Report /\ IsFiniteSet(rd.ids) /\ StepOK /\ table \in Seq(Row)
  BY DEF ReportTypeOK, TableOK
<1>2. Snapshot \in Seq(Row)  BY <1>1 DEF Snapshot, Report
<1>3. rd.page \in Nat \ {0} /\ rd.kind \in ReportKinds /\ rd.out \in SUBSET (Nat \cup PrintedLine)
  BY <1>1 DEF Report
<1>4. rd.at = "dump" /\ rd.kind \in Dumps  BY <1>1 DEF DumpPage, StepOK
<1>01. PICK rows \in Pages(Snapshot, rd.page) :
         rd' = [rd EXCEPT !.page = @ + 1, !.size = Cardinality(rows),
                          !.view = IF rd.page = 1 THEN table ELSE @,
                          !.out  = @ \cup {Line(Snapshot, rd.page, rows, i) : i \in {i \in rows : Snapshot[i].mine}}]
  BY DEF DumpPage
<1>5. rows \subseteq Selected(Snapshot) /\ Cardinality(rows) \in Nat  BY <1>2, PagesAreSelected
<1>6. rows \subseteq DOMAIN Snapshot /\ rows \subseteq Nat  BY <1>2, <1>4, <1>5, SelectedAre, RowsAreFinite
<1>02. PICK more : more = {Line(Snapshot, rd.page, rows, i) : i \in {i \in rows : Snapshot[i].mine}}  OBVIOUS
<1>7. \A i \in rows : Line(Snapshot, rd.page, rows, i) \in PrintedLine
  <2> SUFFICES ASSUME NEW i \in rows PROVE Line(Snapshot, rd.page, rows, i) \in PrintedLine  OBVIOUS
  <2>1. Snapshot[i] \in Row  BY <1>2, <1>6
  <2>2. (IF Snapshot[i].cut THEN {Snapshot[i].sale} ELSE {}) \in SUBSET Nat  BY <2>1 DEF Row
  <2>3. Line(Snapshot, rd.page, rows, i)
           = [id |-> i, page |-> rd.page,
              discounts |-> IF Snapshot[i].cut THEN {Snapshot[i].sale} ELSE {}]
    BY <1>6, LinesAre
  <2>4. i \in Nat /\ rd.page \in Nat  BY <1>3, <1>6
  <2> QED  BY <2>2, <2>3, <2>4 DEF PrintedLine
<1>8. rd.out \cup more \in SUBSET (Nat \cup PrintedLine)  BY <1>3, <1>7, <1>02
<1>9. (IF rd.page = 1 THEN table ELSE rd.view) \in Seq(Row)  BY <1>1 DEF Report
<1>10. rd' = [rd EXCEPT !.page = rd.page + 1, !.size = Cardinality(rows),
                        !.view = IF rd.page = 1 THEN table ELSE rd.view, !.out = rd.out \cup more]
  BY <1>01, <1>02
<1>11. rd.page + 1 \in Nat \ {0}  BY <1>3
<1>12. rd' \in Report  BY <1>1, <1>5, <1>8, <1>9, <1>10, <1>11 DEF Report
<1>13. rd'.at = rd.at /\ rd'.kind = rd.kind /\ rd'.ids = rd.ids  BY <1>1, <1>10 DEF Report
<1>14. StepOK'  BY <1>4, <1>13 DEF StepOK
<1> QED  BY <1>1, <1>12, <1>13, <1>14 DEF ReportTypeOK

\* The other statements of a report.
LEMMA ReportsKeepTypes ==
  ASSUME ReportTypeOK, TableOK',
         BeginDump \/ EndDump \/ DumpFails \/ BeginList \/ ReadIds \/ ReadCount \/ ReadRows \/ Reply
  PROVE  ReportTypeOK'
<1>1. rd \in Report /\ IsFiniteSet(rd.ids) /\ StepOK /\ table \in Seq(Row)
  BY DEF ReportTypeOK, TableOK
<1>2. /\ rd.kind \in ReportKinds /\ rd.page \in Nat \ {0} /\ rd.size \in Nat /\ rd.view \in Seq(Row)
      /\ rd.out \in SUBSET (Nat \cup PrintedLine) /\ rd.ids \in SUBSET Nat
      /\ rd.count \in Nat \cup {-1} /\ rd.rows \in SUBSET Nat /\ rd.fit \in Nat \cup {-1}
      /\ rd.start \in SUBSET Nat /\ rd.left \in BOOLEAN
  BY <1>1 DEF Report
<1>3. IsFiniteSet(Selected(table)) /\ Selected(table) \in SUBSET Nat /\ Cardinality(Selected(table)) \in Nat
  BY <1>1, SelectedAre, FS_CardinalityType
<1>4. Wanted(table) \in SUBSET Nat  BY <1>1, RowsAreFinite DEF Wanted
<1>5. \A rows \in Pages(table, rd.page) : rows \in SUBSET Nat /\ IsFiniteSet(rows)
  BY <1>1, PagesAreSelected
<1>6. CASE BeginDump
  <2>1. PICK size \in Nat : rd' = [rd EXCEPT !.at = "dump", !.size = size]
    BY <1>6, SmallFirst DEF BeginDump
  <2>2. rd' \in Report  BY <1>1, <2>1 DEF Report
  <2>3. rd'.at = "dump" /\ rd'.kind = rd.kind /\ rd'.ids = rd.ids  BY <1>1, <2>1 DEF Report
  <2>4. StepOK'  BY <1>6, <2>3 DEF StepOK, BeginDump
  <2> QED  BY <1>1, <2>2, <2>3, <2>4 DEF ReportTypeOK
<1>7. CASE EndDump
  <2>1. PICK view \in Seq(Row) : rd' = [rd EXCEPT !.at = "done", !.view = view]
    BY <1>1, <1>2, <1>7 DEF EndDump
  <2>2. rd' \in Report  BY <1>1, <2>1 DEF Report
  <2>3. rd'.at = "done" /\ rd'.ids = rd.ids  BY <1>1, <2>1 DEF Report
  <2>4. StepOK'  BY <2>3 DEF StepOK
  <2> QED  BY <1>1, <2>2, <2>3, <2>4 DEF ReportTypeOK
<1>8. CASE DumpFails
  <2>1. rd' = [NoReport EXCEPT !.kind = rd.kind, !.at = "failed"]  BY <1>8 DEF DumpFails
  <2>2. rd' = [kind |-> rd.kind, at |-> "failed", page |-> 1, size |-> 0, view |-> <<>>, out |-> {},
               ids |-> {}, count |-> -1, rows |-> {}, fit |-> -1, start |-> {}, left |-> FALSE]
    BY <2>1 DEF NoReport
  <2>3. <<>> \in Seq(Row)  OBVIOUS
  <2>4. rd' \in Report  BY <1>2, <2>2, <2>3 DEF Report
  <2>5. /\ rd'.at = "failed" /\ rd'.out = {} /\ rd'.page = 1 /\ rd'.fit = -1 /\ rd'.count = -1
        /\ rd'.ids = {}
    BY <2>2
  <2>6. StepOK'  BY <2>5 DEF StepOK
  <2>7. IsFiniteSet(rd.ids)'  BY <2>5, FS_EmptySet
  <2> QED  BY <2>4, <2>6, <2>7 DEF ReportTypeOK
<1>9. CASE BeginList
  <2>1. rd' = [rd EXCEPT !.at = FirstRead, !.start = Wanted(table)] /\ rd.at = "idle" /\ rd.kind \notin Dumps
    BY <1>9 DEF BeginList
  <2>2. FirstRead = IF rd.kind \in ByIds THEN "ids" ELSE "page"  BY DEF FirstRead
  <2>3. rd' \in Report  BY <1>1, <1>4, <2>1, <2>2 DEF Report
  <2>4. /\ rd'.at = FirstRead /\ rd'.kind = rd.kind /\ rd'.ids = rd.ids
        /\ rd'.fit = rd.fit /\ rd'.count = rd.count
    BY <1>1, <2>1 DEF Report
  <2>5. StepOK'  BY <1>1, <2>1, <2>2, <2>4 DEF StepOK
  <2> QED  BY <1>1, <2>3, <2>4, <2>5 DEF ReportTypeOK
<1>10. CASE ReadIds
  <2>1. PICK rows \in Pages(table, rd.page) : rd' = [rd EXCEPT !.at = "page", !.ids = rows]
    BY <1>10 DEF ReadIds
  <2>2. rd' \in Report  BY <1>1, <1>5, <2>1 DEF Report
  <2>3. rd'.at = "page" /\ rd'.kind = rd.kind /\ rd'.ids = rows  BY <1>1, <2>1 DEF Report
  <2>4. StepOK'  BY <1>1, <1>10, <2>3 DEF StepOK, ReadIds
  <2> QED  BY <1>5, <2>2, <2>3, <2>4 DEF ReportTypeOK
<1>11. CASE ReadCount
  <2>1. rd.at = "page" /\ rd' = [rd EXCEPT !.count = Cardinality(Selected(table))]  BY <1>11 DEF ReadCount
  <2>2. rd' \in Report  BY <1>1, <1>3, <2>1 DEF Report
  <2>3. rd'.at = rd.at /\ rd'.kind = rd.kind /\ rd'.ids = rd.ids  BY <1>1, <2>1 DEF Report
  <2>4. StepOK'  BY <1>1, <2>1, <2>3 DEF StepOK
  <2> QED  BY <1>1, <2>2, <2>3, <2>4 DEF ReportTypeOK
<1>12. CASE ReadRows
  <2>1. PICK rows \in PageOfRows : rd' = [rd EXCEPT !.rows = rows, !.fit = Cardinality(Selected(table))]
    BY <1>12 DEF ReadRows
  <2>2. rows \in SUBSET Nat  BY <1>3, <1>5 DEF PageOfRows
  <2>3. rd' \in Report  BY <1>1, <1>3, <2>1, <2>2 DEF Report
  <2>4. rd'.at = rd.at /\ rd'.kind = rd.kind /\ rd'.ids = rd.ids  BY <1>1, <2>1 DEF Report
  <2>5. StepOK'  BY <1>1, <1>12, <2>4 DEF StepOK, ReadRows
  <2> QED  BY <1>1, <2>3, <2>4, <2>5 DEF ReportTypeOK
<1>13. CASE Reply
  <2>0. PICK last : last = IsLast  OBVIOUS
  <2>1. rd.at = "page" /\ rd' = [rd EXCEPT !.out = @ \cup rd.rows, !.rows = {}, !.ids = {},
                                   !.at = IF last THEN "done" ELSE FirstRead,
                                   !.page = IF last THEN @ ELSE @ + 1,
                                   !.count = IF last THEN @ ELSE -1,
                                   !.fit = IF last THEN @ ELSE -1]
    BY <1>13, <2>0 DEF Reply
  <2>2. FirstRead = IF rd.kind \in ByIds THEN "ids" ELSE "page"  BY DEF FirstRead
  <2>3. /\ rd.out \cup rd.rows \in SUBSET (Nat \cup PrintedLine)
        /\ (IF last THEN rd.page ELSE rd.page + 1) \in Nat \ {0}
        /\ (IF last THEN rd.count ELSE -1) \in Nat \cup {-1}
        /\ (IF last THEN rd.fit ELSE -1) \in Nat \cup {-1}
        /\ (IF last THEN "done" ELSE FirstRead) \in {"idle", "dump", "ids", "page", "done", "failed"}
    BY <1>2, <2>2
  <2>4. rd' \in Report  BY <1>1, <2>1, <2>3 DEF Report
  <2>5. /\ rd'.at = IF last THEN "done" ELSE FirstRead
        /\ rd'.kind = rd.kind /\ rd'.ids = {}
        /\ ~ last => rd'.fit = -1 /\ rd'.count = -1
    BY <1>1, <2>1 DEF Report
  <2>6. rd.kind \notin Dumps  BY <1>1, <2>1 DEF StepOK
  <2>7. StepOK'  BY <2>2, <2>5, <2>6 DEF StepOK
  <2>8. IsFiniteSet(rd.ids)'  BY <2>5, FS_EmptySet
  <2> QED  BY <2>4, <2>7, <2>8 DEF ReportTypeOK
<1> QED  BY <1>6, <1>7, <1>8, <1>9, <1>10, <1>11, <1>12, <1>13

\* Every step keeps the types, and says how far a report of each kind can be.
LEMMA NextReportTypeOK == ReportTypeOK /\ [ReportNext]_reportVars => ReportTypeOK'
<1> SUFFICES ASSUME ReportTypeOK, [ReportNext]_reportVars PROVE ReportTypeOK'  OBVIOUS
<1>1. TableOK'  BY NextTableOK DEF ReportTypeOK
<1>2. rd \in Report  BY DEF ReportTypeOK
<1>3. rd = [rd EXCEPT !.left = rd.left] /\ rd.left \in BOOLEAN  BY <1>2 DEF Report
<1>4. CASE rd' = rd  BY <1>1, <1>3, <1>4, ChangesKeepTypes
<1>5. ASSUME NEW i \in DOMAIN table, Turn(i) \/ Delete(i) PROVE ReportTypeOK'
  <2>1. \E left \in BOOLEAN : rd' = [rd EXCEPT !.left = left]  BY <1>3, <1>5 DEF Turn, Delete
  <2>2. rd' = [rd EXCEPT !.left = rd'.left] /\ rd'.left \in BOOLEAN  BY <1>2, <2>1 DEF Report
  <2> QED  BY <1>1, <2>2, ChangesKeepTypes
<1>6. ASSUME NEW n \in 1..2, NEW ours \in [1..n -> BOOLEAN], NEW cut \in [1..n -> BOOLEAN], Add(n, ours, cut)
      PROVE  ReportTypeOK'
  BY <1>4, <1>6 DEF Add
<1> QED
  BY <1>1, <1>4, <1>5, <1>6, DumpPageKeepsTypes, ReportsKeepTypes DEF ReportNext, reportVars

\* Nothing but the steps of a dump matters to it.
LEMMA DumpIsUntouched ==
  ASSUME DumpInv, UNCHANGED <<rd.kind, rd.at, rd.view, rd.out, rd.page, rd.size>>
  PROVE  DumpInv'
BY DEF DumpInv

\* A page of a dump is read from the snapshot, and goes out whole.
LEMMA DumpPageKeepsDump ==
  ASSUME ReportTypeOK, DumpInv, DumpPage
  PROVE  DumpInv'
<1>1. rd \in Report /\ StepOK /\ table \in Seq(Row)  BY DEF ReportTypeOK, TableOK
<1>2. /\ rd.page \in Nat \ {0} /\ rd.kind \in ReportKinds /\ rd.view \in Seq(Row)
      /\ Snapshot \in Seq(Row)
  BY <1>1 DEF Report, Snapshot
<1>3. rd.at = "dump" /\ rd.kind \in Dumps  BY <1>1 DEF DumpPage, StepOK
<1>01. PICK rows \in Pages(Snapshot, rd.page) :
         rd' = [rd EXCEPT !.page = @ + 1, !.size = Cardinality(rows),
                          !.view = IF rd.page = 1 THEN table ELSE @,
                          !.out  = @ \cup {Line(Snapshot, rd.page, rows, i) : i \in {j \in rows : Snapshot[j].mine}}]
  BY DEF DumpPage
<1>4. PagesAreOut(rd.kind, Snapshot, rd.out, rd.page, rd.size)
  <2>1. PagesAreOut(rd.kind, rd.view, rd.out, rd.page, rd.size)  BY <1>3 DEF DumpInv
  <2>2. CASE rd.page = 1
    <3>1. rd.out = {} /\ (rd.kind # "dump" => rd.size = PerPage)  BY <2>1, <2>2 DEF PagesAreOut
    <3>2. PagesAreOut(rd.kind, Snapshot, {}, 1, rd.size)  BY <1>2, <3>1, NothingIsOut
    <3> QED  BY <2>2, <3>1, <3>2
  <2>3. CASE rd.page # 1  BY <2>1, <2>3 DEF Snapshot
  <2> QED  BY <2>2, <2>3
<1>5. Selected(Snapshot) = Picked(rd.kind, Snapshot)  BY <1>2, <1>3, SelectedAre
<1>6. Picked(rd.kind, Snapshot) \subseteq DOMAIN Snapshot  BY <1>2, PickedAre
<1>7. ById(rd.kind, Picked(rd.kind, Snapshot), Snapshot)
  BY <1>3 DEF ById, Before, Dumps
<1>8. /\ rows = PageRows(rd.kind, Snapshot, rd.page)
      /\ Cardinality(rows) \in Nat
      /\ Cardinality(rows) < PerPage =>
           \A i \in Picked(rd.kind, Snapshot) : Rank(rd.kind, Picked(rd.kind, Snapshot), i) < PerPage * rd.page
  BY <1>2, <1>5, <1>6, <1>7, PagesAre DEF PageRows
<1>02. PICK more : more = {Line(Snapshot, rd.page, rows, i) : i \in {j \in rows : Snapshot[j].mine}}  OBVIOUS
<1>9. PagesAreOut(rd.kind, Snapshot, rd.out \cup PageLines(Snapshot, rd.page, rows),
                  rd.page + 1, Cardinality(rows))
  BY <1>2, <1>4, <1>8, PageGoesOut
<1>10. PagesAreOut(rd.kind, Snapshot, rd.out \cup more, rd.page + 1, Cardinality(rows))
  BY <1>9, <1>02 DEF PageLines
<1>11. rd' = [rd EXCEPT !.page = rd.page + 1, !.size = Cardinality(rows),
                        !.view = Snapshot, !.out = rd.out \cup more]
  BY <1>01, <1>02 DEF Snapshot
<1>12. /\ rd'.kind = rd.kind /\ rd'.at = rd.at /\ rd'.page = rd.page + 1 /\ rd'.size = Cardinality(rows)
       /\ rd'.view = Snapshot /\ rd'.out = rd.out \cup more
  BY <1>1, <1>11 DEF Report
<1> QED  BY <1>3, <1>10, <1>12 DEF DumpInv

\* Every step keeps what is known of a dump: what is out of it is the pages before this one.
LEMMA NextDumpInv == ReportTypeOK /\ DumpInv /\ [ReportNext]_reportVars => DumpInv'
<1> SUFFICES ASSUME ReportTypeOK, DumpInv, [ReportNext]_reportVars PROVE DumpInv'  OBVIOUS
<1>1. rd \in Report /\ StepOK /\ table \in Seq(Row)  BY DEF ReportTypeOK, TableOK
<1>2. rd.view \in Seq(Row) /\ rd.size \in Nat /\ rd.page \in Nat \ {0}  BY <1>1 DEF Report
<1>3. CASE rd' = rd  BY <1>3, DumpIsUntouched
<1>4. ASSUME NEW i \in DOMAIN table, Turn(i) \/ Delete(i) PROVE DumpInv'
  <2>1. PICK left \in BOOLEAN : rd' = [rd EXCEPT !.left = left]
    BY <1>1, <1>4 DEF Turn, Delete, Report
  <2>2. UNCHANGED <<rd.kind, rd.at, rd.view, rd.out, rd.page, rd.size>>  BY <1>1, <2>1 DEF Report
  <2> QED  BY <2>2, DumpIsUntouched
<1>5. ASSUME NEW n \in 1..2, NEW ours \in [1..n -> BOOLEAN], NEW cut \in [1..n -> BOOLEAN], Add(n, ours, cut)
      PROVE  DumpInv'
  BY <1>3, <1>5 DEF Add
<1>6. CASE BeginDump
  <2>1. PICK size \in Nat : /\ rd' = [rd EXCEPT !.at = "dump", !.size = size]
                            /\ rd.kind # "dump" => size = PerPage
    BY <1>6, SmallFirst DEF BeginDump
  <2>2. rd.out = {} /\ rd.page = 1  BY <1>1, <1>6 DEF BeginDump, StepOK
  <2>3. /\ rd'.kind = rd.kind /\ rd'.at = "dump" /\ rd'.view = rd.view /\ rd'.out = rd.out
        /\ rd'.page = rd.page /\ rd'.size = size
    BY <1>1, <2>1 DEF Report
  <2>4. PagesAreOut(rd.kind, rd.view, {}, 1, size)  BY <1>2, <2>1, NothingIsOut
  <2> QED  BY <2>2, <2>3, <2>4 DEF DumpInv
<1>7. CASE EndDump
  <2>1. rd.at = "dump" /\ rd.size < PerPage /\ rd.kind \in Dumps  BY <1>1, <1>7 DEF EndDump, StepOK
  <2>2. PICK view \in Seq(Row) : /\ view = IF rd.page = 1 THEN table ELSE rd.view
                                 /\ rd' = [rd EXCEPT !.at = "done", !.view = view]
    BY <1>1, <1>2, <1>7 DEF EndDump
  <2>3. /\ rd'.kind = rd.kind /\ rd'.at = "done" /\ rd'.view = view /\ rd'.out = rd.out
        /\ rd'.page = rd.page /\ rd'.size = rd.size
    BY <1>1, <2>2 DEF Report
  <2>4. PagesAreOut(rd.kind, rd.view, rd.out, rd.page, rd.size)  BY <2>1 DEF DumpInv
  <2>5. PagesAreOut(rd.kind, view, rd.out, rd.page, rd.size)
    <3>1. CASE rd.page = 1
      <4>1. rd.out = {} /\ (rd.kind # "dump" => rd.size = PerPage)  BY <2>4, <3>1 DEF PagesAreOut
      <4>2. PagesAreOut(rd.kind, view, {}, 1, rd.size)  BY <4>1, NothingIsOut
      <4> QED  BY <3>1, <4>1, <4>2
    <3>2. CASE rd.page # 1  BY <2>2, <2>4, <3>2
    <3> QED  BY <3>1, <3>2
  <2> QED  BY <2>1, <2>3, <2>5 DEF DumpInv
<1>8. CASE DumpFails
  <2>1. rd'.at = "failed"
    <3>1. rd' = [NoReport EXCEPT !.kind = rd.kind, !.at = "failed"]  BY <1>8 DEF DumpFails
    <3> QED  BY <3>1 DEF NoReport
  <2> QED  BY <2>1 DEF DumpInv
<1>9. CASE BeginList \/ ReadIds \/ ReadCount \/ ReadRows \/ Reply
  <2>1. rd.kind \notin Dumps  BY <1>1, <1>9 DEF BeginList, ReadIds, ReadCount, ReadRows, Reply, StepOK
  <2>2. rd'.kind = rd.kind
    <3>1. CASE BeginList  BY <1>1, <3>1 DEF BeginList, Report
    <3>2. CASE ReadIds  BY <1>1, <3>2 DEF ReadIds, Report
    <3>3. CASE ReadCount  BY <1>1, <3>3 DEF ReadCount, Report
    <3>4. CASE ReadRows  BY <1>1, <3>4 DEF ReadRows, Report
    <3>5. CASE Reply  BY <1>1, <3>5 DEF Reply, Report
    <3> QED  BY <1>9, <3>1, <3>2, <3>3, <3>4, <3>5
  <2> QED  BY <2>1, <2>2 DEF DumpInv
<1> QED
  BY <1>3, <1>4, <1>5, <1>6, <1>7, <1>8, <1>9, DumpPageKeepsDump DEF ReportNext, reportVars

\* What is out of a dump that has ended is all of it, each row on one line.
LEMMA DumpsAreSnapshots == ReportTypeOK /\ DumpInv => DumpIsASnapshot /\ LinesNameTheirDiscount
<1> SUFFICES ASSUME ReportTypeOK, DumpInv PROVE DumpIsASnapshot /\ LinesNameTheirDiscount  OBVIOUS
<1>1. rd \in Report /\ StepOK  BY DEF ReportTypeOK
<1>2. rd.view \in Seq(Row) /\ rd.size \in Nat /\ rd.page \in Nat \ {0}  BY <1>1 DEF Report
<1>3. ASSUME rd.kind \in Dumps, rd.at \in {"dump", "done"}
      PROVE  \A l \in rd.out :
               l = [id |-> l.id, page |-> l.page,
                    discounts |-> IF rd.view[l.id].cut THEN {rd.view[l.id].sale} ELSE {}]
  BY <1>3 DEF DumpInv, PagesAreOut
<1>4. ASSUME rd.at = "done", rd.kind \in {"csv", "stream"} PROVE Complete
  <2>1. rd.kind \in Dumps /\ rd.kind # "dump"  BY <1>4 DEF Dumps
  <2>2. PagesAreOut(rd.kind, rd.view, rd.out, rd.page, rd.size) /\ rd.size < PerPage
    BY <1>4, <2>1 DEF DumpInv
  <2>3. rd.page > 1
    <3>1. rd.page = 1 => rd.size = PerPage  BY <2>1, <2>2 DEF PagesAreOut
    <3> QED  BY <1>2, <2>2, <3>1, SmallFirst
  <2>4. \A i \in Picked(rd.kind, rd.view) : Rank(rd.kind, Picked(rd.kind, rd.view), i) < PerPage * (rd.page - 1)
    BY <2>2, <2>3 DEF PagesAreOut
  <2>5. {l.id : l \in rd.out}
         = {i \in Picked(rd.kind, rd.view) :
              rd.view[i].mine /\ Rank(rd.kind, Picked(rd.kind, rd.view), i) < PerPage * (rd.page - 1)}
    BY <2>2 DEF PagesAreOut
  <2>6. Wanted(rd.view) = {i \in Picked(rd.kind, rd.view) : rd.view[i].mine}  BY <1>2, PickedAre
  <2>7. {l.id : l \in rd.out} = Wanted(rd.view)
    <3>1. \A i : i \in Wanted(rd.view) <=> i \in {l.id : l \in rd.out}  BY <2>4, <2>5, <2>6
    <3> QED  BY <3>1
  <2>8. ASSUME NEW l \in rd.out, NEW m \in rd.out, l.id = m.id PROVE l = m
    <3>1. /\ l.page \in Nat \ {0} /\ m.page \in Nat \ {0}
          /\ Rank(rd.kind, Picked(rd.kind, rd.view), l.id) \in (PerPage * (l.page - 1))..(PerPage * l.page - 1)
          /\ Rank(rd.kind, Picked(rd.kind, rd.view), l.id) \in (PerPage * (m.page - 1))..(PerPage * m.page - 1)
      BY <2>2, <2>8 DEF PagesAreOut
    <3>2. Rank(rd.kind, Picked(rd.kind, rd.view), l.id) \in Int  BY <1>2, PickedAre
    <3>3. l.page = m.page  BY <3>1, <3>2, OnePagePerRank
    <3> QED  BY <1>3, <1>4, <2>1, <2>8, <3>3
  <2> QED  BY <2>7, <2>8 DEF Complete
<1>5. ASSUME rd.kind = "csv", NEW l \in rd.out
      PROVE  l.discounts = (IF rd.view[l.id].cut THEN {rd.view[l.id].sale} ELSE {})
  <2>1. rd.kind \in Dumps  BY <1>5 DEF Dumps
  <2>2. rd.at \in {"dump", "done"}
    <3>1. rd.at \in {"idle", "dump", "ids", "page", "done", "failed"}  BY <1>1 DEF Report
    <3> QED  BY <1>1, <1>5, <2>1, <3>1 DEF StepOK
  <2>3. l = [id |-> l.id, page |-> l.page,
             discounts |-> IF rd.view[l.id].cut THEN {rd.view[l.id].sale} ELSE {}]
    BY <1>3, <2>1, <2>2
  <2> QED  BY <2>3
<1> QED  BY <1>4, <1>5 DEF DumpIsASnapshot, LinesNameTheirDiscount

\* Rows that join a selection never move one of its rows to an earlier page.
LEMMA RanksOnlyGrow ==
  ASSUME NEW kind, NEW ids, NEW more, ids \subseteq more, IsFiniteSet(more), NEW i
  PROVE  Rank(kind, ids, i) <= Rank(kind, more, i)
<1>1. Front(kind, ids, i) \subseteq Front(kind, more, i)  BY DEF Front
<1>2. IsFiniteSet(Front(kind, more, i))  BY RanksAreNumbers
<1> QED  BY <1>1, <1>2, FS_Subset DEF Rank

\* What a client has seen of the first n places it has seen of them when rows have joined.
LEMMA SeenStays ==
  ASSUME NEW start, NEW ids, NEW more, ids \subseteq more, IsFiniteSet(more), NEW out, NEW n \in Nat,
         Seen(start, ids, out, n)
  PROVE  Seen(start, more, out, n)
<1> SUFFICES ASSUME NEW i \in start, Rank("list", more, i) < n PROVE i \in out  BY DEF Seen
<1>1. IsFiniteSet(ids)  BY FS_Subset
<1>2. Rank("list", ids, i) \in Nat /\ Rank("list", more, i) \in Nat  BY <1>1, RanksAreNumbers
<1>3. Rank("list", ids, i) <= Rank("list", more, i)  BY RanksOnlyGrow
<1>4. Rank("list", ids, i) < n  BY <1>2, <1>3
<1> QED  BY <1>4 DEF Seen

\* The rows a page shows, in terms of how many come before them; what it says of the others.
ShowsPage(ids, rows, page) ==
  /\ rows = {i \in ids : Rank("list", ids, i) \in (PerPage * (page - 1))..(PerPage * page - 1)}
  /\ Cardinality(rows) \in Nat /\ Cardinality(ids) \in Nat
  /\ Cardinality(rows) < PerPage => \A i \in ids : Rank("list", ids, i) < PerPage * page
  /\ \A i \in ids : Rank("list", ids, i) \in 0..(Cardinality(ids) - 1)

\* A client that adds a page to what it has seen of the pages before it has seen the places of
\* both, and every row it looks for if the page is not full or the total says it is the last.
LEMMA ShownIsSeen ==
  ASSUME NEW start, NEW ids, NEW out, NEW rows, NEW page \in Nat \ {0}, start \subseteq ids,
         Seen(start, ids, out, PerPage * (page - 1)), ShowsPage(ids, rows, page)
  PROVE  /\ Seen(start, ids, out \cup rows, PerPage * page)
         /\ Cardinality(rows) < PerPage \/ Cardinality(ids) <= PerPage * page =>
              start \subseteq out \cup rows
<1> PICK low \in Nat : low = PerPage * (page - 1)  BY PageBounds
<1> PICK high \in Nat : high = PerPage * page  BY PageBounds
<1>1. \A i \in ids : Rank("list", ids, i) \in Nat  BY DEF ShowsPage
<1>2. Seen(start, ids, out \cup rows, PerPage * page)
  <2> SUFFICES ASSUME NEW i \in start, Rank("list", ids, i) < high PROVE i \in out \cup rows  BY DEF Seen
  <2>1. CASE Rank("list", ids, i) < low  BY <2>1 DEF Seen
  <2>2. CASE ~ (Rank("list", ids, i) < low)
    <3>1. Rank("list", ids, i) \in low..(high - 1)  BY <1>1, <2>2
    <3> QED  BY <3>1 DEF ShowsPage
  <2> QED  BY <2>1, <2>2
<1>3. ASSUME Cardinality(rows) < PerPage \/ Cardinality(ids) <= PerPage * page
      PROVE  start \subseteq out \cup rows
  <2>1. \A i \in ids : Rank("list", ids, i) < PerPage * page
    <3>1. CASE Cardinality(rows) < PerPage  BY <3>1 DEF ShowsPage
    <3>2. CASE Cardinality(ids) <= high
      <4>1. \A i \in ids : Rank("list", ids, i) \in 0..(Cardinality(ids) - 1) /\ Cardinality(ids) \in Nat
        BY DEF ShowsPage
      <4>2. \A i \in ids : Rank("list", ids, i) < high  BY <3>2, <4>1
      <4> QED  BY <4>2
    <3> QED  BY <1>3, <3>1, <3>2
  <2> QED  BY <1>2, <2>1 DEF Seen
<1> QED  BY <1>2, <1>3

\* The first page has all rows of a selection that fits it.
LEMMA FirstPageIsAll ==
  ASSUME NEW ids, NEW rows, ShowsPage(ids, rows, 1), Cardinality(ids) <= PerPage
  PROVE  ids \subseteq rows
<1>1. PerPage * (1 - 1) = 0 /\ PerPage * 1 - 1 = PerPage - 1  BY SmallFirst
<1>2. rows = {i \in ids : Rank("list", ids, i) \in 0..(PerPage - 1)}  BY <1>1 DEF ShowsPage
<1>3. \A i \in ids : Rank("list", ids, i) \in 0..(Cardinality(ids) - 1) /\ Cardinality(ids) \in Nat
  BY DEF ShowsPage
<1>4. \A i \in ids : Rank("list", ids, i) \in 0..(PerPage - 1)  BY <1>3, SmallFirst
<1> QED  BY <1>2, <1>4

\* What the queries of a list select, and that their pages are in the order of the ids.
LEMMA ListsShowPages ==
  ASSUME ReportTypeOK, rd.kind \notin Dumps, rd.kind = "transactions" => ~ Ties,
         rd.at # "page" \/ rd.kind # "history",
         NEW rows \in Pages(table, rd.page)
  PROVE  ShowsPage(Selected(table), rows, rd.page)
<1>1. rd \in Report /\ table \in Seq(Row) /\ TableOK  BY DEF ReportTypeOK, TableOK
<1>2. rd.page \in Nat \ {0}  BY <1>1 DEF Report
<1>3. Selected(table) \subseteq DOMAIN table  BY <1>1, SelectedAre
<1>4. rd.kind # "stream"  BY DEF Dumps
<1>5. ById("list", Selected(table), table)
  <2>1. CASE rd.kind # "transactions"  BY <1>4, <2>1 DEF ById, Before
  <2>2. CASE rd.kind = "transactions"
    <3>1. Selected(table) = Wanted(table)  BY <1>1, <2>2 DEF Selected, ReportTypeOK, StepOK, ByIds
    <3>2. ASSUME NEW a \in Wanted(table), NEW b \in Wanted(table), a # b, Before(table, a, b) PROVE a > b
      <4>1. a \in DOMAIN table /\ b \in DOMAIN table /\ a \in Int /\ b \in Int  BY <1>1, <1>3, <3>1
      <4>2. table[a].sale \in Int /\ table[b].sale \in Int
        <5>1. table[a] \in Row /\ table[b] \in Row  BY <1>1, <4>1
        <5> QED  BY <5>1 DEF Row
      <4>3. table[a].sale >= table[b].sale  BY <2>2, <3>2 DEF Before
      <4>4. table[a].sale # table[b].sale  BY <2>2, <3>2 DEF Ties
      <4>5. a < b => table[a].sale <= table[b].sale  BY <1>1, <4>1 DEF TableOK
      <4> QED  BY <3>2, <4>1, <4>2, <4>3, <4>4, <4>5
    <3> QED  BY <3>1, <3>2 DEF ById
  <2> QED  BY <2>1, <2>2
<1>6. PICK ids : ids = Selected(table)  OBVIOUS
<1>7. /\ IsFiniteSet(ids) /\ Cardinality(ids) \in Nat
      /\ rows = {i \in ids : Rank("list", ids, i) \in (PerPage * (rd.page - 1))..(PerPage * rd.page - 1)}
      /\ Cardinality(rows) \in Nat
      /\ Cardinality(rows) < PerPage => \A i \in ids : Rank("list", ids, i) < PerPage * rd.page
      /\ \A i \in ids : Rank("list", ids, i) \in 0..(Cardinality(ids) - 1)
  BY <1>1, <1>2, <1>3, <1>5, <1>6, PagesAre
<1> QED  BY <1>6, <1>7 DEF ShowsPage

\* A change of the table leaves a list what it had, if no row of it leaves it.
LEMMA ChangesLetListsGrow ==
  ASSUME ReportTypeOK, ListsInv, rd'.kind = rd.kind, rd'.at = rd.at, rd'.page = rd.page, rd'.out = rd.out,
         rd'.ids = rd.ids, rd'.rows = rd.rows, rd'.count = rd.count, rd'.fit = rd.fit, rd'.start = rd.start,
         rd.at \in {"ids", "page"} /\ ~ rd'.left =>
           ~ rd.left /\ Wanted(table) \subseteq Wanted(table')
           /\ (rd.kind # "list" => OfCompany \subseteq OfCompany')
           /\ \A i \in Wanted(table) : table'[i].sale = table[i].sale,
         IsFiniteSet(Wanted(table')), IsFiniteSet(OfCompany')
  PROVE  ListsInv'
<1> SUFFICES ASSUME rd.at \in {"ids", "page"}, ~ Excused'
             PROVE  IF rd.kind = "admin" THEN AdminInv' ELSE ListInv'
  BY DEF ListsInv
<1>1. ~ rd'.left  BY DEF Excused
<1>2. /\ ~ rd.left /\ Wanted(table) \subseteq Wanted(table')
      /\ rd.kind # "list" => OfCompany \subseteq OfCompany'
      /\ \A i \in Wanted(table) : table'[i].sale = table[i].sale
  BY <1>1
<1>3. rd.kind = "transactions" => ~ Ties
  <2> SUFFICES ASSUME rd.kind = "transactions", Ties PROVE Ties'  BY DEF Excused
  <2>1. PICK i \in Wanted(table), j \in Wanted(table) : i # j /\ table[i].sale = table[j].sale  BY DEF Ties
  <2>2. i \in Wanted(table') /\ j \in Wanted(table') /\ table'[i].sale = table'[j].sale  BY <1>2, <2>1
  <2> QED  BY <2>1, <2>2 DEF Ties
<1>4. rd.kind = "admin" => ~ (Cardinality(OfCompany) > PerPage)
  <2> SUFFICES ASSUME rd.kind = "admin" PROVE ~ (Cardinality(OfCompany) > PerPage)  OBVIOUS
  <2>1. OfCompany \subseteq OfCompany'  BY <1>2
  <2>2. IsFiniteSet(OfCompany) /\ Cardinality(OfCompany) <= Cardinality(OfCompany')  BY <2>1, FS_Subset
  <2>3. Cardinality(OfCompany) \in Nat /\ Cardinality(OfCompany') \in Nat  BY <2>2, FS_CardinalityType
  <2>4. ~ (Cardinality(OfCompany') > PerPage)  BY DEF Excused
  <2> QED  BY <2>2, <2>3, <2>4, SmallFirst
<1>5. ~ Excused  BY <1>2, <1>3, <1>4 DEF Excused
<1>6. CASE rd.kind = "admin"
  <2>1. AdminInv  BY <1>5, <1>6 DEF ListsInv
  <2> QED  BY <1>2, <1>6, <2>1 DEF AdminInv
<1>7. CASE rd.kind # "admin"
  <2>1. ListInv  BY <1>5, <1>7 DEF ListsInv
  <2>2. Listing \subseteq Listing' /\ IsFiniteSet(Listing')  BY <1>2 DEF Listing
  <2>3. rd.page \in Nat \ {0}  BY DEF ReportTypeOK, Report
  <2>4. Seen(rd.start, Listing', rd.out, PerPage * (rd.page - 1))
    <3>1. Seen(rd.start, Listing, rd.out, PerPage * (rd.page - 1))  BY <2>1 DEF ListInv
    <3>2. PerPage * (rd.page - 1) \in Nat  BY <2>3, PageBounds
    <3> QED  BY <2>2, <3>1, <3>2, SeenStays
  <2>5. IsFetched => /\ Seen(rd.start, Listing', rd.out \cup Fetched, PerPage * rd.page)
                     /\ ShownLast => rd.start \subseteq rd.out \cup Fetched
    <3> SUFFICES ASSUME IsFetched
                 PROVE  /\ Seen(rd.start, Listing', rd.out \cup Fetched, PerPage * rd.page)
                        /\ ShownLast => rd.start \subseteq rd.out \cup Fetched
      OBVIOUS
    <3>1. /\ Seen(rd.start, Listing, rd.out \cup Fetched, PerPage * rd.page)
          /\ ShownLast => rd.start \subseteq rd.out \cup Fetched
      BY <2>1 DEF ListInv
    <3>2. PerPage * rd.page \in Nat  BY <2>3, PageBounds
    <3> QED  BY <2>2, <3>1, <3>2, SeenStays
  <2>6. IsFetched' = IsFetched /\ Fetched' = Fetched /\ ShownLast' = ShownLast
    BY DEF IsFetched, Fetched, ShownLast
  <2>7. rd.start \subseteq Listing'  BY <2>1, <2>2 DEF ListInv
  <2>8. rd.kind = "history" /\ rd.fit # -1 => rd.rows = rd.ids  BY <2>1 DEF ListInv
  <2> QED  BY <1>7, <2>4, <2>5, <2>6, <2>7, <2>8 DEF ListInv
<1> QED  BY <1>6, <1>7

\* A row that is added, refunded, reinstated or deleted while a list is read.
LEMMA ChangesKeepLists ==
  ASSUME ReportTypeOK, ReportTypeOK', ListsInv,
         \/ UNCHANGED <<table, rd>>
         \/ \E n \in 1..2 : \E ours, cut \in [1..n -> BOOLEAN] : Add(n, ours, cut)
         \/ \E i \in DOMAIN table : Turn(i) \/ Delete(i)
  PROVE  ListsInv'
<1>1. table \in Seq(Row) /\ table' \in Seq(Row) /\ TableOK /\ rd \in Report /\ StepOK
  BY DEF ReportTypeOK, TableOK
<1>2. IsFiniteSet(Wanted(table')) /\ IsFiniteSet(OfCompany')
  <2>1. IsFiniteSet(DOMAIN table')  BY <1>1, RowsAreFinite
  <2>2. Wanted(table') \subseteq DOMAIN table' /\ OfCompany' \subseteq DOMAIN table'  BY DEF Wanted, OfCompany
  <2> QED  BY <2>1, <2>2, FS_Subset
<1>3. CASE UNCHANGED <<table, rd>>
  <2>1. OfCompany' = OfCompany  BY <1>3 DEF OfCompany
  <2> QED  BY <1>2, <1>3, <2>1, ChangesLetListsGrow
<1>4. ASSUME NEW n \in 1..2, NEW ours \in [1..n -> BOOLEAN], NEW cut \in [1..n -> BOOLEAN], Add(n, ours, cut)
      PROVE  ListsInv'
  <2>1. /\ rd' = rd /\ DOMAIN table \subseteq DOMAIN table'
        /\ \A i \in DOMAIN table : table'[i] = table[i]
    BY <1>1, <1>4, RowsAreAdded
  <2>2. Wanted(table) \subseteq Wanted(table') /\ OfCompany \subseteq OfCompany'
    BY <2>1 DEF Wanted, OfCompany
  <2>3. \A i \in Wanted(table) : table'[i].sale = table[i].sale  BY <2>1 DEF Wanted
  <2> QED  BY <1>2, <2>1, <2>2, <2>3, ChangesLetListsGrow
<1>5. ASSUME NEW t \in DOMAIN table, Turn(t) PROVE ListsInv'
  <2>1. /\ rd.kind \in {"csv", "list"} /\ table' = [table EXCEPT ![t].mine = ~@]
        /\ rd' = [rd EXCEPT !.left = @ \/ (rd.at = "page" /\ table[t].mine)]
    BY <1>5 DEF Turn
  <2>2. /\ rd'.kind = rd.kind /\ rd'.at = rd.at /\ rd'.page = rd.page /\ rd'.out = rd.out
        /\ rd'.ids = rd.ids /\ rd'.rows = rd.rows /\ rd'.count = rd.count /\ rd'.fit = rd.fit
        /\ rd'.start = rd.start /\ rd'.left = (rd.left \/ (rd.at = "page" /\ table[t].mine))
    BY <1>1, <2>1 DEF Report
  <2>3. ASSUME rd.at \in {"ids", "page"}, ~ rd'.left
        PROVE  /\ ~ rd.left /\ Wanted(table) \subseteq Wanted(table') /\ rd.kind = "list"
               /\ \A i \in Wanted(table) : table'[i].sale = table[i].sale
    <3>1. rd.kind = "list" /\ rd.at = "page"  BY <1>1, <2>1, <2>3 DEF StepOK, Dumps, ByIds
    <3>2. ~ rd.left /\ ~ table[t].mine  BY <2>2, <2>3, <3>1
    <3>3. t \notin Wanted(table)  BY <3>2 DEF Wanted
    <3>4. DOMAIN table' = DOMAIN table /\ \A i \in DOMAIN table : i # t => table'[i] = table[i]  BY <1>1, <2>1
    <3> QED  BY <3>1, <3>2, <3>3, <3>4 DEF Wanted
  <2> QED  BY <1>2, <2>2, <2>3, ChangesLetListsGrow
<1>6. ASSUME NEW t \in DOMAIN table, Delete(t) PROVE ListsInv'
  <2>1. /\ table' = [table EXCEPT ![t].live = FALSE]
        /\ rd' = [rd EXCEPT !.left = @ \/ (rd.at \in {"ids", "page"} /\ table[t].mine)]
    BY <1>6 DEF Delete
  <2>2. /\ rd'.kind = rd.kind /\ rd'.at = rd.at /\ rd'.page = rd.page /\ rd'.out = rd.out
        /\ rd'.ids = rd.ids /\ rd'.rows = rd.rows /\ rd'.count = rd.count /\ rd'.fit = rd.fit
        /\ rd'.start = rd.start /\ rd'.left = (rd.left \/ (rd.at \in {"ids", "page"} /\ table[t].mine))
    BY <1>1, <2>1 DEF Report
  <2>3. /\ DOMAIN table' = DOMAIN table
        /\ \A i \in DOMAIN table : i # t => table'[i] = table[i]
        /\ \A i \in DOMAIN table : table'[i].mine = table[i].mine /\ table'[i].sale = table[i].sale
    <3>1. table[t] \in Row  BY <1>1
    <3>2. table'[t] = [table[t] EXCEPT !.live = FALSE]  BY <1>1, <2>1
    <3>3. table'[t].mine = table[t].mine /\ table'[t].sale = table[t].sale  BY <3>1, <3>2 DEF Row
    <3>4. DOMAIN table' = DOMAIN table /\ \A i \in DOMAIN table : i # t => table'[i] = table[i]  BY <1>1, <2>1
    <3> QED  BY <3>3, <3>4
  <2>4. OfCompany \subseteq OfCompany'  BY <2>3 DEF OfCompany
  <2>5. \A i \in Wanted(table) : table'[i].sale = table[i].sale  BY <2>3 DEF Wanted
  <2>6. ASSUME rd.at \in {"ids", "page"}, ~ rd'.left PROVE ~ rd.left /\ Wanted(table) \subseteq Wanted(table')
    <3>1. ~ rd.left /\ ~ table[t].mine  BY <2>2, <2>6
    <3>2. t \notin Wanted(table)  BY <3>1 DEF Wanted
    <3> QED  BY <2>3, <3>1, <3>2 DEF Wanted
  <2> QED  BY <1>2, <2>2, <2>4, <2>5, <2>6, ChangesLetListsGrow
<1> QED  BY <1>3, <1>4, <1>5, <1>6

\* How many rows there are to list, and what is selected at each statement of a page.
LEMMA ListsSelect ==
  ASSUME ReportTypeOK, rd.kind \notin Dumps
  PROVE  /\ IsFiniteSet(OfCompany) /\ Cardinality(OfCompany) \in Nat /\ Wanted(table) \subseteq OfCompany
         /\ \A ids : ids \subseteq OfCompany => IsFiniteSet(ids) /\ Cardinality(ids) \in Nat
                                                /\ Cardinality(ids) <= Cardinality(OfCompany)
         /\ rd.at = "ids" => Selected(table) = OfCompany
         /\ rd.at = "page" /\ rd.kind = "history" => Selected(table) = rd.ids
         /\ rd.at = "page" /\ rd.kind = "admin" => Selected(table) = rd.ids \cap Wanted(table)
         /\ rd.at = "page" /\ rd.kind \notin ByIds => Selected(table) = Wanted(table)
<1>1. table \in Seq(Row)  BY DEF ReportTypeOK, TableOK
<1>2. IsFiniteSet(DOMAIN table)  BY <1>1, RowsAreFinite
<1>3. OfCompany \subseteq DOMAIN table /\ Wanted(table) \subseteq OfCompany  BY DEF OfCompany, Wanted
<1>4. IsFiniteSet(OfCompany)  BY <1>2, <1>3, FS_Subset
<1>5. \A ids : ids \subseteq OfCompany => IsFiniteSet(ids) /\ Cardinality(ids) <= Cardinality(OfCompany)
  BY <1>4, FS_Subset
<1>6. rd.kind # "stream"  BY DEF Dumps
<1>7. rd.at = "ids" => Selected(table) = OfCompany  BY <1>6 DEF Selected, OfCompany
<1>8. rd.at = "page" /\ rd.kind = "history" => Selected(table) = rd.ids  BY <1>6 DEF Selected
<1>9. rd.at = "page" /\ rd.kind = "admin" => Selected(table) = rd.ids \cap Wanted(table)
  BY <1>6 DEF Selected
<1>10. rd.at = "page" /\ rd.kind \notin ByIds => Selected(table) = Wanted(table)
  BY <1>6 DEF Selected, ByIds
<1> QED  BY <1>3, <1>4, <1>5, <1>7, <1>8, <1>9, <1>10, FS_CardinalityType

\* The first request of a list: nothing is seen, and nothing had to be.
LEMMA BeginListKeepsLists == ASSUME ReportTypeOK, BeginList PROVE ListsInv'
<1>1. rd \in Report /\ StepOK /\ table' = table  BY DEF ReportTypeOK, BeginList
<1>2. rd.at = "idle" /\ rd.kind \notin Dumps /\ rd' = [rd EXCEPT !.at = FirstRead, !.start = Wanted(table)]
  BY DEF BeginList
<1>3. rd.out = {} /\ rd.page = 1 /\ rd.fit = -1 /\ rd.count = -1  BY <1>1, <1>2 DEF StepOK
<1>4. FirstRead = IF rd.kind \in ByIds THEN "ids" ELSE "page"  BY DEF FirstRead
<1>5. /\ rd'.at = FirstRead /\ rd'.start = Wanted(table) /\ rd'.kind = rd.kind /\ rd'.out = {}
      /\ rd'.page = 1 /\ rd'.fit = -1 /\ rd'.count = -1
  BY <1>1, <1>2, <1>3 DEF Report
<1>6. CASE rd.kind = "admin"
  <2>1. AdminInv'  BY <1>1, <1>4, <1>5, <1>6 DEF AdminInv, ByIds
  <2> QED  BY <1>5, <1>6, <2>1 DEF ListsInv
<1>7. CASE rd.kind # "admin"
  <2>1. Wanted(table) \subseteq OfCompany /\ IsFiniteSet(OfCompany)  BY <1>2, ListsSelect
  <2>2. OfCompany' = OfCompany  BY <1>1 DEF OfCompany
  <2>3. Listing' = OfCompany \/ Listing' = Wanted(table)  BY <1>1, <2>2 DEF Listing
  <2>4. rd'.start \subseteq Listing' /\ IsFiniteSet(Listing')  BY <1>5, <2>1, <2>3, FS_Subset
  <2>5. PerPage * (rd'.page - 1) = 0  BY <1>5, SmallFirst
  <2>6. Seen(rd'.start, Listing', rd'.out, PerPage * (rd'.page - 1))
    <3>1. \A i : Rank("list", Listing', i) \in Nat  BY <2>4, RanksAreNumbers
    <3>2. \A i : ~ (Rank("list", Listing', i) < 0)  BY <3>1
    <3> QED  BY <2>5, <3>2 DEF Seen
  <2>7. ~ IsFetched'  BY <1>4, <1>5 DEF IsFetched, ByIds
  <2>8. ListInv'  BY <1>5, <2>4, <2>6, <2>7 DEF ListInv
  <2> QED  BY <1>5, <1>7, <2>8 DEF ListsInv
<1> QED  BY <1>6, <1>7

\* The table, and what excuses a list, stay as they are while a statement of it runs.
LEMMA StatementsExcuseNothing ==
  ASSUME table' = table, rd'.kind = rd.kind, rd'.left = rd.left
  PROVE  Excused' = Excused /\ OfCompany' = OfCompany /\ Listing' = Listing
<1>1. OfCompany' = OfCompany  BY DEF OfCompany
<1>2. Ties' = Ties  BY DEF Ties
<1> QED  BY <1>1, <1>2 DEF Excused, Listing

\* Reading the ids of a page.
LEMMA ReadIdsKeepsLists == ASSUME ReportTypeOK, ListsInv, ReadIds PROVE ListsInv'
<1>1. rd \in Report /\ StepOK /\ table' = table /\ rd.at = "ids"  BY DEF ReportTypeOK, ReadIds
<1>2. PICK rows \in Pages(table, rd.page) : rd' = [rd EXCEPT !.at = "page", !.ids = rows]  BY DEF ReadIds
<1>3. rd.kind \notin Dumps /\ rd.kind \in ByIds /\ rd.fit = -1 /\ rd.count = -1  BY <1>1 DEF StepOK
<1>4. /\ rd'.at = "page" /\ rd'.ids = rows /\ rd'.kind = rd.kind /\ rd'.start = rd.start /\ rd'.out = rd.out
      /\ rd'.page = rd.page /\ rd'.fit = -1 /\ rd'.count = -1 /\ rd'.left = rd.left
  BY <1>1, <1>2, <1>3 DEF Report
<1>5. Excused' = Excused /\ OfCompany' = OfCompany /\ Listing' = Listing
  BY <1>1, <1>4, StatementsExcuseNothing
<1>6. PICK page \in Nat \ {0} : page = rd.page  BY <1>1 DEF Report
<1>7. ShowsPage(OfCompany, rows, rd.page)
  <2>1. rd.kind # "transactions"  BY <1>3 DEF ByIds
  <2>2. Selected(table) = OfCompany  BY <1>1, <1>3, ListsSelect
  <2> QED  BY <1>1, <1>3, <2>1, <2>2, ListsShowPages
<1>8. CASE Excused  BY <1>5, <1>8 DEF ListsInv
<1>9. ASSUME ~ Excused, rd.kind = "admin" PROVE ListsInv'
  <2>1. AdminInv  BY <1>1, <1>9 DEF ListsInv
  <2>2. rd.page = 1 /\ rd.start \subseteq Wanted(table)  BY <2>1 DEF AdminInv
  <2>3. Wanted(table) \subseteq OfCompany  BY <1>3, ListsSelect
  <2>4. Cardinality(OfCompany) <= PerPage
    <3>1. Cardinality(OfCompany) \in Nat  BY <1>3, ListsSelect
    <3>2. ~ (Cardinality(OfCompany) > PerPage)  BY <1>9 DEF Excused
    <3> QED  BY <3>1, <3>2, SmallFirst
  <2>5. OfCompany \subseteq rows  BY <1>7, <2>2, <2>4, FirstPageIsAll
  <2>6. rd.start \subseteq rows  BY <2>2, <2>3, <2>5
  <2>7. rows \subseteq OfCompany  BY <1>7 DEF ShowsPage
  <2>8. AdminInv'  BY <1>1, <1>4, <1>5, <2>2, <2>6, <2>7 DEF AdminInv
  <2> QED  BY <1>4, <1>9, <2>8 DEF ListsInv
<1>10. ASSUME ~ Excused, rd.kind # "admin" PROVE ListsInv'
  <2>1. rd.kind = "history"  BY <1>3, <1>10 DEF ByIds
  <2>2. ListInv  BY <1>1, <1>10 DEF ListsInv
  <2>3. Listing = OfCompany  BY <2>1 DEF Listing
  <2>4. rd.start \subseteq OfCompany /\ Seen(rd.start, OfCompany, rd.out, PerPage * (rd.page - 1))
    BY <2>2, <2>3 DEF ListInv
  <2>5. /\ Seen(rd.start, OfCompany, rd.out \cup rows, PerPage * rd.page)
        /\ Cardinality(rows) < PerPage => rd.start \subseteq rd.out \cup rows
    <3>1. PICK out, start : out = rd.out /\ start = rd.start  OBVIOUS
    <3>2. /\ Seen(start, OfCompany, out, PerPage * (page - 1)) /\ ShowsPage(OfCompany, rows, page)
          /\ start \subseteq OfCompany
      BY <1>6, <1>7, <2>4, <3>1
    <3>3. /\ Seen(start, OfCompany, out \cup rows, PerPage * page)
          /\ Cardinality(rows) < PerPage \/ Cardinality(OfCompany) <= PerPage * page =>
               start \subseteq out \cup rows
      BY <3>2, ShownIsSeen
    <3>4. Cardinality(rows) < PerPage => start \subseteq out \cup rows  BY <3>3
    <3> QED  BY <1>6, <3>1, <3>3, <3>4
  <2>6. Fetched' = rows /\ ShownLast' = (Cardinality(rows) < PerPage)
    BY <1>4, <2>1 DEF Fetched, ShownLast
  <2>7. ListInv'  BY <1>4, <1>5, <2>3, <2>4, <2>5, <2>6 DEF ListInv
  <2> QED  BY <1>4, <1>10, <2>7 DEF ListsInv
<1> QED  BY <1>8, <1>9, <1>10

\* Counting the total.
LEMMA ReadCountKeepsLists == ASSUME ReportTypeOK, ListsInv, ReadCount PROVE ListsInv'
<1>1. rd \in Report /\ StepOK /\ table' = table /\ rd.at = "page" /\ rd.kind # "history"
  BY DEF ReportTypeOK, ReadCount
<1>2. rd' = [rd EXCEPT !.count = Cardinality(Selected(table))]  BY DEF ReadCount
<1>3. rd.kind \notin Dumps  BY <1>1 DEF StepOK
<1>4. /\ rd'.at = rd.at /\ rd'.ids = rd.ids /\ rd'.kind = rd.kind /\ rd'.start = rd.start /\ rd'.out = rd.out
      /\ rd'.page = rd.page /\ rd'.fit = rd.fit /\ rd'.left = rd.left /\ rd'.rows = rd.rows
      /\ rd'.count = Cardinality(Selected(table))
  BY <1>1, <1>2 DEF Report
<1>5. Excused' = Excused /\ OfCompany' = OfCompany /\ Listing' = Listing
  BY <1>1, <1>4, StatementsExcuseNothing
<1>6. CASE Excused  BY <1>5, <1>6 DEF ListsInv
<1>7. ASSUME ~ Excused, rd.kind = "admin" PROVE ListsInv'
  <2>1. AdminInv  BY <1>1, <1>7 DEF ListsInv
  <2>2. rd.ids \subseteq OfCompany  BY <1>1, <2>1 DEF AdminInv
  <2>3. Selected(table) = rd.ids \cap Wanted(table)  BY <1>1, <1>3, <1>7, ListsSelect
  <2>4. Selected(table) \subseteq OfCompany  BY <2>2, <2>3
  <2>5. Cardinality(Selected(table)) \in Nat /\ Cardinality(Selected(table)) <= Cardinality(OfCompany)
        /\ Cardinality(OfCompany) \in Nat
    BY <1>3, <2>4, ListsSelect
  <2>6. ~ (Cardinality(OfCompany) > PerPage)  BY <1>7 DEF Excused
  <2>7. rd'.count <= PerPage  BY <1>4, <2>5, <2>6, SmallFirst
  <2>8. AdminInv'  BY <1>1, <1>4, <1>5, <2>1, <2>7 DEF AdminInv
  <2> QED  BY <1>4, <1>7, <2>8 DEF ListsInv
<1>8. ASSUME ~ Excused, rd.kind # "admin" PROVE ListsInv'
  <2>1. ListInv  BY <1>1, <1>8 DEF ListsInv
  <2>2. IsFetched' = IsFetched /\ Fetched' = Fetched /\ ShownLast' = ShownLast
    BY <1>4 DEF IsFetched, Fetched, ShownLast
  <2>3. ListInv'  BY <1>4, <1>5, <2>1, <2>2 DEF ListInv
  <2> QED  BY <1>4, <1>8, <2>3 DEF ListsInv
<1> QED  BY <1>6, <1>7, <1>8

\* Reading the rows of a page, and the size of the selection they are a page of.
LEMMA ReadRowsKeepsLists == ASSUME ReportTypeOK, ListsInv, ReadRows PROVE ListsInv'
<1>1. rd \in Report /\ StepOK /\ table' = table /\ rd.at = "page" /\ rd.fit = -1
  BY DEF ReportTypeOK, ReadRows
<1>2. PICK rows \in PageOfRows : rd' = [rd EXCEPT !.rows = rows, !.fit = Cardinality(Selected(table))]
  BY DEF ReadRows
<1>3. rd.kind \notin Dumps  BY <1>1 DEF StepOK
<1>4. /\ rd'.at = "page" /\ rd'.ids = rd.ids /\ rd'.kind = rd.kind /\ rd'.start = rd.start /\ rd'.out = rd.out
      /\ rd'.page = rd.page /\ rd'.rows = rows /\ rd'.left = rd.left /\ rd'.count = rd.count
      /\ rd'.fit = Cardinality(Selected(table))
  BY <1>1, <1>2 DEF Report
<1>5. Excused' = Excused /\ OfCompany' = OfCompany /\ Listing' = Listing
  BY <1>1, <1>4, StatementsExcuseNothing
<1>6. PICK page \in Nat \ {0} : page = rd.page  BY <1>1 DEF Report
<1>7. ASSUME rd.kind # "history", ~ Excused PROVE ShowsPage(Selected(table), rows, page)
  <2>1. rd.kind = "transactions" => ~ Ties  BY <1>7 DEF Excused
  <2>2. rows \in Pages(table, rd.page)  BY <1>7 DEF PageOfRows
  <2>3. ShowsPage(Selected(table), rows, rd.page)  BY <1>3, <1>7, <2>1, <2>2, ListsShowPages
  <2> QED  BY <1>6, <2>3
<1>01. PICK out, start : out = rd.out /\ start = rd.start  OBVIOUS
<1>8. CASE Excused  BY <1>5, <1>8 DEF ListsInv
<1>9. ASSUME ~ Excused, rd.kind = "admin" PROVE ListsInv'
  <2>1. AdminInv  BY <1>1, <1>9 DEF ListsInv
  <2>2. /\ rd.page = 1 /\ rd.start \subseteq Wanted(table) /\ rd.start \subseteq rd.ids
        /\ rd.ids \subseteq OfCompany
    BY <1>1, <2>1 DEF AdminInv
  <2>3. PICK ids : ids = Selected(table) /\ ids = rd.ids \cap Wanted(table)  BY <1>1, <1>3, <1>9, ListsSelect
  <2>4. start \subseteq ids /\ ids \subseteq OfCompany  BY <1>01, <2>2, <2>3
  <2>5. ShowsPage(ids, rows, page)  BY <1>7, <1>9, <2>3
  <2>6. Cardinality(ids) <= PerPage
    <3>1. Cardinality(ids) \in Nat /\ Cardinality(ids) <= Cardinality(OfCompany)
          /\ Cardinality(OfCompany) \in Nat
      BY <1>3, <2>4, ListsSelect
    <3>2. ~ (Cardinality(OfCompany) > PerPage)  BY <1>9 DEF Excused
    <3> QED  BY <3>1, <3>2, SmallFirst
  <2>7. page = 1  BY <1>6, <2>2
  <2>8. start \subseteq rows  BY <2>4, <2>5, <2>6, <2>7, FirstPageIsAll
  <2>9. AdminInv'  BY <1>1, <1>01, <1>4, <1>5, <2>1, <2>8 DEF AdminInv
  <2> QED  BY <1>4, <1>9, <2>9 DEF ListsInv
<1>10. ASSUME ~ Excused, rd.kind = "history" PROVE ListsInv'
  <2>1. ListInv  BY <1>1, <1>10 DEF ListsInv
  <2>2. rows = rd.ids  BY <1>1, <1>3, <1>10, ListsSelect DEF PageOfRows
  <2>3. IsFetched' = IsFetched /\ Fetched' = Fetched /\ ShownLast' = ShownLast
    BY <1>1, <1>4, <1>10 DEF IsFetched, Fetched, ShownLast
  <2>4. ListInv'  BY <1>4, <1>5, <2>1, <2>2, <2>3 DEF ListInv
  <2> QED  BY <1>4, <1>10, <2>4 DEF ListsInv
<1>11. ASSUME ~ Excused, rd.kind \notin ByIds PROVE ListsInv'
  <2>1. rd.kind # "admin" /\ rd.kind # "history"  BY <1>11 DEF ByIds
  <2>2. ListInv  BY <1>1, <1>11, <2>1 DEF ListsInv
  <2>3. PICK ids : ids = Selected(table) /\ ids = Listing  BY <1>1, <1>3, <1>11, <2>1, ListsSelect DEF Listing
  <2>4. start \subseteq ids /\ Seen(start, ids, out, PerPage * (page - 1))  BY <1>01, <1>6, <2>2, <2>3 DEF ListInv
  <2>5. ShowsPage(ids, rows, page)  BY <1>7, <1>11, <2>1, <2>3
  <2>6. /\ Seen(start, ids, out \cup rows, PerPage * page)
        /\ Cardinality(rows) < PerPage \/ Cardinality(ids) <= PerPage * page => start \subseteq out \cup rows
    BY <2>4, <2>5, ShownIsSeen
  <2>7. Cardinality(ids) <= PerPage * page => start \subseteq out \cup rows  BY <2>6
  <2>8. Fetched' = rows /\ ShownLast' = (Cardinality(ids) <= PerPage * page)
    BY <1>4, <1>6, <2>1, <2>3 DEF Fetched, ShownLast
  <2>9. Seen(rd'.start, Listing', rd'.out \cup Fetched', PerPage * rd'.page)
    BY <1>01, <1>4, <1>5, <1>6, <2>3, <2>6, <2>8
  <2>10. ShownLast' => rd'.start \subseteq rd'.out \cup Fetched'  BY <1>01, <1>4, <2>7, <2>8
  <2>11. rd'.start \subseteq Listing' /\ Seen(rd'.start, Listing', rd'.out, PerPage * (rd'.page - 1))
    BY <1>4, <1>5, <2>2 DEF ListInv
  <2>12. ListInv'  BY <1>4, <2>1, <2>9, <2>10, <2>11 DEF ListInv
  <2> QED  BY <1>4, <2>1, <2>12 DEF ListsInv
<1> QED  BY <1>8, <1>9, <1>10, <1>11 DEF ByIds

\* The page that answers a request is on the client's list, and the next one is asked for
\* only if there may be one.
LEMMA ReplyKeepsLists ==
  ASSUME ReportTypeOK, ListsInv, Reply
  PROVE  ListsInv' /\ PagesMissNothing'
<1>1. rd \in Report /\ StepOK /\ table' = table /\ rd.at = "page" /\ rd.fit # -1
      /\ (rd.kind # "history" => rd.count # -1)
  BY DEF ReportTypeOK, Reply
<1>2. PICK last : last = IsLast  OBVIOUS
<1>3. rd' = [rd EXCEPT !.out = @ \cup rd.rows, !.rows = {}, !.ids = {},
                       !.at = IF last THEN "done" ELSE FirstRead,
                       !.page = IF last THEN @ ELSE @ + 1,
                       !.count = IF last THEN @ ELSE -1,
                       !.fit = IF last THEN @ ELSE -1]
  BY <1>2 DEF Reply
<1>4. rd.kind \notin Dumps  BY <1>1 DEF StepOK
<1>5. /\ rd'.kind = rd.kind /\ rd'.left = rd.left /\ rd'.start = rd.start /\ rd'.out = rd.out \cup rd.rows
      /\ last => rd'.at = "done" /\ rd'.count = rd.count /\ rd'.fit = rd.fit
      /\ ~ last => rd'.at = FirstRead /\ rd'.page = rd.page + 1 /\ rd'.count = -1 /\ rd'.fit = -1
  BY <1>1, <1>3 DEF Report
<1>6. Excused' = Excused /\ OfCompany' = OfCompany /\ Listing' = Listing
  BY <1>1, <1>5, StatementsExcuseNothing
<1>7. /\ rd.page \in Nat \ {0} /\ rd.count \in Nat \cup {-1} /\ rd.fit \in Nat \cup {-1}
  BY <1>1 DEF Report
<1>8. ASSUME ~ Excused, rd.kind = "admin" PROVE IsLast /\ rd.start \subseteq rd.rows
  <2>1. AdminInv  BY <1>1, <1>8 DEF ListsInv
  <2>2. rd.page = 1 /\ rd.count <= PerPage /\ rd.start \subseteq rd.rows  BY <1>1, <1>8, <2>1 DEF AdminInv
  <2>3. rd.page * PerPage >= rd.count  BY <1>1, <1>7, <1>8, <2>2, SmallFirst
  <2> QED  BY <1>8, <2>2, <2>3 DEF IsLast
<1>9. ASSUME ~ Excused, rd.kind # "admin"
      PROVE  /\ ListInv /\ IsFetched /\ Fetched = rd.rows
  <2>1. ListInv  BY <1>1, <1>9 DEF ListsInv
  <2>2. IsFetched  BY <1>1 DEF IsFetched
  <2>3. Fetched = rd.rows  BY <1>1, <2>1 DEF Fetched, ListInv
  <2> QED  BY <2>1, <2>2, <2>3
<1>10. ASSUME last PROVE ListsInv' /\ PagesMissNothing'
  <2>1. ListsInv'  BY <1>5, <1>10 DEF ListsInv
  <2>2. CASE Excused
    <3>1. \/ rd'.left
          \/ rd'.kind = "transactions" /\ Ties'
          \/ rd'.kind = "admin" /\ Cardinality(OfCompany') > PerPage
      BY <1>6, <2>2 DEF Excused
    <3> QED  BY <2>1, <3>1 DEF PagesMissNothing
  <2>3. ASSUME ~ Excused, ~ (rd.count < rd.fit) \/ rd.kind \in ByIds PROVE rd'.start \subseteq rd'.out
    <3>1. CASE rd.kind = "admin"  BY <1>5, <1>8, <2>3, <3>1
    <3>2. CASE rd.kind # "admin"
      <4>1. ShownLast
        <5>1. CASE rd.kind = "history"
          <6>1. rd.rows = rd.ids  BY <1>1, <1>9, <2>3, <5>1 DEF ListInv
          <6>2. Cardinality(rd.rows) < PerPage  BY <1>2, <1>10, <5>1 DEF IsLast
          <6> QED  BY <5>1, <6>1, <6>2 DEF ShownLast
        <5>2. CASE rd.kind # "history"
          <6>1. ~ (rd.count < rd.fit)  BY <2>3, <3>2, <5>2 DEF ByIds
          <6>2. rd.page * PerPage >= rd.count  BY <1>2, <1>10, <5>2 DEF IsLast
          <6>3. PICK n \in Nat : n = PerPage * rd.page /\ n = rd.page * PerPage  BY <1>7, PageBounds, SmallFirst
          <6>4. rd.fit <= PerPage * rd.page  BY <1>7, <6>1, <6>2, <6>3
          <6> QED  BY <5>2, <6>4 DEF ShownLast
        <5> QED  BY <5>1, <5>2
      <4>2. rd.start \subseteq rd.out \cup rd.rows  BY <1>9, <2>3, <3>2, <4>1 DEF ListInv
      <4> QED  BY <1>5, <4>2
    <3> QED  BY <3>1, <3>2
  <2>4. ASSUME ~ Excused PROVE rd'.start \subseteq rd'.out \/ rd'.count < rd'.fit
    BY <1>5, <1>10, <2>3, <2>4
  <2> QED  BY <2>1, <2>2, <2>4 DEF PagesMissNothing
<1>11. ASSUME ~ last PROVE ListsInv' /\ PagesMissNothing'
  <2>1. rd'.at # "done" /\ FirstRead = IF rd.kind \in ByIds THEN "ids" ELSE "page"
    BY <1>5, <1>11 DEF FirstRead
  <2>2. PagesMissNothing'  BY <2>1 DEF PagesMissNothing
  <2>3. CASE Excused  BY <1>6, <2>2, <2>3 DEF ListsInv
  <2>4. ASSUME ~ Excused PROVE ListsInv'
    <3>1. rd.kind # "admin"  BY <1>2, <1>8, <1>11, <2>4
    <3>2. /\ rd.start \subseteq Listing
          /\ Seen(rd.start, Listing, rd.out \cup rd.rows, PerPage * rd.page)
      BY <1>9, <2>4, <3>1 DEF ListInv
    <3>3. PerPage * (rd'.page - 1) = PerPage * rd.page  BY <1>5, <1>7, <1>11, PageBounds
    <3>4. rd'.start \subseteq Listing' /\ Seen(rd'.start, Listing', rd'.out, PerPage * (rd'.page - 1))
      BY <1>5, <1>6, <3>2, <3>3
    <3>5. ~ IsFetched' /\ rd'.fit = -1  BY <1>5, <1>11, <2>1 DEF IsFetched, ByIds
    <3>6. ListInv'  BY <3>4, <3>5 DEF ListInv
    <3> QED  BY <1>5, <3>1, <3>6 DEF ListsInv
  <2> QED  BY <2>2, <2>3, <2>4
<1> QED  BY <1>10, <1>11

\* Every step keeps what a client has seen of a list, and misses nothing at its end.
LEMMA NextListsInv ==
  ReportTypeOK /\ ReportTypeOK' /\ ListsInv /\ PagesMissNothing /\ [ReportNext]_reportVars
    => ListsInv' /\ PagesMissNothing'
<1> SUFFICES ASSUME ReportTypeOK, ReportTypeOK', ListsInv, PagesMissNothing, [ReportNext]_reportVars
             PROVE  ListsInv' /\ PagesMissNothing'
  OBVIOUS
<1>1. rd \in Report /\ StepOK  BY DEF ReportTypeOK
<1>2. CASE UNCHANGED reportVars
  <2>1. UNCHANGED <<table, rd>>  BY <1>2 DEF reportVars
  <2>2. ListsInv'  BY <2>1, ChangesKeepLists
  <2>3. OfCompany' = OfCompany /\ Ties' = Ties  BY <2>1 DEF OfCompany, Ties
  <2>4. PagesMissNothing'  BY <2>1, <2>3 DEF PagesMissNothing
  <2> QED  BY <2>2, <2>4
<1>3. ASSUME \/ \E n \in 1..2 : \E ours, cut \in [1..n -> BOOLEAN] : Add(n, ours, cut)
             \/ \E i \in DOMAIN table : Turn(i) \/ Delete(i)
      PROVE  ListsInv' /\ PagesMissNothing'
  <2>1. ListsInv'  BY <1>3, ChangesKeepLists
  <2>2. rd.at # "done"  BY <1>3 DEF Add, Turn, Delete, Changing
  <2>3. rd'.at = rd.at
    <3>1. CASE \E n \in 1..2 : \E ours, cut \in [1..n -> BOOLEAN] : Add(n, ours, cut)  BY <3>1 DEF Add
    <3>2. CASE \E i \in DOMAIN table : Turn(i) \/ Delete(i)
      <4>1. PICK left : rd' = [rd EXCEPT !.left = left]  BY <3>2 DEF Turn, Delete
      <4> QED  BY <1>1, <4>1 DEF Report
    <3> QED  BY <1>3, <3>1, <3>2
  <2> QED  BY <2>1, <2>2, <2>3 DEF PagesMissNothing
<1>4. CASE BeginDump \/ DumpPage \/ EndDump
  <2>1. rd.kind \in Dumps  BY <1>1, <1>4 DEF BeginDump, DumpPage, EndDump, StepOK
  <2>2. rd'.kind = rd.kind /\ rd'.at \in {"dump", "done"}
    <3>1. CASE BeginDump  BY <1>1, <3>1 DEF BeginDump, Report
    <3>2. CASE EndDump  BY <1>1, <3>2 DEF EndDump, Report
    <3>3. CASE DumpPage
      <4>1. PICK rows \in Pages(Snapshot, rd.page) :
              rd' = [rd EXCEPT !.page = @ + 1, !.size = Cardinality(rows),
                               !.view = IF rd.page = 1 THEN table ELSE @,
                               !.out  = @ \cup {Line(Snapshot, rd.page, rows, i) : i \in {j \in rows : Snapshot[j].mine}}]
        BY <3>3 DEF DumpPage
      <4>2. rd.at = "dump"  BY <3>3 DEF DumpPage
      <4>3. rd'.kind = rd.kind /\ rd'.at = rd.at  BY <1>1, <4>1 DEF Report
      <4> QED  BY <4>2, <4>3
    <3> QED  BY <1>4, <3>1, <3>2, <3>3
  <2> QED  BY <2>1, <2>2 DEF ListsInv, PagesMissNothing
<1>5. CASE DumpFails
  <2>1. rd'.at = "failed"
    <3>1. rd' = [NoReport EXCEPT !.kind = rd.kind, !.at = "failed"]  BY <1>5 DEF DumpFails
    <3> QED  BY <3>1 DEF NoReport
  <2> QED  BY <2>1 DEF ListsInv, PagesMissNothing
<1>6. CASE BeginList
  <2>1. rd'.at # "done"
    <3>1. FirstRead # "done"  BY DEF FirstRead
    <3> QED  BY <1>1, <1>6, <3>1 DEF BeginList, Report
  <2> QED  BY <1>6, <2>1, BeginListKeepsLists DEF PagesMissNothing
<1>7. CASE ReadIds \/ ReadCount \/ ReadRows
  <2>1. ListsInv'  BY <1>7, ReadIdsKeepsLists, ReadCountKeepsLists, ReadRowsKeepsLists
  <2>2. rd'.at = "page"
    <3>1. CASE ReadIds  BY <1>1, <3>1 DEF ReadIds, Report
    <3>2. CASE ReadCount  BY <1>1, <3>2 DEF ReadCount, Report
    <3>3. CASE ReadRows  BY <1>1, <3>3 DEF ReadRows, Report
    <3> QED  BY <1>7, <3>1, <3>2, <3>3
  <2> QED  BY <2>1, <2>2 DEF PagesMissNothing
<1>8. CASE Reply  BY <1>8, ReplyKeepsLists
<1> QED  BY <1>2, <1>3, <1>4, <1>5, <1>6, <1>7, <1>8 DEF ReportNext

\* The invariant holds before a report is asked for.
LEMMA InitReportInv == ReportInit => ReportInv
<1> SUFFICES ASSUME ReportInit PROVE ReportInv  OBVIOUS
<1>1. table = <<>> /\ sales = 0 /\ changes = 0  BY DEF ReportInit
<1>2. PICK kind \in ReportKinds : rd = [NoReport EXCEPT !.kind = kind]  BY DEF ReportInit, ReportKinds
<1>3. rd = [kind |-> kind, at |-> "idle", page |-> 1, size |-> 0, view |-> <<>>, out |-> {},
            ids |-> {}, count |-> -1, rows |-> {}, fit |-> -1, start |-> {}, left |-> FALSE]
  BY <1>2 DEF NoReport
<1>4. <<>> \in Seq(Row) /\ DOMAIN <<>> = {}  OBVIOUS
<1>5. TableOK  BY <1>1, <1>4 DEF TableOK
<1>6. rd \in Report
  <2>1. kind \in ReportKinds /\ {} \in SUBSET (Nat \cup PrintedLine) /\ {} \in SUBSET Nat  OBVIOUS
  <2> QED  BY <1>3, <1>4, <2>1 DEF Report
<1>7. /\ rd.at = "idle" /\ rd.out = {} /\ rd.page = 1 /\ rd.fit = -1 /\ rd.count = -1 /\ rd.ids = {}
  BY <1>3
<1>8. StepOK  BY <1>7 DEF StepOK
<1>9. IsFiniteSet(rd.ids)  BY <1>7, FS_EmptySet
<1> QED  BY <1>5, <1>6, <1>7, <1>8, <1>9 DEF ReportInv, ReportTypeOK, DumpInv, ListsInv, PagesMissNothing

\* The parts of the invariant hold together, whatever the table goes through.
THEOREM ReportInvariant == ReportSpec => []ReportInv
<1>1. ReportInit => ReportInv  BY InitReportInv
<1>2. ReportInv /\ [ReportNext]_reportVars => ReportInv'
  BY NextReportTypeOK, NextDumpInv, NextListsInv DEF ReportInv
<1> QED  BY <1>1, <1>2, PTL DEF ReportSpec

\* A dump is a snapshot, each of its rows once and with its own discount; the pages of a list
\* miss nothing but what the property names.
THEOREM ReportsAreCompleteAlways == ReportSpec => []ReportsAreComplete
<1>1. ReportInv => ReportsAreComplete
  BY DumpsAreSnapshots DEF ReportInv, ReportsAreComplete
<1> QED  BY <1>1, ReportInvariant, PTL
===============================================================================
