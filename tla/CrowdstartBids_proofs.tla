------------------------- MODULE CrowdstartBids_proofs -------------------------
(***************************************************************************)
(* Theorems about CrowdstartBids for every number of users, requests and   *)
(* bids and every choice of faults.                                        *)
(***************************************************************************)
EXTENDS CrowdstartBids, TLAPS

Step(c) ==
  \/ c \in Posts /\ PostStep(c)
  \/ c \in Withdrawals /\ WithdrawStep(c)
  \/ c \in Clients /\ DecisionStep(c)
  \/ c \in Conversions /\ ConvertStep(c)
  \/ c \in Readers /\ CrashEarly(c)

\* Every step is a step of one handler.
LEMMA NextIsAStep ==
  ASSUME [Next]_bidVars
  PROVE  UNCHANGED bidVars \/ \E c \in Handlers : Step(c)
  BY DEF Next, Step, Handlers, Readers

\* What a write does to the table.
LEMMA Written ==
  ASSUME NEW bids, NEW s, Write(bids, s), NEW b \in BidIds
  PROVE  status'[b] = IF b \in bids THEN s ELSE status[b]
  BY DEF Write

LEMMA WriteOK ==
  ASSUME NEW bids, NEW s \in Statuses, Write(bids, s), status \in [BidIds -> Statuses]
  PROVE  status' \in [BidIds -> Statuses]
  BY DEF Write

(***************************************************************************)
(* Type correctness.                                                       *)
(***************************************************************************)

\* What BidTypeOK says of handlers and their transactions.
TxOK ==
  /\ at \in [Handlers -> Steps]
  /\ missed \in [Readers -> SUBSET BidIds]
  /\ open = {m \in Clients : at[m] = "open"}
  /\ stale \in [Clients -> SUBSET (BidIds \cup {RouteRow})]
  /\ \A m \in Clients \ open : stale[m] = {}

\* Statements outside of transactions.
LEMMA TxAutocommit ==
  ASSUME TxOK, NEW c \in Readers, NEW step \in Steps \ {"open"}, Goto(c, step),
         NEW bids \in SUBSET BidIds, Autocommit(c, bids)
  PROVE  TxOK'
<1>1. c \in Handlers /\ c \notin Clients
  BY HandlersDisjoint DEF Handlers, Readers, Clients
<1>2. at' \in [Handlers -> Steps]
  BY <1>1 DEF TxOK, Goto
<1>3. open' = {m \in Clients : at'[m] = "open"}
  BY <1>1 DEF TxOK, Goto, Autocommit, Handlers
<1> QED
  BY <1>2, <1>3 DEF TxOK, Autocommit, Missed

\* Steps that touch no row: of readers, so that no transaction begins or ends.
LEMMA TxElsewhere ==
  ASSUME TxOK, NEW c \in Readers, NEW step \in Steps \ {"open"}, Goto(c, step),
         missed' \in [Readers -> SUBSET BidIds], UNCHANGED <<open, stale>>
  PROVE  TxOK'
<1>1. c \in Handlers /\ c \notin Clients
  BY HandlersDisjoint DEF Handlers, Readers, Clients
<1>2. at' \in [Handlers -> Steps]
  BY <1>1 DEF TxOK, Goto
<1> QED
  BY <1>1, <1>2 DEF TxOK, Goto, Handlers

LEMMA TxBegins ==
  ASSUME TxOK, NEW m \in Clients, Goto(m, "open"), BeginTx(m), UNCHANGED missed
  PROVE  TxOK'
<1>1. m \in Handlers /\ at' \in [Handlers -> Steps]
  BY DEF TxOK, Goto, Handlers, Steps
<1> QED
  BY <1>1 DEF TxOK, Goto, BeginTx, Handlers

LEMMA TxEnds ==
  ASSUME TxOK, NEW m \in Clients, NEW step \in Steps \ {"open"}, Goto(m, step),
         NEW rows \in SUBSET (BidIds \cup {RouteRow}), EndTx(m, rows),
         missed' \in [Readers -> SUBSET BidIds]
  PROVE  TxOK'
<1>1. m \in Handlers /\ at' \in [Handlers -> Steps]
  BY DEF TxOK, Goto, Handlers
<1>2. open' = {d \in Clients : at'[d] = "open"}
  BY <1>1 DEF TxOK, EndTx, Goto, Handlers
<1>3. stale' \in [Clients -> SUBSET (BidIds \cup {RouteRow})]
      /\ \A d \in Clients \ open' : stale'[d] = {}
  BY DEF TxOK, EndTx
<1> QED
  BY <1>1, <1>2, <1>3 DEF TxOK

\* What BidTypeOK says of everything else.
RowsOK ==
  /\ tags \subseteq {"success", "failed"}
  /\ status \in [BidIds -> Statuses]
  /\ mine \in [Handlers -> SUBSET BidIds]
  /\ user \in [Posts -> Users]
  /\ charged \subseteq Conversions

LEMMA NextType == BidTypeOK /\ [Next]_bidVars => BidTypeOK'
<1> SUFFICES ASSUME BidTypeOK, [Next]_bidVars PROVE TxOK' /\ RowsOK'
  BY DEF BidTypeOK, TxOK, RowsOK
<1>0. /\ TxOK /\ RowsOK
      /\ mine \in [Handlers -> SUBSET BidIds] /\ missed \in [Readers -> SUBSET BidIds]
      /\ {"bidded", "withdrawn", "void", "failed"} \subseteq Statuses
      /\ LiveBids \subseteq BidIds /\ Unborn \subseteq BidIds
  BY DEF BidTypeOK, TxOK, RowsOK, Statuses, LiveBids, Unborn
<1>1. ASSUME NEW p \in Posts, PostStep(p) PROVE TxOK' /\ RowsOK'
  <2>0. p \in Readers /\ p \in Handlers
    BY DEF Readers, Handlers
  <2>1. CASE PostRead(p) \/ PostRefuse(p)
    <3>1. \E step \in Steps \ {"open"} : Goto(p, step)
      BY <2>1 DEF PostRead, PostRefuse, Steps
    <3>2. UNCHANGED <<tags, status, mine, user, charged, missed, open, stale>>
      BY <2>1 DEF PostRead, PostRefuse
    <3> QED
      BY <1>0, <2>0, <3>1, <3>2, TxElsewhere DEF RowsOK
  <2>2. CASE PostCreate(p)
    <3>1. PICK b \in Unborn : /\ Write({b}, "bidded")
                              /\ mine' = [mine EXCEPT ![p] = {b}]
                              /\ Autocommit(p, {b})
      BY <2>2 DEF PostCreate
    <3>2. TxOK'
      BY <1>0, <2>0, <2>2, <3>1, TxAutocommit DEF PostCreate, Steps
    <3>3. RowsOK'
      BY <1>0, <2>2, <3>1, WriteOK DEF PostCreate, RowsOK
    <3> QED
      BY <3>2, <3>3
  <2> QED
    BY <1>1, <2>1, <2>2 DEF PostStep
<1>2. ASSUME NEW w \in Withdrawals, WithdrawStep(w) PROVE TxOK' /\ RowsOK'
  <2>0. w \in Readers /\ w \in Handlers
    BY DEF Readers, Handlers
  <2>1. CASE WithdrawRead(w)
    <3>1. TxOK'
      BY <1>0, <2>0, <2>1, TxElsewhere DEF WithdrawRead, Steps
    <3>2. RowsOK'
      BY <1>0, <2>1 DEF WithdrawRead, RowsOK
    <3> QED
      BY <3>1, <3>2
  <2>2. CASE WithdrawWrite(w)
    <3>1. TxOK'
      BY <1>0, <2>0, <2>2, TxAutocommit DEF WithdrawWrite, Steps
    <3>2. RowsOK'
      BY <1>0, <2>2, WriteOK DEF WithdrawWrite, RowsOK
    <3> QED
      BY <3>1, <3>2
  <2> QED
    BY <1>2, <2>1, <2>2 DEF WithdrawStep
<1>3. ASSUME NEW m \in Clients, DecisionStep(m) PROVE TxOK' /\ RowsOK'
  <2>0. m \in Handlers /\ mine[m] \subseteq BidIds
    BY <1>0 DEF Handlers
  <2>1. CASE DecisionBegin(m)
    <3>1. TxOK'
      BY <1>0, <2>1, TxBegins DEF DecisionBegin
    <3>2. RowsOK'
      BY <1>0, <2>1 DEF DecisionBegin, RowsOK
    <3> QED
      BY <3>1, <3>2
  <2>2. CASE DecisionCommit(m)
    <3>1. missed' \in [Readers -> SUBSET BidIds]
      BY <1>0, <2>0, <2>2 DEF DecisionCommit, Missed
    <3>2. TxOK'
      BY <1>0, <2>0, <2>2, <3>1, TxEnds DEF DecisionCommit, Steps
    <3>3. RowsOK'
      BY <1>0, <2>2, WriteOK DEF DecisionCommit, RowsOK
    <3> QED
      BY <3>2, <3>3
  <2>3. CASE DecisionAbort(m)
    <3>1. {} \in SUBSET (BidIds \cup {RouteRow})
      OBVIOUS
    <3>2. TxOK'
      BY <1>0, <2>3, <3>1, TxEnds DEF DecisionAbort, Steps
    <3>3. RowsOK'
      BY <1>0, <2>3 DEF DecisionAbort, RowsOK
    <3> QED
      BY <3>2, <3>3
  <2> QED
    BY <1>3, <2>1, <2>2, <2>3 DEF DecisionStep
<1>4. ASSUME NEW k \in Conversions, ConvertStep(k) PROVE TxOK' /\ RowsOK'
  <2>0. k \in Readers /\ k \in Handlers /\ mine[k] \subseteq BidIds
    BY <1>0 DEF Readers, Handlers
  <2>1. CASE ConvertRead(k)
    <3>1. TxOK'
      BY <1>0, <2>0, <2>1, TxElsewhere DEF ConvertRead, Steps
    <3>2. RowsOK'
      BY ZenonT(60), <1>0, <2>1 DEF ConvertRead, Convertible, RowsOK
    <3> QED
      BY <3>1, <3>2
  <2>2. CASE ConvertCommit(k) \/ Reopen(k)
    <3>1. \E step \in Steps \ {"open"} : Goto(k, step)
      BY <2>2 DEF ConvertCommit, Reopen, Steps
    <3>2. Autocommit(k, mine[k]) /\ UNCHANGED <<tags, mine, user, charged>>
      BY <2>2 DEF ConvertCommit, Reopen
    <3>3. \E s \in Statuses : Write(mine[k], s)
      BY <1>0, <2>2 DEF ConvertCommit, Reopen, ConvertedStatus
    <3>4. TxOK'
      BY <1>0, <2>0, <3>1, <3>2, TxAutocommit
    <3>5. RowsOK'
      BY <1>0, <3>2, <3>3, WriteOK DEF RowsOK
    <3> QED
      BY <3>4, <3>5
  <2>3. CASE ChargeCard(k) \/ ChargeFails(k) \/ RecordCharge(k) \/ Undo(k) \/ CrashLate(k)
    <3>1. \E step \in Steps \ {"open"} : Goto(k, step)
      BY <2>3 DEF ChargeCard, ChargeFails, RecordCharge, Undo, CrashLate, Steps
    <3>2. /\ UNCHANGED <<tags, status, mine, user, missed, open, stale>>
          /\ charged' = charged \/ charged' = charged \cup {k}
      BY <2>3 DEF ChargeCard, ChargeFails, RecordCharge, Undo, CrashLate
    <3> QED
      BY <1>0, <2>0, <3>1, <3>2, TxElsewhere DEF RowsOK
  <2> QED
    BY <1>4, <2>1, <2>2, <2>3 DEF ConvertStep
<1>5. ASSUME NEW c \in Readers, CrashEarly(c) PROVE TxOK' /\ RowsOK'
  <2>1. missed' \in [Readers -> SUBSET BidIds]
    BY <1>0, <1>5 DEF CrashEarly
  <2>2. TxOK'
    BY <1>0, <1>5, <2>1, TxElsewhere DEF CrashEarly, Steps
  <2>3. RowsOK'
    BY <1>0, <1>5 DEF CrashEarly, RowsOK
  <2> QED
    BY <2>2, <2>3
<1>6. CASE UNCHANGED bidVars
  BY <1>0, <1>6 DEF bidVars, TxOK, RowsOK
<1> QED
  BY <1>1, <1>2, <1>3, <1>4, <1>5, <1>6 DEF Next

\* Every state of the bids is well-typed, and the open database transactions are those
\* of the activations and expiries being carried out.
THEOREM BidsAreWellTyped == Spec => []BidTypeOK
<1>1. Init => BidTypeOK
  BY DEF Init, BidTypeOK, Statuses, Steps, Handlers
<1> QED
  BY <1>1, NextType, PTL DEF Spec

(***************************************************************************)
(* What a step does to one bid and to one handler.                         *)
(***************************************************************************)

\* The ways in which the status of a bid changes.
LEMMA WhoWrites ==
  ASSUME BidTypeOK, [Next]_bidVars, NEW b \in BidIds, status'[b] # status[b]
  PROVE  \/ status[b] = "none" /\ status'[b] = "bidded"
         \/ \E w \in Withdrawals :
              WithdrawWrite(w) /\ b \in mine[w] /\ status'[b] = "withdrawn"
         \/ \E m \in Clients : DecisionCommit(m) /\ b \in mine[m] /\ status'[b] = "failed"
         \/ \E k \in Conversions :
              ConvertCommit(k) /\ b \in mine[k] /\ status'[b] = "void"
         \/ \E k \in Conversions : Reopen(k) /\ b \in mine[k] /\ status'[b] = "bidded"
<1>1. ASSUME NEW p \in Posts, PostCreate(p)
      PROVE  status[b] = "none" /\ status'[b] = "bidded"
  <2>1. PICK d \in Unborn : Write({d}, "bidded")
    BY <1>1 DEF PostCreate
  <2> QED
    BY <2>1, Written DEF Unborn
<1>2. ASSUME NEW w \in Withdrawals, WithdrawWrite(w)
      PROVE  b \in mine[w] /\ status'[b] = "withdrawn"
  BY <1>2, Written DEF WithdrawWrite
<1>3. ASSUME NEW m \in Clients, DecisionCommit(m) PROVE b \in mine[m] /\ status'[b] = "failed"
  BY <1>3, Written DEF DecisionCommit
<1>4. ASSUME NEW k \in Conversions, ConvertCommit(k) PROVE b \in mine[k] /\ status'[b] = "void"
  BY <1>4, Written DEF ConvertCommit, ConvertedStatus
<1>5. ASSUME NEW k \in Conversions, Reopen(k) PROVE b \in mine[k] /\ status'[b] = "bidded"
  BY <1>5, Written DEF Reopen
<1>6. ASSUME NEW c, \/ PostRead(c) \/ PostRefuse(c) \/ WithdrawRead(c)
                   \/ DecisionBegin(c) \/ DecisionAbort(c) \/ ConvertRead(c)
                   \/ ChargeCard(c) \/ ChargeFails(c) \/ RecordCharge(c) \/ Undo(c)
                   \/ CrashEarly(c) \/ CrashLate(c) \/ UNCHANGED bidVars
      PROVE  FALSE
  BY <1>6 DEF PostRead, PostRefuse, WithdrawRead, DecisionBegin, DecisionAbort, ConvertRead,
              ChargeCard, ChargeFails, RecordCharge, Undo, CrashEarly, CrashLate, bidVars
<1> QED
  BY <1>1, <1>2, <1>3, <1>4, <1>5, <1>6
  DEF Next, PostStep, WithdrawStep, DecisionStep, ConvertStep

\* A step of one handler leaves alone how far another one is and what it remembers; what
\* the other one has missed can grow.
LEMMA OthersUntouched ==
  ASSUME BidTypeOK, NEW d \in Handlers, NEW c \in Handlers \ {d}, Step(d)
  PROVE  /\ at'[c] = at[c] /\ mine'[c] = mine[c]
         /\ c \in Readers => missed[c] \subseteq missed'[c]
<1>0. /\ at \in [Handlers -> Steps] /\ mine \in [Handlers -> SUBSET BidIds]
      /\ missed \in [Readers -> SUBSET BidIds]
  BY DEF BidTypeOK
<1>1. at'[c] = at[c]
  BY <1>0 DEF Step, PostStep, WithdrawStep, DecisionStep, ConvertStep, PostRead, PostRefuse,
              PostCreate, WithdrawRead, WithdrawWrite, DecisionBegin, DecisionCommit,
              DecisionAbort, ConvertRead, ConvertCommit, ChargeCard, ChargeFails,
              RecordCharge, Undo, Reopen, CrashEarly, CrashLate, Goto
<1>2. mine'[c] = mine[c]
  BY <1>0 DEF Step, PostStep, WithdrawStep, DecisionStep, ConvertStep, PostRead, PostRefuse,
              PostCreate, WithdrawRead, WithdrawWrite, DecisionBegin, DecisionCommit,
              DecisionAbort, ConvertRead, ConvertCommit, ChargeCard, ChargeFails,
              RecordCharge, Undo, Reopen, CrashEarly, CrashLate
<1>3. ASSUME c \in Readers PROVE missed[c] \subseteq missed'[c]
  <2>1. CASE \E bids : Missed(d, bids)
    BY <1>0, <1>3, <2>1 DEF Missed
  <2>2. CASE missed' = missed \/ missed' = [missed EXCEPT ![d] = {}]
    BY <1>0, <1>3, <2>2
  <2>3. (\E bids : Missed(d, bids)) \/ missed' = missed \/ missed' = [missed EXCEPT ![d] = {}]
    BY DEF Step, PostStep, WithdrawStep, DecisionStep, ConvertStep, PostRead, PostRefuse,
           PostCreate, WithdrawRead, WithdrawWrite, DecisionBegin, DecisionCommit,
           DecisionAbort, ConvertRead, ConvertCommit, ChargeCard, ChargeFails,
           RecordCharge, Undo, Reopen, CrashEarly, CrashLate, Autocommit
  <2> QED
    BY <2>1, <2>2, <2>3
<1> QED
  BY <1>1, <1>2, <1>3

(***************************************************************************)
(* A route is decided once, and failed bids are not sold.  The tags are    *)
(* checked before the transaction commits; that they still are as they were*)
(* is the absence of a conflict on the route's row (UndecidedInSnapshot).  *)
(***************************************************************************)
OneDecision         == tags # {"success", "failed"}
UndecidedInSnapshot == \A m \in Clients : at[m] = "open" /\ RouteRow \notin stale[m] => tags = {}
FailedByRoute       == \A b \in BidIds : status[b] = "failed" => "failed" \in tags
SoldByRoute         == \A k \in Conversions : mine[k] # {} => "success" \in tags
ActivationsTakeNone == \A m \in Clients \ Expirations : mine[m] = {}

RouteInv ==
  OneDecision /\ UndecidedInSnapshot /\ FailedByRoute /\ SoldByRoute /\ ActivationsTakeNone

\* The tags change only by a decision, which finds none and adds its own.
LEMMA DecisionTags ==
  ASSUME BidTypeOK, RouteInv, [Next]_bidVars
  PROVE  \/ tags' = tags
         \/ \E m \in Clients :
              /\ DecisionCommit(m) /\ tags = {}
              /\ tags' = {IF m \in Expirations THEN "failed" ELSE "success"}
<1>1. ASSUME NEW m \in Clients, DecisionCommit(m)
      PROVE  /\ tags = {}
             /\ tags' = {IF m \in Expirations THEN "failed" ELSE "success"}
  <2>1. RouteRow \notin stale[m] /\ at[m] = "open"
    BY <1>1 DEF DecisionCommit, Conflict
  <2> QED
    BY <1>1, <2>1 DEF DecisionCommit, RouteInv, UndecidedInSnapshot
<1>2. ASSUME ~ \E m \in Clients : DecisionCommit(m)
      PROVE  tags' = tags
  BY <1>2 DEF Next, PostStep, WithdrawStep, DecisionStep, ConvertStep, PostRead, PostRefuse,
              PostCreate, WithdrawRead, WithdrawWrite, DecisionBegin,
              DecisionAbort, ConvertRead, ConvertCommit, ChargeCard, ChargeFails,
              RecordCharge, Undo, Reopen, CrashEarly, CrashLate, bidVars
<1> QED
  BY <1>1, <1>2

LEMMA NextRoute == BidTypeOK /\ RouteInv /\ [Next]_bidVars => RouteInv'
<1> SUFFICES ASSUME BidTypeOK, RouteInv, [Next]_bidVars PROVE RouteInv'
  OBVIOUS
<1>0. /\ at \in [Handlers -> Steps] /\ mine \in [Handlers -> SUBSET BidIds]
      /\ open = {m \in Clients : at[m] = "open"}
      /\ Clients \subseteq Handlers /\ Conversions \subseteq Handlers
      /\ Readers \cap Clients = {}
  BY HandlersDisjoint DEF BidTypeOK, Handlers, Readers, Clients
<1>1. OneDecision'
  BY DecisionTags DEF RouteInv, OneDecision
<1>2. FailedByRoute'
  <2> SUFFICES ASSUME NEW b \in BidIds, status'[b] = "failed" PROVE "failed" \in tags'
    BY DEF FailedByRoute
  <2>1. CASE status[b] = "failed"
    BY <2>1, DecisionTags DEF RouteInv, FailedByRoute
  <2>2. CASE status[b] # "failed"
    <3>1. PICK m \in Clients : DecisionCommit(m) /\ b \in mine[m]
      BY <2>2, WhoWrites
    <3>2. m \in Expirations
      BY <3>1 DEF RouteInv, ActivationsTakeNone
    <3> QED
      BY <3>1, <3>2 DEF DecisionCommit
  <2> QED
    BY <2>1, <2>2
<1>3. SoldByRoute'
  <2> SUFFICES ASSUME NEW k \in Conversions, mine'[k] # {} PROVE "success" \in tags'
    BY DEF SoldByRoute
  <2>1. tags \subseteq tags'
    BY DecisionTags
  <2>2. CASE mine'[k] = mine[k]
    BY <2>1, <2>2 DEF RouteInv, SoldByRoute
  <2>3. CASE ConvertRead(k)
    BY <2>1, <2>3 DEF ConvertRead
  <2>4. CASE CrashEarly(k)
    BY <1>0, <2>4 DEF CrashEarly
  <2>5. CASE ConvertStep(k) /\ ~ConvertRead(k)
    <3>1. mine'[k] = mine[k]
      BY <2>5 DEF ConvertStep, ConvertCommit, ChargeCard, ChargeFails, RecordCharge, Undo,
                  Reopen, CrashLate
    <3> QED
      BY <2>2, <3>1
  <2>6. ASSUME NEW d \in Handlers, Step(d), d # k PROVE mine'[k] = mine[k]
    BY <1>0, <2>6, OthersUntouched
  <2>7. ASSUME Step(k) PROVE ConvertStep(k) \/ CrashEarly(k)
    BY <2>7, HandlersDisjoint DEF Step
  <2>8. CASE UNCHANGED bidVars
    BY <2>2, <2>8 DEF bidVars
  <2> QED
    BY <2>2, <2>3, <2>4, <2>5, <2>6, <2>7, <2>8, NextIsAStep
<1>4. UndecidedInSnapshot'
  <2> SUFFICES ASSUME NEW m \in Clients, at'[m] = "open", RouteRow \notin stale'[m]
               PROVE  tags' = {}
    BY DEF UndecidedInSnapshot
  <2>1. CASE DecisionBegin(m)
    BY <2>1 DEF DecisionBegin, Undecided
  <2>2. CASE DecisionCommit(m) \/ DecisionAbort(m)
    BY <1>0, <2>2 DEF DecisionCommit, DecisionAbort, Goto
  <2>3. CASE UNCHANGED bidVars
    BY <2>3 DEF bidVars, RouteInv, UndecidedInSnapshot
  <2>4. ASSUME NEW d \in Handlers, Step(d), d # m PROVE tags' = {}
    <3>1. at[m] = "open" /\ m \in open
      BY <1>0, <2>4, OthersUntouched
    <3>2. CASE d \in Clients /\ DecisionCommit(d)
      <4>1. RouteRow \in stale'[m]
        BY <2>4, <3>1, <3>2 DEF DecisionCommit, EndTx
      <4> QED
        BY <4>1
    <3>3. CASE ~(d \in Clients /\ DecisionCommit(d))
      <4>1. tags' = tags
        BY <2>4, <3>3 DEF Step, PostStep, WithdrawStep, DecisionStep, ConvertStep, PostRead,
              PostRefuse, PostCreate, WithdrawRead, WithdrawWrite, DecisionBegin,
              DecisionAbort, ConvertRead, ConvertCommit, ChargeCard, ChargeFails,
              RecordCharge, Undo, Reopen, CrashEarly, CrashLate
      <4>2. \/ UNCHANGED stale
            \/ \E bids : Autocommit(d, bids)
            \/ EndTx(d, {})
        BY <2>4, <3>3 DEF Step, PostStep, WithdrawStep, DecisionStep, ConvertStep, PostRead,
              PostRefuse, PostCreate, WithdrawRead, WithdrawWrite, DecisionBegin,
              DecisionAbort, ConvertRead, ConvertCommit, ChargeCard, ChargeFails,
              RecordCharge, Undo, Reopen, CrashEarly, CrashLate, BeginTx
      <4>3. stale[m] \subseteq stale'[m]
        BY <2>4, <3>1, <4>2 DEF Autocommit, EndTx
      <4> QED
        BY <3>1, <4>1, <4>3 DEF RouteInv, UndecidedInSnapshot
    <3> QED
      BY <3>2, <3>3
  <2>5. ASSUME Step(m) PROVE DecisionBegin(m) \/ DecisionCommit(m) \/ DecisionAbort(m)
    BY <1>0, <2>5 DEF Step, DecisionStep, Readers
  <2> QED
    BY <2>1, <2>2, <2>3, <2>4, <2>5, NextIsAStep
<1>5. ActivationsTakeNone'
  <2> SUFFICES ASSUME NEW m \in Clients \ Expirations PROVE mine'[m] = {}
    BY DEF ActivationsTakeNone
  <2>0. m \in Clients /\ mine[m] = {}
    BY DEF RouteInv, ActivationsTakeNone
  <2>1. CASE DecisionBegin(m) \/ DecisionCommit(m) \/ DecisionAbort(m)
    BY <1>0, <2>0, <2>1 DEF DecisionBegin, DecisionCommit, DecisionAbort
  <2>2. CASE UNCHANGED bidVars
    BY <2>0, <2>2 DEF bidVars
  <2>3. ASSUME NEW d \in Handlers, Step(d), d # m PROVE mine'[m] = {}
    BY <1>0, <2>0, <2>3, OthersUntouched
  <2>4. ASSUME Step(m) PROVE DecisionBegin(m) \/ DecisionCommit(m) \/ DecisionAbort(m)
    BY <1>0, <2>0, <2>4 DEF Step, DecisionStep, Readers
  <2> QED
    BY <1>0, <2>0, <2>1, <2>2, <2>3, <2>4, NextIsAStep
<1> QED
  BY <1>1, <1>2, <1>3, <1>4, <1>5 DEF RouteInv

LEMMA RouteIsInvariant == Spec => []RouteInv
<1>1. Init => RouteInv
  BY DEF Init, RouteInv, OneDecision, UndecidedInSnapshot, FailedByRoute, SoldByRoute,
         ActivationsTakeNone, Handlers, Readers
<1> QED
  BY <1>1, NextRoute, BidsAreWellTyped, PTL DEF Spec

\* For any number of operators who activate and expire the route at the same time, a bid
\* failed by an expiry is not sold by a conversion.
THEOREM FailedBidsAreNotSold == Spec => []FailedBidNeverConverted
<1>1. BidTypeOK /\ RouteInv => FailedBidNeverConverted
  BY DEF BidTypeOK, RouteInv, OneDecision, FailedByRoute, SoldByRoute, FailedBidNeverConverted
<1> QED
  BY <1>1, RouteIsInvariant, BidsAreWellTyped, PTL

(***************************************************************************)
(* What the standing conversions of a bid explain.                         *)
(***************************************************************************)

\* Who is past its reading and writing remembers what it read and what it missed.
LEMMA ReaderRests ==
  ASSUME BidTypeOK, [Next]_bidVars, NEW c \in Readers, at[c] \notin {"new", "read"}
  PROVE  /\ mine'[c] = mine[c] /\ missed[c] \subseteq missed'[c]
         /\ at[c] \in {"done", "undone", "unpaid"} => at'[c] = at[c]
<1>0. /\ at \in [Handlers -> Steps] /\ missed \in [Readers -> SUBSET BidIds]
      /\ c \in Handlers
  BY DEF BidTypeOK, Handlers
<1>1. CASE UNCHANGED bidVars
  BY <1>1 DEF bidVars
<1>2. ASSUME NEW d \in Handlers \ {c}, Step(d)
      PROVE  mine'[c] = mine[c] /\ missed[c] \subseteq missed'[c] /\ at'[c] = at[c]
  BY <1>0, <1>2, OthersUntouched
<1>3. CASE Step(c)
  <2>1. \/ ChargeCard(c) \/ ChargeFails(c) \/ RecordCharge(c) \/ Undo(c) \/ CrashLate(c)
        \/ Reopen(c)
    BY <1>3, HandlersDisjoint
    DEF Step, Readers, PostStep, WithdrawStep, ConvertStep, PostRead, PostRefuse, PostCreate,
        WithdrawRead, WithdrawWrite, ConvertRead, ConvertCommit, CrashEarly
  <2>2. mine' = mine /\ (missed' = missed \/ Missed(c, mine[c]))
    BY <2>1 DEF ChargeCard, ChargeFails, RecordCharge, Undo, CrashLate, Reopen, Autocommit
  <2>3. missed[c] \subseteq missed'[c]
    BY <1>0, <2>2 DEF Missed
  <2>4. at[c] \notin {"done", "undone", "unpaid"}
    BY <2>1 DEF ChargeCard, ChargeFails, RecordCharge, Undo, CrashLate, Reopen
  <2> QED
    BY <2>2, <2>3, <2>4
<1> QED
  BY <1>1, <1>2, <1>3, NextIsAStep

\* Passes are sold by the commit of a conversion only.
LEMMA BecomesKept ==
  ASSUME BidTypeOK, [Next]_bidVars, NEW k \in Conversions, Kept(k)'
  PROVE  Kept(k) \/ ConvertCommit(k)
<1>0. /\ at \in [Handlers -> Steps] /\ k \in Readers /\ k \in Handlers
  BY DEF BidTypeOK, Handlers, Readers
<1>1. CASE UNCHANGED bidVars
  BY <1>1 DEF bidVars, Kept
<1>2. ASSUME NEW d \in Handlers \ {k}, Step(d) PROVE Kept(k)
  <2>1. at'[k] = at[k]
    BY <1>0, <1>2, OthersUntouched
  <2> QED
    BY <2>1 DEF Kept
<1>3. CASE Step(k)
  <2>1. ConvertStep(k) \/ CrashEarly(k)
    BY <1>3, HandlersDisjoint DEF Step
  <2>2. ASSUME ~Kept(k), ~ConvertCommit(k), CrashEarly(k) \/ ConvertRead(k) PROVE FALSE
    BY <1>0, <2>2 DEF CrashEarly, ConvertRead, Kept, Goto
  <2>3. ASSUME ~Kept(k), Reopen(k) \/ CrashLate(k) PROVE FALSE
    BY <1>0, <2>3 DEF Reopen, CrashLate, Kept, Goto
  <2>4. ASSUME ~Kept(k), ChargeCard(k) \/ ChargeFails(k) \/ RecordCharge(k) \/ Undo(k)
        PROVE  FALSE
    BY <2>4 DEF ChargeCard, ChargeFails, RecordCharge, Undo, Kept
  <2> QED
    BY <2>1, <2>2, <2>3, <2>4 DEF ConvertStep
<1> QED
  BY <1>1, <1>2, <1>3, NextIsAStep

\* A failed conversion stays the explanation that it is.
LEMMA ReopenedStays ==
  ASSUME BidTypeOK, [Next]_bidVars, NEW b,
         Reopened(b) \/ \E k \in Conversions : Reopen(k) /\ b \in mine[k]
  PROVE  Reopened(b)'
<1>1. CASE Reopened(b)
  <2>1. PICK k \in Conversions : b \in mine[k] /\ at[k] \in {"undone", "unpaid"}
    BY <1>1 DEF Reopened
  <2>2. mine'[k] = mine[k] /\ at'[k] = at[k]
    BY <2>1, ReaderRests DEF Readers
  <2> QED
    BY <2>1, <2>2 DEF Reopened
<1>2. ASSUME NEW k \in Conversions, Reopen(k), b \in mine[k] PROVE Reopened(b)'
  <2>1. at'[k] \in {"undone", "unpaid"} /\ mine'[k] = mine[k]
    BY <1>2 DEF BidTypeOK, Handlers, Readers, Reopen, Goto
  <2> QED
    BY <1>2, <2>1 DEF Reopened
<1> QED
  BY <1>1, <1>2

(***************************************************************************)
(* A handler about to write a bid that a standing conversion has sold has  *)
(* missed the sale.  With this, ConversionsExplained and ConvertedBidIsVoid*)
(* are inductive.                                                          *)
(***************************************************************************)
SaleMissed ==
  \A k \in Conversions, c \in (Withdrawals \cup Conversions) : \A b \in mine[k] \cap mine[c] :
    c # k /\ Kept(k) /\ at[c] = "read" => b \in missed[c] \/ Reopened(b)

SaleInv == SaleMissed /\ ConversionsExplained /\ ConvertedBidIsVoid

\* A standing conversion keeps the bid it has sold.
LEMMA KeptRests ==
  ASSUME BidTypeOK, [Next]_bidVars, NEW k \in Conversions, Kept(k)
  PROVE  mine'[k] = mine[k] /\ missed[k] \subseteq missed'[k]
<1>1. k \in Readers /\ at[k] \notin {"new", "read"}
  BY DEF Readers, Kept
<1> QED
  BY <1>1, ReaderRests

\* A sale voids the bid, and is missed by the others that have read it.
LEMMA SaleSeen ==
  ASSUME BidTypeOK, [Next]_bidVars, NEW k \in Conversions, ConvertCommit(k)
  PROVE  /\ mine' = mine /\ at[k] = "read" /\ missed'[k] = missed[k]
         /\ \A b \in mine[k] : status'[b] = "void"
         /\ \A c \in Readers \ {k} :
              at'[c] = at[c] /\ (at[c] = "read" => mine[k] \subseteq missed'[c])
<1>0. /\ at \in [Handlers -> Steps] /\ missed \in [Readers -> SUBSET BidIds]
      /\ mine \in [Handlers -> SUBSET BidIds] /\ k \in Readers /\ k \in Handlers
  BY DEF BidTypeOK, Handlers, Readers
<1>1. mine' = mine /\ at[k] = "read" /\ Missed(k, mine[k])
  BY DEF ConvertCommit, Autocommit
<1>2. \A b \in mine[k] : status'[b] = "void"
  BY <1>0, Written DEF ConvertCommit, ConvertedStatus
<1>3. ASSUME NEW c \in Readers \ {k} PROVE at'[c] = at[c]
  BY <1>0, <1>3 DEF ConvertCommit, Goto, Handlers
<1> QED
  BY <1>0, <1>1, <1>2, <1>3 DEF Missed

LEMMA NextSaleMissed ==
  ASSUME BidTypeOK, SaleInv, [Next]_bidVars
  PROVE  SaleMissed'
<1> SUFFICES ASSUME NEW k \in Conversions, NEW c \in Withdrawals \cup Conversions,
                    NEW b \in mine'[k] \cap mine'[c], c # k, Kept(k)', at'[c] = "read"
             PROVE  b \in missed'[c] \/ Reopened(b)'
  BY DEF SaleMissed
<1>0. /\ at \in [Handlers -> Steps] /\ mine \in [Handlers -> SUBSET BidIds]
      /\ c \in Readers /\ c \in Handlers /\ k \in Readers /\ k \in Handlers
  BY DEF BidTypeOK, Handlers, Readers
<1>1. CASE ~Kept(k)
  <2>1. ConvertCommit(k)
    BY <1>1, BecomesKept
  <2> QED
    BY <1>0, <2>1, SaleSeen
<1>2. CASE Kept(k)
  <2>0. b \in mine[k]
    BY <1>2, KeptRests
  <2>1. ASSUME at[c] = "read", mine'[c] = mine[c], missed[c] \subseteq missed'[c]
        PROVE  b \in missed'[c] \/ Reopened(b)'
    <3>1. b \in missed[c] \/ Reopened(b)
      BY <1>2, <2>0, <2>1 DEF SaleInv, SaleMissed
    <3> QED
      BY <2>1, <3>1, ReopenedStays
  <2>2. CASE WithdrawRead(c) \/ ConvertRead(c)
    <3>1. b \in LiveBids
      BY <1>0, <2>2 DEF WithdrawRead, ConvertRead, Convertible
    <3>2. Reopened(b)
      BY <1>2, <2>0, <3>1 DEF SaleInv, ConvertedBidIsVoid, LiveBids
    <3> QED
      BY <3>2, ReopenedStays
  <2>3. CASE UNCHANGED bidVars
    BY <2>1, <2>3 DEF bidVars
  <2>4. ASSUME NEW d \in Handlers \ {c}, Step(d)
        PROVE  at[c] = "read" /\ mine'[c] = mine[c] /\ missed[c] \subseteq missed'[c]
    BY <1>0, <2>4, OthersUntouched
  <2>5. ASSUME Step(c) PROVE WithdrawRead(c) \/ ConvertRead(c)
    <3>1. WithdrawStep(c) \/ ConvertStep(c) \/ CrashEarly(c)
      BY <2>5, HandlersDisjoint DEF Step
    <3>2. ~CrashEarly(c) /\ ~WithdrawWrite(c)
      BY <1>0 DEF CrashEarly, WithdrawWrite, Goto
    <3>3. ~ConvertCommit(c) /\ ~ChargeCard(c) /\ ~ChargeFails(c) /\ ~RecordCharge(c)
      BY <1>0 DEF ConvertCommit, ChargeCard, ChargeFails, RecordCharge, Goto
    <3>4. ~Undo(c) /\ ~Reopen(c) /\ ~CrashLate(c)
      BY <1>0 DEF Undo, Reopen, CrashLate, Goto
    <3> QED
      BY <3>1, <3>2, <3>3, <3>4 DEF WithdrawStep, ConvertStep
  <2> QED
    BY <1>0, <2>1, <2>2, <2>3, <2>4, <2>5, NextIsAStep
<1> QED
  BY <1>1, <1>2

LEMMA NextExplained ==
  ASSUME BidTypeOK, SaleInv, [Next]_bidVars
  PROVE  ConversionsExplained'
<1>1. ASSUME NEW k \in Conversions, NEW l \in Conversions, k # l, Kept(k), ConvertCommit(l),
             NEW b \in mine'[k] \cap mine'[l]
      PROVE  b \in missed'[l] \/ Reopened(b)'
  <2>1. b \in mine[k] \cap mine[l] /\ at[l] = "read" /\ missed'[l] = missed[l]
    BY <1>1, SaleSeen
  <2>2. b \in missed[l] \/ Reopened(b)
    BY <1>1, <2>1 DEF SaleInv, SaleMissed
  <2> QED
    BY <2>1, <2>2, ReopenedStays
<1> SUFFICES ASSUME NEW k \in Conversions, NEW l \in Conversions,
                    NEW b \in mine'[k] \cap mine'[l], k # l, Kept(k)', Kept(l)'
             PROVE  b \in missed'[k] \cup missed'[l] \/ Reopened(b)'
  BY DEF ConversionsExplained
<1>2. CASE Kept(k) /\ Kept(l)
  <2>1. /\ b \in mine[k] \cap mine[l]
        /\ missed[k] \subseteq missed'[k] /\ missed[l] \subseteq missed'[l]
    BY <1>2, KeptRests
  <2>2. b \in missed[k] \cup missed[l] \/ Reopened(b)
    BY <1>2, <2>1 DEF SaleInv, ConversionsExplained
  <2> QED
    BY <2>1, <2>2, ReopenedStays
<1>3. CASE Kept(k) /\ ~Kept(l)
  BY <1>1, <1>3, BecomesKept
<1>4. CASE ~Kept(k) /\ Kept(l)
  BY <1>1, <1>4, BecomesKept
<1>5. CASE ~Kept(k) /\ ~Kept(l)
  <2>1. ConvertCommit(k) /\ ConvertCommit(l)
    BY <1>5, BecomesKept
  <2>2. l \in Readers \ {k} /\ at[l] = "read" /\ l \in Handlers
    BY <2>1 DEF Readers, Handlers, ConvertCommit
  <2>3. at'[l] = "read"
    BY <2>1, <2>2, SaleSeen
  <2>4. at'[l] = "stripe"
    BY <2>1, <2>2 DEF ConvertCommit, Goto, BidTypeOK
  <2> QED
    BY <2>3, <2>4
<1> QED
  BY <1>2, <1>3, <1>4, <1>5

LEMMA NextVoid ==
  ASSUME BidTypeOK, RouteInv', BidTypeOK', SaleInv, [Next]_bidVars
  PROVE  ConvertedBidIsVoid'
<1> DEFINE Overwritten(b) ==
      \E w \in Withdrawals : at[w] = "done" /\ b \in mine[w] \cap missed[w]
<1> SUFFICES ASSUME NEW k \in Conversions, NEW b \in mine'[k], Kept(k)', status'[b] # "void"
             PROVE  (status'[b] = "withdrawn" /\ Overwritten(b)') \/ Reopened(b)'
  BY DEF ConvertedBidIsVoid
<1>1. Kept(k) /\ b \in mine[k] /\ b \in BidIds
  <2>1. ~ConvertCommit(k)
    BY SaleSeen
  <2> QED
    BY <2>1, BecomesKept, KeptRests DEF BidTypeOK, Handlers, Readers
<1>2. status'[b] # "failed"
  BY <1>1 DEF RouteInv, OneDecision, FailedByRoute, SoldByRoute, BidTypeOK
<1>3. ASSUME Overwritten(b) PROVE Overwritten(b)'
  <2>1. PICK w \in Withdrawals : at[w] = "done" /\ b \in mine[w] \cap missed[w]
    BY <1>3
  <2>2. at'[w] = at[w] /\ mine'[w] = mine[w] /\ missed[w] \subseteq missed'[w]
    BY <2>1, ReaderRests DEF Readers
  <2> QED
    BY <2>1, <2>2
<1>4. CASE status'[b] = status[b]
  BY <1>1, <1>3, <1>4, ReopenedStays DEF SaleInv, ConvertedBidIsVoid
<1>5. CASE status[b] = "none"
  BY <1>1, <1>5, ReopenedStays DEF SaleInv, ConvertedBidIsVoid
<1>6. ASSUME NEW w \in Withdrawals, WithdrawWrite(w), b \in mine[w], status'[b] = "withdrawn"
      PROVE  Overwritten(b)' \/ Reopened(b)'
  <2>1. /\ at[w] = "read" /\ at'[w] = "done" /\ mine' = mine /\ missed'[w] = missed[w]
    BY <1>6 DEF WithdrawWrite, Goto, BidTypeOK, Handlers, Readers, Autocommit, Missed
  <2>2. w # k
    BY HandlersDisjoint
  <2>3. b \in missed[w] \/ Reopened(b)
    BY <1>1, <1>6, <2>1, <2>2 DEF SaleInv, SaleMissed
  <2> QED
    BY <1>6, <2>1, <2>3, ReopenedStays
<1> QED
  BY <1>1, <1>2, <1>4, <1>5, <1>6, WhoWrites, ReopenedStays

LEMMA SalesAreInvariant == Spec => []SaleInv
<1>1. Init => SaleInv
  BY DEF Init, SaleInv, SaleMissed, ConversionsExplained, ConvertedBidIsVoid, Handlers,
         Readers
<1>2. BidTypeOK /\ BidTypeOK' /\ RouteInv' /\ SaleInv /\ [Next]_bidVars => SaleInv'
  BY NextSaleMissed, NextExplained, NextVoid DEF SaleInv
<1> QED
  BY <1>1, <1>2, RouteIsInvariant, BidsAreWellTyped, PTL DEF Spec

\* For any number of overlapping conversions, a bid is sold twice only by conversions that
\* overlapped or after a failed conversion made it live again.
THEOREM DoubleSalesAreExplained == Spec => []ConversionsExplained
BY SalesAreInvariant, PTL DEF SaleInv

\* For any number of overlapping withdrawals, conversions and expiries, the bid of a
\* standing conversion is void, unless a withdrawal has overwritten it unseen or another
\* conversion has failed and made it live again.
THEOREM SoldBidsAreVoid == Spec => []ConvertedBidIsVoid
BY SalesAreInvariant, PTL DEF SaleInv


(***************************************************************************)
(* Posts that overlap.  A post about to create a bid has missed every live *)
(* bid of its user, or the bid is live again after a failed conversion.    *)
(***************************************************************************)
PostsRemember ==
  \A p \in Posts :
    /\ mine[p] # {} => at[p] = "done"
    /\ \A b \in mine[p] : status[b] # "none" /\ mine[p] = {b}

BidMissed ==
  \A p, q \in Posts : \A b \in mine[p] \cap LiveBids :
    at[q] = "read" /\ user[p] = user[q] => b \in missed[q] \/ Reopened(b)

PostInv == PostsRemember /\ BidMissed /\ DuplicateBidsExplained

\* Post p creates bid b, which the others that have looked for bids miss.
Creates(p, b) ==
  /\ at[p] = "read" /\ at'[p] = "done" /\ missed'[p] = missed[p]
  /\ b \in BidIds /\ status[b] = "none" /\ status'[b] = "bidded"
  /\ \A d \in BidIds \ {b} : status'[d] = status[d]
  /\ mine'[p] = {b} /\ \A q \in Posts \ {p} : mine'[q] = mine[q]
  /\ \A q \in Posts \ {p} : at'[q] = at[q] /\ (at[q] = "read" => b \in missed'[q])

LEMMA CreationSeen ==
  ASSUME BidTypeOK, NEW p \in Posts, PostCreate(p)
  PROVE  \E b \in BidIds : Creates(p, b)
<1>0. /\ at \in [Handlers -> Steps] /\ missed \in [Readers -> SUBSET BidIds]
      /\ mine \in [Handlers -> SUBSET BidIds] /\ status \in [BidIds -> Statuses]
      /\ Posts \subseteq Readers /\ Posts \subseteq Handlers
  BY DEF BidTypeOK, Handlers, Readers
<1>1. PICK b \in Unborn : /\ Write({b}, "bidded")
                          /\ mine' = [mine EXCEPT ![p] = {b}]
                          /\ Autocommit(p, {b})
  BY DEF PostCreate
<1>2. at[p] = "read" /\ at' = [at EXCEPT ![p] = "done"]
  BY DEF PostCreate, Goto
<1>3. b \in BidIds /\ status[b] = "none"
  BY <1>1 DEF Unborn
<1>4. status'[b] = "bidded" /\ \A d \in BidIds \ {b} : status'[d] = status[d]
  BY <1>1, <1>3, Written
<1>5. missed'[p] = missed[p] /\ \A q \in Posts \ {p} : at[q] = "read" => b \in missed'[q]
  BY <1>0, <1>1, <1>2 DEF Autocommit, Missed
<1>6. at'[p] = "done" /\ \A q \in Posts \ {p} : at'[q] = at[q]
  BY <1>0, <1>2
<1>7. mine'[p] = {b} /\ \A q \in Posts \ {p} : mine'[q] = mine[q]
  BY <1>0, <1>1
<1> QED
  BY <1>2, <1>3, <1>4, <1>5, <1>6, <1>7 DEF Creates

\* What a step may do to a post.
LEMMA PostSteps ==
  ASSUME BidTypeOK, PostsRemember, [Next]_bidVars, NEW p \in Posts
  PROVE  \/ at'[p] = at[p] /\ mine'[p] = mine[p] /\ missed[p] \subseteq missed'[p]
         \/ /\ NoLiveBid(user[p]) /\ at'[p] = "read"
            /\ UNCHANGED <<mine, status, missed>> /\ mine[p] = {}
         \/ at'[p] = "rejected" /\ mine'[p] = {}
         \/ \E b \in BidIds : Creates(p, b)
<1>0. /\ at \in [Handlers -> Steps] /\ mine \in [Handlers -> SUBSET BidIds]
      /\ p \in Handlers /\ p \in Readers
  BY DEF BidTypeOK, Handlers, Readers
<1>1. CASE UNCHANGED bidVars
  BY <1>1 DEF bidVars
<1>2. ASSUME NEW d \in Handlers \ {p}, Step(d)
      PROVE  at'[p] = at[p] /\ mine'[p] = mine[p] /\ missed[p] \subseteq missed'[p]
  BY <1>0, <1>2, OthersUntouched
<1>3. CASE PostRead(p)
  BY <1>0, <1>3 DEF PostRead, Goto, PostsRemember
<1>4. CASE PostRefuse(p)
  BY <1>0, <1>4 DEF PostRefuse, Goto, PostsRemember
<1>5. CASE CrashEarly(p)
  BY <1>0, <1>5 DEF CrashEarly, Goto
<1>6. ASSUME Step(p)
      PROVE  PostRead(p) \/ PostRefuse(p) \/ PostCreate(p) \/ CrashEarly(p)
  BY <1>6, HandlersDisjoint DEF Step, PostStep
<1> QED
  BY <1>1, <1>2, <1>3, <1>4, <1>5, <1>6, CreationSeen, NextIsAStep

LEMMA UsersStay ==
  ASSUME [Next]_bidVars
  PROVE  user' = user
  BY DEF Next, PostStep, WithdrawStep, DecisionStep, ConvertStep, PostRead, PostRefuse,
         PostCreate, WithdrawRead, WithdrawWrite, DecisionBegin, DecisionCommit,
         DecisionAbort, ConvertRead, ConvertCommit, ChargeCard, ChargeFails,
         RecordCharge, Undo, Reopen, CrashEarly, CrashLate, bidVars

\* A bid that was made becomes live again by a failed conversion only.
LEMMA BecomesLive ==
  ASSUME BidTypeOK, [Next]_bidVars, NEW b \in BidIds, status[b] # "none"
  PROVE  /\ status'[b] # "none"
         /\ status'[b] = "bidded" => status[b] = "bidded" \/ Reopened(b)'
  BY WhoWrites, ReopenedStays

LEMMA NextPostsRemember ==
  ASSUME BidTypeOK, PostsRemember, [Next]_bidVars
  PROVE  PostsRemember'
<1> SUFFICES ASSUME NEW p \in Posts
             PROVE  /\ mine'[p] # {} => at'[p] = "done"
                    /\ \A b \in mine'[p] : status'[b] # "none" /\ mine'[p] = {b}
  BY DEF PostsRemember
<1>1. CASE at'[p] = at[p] /\ mine'[p] = mine[p]
  <2>1. \A b \in mine[p] : b \in BidIds /\ status[b] # "none" /\ mine[p] = {b}
    BY DEF BidTypeOK, PostsRemember, Handlers, Readers
  <2>2. \A b \in mine[p] : status'[b] # "none"
    BY <2>1, BecomesLive
  <2> QED
    BY <1>1, <2>1, <2>2 DEF PostsRemember
<1>2. CASE mine'[p] = {}
  BY <1>2
<1>3. CASE \E b \in BidIds : Creates(p, b)
  BY <1>3 DEF Creates
<1> QED
  BY <1>1, <1>2, <1>3, PostSteps

LEMMA NextBidMissed ==
  ASSUME BidTypeOK, PostInv, [Next]_bidVars
  PROVE  BidMissed'
<1> SUFFICES ASSUME NEW p \in Posts, NEW q \in Posts, NEW b \in mine'[p], b \in LiveBids',
                    at'[q] = "read", user[p] = user[q]
             PROVE  b \in missed'[q] \/ Reopened(b)'
  BY UsersStay DEF BidMissed
<1>1. b \in BidIds /\ status'[b] = "bidded" /\ PostsRemember
  BY DEF LiveBids, PostInv
<1>2. CASE b \in mine[p]
  <2>1. status[b] = "bidded" \/ Reopened(b)'
    BY <1>1, <1>2, BecomesLive DEF PostsRemember
  <2>2. CASE status[b] = "bidded"
    <3>1. b \in mine[p] \cap LiveBids
      BY <1>1, <1>2, <2>2 DEF LiveBids
    <3>2. ~NoLiveBid(user[q])
      BY <3>1 DEF NoLiveBid, Live
    <3>3. at[q] = "read" /\ missed[q] \subseteq missed'[q]
      BY <1>1, <3>2, PostSteps DEF Creates
    <3>4. b \in missed[q] \/ Reopened(b)
      BY <3>1, <3>3 DEF PostInv, BidMissed
    <3> QED
      BY <3>3, <3>4, ReopenedStays
  <2> QED
    BY <2>1, <2>2
<1>3. CASE b \notin mine[p]
  <2>1. PICK d \in BidIds : Creates(p, d)
    BY <1>1, <1>3, PostSteps
  <2>2. b = d /\ q \in Posts \ {p}
    BY <2>1 DEF Creates
  <2> QED
    BY <2>1, <2>2 DEF Creates
<1> QED
  BY <1>2, <1>3

\* A post that creates a bid beside a live one of its user.
LEMMA CreatesBeside ==
  ASSUME BidTypeOK, PostInv, [Next]_bidVars,
         NEW p \in Posts, NEW q \in Posts, NEW b \in mine[p], NEW d \in mine'[q], d \notin mine[q],
         b # d, user[p] = user[q], b \in LiveBids'
  PROVE  b \in missed'[q] \/ Reopened(b)'
<1>1. PostsRemember /\ b \in BidIds /\ status'[b] = "bidded"
  BY DEF PostInv, LiveBids
<1>2. PICK e \in BidIds : Creates(q, e)
  BY <1>1, PostSteps
<1>3. e = d /\ at[q] = "read" /\ missed'[q] = missed[q] /\ status[b] = "bidded"
  BY <1>1, <1>2 DEF Creates
<1>4. b \in missed[q] \/ Reopened(b)
  BY <1>1, <1>3 DEF PostInv, BidMissed, LiveBids
<1> QED
  BY <1>3, <1>4, ReopenedStays

LEMMA NextDuplicates ==
  ASSUME BidTypeOK, PostInv, [Next]_bidVars
  PROVE  DuplicateBidsExplained'
<1> SUFFICES ASSUME NEW p \in Posts, NEW q \in Posts, NEW b \in mine'[p], NEW d \in mine'[q],
                    b # d, user[p] = user[q], b \in LiveBids', d \in LiveBids'
             PROVE  \/ b \in missed'[q] \/ d \in missed'[p]
                    \/ Reopened(b)' \/ Reopened(d)'
  BY UsersStay DEF DuplicateBidsExplained
<1>1. /\ PostsRemember
      /\ b \in BidIds /\ status'[b] = "bidded" /\ d \in BidIds /\ status'[d] = "bidded"
  BY DEF PostInv, LiveBids
<1>2. CASE b \in mine[p] /\ d \in mine[q]
  <2>1. CASE status[b] = "bidded" /\ status[d] = "bidded"
    <3>1. b \in missed[q] \/ d \in missed[p] \/ Reopened(b) \/ Reopened(d)
      BY <1>1, <1>2, <2>1 DEF PostInv, DuplicateBidsExplained, LiveBids
    <3>2. at[p] = "done" /\ at[q] = "done" /\ p \in Readers /\ q \in Readers
      BY <1>1, <1>2 DEF PostsRemember, Readers
    <3>3. missed[p] \subseteq missed'[p] /\ missed[q] \subseteq missed'[q]
      BY <3>2, ReaderRests
    <3> QED
      BY <3>1, <3>3, ReopenedStays
  <2>2. CASE status[b] # "bidded"
    BY <1>1, <1>2, <2>2, BecomesLive DEF PostsRemember
  <2>3. CASE status[d] # "bidded"
    BY <1>1, <1>2, <2>3, BecomesLive DEF PostsRemember
  <2> QED
    BY <2>1, <2>2, <2>3
<1>3. CASE b \in mine[p] /\ d \notin mine[q]
  BY <1>3, CreatesBeside
<1>4. CASE b \notin mine[p] /\ d \in mine[q]
  BY <1>4, CreatesBeside
<1>5. CASE b \notin mine[p] /\ d \notin mine[q]
  <2>1. PICK e \in BidIds : Creates(p, e)
    BY <1>1, <1>5, PostSteps
  <2>2. q = p
    BY <1>5, <2>1 DEF Creates
  <2> QED
    BY <2>1, <2>2 DEF Creates
<1> QED
  BY <1>2, <1>3, <1>4, <1>5

\* For any number of overlapping posts, withdrawals and conversions, a user has two live
\* bids only if neither post saw the other's bid, or after a failed conversion.
THEOREM TwoLiveBidsAreExplained == Spec => []DuplicateBidsExplained
<1>1. Init => PostInv
  BY DEF Init, PostInv, PostsRemember, BidMissed, DuplicateBidsExplained, Handlers, Readers
<1>2. BidTypeOK /\ PostInv /\ [Next]_bidVars => PostInv'
  BY NextPostsRemember, NextBidMissed, NextDuplicates DEF PostInv
<1>3. PostInv => DuplicateBidsExplained
  BY DEF PostInv
<1> QED
  BY <1>1, <1>2, <1>3, BidsAreWellTyped, PTL DEF Spec
===============================================================================
