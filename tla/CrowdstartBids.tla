---------------------------- MODULE CrowdstartBids -----------------------------
(***************************************************************************)
(* The life of a crowdstart route: users bid for it, operators activate or *)
(* expire it, and the bids for an activated route are converted: route     *)
(* passes are sold to the bidder and the saved card is charged.            *)
(*                                                                         *)
(* Activation and expiry are transactions of DbTransactions.  Bids are     *)
(* posted, withdrawn and picked for conversion by handlers that read them  *)
(* with one statement and write them with another, outside of transactions.*)
(***************************************************************************)
EXTENDS Integers, FiniteSets

CONSTANTS
  Users,
  Posts,         \* requests POST /crowdstart/routes/{id}/bids
  Withdrawals,   \* requests DELETE of a bid, by its user or by an operator
  Conversions,   \* requests POST /crowdstart/routes/{id}/bids/{id}/convert
  Activations,   \* requests POST /crowdstart/routes/{id}/activate
  Expirations,   \* requests POST /crowdstart/routes/{id}/expire
  MaxBids,       \* bound on the rows of the table bids
  Faults         \* which failures of the environment are considered

Readers == Posts \cup Withdrawals \cup Conversions
Clients == Activations \cup Expirations
Handlers == Readers \cup Clients
BidIds  == 1..MaxBids
RouteRow == 0

ASSUME BidsBound == MaxBids \in Nat
ASSUME FaultKinds == Faults \subseteq {"crash", "lostReply", "dbError", "passTaken"}
ASSUME HandlersDisjoint ==
  /\ Posts \cap (Withdrawals \cup Conversions \cup Clients) = {}
  /\ Withdrawals \cap (Conversions \cup Clients) = {}
  /\ Conversions \cap Clients = {}
  /\ Activations \cap Expirations = {}

VARIABLES
  tags,     \* table routes: the tags "success" and "failed" of the route
  status,   \* table bids: the status of each bid ("none": no row)
  at,       \* how far each handler is
  mine,     \* the bids each handler has read, or has made if it is a post
  user,     \* the user of each post
  charged,  \* conversions for which Stripe has charged the card
  missed,   \* history: the bids written by others between a handler's reading and its writing
  open, stale

bidVars == <<tags, status, at, mine, user, charged, missed, open, stale>>

INSTANCE DbTransactions

Statuses == {"none", "bidded", "withdrawn", "void", "failed"}
Steps ==
  {"new", "read", "open", "stripe", "charged", "undoing", "reopening", "reopeningUnpaid",
   "done", "undone", "unpaid", "halted", "rejected", "stranded"}

LiveBids == {b \in BidIds : status[b] = "bidded"}
Live(u)  == {b \in LiveBids : \E p \in Posts : b \in mine[p] /\ user[p] = u}
Unborn  == {b \in BidIds : status[b] = "none"}

Goto(c, step) == at' = [at EXCEPT ![c] = step]
Write(bids, s) == status' = [b \in BidIds |-> IF b \in bids THEN s ELSE status[b]]

\* Handlers that have read bids and not written yet miss a write by another one.
Missed(c, bids) ==
  missed' = [d \in Readers |->
               IF at[d] = "read" /\ d # c THEN missed[d] \cup bids ELSE missed[d]]

\* A statement outside of transactions writes these rows.
Autocommit(c, bids) ==
  /\ Missed(c, bids)
  /\ stale' = [d \in Clients |-> IF d \in open THEN stale[d] \cup bids ELSE {}]
  /\ UNCHANGED open

Init ==
  /\ tags = {}
  /\ status = [b \in BidIds |-> "none"]
  /\ at = [c \in Handlers |-> "new"]
  /\ mine = [c \in Handlers |-> {}]
  /\ user \in [Posts -> Users]
  /\ charged = {}
  /\ missed = [c \in Readers |-> {}]
  /\ open = {}
  /\ stale = [c \in Clients |-> {}]

(***************************************************************************)
(* Posting a bid: no live bid of the user is found, and one is created.    *)
(***************************************************************************)
\* Mutant of NoLiveBid: the check is left out.
AnyBids(u)   == TRUE
\* "A bid has already been made for this route"
NoLiveBid(u) == Live(u) = {}

PostRead(p) ==
  /\ at[p] = "new"
  /\ NoLiveBid(user[p])
  /\ Goto(p, "read")
  /\ UNCHANGED <<tags, status, mine, user, charged, missed, open, stale>>

PostRefuse(p) ==
  /\ at[p] = "new"
  /\ ~NoLiveBid(user[p])
  /\ Goto(p, "rejected")
  /\ UNCHANGED <<tags, status, mine, user, charged, missed, open, stale>>

PostCreate(p) ==
  /\ at[p] = "read"
  /\ \E b \in Unborn :
       /\ \A other \in Unborn : b <= other
       /\ Write({b}, "bidded")
       /\ mine' = [mine EXCEPT ![p] = {b}]
       /\ Autocommit(p, {b})
  /\ Goto(p, "done")
  /\ UNCHANGED <<tags, user, charged>>

(***************************************************************************)
(* Withdrawing a bid.                                                      *)
(***************************************************************************)
WithdrawRead(w) ==
  /\ at[w] = "new"
  /\ \E b \in LiveBids : mine' = [mine EXCEPT ![w] = {b}]
  /\ Goto(w, "read")
  /\ UNCHANGED <<tags, status, user, charged, missed, open, stale>>

\* Whatever the row says by now.
WithdrawWrite(w) ==
  /\ at[w] = "read"
  /\ Write(mine[w], "withdrawn")
  /\ Goto(w, "done")
  /\ Autocommit(w, mine[w])
  /\ UNCHANGED <<tags, mine, user, charged>>

(***************************************************************************)
(* Activating and expiring the route.                                      *)
(***************************************************************************)
\* "Route has been failed or activated already"
Undecided == tags = {}

\* Both read the route; expiry will write the bids that are live in its snapshot.
DecisionBegin(m) ==
  /\ at[m] = "new"
  /\ Undecided
  /\ mine' = [mine EXCEPT ![m] = IF m \in Expirations THEN LiveBids ELSE {}]
  /\ Goto(m, "open")
  /\ BeginTx(m)
  /\ UNCHANGED <<tags, status, user, charged, missed>>

DecisionCommit(m) ==
  /\ at[m] = "open"
  /\ ~Conflict(m, {RouteRow} \cup mine[m])
  /\ tags' = tags \cup {IF m \in Expirations THEN "failed" ELSE "success"}
  /\ Write(mine[m], "failed")
  /\ Goto(m, "done")
  /\ Missed(m, mine[m])
  /\ EndTx(m, {RouteRow} \cup mine[m])
  /\ UNCHANGED <<mine, user, charged>>

DecisionAbort(m) ==
  /\ at[m] = "open"
  /\ Conflict(m, {RouteRow} \cup mine[m])
  /\ Goto(m, "rejected")
  /\ mine' = [mine EXCEPT ![m] = {}]
  /\ EndTx(m, {})
  /\ UNCHANGED <<tags, status, user, charged, missed>>

(***************************************************************************)
(* Converting a bid for an activated route.                                *)
(***************************************************************************)
\* Mutant of Convertible: the status of the bid is not looked at.
EveryBid    == {b \in BidIds : status[b] # "none"}
\* "Bid has status ..., not bidded"
Convertible == LiveBids

ConvertRead(k) ==
  /\ at[k] = "new"
  /\ "success" \in tags
  /\ \E b \in Convertible : mine' = [mine EXCEPT ![k] = {b}]
  /\ Goto(k, "read")
  /\ UNCHANGED <<tags, status, user, charged, missed, open, stale>>

\* Mutant of ConvertedStatus: the hook that voids the bid is not run.
StillBidded     == "bidded"
\* postTransactionHook
ConvertedStatus == "void"

\* purchaseRoutePass: passes are sold, and the bid is voided, in one transaction.
ConvertCommit(k) ==
  /\ at[k] = "read"
  /\ Write(mine[k], ConvertedStatus)
  /\ Goto(k, "stripe")
  /\ Autocommit(k, mine[k])
  /\ UNCHANGED <<tags, mine, user, charged>>

ChargeCard(k) ==
  /\ at[k] = "stripe"
  /\ charged' = charged \cup {k}
  /\ Goto(k, "charged")
  /\ UNCHANGED <<tags, status, mine, user, missed, open, stale>>

\* Declined, or charged with the answer lost.
ChargeFails(k) ==
  /\ at[k] = "stripe"
  /\ \/ UNCHANGED charged
     \/ "lostReply" \in Faults /\ charged' = charged \cup {k}
  /\ Goto(k, "undoing")
  /\ UNCHANGED <<tags, status, mine, user, missed, open, stale>>

RecordCharge(k) ==
  /\ at[k] = "charged"
  /\ \/ Goto(k, "done")
     \/ "dbError" \in Faults /\ Goto(k, "undoing")
  /\ UNCHANGED <<tags, status, mine, user, charged, missed, open, stale>>

\* undoFn fails the passes, unless a purchase that takes one of them gets in between.
Undo(k) ==
  /\ at[k] = "undoing"
  /\ \/ Goto(k, "reopening")
     \/ "passTaken" \in Faults /\ Goto(k, "reopeningUnpaid")
  /\ UNCHANGED <<tags, status, mine, user, charged, missed, open, stale>>

\* Finally, the bid is live again, whatever the row says by now.
Reopen(k) ==
  /\ at[k] \in {"reopening", "reopeningUnpaid"}
  /\ Write(mine[k], "bidded")
  /\ Goto(k, IF at[k] = "reopening" THEN "undone" ELSE "unpaid")
  /\ Autocommit(k, mine[k])
  /\ UNCHANGED <<tags, mine, user, charged>>

\* The server stops, or a statement of the handler fails: nobody goes on.
CrashEarly(c) ==
  /\ "crash" \in Faults
  /\ at[c] = "read"
  /\ Goto(c, "rejected")
  /\ mine' = [mine EXCEPT ![c] = {}]
  /\ missed' = [missed EXCEPT ![c] = {}]
  /\ UNCHANGED <<tags, status, user, charged, open, stale>>

CrashLate(k) ==
  /\ "crash" \in Faults
  /\ at[k] \in {"stripe", "charged", "undoing", "reopening", "reopeningUnpaid"}
  /\ Goto(k, IF at[k] = "reopening" THEN "halted" ELSE "stranded")
  /\ \/ UNCHANGED charged
     \/ at[k] = "stripe" /\ charged' = charged \cup {k}
  /\ UNCHANGED <<tags, status, mine, user, missed, open, stale>>

-------------------------------------------------------------------------------
PostStep(p)     == PostRead(p) \/ PostRefuse(p) \/ PostCreate(p)
WithdrawStep(w) == WithdrawRead(w) \/ WithdrawWrite(w)
DecisionStep(m) == DecisionBegin(m) \/ DecisionCommit(m) \/ DecisionAbort(m)
ConvertStep(k) ==
  \/ ConvertRead(k) \/ ConvertCommit(k)
  \/ ChargeCard(k) \/ ChargeFails(k) \/ RecordCharge(k)
  \/ Undo(k) \/ Reopen(k) \/ CrashLate(k)

Next ==
  \/ \E p \in Posts : PostStep(p)
  \/ \E w \in Withdrawals : WithdrawStep(w)
  \/ \E m \in Clients : DecisionStep(m)
  \/ \E k \in Conversions : ConvertStep(k)
  \/ \E c \in Readers : CrashEarly(c)

Spec == Init /\ [][Next]_bidVars

-------------------------------------------------------------------------------
(***************************************************************************)
(* Properties.                                                             *)
(***************************************************************************)

\* Every variable stays within its type, and open transactions are those of decisions
\* being taken.
BidTypeOK ==
  /\ tags \subseteq {"success", "failed"}
  /\ status \in [BidIds -> Statuses]
  /\ at \in [Handlers -> Steps]
  /\ mine \in [Handlers -> SUBSET BidIds]
  /\ user \in [Posts -> Users]
  /\ charged \subseteq Conversions
  /\ missed \in [Readers -> SUBSET BidIds]
  /\ open = {m \in Clients : at[m] = "open"}
  /\ stale \in [Clients -> SUBSET (BidIds \cup {RouteRow})]
  /\ \A m \in Clients \ open : stale[m] = {}

\* The passes of a conversion are sold, and not undone.
Kept(k) ==
  at[k] \in {"stripe", "charged", "undoing", "reopeningUnpaid", "done", "unpaid", "stranded"}

\* A failed conversion has made the bid live again.
Reopened(b) ==
  \E k \in Conversions : b \in mine[k] /\ at[k] \in {"undone", "unpaid"}

\* Bids failed by the expiry of their route are never sold: activation and expiry
\* exclude each other although each checks the tags in its own snapshot, and a
\* conversion trusts the tags it has read without a transaction.
FailedBidNeverConverted ==
  \A b \in BidIds : status[b] = "failed" => \A k \in Conversions : b \notin mine[k]

\* A user has two live bids only if their posts overlapped, neither seeing the other's
\* bid, or if the failed conversion of one has made it live again.
DuplicateBidsExplained ==
  \A p, q \in Posts : \A b \in mine[p], d \in mine[q] :
    b # d /\ user[p] = user[q] /\ {b, d} \subseteq LiveBids =>
      b \in missed[q] \/ d \in missed[p] \/ Reopened(b) \/ Reopened(d)

\* A bid is sold twice only if the conversions overlapped, or if a failed conversion has
\* made it live again.
ConversionsExplained ==
  \A k, l \in Conversions : \A b \in mine[k] \cap mine[l] :
    k # l /\ Kept(k) /\ Kept(l) => b \in missed[k] \cup missed[l] \/ Reopened(b)

\* The bid of a conversion that stands is void, unless a withdrawal has overwritten it
\* without seeing the conversion, or another, failed conversion has made it live again.
ConvertedBidIsVoid ==
  \A k \in Conversions : \A b \in mine[k] :
    Kept(k) /\ status[b] # "void" =>
      \/ /\ status[b] = "withdrawn"
         /\ \E w \in Withdrawals : at[w] = "done" /\ b \in mine[w] \cap missed[w]
      \/ Reopened(b)
===============================================================================
