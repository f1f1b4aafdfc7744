-------------------------------- MODULE Rewards --------------------------------
(***************************************************************************)
(* What customers are given: uses of one promotion, credits and referral   *)
(* credits, and the reward for having referred somebody.                   *)
(*                                                                         *)
(* A purchase reads and spends them in its database transaction and gives  *)
(* them back when its card is declined.  Once it is paid for it emits the  *)
(* event newPurchase, and two handlers of that event count the use of the  *)
(* promotion and pay the referrer.  Events live in memory: nothing of      *)
(* them survives a crash.  What the promotion takes off, and how much of   *)
(* the price credits pay, is Pricing; here a ticket costs two units, the   *)
(* promotion makes it free.                                                *)
(***************************************************************************)
EXTENDS Integers, FiniteSets, SequencesExt

CONSTANTS
  Users,
  Nobody,        \* users.referrerId is null
  Purchases,     \* requests POST /transactions/tickets/payment
  Applications,  \* requests POST /user/applyRefCode
  GlobalLimit,   \* params.usageLimit of the promotion
  UserLimit,
  MaxTickets,    \* bound on the tickets of a purchase
  FirstCredits,  \* credits of every user at the start
  Reward         \* REFERRAL_REFERER_REWARD and REFERRAL_REFEREE_REWARD

Clients == Purchases \cup Applications

ASSUME NobodyIsNoUser == Nobody \notin Users
ASSUME LimitsAreSet == GlobalLimit \in Nat \ {0} /\ UserLimit \in Nat \ {0}
ASSUME AmountsAreNat == MaxTickets \in Nat /\ FirstCredits \in Nat /\ Reward \in Nat
ASSUME RequestsDiffer == Purchases \cap Applications = {}

VARIABLES
  user,        \* table users: referrer, and notes.pendingPayoutToReferrer
  userUsed,    \* table promoUsages: the count of each user
  globalRows,  \* table promoUsages: the counts of the rows without a user
  credit,      \* table credits: the balance of each user
  referral,    \* table referralCredits
  who,         \* whose request it is
  at,          \* how far each request is
  cart,        \* what each purchase spends, as decided in its snapshot
  counting,    \* the handler that counts the use of a promotion, per purchase
  payout,      \* the handler that pays the referrer, per purchase
  seen,        \* the user in the snapshot of each payout
  copy,        \* the referrer of the user an application of a code has in memory
  applied,     \* history: how often each user was rewarded for using a code
  paidFor,     \* history: how often a referrer was paid for each user
  earned,      \* history: how often each user was paid for having referred another
  open, stale

rewardVars == <<user, userUsed, globalRows, credit, referral, who, at, cart, counting,
                payout, seen, copy, applied, paidFor, earned, open, stale>>
tables   == <<user, userUsed, globalRows, credit, referral>>
handlers == <<counting, payout, seen>>
history  == <<applied, paidFor, earned>>

INSTANCE DbTransactions

Rows == {"user", "usage", "credit", "referral"} \X Users

Unread == [referrer |-> Nobody, pending |-> FALSE]
Empty == [uses |-> 0, credit |-> 0, referral |-> 0, charge |-> 0, newRow |-> FALSE]

Goto(c, step) == at' = [at EXCEPT ![c] = step]
Least(x, y)   == IF x < y THEN x ELSE y

Init ==
  /\ user = [u \in Users |-> Unread]
  /\ userUsed = [u \in Users |-> 0]
  /\ globalRows = <<>>
  /\ credit = [u \in Users |-> FirstCredits]
  /\ referral = [u \in Users |-> 0]
  /\ who \in [Clients -> Users]
  /\ at = [c \in Clients |-> "new"]
  /\ cart = [p \in Purchases |-> Empty]
  /\ counting = [p \in Purchases |-> "none"]
  /\ payout = [p \in Purchases |-> "none"]
  /\ seen = [p \in Purchases |-> Unread]
  /\ copy = [a \in Applications |-> Nobody]
  /\ applied = [u \in Users |-> 0]
  /\ paidFor = [u \in Users |-> 0]
  /\ earned = [u \in Users |-> 0]
  /\ open = {}
  /\ stale = [c \in Clients |-> {}]

(***************************************************************************)
(* A purchase, up to its commit.                                           *)
(***************************************************************************)
\* Mutant of UsesLeft: the limit is not applied to the tickets of one purchase.
NoItemLimit(u, n) == n
\* removePaidAndApplyLimits: no more tickets are discounted than uses are left.
UsesLeft(u, n) == Least(n, UserLimit - userUsed[u])

\* getGlobalPromoUsage finds any one row without a user; if there is none it creates one,
\* which is not seen by others before the commit.
GlobalUsages == IF globalRows = <<>> THEN {0} ELSE {globalRows[i] : i \in DOMAIN globalRows}

\* Referral credits pay for half of what is due, credits for the rest, the card for the rest
\* of that.
CartFor(u, n, uses) ==
  LET due  == 2 * (n - uses)
      half == Least(referral[u], due \div 2)
      own  == Least(credit[u], due - half)
  IN  [uses |-> uses, referral |-> half, credit |-> own, charge |-> due - half - own,
       newRow |-> uses > 0 /\ globalRows = <<>>]

SaleBegin(p) ==
  /\ at[p] = "new"
  /\ \E n \in 1..MaxTickets :
       \/ cart' = [cart EXCEPT ![p] = CartFor(who[p], n, 0)]
       \/ /\ \E used \in GlobalUsages : used < GlobalLimit
          /\ userUsed[who[p]] < UserLimit
          /\ cart' = [cart EXCEPT ![p] = CartFor(who[p], n, UsesLeft(who[p], n))]
  /\ Goto(p, "selling")
  /\ BeginTx(p)
  /\ UNCHANGED <<tables, who, handlers, copy, history>>

\* "fully redeemed"
SaleRefuse(p) ==
  /\ at[p] = "new"
  /\ \/ \E used \in GlobalUsages : used >= GlobalLimit
     \/ userUsed[who[p]] >= UserLimit
  /\ Goto(p, "refused")
  /\ UNCHANGED <<tables, who, cart, handlers, copy, history, open, stale>>

\* The rows whose counters or balances the purchase changes, or its undo.
Touched(p) ==
  {r \in Rows : /\ r[2] = who[p]
                /\ \/ r[1] = "usage"    /\ cart[p].uses > 0
                   \/ r[1] = "credit"   /\ cart[p].credit > 0
                   \/ r[1] = "referral" /\ cart[p].referral > 0}

\* addUserPromoUsage, subtractUserCredits, subtractReferralCredits.
SaleCommit(p) ==
  /\ at[p] = "selling"
  /\ ~Conflict(p, Touched(p))
  /\ userUsed' = [userUsed EXCEPT ![who[p]] = @ + cart[p].uses]
  /\ credit'   = [credit EXCEPT ![who[p]] = @ - cart[p].credit]
  /\ referral' = [referral EXCEPT ![who[p]] = @ - cart[p].referral]
  /\ globalRows' = IF cart[p].newRow THEN Append(globalRows, 0) ELSE globalRows
  /\ Goto(p, "charging")
  /\ EndTx(p, Touched(p))
  /\ UNCHANGED <<user, who, cart, handlers, copy, history>>

SaleConflict(p) ==
  /\ at[p] = "selling"
  /\ Conflict(p, Touched(p))
  /\ Goto(p, "refused")
  /\ EndTx(p, {})
  /\ UNCHANGED <<tables, who, cart, handlers, copy, history>>

(***************************************************************************)
(* Its payment, or its undo.                                               *)
(***************************************************************************)
\* Nothing may be left to charge. newPurchase is emitted: both handlers start.
ChargeSucceeds(p) ==
  /\ at[p] = "charging"
  /\ Goto(p, "done")
  /\ counting' = [counting EXCEPT ![p] = IF cart[p].uses > 0 THEN "todo" ELSE "none"]
  /\ payout' = [payout EXCEPT ![p] = "todo"]
  /\ UNCHANGED <<tables, who, cart, seen, copy, history, open, stale>>

ChargeFails(p) ==
  /\ at[p] = "charging"
  /\ cart[p].charge > 0
  /\ Goto(p, "undoing")
  /\ UNCHANGED <<tables, who, cart, handlers, copy, history, open, stale>>

UndoBegin(p) ==
  /\ at[p] = "undoing"
  /\ Goto(p, "releasing")
  /\ BeginTx(p)
  /\ UNCHANGED <<tables, who, cart, handlers, copy, history>>

\* Mutant of UsesReturned: the undo of a promotion forgets its uses.
NoUsesReturned(p) == 0
UsesReturned(p)   == cart[p].uses

\* subtractUserPromoUsage reads its row outside of the transaction, and only asserts that
\* the count is large enough; the decrement is relative. addUserCredits, addReferralCredits.
UndoCommit(p) ==
  /\ at[p] = "releasing"
  /\ ~Conflict(p, Touched(p))
  /\ userUsed[who[p]] >= cart[p].uses
  /\ userUsed' = [userUsed EXCEPT ![who[p]] = @ - UsesReturned(p)]
  /\ credit'   = [credit EXCEPT ![who[p]] = @ + cart[p].credit]
  /\ referral' = [referral EXCEPT ![who[p]] = @ + cart[p].referral]
  /\ Goto(p, "undone")
  /\ EndTx(p, Touched(p))
  /\ UNCHANGED <<user, globalRows, who, cart, handlers, copy, history>>

\* A conflict, or the assertion: "!!! ERROR UNDOING".
UndoFails(p) ==
  /\ at[p] = "releasing"
  /\ Conflict(p, Touched(p)) \/ userUsed[who[p]] < cart[p].uses
  /\ Goto(p, "stranded")
  /\ EndTx(p, {})
  /\ UNCHANGED <<tables, who, cart, handlers, copy, history>>

(***************************************************************************)
(* Handler: addGlobalPromoUsage. Not in a transaction of the purchase.     *)
(***************************************************************************)
\* Mutant of Counted: the handler counts one use per purchase.
CountedOnce(p) == 1
Counted(p)     == cart[p].uses

\* It finds any one row without a user; the increment is relative.
CountUses(p) ==
  /\ counting[p] = "todo"
  /\ \E i \in DOMAIN globalRows : globalRows' = [globalRows EXCEPT ![i] = @ + Counted(p)]
  /\ counting' = [counting EXCEPT ![p] = "counted"]
  /\ UNCHANGED <<user, userUsed, credit, referral, who, at, cart, payout, seen, copy,
                 history, open, stale>>

\* The database fails, which is only reported, or the server stops: the count of this
\* purchase is never made up for.
CountLost(p) ==
  /\ counting[p] = "todo"
  /\ counting' = [counting EXCEPT ![p] = "lost"]
  /\ UNCHANGED <<tables, who, at, cart, payout, seen, copy, history, open, stale>>

(***************************************************************************)
(* Handler: the referrer is paid, once, for the first purchase; a user     *)
(* that nobody referred becomes his own referrer. SERIALIZABLE.            *)
(***************************************************************************)
PayoutBegin(p) ==
  /\ payout[p] = "todo"
  /\ payout' = [payout EXCEPT ![p] = "open"]
  /\ seen' = [seen EXCEPT ![p] = user[who[p]]]
  /\ BeginTx(p)
  /\ UNCHANGED <<tables, who, at, cart, counting, copy, history>>

EndPayout(p, rows) ==
  /\ payout' = [payout EXCEPT ![p] = "done"]
  /\ seen' = [seen EXCEPT ![p] = Unread]
  /\ EndTx(p, rows)

PayoutRows(p) == {<<"user", who[p]>>, <<"credit", seen[p].referrer>>}

\* The assertion that the referrer is somebody else holds.
PayReferrer(p) ==
  /\ payout[p] = "open"
  /\ seen[p].pending
  /\ seen[p].referrer \in Users \ {who[p]}
  /\ ~Conflict(p, PayoutRows(p))
  /\ credit' = [credit EXCEPT ![seen[p].referrer] = @ + Reward]
  /\ user' = [user EXCEPT ![who[p]] = [seen[p] EXCEPT !.pending = FALSE]]
  /\ paidFor' = [paidFor EXCEPT ![who[p]] = @ + 1]
  /\ earned' = [earned EXCEPT ![seen[p].referrer] = @ + 1]
  /\ EndPayout(p, PayoutRows(p))
  /\ UNCHANGED <<userUsed, globalRows, referral, who, at, cart, counting, copy, applied>>

MarkUnreferred(p) ==
  /\ payout[p] = "open"
  /\ seen[p].referrer = Nobody
  /\ ~Conflict(p, {<<"user", who[p]>>})
  /\ user' = [user EXCEPT ![who[p]].referrer = who[p]]
  /\ EndPayout(p, {<<"user", who[p]>>})
  /\ UNCHANGED <<userUsed, globalRows, credit, referral, who, at, cart, counting, copy, history>>

\* Nothing to pay, the user's own code, a serialization failure, a crash: no effect, and
\* nobody tries again.
PayoutEnds(p) ==
  /\ payout[p] \in {"todo", "open"}
  /\ EndPayout(p, {})
  /\ UNCHANGED <<tables, who, at, cart, counting, copy, history>>

(***************************************************************************)
(* POST /user/applyRefCode: the user is read before the transaction.       *)
(***************************************************************************)
ApplyRead(a) ==
  /\ at[a] = "new"
  /\ copy' = [copy EXCEPT ![a] = user[who[a]].referrer]
  /\ Goto(a, "read")
  /\ UNCHANGED <<tables, who, cart, handlers, history, open, stale>>

\* Tickets of the user that are valid.
Bought(u) ==
  \E p \in Purchases :
    who[p] = u /\ at[p] \in {"charging", "undoing", "releasing", "done", "stranded"}

\* isEligibleForReferralProgram, on the user in memory.
Eligible(a) == copy[a] = Nobody /\ ~Bought(who[a])

ApplyBegin(a) ==
  /\ at[a] = "read"
  /\ Eligible(a)
  /\ Goto(a, "applying")
  /\ BeginTx(a)
  /\ UNCHANGED <<tables, who, cart, handlers, copy, history>>

\* A user found to have bought before is marked so, outside of the transaction.
ApplyRefuse(a) ==
  /\ at[a] = "read"
  /\ ~Eligible(a)
  /\ Goto(a, "refused")
  /\ IF copy[a] = Nobody
     THEN /\ user' = [user EXCEPT ![who[a]].referrer = who[a]]
          /\ stale' = [c \in Clients |->
                        IF c \in open THEN stale[c] \cup {<<"user", who[a]>>} ELSE stale[c]]
     ELSE UNCHANGED <<user, stale>>
  /\ UNCHANGED <<userUsed, globalRows, credit, referral, who, cart, handlers, copy, history, open>>

ApplyRows(a) == {<<"user", who[a]>>, <<"referral", who[a]>>}

\* The code may be the user's own.
ApplyCommit(a) ==
  /\ at[a] = "applying"
  /\ ~Conflict(a, ApplyRows(a))
  /\ referral' = [referral EXCEPT ![who[a]] = @ + Reward]
  /\ \E owner \in Users :
       user' = [user EXCEPT ![who[a]] = [referrer |-> owner, pending |-> TRUE]]
  /\ applied' = [applied EXCEPT ![who[a]] = @ + 1]
  /\ Goto(a, "done")
  /\ EndTx(a, ApplyRows(a))
  /\ UNCHANGED <<userUsed, globalRows, credit, who, cart, handlers, copy, paidFor, earned>>

ApplyEnds(a) ==
  /\ at[a] = "applying"
  /\ Goto(a, "refused")
  /\ EndTx(a, {})
  /\ UNCHANGED <<tables, who, cart, handlers, copy, history>>

(***************************************************************************)
(* The server stops in a purchase: its transaction rolls back.             *)
(***************************************************************************)
Crash(p) ==
  /\ at[p] \in {"selling", "charging", "undoing", "releasing"}
  /\ Goto(p, IF at[p] = "selling" THEN "refused" ELSE "stranded")
  /\ EndTx(p, {})
  /\ UNCHANGED <<tables, who, cart, handlers, copy, history>>

-------------------------------------------------------------------------------
SaleStep(p) ==
  \/ SaleBegin(p) \/ SaleRefuse(p) \/ SaleCommit(p) \/ SaleConflict(p)
  \/ ChargeSucceeds(p) \/ ChargeFails(p) \/ UndoBegin(p) \/ UndoCommit(p) \/ UndoFails(p)
  \/ Crash(p)
EventStep(p) ==
  \/ CountUses(p) \/ CountLost(p)
  \/ PayoutBegin(p) \/ PayReferrer(p) \/ MarkUnreferred(p) \/ PayoutEnds(p)
ApplyStep(a) ==
  ApplyRead(a) \/ ApplyBegin(a) \/ ApplyRefuse(a) \/ ApplyCommit(a) \/ ApplyEnds(a)

Next ==
  \/ \E p \in Purchases : SaleStep(p) \/ EventStep(p)
  \/ \E a \in Applications : ApplyStep(a)

Spec == Init /\ [][Next]_rewardVars

-------------------------------------------------------------------------------
(***************************************************************************)
(* Properties.                                                             *)
(***************************************************************************)
SaleSteps  == {"new", "selling", "refused", "charging", "undoing", "releasing", "undone",
               "stranded", "done"}
ApplySteps == {"new", "read", "applying", "refused", "done"}

\* Every variable stays within its type; a transaction is open exactly in the steps
\* that hold one.
RewardTypeOK ==
  /\ user \in [Users -> [referrer : Users \cup {Nobody}, pending : BOOLEAN]]
  /\ userUsed \in [Users -> Int]
  /\ globalRows \in Seq(Int)
  /\ credit \in [Users -> Int]
  /\ referral \in [Users -> Int]
  /\ who \in [Clients -> Users]
  /\ at \in [Clients -> SaleSteps \cup ApplySteps]
  /\ cart \in [Purchases -> [uses : Int, credit : Int, referral : Int, charge : Int,
                             newRow : BOOLEAN]]
  /\ counting \in [Purchases -> {"none", "todo", "counted", "lost"}]
  /\ payout \in [Purchases -> {"none", "todo", "open", "done"}]
  /\ seen \in [Purchases -> [referrer : Users \cup {Nobody}, pending : BOOLEAN]]
  /\ copy \in [Applications -> Users \cup {Nobody}]
  /\ applied \in [Users -> Nat]
  /\ paidFor \in [Users -> Nat]
  /\ earned \in [Users -> Nat]
  /\ open = {c \in Clients : \/ at[c] \in {"selling", "releasing", "applying"}
                             \/ c \in Purchases /\ payout[c] = "open"}
  /\ stale \in [Clients -> SUBSET Rows]

\* The purchases whose transaction stands, undone ones excluded.
Standing == {p \in Purchases :
               at[p] \in {"charging", "undoing", "releasing", "done", "stranded"}}
SumOver(S, f(_)) == FoldFunctionOnSet(LAMBDA x, y : x + y, 0, [p \in Purchases |-> f(p)], S)
PurchasesOf(u) == {p \in Standing : who[p] = u}

\* However purchases of a user race, each deciding on a snapshot, no balance is overdrawn
\* and the promotion is not used beyond the user's limit.
NothingOverspent ==
  \A u \in Users : credit[u] >= 0 /\ referral[u] >= 0 /\ userUsed[u] <= UserLimit

\* Nothing is lost or spent twice: a balance is what the user was given less what the
\* standing purchases spent, and the uses of the promotion are those of the standing
\* purchases: an undone purchase gives back all it took.
BalancesAccounted ==
  \A u \in Users :
    LET OwnSpent(p)  == cart[p].credit
        HalfSpent(p) == cart[p].referral
        Uses(p)      == cart[p].uses
    IN  /\ credit[u] + SumOver(PurchasesOf(u), OwnSpent) = FirstCredits + Reward * earned[u]
        /\ referral[u] + SumOver(PurchasesOf(u), HalfSpent) = Reward * applied[u]
        /\ userUsed[u] = SumOver(PurchasesOf(u), Uses)

\* Each counted purchase is counted once and in full, in whichever of the rows without a
\* user; what is missing there was lost with an event.
GlobalCountAccounted ==
  LET Uses(p) == cart[p].uses
  IN  /\ FoldSeq(LAMBDA x, y : x + y, 0, globalRows)
           = SumOver({p \in Purchases : counting[p] = "counted"}, Uses)
      /\ \A p \in Purchases :
           cart[p].uses > 0 /\ at[p] = "done" <=> counting[p] # "none"

\* A referrer is paid at most once for each time a code was applied, however many first
\* purchases are handled at once, and a payout that is still pending has not been made.
PayoutsExplained ==
  \A u \in Users : paidFor[u] + (IF user[u].pending THEN 1 ELSE 0) <= applied[u]
===============================================================================
