-------------------------------- MODULE Pricing --------------------------------
(***************************************************************************)
(* What an order costs: the transaction builder's pipeline from the prices *)
(* of its items to a balanced set of books.  Route passes, a promotion,    *)
(* referral credits and credits each pay for some of what is outstanding;  *)
(* the card pays for the rest.  Amounts are in cents.                      *)
(*                                                                         *)
(* The pipeline runs inside one database transaction, on values in memory: *)
(* a step is a transformation of the builder.                              *)
(***************************************************************************)
EXTENDS Integers, Sequences, FiniteSets, Functions

CONSTANTS
  Orders,      \* the orders considered: what is bought, and with what means
  MinCharge,   \* the smallest fee of the card processor
  Unlimited    \* a usage limit that is null

(***************************************************************************)
(* What the parameters of a promotion are asserted to be, and that prices  *)
(* and balances are amounts of cents.  Rates are whole percentages.        *)
(***************************************************************************)
IsCriterion(c) ==
  /\ c.type \in {"only", "limitByPurchaseDate", "n4m", "freeTickets", "limitByMinTicketCount"}
  /\ c.type = "n4m" => c.n \in Nat /\ c.m \in 1..(c.n - 1)
  /\ c.type = "freeTickets" => c.count \in Nat \ {0}

IsSchedule(tiers, Values) ==
  /\ tiers \in Seq(Nat \X Values) /\ tiers # <<>>
  /\ \A i, j \in DOMAIN tiers : i < j => tiers[i][1] < tiers[j][1]

PricesNamed == {"flatPrice", "fixedPrice", "childRate", "fixedTransactionPrice"}
TieredRates == {"tieredRateByQty", "tieredRateByTotalValue"}
TieredSums  == {"tieredFixedByQty", "tieredFixedByTotalValue"}
IsDiscount(f) ==
  /\ f.type \in {"simpleRate", "simpleFixed", "freeTicket"} \cup PricesNamed \cup TieredRates \cup TieredSums
  /\ f.type = "simpleRate"   => f.rate \in 0..100
  /\ f.type = "simpleFixed"  => f.fixed \in Nat
  /\ f.type \in PricesNamed  => f.price \in Nat
  /\ f.type \in TieredRates  => IsSchedule(f.tiers, 0..100)
  /\ f.type \in TieredSums   => IsSchedule(f.tiers, Nat)

IsPromotion(p) ==
  /\ Len(p.criteria) \in Nat \ {0}
  /\ \A k \in 1..Len(p.criteria) : IsCriterion(p.criteria[k])
  /\ IsDiscount(p.discount)
  /\ p.refund \in {"refundDiscountedAmt", "refundOriginalAmt", "refundAverageAmt"}
  /\ {p.userLimit, p.globalLimit} \subseteq Nat \cup {Unlimited}

IsOrder(o) ==
  /\ o.kind \in {"tickets", "passes"}
  /\ o.prices \in Seq(Nat)
  /\ Len(o.tags) \in Nat /\ \A k \in 1..Len(o.tags) : o.tags[k].passes \in Seq(Nat)
  /\ \A p \in o.promos : IsPromotion(p)
  /\ {o.userUsed, o.globalUsed, o.referralCredits, o.credits} \subseteq Nat

ASSUME OrdersAreOrders == \A o \in Orders : IsOrder(o)
ASSUME MinChargeNatural == MinCharge \in Nat
ASSUME UnlimitedIsNoNumber == Unlimited \notin Nat

VARIABLES
  order,          \* what is bought, and with what means
  step,           \* the last transformation of the builder
  tagsTried,      \* how many of the order's tags have been looked at for passes
  outstanding,    \* per item, transactionItem.notes.outstanding
  discountValue,  \* per item, ticket.notes.discountValue
  books,          \* per item type, credits less debits of transactionItemsByType
  paid,           \* notes.tickets: per means of payment, its share of each item
  promotions      \* the promotions applied, each with its items and discounts

pricingVars == <<order, step, tagsTried, outstanding, discountValue, books, paid, promotions>>

Means    == {"routePass", "discount", "referralCredits", "userCredit", "absorbed", "payment"}
Accounts == {"ticketSale", "routePass", "discrepancy", "discount", "referralCredits", "userCredit",
             "payables", "cogs", "payment", "transfer"}
Items == 1..Len(order.prices)

\* The sum of what some items have.
Total(amounts, ids) == FoldFunctionOnSet(LAMBDA x, y : x + y, 0, amounts, ids)
Smaller(x, y) == IF x < y THEN x ELSE y

\* Math.round(num / den). The quotient is a double: an exact half may come out below it.
Rounded(num, den) ==
  IF (2 * num) % (2 * den) = den /\ order.roundsDown
  THEN num \div den
  ELSE (2 * num + den) \div (2 * den)

(***************************************************************************)
(* distribute: an amount over prices, roughly in proportion.               *)
(***************************************************************************)
\* A list of items: in the order of the purchase or, once sorted, the cheapest first.
AsTheyCome(ids) == [items |-> ids, sorted |-> FALSE]
Cheapest(list)  == [list EXCEPT !.sorted = TRUE]

Ahead(list, i, j) ==
  IF list.sorted /\ order.prices[i] # order.prices[j]
  THEN order.prices[i] < order.prices[j] ELSE i < j
Place(list, i) == Cardinality({j \in list.items : Ahead(list, j, i)})

FirstOf(list, ids) == CHOOSE i \in ids : \A j \in ids : Place(list, i) <= Place(list, j)
Take(list, n)      == [list EXCEPT !.items = {i \in @ : Place(list, i) < n}]

\* One cent more for the first item that is not paid in full, or one less for the first
\* that is paid at all.
OneMore(prices, list, shares) ==
  LET room == {i \in list.items : shares[i] < prices[i]}
  IN  IF room = {} THEN shares ELSE [shares EXCEPT ![FirstOf(list, room)] = @ + 1]
OneLess(list, shares) ==
  LET some == {i \in list.items : shares[i] > 0}
  IN  IF some = {} THEN shares ELSE [shares EXCEPT ![FirstOf(list, some)] = @ - 1]

\* Mutant of Corrected: the cents lost in rounding are not handed out.
Uncorrected(prices, list, shares, amount) == shares
Corrected(prices, list, shares, amount) ==
  LET sum  == Total(shares, list.items)
      more[k \in 0..(amount - sum)] == IF k = 0 THEN shares ELSE OneMore(prices, list, more[k - 1])
      less[k \in 0..(sum - amount)] == IF k = 0 THEN shares ELSE OneLess(list, less[k - 1])
  IN  IF sum < amount THEN more[amount - sum] ELSE less[sum - amount]

Distribute(amount, prices, list) ==
  LET total == Total(prices, list.items)
      given == Smaller(total, amount)
  IN  IF total = 0 \/ amount = 0
      THEN [i \in list.items |-> 0]
      ELSE Corrected(prices, list, [i \in list.items |-> Rounded(prices[i] * given, total)], given)

(***************************************************************************)
(* Which items a promotion is for, how much it takes off, and how much of  *)
(* that a refund takes back.  Criteria, discount and refund functions are  *)
(* records; they are given lists of items.                                 *)
(***************************************************************************)
\* Mutant of FreeOutOf: leftovers are all free.
FreeWithLeftovers(count, n, m) == (count \div n) * (n - m) + (count % n)
\* n4m: n for the price of m.
FreeOutOf(count, n, m) ==
  LET leftovers == count % n
  IN  (count \div n) * (n - m) + (IF leftovers > m THEN leftovers - m ELSE 0)

\* limitByRoute, limitByCompany, limitByRouteTags, limitByTripDate, limitByTripDayOfWeek,
\* limitByContactList, childTickets: an item qualifies by what it is.
Qualify(criterion, list) ==
  CASE criterion.type = "only"   -> [list EXCEPT !.items = {i \in @ : order.kinds[i] \in criterion.kinds}]
    [] criterion.type = "limitByPurchaseDate" ->
         IF criterion.now THEN list ELSE [list EXCEPT !.items = {}]
    [] criterion.type = "n4m"    ->
         Take(Cheapest(list), FreeOutOf(Cardinality(list.items), criterion.n, criterion.m))
    [] criterion.type = "freeTickets" -> Take(Cheapest(list), criterion.count)
    [] criterion.type = "limitByMinTicketCount" ->
         IF Cardinality(list.items) >= criterion.n THEN list ELSE [list EXCEPT !.items = {}]

\* What is left after each criterion.
Filtered(promo, unpaid) ==
  LET left[k \in 0..Len(promo.criteria)] ==
        IF k = 0 THEN unpaid ELSE Qualify(promo.criteria[k], left[k - 1])
  IN  left
Qualified(promo, unpaid) == Filtered(promo, unpaid)[Len(promo.criteria)]

\* More free tickets than there are tickets left throw.
Initialized(promo, unpaid) ==
  \A k \in 1..Len(promo.criteria) :
    promo.criteria[k].type = "freeTickets" =>
      promo.criteria[k].count <= Cardinality(Filtered(promo, unpaid)[k - 1].items)

\* The last tier that is not above the amount.  Tiers are pairs in increasing order.
FindMatchingTier(amount, tiers) ==
  LET above == {i \in DOMAIN tiers : tiers[i][1] > amount}
      first == CHOOSE i \in above : \A j \in above : i <= j
  IN  IF above = {} THEN tiers[Len(tiers)][2]
      ELSE IF 1 \in above THEN 0
      ELSE tiers[first - 1][2]

Tier(amount, tiers) == FindMatchingTier(amount, tiers)

AtRate(percent, ids) == [i \in ids |-> Rounded(order.prices[i] * percent, 100)]

Discounts(f, list) ==
  LET ids   == list.items
      price == order.prices
      total == Total(price, ids)
  IN
  CASE f.type = "simpleRate"  -> AtRate(f.rate, ids)
    [] f.type = "simpleFixed" -> [i \in ids |-> Smaller(f.fixed, price[i])]
    [] f.type = "flatPrice"   -> [i \in ids |-> price[i] - Smaller(f.price, price[i])]
    [] f.type \in {"fixedPrice", "childRate"} -> [i \in ids |-> price[i] - f.price]
    [] f.type = "fixedTransactionPrice"   -> Distribute(total - f.price, price, list)
    [] f.type = "tieredRateByQty"         -> AtRate(Tier(Cardinality(ids), f.tiers), ids)
    [] f.type = "tieredFixedByQty"        -> Distribute(Tier(Cardinality(ids), f.tiers), price, list)
    [] f.type = "tieredRateByTotalValue"  -> AtRate(Tier(total, f.tiers), ids)
    [] f.type = "tieredFixedByTotalValue" -> Distribute(Tier(total, f.tiers), price, list)
    [] f.type = "freeTicket"              -> [i \in ids |-> price[i]]

\* fixedTransactionPrice answers with the items themselves when they already cost less:
\* formatting the sum of that throws. childRate asserts that a child pays less.
Computable(f, ids) ==
  /\ f.type = "fixedTransactionPrice" => Total(order.prices, ids) > f.price
  /\ f.type = "childRate" => \A i \in ids : f.price < order.prices[i]

RefundAdjustments(type, list, discounts) ==
  LET n     == Cardinality(list.items)
      total == Total(discounts, list.items)
      split == Rounded(total, n)
  IN  CASE type = "refundDiscountedAmt" -> discounts
        [] type = "refundOriginalAmt"   -> [i \in list.items |-> 0]
        [] type = "refundAverageAmt"    ->
             [i \in list.items |-> IF Place(list, i) < n - 1 THEN split ELSE total - (n - 1) * split]

(***************************************************************************)
(* The builder.                                                            *)
(***************************************************************************)
Zero == [i \in Items |-> 0]
\* Amounts given to some of the items, as amounts for all of them.
Spread(amounts) == [i \in Items |-> IF i \in DOMAIN amounts THEN amounts[i] ELSE 0]
Less(s, t) == [i \in Items |-> s[i] - t[i]]
Plus(s, t) == [i \in Items |-> s[i] + t[i]]

NoBooks == [a \in Accounts |-> 0]
ExcessCredit == Total(books, Accounts)
Debit(b, account, amount)  == [b EXCEPT ![account] = @ - amount]
Credit(b, account, amount) == [b EXCEPT ![account] = @ + amount]

SaleAccount == IF order.kind = "tickets" THEN "ticketSale" ELSE "routePass"

PricingInit ==
  /\ order \in Orders
  /\ step = "ordered"
  /\ tagsTried = 0
  /\ outstanding = order.prices
  /\ discountValue = Zero
  /\ books = Credit(NoBooks, SaleAccount, Total(order.prices, Items))
  /\ paid = [m \in Means |-> Zero]
  /\ promotions = <<>>

\* Refused: the database transaction rolls back.
Refuse ==
  /\ step' = "refused"
  /\ UNCHANGED <<order, tagsTried, outstanding, discountValue, books, paid, promotions>>

(***************************************************************************)
(* Route passes: the next tag of the order pays with the user's passes for *)
(* that tag, one per item that is still unpaid, whatever the pass cost.    *)
(***************************************************************************)
\* Mutant of PassesBooked: the residual is not booked.
NoResidual(tag, ids, b) ==
  Debit(b, "routePass", Total(tag.passes, 1..Cardinality(ids)))
PassesBooked(tag, ids, b) ==
  LET cost == Total(tag.passes, 1..Cardinality(ids))
  IN  Debit(Debit(b, "routePass", cost), "discrepancy", Total(outstanding, ids) - cost)

ApplyRoutePass ==
  /\ step = "ordered" /\ order.kind = "tickets"
  /\ tagsTried < Len(order.tags)
  /\ LET tag    == order.tags[tagsTried + 1]
         ids    == Take(AsTheyCome({i \in Items : order.kinds[i] \in tag.kinds /\ outstanding[i] > 0}),
                        Len(tag.passes)).items
         values == Spread([i \in ids |-> outstanding[i]])
     IN  /\ outstanding' = Less(outstanding, values)
         /\ books' = PassesBooked(tag, ids, books)
         /\ paid' = [paid EXCEPT !["routePass"] = Plus(@, values)]
  /\ tagsTried' = tagsTried + 1
  /\ UNCHANGED <<order, step, discountValue, promotions>>

PassesApplied ==
  /\ step = "ordered"
  /\ order.kind = "tickets" => tagsTried = Len(order.tags)
  /\ step' = "passed"
  /\ UNCHANGED <<order, tagsTried, outstanding, discountValue, books, paid, promotions>>

(***************************************************************************)
(* A promotion code.                                                       *)
(***************************************************************************)
Unpaid     == AsTheyCome({i \in Items : outstanding[i] > 0})
Candidates == {p \in order.promos : Qualified(p, Unpaid).items # {}}
SumOf(p)   == LET list == Qualified(p, Unpaid) IN Total(Discounts(p.discount, list), list.items)
Compared(p) == Computable(p.discount, Qualified(p, Unpaid).items)
\* The largest discount. What is not a number compares with nothing.
Best ==
  IF \A p \in Candidates : Compared(p)
  THEN {p \in Candidates : \A q \in Candidates : SumOf(p) >= SumOf(q)}
  ELSE Candidates

ChildPriceFails ==
  \E p \in Candidates : p.discount.type = "childRate" /\ ~ Compared(p)
NotInitialized == \E p \in order.promos : ~ Initialized(p, Unpaid)
WithinLimits(p) ==
  /\ p.globalLimit # Unlimited => p.globalLimit > order.globalUsed
  /\ p.userLimit # Unlimited => p.userLimit > order.userUsed

Limited(p) ==
  IF order.kind = "passes" \/ p.userLimit = Unlimited
  THEN Qualified(p, Unpaid)
  ELSE Take(Qualified(p, Unpaid), p.userLimit - order.userUsed)

DiscountLeaves(values) == Less(outstanding, values)

NotRefundable(values) == Plus(discountValue, values)

ApplyPromotion(p) ==
  LET list    == Limited(p)
      amounts == Discounts(p.discount, list)
      values  == Spread(amounts)
  IN  /\ WithinLimits(p) /\ Computable(p.discount, list.items)
      /\ books' = Debit(books, "discount", Total(amounts, list.items))
      /\ outstanding' = DiscountLeaves(values)
      /\ discountValue' = NotRefundable(values)
      /\ paid' = [paid EXCEPT !["discount"] = values]
      /\ promotions' = Append(promotions, [promo |-> p, ids |-> list.items, discounts |-> amounts,
                                refunds |-> RefundAdjustments(p.refund, list, amounts)])
      /\ step' = "promoted"
      /\ UNCHANGED <<order, tagsTried>>

ApplyPromoCode ==
  /\ step = "passed" /\ order.code # "none"
  /\ ~ NotInitialized /\ ~ ChildPriceFails
  /\ \E p \in Best : ApplyPromotion(p)

\* No code was given, or it is empty, or a pass has paid for everything.
NoPromoCode ==
  /\ step = "passed"
  /\ \/ order.code = "none"
     \/ ~ NotInitialized /\ Candidates = {} /\ order.code = "empty"
     \/ ~ NotInitialized /\ Unpaid.items = {}
  /\ step' = "promoted"
  /\ UNCHANGED <<order, tagsTried, outstanding, discountValue, books, paid, promotions>>

RefusePromoCode ==
  /\ step = "passed" /\ order.code # "none"
  /\ \/ NotInitialized \/ ChildPriceFails
     \/ Candidates = {} /\ order.code # "empty" /\ Unpaid.items # {}
     \/ \E p \in Best : ~ WithinLimits(p) \/ ~ Computable(p.discount, Limited(p).items)
  /\ Refuse

(***************************************************************************)
(* Referral credits pay for half of what is outstanding at most, credits   *)
(* for all of it. Either is booked as owed to the operator.                *)
(***************************************************************************)
Redeem(account, amount) ==
  LET values == Distribute(amount, outstanding, AsTheyCome(Items))
      sum    == Total(values, Items)
  IN  /\ outstanding' = Less(outstanding, values)
      /\ paid' = [paid EXCEPT ![account] = values]
      /\ books' = Credit(Debit(Debit(books, account, sum), "cogs", sum), "payables", sum)
      /\ UNCHANGED <<order, tagsTried, discountValue, promotions>>

ApplyReferralCredits ==
  /\ step = "promoted" /\ order.kind = "tickets"
  /\ step' = "referred"
  /\ Redeem("referralCredits", Smaller(order.referralCredits, Rounded(Total(outstanding, Items), 2)))

ApplyCredits ==
  /\ step = "referred"
  /\ step' = "credited"
  /\ Redeem("userCredit", order.credits)

(***************************************************************************)
(* Less than the processor's fee is not worth charging.                    *)
(***************************************************************************)
AbsorbSmallPayments ==
  /\ step = "credited"
  /\ step' = "absorbed"
  /\ IF ExcessCredit > 0 /\ ExcessCredit <= MinCharge
     THEN /\ outstanding' = Zero
          /\ discountValue' = NotRefundable(outstanding)
          /\ paid' = [paid EXCEPT !["absorbed"] = outstanding]
          /\ books' = Debit(books, "discount", ExcessCredit)
     ELSE UNCHANGED <<outstanding, discountValue, paid, books>>
  /\ UNCHANGED <<order, tagsTried, promotions>>

\* finalizeForPayment and transferToCompany; checkExpectedPrice; the assertions of build.
ReadyForPayment ==
  IF order.kind = "tickets" THEN step = "absorbed" ELSE step = "promoted"
AsExpected == order.expectedPrice \in {Unlimited, ExcessCredit}

CogsAfter(amount) == books.cogs - amount

FinalizeForPayment ==
  /\ ReadyForPayment /\ AsExpected
  /\ order.kind = "tickets" => Total(outstanding, Items) = ExcessCredit
  /\ books' = [Credit(Debit(books, "payment", ExcessCredit), "transfer", ExcessCredit)
                 EXCEPT !.cogs = CogsAfter(ExcessCredit)]
  /\ paid' = IF order.kind = "tickets" THEN [paid EXCEPT !["payment"] = outstanding] ELSE paid
  /\ step' = "sealed"
  /\ UNCHANGED <<order, tagsTried, outstanding, discountValue, promotions>>

PriceHasChanged ==
  /\ ReadyForPayment /\ ~ AsExpected
  /\ Refuse

\* What refundTicket returns for an item: its price after the discount, no other amount.
RefundOf(i) == order.prices[i] - discountValue[i]

PricingNext ==
  \/ ApplyRoutePass \/ PassesApplied
  \/ ApplyPromoCode \/ NoPromoCode \/ RefusePromoCode
  \/ ApplyReferralCredits \/ ApplyCredits
  \/ AbsorbSmallPayments
  \/ FinalizeForPayment \/ PriceHasChanged

PricingSpec == PricingInit /\ [][PricingNext]_pricingVars

-----------------------------------------------------------------------------
(***************************************************************************)
(* What must hold.                                                         *)
(***************************************************************************)
\* At every step the books are out of balance by exactly what the items have outstanding,
\* and once sealed by nothing: build() asserts it, and the assertion never fails. What the
\* operator is owed (transfers and payables) is then the cost of goods sold, and is the
\* price of the tickets less what passes and discounts took off.
OperatorIsOwed ==
  /\ books.transfer + books.payables = - books.cogs
  /\ books.transfer + books.payables
       = books.ticketSale + books.discount + books.routePass + books.discrepancy
BooksBalance ==
  /\ step \in {"ordered", "passed", "promoted", "referred", "credited", "absorbed"}
       => ExcessCredit = Total(outstanding, Items)
  /\ step = "sealed" => ExcessCredit = 0 /\ OperatorIsOwed

\* Credits are shared in proportion to what is outstanding, to within a cent per item.
InProportion(amount, prices, shares) ==
  LET total == Total(prices, Items)
  IN  \A i \in Items :
        shares[i] * total - prices[i] * Smaller(amount, total)
          \in -(total * Len(order.prices))..(total * Len(order.prices))
SharedInProportion ==
  LET due == Plus(outstanding, paid["userCredit"])
      before == Plus(due, paid["referralCredits"])
  IN  /\ Total(paid["userCredit"], Items) = Smaller(order.credits, Total(due, Items))
      /\ InProportion(order.credits, due, paid["userCredit"])
      /\ 2 * Total(paid["referralCredits"], Items) <= Total(before, Items) + 1

\* The shares recorded per means of payment add up to the price of each item, none is negative
\* unless the user named a price above the item's, and the shares of credits are proportional.
GivenBy(means, i) == Total([m \in means |-> paid[m][i]], means)
NamedPrice == \E k \in DOMAIN promotions : promotions[k].promo.discount.type = "fixedPrice"
EveryItemIsPaidFor ==
  /\ step = "credited" => SharedInProportion
  /\ step = "sealed" /\ order.kind = "tickets" =>
       \A i \in Items :
         /\ GivenBy(Means, i) = order.prices[i]
         /\ ~ NamedPrice => \A m \in Means : paid[m][i] \in 0..order.prices[i]

\* The reference for n4m: tickets are bought one by one, and of every n the first m are paid.
PaidOf(count, n, m) == Cardinality({k \in 0..(count - 1) : k % n < m})
\* The reference for tiers: the highest threshold reached.
BestTier(amount, tiers) ==
  LET reached == {i \in DOMAIN tiers : tiers[i][1] <= amount}
  IN  IF reached = {} THEN 0 ELSE tiers[CHOOSE i \in reached : \A j \in reached : j <= i][2]

\* A promotion gives what it advertises: n for the price of m, the highest tier reached, no
\* more items than its user has uses left, and never more than an item's price; what its
\* refunds take back adds up to the discount, or to nothing.
PromotionsAsAdvertised ==
  \A k \in DOMAIN promotions :
    LET a      == promotions[k]
        price  == Total(order.prices, a.ids)
        given  == Total(a.discounts, a.ids)
        first  == a.promo.criteria[1]
        unpaid == Cardinality({i \in Items : paid["routePass"][i] < order.prices[i]})
        free   == unpaid - PaidOf(unpaid, first.n, first.m)
    IN  /\ Len(a.promo.criteria) = 1 /\ first.type = "n4m" =>
             IF a.promo.userLimit = Unlimited
             THEN Cardinality(a.ids) = free ELSE Cardinality(a.ids) <= free
        /\ a.promo.discount.type = "tieredFixedByTotalValue" =>
             given = Smaller(BestTier(price, a.promo.discount.tiers), price)
        /\ order.kind = "tickets" /\ a.promo.userLimit # Unlimited =>
             order.userUsed + Cardinality(a.ids) <= a.promo.userLimit
        /\ given <= price
        /\ Total(a.refunds, a.ids) \in {0, given}

\* What the comments of the refunding functions promise: of an item with a promotion a refund
\* returns the price less the amount the function has computed for it (what is left after the
\* discount, the price before it, or the price less an equal part of all discounts), and less
\* what was too small to charge.  The amounts are recorded and never read: each refund returns
\* what is left after the discount, and this does not hold.
RefundsAsDocumented ==
  step = "sealed" /\ order.kind = "tickets" =>
    \A k \in DOMAIN promotions : \A i \in promotions[k].ids :
      RefundOf(i) = order.prices[i] - promotions[k].refunds[i] - paid["absorbed"][i]

===============================================================================
