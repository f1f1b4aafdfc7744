------------------------------- MODULE MCPricing -------------------------------
(* Orders for Pricing: every promotion alone, in pairs that compete, with and *)
(* without passes and credits, over prices that split unevenly.               *)
EXTENDS Pricing

Promo(criteria, discount, refund, userLimit) ==
  [criteria |-> criteria, discount |-> discount, refund |-> refund,
   userLimit |-> userLimit, globalLimit |-> Unlimited]

Anyone  == [type |-> "only", kinds |-> {"a", "b"}]
RouteA  == [type |-> "only", kinds |-> {"a"}]
Expired == [type |-> "limitByPurchaseDate", now |-> FALSE]
FourForThree == [type |-> "n4m", n |-> 4, m |-> 3]
ThreeForOne  == [type |-> "n4m", n |-> 3, m |-> 1]
AtLeast(n)   == [type |-> "limitByMinTicketCount", n |-> n]
TwoFree      == [type |-> "freeTickets", count |-> 2]

Half    == [type |-> "simpleRate", rate |-> 50]
Free    == [type |-> "freeTicket"]
Off(c)  == [type |-> "simpleFixed", fixed |-> c]
Flat(c) == [type |-> "flatPrice", price |-> c]
Named(c) == [type |-> "fixedPrice", price |-> c]
Child(c) == [type |-> "childRate", price |-> c]
AllFor(c) == [type |-> "fixedTransactionPrice", price |-> c]
Tiers   == [type |-> "tieredFixedByTotalValue", tiers |-> << <<500, 100>>, <<1000, 333>> >>]
Rates   == [type |-> "tieredRateByQty", tiers |-> << <<2, 10>>, <<4, 25>> >>]

Alone == {
  Promo(<<ThreeForOne>>, Free, "refundAverageAmt", Unlimited),
  Promo(<<FourForThree>>, Free, "refundAverageAmt", 1),
  Promo(<<RouteA, ThreeForOne>>, Free, "refundDiscountedAmt", Unlimited),
  Promo(<<TwoFree>>, Free, "refundAverageAmt", Unlimited),
  Promo(<<AtLeast(3)>>, Tiers, "refundDiscountedAmt", Unlimited),
  Promo(<<Anyone>>, Tiers, "refundDiscountedAmt", 2),
  Promo(<<RouteA>>, Rates, "refundAverageAmt", Unlimited),
  Promo(<<Anyone>>, Half, "refundOriginalAmt", 2),
  Promo(<<Anyone>>, Off(400), "refundDiscountedAmt", 0),
  Promo(<<Anyone>>, Flat(300), "refundDiscountedAmt", Unlimited),
  Promo(<<RouteA>>, Child(300), "refundDiscountedAmt", Unlimited),
  Promo(<<Anyone>>, Named(400), "refundDiscountedAmt", Unlimited),
  Promo(<<Anyone>>, AllFor(900), "refundAverageAmt", 3),
  [Promo(<<Anyone>>, Free, "refundOriginalAmt", 2) EXCEPT !.globalLimit = 1],
  Promo(<<Expired>>, Half, "refundOriginalAmt", Unlimited) }
Rivals == {
  { Promo(<<Anyone>>, Half, "refundOriginalAmt", 1), Promo(<<RouteA>>, Flat(1), "refundDiscountedAmt", Unlimited) },
  { Promo(<<Anyone>>, AllFor(900), "refundAverageAmt", Unlimited), Promo(<<ThreeForOne>>, Free, "refundAverageAmt", Unlimited) } }

PriceLists == { <<45>>, <<500, 501>>, <<333, 333, 334>>, <<500, 250, 1, 999>> }
Kinds(prices) == [i \in DOMAIN prices |-> IF i % 2 = 1 THEN "a" ELSE "b"]

NoTags == <<>>
OneTag == << [kinds |-> {"a"}, passes |-> <<450>>] >>
TwoTags == << [kinds |-> {"a"}, passes |-> <<450>>], [kinds |-> {"a", "b"}, passes |-> <<500, 250>>] >>

Order(kind, prices, tags, code, promos, used, referral, credits, expected, down) ==
  [kind |-> kind, prices |-> prices, kinds |-> Kinds(prices), tags |-> tags, code |-> code,
   promos |-> promos, userUsed |-> used, globalUsed |-> used,
   referralCredits |-> referral, credits |-> credits, expectedPrice |-> expected,
   roundsDown |-> down]

Offers == {{}} \cup {{p} : p \in Alone} \cup Rivals

Funds == { [referral |-> 0, credits |-> 0], [referral |-> 777, credits |-> 100],
           [referral |-> 0, credits |-> 5000], [referral |-> 777, credits |-> 5000] }

MCOrders ==
  { Order("tickets", prices, tags, code, promos, used, f.referral, f.credits, Unlimited, down) :
      prices \in PriceLists, tags \in {NoTags, OneTag, TwoTags}, code \in {"empty", "given"},
      promos \in Offers, used \in {0, 1}, f \in Funds, down \in BOOLEAN }
  \cup
  { Order("tickets", prices, tags, "none", {}, 0, f.referral, f.credits, Unlimited, FALSE) :
      prices \in PriceLists, tags \in {NoTags, OneTag}, f \in Funds }
  \cup
  { Order("passes", prices, NoTags, "given", promos, 1, 0, 0, expected, FALSE) :
      prices \in {<<500, 500, 500>>, <<500, 500, 500, 500>>}, promos \in Offers, expected \in {Unlimited, 1000} }

\* Tickets at half price, one promotion for each way of refunding them; the card pays the rest.
HalfPrice ==
  { Order("tickets", <<500, 999>>, NoTags, "given", {Promo(<<Anyone>>, Half, refund, Unlimited)},
          0, 0, 0, Unlimited, FALSE) :
      refund \in {"refundDiscountedAmt", "refundOriginalAmt", "refundAverageAmt"} }
===============================================================================
