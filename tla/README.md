# beeline-server in TLA+

beeline-server is the booking back end of a crowd-sourced bus service: passengers buy
tickets and route passes, pay through Stripe, and operators refund, replace, edit and
cancel; a daemon watches the buses and alerts those who subscribed. It is a Node.js
process (several, in production) over one PostgreSQL database. Its hard part is not any
single handler but what handlers do to each other: a purchase is two database
transactions with a call to Stripe between them, most other handlers read a row, await
something and save it, and meanwhile the same rows belong to everyone. This directory
models that part and the pricing rules it rests on, checks it with TLC and proves its
central properties with TLAPS.

Paths below are relative to the repository (`src/lib` is `src/src/lib` in
`PROJECT.json`).

## 1. Inventory

| Component | State | Operations | Correct when |
|---|---|---|---|
| Ticket purchase (`endpoints/transactions.js`, `transactions/index.js`, `transactions/builder.js`) | `transactions.committed`, `tickets`, `payments`, progress of the handler | prepare, commit, charge, record, undo | seats of a purchase are all or nothing; a charge without tickets leaves a trace; every handler ends |
| Seat counters (`models/Ticket.js`, `models/Trip.js`) | `trips.capacity`, `trips.seatsAvailable`, `tickets.status` | hooks on create and on status change | the counter agrees with the tickets; no trip is oversold |
| Refunds, replacements (`endpoints/transactions.js`, `transactions/index.js`) | `ticketRefund` items, `refundPayments`, Stripe's refunds | refund to card, refund to pass, `issue_free` | a ticket is refunded once, money returns once, a refund is final |
| Trip edits and status (`endpoints/trips.js`, `endpoints/tripStatuses.js`) | capacity, counter, status | `PUT /trips/{id}`, `POST /trips/{id}/statuses` | no seat lost or invented; nothing sold on a cancelled trip |
| Stripe gateway (`transactions/payment.js`) | charges, refunds (at Stripe) | charge, refund, fees, `distribute` | shares add up; nothing is returned that was not charged |
| Transaction builder (`transactions/builder.js`) | transaction items, undo functions | build, undo, outstanding amounts | items balance; undo restores |
| Route passes (`transactions/routePass.js`, `models/RoutePass.js`, `aws/expireStaleRoutePasses.js`) | `routePasses.status` | buy, use, undo, refund, expire | a pass pays for one ticket and was paid for once |
| Promotions, credits, referrals (`promotions/*`, `models/PromoUsage.js`, `models/Credit.js`, `endpoints/promotions.js`, `endpoints/userReferrals.js`) | usage counters, balances, pending payouts | spend and give back in a purchase, apply a code, two handlers of `newPurchase` | limits hold, balances never go negative, nothing is counted or paid twice |
| Crowdstart bids (`endpoints/crowdstart.js`) | bids, the route's tags | bid, withdraw, expire, convert | one live bid per user and route, converted once |
| User accounts (`endpoints/users.js`, `endpoints/userPaymentInfo.js`, `models/User.js`) | telephone, its code, e-mail, referral code, saved cards | log in, move a number, verify an address, add and delete cards | a number has one owner, what is verified was proved, cards are those Stripe has |
| Timetable (`endpoints/trips.js`, `endpoints/vehicles.js`) | dates and stops of trips, vehicle and driver, vehicles of drivers | post, edit and delete trips, set crew, edit vehicles | tickets keep the date they were bought for, a trip's vehicle is its driver's |
| Monitoring daemon (`daemons/monitoring.js`) | `latestData`, `alerts` | judge each trip, deduplicate, repeat | a silent bus is reported, an alert raised once |
| Event bus (`events/*`, `endpoints/eventSubscriptions.js`) | `eventSubscriptions`, the listeners of each process | subscribe, reload, emit | every valid subscription is listened for, and hears |
| Suggestions (`endpoints/suggestions.js`, `endpoints/suggestionsWeb.js`) | suggestions, questions to the travel-time service | post, edit, delete, answer | the travel time is that of the trip |
| Reports (`endpoints/transactionItems.js`, `endpoints/transactions.js`, `custom/wrs.js`) | cursors and pages | dumps in one snapshot, lists page by page | no row lost or repeated |
| Pings (`endpoints/pings.js`) | `pings` | insert | feed the daemon |
| CRUD of routes, stops, regions, assets, companies, admins; messaging; schema | independent rows | single statements, I/O | access control |

Interaction is by shared rows (tickets, trips, transactions, payments, users), by nested
calls (the sale calls promotions, passes, credits through the builder), by undo functions
(a list of callbacks run in a *second* database transaction), by in-process events
(`newPurchase` counts a promotion and pays a referrer after the fact; `noPings` and the
others go to listeners), and by rows several processes poll (`alerts`,
`eventSubscriptions`).

What is hard, in the order of harm: snapshots older than the writes based on them;
in-memory instances used after an await; two-step protocols with a crash or a lost
reply between the steps; an undo that itself aborts; counters kept by hooks; events that
live in memory only; answers that arrive out of order. `PROJECT.json` lists the hazards
line by line with the properties that would catch them.

## 2. Plan

Done, in this order:

1. `DbTransactions` (transactions of the database, shared), `TicketSale` (purchase),
   `SeatInventory` (its abstract specification), `TicketDesk` (purchase + refunds +
   replacements + edits), `TicketSale_proofs`.
2. `RoutePasses`, `CrowdstartBids` and their proofs.
3. `Pricing` (the builder's pipeline, `distribute` and the discount functions, against
   reference definitions) and `Rewards` (credits, referral credits, uses of a promotion,
   the event handlers) with `Rewards_proofs`.
4. `TripStatus` and `Monitoring` (the daemon), `Accounts` (users and saved cards),
   `Timetable` (trips, vehicles, drivers), `Suggestions`, `Reports`.

5. Proofs about all of these: the refinement of `SeatInventory`, `TicketDesk_proofs`,
   `Monitoring_proofs`, `Accounts_proofs`, `Timetable_proofs`, the sums of `Rewards_proofs`
   and, on them, `Pricing`; `Reports` in `RoutePasses_proofs`. Every invariant and action
   property the runs check is now a theorem.

Left, the most useful first:

1. Abstract specifications: a wallet of passes that `RoutePasses` refines, a set of
   delivered alerts that `Monitoring` refines.
2. Prices of bids and the deadline for bids; lists of passengers and trip codes.

## 3. Modules

| Module | Models | Corresponds to |
|---|---|---|
| `DbTransactions` | snapshots, conflicts, commit of database transactions; instantiated by the modules below | `db.transaction({isolationLevel: REPEATABLE_READ}, ...)` |
| `TicketSale` | the life of `POST /transactions/tickets/payment` for any number of concurrent requests | one action per step of the handler between two points where others may run |
| `SeatInventory` | the abstract promise: seats are reserved in one step and kept or released once | — |
| `TicketDesk` | extends `TicketSale` with refunds, `issue_free`, trip edits and status | one group of actions per endpoint |
| `RoutePasses` | passes of one user on one route: purchases, sales, refunds, expiries and the nightly job over the same rows | one action per step between two points where others may run |
| `CrowdstartBids` | one crowdstart route: bids posted, withdrawn, failed and converted, while operators activate or expire the route | one action per step between two points where others may run |
| `Pricing` | what an order costs: the chain of transformations from the prices of its items to balanced books | one action per transformation of `transactions/builder.js` |
| `Rewards` | credits, referral credits, uses of a promotion and the payout to referrers, over concurrent purchases, events and applications of codes | one action per step between two awaits that others can see |
| `TripStatus` | one trip through its day: pings, bookings, polls of the daemon | `processStatus` as operators, a poll as an action |
| `Monitoring` | the table of subscriptions, the listeners of each process, the alerts of several monitors | one action per statement or emit |
| `Accounts` | users' numbers, codes, addresses and cards, requests overlapping between statements | one action per statement or call of Stripe |
| `Timetable` | dates, stops and crews of trips, vehicles of drivers, tickets bought meanwhile | one action per statement or transaction |
| `Suggestions` | suggestions and the travel times asked for them | one action per statement or answer |
| `Reports` | streamed dumps and lists read page by page while rows change | one action per page, statement or transaction |
| `TicketSale_proofs`, `TicketDesk_proofs`, `CrowdstartBids_proofs`, `Timetable_proofs` | theorems about the modules they are named for | — |
| `RoutePasses_proofs` | theorems about `RoutePasses` and `Reports` | — |
| `Rewards_proofs` | theorems about `Rewards` and `Pricing`, after a theory of sums over finite sets | — |
| `Monitoring_proofs` | theorems about `Monitoring` and `TripStatus` | — |
| `Accounts_proofs` | theorems about `Accounts` and `Suggestions` | — |
| `MCTicketSale`, `MCTicketDesk`, `MCPricing`, `MCRewards`, `MCAccounts`, `MCTimetable`, `MCReports` | instances for TLC | — |
| `MCBooks` (with `MCPricing`, `MCSuggestions`), `MCRoutePasses`, `MCRoutes` (with `MCTripStatus`), `MCProgress` | instances of two or three modules that share no row: a variable `part`, chosen by the first state, says whose behaviour it is | — |

### Database transactions

Every module shares `DbTransactions`, one model of a database transaction. The server asks for
REPEATABLE READ (`transactions/index.js:149-151`; it is Sequelize 3's default too): a
transaction reads the snapshot of its first statement, and an update of a row that another transaction has
changed since that snapshot fails ("could not serialize access due to concurrent
update", quoted in `test/testToInvestigate.js:7`). So a transaction is two actions:
one that evaluates its reads and opens it (`BeginTx`), one that writes and commits
(`EndTx`) unless a row it writes is in `stale[c]`, the rows others committed since
(`Conflict`). Writes in between are invisible to others and need no step of their own.
Two sets of state make the difference to a simple lock: nothing stops a transaction
from *reading* old values, and rows it does not write never conflict (write skew),
which is how `checkNoDuplicates` and the trip's status could be fooled.

### Purchase (`TicketSale`)

| Action | Code |
|---|---|
| `SaleBegin`, `SaleRefuse` | `prepareTicketSale` up to `runOrderChecks`: trips running, no duplicate, enough seats |
| `SaleCommit` / `SaleConflict` | tickets created *valid*, hooks take seats, transaction and payment rows, COMMIT / abort |
| `ChargeNothing`, `ChargeCard`, `ChargeDeclined`, `ChargeReplyLost` | `chargeSale`: nothing to pay, Stripe's three answers |
| `RecordCharge`, `RecordChargeFails`, `RecordError` | the payment row, or the catch block, which stores the error, and the ChargeError |
| `UndoBegin`, `UndoCommit` / `UndoConflict` | `undoFn`: tickets failed, seats given back, `committed := false` / "!!! ERROR UNDOING" |
| `Crash` | the process stops in any step |

`SeatDelta` is the hook `afterUpdate`: it compares the new status with what the
*instance in memory* remembers. The undo uses instances from the sale, so it always
adds one seat for each ticket.

`Errors` are the errors the charge may end in, told apart by the object the catch block
stores in `payments.data`: a refusal of Stripe (`declined`), no answer from it
(`unanswered`), or a database error after the charge (`unrecorded`).

### Desk (`TicketDesk`)

`RefundBegin … RefundCrash` follow `prepareTicketRefund` and
`refundViaStripeWithAccounting`; `PassRefund…` the refund to a route pass (one
transaction, no Stripe); `IssueFree` replaces tickets in a SERIALIZABLE transaction;
`EditRead`/`EditWrite` are the two halves of `PUT /trips/{id}`; `SetTripStatus` toggles
the one fact of a trip's status that sales read. `previouslyRefunded` is `_.sum` over
decimal *strings*: `RefundableToCard` and `RefundableToPass` say what that comes to
(one zero item passes for a card refund, none passes for a pass refund).

### Route passes (`RoutePasses`)

| Action | Code |
|---|---|
| `BuyPasses` | `purchaseRoutePass`, `prepareRoutePassPurchase`: rows created *valid* and committed |
| `SaleBegin`, `SaleCommit` | `applyRoutePass` inside the sale: oldest valid passes read, then made void |
| `ChargeCard`, `ChargeFails`, `RecordCharge` | `chargeSale`, for orders of passes and for sales |
| `RefundRead` | the handler reads the pass outside of any transaction |
| `RefundBegin` / `RefundReject`, `RefundCommit`, `StripeRefund`, `StripeRefundFails` | `prepareRoutePassRefund`, `refundViaStripeWithAccounting` |
| `ExpireBegin`, `ExpireCommit` | the two `expire` endpoints |
| `ExpireDue` | `aws/expireStaleRoutePasses.js`, one SQL statement |
| `GrantPass` | a pass without a payment: `issue_free`, or the refund of a ticket to a pass |
| `UndoBegin`, `UndoCommit` / `UndoConflict` | the undo functions: bought passes *failed*, used and refunded ones *valid* |
| `Abort`, `CrashEarly`, `CrashLate` | a transaction that conflicts; the process stops |

`mine[c]` is what handler `c` remembers: the rows it will write, and after the end of the
handler what the books (the items of its transaction) say it took. `Standing(c)` says
that those items are committed and not undone.

### Crowdstart bids (`CrowdstartBids`)

| Action | Code |
|---|---|
| `PostRead` / `PostRefuse`, `PostCreate` | `POST /crowdstart/routes/{id}/bids`: a live bid of the user is looked up, then one created |
| `WithdrawRead`, `WithdrawWrite` | the two `DELETE` handlers, of the user and of an operator |
| `DecisionBegin`, `DecisionCommit` / `DecisionAbort` | `activate` and `expire`, each one transaction that first reads the route's tags |
| `ConvertRead` | the route and the bid are read, the assertions evaluated |
| `ConvertCommit` | `purchaseRoutePass` with its `postTransactionHook`: passes sold and the bid made *void* in one transaction |
| `ChargeCard`, `ChargeFails`, `RecordCharge` | `chargeSale` |
| `Undo`, `Reopen` | `undoFn`, then the `finally` block that makes the bid live again |
| `CrashEarly`, `CrashLate` | the process stops |

`at[c]` is how far handler `c` is, `mine[c]` the bids it has read (or made). `missed[c]`
is a history variable: the bids others wrote between the handler's reading and its
writing. No action reads it; the properties do, to say which overlap of handlers explains
a state. `Kept(k)` says that the passes of conversion `k` are sold and not undone.

### Pricing (`Pricing`)

| Action | Code |
|---|---|
| `ApplyRoutePass` | `applyRoutePass` for one tag of the order: the passes there are pay for the first items of that tag not paid yet; what they cost less than the items is a discrepancy |
| `ApplyPromoCode`, `NoPromoCode`, `RefusePromoCode` | `applyPromoCode`: the promotions that qualify are compared and the best applied, or the request is refused |
| `ApplyReferralCredits`, `ApplyCredits` | a balance spread over what is outstanding |
| `AbsorbSmallPayments` | a card charge below the fee's minimum is given away |
| `FinalizeForPayment`, `PriceHasChanged` | `initCommittedTransaction … finalizeForPayment`: the card pays the excess, unless the expected price differs |

`Distribute`, `Qualify`, `Discounts` and `RefundAdjustments` are the pure functions of
`promotions/functions/*` and `transactions/payment.js`, as operators; `n4m` and the tiers
are compared with reference definitions in `PromotionsAsAdvertised`. `Rounded` is
`Math.round` of a quotient of doubles, which may fall on either side of an exact half:
`roundsDown` chooses for a whole order.

A list of items is a record of the set and of how it is sorted; `Place` says how many items
come before one, `FirstOf` and `Take` are the code's `find` and `slice`. The loop of
`distribute` over the cents lost in rounding is the recursive function of `Corrected`.
`Refuse` ends an order where the code throws: also where a promotion gives away more tickets
than there are left (`Initialized`), or a child's price is not below an adult's.

### Rewards (`Rewards`)

| Action | Code |
|---|---|
| `SaleBegin` / `SaleRefuse`, `SaleCommit` / `SaleConflict` | a purchase decides in its snapshot what it takes (`CartFor`) and subtracts it |
| `ChargeSucceeds`, `ChargeFails` | the card; a paid purchase emits `newPurchase` |
| `UndoBegin`, `UndoCommit` / `UndoFails` | the undo functions give the credits and the uses back |
| `CountUses`, `CountLost` | the handler of `promotions.js` counts the use in the row without a user |
| `PayoutBegin`, `PayReferrer`, `MarkUnreferred`, `PayoutEnds` | the handler of `userReferrals.js`, one transaction |
| `ApplyRead`, `ApplyBegin`, `ApplyCommit` / `ApplyRefuse` / `ApplyEnds` | `POST /user/applyRefCode`: the user is read before the transaction that makes him a referee |
| `Crash` | the process stops; pending events are lost |

### Daemon (`TripStatus`, `Monitoring`)

In `TripStatus` the clock passes over the minutes at which a rule may change its mind
(`Pass`); `Ping`, `Book` and `Cancel` are what a driver, passengers and operators do, and
`Poll` computes `Status` and remembers it as `latestData` does. `Status` follows
`processStatus`: which stops are watched (`Relevant`), the ping that belongs to a stop
(`BestPing`), whether the bus has arrived, and the most severe of the three kinds of event.

| Action of `Monitoring` | Code |
|---|---|
| `LoopRead`, `LoopApply`, `LoopWake`, `LoopFails` | the loop of each process that reloads the subscriptions every half hour; an error of its first round ends it |
| `Edit`, `ReloadRead`, `ReloadApply`, `ReloadFails` | a request that edits a subscription, and the reload it starts and does not await |
| `Tick` | half an hour |
| `PollPings`, `FirstPollFails` | `processNotifications` finds a silent bus |
| `Lookup`, `Announce`, `Repeat`, `Ignore`, `SaveAlert`, `TaskFails`, `SaveFails` | `emitDeduped` (`Alert.findCreateFind`), emit, and the save that touches `updatedAt` |
| `MonitorDies` | the forked process exits |

### Accounts (`Accounts`)

| Action | Code |
|---|---|
| `SendCode`, `MakeCode`, `AskToMove`, `SaveCode` | `POST /users/sendTelephoneVerification`, the request to change a number |
| `Verify`, `RefCodeBegin`, `RefCodeCommit` / `RefCodeConflict`, `Login` | `POST /users/verifyTelephone` with `generateRefCode`, the one database transaction of the module |
| `UpdateTelephone`, `FindPrevious`, `TakeNumber`, `GiveNumber`, `NumberIsTaken` | `POST /user/updateTelephone`: the number is taken from its previous owner, then given to the new one, in two saves |
| `PutUser`, `SaveEmail`, `SendLink`, `FollowLink`, `SaveVerified` | `PUT /user`, the verification link |
| `ChangeCards`, `NewCustomer`, `Attach`, `CheckBids`, `KeepForBid`, `Detach`, `Retrieve`, `RetrieveFails`, `SaveCards` | adding, deleting and replacing a saved card, with Stripe's calls between the reads and the save |
| `AskToBid`, `PlaceBid`, `EndBid` | what bids need of a card |
| `Crash` | the process stops |

`Save` writes the fields that differ between the copy a request holds and what it read, as
Sequelize's `save` does with what has changed. `excuse` is history: the fields of a user
for which two requests overlapped or one stopped half-way; so is `released`, the numbers an
account gave up or lost in a way that a property names.

### Timetable (`Timetable`)

| Action | Code |
|---|---|
| `PostTrip`, `DeleteTrip` | `POST /trips`, `DELETE /trips/{id}` |
| `EditRead`, `EditCount`, `EditBegin`, `EditCommit` / `EditAborts` | `PUT /trips/{id}`: the trip is read, its tickets counted, and only then a transaction opened; `other` is a column of the trip besides those modelled, and decides whether the row is written |
| `SetVehicleRead`, `SetDriverRead`, `CrewTripRead`, `CrewSave` / `CrewSaveFails` | the operator's `setVehicle` and the driver's `setDriver` |
| `GiveVehicle`, `AddVehicle`, `DeleteVehicle` | `PUT`, `POST`, `DELETE` of vehicles |
| `BookBegin`, `BookCommit` / `BookAborts`, `ChangeTicket` | what of a purchase, a refund or a cancellation concerns dates |

### Suggestions (`Suggestions`) and reports (`Reports`)

`Post`, `Put`, `DeleteSuggestion`, `Deanonymize` are the registered user's and the
device's requests, each one statement or one transaction. `SendWebLink`,
`FollowWebLink`, `CountPast`, `CreateCounted`, `FindToEdit`, `SaveEdit`, `DeleteOwn` are
those of the web site; `Ask` puts a question to the travel-time service, `Answer` and
`NoAnswer` take any of the questions that wait, `ServerStops` loses them all.

In `Reports` a dump is `BeginDump`, `DumpPage` for each page, `EndDump` or `DumpFails`,
all in the snapshot of its first page; a list is, for each page, two of `ReadIds`,
`ReadCount`, `ReadRows`, and `Reply`. `Add`, `Turn` and `Delete` change the rows
meanwhile. `Scenes` names the reports and the tables they are made of. `Ordered` are the
orders a query may answer in, a page the set of rows between two places of one of them: which
rows a page has matters to the properties, the order within it does not. The lines of a dump
name their page, so that a row printed on two pages is two lines.

### Abstractions

* In `TicketSale` and `TicketDesk` all tickets cost 1 or the whole purchase is free; what
  promotions, passes and credits take from the amount is `Pricing`'s.
* `seatsAvailable` is an unbounded integer, as the rows are far from 2^31.
* A booking is one request; its items name a trip or are unused, so a request with
  several passengers on one trip is included.
* The seat update a ticket hook starts (`models/Ticket.js:25-33`, inside a `forEach`
  whose promise nobody awaits) is taken to reach the connection before the COMMIT of its
  transaction. If it fails, PostgreSQL turns the COMMIT into a ROLLBACK: in the undo the
  handler then believes it succeeded, but the database ends as in `UndoConflict`.
* `IssueFree` is one step: it writes every row whose reading matters, in a SERIALIZABLE
  transaction; its aborts change nothing.
* An `EditWrite` that aborts is an edit that never wrote.
* A database error other than those modelled ends the handler as `Crash` does.
* `RoutePasses` is about one user, company and tag, whose rows nobody else's requests
  touch. All passes cost the same (prices and residuals are `Pricing`'s) and an order of passes always charges a card. A sale in
  it is only its passes: its tickets and its conflicts on trips are `TicketSale`'s.
* The nightly job takes the passes past their date; passes of a tag have the same period
  of validity, so these are the oldest, in any number.
* `CrowdstartBids` is about one route whose bidders have a saved card; its tags are those
  two handlers test, and nobody edits them with `PUT /routes/{id}`. Prices of bids and the
  deadline for bids are left out. The passes sold are `RoutePasses`'s.
* `ConvertCommit` is one step: the transaction is SERIALIZABLE and its aborts change
  nothing. A handler whose statement or transaction fails ends as in `CrashEarly`.
* A refused or aborted handler forgets what it read (`Drop`): its reply is an error.
* `Pricing` runs in one database transaction on values in memory, so an order's behaviour
  is sequential; what it reads (balances, uses) is part of the order. Criteria that look at
  what an item is (route, company, tags, date, contact list) are one criterion over kinds
  of items.
* In `Rewards` a ticket costs two units and the promotion makes it free; one promotion and
  one code per referrer. A user without a row in `promoUsages` has used it 0 times.
* `TripStatus` follows the clock of one day in minutes, on a line of places with a table of
  distances; `Monitoring` counts half hours, and its keys stand for events of one trip.
* In `Monitoring` a monitor that dies is not restarted, as the server only logs its exit;
  a listener that throws and what it sends are not modelled.
* `Accounts` leaves out names, passwords, sessions, rate limits and the age of a code: a
  request refused for them changes nothing. A token, once signed, stays good.
* `Timetable` keeps of a ticket its status, its stops and its date. Messages to passengers
  and the trip's status are left out (`TicketDesk`).
* `Suggestions` and `Reports` leave out columns, wording and filters that never change for
  a row. An answer of the travel-time service is the trip it was asked for.
* Variables called history (`missed`, `excuse`, `late`, `apart`, `guessed`, `unsaved`,
  `unheard`, `paidFor`, ...) are read by no action: they let a property name the one
  overlap that explains an exception, instead of allowing it everywhere.

## 4. Runs

| Run | Bounds | Shows |
|---|---|---|
| `sale` | 2 bookings × 2 items, 2 trips of 2 seats, 2 users, all faults | counter = tickets; no duplicate purchase; all or nothing; the rows of a purchase tell where its money is; refinement of `SeatInventory` |
| `progress` | 3 bookings × 1 item, 1 trip of 2 seats, no faults; or 1 server, 1 monitor, 2 subscriptions (one invalid), 2 edits, 2 failed queries; fairness | every started purchase ends, someone wins; every process comes to listen for exactly the valid subscriptions |
| `desk` | 2 bookings of the last seat, a refund to card, one to pass, a replacement, an edit, status changes, all faults | the ledger of seats; how overbooking can arise; a ticket refunded once, and not kept with its price; nothing issued on a cancelled trip |
| `passes` | 1 purchase, 2 sales, 1 refund, 1 operator's expiry, nightly job, free passes; 2 passes, requests for 1 or 2; all faults. Or 2 monitors, 2 calls at a time, 2 subscriptions, 4 times, 2 faults | no pass lost; discharged once, refunds apart; what revives an unpaid pass; alerts raised once and heard |
| `bids` | 2 posts of 1 or 2 users, 1 withdrawal, 2 conversions, 1 activation, 1 expiry; 2 bids; all faults. Or a trip of three stops, 9 moments, 2 pings, 1 rider | failed bids are not sold; what two live bids of a user, two sales of a bid, or a sold bid that is not void come from; a silent bus is reported at every poll; an arrival is final |
| `rewards` | 2 users, 2 purchases of 1 or 2 tickets, 2 applications, limits 1 (all) and 2 (each), undos, crashes | nothing overspent; balances and counters accounted for; a referrer paid once |
| `books` | every order of the catalogue `MCOrders`; 2 suggestions, 2 overlapping web requests, 2 questions; reports of 4 rows in pages of 2 with 2 changes | books balance, items are paid for, promotions give what they say; travel times fit; reports are complete |
| `accounts` | 3 users (2 registered), 2 numbers, 2 addresses, 3 cards, 2 requests at a time, 4 in all (6 of those that move numbers), crashes | one referral code; what is verified was proved; numbers are given on; cards are kept |
| `timetable` | 1 trip of 1 or 2 stops, 2 dates, 2 drivers, 1 vehicle, 2 edits and 2 other requests, 3 in all | tickets keep their date; a trip's vehicle is its driver's |
| `undo_conflict`, `pass_dump`, `promo_refund` | the smallest that show it | see *Disagreements* |

Why these bounds are enough to be interesting: a conflict needs two transactions on one
row; two items let one request hold two seats of one trip, or one seat on two trips, so
that requests overlap partly; capacity 2 makes both "fits" and "does not fit" happen
for them; the third booking is needed to have a winner and two losers. In `desk` one
request of each kind over one ticket's life gives every pair, and every triple, of
handlers a race; capacity 1 makes every resale a race for the same seat, and
`MaxCapacity = 2` lets an edit raise, lower or restore it. Two refunds to card of one
ticket are excluded by the committed item of the first.

In `passes` two sales race for two passes that one request may want both of, one of them
bought and one free; the refund and both expiries can hit any of them at any point, and
every pair of undos (of the purchase, of a sale, of the refund) can overlap. In `bids` the
two posts may be of one user (a duplicate) or of two; two conversions, a withdrawal and an
expiry can meet on one bid, with one of them starting before and another after the first
has committed. In `rewards` two purchases may be of one user (racing for one balance and
for the last use), of a referee and his referrer, or of strangers; the two applications may
be of one user, before, between or after his purchases. The theorems of section 5 cover all
larger instances of these.

The catalogue of `books` has prices that do not divide evenly (1 cent, 45 cents below the
minimum charge, 333/333/334), every discount function, every refund function, promotions
that compete, limits that cut the items of a promotion, passes worth less than the ticket,
and balances of nothing, of less and of more than the price. Two questions and two
overlapping edits are what it takes for an answer to be overtaken; four rows in pages of
two make two full pages, so that the third, empty one is a case. The moments of the trip in
`bids` lie just before, at and after each threshold of the rules (25, 5 and 2 minutes); the two
monitors of `passes` and two calls at a time, over an hour and a half, let an alert be found
stale by both. In `accounts` two requests overlap in any of their steps and two more follow; six
moves of two numbers among three users let a number come, go, and be asked for again by a
request that has seen it before it went. What concerns numbers, the address, or the
cards shares no field with the others, and each is explored in behaviours of its own.
In `timetable` a trip has two stops when a booking's one is dropped by an edit and its
other kept; three requests of four are a purchase, an edit that misses it, and one more.

Terminated states are legitimate ends (all requests answered, all bounds reached), hence
`CHECK_DEADLOCK FALSE`. Symmetry is used in the safety runs only, never in `progress`.

### Fairness

`ProgressSpec` (and `FairSpec` of `TicketSale`) assumes weak fairness of `Handle(b)`, what
a purchase does by itself once its request has arrived: Node runs continuations that are
ready, Stripe and PostgreSQL answer (with an error at worst, which is an outcome of the
steps). Arrival of requests (`SaleBegin`) is not fair, and crashes are not assumed. No
fairness is needed between competing handlers: first-updater-wins has no waiting in the
model, and each blocked statement in PostgreSQL waits only for a transaction whose handler
is itself fair. For the bus it assumes weak fairness of `LoopStep(p)`: `setTimeout` fires
and the query returns. The reloads that requests start are *not* fair: one may be
forgotten, or install an old list late; the loop repairs it.

### Disagreements between the repository and the code

Three runs show a property that a test, a description or a comment states, and the code breaks:

| Run | Statement | What happens |
|---|---|---|
| `undo_conflict` | test "When payment fails it fails cleanly" | two declined purchases of one trip: the second undo aborts and is not retried; unpaid tickets stay valid. So does it break the endpoint's description (`endpoints/transactions.js:48-50`): "charge Stripe, and then mark the transaction as committed and the tickets as valid if Stripe has been successfully charged" |
| `pass_dump` | "Get all route pass transaction items"; `csvdump` ignores `perPage` | the loop runs while `pageSize >= perPage` and starts with 20, below 100: no page is ever read |
| `promo_refund` | `refundOriginalAmt`: "Amount refunded is the amount BEFORE discount" (`discountRefunds.js:221`); `refundAverageAmt`: "ticket price less this AMORTIZED AMOUNT" (`:229`) | the amounts these functions compute are stored in `discounts.refundAmounts` and never read; `refundTicket` (`index.js:508-512`) returns the price less the ticket's own discount and refuses any other amount |

Others are stated the other way round, by properties that hold because they name exactly
what happens:

* The order of a purchase is the reverse of that description in every run, declined or not:
  tickets are created valid, and the transaction committed, *before* Stripe is asked
  (`builder.js:478-573`, then `chargeSale`), and a declined charge is undone. Between the two,
  passengers hold, and can show, tickets nobody has paid for (`AllOrNothing` has `committed`
  from the first transaction on).
* A charge can be taken without tickets: when Stripe's answer or the record of the charge is
  lost, the purchase is undone like a declined one. Only the error stored with the payment
  tells (`MoneyIsTraced`), and nothing reads it.
* When Stripe returns the price of a ticket and its answer is lost, the undo makes the ticket
  valid again: the customer has both (`StripeReturnsWhatItCharged` names it).
* A ticket cancelled by `issue_free` during its charge gives its seat back twice, and an
  edit writes a counter computed from a trip read before a purchase committed; a cancelled
  ticket becomes valid when its refund is refused (`SeatLedger`, `OverbookingIsExplained`:
  the counter is off by precisely the leaked seats, and overbooked by at most those and the
  revived tickets, on trips nobody edits).
* "Only valid route passes can be refunded" is evaluated on a copy read before the
  transaction (`DischargedOnce` allows one discharge more for each refund booked), and so is
  "Bid has status ..., not bidded" (`ConversionsExplained`).
* `UnpaidPassExplained` names the one way in which a pass whose purchase failed pays for a
  ticket again.
* A use of a promotion whose event is lost in a crash is never counted
  (`GlobalCountAccounted`).
* The list of transactions of an admin is paged twice, once over ids and once over rows
  (`endpoints/transactions.js:1260-1298`): its second page is always empty and its
  `pageCount` never above 1 (`PagesMissNothing`).
* A number taken from one account is lost when the request stops before giving it to the
  other, and also when the number it asks for is the one its own copy of the account still
  holds: the save then leaves the field out, although another request has taken it away
  meanwhile (`NumbersAreGivenOn`); a verified address may be one whose link was never followed
  when it was changed during the verification (`VerifiedWasProved`).
* A trip whose tickets were counted before a purchase may move to another date
  (`TicketsKeepTheirDate`); a vehicle and a driver set by two requests at once need not
  belong together (`VehicleIsItsDrivers`).

## 5. Proofs

`TicketSale_proofs` proves for *every* set of trips, users, bookings, every finite set
of items and every capacity:

| Theorem | States |
|---|---|
| `SaleIsWellTyped` | `Spec => []TypeOK` |
| `PurchasesAreAtomic` | `Spec => []AllOrNothing` |
| `MoneyIsAlwaysTraced` | `Spec => []MoneyIsTraced` |
| `CountersMatchTickets` | `Spec => []SeatsMatchTickets` |
| `TripsAreNotOversold` | `Spec => []NotOversold` |
| `PurchasesDoNotDuplicate` | `Spec => []OnePurchasePerTrip` |
| `SalesImplementInventory` | `Spec => ImplementsInventory` |
| `ConflictsLeaveAWinner` | `Spec => []SomeoneSucceeds`, where servers do not crash |

Inductive invariants, each on top of the one before:

1. `LifeInv`: types, `AllOrNothing`, and which values of `committed` and `payment` go
   with each step of the handler; `PaymentFollowsSale` in it says which error goes with
   which charge, which `MoneyIsTraced` rests on. Needed because `AllOrNothing` alone does not say that
   the undo starts from a held purchase.
2. `SeatInv`: a ticket's row carries the user and trip of its request
   (`RowsFollowOrders`), occupied seats are finite sets, and the counter agrees with
   them. Each commit is a lemma that a set grows or shrinks by exactly `Lines(b, t)`.
3. `SnapshotInv`: the heart of the argument about snapshots. While a sale is open and
   the trip is *not* in its `stale` rows, what its checks saw is still so: enough seats
   (`StillAvailable`) and no ticket of the same user (`StillUnique`). Neither is
   re-checked at the commit; the absence of a conflict on the trip's row is what carries
   them there, since everyone who takes a seat writes that row. Without these two
   conjuncts `NotOversold` and `OnePurchasePerTrip` are not inductive.
4. `InventoryInv` adds that only sold tickets exist and that nobody edits trips. Under it
   every step of the sale is a step of `SeatInventory` or a stutter: the commit of a sale is
   the abstract reservation, the end of its handler the abstract decision to keep or release.
5. `WinnerInv`: whoever was refused, or has a stale row, owes it to a purchase that got
   through.

`RoutePasses_proofs` proves, for every set of requests and every number of passes:

| Theorem | States |
|---|---|
| `PassesAreWellTyped` | `Spec => []PassTypeOK` |
| `PassesAreAccounted` | `Spec => []PassIsAccounted` |
| `PassesAreDischargedOnce` | `Spec => []DischargedOnce` |
| `PassRefundsArePaid` | `Spec => []RefundsArePaid` |
| `UnpaidPassesAreExplained` | `Spec => []UnpaidPassExplained` |

Two lemmas carry the argument: `WhoWrites`, the six ways a pass changes its status, and
`CommittedStays`, that only the commit of its own undo takes a handler out of the books.
With them `PassIsAccounted` is inductive as it stands. The two properties about money
need `MoneyInv`: a pass belongs to at most one purchase, and from its transaction on a
refund is of a purchase that has ended well, which nothing undoes later. `DischargedOnce`
needs two more conjuncts: `SnapshotsHold` (what an open sale or expiry read of a pass is
still so unless the row is stale) and `Books`, the same bound with one discharge less
while a pass is valid, since otherwise a valid pass could already be at its limit.

Of `Reports` it proves `ReportInvariant` (`ReportSpec => []ReportInv`) and from it
`ReportsAreCompleteAlways` (`ReportSpec => []ReportsAreComplete`), for tables and pages of any
size and any number of changes. The argument counts: the rank of a row is how many rows of the
selection come before it, and `PageIs` says that whatever ordering a query has chosen, a page
between two places has the rows whose rank is between them, and a page that is not full shows
that there are no more. For a dump (`DumpInv`), all pages are of one snapshot, so what is out is
the rows of a rank below the pages read, each on the one page its rank says. For a list
(`ListInv`), each page is of another table; but a row that joins, wherever it does, pushes
others to later pages and never back (`RanksOnlyGrow`), so a client that has seen the rows of
the first ranks has still seen them. Rows that leave, the times that
transaction items share, and an admin's two-fold paging break exactly this, and are what
`PagesMissNothing` names (`Excused`). `AdminInv` is the case in which an admin's first page
holds everything.

`CrowdstartBids_proofs` proves, for every set of users and requests and every number of
bids:

| Theorem | States |
|---|---|
| `BidsAreWellTyped` | `Spec => []BidTypeOK` |
| `FailedBidsAreNotSold` | `Spec => []FailedBidNeverConverted` |
| `DoubleSalesAreExplained` | `Spec => []ConversionsExplained` |
| `SoldBidsAreVoid` | `Spec => []ConvertedBidIsVoid` |
| `TwoLiveBidsAreExplained` | `Spec => []DuplicateBidsExplained` |

The first argument, `RouteInv`, is about decisions: a route is never both activated and
failed, since while a decision is open and the route's row not stale, the tags it has read
are still empty (`UndecidedInSnapshot`); failed bids are those of failed routes, sold ones
of activated routes. The second, `SaleInv`, is about handlers that read and write without a
transaction: whoever is about to write a bid that a standing conversion has sold has missed
that sale, or a failed conversion has made the bid live again (`SaleMissed`). Without it
neither of the two properties about sales is inductive. The third, `PostInv`, is about posts:
one that is about to create a bid has missed every live bid of its user.

`Rewards_proofs` proves, for every set of users, purchases and applications and every
limit and amount:

| Theorem | States |
|---|---|
| `RewardsAreWellTyped` | `Spec => []RewardTypeOK` |
| `RewardsNotOverspent` | `Spec => []NothingOverspent` |
| `ReferrersPaidOnce` | `Spec => []PayoutsExplained` |
| `BalancesAddUp` | `Spec => []BalancesAccounted` |
| `SalesAreCountedOnce` | `Spec => []GlobalCountAccounted` |

Types are proved in two halves, `TxOK` (transactions and steps) and `RowsOK` (rows and what
handlers remember). `NothingOverspent` is not inductive: nothing re-checks a balance when a
purchase writes. `SpendInv` adds `Fits(p)`: what an open purchase has decided to take is
still there, and its uses still below the limit, unless the row it takes them from is
stale, and then its commit fails. That every writer of a row makes it stale for the others
is what carries the check of the snapshot to the write. `PayInv` does the same for the
payout: `SeenIsUser` says that the user a handler has read is the user there is, unless
stale, so that two handlers of two first purchases cannot both find the payout pending.

The last two of these theorems are about sums over sets of purchases. A fold of the community
modules is a recursive function over the subsets of a set, each of which gives up a chosen
member; that it exists, is unique, and does not depend on what is chosen are inductions,
and the library's induction theorems cannot be used here. They are proved by a smallest
counterexample instead (`SmallestOfSets`, from the well-foundedness of `<` on the naturals):
`SumsExist`, `SumsAgree`, `AnyMayBeFirst`. What the model needs follows: a sum is a number,
depends on no more than what is summed, and changes by what joins or leaves (`SumIsInt`,
`SumSame`, `SumWithout`). With them `BalanceInv` and `CountInv` are inductive: each step
moves one purchase in or out of the set that is summed, or leaves every sum alone.

Of `Pricing` it proves, for every order with any number of items, passes and tags, for every
promotion whose parameters are what the server's schemas let through, and for either way of
rounding a half:

| Theorem | States |
|---|---|
| `PricingIsInvariant` | `PricingSpec => []PricingInv` |
| `BooksBalanceAlways` | `PricingSpec => []BooksBalance` |
| `EveryItemIsPaidForAlways` | `PricingSpec => []EveryItemIsPaidFor` |
| `PromotionsAsAdvertisedAlways` | `PricingSpec => []PromotionsAsAdvertised` |
| `DistributeGives` | what `distribute` answers: shares between nothing and the prices, of the amount in all, each within a cent per item of its proportion |
| `FreeIsWhatIsNotPaid` | `n4m`'s formula counts the items a buyer of one after the other gets free |
| `TiersAreBest` | `findMatchingTier` finds the highest threshold reached |

`PricingInv` says that an item still costs its price less what each means has given for it
(`ItemsAddUp`) and that the books are out of balance by what all items still cost together
(`BooksAddUp`). Each transformation takes from both what it pays, so the rest is about how much
that is: for credits, `DistributeGives`. Rounding each share leaves the sum within half a cent
per item of the amount; the cents that are missing or too many are then handed out or taken
back one at a time. That the loop never runs out of an item to change is no accident of the
numbers: while the sum is below the amount, and the amount at most the sum of the prices, some
share is below its price. Loops and sums are recursive functions over naturals here too, and
`StepByStep`, again a smallest counterexample, says what they reach.

Rewriting `Pricing` for these proofs showed that the model applied a promotion of more free
tickets than there are to those there are, where the code throws; `Initialized` is the guard
it lacked.

`TicketDesk_proofs` proves, for purchases, refunds, replacements and edits in any number:

| Theorem | States |
|---|---|
| `TicketsAreRefundedOnce` | `DeskSpec => []RefundedOnce` |
| `CancelledTripsTakeNobody` | `DeskSpec => NoTicketOnCancelledTrip` |
| `StripeReturnsOnlyWhatItCharged` | `DeskSpec => []StripeReturnsWhatItCharged` |
| `SeatsAreAccountedFor` | `DeskSpec => []SeatLedger` |
| `OverbookingHasACause` | `DeskSpec => []OverbookingIsExplained` |

`DeskInv` says what the desk may have made of a ticket in each state of its sale
(`StatusFollowsSale`), what each refund has in the database (`RefundLife`), and that a ticket
not stale for a refund is as that refund found it (`StillRefundable`), without which two
refunds could both be committed. `StripeInv` follows the money, `SeatAccounts` the seats: of
every trip, the counter is the capacity less the occupied seats and more by the leaked ones,
and below zero by at most the restored ones.

`Timetable_proofs` proves `TimetableInvariant`, and from it `DatesAreKept`
(`TicketsKeepTheirDate`) and `VehiclesAreTheirDrivers` (`VehicleIsItsDrivers`). All stops of a
ticket are of one live trip (`TicketsRideATrip`), because neither deletion nor edit takes a
stop a ticket holds; a sale or an edit under way knows what it has read of its trip to be
still so, or the trip is stale for it and it will abort.

`Monitoring_proofs` proves, for any number of servers, monitors, alerts, calls and faults,
`AlertsAreRaisedOnce` (`AlertsAreNotRepeated`) and `SubscribersAreReached`
(`AlertsReachSubscribers`); and, for every list of stops, table of distances and number of
pings, `TripInvariant`, `SilentBusesAreReported` (`SilentBusIsReported`) and `ArrivalsAreFinal`
(`ArrivalIsFinal`). The alerts' argument (`RaisedInv`) is that at most one call can hold the
right to raise a given state of an alert, until its save fails; the listeners' (`BusInv`)
that what a process has read, however long ago, holds the valid rows nobody touched. An
arrival stays because the pings the earlier status was made of are the earliest ones, so a
later best ping is as near or nearer.

`Accounts_proofs` proves, for any number of accounts, numbers, cards and requests,
`AccountInvariant` and from it `OneCodeEach` (`OneReferralCode`), `AddressesAreProved`
(`VerifiedWasProved`), `NumbersPassOn` (`NumbersAreGivenOn`) and `SavedCardsAreKept`
(`CardsAreKept`). Its pattern is the same throughout: a request either still knows what it
read, or has been told (`stale`) that another wrote it, and then its own write is on record
in `excuse` or `released`. The attempt to prove `NumbersAreGivenOn` found a way of losing a
number that the model did not have on record and a run with four requests does not reach
(*Disagreements*); the run has a scene of six for it now. Of `Suggestions` it proves
`SuggestionInvariant` and `TravelTimesFit` (`TravelTimeFitsTrip`): of a row whose travel time
is not that of its trip, the question asked last is about that trip and not late.

Theorems about no run's property are the type invariants, `NotOversold`
(`TripsAreNotOversold`), `RefundsArePaid` (`PassRefundsArePaid`) and the inductive invariants
that several theorems share.

Assumptions are the named ones of the modules: items and handlers finite, capacities,
limits, times and bounds natural, the sets of ids disjoint (`RowsAreDistinct`,
`RequestsDiffer`, `OwnersDiffer`, `NoneIsNothing`, `ReplacementTickets`), the crews and requests
of the configuration about what exists (`CrewsNameRows`, `DeskActors`, `CallsAreCounted`), the
stops of a trip timed and in order (`StopsAreInOrder`, `StopsAreTimed`), the parameters of
promotions, prices and balances as the server's schemas and assertions have them
(`OrdersAreOrders`, `MinChargeNatural`, `UnlimitedIsNoNumber`; rates of whole percentages is the
one restriction of the model), pages of at least one row and more than the size the dump of
passes starts from (`SmallFirst`, 100 and 20 in the code). None is about what the code does. TLC
evaluates them in every run.

Only model-checked: liveness under fairness (`EverySaleEnds`, `BusSettles`), which the provers
do not do, and the three disagreements, which are counterexamples.

## 6. Not modelled, and why

* Routes, stops, regions, assets, companies, admins, contact lists, announcements: handlers
  of one statement on one row, with access control, and read-only searches.
* Messaging (SMS, e-mail, push, Telegram), spreadsheets, map services, formatters: I/O.
* The database schema and the cache of models: start-up wiring. What matters of it, the
  isolation level, is in `DbTransactions`.
* Signing of tokens, bcrypt, JSON web tokens: libraries. Sessions and passwords of admins,
  names, push tokens, the search for users, rate limits.
* Stripe's fee formulas, connected accounts and transfers; `cancelSale`, which is exported
  and never called; `saveRefCode`, likewise.
* The bulk entry of trips for one operator in `custom/wrs.js`; trip codes, the lists of
  passengers and their messages.
* Whether the statement a ticket hook starts and does not await reaches the connection
  before the COMMIT (*Abstractions*).

Read while modelling, and in the model as they are or left out of it because they concern
one statement:

* `suggestionsWeb.js:178,186` writes the longitude in the place of the latitude when a
  stop of a suggestion is moved (`Nowhere` in `Suggestions`); a time of 0, midnight, is taken for
  absent (`:191`); `PUT /suggestions` leaves the travel time as it was; links may add
  suggestions past the limit of 5.
* Deletions compare `result[0]` with 0 and so never answer "not found".
* `wrs.js:372-379` accepts dates and ignores them; date filters of the list of transactions
  are applied after its page is cut.
* A dump's transaction stays open as long as its client does not read.
* The builder's notes say that a refund returns the share paid by card to the card and the
  share paid by credits to the credits (`builder.js:209-210`); the refund returns the whole
  value after discounts to the card (`index.js:508-512`). The last conjunct of
  `PromotionsAsAdvertised` is about the amounts the refunding functions compute, which are
  recorded and which that refund does not read (`promo_refund`).
* A ping without coordinates (`pings.js:200-208` stores null) makes `pollPings` throw
  (`monitoring.js:153`), for every trip, until the day's pings are over: the daemon keeps its
  last statuses and raises nothing. In `TripStatus` every ping has a place, so that
  `SilentBusIsReported` is about polls that end. What a poll returns is keyed by route
  (`monitoring.js:172`, and the assumption at `:122`, "each day, each route only as one trip"):
  of two trips of a route only one is judged, and `TripStatus` is about that one.
* `PUT /trips/{id}` without a capacity sets it to null (`trips.js:438`) and leaves the counter;
  `TicketDesk` models the edits that name one.
* Stripe's idempotency keys are external: a refund that is asked for again after a lost answer
  is in no run, since the balance of the charge refuses it for a purchase of one ticket
  (`index.js:566`).
* The global limit of a promotion is checked in each purchase's snapshot and counted after the
  charge, so that nothing bounds by how much purchases in flight exceed it; what holds is that
  each use is counted once (`GlobalCountAccounted`).
* `setVehicle` does not test that the vehicle is of the trip's company, `POST /trips` does
  not test the times of stops as `PUT` does, and a vehicle may be given to any driver.
