-------------------------------- MODULE Reports --------------------------------
(***************************************************************************)
(* Long reports, read page by page while the tables change.                *)
(*                                                                         *)
(* Three of them are streamed by the server, every page in one database    *)
(* transaction, that is from one snapshot: the bookings of a company, the  *)
(* suggestions made through it, its sales of route passes.  The others are *)
(* fetched by a client, one request for each page, which takes two         *)
(* statements outside of any transaction: the total and the rows of the    *)
(* page or, in the lists of a user's and a company's transactions, the ids *)
(* of the page and what there is of them.                                  *)
(*                                                                         *)
(* Left out: the columns, the look of the output, the filters that never   *)
(* change for a row; "mine" stands for the whole selection.                *)
(***************************************************************************)
EXTENDS Integers, FiniteSets, Sequences

CONSTANTS
  MaxRows,     \* bound on the rows of the table
  MaxChanges,  \* bound on the rows changed or removed
  PerPage,     \* rows of a page, 100 in a dump
  FirstSize    \* what the dump of passes takes for the size of the page before the first, 20

ASSUME BoundsAreNat == {MaxRows, MaxChanges} \subseteq Nat
ASSUME SmallFirst   == PerPage \in Nat \ {0} /\ FirstSize \in Nat /\ FirstSize < PerPage

VARIABLES
  table,    \* rows in the order of their ids
  sales,    \* how many transactions sold them
  changes,  \* how many rows were changed or removed
  rd        \* the report being made: what is out is the lines of a dump, the rows of a list

reportVars == <<table, sales, changes, rd>>

\* What the table holds, and the reports made of it.
Scenes == [bookings |-> {"csv", "list"}, suggestions |-> {"stream"}, passes |-> {"dump"},
           items |-> {"transactions"}, sales |-> {"all", "admin", "history"}]
Dumps  == {"csv", "stream", "dump"}
\* The ids of a page are read first.
ByIds  == {"admin", "history"}

NoReport == [kind |-> "none", at |-> "idle", page |-> 1, size |-> 0, view |-> <<>>, out |-> {},
             ids |-> {}, count |-> -1, rows |-> {}, fit |-> -1, start |-> {}, left |-> FALSE]

ReportInit ==
  /\ table = <<>>
  /\ sales = 0
  /\ changes = 0
  /\ \E scene \in DOMAIN Scenes, kind \in UNION {Scenes[s] : s \in DOMAIN Scenes} :
       /\ kind \in Scenes[scene]
       /\ rd = [NoReport EXCEPT !.kind = kind]

(***************************************************************************)
(* Queries.                                                                *)
(***************************************************************************)
Wanted(view) == {i \in DOMAIN view : view[i].live /\ view[i].mine}

\* The stream of suggestions selects all of them, and filters what it has read.  The ids of
\* transactions are those of the company or user, of which only an admin's list leaves out
\* the ones that are not committed.
Selected(view) ==
  CASE rd.kind = "stream" -> {i \in DOMAIN view : view[i].live}
    [] rd.at = "ids"      -> {i \in DOMAIN view : view[i].mine}
    [] rd.at = "page" /\ rd.kind = "history" -> rd.ids
    [] rd.at = "page" /\ rd.kind = "admin"   -> rd.ids \cap Wanted(view)
    [] OTHER              -> Wanted(view)

\* ORDER BY: transaction items go by the time of their transaction, in no order within it.
Before(view, a, b) ==
  CASE rd.kind = "stream"       -> a < b
    [] rd.kind = "transactions" -> view[a].sale >= view[b].sale
    [] OTHER                    -> a > b

Ordered(view) ==
  LET ids == Selected(view)
  IN  {s \in [1..Cardinality(ids) -> ids] : \A a, b \in DOMAIN s : a < b => s[a] # s[b] /\ Before(view, s[a], s[b])}

\* Mutant of Offset: pages counted from zero.
OffsetFromZero(page) == PerPage * page
Offset(page)         == PerPage * (page - 1)

\* LIMIT and OFFSET: the rows of a page.
Pages(view, page) ==
  {{s[k] : k \in {n \in DOMAIN s : n \in (Offset(page) + 1)..(Offset(page) + PerPage)}} : s \in Ordered(view)}

(***************************************************************************)
(* augmentTicketsWithTransactionItems, for the tickets of one page.        *)
(***************************************************************************)
TicketsOf(view, rows, sale) == {i \in rows : view[i].sale = sale}
\* The tickets a discount of the transaction was computed for, in this page or not.
DiscountAmounts(view, sale) == {i \in DOMAIN view : view[i].sale = sale /\ view[i].cut}

Discounted(view, rows, sale) == TicketsOf(view, rows, sale) \cap DiscountAmounts(view, sale)

Line(view, page, rows, i) ==
  [id |-> i, page |-> page,
   discounts |-> {sale \in {view[j].sale : j \in rows} : i \in Discounted(view, rows, sale)}]

(***************************************************************************)
(* A report streamed from a snapshot.                                      *)
(***************************************************************************)
\* The loop of the passes looks at the size of the page before.
BeginDump ==
  /\ rd.at = "idle" /\ rd.kind \in Dumps
  /\ rd' = [rd EXCEPT !.at = "dump", !.size = IF rd.kind = "dump" THEN FirstSize ELSE PerPage]
  /\ UNCHANGED <<table, sales, changes>>

Snapshot   == IF rd.page = 1 THEN table ELSE rd.view

DumpPage ==
  /\ rd.at = "dump" /\ rd.size >= PerPage
  /\ \E rows \in Pages(Snapshot, rd.page) :
       LET shown == {i \in rows : Snapshot[i].mine}
       IN  rd' = [rd EXCEPT !.page = @ + 1, !.size = Cardinality(rows),
                            !.view = IF rd.page = 1 THEN table ELSE @,
                            !.out  = @ \cup {Line(Snapshot, rd.page, rows, i) : i \in shown}]
  /\ UNCHANGED <<table, sales, changes>>

EndDump ==
  /\ rd.at = "dump" /\ rd.size < PerPage
  /\ rd' = [rd EXCEPT !.at = "done", !.view = IF rd.page = 1 THEN table ELSE @]
  /\ UNCHANGED <<table, sales, changes>>

\* The output is closed with a line that says so.
DumpFails ==
  /\ rd.at = "dump"
  /\ rd' = [NoReport EXCEPT !.kind = rd.kind, !.at = "failed"]
  /\ UNCHANGED <<table, sales, changes>>

(***************************************************************************)
(* A report fetched by a client, page by page.                             *)
(***************************************************************************)
FirstRead == IF rd.kind \in ByIds THEN "ids" ELSE "page"

BeginList ==
  /\ rd.at = "idle" /\ rd.kind \notin Dumps
  /\ rd' = [rd EXCEPT !.at = FirstRead, !.start = Wanted(table)]
  /\ UNCHANGED <<table, sales, changes>>

ReadIds ==
  /\ rd.at = "ids"
  /\ \E rows \in Pages(table, rd.page) : rd' = [rd EXCEPT !.at = "page", !.ids = rows]
  /\ UNCHANGED <<table, sales, changes>>

ReadCount ==
  /\ rd.at = "page" /\ rd.kind # "history" /\ rd.count = -1
  /\ rd' = [rd EXCEPT !.count = Cardinality(Selected(table))]
  /\ UNCHANGED <<table, sales, changes>>

\* findAndCountAll counts first; writeJSONReport asks both at once.  The page of a company's
\* transactions is taken twice, of the ids and again of the rows; a user's only once.
PageOfRows == IF rd.kind = "history" THEN {Selected(table)} ELSE Pages(table, rd.page)
ReadRows ==
  /\ rd.at = "page" /\ rd.fit = -1
  /\ rd.kind \in {"transactions", "all", "admin"} => rd.count # -1
  /\ \E rows \in PageOfRows : rd' = [rd EXCEPT !.rows = rows, !.fit = Cardinality(Selected(table))]
  /\ UNCHANGED <<table, sales, changes>>

\* The reply: the client asks for the next page while the total says that there is one, or,
\* without a total, after a full one.
IsLast == IF rd.kind = "history" THEN Cardinality(rd.rows) < PerPage ELSE rd.page * PerPage >= rd.count

Reply ==
  LET last == IsLast
  IN  /\ rd.at = "page" /\ rd.fit # -1
      /\ rd.kind # "history" => rd.count # -1
      /\ rd' = [rd EXCEPT !.out = @ \cup rd.rows, !.rows = {}, !.ids = {},
                          !.at = IF last THEN "done" ELSE FirstRead,
                          !.page = IF last THEN @ ELSE @ + 1,
                          !.count = IF last THEN @ ELSE -1,
                          !.fit = IF last THEN @ ELSE -1]
      /\ UNCHANGED <<table, sales, changes>>

(***************************************************************************)
(* The tables change.                                                      *)
(***************************************************************************)
\* Nothing that happens after the report matters to it.
Changing == rd.at \notin {"done", "failed"}

\* A transaction adds up to two rows, or is one; a promotion may have discounted some of them.
Add(n, mine, cut) ==
  /\ Changing /\ Len(table) + n <= MaxRows
  /\ rd.kind # "csv" => \A k \in 1..n : ~cut[k]
  /\ rd.kind \in Scenes.sales => n = 1
  /\ rd.kind = "all" => mine[1]
  /\ sales' = sales + 1
  /\ table' = table \o [k \in 1..n |-> [live |-> TRUE, mine |-> mine[k], sale |-> sales + 1, cut |-> cut[k]]]
  /\ UNCHANGED <<changes, rd>>

\* A ticket is refunded, or reinstated: it leaves or joins those of the statuses asked for.
Turn(i) ==
  /\ Changing /\ rd.kind \in {"csv", "list"}
  /\ changes < MaxChanges
  /\ changes' = changes + 1
  /\ table' = [table EXCEPT ![i].mine = ~@]
  /\ rd' = [rd EXCEPT !.left = @ \/ (rd.at = "page" /\ table[i].mine)]
  /\ UNCHANGED sales

\* A suggestion is deleted, or a purchase undone.
Delete(i) ==
  /\ Changing /\ rd.kind \in {"stream", "all", "admin"}
  /\ changes < MaxChanges /\ table[i].live
  /\ changes' = changes + 1
  /\ table' = [table EXCEPT ![i].live = FALSE]
  /\ rd' = [rd EXCEPT !.left = @ \/ (rd.at \in {"ids", "page"} /\ table[i].mine)]
  /\ UNCHANGED sales

ReportNext ==
  \/ BeginDump \/ DumpPage \/ EndDump \/ DumpFails
  \/ BeginList \/ ReadIds \/ ReadCount \/ ReadRows \/ Reply
  \/ \E n \in 1..2 : \E mine, cut \in [1..n -> BOOLEAN] : Add(n, mine, cut)
  \/ \E i \in DOMAIN table : Turn(i) \/ Delete(i)

ReportSpec == ReportInit /\ [][ReportNext]_reportVars

(***************************************************************************)
(* Properties                                                              *)
(***************************************************************************)
Complete ==
  /\ \A l, m \in rd.out : l.id = m.id => l = m
  /\ {l.id : l \in rd.out} = Wanted(rd.view)

\* A report of bookings or suggestions that ends without an error lists every row of the
\* selection once, as they all were at one moment, whatever is sold, refunded or deleted
\* while it is written.
DumpIsASnapshot ==
  rd.at = "done" /\ rd.kind \in {"csv", "stream"} => Complete

\* The same of the dump of route passes: "Get all route pass transaction items".
PassDumpIsComplete ==
  rd.at = "done" /\ rd.kind = "dump" => Complete

\* A line names the discount of its own ticket and of no other, and names it even if the
\* tickets sold with it are on another page.
LinesNameTheirDiscount ==
  rd.kind = "csv" =>
    \A l \in rd.out :
      LET row == rd.view[l.id]
      IN  l.discounts = (IF row.cut THEN {row.sale} ELSE {})

\* Transactions of a company, committed or not.
OfCompany == {i \in DOMAIN table : table[i].mine}

Ties == \E i, j \in Wanted(table) : i # j /\ table[i].sale = table[j].sale

\* A client that reads page after page up to the last has seen every row that was there when
\* it began, unless rows left the selection meanwhile, or were added between the total and
\* the rows of the last page, or are ordered by a time they share, or are an admin's and do
\* not fit one page: the total is that of the page, and the next page of it is empty.
PagesMissNothing ==
  rd.at = "done" /\ rd.kind \notin Dumps =>
    \/ rd.start \subseteq rd.out
    \/ rd.left
    \/ rd.count < rd.fit
    \/ rd.kind = "transactions" /\ Ties
    \/ rd.kind = "admin" /\ Cardinality(OfCompany) > PerPage

\* Reports, read in pages while the tables change, are as complete as each can be.
ReportsAreComplete == DumpIsASnapshot /\ LinesNameTheirDiscount /\ PagesMissNothing
===============================================================================
