------------------------------- MODULE Accounts -------------------------------
(***************************************************************************)
(* The accounts of customers: their telephone number and the code sent to  *)
(* it, their referral code, their e-mail address, their saved cards.       *)
(*                                                                         *)
(* Every request reads the row of a user into memory, awaits something     *)
(* and saves the fields it changed; only the referral code is made in a    *)
(* database transaction.  Two requests for one user may overlap, the cards *)
(* are changed at Stripe before they are saved here, and a number moves    *)
(* from one account to another in two statements.  The process may crash   *)
(* between any two steps.                                                  *)
(*                                                                         *)
(* Left out: names, passwords, sessions, rate limits and the age of a code *)
(* (a request may be refused for them and then changes nothing).           *)
(***************************************************************************)
EXTENDS Integers, FiniteSets

CONSTANTS
  Users,      \* ids of rows of the table users
  Members,    \* those that have a row at the start
  Numbers, Emails, Customers, Cards,
  None,       \* null
  Requests,   \* requests that may be served at once
  Scenes,     \* the sets of kinds of request made in one behaviour
  MaxCalls    \* bound on the requests that are served in a behaviour of each scene

Kinds == {"code", "move", "verify", "update", "put", "confirm", "add", "delete", "replace", "bid"}

ASSUME MembersAreUsers  == Members \subseteq Users
ASSUME NoneIsNothing    == None \notin Users \cup Numbers \cup Emails \cup Customers
ASSUME ScenesAreKinds   == Scenes \subseteq SUBSET Kinds
ASSUME CallsAreCounted  == MaxCalls \in [Scenes -> Nat]

VARIABLES
  accounts,   \* users with a row
  user,       \* table users
  promos,     \* referral promotions owned by each user
  bids,       \* users with a live bid
  held,       \* Stripe: the cards of each customer
  customers,  \* Stripe: the customers that exist
  tokens,     \* signed tokens in e-mails and replies: a user with a number or an address
  req,        \* the requests being served
  calls,      \* how many were begun
  scene,
  proved,     \* history: addresses whose link was followed
  released,   \* history: numbers an account gave up for another one, or lost to a request that
              \*   had found it under the number before, or to one that stopped half-way, or
              \*   that did not save it as the row it had read held it
  excuse      \* history: fields of users written by a request that had read something
              \*   changed since, or that stopped half-way

tables      == <<accounts, user, promos, bids>>
stripe      == <<held, customers>>
history     == <<proved, released, excuse>>
accountVars == <<tables, stripe, tokens, req, calls, scene, history>>

Fresh == [tel |-> None, former |-> None, code |-> FALSE, ref |-> FALSE, email |-> None,
          verified |-> FALSE, cust |-> None, cards |-> {}]

\* user, copy: the row read; arg: number, address or card asked for; other: the previous
\* owner of a number; seen: what Stripe answered; read: the fields it relies on; stale:
\* those of them written by others since.
Idle == [kind |-> "none", at |-> "idle", user |-> None, copy |-> Fresh, arg |-> None,
         other |-> None, seen |-> {}, read |-> {}, stale |-> {}]

Init ==
  /\ accounts = Members
  /\ \E tel \in [Members -> Numbers] :
       /\ \A u, v \in Members : tel[u] = tel[v] => u = v
       /\ user = [u \in Users |-> IF u \in Members THEN [Fresh EXCEPT !.tel = tel[u]] ELSE Fresh]
  /\ promos = [u \in Users |-> 0]
  /\ bids = {}
  /\ held = [c \in Customers |-> {}]
  /\ customers = {}
  /\ tokens = {}
  /\ req = [r \in Requests |-> Idle]
  /\ calls = 0
  /\ scene \in Scenes
  /\ proved = {}
  /\ released = {}
  /\ excuse = {}

(***************************************************************************)
(* Rows read and written by a request.                                     *)
(***************************************************************************)
Of(fields, u) == {<<f, u>> : f \in fields}

\* A request of this kind begins, with the row of u in memory.
Begin(r, kind, u, arg, fields) ==
  /\ req[r].at = "idle"
  /\ kind \in scene
  /\ calls < MaxCalls[scene]
  /\ calls' = calls + 1
  /\ req' = [req EXCEPT ![r] = [Idle EXCEPT !.kind = kind, !.at = kind, !.user = u,
                                            !.copy = user[u], !.arg = arg, !.read = Of(fields, u)]]

\* r goes on as "next"; the others that rely on what it wrote are out of date.
Served(r, next, written) ==
  req' = [q \in Requests |->
            IF q = r THEN next ELSE [req[q] EXCEPT !.stale = @ \cup (written \cap req[q].read)]]

Goto(r, step) == [req[r] EXCEPT !.at = step]

\* r saves fields of its user.
Save(r, u, row, fields, next) ==
  /\ user' = [user EXCEPT ![u] = row]
  /\ Served(r, next, Of(fields \cup {"row"}, u))
  /\ excuse' = IF req[r].stale = {} THEN excuse ELSE excuse \cup Of(fields, u)

\* r is answered with an error, nothing more is written.
Refuse(r) ==
  /\ req' = [req EXCEPT ![r] = Idle]
  /\ UNCHANGED <<tables, stripe, tokens, calls, scene, history>>

(***************************************************************************)
(* Codes and numbers.                                                      *)
(***************************************************************************)
Owner(t) == {u \in accounts : user[u].tel = t}

\* POST /users/sendTelephoneVerification: the account of a number, made if there is none.
SendCode(r, t, u) ==
  /\ IF Owner(t) # {} THEN u \in Owner(t) ELSE u \in Users \ accounts
  /\ LET row == [user[u] EXCEPT !.tel = t]
     IN  /\ req[r].at = "idle" /\ "code" \in scene /\ calls < MaxCalls[scene]
         /\ calls' = calls + 1
         /\ accounts' = accounts \cup {u}
         /\ user' = [user EXCEPT ![u] = row]
         /\ Served(r, [Idle EXCEPT !.kind = "code", !.at = "code", !.user = u, !.copy = row], {})
  /\ UNCHANGED <<promos, bids, stripe, tokens, scene, history>>

\* GET /user/{userId}/telephoneCode makes one only if there is none.
MakeCode(r, u) ==
  /\ u \in accounts /\ ~user[u].code
  /\ Begin(r, "code", u, None, {})
  /\ UNCHANGED <<tables, stripe, tokens, scene, history>>

\* POST /user/requestUpdateTelephone
AskToMove(r, u, t) ==
  /\ u \in accounts /\ user[u].tel # t
  /\ Begin(r, "move", u, t, {})
  /\ UNCHANGED <<tables, stripe, tokens, scene, history>>

SaveCode(r) ==
  /\ req[r].at \in {"code", "move"}
  /\ Save(r, req[r].user, [user[req[r].user] EXCEPT !.code = TRUE], {"code"}, Idle)
  /\ tokens' = IF req[r].kind = "move" THEN tokens \cup {<<req[r].user, req[r].arg>>} ELSE tokens
  /\ UNCHANGED <<accounts, promos, bids, stripe, calls, scene, proved, released>>

\* POST /users/verifyTelephone, with the code that was sent.
Verify(r, u) ==
  /\ u \in accounts /\ user[u].tel # None /\ user[u].code
  /\ Begin(r, "verify", u, None, {"ref"})
  /\ UNCHANGED <<tables, stripe, tokens, scene, history>>

\* Mutant of NeedsRefCode: every log-in makes a referral code.
NeedsAnother(r) == req[r].at = "verify"
NeedsRefCode(r) == req[r].at = "verify" /\ ~req[r].copy.ref

\* generateRefCode: a SERIALIZABLE transaction, whose snapshot is taken here.
RefCodeBegin(r) ==
  /\ NeedsRefCode(r)
  /\ req' = [req EXCEPT ![r].at = "generating", ![r].read = @ \cup Of({"row"}, req[r].user)]
  /\ UNCHANGED <<tables, stripe, tokens, calls, scene, history>>

RefCodeCommit(r) ==
  LET u == req[r].user
  IN  /\ req[r].at = "generating"
      /\ <<"row", u>> \notin req[r].stale
      /\ promos' = [promos EXCEPT ![u] = @ + 1]
      /\ Save(r, u, [user[u] EXCEPT !.ref = TRUE], {"ref"},
              [Goto(r, "login") EXCEPT !.read = {}, !.stale = {}])
      /\ UNCHANGED <<accounts, bids, stripe, tokens, calls, scene, proved, released>>

\* "could not serialize access": the log-in fails.
RefCodeConflict(r) ==
  /\ req[r].at = "generating"
  /\ <<"row", req[r].user>> \in req[r].stale
  /\ Refuse(r)

Login(r) ==
  /\ req[r].at = "login" \/ (req[r].at = "verify" /\ req[r].copy.ref)
  /\ Save(r, req[r].user, [user[req[r].user] EXCEPT !.code = FALSE], {"code"}, Idle)
  /\ UNCHANGED <<accounts, promos, bids, stripe, tokens, calls, scene, proved, released>>

\* POST /user/updateTelephone, with the token and the code that was sent.
UpdateTelephone(r, u, t) ==
  /\ <<u, t>> \in tokens /\ user[u].code
  /\ Begin(r, "update", u, t, {"tel"})
  /\ UNCHANGED <<tables, stripe, tokens, scene, history>>

\* Mutant of PreviousOwners: the previous owner may be the user himself.
AnyOwner(r)       == Owner(req[r].arg)
\* "Does a user exist who previously used that phone?"
PreviousOwners(r) == Owner(req[r].arg) \ {req[r].user}

FindPrevious(r) ==
  /\ req[r].at = "update"
  /\ \/ /\ PreviousOwners(r) = {}
        /\ req' = [req EXCEPT ![r] = Goto(r, "give")]
     \/ \E v \in PreviousOwners(r) :
          req' = [req EXCEPT ![r] = [Goto(r, "take") EXCEPT !.other = v, !.read = @ \cup Of({"tel"}, v)]]
  /\ UNCHANGED <<tables, stripe, tokens, calls, scene, history>>

\* previousUser.save(): its name keeps the number it had.
TakeNumber(r) ==
  LET v == req[r].other
  IN  /\ req[r].at = "take"
      /\ Save(r, v, [user[v] EXCEPT !.tel = None, !.former = req[r].arg], {"tel"}, Goto(r, "give"))
      /\ released' = released \cup ({user[v].tel} \ {None, req[r].arg})
      /\ UNCHANGED <<accounts, promos, bids, stripe, tokens, calls, scene, proved>>

\* userInst.save() writes what differs from the row it read.
GiveNumber(r) ==
  LET u == req[r].user
      t == req[r].arg
      moves == req[r].copy.tel # t
  IN  /\ req[r].at = "give"
      /\ moves => Owner(t) \subseteq {u}
      /\ released' = released \cup
           IF moves THEN {user[u].tel} \ {None, t}
           ELSE IF <<"tel", u>> \in req[r].stale THEN {t} \ {user[u].tel} ELSE {}
      /\ Save(r, u, [user[u] EXCEPT !.code = FALSE, !.tel = IF moves THEN t ELSE @],
              IF moves THEN {"code", "tel"} ELSE {"code"}, Idle)
      /\ UNCHANGED <<accounts, promos, bids, stripe, tokens, calls, scene, proved>>

\* What is left half-way when these requests stop: numbers, and fields of users.
Dropped(stopped) == {req[r].arg : r \in {q \in stopped : req[q].at = "give" /\ req[q].other # None}}
HalfWay(stopped) ==
  {<<"cards", req[r].user>> : r \in {q \in stopped : req[q].at \in {"detach", "retrieve", "resync", "keep"}}}

\* The unique index: somebody else has the number by now.
NumberIsTaken(r) ==
  /\ req[r].at = "give"
  /\ req[r].copy.tel # req[r].arg
  /\ ~(Owner(req[r].arg) \subseteq {req[r].user})
  /\ req' = [req EXCEPT ![r] = Idle]
  /\ released' = released \cup Dropped({r})
  /\ UNCHANGED <<tables, stripe, tokens, calls, scene, proved, excuse>>

(***************************************************************************)
(* The e-mail address.                                                     *)
(***************************************************************************)
\* PUT /user with an address
PutUser(r, u, e) ==
  /\ u \in accounts
  /\ Begin(r, "put", u, e, {"mail"})
  /\ UNCHANGED <<tables, stripe, tokens, scene, history>>

\* Mutant of Unverified: the hook is missing.
StillVerified(copy, e, now) == now
\* beforeUpdate: another address is not verified.  Only a change to the copy is written.
Unverified(copy, e, now)    == IF e # copy.email /\ copy.verified THEN FALSE ELSE now

SaveEmail(r) ==
  LET u   == req[r].user
      new == IF req[r].arg # req[r].copy.email THEN req[r].arg ELSE user[u].email
  IN  /\ req[r].at = "put"
      /\ Save(r, u, [user[u] EXCEPT !.email = new,
                                    !.verified = Unverified(req[r].copy, req[r].arg, @)], {"mail"}, Idle)
      /\ UNCHANGED <<accounts, promos, bids, stripe, tokens, calls, scene, proved, released>>

\* POST /users/sendEmailVerification changes nothing here; the link carries the address.
SendLink(u) ==
  /\ "confirm" \in scene
  /\ u \in accounts /\ user[u].email # None /\ ~user[u].verified
  /\ tokens' = tokens \cup {<<u, user[u].email>>}
  /\ UNCHANGED <<tables, stripe, req, calls, scene, history>>

LinkFits(u, e)   == user[u].email = e /\ ~user[u].verified

\* GET /users/verifyEmail
FollowLink(r, u, e) ==
  /\ <<u, e>> \in tokens
  /\ LinkFits(u, e)
  /\ Begin(r, "confirm", u, e, {"mail"})
  /\ UNCHANGED <<tables, stripe, tokens, scene, history>>

SaveVerified(r) ==
  LET u == req[r].user
  IN  /\ req[r].at = "confirm"
      /\ Save(r, u, [user[u] EXCEPT !.verified = TRUE], {"mail"}, Idle)
      /\ proved' = proved \cup {<<u, req[r].arg>>}
      /\ UNCHANGED <<accounts, promos, bids, stripe, tokens, calls, scene, released>>

(***************************************************************************)
(* Saved cards.  A call to Stripe may fail, with or without effect.        *)
(***************************************************************************)
\* POST /users/{userId}/creditCards and .../replace, DELETE .../{sourceId}
ChangeCards(r, kind, u) ==
  /\ u \in accounts
  /\ kind # "add" => user[u].cust # None
  /\ \E k \in Cards :
       /\ IF kind = "delete" THEN k \in user[u].cards ELSE \A c \in Customers : k \notin held[c]
       /\ Begin(r, kind, u, k, {"cards"})
  /\ UNCHANGED <<tables, stripe, tokens, scene, history>>

\* stripe.customers.create
NewCustomer(r) ==
  /\ req[r].at = "add" /\ req[r].copy.cust = None
  /\ \E c \in Customers \ customers :
       /\ customers' = customers \cup {c}
       /\ req' = [req EXCEPT ![r].copy.cust = c]
  /\ UNCHANGED <<tables, held, tokens, calls, scene, history>>

\* What follows the attachment of a card.
Attached(r) == IF req[r].kind = "replace" /\ req[r].copy.cards # {} THEN "detach" ELSE "retrieve"

\* stripe.customers.createSource
Attach(r) ==
  LET c == req[r].copy.cust
      k == req[r].arg
  IN  /\ req[r].at \in {"add", "replace"} /\ c # None
      /\ \/ /\ held' = [held EXCEPT ![c] = @ \cup {k}]
            /\ \E step \in {Attached(r), "resync"} : req' = [req EXCEPT ![r] = Goto(r, step)]
         \/ /\ req' = [req EXCEPT ![r] = Goto(r, "resync")]
            /\ UNCHANGED held
      /\ UNCHANGED <<tables, customers, tokens, calls, scene, history>>

\* Mutant of MayDelete: the bids are not looked at.
AlwaysDelete(r) == TRUE
\* "Don't allow deletion if user has only one source" and a live bid.
MayDelete(r)    == Cardinality(req[r].copy.cards) = 1 => req[r].user \notin bids

CheckBids(r) ==
  /\ req[r].at = "delete"
  /\ MayDelete(r)
  /\ req' = [req EXCEPT ![r] = [Goto(r, "detach") EXCEPT !.read = @ \cup Of({"bid"}, req[r].user)]]
  /\ UNCHANGED <<tables, stripe, tokens, calls, scene, history>>

KeepForBid(r) ==
  /\ req[r].at = "delete"
  /\ ~MayDelete(r)
  /\ Refuse(r)

\* stripe.customers.deleteCard, of the card asked for or of the first one.
Detach(r) ==
  LET c == req[r].copy.cust
  IN  /\ req[r].at = "detach"
      /\ \/ \E k \in IF req[r].kind = "delete" THEN {req[r].arg} ELSE req[r].copy.cards :
              /\ k \in held[c]
              /\ held' = [held EXCEPT ![c] = @ \ {k}]
              /\ \E step \in {"retrieve", "resync"} : req' = [req EXCEPT ![r] = Goto(r, step)]
         \/ /\ req' = [req EXCEPT ![r] = Goto(r, "resync")]
            /\ UNCHANGED held
      /\ UNCHANGED <<tables, customers, tokens, calls, scene, history>>

\* stripe.customers.retrieve
Retrieve(r) ==
  /\ req[r].at \in {"retrieve", "resync"}
  /\ req' = [req EXCEPT ![r] = [Goto(r, "keep") EXCEPT !.seen = held[req[r].copy.cust]]]
  /\ UNCHANGED <<tables, stripe, tokens, calls, scene, history>>

\* "try to re-sync payment source info if above calls have errors", once.
RetrieveFails(r) ==
  /\ \/ /\ req[r].at = "retrieve"
        /\ req' = [req EXCEPT ![r] = Goto(r, "resync")]
        /\ UNCHANGED excuse
     \/ /\ req[r].at = "resync"
        /\ req' = [req EXCEPT ![r] = Idle]
        /\ excuse' = excuse \cup HalfWay({r})
  /\ UNCHANGED <<tables, stripe, tokens, calls, scene, proved, released>>

Kept(r)    == [user[req[r].user] EXCEPT !.cust = req[r].copy.cust, !.cards = req[r].seen]

SaveCards(r) ==
  /\ req[r].at = "keep"
  /\ Save(r, req[r].user, Kept(r), {"cards"}, Idle)
  /\ UNCHANGED <<accounts, promos, bids, stripe, tokens, calls, scene, proved, released>>

\* POST /crowdstart/routes/{routeId}/bids: a card must have been saved.
AskToBid(r, u) ==
  /\ u \in accounts \ bids /\ user[u].cards # {}
  /\ Begin(r, "bid", u, None, {"cards"})
  /\ UNCHANGED <<tables, stripe, tokens, scene, history>>

PlaceBid(r) ==
  LET u == req[r].user
  IN  /\ req[r].at = "bid"
      /\ bids' = bids \cup {u}
      /\ Served(r, Idle, Of({"bid"}, u))
      /\ excuse' = IF req[r].stale = {} THEN excuse ELSE excuse \cup Of({"cards"}, u)
      /\ UNCHANGED <<accounts, user, promos, stripe, tokens, calls, scene, proved, released>>

\* The bid is withdrawn, converted, or fails with its route.
EndBid(u) ==
  /\ u \in bids
  /\ bids' = bids \ {u}
  /\ UNCHANGED <<accounts, user, promos, stripe, tokens, req, calls, scene, history>>

-----------------------------------------------------------------------------
\* The process stops; what was being served is gone.
Crash ==
  /\ \E r \in Requests : req[r] # Idle
  /\ req' = [r \in Requests |-> Idle]
  /\ excuse' = excuse \cup HalfWay(Requests)
  /\ released' = released \cup Dropped(Requests)
  /\ UNCHANGED <<tables, stripe, tokens, calls, scene, proved>>

Next ==
  \/ \E r \in Requests, u \in Users :
       \/ \E t \in Numbers : SendCode(r, t, u) \/ AskToMove(r, u, t) \/ UpdateTelephone(r, u, t)
       \/ MakeCode(r, u) \/ Verify(r, u)
       \/ \E e \in Emails : PutUser(r, u, e) \/ FollowLink(r, u, e)
       \/ \E kind \in {"add", "delete", "replace"} : ChangeCards(r, kind, u)
       \/ AskToBid(r, u)
  \/ \E r \in Requests :
       \/ SaveCode(r) \/ RefCodeBegin(r) \/ RefCodeCommit(r) \/ RefCodeConflict(r) \/ Login(r)
       \/ FindPrevious(r) \/ TakeNumber(r) \/ GiveNumber(r) \/ NumberIsTaken(r)
       \/ SaveEmail(r) \/ SaveVerified(r)
       \/ NewCustomer(r) \/ Attach(r) \/ CheckBids(r) \/ KeepForBid(r) \/ Detach(r)
       \/ Retrieve(r) \/ RetrieveFails(r) \/ SaveCards(r) \/ PlaceBid(r)
  \/ \E u \in Users : SendLink(u) \/ EndBid(u)
  \/ Crash

AccountSpec == Init /\ [][Next]_accountVars

(***************************************************************************)
(* Properties                                                              *)
(***************************************************************************)
\* A customer has at most the one referral promotion his row points to, unless two of his
\* log-ins overlapped: generateRefCode is called on a row read before its transaction.
OneReferralCode ==
  \A u \in Users : promos[u] = (IF user[u].ref THEN 1 ELSE 0) \/ <<"ref", u>> \in excuse

\* An address that is marked as verified is one whose link was followed, unless the address
\* was changed while a link was being followed.
VerifiedWasProved ==
  \A u \in accounts : user[u].verified => <<u, user[u].email>> \in proved \/ <<"mail", u>> \in excuse

\* A number is taken from an account only to be given to another one: when an account has
\* none, the number it had is held by the account it was given to, or a request is about to
\* save it there, or it has been given up since; unless a request stopped between its two
\* saves, or cleared another number than the one it had looked for, or left out the second
\* save because its own account had held the number when it was read, and has lost it since.
NumbersAreGivenOn ==
  \A u \in accounts :
    user[u].tel = None =>
      \/ Owner(user[u].former) # {}
      \/ user[u].former \in released
      \/ \E r \in Requests : req[r].at = "give" /\ req[r].arg = user[u].former

CardRequest(u) == \E r \in Requests : req[r].user = u /\ req[r].kind \in {"add", "delete", "replace"}

\* The saved payment information lists the cards Stripe has for the customer, and whoever
\* has a live bid has a card to charge for it, whenever no request is changing his cards,
\* unless two such requests overlapped, one stopped half-way, or the last card was deleted
\* while the bid was being made.
CardsAreKept ==
  \A u \in accounts :
    \/ CardRequest(u) \/ <<"cards", u>> \in excuse
    \/ /\ user[u].cards = (IF user[u].cust = None THEN {} ELSE held[user[u].cust])
       /\ u \in bids => held[user[u].cust] # {}
===============================================================================
