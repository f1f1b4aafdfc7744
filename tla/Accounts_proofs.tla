---------------------------- MODULE Accounts_proofs ----------------------------
(***************************************************************************)
(* Theorems about what is kept of people: Accounts, for every number of    *)
(* users, numbers, cards and requests and every mix of the kinds of        *)
(* request, and Suggestions, for every number of rows and addresses.       *)
(*                                                                         *)
(* In Accounts a step changes one request, and tells the others which of  *)
(* the fields they rely on it has written.  Each theorem of it rests on    *)
(* what a request that was told of nothing still knows of the row it read. *)
(***************************************************************************)
EXTENDS Accounts, Suggestions, FiniteSetTheorems, SequenceTheorems, TLAPS

(***************************************************************************)
(* Types.                                                                  *)
(***************************************************************************)
Row == [tel : Numbers \cup {None}, former : Numbers \cup {None}, code : BOOLEAN, ref : BOOLEAN,
        email : Emails \cup {None}, verified : BOOLEAN, cust : Customers \cup {None}, cards : SUBSET Cards]

Steps == {"idle", "code", "move", "verify", "generating", "login", "update", "take", "give", "put", "confirm",
          "add", "delete", "replace", "detach", "retrieve", "resync", "keep", "bid"}
Args == Numbers \cup Emails \cup Cards \cup {None}
FieldNames == {"row", "code", "ref", "tel", "mail", "cards", "bid"}
Fields == FieldNames \X Users

Request == [kind : Kinds \cup {"none"}, at : Steps, user : Users \cup {None}, copy : Row, arg : Args,
            other : Users \cup {None}, seen : SUBSET Cards, read : SUBSET Fields, stale : SUBSET Fields]

TypeOK ==
  /\ user \in [Users -> Row]
  /\ req \in [Requests -> Request]
  /\ held \in [Customers -> SUBSET Cards]
  /\ accounts \subseteq Users

\* Whoever is served has a row; a request about numbers is about a number, and takes it from a user.
Served1 == \A r \in Requests : req[r].at # "idle" => req[r].user \in accounts
TokensOK == \A k \in tokens : k[1] \in accounts
AccountsOK == TypeOK /\ Served1 /\ TokensOK

LEMMA FreshOK == Fresh \in Row
  BY DEF Fresh, Row

LEMMA IdleOK == Idle \in Request
  BY FreshOK DEF Idle, Request, Steps, Args

LEMMA OfFields == ASSUME NEW u \in Users, NEW fields \in SUBSET FieldNames PROVE Of(fields, u) \in SUBSET Fields
  BY DEF Of, Fields

LEMMA OfMember == ASSUME NEW u, NEW v, NEW f, NEW fields PROVE <<f, v>> \in Of(fields, u) <=> f \in fields /\ u = v
  BY DEF Of

(* What a step does to the requests that it does not serve. *)
Told(q, written) ==
  /\ req'[q].kind = req[q].kind /\ req'[q].at = req[q].at /\ req'[q].user = req[q].user
  /\ req'[q].copy = req[q].copy /\ req'[q].arg = req[q].arg /\ req'[q].other = req[q].other
  /\ req'[q].seen = req[q].seen /\ req'[q].read = req[q].read
  /\ req'[q].stale = req[q].stale \cup (written \cap req[q].read)

LEMMA ServedOthers ==
  ASSUME TypeOK, NEW r \in Requests, NEW next, NEW written, Served(r, next, written), NEW q \in Requests, q # r
  PROVE  Told(q, written)
<1>1. req[q] \in Request
  BY DEF TypeOK
<1>2. req'[q] = [req[q] EXCEPT !.stale = req[q].stale \cup (written \cap req[q].read)]
  BY DEF Served
<1> QED BY <1>1, <1>2 DEF Request, Told

LEMMA ServedSelf ==
  ASSUME NEW r \in Requests, NEW next, NEW written, Served(r, next, written)
  PROVE  req'[r] = next
  BY DEF Served

LEMMA ServedType ==
  ASSUME TypeOK, NEW r \in Requests, NEW next \in Request, NEW written, Served(r, next, written)
  PROVE  req' \in [Requests -> Request]
<1>1. ASSUME NEW q \in Requests PROVE [req[q] EXCEPT !.stale = req[q].stale \cup (written \cap req[q].read)] \in Request
  <2>1. req[q] \in Request
    BY DEF TypeOK
  <2>2. req[q].stale \cup (written \cap req[q].read) \in SUBSET Fields
    BY <2>1 DEF Request
  <2> QED BY <2>1, <2>2 DEF Request
<1> QED BY <1>1 DEF Served

LEMMA OneMoves ==
  ASSUME TypeOK, NEW r \in Requests, NEW next \in Request, req' = [req EXCEPT ![r] = next]
  PROVE  /\ req' \in [Requests -> Request] /\ req'[r] = next
         /\ \A q \in Requests : q # r => req'[q] = req[q]
  BY DEF TypeOK

(* A request as it begins: the row of its user, and what it relies on of it. *)
Begun(x, kind, u, arg, fields) ==
  /\ x.kind = kind /\ x.at = kind /\ x.user = u /\ x.copy = user[u] /\ x.arg = arg
  /\ x.other = None /\ x.seen = {} /\ x.read = Of(fields, u) /\ x.stale = {}

LEMMA Begins ==
  ASSUME TypeOK, NEW r \in Requests, NEW u \in Users, NEW arg \in Args, NEW fields \in SUBSET FieldNames,
         NEW kind \in Kinds, Begin(r, kind, u, arg, fields)
  PROVE  /\ req' \in [Requests -> Request]
         /\ req[r].at = "idle" /\ Begun(req'[r], kind, u, arg, fields)
         /\ \A q \in Requests : q # r => req'[q] = req[q]
<1>1. PICK a : a = [Idle EXCEPT !.kind = kind, !.at = kind, !.user = u]
  OBVIOUS
<1>2. a \in Request
  BY <1>1, IdleOK DEF Request, Kinds, Steps
<1>3. /\ a.kind = kind /\ a.at = kind /\ a.user = u
      /\ a.other = None /\ a.seen = {} /\ a.stale = {}
  BY <1>1 DEF Idle
<1>4. PICK x : x = [a EXCEPT !.copy = user[u], !.arg = arg, !.read = Of(fields, u)]
  OBVIOUS
<1>5. Begun(x, kind, u, arg, fields)
  BY <1>2, <1>3, <1>4 DEF Request, Begun
<1>6. x \in Request
  <2>1. user[u] \in Row /\ Of(fields, u) \in SUBSET Fields
    BY OfFields DEF TypeOK
  <2> QED BY <1>2, <1>4, <2>1 DEF Request
<1>7. req' = [req EXCEPT ![r] = x] /\ req[r].at = "idle"
  BY <1>1, <1>4 DEF Begin
<1> QED BY <1>5, <1>6, <1>7, OneMoves

(* A request as it goes on. *)
GoesOn(x, r, step) ==
  /\ x.kind = req[r].kind /\ x.at = step /\ x.user = req[r].user /\ x.copy = req[r].copy /\ x.arg = req[r].arg

LEMMA GotoIs ==
  ASSUME TypeOK, NEW r \in Requests, NEW step \in Steps
  PROVE  /\ Goto(r, step) \in Request /\ GoesOn(Goto(r, step), r, step)
         /\ Goto(r, step).other = req[r].other /\ Goto(r, step).seen = req[r].seen
         /\ Goto(r, step).read = req[r].read /\ Goto(r, step).stale = req[r].stale
<1>1. req[r] \in Request
  BY DEF TypeOK
<1> QED BY <1>1 DEF Goto, GoesOn, Request

LEMMA ReadIs ==
  ASSUME NEW x \in Request, NEW fields \in SUBSET Fields
  PROVE  LET y == [x EXCEPT !.read = @ \cup fields]
         IN  /\ y \in Request /\ y.read = x.read \cup fields /\ y.stale = x.stale /\ y.seen = x.seen
             /\ y.kind = x.kind /\ y.at = x.at /\ y.user = x.user /\ y.copy = x.copy /\ y.arg = x.arg
  BY DEF Request

LEMMA SeenIs ==
  ASSUME NEW x \in Request, NEW cards \in SUBSET Cards
  PROVE  LET y == [x EXCEPT !.seen = cards]
         IN  /\ y \in Request /\ y.seen = cards /\ y.read = x.read /\ y.stale = x.stale
             /\ y.kind = x.kind /\ y.at = x.at /\ y.user = x.user /\ y.copy = x.copy /\ y.arg = x.arg
  BY DEF Request

LEMMA ForgetIs ==
  ASSUME NEW x \in Request
  PROVE  LET y == [x EXCEPT !.read = {}, !.stale = {}]
         IN  /\ y \in Request
             /\ y.kind = x.kind /\ y.at = x.at /\ y.user = x.user /\ y.copy = x.copy /\ y.arg = x.arg
  BY DEF Request

(***************************************************************************)
(* What the steps leave alone.                                             *)
(***************************************************************************)
Passed(q) ==
  /\ req'[q].kind = req[q].kind /\ req'[q].at = req[q].at /\ req'[q].user = req[q].user
  /\ req'[q].copy = req[q].copy /\ req'[q].arg = req[q].arg /\ req'[q].other = req[q].other
  /\ req'[q].seen = req[q].seen /\ req'[q].read = req[q].read
  /\ req[q].stale \subseteq req'[q].stale

SameNumbers == \A u \in Users : user'[u].tel = user[u].tel /\ user'[u].former = user[u].former
SameRefs    == \A u \in Users : user'[u].ref = user[u].ref
SameMail    == \A u \in Users : user'[u].email = user[u].email /\ user'[u].verified = user[u].verified
SameCards   == \A u \in Users : user'[u].cust = user[u].cust /\ user'[u].cards = user[u].cards

\* Requests that come to one of these points, or are left there, are none of the step's.
Avoids(ats) == \A q \in Requests : Passed(q) \/ req'[q].at \notin ats

LEMMA ToldPasses ==
  ASSUME NEW q, NEW written, Told(q, written)
  PROVE  Passed(q)
  BY DEF Told, Passed

LEMMA UntouchedPasses ==
  ASSUME NEW q, req'[q] = req[q]
  PROVE  Passed(q)
  BY DEF Passed

\* r is answered; the others hear of what it wrote.
LEMMA ServedAvoids ==
  ASSUME TypeOK, NEW r \in Requests, NEW next \in Request, NEW written, Served(r, next, written),
         NEW ats, next.at \notin ats
  PROVE  Avoids(ats)
  BY ServedOthers, ServedSelf, ToldPasses DEF Avoids

LEMMA MovesAvoids ==
  ASSUME TypeOK, NEW r \in Requests, NEW next \in Request, req' = [req EXCEPT ![r] = next],
         NEW ats, next.at \notin ats
  PROVE  Avoids(ats)
  BY OneMoves, UntouchedPasses DEF Avoids

LEMMA RowWritten ==
  ASSUME TypeOK, NEW u \in Users, NEW saved \in Row, user' = [user EXCEPT ![u] = saved]
  PROVE  /\ user' \in [Users -> Row]
         /\ \A v \in Users : user'[v] = IF v = u THEN saved ELSE user[v]
  BY DEF TypeOK

CodeAts  == {"code", "move"}
LoginAts == {"verify", "generating", "login"}
TelAts   == {"update", "take", "give"}
MailAts  == {"put", "confirm"}
CardAts  == {"add", "delete", "replace", "detach", "retrieve", "resync", "keep", "bid"}

CodeStep ==
  \E r \in Requests : SaveCode(r) \/ \E u \in Users : MakeCode(r, u) \/ \E t \in Numbers : SendCode(r, t, u) \/ AskToMove(r, u, t)
LoginStep ==
  \E r \in Requests : RefCodeBegin(r) \/ RefCodeCommit(r) \/ RefCodeConflict(r) \/ Login(r) \/ \E u \in Users : Verify(r, u)
TelStep ==
  \E r \in Requests : \/ FindPrevious(r) \/ TakeNumber(r) \/ GiveNumber(r) \/ NumberIsTaken(r)
                      \/ \E u \in Users, t \in Numbers : UpdateTelephone(r, u, t)
MailStep ==
  \/ \E u \in Users : SendLink(u)
  \/ \E r \in Requests : \/ SaveEmail(r) \/ SaveVerified(r)
                         \/ \E u \in Users, e \in Emails : PutUser(r, u, e) \/ FollowLink(r, u, e)
CardStep ==
  \/ \E u \in Users : EndBid(u)
  \/ \E r \in Requests :
       \/ NewCustomer(r) \/ Attach(r) \/ CheckBids(r) \/ KeepForBid(r) \/ Detach(r)
       \/ Retrieve(r) \/ RetrieveFails(r) \/ SaveCards(r) \/ PlaceBid(r)
       \/ \E u \in Users : AskToBid(r, u) \/ \E kind \in {"add", "delete", "replace"} : ChangeCards(r, kind, u)

LEMMA StepsAreOfOneKind ==
  ASSUME [Next]_accountVars
  PROVE  UNCHANGED accountVars \/ CodeStep \/ LoginStep \/ TelStep \/ MailStep \/ CardStep \/ Crash
  BY DEF Next, CodeStep, LoginStep, TelStep, MailStep, CardStep

\* A request is answered and nothing but its state changes.
LEMMA Replies ==
  ASSUME AccountsOK, NEW r \in Requests, req' = [req EXCEPT ![r] = Idle], UNCHANGED <<user, held, accounts, tokens>>
  PROVE  AccountsOK' /\ SameNumbers /\ SameRefs /\ SameMail /\ SameCards /\ Avoids(Steps \ {"idle"})
<1>1. /\ req' \in [Requests -> Request] /\ req'[r] = Idle
      /\ \A q \in Requests : q # r => req'[q] = req[q]
  BY IdleOK, OneMoves DEF AccountsOK
<1>2. Avoids(Steps \ {"idle"})
  BY <1>1, UntouchedPasses DEF Avoids, Idle
<1>3. Served1'
  BY <1>1 DEF AccountsOK, Served1, Idle
<1> QED BY <1>1, <1>2, <1>3 DEF AccountsOK, TypeOK, TokensOK, SameNumbers, SameRefs, SameMail, SameCards

\* A request begins, and nothing else changes.
LEMMA BeginsOnly ==
  ASSUME AccountsOK, NEW r \in Requests, NEW u \in accounts, NEW arg \in Args, NEW fields \in SUBSET FieldNames,
         NEW kind \in Kinds, Begin(r, kind, u, arg, fields), UNCHANGED <<user, held, accounts, tokens>>
  PROVE  AccountsOK' /\ SameNumbers /\ SameRefs /\ SameMail /\ SameCards /\ Avoids(Steps \ {"idle", kind})
<1>1. u \in Users
  BY DEF AccountsOK, TypeOK
<1>2. /\ req' \in [Requests -> Request]
      /\ req[r].at = "idle" /\ Begun(req'[r], kind, u, arg, fields)
      /\ \A q \in Requests : q # r => req'[q] = req[q]
  BY <1>1, Begins DEF AccountsOK
<1>3. Avoids(Steps \ {"idle", kind})
  BY <1>2, UntouchedPasses DEF Avoids, Begun
<1>4. Served1'
  BY <1>2 DEF AccountsOK, Served1, Begun
<1> QED BY <1>2, <1>3, <1>4 DEF AccountsOK, TypeOK, TokensOK, SameNumbers, SameRefs, SameMail, SameCards

\* A request goes on to its next point, and nothing else changes but what Stripe holds.
LEMMA GoesOnOnly ==
  ASSUME AccountsOK, NEW r \in Requests, NEW next \in Request, req' = [req EXCEPT ![r] = next],
         req[r].at # "idle", next.user = req[r].user, UNCHANGED <<user, accounts, tokens>>,
         held' \in [Customers -> SUBSET Cards]
  PROVE  AccountsOK' /\ SameNumbers /\ SameRefs /\ SameMail /\ SameCards /\ Avoids(Steps \ {next.at})
<1>1. /\ req' \in [Requests -> Request] /\ req'[r] = next
      /\ \A q \in Requests : q # r => req'[q] = req[q]
  BY OneMoves DEF AccountsOK
<1>2. Avoids(Steps \ {next.at})
  BY <1>1, UntouchedPasses DEF Avoids
<1>3. Served1'
  BY <1>1 DEF AccountsOK, Served1
<1> QED BY <1>1, <1>2, <1>3 DEF AccountsOK, TypeOK, TokensOK, SameNumbers, SameRefs, SameMail, SameCards

\* A request saves a row of its own user or another's, and goes on or is answered.
LEMMA Saves ==
  ASSUME AccountsOK, NEW r \in Requests, NEW u \in Users, NEW saved \in Row, NEW fields, NEW next \in Request,
         Save(r, u, saved, fields, next), next = Idle \/ (next.user = req[r].user /\ req[r].at # "idle"),
         UNCHANGED <<held, accounts>>, TokensOK'
  PROVE  AccountsOK' /\ Avoids(Steps \ {next.at})
<1>1. Served(r, next, Of(fields \cup {"row"}, u)) /\ user' = [user EXCEPT ![u] = saved]
  BY DEF Save
<1>2. user' \in [Users -> Row]
  BY <1>1, RowWritten DEF AccountsOK
<1>3. req' \in [Requests -> Request]
  BY <1>1, ServedType DEF AccountsOK
<1>4. Avoids(Steps \ {next.at})
  BY <1>1, ServedAvoids DEF AccountsOK
<1>5. ASSUME NEW q \in Requests, req'[q].at # "idle" PROVE req'[q].user \in accounts'
  <2>1. CASE q = r
    <3>1. req'[r] = next
      BY <1>1, ServedSelf
    <3> QED BY <1>5, <2>1, <3>1 DEF AccountsOK, Served1, Idle
  <2>2. CASE q # r
    <3>1. Told(q, Of(fields \cup {"row"}, u))
      BY <1>1, <2>2, ServedOthers DEF AccountsOK
    <3> QED BY <1>5, <3>1 DEF Told, AccountsOK, Served1
  <2> QED BY <2>1, <2>2
<1> QED BY <1>2, <1>3, <1>4, <1>5 DEF AccountsOK, TypeOK, Served1

\* What is written of a row.
LEMMA SavesRow ==
  ASSUME AccountsOK, NEW r \in Requests, NEW u \in Users, NEW saved \in Row, NEW fields, NEW next,
         Save(r, u, saved, fields, next)
  PROVE  /\ saved.tel = user[u].tel /\ saved.former = user[u].former => SameNumbers
         /\ saved.ref = user[u].ref => SameRefs
         /\ saved.email = user[u].email /\ saved.verified = user[u].verified => SameMail
         /\ saved.cust = user[u].cust /\ saved.cards = user[u].cards => SameCards
<1>1. \A v \in Users : user'[v] = IF v = u THEN saved ELSE user[v]
  BY RowWritten DEF Save, AccountsOK
<1> QED BY <1>1 DEF SameNumbers, SameRefs, SameMail, SameCards

LEMMA AvoidsFewer == ASSUME NEW S, NEW T \in SUBSET S, Avoids(S) PROVE Avoids(T)
  BY DEF Avoids

LEMMA CodeChanges ==
  ASSUME NEW x \in Row, NEW b \in BOOLEAN
  PROVE  LET y == [x EXCEPT !.code = b]
         IN  /\ y \in Row /\ y.tel = x.tel /\ y.former = x.former /\ y.ref = x.ref
             /\ y.email = x.email /\ y.verified = x.verified /\ y.cust = x.cust /\ y.cards = x.cards
  BY DEF Row

\* The user of a request that is being served.
LEMMA ServedUser ==
  ASSUME AccountsOK, NEW r \in Requests, req[r].at # "idle"
  PROVE  req[r].user \in accounts /\ req[r].user \in Users /\ user[req[r].user] \in Row
  BY DEF AccountsOK, Served1, TypeOK

(***************************************************************************)
(* Codes, and the accounts made for them.                                  *)
(***************************************************************************)
CodeLeaves ==
  /\ AccountsOK' /\ SameRefs /\ SameMail /\ SameCards /\ Avoids(Steps \ ({"idle"} \cup CodeAts))
  /\ UNCHANGED <<promos, bids, stripe, proved, released>> /\ excuse \subseteq excuse'

LEMMA SendCodeLeaves ==
  ASSUME AccountsOK, NEW r \in Requests, NEW u \in Users, NEW t \in Numbers, SendCode(r, t, u)
  PROVE  CodeLeaves /\ \A v \in Users : v # u \/ u \in accounts => user'[v].tel = user[v].tel /\ user'[v].former = user[v].former
<1>1. PICK saved : saved = [user[u] EXCEPT !.tel = t]
  OBVIOUS
<1>2. /\ saved \in Row /\ saved.tel = t /\ saved.former = user[u].former /\ saved.ref = user[u].ref
      /\ saved.email = user[u].email /\ saved.verified = user[u].verified /\ saved.cust = user[u].cust /\ saved.cards = user[u].cards
  BY <1>1 DEF AccountsOK, TypeOK, Row
<1>3. PICK next : next = [Idle EXCEPT !.kind = "code", !.at = "code", !.user = u, !.copy = saved]
  OBVIOUS
<1>4. next \in Request /\ next.at = "code" /\ next.user = u
  BY <1>2, <1>3, IdleOK DEF Request, Steps, Kinds
<1>5. /\ user' = [user EXCEPT ![u] = saved] /\ Served(r, next, {}) /\ accounts' = accounts \cup {u}
      /\ UNCHANGED <<promos, bids, stripe, tokens, scene, history>>
  BY <1>1, <1>3 DEF SendCode
<1>6. user' \in [Users -> Row] /\ \A v \in Users : user'[v] = IF v = u THEN saved ELSE user[v]
  BY <1>2, <1>5, RowWritten DEF AccountsOK
<1>7. req' \in [Requests -> Request] /\ Avoids(Steps \ ({"idle"} \cup CodeAts))
  BY <1>4, <1>5, ServedType, ServedAvoids DEF AccountsOK, CodeAts
<1>8. SameRefs /\ SameMail /\ SameCards
  BY <1>2, <1>6 DEF SameRefs, SameMail, SameCards
<1>9. ASSUME NEW q \in Requests, req'[q].at # "idle" PROVE req'[q].user \in accounts'
  <2>1. CASE q = r
    BY <1>4, <1>5, <2>1, ServedSelf
  <2>2. CASE q # r
    <3>1. Told(q, {})
      BY <1>5, <2>2, ServedOthers DEF AccountsOK
    <3> QED BY <1>5, <1>9, <3>1 DEF Told, AccountsOK, Served1
  <2> QED BY <2>1, <2>2
<1>10. AccountsOK'
  BY <1>5, <1>6, <1>7, <1>9 DEF AccountsOK, TypeOK, Served1, TokensOK, stripe
<1>11. u \in accounts => t = user[u].tel
  BY DEF SendCode, Owner
<1> QED BY <1>2, <1>5, <1>6, <1>7, <1>8, <1>10, <1>11 DEF CodeLeaves, stripe, history

LEMMA CodeStepLeaves ==
  ASSUME AccountsOK, CodeStep
  PROVE  CodeLeaves
<1>1. ASSUME NEW r \in Requests, SaveCode(r) PROVE CodeLeaves
  <2>1. PICK u \in accounts : u = req[r].user /\ u \in Users /\ user[u] \in Row
    BY <1>1, ServedUser DEF SaveCode
  <2>2. PICK saved : saved = [user[u] EXCEPT !.code = TRUE]
    OBVIOUS
  <2>3. /\ saved \in Row /\ saved.ref = user[u].ref
        /\ saved.email = user[u].email /\ saved.verified = user[u].verified /\ saved.cust = user[u].cust /\ saved.cards = user[u].cards
    BY <2>1, <2>2, CodeChanges
  <2>4. Save(r, u, saved, {"code"}, Idle) /\ UNCHANGED <<accounts, promos, bids, stripe, proved, released>>
    BY <1>1, <2>1, <2>2 DEF SaveCode
  <2>5. TokensOK'
    BY <1>1, <2>1 DEF SaveCode, AccountsOK, TokensOK
  <2>6. AccountsOK' /\ Avoids(Steps \ {"idle"})
    BY <2>1, <2>3, <2>4, <2>5, Saves, IdleOK DEF stripe, Idle
  <2>7. SameRefs /\ SameMail /\ SameCards
    BY <2>1, <2>3, <2>4, SavesRow
  <2> QED BY <2>4, <2>6, <2>7, AvoidsFewer DEF CodeLeaves, Save
<1>2. ASSUME NEW r \in Requests, NEW u \in Users, MakeCode(r, u) PROVE CodeLeaves
  <2>1. AccountsOK' /\ SameRefs /\ SameMail /\ SameCards /\ Avoids(Steps \ {"idle", "code"})
    BY <1>2, BeginsOnly DEF MakeCode, Args, Kinds, tables, stripe
  <2> QED BY <1>2, <2>1, AvoidsFewer DEF CodeLeaves, CodeAts, MakeCode, tables, stripe, history
<1>3. ASSUME NEW r \in Requests, NEW u \in Users, NEW t \in Numbers, AskToMove(r, u, t) PROVE CodeLeaves
  <2>1. AccountsOK' /\ SameRefs /\ SameMail /\ SameCards /\ Avoids(Steps \ {"idle", "move"})
    BY <1>3, BeginsOnly DEF AskToMove, Args, Kinds, tables, stripe
  <2> QED BY <1>3, <2>1, AvoidsFewer DEF CodeLeaves, CodeAts, AskToMove, tables, stripe, history
<1> QED BY <1>1, <1>2, <1>3, SendCodeLeaves DEF CodeStep

(***************************************************************************)
(* Logging in.                                                             *)
(***************************************************************************)
LoginLeaves ==
  /\ AccountsOK' /\ SameNumbers /\ SameMail /\ SameCards /\ Avoids(Steps \ ({"idle"} \cup LoginAts))
  /\ UNCHANGED <<accounts, bids, stripe, proved, released>> /\ excuse \subseteq excuse'

\* The referral code is made.
LEMMA RefCodeCommitIs ==
  ASSUME AccountsOK, NEW r \in Requests, NEW u, u = req[r].user, RefCodeCommit(r)
  PROVE  \E saved \in Row, next \in Request :
           /\ Save(r, u, saved, {"ref"}, next)
           /\ saved.ref /\ saved.tel = user[u].tel /\ saved.former = user[u].former
           /\ saved.email = user[u].email /\ saved.verified = user[u].verified
           /\ saved.cust = user[u].cust /\ saved.cards = user[u].cards
           /\ next.at = "login" /\ next.user = u
<1>1. u \in accounts /\ u \in Users /\ user[u] \in Row /\ req[r].at = "generating"
  BY ServedUser DEF RefCodeCommit
<1>2. PICK saved : saved = [user[u] EXCEPT !.ref = TRUE]
  OBVIOUS
<1>3. /\ saved \in Row /\ saved.ref /\ saved.tel = user[u].tel /\ saved.former = user[u].former
      /\ saved.email = user[u].email /\ saved.verified = user[u].verified
      /\ saved.cust = user[u].cust /\ saved.cards = user[u].cards
  BY <1>1, <1>2 DEF Row
<1>4. Goto(r, "login") \in Request /\ GoesOn(Goto(r, "login"), r, "login")
  BY GotoIs DEF AccountsOK, Steps
<1>5. PICK next : next = [Goto(r, "login") EXCEPT !.read = {}, !.stale = {}]
  OBVIOUS
<1>6. next \in Request /\ next.at = "login" /\ next.user = u
  BY <1>4, <1>5, ForgetIs DEF GoesOn
<1>7. Save(r, u, saved, {"ref"}, next)
  BY <1>2, <1>5 DEF RefCodeCommit
<1> QED BY <1>3, <1>6, <1>7

LEMMA RefCodeBeginIs ==
  ASSUME AccountsOK, NEW r \in Requests, RefCodeBegin(r)
  PROVE  \E next \in Request :
           /\ req' = [req EXCEPT ![r] = next] /\ GoesOn(next, r, "generating")
           /\ req[r].read \subseteq next.read /\ next.stale = req[r].stale /\ req[r].at = "verify" /\ ~req[r].copy.ref
<1>1. req[r].at = "verify" /\ ~req[r].copy.ref /\ req[r] \in Request
  BY DEF RefCodeBegin, NeedsRefCode, AccountsOK, TypeOK
<1>2. Goto(r, "generating") \in Request /\ GoesOn(Goto(r, "generating"), r, "generating")
      /\ Goto(r, "generating").read = req[r].read /\ Goto(r, "generating").stale = req[r].stale
  BY GotoIs DEF AccountsOK, Steps
<1>3. PICK fields \in SUBSET Fields : fields = Of({"row"}, req[r].user)
  BY <1>1, ServedUser, OfFields DEF FieldNames
<1>4. PICK next : next = [Goto(r, "generating") EXCEPT !.read = @ \cup fields]
  OBVIOUS
<1>5. /\ next \in Request /\ GoesOn(next, r, "generating")
      /\ req[r].read \subseteq next.read /\ next.stale = req[r].stale
  BY <1>2, <1>3, <1>4, ReadIs DEF GoesOn
<1>6. req' = [req EXCEPT ![r] = next]
  <2>1. PICK mid : mid = [req EXCEPT ![r] = Goto(r, "generating")]
    OBVIOUS
  <2>2. req' = [mid EXCEPT ![r].read = @ \cup fields] /\ mid[r] = Goto(r, "generating")
    BY <1>3, <2>1 DEF RefCodeBegin, Goto, AccountsOK, TypeOK
  <2>3. req' = [mid EXCEPT ![r] = next]
    BY <1>4, <2>2
  <2> QED BY <2>1, <2>3 DEF AccountsOK, TypeOK
<1> QED BY <1>1, <1>5, <1>6

LEMMA LoginStepLeaves ==
  ASSUME AccountsOK, LoginStep
  PROVE  LoginLeaves
<1>1. ASSUME NEW r \in Requests, RefCodeBegin(r) PROVE LoginLeaves
  <2>1. PICK next \in Request : req' = [req EXCEPT ![r] = next] /\ GoesOn(next, r, "generating") /\ req[r].at = "verify"
    BY <1>1, RefCodeBeginIs
  <2>2. AccountsOK' /\ SameNumbers /\ SameMail /\ SameCards /\ Avoids(Steps \ {"generating"})
    <3>1. UNCHANGED <<user, accounts, tokens>> /\ held' \in [Customers -> SUBSET Cards]
      BY <1>1 DEF RefCodeBegin, tables, stripe, AccountsOK, TypeOK
    <3>2. next.at = "generating" /\ next.user = req[r].user
      BY <2>1 DEF GoesOn
    <3> QED BY <2>1, <3>1, <3>2, GoesOnOnly
  <2> QED BY <1>1, <2>2, AvoidsFewer DEF LoginLeaves, LoginAts, RefCodeBegin, tables, stripe, history
<1>2. ASSUME NEW r \in Requests, RefCodeCommit(r) PROVE LoginLeaves
  <2>1. PICK u : u = req[r].user
    OBVIOUS
  <2>2. u \in Users /\ req[r].at = "generating"
    BY <1>2, <2>1, ServedUser DEF RefCodeCommit
  <2>3. PICK saved \in Row, next \in Request :
           /\ Save(r, u, saved, {"ref"}, next)
           /\ saved.tel = user[u].tel /\ saved.former = user[u].former
           /\ saved.email = user[u].email /\ saved.verified = user[u].verified
           /\ saved.cust = user[u].cust /\ saved.cards = user[u].cards
           /\ next.at = "login" /\ next.user = u
    BY <1>2, <2>1, RefCodeCommitIs
  <2>4. UNCHANGED <<accounts, bids, stripe, tokens, proved, released>>
    BY <1>2 DEF RefCodeCommit
  <2>5. AccountsOK' /\ Avoids(Steps \ {"login"})
    BY <2>1, <2>2, <2>3, <2>4, Saves DEF stripe, AccountsOK, TokensOK
  <2>6. SameNumbers /\ SameMail /\ SameCards
    BY <2>2, <2>3, SavesRow
  <2> QED BY <2>3, <2>4, <2>5, <2>6, AvoidsFewer DEF LoginLeaves, LoginAts, Save
<1>3. ASSUME NEW r \in Requests, RefCodeConflict(r) PROVE LoginLeaves
  <2>1. AccountsOK' /\ SameNumbers /\ SameMail /\ SameCards /\ Avoids(Steps \ {"idle"})
    BY <1>3, Replies DEF RefCodeConflict, Refuse, tables, stripe
  <2> QED BY <1>3, <2>1, AvoidsFewer DEF LoginLeaves, RefCodeConflict, Refuse, tables, stripe, history
<1>4. ASSUME NEW r \in Requests, Login(r) PROVE LoginLeaves
  <2>1. PICK u \in accounts : u = req[r].user /\ u \in Users /\ user[u] \in Row
    BY <1>4, ServedUser DEF Login
  <2>2. PICK saved : saved = [user[u] EXCEPT !.code = FALSE]
    OBVIOUS
  <2>3. /\ saved \in Row /\ saved.tel = user[u].tel /\ saved.former = user[u].former
        /\ saved.email = user[u].email /\ saved.verified = user[u].verified /\ saved.cust = user[u].cust /\ saved.cards = user[u].cards
    BY <2>1, <2>2, CodeChanges
  <2>4. Save(r, u, saved, {"code"}, Idle) /\ UNCHANGED <<accounts, bids, stripe, tokens, proved, released>>
    BY <1>4, <2>1, <2>2 DEF Login
  <2>5. AccountsOK' /\ Avoids(Steps \ {"idle"})
    <3>1. UNCHANGED <<held, accounts>> /\ TokensOK'
      BY <2>4 DEF stripe, AccountsOK, TokensOK
    <3>2. Idle \in Request /\ Idle.at = "idle"
      BY IdleOK DEF Idle
    <3> QED BY <2>1, <2>3, <2>4, <3>1, <3>2, Saves
  <2>6. SameNumbers /\ SameMail /\ SameCards
    BY <2>1, <2>3, <2>4, SavesRow
  <2> QED BY <2>4, <2>5, <2>6, AvoidsFewer DEF LoginLeaves, Save
<1>5. ASSUME NEW r \in Requests, NEW u \in Users, Verify(r, u) PROVE LoginLeaves
  <2>1. AccountsOK' /\ SameNumbers /\ SameMail /\ SameCards /\ Avoids(Steps \ {"idle", "verify"})
    BY <1>5, BeginsOnly DEF Verify, Args, Kinds, FieldNames, tables, stripe
  <2> QED BY <1>5, <2>1, AvoidsFewer DEF LoginLeaves, LoginAts, Verify, tables, stripe, history
<1> QED BY <1>1, <1>2, <1>3, <1>4, <1>5 DEF LoginStep

(***************************************************************************)
(* Moving to another number.                                               *)
(***************************************************************************)
(* A request that was told of nothing knows its user's number; the account it
   is about to take the number from is not its own. *)
TelKnown(r) ==
  req[r].at \in TelAts =>
    /\ req[r].arg \in Numbers
    /\ req[r].at = "take" => req[r].other \in Users \ {req[r].user}
    /\ <<"tel", req[r].user>> \in req[r].read
    /\ <<"tel", req[r].user>> \notin req[r].stale => req[r].copy.tel = user[req[r].user].tel

TelLeaves ==
  /\ AccountsOK' /\ SameRefs /\ SameMail /\ SameCards /\ Avoids(Steps \ ({"idle"} \cup TelAts))
  /\ UNCHANGED <<accounts, promos, bids, stripe, proved>> /\ excuse \subseteq excuse'

LEMMA FindPreviousIs ==
  ASSUME AccountsOK, NEW r \in Requests, FindPrevious(r)
  PROVE  \E next \in Request :
           /\ req' = [req EXCEPT ![r] = next] /\ req[r].at = "update"
           /\ GoesOn(next, r, "take") \/ GoesOn(next, r, "give")
           /\ req[r].read \subseteq next.read /\ next.stale = req[r].stale
           /\ next.at = "take" => next.other \in Users \ {req[r].user}
<1>1. req[r].at = "update"
  BY DEF FindPrevious
<1>2. CASE req' = [req EXCEPT ![r] = Goto(r, "give")]
  <2>1. /\ Goto(r, "give") \in Request /\ GoesOn(Goto(r, "give"), r, "give")
        /\ Goto(r, "give").read = req[r].read /\ Goto(r, "give").stale = req[r].stale
    BY GotoIs DEF AccountsOK, Steps
  <2> QED BY <1>1, <1>2, <2>1 DEF GoesOn
<1>3. ASSUME NEW v \in PreviousOwners(r),
             req' = [req EXCEPT ![r] = [Goto(r, "take") EXCEPT !.other = v, !.read = @ \cup Of({"tel"}, v)]]
      PROVE  \E next \in Request :
               /\ req' = [req EXCEPT ![r] = next] /\ GoesOn(next, r, "take")
               /\ req[r].read \subseteq next.read /\ next.stale = req[r].stale
               /\ next.other \in Users \ {req[r].user}
  <2>1. v \in Users /\ v # req[r].user
    BY <1>3 DEF PreviousOwners, Owner, AccountsOK, TypeOK
  <2>2. /\ Goto(r, "take") \in Request /\ GoesOn(Goto(r, "take"), r, "take")
        /\ Goto(r, "take").read = req[r].read /\ Goto(r, "take").stale = req[r].stale
    BY GotoIs DEF AccountsOK, Steps
  <2>3. PICK fields \in SUBSET Fields : fields = Of({"tel"}, v)
    BY <2>1, OfFields DEF FieldNames
  <2>4. PICK gone \in Request : gone = Goto(r, "take")
    BY <2>2
  <2>5. PICK next : next = [gone EXCEPT !.other = v, !.read = @ \cup fields]
    OBVIOUS
  <2>6. /\ next \in Request /\ next.other = v /\ next.read = gone.read \cup fields /\ next.stale = gone.stale
        /\ next.kind = gone.kind /\ next.at = gone.at /\ next.user = gone.user /\ next.copy = gone.copy /\ next.arg = gone.arg
    BY <2>1, <2>5 DEF Request
  <2>7. /\ next.read = req[r].read \cup fields /\ next.stale = req[r].stale
        /\ GoesOn(next, r, "take")
    BY <2>2, <2>4, <2>6 DEF GoesOn
  <2> QED BY <1>3, <2>1, <2>3, <2>4, <2>5, <2>6, <2>7
<1>4. \/ req' = [req EXCEPT ![r] = Goto(r, "give")]
      \/ \E v \in PreviousOwners(r) :
           req' = [req EXCEPT ![r] = [Goto(r, "take") EXCEPT !.other = v, !.read = @ \cup Of({"tel"}, v)]]
  BY DEF FindPrevious
<1> QED BY <1>1, <1>2, <1>3, <1>4 DEF GoesOn

LEMMA TakeNumberIs ==
  ASSUME AccountsOK, NEW r \in Requests, TelKnown(r), NEW v, v = req[r].other, TakeNumber(r)
  PROVE  \E saved \in Row, next \in Request :
           /\ Save(r, v, saved, {"tel"}, next) /\ v \in Users \ {req[r].user}
           /\ saved.tel = None /\ saved.former = req[r].arg
           /\ saved.ref = user[v].ref /\ saved.email = user[v].email /\ saved.verified = user[v].verified
           /\ saved.cust = user[v].cust /\ saved.cards = user[v].cards
           /\ GoesOn(next, r, "give") /\ next.other = v /\ next.read = req[r].read /\ next.stale = req[r].stale
<1>1. v \in Users \ {req[r].user} /\ req[r].arg \in Numbers /\ user[v] \in Row
  BY DEF TakeNumber, TelKnown, TelAts, AccountsOK, TypeOK
<1>2. PICK saved : saved = [user[v] EXCEPT !.tel = None, !.former = req[r].arg]
  OBVIOUS
<1>3. /\ saved \in Row /\ saved.tel = None /\ saved.former = req[r].arg
      /\ saved.ref = user[v].ref /\ saved.email = user[v].email /\ saved.verified = user[v].verified
      /\ saved.cust = user[v].cust /\ saved.cards = user[v].cards
  BY <1>1, <1>2 DEF Row
<1>4. PICK next : next = Goto(r, "give")
  OBVIOUS
<1>5. /\ next \in Request /\ GoesOn(next, r, "give") /\ next.other = v
      /\ next.read = req[r].read /\ next.stale = req[r].stale
  BY <1>4, GotoIs DEF AccountsOK, Steps
<1>6. Save(r, v, saved, {"tel"}, next)
  BY <1>2, <1>4 DEF TakeNumber
<1> QED BY <1>1, <1>3, <1>5, <1>6

Moves(r) == req[r].copy.tel # req[r].arg

LEMMA GiveNumberIs ==
  ASSUME AccountsOK, NEW r \in Requests, TelKnown(r), NEW u, u = req[r].user, GiveNumber(r)
  PROVE  \E saved \in Row, fields \in SUBSET FieldNames :
           /\ Save(r, u, saved, fields, Idle) /\ u \in accounts
           /\ fields = IF Moves(r) THEN {"code", "tel"} ELSE {"code"}
           /\ saved.tel = (IF Moves(r) THEN req[r].arg ELSE user[u].tel) /\ saved.former = user[u].former
           /\ saved.ref = user[u].ref /\ saved.email = user[u].email /\ saved.verified = user[u].verified
           /\ saved.cust = user[u].cust /\ saved.cards = user[u].cards
<1>1. u \in accounts /\ u \in Users /\ user[u] \in Row /\ req[r].arg \in Numbers
  BY ServedUser DEF GiveNumber, TelKnown, TelAts
<1>2. PICK t \in Numbers \cup {None} : t = IF Moves(r) THEN req[r].arg ELSE user[u].tel
  BY <1>1 DEF Row
<1>3. PICK saved : saved = [user[u] EXCEPT !.code = FALSE, !.tel = t]
  OBVIOUS
<1>4. /\ saved \in Row /\ saved.tel = t /\ saved.former = user[u].former
      /\ saved.ref = user[u].ref /\ saved.email = user[u].email /\ saved.verified = user[u].verified
      /\ saved.cust = user[u].cust /\ saved.cards = user[u].cards
  BY <1>1, <1>3 DEF Row
<1>5. [user[u] EXCEPT !.code = FALSE, !.tel = IF Moves(r) THEN req[r].arg ELSE @] = saved
  BY <1>1, <1>2, <1>3 DEF Row
<1>6. PICK fields : fields = IF Moves(r) THEN {"code", "tel"} ELSE {"code"}
  OBVIOUS
<1>7. Save(r, u, saved, fields, Idle)
  BY <1>5, <1>6 DEF GiveNumber, Moves
<1>8. fields \in SUBSET FieldNames
  BY <1>6 DEF FieldNames
<1> QED BY <1>1, <1>2, <1>4, <1>6, <1>7, <1>8

LEMMA TelStepLeaves ==
  ASSUME AccountsOK, TelStep, \A r \in Requests : TelKnown(r)
  PROVE  TelLeaves
<1>1. ASSUME NEW r \in Requests, FindPrevious(r) PROVE TelLeaves
  <2>1. PICK next \in Request : /\ req' = [req EXCEPT ![r] = next] /\ req[r].at = "update"
                                /\ GoesOn(next, r, "take") \/ GoesOn(next, r, "give")
    BY <1>1, FindPreviousIs
  <2>2. AccountsOK' /\ SameRefs /\ SameMail /\ SameCards /\ Avoids(Steps \ {next.at})
    BY <1>1, <2>1, GoesOnOnly DEF FindPrevious, GoesOn, tables, stripe, AccountsOK, TypeOK
  <2>3. Steps \ ({"idle"} \cup TelAts) \subseteq Steps \ {next.at}
    BY <2>1 DEF GoesOn, TelAts
  <2>4. Avoids(Steps \ ({"idle"} \cup TelAts))
    BY <2>2, <2>3, AvoidsFewer
  <2> QED BY <1>1, <2>2, <2>4 DEF TelLeaves, FindPrevious, tables, stripe, history
<1>2. ASSUME NEW r \in Requests, TakeNumber(r) PROVE TelLeaves
  <2>1. PICK v : v = req[r].other
    OBVIOUS
  <2>2. PICK saved \in Row, next \in Request :
           /\ Save(r, v, saved, {"tel"}, next) /\ v \in Users \ {req[r].user}
           /\ saved.ref = user[v].ref /\ saved.email = user[v].email /\ saved.verified = user[v].verified
           /\ saved.cust = user[v].cust /\ saved.cards = user[v].cards
           /\ GoesOn(next, r, "give")
    BY <1>2, <2>1, TakeNumberIs
  <2>3. UNCHANGED <<accounts, promos, bids, stripe, tokens, proved>> /\ req[r].at # "idle"
    BY <1>2 DEF TakeNumber
  <2>4. AccountsOK' /\ Avoids(Steps \ {"give"})
    BY <2>2, <2>3, Saves DEF stripe, AccountsOK, TokensOK, GoesOn
  <2>5. SameRefs /\ SameMail /\ SameCards
    BY <2>2, SavesRow
  <2> QED BY <2>2, <2>3, <2>4, <2>5, AvoidsFewer DEF TelLeaves, TelAts, Save
<1>3. ASSUME NEW r \in Requests, GiveNumber(r) PROVE TelLeaves
  <2>1. PICK u : u = req[r].user
    OBVIOUS
  <2>2. PICK saved \in Row, fields \in SUBSET FieldNames :
           /\ Save(r, u, saved, fields, Idle) /\ u \in accounts
           /\ saved.ref = user[u].ref /\ saved.email = user[u].email /\ saved.verified = user[u].verified
           /\ saved.cust = user[u].cust /\ saved.cards = user[u].cards
    BY <1>3, <2>1, GiveNumberIs
  <2>3. UNCHANGED <<accounts, promos, bids, stripe, tokens, proved>> /\ u \in Users
    BY <1>3, <2>2 DEF GiveNumber, AccountsOK, TypeOK
  <2>4. AccountsOK' /\ Avoids(Steps \ {"idle"})
    BY <2>2, <2>3, Saves, IdleOK DEF stripe, Idle, AccountsOK, TokensOK
  <2>5. SameRefs /\ SameMail /\ SameCards
    BY <2>2, <2>3, SavesRow
  <2> QED BY <2>2, <2>3, <2>4, <2>5, AvoidsFewer DEF TelLeaves, Save
<1>4. ASSUME NEW r \in Requests, NumberIsTaken(r) PROVE TelLeaves
  <2>1. AccountsOK' /\ SameRefs /\ SameMail /\ SameCards /\ Avoids(Steps \ {"idle"})
    BY <1>4, Replies DEF NumberIsTaken, tables, stripe
  <2> QED BY <1>4, <2>1, AvoidsFewer DEF TelLeaves, NumberIsTaken, tables, stripe
<1>5. ASSUME NEW r \in Requests, NEW u \in Users, NEW t \in Numbers, UpdateTelephone(r, u, t) PROVE TelLeaves
  <2>1. u \in accounts
    BY <1>5 DEF UpdateTelephone, AccountsOK, TokensOK
  <2>2. AccountsOK' /\ SameRefs /\ SameMail /\ SameCards /\ Avoids(Steps \ {"idle", "update"})
    BY <1>5, <2>1, BeginsOnly DEF UpdateTelephone, Args, Kinds, FieldNames, tables, stripe
  <2> QED BY <1>5, <2>2, AvoidsFewer DEF TelLeaves, TelAts, UpdateTelephone, tables, stripe, history
<1> QED BY <1>1, <1>2, <1>3, <1>4, <1>5 DEF TelStep

(***************************************************************************)
(* The e-mail address.                                                     *)
(***************************************************************************)
\* A request that was told of nothing knows its user's address, and whether it is verified.
MailKnown(r) ==
  req[r].at \in MailAts =>
    /\ req[r].arg \in Emails
    /\ req[r].at = "confirm" => req[r].arg = req[r].copy.email
    /\ <<"mail", req[r].user>> \in req[r].read
    /\ <<"mail", req[r].user>> \notin req[r].stale
         => req[r].copy.email = user[req[r].user].email /\ req[r].copy.verified = user[req[r].user].verified

MailLeaves ==
  /\ AccountsOK' /\ SameNumbers /\ SameRefs /\ SameCards /\ Avoids(Steps \ ({"idle"} \cup MailAts))
  /\ UNCHANGED <<accounts, promos, bids, stripe, released>> /\ excuse \subseteq excuse'

LEMMA SaveEmailIs ==
  ASSUME AccountsOK, NEW r \in Requests, MailKnown(r), NEW u, u = req[r].user, SaveEmail(r)
  PROVE  \E saved \in Row :
           /\ Save(r, u, saved, {"mail"}, Idle) /\ u \in accounts
           /\ saved.email = (IF req[r].arg # req[r].copy.email THEN req[r].arg ELSE user[u].email)
           /\ saved.verified = Unverified(req[r].copy, req[r].arg, user[u].verified)
           /\ saved.ref = user[u].ref /\ saved.tel = user[u].tel /\ saved.former = user[u].former
           /\ saved.cust = user[u].cust /\ saved.cards = user[u].cards
<1>1. u \in accounts /\ u \in Users /\ user[u] \in Row /\ req[r].arg \in Emails
  BY ServedUser DEF SaveEmail, MailKnown, MailAts
<1>2. PICK new \in Emails \cup {None} : new = IF req[r].arg # req[r].copy.email THEN req[r].arg ELSE user[u].email
  BY <1>1 DEF Row
<1>3. PICK b \in BOOLEAN : b = Unverified(req[r].copy, req[r].arg, user[u].verified)
  BY <1>1 DEF Row, Unverified
<1>4. PICK saved : saved = [user[u] EXCEPT !.email = new, !.verified = b]
  OBVIOUS
<1>5. /\ saved \in Row /\ saved.email = new /\ saved.verified = b
      /\ saved.ref = user[u].ref /\ saved.tel = user[u].tel /\ saved.former = user[u].former
      /\ saved.cust = user[u].cust /\ saved.cards = user[u].cards
  BY <1>1, <1>4 DEF Row
<1>6. [user[u] EXCEPT !.email = new, !.verified = Unverified(req[r].copy, req[r].arg, @)] = saved
  BY <1>1, <1>3, <1>4 DEF Row
<1>7. Save(r, u, saved, {"mail"}, Idle)
  BY <1>2, <1>6 DEF SaveEmail
<1> QED BY <1>1, <1>2, <1>3, <1>5, <1>7

LEMMA SaveVerifiedIs ==
  ASSUME AccountsOK, NEW r \in Requests, NEW u, u = req[r].user, SaveVerified(r)
  PROVE  \E saved \in Row :
           /\ Save(r, u, saved, {"mail"}, Idle) /\ u \in accounts
           /\ saved.email = user[u].email /\ saved.verified
           /\ saved.ref = user[u].ref /\ saved.tel = user[u].tel /\ saved.former = user[u].former
           /\ saved.cust = user[u].cust /\ saved.cards = user[u].cards
<1>1. u \in accounts /\ u \in Users /\ user[u] \in Row
  BY ServedUser DEF SaveVerified
<1>2. PICK saved : saved = [user[u] EXCEPT !.verified = TRUE]
  OBVIOUS
<1>3. /\ saved \in Row /\ saved.email = user[u].email /\ saved.verified
      /\ saved.ref = user[u].ref /\ saved.tel = user[u].tel /\ saved.former = user[u].former
      /\ saved.cust = user[u].cust /\ saved.cards = user[u].cards
  BY <1>1, <1>2 DEF Row
<1>4. Save(r, u, saved, {"mail"}, Idle)
  BY <1>2 DEF SaveVerified
<1> QED BY <1>1, <1>3, <1>4

LEMMA MailStepLeaves ==
  ASSUME AccountsOK, MailStep, \A r \in Requests : MailKnown(r)
  PROVE  MailLeaves
<1>1. ASSUME NEW u \in Users, SendLink(u) PROVE MailLeaves
  <2>1. TokensOK'
    BY <1>1 DEF SendLink, AccountsOK, TokensOK, tables
  <2>2. Avoids(Steps \ ({"idle"} \cup MailAts))
    BY <1>1, UntouchedPasses DEF SendLink, Avoids
  <2> QED BY <1>1, <2>1, <2>2 DEF SendLink, MailLeaves, AccountsOK, TypeOK, Served1, tables, stripe, history, SameNumbers,
       SameRefs, SameCards
<1>2. ASSUME NEW r \in Requests, SaveEmail(r) PROVE MailLeaves
  <2>1. PICK u : u = req[r].user
    OBVIOUS
  <2>2. PICK saved \in Row :
           /\ Save(r, u, saved, {"mail"}, Idle) /\ u \in accounts
           /\ saved.ref = user[u].ref /\ saved.tel = user[u].tel /\ saved.former = user[u].former
           /\ saved.cust = user[u].cust /\ saved.cards = user[u].cards
    BY <1>2, <2>1, SaveEmailIs
  <2>3. UNCHANGED <<accounts, promos, bids, stripe, tokens, released>> /\ u \in Users
    BY <1>2, <2>2 DEF SaveEmail, AccountsOK, TypeOK
  <2>4. AccountsOK' /\ Avoids(Steps \ {"idle"})
    BY <2>2, <2>3, Saves, IdleOK DEF stripe, Idle, AccountsOK, TokensOK
  <2>5. SameNumbers /\ SameRefs /\ SameCards
    BY <2>2, <2>3, SavesRow
  <2> QED BY <2>2, <2>3, <2>4, <2>5, AvoidsFewer DEF MailLeaves, Save
<1>3. ASSUME NEW r \in Requests, SaveVerified(r) PROVE MailLeaves
  <2>1. PICK u : u = req[r].user
    OBVIOUS
  <2>2. PICK saved \in Row :
           /\ Save(r, u, saved, {"mail"}, Idle) /\ u \in accounts
           /\ saved.email = user[u].email /\ saved.verified
           /\ saved.ref = user[u].ref /\ saved.tel = user[u].tel /\ saved.former = user[u].former
           /\ saved.cust = user[u].cust /\ saved.cards = user[u].cards
    BY <1>3, <2>1, SaveVerifiedIs
  <2>3. UNCHANGED <<accounts, promos, bids, stripe, tokens, released>> /\ u \in Users
    BY <1>3, <2>2 DEF SaveVerified, AccountsOK, TypeOK
  <2>4. AccountsOK' /\ Avoids(Steps \ {"idle"})
    BY <2>2, <2>3, Saves, IdleOK DEF stripe, Idle, AccountsOK, TokensOK
  <2>5. SameNumbers /\ SameRefs /\ SameCards
    BY <2>2, <2>3, SavesRow
  <2> QED BY <2>2, <2>3, <2>4, <2>5, AvoidsFewer DEF MailLeaves, Save
<1>4. ASSUME NEW r \in Requests, NEW u \in Users, NEW e \in Emails, PutUser(r, u, e) PROVE MailLeaves
  <2>1. AccountsOK' /\ SameNumbers /\ SameRefs /\ SameCards /\ Avoids(Steps \ {"idle", "put"})
    BY <1>4, BeginsOnly DEF PutUser, Args, Kinds, FieldNames, tables, stripe
  <2> QED BY <1>4, <2>1, AvoidsFewer DEF MailLeaves, MailAts, PutUser, tables, stripe, history
<1>5. ASSUME NEW r \in Requests, NEW u \in Users, NEW e \in Emails, FollowLink(r, u, e) PROVE MailLeaves
  <2>1. u \in accounts
    BY <1>5 DEF FollowLink, AccountsOK, TokensOK
  <2>2. AccountsOK' /\ SameNumbers /\ SameRefs /\ SameCards /\ Avoids(Steps \ {"idle", "confirm"})
    BY <1>5, <2>1, BeginsOnly DEF FollowLink, Args, Kinds, FieldNames, tables, stripe
  <2> QED BY <1>5, <2>2, AvoidsFewer DEF MailLeaves, MailAts, FollowLink, tables, stripe, history
<1> QED BY <1>1, <1>2, <1>3, <1>4, <1>5 DEF MailStep


(***************************************************************************)
(* Cards.                                                                  *)
(***************************************************************************)
CardKinds == {"add", "delete", "replace"}
DirtyAts  == {"detach", "retrieve", "resync", "keep"}

\* Stripe's customer is known once it is needed, and so is the card.
CustKnown(r) ==
  /\ req[r].at \in DirtyAts \cup {"delete", "replace"} => req[r].copy.cust # None
  /\ req[r].at \in CardKinds => req[r].arg \in Cards

CardLeaves ==
  /\ AccountsOK' /\ SameNumbers /\ SameRefs /\ SameMail /\ Avoids(Steps \ ({"idle"} \cup CardAts))
  /\ UNCHANGED <<accounts, promos, proved, released>> /\ excuse \subseteq excuse'

\* The cards one of which r deletes at Stripe.
Removes(r) == IF req[r].kind = "delete" THEN {req[r].arg} ELSE req[r].copy.cards

LEMMA NewCustomerIs ==
  ASSUME AccountsOK, NEW r \in Requests, NewCustomer(r)
  PROVE  \E next \in Request, c \in Customers \ customers :
           /\ req' = [req EXCEPT ![r] = next] /\ customers' = customers \cup {c}
           /\ req[r].at = "add" /\ req[r].copy.cust = None /\ UNCHANGED <<tables, held, tokens, history>>
           /\ next.at = "add" /\ next.kind = req[r].kind /\ next.user = req[r].user /\ next.arg = req[r].arg
           /\ next.copy.cust = c /\ next.copy.cards = req[r].copy.cards
           /\ next.read = req[r].read /\ next.stale = req[r].stale
<1>1. req[r] \in Request /\ req[r].copy \in Row
  BY DEF AccountsOK, TypeOK, Request
<1>2. PICK c \in Customers \ customers : customers' = customers \cup {c} /\ req' = [req EXCEPT ![r].copy.cust = c]
  BY DEF NewCustomer
<1>3. PICK copy : copy = [req[r].copy EXCEPT !.cust = c]
  OBVIOUS
<1>4. copy \in Row /\ copy.cust = c /\ copy.cards = req[r].copy.cards
  BY <1>1, <1>3 DEF Row
<1>5. PICK next : next = [req[r] EXCEPT !.copy = copy]
  OBVIOUS
<1>6. /\ next \in Request /\ next.copy = copy
      /\ next.at = req[r].at /\ next.kind = req[r].kind /\ next.user = req[r].user /\ next.arg = req[r].arg
      /\ next.read = req[r].read /\ next.stale = req[r].stale
  BY <1>1, <1>4, <1>5 DEF Request
<1>7. req' = [req EXCEPT ![r] = next]
  BY <1>2, <1>3, <1>5
<1> QED BY <1>2, <1>4, <1>6, <1>7 DEF NewCustomer

LEMMA AttachIs ==
  ASSUME AccountsOK, NEW r \in Requests, Attach(r), NEW c, c = req[r].copy.cust
  PROVE  \E step \in {"detach", "retrieve", "resync"} :
           /\ req' = [req EXCEPT ![r] = Goto(r, step)] /\ req[r].at \in {"add", "replace"} /\ c \in Customers
           /\ step = "detach" => req[r].kind = "replace" /\ req[r].copy.cards # {}
           /\ \/ held' = [held EXCEPT ![c] = @ \cup {req[r].arg}]
              \/ step = "resync" /\ UNCHANGED held
           /\ UNCHANGED <<tables, customers, tokens, history>>
  BY DEF Attach, Attached, AccountsOK, TypeOK, Request, Row

LEMMA CheckBidsIs ==
  ASSUME AccountsOK, NEW r \in Requests, CheckBids(r)
  PROVE  \E next \in Request :
           /\ req' = [req EXCEPT ![r] = next] /\ GoesOn(next, r, "detach") /\ req[r].at = "delete" /\ MayDelete(r)
           /\ next.read = req[r].read \cup Of({"bid"}, req[r].user) /\ next.stale = req[r].stale
           /\ UNCHANGED <<tables, stripe, tokens, history>>
<1>1. req[r].at = "delete"
  BY DEF CheckBids
<1>2. /\ Goto(r, "detach") \in Request /\ GoesOn(Goto(r, "detach"), r, "detach")
      /\ Goto(r, "detach").read = req[r].read /\ Goto(r, "detach").stale = req[r].stale
  BY GotoIs DEF AccountsOK, Steps
<1>3. PICK fields \in SUBSET Fields : fields = Of({"bid"}, req[r].user)
  BY <1>1, ServedUser, OfFields DEF FieldNames
<1>4. PICK next : next = [Goto(r, "detach") EXCEPT !.read = @ \cup fields]
  OBVIOUS
<1>5. /\ next \in Request /\ GoesOn(next, r, "detach")
      /\ next.read = req[r].read \cup fields /\ next.stale = req[r].stale
  BY <1>2, <1>4, ReadIs DEF GoesOn
<1>6. req' = [req EXCEPT ![r] = next]
  BY <1>3, <1>4 DEF CheckBids
<1> QED BY <1>1, <1>3, <1>5, <1>6 DEF CheckBids

LEMMA DetachIs ==
  ASSUME AccountsOK, NEW r \in Requests, CustKnown(r), Detach(r), NEW c, c = req[r].copy.cust
  PROVE  \E step \in {"retrieve", "resync"} :
           /\ req' = [req EXCEPT ![r] = Goto(r, step)] /\ req[r].at = "detach" /\ c \in Customers
           /\ \/ \E k \in Removes(r) :
                   held' = [held EXCEPT ![c] = @ \ {k}]
              \/ step = "resync" /\ UNCHANGED held
           /\ UNCHANGED <<tables, customers, tokens, history>>
<1>1. req[r].at = "detach" /\ c \in Customers
  BY DEF Detach, CustKnown, DirtyAts, AccountsOK, TypeOK, Request, Row
<1>2. UNCHANGED <<tables, customers, tokens, history>>
  BY DEF Detach
<1>3. CASE req' = [req EXCEPT ![r] = Goto(r, "resync")] /\ UNCHANGED held
  BY <1>1, <1>2, <1>3
<1>4. CASE \E k \in Removes(r) :
             /\ held' = [held EXCEPT ![c] = @ \ {k}]
             /\ \E step \in {"retrieve", "resync"} : req' = [req EXCEPT ![r] = Goto(r, step)]
  BY <1>1, <1>2, <1>4
<1> QED BY <1>3, <1>4 DEF Detach, Removes

LEMMA RetrieveIs ==
  ASSUME AccountsOK, NEW r \in Requests, CustKnown(r), Retrieve(r)
  PROVE  \E next \in Request :
           /\ req' = [req EXCEPT ![r] = next] /\ GoesOn(next, r, "keep") /\ req[r].at \in {"retrieve", "resync"}
           /\ next.read = req[r].read /\ next.stale = req[r].stale
           /\ next.seen = held[req[r].copy.cust]
           /\ UNCHANGED <<tables, stripe, tokens, history>>
<1>1. req[r].at \in {"retrieve", "resync"}
  BY DEF Retrieve
<1>2. /\ Goto(r, "keep") \in Request /\ GoesOn(Goto(r, "keep"), r, "keep")
      /\ Goto(r, "keep").read = req[r].read /\ Goto(r, "keep").stale = req[r].stale
  BY GotoIs DEF AccountsOK, Steps
<1>3. PICK cards \in SUBSET Cards : cards = held[req[r].copy.cust]
  BY <1>1 DEF CustKnown, DirtyAts, AccountsOK, TypeOK, Request, Row
<1>4. PICK next : next = [Goto(r, "keep") EXCEPT !.seen = cards]
  OBVIOUS
<1>5. /\ next \in Request /\ GoesOn(next, r, "keep")
      /\ next.read = req[r].read /\ next.stale = req[r].stale /\ next.seen = cards
  BY <1>2, <1>4, SeenIs DEF GoesOn
<1>6. req' = [req EXCEPT ![r] = next]
  BY <1>3, <1>4 DEF Retrieve
<1> QED BY <1>1, <1>3, <1>5, <1>6 DEF Retrieve

LEMMA SaveCardsIs ==
  ASSUME AccountsOK, NEW r \in Requests, NEW u, u = req[r].user, SaveCards(r)
  PROVE  \E saved \in Row :
           /\ Save(r, u, saved, {"cards"}, Idle) /\ u \in accounts /\ req[r].at = "keep"
           /\ saved.cust = req[r].copy.cust /\ saved.cards = req[r].seen
           /\ saved.ref = user[u].ref /\ saved.tel = user[u].tel /\ saved.former = user[u].former
           /\ saved.email = user[u].email /\ saved.verified = user[u].verified
<1>1. u \in accounts /\ u \in Users /\ user[u] \in Row /\ req[r].at = "keep" /\ req[r] \in Request
  BY ServedUser DEF SaveCards, AccountsOK, TypeOK
<1>2. PICK saved : saved = [user[u] EXCEPT !.cust = req[r].copy.cust, !.cards = req[r].seen]
  OBVIOUS
<1>3. /\ saved \in Row /\ saved.cust = req[r].copy.cust /\ saved.cards = req[r].seen
      /\ saved.ref = user[u].ref /\ saved.tel = user[u].tel /\ saved.former = user[u].former
      /\ saved.email = user[u].email /\ saved.verified = user[u].verified
  BY <1>1, <1>2 DEF Row, Request
<1>4. Save(r, u, saved, {"cards"}, Idle)
  BY <1>2 DEF SaveCards, Kept
<1> QED BY <1>1, <1>3, <1>4


LEMMA CardStepLeaves ==
  ASSUME AccountsOK, CardStep, \A r \in Requests : CustKnown(r)
  PROVE  CardLeaves
<1>0. \A at \in CardAts : Steps \ ({"idle"} \cup CardAts) \subseteq Steps \ {at}
  OBVIOUS
<1>1. ASSUME NEW u \in Users, EndBid(u) PROVE CardLeaves
  <2>1. Avoids(Steps \ ({"idle"} \cup CardAts))
    BY <1>1, UntouchedPasses DEF EndBid, Avoids
  <2> QED BY <1>1, <2>1 DEF EndBid, CardLeaves, AccountsOK, TypeOK, Served1, TokensOK, stripe, history, SameNumbers,
       SameRefs, SameMail
<1>2. ASSUME NEW r \in Requests, NewCustomer(r) PROVE CardLeaves
  <2>1. PICK next \in Request :
           /\ req' = [req EXCEPT ![r] = next] /\ req[r].at = "add" /\ UNCHANGED <<tables, held, tokens, history>>
           /\ next.at = "add" /\ next.user = req[r].user
    BY <1>2, NewCustomerIs
  <2>2. AccountsOK' /\ SameNumbers /\ SameRefs /\ SameMail /\ Avoids(Steps \ {"add"})
    BY <2>1, GoesOnOnly DEF tables, AccountsOK, TypeOK
  <2> QED BY <1>0, <2>1, <2>2, AvoidsFewer DEF CardLeaves, CardAts, tables, history
<1>3. ASSUME NEW r \in Requests, Attach(r) PROVE CardLeaves
  <2>1. PICK c : c = req[r].copy.cust
    OBVIOUS
  <2>2. PICK step \in {"detach", "retrieve", "resync"} :
           /\ req' = [req EXCEPT ![r] = Goto(r, step)] /\ req[r].at \in {"add", "replace"} /\ c \in Customers
           /\ step = "detach" => req[r].kind = "replace" /\ req[r].copy.cards # {}
           /\ \/ held' = [held EXCEPT ![c] = @ \cup {req[r].arg}]
              \/ step = "resync" /\ UNCHANGED held
           /\ UNCHANGED <<tables, customers, tokens, history>>
    BY <1>3, <2>1, AttachIs
  <2>3. Goto(r, step) \in Request /\ GoesOn(Goto(r, step), r, step)
    BY GotoIs DEF AccountsOK, Steps
  <2>4. PICK next \in Request : req' = [req EXCEPT ![r] = next] /\ next.at = step /\ next.user = req[r].user
    BY <2>2, <2>3 DEF GoesOn
  <2>5. held' \in [Customers -> SUBSET Cards]
    <3>1. req[r].arg \in Cards
      BY <2>2 DEF CustKnown, CardKinds
    <3> QED BY <1>3, <2>2, <3>1 DEF AccountsOK, TypeOK
  <2>6. AccountsOK' /\ SameNumbers /\ SameRefs /\ SameMail /\ Avoids(Steps \ {step})
    BY <2>2, <2>4, <2>5, GoesOnOnly DEF tables
  <2> QED BY <1>0, <2>2, <2>6, AvoidsFewer DEF CardLeaves, CardAts, tables, history
<1>4. ASSUME NEW r \in Requests, CheckBids(r) PROVE CardLeaves
  <2>1. PICK next \in Request :
           /\ req' = [req EXCEPT ![r] = next] /\ GoesOn(next, r, "detach") /\ req[r].at = "delete"
           /\ UNCHANGED <<tables, stripe, tokens, history>>
    BY <1>4, CheckBidsIs
  <2>2. AccountsOK' /\ SameNumbers /\ SameRefs /\ SameMail /\ Avoids(Steps \ {"detach"})
    BY <2>1, GoesOnOnly DEF tables, stripe, GoesOn, AccountsOK, TypeOK
  <2> QED BY <1>0, <2>1, <2>2, AvoidsFewer DEF CardLeaves, CardAts, tables, history
<1>5. ASSUME NEW r \in Requests, KeepForBid(r) PROVE CardLeaves
  <2>1. AccountsOK' /\ SameNumbers /\ SameRefs /\ SameMail /\ Avoids(Steps \ {"idle"})
    BY <1>5, Replies DEF KeepForBid, Refuse, tables, stripe
  <2> QED BY <1>5, <2>1, AvoidsFewer DEF CardLeaves, KeepForBid, Refuse, tables, history
<1>6. ASSUME NEW r \in Requests, Detach(r) PROVE CardLeaves
  <2>1. PICK c : c = req[r].copy.cust
    OBVIOUS
  <2>2. PICK step \in {"retrieve", "resync"} :
           /\ req' = [req EXCEPT ![r] = Goto(r, step)] /\ req[r].at = "detach" /\ c \in Customers
           /\ \/ \E k \in Removes(r) :
                   held' = [held EXCEPT ![c] = @ \ {k}]
              \/ step = "resync" /\ UNCHANGED held
           /\ UNCHANGED <<tables, customers, tokens, history>>
    <3>1. CustKnown(r)
      OBVIOUS
    <3> QED BY <1>6, <2>1, <3>1, DetachIs
  <2>3. Goto(r, step) \in Request /\ GoesOn(Goto(r, step), r, step)
    BY GotoIs DEF AccountsOK, Steps
  <2>4. PICK next \in Request : req' = [req EXCEPT ![r] = next] /\ next.at = step /\ next.user = req[r].user
    BY <2>2, <2>3 DEF GoesOn
  <2>5. held' \in [Customers -> SUBSET Cards]
    BY <2>2 DEF AccountsOK, TypeOK
  <2>6. AccountsOK' /\ SameNumbers /\ SameRefs /\ SameMail /\ Avoids(Steps \ {step})
    BY <2>2, <2>4, <2>5, GoesOnOnly DEF tables
  <2> QED BY <1>0, <2>2, <2>6, AvoidsFewer DEF CardLeaves, CardAts, tables, history
<1>7. ASSUME NEW r \in Requests, Retrieve(r) PROVE CardLeaves
  <2>1. PICK next \in Request :
           /\ req' = [req EXCEPT ![r] = next] /\ GoesOn(next, r, "keep") /\ req[r].at \in {"retrieve", "resync"}
           /\ UNCHANGED <<tables, stripe, tokens, history>>
    BY <1>7, RetrieveIs
  <2>2. AccountsOK' /\ SameNumbers /\ SameRefs /\ SameMail /\ Avoids(Steps \ {"keep"})
    BY <2>1, GoesOnOnly DEF tables, stripe, GoesOn, AccountsOK, TypeOK
  <2> QED BY <1>0, <2>1, <2>2, AvoidsFewer DEF CardLeaves, CardAts, tables, history
<1>8. ASSUME NEW r \in Requests, RetrieveFails(r) PROVE CardLeaves
  <2>1. UNCHANGED <<tables, stripe, tokens, proved, released>> /\ excuse \subseteq excuse'
    BY <1>8 DEF RetrieveFails
  <2>2. CASE req' = [req EXCEPT ![r] = Idle]
    <3>1. AccountsOK' /\ SameNumbers /\ SameRefs /\ SameMail /\ Avoids(Steps \ {"idle"})
      BY <2>1, <2>2, Replies DEF tables, stripe
    <3> QED BY <2>1, <3>1, AvoidsFewer DEF CardLeaves, tables
  <2>3. CASE req' = [req EXCEPT ![r] = Goto(r, "resync")] /\ req[r].at = "retrieve"
    <3>1. Goto(r, "resync") \in Request /\ GoesOn(Goto(r, "resync"), r, "resync")
      BY GotoIs DEF AccountsOK, Steps
    <3>2. PICK next \in Request : req' = [req EXCEPT ![r] = next] /\ next.at = "resync" /\ next.user = req[r].user
      BY <2>3, <3>1 DEF GoesOn
    <3>3. AccountsOK' /\ SameNumbers /\ SameRefs /\ SameMail /\ Avoids(Steps \ {"resync"})
      BY <2>1, <2>3, <3>2, GoesOnOnly DEF tables, stripe, AccountsOK, TypeOK
    <3> QED BY <1>0, <2>1, <3>3, AvoidsFewer DEF CardLeaves, CardAts, tables
  <2> QED BY <1>8, <2>2, <2>3 DEF RetrieveFails
<1>9. ASSUME NEW r \in Requests, SaveCards(r) PROVE CardLeaves
  <2>1. PICK u : u = req[r].user
    OBVIOUS
  <2>2. PICK saved \in Row :
           /\ Save(r, u, saved, {"cards"}, Idle) /\ u \in accounts
           /\ saved.ref = user[u].ref /\ saved.tel = user[u].tel /\ saved.former = user[u].former
           /\ saved.email = user[u].email /\ saved.verified = user[u].verified
    BY <1>9, <2>1, SaveCardsIs
  <2>3. UNCHANGED <<accounts, promos, bids, stripe, tokens, proved, released>> /\ u \in Users
    BY <1>9, <2>2 DEF SaveCards, AccountsOK, TypeOK
  <2>4. AccountsOK' /\ Avoids(Steps \ {"idle"})
    BY <2>2, <2>3, Saves, IdleOK DEF stripe, Idle, AccountsOK, TokensOK
  <2>5. SameNumbers /\ SameRefs /\ SameMail
    BY <2>2, <2>3, SavesRow
  <2> QED BY <2>2, <2>3, <2>4, <2>5, AvoidsFewer DEF CardLeaves, Save
<1>10. ASSUME NEW r \in Requests, PlaceBid(r) PROVE CardLeaves
  <2>1. PICK written : Served(r, Idle, written)
    BY <1>10 DEF PlaceBid
  <2>2. UNCHANGED <<accounts, user, promos, stripe, tokens, proved, released>> /\ excuse \subseteq excuse'
    BY <1>10 DEF PlaceBid
  <2>3. req' \in [Requests -> Request] /\ Avoids(Steps \ ({"idle"} \cup CardAts))
    BY <2>1, IdleOK, ServedType, ServedAvoids DEF AccountsOK, Idle
  <2>4. ASSUME NEW q \in Requests, req'[q].at # "idle" PROVE req'[q].user \in accounts
    <3>1. CASE q = r
      BY <2>1, <2>4, <3>1, ServedSelf DEF Idle
    <3>2. CASE q # r
      <4>1. Told(q, written)
        BY <2>1, <3>2, ServedOthers DEF AccountsOK
      <4> QED BY <2>4, <4>1 DEF Told, AccountsOK, Served1
    <3> QED BY <3>1, <3>2
  <2> QED BY <2>2, <2>3, <2>4 DEF CardLeaves, AccountsOK, TypeOK, Served1, TokensOK, stripe, SameNumbers, SameRefs, SameMail
<1>11. ASSUME NEW r \in Requests, NEW u \in Users, AskToBid(r, u) PROVE CardLeaves
  <2>1. AccountsOK' /\ SameNumbers /\ SameRefs /\ SameMail /\ Avoids(Steps \ {"idle", "bid"})
    BY <1>11, BeginsOnly DEF AskToBid, Args, Kinds, FieldNames, tables, stripe
  <2> QED BY <1>11, <2>1, AvoidsFewer DEF CardLeaves, CardAts, AskToBid, tables, history
<1>12. ASSUME NEW r \in Requests, NEW u \in Users, NEW kind \in CardKinds, ChangeCards(r, kind, u) PROVE CardLeaves
  <2>1. PICK k \in Cards : Begin(r, kind, u, k, {"cards"})
    BY <1>12 DEF ChangeCards
  <2>2. u \in accounts /\ UNCHANGED <<tables, stripe, tokens, scene, history>>
    BY <1>12 DEF ChangeCards
  <2>3. k \in Args /\ kind \in Kinds /\ {"cards"} \subseteq FieldNames
    BY DEF Args, Kinds, CardKinds, FieldNames
  <2>4. AccountsOK' /\ SameNumbers /\ SameRefs /\ SameMail /\ Avoids(Steps \ {"idle", kind})
    BY <2>1, <2>2, <2>3, BeginsOnly DEF tables, stripe
  <2> QED BY <2>2, <2>4, AvoidsFewer DEF CardLeaves, CardAts, CardKinds, tables, history
<1> QED
  BY <1>1, <1>2, <1>3, <1>4, <1>5, <1>6, <1>7, <1>8, <1>9, <1>10, <1>11, <1>12 DEF CardStep, CardKinds

LEMMA CrashLeaves ==
  ASSUME AccountsOK, Crash
  PROVE  /\ AccountsOK' /\ \A r \in Requests : req'[r] = Idle
         /\ excuse' = excuse \cup HalfWay(Requests) /\ released' = released \cup Dropped(Requests)
         /\ UNCHANGED <<tables, stripe, tokens, proved>>
<1>1. /\ req' \in [Requests -> Request] /\ \A r \in Requests : req'[r] = Idle
      /\ UNCHANGED <<tables, stripe, tokens, proved>>
  BY IdleOK DEF Crash
<1> QED BY <1>1 DEF Crash, AccountsOK, TypeOK, Served1, TokensOK, tables, stripe, Idle


(***************************************************************************)
(* What the requests know, and what the steps of the others leave of it.   *)
(***************************************************************************)
Known   == \A r \in Requests : TelKnown(r) /\ MailKnown(r) /\ CustKnown(r)
BaseInv == AccountsOK /\ Known

NumbersStay == \A u \in accounts : user'[u].tel = user[u].tel /\ user'[u].former = user[u].former

LEMMA NothingHappens ==
  ASSUME UNCHANGED accountVars, NEW ats
  PROVE  SameNumbers /\ SameRefs /\ SameMail /\ SameCards /\ Avoids(ats)
<1>1. UNCHANGED <<user, req>>
  BY DEF accountVars, tables
<1>2. Avoids(ats)
  BY <1>1, UntouchedPasses DEF Avoids
<1> QED BY <1>1, <1>2 DEF SameNumbers, SameRefs, SameMail, SameCards

LEMMA StepsApart ==
  /\ TelAts \subseteq Steps \ ({"idle"} \cup CodeAts) /\ MailAts \subseteq Steps \ ({"idle"} \cup CodeAts)
  /\ CardAts \subseteq Steps \ ({"idle"} \cup CodeAts) /\ LoginAts \subseteq Steps \ ({"idle"} \cup CodeAts)
  /\ TelAts \subseteq Steps \ ({"idle"} \cup LoginAts) /\ MailAts \subseteq Steps \ ({"idle"} \cup LoginAts)
  /\ CardAts \subseteq Steps \ ({"idle"} \cup LoginAts)
  /\ LoginAts \subseteq Steps \ ({"idle"} \cup TelAts) /\ MailAts \subseteq Steps \ ({"idle"} \cup TelAts)
  /\ CardAts \subseteq Steps \ ({"idle"} \cup TelAts)
  /\ LoginAts \subseteq Steps \ ({"idle"} \cup MailAts) /\ TelAts \subseteq Steps \ ({"idle"} \cup MailAts)
  /\ CardAts \subseteq Steps \ ({"idle"} \cup MailAts)
  /\ LoginAts \subseteq Steps \ ({"idle"} \cup CardAts) /\ TelAts \subseteq Steps \ ({"idle"} \cup CardAts)
  /\ MailAts \subseteq Steps \ ({"idle"} \cup CardAts)
  BY DEF Steps, CodeAts, LoginAts, TelAts, MailAts, CardAts

\* An account that exists keeps its number when a code is sent to it.
LEMMA CodesKeepNumbers ==
  ASSUME AccountsOK, CodeStep
  PROVE  NumbersStay
<1>1. accounts \subseteq Users
  BY DEF AccountsOK, TypeOK
<1>2. ASSUME NEW r \in Requests, SaveCode(r) PROVE NumbersStay
  <2>1. PICK u \in accounts : u = req[r].user /\ u \in Users /\ user[u] \in Row
    BY <1>2, ServedUser DEF SaveCode
  <2>2. PICK saved : saved = [user[u] EXCEPT !.code = TRUE]
    OBVIOUS
  <2>3. saved \in Row /\ saved.tel = user[u].tel /\ saved.former = user[u].former
    BY <2>1, <2>2, CodeChanges
  <2>4. Save(r, u, saved, {"code"}, Idle)
    BY <1>2, <2>1, <2>2 DEF SaveCode
  <2>5. SameNumbers
    BY <2>1, <2>3, <2>4, SavesRow
  <2> QED BY <1>1, <2>5 DEF SameNumbers, NumbersStay
<1>3. ASSUME NEW r \in Requests, NEW u \in Users, NEW t \in Numbers, SendCode(r, t, u) PROVE NumbersStay
  <2>1. \A v \in Users : v # u \/ u \in accounts => user'[v].tel = user[v].tel /\ user'[v].former = user[v].former
    BY <1>3, SendCodeLeaves
  <2> QED BY <1>1, <2>1 DEF NumbersStay
<1>4. CASE UNCHANGED user
  BY <1>4 DEF NumbersStay
<1> QED BY <1>2, <1>3, <1>4 DEF CodeStep, MakeCode, AskToMove, tables

LEMMA TelElsewhere ==
  ASSUME BaseInv, UNCHANGED accountVars \/ CodeStep \/ LoginStep \/ MailStep \/ CardStep
  PROVE  NumbersStay /\ Avoids(TelAts) /\ released' = released
<1>1. accounts \subseteq Users
  BY DEF BaseInv, AccountsOK, TypeOK
<1>2. SameNumbers => NumbersStay
  BY <1>1 DEF SameNumbers, NumbersStay
<1>3. CASE UNCHANGED accountVars
  BY <1>2, <1>3, NothingHappens DEF accountVars, history
<1>4. CASE CodeStep
  BY <1>4, CodeStepLeaves, CodesKeepNumbers, StepsApart, AvoidsFewer DEF CodeLeaves, BaseInv
<1>5. CASE LoginStep
  BY <1>2, <1>5, LoginStepLeaves, StepsApart, AvoidsFewer DEF LoginLeaves, BaseInv
<1>6. CASE MailStep
  BY <1>2, <1>6, MailStepLeaves, StepsApart, AvoidsFewer DEF MailLeaves, BaseInv, Known
<1>7. CASE CardStep
  BY <1>2, <1>7, CardStepLeaves, StepsApart, AvoidsFewer DEF CardLeaves, BaseInv, Known
<1> QED BY <1>3, <1>4, <1>5, <1>6, <1>7

LEMMA MailElsewhere ==
  ASSUME BaseInv, UNCHANGED accountVars \/ CodeStep \/ LoginStep \/ TelStep \/ CardStep
  PROVE  SameMail /\ Avoids(MailAts) /\ proved' = proved /\ excuse \subseteq excuse'
<1>1. CASE UNCHANGED accountVars
  BY <1>1, NothingHappens DEF accountVars, history
<1>2. CASE CodeStep
  BY <1>2, CodeStepLeaves, StepsApart, AvoidsFewer DEF CodeLeaves, BaseInv
<1>3. CASE LoginStep
  BY <1>3, LoginStepLeaves, StepsApart, AvoidsFewer DEF LoginLeaves, BaseInv
<1>4. CASE TelStep
  BY <1>4, TelStepLeaves, StepsApart, AvoidsFewer DEF TelLeaves, BaseInv, Known
<1>5. CASE CardStep
  BY <1>5, CardStepLeaves, StepsApart, AvoidsFewer DEF CardLeaves, BaseInv, Known
<1> QED BY <1>1, <1>2, <1>3, <1>4, <1>5

LEMMA LoginElsewhere ==
  ASSUME BaseInv, UNCHANGED accountVars \/ CodeStep \/ TelStep \/ MailStep \/ CardStep
  PROVE  SameRefs /\ Avoids(LoginAts) /\ promos' = promos /\ excuse \subseteq excuse'
<1>1. CASE UNCHANGED accountVars
  BY <1>1, NothingHappens DEF accountVars, history, tables
<1>2. CASE CodeStep
  BY <1>2, CodeStepLeaves, StepsApart, AvoidsFewer DEF CodeLeaves, BaseInv
<1>3. CASE MailStep
  BY <1>3, MailStepLeaves, StepsApart, AvoidsFewer DEF MailLeaves, BaseInv, Known
<1>4. CASE TelStep
  BY <1>4, TelStepLeaves, StepsApart, AvoidsFewer DEF TelLeaves, BaseInv, Known
<1>5. CASE CardStep
  BY <1>5, CardStepLeaves, StepsApart, AvoidsFewer DEF CardLeaves, BaseInv, Known
<1> QED BY <1>1, <1>2, <1>3, <1>4, <1>5

LEMMA CardElsewhere ==
  ASSUME BaseInv, UNCHANGED accountVars \/ CodeStep \/ LoginStep \/ TelStep \/ MailStep
  PROVE  SameCards /\ Avoids(CardAts) /\ UNCHANGED <<bids, stripe>> /\ excuse \subseteq excuse'
<1>1. CASE UNCHANGED accountVars
  BY <1>1, NothingHappens DEF accountVars, history, tables
<1>2. CASE CodeStep
  BY <1>2, CodeStepLeaves, StepsApart, AvoidsFewer DEF CodeLeaves, BaseInv
<1>3. CASE LoginStep
  BY <1>3, LoginStepLeaves, StepsApart, AvoidsFewer DEF LoginLeaves, BaseInv
<1>4. CASE TelStep
  BY <1>4, TelStepLeaves, StepsApart, AvoidsFewer DEF TelLeaves, BaseInv, Known
<1>5. CASE MailStep
  BY <1>5, MailStepLeaves, StepsApart, AvoidsFewer DEF MailLeaves, BaseInv, Known
<1> QED BY <1>1, <1>2, <1>3, <1>4, <1>5

LEMMA AccountsStayOK ==
  ASSUME BaseInv, [Next]_accountVars
  PROVE  AccountsOK'
<1>1. CASE UNCHANGED accountVars
  BY <1>1 DEF BaseInv, AccountsOK, TypeOK, Served1, TokensOK, accountVars, tables, stripe
<1>2. CASE CodeStep
  BY <1>2, CodeStepLeaves DEF CodeLeaves, BaseInv
<1>3. CASE LoginStep
  BY <1>3, LoginStepLeaves DEF LoginLeaves, BaseInv
<1>4. CASE TelStep
  BY <1>4, TelStepLeaves DEF TelLeaves, BaseInv, Known
<1>5. CASE MailStep
  BY <1>5, MailStepLeaves DEF MailLeaves, BaseInv, Known
<1>6. CASE CardStep
  BY <1>6, CardStepLeaves DEF CardLeaves, BaseInv, Known
<1>7. CASE Crash
  BY <1>7, CrashLeaves DEF BaseInv
<1> QED BY <1>1, <1>2, <1>3, <1>4, <1>5, <1>6, <1>7, StepsAreOfOneKind


LEMMA TelStaysKnown ==
  ASSUME AccountsOK, NEW q \in Requests, TelKnown(q), Passed(q), NumbersStay
  PROVE  TelKnown(q)'
<1>1. req[q].at \in TelAts => req[q].user \in accounts
  BY DEF AccountsOK, Served1, TelAts
<1> QED BY <1>1 DEF TelKnown, Passed, NumbersStay

LEMMA ToldOfNumber ==
  ASSUME AccountsOK, NEW q \in Requests, TelKnown(q), NEW u \in Users, NEW saved \in Row, NEW fields,
         user' = [user EXCEPT ![u] = saved], Told(q, Of(fields \cup {"row"}, u)), "tel" \in fields \/ saved.tel = user[u].tel
  PROVE  TelKnown(q)'
<1>1. req[q].at \in TelAts => req[q].user \in Users
  BY ServedUser DEF TelAts
<1>2. \A v \in Users : user'[v] = IF v = u THEN saved ELSE user[v]
  BY RowWritten DEF AccountsOK
<1>3. \A v : "tel" \in fields /\ v = u => <<"tel", v>> \in Of(fields \cup {"row"}, u)
  BY DEF Of
<1> QED BY <1>1, <1>2, <1>3 DEF TelKnown, Told

LEMMA TelKnownStep ==
  ASSUME BaseInv, TelStep
  PROVE  \A q \in Requests : TelKnown(q)'
<1>1. AccountsOK /\ TypeOK /\ \A q \in Requests : TelKnown(q)
  BY DEF BaseInv, Known, AccountsOK
<1>2. ASSUME NEW q \in Requests, req'[q] = req[q], UNCHANGED user PROVE TelKnown(q)'
  BY <1>1, <1>2 DEF TelKnown
<1>3. ASSUME NEW q \in Requests, req'[q].at = "idle" PROVE TelKnown(q)'
  BY <1>3 DEF TelKnown, TelAts
<1>4. ASSUME NEW r \in Requests, FindPrevious(r) PROVE \A q \in Requests : TelKnown(q)'
  <2>1. PICK next \in Request :
           /\ req' = [req EXCEPT ![r] = next] /\ req[r].at = "update"
           /\ GoesOn(next, r, "take") \/ GoesOn(next, r, "give")
           /\ req[r].read \subseteq next.read /\ next.stale = req[r].stale
           /\ next.at = "take" => next.other \in Users \ {req[r].user}
    BY <1>1, <1>4, FindPreviousIs
  <2>2. /\ req'[r] = next /\ \A q \in Requests : q # r => req'[q] = req[q]
    BY <1>1, <2>1, OneMoves
  <2>3. UNCHANGED user
    BY <1>4 DEF FindPrevious, tables
  <2>4. TelKnown(r)'
    BY <1>1, <2>1, <2>2, <2>3 DEF TelKnown, GoesOn, TelAts
  <2> QED BY <1>2, <2>2, <2>3, <2>4
<1>5. ASSUME NEW r \in Requests, TakeNumber(r), NEW q \in Requests PROVE TelKnown(q)'
  <2>1. PICK v : v = req[r].other
    OBVIOUS
  <2>2. PICK saved \in Row, next \in Request :
           /\ Save(r, v, saved, {"tel"}, next) /\ v \in Users \ {req[r].user}
           /\ saved.tel = None /\ saved.former = req[r].arg
           /\ saved.ref = user[v].ref /\ saved.email = user[v].email /\ saved.verified = user[v].verified
           /\ saved.cust = user[v].cust /\ saved.cards = user[v].cards
           /\ GoesOn(next, r, "give") /\ next.other = v /\ next.read = req[r].read /\ next.stale = req[r].stale
    BY <1>1, <1>5, <2>1, TakeNumberIs
  <2>3. user' = [user EXCEPT ![v] = saved] /\ Served(r, next, Of({"tel"} \cup {"row"}, v)) /\ req[r].at = "take"
    BY <1>5, <2>2 DEF Save, TakeNumber
  <2>4. CASE q = r
    <3>1. req'[r] = next
      BY <2>3, ServedSelf
    <3>2. req[r].user \in Users /\ \A w \in Users : user'[w] = IF w = v THEN saved ELSE user[w]
      BY <1>1, <2>2, <2>3, RowWritten, ServedUser
    <3> QED BY <1>1, <2>2, <2>3, <2>4, <3>1, <3>2 DEF TelKnown, GoesOn, TelAts
  <2>5. CASE q # r
    <3>1. Told(q, Of({"tel"} \cup {"row"}, v))
      BY <1>1, <2>3, <2>5, ServedOthers
    <3> QED BY <1>1, <2>2, <2>3, <3>1, ToldOfNumber
  <2> QED BY <2>4, <2>5
<1>6. ASSUME NEW r \in Requests, GiveNumber(r), NEW q \in Requests PROVE TelKnown(q)'
  <2>1. PICK u : u = req[r].user
    OBVIOUS
  <2>2. PICK saved \in Row, fields \in SUBSET FieldNames :
           /\ Save(r, u, saved, fields, Idle) /\ u \in accounts
           /\ fields = IF Moves(r) THEN {"code", "tel"} ELSE {"code"}
           /\ saved.tel = (IF Moves(r) THEN req[r].arg ELSE user[u].tel) /\ saved.former = user[u].former
           /\ saved.ref = user[u].ref /\ saved.email = user[u].email /\ saved.verified = user[u].verified
           /\ saved.cust = user[u].cust /\ saved.cards = user[u].cards
    BY <1>1, <1>6, <2>1, GiveNumberIs
  <2>3. user' = [user EXCEPT ![u] = saved] /\ Served(r, Idle, Of(fields \cup {"row"}, u)) /\ u \in Users
    BY <1>1, <2>2 DEF Save, TypeOK
  <2>4. CASE q = r
    BY <1>3, <2>3, <2>4, ServedSelf DEF Idle
  <2>5. CASE q # r
    <3>1. Told(q, Of(fields \cup {"row"}, u))
      BY <1>1, <2>3, <2>5, ServedOthers
    <3>2. "tel" \in fields \/ saved.tel = user[u].tel
      BY <2>2
    <3> QED BY <1>1, <2>2, <2>3, <3>1, <3>2, ToldOfNumber
  <2> QED BY <2>4, <2>5
<1>7. ASSUME NEW r \in Requests, NumberIsTaken(r) PROVE \A q \in Requests : TelKnown(q)'
  <2>1. /\ req'[r] = Idle /\ \A q \in Requests : q # r => req'[q] = req[q]
    BY <1>1, <1>7, OneMoves, IdleOK DEF NumberIsTaken
  <2> QED BY <1>2, <1>3, <1>7, <2>1 DEF NumberIsTaken, tables, Idle
<1>8. ASSUME NEW r \in Requests, NEW u \in Users, NEW t \in Numbers, UpdateTelephone(r, u, t)
      PROVE  \A q \in Requests : TelKnown(q)'
  <2>1. Begin(r, "update", u, t, {"tel"}) /\ UNCHANGED user
    BY <1>8 DEF UpdateTelephone, tables
  <2>2. /\ Begun(req'[r], "update", u, t, {"tel"}) /\ \A q \in Requests : q # r => req'[q] = req[q]
    BY <1>1, <2>1, Begins DEF Args, Kinds, FieldNames
  <2>3. TelKnown(r)'
    BY <2>1, <2>2 DEF TelKnown, Begun, Of
  <2> QED BY <1>2, <2>1, <2>2, <2>3
<1> QED BY <1>4, <1>5, <1>6, <1>7, <1>8 DEF TelStep

LEMMA TelStaysKnownAll ==
  ASSUME BaseInv, [Next]_accountVars
  PROVE  \A q \in Requests : TelKnown(q)'
<1>1. CASE UNCHANGED accountVars \/ CodeStep \/ LoginStep \/ MailStep \/ CardStep
  <2>1. NumbersStay /\ Avoids(TelAts)
    BY <1>1, TelElsewhere
  <2>2. ASSUME NEW q \in Requests PROVE TelKnown(q)'
    <3>1. CASE Passed(q)
      BY <2>1, <3>1, TelStaysKnown DEF BaseInv, Known
    <3>2. CASE req'[q].at \notin TelAts
      BY <3>2 DEF TelKnown
    <3> QED BY <2>1, <3>1, <3>2 DEF Avoids
  <2> QED BY <2>2
<1>2. CASE TelStep
  BY <1>2, TelKnownStep
<1>3. CASE Crash
  BY <1>3, CrashLeaves DEF BaseInv, TelKnown, Idle, TelAts
<1> QED BY <1>1, <1>2, <1>3, StepsAreOfOneKind


LEMMA MailStaysKnown ==
  ASSUME AccountsOK, NEW q \in Requests, MailKnown(q), Passed(q), SameMail
  PROVE  MailKnown(q)'
<1>1. req[q].at \in MailAts => req[q].user \in Users
  BY ServedUser DEF MailAts
<1> QED BY <1>1 DEF MailKnown, Passed, SameMail

LEMMA ToldOfAddress ==
  ASSUME AccountsOK, NEW q \in Requests, MailKnown(q), NEW u \in Users, NEW saved \in Row,
         user' = [user EXCEPT ![u] = saved], Told(q, Of({"mail"} \cup {"row"}, u))
  PROVE  MailKnown(q)'
<1>1. req[q].at \in MailAts => req[q].user \in Users
  BY ServedUser DEF MailAts
<1>2. \A v \in Users : user'[v] = IF v = u THEN saved ELSE user[v]
  BY RowWritten DEF AccountsOK
<1>3. <<"mail", u>> \in Of({"mail"} \cup {"row"}, u)
  BY DEF Of
<1> QED BY <1>1, <1>2, <1>3 DEF MailKnown, Told

\* A verified address is proved, or its user is excused.
AddressProved(u) == user[u].verified => <<u, user[u].email>> \in proved \/ <<"mail", u>> \in excuse

LEMMA AddressStaysProved ==
  ASSUME NEW u, AddressProved(u), user'[u].email = user[u].email, user'[u].verified = user[u].verified,
         proved \subseteq proved', excuse \subseteq excuse'
  PROVE  AddressProved(u)'
  BY DEF AddressProved

\* A row that is saved as verified had that address proved, or is as it was.
RowProved(r, u, saved) ==
  req[r].copy.email = user[u].email /\ req[r].copy.verified = user[u].verified /\ saved.verified
    => <<u, saved.email>> \in proved' \/ (AddressProved(u) /\ saved.email = user[u].email /\ user[u].verified)

\* An address, or that it is verified, is written by a request that has the row's in memory.
LEMMA AddressIsSaved ==
  ASSUME AccountsOK, NEW r \in Requests, MailKnown(r), NEW u \in Users, u = req[r].user, NEW saved \in Row,
         Save(r, u, saved, {"mail"}, Idle), req[r].at \in MailAts, proved \subseteq proved',
         \A v \in Users : AddressProved(v), RowProved(r, u, saved)
  PROVE  \A v \in Users : AddressProved(v)'
<1>1. \A v \in Users : user'[v] = IF v = u THEN saved ELSE user[v]
  BY RowWritten DEF Save, AccountsOK
<1>2. excuse' = IF req[r].stale = {} THEN excuse ELSE excuse \cup Of({"mail"}, u)
  BY DEF Save
<1>3. ASSUME NEW v \in Users, v # u PROVE AddressProved(v)'
  BY <1>1, <1>2, <1>3 DEF AddressProved
<1>4. CASE req[r].stale # {}
  <2>1. <<"mail", u>> \in excuse'
    BY <1>2, <1>4 DEF Of
  <2> QED BY <1>3, <2>1 DEF AddressProved
<1>5. CASE req[r].stale = {}
  <2>1. req[r].copy.email = user[u].email /\ req[r].copy.verified = user[u].verified
    BY <1>5 DEF MailKnown
  <2>2. user'[u] = saved /\ excuse' = excuse
    BY <1>1, <1>2, <1>5
  <2>3. AddressProved(u)'
    BY <2>1, <2>2 DEF AddressProved, RowProved
  <2> QED BY <1>3, <2>3
<1> QED BY <1>4, <1>5

LEMMA MailKnownStep ==
  ASSUME BaseInv, MailStep, \A v \in Users : AddressProved(v)
  PROVE  (\A q \in Requests : MailKnown(q)') /\ \A v \in Users : AddressProved(v)'
<1>1. AccountsOK /\ TypeOK /\ \A q \in Requests : MailKnown(q)
  BY DEF BaseInv, Known, AccountsOK
<1>2. ASSUME NEW q \in Requests, req'[q] = req[q], UNCHANGED user PROVE MailKnown(q)'
  BY <1>1, <1>2 DEF MailKnown
<1>3. ASSUME NEW q \in Requests, req'[q].at = "idle" PROVE MailKnown(q)'
  BY <1>3 DEF MailKnown, MailAts
<1>4. ASSUME UNCHANGED <<user, proved, excuse>> PROVE \A v \in Users : AddressProved(v)'
  BY <1>4 DEF AddressProved
<1>5. ASSUME NEW u \in Users, SendLink(u)
      PROVE  (\A q \in Requests : MailKnown(q)') /\ \A v \in Users : AddressProved(v)'
  BY <1>2, <1>4, <1>5 DEF SendLink, tables, history
<1>6. ASSUME NEW r \in Requests, NEW u \in Users, NEW saved \in Row, Save(r, u, saved, {"mail"}, Idle)
      PROVE  \A q \in Requests : MailKnown(q)'
  <2>1. Served(r, Idle, Of({"mail"} \cup {"row"}, u)) /\ user' = [user EXCEPT ![u] = saved]
    BY <1>6 DEF Save
  <2>2. \A q \in Requests : q # r => Told(q, Of({"mail"} \cup {"row"}, u))
    BY <1>1, <2>1, ServedOthers
  <2>3. \A q \in Requests : q # r => MailKnown(q)'
    BY <1>1, <2>1, <2>2, ToldOfAddress
  <2>4. MailKnown(r)'
    BY <1>3, <2>1, ServedSelf DEF Idle
  <2> QED BY <2>3, <2>4
<1>7. ASSUME NEW r \in Requests, SaveEmail(r)
      PROVE  (\A q \in Requests : MailKnown(q)') /\ \A v \in Users : AddressProved(v)'
  <2>1. PICK u : u = req[r].user
    OBVIOUS
  <2>2. PICK saved \in Row :
           /\ Save(r, u, saved, {"mail"}, Idle) /\ u \in accounts
           /\ saved.email = (IF req[r].arg # req[r].copy.email THEN req[r].arg ELSE user[u].email)
           /\ saved.verified = Unverified(req[r].copy, req[r].arg, user[u].verified)
           /\ saved.ref = user[u].ref /\ saved.tel = user[u].tel /\ saved.former = user[u].former
           /\ saved.cust = user[u].cust /\ saved.cards = user[u].cards
    BY <1>1, <1>7, <2>1, SaveEmailIs
  <2>3. u \in Users /\ req[r].at \in MailAts /\ proved' = proved /\ user[u] \in Row
    BY <1>1, <1>7, <2>2 DEF SaveEmail, TypeOK, MailAts
  <2>4. RowProved(r, u, saved)
    BY <2>2, <2>3 DEF Unverified, Row, RowProved
  <2>5. \A v \in Users : AddressProved(v)'
    BY <1>1, <2>1, <2>2, <2>3, <2>4, AddressIsSaved
  <2> QED BY <1>6, <2>2, <2>3, <2>5
<1>8. ASSUME NEW r \in Requests, SaveVerified(r)
      PROVE  (\A q \in Requests : MailKnown(q)') /\ \A v \in Users : AddressProved(v)'
  <2>1. PICK u : u = req[r].user
    OBVIOUS
  <2>2. PICK saved \in Row :
           /\ Save(r, u, saved, {"mail"}, Idle) /\ u \in accounts
           /\ saved.email = user[u].email /\ saved.verified
           /\ saved.ref = user[u].ref /\ saved.tel = user[u].tel /\ saved.former = user[u].former
           /\ saved.cust = user[u].cust /\ saved.cards = user[u].cards
    BY <1>1, <1>8, <2>1, SaveVerifiedIs
  <2>3. u \in Users /\ req[r].at = "confirm" /\ proved' = proved \cup {<<u, req[r].arg>>}
    BY <1>1, <1>8, <2>1, <2>2 DEF SaveVerified, TypeOK
  <2>4. RowProved(r, u, saved)
    BY <1>1, <2>2, <2>3 DEF MailKnown, MailAts, RowProved
  <2>5. \A v \in Users : AddressProved(v)'
    <3>1. req[r].at \in MailAts /\ proved \subseteq proved' /\ MailKnown(r)
      BY <1>1, <2>3 DEF MailAts
    <3> QED BY <1>1, <2>1, <2>2, <2>3, <2>4, <3>1, AddressIsSaved
  <2> QED BY <1>6, <2>2, <2>3, <2>5
<1>9. ASSUME NEW r \in Requests, NEW u \in Users, NEW e \in Emails, PutUser(r, u, e)
      PROVE  (\A q \in Requests : MailKnown(q)') /\ \A v \in Users : AddressProved(v)'
  <2>1. Begin(r, "put", u, e, {"mail"}) /\ UNCHANGED <<user, proved, excuse>>
    BY <1>9 DEF PutUser, tables, history
  <2>2. /\ Begun(req'[r], "put", u, e, {"mail"}) /\ \A q \in Requests : q # r => req'[q] = req[q]
    BY <1>1, <2>1, Begins DEF Args, Kinds, FieldNames
  <2>3. MailKnown(r)'
    BY <2>1, <2>2 DEF MailKnown, Begun, Of
  <2> QED BY <1>2, <1>4, <2>1, <2>2, <2>3
<1>10. ASSUME NEW r \in Requests, NEW u \in Users, NEW e \in Emails, FollowLink(r, u, e)
      PROVE  (\A q \in Requests : MailKnown(q)') /\ \A v \in Users : AddressProved(v)'
  <2>1. Begin(r, "confirm", u, e, {"mail"}) /\ UNCHANGED <<user, proved, excuse>> /\ user[u].email = e
    BY <1>10 DEF FollowLink, LinkFits, tables, history
  <2>2. /\ Begun(req'[r], "confirm", u, e, {"mail"}) /\ \A q \in Requests : q # r => req'[q] = req[q]
    BY <1>1, <2>1, Begins DEF Args, Kinds, FieldNames
  <2>3. MailKnown(r)'
    BY <2>1, <2>2 DEF MailKnown, Begun, Of
  <2> QED BY <1>2, <1>4, <2>1, <2>2, <2>3
<1> QED BY <1>5, <1>7, <1>8, <1>9, <1>10 DEF MailStep

LEMMA MailStaysKnownAll ==
  ASSUME BaseInv, [Next]_accountVars, \A v \in Users : AddressProved(v)
  PROVE  (\A q \in Requests : MailKnown(q)') /\ \A v \in Users : AddressProved(v)'
<1>1. CASE UNCHANGED accountVars \/ CodeStep \/ LoginStep \/ TelStep \/ CardStep
  <2>1. SameMail /\ Avoids(MailAts) /\ proved' = proved /\ excuse \subseteq excuse'
    BY <1>1, MailElsewhere
  <2>2. ASSUME NEW q \in Requests PROVE MailKnown(q)'
    <3>1. CASE Passed(q)
      BY <2>1, <3>1, MailStaysKnown DEF BaseInv, Known
    <3>2. CASE req'[q].at \notin MailAts
      BY <3>2 DEF MailKnown
    <3> QED BY <2>1, <3>1, <3>2 DEF Avoids
  <2>3. ASSUME NEW v \in Users PROVE AddressProved(v)'
    BY <2>1, AddressStaysProved DEF SameMail
  <2> QED BY <2>2, <2>3
<1>2. CASE MailStep
  BY <1>2, MailKnownStep
<1>3. CASE Crash
  <2>1. \A v \in Users : AddressProved(v)'
    BY <1>3, CrashLeaves, AddressStaysProved DEF BaseInv, tables
  <2> QED BY <1>3, <2>1, CrashLeaves DEF BaseInv, MailKnown, Idle, MailAts
<1> QED BY <1>1, <1>2, <1>3, StepsAreOfOneKind


(***************************************************************************)
(* Referral codes.                                                         *)
(***************************************************************************)
\* A log-in that was told of nothing knows whether its user has a referral code.
RefKnown(r) ==
  req[r].at \in {"verify", "generating"} =>
    /\ <<"ref", req[r].user>> \in req[r].read
    /\ <<"ref", req[r].user>> \notin req[r].stale => req[r].copy.ref = user[req[r].user].ref
    /\ req[r].at = "generating" => ~req[r].copy.ref

OneCode(u) == promos[u] = (IF user[u].ref THEN 1 ELSE 0) \/ <<"ref", u>> \in excuse

RefInv ==
  /\ promos \in [Users -> Nat]
  /\ \A r \in Requests : RefKnown(r)
  /\ \A u \in Users : OneCode(u)

LEMMA RefStaysKnown ==
  ASSUME AccountsOK, NEW q \in Requests, RefKnown(q), Passed(q), SameRefs
  PROVE  RefKnown(q)'
<1>1. req[q].at \in {"verify", "generating"} => req[q].user \in Users
  BY ServedUser
<1> QED BY <1>1 DEF RefKnown, Passed, SameRefs

LEMMA OneCodeStays ==
  ASSUME NEW u, OneCode(u), promos'[u] = promos[u], user'[u].ref = user[u].ref, excuse \subseteq excuse'
  PROVE  OneCode(u)'
  BY DEF OneCode

\* Nothing is done to the codes, and no request but q comes to look at one.
LEMMA RefInvStays ==
  ASSUME AccountsOK, RefInv, SameRefs, promos' = promos, excuse \subseteq excuse',
         \A q \in Requests : Passed(q) \/ RefKnown(q)'
  PROVE  RefInv'
<1>1. \A q \in Requests : RefKnown(q)'
  BY RefStaysKnown DEF RefInv
<1>2. \A u \in Users : OneCode(u)'
  BY OneCodeStays DEF RefInv, SameRefs
<1> QED BY <1>1, <1>2 DEF RefInv

LEMMA RefCodeCommitKeeps ==
  ASSUME AccountsOK, RefInv, NEW r \in Requests, RefCodeCommit(r)
  PROVE  RefInv'
<1>1. PICK u : u = req[r].user
  OBVIOUS
<1>2. u \in Users /\ req[r].at = "generating"
  BY <1>1, ServedUser DEF RefCodeCommit
<1>3. PICK saved \in Row, next \in Request :
         /\ Save(r, u, saved, {"ref"}, next)
         /\ saved.ref /\ saved.tel = user[u].tel /\ saved.former = user[u].former
         /\ saved.email = user[u].email /\ saved.verified = user[u].verified
         /\ saved.cust = user[u].cust /\ saved.cards = user[u].cards
         /\ next.at = "login" /\ next.user = u
  BY <1>1, RefCodeCommitIs
<1>4. /\ \A v \in Users : user'[v] = IF v = u THEN saved ELSE user[v]
      /\ Served(r, next, Of({"ref"} \cup {"row"}, u))
      /\ excuse' = IF req[r].stale = {} THEN excuse ELSE excuse \cup Of({"ref"}, u)
  BY <1>2, <1>3, RowWritten DEF Save, AccountsOK
<1>5. promos \in [Users -> Nat] /\ promos' = [promos EXCEPT ![u] = @ + 1]
  BY <1>1 DEF RefCodeCommit, RefInv
<1>6. ASSUME NEW q \in Requests PROVE RefKnown(q)'
  <2>1. CASE q = r
    BY <1>3, <1>4, <2>1, ServedSelf DEF RefKnown
  <2>2. CASE q # r
    <3>1. Told(q, Of({"ref"} \cup {"row"}, u)) /\ RefKnown(q)
      BY <1>4, <2>2, ServedOthers DEF AccountsOK, RefInv
    <3>2. req[q].at \in {"verify", "generating"} => req[q].user \in Users
      BY ServedUser
    <3>3. <<"ref", u>> \in Of({"ref"} \cup {"row"}, u)
      BY DEF Of
    <3> QED BY <1>4, <3>1, <3>2, <3>3 DEF RefKnown, Told
  <2> QED BY <2>1, <2>2
<1>7. ASSUME NEW v \in Users, v # u PROVE OneCode(v)'
  <2>1. promos'[v] = promos[v] /\ user'[v] = user[v] /\ excuse \subseteq excuse'
    BY <1>4, <1>5, <1>7
  <2> QED BY <2>1, OneCodeStays DEF RefInv
<1>8. OneCode(u)'
  <2>1. CASE req[r].stale = {}
    <3>1. ~user[u].ref /\ OneCode(u)
      BY <1>1, <1>2, <2>1 DEF RefInv, RefKnown
    <3>2. promos'[u] = promos[u] + 1 /\ user'[u].ref /\ excuse' = excuse
      BY <1>2, <1>3, <1>4, <1>5, <2>1
    <3> QED BY <3>1, <3>2 DEF OneCode
  <2>2. CASE req[r].stale # {}
    <3>1. <<"ref", u>> \in excuse'
      BY <1>4, <2>2 DEF Of
    <3> QED BY <3>1 DEF OneCode
  <2> QED BY <2>1, <2>2
<1>9. promos' \in [Users -> Nat]
  BY <1>2, <1>5
<1> QED BY <1>6, <1>7, <1>8, <1>9 DEF RefInv

LEMMA LoginStepKeeps ==
  ASSUME AccountsOK, RefInv, LoginStep
  PROVE  RefInv'
<1>1. TypeOK
  BY DEF AccountsOK
<1>2. ASSUME NEW r \in Requests, RefCodeBegin(r) PROVE RefInv'
  <2>1. PICK next \in Request :
           /\ req' = [req EXCEPT ![r] = next] /\ GoesOn(next, r, "generating")
           /\ req[r].read \subseteq next.read /\ next.stale = req[r].stale /\ req[r].at = "verify" /\ ~req[r].copy.ref
    BY <1>2, RefCodeBeginIs
  <2>2. req'[r] = next /\ \A q \in Requests : q # r => req'[q] = req[q]
    BY <1>1, <2>1, OneMoves
  <2>3. UNCHANGED <<user, promos, excuse>>
    BY <1>2 DEF RefCodeBegin, tables, history
  <2>4. RefKnown(r)'
    BY <2>1, <2>2, <2>3 DEF RefKnown, RefInv, GoesOn
  <2> QED BY <2>2, <2>3, <2>4, RefInvStays, UntouchedPasses DEF SameRefs
<1>3. ASSUME NEW r \in Requests, RefCodeConflict(r) PROVE RefInv'
  <2>1. req'[r] = Idle /\ \A q \in Requests : q # r => req'[q] = req[q]
    BY <1>1, <1>3, OneMoves, IdleOK DEF RefCodeConflict, Refuse
  <2>2. UNCHANGED <<user, promos, excuse>>
    BY <1>3 DEF RefCodeConflict, Refuse, tables, history
  <2>3. RefKnown(r)'
    BY <2>1 DEF RefKnown, Idle
  <2> QED BY <2>1, <2>2, <2>3, RefInvStays, UntouchedPasses DEF SameRefs
<1>4. ASSUME NEW r \in Requests, Login(r) PROVE RefInv'
  <2>1. PICK u \in accounts : u = req[r].user /\ u \in Users /\ user[u] \in Row
    BY <1>4, ServedUser DEF Login
  <2>2. PICK saved : saved = [user[u] EXCEPT !.code = FALSE]
    OBVIOUS
  <2>3. saved \in Row /\ saved.ref = user[u].ref
    BY <2>1, <2>2, CodeChanges
  <2>4. Save(r, u, saved, {"code"}, Idle) /\ promos' = promos
    BY <1>4, <2>1, <2>2 DEF Login
  <2>5. SameRefs
    BY <2>1, <2>3, <2>4, SavesRow
  <2>6. Served(r, Idle, Of({"code"} \cup {"row"}, u)) /\ excuse \subseteq excuse'
    BY <2>4 DEF Save
  <2>7. RefKnown(r)'
    BY <2>6, ServedSelf DEF RefKnown, Idle
  <2>8. \A q \in Requests : q # r => Passed(q)
    BY <1>1, <2>6, ServedOthers, ToldPasses
  <2> QED BY <2>4, <2>5, <2>6, <2>7, <2>8, RefInvStays
<1>5. ASSUME NEW r \in Requests, NEW u \in Users, Verify(r, u) PROVE RefInv'
  <2>1. Begin(r, "verify", u, None, {"ref"}) /\ UNCHANGED <<user, promos, excuse>>
    BY <1>5 DEF Verify, tables, history
  <2>2. Begun(req'[r], "verify", u, None, {"ref"}) /\ \A q \in Requests : q # r => req'[q] = req[q]
    BY <1>1, <2>1, Begins DEF Args, Kinds, FieldNames
  <2>3. RefKnown(r)'
    BY <2>1, <2>2 DEF RefKnown, Begun, Of
  <2> QED BY <2>1, <2>2, <2>3, RefInvStays, UntouchedPasses DEF SameRefs
<1> QED BY <1>2, <1>3, <1>4, <1>5, RefCodeCommitKeeps DEF LoginStep

LEMMA RefInvStep ==
  ASSUME BaseInv, RefInv, [Next]_accountVars
  PROVE  RefInv'
<1>1. CASE UNCHANGED accountVars \/ CodeStep \/ TelStep \/ MailStep \/ CardStep
  <2>1. SameRefs /\ Avoids(LoginAts) /\ promos' = promos /\ excuse \subseteq excuse'
    BY <1>1, LoginElsewhere
  <2>2. \A q \in Requests : Passed(q) \/ RefKnown(q)'
    BY <2>1 DEF Avoids, LoginAts, RefKnown
  <2> QED BY <2>1, <2>2, RefInvStays DEF BaseInv
<1>2. CASE LoginStep
  BY <1>2, LoginStepKeeps DEF BaseInv
<1>3. CASE Crash
  <2>1. UNCHANGED <<user, promos>> /\ excuse \subseteq excuse' /\ \A q \in Requests : req'[q].at = "idle"
    BY <1>3, CrashLeaves DEF BaseInv, tables, Idle
  <2>2. \A q \in Requests : RefKnown(q)'
    BY <2>1 DEF RefKnown
  <2> QED BY <2>1, <2>2, RefInvStays DEF BaseInv, SameRefs
<1> QED BY <1>1, <1>2, <1>3, StepsAreOfOneKind


(***************************************************************************)
(* Requests that a step does not touch.                                    *)
(***************************************************************************)
\* Only a request that is idle, or at one of these points, may be the one that moves.
MovesFrom(ats) == \A q \in Requests : Passed(q) \/ req[q].at \in {"idle"} \cup ats

LEMMA ServedMoves ==
  ASSUME TypeOK, NEW r \in Requests, NEW next, NEW written, Served(r, next, written),
         NEW ats, req[r].at \in {"idle"} \cup ats
  PROVE  MovesFrom(ats)
  BY ServedOthers, ToldPasses DEF MovesFrom

LEMMA OneMovesFrom ==
  ASSUME NEW r \in Requests, \A q \in Requests : q # r => req'[q] = req[q], NEW ats, req[r].at \in {"idle"} \cup ats
  PROVE  MovesFrom(ats)
  BY UntouchedPasses DEF MovesFrom

LEMMA BeginMoves ==
  ASSUME TypeOK, NEW r \in Requests, NEW kind, NEW u, NEW arg, NEW fields, Begin(r, kind, u, arg, fields), NEW ats
  PROVE  MovesFrom(ats)
<1>1. req[r].at = "idle" /\ \A q \in Requests : q # r => req'[q] = req[q]
  BY DEF Begin, TypeOK
<1> QED BY <1>1, OneMovesFrom

LEMMA CodeMoves ==
  ASSUME TypeOK, CodeStep
  PROVE  MovesFrom(CodeAts)
<1>1. ASSUME NEW r \in Requests, SaveCode(r) PROVE MovesFrom(CodeAts)
  BY <1>1, ServedMoves DEF SaveCode, Save, CodeAts
<1>2. ASSUME NEW r \in Requests, NEW u \in Users, NEW t \in Numbers, SendCode(r, t, u) PROVE MovesFrom(CodeAts)
  BY <1>2, ServedMoves DEF SendCode
<1>3. ASSUME NEW r \in Requests, NEW u \in Users, MakeCode(r, u) PROVE MovesFrom(CodeAts)
  BY <1>3, BeginMoves DEF MakeCode
<1>4. ASSUME NEW r \in Requests, NEW u \in Users, NEW t \in Numbers, AskToMove(r, u, t) PROVE MovesFrom(CodeAts)
  BY <1>4, BeginMoves DEF AskToMove
<1> QED BY <1>1, <1>2, <1>3, <1>4 DEF CodeStep

LEMMA LoginMoves ==
  ASSUME AccountsOK, LoginStep
  PROVE  MovesFrom(LoginAts)
<1>1. ASSUME NEW r \in Requests, RefCodeBegin(r) PROVE MovesFrom(LoginAts)
  <2>1. PICK next \in Request : req' = [req EXCEPT ![r] = next] /\ req[r].at = "verify"
    BY <1>1, RefCodeBeginIs
  <2> QED BY <2>1, OneMoves, OneMovesFrom DEF AccountsOK, LoginAts
<1>2. ASSUME NEW r \in Requests, RefCodeCommit(r) PROVE MovesFrom(LoginAts)
  BY <1>2, ServedMoves DEF RefCodeCommit, Save, LoginAts, AccountsOK
<1>3. ASSUME NEW r \in Requests, RefCodeConflict(r) PROVE MovesFrom(LoginAts)
  BY <1>3, IdleOK, OneMoves, OneMovesFrom DEF RefCodeConflict, Refuse, AccountsOK, LoginAts
<1>4. ASSUME NEW r \in Requests, Login(r) PROVE MovesFrom(LoginAts)
  BY <1>4, ServedMoves DEF Login, Save, LoginAts, AccountsOK
<1>5. ASSUME NEW r \in Requests, NEW u \in Users, Verify(r, u) PROVE MovesFrom(LoginAts)
  BY <1>5, BeginMoves DEF Verify, AccountsOK
<1> QED BY <1>1, <1>2, <1>3, <1>4, <1>5 DEF LoginStep

LEMMA TelMoves ==
  ASSUME AccountsOK, TelStep
  PROVE  MovesFrom(TelAts)
<1>1. ASSUME NEW r \in Requests, FindPrevious(r) PROVE MovesFrom(TelAts)
  <2>1. PICK next \in Request : req' = [req EXCEPT ![r] = next] /\ req[r].at = "update"
    BY <1>1, FindPreviousIs
  <2> QED BY <2>1, OneMoves, OneMovesFrom DEF AccountsOK, TelAts
<1>2. ASSUME NEW r \in Requests, TakeNumber(r) PROVE MovesFrom(TelAts)
  BY <1>2, ServedMoves DEF TakeNumber, Save, TelAts, AccountsOK
<1>3. ASSUME NEW r \in Requests, GiveNumber(r) PROVE MovesFrom(TelAts)
  BY <1>3, ServedMoves DEF GiveNumber, Save, TelAts, AccountsOK
<1>4. ASSUME NEW r \in Requests, NumberIsTaken(r) PROVE MovesFrom(TelAts)
  BY <1>4, IdleOK, OneMoves, OneMovesFrom DEF NumberIsTaken, AccountsOK, TelAts
<1>5. ASSUME NEW r \in Requests, NEW u \in Users, NEW t \in Numbers, UpdateTelephone(r, u, t) PROVE MovesFrom(TelAts)
  BY <1>5, BeginMoves DEF UpdateTelephone, AccountsOK
<1> QED BY <1>1, <1>2, <1>3, <1>4, <1>5 DEF TelStep

LEMMA MailMoves ==
  ASSUME AccountsOK, MailStep
  PROVE  MovesFrom(MailAts)
<1>1. ASSUME NEW u \in Users, SendLink(u) PROVE MovesFrom(MailAts)
  BY <1>1, UntouchedPasses DEF SendLink, MovesFrom
<1>2. ASSUME NEW r \in Requests, SaveEmail(r) PROVE MovesFrom(MailAts)
  BY <1>2, ServedMoves DEF SaveEmail, Save, MailAts, AccountsOK
<1>3. ASSUME NEW r \in Requests, SaveVerified(r) PROVE MovesFrom(MailAts)
  BY <1>3, ServedMoves DEF SaveVerified, Save, MailAts, AccountsOK
<1>4. ASSUME NEW r \in Requests, NEW u \in Users, NEW e \in Emails, PutUser(r, u, e) PROVE MovesFrom(MailAts)
  BY <1>4, BeginMoves DEF PutUser, AccountsOK
<1>5. ASSUME NEW r \in Requests, NEW u \in Users, NEW e \in Emails, FollowLink(r, u, e) PROVE MovesFrom(MailAts)
  BY <1>5, BeginMoves DEF FollowLink, AccountsOK
<1> QED BY <1>1, <1>2, <1>3, <1>4, <1>5 DEF MailStep

LEMMA CardMoves ==
  ASSUME AccountsOK, CardStep
  PROVE  MovesFrom(CardAts)
<1>1. TypeOK
  BY DEF AccountsOK
<1>2. ASSUME NEW r \in Requests, NEW at \in CardAts, req[r].at = at, \A q \in Requests : q # r => req'[q] = req[q]
      PROVE  MovesFrom(CardAts)
  BY <1>2, OneMovesFrom
<1>3. ASSUME NEW u \in Users, EndBid(u) PROVE MovesFrom(CardAts)
  BY <1>3, UntouchedPasses DEF EndBid, MovesFrom
<1>4. ASSUME NEW r \in Requests,
             NewCustomer(r) \/ Attach(r) \/ CheckBids(r) \/ KeepForBid(r) \/ Detach(r) \/ Retrieve(r) \/ RetrieveFails(r)
      PROVE  MovesFrom(CardAts)
  <2>1. \A q \in Requests : q # r => req'[q] = req[q]
    BY <1>1, <1>4 DEF NewCustomer, Attach, CheckBids, KeepForBid, Refuse, Detach, Retrieve, RetrieveFails, TypeOK
  <2>2. req[r].at \in CardAts
    BY <1>4 DEF NewCustomer, Attach, CheckBids, KeepForBid, Detach, Retrieve, RetrieveFails, CardAts
  <2> QED BY <1>2, <2>1, <2>2
<1>5. ASSUME NEW r \in Requests, SaveCards(r) PROVE MovesFrom(CardAts)
  BY <1>1, <1>5, ServedMoves DEF SaveCards, Save, CardAts
<1>6. ASSUME NEW r \in Requests, PlaceBid(r) PROVE MovesFrom(CardAts)
  BY <1>1, <1>6, ServedMoves DEF PlaceBid, CardAts
<1>7. ASSUME NEW r \in Requests, NEW u \in Users, AskToBid(r, u) PROVE MovesFrom(CardAts)
  BY <1>1, <1>7, BeginMoves DEF AskToBid
<1>8. ASSUME NEW r \in Requests, NEW u \in Users, NEW kind \in CardKinds, ChangeCards(r, kind, u) PROVE MovesFrom(CardAts)
  BY <1>1, <1>8, BeginMoves DEF ChangeCards
<1> QED BY <1>3, <1>4, <1>5, <1>6, <1>7, <1>8 DEF CardStep, CardKinds


(***************************************************************************)
(* Numbers are given on.                                                   *)
(***************************************************************************)
GivenOn(t) ==
  \/ Owner(t) # {}
  \/ t \in released
  \/ \E r \in Requests : req[r].at = "give" /\ req[r].arg = t /\ req[r].other # None

\* ... and after the step.
GivenLater(t) ==
  \/ \E u \in accounts' : user'[u].tel = t
  \/ t \in released'
  \/ \E r \in Requests : req'[r].at = "give" /\ req'[r].arg = t /\ req'[r].other # None

NumInv == \A u \in accounts : user[u].tel = None => user[u].former = None \/ GivenOn(user[u].former)

\* A number is given on as long as its owner keeps it and the request that has it saves it.
LEMMA GivenOnStays ==
  ASSUME NEW t, GivenOn(t), accounts \subseteq accounts', released \subseteq released',
         \A x \in accounts : user[x].tel = t => user'[x].tel = t \/ GivenLater(t),
         \A q \in Requests : req[q].at = "give" /\ req[q].arg = t /\ req[q].other # None => Passed(q) \/ GivenLater(t)
  PROVE  GivenLater(t)
<1>1. CASE Owner(t) # {}
  BY <1>1 DEF Owner, GivenOn, GivenLater
<1>2. CASE t \in released
  BY <1>2 DEF GivenOn, GivenLater
<1>3. ASSUME NEW r \in Requests, req[r].at = "give" /\ req[r].arg = t /\ req[r].other # None PROVE GivenLater(t)
  BY <1>3 DEF GivenOn, GivenLater, Passed
<1> QED BY <1>1, <1>2, <1>3 DEF GivenOn

LEMMA NumInvStays ==
  ASSUME AccountsOK, NumInv, \A t \in Numbers : GivenOn(t) => GivenLater(t), accounts \subseteq accounts',
         \A u \in accounts' : \/ user'[u].tel # None
                              \/ u \in accounts /\ user'[u].tel = user[u].tel /\ user'[u].former = user[u].former
                              \/ GivenLater(user'[u].former)
  PROVE  NumInv'
<1>1. \A u \in accounts : user[u].former \in Numbers \cup {None}
  BY DEF AccountsOK, TypeOK, Row
<1>2. ASSUME NEW u \in accounts', user'[u].tel = None, user'[u].former # None PROVE GivenLater(user'[u].former)
  BY <1>1, <1>2 DEF NumInv
<1>3. ASSUME NEW u \in accounts', user'[u].tel = None PROVE (user[u].former = None \/ GivenOn(user[u].former))'
  BY <1>2, <1>3 DEF GivenLater, GivenOn, Owner
<1> QED BY <1>3 DEF NumInv

LEMMA NewAccountsHaveNumbers ==
  ASSUME AccountsOK, CodeStep
  PROVE  accounts \subseteq accounts' /\ \A u \in accounts' : u \in accounts \/ user'[u].tel # None
<1>1. ASSUME NEW r \in Requests, NEW u \in Users, NEW t \in Numbers, SendCode(r, t, u)
      PROVE  accounts \subseteq accounts' /\ \A v \in accounts' : v \in accounts \/ user'[v].tel # None
  <2>1. accounts' = accounts \cup {u} /\ user' = [user EXCEPT ![u] = [user[u] EXCEPT !.tel = t]]
    BY <1>1 DEF SendCode
  <2>2. user'[u].tel = t
    BY <2>1 DEF AccountsOK, TypeOK, Row
  <2>3. t # None
    BY NoneIsNothing
  <2> QED BY <2>1, <2>2, <2>3
<1>2. CASE accounts' = accounts
  BY <1>2
<1> QED BY <1>1, <1>2 DEF CodeStep, SaveCode, MakeCode, AskToMove, tables

LEMMA NumElsewhere ==
  ASSUME BaseInv, NumInv, UNCHANGED accountVars \/ CodeStep \/ LoginStep \/ MailStep \/ CardStep
  PROVE  NumInv'
<1>1. AccountsOK /\ NumbersStay /\ released' = released
  BY TelElsewhere DEF BaseInv
<1>2. accounts \subseteq accounts' /\ \A u \in accounts' : u \in accounts \/ user'[u].tel # None
  <2>1. CASE CodeStep
    BY <1>1, <2>1, NewAccountsHaveNumbers
  <2>2. CASE UNCHANGED accountVars
    BY <2>2 DEF accountVars, tables
  <2>3. CASE LoginStep
    BY <1>1, <2>3, LoginStepLeaves DEF LoginLeaves
  <2>4. CASE MailStep
    BY <1>1, <2>4, MailStepLeaves DEF MailLeaves, BaseInv, Known
  <2>5. CASE CardStep
    BY <1>1, <2>5, CardStepLeaves DEF CardLeaves, BaseInv, Known
  <2> QED BY <2>1, <2>2, <2>3, <2>4, <2>5
<1>3. \A q \in Requests : req[q].at = "give" => Passed(q)
  <2>1. CASE UNCHANGED accountVars
    BY <2>1, UntouchedPasses DEF accountVars
  <2>2. CASE CodeStep
    BY <1>1, <2>2, CodeMoves DEF MovesFrom, CodeAts, AccountsOK
  <2>3. CASE LoginStep
    BY <1>1, <2>3, LoginMoves DEF MovesFrom, LoginAts
  <2>4. CASE MailStep
    BY <1>1, <2>4, MailMoves DEF MovesFrom, MailAts
  <2>5. CASE CardStep
    BY <1>1, <2>5, CardMoves DEF MovesFrom, CardAts
  <2> QED BY <2>1, <2>2, <2>3, <2>4, <2>5
<1>4. \A t \in Numbers : GivenOn(t) => GivenLater(t)
  BY <1>1, <1>2, <1>3, GivenOnStays DEF NumbersStay
<1> QED BY <1>1, <1>2, <1>4, NumInvStays DEF NumbersStay

LEMMA TakeNumberKeeps ==
  ASSUME AccountsOK, NumInv, NEW r \in Requests, TelKnown(r), TakeNumber(r)
  PROVE  NumInv'
<1>1. PICK v : v = req[r].other
  OBVIOUS
<1>2. PICK saved \in Row, next \in Request :
         /\ Save(r, v, saved, {"tel"}, next) /\ v \in Users \ {req[r].user}
         /\ saved.tel = None /\ saved.former = req[r].arg
         /\ saved.ref = user[v].ref /\ saved.email = user[v].email /\ saved.verified = user[v].verified
         /\ saved.cust = user[v].cust /\ saved.cards = user[v].cards
         /\ GoesOn(next, r, "give") /\ next.other = v /\ next.read = req[r].read /\ next.stale = req[r].stale
  BY <1>1, TakeNumberIs
<1>3. /\ accounts' = accounts /\ req[r].at = "take"
      /\ released' = released \cup ({user[v].tel} \ {None, req[r].arg})
  BY <1>1 DEF TakeNumber
<1>4. \A w \in Users : user'[w] = IF w = v THEN saved ELSE user[w]
  BY <1>2, RowWritten DEF Save, AccountsOK
<1>5. req'[r] = next /\ \A q \in Requests : q # r => Passed(q)
  BY <1>2, ServedOthers, ServedSelf, ToldPasses DEF Save, AccountsOK
<1>6. v # None
  BY <1>2, NoneIsNothing
<1>7. GivenLater(req[r].arg)
  BY <1>2, <1>5, <1>6 DEF GivenLater, GoesOn
<1>8. ASSUME NEW t \in Numbers, GivenOn(t) PROVE GivenLater(t)
  <2>1. t # None
    BY NoneIsNothing
  <2>2. user[v].tel = t => GivenLater(t)
    BY <1>3, <1>7, <2>1 DEF GivenLater
  <2>3. \A x \in accounts : user[x].tel = t => user'[x].tel = t \/ GivenLater(t)
    BY <1>4, <2>2 DEF AccountsOK, TypeOK
  <2>4. \A q \in Requests : req[q].at = "give" => Passed(q)
    BY <1>3, <1>5
  <2> QED BY <1>3, <1>8, <2>3, <2>4, GivenOnStays
<1>9. \A w \in accounts : \/ user'[w].tel = user[w].tel /\ user'[w].former = user[w].former
                          \/ GivenLater(user'[w].former)
  BY <1>2, <1>4, <1>7 DEF AccountsOK, TypeOK
<1> QED BY <1>3, <1>8, <1>9, NumInvStays

LEMMA GiveNumberKeeps ==
  ASSUME AccountsOK, NumInv, NEW r \in Requests, TelKnown(r), GiveNumber(r)
  PROVE  NumInv'
<1>1. PICK u : u = req[r].user
  OBVIOUS
<1>2. PICK saved \in Row, fields \in SUBSET FieldNames :
         /\ Save(r, u, saved, fields, Idle) /\ u \in accounts
         /\ fields = IF Moves(r) THEN {"code", "tel"} ELSE {"code"}
         /\ saved.tel = (IF Moves(r) THEN req[r].arg ELSE user[u].tel) /\ saved.former = user[u].former
         /\ saved.ref = user[u].ref /\ saved.email = user[u].email /\ saved.verified = user[u].verified
         /\ saved.cust = user[u].cust /\ saved.cards = user[u].cards
  BY <1>1, GiveNumberIs
<1>3. /\ accounts' = accounts /\ req[r].at = "give"
      /\ released' = released \cup
           IF Moves(r) THEN {user[u].tel} \ {None, req[r].arg}
           ELSE IF <<"tel", u>> \in req[r].stale THEN {req[r].arg} \ {user[u].tel} ELSE {}
  BY <1>1 DEF GiveNumber, Moves
<1>4. \A w \in Users : user'[w] = IF w = u THEN saved ELSE user[w]
  BY <1>2, RowWritten DEF Save, AccountsOK, TypeOK
<1>5. \A q \in Requests : q # r => Passed(q)
  BY <1>2, ServedOthers, ToldPasses DEF Save, AccountsOK
<1>6. u \in Users /\ accounts \subseteq Users /\ req[r].arg \in Numbers
  BY <1>2, <1>3 DEF AccountsOK, TypeOK, TelKnown, TelAts
<1>7. GivenLater(req[r].arg)
  <2>1. CASE Moves(r) \/ user[u].tel = req[r].arg
    <3>1. user'[u].tel = req[r].arg
      BY <1>2, <1>4, <1>6, <2>1
    <3> QED BY <1>2, <1>3, <3>1 DEF GivenLater
  <2>2. CASE ~Moves(r) /\ user[u].tel # req[r].arg
    <3>1. <<"tel", u>> \in req[r].stale
      BY <1>1, <1>3, <2>2 DEF TelKnown, TelAts, Moves
    <3> QED BY <1>3, <2>2, <3>1 DEF GivenLater
  <2> QED BY <2>1, <2>2
<1>8. ASSUME NEW t \in Numbers, GivenOn(t) PROVE GivenLater(t)
  <2>1. t # None
    BY NoneIsNothing
  <2>2. user[u].tel = t => user'[u].tel = t \/ GivenLater(t)
    <3>1. CASE Moves(r)
      BY <1>3, <1>7, <2>1, <3>1 DEF GivenLater
    <3>2. CASE ~Moves(r)
      BY <1>2, <1>4, <1>6, <3>2
    <3> QED BY <3>1, <3>2
  <2>3. \A x \in accounts : user[x].tel = t => user'[x].tel = t \/ GivenLater(t)
    BY <1>4, <1>6, <2>2
  <2>4. \A q \in Requests : req[q].arg = t => Passed(q) \/ GivenLater(t)
    BY <1>5, <1>7
  <2>5. released \subseteq released'
    BY <1>3
  <2> QED BY <1>3, <1>8, <2>3, <2>4, <2>5, GivenOnStays
<1>9. \A w \in accounts : user'[w].tel # None \/ (user'[w].tel = user[w].tel /\ user'[w].former = user[w].former)
  <2>1. req[r].arg # None
    BY <1>6, NoneIsNothing
  <2> QED BY <1>2, <1>4, <1>6, <2>1
<1> QED BY <1>3, <1>8, <1>9, NumInvStays

\* Requests stop; the numbers they had taken are released.
LEMMA DroppedKeeps ==
  ASSUME AccountsOK, NumInv, NEW stopped \in SUBSET Requests, released' = released \cup Dropped(stopped),
         UNCHANGED tables, \A q \in Requests : Passed(q) \/ q \in stopped
  PROVE  NumInv'
<1>1. UNCHANGED <<accounts, user>>
  BY DEF tables
<1>2. ASSUME NEW t \in Numbers, GivenOn(t) PROVE GivenLater(t)
  <2>1. ASSUME NEW q \in stopped, req[q].at = "give" /\ req[q].arg = t /\ req[q].other # None PROVE t \in released'
    BY <2>1 DEF Dropped
  <2>2. \A q \in Requests : req[q].at = "give" /\ req[q].arg = t /\ req[q].other # None => Passed(q) \/ GivenLater(t)
    BY <2>1 DEF GivenLater
  <2>3. released \subseteq released'
    OBVIOUS
  <2> QED BY <1>1, <1>2, <2>2, <2>3, GivenOnStays
<1> QED BY <1>1, <1>2, NumInvStays

LEMMA NumInvStep ==
  ASSUME BaseInv, NumInv, [Next]_accountVars
  PROVE  NumInv'
<1>1. AccountsOK /\ TypeOK /\ \A q \in Requests : TelKnown(q)
  BY DEF BaseInv, Known, AccountsOK
<1>2. ASSUME UNCHANGED <<tables, released>>, \A q \in Requests : req[q].at = "give" => Passed(q) PROVE NumInv'
  <2>1. \A t \in Numbers : GivenOn(t) => GivenLater(t)
    BY <1>2, GivenOnStays DEF tables
  <2> QED BY <1>1, <1>2, <2>1, NumInvStays DEF tables
<1>3. ASSUME NEW r \in Requests, FindPrevious(r) PROVE NumInv'
  <2>1. PICK next \in Request : req' = [req EXCEPT ![r] = next] /\ req[r].at = "update"
    BY <1>1, <1>3, FindPreviousIs
  <2>2. \A q \in Requests : req[q].at = "give" => Passed(q)
    BY <1>1, <2>1, OneMoves, UntouchedPasses
  <2> QED BY <1>2, <1>3, <2>2 DEF FindPrevious, history
<1>4. ASSUME NEW r \in Requests, NumberIsTaken(r) PROVE NumInv'
  <2>1. \A q \in Requests : q # r => Passed(q)
    BY <1>1, <1>4, OneMoves, IdleOK, UntouchedPasses DEF NumberIsTaken
  <2>2. released' = released \cup Dropped({r}) /\ UNCHANGED tables
    BY <1>4 DEF NumberIsTaken
  <2> QED BY <1>1, <2>1, <2>2, DroppedKeeps
<1>5. ASSUME NEW r \in Requests, NEW u \in Users, NEW t \in Numbers, UpdateTelephone(r, u, t) PROVE NumInv'
  <2>1. Begin(r, "update", u, t, {"tel"})
    BY <1>5 DEF UpdateTelephone
  <2>2. req[r].at = "idle" /\ \A q \in Requests : q # r => Passed(q)
    BY <1>1, <2>1, UntouchedPasses DEF Begin, TypeOK
  <2> QED BY <1>2, <1>5, <2>2 DEF UpdateTelephone, history
<1>6. CASE TelStep
  BY <1>1, <1>3, <1>4, <1>5, <1>6, TakeNumberKeeps, GiveNumberKeeps DEF TelStep
<1>7. CASE Crash
  <2>1. released' = released \cup Dropped(Requests) /\ UNCHANGED tables
    BY <1>1, <1>7, CrashLeaves
  <2> QED BY <1>1, <2>1, DroppedKeeps
<1> QED BY <1>6, <1>7, NumElsewhere, StepsAreOfOneKind


(***************************************************************************)
(* Saved cards.                                                            *)
(***************************************************************************)
Changing(r) == req[r].at \in CardKinds \cup DirtyAts
Dirty(r)    == req[r].at \in DirtyAts   \* Stripe may hold other cards than are saved
Excused(u)  == <<"cards", u>> \in excuse

\* Nobody else is changing the cards of r's user, and nobody has since r read them.
Undisturbed(r) ==
  /\ req[r].stale = {}
  /\ ~Excused(req[r].user)
  /\ \A q \in Requests \ {r} : Dirty(q) => req[q].user # req[r].user

HeldOf(u) == IF user[u].cust = None THEN {} ELSE held[user[u].cust]

\* Between changes, what is saved is what Stripe holds, and a bid has a card behind it.
Settled(u) ==
  /\ user[u].cust = None => user[u].cards = {}
  /\ (\A q \in Requests : Dirty(q) => req[q].user # u) /\ ~Excused(u)
       => user[u].cards = HeldOf(u) /\ (u \in bids => user[u].cards # {})

\* What a request that changes the cards knows of the row.
CardRead(r) ==
  Changing(r) =>
    /\ req[r].kind \in CardKinds /\ (req[r].at \in CardKinds => req[r].at = req[r].kind)
    /\ <<"cards", req[r].user>> \in req[r].read
    /\ req[r].stale = {}
         => /\ req[r].copy.cards = user[req[r].user].cards
            /\ req[r].copy.cust = user[req[r].user].cust \/ (req[r].kind = "add" /\ user[req[r].user].cust = None)
    /\ req[r].kind = "delete" => req[r].arg \in req[r].copy.cards
    /\ req[r].at \in {"add", "replace"} /\ Undisturbed(r) => req[r].arg \notin req[r].copy.cards
    /\ req[r].kind = "delete" /\ Dirty(r) => <<"bid", req[r].user>> \in req[r].read

\* A card must be left at Stripe when r is done.
Must(r) == IF req[r].kind = "delete" THEN req[r].user \in bids ELSE req[r].copy.cards # {}
Left(r) == IF req[r].at = "detach" THEN \A k \in Removes(r) : held[req[r].copy.cust] \ {k} # {}
                                   ELSE held[req[r].copy.cust] # {}

\* What it will leave behind.
CardPlan(r) ==
  Dirty(r) /\ Undisturbed(r) =>
    /\ req[r].user \in bids => req[r].copy.cards # {}
    /\ Must(r) => Left(r)
    /\ req[r].at = "keep" => req[r].seen = held[req[r].copy.cust]

\* A bid is placed on a card that was saved.
BidRead(r) ==
  req[r].at = "bid" =>
    /\ <<"cards", req[r].user>> \in req[r].read
    /\ req[r].stale = {} => user[req[r].user].cards # {}

RequestOK(r) == CardRead(r) /\ CardPlan(r) /\ BidRead(r)

\* No two users have the same customer at Stripe.
Claimed(c, u) ==
  \/ u \in Users /\ user[u].cust = c
  \/ \E r \in Requests : Changing(r) /\ req[r].copy.cust = c /\ req[r].user = u

Apart ==
  \A c \in Customers : \A u, v : Claimed(c, u) => c \in customers /\ (Claimed(c, v) => u = v)

CardInv ==
  /\ \A u \in Users : Settled(u)
  /\ \A r \in Requests : RequestOK(r)
  /\ Apart

LEMMA OtherRequestsOK ==
  ASSUME NEW r, req[r].at \notin CardAts
  PROVE  RequestOK(r)
  BY DEF RequestOK, CardRead, CardPlan, BidRead, Changing, Dirty, CardAts, CardKinds, DirtyAts

LEMMA OtherRequestsLater ==
  ASSUME NEW r, req'[r].at \notin CardAts
  PROVE  RequestOK(r)'
  BY DEF RequestOK, CardRead, CardPlan, BidRead, Changing, Dirty, CardAts, CardKinds, DirtyAts

\* Customers are handed on, never shared.
LEMMA ApartStays ==
  ASSUME Apart, customers \subseteq customers',
         \A c \in Customers : \A u : Claimed(c, u)' => Claimed(c, u)
  PROVE  Apart'
  BY DEF Apart

LEMMA UndisturbedBefore ==
  ASSUME NEW q \in Requests, Passed(q), excuse \subseteq excuse', Undisturbed(q)',
         \A p \in Requests \ {q} : Dirty(p) /\ req[p].user = req[q].user => Dirty(p)' /\ req'[p].user = req[p].user
  PROVE  Undisturbed(q)
  BY DEF Undisturbed, Passed, Excused

LEMMA RequestStaysOK ==
  ASSUME NEW q \in Requests, RequestOK(q), Passed(q), NEW u, u = req[q].user,
         req'[q].stale = {} => user'[u].cards = user[u].cards /\ user'[u].cust = user[u].cust,
         Undisturbed(q)' => Undisturbed(q),
         Dirty(q) /\ Undisturbed(q)'
           => /\ held'[req[q].copy.cust] = held[req[q].copy.cust]
              /\ u \in bids' => u \in bids \/ (req[q].copy.cards # {} /\ req[q].kind # "delete")
  PROVE  RequestOK(q)'
<1>1. /\ req'[q].kind = req[q].kind /\ req'[q].at = req[q].at /\ req'[q].user = u
      /\ req'[q].copy = req[q].copy /\ req'[q].arg = req[q].arg
      /\ req'[q].seen = req[q].seen /\ req'[q].read = req[q].read
      /\ req[q].stale \subseteq req'[q].stale
  BY DEF Passed
<1>2. (Changing(q)' <=> Changing(q)) /\ (Dirty(q)' <=> Dirty(q))
  BY <1>1 DEF Changing, Dirty
<1>3. CardRead(q)'
  <2>1. CardRead(q)
    BY DEF RequestOK
  <2> QED BY <1>1, <1>2, <2>1 DEF CardRead
<1>4. CardPlan(q)'
  <2>1. SUFFICES ASSUME Dirty(q), Undisturbed(q)'
                 PROVE  /\ u \in bids' => req[q].copy.cards # {}
                        /\ Must(q)' => Left(q)'
                        /\ req[q].at = "keep" => req[q].seen = held'[req[q].copy.cust]
    BY <1>1, <1>2 DEF CardPlan
  <2>2. /\ u \in bids => req[q].copy.cards # {}
        /\ Must(q) => Left(q)
        /\ req[q].at = "keep" => req[q].seen = held[req[q].copy.cust]
    BY <2>1 DEF RequestOK, CardPlan
  <2>3. Must(q)' => Must(q)
    BY <1>1, <2>1 DEF Must
  <2>4. Left(q) => Left(q)'
    BY <1>1, <2>1 DEF Left, Removes
  <2> QED BY <2>1, <2>2, <2>3, <2>4
<1>5. BidRead(q)'
  <2>1. BidRead(q)
    BY DEF RequestOK
  <2> QED BY <1>1, <2>1 DEF BidRead
<1> QED BY <1>3, <1>4, <1>5 DEF RequestOK

LEMMA SettledStays ==
  ASSUME NEW u \in Users, Settled(u), user'[u].cust = user[u].cust, user'[u].cards = user[u].cards,
         user[u].cust # None => held'[user[u].cust] = held[user[u].cust],
         u \in bids' => u \in bids, excuse \subseteq excuse',
         \A q \in Requests : Dirty(q) /\ req[q].user = u => Dirty(q)' /\ req'[q].user = u
  PROVE  Settled(u)'
<1>1. Excused(u) => Excused(u)'
  BY DEF Excused
<1>2. HeldOf(u)' = HeldOf(u)
  BY DEF HeldOf
<1>3. (\A q \in Requests : Dirty(q)' => req'[q].user # u) => \A q \in Requests : Dirty(q) => req[q].user # u
  OBVIOUS
<1> QED BY <1>1, <1>2, <1>3 DEF Settled


LEMMA CardUser ==
  ASSUME AccountsOK, NEW q \in Requests, req[q].at \in CardAts
  PROVE  req[q].user \in Users /\ req[q].user \in accounts
  BY ServedUser DEF CardAts

LEMMA DirtyIsCard == \A q : (Dirty(q) => Changing(q)) /\ (Changing(q) => req[q].at \in CardAts)
  BY DEF Dirty, Changing, DirtyAts, CardKinds, CardAts

\* Nothing is changed at Stripe or in a row, and no request comes to change it or leaves off.
LEMMA StaysClean ==
  ASSUME AccountsOK, CardInv, SameCards, held' = held, bids' \subseteq bids, excuse \subseteq excuse',
         \A q \in Requests : Passed(q) \/ (~Dirty(q) /\ RequestOK(q)'), Apart'
  PROVE  CardInv'
<1>1. ASSUME NEW q \in Requests, Dirty(q) PROVE Dirty(q)' /\ req'[q].user = req[q].user
  BY <1>1 DEF Passed, Dirty
<1>2. ASSUME NEW u \in Users PROVE Settled(u)'
  <2>1. user'[u].cust = user[u].cust /\ user'[u].cards = user[u].cards /\ Settled(u)
    BY DEF SameCards, CardInv
  <2> QED BY <1>1, <2>1, SettledStays
<1>3. ASSUME NEW q \in Requests, Passed(q) PROVE RequestOK(q)'
  <2>1. CASE req[q].at \notin CardAts
    BY <1>3, <2>1, OtherRequestsLater DEF Passed
  <2>2. CASE req[q].at \in CardAts
    <3>1. PICK u \in Users : u = req[q].user
      BY <2>2, CardUser
    <3>2. Undisturbed(q)' => Undisturbed(q)
      BY <1>1, <1>3, UndisturbedBefore
    <3>3. user'[u].cust = user[u].cust /\ user'[u].cards = user[u].cards /\ RequestOK(q)
      BY DEF SameCards, CardInv
    <3> QED BY <1>3, <3>1, <3>2, <3>3, RequestStaysOK
  <2> QED BY <2>1, <2>2
<1> QED BY <1>2, <1>3 DEF CardInv

\* A request of u moves; what is said of other users and their requests stays.
LEMMA OneOfUser ==
  ASSUME AccountsOK, Known, CardInv, NEW r \in Requests, NEW u \in Users,
         \A q \in Requests : q # r => Passed(q), req[r].at \in CardAts => req[r].user = u,
         \A v \in Users : v # u => user'[v].cust = user[v].cust /\ user'[v].cards = user[v].cards,
         bids' \subseteq bids \cup {u}, excuse \subseteq excuse',
         \A c \in Customers : held'[c] = held[c] \/ Claimed(c, u)
  PROVE  /\ \A v \in Users : v # u => Settled(v)'
         /\ \A q \in Requests : q # r /\ req[q].user # u => RequestOK(q)'
<1>1. ASSUME NEW q \in Requests, Dirty(q), req[q].user # u PROVE Dirty(q)' /\ req'[q].user = req[q].user
  <2>1. q # r
    BY <1>1, DirtyIsCard
  <2> QED BY <1>1, <2>1 DEF Passed, Dirty
<1>2. ASSUME NEW c \in Customers, NEW v, v # u, Claimed(c, v) PROVE held'[c] = held[c]
  BY <1>2 DEF CardInv, Apart
<1>3. ASSUME NEW v \in Users, v # u PROVE Settled(v)'
  <2>1. user'[v].cust = user[v].cust /\ user'[v].cards = user[v].cards /\ Settled(v)
    BY <1>3 DEF CardInv
  <2>2. v \in bids' => v \in bids
    BY <1>3
  <2>3. user[v].cust # None => held'[user[v].cust] = held[user[v].cust]
    <3>1. user[v].cust # None => user[v].cust \in Customers
      BY DEF AccountsOK, TypeOK, Row
    <3>2. Claimed(user[v].cust, v)
      BY DEF Claimed
    <3> QED BY <1>2, <1>3, <3>1, <3>2
  <2>4. \A q \in Requests : Dirty(q) /\ req[q].user = v => Dirty(q)' /\ req'[q].user = v
    BY <1>1, <1>3
  <2> QED BY <2>1, <2>2, <2>3, <2>4, SettledStays
<1>4. ASSUME NEW q \in Requests, q # r, req[q].user # u PROVE RequestOK(q)'
  <2>0. Passed(q)
    BY <1>4
  <2>1. CASE req[q].at \notin CardAts
    BY <2>0, <2>1, OtherRequestsLater DEF Passed
  <2>2. CASE req[q].at \in CardAts
    <3>1. PICK v \in Users : v = req[q].user /\ v # u
      BY <1>4, <2>2, CardUser
    <3>2. Undisturbed(q)' => Undisturbed(q)
      BY <1>1, <1>4, <2>0, UndisturbedBefore
    <3>3. user'[v].cust = user[v].cust /\ user'[v].cards = user[v].cards /\ RequestOK(q)
      BY <3>1 DEF CardInv
    <3>4. v \in bids' => v \in bids
      BY <3>1
    <3>5. ASSUME Dirty(q) PROVE held'[req[q].copy.cust] = held[req[q].copy.cust]
      <4>1. req[q].copy.cust \in Customers
        BY <3>5 DEF Known, CustKnown, Dirty, AccountsOK, TypeOK, Request, Row
      <4>2. Claimed(req[q].copy.cust, v)
        BY <3>1, <3>5, DirtyIsCard DEF Claimed
      <4> QED BY <1>2, <3>1, <4>1, <4>2
    <3> QED BY <2>0, <3>1, <3>2, <3>3, <3>4, <3>5, RequestStaysOK
  <2> QED BY <2>1, <2>2
<1> QED BY <1>3, <1>4

\* r begins to change what Stripe holds, or goes on; what is said of its user waits for it.
LEMMA BecomesDirty ==
  ASSUME AccountsOK, Known, CardInv, NEW r \in Requests, NEW u \in Users, u = req[r].user, NEW step \in DirtyAts,
         \A q \in Requests : q # r => Passed(q), Changing(r), GoesOn(req'[r], r, step),
         UNCHANGED <<user, bids, customers, excuse>>,
         \A c \in Customers : held'[c] = held[c] \/ Claimed(c, u),
         RequestOK(r)'
  PROVE  CardInv'
<1>1. /\ \A v \in Users : v # u => Settled(v)'
      /\ \A q \in Requests : q # r /\ req[q].user # u => RequestOK(q)'
  BY OneOfUser
<1>2. Dirty(r)' /\ Changing(r)' /\ req'[r].user = u /\ req'[r].copy = req[r].copy
  BY DEF GoesOn, Dirty, Changing
<1>3. Settled(u)'
  <2>1. Settled(u)
    BY DEF CardInv
  <2> QED BY <1>2, <2>1 DEF Settled
<1>4. ASSUME NEW q \in Requests, q # r, req[q].user = u PROVE RequestOK(q)'
  <2>1. Passed(q) /\ RequestOK(q)
    BY <1>4 DEF CardInv
  <2>2. ~Undisturbed(q)'
    BY <1>2, <1>4, <2>1 DEF Undisturbed, Passed
  <2> QED BY <1>4, <2>1, <2>2, RequestStaysOK
<1>5. ASSUME NEW c \in Customers, NEW v, Claimed(c, v)' PROVE Claimed(c, v)
  <2>1. ASSUME NEW q \in Requests, Changing(q)', req'[q].copy.cust = c, req'[q].user = v PROVE Claimed(c, v)
    <3>1. CASE q = r
      BY <1>2, <2>1, <3>1 DEF Claimed
    <3>2. CASE q # r
      BY <2>1, <3>2 DEF Claimed, Passed, Changing
    <3> QED BY <3>1, <3>2
  <2> QED BY <1>5, <2>1 DEF Claimed
<1>6. Apart'
  BY <1>5, ApartStays DEF CardInv
<1> QED BY <1>1, <1>3, <1>4, <1>6 DEF CardInv


\* The one that moves is as undisturbed as it was.
LEMMA MoverUndisturbed ==
  ASSUME NEW r \in Requests, req'[r].stale = req[r].stale, req'[r].user = req[r].user, excuse' = excuse,
         \A q \in Requests : q # r => Passed(q), Undisturbed(r)'
  PROVE  Undisturbed(r)
  BY DEF Undisturbed, Passed, Excused, Dirty

\* r, which is clean and undisturbed, has what is saved, and Stripe holds that.
LEMMA CleanIsSettled ==
  ASSUME CardInv, NEW r \in Requests, NEW u \in Users, u = req[r].user, Changing(r), ~Dirty(r), Undisturbed(r)
  PROVE  /\ req[r].copy.cards = user[u].cards /\ user[u].cards = HeldOf(u) /\ (u \in bids => user[u].cards # {})
         /\ req[r].copy.cust = user[u].cust \/ (req[r].kind = "add" /\ user[u].cust = None)
         /\ user[u].cust = None => user[u].cards = {}
<1>1. \A q \in Requests : Dirty(q) => req[q].user # u
  BY DEF Undisturbed
<1>2. ~Excused(u) /\ req[r].stale = {}
  BY DEF Undisturbed
<1>3. Settled(u) /\ CardRead(r)
  BY DEF CardInv, RequestOK
<1> QED BY <1>1, <1>2, <1>3 DEF Settled, CardRead

LEMMA AttachKeeps ==
  ASSUME AccountsOK, Known, CardInv, NEW r \in Requests, Attach(r)
  PROVE  CardInv'
<1>1. PICK c : c = req[r].copy.cust
  OBVIOUS
<1>2. PICK step \in {"detach", "retrieve", "resync"} :
         /\ req' = [req EXCEPT ![r] = Goto(r, step)] /\ req[r].at \in {"add", "replace"} /\ c \in Customers
         /\ step = "detach" => req[r].kind = "replace" /\ req[r].copy.cards # {}
         /\ \/ held' = [held EXCEPT ![c] = @ \cup {req[r].arg}]
            \/ step = "resync" /\ UNCHANGED held
         /\ UNCHANGED <<tables, customers, tokens, history>>
  BY <1>1, AttachIs
<1>3. /\ Goto(r, step) \in Request /\ GoesOn(Goto(r, step), r, step)
      /\ Goto(r, step).read = req[r].read /\ Goto(r, step).stale = req[r].stale
  BY GotoIs DEF AccountsOK, Steps
<1>4. /\ req'[r] = Goto(r, step) /\ \A q \in Requests : q # r => Passed(q)
  BY <1>2, <1>3, OneMoves, UntouchedPasses DEF AccountsOK
<1>5. /\ req'[r].kind = req[r].kind /\ req'[r].at = step /\ req'[r].user = req[r].user
      /\ req'[r].copy = req[r].copy /\ req'[r].arg = req[r].arg
      /\ req'[r].read = req[r].read /\ req'[r].stale = req[r].stale
  BY <1>3, <1>4 DEF GoesOn
<1>6. PICK u \in Users : u = req[r].user
  BY <1>2, CardUser DEF CardAts
<1>7. UNCHANGED <<user, bids, customers, excuse>>
  BY <1>2 DEF tables, history
<1>8. Changing(r) /\ ~Dirty(r) /\ step \in DirtyAts /\ CardRead(r)
  BY <1>2 DEF Changing, Dirty, CardKinds, DirtyAts, CardInv, RequestOK
<1>9. req[r].kind \in {"add", "replace"}
  BY <1>2, <1>8 DEF CardRead, CardKinds
<1>10. CardRead(r)'
  <2>1. step \notin CardKinds
    BY DEF CardKinds
  <2> QED BY <1>2, <1>5, <1>7, <1>8, <1>9, <2>1 DEF CardRead, CardKinds
<1>11. CardPlan(r)'
  <2>1. SUFFICES ASSUME Undisturbed(r)'
                 PROVE  /\ u \in bids => req[r].copy.cards # {}
                        /\ req[r].copy.cards # {} => Left(r)'
    BY <1>2, <1>5, <1>6, <1>7, <1>9 DEF CardPlan, Must
  <2>2. Undisturbed(r)
    BY <1>4, <1>5, <1>7, <2>1, MoverUndisturbed
  <2>3. /\ req[r].copy.cards = user[u].cards /\ user[u].cards = HeldOf(u) /\ (u \in bids => user[u].cards # {})
        /\ req[r].copy.cust = user[u].cust \/ (req[r].kind = "add" /\ user[u].cust = None)
        /\ user[u].cust = None => user[u].cards = {}
    BY <1>6, <1>8, <2>2, CleanIsSettled
  <2>4. req[r].copy.cards # {} => req[r].copy.cards = held[c]
    BY <1>1, <2>3 DEF HeldOf
  <2>5. req[r].arg \notin req[r].copy.cards
    BY <1>2, <1>8, <2>2 DEF CardRead
  <2>6. held \in [Customers -> SUBSET Cards]
    BY DEF AccountsOK, TypeOK
  <2>7. ASSUME req[r].copy.cards # {} PROVE Left(r)'
    <3>1. CASE held' = [held EXCEPT ![c] = @ \cup {req[r].arg}]
      <4>1. req[r].arg \in held'[c]
        BY <1>2, <2>6, <3>1
      <4> QED BY <1>1, <1>5, <1>9, <2>5, <4>1 DEF Left, Removes
    <3>2. CASE step = "resync" /\ UNCHANGED held
      BY <1>1, <1>5, <2>4, <2>7, <3>2 DEF Left
    <3> QED BY <1>2, <3>1, <3>2
  <2> QED BY <2>3, <2>7
<1>12. RequestOK(r)'
  BY <1>2, <1>5, <1>10, <1>11 DEF RequestOK, BidRead
<1>13. \A d \in Customers : held'[d] = held[d] \/ Claimed(d, u)
  <2>1. Claimed(c, u)
    BY <1>1, <1>6, <1>8 DEF Claimed
  <2> QED BY <1>2, <2>1 DEF AccountsOK, TypeOK
<1> QED BY <1>3, <1>4, <1>6, <1>7, <1>8, <1>12, <1>13, BecomesDirty

LEMMA CheckBidsKeeps ==
  ASSUME AccountsOK, Known, CardInv, NEW r \in Requests, CheckBids(r)
  PROVE  CardInv'
<1>1. PICK next \in Request :
         /\ req' = [req EXCEPT ![r] = next] /\ GoesOn(next, r, "detach") /\ req[r].at = "delete" /\ MayDelete(r)
         /\ next.read = req[r].read \cup Of({"bid"}, req[r].user) /\ next.stale = req[r].stale
         /\ UNCHANGED <<tables, stripe, tokens, history>>
  BY CheckBidsIs
<1>2. req'[r] = next /\ \A q \in Requests : q # r => Passed(q)
  BY <1>1, OneMoves, UntouchedPasses DEF AccountsOK
<1>3. /\ req'[r].kind = req[r].kind /\ req'[r].at = "detach" /\ req'[r].user = req[r].user
      /\ req'[r].copy = req[r].copy /\ req'[r].arg = req[r].arg
      /\ req'[r].read = req[r].read \cup Of({"bid"}, req[r].user) /\ req'[r].stale = req[r].stale
  BY <1>1, <1>2 DEF GoesOn
<1>4. PICK u \in Users : u = req[r].user
  BY <1>1, CardUser DEF CardAts
<1>5. UNCHANGED <<user, bids, held, customers, excuse>>
  BY <1>1 DEF tables, stripe, history
<1>6. Changing(r) /\ ~Dirty(r) /\ CardRead(r)
  BY <1>1 DEF Changing, Dirty, CardKinds, DirtyAts, CardInv, RequestOK
<1>7. req[r].kind = "delete" /\ req[r].arg \in req[r].copy.cards
  BY <1>1, <1>6 DEF CardRead, CardKinds
<1>8. CardRead(r)'
  <2>1. <<"bid", u>> \in req'[r].read
    BY <1>3, <1>4 DEF Of
  <2> QED BY <1>3, <1>4, <1>5, <1>6, <1>7, <2>1 DEF CardRead, CardKinds
<1>9. CardPlan(r)'
  <2>1. SUFFICES ASSUME Undisturbed(r)', u \in bids
                 PROVE  req[r].copy.cards # {} /\ Left(r)'
    BY <1>3, <1>4, <1>5, <1>7 DEF CardPlan, Must
  <2>2. Undisturbed(r)
    BY <1>2, <1>3, <1>5, <2>1, MoverUndisturbed
  <2>3. /\ req[r].copy.cards = user[u].cards /\ user[u].cards = HeldOf(u)
        /\ req[r].copy.cust = user[u].cust \/ (req[r].kind = "add" /\ user[u].cust = None)
    BY <1>4, <1>6, <2>2, CleanIsSettled
  <2>4. req[r].copy.cards = held[req[r].copy.cust]
    BY <1>7, <2>3 DEF HeldOf
  <2>5. req[r].copy.cards \ {req[r].arg} # {}
    <3>1. Cardinality(req[r].copy.cards) # 1
      BY <1>1, <1>4, <2>1 DEF MayDelete
    <3>2. req[r].copy.cards # {req[r].arg}
      BY <3>1, FS_Singleton
    <3> QED BY <1>7, <3>2
  <2> QED BY <1>3, <1>5, <1>7, <2>4, <2>5 DEF Left, Removes
<1>10. RequestOK(r)'
  BY <1>3, <1>8, <1>9 DEF RequestOK, BidRead
<1> QED BY <1>1, <1>2, <1>4, <1>5, <1>6, <1>10, BecomesDirty DEF DirtyAts

LEMMA DetachKeeps ==
  ASSUME AccountsOK, Known, CardInv, NEW r \in Requests, Detach(r)
  PROVE  CardInv'
<1>1. PICK c : c = req[r].copy.cust
  OBVIOUS
<1>2. PICK step \in {"retrieve", "resync"} :
         /\ req' = [req EXCEPT ![r] = Goto(r, step)] /\ req[r].at = "detach" /\ c \in Customers
         /\ \/ \E k \in Removes(r) :
                 held' = [held EXCEPT ![c] = @ \ {k}]
            \/ step = "resync" /\ UNCHANGED held
         /\ UNCHANGED <<tables, customers, tokens, history>>
  <2>1. CustKnown(r)
    BY DEF Known
  <2> QED BY <1>1, <2>1, DetachIs
<1>3. /\ Goto(r, step) \in Request /\ GoesOn(Goto(r, step), r, step)
      /\ Goto(r, step).read = req[r].read /\ Goto(r, step).stale = req[r].stale
  BY GotoIs DEF AccountsOK, Steps
<1>4. /\ req'[r] = Goto(r, step) /\ \A q \in Requests : q # r => Passed(q)
  BY <1>2, <1>3, OneMoves, UntouchedPasses DEF AccountsOK
<1>5. /\ req'[r].kind = req[r].kind /\ req'[r].at = step /\ req'[r].user = req[r].user
      /\ req'[r].copy = req[r].copy /\ req'[r].arg = req[r].arg
      /\ req'[r].read = req[r].read /\ req'[r].stale = req[r].stale
  BY <1>3, <1>4 DEF GoesOn
<1>6. PICK u \in Users : u = req[r].user
  BY <1>2, CardUser DEF CardAts
<1>7. UNCHANGED <<user, bids, customers, excuse>>
  BY <1>2 DEF tables, history
<1>8. Changing(r) /\ Dirty(r) /\ step \in DirtyAts /\ CardRead(r) /\ CardPlan(r)
  BY <1>2 DEF Changing, Dirty, CardKinds, DirtyAts, CardInv, RequestOK
<1>9. CardRead(r)'
  BY <1>2, <1>5, <1>7, <1>8 DEF CardRead, CardKinds, Dirty
<1>10. CardPlan(r)'
  <2>1. SUFFICES ASSUME Undisturbed(r)'
                 PROVE  /\ u \in bids => req[r].copy.cards # {}
                        /\ Must(r) => Left(r)'
    BY <1>2, <1>5, <1>6, <1>7 DEF CardPlan, Must
  <2>2. Undisturbed(r)
    BY <1>4, <1>5, <1>7, <2>1, MoverUndisturbed
  <2>3. (u \in bids => req[r].copy.cards # {}) /\ (Must(r) => Left(r))
    BY <1>6, <1>8, <2>2 DEF CardPlan
  <2>4. ASSUME Must(r) PROVE held'[c] # {}
    <3>1. \A k \in Removes(r) : held[c] \ {k} # {}
      BY <1>1, <1>2, <2>3, <2>4 DEF Left
    <3>2. ASSUME NEW k \in Removes(r), held' = [held EXCEPT ![c] = @ \ {k}] PROVE held'[c] = held[c] \ {k}
      BY <1>2, <3>2 DEF AccountsOK, TypeOK
    <3>3. CASE UNCHANGED held
      <4>1. PICK k : k \in Removes(r)
        BY <1>8, <2>4 DEF Removes, Must
      <4> QED BY <3>1, <3>3, <4>1
    <3>4. UNCHANGED held \/ \E k \in Removes(r) : held' = [held EXCEPT ![c] = @ \ {k}]
      BY <1>2
    <3> QED BY <3>1, <3>2, <3>3, <3>4
  <2>5. held'[c] # {} => Left(r)'
    BY <1>1, <1>2, <1>5 DEF Left
  <2> QED BY <2>3, <2>4, <2>5
<1>11. RequestOK(r)'
  BY <1>2, <1>5, <1>9, <1>10 DEF RequestOK, BidRead
<1>12. \A d \in Customers : held'[d] = held[d] \/ Claimed(d, u)
  <2>1. Claimed(c, u)
    BY <1>1, <1>6, <1>8 DEF Claimed
  <2> QED BY <1>2, <2>1 DEF AccountsOK, TypeOK
<1> QED BY <1>3, <1>4, <1>6, <1>7, <1>8, <1>11, <1>12, BecomesDirty


\* A request that goes on at Stripe, where nothing is changed by that.
LEMMA RetrievesKeep ==
  ASSUME AccountsOK, Known, CardInv, NEW r \in Requests, NEW step \in {"resync", "keep"}, req[r].at \in {"retrieve", "resync"},
         \A q \in Requests : q # r => Passed(q), GoesOn(req'[r], r, step),
         req'[r].read = req[r].read, req'[r].stale = req[r].stale,
         step = "keep" => req'[r].seen = held[req[r].copy.cust],
         UNCHANGED <<tables, stripe, excuse>>
  PROVE  CardInv'
<1>1. /\ req'[r].kind = req[r].kind /\ req'[r].at = step /\ req'[r].user = req[r].user
      /\ req'[r].copy = req[r].copy /\ req'[r].arg = req[r].arg
  BY DEF GoesOn
<1>2. PICK u \in Users : u = req[r].user
  BY CardUser DEF CardAts
<1>3. UNCHANGED <<user, bids, held, customers, excuse>>
  BY DEF tables, stripe
<1>4. Changing(r) /\ Dirty(r) /\ step \in DirtyAts /\ step \notin CardKinds /\ CardRead(r) /\ CardPlan(r)
  BY DEF Changing, Dirty, CardKinds, DirtyAts, CardInv, RequestOK
<1>5. CardRead(r)'
  BY <1>1, <1>3, <1>4 DEF CardRead, CardKinds, Dirty
<1>6. CardPlan(r)'
  <2>1. SUFFICES ASSUME Undisturbed(r)'
                 PROVE  /\ u \in bids => req[r].copy.cards # {}
                        /\ Must(r) => Left(r)'
    BY <1>1, <1>2, <1>3 DEF CardPlan, Must
  <2>2. Undisturbed(r)
    BY <1>1, <1>3, <2>1, MoverUndisturbed
  <2>3. (u \in bids => req[r].copy.cards # {}) /\ (Must(r) => Left(r))
    BY <1>2, <1>4, <2>2 DEF CardPlan
  <2>4. Left(r) => Left(r)'
    BY <1>1, <1>3 DEF Left
  <2> QED BY <2>3, <2>4
<1>7. RequestOK(r)'
  BY <1>1, <1>5, <1>6 DEF RequestOK, BidRead
<1> QED BY <1>2, <1>3, <1>4, <1>7, BecomesDirty

\* A request stops while the cards at Stripe may not be those that are saved.
LEMMA StopsHalfWay ==
  ASSUME AccountsOK, Known, CardInv, NEW r \in Requests, req[r].at = "resync", req' = [req EXCEPT ![r] = Idle],
         excuse' = excuse \cup HalfWay({r}), UNCHANGED <<tables, stripe>>
  PROVE  CardInv'
<1>1. req'[r] = Idle /\ \A q \in Requests : q # r => Passed(q)
  BY IdleOK, OneMoves, UntouchedPasses DEF AccountsOK
<1>2. PICK u \in Users : u = req[r].user
  BY CardUser DEF CardAts
<1>3. UNCHANGED <<user, bids, held, customers>>
  BY DEF tables, stripe
<1>4. <<"cards", u>> \in excuse'
  BY <1>2 DEF HalfWay
<1>5. /\ \A v \in Users : v # u => Settled(v)'
      /\ \A q \in Requests : q # r /\ req[q].user # u => RequestOK(q)'
  BY <1>1, <1>2, <1>3, OneOfUser
<1>6. Settled(u)'
  BY <1>3, <1>4 DEF CardInv, Settled, Excused
<1>7. ASSUME NEW q \in Requests, q # r, req[q].user = u PROVE RequestOK(q)'
  <2>1. Passed(q) /\ RequestOK(q)
    BY <1>1, <1>7 DEF CardInv
  <2>2. ~Undisturbed(q)'
    BY <1>4, <1>7, <2>1 DEF Undisturbed, Passed, Excused
  <2> QED BY <1>3, <1>7, <2>1, <2>2, RequestStaysOK
<1>8. RequestOK(r)'
  BY <1>1, OtherRequestsLater DEF Idle, CardAts
<1>9. ASSUME NEW c \in Customers, NEW v, Claimed(c, v)' PROVE Claimed(c, v)
  <2>1. ~Changing(r)'
    BY <1>1 DEF Idle, Changing, CardKinds, DirtyAts
  <2> QED BY <1>1, <1>3, <1>9, <2>1 DEF Claimed, Passed, Changing
<1>10. Apart'
  BY <1>3, <1>9, ApartStays DEF CardInv
<1> QED BY <1>5, <1>6, <1>7, <1>8, <1>10 DEF CardInv

LEMMA RetrieveKeeps ==
  ASSUME AccountsOK, Known, CardInv, NEW r \in Requests, Retrieve(r)
  PROVE  CardInv'
<1>1. PICK next \in Request :
         /\ req' = [req EXCEPT ![r] = next] /\ GoesOn(next, r, "keep") /\ req[r].at \in {"retrieve", "resync"}
         /\ next.read = req[r].read /\ next.stale = req[r].stale
         /\ next.seen = held[req[r].copy.cust]
         /\ UNCHANGED <<tables, stripe, tokens, history>>
  <2>1. CustKnown(r)
    BY DEF Known
  <2> QED BY <2>1, RetrieveIs
<1>2. req'[r] = next /\ \A q \in Requests : q # r => Passed(q)
  BY <1>1, OneMoves, UntouchedPasses DEF AccountsOK
<1> QED BY <1>1, <1>2, RetrievesKeep DEF history

LEMMA RetrieveFailsKeeps ==
  ASSUME AccountsOK, Known, CardInv, NEW r \in Requests, RetrieveFails(r)
  PROVE  CardInv'
<1>1. UNCHANGED <<tables, stripe>>
  BY DEF RetrieveFails
<1>2. CASE req[r].at = "retrieve" /\ req' = [req EXCEPT ![r] = Goto(r, "resync")] /\ UNCHANGED excuse
  <2>1. /\ Goto(r, "resync") \in Request /\ GoesOn(Goto(r, "resync"), r, "resync")
        /\ Goto(r, "resync").read = req[r].read /\ Goto(r, "resync").stale = req[r].stale
    BY GotoIs DEF AccountsOK, Steps
  <2>2. req'[r] = Goto(r, "resync") /\ \A q \in Requests : q # r => Passed(q)
    BY <1>2, <2>1, OneMoves, UntouchedPasses DEF AccountsOK
  <2> QED BY <1>1, <1>2, <2>1, <2>2, RetrievesKeep
<1>3. CASE req[r].at = "resync" /\ req' = [req EXCEPT ![r] = Idle] /\ excuse' = excuse \cup HalfWay({r})
  BY <1>1, <1>3, StopsHalfWay
<1> QED BY <1>2, <1>3 DEF RetrieveFails

\* What Stripe answered is saved: it is what Stripe holds, if nobody came between.
LEMMA SaveCardsKeeps ==
  ASSUME AccountsOK, Known, CardInv, NEW r \in Requests, SaveCards(r)
  PROVE  CardInv'
<1>1. PICK u : u = req[r].user
  OBVIOUS
<1>2. PICK saved \in Row :
         /\ Save(r, u, saved, {"cards"}, Idle) /\ u \in accounts /\ req[r].at = "keep"
         /\ saved.cust = req[r].copy.cust /\ saved.cards = req[r].seen
         /\ saved.ref = user[u].ref /\ saved.tel = user[u].tel /\ saved.former = user[u].former
         /\ saved.email = user[u].email /\ saved.verified = user[u].verified
  BY <1>1, SaveCardsIs
<1>3. u \in Users
  BY <1>2 DEF AccountsOK, TypeOK
<1>4. /\ \A w \in Users : user'[w] = IF w = u THEN saved ELSE user[w]
      /\ Served(r, Idle, Of({"cards"} \cup {"row"}, u))
      /\ excuse' = IF req[r].stale = {} THEN excuse ELSE excuse \cup Of({"cards"}, u)
  BY <1>2, <1>3, RowWritten DEF Save, AccountsOK
<1>5. req'[r] = Idle /\ \A q \in Requests : q # r => Passed(q) /\ Told(q, Of({"cards"} \cup {"row"}, u))
  BY <1>4, ServedOthers, ServedSelf, ToldPasses DEF AccountsOK
<1>6. UNCHANGED <<bids, held, customers>>
  BY DEF SaveCards, stripe
<1>7. Changing(r) /\ Dirty(r) /\ CardRead(r) /\ CardPlan(r) /\ saved.cust # None
  BY <1>2 DEF Changing, Dirty, CardKinds, DirtyAts, CardInv, RequestOK, Known, CustKnown
<1>8. /\ \A v \in Users : v # u => Settled(v)'
      /\ \A q \in Requests : q # r /\ req[q].user # u => RequestOK(q)'
  BY <1>1, <1>3, <1>4, <1>5, <1>6, OneOfUser
<1>9. Settled(u)'
  <2>1. SUFFICES ASSUME \A q \in Requests : Dirty(q)' => req'[q].user # u, ~Excused(u)'
                 PROVE  saved.cards = held[saved.cust] /\ (u \in bids => saved.cards # {})
    BY <1>3, <1>4, <1>6, <1>7 DEF Settled, HeldOf
  <2>2. Undisturbed(r)
    <3>1. req[r].stale = {} /\ ~Excused(u)
      BY <1>4, <2>1 DEF Excused, Of
    <3>2. \A q \in Requests \ {r} : Dirty(q) => req[q].user # u
      BY <1>5, <2>1 DEF Passed, Dirty
    <3> QED BY <1>1, <3>1, <3>2 DEF Undisturbed
  <2>3. /\ req[r].user \in bids => req[r].copy.cards # {}
        /\ Must(r) => Left(r)
        /\ req[r].at = "keep" => req[r].seen = held[req[r].copy.cust]
    BY <1>7, <2>2 DEF CardPlan
  <2>4. u \in bids => Must(r)
    BY <1>1, <2>3 DEF Must
  <2> QED BY <1>2, <2>3, <2>4 DEF Left
<1>10. ASSUME NEW q \in Requests, q # r, req[q].user = u PROVE RequestOK(q)'
  <2>1. Passed(q) /\ Told(q, Of({"cards"} \cup {"row"}, u)) /\ RequestOK(q)
    BY <1>5, <1>10 DEF CardInv
  <2>2. CASE req[q].at \notin CardAts
    BY <2>1, <2>2, OtherRequestsLater DEF Passed
  <2>3. CASE req[q].at \in CardAts
    <3>1. <<"cards", u>> \in req[q].read
      BY <1>10, <2>1, <2>3 DEF RequestOK, CardRead, BidRead, Changing, CardAts, CardKinds, DirtyAts
    <3>2. req'[q].stale # {}
      BY <2>1, <3>1 DEF Told, Of
    <3>3. ~Undisturbed(q)'
      BY <3>2 DEF Undisturbed
    <3> QED BY <1>10, <2>1, <3>2, <3>3, RequestStaysOK
  <2> QED BY <2>2, <2>3
<1>11. RequestOK(r)'
  BY <1>5, OtherRequestsLater DEF Idle, CardAts
<1>12. ASSUME NEW c \in Customers, NEW v, Claimed(c, v)' PROVE Claimed(c, v)
  <2>1. ~Changing(r)'
    BY <1>5 DEF Idle, Changing, CardKinds, DirtyAts
  <2>2. ASSUME v \in Users, user'[v].cust = c PROVE Claimed(c, v)
    BY <1>1, <1>2, <1>4, <1>7, <2>2 DEF Claimed
  <2>3. ASSUME NEW q \in Requests, Changing(q)', req'[q].copy.cust = c, req'[q].user = v PROVE Claimed(c, v)
    BY <1>5, <2>1, <2>3 DEF Claimed, Passed, Changing
  <2> QED BY <1>12, <2>2, <2>3 DEF Claimed
<1>13. Apart'
  BY <1>6, <1>12, ApartStays DEF CardInv
<1> QED BY <1>8, <1>9, <1>10, <1>11, <1>13 DEF CardInv

LEMMA PlaceBidKeeps ==
  ASSUME AccountsOK, Known, CardInv, NEW r \in Requests, PlaceBid(r)
  PROVE  CardInv'
<1>1. PICK u : u = req[r].user
  OBVIOUS
<1>2. /\ req[r].at = "bid" /\ bids' = bids \cup {u} /\ Served(r, Idle, Of({"bid"}, u))
      /\ excuse' = IF req[r].stale = {} THEN excuse ELSE excuse \cup Of({"cards"}, u)
      /\ UNCHANGED <<user, held, customers>>
  BY <1>1 DEF PlaceBid, stripe
<1>3. u \in Users
  BY <1>1, <1>2, CardUser DEF CardAts
<1>4. req'[r] = Idle /\ \A q \in Requests : q # r => Passed(q) /\ Told(q, Of({"bid"}, u))
  BY <1>2, ServedOthers, ServedSelf, ToldPasses DEF AccountsOK
<1>5. ~Dirty(r) /\ BidRead(r)
  BY <1>2 DEF Dirty, DirtyAts, CardInv, RequestOK
<1>6. /\ \A v \in Users : v # u => Settled(v)'
      /\ \A q \in Requests : q # r /\ req[q].user # u => RequestOK(q)'
  BY <1>1, <1>2, <1>3, <1>4, OneOfUser
<1>7. Settled(u)'
  <2>1. Settled(u)
    BY <1>3 DEF CardInv
  <2>2. SUFFICES ASSUME \A q \in Requests : Dirty(q)' => req'[q].user # u, ~Excused(u)'
                 PROVE  user[u].cards = HeldOf(u) /\ user[u].cards # {}
    BY <1>2, <2>1 DEF Settled, HeldOf
  <2>3. \A q \in Requests : Dirty(q) => req[q].user # u
    BY <1>4, <1>5, <2>2 DEF Passed, Dirty
  <2>4. req[r].stale = {} /\ ~Excused(u)
    BY <1>2, <2>2 DEF Excused, Of
  <2> QED BY <1>1, <1>2, <1>5, <2>1, <2>3, <2>4 DEF Settled, BidRead
<1>8. ASSUME NEW q \in Requests, q # r, req[q].user = u PROVE RequestOK(q)'
  <2>1. Passed(q) /\ Told(q, Of({"bid"}, u)) /\ RequestOK(q)
    BY <1>4, <1>8 DEF CardInv
  <2>2. \A p \in Requests : Dirty(p) => Dirty(p)' /\ req'[p].user = req[p].user
    BY <1>4, <1>5 DEF Passed, Dirty
  <2>3. Undisturbed(q)' => Undisturbed(q)
    BY <1>2, <2>1, <2>2, UndisturbedBefore
  <2>4. ASSUME Dirty(q), Undisturbed(q)' PROVE req[q].copy.cards # {} \/ u \notin bids'
    <3>1. CardRead(q) /\ Undisturbed(q)
      BY <2>1, <2>3, <2>4 DEF RequestOK
    <3>2. req[q].stale = {} /\ req'[q].stale = {} /\ Changing(q) /\ ~Excused(u)'
      BY <1>8, <2>1, <2>4, <3>1 DEF Undisturbed, Changing, Dirty, Passed
    <3>3. req[q].copy.cards = user[u].cards
      BY <1>8, <3>1, <3>2 DEF CardRead
    <3>4. req[r].stale = {}
      BY <1>2, <3>2 DEF Excused, Of
    <3> QED BY <1>1, <1>2, <1>5, <3>3, <3>4 DEF BidRead
  <2>5. ASSUME Dirty(q), Undisturbed(q)' PROVE req[q].kind # "delete"
    <3>1. CardRead(q) /\ req'[q].stale = {} /\ Changing(q)
      BY <2>1, <2>5 DEF RequestOK, Undisturbed, Changing, Dirty
    <3>2. req[q].kind = "delete" => <<"bid", u>> \in req[q].read
      BY <1>8, <2>5, <3>1 DEF CardRead
    <3> QED BY <2>1, <3>1, <3>2 DEF Told, Of
  <2> QED BY <1>2, <1>8, <2>1, <2>3, <2>4, <2>5, RequestStaysOK
<1>9. RequestOK(r)'
  BY <1>4, OtherRequestsLater DEF Idle, CardAts
<1>10. ASSUME NEW c \in Customers, NEW v, Claimed(c, v)' PROVE Claimed(c, v)
  <2>1. ~Changing(r)'
    BY <1>4 DEF Idle, Changing, CardKinds, DirtyAts
  <2> QED BY <1>2, <1>4, <1>10, <2>1 DEF Claimed, Passed, Changing
<1>11. Apart'
  BY <1>2, <1>10, ApartStays DEF CardInv
<1> QED BY <1>6, <1>7, <1>8, <1>9, <1>11 DEF CardInv


LEMMA ApartKept ==
  ASSUME CardInv, SameCards, customers \subseteq customers',
         \A q \in Requests : \/ Passed(q) \/ ~Changing(q)'
                             \/ req'[q].user \in Users /\ req'[q].copy.cust = user[req'[q].user].cust
  PROVE  Apart'
<1>1. ASSUME NEW c \in Customers, NEW v, Claimed(c, v)' PROVE Claimed(c, v)
  <2>1. ASSUME v \in Users, user'[v].cust = c PROVE Claimed(c, v)
    BY <2>1 DEF Claimed, SameCards
  <2>2. ASSUME NEW q \in Requests, Changing(q)', req'[q].copy.cust = c, req'[q].user = v PROVE Claimed(c, v)
    <3>1. CASE Passed(q)
      BY <2>2, <3>1 DEF Claimed, Passed, Changing
    <3>2. CASE v \in Users /\ user[v].cust = c
      BY <3>2 DEF Claimed
    <3> QED BY <2>2, <3>1, <3>2
  <2> QED BY <1>1, <2>1, <2>2 DEF Claimed
<1> QED BY <1>1, ApartStays DEF CardInv

LEMMA NewCustomerKeeps ==
  ASSUME AccountsOK, Known, CardInv, NEW r \in Requests, NewCustomer(r)
  PROVE  CardInv'
<1>1. PICK next \in Request, c \in Customers \ customers :
         /\ req' = [req EXCEPT ![r] = next] /\ customers' = customers \cup {c}
         /\ req[r].at = "add" /\ req[r].copy.cust = None /\ UNCHANGED <<tables, held, tokens, history>>
         /\ next.at = "add" /\ next.kind = req[r].kind /\ next.user = req[r].user /\ next.arg = req[r].arg
         /\ next.copy.cust = c /\ next.copy.cards = req[r].copy.cards
         /\ next.read = req[r].read /\ next.stale = req[r].stale
  BY NewCustomerIs
<1>2. req'[r] = next /\ \A q \in Requests : q # r => Passed(q)
  BY <1>1, OneMoves, UntouchedPasses DEF AccountsOK
<1>3. PICK u \in Users : u = req[r].user
  BY <1>1, CardUser DEF CardAts
<1>4. UNCHANGED <<user, bids, held, excuse>> /\ SameCards
  BY <1>1 DEF tables, history, SameCards
<1>5. Changing(r) /\ ~Dirty(r) /\ ~Dirty(r)' /\ CardRead(r)
  BY <1>1, <1>2 DEF Changing, Dirty, CardKinds, DirtyAts, CardInv, RequestOK
<1>6. req[r].kind = "add"
  BY <1>1, <1>5 DEF CardRead, CardKinds
<1>7. CardRead(r)'
  <2>1. Undisturbed(r)' => Undisturbed(r)
    BY <1>1, <1>2, <1>4, MoverUndisturbed
  <2>2. req[r].stale = {} => req[r].copy.cards = user[u].cards /\ user[u].cust = None
    BY <1>1, <1>3, <1>5 DEF CardRead
  <2> QED BY <1>1, <1>2, <1>3, <1>4, <1>5, <1>6, <2>1, <2>2 DEF CardRead, CardKinds
<1>8. RequestOK(r)'
  BY <1>1, <1>2, <1>5, <1>7 DEF RequestOK, CardPlan, BidRead
<1>9. ASSUME NEW d \in Customers, NEW v, Claimed(d, v)' PROVE Claimed(d, v) \/ (d = c /\ v = u)
  <2>1. ASSUME NEW q \in Requests, Changing(q)', req'[q].copy.cust = d, req'[q].user = v
        PROVE  Claimed(d, v) \/ (d = c /\ v = u)
    <3>1. CASE q = r
      BY <1>1, <1>2, <1>3, <2>1, <3>1
    <3>2. CASE q # r
      BY <1>2, <2>1, <3>2 DEF Claimed, Passed, Changing
    <3> QED BY <3>1, <3>2
  <2> QED BY <1>4, <1>9, <2>1 DEF Claimed
<1>10. Apart'
  <2>1. \A v : ~Claimed(c, v)
    BY <1>1 DEF CardInv, Apart
  <2>2. ASSUME NEW d \in Customers, NEW v, NEW w, Claimed(d, v)'
        PROVE  d \in customers' /\ (Claimed(d, w)' => v = w)
    BY <1>1, <1>9, <2>1, <2>2 DEF CardInv, Apart
  <2> QED BY <2>2 DEF Apart
<1>11. \A q \in Requests : Passed(q) \/ (~Dirty(q) /\ RequestOK(q)')
  BY <1>2, <1>5, <1>8
<1> QED BY <1>4, <1>10, <1>11, StaysClean

\* A request begins to change cards, or to bid.
LEMMA CardsBegin ==
  ASSUME AccountsOK, CardInv, NEW r \in Requests, NEW u \in Users, NEW kind \in CardKinds \cup {"bid"}, NEW k,
         req[r].at = "idle", Begun(req'[r], kind, u, k, {"cards"}), \A q \in Requests : q # r => req'[q] = req[q],
         UNCHANGED <<tables, stripe, excuse>>,
         kind = "delete" => k \in user[u].cards,
         kind \in {"add", "replace"} => \A c \in Customers : k \notin held[c],
         kind = "bid" => user[u].cards # {}
  PROVE  CardInv'
<1>1. UNCHANGED <<user, bids, held, customers, excuse>> /\ SameCards
  BY DEF tables, stripe, SameCards
<1>2. /\ req'[r].kind = kind /\ req'[r].at = kind /\ req'[r].user = u /\ req'[r].copy = user[u] /\ req'[r].arg = k
      /\ req'[r].stale = {} /\ <<"cards", u>> \in req'[r].read
  BY DEF Begun, Of
<1>3. ~Dirty(r) /\ ~Dirty(r)'
  BY <1>2 DEF Dirty, DirtyAts, CardKinds
<1>4. ASSUME kind \in {"add", "replace"}, Undisturbed(r)' PROVE k \notin user[u].cards
  <2>1. ~Excused(u) /\ \A q \in Requests \ {r} : Dirty(q) => req[q].user # u
    BY <1>1, <1>2, <1>4 DEF Undisturbed, Excused, Dirty
  <2>2. user[u].cards = HeldOf(u)
    BY <1>3, <2>1 DEF CardInv, Settled
  <2>3. user[u].cust = None \/ user[u].cust \in Customers
    BY DEF AccountsOK, TypeOK, Row
  <2> QED BY <1>4, <2>2, <2>3 DEF HeldOf
<1>5. CardRead(r)'
  BY <1>1, <1>2, <1>3, <1>4 DEF CardRead, Changing, CardKinds, DirtyAts
<1>6. BidRead(r)'
  BY <1>1, <1>2 DEF BidRead
<1>7. RequestOK(r)'
  BY <1>3, <1>5, <1>6 DEF RequestOK, CardPlan
<1>8. \A q \in Requests : q # r => Passed(q)
  BY UntouchedPasses
<1>9. Apart'
  BY <1>1, <1>2, <1>8, ApartKept
<1> QED BY <1>1, <1>3, <1>7, <1>8, <1>9, StaysClean

LEMMA CardStepKeeps ==
  ASSUME AccountsOK, Known, CardInv, CardStep
  PROVE  CardInv'
<1>1. ASSUME NEW u \in Users, EndBid(u) PROVE CardInv'
  <2>1. UNCHANGED <<user, held, customers, req, excuse>> /\ bids' \subseteq bids
    BY <1>1 DEF EndBid, stripe, history
  <2>2. \A q \in Requests : Passed(q)
    BY <2>1, UntouchedPasses
  <2>3. SameCards
    BY <2>1 DEF SameCards
  <2>4. Apart'
    BY <2>1, <2>2, <2>3, ApartKept
  <2> QED BY <2>1, <2>2, <2>3, <2>4, StaysClean
<1>2. ASSUME NEW r \in Requests, KeepForBid(r) PROVE CardInv'
  <2>1. req' = [req EXCEPT ![r] = Idle] /\ UNCHANGED <<user, bids, held, customers, excuse>> /\ req[r].at = "delete"
    BY <1>2 DEF KeepForBid, Refuse, tables, stripe, history
  <2>2. req'[r] = Idle /\ \A q \in Requests : q # r => Passed(q)
    BY <2>1, IdleOK, OneMoves, UntouchedPasses DEF AccountsOK
  <2>3. SameCards
    BY <2>1 DEF SameCards
  <2>4. ~Dirty(r) /\ RequestOK(r)' /\ ~Changing(r)'
    BY <2>1, <2>2, OtherRequestsLater DEF Dirty, DirtyAts, Changing, CardKinds, Idle, CardAts
  <2>5. Apart'
    BY <2>1, <2>2, <2>3, <2>4, ApartKept
  <2> QED BY <2>1, <2>2, <2>3, <2>4, <2>5, StaysClean
<1>3. ASSUME NEW r \in Requests, NEW u \in Users, AskToBid(r, u) PROVE CardInv'
  <2>1. Begin(r, "bid", u, None, {"cards"}) /\ user[u].cards # {} /\ UNCHANGED <<tables, stripe, excuse>>
    BY <1>3 DEF AskToBid, history
  <2>2. /\ req[r].at = "idle" /\ Begun(req'[r], "bid", u, None, {"cards"})
        /\ \A q \in Requests : q # r => req'[q] = req[q]
    BY <2>1, Begins DEF AccountsOK, Args, Kinds, FieldNames
  <2> QED BY <2>1, <2>2, CardsBegin
<1>4. ASSUME NEW r \in Requests, NEW u \in Users, NEW kind \in CardKinds, ChangeCards(r, kind, u) PROVE CardInv'
  <2>1. PICK k \in Cards : /\ IF kind = "delete" THEN k \in user[u].cards ELSE \A c \in Customers : k \notin held[c]
                           /\ Begin(r, kind, u, k, {"cards"})
    BY <1>4 DEF ChangeCards
  <2>2. UNCHANGED <<tables, stripe, excuse>>
    BY <1>4 DEF ChangeCards, history
  <2>3. k \in Args /\ kind \in Kinds /\ {"cards"} \subseteq FieldNames
    BY DEF Args, Kinds, CardKinds, FieldNames
  <2>4. /\ req[r].at = "idle" /\ Begun(req'[r], kind, u, k, {"cards"})
        /\ \A q \in Requests : q # r => req'[q] = req[q]
    BY <2>1, <2>3, Begins DEF AccountsOK
  <2>5. /\ kind = "delete" => k \in user[u].cards
        /\ kind \in {"add", "replace"} => \A c \in Customers : k \notin held[c]
        /\ kind # "bid" /\ kind \in CardKinds \cup {"bid"}
    BY <2>1 DEF CardKinds
  <2> QED BY <2>2, <2>4, <2>5, CardsBegin
<1> QED
  BY <1>1, <1>2, <1>3, <1>4, NewCustomerKeeps, AttachKeeps, CheckBidsKeeps, DetachKeeps, RetrieveKeeps,
     RetrieveFailsKeeps, SaveCardsKeeps, PlaceBidKeeps DEF CardStep, CardKinds

LEMMA CardInvElsewhere ==
  ASSUME BaseInv, CardInv, UNCHANGED accountVars \/ CodeStep \/ LoginStep \/ TelStep \/ MailStep
  PROVE  CardInv'
<1>1. AccountsOK /\ SameCards /\ Avoids(CardAts) /\ UNCHANGED <<bids, held, customers>> /\ excuse \subseteq excuse'
  BY CardElsewhere DEF stripe, BaseInv
<1>2. \A q \in Requests : Passed(q) \/ ~Dirty(q)
  <2>1. CASE UNCHANGED accountVars
    BY <2>1, UntouchedPasses DEF accountVars
  <2>2. CASE CodeStep
    BY <1>1, <2>2, CodeMoves DEF MovesFrom, CodeAts, AccountsOK, Dirty, DirtyAts
  <2>3. CASE LoginStep
    BY <1>1, <2>3, LoginMoves DEF MovesFrom, LoginAts, Dirty, DirtyAts
  <2>4. CASE TelStep
    BY <1>1, <2>4, TelMoves DEF MovesFrom, TelAts, Dirty, DirtyAts
  <2>5. CASE MailStep
    BY <1>1, <2>5, MailMoves DEF MovesFrom, MailAts, Dirty, DirtyAts
  <2> QED BY <2>1, <2>2, <2>3, <2>4, <2>5
<1>3. \A q \in Requests : Passed(q) \/ (RequestOK(q)' /\ ~Changing(q)')
  <2>1. ASSUME NEW q \in Requests, req'[q].at \notin CardAts PROVE RequestOK(q)' /\ ~Changing(q)'
    BY <2>1, OtherRequestsLater DEF Changing, CardAts, CardKinds, DirtyAts
  <2> QED BY <1>1, <2>1 DEF Avoids
<1>4. Apart'
  BY <1>1, <1>3, ApartKept
<1> QED BY <1>1, <1>2, <1>3, <1>4, StaysClean

\* Everything stops at once: who was changing cards is excused, the others are settled.
LEMMA CrashKeepsCards ==
  ASSUME AccountsOK, CardInv, Crash
  PROVE  CardInv'
<1>1. /\ \A r \in Requests : req'[r] = Idle
      /\ excuse' = excuse \cup HalfWay(Requests) /\ UNCHANGED <<user, bids, held, customers>>
  BY CrashLeaves DEF tables, stripe
<1>2. ASSUME NEW q \in Requests PROVE RequestOK(q)' /\ ~Changing(q)'
  BY <1>1, OtherRequestsLater DEF Idle, CardAts, Changing, CardKinds, DirtyAts
<1>3. ASSUME NEW u \in Users PROVE Settled(u)'
  <2>1. CASE \E q \in Requests : Dirty(q) /\ req[q].user = u
    <3>1. <<"cards", u>> \in excuse'
      BY <1>1, <2>1 DEF HalfWay, Dirty, DirtyAts
    <3> QED BY <1>1, <3>1 DEF CardInv, Settled, Excused
  <2>2. CASE \A q \in Requests : Dirty(q) => req[q].user # u
    BY <1>1, <2>2 DEF CardInv, Settled, Excused, HeldOf
  <2> QED BY <2>1, <2>2
<1>4. Apart'
  BY <1>1, <1>2, ApartKept DEF SameCards
<1> QED BY <1>2, <1>3, <1>4 DEF CardInv

LEMMA CardInvStep ==
  ASSUME BaseInv, CardInv, [Next]_accountVars
  PROVE  CardInv'
<1>1. CASE CardStep
  BY <1>1, CardStepKeeps DEF BaseInv
<1>2. CASE Crash
  BY <1>2, CrashKeepsCards DEF BaseInv
<1> QED BY <1>1, <1>2, CardInvElsewhere, StepsAreOfOneKind


LEMMA CustStaysKnown ==
  ASSUME NEW q \in Requests, CustKnown(q), Passed(q)
  PROVE  CustKnown(q)'
  BY DEF CustKnown, Passed

LEMMA CustKnownStep ==
  ASSUME BaseInv, CardStep
  PROVE  \A q \in Requests : CustKnown(q)'
<1>1. AccountsOK /\ TypeOK /\ \A q \in Requests : CustKnown(q)
  BY DEF BaseInv, Known, AccountsOK
<1>2. ASSUME NEW q \in Requests, req'[q].at \in {"idle", "bid"} PROVE CustKnown(q)'
  BY <1>2 DEF CustKnown, DirtyAts, CardKinds
<1>3. ASSUME NEW r \in Requests, CustKnown(r)', \A q \in Requests : q # r => Passed(q)
      PROVE  \A q \in Requests : CustKnown(q)'
  BY <1>1, <1>3, CustStaysKnown
<1>4. ASSUME NEW r \in Requests, NEW next \in Request, req' = [req EXCEPT ![r] = next],
             next.at \notin CardKinds /\ (next.at \in DirtyAts => next.copy.cust # None)
      PROVE  \A q \in Requests : CustKnown(q)'
  <2>1. req'[r] = next /\ \A q \in Requests : q # r => Passed(q)
    BY <1>1, <1>4, OneMoves, UntouchedPasses
  <2>2. CustKnown(r)'
    BY <1>4, <2>1 DEF CustKnown, CardKinds
  <2> QED BY <1>3, <2>1, <2>2
<1>5. ASSUME NEW u \in Users, EndBid(u) PROVE \A q \in Requests : CustKnown(q)'
  BY <1>1, <1>5, CustStaysKnown, UntouchedPasses DEF EndBid
<1>6. ASSUME NEW r \in Requests, NewCustomer(r) PROVE \A q \in Requests : CustKnown(q)'
  <2>1. PICK next \in Request, c \in Customers \ customers :
         /\ req' = [req EXCEPT ![r] = next] /\ customers' = customers \cup {c}
         /\ req[r].at = "add" /\ req[r].copy.cust = None /\ UNCHANGED <<tables, held, tokens, history>>
         /\ next.at = "add" /\ next.kind = req[r].kind /\ next.user = req[r].user /\ next.arg = req[r].arg
         /\ next.copy.cust = c /\ next.copy.cards = req[r].copy.cards
         /\ next.read = req[r].read /\ next.stale = req[r].stale
    BY <1>1, <1>6, NewCustomerIs
  <2>2. req'[r] = next /\ \A q \in Requests : q # r => Passed(q)
    BY <1>1, <2>1, OneMoves, UntouchedPasses
  <2>3. CustKnown(r)'
    BY <1>1, <2>1, <2>2 DEF CustKnown, DirtyAts, CardKinds
  <2> QED BY <1>3, <2>2, <2>3
<1>7. ASSUME NEW r \in Requests, Attach(r) PROVE \A q \in Requests : CustKnown(q)'
  <2>1. PICK step \in {"detach", "retrieve", "resync"} : req' = [req EXCEPT ![r] = Goto(r, step)] /\ req[r].copy.cust # None
    BY <1>7 DEF Attach, Attached
  <2>2. Goto(r, step) \in Request /\ GoesOn(Goto(r, step), r, step)
    BY <1>1, GotoIs DEF Steps
  <2> QED BY <1>4, <2>1, <2>2 DEF GoesOn, CardKinds
<1>8. ASSUME NEW r \in Requests, CheckBids(r) PROVE \A q \in Requests : CustKnown(q)'
  <2>1. PICK next \in Request : req' = [req EXCEPT ![r] = next] /\ GoesOn(next, r, "detach") /\ req[r].at = "delete"
    BY <1>1, <1>8, CheckBidsIs
  <2>2. req[r].copy.cust # None
    BY <1>1, <2>1 DEF CustKnown
  <2> QED BY <1>4, <2>1, <2>2 DEF GoesOn, CardKinds
<1>9. ASSUME NEW r \in Requests, req' = [req EXCEPT ![r] = Idle] PROVE \A q \in Requests : CustKnown(q)'
  BY <1>4, <1>9, IdleOK DEF Idle, CardKinds, DirtyAts
<1>10. ASSUME NEW r \in Requests, NEW step \in DirtyAts, req' = [req EXCEPT ![r] = Goto(r, step)], req[r].at \in DirtyAts
       PROVE  \A q \in Requests : CustKnown(q)'
  <2>1. Goto(r, step) \in Request /\ GoesOn(Goto(r, step), r, step)
    BY <1>1, GotoIs DEF Steps, DirtyAts
  <2>2. req[r].copy.cust # None /\ step \notin CardKinds
    BY <1>1, <1>10 DEF CustKnown, DirtyAts, CardKinds
  <2> QED BY <1>4, <1>10, <2>1, <2>2 DEF GoesOn
<1>11. ASSUME NEW r \in Requests, Detach(r) PROVE \A q \in Requests : CustKnown(q)'
  <2>1. PICK step \in {"retrieve", "resync"} : req' = [req EXCEPT ![r] = Goto(r, step)] /\ req[r].at = "detach"
    BY <1>11 DEF Detach
  <2> QED BY <1>10, <2>1 DEF DirtyAts
<1>12. ASSUME NEW r \in Requests, Retrieve(r) PROVE \A q \in Requests : CustKnown(q)'
  <2>1. PICK next \in Request :
         /\ req' = [req EXCEPT ![r] = next] /\ GoesOn(next, r, "keep") /\ req[r].at \in {"retrieve", "resync"}
         /\ next.read = req[r].read /\ next.stale = req[r].stale
         /\ next.seen = held[req[r].copy.cust]
         /\ UNCHANGED <<tables, stripe, tokens, history>>
    BY <1>1, <1>12, RetrieveIs
  <2>2. req[r].copy.cust # None
    BY <1>1, <2>1 DEF CustKnown, DirtyAts
  <2> QED BY <1>4, <2>1, <2>2 DEF GoesOn, CardKinds
<1>13. ASSUME NEW r \in Requests, RetrieveFails(r) PROVE \A q \in Requests : CustKnown(q)'
  <2>1. \/ req[r].at = "retrieve" /\ req' = [req EXCEPT ![r] = Goto(r, "resync")]
        \/ req' = [req EXCEPT ![r] = Idle]
    BY <1>13 DEF RetrieveFails
  <2> QED BY <1>9, <1>10, <2>1 DEF DirtyAts
<1>14. ASSUME NEW r \in Requests, SaveCards(r) \/ PlaceBid(r) PROVE \A q \in Requests : CustKnown(q)'
  <2>1. PICK written : Served(r, Idle, written)
    BY <1>14 DEF SaveCards, Save, PlaceBid
  <2>2. req'[r] = Idle /\ \A q \in Requests : q # r => Passed(q)
    BY <1>1, <2>1, ServedSelf, ServedOthers, ToldPasses
  <2> QED BY <1>2, <1>3, <2>2 DEF Idle
<1>15. ASSUME NEW r \in Requests, NEW u \in Users, AskToBid(r, u) PROVE \A q \in Requests : CustKnown(q)'
  <2>1. Begin(r, "bid", u, None, {"cards"})
    BY <1>15 DEF AskToBid
  <2>2. Begun(req'[r], "bid", u, None, {"cards"}) /\ \A q \in Requests : q # r => req'[q] = req[q]
    BY <1>1, <2>1, Begins DEF Args, Kinds, FieldNames
  <2> QED BY <1>2, <1>3, <2>2, UntouchedPasses DEF Begun
<1>16. ASSUME NEW r \in Requests, NEW u \in Users, NEW kind \in CardKinds, ChangeCards(r, kind, u)
       PROVE  \A q \in Requests : CustKnown(q)'
  <2>1. PICK k \in Cards : Begin(r, kind, u, k, {"cards"})
    BY <1>16 DEF ChangeCards
  <2>2. kind # "add" => user[u].cust # None
    BY <1>16 DEF ChangeCards
  <2>3. k \in Args /\ kind \in Kinds /\ {"cards"} \subseteq FieldNames
    BY DEF Args, Kinds, CardKinds, FieldNames
  <2>4. Begun(req'[r], kind, u, k, {"cards"}) /\ \A q \in Requests : q # r => req'[q] = req[q]
    BY <1>1, <2>1, <2>3, Begins
  <2>5. CustKnown(r)'
    BY <2>2, <2>4 DEF CustKnown, Begun, CardKinds, DirtyAts
  <2> QED BY <1>3, <2>4, <2>5, UntouchedPasses
<1> QED
  BY <1>5, <1>6, <1>7, <1>8, <1>9, <1>11, <1>12, <1>13, <1>14, <1>15, <1>16 DEF CardStep, CardKinds, KeepForBid, Refuse

LEMMA CustStaysKnownAll ==
  ASSUME BaseInv, [Next]_accountVars
  PROVE  \A q \in Requests : CustKnown(q)'
<1>1. CASE UNCHANGED accountVars \/ CodeStep \/ LoginStep \/ TelStep \/ MailStep
  <2>1. Avoids(CardAts)
    BY <1>1, CardElsewhere
  <2>2. ASSUME NEW q \in Requests PROVE CustKnown(q)'
    <3>1. CASE Passed(q)
      BY <3>1, CustStaysKnown DEF BaseInv, Known
    <3>2. CASE req'[q].at \notin CardAts
      BY <3>2 DEF CustKnown, CardAts, CardKinds, DirtyAts
    <3> QED BY <2>1, <3>1, <3>2 DEF Avoids
  <2> QED BY <2>2
<1>2. CASE CardStep
  BY <1>2, CustKnownStep
<1>3. CASE Crash
  BY <1>3, CrashLeaves DEF BaseInv, CustKnown, Idle, CardKinds, DirtyAts
<1> QED BY <1>1, <1>2, <1>3, StepsAreOfOneKind

(***************************************************************************)
(* The theorems.                                                           *)
(***************************************************************************)
MailInv    == \A u \in Users : AddressProved(u)
AccountInv == BaseInv /\ MailInv /\ RefInv /\ NumInv /\ CardInv

LEMMA AccountsBegin ==
  ASSUME Init
  PROVE  AccountInv
<1>1. \A r \in Requests : req[r] = Idle
  BY DEF Init
<1>2. ASSUME NEW u \in Users
      PROVE  /\ user[u] \in Row /\ user[u].ref = FALSE /\ user[u].verified = FALSE
             /\ user[u].cust = None /\ user[u].cards = {} /\ user[u].former = None
  <2>1. PICK tel \in [Members -> Numbers] :
           user = [v \in Users |-> IF v \in Members THEN [Fresh EXCEPT !.tel = tel[v]] ELSE Fresh]
    BY DEF Init
  <2>2. CASE u \in Members
    <3>1. user[u] = [Fresh EXCEPT !.tel = tel[u]] /\ tel[u] \in Numbers
      BY <2>1, <2>2
    <3>2. \A t \in Numbers : LET x == [Fresh EXCEPT !.tel = t]
                             IN  /\ x \in Row /\ x.ref = FALSE /\ x.verified = FALSE
                                 /\ x.cust = None /\ x.cards = {} /\ x.former = None
      BY DEF Fresh, Row
    <3> QED BY <3>1, <3>2
  <2>3. CASE u \notin Members
    <3>1. user[u] = Fresh
      BY <2>1, <2>3
    <3> QED BY <3>1, FreshOK DEF Fresh
  <2> QED BY <2>2, <2>3
<1>3. AccountsOK
  <2>1. user \in [Users -> Row]
    BY <1>2 DEF Init
  <2>2. req \in [Requests -> Request]
    BY IdleOK DEF Init
  <2>3. held \in [Customers -> SUBSET Cards] /\ accounts \subseteq Users /\ tokens = {}
    BY MembersAreUsers DEF Init
  <2> QED BY <1>1, <2>1, <2>2, <2>3 DEF AccountsOK, TypeOK, Served1, TokensOK, Idle
<1>4. ASSUME NEW r \in Requests PROVE TelKnown(r) /\ MailKnown(r) /\ CustKnown(r) /\ RefKnown(r)
  BY <1>1 DEF TelKnown, MailKnown, CustKnown, RefKnown, Idle, TelAts, MailAts, DirtyAts, CardKinds
<1>5. BaseInv
  BY <1>3, <1>4 DEF BaseInv, Known
<1>6. MailInv
  BY <1>2 DEF MailInv, AddressProved
<1>7. RefInv
  <2>1. promos \in [Users -> Nat] /\ \A u \in Users : promos[u] = 0
    BY DEF Init
  <2>2. \A u \in Users : OneCode(u)
    BY <1>2, <2>1 DEF OneCode
  <2> QED BY <1>4, <2>1, <2>2 DEF RefInv
<1>8. NumInv
  BY <1>2, <1>3 DEF NumInv, AccountsOK, TypeOK
<1>9. CardInv
  <2>1. bids = {}
    BY DEF Init
  <2>2. ASSUME NEW r \in Requests PROVE RequestOK(r) /\ ~Changing(r)
    BY <1>1, OtherRequestsOK DEF Idle, CardAts, Changing, CardKinds, DirtyAts
  <2>3. \A u \in Users : Settled(u)
    BY <1>2, <2>1 DEF Settled, HeldOf
  <2>4. ASSUME NEW c \in Customers, NEW u PROVE ~Claimed(c, u)
    <3>1. c # None
      BY NoneIsNothing
    <3>2. u \in Users => user[u].cust # c
      BY <1>2, <3>1
    <3>3. \A r \in Requests : ~Changing(r)
      BY <2>2
    <3> QED BY <3>2, <3>3 DEF Claimed
  <2> QED BY <2>2, <2>3, <2>4 DEF CardInv, Apart
<1> QED BY <1>5, <1>6, <1>7, <1>8, <1>9 DEF AccountInv

LEMMA AccountsGoOn ==
  ASSUME AccountInv, [Next]_accountVars
  PROVE  AccountInv'
<1>1. AccountsOK'
  BY AccountsStayOK DEF AccountInv
<1>2. (\A q \in Requests : MailKnown(q)') /\ MailInv'
  BY MailStaysKnownAll DEF AccountInv, MailInv
<1>3. BaseInv'
  BY <1>1, <1>2, TelStaysKnownAll, CustStaysKnownAll DEF AccountInv, BaseInv, Known
<1> QED BY <1>2, <1>3, RefInvStep, NumInvStep, CardInvStep DEF AccountInv

\* Every reachable state of the accounts (users.js, userPaymentInfo.js): what a request that was
\* told of no write still knows of its row, and with it codes, addresses, numbers and cards.
THEOREM AccountInvariant == AccountSpec => []AccountInv
  BY AccountsBegin, AccountsGoOn, PTL DEF AccountSpec

\* A customer has one referral promotion, the one his row points to, however his log-ins
\* overlap with other requests, unless two of them overlapped.
THEOREM OneCodeEach == AccountSpec => []OneReferralCode
<1>1. AccountInv => OneReferralCode
  BY DEF AccountInv, RefInv, OneCode, OneReferralCode
<1> QED BY <1>1, AccountInvariant, PTL

\* An address is marked as verified only when its link was followed, whatever else is saved
\* of the row meanwhile, unless the address was changed under a link being followed.
THEOREM AddressesAreProved == AccountSpec => []VerifiedWasProved
<1>1. AccountInv => VerifiedWasProved
  BY DEF AccountInv, MailInv, BaseInv, AccountsOK, TypeOK, AddressProved, VerifiedWasProved
<1> QED BY <1>1, AccountInvariant, PTL

\* The number an account has lost was given to another account or is about to be, for any
\* number of accounts that move at once, but for the ways NumbersAreGivenOn names.
THEOREM NumbersPassOn == AccountSpec => []NumbersAreGivenOn
<1>1. AccountInv => NumbersAreGivenOn
  <2>1. SUFFICES ASSUME AccountInv, NEW u \in accounts, user[u].tel = None
                 PROVE  \/ Owner(user[u].former) # {} \/ user[u].former \in released
                        \/ \E r \in Requests : req[r].at = "give" /\ req[r].arg = user[u].former
    BY DEF NumbersAreGivenOn
  <2>2. user[u].former = None => u \in Owner(user[u].former)
    BY <2>1 DEF Owner
  <2> QED BY <2>1, <2>2 DEF AccountInv, NumInv, GivenOn
<1> QED BY <1>1, AccountInvariant, PTL

\* The saved cards are those Stripe holds, and a live bid has a card behind it, between the
\* requests that change them, for any number of customers and cards.
THEOREM SavedCardsAreKept == AccountSpec => []CardsAreKept
<1>1. AccountInv => CardsAreKept
  <2>1. SUFFICES ASSUME AccountInv, NEW u \in accounts, ~CardRequest(u), <<"cards", u>> \notin excuse
                 PROVE  /\ user[u].cards = (IF user[u].cust = None THEN {} ELSE held[user[u].cust])
                        /\ u \in bids => held[user[u].cust] # {}
    BY DEF CardsAreKept
  <2>2. u \in Users /\ Settled(u)
    BY <2>1 DEF AccountInv, BaseInv, AccountsOK, TypeOK, CardInv
  <2>3. ASSUME NEW q \in Requests, Dirty(q) PROVE req[q].user # u
    <3>1. req[q].kind \in {"add", "delete", "replace"}
      BY <2>1, <2>3, DirtyIsCard DEF AccountInv, CardInv, RequestOK, CardRead, CardKinds
    <3> QED BY <2>1, <3>1 DEF CardRequest
  <2> QED BY <2>1, <2>2, <2>3 DEF Settled, Excused, HeldOf
<1> QED BY <1>1, AccountInvariant, PTL

-----------------------------------------------------------------------------
(* Suggestions *)

\* Where an edit left no place, a trip is from nowhere.
SomeTrips  == [place : Places \cup {Nowhere}, hour : Hours]
Suggested  == [state : {"none", "live", "gone"}, trip : SomeTrips \cup {Nothing}, owner : Passengers \cup {Nothing},
               email : Mails \cup Devices \cup {Nothing}, travel : SomeTrips \cup {Nothing}]
Questions  == [trip : SomeTrips, had : SomeTrips \cup {Nothing}, late : BOOLEAN]
WebWaiting == [at : {"idle", "create", "edit"}, mail : Mails \cup {Nothing}, trip : Trips \cup {Nothing},
               id : Rows \cup {Nothing}, copy : Suggested]

SuggestTypeOK == /\ row \in [Rows -> Suggested]
                 /\ links \subseteq Mails \X Trips
                 /\ web \in [WebRequests -> WebWaiting]
                 /\ pending \in [Rows -> Seq(Questions)]

\* What a web request has counted or found before its next statement.
WebKnows(r) == /\ web[r].at = "create" => web[r].mail \in Mails /\ web[r].trip \in Trips
               /\ web[r].at = "edit" => web[r].id \in Rows /\ web[r].copy.trip \in SomeTrips

LiveHasTrip(i) == i \in Live => row[i].trip \in SomeTrips

AllLate(i)  == \A k \in DOMAIN pending[i] : pending[i][k].late
LastAsked(i)  == pending[i][Len(pending[i])]

\* The question asked last is about the trip of the row, unless it has been answered: then the
\* row has its travel time, and what is still to come is late.
TravelTold(i) ==
  i \in Live /\ row[i].email \in Mails /\ i \notin guessed =>
    \/ row[i].travel = row[i].trip /\ AllLate(i)
    \/ pending[i] # <<>> /\ ~LastAsked(i).late /\ LastAsked(i).trip = row[i].trip

SuggestInv == /\ SuggestTypeOK
              /\ \A r \in WebRequests : WebKnows(r)
              /\ \A i \in Rows : LiveHasTrip(i) /\ TravelTold(i)

\* A question leaves the list of those to come.
LEMMA Removed ==
  ASSUME NEW S, NEW s \in Seq(S), NEW k \in 1..Len(s)
  PROVE  /\ RemoveAt(s, k) \in Seq(S)
         /\ Len(RemoveAt(s, k)) = Len(s) - 1
         /\ \A n \in 1..(Len(s) - 1) : RemoveAt(s, k)[n] = IF n < k THEN s[n] ELSE s[n + 1]
<1> PICK before : before = SubSeq(s, 1, k - 1)  OBVIOUS
<1> PICK after : after = SubSeq(s, k + 1, Len(s))  OBVIOUS
<1>1. Len(s) \in Nat /\ k \in Int /\ 1 <= k /\ k <= Len(s) /\ \A n \in 1..Len(s) : s[n] \in S
  BY LenProperties, ElementOfSeq
<1>2. /\ before \in Seq(S) /\ Len(before) = k - 1
      /\ \A n \in 1..(k - 1) : before[n] = s[n]
  <2>1. \A n \in 1..(k - 1) : s[n] \in S  BY <1>1
  <2>2. /\ SubSeq(s, 1, k - 1) \in Seq(S)
        /\ Len(SubSeq(s, 1, k - 1)) = IF 1 <= k - 1 THEN (k - 1) - 1 + 1 ELSE 0
        /\ \A n \in 1..((k - 1) - 1 + 1) : SubSeq(s, 1, k - 1)[n] = s[1 + n - 1]
    BY <1>1, <2>1, SubSeqProperties, 1 \in Int, k - 1 \in Int
  <2>3. (k - 1) - 1 + 1 = k - 1 /\ \A n \in 1..(k - 1) : 1 + n - 1 = n  BY <1>1
  <2>4. \A n \in 1..(k - 1) : before[n] = s[n]  BY <2>2, <2>3
  <2> QED  BY <1>1, <2>2, <2>4
<1>3. /\ after \in Seq(S) /\ Len(after) = Len(s) - k
      /\ \A n \in 1..(Len(s) - k) : after[n] = s[k + n]
  <2>1. \A n \in (k + 1)..Len(s) : s[n] \in S  BY <1>1
  <2>2. /\ SubSeq(s, k + 1, Len(s)) \in Seq(S)
        /\ Len(SubSeq(s, k + 1, Len(s))) = IF k + 1 <= Len(s) THEN Len(s) - (k + 1) + 1 ELSE 0
        /\ \A n \in 1..(Len(s) - (k + 1) + 1) : SubSeq(s, k + 1, Len(s))[n] = s[k + 1 + n - 1]
    BY <1>1, <2>1, SubSeqProperties, k + 1 \in Int, Len(s) \in Int
  <2>3. Len(s) - (k + 1) + 1 = Len(s) - k /\ \A n \in 1..(Len(s) - k) : k + 1 + n - 1 = k + n  BY <1>1
  <2>4. \A n \in 1..(Len(s) - k) : after[n] = s[k + n]  BY <2>2, <2>3
  <2>5. after \in Seq(S)  BY <2>2
  <2>6. Len(after) = IF k + 1 <= Len(s) THEN Len(s) - k ELSE 0  BY <2>2, <2>3
  <2>7. Len(after) = Len(s) - k
    <3>1. CASE k + 1 <= Len(s)  BY <2>6, <3>1
    <3>2. CASE ~(k + 1 <= Len(s))
      <4>1. Len(s) - k = 0  BY <1>1, <3>2
      <4> QED  BY <2>6, <3>2, <4>1
    <3> QED  BY <3>1, <3>2
  <2> QED  BY <2>4, <2>5, <2>7
<1>4. RemoveAt(s, k) = before \o after  BY DEF RemoveAt
<1>5. /\ before \o after \in Seq(S) /\ Len(before \o after) = Len(s) - 1
      /\ \A n \in 1..(Len(s) - 1) : (before \o after)[n] = IF n <= k - 1 THEN before[n] ELSE after[n - (k - 1)]
  <2>1. /\ before \o after \in Seq(S) /\ Len(before \o after) = Len(before) + Len(after)
        /\ \A n \in 1..(Len(before) + Len(after)) :
             (before \o after)[n] = IF n <= Len(before) THEN before[n] ELSE after[n - Len(before)]
    <3>1. before \in Seq(S) /\ after \in Seq(S)  BY <1>2, <1>3
    <3> QED  BY <3>1, ConcatProperties
  <2>2. Len(before) + Len(after) = Len(s) - 1
    <3>1. Len(before) = k - 1 /\ Len(after) = Len(s) - k  BY <1>2, <1>3
    <3>2. (k - 1) + (Len(s) - k) = Len(s) - 1  BY <1>1
    <3> QED  BY <3>1, <3>2
  <2> QED  BY <1>2, <2>1, <2>2
<1>6. ASSUME NEW n \in 1..(Len(s) - 1)
      PROVE  (before \o after)[n] = IF n < k THEN s[n] ELSE s[n + 1]
  <2>1. CASE n < k
    <3>1. n \in 1..(k - 1) /\ n <= k - 1  BY <1>1, <2>1
    <3> QED  BY <1>2, <1>5, <2>1, <3>1
  <2>2. CASE ~(n < k)
    <3>1. n - (k - 1) \in 1..(Len(s) - k) /\ ~(n <= k - 1)  BY <1>1, <2>2
    <3>2. k + (n - (k - 1)) = n + 1  BY <1>1
    <3> QED  BY <1>3, <1>5, <2>2, <3>1, <3>2
  <2> QED  BY <2>1, <2>2
<1> QED  BY <1>4, <1>5, <1>6

\* An answer to the k-th question makes those asked before it late.
MarkedLate(s, k) == [n \in DOMAIN s |-> IF n < k THEN [s[n] EXCEPT !.late = TRUE] ELSE s[n]]

LEMMA AnswerTaken ==
  ASSUME NEW s \in Seq(Questions), NEW k \in DOMAIN s, NEW u, u = RemoveAt(MarkedLate(s, k), k)
  PROVE  /\ u \in Seq(Questions) /\ Len(u) = Len(s) - 1
         /\ \A n \in DOMAIN u : IF n < k THEN u[n].late ELSE u[n] = s[n + 1]
<1> PICK m : m = MarkedLate(s, k)  OBVIOUS
<1>1. DOMAIN s = 1..Len(s) /\ Len(s) \in Nat /\ \A n \in 1..Len(s) : s[n] \in Questions
  BY LenProperties, ElementOfSeq
<1>2. ASSUME NEW n \in 1..Len(s)
      PROVE  m[n] \in Questions /\ (n < k => m[n].late) /\ (~(n < k) => m[n] = s[n])
  <2>1. m[n] = IF n < k THEN [s[n] EXCEPT !.late = TRUE] ELSE s[n]  BY <1>1 DEF MarkedLate
  <2> QED  BY <1>1, <2>1 DEF Questions
<1>3. m \in Seq(Questions) /\ Len(m) = Len(s)
  <2>1. m \in [1..Len(s) -> Questions]  BY <1>1, <1>2 DEF MarkedLate
  <2> QED  BY <1>1, <2>1
<1>4. /\ u \in Seq(Questions) /\ Len(u) = Len(m) - 1
      /\ \A n \in 1..(Len(m) - 1) : u[n] = IF n < k THEN m[n] ELSE m[n + 1]
  <2>1. k \in 1..Len(m)  BY <1>1, <1>3
  <2> QED  BY <1>3, <2>1, Removed
<1>5. ASSUME NEW n \in DOMAIN u PROVE IF n < k THEN u[n].late ELSE u[n] = s[n + 1]
  <2>1. n \in 1..(Len(s) - 1)  BY <1>3, <1>4, LenProperties
  <2>2. u[n] = IF n < k THEN m[n] ELSE m[n + 1]  BY <1>3, <1>4, <2>1
  <2>3. n \in 1..Len(s) /\ n + 1 \in 1..Len(s) /\ (~(n < k) => ~(n + 1 < k))  BY <1>1, <2>1
  <2> QED  BY <1>2, <2>2, <2>3
<1> QED  BY <1>3, <1>4, <1>5

-----------------------------------------------------------------------------
(* Rows a step writes, and those it leaves. *)

SameRow(j) == /\ row'[j].state = row[j].state /\ row'[j].email = row[j].email
              /\ row'[j].trip = row[j].trip /\ row'[j].travel = row[j].travel

\* A row that is left alone is as it was told.
LEMMA ToldStays ==
  ASSUME NEW j \in Rows, LiveHasTrip(j), TravelTold(j), SameRow(j), pending'[j] = pending[j],
         j \in guessed => j \in guessed'
  PROVE  LiveHasTrip(j)' /\ TravelTold(j)'
<1>1. (j \in Live)' <=> j \in Live  BY DEF Live, SameRow
<1>2. LiveHasTrip(j)'  BY <1>1 DEF LiveHasTrip, SameRow
<1>3. TravelTold(j)'  BY <1>1 DEF TravelTold, SameRow, AllLate, LastAsked
<1> QED  BY <1>2, <1>3

\* A step that writes no row and asks and answers nothing.
LEMMA RowsStay ==
  ASSUME SuggestInv, \A j \in Rows : SameRow(j), UNCHANGED <<pending, guessed>>
  PROVE  \A j \in Rows : LiveHasTrip(j)' /\ TravelTold(j)'
BY ToldStays DEF SuggestInv

LEMMA TripWritten ==
  ASSUME SuggestTypeOK, NEW i \in Rows, NEW t \in SomeTrips, row' = [row EXCEPT ![i].trip = t]
  PROVE  /\ row' \in [Rows -> Suggested]
         /\ row'[i].state = row[i].state /\ row'[i].email = row[i].email
         /\ row'[i].travel = row[i].travel /\ row'[i].trip = t
         /\ \A j \in Rows : j # i => row'[j] = row[j]
<1>1. row \in [Rows -> Suggested]  BY DEF SuggestTypeOK
<1> PICK x : x = [row[i] EXCEPT !.trip = t]  OBVIOUS
<1>2. x \in Suggested /\ x.state = row[i].state /\ x.email = row[i].email /\ x.travel = row[i].travel /\ x.trip = t
  BY <1>1 DEF Suggested
<1>3. row' = [row EXCEPT ![i] = x]  BY <1>1
<1> QED  BY <1>1, <1>2, <1>3

LEMMA TravelWritten ==
  ASSUME SuggestTypeOK, NEW i \in Rows, NEW t \in SomeTrips, row' = [row EXCEPT ![i].travel = t]
  PROVE  /\ row' \in [Rows -> Suggested]
         /\ row'[i].state = row[i].state /\ row'[i].email = row[i].email
         /\ row'[i].travel = t /\ row'[i].trip = row[i].trip
         /\ \A j \in Rows : j # i => row'[j] = row[j]
<1>1. row \in [Rows -> Suggested]  BY DEF SuggestTypeOK
<1> PICK x : x = [row[i] EXCEPT !.travel = t]  OBVIOUS
<1>2. x \in Suggested /\ x.state = row[i].state /\ x.email = row[i].email /\ x.travel = t /\ x.trip = row[i].trip
  BY <1>1 DEF Suggested
<1>3. row' = [row EXCEPT ![i] = x]  BY <1>1
<1> QED  BY <1>1, <1>2, <1>3

LEMMA NewRow ==
  ASSUME SuggestTypeOK, NEW i \in Rows, NEW trip \in Trips, NEW who \in Passengers \cup {Nothing},
         NEW email \in Mails \cup Devices \cup {Nothing}, New(i, trip, who, email)
  PROVE  /\ row' \in [Rows -> Suggested]
         /\ row'[i].state = "live" /\ row'[i].trip = trip /\ row'[i].email = email
         /\ trip \in SomeTrips
         /\ \A j \in Rows : j # i => row'[j] = row[j]
<1>1. row \in [Rows -> Suggested]  BY DEF SuggestTypeOK
<1>2. trip \in SomeTrips  BY DEF Trips, SomeTrips
<1> PICK x : x = [state |-> "live", trip |-> trip, owner |-> who, email |-> email, travel |-> Nothing]  OBVIOUS
<1>3. x \in Suggested  BY <1>2 DEF Suggested
<1>4. row' = [row EXCEPT ![i] = x]  BY DEF New
<1> QED  BY <1>1, <1>2, <1>3, <1>4

\* The travel time of the row's own trip is asked for.
LEMMA AskedOf ==
  ASSUME SuggestTypeOK, NEW i \in Rows, NEW trip \in SomeTrips, NEW travel \in SomeTrips \cup {Nothing},
         Ask(i, trip, travel)
  PROVE  /\ pending' \in [Rows -> Seq(Questions)]
         /\ pending'[i] # <<>> /\ ~LastAsked(i)'.late /\ LastAsked(i)'.trip = trip
         /\ \A j \in Rows : j # i => pending'[j] = pending[j]
<1>1. pending \in [Rows -> Seq(Questions)]  BY DEF SuggestTypeOK
<1> PICK q : q = [trip |-> trip, had |-> travel, late |-> FALSE]  OBVIOUS
<1>2. q \in Questions  BY DEF Questions
<1>3. pending' = [pending EXCEPT ![i] = Append(pending[i], q)]  BY <1>1 DEF Ask
<1>4. /\ Append(pending[i], q) \in Seq(Questions) /\ Append(pending[i], q) # <<>>
      /\ Append(pending[i], q)[Len(Append(pending[i], q))] = q
  BY <1>1, <1>2, AppendProperties
<1>5. pending'[i] = Append(pending[i], q)  BY <1>1, <1>3
<1>6. LastAsked(i)' = q  BY <1>4, <1>5 DEF LastAsked
<1> QED  BY <1>1, <1>3, <1>4, <1>5, <1>6

LEMMA ToldWhenAsked ==
  ASSUME NEW i \in Rows, NEW trip \in SomeTrips,
         (i \in Live)' => row'[i].trip = trip,
         pending'[i] # <<>>, ~LastAsked(i)'.late, LastAsked(i)'.trip = trip
  PROVE  LiveHasTrip(i)' /\ TravelTold(i)'
BY DEF LiveHasTrip, TravelTold

\* A row of no web user says nothing of its travel time, nor one whose travel time was guessed.
LEMMA ToldOfNoMail ==
  ASSUME NEW i \in Rows, (i \in Live)' => row'[i].email \notin Mails \/ i \in guessed'
  PROVE  TravelTold(i)'
BY DEF TravelTold

LEMMA WebStays ==
  ASSUME UNCHANGED web
  PROVE  (\A r \in WebRequests : WebKnows(r)) => \A r \in WebRequests : WebKnows(r)'
BY DEF WebKnows

\* A web request takes a step.
LEMMA WebMoves ==
  ASSUME SuggestTypeOK, NEW r \in WebRequests, NEW q \in WebWaiting, web' = [web EXCEPT ![r] = q],
         q.at = "create" => q.mail \in Mails /\ q.trip \in Trips,
         q.at = "edit" => q.id \in Rows /\ q.copy.trip \in SomeTrips,
         \A x \in WebRequests : WebKnows(x)
  PROVE  web' \in [WebRequests -> WebWaiting] /\ \A x \in WebRequests : WebKnows(x)'
<1>1. web \in [WebRequests -> WebWaiting]  BY DEF SuggestTypeOK
<1>2. web'[r] = q /\ \A x \in WebRequests : x # r => web'[x] = web[x]  BY <1>1
<1> QED  BY <1>1, <1>2 DEF WebKnows

LEMMA IdleRequest == NoReq \in WebWaiting /\ NoReq.at = "idle" /\ NoRow \in Suggested
BY DEF NoReq, NoRow, WebWaiting, Suggested


\* What a step that writes one row has to keep.
LEMMA OneRow ==
  ASSUME SuggestInv, NEW i \in Rows, row' \in [Rows -> Suggested], pending' \in [Rows -> Seq(Questions)],
         \A j \in Rows : j # i => row'[j] = row[j] /\ pending'[j] = pending[j] /\ (j \in guessed => j \in guessed'),
         LiveHasTrip(i)', TravelTold(i)',
         links' \subseteq Mails \X Trips,
         web' \in [WebRequests -> WebWaiting], \A x \in WebRequests : WebKnows(x)'
  PROVE  SuggestInv'
<1>1. ASSUME NEW j \in Rows PROVE LiveHasTrip(j)' /\ TravelTold(j)'
  <2>1. CASE j = i  BY <2>1
  <2>2. CASE j # i
    <3>1. SameRow(j) /\ pending'[j] = pending[j] /\ (j \in guessed => j \in guessed')  BY <2>2 DEF SameRow
    <3> QED  BY <3>1, ToldStays DEF SuggestInv
  <2> QED  BY <2>1, <2>2
<1> QED  BY <1>1 DEF SuggestInv, SuggestTypeOK

\* What a step has to keep that writes no row.
LEMMA NoRowWritten ==
  ASSUME SuggestInv, UNCHANGED <<row, pending, guessed>>, links' \subseteq Mails \X Trips,
         web' \in [WebRequests -> WebWaiting], \A x \in WebRequests : WebKnows(x)'
  PROVE  SuggestInv'
<1>1. \A j \in Rows : LiveHasTrip(j)' /\ TravelTold(j)'  BY RowsStay DEF SameRow
<1> QED  BY <1>1 DEF SuggestInv, SuggestTypeOK

-----------------------------------------------------------------------------
(* The actions. *)

LEMMA SuggestInitially == SuggestInit => SuggestInv
<1> SUFFICES ASSUME SuggestInit PROVE SuggestInv  OBVIOUS
<1>1. \A i \in Rows : row[i] = NoRow /\ pending[i] = <<>>  BY DEF SuggestInit
<1>2. SuggestTypeOK  BY IdleRequest DEF SuggestInit, SuggestTypeOK
<1>3. ASSUME NEW r \in WebRequests PROVE WebKnows(r)
  <2>1. web[r].at = "idle"  BY IdleRequest DEF SuggestInit
  <2> QED  BY <2>1 DEF WebKnows
<1>4. ASSUME NEW i \in Rows PROVE LiveHasTrip(i) /\ TravelTold(i)
  <2>1. i \notin Live  BY <1>1 DEF Live, NoRow
  <2> QED  BY <2>1 DEF LiveHasTrip, TravelTold
<1> QED  BY <1>2, <1>3, <1>4 DEF SuggestInv

\* A suggestion by a user or a device is at no address.
LEMMA PostKeepsInv ==
  ASSUME SuggestInv, NEW agent \in Passengers \cup Devices, NEW i \in Rows, NEW trip \in Trips, Post(agent, i, trip)
  PROVE  SuggestInv'
<1> PICK who : who = IF agent \in Passengers THEN agent ELSE Nothing  OBVIOUS
<1> PICK email : email = IF agent \in Passengers THEN Nothing ELSE agent  OBVIOUS
<1>1. New(i, trip, who, email)  BY DEF Post
<1>2. who \in Passengers \cup {Nothing} /\ email \in Devices \cup {Nothing} /\ email \notin Mails  BY OwnersDiffer
<1>3. SuggestTypeOK  BY DEF SuggestInv
<1>4. /\ row' \in [Rows -> Suggested]
      /\ row'[i].state = "live" /\ row'[i].trip = trip /\ row'[i].email = email
      /\ trip \in SomeTrips
      /\ \A j \in Rows : j # i => row'[j] = row[j]
  BY <1>1, <1>2, <1>3, NewRow
<1>5. LiveHasTrip(i)'  BY <1>4 DEF LiveHasTrip
<1>6. TravelTold(i)'  BY <1>2, <1>4, ToldOfNoMail
<1> QED  BY <1>4, <1>5, <1>6, OneRow, WebStays DEF Post, SuggestInv, SuggestTypeOK

\* An edit that asks for no travel time, unless the row has no address, guesses it.
LEMMA PutKeepsInv ==
  ASSUME SuggestInv, NEW agent, NEW i \in Rows, NEW trip \in Trips, Put(agent, i, trip)
  PROVE  SuggestInv'
<1>1. SuggestTypeOK  BY DEF SuggestInv
<1>2. trip \in SomeTrips  BY DEF Trips, SomeTrips
<1>3. /\ row' \in [Rows -> Suggested]
      /\ row'[i].email = row[i].email /\ row'[i].trip = trip
      /\ \A j \in Rows : j # i => row'[j] = row[j]
  <2>1. row' = [row EXCEPT ![i].trip = trip]  BY DEF Put
  <2> QED  BY <1>1, <1>2, <2>1, TripWritten
<1>4. guessed' = IF row[i].email \in Mails THEN guessed \cup {i} ELSE guessed  BY DEF Put
<1>5. LiveHasTrip(i)'  BY <1>2, <1>3 DEF LiveHasTrip
<1>6. TravelTold(i)'  BY <1>3, <1>4, ToldOfNoMail
<1> QED  BY <1>3, <1>4, <1>5, <1>6, OneRow, WebStays DEF Put, SuggestInv, SuggestTypeOK

LEMMA GoneKeepsInv ==
  ASSUME SuggestInv, NEW i \in Rows, Gone(i), UNCHANGED <<links, web, asked>>
  PROVE  SuggestInv'
<1>1. SuggestTypeOK  BY DEF SuggestInv
<1> PICK gone : gone = [NoRow EXCEPT !.state = "gone"]  OBVIOUS
<1>2. gone \in Suggested /\ gone.state = "gone"  BY DEF NoRow, Suggested
<1>3. row' = [row EXCEPT ![i] = gone] /\ pending' = [pending EXCEPT ![i] = <<>>] /\ guessed' = guessed \ {i}
  BY DEF Gone
<1>4. /\ row' \in [Rows -> Suggested] /\ pending' \in [Rows -> Seq(Questions)]
      /\ row'[i] = gone
      /\ \A j \in Rows : j # i => row'[j] = row[j] /\ pending'[j] = pending[j]
  BY <1>1, <1>2, <1>3 DEF SuggestTypeOK
<1>5. (i \notin Live)'  BY <1>2, <1>4 DEF Live
<1>6. LiveHasTrip(i)' /\ TravelTold(i)'  BY <1>5 DEF LiveHasTrip, TravelTold
<1> QED  BY <1>3, <1>4, <1>6, OneRow, WebStays DEF SuggestInv, SuggestTypeOK

LEMMA DeanonymizeKeepsInv ==
  ASSUME SuggestInv, NEW d \in Devices, NEW u \in Passengers, Deanonymize(d, u)
  PROVE  SuggestInv'
<1>1. row \in [Rows -> Suggested]  BY DEF SuggestInv, SuggestTypeOK
<1>2. ASSUME NEW j \in Rows PROVE row'[j] \in Suggested /\ SameRow(j)
  <2>1. row'[j] = IF j \in Anonymous(d) THEN [row[j] EXCEPT !.owner = u] ELSE row[j]  BY DEF Deanonymize
  <2> QED  BY <1>1, <2>1 DEF Suggested, SameRow
<1>3. row' \in [Rows -> Suggested]  BY <1>2 DEF Deanonymize
<1>4. \A j \in Rows : LiveHasTrip(j)' /\ TravelTold(j)'  BY <1>2, RowsStay DEF Deanonymize
<1> QED  BY <1>3, <1>4, WebStays DEF Deanonymize, SuggestInv, SuggestTypeOK

LEMMA SendWebLinkKeepsInv ==
  ASSUME SuggestInv, NEW m \in Mails, NEW trip \in Trips, SendWebLink(m, trip)
  PROVE  SuggestInv'
BY NoRowWritten, WebStays DEF SendWebLink, SuggestInv, SuggestTypeOK

LEMMA CountPastKeepsInv ==
  ASSUME SuggestInv, NEW r \in WebRequests, NEW m \in Mails, NEW trip \in Trips, CountPast(r, m, trip)
  PROVE  SuggestInv'
<1> PICK q : q = [NoReq EXCEPT !.at = "create", !.mail = m, !.trip = trip]  OBVIOUS
<1>1. q \in WebWaiting /\ q.at = "create" /\ q.mail = m /\ q.trip = trip
  BY IdleRequest DEF NoReq, WebWaiting
<1>2. web' = [web EXCEPT ![r] = q]  BY DEF CountPast
<1>3. web' \in [WebRequests -> WebWaiting] /\ \A x \in WebRequests : WebKnows(x)'
  BY <1>1, <1>2, WebMoves DEF SuggestInv
<1> QED  BY <1>3, NoRowWritten DEF CountPast, SuggestInv, SuggestTypeOK

LEMMA FindToEditKeepsInv ==
  ASSUME SuggestInv, NEW r \in WebRequests, NEW m \in Mails, NEW i \in Rows, FindToEdit(r, m, i)
  PROVE  SuggestInv'
<1>1. row[i] \in Suggested  BY DEF SuggestInv, SuggestTypeOK
<1>2. row[i].trip \in SomeTrips  BY DEF FindToEdit, SuggestedBy, SuggestInv, LiveHasTrip
<1> PICK q : q = [NoReq EXCEPT !.at = "edit", !.id = i, !.copy = row[i]]  OBVIOUS
<1>3. q \in WebWaiting /\ q.at = "edit" /\ q.id = i /\ q.copy = row[i]
  BY <1>1, IdleRequest DEF NoReq, WebWaiting
<1>4. web' = [web EXCEPT ![r] = q]  BY DEF FindToEdit
<1>5. web' \in [WebRequests -> WebWaiting] /\ \A x \in WebRequests : WebKnows(x)'
  BY <1>2, <1>3, <1>4, WebMoves DEF SuggestInv
<1> QED  BY <1>5, NoRowWritten DEF FindToEdit, SuggestInv, SuggestTypeOK


\* A suggestion comes to be at an address, and its travel time is asked for.
LEMMA SuggestedOnTheWeb ==
  ASSUME SuggestInv, NEW i \in Rows, NEW m \in Mails, NEW trip \in Trips,
         New(i, trip, Nothing, m), Ask(i, trip, Nothing), guessed' = guessed, links' = links,
         web' \in [WebRequests -> WebWaiting], \A x \in WebRequests : WebKnows(x)'
  PROVE  SuggestInv'
<1>1. SuggestTypeOK  BY DEF SuggestInv
<1>2. /\ row' \in [Rows -> Suggested]
      /\ row'[i].state = "live" /\ row'[i].trip = trip
      /\ trip \in SomeTrips
      /\ \A j \in Rows : j # i => row'[j] = row[j]
  BY <1>1, NewRow
<1>3. /\ pending' \in [Rows -> Seq(Questions)]
      /\ pending'[i] # <<>> /\ ~LastAsked(i)'.late /\ LastAsked(i)'.trip = trip
      /\ \A j \in Rows : j # i => pending'[j] = pending[j]
  BY <1>1, <1>2, AskedOf
<1>4. LiveHasTrip(i)' /\ TravelTold(i)'  BY <1>2, <1>3, ToldWhenAsked
<1>5. links' \subseteq Mails \X Trips  BY <1>1 DEF SuggestTypeOK
<1> QED  BY <1>2, <1>3, <1>4, <1>5, OneRow

LEMMA FollowWebLinkKeepsInv ==
  ASSUME SuggestInv, NEW m \in Mails, NEW trip \in Trips, NEW i \in Rows, FollowWebLink(m, trip, i)
  PROVE  SuggestInv'
BY SuggestedOnTheWeb, WebStays DEF FollowWebLink, SuggestInv, SuggestTypeOK

LEMMA CreateCountedKeepsInv ==
  ASSUME SuggestInv, NEW r \in WebRequests, NEW i \in Rows, CreateCounted(r, i)
  PROVE  SuggestInv'
<1>1. web[r].mail \in Mails /\ web[r].trip \in Trips  BY DEF CreateCounted, SuggestInv, WebKnows
<1>2. web' = [web EXCEPT ![r] = NoReq]  BY DEF CreateCounted
<1>3. web' \in [WebRequests -> WebWaiting] /\ \A x \in WebRequests : WebKnows(x)'
  BY <1>2, IdleRequest, WebMoves DEF SuggestInv
<1> QED  BY <1>1, <1>3, SuggestedOnTheWeb DEF CreateCounted

\* An edit of a row that nobody touched since it was found writes the trip it asks about.
LEMMA WrittenOver ==
  ASSUME NEW now \in SomeTrips, NEW copy \in SomeTrips, NEW moved \in BOOLEAN, NEW h \in Hours,
         NEW new, new = Edited(copy, moved, h)
  PROVE  /\ new \in SomeTrips /\ Written(now, copy, new) \in SomeTrips
         /\ now = copy => Written(now, copy, new) = new
<1>1. new = [place |-> new.place, hour |-> new.hour] /\ new \in SomeTrips  BY DEF Edited, SomeTrips
<1>2. Written(now, copy, new) \in SomeTrips  BY <1>1 DEF Written, SomeTrips
<1>3. ASSUME now = copy PROVE Written(now, copy, new) = new
  <2>1. (IF new.place # copy.place \/ new.place = Nowhere THEN new.place ELSE now.place) = new.place  BY <1>3
  <2>2. (IF new.hour # copy.hour THEN new.hour ELSE now.hour) = new.hour  BY <1>3
  <2> QED  BY <1>1, <2>1, <2>2 DEF Written
<1> QED  BY <1>1, <1>2, <1>3

LEMMA SaveEditKeepsInv ==
  ASSUME SuggestInv, NEW r \in WebRequests, NEW moved \in BOOLEAN, NEW h \in Hours, SaveEdit(r, moved, h)
  PROVE  SuggestInv'
<1> PICK i : i = web[r].id  OBVIOUS
<1> PICK copy : copy = web[r].copy  OBVIOUS
<1> PICK new : new = Edited(copy.trip, moved, h)  OBVIOUS
<1>1. SuggestTypeOK  BY DEF SuggestInv
<1>2. i \in Rows /\ copy.trip \in SomeTrips  BY DEF SaveEdit, SuggestInv, WebKnows
<1>3. copy.travel \in SomeTrips \cup {Nothing}  BY <1>1 DEF SuggestTypeOK, WebWaiting, Suggested
<1>4. web' \in [WebRequests -> WebWaiting] /\ \A x \in WebRequests : WebKnows(x)'
  <2>1. web' = [web EXCEPT ![r] = NoReq]  BY DEF SaveEdit
  <2> QED  BY <2>1, IdleRequest, WebMoves DEF SuggestInv
<1>5. links' \subseteq Mails \X Trips  BY <1>1 DEF SaveEdit, SuggestTypeOK
<1>6. CASE i \in Live
  <2> PICK t : t = Written(row[i].trip, copy.trip, new)  OBVIOUS
  <2>1. row' = [row EXCEPT ![i].trip = t] /\ Ask(i, new, copy.travel)
    BY <1>6 DEF SaveEdit, AskAgain
  <2>2. guessed' = IF row[i] = copy THEN guessed ELSE guessed \cup {i}  BY <1>6 DEF SaveEdit
  <2>3. row[i].trip \in SomeTrips  BY <1>2, <1>6 DEF SuggestInv, LiveHasTrip
  <2>4. new \in SomeTrips /\ t \in SomeTrips /\ (row[i].trip = copy.trip => t = new)
    BY <1>2, <2>3, WrittenOver
  <2>5. /\ row' \in [Rows -> Suggested] /\ row'[i].trip = t
        /\ \A j \in Rows : j # i => row'[j] = row[j]
    <3>1. /\ row' = [row EXCEPT ![i] = [row[i] EXCEPT !.trip = t]]
          /\ i \in Rows /\ t \in SomeTrips
      BY <1>2, <2>1, <2>4
    <3>2. row' = [row EXCEPT ![i].trip = t]  BY <3>1
    <3> QED  BY <1>1, <3>1, <3>2, TripWritten
  <2>6. /\ pending' \in [Rows -> Seq(Questions)]
        /\ pending'[i] # <<>> /\ ~LastAsked(i)'.late /\ LastAsked(i)'.trip = new
        /\ \A j \in Rows : j # i => pending'[j] = pending[j]
    BY <1>1, <1>2, <1>3, <2>1, <2>4, AskedOf
  <2>7. LiveHasTrip(i)'  BY <2>4, <2>5 DEF LiveHasTrip
  <2>8. TravelTold(i)'
    <3>1. CASE row[i] = copy
      <4>1. row'[i].trip = new  BY <2>4, <2>5, <3>1
      <4> QED  BY <1>2, <2>4, <2>6, <4>1, ToldWhenAsked
    <3>2. CASE row[i] # copy
      <4>1. i \in guessed'  BY <2>2, <3>2
      <4> QED  BY <1>2, <4>1, ToldOfNoMail
    <3> QED  BY <3>1, <3>2
  <2> QED  BY <1>2, <1>4, <1>5, <2>2, <2>5, <2>6, <2>7, <2>8, OneRow
<1>7. CASE i \notin Live
  <2>1. UNCHANGED <<row, pending, asked, guessed>>  BY <1>7 DEF SaveEdit
  <2> QED  BY <1>4, <1>5, <2>1, NoRowWritten
<1> QED  BY <1>6, <1>7

-----------------------------------------------------------------------------
(* Answers. *)

NoneInTime(s)       == \A n \in DOMAIN s : s[n].late
LastInTime(s, trip) == s # <<>> /\ ~s[Len(s)].late /\ s[Len(s)].trip = trip

\* If an answer neither comes late nor leaves the row as it is, it is told of the row's trip, or
\* it is not to the question asked last, which stays.
LEMMA ToldByAnswer ==
  ASSUME NEW s \in Seq(Questions), NEW k \in DOMAIN s, NEW trip, ~s[k].late,
         NoneInTime(s) \/ LastInTime(s, trip)
  PROVE  \/ s[k].trip = trip /\ NoneInTime(RemoveAt(MarkedLate(s, k), k))
         \/ LastInTime(RemoveAt(MarkedLate(s, k), k), trip)
<1> PICK u : u = RemoveAt(MarkedLate(s, k), k)  OBVIOUS
<1>1. DOMAIN s = 1..Len(s) /\ Len(s) \in Nat  BY LenProperties
<1>2. /\ u \in Seq(Questions) /\ Len(u) = Len(s) - 1
      /\ \A n \in DOMAIN u : IF n < k THEN u[n].late ELSE u[n] = s[n + 1]
  BY AnswerTaken
<1>3. DOMAIN u = 1..(Len(s) - 1)  BY <1>2, LenProperties
<1>4. ~s[Len(s)].late /\ s[Len(s)].trip = trip  BY DEF NoneInTime, LastInTime
<1>5. CASE k = Len(s)
  <2>1. \A n \in DOMAIN u : n < k  BY <1>1, <1>3, <1>5
  <2> QED  BY <1>2, <1>4, <1>5, <2>1 DEF NoneInTime
<1>6. CASE k # Len(s)
  <2>1. Len(s) - 1 \in DOMAIN u /\ ~(Len(s) - 1 < k)  BY <1>1, <1>3, <1>6
  <2>2. (Len(s) - 1) + 1 = Len(s)  BY <1>1
  <2>3. u[Len(u)] = s[Len(s)]  BY <1>2, <2>1, <2>2
  <2>4. u # <<>>
    <3>1. Len(u) # 0  BY <1>1, <1>2, <1>6
    <3> QED  BY <3>1, EmptySeq
  <2> QED  BY <1>4, <2>3, <2>4 DEF LastInTime
<1> QED  BY <1>5, <1>6

LEMMA AnswerKeepsInv ==
  ASSUME SuggestInv, NEW i \in Rows, NEW k \in DOMAIN pending[i], Answer(i, k)
  PROVE  SuggestInv'
<1> PICK s : s = pending[i]  OBVIOUS
<1> PICK u : u = RemoveAt(MarkedLate(s, k), k)  OBVIOUS
<1> PICK a : a = s[k]  OBVIOUS
<1>1. SuggestTypeOK  BY DEF SuggestInv
<1>2. s \in Seq(Questions) /\ pending \in [Rows -> Seq(Questions)]  BY <1>1 DEF SuggestTypeOK
<1>3. a \in Questions
  <2>1. DOMAIN s = 1..Len(s)  BY <1>2, LenProperties
  <2> QED  BY <1>2, <2>1, ElementOfSeq
<1>4. pending' = [pending EXCEPT ![i] = u]
  BY <1>2 DEF Answer, Answered, MarkedLate
<1>5. u \in Seq(Questions)  BY <1>2, AnswerTaken
<1>6. /\ pending' \in [Rows -> Seq(Questions)] /\ pending'[i] = u
      /\ \A j \in Rows : j # i => pending'[j] = pending[j]
  BY <1>2, <1>4, <1>5
<1>7. guessed' = IF a.late \/ a.had = a.trip THEN guessed \cup {i} ELSE guessed  BY DEF Answer
<1>8. /\ row' \in [Rows -> Suggested]
      /\ row'[i].state = row[i].state /\ row'[i].email = row[i].email /\ row'[i].trip = row[i].trip
      /\ a.had # a.trip => row'[i].travel = a.trip
      /\ \A j \in Rows : j # i => row'[j] = row[j]
  <2>1. CASE a.had = a.trip
    <3>1. row' = row  BY <2>1 DEF Answer
    <3> QED  BY <1>1, <2>1, <3>1 DEF SuggestTypeOK
  <2>2. CASE a.had # a.trip
    <3>1. row' = [row EXCEPT ![i].travel = a.trip]  BY <2>2 DEF Answer
    <3>2. a.trip \in SomeTrips  BY <1>3 DEF Questions
    <3> QED  BY <1>1, <3>1, <3>2, TravelWritten
  <2> QED  BY <2>1, <2>2
<1>9. (i \in Live)' <=> i \in Live  BY <1>8 DEF Live
<1>10. LiveHasTrip(i)'  BY <1>8, <1>9 DEF SuggestInv, LiveHasTrip
<1>11. TravelTold(i)'
  <2> SUFFICES ASSUME i \in Live, row[i].email \in Mails, i \notin guessed'
               PROVE  \/ row'[i].travel = row'[i].trip /\ AllLate(i)'
                      \/ pending'[i] # <<>> /\ ~LastAsked(i)'.late /\ LastAsked(i)'.trip = row'[i].trip
    BY <1>8, <1>9 DEF TravelTold
  <2>1. i \notin guessed /\ ~a.late /\ row'[i].travel = a.trip  BY <1>7, <1>8
  <2>2. NoneInTime(s) \/ LastInTime(s, row[i].trip)
    BY <2>1 DEF SuggestInv, TravelTold, AllLate, LastAsked, NoneInTime, LastInTime
  <2>3. \/ s[k].trip = row[i].trip /\ NoneInTime(u)
        \/ LastInTime(u, row[i].trip)
    <3>1. k \in DOMAIN s /\ ~s[k].late  BY <2>1
    <3> QED  BY <1>2, <2>2, <3>1, ToldByAnswer
  <2> QED  BY <1>6, <1>8, <2>1, <2>3 DEF AllLate, LastAsked, NoneInTime, LastInTime
<1> QED  BY <1>1, <1>6, <1>7, <1>8, <1>10, <1>11, OneRow, WebStays DEF Answer, SuggestInv, SuggestTypeOK

LEMMA NoAnswerKeepsInv ==
  ASSUME SuggestInv, NEW i \in Rows, NEW k \in DOMAIN pending[i], NoAnswer(i, k)
  PROVE  SuggestInv'
<1> PICK s : s = pending[i]  OBVIOUS
<1> PICK u : u = RemoveAt(s, k)  OBVIOUS
<1>1. s \in Seq(Questions) /\ pending \in [Rows -> Seq(Questions)] /\ row \in [Rows -> Suggested]
  BY DEF SuggestInv, SuggestTypeOK
<1>2. u \in Seq(Questions)
  <2>1. k \in 1..Len(s)  BY <1>1, LenProperties
  <2> QED  BY <1>1, <2>1, Removed
<1>3. pending' = [pending EXCEPT ![i] = u] /\ guessed' = guessed \cup {i} /\ row' = row  BY DEF NoAnswer
<1>4. /\ pending' \in [Rows -> Seq(Questions)] /\ \A j \in Rows : j # i => pending'[j] = pending[j]
  BY <1>1, <1>2, <1>3
<1>5. LiveHasTrip(i)'  BY <1>3 DEF SuggestInv, LiveHasTrip, Live
<1>6. TravelTold(i)'  BY <1>3, ToldOfNoMail
<1> QED  BY <1>1, <1>3, <1>4, <1>5, <1>6, OneRow, WebStays DEF NoAnswer, SuggestInv, SuggestTypeOK

\* A restart forgets the questions, and every row that waited may have the wrong travel time.
LEMMA ServerStopsKeepsInv ==
  ASSUME SuggestInv, ServerStops
  PROVE  SuggestInv'
<1>1. /\ pending' = [i \in Rows |-> <<>>] /\ guessed' = guessed \cup Waiting
      /\ web' = [r \in WebRequests |-> NoReq] /\ UNCHANGED <<row, links>>
  BY DEF ServerStops
<1>2. SuggestTypeOK'  BY <1>1, IdleRequest DEF SuggestInv, SuggestTypeOK
<1>3. \A r \in WebRequests : WebKnows(r)'  BY <1>1, IdleRequest DEF WebKnows
<1>4. ASSUME NEW j \in Rows PROVE LiveHasTrip(j)' /\ TravelTold(j)'
  <2>1. SameRow(j)  BY <1>1 DEF SameRow
  <2>2. CASE j \in Waiting
    <3>1. LiveHasTrip(j)'  BY <1>1 DEF SuggestInv, LiveHasTrip, Live
    <3>2. TravelTold(j)'  BY <1>1, <2>2, ToldOfNoMail
    <3> QED  BY <3>1, <3>2
  <2>3. CASE j \notin Waiting
    <3>1. pending[j] = <<>> /\ pending'[j] = <<>>  BY <1>1, <2>3 DEF Waiting
    <3> QED  BY <1>1, <2>1, <3>1, ToldStays DEF SuggestInv
  <2> QED  BY <2>2, <2>3
<1> QED  BY <1>2, <1>3, <1>4 DEF SuggestInv

LEMMA SuggestStep == SuggestInv /\ [SuggestNext]_suggestionVars => SuggestInv'
<1> SUFFICES ASSUME SuggestInv, [SuggestNext]_suggestionVars PROVE SuggestInv'  OBVIOUS
<1>1. ASSUME NEW i \in Rows, NEW trip \in Trips, NEW agent \in Passengers \cup Devices, Post(agent, i, trip)
      PROVE  SuggestInv'
  BY <1>1, PostKeepsInv
<1>2. ASSUME NEW i \in Rows, NEW trip \in Trips, NEW agent, Put(agent, i, trip)
      PROVE  SuggestInv'
  BY <1>2, PutKeepsInv
<1>3. ASSUME NEW i \in Rows, NEW agent, DeleteSuggestion(agent, i) \/ DeleteOwn(agent, i)
      PROVE  SuggestInv'
  BY <1>3, GoneKeepsInv DEF DeleteSuggestion, DeleteOwn
<1>4. ASSUME NEW i \in Rows, NEW m \in Mails, NEW trip \in Trips, FollowWebLink(m, trip, i)
      PROVE  SuggestInv'
  BY <1>4, FollowWebLinkKeepsInv
<1>5. ASSUME NEW i \in Rows, NEW r \in WebRequests, CreateCounted(r, i) \/ \E m \in Mails : FindToEdit(r, m, i)
      PROVE  SuggestInv'
  BY <1>5, CreateCountedKeepsInv, FindToEditKeepsInv
<1>6. ASSUME NEW d \in Devices, NEW u \in Passengers, Deanonymize(d, u)
      PROVE  SuggestInv'
  BY <1>6, DeanonymizeKeepsInv
<1>7. ASSUME NEW m \in Mails, NEW trip \in Trips,
             SendWebLink(m, trip) \/ \E r \in WebRequests : CountPast(r, m, trip)
      PROVE  SuggestInv'
  BY <1>7, SendWebLinkKeepsInv, CountPastKeepsInv
<1>8. ASSUME NEW r \in WebRequests, NEW moved \in BOOLEAN, NEW h \in Hours, SaveEdit(r, moved, h)
      PROVE  SuggestInv'
  BY <1>8, SaveEditKeepsInv
<1>9. ASSUME NEW i \in Rows, NEW k \in DOMAIN pending[i], Answer(i, k) \/ NoAnswer(i, k)
      PROVE  SuggestInv'
  BY <1>9, AnswerKeepsInv, NoAnswerKeepsInv
<1>10. ASSUME ServerStops PROVE SuggestInv'  BY <1>10, ServerStopsKeepsInv
<1>11. ASSUME UNCHANGED suggestionVars PROVE SuggestInv'
  BY <1>11, NoRowWritten, WebStays DEF suggestionVars, SuggestInv, SuggestTypeOK
<1> QED  BY <1>1, <1>2, <1>3, <1>4, <1>5, <1>6, <1>7, <1>8, <1>9, <1>10, <1>11 DEF SuggestNext

\* Every reachable state of the suggestions (suggestions.js and suggestionsWeb.js).
THEOREM SuggestionInvariant == SuggestionSpec => []SuggestInv
BY SuggestInitially, SuggestStep, PTL DEF SuggestionSpec

\* The travel time of a web suggestion is that of its trip, or is still to come, or one of the
\* ways it can be wrong has happened (updateTravelTime in suggestionsWeb.js).
THEOREM TravelTimesFit == SuggestionSpec => []TravelTimeFitsTrip
<1>1. ASSUME SuggestInv PROVE TravelTimeFitsTrip
  BY <1>1 DEF SuggestInv, TravelTold, TravelTimeFitsTrip, Live
<1> QED  BY <1>1, SuggestionInvariant, PTL
===============================================================================
