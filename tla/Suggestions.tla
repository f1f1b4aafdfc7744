------------------------------ MODULE Suggestions ------------------------------
(***************************************************************************)
(* Suggestions for routes: those of registered users and of anonymous      *)
(* devices, and those of the web site, which belong to an e-mail address.  *)
(*                                                                         *)
(* A suggestion made or edited on the web asks an external service for the *)
(* travel time and does not wait for it: answers arrive in any order, late *)
(* or never, and each is saved through the copy of the row it was asked    *)
(* with.  The number of suggestions of an address is counted before one is *)
(* added, in another statement.                                            *)
(*                                                                         *)
(* Left out: reading and searching, the referrer and the means of travel.  *)
(***************************************************************************)
EXTENDS Naturals, FiniteSets, SequencesExt

CONSTANTS
  Rows,        \* rows of the table suggestions
  Passengers, Devices, Admin,
  Mails,      \* addresses of web users; another kind than the addresses made of devices
  Places,     \* where trips may start and end
  Nowhere,    \* what is left of a place when its latitude is lost
  Hours,      \* times of the day
  Nothing,    \* null
  Limit,      \* suggestions an address may add, 5
  WebRequests,\* web requests that may overlap
  MaxAsks,    \* bound on the travel times asked for
  MaxLinks    \* bound on the links sent

ASSUME OwnersDiffer    == Passengers \cap Devices = {} /\ Mails \cap (Devices \cup {Nothing}) = {} /\ Admin \notin Passengers \cup Devices
ASSUME NowhereIsNoPlace == Nowhere \notin Places
ASSUME NumbersAreNat   == Hours \subseteq Nat /\ {Limit, MaxAsks, MaxLinks} \subseteq Nat

VARIABLES
  row,        \* table suggestions
  links,      \* signed links sent by e-mail, good for 30 days and any number of times
  web,        \* web requests between two statements
  pending,    \* travel times asked for and not answered, of each row, the oldest first
  asked,      \* how many were asked for
  guessed     \* history: rows whose travel time may be that of another trip

suggestionVars == <<row, links, web, pending, asked, guessed>>

Trips    == [place : Places, hour : Hours]
NoRow    == [state |-> "none", trip |-> Nothing, owner |-> Nothing, email |-> Nothing, travel |-> Nothing]
NoReq    == [at |-> "idle", mail |-> Nothing, trip |-> Nothing, id |-> Nothing, copy |-> NoRow]

SuggestInit ==
  /\ row = [i \in Rows |-> NoRow]
  /\ links = {}
  /\ web = [r \in WebRequests |-> NoReq]
  /\ pending = [i \in Rows |-> <<>>]
  /\ asked = 0
  /\ guessed = {}

Live    == {i \in Rows : row[i].state = "live"}
Waiting == {i \in Rows : pending[i] # <<>>}

New(i, trip, owner, email) ==
  /\ row[i].state = "none"
  /\ row' = [row EXCEPT ![i] = [state |-> "live", trip |-> trip, owner |-> owner,
                                email |-> email, travel |-> Nothing]]

(***************************************************************************)
(* Suggestions of users and devices.                                       *)
(***************************************************************************)
Anonymous(d) == {i \in Live : row[i].email = d /\ row[i].owner = Nothing}

\* authenticateAgent: the rows somebody may change.
Authorized(agent) ==
  CASE agent \in Devices -> Anonymous(agent)
    [] agent \in Passengers   -> {i \in Live : row[i].owner = agent}
    [] OTHER             -> Live

\* POST /suggestions
Post(agent, i, trip) ==
  /\ New(i, trip, IF agent \in Passengers THEN agent ELSE Nothing, IF agent \in Passengers THEN Nothing ELSE agent)
  /\ UNCHANGED <<links, web, pending, asked, guessed>>

\* PUT /suggestions/{id}: the travel time is left as it is.
Put(agent, i, trip) ==
  /\ i \in Authorized(agent)
  /\ row' = [row EXCEPT ![i].trip = trip]
  /\ guessed' = IF row[i].email \in Mails THEN guessed \cup {i} ELSE guessed
  /\ UNCHANGED <<links, web, pending, asked>>

\* Answers still to come for the row will find nothing to update.
Gone(i) ==
  /\ row' = [row EXCEPT ![i] = [NoRow EXCEPT !.state = "gone"]]
  /\ pending' = [pending EXCEPT ![i] = <<>>]
  /\ guessed' = guessed \ {i}

\* DELETE /suggestions/{id}
DeleteSuggestion(agent, i) ==
  /\ i \in Authorized(agent)
  /\ Gone(i)
  /\ UNCHANGED <<links, web, asked>>

\* POST /suggestions/deanonymize
Deanonymize(d, u) ==
  /\ Anonymous(d) # {}
  /\ row' = [i \in Rows |-> IF i \in Anonymous(d) THEN [row[i] EXCEPT !.owner = u] ELSE row[i]]
  /\ UNCHANGED <<links, web, pending, asked, guessed>>

(***************************************************************************)
(* Suggestions of the web site.                                            *)
(***************************************************************************)
SuggestedBy(m) == {i \in Live : row[i].email = m}

\* updateTravelTime, with an instance of the row that holds this trip and travel time.
Ask(i, trip, travel) ==
  /\ asked < MaxAsks
  /\ asked' = asked + 1
  /\ pending' = [pending EXCEPT ![i] = Append(@, [trip |-> trip, had |-> travel, late |-> FALSE])]

\* POST /suggestions/web without verification
SendWebLink(m, trip) ==
  /\ Cardinality(links) < MaxLinks
  /\ links' = links \cup {<<m, trip>>}
  /\ UNCHANGED <<row, web, pending, asked, guessed>>

\* GET /suggestions/web/verify
FollowWebLink(m, trip, i) ==
  /\ <<m, trip>> \in links
  /\ New(i, trip, Nothing, m)
  /\ Ask(i, trip, Nothing)
  /\ UNCHANGED <<links, web, guessed>>

Allowed(m) == Cardinality(SuggestedBy(m)) < Limit

\* POST /suggestions/web with an address verified by another provider: count, then create.
CountPast(r, m, trip) ==
  /\ web[r].at = "idle"
  /\ Allowed(m)
  /\ web' = [web EXCEPT ![r] = [NoReq EXCEPT !.at = "create", !.mail = m, !.trip = trip]]
  /\ UNCHANGED <<row, links, pending, asked, guessed>>

CreateCounted(r, i) ==
  /\ web[r].at = "create"
  /\ New(i, web[r].trip, Nothing, web[r].mail)
  /\ Ask(i, web[r].trip, Nothing)
  /\ web' = [web EXCEPT ![r] = NoReq]
  /\ UNCHANGED <<links, guessed>>

\* PUT /suggestions/web/{id}: find, then update.
FindToEdit(r, m, i) ==
  /\ web[r].at = "idle"
  /\ i \in SuggestedBy(m)
  /\ web' = [web EXCEPT ![r] = [NoReq EXCEPT !.at = "edit", !.id = i, !.copy = row[i]]]
  /\ UNCHANGED <<row, links, pending, asked, guessed>>

\* What the instance holds after the edit: a new board or alight stop gets its longitude
\* twice, and midnight counts as no time at all.
Edited(trip, moved, h) ==
  [place |-> IF moved THEN Nowhere ELSE trip.place, hour |-> IF h = 0 THEN trip.hour ELSE h]

\* An edit writes the fields it changes, over whatever the row holds by now.
Written(now, copy, new) ==
  [place |-> IF new.place # copy.place \/ new.place = Nowhere THEN new.place ELSE now.place,
   hour  |-> IF new.hour  # copy.hour  THEN new.hour  ELSE now.hour]

\* Mutant of AskAgain: nothing is asked for after an edit.
AskNothing(i, trip, travel) == UNCHANGED <<pending, asked>>
AskAgain(i, trip, travel)   == Ask(i, trip, travel)

SaveEdit(r, moved, h) ==
  LET i    == web[r].id
      copy == web[r].copy
      new  == Edited(copy.trip, moved, h)
  IN  /\ web[r].at = "edit"
      /\ IF i \in Live
         THEN /\ row' = [row EXCEPT ![i].trip = Written(row[i].trip, copy.trip, new)]
              /\ AskAgain(i, new, copy.travel)
              /\ guessed' = IF row[i] = copy THEN guessed ELSE guessed \cup {i}
         ELSE UNCHANGED <<row, pending, asked, guessed>>
      /\ web' = [web EXCEPT ![r] = NoReq]
      /\ UNCHANGED <<links>>

\* DELETE /suggestions/web/{id}
DeleteOwn(m, i) ==
  /\ i \in SuggestedBy(m)
  /\ Gone(i)
  /\ UNCHANGED <<links, web, asked>>

\* One answer less to wait for; those asked for before it will come late.
Answered(i, k) ==
  pending' = [pending EXCEPT ![i] =
                RemoveAt([n \in DOMAIN @ |-> IF n < k THEN [@[n] EXCEPT !.late = TRUE] ELSE @[n]], k)]

\* The directions arrive; nothing is written if the instance had the same travel time.
Answer(i, k) ==
  LET a == pending[i][k]
  IN  /\ a.trip.place # Nowhere
      /\ Answered(i, k)
      /\ IF a.had = a.trip
         THEN UNCHANGED row
         ELSE row' = [row EXCEPT ![i].travel = a.trip]
      /\ guessed' = IF a.late \/ a.had = a.trip THEN guessed \cup {i} ELSE guessed
      /\ UNCHANGED <<links, web, asked>>

\* The service fails, or knows no route, as from nowhere.
NoAnswer(i, k) ==
  /\ pending' = [pending EXCEPT ![i] = RemoveAt(@, k)]
  /\ guessed' = guessed \cup {i}
  /\ UNCHANGED <<row, links, web, asked>>

ServerStops ==
  /\ Waiting # {} \/ \E r \in WebRequests : web[r] # NoReq
  /\ pending' = [i \in Rows |-> <<>>]
  /\ guessed' = guessed \cup Waiting
  /\ web' = [r \in WebRequests |-> NoReq]
  /\ UNCHANGED <<row, links, asked>>

SuggestNext ==
  \/ \E i \in Rows :
       \/ \E trip \in Trips, agent \in Passengers \cup Devices : Post(agent, i, trip)
       \/ \E trip \in Trips, agent \in Passengers \cup Devices \cup {Admin} : Put(agent, i, trip)
       \/ \E agent \in Passengers \cup Devices \cup {Admin} : DeleteSuggestion(agent, i)
       \/ \E m \in Mails : DeleteOwn(m, i) \/ \E trip \in Trips : FollowWebLink(m, trip, i)
       \/ \E r \in WebRequests : CreateCounted(r, i) \/ \E m \in Mails : FindToEdit(r, m, i)
  \/ \E d \in Devices, u \in Passengers : Deanonymize(d, u)
  \/ \E m \in Mails, trip \in Trips : SendWebLink(m, trip) \/ \E r \in WebRequests : CountPast(r, m, trip)
  \/ \E r \in WebRequests, moved \in BOOLEAN, h \in Hours : SaveEdit(r, moved, h)
  \/ \E i \in Rows : \E k \in DOMAIN pending[i] : Answer(i, k) \/ NoAnswer(i, k)
  \/ ServerStops

SuggestionSpec == SuggestInit /\ [][SuggestNext]_suggestionVars

(***************************************************************************)
(* Properties                                                              *)
(***************************************************************************)
\* The travel time of a web suggestion is that of its trip once all answers are in, unless
\* an answer was lost or overtaken by the one to a later question, or was the same as the
\* copy it was saved through, or the trip was edited meanwhile or by an administrator.
TravelTimeFitsTrip ==
  \A i \in Live :
    row[i].email \in Mails =>
      \/ row[i].travel = row[i].trip
      \/ pending[i] # <<>>
      \/ i \in guessed
===============================================================================
