--------------------------- MODULE Monitoring_proofs ---------------------------
(***************************************************************************)
(* Theorems about the monitoring daemon: about Monitoring for every number *)
(* of servers, monitors, rows, keys and calls, and every number of faults; *)
(* then about TripStatus, what the daemon says of one trip, for every list *)
(* of stops, map of distances and number of pings and bookings.            *)
(*                                                                         *)
(* The variables of Monitoring fall into two halves: the subscriptions     *)
(* each process has in memory (busVars), and the alerts (alertVars).  All  *)
(* steps but the death of a monitor change one half only, and each         *)
(* invariant is about one half; AlertsReachSubscribers alone joins them.   *)
(*                                                                         *)
(* Of TripStatus, the invariant of the last part remembers which pings the *)
(* status that saw the bus arrive was made of: they are the earliest ones. *)
(***************************************************************************)
EXTENDS Monitoring, TripStatus, WellFoundedInduction, TLAPS

BusStep ==
  \/ \E p \in Procs : LoopStep(p) \/ LoopFails(p)
  \/ \E s \in Servers, b \in Subs, r \in Reloads : Edit(s, b, r)
  \/ \E r \in Reloads : ReloadRead(r) \/ ReloadApply(r) \/ ReloadFails(r)

AlertStep ==
  \/ Tick
  \/ \E m \in Monitors, k \in Keys, t \in Tasks : PollPings(m, k, t)
  \/ \E m \in Monitors : FirstPollFails(m) \/ MonitorDies(m)
  \/ \E t \in Tasks : Lookup(t) \/ Announce(t) \/ Repeat(t) \/ Ignore(t) \/ SaveAlert(t) \/ SaveFails(t) \/ TaskFails(t)

\* Every step is on one side of the daemon or the other.
LEMMA TwoSides ==
  ASSUME [MonNext]_monVars
  PROVE  UNCHANGED monVars \/ BusStep \/ AlertStep
  BY DEF MonNext, BusStep, AlertStep

LEMMA BusStepsLeaveAlerts ==
  ASSUME BusStep
  PROVE  UNCHANGED alertVars
  BY DEF BusStep, LoopStep, LoopRead, LoopApply, LoopWake, LoopFails, Edit, ReloadRead, ReloadApply, ReloadFails

(***************************************************************************)
(* The subscriptions in memory.                                            *)
(***************************************************************************)
LoopSteps == {"starting", "started", "waiting", "asked", "read", "dead"}
ReloadSteps == {"free", "asked", "read"}

BusTypeOK ==
  /\ table \subseteq Subs
  /\ listener \in [Procs -> [Subs -> 0 .. 1]]
  /\ loop \in [Procs -> LoopSteps]
  /\ list \in [Procs -> SUBSET Subs]
  /\ reload \in [Reloads -> [proc : Procs \cup {"none"}, step : ReloadSteps, rows : SUBSET Subs]]

\* The rows that were valid at the start and that nobody has touched.
Settled == (table \ Bad) \ edited

(* Whatever a process has read, and however long ago, holds these rows; the
   listeners it has installed hear them. *)
ListsHoldSettled == \A p \in Procs : loop[p] \in {"started", "read"} => Settled \subseteq list[p]
ReloadsHoldSettled == \A r \in Reloads : reload[r].step = "read" => Settled \subseteq reload[r].rows
SettledIsHeard ==
  \A p \in Procs, b \in Settled : loop[p] \in {"waiting", "asked", "read"} => listener[p][b] = 1

BusInv == BusTypeOK /\ ListsHoldSettled /\ ReloadsHoldSettled /\ SettledIsHeard

LEMMA BusInitially == ASSUME MonInit PROVE BusInv
<1>1. BusTypeOK
  BY KindsAreSubsets DEF MonInit, BusTypeOK, NoReload, LoopSteps, ReloadSteps
<1>2. ListsHoldSettled /\ ReloadsHoldSettled /\ SettledIsHeard
  BY DEF MonInit, ListsHoldSettled, ReloadsHoldSettled, SettledIsHeard, NoReload
<1> QED BY <1>1, <1>2 DEF BusInv

\* Rows only ever leave the set.
LEMMA SettledShrinks ==
  ASSUME NEW s, NEW b, NEW r, Edit(s, b, r)
  PROVE  Settled' \subseteq Settled
  BY DEF Edit, Settled

\* setSubscriptionList on rows that hold the settled ones.
LEMMA ListIsInstalled ==
  ASSUME BusTypeOK, NEW p \in Procs, NEW rows \in SUBSET Subs, Settled \subseteq rows,
         SetSubscriptionList(p, rows)
  PROVE  /\ listener' \in [Procs -> [Subs -> 0 .. 1]]
         /\ \A q \in Procs, b \in Settled : listener'[q][b] = IF q = p THEN 1 ELSE listener[q][b]
<1>1. NewListeners(listener[p], rows) \in [Subs -> 0 .. 1]
  BY DEF NewListeners
<1>2. listener' = [listener EXCEPT ![p] = NewListeners(listener[p], rows)]
  BY DEF SetSubscriptionList
<1>3. \A b \in Settled : NewListeners(listener[p], rows)[b] = 1
  BY DEF Settled, BusTypeOK, NewListeners
<1> QED BY <1>1, <1>2, <1>3 DEF BusTypeOK

LEMMA LoopStepBus ==
  ASSUME BusInv, NEW p \in Procs, LoopStep(p) \/ LoopFails(p)
  PROVE  BusInv'
<1>0. BusTypeOK /\ ListsHoldSettled /\ ReloadsHoldSettled /\ SettledIsHeard
  BY DEF BusInv
<1>1. Settled' = Settled /\ reload' = reload /\ table' = table
  BY DEF LoopStep, LoopRead, LoopApply, LoopWake, LoopFails, Settled
<1>2. ReloadsHoldSettled'
  BY <1>0, <1>1 DEF ReloadsHoldSettled
<1>3. CASE LoopRead(p)
  <2>1. BusTypeOK'
    BY <1>0, <1>3 DEF BusTypeOK, LoopRead, LoopSteps
  <2>2. ListsHoldSettled'
    BY <1>0, <1>1, <1>3 DEF BusTypeOK, LoopRead, ListsHoldSettled, Settled
  <2>3. SettledIsHeard'
    BY <1>0, <1>1, <1>3 DEF BusTypeOK, LoopRead, SettledIsHeard
  <2> QED BY <1>2, <2>1, <2>2, <2>3 DEF BusInv
<1>4. CASE LoopApply(p)
  <2>1. Settled \subseteq list[p] /\ list[p] \in SUBSET Subs /\ SetSubscriptionList(p, list[p])
    BY <1>0, <1>4 DEF BusTypeOK, LoopApply, ListsHoldSettled
  <2>2. /\ listener' \in [Procs -> [Subs -> 0 .. 1]]
        /\ \A q \in Procs, b \in Settled : listener'[q][b] = IF q = p THEN 1 ELSE listener[q][b]
    BY <1>0, <2>1, ListIsInstalled
  <2>3. BusTypeOK'
    BY <1>0, <1>4, <2>2 DEF BusTypeOK, LoopApply, LoopSteps
  <2>4. ListsHoldSettled'
    BY <1>0, <1>1, <1>4 DEF BusTypeOK, LoopApply, ListsHoldSettled
  <2>5. SettledIsHeard'
    BY <1>0, <1>1, <1>4, <2>2 DEF BusTypeOK, LoopApply, SettledIsHeard
  <2> QED BY <1>2, <2>3, <2>4, <2>5 DEF BusInv
<1>5. CASE LoopWake(p) \/ LoopFails(p)
  <2>1. BusTypeOK'
    BY <1>0, <1>5 DEF BusTypeOK, LoopWake, LoopFails, AfterError, LoopSteps
  <2>2. ListsHoldSettled'
    BY <1>0, <1>1, <1>5 DEF BusTypeOK, LoopWake, LoopFails, AfterError, ListsHoldSettled
  <2>3. SettledIsHeard'
    BY <1>0, <1>1, <1>5 DEF BusTypeOK, LoopWake, LoopFails, AfterError, SettledIsHeard
  <2> QED BY <1>2, <2>1, <2>2, <2>3 DEF BusInv
<1> QED BY <1>3, <1>4, <1>5 DEF LoopStep

LEMMA EditBus ==
  ASSUME BusInv, NEW s \in Servers, NEW b \in Subs, NEW r \in Reloads, Edit(s, b, r)
  PROVE  BusInv'
<1>0. BusTypeOK /\ ListsHoldSettled /\ ReloadsHoldSettled /\ SettledIsHeard
  BY DEF BusInv
<1>1. Settled' \subseteq Settled
  BY SettledShrinks
<1>2. BusTypeOK'
  BY <1>0 DEF BusTypeOK, Edit, ReloadSteps, Procs
<1>3. ListsHoldSettled'
  BY <1>0, <1>1 DEF Edit, ListsHoldSettled
<1>4. ReloadsHoldSettled'
  BY <1>0, <1>1 DEF BusTypeOK, Edit, ReloadsHoldSettled
<1>5. SettledIsHeard'
  BY <1>0, <1>1 DEF Edit, SettledIsHeard
<1> QED BY <1>2, <1>3, <1>4, <1>5 DEF BusInv

LEMMA ReloadBus ==
  ASSUME BusInv, NEW r \in Reloads, ReloadRead(r) \/ ReloadApply(r) \/ ReloadFails(r)
  PROVE  BusInv'
<1>0. BusTypeOK /\ ListsHoldSettled /\ ReloadsHoldSettled /\ SettledIsHeard
  BY DEF BusInv
<1>1. Settled' = Settled /\ table' = table /\ loop' = loop /\ list' = list
  BY DEF ReloadRead, ReloadApply, ReloadFails, Settled
<1>2. ListsHoldSettled'
  BY <1>0, <1>1 DEF ListsHoldSettled
<1>3. CASE ReloadRead(r) \/ ReloadFails(r)
  <2>0. /\ reload' \in [Reloads -> [proc : Procs \cup {"none"}, step : ReloadSteps, rows : SUBSET Subs]]
        /\ \A q \in Reloads : reload'[q].step = "read" => IF q = r THEN reload'[q].rows = table ELSE reload'[q] = reload[q]
    <3>1. CASE ReloadRead(r)
      <4>1. PICK row : row = [reload[r] EXCEPT !.step = "read", !.rows = table]
        OBVIOUS
      <4>2. reload' = [reload EXCEPT ![r] = row]
        BY <3>1, <4>1 DEF ReloadRead
      <4>3. row \in [proc : Procs \cup {"none"}, step : ReloadSteps, rows : SUBSET Subs] /\ row.rows = table
        BY <1>0, <4>1 DEF BusTypeOK, ReloadSteps
      <4> QED BY <1>0, <4>2, <4>3 DEF BusTypeOK
    <3>2. CASE ReloadFails(r)
      BY <1>0, <3>2 DEF BusTypeOK, ReloadFails, NoReload, ReloadSteps
    <3> QED BY <1>3, <3>1, <3>2
  <2>1. BusTypeOK'
    BY <1>0, <1>1, <1>3, <2>0 DEF BusTypeOK, ReloadRead, ReloadFails
  <2>2. ReloadsHoldSettled'
    BY <1>0, <1>1, <2>0 DEF ReloadsHoldSettled, Settled
  <2>3. SettledIsHeard'
    BY <1>0, <1>1, <1>3 DEF ReloadRead, ReloadFails, SettledIsHeard
  <2> QED BY <1>2, <2>1, <2>2, <2>3 DEF BusInv
<1>4. CASE ReloadApply(r)
  <2>1. PICK p, rows : p = reload[r].proc /\ rows = reload[r].rows
    OBVIOUS
  <2>2. Settled \subseteq rows /\ rows \in SUBSET Subs /\ SetSubscriptionList(p, rows)
    BY <1>0, <1>4, <2>1 DEF BusTypeOK, ReloadApply, ReloadsHoldSettled
  <2>3. /\ listener' \in [Procs -> [Subs -> 0 .. 1]]
        /\ \A q \in Procs, b \in Settled : listener'[q][b] = IF q = p THEN 1 ELSE listener[q][b]
    <3>1. CASE p \in Procs
      BY <1>0, <2>2, <3>1, ListIsInstalled
    <3>2. CASE p \notin Procs
      BY <1>0, <2>2, <3>2 DEF BusTypeOK, SetSubscriptionList
    <3> QED BY <3>1, <3>2
  <2>4. BusTypeOK'
    BY <1>0, <1>4, <2>3 DEF BusTypeOK, ReloadApply, NoReload, ReloadSteps
  <2>5. ReloadsHoldSettled'
    BY <1>0, <1>1, <1>4 DEF BusTypeOK, ReloadApply, NoReload, ReloadsHoldSettled
  <2>6. SettledIsHeard'
    BY <1>0, <1>1, <2>3 DEF SettledIsHeard
  <2> QED BY <1>2, <2>4, <2>5, <2>6 DEF BusInv
<1> QED BY <1>3, <1>4

\* Of the steps on alerts, only a death touches this half.
LEMMA AlertStepBus ==
  ASSUME BusInv, AlertStep
  PROVE  BusInv'
<1>0. BusTypeOK /\ ListsHoldSettled /\ ReloadsHoldSettled /\ SettledIsHeard
  BY DEF BusInv
<1>1. CASE UNCHANGED busVars
  BY <1>0, <1>1 DEF busVars, BusInv, BusTypeOK, ListsHoldSettled, ReloadsHoldSettled, SettledIsHeard, Settled
<1>2. ASSUME NEW m \in Monitors, MonitorDies(m) PROVE BusInv'
  <2>1. Settled' = Settled /\ reload' = reload /\ m \in Procs
    BY <1>2 DEF MonitorDies, Settled, Procs
  <2>2. BusTypeOK'
    BY <1>0, <1>2, <2>1 DEF BusTypeOK, MonitorDies, LoopSteps
  <2>3. ListsHoldSettled' /\ ReloadsHoldSettled'
    BY <1>0, <1>2, <2>1 DEF BusTypeOK, MonitorDies, ListsHoldSettled, ReloadsHoldSettled
  <2>4. SettledIsHeard'
    BY <1>0, <1>2, <2>1 DEF BusTypeOK, MonitorDies, SettledIsHeard
  <2> QED BY <2>2, <2>3, <2>4 DEF BusInv
<1>3. UNCHANGED busVars \/ \E m \in Monitors : MonitorDies(m)
  BY DEF AlertStep, Tick, PollPings, FirstPollFails, Lookup, Announce, Repeat, Ignore, SaveAlert, SaveFails, TaskFails, busVars
<1> QED BY <1>1, <1>2, <1>3

LEMMA BusStays ==
  ASSUME BusInv, [MonNext]_monVars
  PROVE  BusInv'
<1>1. CASE UNCHANGED monVars
  BY <1>1 DEF monVars, BusInv, BusTypeOK, ListsHoldSettled, ReloadsHoldSettled, SettledIsHeard, Settled
<1>2. CASE BusStep
  BY <1>2, LoopStepBus, EditBus, ReloadBus DEF BusStep
<1>3. CASE AlertStep
  BY <1>3, AlertStepBus
<1> QED BY <1>1, <1>2, <1>3, TwoSides

(***************************************************************************)
(* Alerts: types.                                                          *)
(***************************************************************************)
TaskSteps == {"free", "lookup", "created", "found", "saving"}
TaskRows == [mon : Monitors \cup {"none"}, key : Keys \cup {"none"}, step : TaskSteps, now : Times,
             updatedAt : Times \cup {Absent}]

AlertTypeOK ==
  /\ alert \in [Keys -> Times \cup {Absent}]
  /\ task \in [Tasks -> TaskRows]
  /\ \A t \in Tasks : task[t].step # "free" => task[t].mon \in Monitors /\ task[t].key \in Keys
  /\ clock \in Times
  /\ heard \in [Keys -> SUBSET Subs]
  /\ raised \in [Keys -> [Times \cup {Absent} -> Nat]]

\* The alert a call has found was there; what it goes on to save is older than this moment.
SavesAreLater ==
  \A t \in Tasks : /\ task[t].now <= clock
                   /\ task[t].step = "saving" => task[t].updatedAt < clock
                   /\ task[t].step \in {"found", "saving"} => task[t].updatedAt # Absent

ClocksOK == AlertTypeOK /\ SavesAreLater

LEMMA TimesOrdered == \A u \in Times : u \in Int /\ u # Absent /\ u > Absent
  BY BoundsAreNat DEF Times, Absent

LEMMA NoTaskOK == NoTask \in TaskRows /\ NoTask.step = "free"
  BY BoundsAreNat DEF NoTask, TaskRows, TaskSteps, Times

\* What a call becomes in one step.
Becomes(t, row) == row \in TaskRows /\ task' = [task EXCEPT ![t] = row]

\* Fields of rows that are changed.
LEMMA StepChanges ==
  ASSUME NEW row \in TaskRows, NEW s \in TaskSteps
  PROVE  LET new == [row EXCEPT !.step = s]
         IN  /\ new \in TaskRows /\ new.step = s
             /\ new.mon = row.mon /\ new.key = row.key /\ new.now = row.now /\ new.updatedAt = row.updatedAt
  BY DEF TaskRows
LEMMA UpdatedAtChanges ==
  ASSUME NEW row \in TaskRows, NEW u \in Times \cup {Absent}
  PROVE  LET new == [row EXCEPT !.updatedAt = u]
         IN  /\ new \in TaskRows /\ new.updatedAt = u
             /\ new.mon = row.mon /\ new.key = row.key /\ new.now = row.now /\ new.step = row.step
  BY DEF TaskRows
LEMMA NowChanges ==
  ASSUME NEW row \in TaskRows, NEW u \in Times
  PROVE  LET new == [row EXCEPT !.now = u]
         IN  /\ new \in TaskRows /\ new.now = u
             /\ new.mon = row.mon /\ new.key = row.key /\ new.updatedAt = row.updatedAt /\ new.step = row.step
  BY DEF TaskRows
LEMMA OwnerChanges ==
  ASSUME NEW row \in TaskRows, NEW m \in Monitors, NEW k \in Keys
  PROVE  LET new == [row EXCEPT !.mon = m, !.key = k]
         IN  /\ new \in TaskRows /\ new.mon = m /\ new.key = k
             /\ new.now = row.now /\ new.updatedAt = row.updatedAt /\ new.step = row.step
  BY DEF TaskRows

\* emitDeduped is called.
LEMMA TaskPolled ==
  ASSUME ClocksOK, NEW m \in Monitors, NEW k \in Keys, NEW t \in Tasks, PollPings(m, k, t)
  PROVE  \E row : /\ Becomes(t, row)
                  /\ row.mon = m /\ row.key = k /\ row.step = "lookup" /\ row.now = clock
<1>1. PICK owned : owned = [NoTask EXCEPT !.mon = m, !.key = k]
  OBVIOUS
<1>2. owned \in TaskRows /\ owned.mon = m /\ owned.key = k
  BY <1>1, NoTaskOK, OwnerChanges
<1>3. PICK begun : begun = [owned EXCEPT !.step = "lookup"]
  OBVIOUS
<1>4. begun \in TaskRows /\ begun.mon = m /\ begun.key = k /\ begun.step = "lookup"
  BY <1>2, <1>3, StepChanges DEF TaskSteps
<1>5. PICK row : row = [begun EXCEPT !.now = clock]
  OBVIOUS
<1>6. row \in TaskRows /\ row.mon = m /\ row.key = k /\ row.step = "lookup" /\ row.now = clock
  BY <1>4, <1>5, NowChanges DEF ClocksOK, AlertTypeOK
<1>7. task' = [task EXCEPT ![t] = row]
  BY <1>1, <1>3, <1>5 DEF PollPings
<1> QED BY <1>6, <1>7 DEF Becomes

\* The row that Alert.findCreateFind answers with.
LEMMA TaskLooksUp ==
  ASSUME ClocksOK, NEW t \in Tasks, NEW k \in Keys, k = task[t].key, Lookup(t)
  PROVE  \E row : /\ Becomes(t, row)
                  /\ row.mon = task[t].mon /\ row.key = k /\ row.now = task[t].now
                  /\ row.step = (IF alert[k] = Absent THEN "created" ELSE "found")
                  /\ row.updatedAt = alert[k]
<1>1. PICK s : s = (IF alert[k] = Absent THEN "created" ELSE "found")
  OBVIOUS
<1>2. PICK looked : looked = [task[t] EXCEPT !.step = s]
  OBVIOUS
<1>3. /\ looked \in TaskRows /\ looked.step = s
      /\ looked.mon = task[t].mon /\ looked.key = k /\ looked.now = task[t].now
  <2>1. task[t] \in TaskRows /\ s \in TaskSteps
    BY <1>1 DEF ClocksOK, AlertTypeOK, TaskSteps
  <2> QED BY <1>2, <2>1, StepChanges
<1>4. PICK row : row = [looked EXCEPT !.updatedAt = alert[k]]
  OBVIOUS
<1>5. /\ row \in TaskRows /\ row.step = s /\ row.updatedAt = alert[k]
      /\ row.mon = task[t].mon /\ row.key = k /\ row.now = task[t].now
  <2>1. alert[k] \in Times \cup {Absent}
    BY DEF ClocksOK, AlertTypeOK
  <2> QED BY <1>3, <1>4, <2>1, UpdatedAtChanges
<1>6. task' = [task EXCEPT ![t] = row]
  <2>1. task' = [task EXCEPT ![t].step = s, ![t].updatedAt = alert[k]]
    BY <1>1 DEF Lookup, Created
  <2>2. PICK mid : mid = [task EXCEPT ![t] = looked]
    OBVIOUS
  <2>3. mid[t] = looked /\ task' = [mid EXCEPT ![t].updatedAt = alert[k]]
    BY <1>2, <2>1, <2>2 DEF ClocksOK, AlertTypeOK
  <2>4. task' = [mid EXCEPT ![t] = row]
    BY <1>4, <2>3
  <2> QED BY <2>2, <2>4 DEF ClocksOK, AlertTypeOK
<1> QED BY <1>1, <1>5, <1>6 DEF Becomes

\* The alert is touched.
LEMMA TaskRepeats ==
  ASSUME ClocksOK, NEW t \in Tasks, Repeat(t)
  PROVE  \E row : /\ Becomes(t, row)
                  /\ row.mon = task[t].mon /\ row.key = task[t].key /\ row.step = "saving"
                  /\ row.now = task[t].now /\ row.updatedAt = task[t].updatedAt
<1>1. PICK row : row = [task[t] EXCEPT !.step = "saving"]
  OBVIOUS
<1>2. task[t] \in TaskRows /\ "saving" \in TaskSteps
  BY DEF ClocksOK, AlertTypeOK, TaskSteps
<1>3. task' = [task EXCEPT ![t] = row]
  BY <1>1 DEF Repeat
<1>4. /\ row \in TaskRows /\ row.step = "saving"
      /\ row.mon = task[t].mon /\ row.key = task[t].key
      /\ row.now = task[t].now /\ row.updatedAt = task[t].updatedAt
  BY <1>1, <1>2, StepChanges
<1> QED BY <1>3, <1>4 DEF Becomes

LEMMA TasksTyped ==
  ASSUME ClocksOK, NEW t \in Tasks, NEW row, Becomes(t, row),
         row.step # "free" => row.mon \in Monitors /\ row.key \in Keys,
         row.now <= clock, row.step = "saving" => row.updatedAt < clock,
         row.step \in {"found", "saving"} => row.updatedAt # Absent,
         clock' = clock
  PROVE  /\ task' \in [Tasks -> TaskRows]
         /\ \A i \in Tasks : task'[i].step # "free" => task'[i].mon \in Monitors /\ task'[i].key \in Keys
         /\ SavesAreLater'
<1>1. task \in [Tasks -> TaskRows]
  BY DEF ClocksOK, AlertTypeOK
<1>2. row \in TaskRows /\ \A i \in Tasks : task'[i] = IF i = t THEN row ELSE task[i]
  BY <1>1 DEF Becomes
<1>3. task' \in [Tasks -> TaskRows]
  BY <1>1, <1>2 DEF Becomes
<1> QED BY <1>2, <1>3 DEF ClocksOK, AlertTypeOK, SavesAreLater

LEMMA HeardTyped ==
  ASSUME AlertTypeOK, NEW m, NEW k \in Keys, NEW base, Emit(m, k, base)
  PROVE  /\ heard' \in [Keys -> SUBSET Subs]
         /\ \A i \in Keys : heard[i] \subseteq heard'[i]
         /\ \A b \in Subs : listener[m][b] > 0 => b \in heard'[k]
<1>1. heard' = [heard EXCEPT ![k] = heard[k] \cup {b \in Subs : listener[m][b] > 0}]
  BY DEF AlertTypeOK, Emit
<1> QED BY <1>1 DEF AlertTypeOK

LEMMA RaisedTyped ==
  ASSUME AlertTypeOK, NEW m, NEW k \in Keys, NEW base \in Times \cup {Absent}, Emit(m, k, base)
  PROVE  raised' \in [Keys -> [Times \cup {Absent} -> Nat]]
<1>1. raised' = [raised EXCEPT ![k] = [raised[k] EXCEPT ![base] = raised[k][base] + 1]]
  BY DEF AlertTypeOK, Emit
<1>2. [raised[k] EXCEPT ![base] = raised[k][base] + 1] \in [Times \cup {Absent} -> Nat]
  BY DEF AlertTypeOK
<1> QED BY <1>1, <1>2 DEF AlertTypeOK

(* One counter goes up. *)
RaisedAt(k, base) ==
  /\ \A i \in Keys : i # k => raised'[i] = raised[i]
  /\ \A u \in Times \cup {Absent} : raised'[k][u] = IF u = base THEN raised[k][u] + 1 ELSE raised[k][u]

LEMMA OneCounter ==
  ASSUME AlertTypeOK, NEW m, NEW k \in Keys, NEW base, Emit(m, k, base)
  PROVE  RaisedAt(k, base)
<1>1. raised' = [raised EXCEPT ![k] = [raised[k] EXCEPT ![base] = raised[k][base] + 1]]
  BY DEF AlertTypeOK, Emit
<1> QED BY <1>1 DEF AlertTypeOK, RaisedAt

\* A call ends.
LEMMA TaskEnds ==
  ASSUME ClocksOK, NEW t \in Tasks, task' = [task EXCEPT ![t] = NoTask], clock' = clock
  PROVE  /\ task' \in [Tasks -> TaskRows]
         /\ \A i \in Tasks : task'[i].step # "free" => task'[i].mon \in Monitors /\ task'[i].key \in Keys
         /\ SavesAreLater'
<1>1. Becomes(t, NoTask)
  BY NoTaskOK DEF Becomes
<1>2. NoTask.now <= clock /\ NoTask.step = "free"
  BY BoundsAreNat DEF NoTask, ClocksOK, AlertTypeOK, Times
<1> QED BY <1>1, <1>2, TasksTyped

LEMMA ClocksInitially == ASSUME MonInit PROVE ClocksOK
<1>1. 0 \in Times
  BY BoundsAreNat DEF Times
<1>2. AlertTypeOK
  BY <1>1, NoTaskOK DEF MonInit, AlertTypeOK
<1>3. SavesAreLater
  BY <1>1, NoTaskOK DEF MonInit, SavesAreLater, NoTask
<1> QED BY <1>2, <1>3 DEF ClocksOK

LEMMA ClocksStay ==
  ASSUME ClocksOK, [MonNext]_monVars
  PROVE  ClocksOK'
<1>0. AlertTypeOK /\ SavesAreLater
  BY DEF ClocksOK
<1>1. CASE UNCHANGED alertVars
  BY <1>0, <1>1 DEF alertVars, ClocksOK, AlertTypeOK, SavesAreLater
<1>2. CASE Tick
  <2>1. clock' \in Times /\ clock <= clock' /\ clock \in Int
    BY <1>0, <1>2, BoundsAreNat DEF Tick, AlertTypeOK, Times
  <2>2. AlertTypeOK'
    BY <1>0, <1>2, <2>1 DEF Tick, AlertTypeOK
  <2>3. SavesAreLater'
    <3>1. \A t \in Tasks : task[t].now \in Int /\ task[t].updatedAt \in Int /\ task'[t] = task[t]
      BY <1>0, <1>2, BoundsAreNat DEF Tick, AlertTypeOK, TaskRows, Times, Absent
    <3>2. clock' \in Int
      BY <2>1, BoundsAreNat DEF Times
    <3> QED BY <1>0, <2>1, <3>1, <3>2 DEF SavesAreLater
  <2> QED BY <2>2, <2>3 DEF ClocksOK
<1>3. ASSUME NEW m \in Monitors, NEW k \in Keys, NEW t \in Tasks, PollPings(m, k, t) PROVE ClocksOK'
  <2>1. PICK row : Becomes(t, row) /\ row.mon = m /\ row.key = k /\ row.step = "lookup" /\ row.now = clock
    BY <1>3, TaskPolled
  <2>2. clock' = clock /\ row.now <= clock
    BY <1>0, <1>3, <2>1, BoundsAreNat DEF PollPings, AlertTypeOK, Times
  <2>3. /\ task' \in [Tasks -> TaskRows]
        /\ \A i \in Tasks : task'[i].step # "free" => task'[i].mon \in Monitors /\ task'[i].key \in Keys
        /\ SavesAreLater'
    BY <2>1, <2>2, TasksTyped
  <2> QED BY <1>0, <1>3, <2>3 DEF PollPings, ClocksOK, AlertTypeOK
<1>4. ASSUME NEW m \in Monitors, FirstPollFails(m) PROVE ClocksOK'
  BY <1>0, <1>4 DEF FirstPollFails, ClocksOK, AlertTypeOK, SavesAreLater
<1>5. ASSUME NEW m \in Monitors, MonitorDies(m) PROVE ClocksOK'
  <2>1. \A t \in Tasks : task'[t] = NoTask \/ task'[t] = task[t]
    BY <1>5 DEF MonitorDies
  <2>2. task' \in [Tasks -> TaskRows]
    BY <1>0, <1>5, NoTaskOK DEF MonitorDies, AlertTypeOK
  <2>3. AlertTypeOK'
    BY <1>0, <1>5, <2>1, <2>2, NoTaskOK DEF MonitorDies, AlertTypeOK
  <2>4. NoTask.now <= clock /\ clock' = clock
    BY <1>0, <1>5, BoundsAreNat DEF MonitorDies, NoTask, AlertTypeOK, Times
  <2>5. SavesAreLater'
    BY <1>0, <2>1, <2>4, NoTaskOK DEF SavesAreLater
  <2> QED BY <2>3, <2>5 DEF ClocksOK
<1>6. ASSUME NEW t \in Tasks, Lookup(t) PROVE ClocksOK'
  <2>1. PICK k \in Keys : k = task[t].key
    BY <1>0, <1>6 DEF Lookup, AlertTypeOK
  <2>2. PICK row : /\ Becomes(t, row)
                   /\ row.mon = task[t].mon /\ row.key = k /\ row.now = task[t].now
                   /\ row.step = (IF alert[k] = Absent THEN "created" ELSE "found")
                   /\ row.updatedAt = alert[k]
    BY <1>6, <2>1, TaskLooksUp
  <2>3. /\ clock' = clock /\ row.now <= clock /\ row.step # "saving" /\ row.mon \in Monitors /\ row.key \in Keys
        /\ row.step \in {"found", "saving"} => row.updatedAt # Absent
    BY <1>0, <1>6, <2>1, <2>2 DEF Lookup, AlertTypeOK, SavesAreLater
  <2>4. /\ task' \in [Tasks -> TaskRows]
        /\ \A i \in Tasks : task'[i].step # "free" => task'[i].mon \in Monitors /\ task'[i].key \in Keys
        /\ SavesAreLater'
    BY <2>2, <2>3, TasksTyped
  <2>5. alert' \in [Keys -> Times \cup {Absent}]
    BY <1>0, <1>6, <2>1 DEF Lookup, Created, AlertTypeOK
  <2> QED BY <1>0, <1>6, <2>4, <2>5 DEF Lookup, ClocksOK, AlertTypeOK
<1>7. ASSUME NEW t \in Tasks, Announce(t) PROVE ClocksOK'
  <2>1. task[t].key \in Keys /\ Absent \in Times \cup {Absent} /\ Emit(task[t].mon, task[t].key, Absent)
    BY <1>0, <1>7 DEF Announce, AlertTypeOK
  <2>2. heard' \in [Keys -> SUBSET Subs] /\ raised' \in [Keys -> [Times \cup {Absent} -> Nat]]
    BY <1>0, <2>1, RaisedTyped, HeardTyped
  <2>3. task' = [task EXCEPT ![t] = NoTask] /\ clock' = clock /\ alert' = alert
    BY <1>7 DEF Announce
  <2> QED BY <1>0, <2>2, <2>3, TaskEnds DEF ClocksOK, AlertTypeOK
<1>8. ASSUME NEW t \in Tasks, Repeat(t) PROVE ClocksOK'
  <2>1. PICK row : /\ Becomes(t, row)
                   /\ row.mon = task[t].mon /\ row.key = task[t].key /\ row.step = "saving"
                   /\ row.now = task[t].now /\ row.updatedAt = task[t].updatedAt
    BY <1>8, TaskRepeats
  <2>2. task[t].now <= clock /\ task[t].updatedAt < task[t].now - Hour
    BY <1>0, <1>8 DEF Repeat, Stale, SavesAreLater
  <2>3. task[t].now \in Int /\ task[t].updatedAt \in Int /\ clock \in Int
    BY <1>0, BoundsAreNat DEF AlertTypeOK, TaskRows, Times, Absent
  <2>4. row.now <= clock /\ row.updatedAt < clock /\ row.updatedAt # Absent
    BY <1>0, <1>8, <2>1, <2>2, <2>3 DEF Hour, Repeat, SavesAreLater
  <2>5. row.mon \in Monitors /\ row.key \in Keys /\ clock' = clock /\ alert' = alert
    BY <1>0, <1>8, <2>1 DEF Repeat, AlertTypeOK
  <2>6. /\ task' \in [Tasks -> TaskRows]
        /\ \A i \in Tasks : task'[i].step # "free" => task'[i].mon \in Monitors /\ task'[i].key \in Keys
        /\ SavesAreLater'
    BY <2>1, <2>4, <2>5, TasksTyped
  <2>7. heard' \in [Keys -> SUBSET Subs] /\ raised' \in [Keys -> [Times \cup {Absent} -> Nat]]
    <3>1. CASE LastStopTime > task[t].now
      <4>1. Emit(task[t].mon, task[t].key, task[t].updatedAt)
        BY <1>8, <3>1 DEF Repeat
      <4>2. task[t].updatedAt \in Times \cup {Absent} /\ task[t].key \in Keys
        BY <1>0, <2>1, <2>5 DEF AlertTypeOK, TaskRows
      <4> QED BY <1>0, <4>1, <4>2, RaisedTyped, HeardTyped
    <3>2. CASE ~(LastStopTime > task[t].now)
      BY <1>0, <1>8, <3>2 DEF Repeat, AlertTypeOK
    <3> QED BY <3>1, <3>2
  <2> QED BY <1>0, <2>5, <2>6, <2>7 DEF ClocksOK, AlertTypeOK
<1>9. ASSUME NEW t \in Tasks, SaveAlert(t) PROVE ClocksOK'
  <2>1. task' = [task EXCEPT ![t] = NoTask] /\ clock' = clock /\ heard' = heard /\ raised' = raised
    BY <1>9 DEF SaveAlert
  <2>2. alert' \in [Keys -> Times \cup {Absent}]
    BY <1>0, <1>9 DEF SaveAlert, Touched, AlertTypeOK
  <2> QED BY <1>0, <2>1, <2>2, TaskEnds DEF ClocksOK, AlertTypeOK
<1>10. ASSUME NEW t \in Tasks, Ignore(t) \/ SaveFails(t) \/ TaskFails(t) PROVE ClocksOK'
  <2>1. /\ task' = [task EXCEPT ![t] = NoTask] /\ clock' = clock /\ heard' = heard /\ raised' = raised
        /\ alert' = alert
    BY <1>10 DEF Ignore, SaveFails, TaskFails
  <2> QED BY <1>0, <2>1, TaskEnds DEF ClocksOK, AlertTypeOK
<1>11. CASE AlertStep
  BY <1>2, <1>3, <1>4, <1>5, <1>6, <1>7, <1>8, <1>9, <1>10, <1>11 DEF AlertStep
<1> QED BY <1>1, <1>11, TwoSides, BusStepsLeaveAlerts DEF monVars, alertVars

(***************************************************************************)
(* An alert is raised once.  findCreateFind leaves one call with "created";*)
(* while no save has been lost or overtaken, one call at most has found an *)
(* alert as it is now, and nothing was raised on a state still to come.    *)
(***************************************************************************)
Creating(t, k) == task[t].key = k /\ task[t].step = "created"
HasFound(t, k) == task[t].key = k /\ task[t].step \in {"found", "saving"}
Saving(t, k)   == task[t].key = k /\ task[t].step = "saving"

NoneBefore(k) ==
  alert[k] = Absent => raised[k][Absent] = 0 /\ \A t \in Tasks : ~Creating(t, k) /\ ~HasFound(t, k)
OneCreates(k) ==
  \A t \in Tasks : Creating(t, k) => raised[k][Absent] = 0 /\ \A i \in Tasks : Creating(i, k) => i = t
OneFinds(k) ==
  \A t \in Tasks : HasFound(t, k) => task[t].updatedAt = alert[k] /\ \A i \in Tasks : HasFound(i, k) => i = t
RaisedOnce(k) ==
  \A u \in Times : /\ raised[k][u] <= 1
                   /\ u > alert[k] => raised[k][u] = 0
                   /\ u = alert[k] /\ (\A t \in Tasks : ~Saving(t, k)) => raised[k][u] = 0

CreatedOnce(k) == NoneBefore(k) /\ OneCreates(k) /\ raised[k][Absent] <= 1
SavedOnce(k) == k \notin unsaved => OneFinds(k) /\ RaisedOnce(k)
RaisedInv == \A k \in Keys : CreatedOnce(k) /\ SavedOnce(k)

LEMMA RaisedInitially == ASSUME MonInit PROVE RaisedInv
  BY NoTaskOK, TimesOrdered DEF MonInit, RaisedInv, CreatedOnce, SavedOnce, NoneBefore, OneCreates, OneFinds, RaisedOnce,
     Creating, HasFound, Saving

(* Steps that raise nothing and find nothing: calls go back to before the
   lookup, or end, and a save that was due and does not come is on record. *)
CallsLeave ==
  \A i \in Tasks : \/ task'[i] = task[i]
                   \/ /\ task'[i].step \in {"free", "lookup"}
                      /\ task[i].step = "saving" => task[i].key \in unsaved'

LEMMA RaisedQuietly ==
  ASSUME RaisedInv, UNCHANGED <<alert, raised>>, unsaved \subseteq unsaved', CallsLeave
  PROVE  RaisedInv'
<1> SUFFICES ASSUME NEW k \in Keys PROVE CreatedOnce(k)' /\ SavedOnce(k)'
  BY DEF RaisedInv
<1>0. CreatedOnce(k) /\ SavedOnce(k)
  BY DEF RaisedInv
<1>1. \A i \in Tasks : /\ Creating(i, k)' => Creating(i, k)
                       /\ HasFound(i, k)' => HasFound(i, k) /\ task'[i] = task[i]
  BY DEF CallsLeave, Creating, HasFound
<1>2. NoneBefore(k)' /\ OneCreates(k)'
  BY <1>0, <1>1 DEF CreatedOnce, NoneBefore, OneCreates
<1>3. ASSUME k \notin unsaved' PROVE OneFinds(k)' /\ RaisedOnce(k)'
  <2>1. OneFinds(k) /\ RaisedOnce(k)
    BY <1>0, <1>3 DEF SavedOnce
  <2>2. OneFinds(k)'
    BY <1>1, <2>1 DEF OneFinds
  <2>3. \A i \in Tasks : Saving(i, k) => Saving(i, k)'
    BY <1>3 DEF CallsLeave, Saving
  <2>4. RaisedOnce(k)'
    BY <2>1, <2>3 DEF RaisedOnce
  <2> QED BY <2>2, <2>4
<1> QED BY <1>0, <1>2, <1>3 DEF CreatedOnce, SavedOnce

\* One call moves, the others and other keys stay.
LEMMA OtherKeys ==
  ASSUME ClocksOK, RaisedInv, NEW t \in Tasks, NEW k \in Keys, k # task[t].key,
         NEW row, Becomes(t, row), row.step = "free" \/ row.key = task[t].key,
         alert'[k] = alert[k], raised'[k] = raised[k], unsaved' \ {task[t].key} = unsaved \ {task[t].key}
  PROVE  CreatedOnce(k)' /\ SavedOnce(k)'
<1>0. CreatedOnce(k) /\ SavedOnce(k)
  BY DEF RaisedInv
<1>1. \A i \in Tasks : task'[i] = IF i = t THEN row ELSE task[i]
  BY DEF Becomes, ClocksOK, AlertTypeOK
<1>2. \A i \in Tasks : /\ Creating(i, k)' <=> Creating(i, k)
                       /\ HasFound(i, k)' <=> HasFound(i, k)
                       /\ Saving(i, k)' <=> Saving(i, k)
                       /\ HasFound(i, k) => task'[i] = task[i]
  BY <1>1 DEF Creating, HasFound, Saving
<1>3. k \in unsaved' <=> k \in unsaved
  OBVIOUS
<1>4. CreatedOnce(k)'
  BY <1>0, <1>2 DEF CreatedOnce, NoneBefore, OneCreates
<1>5. OneFinds(k) => OneFinds(k)'
  BY <1>2 DEF OneFinds
<1>6. RaisedOnce(k) => RaisedOnce(k)'
  BY <1>2 DEF RaisedOnce
<1> QED BY <1>0, <1>3, <1>4, <1>5, <1>6 DEF SavedOnce

(* The call that creates the row has found no other, and the calls that came
   before it are those of a day without the alert. *)
LEMMA RaisedLookup ==
  ASSUME ClocksOK, RaisedInv, NEW t \in Tasks, Lookup(t)
  PROVE  RaisedInv'
<1>0. ClocksOK /\ AlertTypeOK
  BY DEF ClocksOK
<1>1. PICK key \in Keys : key = task[t].key
  BY <1>0 DEF Lookup, AlertTypeOK
<1>2. PICK row : /\ Becomes(t, row)
                 /\ row.mon = task[t].mon /\ row.key = key /\ row.now = task[t].now
                 /\ row.step = (IF alert[key] = Absent THEN "created" ELSE "found")
                 /\ row.updatedAt = alert[key]
  BY <1>1, TaskLooksUp
<1>3. raised' = raised /\ task[t].step = "lookup"
  BY DEF Lookup
<1>4. \A i \in Tasks : task'[i] = IF i = t THEN row ELSE task[i]
  BY <1>0, <1>2 DEF Becomes, AlertTypeOK
<1>5. CreatedOnce(key) /\ SavedOnce(key)
  BY DEF RaisedInv
<1>6. ASSUME NEW k \in Keys, k # key PROVE CreatedOnce(k)' /\ SavedOnce(k)'
  <2>1. alert'[k] = alert[k] /\ unsaved' \ {key} = unsaved \ {key}
    BY <1>0, <1>1, <1>6 DEF Lookup, Created, AlertTypeOK
  <2> QED BY <1>0, <1>1, <1>2, <1>3, <1>6, <2>1, OtherKeys
<1>7. CASE alert[key] = Absent
  <2>1. alert'[key] = clock /\ clock \in Times /\ unsaved \subseteq unsaved'
    BY <1>0, <1>1, <1>7 DEF Lookup, Created, AlertTypeOK
  <2>2. row.step = "created" /\ clock # Absent
    BY <1>2, <1>7, <2>1, TimesOrdered
  <2>3. raised[key][Absent] = 0 /\ \A i \in Tasks : ~Creating(i, key) /\ ~HasFound(i, key)
    BY <1>5, <1>7 DEF CreatedOnce, NoneBefore
  <2>4. \A i \in Tasks : (Creating(i, key)' => i = t) /\ ~HasFound(i, key)'
    BY <1>4, <2>2, <2>3 DEF Creating, HasFound
  <2>5. CreatedOnce(key)'
    BY <1>3, <2>1, <2>2, <2>3, <2>4 DEF CreatedOnce, NoneBefore, OneCreates
  <2>6. ASSUME key \notin unsaved' PROVE RaisedOnce(key)'
    <3>1. \A u \in Times : u > alert[key]
      BY <1>7, TimesOrdered
    <3>2. \A u \in Times : raised'[key][u] = 0
      BY <1>3, <1>5, <2>1, <2>6, <3>1 DEF SavedOnce, RaisedOnce
    <3> QED BY <3>2 DEF RaisedOnce
  <2>7. OneFinds(key)'
    BY <2>4 DEF OneFinds
  <2> QED BY <1>1, <1>6, <2>5, <2>6, <2>7 DEF RaisedInv, SavedOnce
<1>8. CASE alert[key] # Absent
  <2>1. alert' = alert /\ unsaved' = IF \E i \in Tasks \ {t} : SameState(i, t) THEN unsaved \cup {key} ELSE unsaved
    BY <1>1, <1>8 DEF Lookup, Created
  <2>2. row.step = "found"
    BY <1>2, <1>8
  <2>3. \A i \in Tasks : /\ Creating(i, key)' <=> Creating(i, key)
                         /\ Saving(i, key)' <=> Saving(i, key)
                         /\ HasFound(i, key)' <=> i = t \/ HasFound(i, key)
    BY <1>1, <1>2, <1>3, <1>4, <2>2 DEF Creating, HasFound, Saving
  <2>4. CreatedOnce(key)'
    BY <1>3, <1>5, <1>8, <2>1, <2>3 DEF CreatedOnce, NoneBefore, OneCreates
  <2>5. ASSUME key \notin unsaved' PROVE OneFinds(key)' /\ RaisedOnce(key)'
    <3>1. key \notin unsaved /\ \A i \in Tasks \ {t} : ~SameState(i, t)
      BY <2>1, <2>5
    <3>2. \A i \in Tasks : ~HasFound(i, key)
      BY <1>1, <1>3, <1>5, <3>1 DEF SavedOnce, OneFinds, HasFound, SameState
    <3>3. OneFinds(key)'
      BY <1>2, <1>4, <2>1, <2>3, <3>2 DEF OneFinds
    <3>4. RaisedOnce(key)'
      BY <1>3, <1>5, <2>1, <2>3, <3>1 DEF SavedOnce, RaisedOnce
    <3> QED BY <3>3, <3>4
  <2> QED BY <1>1, <1>6, <2>4, <2>5 DEF RaisedInv, SavedOnce
<1> QED BY <1>7, <1>8

LEMMA RaisedAnnounce ==
  ASSUME ClocksOK, RaisedInv, NEW t \in Tasks, Announce(t)
  PROVE  RaisedInv'
<1>0. ClocksOK /\ AlertTypeOK
  BY DEF ClocksOK
<1>1. PICK key \in Keys : key = task[t].key
  BY <1>0 DEF Announce, AlertTypeOK
<1>2. /\ Emit(task[t].mon, key, Absent) /\ task' = [task EXCEPT ![t] = NoTask] /\ alert' = alert /\ unsaved' = unsaved
      /\ Creating(t, key)
  BY <1>1 DEF Announce, Creating
<1>3. Absent \in Times \cup {Absent}
  OBVIOUS
<1>4. /\ \A k \in Keys : k # key => raised'[k] = raised[k]
      /\ \A u \in Times \cup {Absent} : raised'[key][u] = IF u = Absent THEN raised[key][u] + 1 ELSE raised[key][u]
  <2>1. RaisedAt(key, Absent)
    BY <1>0, <1>1, <1>2, OneCounter
  <2> QED BY <2>1 DEF RaisedAt
<1>5. Becomes(t, NoTask) /\ NoTask.step = "free"
  BY <1>2, NoTaskOK DEF Becomes
<1>6. CreatedOnce(key) /\ SavedOnce(key)
  BY DEF RaisedInv
<1>7. ASSUME NEW k \in Keys, k # key PROVE CreatedOnce(k)' /\ SavedOnce(k)'
  BY <1>0, <1>1, <1>2, <1>4, <1>5, <1>7, OtherKeys
<1>8. \A i \in Tasks : /\ ~Creating(i, key)'
                       /\ Saving(i, key)' <=> Saving(i, key)
                       /\ HasFound(i, key)' <=> HasFound(i, key)
                       /\ HasFound(i, key)' => task'[i] = task[i]
  <2>1. \A i \in Tasks : task'[i] = IF i = t THEN NoTask ELSE task[i]
    BY <1>0, <1>2 DEF AlertTypeOK
  <2>2. \A i \in Tasks : Creating(i, key) => i = t
    BY <1>2, <1>6 DEF CreatedOnce, OneCreates
  <2> QED BY <1>2, <1>5, <2>1, <2>2 DEF Creating, Saving, HasFound
<1>9. CreatedOnce(key)'
  <2>1. raised[key][Absent] = 0 /\ alert[key] # Absent
    BY <1>2, <1>6 DEF CreatedOnce, OneCreates, NoneBefore
  <2>2. raised'[key][Absent] <= 1 /\ alert'[key] # Absent
    BY <1>2, <1>3, <1>4, <2>1
  <2> QED BY <1>8, <2>2 DEF CreatedOnce, NoneBefore, OneCreates
<1>10. SavedOnce(key)'
  <2>1. \A u \in Times : raised'[key][u] = raised[key][u]
    BY <1>4, TimesOrdered
  <2>2. RaisedOnce(key) => RaisedOnce(key)'
    BY <1>2, <1>8, <2>1 DEF RaisedOnce
  <2>3. OneFinds(key) => OneFinds(key)'
    BY <1>2, <1>8 DEF OneFinds
  <2> QED BY <1>2, <1>6, <2>2, <2>3 DEF SavedOnce
<1> QED BY <1>1, <1>7, <1>9, <1>10 DEF RaisedInv

(* A call repeats an alert that it alone has found, on a state on which
   nothing was raised; the save it now owes ends that state. *)
LEMMA RaisedRepeat ==
  ASSUME ClocksOK, RaisedInv, NEW t \in Tasks, Repeat(t)
  PROVE  RaisedInv'
<1>0. ClocksOK /\ AlertTypeOK
  BY DEF ClocksOK
<1>1. PICK key \in Keys : key = task[t].key
  BY <1>0 DEF Repeat, AlertTypeOK
<1>2. PICK row : /\ Becomes(t, row)
                 /\ row.mon = task[t].mon /\ row.key = task[t].key /\ row.step = "saving"
                 /\ row.now = task[t].now /\ row.updatedAt = task[t].updatedAt
  BY <1>0, TaskRepeats
<1>3. alert' = alert /\ unsaved' = unsaved /\ task[t].step = "found"
  BY DEF Repeat
<1>4. PICK base \in Times \cup {Absent} : base = task[t].updatedAt
  BY <1>0 DEF AlertTypeOK, TaskRows
<1>5. /\ \A k \in Keys : k # key => raised'[k] = raised[k]
      /\ \A u \in Times \cup {Absent} : u # base => raised'[key][u] = raised[key][u]
      /\ raised'[key][base] \in {raised[key][base], raised[key][base] + 1}
  <2>1. CASE LastStopTime > task[t].now
    <3>1. Emit(task[t].mon, key, base)
      BY <1>1, <1>4, <2>1 DEF Repeat
    <3>2. /\ \A k \in Keys : k # key => raised'[k] = raised[k]
          /\ \A u \in Times \cup {Absent} : raised'[key][u] = IF u = base THEN raised[key][u] + 1 ELSE raised[key][u]
      <4>1. RaisedAt(key, base)
        BY <1>0, <1>1, <3>1, OneCounter
      <4> QED BY <4>1 DEF RaisedAt
    <3> QED BY <3>2
  <2>2. CASE ~(LastStopTime > task[t].now)
    BY <2>2 DEF Repeat
  <2> QED BY <2>1, <2>2
<1>6. CreatedOnce(key) /\ SavedOnce(key)
  BY DEF RaisedInv
<1>7. ASSUME NEW k \in Keys, k # key PROVE CreatedOnce(k)' /\ SavedOnce(k)'
  BY <1>0, <1>1, <1>2, <1>3, <1>5, <1>7, OtherKeys
<1>8. \A i \in Tasks : /\ Creating(i, key)' <=> Creating(i, key)
                       /\ HasFound(i, key)' <=> HasFound(i, key)
                       /\ task'[i].updatedAt = task[i].updatedAt
  <2>1. \A i \in Tasks : task'[i] = IF i = t THEN row ELSE task[i]
    BY <1>0, <1>2 DEF Becomes, AlertTypeOK
  <2> QED BY <1>2, <1>3, <2>1 DEF Creating, HasFound
<1>9. HasFound(t, key) /\ Saving(t, key)'
  <2>1. task'[t] = row
    BY <1>0, <1>2 DEF Becomes, AlertTypeOK
  <2> QED BY <1>1, <1>2, <1>3, <2>1 DEF HasFound, Saving
<1>10. alert[key] # Absent /\ CreatedOnce(key)'
  <2>1. alert[key] # Absent
    BY <1>6, <1>9 DEF CreatedOnce, NoneBefore
  <2>2. \A i \in Tasks : Creating(i, key) => raised[key][Absent] = 0
    BY <1>6 DEF CreatedOnce, OneCreates
  <2>3. raised'[key][Absent] = raised[key][Absent]
    <3>1. base # Absent
      BY <1>3, <1>4 DEF ClocksOK, SavesAreLater
    <3> QED BY <1>5, <3>1
  <2> QED BY <1>3, <1>6, <1>8, <2>1, <2>2, <2>3 DEF CreatedOnce, NoneBefore, OneCreates
<1>11. ASSUME key \notin unsaved' PROVE OneFinds(key)' /\ RaisedOnce(key)'
  <2>1. OneFinds(key) /\ RaisedOnce(key)
    BY <1>3, <1>6, <1>11 DEF SavedOnce
  <2>2. base = alert[key] /\ base \in Times /\ \A i \in Tasks : HasFound(i, key) => i = t
    BY <1>4, <1>9, <1>10, <2>1 DEF OneFinds
  <2>3. \A i \in Tasks : ~Saving(i, key)
    BY <1>3, <2>2 DEF HasFound, Saving
  <2>4. raised[key][base] = 0
    BY <2>1, <2>2, <2>3 DEF RaisedOnce
  <2>5. raised'[key][base] <= 1
    BY <1>5, <2>4
  <2>6. RaisedOnce(key)'
    <3> SUFFICES ASSUME NEW u \in Times
                 PROVE  /\ raised'[key][u] <= 1
                        /\ u > alert[key] => raised'[key][u] = 0
                        /\ u # alert[key]  \/ Saving(t, key)'
      BY <1>3 DEF RaisedOnce
    <3>1. CASE u = base
      BY <1>9, <2>2, <2>5, <3>1, TimesOrdered
    <3>2. CASE u # base
      BY <1>5, <1>9, <2>1, <3>2 DEF RaisedOnce
    <3> QED BY <3>1, <3>2
  <2>7. OneFinds(key)'
    BY <1>3, <1>8, <2>1 DEF OneFinds
  <2> QED BY <2>6, <2>7
<1> QED BY <1>1, <1>7, <1>10, <1>11 DEF RaisedInv, SavedOnce

\* The state that is saved is later than any on which something was raised.
LEMMA RaisedSave ==
  ASSUME ClocksOK, RaisedInv, NEW t \in Tasks, SaveAlert(t)
  PROVE  RaisedInv'
<1>0. ClocksOK /\ AlertTypeOK
  BY DEF ClocksOK
<1>1. PICK key \in Keys : key = task[t].key
  BY <1>0 DEF SaveAlert, AlertTypeOK
<1>2. /\ raised' = raised /\ unsaved' = unsaved /\ task' = [task EXCEPT ![t] = NoTask]
      /\ alert'[key] = clock /\ \A k \in Keys : k # key => alert'[k] = alert[k]
      /\ HasFound(t, key) /\ task[t].step = "saving"
  BY <1>0, <1>1 DEF SaveAlert, Touched, HasFound, AlertTypeOK
<1>3. Becomes(t, NoTask) /\ NoTask.step = "free"
  BY <1>2, NoTaskOK DEF Becomes
<1>4. CreatedOnce(key) /\ SavedOnce(key)
  BY DEF RaisedInv
<1>5. ASSUME NEW k \in Keys, k # key PROVE CreatedOnce(k)' /\ SavedOnce(k)'
  BY <1>0, <1>1, <1>2, <1>3, <1>5, OtherKeys
<1>6. \A i \in Tasks : /\ Creating(i, key)' <=> Creating(i, key)
                       /\ HasFound(i, key)' <=> i # t /\ HasFound(i, key)
  <2>1. \A i \in Tasks : task'[i] = IF i = t THEN NoTask ELSE task[i]
    BY <1>0, <1>2 DEF AlertTypeOK
  <2> QED BY <1>2, <1>3, <2>1 DEF Creating, HasFound
<1>7. CreatedOnce(key)'
  <2>1. clock # Absent
    BY <1>0, TimesOrdered DEF AlertTypeOK
  <2> QED BY <1>2, <1>4, <1>6, <2>1 DEF CreatedOnce, NoneBefore, OneCreates
<1>8. ASSUME key \notin unsaved' PROVE OneFinds(key)' /\ RaisedOnce(key)'
  <2>1. OneFinds(key) /\ RaisedOnce(key)
    BY <1>2, <1>4, <1>8 DEF SavedOnce
  <2>2. OneFinds(key)'
    BY <1>2, <1>6, <2>1 DEF OneFinds
  <2>3. alert[key] < clock /\ alert[key] \in Int /\ clock \in Int
    <3>1. task[t].updatedAt < clock /\ task[t].updatedAt = alert[key]
      BY <1>2, <2>1 DEF ClocksOK, SavesAreLater, OneFinds
    <3> QED BY <1>0, <3>1, BoundsAreNat DEF AlertTypeOK, Times, Absent
  <2>4. RaisedOnce(key)'
    <3> SUFFICES ASSUME NEW u \in Times
                 PROVE  raised[key][u] <= 1 /\ (u >= clock => raised[key][u] = 0)
      BY <1>2, <2>3, TimesOrdered DEF RaisedOnce
    <3> QED BY <2>1, <2>3, TimesOrdered DEF RaisedOnce
  <2> QED BY <2>2, <2>4
<1> QED BY <1>1, <1>5, <1>7, <1>8 DEF RaisedInv, SavedOnce

LEMMA RaisedStays ==
  ASSUME ClocksOK, RaisedInv, [MonNext]_monVars
  PROVE  RaisedInv'
<1>1. CASE UNCHANGED alertVars
  <2>1. CallsLeave
    BY <1>1 DEF alertVars, CallsLeave
  <2> QED BY <1>1, <2>1, RaisedQuietly DEF alertVars
<1>2. CASE Tick \/ \E m \in Monitors : FirstPollFails(m)
  <2>1. CallsLeave /\ UNCHANGED <<alert, raised, unsaved>>
    BY <1>2 DEF Tick, FirstPollFails, CallsLeave
  <2> QED BY <2>1, RaisedQuietly
<1>3. ASSUME NEW m \in Monitors, NEW k \in Keys, NEW t \in Tasks, PollPings(m, k, t) PROVE RaisedInv'
  <2>1. PICK row : Becomes(t, row) /\ row.step = "lookup"
    BY <1>3, TaskPolled
  <2>2. \A i \in Tasks : task'[i] = IF i = t THEN row ELSE task[i]
    BY <2>1 DEF Becomes, ClocksOK, AlertTypeOK
  <2>3. CallsLeave
    BY <1>3, <2>1, <2>2 DEF PollPings, CallsLeave
  <2> QED BY <1>3, <2>3, RaisedQuietly DEF PollPings
<1>4. ASSUME NEW m \in Monitors, MonitorDies(m) PROVE RaisedInv'
  <2>1. CallsLeave
    BY <1>4, NoTaskOK DEF MonitorDies, CallsLeave, KeysAt
  <2> QED BY <1>4, <2>1, RaisedQuietly DEF MonitorDies
<1>5. ASSUME NEW t \in Tasks, Ignore(t) \/ SaveFails(t) \/ TaskFails(t) PROVE RaisedInv'
  <2>1. \A i \in Tasks : task'[i] = IF i = t THEN NoTask ELSE task[i]
    BY <1>5 DEF Ignore, SaveFails, TaskFails, ClocksOK, AlertTypeOK
  <2>2. CallsLeave
    BY <1>5, <2>1, NoTaskOK DEF Ignore, SaveFails, TaskFails, CallsLeave
  <2> QED BY <1>5, <2>2, RaisedQuietly DEF Ignore, SaveFails, TaskFails
<1>6. CASE AlertStep
  BY <1>2, <1>3, <1>4, <1>5, <1>6, RaisedLookup, RaisedAnnounce, RaisedRepeat, RaisedSave DEF AlertStep
<1> QED BY <1>1, <1>6, TwoSides, BusStepsLeaveAlerts DEF monVars, alertVars

(* An alert is raised as new once, whatever monitors and calls there are, and
   again on one state only if a save was lost or came too late. *)
THEOREM AlertsAreRaisedOnce == MonSpec => []AlertsAreNotRepeated
<1>1. MonInit => ClocksOK /\ RaisedInv
  BY ClocksInitially, RaisedInitially
<1>2. ClocksOK /\ RaisedInv /\ [MonNext]_monVars => (ClocksOK /\ RaisedInv)'
  BY ClocksStay, RaisedStays
<1>3. ClocksOK /\ RaisedInv => AlertsAreNotRepeated
  <2> SUFFICES ASSUME ClocksOK, RaisedInv, NEW k \in Keys
               PROVE  raised[k][Absent] <= 1 /\ \A u \in Times : raised[k][u] > 1 => k \in unsaved
    BY DEF AlertsAreNotRepeated
  <2>1. raised[k] \in [Times \cup {Absent} -> Nat] /\ CreatedOnce(k) /\ SavedOnce(k)
    BY DEF ClocksOK, AlertTypeOK, RaisedInv
  <2> QED BY <2>1 DEF CreatedOnce, SavedOnce, RaisedOnce
<1> QED BY <1>1, <1>2, <1>3, PTL DEF MonSpec

(***************************************************************************)
(* Who hears of it: the two halves together.                               *)
(***************************************************************************)
\* Whoever has a list hears what is emitted in its process.
LEMMA SettledHear ==
  ASSUME BusInv, NEW m \in Monitors, ~HasNoList(m), NEW b \in Settled
  PROVE  b \in Subs /\ listener[m][b] > 0
  BY DEF BusInv, BusTypeOK, SettledIsHeard, HasNoList, LoopSteps, Procs, Settled

Told(k) == \A b \in Settled : b \in heard[k] \/ k \in unheard
Waiting(k) == alert[k] = Absent \/ \E t \in Tasks : Creating(t, k)
HeardInv == \A k \in Keys : Waiting(k) \/ Told(k)

LEMMA HeardIsReached == HeardInv <=> AlertsReachSubscribers
  BY DEF HeardInv, Waiting, Told, Settled, AlertsReachSubscribers, Creating

\* What was told stays told.
LEMMA ToldStays ==
  ASSUME Settled' \subseteq Settled, unheard \subseteq unheard', NEW k \in Keys, heard[k] \subseteq heard'[k], Told(k)
  PROVE  Told(k)'
  BY DEF Told

\* The alert of k does not appear, and who was about to raise it still is, or it is told.
LEMMA HeardFollows ==
  ASSUME HeardInv, Settled' \subseteq Settled, unheard \subseteq unheard', \A k \in Keys : heard[k] \subseteq heard'[k],
         \A k \in Keys : Waiting(k) => Waiting(k)' \/ Told(k)'
  PROVE  HeardInv'
  BY ToldStays DEF HeardInv

LEMMA HeardGrows ==
  ASSUME ClocksOK, AlertStep
  PROVE  Settled' = Settled /\ unheard \subseteq unheard' /\ \A k \in Keys : heard[k] \subseteq heard'[k]
<1>0. AlertTypeOK
  BY DEF ClocksOK
<1>1. Settled' = Settled /\ unheard \subseteq unheard'
  BY DEF AlertStep, Settled, Tick, PollPings, FirstPollFails, MonitorDies, Lookup, Announce, Repeat, Ignore, SaveAlert,
     SaveFails, TaskFails, busVars
<1>2. heard' = heard \/ \E t \in Tasks : \E u : task[t].step # "free" /\ Emit(task[t].mon, task[t].key, u)
  BY DEF AlertStep, Tick, PollPings, FirstPollFails, MonitorDies, Lookup, Announce, Repeat, Ignore, SaveAlert,
     SaveFails, TaskFails
<1>3. ASSUME NEW t \in Tasks, NEW u, task[t].step # "free", Emit(task[t].mon, task[t].key, u)
      PROVE  \A k \in Keys : heard[k] \subseteq heard'[k]
  <2>1. task[t].key \in Keys
    BY <1>0, <1>3 DEF AlertTypeOK
  <2> QED BY <1>0, <1>3, <2>1, HeardTyped
<1> QED BY <1>1, <1>2, <1>3

LEMMA HeardStays ==
  ASSUME BusInv, ClocksOK, RaisedInv, HeardInv, [MonNext]_monVars
  PROVE  HeardInv'
<1>0. AlertTypeOK
  BY DEF ClocksOK
<1>1. CASE UNCHANGED monVars
  BY <1>1 DEF monVars, HeardInv, Waiting, Told, Settled, Creating
<1>2. CASE BusStep
  <2>1. UNCHANGED alertVars
    BY <1>2, BusStepsLeaveAlerts
  <2>2. Settled' \subseteq Settled
    BY <1>2, SettledShrinks DEF BusStep, LoopStep, LoopRead, LoopApply, LoopWake, LoopFails, ReloadRead, ReloadApply,
       ReloadFails, Settled
  <2>3. \A k \in Keys : Waiting(k)' <=> Waiting(k)
    BY <2>1 DEF alertVars, Waiting, Creating
  <2> QED BY <2>1, <2>2, <2>3, HeardFollows DEF alertVars
<1>3. CASE AlertStep
  <2>0. Settled' = Settled /\ unheard \subseteq unheard' /\ \A k \in Keys : heard[k] \subseteq heard'[k]
    BY <1>3, HeardGrows
  <2> SUFFICES ASSUME NEW k \in Keys, Waiting(k) PROVE Waiting(k)' \/ Told(k)'
    BY <2>0, HeardFollows
  <2>1. ASSUME alert' = alert, \A i \in Tasks : Creating(i, k) => Creating(i, k)' PROVE Waiting(k)'
    BY <2>1 DEF Waiting
  <2>2. CASE Tick \/ \E m \in Monitors : FirstPollFails(m)
    BY <2>1, <2>2 DEF Tick, FirstPollFails, Creating
  <2>3. ASSUME NEW m \in Monitors, NEW key \in Keys, NEW t \in Tasks, PollPings(m, key, t) PROVE Waiting(k)'
    <3>1. \A i \in Tasks \ {t} : task'[i] = task[i]
      BY <2>3 DEF PollPings, ClocksOK, AlertTypeOK
    <3>2. ~Creating(t, k) /\ alert' = alert
      BY <2>3 DEF PollPings, Creating
    <3> QED BY <2>1, <3>1, <3>2 DEF Creating
  <2>4. ASSUME NEW t \in Tasks, Ignore(t) \/ SaveFails(t) \/ TaskFails(t) \/ Repeat(t) PROVE Waiting(k)'
    <3>1. \A i \in Tasks \ {t} : task'[i] = task[i]
      BY <2>4, TaskRepeats DEF Ignore, SaveFails, TaskFails, Repeat, Becomes, ClocksOK, AlertTypeOK
    <3>2. ~Creating(t, k) /\ alert' = alert
      BY <2>4 DEF Ignore, SaveFails, TaskFails, Repeat, Creating
    <3> QED BY <2>1, <3>1, <3>2 DEF Creating
  <2>5. ASSUME NEW t \in Tasks, SaveAlert(t) PROVE Waiting(k)'
    <3>1. \A i \in Tasks \ {t} : task'[i] = task[i]
      BY <2>5 DEF SaveAlert, ClocksOK, AlertTypeOK
    <3>2. ~Creating(t, k) /\ (k # task[t].key => alert'[k] = alert[k])
      BY <1>0, <2>5 DEF SaveAlert, Touched, Creating, AlertTypeOK
    <3>3. k = task[t].key => alert[k] # Absent
      BY <2>5 DEF SaveAlert, RaisedInv, CreatedOnce, NoneBefore, HasFound
    <3> QED BY <3>1, <3>2, <3>3 DEF Waiting, Creating
  <2>6. ASSUME NEW t \in Tasks, Lookup(t) PROVE Waiting(k)'
    <3>1. PICK key \in Keys : key = task[t].key
      BY <1>0, <2>6 DEF Lookup, AlertTypeOK
    <3>2. PICK row : /\ Becomes(t, row) /\ row.key = key
                     /\ row.step = (IF alert[key] = Absent THEN "created" ELSE "found")
      BY <2>6, <3>1, TaskLooksUp
    <3>3. \A i \in Tasks : task'[i] = IF i = t THEN row ELSE task[i]
      BY <3>2 DEF Becomes, ClocksOK, AlertTypeOK
    <3>4. ~Creating(t, k)
      BY <2>6 DEF Lookup, Creating
    <3>5. CASE k = key /\ alert[k] = Absent
      BY <3>2, <3>3, <3>5 DEF Waiting, Creating
    <3>6. CASE ~(k = key /\ alert[k] = Absent)
      <4>1. alert'[k] = alert[k]
        BY <1>0, <2>6, <3>1, <3>6 DEF Lookup, Created, AlertTypeOK
      <4> QED BY <3>3, <3>4, <4>1 DEF Waiting, Creating
    <3> QED BY <3>5, <3>6
  <2>7. ASSUME NEW t \in Tasks, Announce(t) PROVE Waiting(k)' \/ Told(k)'
    <3>1. (\A i \in Tasks \ {t} : task'[i] = task[i]) /\ alert' = alert
      BY <2>7 DEF Announce, ClocksOK, AlertTypeOK
    <3>2. CASE k # task[t].key
      BY <2>1, <3>1, <3>2 DEF Creating
    <3>3. CASE k = task[t].key
      <4>1. PICK m \in Monitors : m = task[t].mon
        BY <1>0, <2>7 DEF Announce, AlertTypeOK
      <4>2. HasNoList(m) => k \in unheard'
        BY <2>7, <3>3, <4>1 DEF Announce
      <4>3. ASSUME ~HasNoList(m), NEW b \in Settled PROVE b \in heard'[k]
        <5>1. b \in Subs /\ listener[m][b] > 0
          BY <4>3, SettledHear
        <5>2. Emit(m, k, Absent)
          BY <2>7, <3>3, <4>1 DEF Announce
        <5> QED BY <1>0, <5>1, <5>2, HeardTyped
      <4> QED BY <2>0, <4>2, <4>3 DEF Told
    <3> QED BY <3>2, <3>3
  <2>8. ASSUME NEW m \in Monitors, MonitorDies(m) PROVE Waiting(k)' \/ Told(k)'
    <3>1. CASE \E t \in Tasks : Creating(t, k) /\ task[t].mon = m
      <4>1. k \in unheard'
        BY <2>8, <3>1 DEF MonitorDies, KeysAt, Creating
      <4> QED BY <4>1 DEF Told
    <3>2. CASE ~\E t \in Tasks : Creating(t, k) /\ task[t].mon = m
      BY <2>1, <2>8, <3>2 DEF MonitorDies, Creating
    <3> QED BY <3>1, <3>2
  <2> QED BY <1>3, <2>2, <2>3, <2>4, <2>5, <2>6, <2>7, <2>8 DEF AlertStep
<1> QED BY <1>1, <1>2, <1>3, TwoSides

(* A subscription of the start, never edited, hears of every alert, whoever
   raised it, unless that monitor had no list yet, or died before it spoke. *)
THEOREM SubscribersAreReached == MonSpec => []AlertsReachSubscribers
<1>1. MonInit => BusInv /\ ClocksOK /\ RaisedInv /\ HeardInv
  BY BusInitially, ClocksInitially, RaisedInitially DEF MonInit, HeardInv, Waiting
<1>2. BusInv /\ ClocksOK /\ RaisedInv /\ HeardInv /\ [MonNext]_monVars
        => (BusInv /\ ClocksOK /\ RaisedInv /\ HeardInv)'
  BY BusStays, ClocksStay, RaisedStays, HeardStays
<1> QED BY <1>1, <1>2, HeardIsReached, PTL DEF MonSpec

-----------------------------------------------------------------------------
(* The status of a trip (TripStatus) *)

PingRows == [time : Moments, place : Places]

TripTypeOK == /\ now \in Moments
              /\ pings \subseteq PingRows
              /\ riders \in [DOMAIN TripStops -> 0..2]
              /\ cancelled \in BOOLEAN

\* A set of numbers has a least one.
LEMMA LeastOfNats ==
  ASSUME NEW S \in SUBSET Nat, S # {}
  PROVE  \E x \in S : \A y \in S : x <= y
<1>1. PICK R : R = OpToRel(<, Nat)  OBVIOUS
<1>2. IsWellFoundedOn(R, Nat)  BY <1>1, NatLessThanWellFounded
<1>3. PICK x \in S : \A y \in S : ~(<<y, x>> \in R)  BY <1>2, WFMin
<1>4. \A m, n \in Nat : m < n => <<m, n>> \in R  BY <1>1 DEF OpToRel
<1>5. \A y \in S : ~(y < x)  BY <1>3, <1>4
<1> QED  BY <1>5

LEMMA MinIsLeast ==
  ASSUME NEW S \in SUBSET Nat, S # {}
  PROVE  Min(S) \in S /\ \A y \in S : Min(S) <= y
BY LeastOfNats DEF Min

\* Stops are in the order of their times, so the last of those passed exists.
LEMMA MaxOfPassed ==
  ASSUME NEW S \in SUBSET DOMAIN TripStops, S # {}, NEW n \in Nat, \A s \in S : TripStops[s].time <= n
  PROVE  Max(S) \in S
<1>1. PICK D : D = {n - TripStops[s].time : s \in S}  OBVIOUS
<1>2. \A s \in S : n - TripStops[s].time \in Nat  BY StopsAreTimed
<1>3. D \in SUBSET Nat /\ D # {}  BY <1>1, <1>2
<1>4. PICK d \in D : \A e \in D : d <= e  BY <1>3, LeastOfNats
<1>5. PICK s \in S : d = n - TripStops[s].time  BY <1>1, <1>4
<1>6. ASSUME NEW u \in S PROVE u <= s
  <2>1. n - TripStops[s].time <= n - TripStops[u].time  BY <1>1, <1>4, <1>5
  <2>2. TripStops[u].time <= TripStops[s].time  BY <2>1, StopsAreTimed
  <2>3. ~(s < u)  BY <2>2, StopsAreInOrder, StopsAreTimed
  <2> QED  BY <2>3, StopsAreTimed
<1>7. \E x \in S : \A y \in S : x >= y  BY <1>6, StopsAreTimed
<1> QED  BY <1>7 DEF Max

LEMMA RelevantAreStops == Relevant \subseteq DOMAIN TripStops /\ Relevant \in SUBSET Nat
BY StopsAreTimed DEF Relevant

\* The stops the daemon looks at.
LEMMA NextIsAhead ==
  ASSUME now \in Nat, NextRelevant # NoStop
  PROVE  /\ NextRelevant \in Relevant /\ TripStops[NextRelevant].time > now
         /\ \A s \in Relevant : TripStops[s].time > now => NextRelevant <= s
<1>1. PICK ahead : ahead = {s \in Relevant : TripStops[s].time > now}  OBVIOUS
<1>2. NextRelevant = IF ahead = {} THEN NoStop ELSE Min(ahead)  BY <1>1 DEF NextRelevant
<1>3. ahead \in SUBSET Nat /\ ahead # {}  BY <1>1, <1>2, RelevantAreStops
<1>4. Min(ahead) \in ahead /\ \A y \in ahead : Min(ahead) <= y  BY <1>3, MinIsLeast
<1> QED  BY <1>1, <1>2, <1>3, <1>4

LEMMA NextOfAhead ==
  ASSUME now \in Nat, NEW s \in Relevant, TripStops[s].time > now
  PROVE  NextRelevant # NoStop
<1>1. PICK ahead : ahead = {i \in Relevant : TripStops[i].time > now}  OBVIOUS
<1>2. NextRelevant = IF ahead = {} THEN NoStop ELSE Min(ahead)  BY <1>1 DEF NextRelevant
<1>3. ahead \in SUBSET Nat /\ ahead # {}  BY <1>1, RelevantAreStops
<1>4. Min(ahead) \in Relevant  BY <1>1, <1>3, MinIsLeast
<1> QED  BY <1>2, <1>3, <1>4, RelevantAreStops, StopsAreTimed DEF NoStop

LEMMA PrevIsPassed ==
  ASSUME now \in Nat
  PROVE  /\ PrevRelevant # NoStop => PrevRelevant \in Relevant
         /\ \A s \in Relevant : TripStops[s].time <= now => PrevRelevant # NoStop
<1>1. PICK passed : passed = {s \in Relevant : TripStops[s].time <= now}  OBVIOUS
<1>2. PrevRelevant = IF passed = {} THEN NoStop ELSE Max(passed)  BY <1>1 DEF PrevRelevant
<1>3. passed \in SUBSET DOMAIN TripStops /\ passed \subseteq Relevant  BY <1>1, RelevantAreStops
<1>4. passed # {} => Max(passed) \in passed  BY <1>1, <1>3, MaxOfPassed
<1> QED  BY <1>1, <1>2, <1>3, <1>4, StopsAreTimed DEF NoStop

-----------------------------------------------------------------------------
(* Silence.  Without a ping, no stop was arrived at and no delay is estimated. *)

LEMMA SilentBest == \A stop : BestPing(stop, {}) = Nowhere
BY DEF BestPing, Near

LEMMA SilentFacts ==
  ASSUME now \in Nat, pings = {}
  PROVE  /\ \A s : ~Arrived(s, pings)
         /\ ~RecentlyPinged(pings)
         /\ DistanceEvent(NextRelevant, PrevRelevant, pings) = DontCare
<1>1. \A s : ~Arrived(s, pings)  BY SilentBest DEF Arrived
<1>2. LastPing(pings) = Nowhere  BY DEF LastPing
<1>3. ~RecentlyPinged(pings)  BY <1>2 DEF RecentlyPinged
<1>4. \A s : EtaEvent(s, pings) = DontCare  BY <1>2 DEF EtaEvent
<1>5. DistanceEvent(NextRelevant, PrevRelevant, pings) = DontCare  BY <1>1, <1>4 DEF DistanceEvent
<1> QED  BY <1>1, <1>3, <1>5

LEMMA SilentPing ==
  ASSUME TripTypeOK, pings = {}, Relevant # {}, now >= TripStops[FirstWatched].time - 25
  PROVE  \E severity \in {3, 4}, mins \in {5, 10, 15, 20, 25} :
           PingEvent(NextRelevant, PrevRelevant, pings) = NoPings(severity, mins)
<1>1. now \in Nat  BY PingBoundsAreNat DEF TripTypeOK
<1> PICK first : first = Min(Relevant)  OBVIOUS
<1>2. first \in Relevant /\ \A s \in Relevant : first <= s  BY RelevantAreStops, MinIsLeast
<1>3. TripStops[first].time \in Nat /\ now >= TripStops[first].time - 25
  BY <1>2, RelevantAreStops, StopsAreTimed DEF FirstWatched
<1> PICK next : next = NextRelevant  OBVIOUS
<1> PICK prev : prev = PrevRelevant  OBVIOUS
<1>4. CASE NextIsClose(next)
  <2>1. next # NoStop /\ TripStops[next].time - now <= (IF next = first THEN 30 ELSE 15)
    BY <1>4 DEF NextIsClose
  <2>2. next \in Relevant /\ TripStops[next].time > now  BY <1>1, <2>1, NextIsAhead
  <2>3. TripStops[next].time \in Nat  BY <2>2, RelevantAreStops, StopsAreTimed
  <2> PICK left : left = TripStops[next].time - now  OBVIOUS
  <2>4. left \in Nat /\ 0 < left /\ left <= 25  BY <1>1, <1>3, <2>1, <2>2, <2>3
  <2>5. CASE left <= 5
    <3>1. PingEvent(next, prev, pings) = NoPings(4, 5)  BY <1>1, <1>4, <2>4, <2>5, SilentFacts DEF PingEvent
    <3> QED  BY <3>1
  <2>6. CASE left > 5
    <3>1. PingEvent(next, prev, pings) = NoPings(3, NumFiveMins(left) * 5)
      BY <1>1, <1>4, <2>4, <2>6, SilentFacts DEF PingEvent
    <3>2. NumFiveMins(left) \in {2, 3, 4, 5}  BY <2>4, <2>6 DEF NumFiveMins
    <3>3. NumFiveMins(left) * 5 \in {10, 15, 20, 25}  BY <3>2
    <3> QED  BY <3>1, <3>3
  <2> QED  BY <2>4, <2>5, <2>6
<1>5. CASE ~NextIsClose(next)
  <2>1. TripStops[first].time <= now
    <3> SUFFICES ASSUME TripStops[first].time > now PROVE FALSE  BY <1>1, <1>3
    <3>1. next # NoStop  BY <1>1, <1>2, NextOfAhead
    <3>2. next \in Relevant /\ next <= first  BY <1>1, <1>2, <3>1, NextIsAhead
    <3>3. next = first  BY <1>2, <3>2, RelevantAreStops
    <3>4. TripStops[next].time - now <= 30  BY <1>1, <1>3, <3>3
    <3> QED  BY <1>5, <3>1, <3>3, <3>4 DEF NextIsClose
  <2>2. prev # NoStop  BY <1>1, <1>2, <2>1, PrevIsPassed
  <2>3. PrevPingEvent(prev, pings) = NoPings(4, 5)  BY <1>1, <2>2, SilentFacts DEF PrevPingEvent
  <2>4. PingEvent(next, prev, pings) = NoPings(4, 5)  BY <1>5, <2>3 DEF PingEvent
  <2> QED  BY <2>4
<1> QED  BY <1>4, <1>5

\* What processStatus returns is at least as severe as the missing pings.
LEMMA WorstIsAsSevere ==
  ASSUME NEW em, NEW dist, NEW ping,
         em.severity \in Int, dist.severity \in Int, ping.severity \in Int
  PROVE  /\ MostSevere(<<em, dist, ping>>).severity \in Int
         /\ MostSevere(<<em, dist, ping>>).severity >= ping.severity
<1> PICK es : es = <<em, dist, ping>>  OBVIOUS
<1>1. DOMAIN es = {1, 2, 3} /\ es[1] = em /\ es[2] = dist /\ es[3] = ping  OBVIOUS
<1> PICK top : top = {i \in DOMAIN es : \A j \in DOMAIN es : es[j].severity <= es[i].severity}  OBVIOUS
<1>2. top \in SUBSET Nat  BY <1>1
<1>3. top # {}
  <2>1. CASE em.severity >= dist.severity /\ em.severity >= ping.severity
    <3>1. 1 \in top  BY <1>1, <2>1
    <3> QED  BY <3>1
  <2>2. CASE dist.severity >= em.severity /\ dist.severity >= ping.severity
    <3>1. 2 \in top  BY <1>1, <2>2
    <3> QED  BY <3>1
  <2>3. CASE ping.severity >= em.severity /\ ping.severity >= dist.severity
    <3>1. 3 \in top  BY <1>1, <2>3
    <3> QED  BY <3>1
  <2> QED  BY <2>1, <2>2, <2>3
<1>4. Min(top) \in top  BY <1>2, <1>3, MinIsLeast
<1>5. es[3].severity <= es[Min(top)].severity  BY <1>1, <1>4
<1>6. MostSevere(es) = es[Min(top)]  BY DEF MostSevere
<1>7. Min(top) \in {1, 2, 3}  BY <1>1, <1>4
<1>8. es[Min(top)].severity \in Int  BY <1>1, <1>7
<1> QED  BY <1>1, <1>5, <1>6, <1>8

LEMMA SilenceIsReported ==
  ASSUME TripTypeOK
  PROVE  SilentBusIsReported
<1> SUFFICES ASSUME pings = {}, Relevant # {}, now >= TripStops[FirstWatched].time - 25
             PROVE  /\ Status.ping.kind = "noPings" /\ Status.ping.severity >= 3
                    /\ Status.ping.mins \in {5, 10, 15, 20, 25}
                    /\ Passengers => IsTexted(Status)
  BY DEF SilentBusIsReported
<1>1. now \in Nat  BY PingBoundsAreNat DEF TripTypeOK
<1>2. PICK severity \in {3, 4}, mins \in {5, 10, 15, 20, 25} :
        PingEvent(NextRelevant, PrevRelevant, pings) = NoPings(severity, mins)
  BY SilentPing
<1>3. Status.ping = NoPings(severity, mins)  BY <1>2 DEF Status
<1>4. Status.worst = MostSevere(<<EmergencyEvent, DontCare, NoPings(severity, mins)>>)
  BY <1>1, <1>2, SilentFacts DEF Status
<1>5. EmergencyEvent.severity \in Int /\ DontCare.severity \in Int /\ NoPings(severity, mins).severity = severity
  BY DEF EmergencyEvent, DontCare, NoPings, Event
<1>6. Status.worst.severity \in Int /\ Status.worst.severity >= severity  BY <1>4, <1>5, WorstIsAsSevere
<1>7. Status.nobody = (\A s \in DOMAIN riders : riders[s] = 0)  BY DEF Status
<1>8. Passengers => ~Status.nobody
  <2> SUFFICES ASSUME Passengers PROVE ~Status.nobody  OBVIOUS
  <2>1. PICK s \in DOMAIN riders : riders[s] > 0  BY DEF Passengers
  <2>2. riders[s] # 0  BY <2>1
  <2> QED  BY <1>7, <2>2
<1>9. Status.worst.severity >= 3  BY <1>6
<1>10. Passengers => IsTexted(Status)  BY <1>8, <1>9 DEF IsTexted
<1> QED  BY <1>3, <1>10 DEF NoPings, Event

-----------------------------------------------------------------------------
(* Arrival.  The best ping of a stop is one of the nearest in time, and of     *)
(* those the earliest.                                                       *)

LEMMA DistanceIsNat ==
  ASSUME NEW a \in Nat, NEW b \in Nat
  PROVE  Distance(a, b) \in Nat
BY DEF Distance

LEMMA BestIsClosest ==
  ASSUME NEW stop, stop.time \in Nat, NEW ps \in SUBSET PingRows, Near(stop, ps) # {}
  PROVE  LET b == BestPing(stop, ps)
         IN /\ b \in Near(stop, ps) /\ b \in PingRows
            /\ \A q \in Near(stop, ps) :
                 /\ Distance(b.time, stop.time) <= Distance(q.time, stop.time)
                 /\ Distance(q.time, stop.time) = Distance(b.time, stop.time) => b.time <= q.time
<1> PICK near : near = Near(stop, ps)  OBVIOUS
<1>1. near \subseteq PingRows  BY DEF Near
<1>2. \A p \in near : p.time \in Nat /\ Distance(p.time, stop.time) \in Nat
  <2> SUFFICES ASSUME NEW p \in near PROVE p.time \in Nat /\ Distance(p.time, stop.time) \in Nat  OBVIOUS
  <2>1. p.time \in Nat  BY <1>1, PingBoundsAreNat DEF PingRows
  <2> QED  BY <2>1, DistanceIsNat
<1> PICK D : D = {Distance(p.time, stop.time) : p \in near}  OBVIOUS
<1>3. D \in SUBSET Nat /\ D # {}  BY <1>2
<1>4. PICK d \in D : \A e \in D : d <= e  BY <1>3, LeastOfNats
<1>5. PICK p \in near : d = Distance(p.time, stop.time)  BY <1>4
<1> PICK closest : closest = Closest(stop, near)  OBVIOUS
<1>6. closest = {c \in near : \A q \in near : Distance(c.time, stop.time) <= Distance(q.time, stop.time)}
  BY DEF Closest
<1>7. p \in closest  BY <1>4, <1>5, <1>6
<1> PICK T : T = {c.time : c \in closest}  OBVIOUS
<1>8. T \in SUBSET Nat /\ T # {}  BY <1>2, <1>6, <1>7
<1>9. PICK t \in T : \A u \in T : t <= u  BY <1>8, LeastOfNats
<1>10. \E c \in closest : \A q \in closest : c.time <= q.time  BY <1>9
<1>11. BestPing(stop, ps) = CHOOSE c \in closest : \A q \in closest : c.time <= q.time  BY DEF BestPing
<1> PICK b : b = BestPing(stop, ps)  OBVIOUS
<1>12. b \in closest /\ \A q \in closest : b.time <= q.time  BY <1>10, <1>11
<1>13. ASSUME NEW q \in near, Distance(q.time, stop.time) = Distance(b.time, stop.time)
       PROVE  b.time <= q.time
  <2>1. q \in closest  BY <1>6, <1>12, <1>13
  <2> QED  BY <1>12, <2>1
<1>14. b \in near /\ \A q \in near : Distance(b.time, stop.time) <= Distance(q.time, stop.time)
  BY <1>6, <1>12
<1> QED  BY <1>1, <1>13, <1>14

LEMMA BestOrNowhere ==
  ASSUME NEW stop, stop.time \in Nat, NEW ps \in SUBSET PingRows
  PROVE  BestPing(stop, ps) # Nowhere <=> Near(stop, ps) # {}
<1>1. Near(stop, ps) = {} => BestPing(stop, ps) = Nowhere  BY DEF BestPing
<1>2. Near(stop, ps) # {} => BestPing(stop, ps) \in PingRows  BY BestIsClosest
<1>3. Nowhere \notin PingRows  BY DayIsKnown DEF Nowhere, PingRows
<1> QED  BY <1>1, <1>2, <1>3

\* All of P was sent before the rest of the pings.
SentFirst(P) == \A p \in P, q \in pings \ P : p.time <= q.time

\* Later pings bring the best ping of a stop closer, or leave it, and never make it earlier.
LEMMA BestMovesOn ==
  ASSUME pings \subseteq PingRows, NEW stop, stop.time \in Nat, NEW P \in SUBSET pings, SentFirst(P),
         BestPing(stop, P) # Nowhere
  PROVE  /\ BestPing(stop, pings) # Nowhere
         /\ BestPing(stop, P).time \in Nat /\ BestPing(stop, pings).time \in Nat
         /\ Distance(BestPing(stop, pings).time, stop.time) <= Distance(BestPing(stop, P).time, stop.time)
         /\ BestPing(stop, P).time <= BestPing(stop, pings).time
<1>1. P \in SUBSET PingRows  OBVIOUS
<1>2. Near(stop, P) # {}  BY <1>1, BestOrNowhere
<1>3. Near(stop, P) = Near(stop, pings) \cap P  BY DEF Near
<1>4. Near(stop, pings) # {}  BY <1>2, <1>3
<1> PICK b : b = BestPing(stop, P)  OBVIOUS
<1> PICK c : c = BestPing(stop, pings)  OBVIOUS
<1>5. /\ b \in Near(stop, P) /\ b \in PingRows
      /\ \A q \in Near(stop, P) :
           /\ Distance(b.time, stop.time) <= Distance(q.time, stop.time)
           /\ Distance(q.time, stop.time) = Distance(b.time, stop.time) => b.time <= q.time
  BY <1>1, <1>2, BestIsClosest
<1>6. /\ c \in Near(stop, pings) /\ c \in PingRows
      /\ \A q \in Near(stop, pings) : Distance(c.time, stop.time) <= Distance(q.time, stop.time)
  BY <1>4, BestIsClosest
<1>7. b.time \in Nat /\ c.time \in Nat  BY <1>5, <1>6, PingBoundsAreNat DEF PingRows
<1>8. Distance(b.time, stop.time) \in Nat /\ Distance(c.time, stop.time) \in Nat  BY <1>7, DistanceIsNat
<1>9. Distance(c.time, stop.time) <= Distance(b.time, stop.time)  BY <1>3, <1>5, <1>6
<1>10. b.time <= c.time
  <2>1. CASE c \in P
    <3>1. c \in Near(stop, P)  BY <1>3, <1>6, <2>1
    <3>2. Distance(c.time, stop.time) = Distance(b.time, stop.time)  BY <1>5, <1>8, <1>9, <3>1
    <3> QED  BY <1>5, <3>1, <3>2
  <2>2. CASE c \notin P
    <3>1. c \in pings \ P /\ b \in P  BY <1>3, <1>5, <1>6, <2>2 DEF Near
    <3> QED  BY <3>1 DEF SentFirst
  <2> QED  BY <2>1, <2>2
<1>11. c # Nowhere  BY <1>4, BestOrNowhere
<1> QED  BY <1>7, <1>9, <1>10, <1>11

\* The window of ArrivalWindow, for the stops that were watched.
WindowOf(watched) == IF Cardinality(watched) > 1 THEN -2 ELSE -5

\* The status that said the bus has arrived saw this of the pings sent by then.
SeenFrom(P) ==
  /\ latest.prev \in DOMAIN TripStops
  /\ BestPing(TripStops[latest.prev], P) # Nowhere
  /\ BestPing(TripStops[latest.prev], P).time - TripStops[latest.prev].time >= WindowOf(latest.watched)
  /\ latest.arrivalTime = BestPing(TripStops[latest.prev], P).time

ArrivalWasSeen == latest.arrivalTime # Never => \E P \in SUBSET pings : SentFirst(P) /\ SeenFrom(P)

TripInv == /\ TripTypeOK
           /\ \A p \in pings : p.time <= now
           /\ ArrivalWasSeen

\* What a status that says so has seen.
LEMMA StatusArrival ==
  ASSUME TripTypeOK, Status.arrivalTime # Never
  PROVE  /\ Status.prev \in DOMAIN TripStops
         /\ BestPing(TripStops[Status.prev], pings) # Nowhere
         /\ BestPing(TripStops[Status.prev], pings).time - TripStops[Status.prev].time >= WindowOf(Status.watched)
         /\ Status.arrivalTime = BestPing(TripStops[Status.prev], pings).time
<1>1. now \in Nat  BY PingBoundsAreNat DEF TripTypeOK
<1> PICK prev : prev = PrevRelevant  OBVIOUS
<1>2. Status.prev = prev /\ Status.watched = Relevant
      /\ Status.arrivalTime = IF Arrived(prev, pings) THEN BestPing(TripStops[prev], pings).time ELSE Never
  BY DEF Status
<1>3. Arrived(prev, pings) /\ Status.arrivalTime = BestPing(TripStops[prev], pings).time  BY <1>2
<1>4. prev \in DOMAIN TripStops  BY <1>1, <1>3, PrevIsPassed, RelevantAreStops DEF Arrived
<1>5. ArrivalWindow = WindowOf(Relevant)  BY DEF ArrivalWindow, WindowOf
<1> QED  BY <1>2, <1>3, <1>4, <1>5 DEF Arrived, Deviation

LEMMA TripInitially == TripInit => TripInv
<1> SUFFICES ASSUME TripInit PROVE TripInv  OBVIOUS
<1>1. Min(Moments) \in Moments  BY MinIsLeast, PingBoundsAreNat, DayIsKnown
<1>2. riders \in [DOMAIN TripStops -> 0..2]
  <2>1. {0, 1} \subseteq 0..2  OBVIOUS
  <2>2. riders \in [DOMAIN TripStops -> {0, 1}]  BY DEF TripInit
  <2> QED  BY <2>1, <2>2
<1>3. TripTypeOK  BY <1>1, <1>2 DEF TripInit, TripTypeOK
<1>4. ArrivalWasSeen  BY DEF TripInit, Unpolled, ArrivalWasSeen
<1> QED  BY <1>3, <1>4 DEF TripInv, TripInit

LEMMA TripStepKeeps ==
  ASSUME TripInv, [TripNext]_tripVars
  PROVE  TripInv'
<1>1. now \in Moments /\ now \in Nat /\ pings \subseteq PingRows
  BY PingBoundsAreNat DEF TripInv, TripTypeOK
<1>2. ASSUME UNCHANGED <<pings, latest>> PROVE ArrivalWasSeen'
  <2> SUFFICES ASSUME latest.arrivalTime # Never
               PROVE  \E P \in SUBSET pings : SentFirst(P)' /\ SeenFrom(P)'
    BY <1>2 DEF ArrivalWasSeen, SentFirst, SeenFrom
  <2>1. PICK P \in SUBSET pings : SentFirst(P) /\ SeenFrom(P)  BY DEF TripInv, ArrivalWasSeen
  <2>2. SentFirst(P)' /\ SeenFrom(P)'  BY <1>2, <2>1 DEF SentFirst, SeenFrom
  <2> QED  BY <2>2
<1>3. CASE Pass
  <2> PICK ahead : ahead = {t \in Moments : t > now}  OBVIOUS
  <2>1. ahead # {} /\ ahead \in SUBSET Nat /\ now' = Min(ahead)  BY <1>3, PingBoundsAreNat DEF Pass
  <2>2. now' \in Moments /\ now' > now  BY <2>1, MinIsLeast
  <2>3. \A p \in pings : p.time \in Nat  BY <1>1, PingBoundsAreNat DEF PingRows
  <2>4. \A p \in pings' : p.time <= now'
    BY <1>1, <1>3, <2>2, <2>3, PingBoundsAreNat DEF Pass, TripInv
  <2>5. TripTypeOK'  BY <1>3, <2>2 DEF Pass, TripInv, TripTypeOK
  <2>6. ArrivalWasSeen'  BY <1>2, <1>3 DEF Pass
  <2> QED  BY <2>4, <2>5, <2>6 DEF TripInv
<1>4. ASSUME NEW place \in Places, Ping(place) PROVE TripInv'
  <2> PICK row : row = [time |-> now, place |-> place]  OBVIOUS
  <2>1. row \in PingRows /\ row.time = now  BY <1>1 DEF PingRows
  <2>2. pings' = pings \cup {row} /\ UNCHANGED <<now, riders, cancelled, latest>>  BY <1>4 DEF Ping
  <2>3. TripTypeOK'  BY <1>1, <2>1, <2>2 DEF TripInv, TripTypeOK
  <2>4. \A p \in pings' : p.time <= now'  BY <1>1, <2>1, <2>2 DEF TripInv
  <2>5. ArrivalWasSeen'
    <3> SUFFICES ASSUME latest.arrivalTime # Never
                 PROVE  \E P \in SUBSET pings' : SentFirst(P)' /\ SeenFrom(P)'
      BY <2>2 DEF ArrivalWasSeen, SentFirst, SeenFrom
    <3>1. PICK P \in SUBSET pings : SentFirst(P) /\ SeenFrom(P)  BY DEF TripInv, ArrivalWasSeen
    <3>2. \A p \in P : p.time <= row.time  BY <2>1 DEF TripInv
    <3>3. SentFirst(P)'  BY <2>2, <3>1, <3>2 DEF SentFirst
    <3>4. SeenFrom(P)'  BY <2>2, <3>1 DEF SeenFrom
    <3>5. P \in SUBSET pings'  BY <2>2
    <3> QED  BY <3>3, <3>4, <3>5
  <2> QED  BY <2>3, <2>4, <2>5 DEF TripInv
<1>5. ASSUME NEW s \in DOMAIN TripStops, NEW n \in {-1, 1}, Book(s, n) PROVE TripInv'
  <2>1. riders' = [riders EXCEPT ![s] = @ + n] /\ riders[s] + n \in 0..2
        /\ UNCHANGED <<now, pings, cancelled, latest>>
    BY <1>5 DEF Book
  <2>2. TripTypeOK'  BY <2>1 DEF TripInv, TripTypeOK
  <2>3. ArrivalWasSeen'  BY <1>2, <2>1
  <2> QED  BY <2>1, <2>2, <2>3 DEF TripInv
<1>6. CASE Cancel
  <2>1. TripTypeOK'  BY <1>6 DEF Cancel, TripInv, TripTypeOK
  <2>2. ArrivalWasSeen'  BY <1>2, <1>6 DEF Cancel
  <2> QED  BY <1>6, <2>1, <2>2 DEF Cancel, TripInv
<1>7. CASE Poll
  <2>1. UNCHANGED <<now, pings, riders, cancelled>> /\ latest' = Status  BY <1>7 DEF Poll
  <2>2. TripTypeOK'  BY <2>1 DEF TripInv, TripTypeOK
  <2>3. ArrivalWasSeen'
    <3> SUFFICES ASSUME latest'.arrivalTime # Never
                 PROVE  \E P \in SUBSET pings' : SentFirst(P)' /\ SeenFrom(P)'
      BY DEF ArrivalWasSeen
    <3>1. SentFirst(pings)'  BY <2>1 DEF SentFirst
    <3>2. /\ latest'.prev \in DOMAIN TripStops
          /\ BestPing(TripStops[latest'.prev], pings) # Nowhere
          /\ BestPing(TripStops[latest'.prev], pings).time - TripStops[latest'.prev].time >= WindowOf(latest'.watched)
          /\ latest'.arrivalTime = BestPing(TripStops[latest'.prev], pings).time
      BY <2>1, StatusArrival DEF TripInv
    <3>3. \E P \in SUBSET pings' : P = pings  BY <2>1
    <3> QED  BY <2>1, <3>1, <3>2, <3>3 DEF SeenFrom, SentFirst
  <2> QED  BY <2>1, <2>2, <2>3 DEF TripInv
<1>8. CASE UNCHANGED tripVars
  <2>1. UNCHANGED <<now, pings, riders, cancelled, latest>>  BY <1>8 DEF tripVars
  <2>2. TripTypeOK'  BY <2>1 DEF TripInv, TripTypeOK
  <2>3. ArrivalWasSeen'  BY <1>2, <2>1
  <2> QED  BY <2>1, <2>2, <2>3 DEF TripInv
<1> QED  BY <1>3, <1>4, <1>5, <1>6, <1>7, <1>8 DEF TripNext

\* A poll after one that saw the bus arrive.
LEMMA ArrivalStays ==
  ASSUME TripInv, Poll, latest.arrivalTime # Never, latest'.prev = latest.prev, latest'.watched = latest.watched
  PROVE  /\ latest'.arrivalTime # Never
         /\ Distance(latest'.arrivalTime, TripStops[latest.prev].time)
              <= Distance(latest.arrivalTime, TripStops[latest.prev].time)
<1>1. pings \subseteq PingRows  BY DEF TripInv, TripTypeOK
<1>2. PICK P \in SUBSET pings : SentFirst(P) /\ SeenFrom(P)  BY DEF TripInv, ArrivalWasSeen
<1> PICK stop : stop = TripStops[latest.prev]  OBVIOUS
<1>3. latest.prev \in DOMAIN TripStops /\ stop.time \in Nat  BY <1>2, StopsAreTimed DEF SeenFrom
<1> PICK b : b = BestPing(stop, P)  OBVIOUS
<1> PICK c : c = BestPing(stop, pings)  OBVIOUS
<1>4. b # Nowhere /\ b.time - stop.time >= WindowOf(latest.watched) /\ latest.arrivalTime = b.time
  BY <1>2 DEF SeenFrom
<1>5. /\ c # Nowhere /\ b.time \in Nat /\ c.time \in Nat /\ b.time <= c.time
      /\ Distance(c.time, stop.time) <= Distance(b.time, stop.time)
  BY <1>1, <1>2, <1>3, <1>4, BestMovesOn
<1>6. latest' = Status  BY DEF Poll
<1> PICK prev : prev = PrevRelevant  OBVIOUS
<1>7. Status.prev = prev /\ Status.watched = Relevant
      /\ Status.arrivalTime = IF Arrived(prev, pings) THEN BestPing(TripStops[prev], pings).time ELSE Never
  BY DEF Status
<1>8. prev = latest.prev /\ Relevant = latest.watched  BY <1>6, <1>7
<1>9. prev # NoStop  BY <1>3, <1>8, StopsAreTimed DEF NoStop
<1>10. ArrivalWindow = WindowOf(latest.watched) /\ WindowOf(latest.watched) \in Int
  BY <1>8 DEF ArrivalWindow, WindowOf
<1>11. c.time - stop.time >= ArrivalWindow  BY <1>3, <1>4, <1>5, <1>10
<1>12. Arrived(prev, pings)  BY <1>5, <1>8, <1>9, <1>11 DEF Arrived, Deviation
<1>13. latest'.arrivalTime = c.time  BY <1>6, <1>7, <1>8, <1>12
<1>14. c.time # Never  BY <1>5 DEF Never
<1> QED  BY <1>4, <1>5, <1>13, <1>14

(* Types, and what the last status that saw the bus arrive was made of.       *)
THEOREM TripInvariant == TripSpec => []TripInv
<1>1. TripInv /\ [TripNext]_tripVars => TripInv'  BY TripStepKeeps
<1> QED  BY <1>1, TripInitially, PTL DEF TripSpec

(* A bus that never sent a ping is reported from 25 minutes before the first   *)
(* stop with passengers on, for every list of stops, and its event is one that *)
(* the schema of events accepts.                                             *)
THEOREM SilentBusesAreReported == TripSpec => []SilentBusIsReported
<1>1. TripInv => SilentBusIsReported  BY SilenceIsReported DEF TripInv
<1> QED  BY <1>1, TripInvariant, PTL

(* A poll does not take back the arrival an earlier one saw, nor report a       *)
(* greater deviation, while the same stops are watched.                       *)
THEOREM ArrivalsAreFinal == TripSpec => ArrivalIsFinal
<1> DEFINE Kept ==
      latest.arrivalTime # Never /\ latest'.prev = latest.prev /\ latest'.watched = latest.watched
        => LET due == TripStops[latest.prev].time
           IN latest'.arrivalTime # Never /\ Distance(latest'.arrivalTime, due) <= Distance(latest.arrivalTime, due)
<1>1. ASSUME TripInv, [TripNext]_tripVars PROVE [Kept]_latest
  <2>1. CASE Poll  BY <1>1, <2>1, ArrivalStays
  <2>2. CASE ~Poll
    <3>1. UNCHANGED latest  BY <1>1, <2>2 DEF TripNext, tripVars, Pass, Ping, Book, Cancel
    <3> QED  BY <3>1
  <2> QED  BY <2>1, <2>2
<1>2. TripInv /\ [TripNext]_tripVars => [Kept]_latest  BY <1>1
<1>3. ArrivalIsFinal <=> [][Kept]_latest  BY DEF ArrivalIsFinal
<1> QED  BY <1>2, <1>3, TripInvariant, PTL DEF TripSpec, ArrivalIsFinal
===============================================================================
