------------------------------ MODULE Monitoring -------------------------------
(***************************************************************************)
(* How the events of the monitoring daemon reach those who subscribed to   *)
(* them.  Every server forks one monitoring process; servers and monitors  *)
(* each keep the list of event subscriptions in memory and reload it every *)
(* half hour, a server also after a request that edits a subscription.     *)
(* Monitors poll the trips (TripStatus) and raise what they find; the      *)
(* table alerts, shared by all of them, keeps one alert from being raised  *)
(* twice, and lets a bus that stays silent be reported again after an hour.*)
(***************************************************************************)
EXTENDS Integers, FiniteSets

CONSTANTS
  Servers, Monitors,
  Subs,          \* rows eventSubscriptions may have
  Bad,           \* those whose params the definition of their event rejects
  Keys,          \* dedupKey of the events of the day
  Repeating,     \* the keys of NoPingsEvent
  Tasks,         \* emitDeduped and processNotifications calls running at a time
  Reloads,       \* reloadSubscriptions calls running at a time
  LastStopTime,  \* when the trip ends, in half hours
  MaxClock, MaxEdits, MaxFaults

Procs == Servers \cup Monitors
Hour == 2

ASSUME MonitorsAreNoServers == Servers \cap Monitors = {}
ASSUME KindsAreSubsets == Repeating \subseteq Keys /\ Bad \subseteq Subs
ASSUME BoundsAreNat == MaxClock \in Nat /\ MaxEdits \in Nat /\ MaxFaults \in Nat /\ LastStopTime \in Nat

VARIABLES
  table,     \* table eventSubscriptions
  listener,  \* how many listeners of each row the process has installed
  loop,      \* the polling loop that reloads the subscriptions
  list,      \* what that loop has read
  reload,    \* reloads started by requests
  polling,   \* the polling loop over the trips of each monitor
  alert,     \* table alerts: Absent, or updatedAt
  task,      \* the notifications being handled
  clock,     \* in half hours
  heard,     \* history: the subscriptions each event was delivered to
  raised,    \* history: how often an event was raised on each state of its alert
  unsaved,   \* history: events whose alert was looked up before, or without, the save due
  unheard,   \* history: events raised by a monitor without a list, or lost in its death
  edited,    \* history: rows that were edited
  faults     \* how many faults have happened

monVars == <<table, listener, loop, list, reload, polling, alert, task, clock,
             heard, raised, unsaved, unheard, edited, faults>>
busVars   == <<table, listener, loop, list, reload, edited>>
alertVars == <<polling, alert, task, clock, heard, raised, unsaved, unheard>>

Absent == -1
Times == 0 .. MaxClock
NoReload == [proc |-> "none", step |-> "free", rows |-> {}]
NoTask   == [mon |-> "none", key |-> "none", step |-> "free", now |-> 0, updatedAt |-> Absent]

MonInit ==
  /\ table \in {Subs, Bad}
  /\ listener = [p \in Procs |-> [b \in Subs |-> 0]]
  /\ loop = [p \in Procs |-> "starting"]
  /\ list = [p \in Procs |-> {}]
  /\ reload = [r \in Reloads |-> NoReload]
  /\ polling = [m \in Monitors |-> "starting"]
  /\ alert = [k \in Keys |-> Absent]
  /\ task = [t \in Tasks |-> NoTask]
  /\ clock = 0
  /\ heard = [k \in Keys |-> {}]
  /\ raised = [k \in Keys |-> [u \in Times \cup {Absent} |-> 0]]
  /\ unsaved = {} /\ unheard = {} /\ edited = {}
  /\ faults = 0

Fault == faults < MaxFaults /\ faults' = faults + 1

-----------------------------------------------------------------------------
(* Subscriptions. *)

(* setSubscriptionList: the old listeners go; a row whose parameters are not
   valid is skipped. *)
AllOrNoListeners(old, rows) == [b \in Subs |-> IF b \in rows /\ rows \cap Bad = {} THEN 1 ELSE 0]  \* mutant: one error ends all
NewListeners(old, rows) == [b \in Subs |-> IF b \in rows \ Bad THEN 1 ELSE 0]
SetSubscriptionList(p, rows) == listener' = [listener EXCEPT ![p] = NewListeners(@, rows)]

(* The first load of a process, and those of its loop.  An error of the
   first one ends the start: the loop never begins; later ones are caught. *)
LoopRead(p) ==
  /\ loop[p] \in {"starting", "asked"}
  /\ list' = [list EXCEPT ![p] = table]
  /\ loop' = [loop EXCEPT ![p] = IF @ = "starting" THEN "started" ELSE "read"]
  /\ UNCHANGED <<table, listener, reload, edited, faults, alertVars>>

LoopApply(p) ==
  /\ loop[p] \in {"started", "read"}
  /\ SetSubscriptionList(p, list[p])
  /\ loop' = [loop EXCEPT ![p] = "waiting"]
  /\ list' = [list EXCEPT ![p] = {}]
  /\ UNCHANGED <<table, reload, edited, faults, alertVars>>

LoopWake(p) ==
  /\ loop[p] = "waiting"
  /\ loop' = [loop EXCEPT ![p] = "asked"]
  /\ UNCHANGED <<table, listener, list, reload, edited, faults, alertVars>>

AfterErrorStop(step) == IF step = "starting" THEN "dead" ELSE "stopped"    \* mutant: no try in the loop
AfterError(step) == IF step = "starting" THEN "dead" ELSE "waiting"
LoopFails(p) ==
  /\ Fault
  /\ loop[p] \in {"starting", "asked"}
  /\ loop' = [loop EXCEPT ![p] = AfterError(@)]
  /\ UNCHANGED <<table, listener, list, reload, edited, alertVars>>

(* POST, PUT and DELETE of a subscription: the row is written, then the
   server that handled the request starts a reload and replies. *)
Edit(s, b, r) ==
  /\ loop[s] \in {"waiting", "asked", "read"}
  /\ Cardinality(edited) < MaxEdits /\ b \notin edited
  /\ reload[r].step = "free"
  /\ table' = IF b \in table THEN table \ {b} ELSE table \cup {b}
  /\ edited' = edited \cup {b}
  /\ reload' = [reload EXCEPT ![r] = [proc |-> s, step |-> "asked", rows |-> {}]]
  /\ UNCHANGED <<listener, loop, list, faults, alertVars>>

ReloadRead(r) ==
  /\ reload[r].step = "asked"
  /\ reload' = [reload EXCEPT ![r].step = "read", ![r].rows = table]
  /\ UNCHANGED <<table, listener, loop, list, edited, faults, alertVars>>

ReloadApply(r) ==
  /\ reload[r].step = "read"
  /\ SetSubscriptionList(reload[r].proc, reload[r].rows)
  /\ reload' = [reload EXCEPT ![r] = NoReload]
  /\ UNCHANGED <<table, loop, list, edited, faults, alertVars>>

ReloadFails(r) ==
  /\ Fault
  /\ reload[r].step = "asked"
  /\ reload' = [reload EXCEPT ![r] = NoReload]
  /\ UNCHANGED <<table, listener, loop, list, edited, alertVars>>

-----------------------------------------------------------------------------
(* Alerts. *)

Tick ==
  /\ clock < MaxClock
  /\ clock' = clock + 1
  /\ UNCHANGED <<polling, alert, task, heard, raised, unsaved, unheard, faults, busVars>>

(* A poll finds something to report and starts a call for it, which it does
   not wait for; the next poll may come before that call has ended. *)
PollPings(m, k, t) ==
  /\ polling[m] \in {"starting", "on"}
  /\ task[t].step = "free"
  /\ polling' = [polling EXCEPT ![m] = "on"]
  /\ task' = [task EXCEPT ![t] = [NoTask EXCEPT !.mon = m, !.key = k, !.step = "lookup", !.now = clock]]
  /\ UNCHANGED <<alert, clock, heard, raised, unsaved, unheard, faults, busVars>>

(* runThenPoll schedules the loop only after a first poll without error. *)
FirstPollFails(m) ==
  /\ Fault
  /\ polling[m] = "starting"
  /\ polling' = [polling EXCEPT ![m] = "dead"]
  /\ UNCHANGED <<alert, task, clock, heard, raised, unsaved, unheard, busVars>>

SameState(i, t) == task[i].key = task[t].key /\ task[i].step \in {"found", "saving"} /\ task[i].updatedAt = alert[task[t].key]

Created(k) == alert[k] = Absent
(* Alert.findCreateFind: one of several calls creates the row, the others
   find it. *)
Lookup(t) ==
  LET k == task[t].key
  IN /\ task[t].step = "lookup"
     /\ task' = [task EXCEPT ![t].step = IF Created(k) THEN "created" ELSE "found", ![t].updatedAt = alert[k]]
     /\ alert' = IF Created(k) THEN [alert EXCEPT ![k] = clock] ELSE alert
     /\ unsaved' = IF \E i \in Tasks \ {t} : SameState(i, t) THEN unsaved \cup {k} ELSE unsaved
     /\ UNCHANGED <<polling, clock, heard, raised, unheard, faults, busVars>>

(* events.emit in the monitor m: its listeners of the moment hear it. *)
Emit(m, k, base) ==
  /\ heard' = [heard EXCEPT ![k] = @ \cup {b \in Subs : listener[m][b] > 0}]
  /\ raised' = [raised EXCEPT ![k][base] = @ + 1]

HasNoList(m) == loop[m] \in {"starting", "started", "dead"}

Announce(t) ==
  /\ task[t].step = "created"
  /\ Emit(task[t].mon, task[t].key, Absent)
  /\ unheard' = IF HasNoList(task[t].mon) THEN unheard \cup {task[t].key} ELSE unheard
  /\ task' = [task EXCEPT ![t] = NoTask]
  /\ UNCHANGED <<polling, alert, clock, unsaved, faults, busVars>>

Stale(t) == task[t].key \in Repeating /\ task[t].updatedAt < task[t].now - Hour

(* NoPingsEvent.emitDeduped on an alert of more than an hour ago: the row is
   touched, without waiting for it, and the event raised again while the trip
   is running. *)
Repeat(t) ==
  /\ task[t].step = "found" /\ Stale(t)
  /\ task' = [task EXCEPT ![t].step = "saving"]
  /\ IF LastStopTime > task[t].now THEN Emit(task[t].mon, task[t].key, task[t].updatedAt) ELSE UNCHANGED <<heard, raised>>
  /\ UNCHANGED <<polling, alert, clock, unsaved, unheard, faults, busVars>>

Ignore(t) ==
  /\ task[t].step = "found" /\ ~Stale(t)
  /\ task' = [task EXCEPT ![t] = NoTask]
  /\ UNCHANGED <<polling, alert, clock, heard, raised, unsaved, unheard, faults, busVars>>

NotTouched(k) == alert                                              \* mutant: save without changed('updatedAt')
Touched(k) == [alert EXCEPT ![k] = clock]
SaveAlert(t) ==
  /\ task[t].step = "saving"
  /\ alert' = Touched(task[t].key)
  /\ task' = [task EXCEPT ![t] = NoTask]
  /\ UNCHANGED <<polling, clock, heard, raised, unsaved, unheard, faults, busVars>>

TaskFails(t) ==
  /\ Fault
  /\ task[t].step = "lookup"
  /\ task' = [task EXCEPT ![t] = NoTask]
  /\ UNCHANGED <<polling, alert, clock, heard, raised, unsaved, unheard, busVars>>

SaveFails(t) ==
  /\ Fault
  /\ task[t].step = "saving"
  /\ unsaved' = unsaved \cup {task[t].key}
  /\ task' = [task EXCEPT ![t] = NoTask]
  /\ UNCHANGED <<polling, alert, clock, heard, raised, unheard, busVars>>

KeysAt(m, step) == {task[t].key : t \in {i \in Tasks : task[i].mon = m /\ task[i].step = step}}

(* The server only logs that its monitor has died. *)
MonitorDies(m) ==
  /\ Fault
  /\ loop[m] # "dead" \/ polling[m] # "dead"
  /\ loop' = [loop EXCEPT ![m] = "dead"]
  /\ list' = [list EXCEPT ![m] = {}]
  /\ listener' = [listener EXCEPT ![m] = [b \in Subs |-> 0]]
  /\ polling' = [polling EXCEPT ![m] = "dead"]
  /\ task' = [t \in Tasks |-> IF task[t].mon = m THEN NoTask ELSE task[t]]
  /\ unheard' = unheard \cup KeysAt(m, "created")
  /\ unsaved' = unsaved \cup KeysAt(m, "saving")
  /\ UNCHANGED <<table, reload, alert, clock, heard, raised, edited>>

LoopStep(p) == LoopRead(p) \/ LoopApply(p) \/ LoopWake(p)

MonNext ==
  \/ \E p \in Procs : LoopStep(p) \/ LoopFails(p)
  \/ \E s \in Servers, b \in Subs, r \in Reloads : Edit(s, b, r)
  \/ \E r \in Reloads : ReloadRead(r) \/ ReloadApply(r) \/ ReloadFails(r)
  \/ Tick
  \/ \E m \in Monitors, k \in Keys, t \in Tasks : PollPings(m, k, t)
  \/ \E m \in Monitors : FirstPollFails(m) \/ MonitorDies(m)
  \/ \E t \in Tasks : Lookup(t) \/ Announce(t) \/ Repeat(t) \/ Ignore(t) \/ SaveAlert(t) \/ SaveFails(t) \/ TaskFails(t)

MonSpec == MonInit /\ [][MonNext]_monVars

-----------------------------------------------------------------------------
(* An alert is raised as new by one task of one monitor, though monitors of
   all servers poll the same trips; it is raised again on one and the same
   state only by tasks of which the second looked the alert up before the
   first had saved it (the FIXME of monitoring.js:255), or when that save was
   lost. *)
AlertsAreNotRepeated ==
  \A k \in Keys : /\ raised[k][Absent] <= 1
                 /\ \A u \in Times : raised[k][u] > 1 => k \in unsaved

(* A subscription that was there from the start and never edited hears of
   every alert that was raised, unless the monitor that created the alert had
   not loaded its list yet, never could, or died before it raised it: no
   other monitor raises it again. *)
AlertsReachSubscribers ==
  \A k \in Keys, b \in (table \ Bad) \ edited :
    alert[k] # Absent /\ ~(\E t \in Tasks : task[t].key = k /\ task[t].step = "created")
      => b \in heard[k] \/ k \in unheard

(* Once nobody edits subscriptions, every process comes to listen for
   exactly the valid rows of the table, stale reloads notwithstanding, unless
   its first load failed or it died. *)
Current(p) == \A b \in Subs : listener[p][b] = IF b \in table \ Bad THEN 1 ELSE 0
SubscriptionsSettle == \A p \in Procs : <>[](loop[p] = "dead" \/ Current(p))

===============================================================================
