----------------------------- MODULE Scheduler -----------------------------
(***************************************************************************)
(* The cron scheduler: apps/server/src/lib/scheduler.ts.                   *)
(*                                                                         *)
(* `timers` and `running` are keyed by the schedule's id, so schedules do  *)
(* not interact and one stands for all.  A step is what runs between two   *)
(* awaits of the single event loop.  What the code cannot see, but the     *)
(* runtime keeps, is every setTimeout that was neither cleared nor has     *)
(* fired: the set `armed`; the map remembers at most one of them.          *)
(*                                                                         *)
(* Time: a Tick is the next occurrence of the cron expression.  Timers     *)
(* that are due fire before the next occurrence comes.                     *)
(***************************************************************************)
EXTENDS Naturals

CONSTANTS
  Timer,          \* names of setTimeout handles; a fired one may be reused
  NoTimer         \* the schedule has no entry in `timers`

ASSUME TimerAssumption == NoTimer \notin Timer

VARIABLES
  row,      \* the schedules row: [exists, enabled, oneShot, cron]
  timers,   \* the entry of the map `timers`
  armed,    \* the pending timers: [name, kind, due]
  running,  \* is the id in the set `running`?
  runs,     \* the invocations of runSchedule that passed the guard
  spent,    \* the one-shot run is over and the user has not enabled it since
  meddled   \* was it edited during a run, since the process began?

vars == <<row, timers, armed, running, runs, spent, meddled>>

\* A cron expression whose next occurrence is near, or beyond the range of
\* setTimeout.  (The store refuses one that does not parse.)
Crons == {"near", "far"}

\* An "exact" timer is set for the occurrence, an "early" one was clamped to
\* MAX_TIMEOUT_MS, and a "late" one stands for an occurrence that passed while
\* armTimer computed it, which fires at once and is never in the map.
Kinds == {"exact", "early", "late"}

NoRow == [exists |-> FALSE, enabled |-> FALSE, oneShot |-> FALSE, cron |-> "near"]

RowType == [exists : BOOLEAN, enabled : BOOLEAN, oneShot : BOOLEAN, cron : Crons]

\* The rows a request can leave behind.
Rows == {NoRow} \cup {r \in RowType : r.exists}

Pending == [name : Timer, kind : Kinds, due : BOOLEAN]

Runs == [by : Timer, pc : {"busy", "closing"}, oneShot : BOOLEAN]

\* The handles the map may hold: a timer that fired or was cleared is forgotten.
Handles(left) == {t.name : t \in {u \in left : u.kind # "late"}} \cup {NoTimer}

TypeOK ==
  /\ row \in RowType
  /\ timers \in Handles(armed)
  /\ armed \subseteq Pending
  /\ \A t, u \in armed : t.name = u.name => t = u
  /\ running \in BOOLEAN
  /\ runs \subseteq Runs
  /\ spent \in BOOLEAN
  /\ meddled \in BOOLEAN

\* A name for the next setTimeout.
Free(left) == Timer \ ({t.name : t \in left} \cup {r.by : r \in runs'})

\* The kinds armTimer can choose for an expression.
KindsFor(cron) == CASE cron = "near" -> {"exact", "late"}
                    [] cron = "far"  -> {"exact", "early", "late"}

\* armTimer, given what is left of the other timers: the new timer takes over
\* the map entry.
Arm(left, entry, cron) ==
  \E name \in Free(left), kind \in KindsFor(cron) :
    /\ armed' = left \cup {[name |-> name, kind |-> kind, due |-> kind = "late"]}
    /\ timers' = IF kind = "late" THEN entry ELSE name

Leave(left, entry) == armed' = left /\ timers' = entry

\* Re-arming reads the row again.  (RearmAlways trusts what it knew.)
RearmAlways(left, entry) ==
  IF row'.exists THEN Arm(left, entry, row'.cron) ELSE Leave(left, entry)

Rearm(left, entry) ==
  IF row'.exists /\ row'.enabled THEN Arm(left, entry, row'.cron)
                                 ELSE Leave(left, entry)

Init ==
  /\ row = NoRow
  /\ timers = NoTimer
  /\ armed = {}
  /\ running = FALSE
  /\ runs = {}
  /\ spent = FALSE
  /\ meddled = FALSE

\* The timer syncSchedule finds in the map is cleared.  (OnlyForget drops the
\* map entry and leaves the timer pending.)
OnlyForget == armed

Uncleared == {t \in armed : t.name # timers}

\* A REST route or the model's schedule tool creates, changes or deletes the
\* row and then calls syncSchedule.  A row is created under a fresh id, so a new
\* life of the model starts only when nothing of the old one is left.
Mutate(r) ==
  /\ row.exists /\ r.exists => r.oneShot = row.oneShot
  /\ row.exists \/ (armed = {} /\ runs = {})
  /\ UNCHANGED <<running, runs>>
  /\ Free(Uncleared) # {}
  /\ row' = r
  /\ Rearm(Uncleared, NoTimer)
  /\ spent' = (spent /\ r.exists /\ ~r.enabled)
  /\ meddled' = (row.exists /\ (meddled \/ runs # {}))

\* The guard of runSchedule.  (NoGuard is the same without the set `running`.)
NoGuard == row.exists

MayRun == ~running /\ row.exists

\* What is pending and what the map holds once the callback of t has begun: it
\* empties the map entry of the schedule, whichever timer that names.
\* (KeepsEntry leaves it to the next armTimer to replace.)
Left(t) == armed \ {t}

KeepsEntry(t) == timers

Entry(t) == IF t.kind = "late" THEN timers ELSE NoTimer

\* A clamped timer only re-arms.  (SleepOn drops it.)
SleepOn(t) == t.kind = "early" /\ Leave(Left(t), Entry(t)) /\ UNCHANGED <<running, runs>>

WakeEarly(t) ==
  /\ t.kind = "early"
  /\ UNCHANGED <<running, runs>>
  /\ Rearm(Left(t), Entry(t))

\* The others call fireAndRearm, which starts a run, or skips it and re-arms.
FireAndRearm(t) ==
  /\ t.due
  /\ IF MayRun
       THEN /\ running' = TRUE
            /\ runs' = runs \cup {[by |-> t.name, pc |-> "busy",
                                   oneShot |-> row.oneShot]}
            /\ Leave(Left(t), Entry(t))
       ELSE /\ UNCHANGED <<running, runs>>
            /\ Rearm(Left(t), Entry(t))

\* A pending timer fires.
Fire(t) ==
  /\ t \in armed
  /\ UNCHANGED <<row, spent, meddled>>
  /\ WakeEarly(t) \/ FireAndRearm(t)

\* executeConversation settled, with a result or an error: the run is recorded,
\* and a one-shot schedule is disabled and loses its map entry.  What follows
\* (telling the clients, delivering to channels) awaits.
Record(r) ==
  /\ r \in runs /\ r.pc = "busy"
  /\ runs' = (runs \ {r}) \cup {[r EXCEPT !.pc = "closing"]}
  /\ IF r.oneShot
       THEN /\ row' = [row EXCEPT !.enabled = FALSE]
            /\ timers' = NoTimer
            /\ spent' = row.exists
       ELSE UNCHANGED <<row, timers, spent>>
  /\ UNCHANGED <<armed, running, meddled>>

\* The finally block, and fireAndRearm's second half.
Close(r) ==
  /\ r \in runs /\ r.pc = "closing"
  /\ runs' = runs \ {r}
  /\ running' = FALSE
  /\ UNCHANGED <<row, spent, meddled>>
  /\ Rearm(armed, timers)

\* The process stops or dies, and initScheduler arms what is enabled.
Restart ==
  /\ runs' = {} /\ running' = FALSE /\ meddled' = FALSE
  /\ UNCHANGED <<row, spent>>
  /\ Rearm({}, NoTimer)

\* The occurrence every pending timer waits for has come.  A timer is late by
\* less than a period: what is due fires first.
Tick ==
  /\ \A t \in armed : ~t.due
  /\ armed' = {[t EXCEPT !.due = t.kind # "early"] : t \in armed}
  /\ UNCHANGED <<row, timers, running, runs, spent, meddled>>

\* armTimer calls fireAndRearm for an occurrence that has already passed, so
\* nothing comes between the two.
Late == \E t \in armed : t.kind = "late"

FireSome == \E t \in armed : (Late => t.kind = "late") /\ Fire(t)

Next ==
  \/ FireSome
  \/ /\ ~Late
     /\ \/ \E r \in Rows : Mutate(r)
        \/ \E r \in runs : Record(r) \/ Close(r)
        \/ Restart \/ Tick

Spec == Init /\ [][Next]_vars

\* Timers fire, executions settle (the orchestrator has its own time limits),
\* and time passes.  Nothing is asked of the user.
Fairness ==
  /\ WF_vars(~Late /\ Tick)
  /\ WF_vars(FireSome)
  /\ WF_vars(~Late /\ \E r \in runs : Record(r))
  /\ WF_vars(~Late /\ \E r \in runs : Close(r))

FairSpec == Spec /\ Fairness

-----------------------------------------------------------------------------
\* However many timers a schedule has collected, it never executes twice at
\* once (the set `running`, "guards against overlapping executions").
OneRunAtATime == \A r, s \in runs : r = s

\* A schedule that is enabled and is not executing has a pending timer: no
\* sequence of edits, early wake-ups, skipped runs and restarts silently stops
\* it.
EnabledIsArmed ==
  row.exists /\ row.enabled /\ runs = {} => armed # {}

\* A run starts in this step.
Starts == \E r \in runs' : r.pc = "busy" /\ r \notin runs

\* As long as nobody edits a schedule while it executes, runs start only when
\* they are wanted: never of a schedule that was disabled or deleted, and a
\* one-shot schedule runs "once, then auto-disable"s.
StartsAreWanted == [][Starts /\ ~meddled => row.enabled /\ ~spent]_vars

\* syncSchedule "cancels existing timer and re-arms if enabled": disabling a
\* recurring schedule, which only the user does, keeps it from starting.
DisablingStopsIt == [][Starts => row.enabled \/ row.oneShot]_vars

\* A schedule that stays disabled comes to rest: whatever timers it has left
\* behind fire at most once more and re-arm nothing.
DisabledComesToRest ==
  ~row.enabled ~> (row.enabled \/ (armed = {} /\ runs = {}))
=============================================================================
