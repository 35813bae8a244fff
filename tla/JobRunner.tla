----------------------------- MODULE JobRunner -----------------------------
(***************************************************************************)
(* The runner of periodic jobs, apps/server/src/lib/job-runner.ts, over    *)
(* the table system_jobs (db/job-store.ts), with the way its owners use    *)
(* it: a job is started when the server boots, and stopped and started     *)
(* again when its settings are saved (syncDaemon, restartBackupScheduler). *)
(*                                                                         *)
(* Jobs are keyed by id and do not interact: one stands for all.  A step   *)
(* is what runs between two awaits of the event loop.  As in Scheduler,    *)
(* the map `timers` names at most one of the timers that are pending.      *)
(* Time is counted in Ticks; due times are kept as the Ticks left to them. *)
(***************************************************************************)
EXTENDS Naturals

CONSTANTS
  Timer,           \* names of setTimeout handles; a fired one may be reused
  NoTimer,         \* the job has no entry in `timers`
  Seeded,          \* did a migration insert a row for the job?
  SeedInterval,    \* the interval_ms that migration wrote
  Intervals,       \* the intervals the owner may configure
  MaxEdits, MaxCrashes  \* bounds on what may happen in one behaviour

Max == CHOOSE i \in Intervals \cup {SeedInterval} :
         \A j \in Intervals \cup {SeedInterval} : i >= j

ASSUME TimerAssumption == NoTimer \notin Timer
ASSUME IntervalAssumption ==
  /\ SeedInterval \in Nat \ {0} /\ Intervals \subseteq 1..Max
  /\ SeedInterval <= Max /\ Max \in Nat
ASSUME SeedAssumption == Seeded \in BOOLEAN
ASSUME BoundAssumption == MaxEdits \in Nat /\ MaxCrashes \in Nat

VARIABLES
  config,  \* the owner's settings: [enabled, interval]
  row,     \* the system_jobs row: [status, next], next = 0 when overdue
  timers,  \* the entry of the map `timers`
  armed,   \* the pending timers: [name, left, interval]
  execs,   \* the executions in progress: [by, interval, hidden]
  up,      \* is the server running?
  since,   \* Ticks since the job last ended, up to Max
  meddled, \* were the settings saved during an execution, since the boot?
  used,    \* how much of each bound has been consumed
  early    \* is it started before initJobRunner (as retention-cleanup is)?

vars == <<config, row, timers, armed, execs, up, since, meddled, used, early>>

Statuses == {"idle", "running", "failed"}

Pending == [name : Timer, left : 0..Max, interval : Intervals]

\* An execution is hidden when resetStuckJobs put its row back while it ran.
Execs == [by : Timer, interval : Intervals, hidden : BOOLEAN]

TypeOK ==
  /\ config \in [enabled : BOOLEAN, interval : Intervals]
  /\ row \in [status : Statuses, next : 0..Max]
  /\ timers \in Timer \cup {NoTimer}
  /\ armed \subseteq Pending
  /\ \A t, u \in armed : t.name = u.name => t = u
  /\ execs \subseteq Execs
  /\ up \in BOOLEAN
  /\ since \in 0..Max
  /\ meddled \in BOOLEAN
  /\ used \in [edits : 0..MaxEdits, crashes : 0..MaxCrashes]
  /\ early \in BOOLEAN

\* The job was seeded as overdue, and the server is about to boot.  The early job
\* has a row, and no settings: it is always started.
Init ==
  /\ config \in [enabled : BOOLEAN, interval : Intervals]
  /\ early \in BOOLEAN /\ (early => config.enabled /\ Seeded)
  /\ row = [status |-> "idle", next |-> 0]
  /\ timers = NoTimer /\ armed = {} /\ execs = {}
  /\ up = FALSE
  /\ since = Max /\ meddled = FALSE
  /\ used = [edits |-> 0, crashes |-> 0]

Free(left) == Timer \ ({t.name : t \in left} \cup {e.by : e \in execs'})

Leave(left) == armed' = left /\ timers' = NoTimer

\* armTimer: the new timer takes over the entry of the map.
Arm(left, delay, interval) ==
  \E name \in Free(left) :
    /\ armed' = left \cup {[name |-> name, left |-> delay, interval |-> interval]}
    /\ timers' = name

\* The first half of executeAndReschedule, up to the job's own code, with the
\* status its row is left with when the step is over.
Execute(by, left, interval, next, status) ==
  /\ row' = [status |-> status, next |-> next]
  /\ execs' = execs \cup {[by |-> by, interval |-> interval,
                           hidden |-> status # "running"]}
  /\ Leave(left)

\* computeNextRun, in Ticks from now.  (NextRunFromRow counts from the run that
\* was planned.)
NextRunFromRow(interval) == row.next + interval

NextRun(interval) == interval

\* startPeriodicJob when the map has no entry, as it has at boot and after a
\* stop.  next_run_at moves when the configured interval is not the row's, but
\* the decision is taken on the value read before.
\* (RunWhenDue looks only at the timers and forgets the overdue case.)
Pushed(interval, next) == IF interval # SeedInterval THEN NextRun(interval) ELSE next

RunWhenDue(left, status, busy) ==
  /\ row' = [status |-> status, next |-> Pushed(config'.interval, row.next)]
  /\ UNCHANGED execs
  /\ IF row.next > 0 THEN Arm(left, row.next, config'.interval) ELSE Leave(left)

Start(left, status, busy) ==
  \/ /\ row.next = 0
     /\ \E by \in Timer \ ({t.name : t \in left} \cup {e.by : e \in execs}) :
          Execute(by, left, config'.interval, Pushed(config'.interval, row.next), busy)
  \/ /\ row.next > 0
     /\ row' = [status |-> status, next |-> Pushed(config'.interval, row.next)]
     /\ UNCHANGED execs
     /\ Arm(left, row.next, config'.interval)

\* Starts the job if the settings ask for it and its row exists ("unknown job").
\* The row's status is then `busy` if it executes and `status` if it does not.
StartIfEnabled(left, status, busy) ==
  IF config'.enabled /\ Seeded
    THEN Start(left, status, busy)
    ELSE Leave(left) /\ UNCHANGED execs /\ row' = [row EXCEPT !.status = status]

\* resetStuckJobs, for a row that a crash left at "running".
Reset(status) == IF status = "running" THEN "idle" ELSE status

\* initJobRunner, then the owner starts its job.  The early owner has started its
\* own by then, so the reset also meets the row of an execution that just began.
\* (Nothing between the two in index.ts awaits.)
Boot ==
  /\ ~up /\ up' = TRUE
  /\ UNCHANGED <<config, since, meddled, used, early>>
  /\ StartIfEnabled({}, Reset(row.status),
                    IF early THEN Reset("running") ELSE "running")

\* stopPeriodicJob clears the timer that is in the map.  (ForgetTimer only
\* empties the map.)
ForgetTimer == armed

Uncleared == {t \in armed : t.name # timers}

\* The settings are saved: stop, then start if enabled, in one go.
Configure(c) ==
  /\ up /\ ~early
  /\ meddled' = (meddled \/ execs # {})
  /\ used.edits < MaxEdits
  /\ used' = [used EXCEPT !.edits = @ + 1]
  /\ UNCHANGED <<up, since, early>>
  /\ config' = c
  /\ StartIfEnabled(Uncleared, row.status, "running")

\* A timer fires.
Fire(t) ==
  /\ t \in armed /\ t.left = 0
  /\ UNCHANGED <<config, up, since, meddled, used, early>>
  /\ Execute(t.name, armed \ {t}, t.interval, row.next, "running")

\* The second half of executeAndReschedule, when the job's own code returned
\* or threw.  (IdleUntilRestart leaves re-arming to the next start.)
IdleUntilRestart(left, interval) == armed' = left /\ timers' = NoTimer

Rearm(left, interval) == Arm(left, interval, interval)

Finish(e) ==
  /\ e \in execs
  /\ UNCHANGED <<config, up, meddled, used, early>>
  /\ execs' = execs \ {e}
  /\ since' = 0
  /\ \E status \in {"idle", "failed"} :
       row' = [status |-> status, next |-> NextRun(e.interval)]
  /\ Rearm(armed, e.interval)

\* The process dies or exits.
Crash ==
  /\ up /\ up' = FALSE /\ meddled' = FALSE
  /\ used.crashes < MaxCrashes
  /\ used' = [used EXCEPT !.crashes = @ + 1]
  /\ execs' = {} /\ Leave({})
  /\ UNCHANGED <<config, row, since, early>>

\* What is left of n Ticks.
Less(n) == IF n > 0 THEN n - 1 ELSE 0

\* Time passes; a timer that is due fires first.
Tick ==
  /\ \A t \in armed : t.left > 0
  /\ armed' = {[t EXCEPT !.left = Less(@)] : t \in armed}
  /\ row' = [row EXCEPT !.next = Less(@)]
  /\ since' = IF since < Max THEN since + 1 ELSE Max
  /\ UNCHANGED <<config, timers, execs, up, meddled, used, early>>

Settings == [enabled : BOOLEAN, interval : Intervals]

FireSome == \E t \in armed : Fire(t)

FinishSome == \E e \in execs : Finish(e)

Next == Boot \/ (\E c \in Settings : Configure(c)) \/ FireSome \/ FinishSome
          \/ Crash \/ Tick

Spec == Init /\ [][Next]_vars

\* The server is started again, timers fire, jobs end, time passes.
FairSpec ==
  Spec /\ WF_vars(Boot) /\ WF_vars(FireSome) /\ WF_vars(FinishSome) /\ WF_vars(Tick)

-----------------------------------------------------------------------------
\* An execution begins in this step.
Begins == \E e \in execs' : e \notin execs

\* As long as the settings are not saved during an execution, the job never
\* executes twice at once (startPeriodicJob returns when it is "already
\* running"), and the row tells the truth: the crash detection of the next boot
\* sees "running" exactly when an execution was cut off.  The exception is the
\* execution an early owner's boot begins, which the reset of that boot hides.
OneExecution ==
  ~meddled => /\ \A d, e \in execs : d = e
              /\ up => (row.status = "running" <=> \E e \in execs : ~e.hidden)
              /\ \A e \in execs : e.hidden => early /\ row.status = "idle"

\* A job whose owner started it is armed or executing, whatever happened to its
\* runs and its settings.
StartedIsArmed == up /\ config.enabled => armed # {} \/ execs # {}

\* "If the job is overdue (missed while server was down), it runs immediately":
\* a boot that finds that the job last ended a whole interval ago runs it, if
\* its interval is the one the migration wrote.
OverdueRunsAtBoot ==
  [][ up' /\ ~up /\ config.enabled /\ used.edits = 0
      /\ config.interval = SeedInterval /\ since >= config.interval
        => execs' # {} ]_vars

\* A job that stays enabled executes again and again, across crashes, failed
\* runs and changed settings.
KeepsExecuting == []<>(execs # {} \/ ~config.enabled)
=============================================================================
