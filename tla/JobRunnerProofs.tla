-------------------------- MODULE JobRunnerProofs --------------------------
(***************************************************************************)
(* For any set of timers, intervals and bounds: the types of the runner's  *)
(* variables; that a job executes once at a time and its row says so; that *)
(* an overdue job runs at boot; and that a started job is armed.           *)
(*                                                                         *)
(* As long as the settings are not saved during an execution, the map and  *)
(* the timers agree: whatever is pending is what the map names, so that    *)
(* stopPeriodicJob clears it, and nothing is pending during an execution   *)
(* (Tidy).  A job that is overdue is found overdue because the row's next  *)
(* run, when there is one, is never further away than an interval after    *)
(* the last end (OnSchedule).                                              *)
(***************************************************************************)
EXTENDS JobRunner, TLAPS

\* A set of pending timers: typed, and no two share a handle.
Timers(left) ==
  /\ left \subseteq Pending
  /\ \A t, u \in left : t.name = u.name => t = u

Entries == Timer \cup {NoTimer}

RowType == [status : Statuses, next : 0..Max]

\* What the steps that start a job do to the row, the timers and the executions.
Typed == Timers(armed') /\ timers' \in Entries /\ row' \in RowType /\ execs' \subseteq Execs

\* Intervals and delays are bounded.
LEMMA Bounds ==
  /\ Max \in Nat /\ SeedInterval \in 1..Max
  /\ \A i \in Intervals : i \in 1..Max
BY IntervalAssumption

\* A new timer has a handle of its own.
LEMMA ArmTypes ==
  ASSUME NEW left, Timers(left), NEW delay \in 0..Max, NEW interval \in Intervals,
         Arm(left, delay, interval)
  PROVE  Timers(armed') /\ timers' \in Entries
<1>1. PICK name \in Free(left) :
        /\ armed' = left \cup {[name |-> name, left |-> delay, interval |-> interval]}
        /\ timers' = name
  BY DEF Arm
<1>2. name \in Timer /\ \A t \in left : t.name # name
  BY <1>1 DEF Free
<1>3. [name |-> name, left |-> delay, interval |-> interval] \in Pending
  BY <1>2 DEF Pending
<1> QED
  BY <1>1, <1>2, <1>3 DEF Timers, Entries

\* An execution is typed and leaves what is left of the timers.
LEMMA ExecuteTypes ==
  ASSUME NEW by \in Timer, NEW left, Timers(left), NEW interval \in Intervals,
         NEW next \in 0..Max, NEW status \in Statuses, execs \subseteq Execs,
         Execute(by, left, interval, next, status)
  PROVE  Typed
<1>1. [by |-> by, interval |-> interval, hidden |-> status # "running"] \in Execs
  BY DEF Execs
<1>2. [status |-> status, next |-> next] \in RowType
  BY DEF RowType
<1> QED
  BY <1>1, <1>2 DEF Execute, Leave, Typed, Entries

\* Starting a job, or not, is typed.
LEMMA StartTypes ==
  ASSUME NEW left, Timers(left), NEW status \in Statuses, NEW busy \in Statuses,
         row \in RowType, execs \subseteq Execs, config'.interval \in Intervals,
         StartIfEnabled(left, status, busy)
  PROVE  Typed
<1> DEFINE next == Pushed(config'.interval, row.next)
<1>1. row.next \in 0..Max /\ next \in 0..Max
  BY Bounds DEF Pushed, NextRun, RowType
<1>2. [status |-> status, next |-> next] \in RowType
  BY <1>1 DEF RowType
<1>3. [row EXCEPT !.status = status] \in RowType
  BY DEF RowType
<1> HIDE DEF next
<1>4. ASSUME NEW by \in Timer, Execute(by, left, config'.interval, next, busy) PROVE Typed
  BY <1>1, <1>4, ExecuteTypes
<1>5. CASE row' = [status |-> status, next |-> next] /\ execs' = execs
           /\ Arm(left, row.next, config'.interval)
  BY <1>1, <1>2, <1>5, ArmTypes DEF Typed
<1>6. CASE Leave(left) /\ UNCHANGED execs /\ row' = [row EXCEPT !.status = status]
  BY <1>3, <1>6 DEF Leave, Typed, Entries
<1> QED
  BY <1>4, <1>5, <1>6 DEF StartIfEnabled, Start, next

\* Every step keeps the types.
LEMMA NextTypeOK == TypeOK /\ [Next]_vars => TypeOK'
<1> SUFFICES ASSUME TypeOK, [Next]_vars PROVE TypeOK'
  OBVIOUS
<1> USE DEF TypeOK
<1>1. /\ Timers(armed) /\ timers \in Entries /\ row \in RowType /\ NoTimer \in Entries
      /\ config.interval \in Intervals /\ row.next \in 0..Max /\ row.status \in Statuses
  BY DEF Timers, Entries, RowType
<1>2. ASSUME Typed, config' \in Settings, up' \in BOOLEAN, since' \in 0..Max,
             meddled' \in BOOLEAN, early' = early,
             used' \in [edits : 0..MaxEdits, crashes : 0..MaxCrashes]
      PROVE  TypeOK'
  BY <1>2 DEF Typed, Timers, Entries, RowType, Settings
<1>3. config \in Settings
  BY DEF Settings
<1>4. CASE Boot
  <2> DEFINE busy == IF early THEN Reset("running") ELSE "running"
  <2>1. Timers({}) /\ Reset(row.status) \in Statuses /\ busy \in Statuses
    BY <1>1 DEF Timers, Reset, Statuses
  <2>2. StartIfEnabled({}, Reset(row.status), busy) /\ config' = config
    BY <1>4 DEF Boot
  <2> HIDE DEF busy
  <2>3. Typed
    BY <1>1, <2>1, <2>2, StartTypes
  <2> QED
    BY <1>2, <1>3, <1>4, <2>3 DEF Boot
<1>5. ASSUME NEW c \in Settings, Configure(c) PROVE TypeOK'
  <2>1. Timers(Uncleared)
    BY <1>1 DEF Timers, Uncleared
  <2>2. config'.interval \in Intervals /\ StartIfEnabled(Uncleared, row.status, "running")
    BY <1>5 DEF Configure, Settings
  <2>3. Typed
    BY <1>1, <2>1, <2>2, StartTypes DEF Statuses
  <2>4. used' \in [edits : 0..MaxEdits, crashes : 0..MaxCrashes]
    BY <1>5, BoundAssumption DEF Configure
  <2>5. meddled' \in BOOLEAN
    BY <1>5 DEF Configure
  <2> QED
    BY <1>2, <1>5, <2>3, <2>4, <2>5 DEF Configure
<1>6. ASSUME NEW t \in armed, Fire(t) PROVE TypeOK'
  <2>1. Timers(armed \ {t}) /\ t.name \in Timer /\ t.interval \in Intervals
    BY <1>1 DEF Timers, Pending
  <2>2. Execute(t.name, armed \ {t}, t.interval, row.next, "running")
    BY <1>6 DEF Fire
  <2>3. Typed
    BY <1>1, <2>1, <2>2, ExecuteTypes DEF Statuses
  <2> QED
    BY <1>2, <1>3, <1>6, <2>3 DEF Fire
<1>7. ASSUME NEW e \in execs, Finish(e) PROVE TypeOK'
  <2>1. e.interval \in Intervals /\ e.interval \in 0..Max
    BY Bounds DEF Execs
  <2>2. Arm(armed, e.interval, e.interval) /\ execs' = execs \ {e}
        /\ \E status \in {"idle", "failed"} : row' = [status |-> status, next |-> e.interval]
    BY <1>7 DEF Finish, Rearm, NextRun
  <2>3. Timers(armed') /\ timers' \in Entries
    BY <1>1, <2>1, <2>2, ArmTypes
  <2>4. row' \in RowType
    BY <2>1, <2>2 DEF RowType, Statuses
  <2> QED
    BY <1>2, <1>3, <1>7, <2>2, <2>3, <2>4, Bounds DEF Finish, Typed
<1>8. CASE Crash
  <2>1. Typed
    BY <1>1, <1>8 DEF Crash, Leave, Typed, Timers
  <2>2. used' \in [edits : 0..MaxEdits, crashes : 0..MaxCrashes]
    BY <1>8, BoundAssumption DEF Crash
  <2> QED
    BY <1>2, <1>3, <1>8, <2>1, <2>2 DEF Crash
<1>9. CASE Tick
  <2>1. \A n \in 0..Max : Less(n) \in 0..Max
    BY Bounds DEF Less
  <2>2. Timers(armed')
    <3> DEFINE later(t) == [t EXCEPT !.left = Less(@)]
    <3>1. \A t \in armed : later(t) \in Pending /\ later(t).name = t.name
      BY <2>1 DEF Pending
    <3>2. armed' = {later(t) : t \in armed}
      BY <1>9 DEF Tick
    <3> HIDE DEF later
    <3>3. ASSUME NEW t \in armed', NEW u \in armed', t.name = u.name PROVE t = u
      <4>1. PICK a \in armed, b \in armed : t = later(a) /\ u = later(b)
        BY <3>2
      <4>2. a = b
        BY <3>1, <3>3, <4>1
      <4> QED
        BY <4>1, <4>2
    <3> QED
      BY <3>1, <3>2, <3>3 DEF Timers
  <2>3. row' \in RowType
    BY <1>1, <1>9, <2>1 DEF Tick, RowType
  <2>4. since' \in 0..Max
    BY <1>9, Bounds DEF Tick
  <2> QED
    BY <1>1, <1>2, <1>3, <1>9, <2>2, <2>3, <2>4 DEF Tick, Typed
<1>10. CASE UNCHANGED vars
  BY <1>10 DEF vars
<1> QED
  BY <1>4, <1>5, <1>6, <1>7, <1>8, <1>9, <1>10 DEF Next, FireSome, FinishSome

\* The types at the start.
LEMMA InitTypeOK == Init => TypeOK
<1> SUFFICES ASSUME Init PROVE TypeOK
  OBVIOUS
<1>1. 0 \in 0..Max /\ Max \in 0..Max /\ 0 \in 0..MaxEdits /\ 0 \in 0..MaxCrashes
  BY Bounds, BoundAssumption
<1> QED
  BY <1>1 DEF Init, TypeOK, Statuses

\* The variables of the runner keep their types, and two pending timers are two
\* handles, whatever is saved, fires, ends, crashes or boots.
THEOREM TypeCorrect == Spec => []TypeOK
BY InitTypeOK, NextTypeOK, PTL DEF Spec

-----------------------------------------------------------------------------
(* One execution *)

\* Nothing survives the process.
Down == ~up => execs = {} /\ armed = {} /\ ~meddled

\* The timers and the row of a job whose settings were not saved while it executed.
TidyJob ==
  /\ \A d, e \in execs : d = e
  /\ execs # {} => armed = {}
  /\ \A t \in armed : t.name = timers

\* The row says "running" exactly while the job executes, but for an execution
\* that the reset of an early owner's boot has hidden.
Truthful ==
  /\ row.status = "running" <=> \E e \in execs : ~e.hidden
  /\ \A e \in execs : e.hidden => early /\ row.status = "idle"

Tidy == ~meddled => TidyJob /\ (up => Truthful)

\* A job that is started where nothing is pending or executing is tidy.
LEMMA StartIsTidy ==
  ASSUME NEW status, status # "running", execs = {}, row \in RowType,
         NEW busy, busy = "running" \/ (early' /\ busy = "idle"),
         StartIfEnabled({}, status, busy)
  PROVE  TidyJob' /\ Truthful'
<1>1. ASSUME NEW by, NEW interval, NEW next, Execute(by, {}, interval, next, busy)
      PROVE  TidyJob' /\ Truthful'
  <2> DEFINE begun == [by |-> by, interval |-> interval, hidden |-> busy # "running"]
  <2>1. execs' = {begun} /\ armed' = {} /\ row'.status = busy
    BY <1>1 DEF Execute, Leave
  <2>2. begun.hidden <=> busy # "running"
    OBVIOUS
  <2> HIDE DEF begun
  <2>3. TidyJob'
    BY <2>1 DEF TidyJob
  <2>4. row'.status = "running" <=> \E e \in execs' : ~e.hidden
    BY <2>1, <2>2
  <2>5. \A e \in execs' : e.hidden => early' /\ row'.status = "idle"
    BY <2>1, <2>2
  <2> QED
    BY <2>3, <2>4, <2>5 DEF Truthful
<1>2. CASE Leave({}) /\ UNCHANGED execs /\ row' = [row EXCEPT !.status = status]
  BY <1>2 DEF Leave, TidyJob, Truthful, RowType
<1>3. ASSUME NEW delay, NEW interval, NEW next, Arm({}, delay, interval), UNCHANGED execs,
             row' = [status |-> status, next |-> next]
      PROVE  TidyJob' /\ Truthful'
  <2>1. PICK name \in Free({}) :
          /\ armed' = {[name |-> name, left |-> delay, interval |-> interval]}
          /\ timers' = name
    BY <1>3 DEF Arm
  <2> QED
    BY <1>3, <2>1 DEF TidyJob, Truthful
<1> QED
  BY <1>1, <1>2, <1>3 DEF StartIfEnabled, Start

\* Every step keeps the job tidy.
LEMMA NextTidy == TypeOK /\ Down /\ Tidy /\ [Next]_vars => Down' /\ Tidy'
<1> SUFFICES ASSUME TypeOK, Down, Tidy, [Next]_vars PROVE Down' /\ Tidy'
  OBVIOUS
<1>1. row \in RowType
  BY DEF TypeOK, RowType
<1>2. CASE Boot
  <2> DEFINE busy == IF early THEN Reset("running") ELSE "running"
  <2>1. Reset(row.status) # "running" /\ execs = {}
        /\ StartIfEnabled({}, Reset(row.status), busy) /\ up' /\ early' = early
    BY <1>2 DEF Boot, Reset, Down
  <2>2. busy = "running" \/ (early' /\ busy = "idle")
    BY <2>1 DEF Reset
  <2> HIDE DEF busy
  <2> QED
    BY <1>1, <2>1, <2>2, StartIsTidy DEF Down, Tidy
<1>3. ASSUME NEW c \in Settings, Configure(c) PROVE Down' /\ Tidy'
  <2>1. up /\ up' = up /\ meddled' = (meddled \/ execs # {})
        /\ StartIfEnabled(Uncleared, row.status, "running")
    BY <1>3 DEF Configure
  <2>2. ASSUME ~meddled' PROVE execs = {} /\ row.status # "running" /\ Uncleared = {}
    BY <2>1, <2>2 DEF Tidy, TidyJob, Truthful, Uncleared
  <2> QED
    BY <1>1, <2>1, <2>2, StartIsTidy DEF Down, Tidy
<1>4. ASSUME NEW t \in armed, Fire(t) PROVE Down' /\ Tidy'
  <2>1. UNCHANGED <<up, meddled>> /\ up
        /\ Execute(t.name, armed \ {t}, t.interval, row.next, "running")
    BY <1>4 DEF Fire, Down
  <2>2. ~meddled => execs = {} /\ armed \ {t} = {}
    BY DEF Tidy, TidyJob, TypeOK
  <2> DEFINE begun == [by |-> t.name, interval |-> t.interval, hidden |-> "running" # "running"]
  <2>3. /\ execs' = execs \cup {begun} /\ armed' = armed \ {t}
        /\ row'.status = "running" /\ ~begun.hidden
    BY <2>1 DEF Execute, Leave
  <2> HIDE DEF begun
  <2>4. Down'
    BY <2>1 DEF Down
  <2>5. ~meddled => TidyJob'
    BY <2>2, <2>3 DEF TidyJob
  <2>6. ~meddled => Truthful'
    BY <2>2, <2>3 DEF Truthful
  <2> QED
    BY <2>1, <2>4, <2>5, <2>6 DEF Tidy
<1>5. ASSUME NEW e \in execs, Finish(e) PROVE Down' /\ Tidy'
  <2>1. UNCHANGED <<up, meddled>> /\ up /\ execs' = execs \ {e} /\ row'.status # "running"
        /\ Arm(armed, e.interval, e.interval)
    BY <1>5 DEF Finish, Down, Rearm
  <2>2. PICK name \in Free(armed) :
          /\ armed' = armed \cup {[name |-> name, left |-> e.interval, interval |-> e.interval]}
          /\ timers' = name
    BY <2>1 DEF Arm
  <2>3. ~meddled => execs' = {} /\ armed = {}
    BY <2>1 DEF Tidy, TidyJob
  <2> QED
    BY <2>1, <2>2, <2>3 DEF Down, Tidy, TidyJob, Truthful
<1>6. CASE Crash
  BY <1>6 DEF Crash, Leave, Down, Tidy, TidyJob
<1>7. CASE Tick
  <2>1. /\ armed' = {[t EXCEPT !.left = Less(@)] : t \in armed}
        /\ \A t \in armed : [t EXCEPT !.left = Less(@)].name = t.name
        /\ row'.status = row.status /\ UNCHANGED <<timers, execs, up, meddled, early>>
    BY <1>1, <1>7 DEF Tick, TypeOK, Pending, RowType
  <2> QED
    BY <2>1 DEF Down, Tidy, TidyJob, Truthful
<1>8. CASE UNCHANGED vars
  BY <1>8 DEF vars, Down, Tidy, TidyJob, Truthful
<1> QED
  BY <1>2, <1>3, <1>4, <1>5, <1>6, <1>7, <1>8 DEF Next, FireSome, FinishSome

\* As long as its settings are not saved during an execution a job executes once at
\* a time, and its row says "running" exactly while it does, but for the execution
\* that the boot of an early owner began before it reset the rows (startPeriodicJob,
\* stopPeriodicJob, executeAndReschedule and initJobRunner in lib/job-runner.ts, in
\* the order of index.ts).
THEOREM ExecutesOnce == Spec => []OneExecution
<1>1. Init => Down /\ Tidy
  BY DEF Init, Down, Tidy, TidyJob
<1>2. Down /\ Tidy => OneExecution
  BY DEF Down, Tidy, TidyJob, Truthful, OneExecution
<1> QED
  BY <1>1, <1>2, InitTypeOK, NextTypeOK, NextTidy, PTL DEF Spec

-----------------------------------------------------------------------------
(* Overdue jobs, and jobs that are armed *)

\* The next run of a job with the seeded settings is at most an interval after its
\* last end, or due.
OnSchedule ==
  used.edits = 0 /\ config.interval = SeedInterval =>
    /\ row.next = 0 \/ row.next + since <= SeedInterval
    /\ \A t \in armed : t.interval = SeedInterval
    /\ \A e \in execs : e.interval = SeedInterval

\* Every step keeps the schedule.
LEMMA NextOnSchedule == TypeOK /\ OnSchedule /\ [Next]_vars => OnSchedule'
<1> SUFFICES ASSUME TypeOK, OnSchedule, [Next]_vars,
                    used'.edits = 0, config'.interval = SeedInterval
             PROVE  /\ row'.next = 0 \/ row'.next + since' <= SeedInterval
                    /\ \A t \in armed' : t.interval = SeedInterval
                    /\ \A e \in execs' : e.interval = SeedInterval
  BY DEF OnSchedule
<1>1. row \in RowType /\ row.next \in 0..Max /\ since \in 0..Max /\ used.edits \in Nat
  BY BoundAssumption DEF TypeOK, RowType
<1>2. ASSUME NEW c \in Settings, Configure(c) PROVE FALSE
  BY <1>1, <1>2 DEF Configure, TypeOK
<1>3. used.edits = 0 /\ config.interval = SeedInterval
  <2>1. CASE Crash
    BY <2>1 DEF Crash, TypeOK
  <2> QED
    BY <1>2, <2>1 DEF Next, Boot, FireSome, Fire, FinishSome, Finish, Tick, vars
<1>4. /\ row.next = 0 \/ row.next + since <= SeedInterval
      /\ \A t \in armed : t.interval = SeedInterval
      /\ \A e \in execs : e.interval = SeedInterval
  BY <1>3 DEF OnSchedule
<1>5. CASE Boot
  <2>1. StartIfEnabled({}, Reset(row.status), IF early THEN Reset("running") ELSE "running")
        /\ since' = since
    BY <1>5 DEF Boot
  <2>2. row'.next = row.next
    BY <1>1, <2>1 DEF StartIfEnabled, Start, Execute, Pushed, RowType
  <2>3. \A t \in armed' : t.interval = SeedInterval
    BY <2>1 DEF StartIfEnabled, Start, Execute, Arm, Leave
  <2>4. \A e \in execs' : e.interval = SeedInterval
    BY <1>4, <2>1 DEF StartIfEnabled, Start, Execute
  <2> QED
    BY <1>4, <2>1, <2>2, <2>3, <2>4
<1>6. ASSUME NEW t \in armed, Fire(t)
      PROVE  /\ row'.next = row.next /\ since' = since /\ armed' \subseteq armed
             /\ \A e \in execs' : e.interval = SeedInterval
  BY <1>4, <1>6 DEF Fire, Execute, Leave
<1>7. ASSUME NEW e \in execs, Finish(e)
      PROVE  /\ row'.next = SeedInterval /\ since' = 0 /\ execs' \subseteq execs
             /\ \A t \in armed' : t.interval = SeedInterval
  BY <1>4, <1>7 DEF Finish, Rearm, Arm, NextRun
<1>8. CASE Crash
  BY <1>4, <1>8 DEF Crash, Leave
<1>9. CASE Tick
  <2>1. /\ row'.next = Less(row.next) /\ since' = IF since < Max THEN since + 1 ELSE Max
        /\ execs' = execs
    BY <1>1, <1>9 DEF Tick, RowType
  <2>2. \A t \in armed' : t.interval = SeedInterval
    BY <1>4, <1>9 DEF Tick, TypeOK, Pending
  <2> QED
    BY <1>1, <1>4, <2>1, <2>2, Bounds DEF Less
<1>10. CASE UNCHANGED vars
  BY <1>4, <1>10 DEF vars
<1> QED
  BY <1>2, <1>4, <1>5, <1>6, <1>7, <1>8, <1>9, <1>10, Bounds DEF Next, FireSome, FinishSome

\* A seeded job that was missed while the server was down runs at the next boot
\* ("If the job is overdue ... it runs immediately", lib/job-runner.ts), as long as
\* its interval is the one that was written with the row.
THEOREM OverdueJobsRun == ASSUME Seeded PROVE Spec => OverdueRunsAtBoot
<1>1. Init => OnSchedule
  BY DEF Init, OnSchedule
<1>2. TypeOK /\ OnSchedule /\ [Next]_vars =>
        [ up' /\ ~up /\ config.enabled /\ used.edits = 0
          /\ config.interval = SeedInterval /\ since >= config.interval
            => execs' # {} ]_vars
  <2> SUFFICES ASSUME TypeOK, OnSchedule, Next, up', ~up, config.enabled, used.edits = 0,
                      config.interval = SeedInterval, since >= config.interval
               PROVE  execs' # {}
    OBVIOUS
  <2>1. Boot
    BY DEF Next, Configure, FireSome, Fire, FinishSome, Finish, Crash, Tick
  <2>2. row.next = 0
    <3>1. row.next \in Nat /\ since \in Nat
      BY Bounds DEF TypeOK
    <3> QED
      BY <3>1, Bounds DEF OnSchedule
  <2>3. Start({}, Reset(row.status), IF early THEN Reset("running") ELSE "running")
    BY <2>1 DEF Boot, StartIfEnabled
  <2>4. PICK by, interval, next, busy : Execute(by, {}, interval, next, busy)
    BY <2>2, <2>3 DEF Start
  <2> QED
    BY <2>4 DEF Execute
<1> QED
  BY <1>1, <1>2, InitTypeOK, NextTypeOK, NextOnSchedule, PTL DEF Spec, OverdueRunsAtBoot

\* A seeded job whose owner started it is armed or executing (what a job without a
\* row is not: see JobUnseeded.cfg).
THEOREM StartedJobsAreArmed == ASSUME Seeded PROVE Spec => []StartedIsArmed
<1>1. Init => StartedIsArmed
  BY DEF Init, StartedIsArmed
<1>2. TypeOK /\ StartedIsArmed /\ [Next]_vars => StartedIsArmed'
  <2> SUFFICES ASSUME TypeOK, StartedIsArmed, [Next]_vars, up', config'.enabled
               PROVE  armed' # {} \/ execs' # {}
    BY DEF StartedIsArmed
  <2>1. ASSUME NEW left, NEW status, NEW busy, StartIfEnabled(left, status, busy)
        PROVE  armed' # {} \/ execs' # {}
    BY <2>1 DEF StartIfEnabled, Start, Execute, Arm
  <2>2. CASE Boot \/ \E c \in Settings : Configure(c)
    BY <2>1, <2>2 DEF Boot, Configure
  <2>3. CASE FireSome
    BY <2>3 DEF FireSome, Fire, Execute
  <2>4. CASE FinishSome
    BY <2>4 DEF FinishSome, Finish, Rearm, Arm
  <2>5. CASE Crash
    BY <2>5 DEF Crash
  <2>6. CASE Tick
    BY <2>6 DEF Tick, StartedIsArmed
  <2>7. CASE UNCHANGED vars
    BY <2>7 DEF vars, StartedIsArmed
  <2> QED
    BY <2>2, <2>3, <2>4, <2>5, <2>6, <2>7 DEF Next
<1> QED
  BY <1>1, <1>2, InitTypeOK, NextTypeOK, PTL DEF Spec
=============================================================================
