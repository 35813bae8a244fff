-------------------------- MODULE SchedulerProofs --------------------------
(***************************************************************************)
(* For any set of timers: the types of the scheduler's variables; that     *)
(* executions of one schedule never overlap; that an enabled schedule is   *)
(* never left without a timer; and that runs start only when they are      *)
(* wanted.                                                                 *)
(*                                                                         *)
(* The set `running` holds the id exactly while a run exists, which with   *)
(* the guard of runSchedule rules out a second one.  That starts are       *)
(* wanted is a matter of the timers: as long as nobody edits a schedule    *)
(* while it executes, it has no timer while it executes, and otherwise at  *)
(* most one, which the map knows and an edit can therefore clear (Tidy).   *)
(***************************************************************************)
EXTENDS Scheduler, TLAPS

\* The guard set mirrors the runs.
GuardMirrorsRuns == running <=> runs # {}

IInv == TypeOK /\ OneRunAtATime /\ GuardMirrorsRuns

\* What is left of a set of timers keeps their types and distinct names.
Timers(left) ==
  /\ left \subseteq Pending
  /\ \A t, u \in left : t.name = u.name => t = u

\* A handle the map may hold is none, or that of a timer which is pending.
LEMMA HandleIsPending ==
  ASSUME NEW left, NEW entry
  PROVE  entry \in Handles(left) <=>
           entry = NoTimer \/ \E u \in left : u.kind # "late" /\ u.name = entry
BY DEF Handles

\* Re-arming after any change adds at most one timer, with a name of its own,
\* and leaves a pending one in the map.
LEMMA RearmTypes ==
  ASSUME NEW left, Timers(left), NEW entry \in Handles(left), row' \in RowType,
         Rearm(left, entry)
  PROVE  Timers(armed') /\ timers' \in Handles(armed')
<1>1. CASE row'.exists /\ row'.enabled
  <2>1. row'.cron \in Crons
    BY <1>1 DEF RowType
  <2>2. PICK name \in Free(left), kind \in KindsFor(row'.cron) :
          /\ armed' = left \cup {[name |-> name, kind |-> kind, due |-> kind = "late"]}
          /\ timers' = IF kind = "late" THEN entry ELSE name
    BY <1>1 DEF Rearm, Arm
  <2>3. name \in Timer /\ \A t \in left : t.name # name
    BY <2>2 DEF Free
  <2>4. kind \in Kinds
    BY <2>1, <2>2 DEF KindsFor, Kinds, Crons
  <2>5. [name |-> name, kind |-> kind, due |-> kind = "late"] \in Pending
    BY <2>3, <2>4 DEF Pending
  <2>6. timers' \in Handles(armed')
    <3> DEFINE new == [name |-> name, kind |-> kind, due |-> kind = "late"]
    <3>1. new \in armed' /\ new.name = name /\ new.kind = kind
          /\ \A u \in left : u \in armed'
      BY <2>2
    <3>2. timers' = IF kind = "late" THEN entry ELSE name
      BY <2>2
    <3> HIDE DEF new
    <3>3. kind = "late" => timers' \in Handles(armed')
      BY <3>1, <3>2, HandleIsPending
    <3>4. kind # "late" => timers' \in Handles(armed')
      BY <3>1, <3>2, HandleIsPending
    <3> QED
      BY <3>3, <3>4
  <2> QED
    BY <2>2, <2>3, <2>5, <2>6 DEF Timers
<1>2. CASE ~(row'.exists /\ row'.enabled)
  BY <1>2 DEF Rearm, Leave
<1> QED
  BY <1>1, <1>2

\* A schedule that is deleted has a row's type.
LEMMA NoRowType == NoRow \in RowType
BY DEF NoRow, RowType, Crons

\* The invariant holds at the start.
LEMMA InitIInv == Init => IInv
BY NoRowType DEF Init, IInv, TypeOK, Handles, OneRunAtATime, GuardMirrorsRuns

\* An edit, a creation or a deletion re-arms the schedule.
LEMMA MutateIInv ==
  ASSUME IInv, NEW r \in Rows, Mutate(r)
  PROVE  IInv'
<1>1. Timers(Uncleared) /\ NoTimer \in Handles(Uncleared)
  BY DEF IInv, TypeOK, Timers, Uncleared, Handles
<1>2. row' \in RowType /\ Rearm(Uncleared, NoTimer)
  BY NoRowType DEF Mutate, Rows
<1>3. Timers(armed') /\ timers' \in Handles(armed')
  BY <1>1, <1>2, RearmTypes
<1>4. spent' \in BOOLEAN /\ meddled' \in BOOLEAN
  <2>1. spent \in BOOLEAN /\ meddled \in BOOLEAN
    BY DEF IInv, TypeOK
  <2> QED
    BY <2>1 DEF Mutate
<1> QED
  BY <1>2, <1>3, <1>4
  DEF IInv, TypeOK, Timers, Mutate, OneRunAtATime, GuardMirrorsRuns

\* A timer fires, and a run begins unless one is under way.
LEMMA FireIInv ==
  ASSUME IInv, NEW t \in armed, Fire(t)
  PROVE  IInv'
<1>1. Timers(Left(t)) /\ Entry(t) \in Handles(Left(t))
  <2>1. Timers(Left(t))
    BY DEF IInv, TypeOK, Timers, Left
  <2>2. timers \in Handles(armed)
    BY DEF IInv, TypeOK
  <2>3. ASSUME t.kind = "late" PROVE Entry(t) \in Handles(Left(t))
    <3>1. timers = NoTimer \/ \E u \in armed : u.kind # "late" /\ u.name = timers
      BY <2>2, HandleIsPending
    <3>2. timers = NoTimer \/ \E u \in Left(t) : u.kind # "late" /\ u.name = timers
      BY <2>3, <3>1 DEF Left
    <3>3. Entry(t) = timers
      BY <2>3 DEF Entry
    <3> QED
      BY <3>2, <3>3, HandleIsPending
  <2>4. ASSUME t.kind # "late" PROVE Entry(t) \in Handles(Left(t))
    <3>1. Entry(t) = NoTimer
      BY <2>4 DEF Entry
    <3> QED
      BY <3>1, HandleIsPending
  <2> QED
    BY <2>1, <2>3, <2>4
<1>2. row' \in RowType /\ UNCHANGED <<row, spent, meddled>>
  BY DEF IInv, TypeOK, Fire
<1>3. CASE WakeEarly(t)
  <2>1. Timers(armed') /\ timers' \in Handles(armed')
    BY <1>1, <1>2, <1>3, RearmTypes DEF WakeEarly
  <2> QED
    BY <1>2, <1>3, <2>1
    DEF IInv, TypeOK, Timers, WakeEarly, OneRunAtATime, GuardMirrorsRuns
<1>4. CASE FireAndRearm(t) /\ MayRun
  <2>1. runs = {}
    BY <1>4 DEF MayRun, IInv, GuardMirrorsRuns
  <2>2. row.oneShot \in BOOLEAN
    BY DEF IInv, TypeOK, RowType
  <2>3. t.name \in Timer
    BY DEF IInv, TypeOK, Pending
  <2>4. runs' = {[by |-> t.name, pc |-> "busy", oneShot |-> row.oneShot]}
    BY <1>4, <2>1 DEF FireAndRearm
  <2>5. runs' \subseteq Runs /\ OneRunAtATime' /\ runs' # {} /\ running' = TRUE
    BY <1>4, <2>2, <2>3, <2>4 DEF Runs, OneRunAtATime, FireAndRearm
  <2>6. Timers(armed') /\ timers' \in Handles(armed')
    BY <1>1, <1>4 DEF FireAndRearm, Leave
  <2> QED
    BY <1>2, <2>5, <2>6 DEF IInv, TypeOK, Timers, GuardMirrorsRuns
<1>5. CASE FireAndRearm(t) /\ ~MayRun
  <2>1. Timers(armed') /\ timers' \in Handles(armed')
    BY <1>1, <1>2, <1>5, RearmTypes DEF FireAndRearm
  <2> QED
    BY <1>2, <1>5, <2>1
    DEF IInv, TypeOK, Timers, FireAndRearm, OneRunAtATime, GuardMirrorsRuns
<1> QED
  BY <1>3, <1>4, <1>5 DEF Fire

\* A run records its outcome, and a one-shot schedule is disabled.
LEMMA RecordIInv ==
  ASSUME IInv, NEW r \in runs, Record(r)
  PROVE  IInv'
<1>1. runs = {r}
  BY DEF IInv, OneRunAtATime
<1>2. runs' = {[r EXCEPT !.pc = "closing"]}
  BY <1>1 DEF Record
<1>3. [r EXCEPT !.pc = "closing"] \in Runs
  BY DEF IInv, TypeOK, Runs
<1>4. runs' \subseteq Runs /\ OneRunAtATime' /\ GuardMirrorsRuns'
  BY <1>2, <1>3 DEF OneRunAtATime, GuardMirrorsRuns, Record, IInv
<1>5. row' \in RowType
  <2>1. [row EXCEPT !.enabled = FALSE] \in RowType
    BY DEF IInv, TypeOK, RowType
  <2> QED
    BY <2>1 DEF Record, IInv, TypeOK
<1>6. timers' \in Handles(armed') /\ spent' \in BOOLEAN
  BY DEF Record, IInv, TypeOK, RowType, Handles
<1> QED
  BY <1>4, <1>5, <1>6 DEF IInv, TypeOK, Record

\* A run ends, and the guard with it.
LEMMA CloseIInv ==
  ASSUME IInv, NEW r \in runs, Close(r)
  PROVE  IInv'
<1>1. runs' = {} /\ running' = FALSE /\ UNCHANGED <<row, spent, meddled>>
  BY DEF IInv, OneRunAtATime, Close
<1>2. Timers(armed) /\ timers \in Handles(armed) /\ row' \in RowType
  BY <1>1 DEF IInv, TypeOK, Timers
<1>3. Timers(armed') /\ timers' \in Handles(armed')
  BY <1>2, RearmTypes DEF Close
<1> QED
  BY <1>1, <1>3 DEF IInv, TypeOK, Timers, OneRunAtATime, GuardMirrorsRuns

\* A restart takes timers and runs away.
LEMMA RestartIInv ==
  ASSUME IInv, Restart
  PROVE  IInv'
<1>1. Timers({}) /\ NoTimer \in Handles({}) /\ row' \in RowType
  BY DEF IInv, TypeOK, Restart, Timers, Handles
<1>2. Timers(armed') /\ timers' \in Handles(armed')
  BY <1>1, RearmTypes DEF Restart
<1> QED
  BY <1>2
  DEF Restart, IInv, TypeOK, Timers, OneRunAtATime, GuardMirrorsRuns

\* Time passes for the timers.
LEMMA TickIInv ==
  ASSUME IInv, Tick
  PROVE  IInv'
<1>1. armed' \subseteq Pending
  BY DEF Tick, IInv, TypeOK, Pending
<1>2. \A t, u \in armed' : t.name = u.name => t = u
  BY DEF Tick, IInv, TypeOK, Pending
<1>3. timers' \in Handles(armed')
  <2>1. timers' = timers /\ timers \in Handles(armed)
    BY DEF Tick, IInv, TypeOK
  <2>2. \A u \in armed : \E w \in armed' : w.name = u.name /\ w.kind = u.kind
    <3> SUFFICES ASSUME NEW u \in armed
                 PROVE  \E w \in armed' : w.name = u.name /\ w.kind = u.kind
      OBVIOUS
    <3>1. u \in Pending
      BY DEF IInv, TypeOK
    <3>2. [u EXCEPT !.due = u.kind # "early"] \in armed'
      BY DEF Tick
    <3> QED
      BY <3>1, <3>2 DEF Pending
  <2> QED
    BY <2>1, <2>2, HandleIsPending
<1> QED
  BY <1>1, <1>2, <1>3 DEF Tick, IInv, TypeOK, OneRunAtATime, GuardMirrorsRuns

\* Every step keeps the invariant.
LEMMA NextIInv == IInv /\ [Next]_vars => IInv'
<1> SUFFICES ASSUME IInv, [Next]_vars PROVE IInv'
  OBVIOUS
<1>1. ASSUME NEW t \in armed, Fire(t) PROVE IInv'
  BY <1>1, FireIInv
<1>2. ASSUME NEW r \in Rows, Mutate(r) PROVE IInv'
  BY <1>2, MutateIInv
<1>3. ASSUME NEW r \in runs, Record(r) PROVE IInv'
  BY <1>3, RecordIInv
<1>4. ASSUME NEW r \in runs, Close(r) PROVE IInv'
  BY <1>4, CloseIInv
<1>5. CASE Restart
  BY <1>5, RestartIInv
<1>6. CASE Tick
  BY <1>6, TickIInv
<1>7. CASE UNCHANGED vars
  BY <1>7 DEF vars, IInv, TypeOK, OneRunAtATime, GuardMirrorsRuns
<1> QED
  BY <1>1, <1>2, <1>3, <1>4, <1>5, <1>6, <1>7 DEF Next, FireSome

\* The inductive invariant.
LEMMA IInvHolds == Spec => []IInv
<1> QED
  BY InitIInv, NextIInv, PTL DEF Spec

\* The variables of the scheduler keep their types, and two pending timers are
\* two handles, whatever is edited, fires or restarts.
THEOREM TypeCorrect == Spec => []TypeOK
<1>1. IInv => TypeOK
  BY DEF IInv
<1> QED
  BY <1>1, IInvHolds, PTL

\* Executions of one schedule never overlap (`running` in lib/scheduler.ts),
\* however many timers edits during a run have left behind.
THEOREM RunsNeverOverlap == Spec => []OneRunAtATime
<1>1. IInv => OneRunAtATime
  BY DEF IInv
<1> QED
  BY <1>1, IInvHolds, PTL

-----------------------------------------------------------------------------
(* Timers and wanted starts *)

\* Re-arming arms a schedule that is enabled, and leaves at most the timer it
\* sets, known to the map, where there was none.
LEMMA RearmArms ==
  ASSUME NEW left, NEW entry, Rearm(left, entry)
  PROVE  /\ row'.exists /\ row'.enabled => armed' # {}
         /\ left = {} => /\ armed' # {} => row'.exists /\ row'.enabled
                         /\ \A t \in armed' : t.kind = "late" \/ t.name = timers'
                         /\ \A t, u \in armed' : t = u
<1>1. CASE row'.exists /\ row'.enabled
  <2>1. PICK name \in Free(left), kind \in KindsFor(row'.cron) :
          /\ armed' = left \cup {[name |-> name, kind |-> kind, due |-> kind = "late"]}
          /\ timers' = IF kind = "late" THEN entry ELSE name
    BY <1>1 DEF Rearm, Arm
  <2> DEFINE new == [name |-> name, kind |-> kind, due |-> kind = "late"]
  <2>2. new.name = name /\ new.kind = kind /\ new \in armed'
    BY <2>1
  <2>3. kind = "late" \/ timers' = name
    BY <2>1
  <2>4. left = {} => armed' = {new}
    BY <2>1
  <2> HIDE DEF new
  <2>5. left = {} => \A t \in armed' : t.kind = "late" \/ t.name = timers'
    BY <2>2, <2>3, <2>4
  <2>6. left = {} => \A t, u \in armed' : t = u
    BY <2>4
  <2> QED
    BY <1>1, <2>2, <2>5, <2>6
<1>2. CASE ~(row'.exists /\ row'.enabled)
  BY <1>2 DEF Rearm, Leave
<1> QED
  BY <1>1, <1>2

\* A schedule that is enabled stays armed: whatever takes its last timer re-arms
\* it or starts a run, and the run re-arms it when it is over.
LEMMA NextArmed == IInv /\ EnabledIsArmed /\ [Next]_vars => EnabledIsArmed'
<1> SUFFICES ASSUME IInv, EnabledIsArmed, [Next]_vars PROVE EnabledIsArmed'
  OBVIOUS
<1> USE DEF EnabledIsArmed
<1>1. ASSUME NEW left, NEW entry, Rearm(left, entry) PROVE EnabledIsArmed'
  BY <1>1, RearmArms
<1>2. ASSUME NEW t \in armed, Fire(t) PROVE EnabledIsArmed'
  <2>1. CASE WakeEarly(t)
    BY <1>1, <2>1 DEF WakeEarly
  <2>2. CASE FireAndRearm(t) /\ MayRun
    BY <2>2 DEF FireAndRearm
  <2>3. CASE FireAndRearm(t) /\ ~MayRun
    BY <1>1, <2>3 DEF FireAndRearm
  <2> QED
    BY <1>2, <2>1, <2>2, <2>3 DEF Fire
<1>3. ASSUME NEW r \in runs, Record(r) PROVE EnabledIsArmed'
  BY <1>3 DEF Record
<1>4. ASSUME NEW r \in Rows, Mutate(r) PROVE EnabledIsArmed'
  BY <1>1, <1>4 DEF Mutate
<1>5. ASSUME NEW r \in runs, Close(r) PROVE EnabledIsArmed'
  BY <1>1, <1>5 DEF Close
<1>6. CASE Restart
  BY <1>1, <1>6 DEF Restart
<1>7. CASE Tick
  BY <1>7 DEF Tick
<1>8. CASE UNCHANGED vars
  BY <1>8 DEF vars
<1> QED
  BY <1>2, <1>3, <1>4, <1>5, <1>6, <1>7, <1>8 DEF Next, FireSome

\* The timers of a schedule that nobody edited while it executed.
Tidy ==
  /\ spent => ~row.enabled
  /\ ~meddled =>
       /\ runs # {} => armed = {}
       /\ armed # {} => row.exists /\ row.enabled
       /\ \A t \in armed : t.kind = "late" \/ t.name = timers
       /\ \A t, u \in armed : t = u

\* An edit between two runs clears the only timer there is.
LEMMA MutateTidy ==
  ASSUME IInv, Tidy, NEW r \in Rows, Mutate(r), ~Late
  PROVE  Tidy'
<1>1. row' = r /\ Rearm(Uncleared, NoTimer) /\ runs' = runs
      /\ spent' = (spent /\ r.exists /\ ~r.enabled)
      /\ meddled' = (row.exists /\ (meddled \/ runs # {}))
  BY DEF Mutate
<1>2. spent' => ~row'.enabled
  BY <1>1
<1>3. ASSUME ~meddled' PROVE runs = {} /\ Uncleared = {}
  <2>1. CASE ~row.exists
    BY <2>1 DEF Mutate, Uncleared
  <2>2. CASE ~meddled /\ runs = {}
    BY <2>2 DEF Tidy, Late, Uncleared
  <2> QED
    BY <1>1, <1>3, <2>1, <2>2
<1> QED
  BY <1>1, <1>2, <1>3, RearmArms DEF Tidy

\* A timer that fires was the only one.
LEMMA FireTidy ==
  ASSUME IInv, Tidy, NEW t \in armed, Fire(t)
  PROVE  Tidy'
<1>1. UNCHANGED <<row, spent, meddled>>
  BY DEF Fire
<1>2. ~meddled => Left(t) = {} /\ runs = {}
  BY DEF Tidy, Left
<1>3. CASE runs' = runs /\ \E entry : Rearm(Left(t), entry)
  BY <1>1, <1>2, <1>3, RearmArms DEF Tidy
<1>4. CASE armed' = Left(t)
  BY <1>1, <1>2, <1>4 DEF Tidy
<1> QED
  BY <1>3, <1>4 DEF Fire, WakeEarly, FireAndRearm, Leave

\* Every step keeps the timers tidy.
LEMMA NextTidy == IInv /\ Tidy /\ [Next]_vars => Tidy'
<1> SUFFICES ASSUME IInv, Tidy, [Next]_vars PROVE Tidy'
  OBVIOUS
<1>1. ASSUME NEW t \in armed, Fire(t) PROVE Tidy'
  BY <1>1, FireTidy
<1>2. ASSUME NEW r \in Rows, Mutate(r), ~Late PROVE Tidy'
  BY <1>2, MutateTidy
<1>3. ASSUME NEW r \in runs, Record(r) PROVE Tidy'
  <2>1. armed' = armed /\ meddled' = meddled /\ (~meddled => armed = {})
    BY <1>3 DEF Record, Tidy
  <2>2. spent' => ~row'.enabled
    <3>1. row \in RowType
      BY DEF IInv, TypeOK
    <3> QED
      BY <1>3, <3>1 DEF Record, Tidy, RowType
  <2> QED
    BY <2>1, <2>2 DEF Tidy
<1>4. ASSUME NEW r \in runs, Close(r) PROVE Tidy'
  <2>1. runs' = {} /\ UNCHANGED <<row, spent, meddled>> /\ Rearm(armed, timers)
    BY <1>4 DEF Close, IInv, OneRunAtATime
  <2>2. ~meddled => armed = {}
    BY DEF Tidy
  <2> QED
    BY <2>1, <2>2, RearmArms DEF Tidy
<1>5. CASE Restart
  BY <1>5, RearmArms DEF Restart, Tidy
<1>6. CASE Tick
  <2>1. /\ armed' = {[t EXCEPT !.due = t.kind # "early"] : t \in armed}
        /\ UNCHANGED <<row, timers, running, runs, spent, meddled>>
    BY <1>6 DEF Tick
  <2>2. \A t \in armed' : \E u \in armed : /\ t = [u EXCEPT !.due = u.kind # "early"]
                                         /\ t.name = u.name /\ t.kind = u.kind
    <3>1. \A u \in armed : u \in Pending
      BY DEF IInv, TypeOK
    <3> QED
      BY <2>1, <3>1 DEF Pending
  <2> QED
    BY <2>1, <2>2 DEF Tidy
<1>7. CASE UNCHANGED vars
  BY <1>7 DEF vars, Tidy
<1> QED
  BY <1>1, <1>2, <1>3, <1>4, <1>5, <1>6, <1>7 DEF Next, FireSome

\* Only a timer that fires starts a run.
LEMMA StartsByTimer ==
  ASSUME IInv, [Next]_vars, Starts
  PROVE  armed # {}
<1>1. ASSUME NEW r \in runs, Record(r) PROVE FALSE
  BY <1>1 DEF Record, Starts, IInv, TypeOK, Runs
<1>2. ASSUME NEW r \in runs, Close(r) PROVE FALSE
  BY <1>2 DEF Close, Starts
<1>3. ASSUME NEW r \in Rows, Mutate(r) PROVE FALSE
  BY <1>3 DEF Mutate, Starts
<1>4. CASE Restart \/ Tick \/ UNCHANGED vars
  BY <1>4 DEF Restart, Tick, vars, Starts
<1> QED
  BY <1>1, <1>2, <1>3, <1>4 DEF Next, FireSome

\* The three invariants together.
LEMMA TidyHolds == Spec => [](IInv /\ EnabledIsArmed /\ Tidy)
<1>1. Init => EnabledIsArmed /\ Tidy
  BY DEF Init, EnabledIsArmed, Tidy, NoRow
<1> QED
  BY <1>1, InitIInv, NextIInv, NextArmed, NextTidy, PTL DEF Spec

\* No sequence of edits, clamped timers that wake early, skipped runs, ends of runs
\* and restarts leaves an enabled schedule without a timer (armTimer, fireAndRearm,
\* syncSchedule and initScheduler in lib/scheduler.ts).
THEOREM EnabledStaysArmed == Spec => []EnabledIsArmed
BY TidyHolds, PTL

\* As long as nobody edits a schedule while it executes, what starts is enabled,
\* and a one-shot schedule that has run does not start again (syncSchedule clears
\* the timer it finds; the auto-disable of runSchedule).
THEOREM OnlyWantedStarts == Spec => StartsAreWanted
<1>1. IInv /\ Tidy /\ [Next]_vars => [Starts /\ ~meddled => row.enabled /\ ~spent]_vars
  BY StartsByTimer DEF Tidy
<1> QED
  BY <1>1, TidyHolds, PTL DEF Spec, StartsAreWanted
=============================================================================
