-------------------------- MODULE DaemonTasksProofs --------------------------
(***************************************************************************)
(* Proofs about DaemonTasks: for any number of tasks, overlapping ticks,   *)
(* loops, retries, edits and ends of the process, the variables keep their *)
(* types, one task is executed at a time and none beside a conversation    *)
(* that was given up, and what ended stays ended.                          *)
(*                                                                         *)
(* NoTaskTwice is not inductive.  What keeps a second tick from claiming   *)
(* is currentTask, so the invariant relates it to the ticks while the      *)
(* process is up; a shutdown clears it under a tick that goes on, so the   *)
(* invariant must also know that no tick survives into the next boot.      *)
(***************************************************************************)
EXTENDS DaemonTasks, TLAPS

\* A tick that is not idle has a task, and it is the only one.
TicksHaveTasks ==
  /\ \A k \in Tick : ticks[k] # Idle => ticks[k].task \in Task
  /\ \A j, k \in Tick : ticks[j] # Idle /\ ticks[k] # Idle => j = k

\* Until a shutdown, currentTask is the task some tick executes, or one whose claim
\* threw: then nothing but a cancellation touches its row.
CurrentIsAtWork ==
  phase = "up" =>
    /\ \A k \in Tick : ticks[k] # Idle => ticks[k].task = current
    /\ current # None => \/ \E k \in Tick : ticks[k].task = current
                         \/ rows[current].status \in {"running", "cancelled"}

\* No execution and no conversation outlives its process.
DownIsIdle ==
  phase = "down" =>
    current = None /\ detached = {} /\ \A k \in Tick : ticks[k] = Idle

\* A conversation is given up only for a task that has failed for good.
GivenUpIsOver ==
  \A t \in detached : /\ rows[t].status \in Final
                      /\ \A k \in Tick : ticks[k].task # t

IInv ==
  TypeOK /\ TicksHaveTasks /\ CurrentIsAtWork /\ DownIsIdle /\ GivenUpIsOver

-----------------------------------------------------------------------------
\* No task is the absence of a task.
LEMMA NoneIsNoTask == None \notin Task
BY NoneAssumption, CountAssumption DEF Task

\* A tick that works on a task is not idle.
LEMMA AtWorkIsNotIdle ==
  ASSUME NEW k \in Tick, ticks[k].task \in Task
  PROVE  ticks[k] # Idle
BY NoneIsNoTask DEF Idle

\* The invariant holds when the server is started for the first time.
LEMMA InitIsSound == Init => IInv
<1> SUFFICES ASSUME Init PROVE IInv
  OBVIOUS
<1>1. TypeOK
  BY RetriesAssumption, BoundAssumption
  DEF Init, TypeOK, Row, LoopStatus, Run, Idle, Final
<1>2. TicksHaveTasks /\ CurrentIsAtWork /\ DownIsIdle /\ GivenUpIsOver
  BY DEF Init, TicksHaveTasks, CurrentIsAtWork, DownIsIdle, GivenUpIsOver
<1> QED
  BY <1>1, <1>2 DEF IInv

-----------------------------------------------------------------------------
(* Tasks and ticks *)

\* Creating a task touches a row that nothing works on or has worked on.
LEMMA CreateIsSound ==
  ASSUME IInv, NEW t \in Task, NEW p \in {0, 1}, NEW l \in Loop \cup {None},
         Create(t, p, l)
  PROVE  IInv'
<1>1. TypeOK'
  BY RetriesAssumption
  DEF IInv, TypeOK, Create, Row, LoopStatus, engine
<1>2. GivenUpIsOver'
  BY DEF IInv, TypeOK, GivenUpIsOver, Create, engine, Final
<1>3. TicksHaveTasks' /\ CurrentIsAtWork' /\ DownIsIdle'
  BY DEF IInv, TypeOK, TicksHaveTasks, CurrentIsAtWork, DownIsIdle, Create, engine
<1> QED
  BY <1>1, <1>2, <1>3 DEF IInv

\* A task that may be cancelled gets its end.
LEMMA CancelIsSound ==
  ASSUME IInv, NEW t \in Task, Cancel(t)
  PROVE  IInv'
<1>1. TypeOK'
  BY DEF IInv, TypeOK, Cancel, Row, Final, time, engine
<1>2. GivenUpIsOver'
  BY DEF IInv, TypeOK, GivenUpIsOver, Cancel, engine, Final
<1>3. TicksHaveTasks' /\ CurrentIsAtWork' /\ DownIsIdle'
  BY DEF IInv, TypeOK, Row, TicksHaveTasks, CurrentIsAtWork, DownIsIdle, Cancel, engine
<1> QED
  BY <1>1, <1>2, <1>3 DEF IInv

\* A conversation that was given up ends: nothing else changes.
LEMMA SettledIsSound ==
  ASSUME IInv, NEW t \in Task, Settled(t)
  PROVE  IInv'
BY DEF IInv, TypeOK, TicksHaveTasks, CurrentIsAtWork, DownIsIdle, GivenUpIsOver,
       Settled, stored, time

\* The watchdog touches no row that has come to its end, nor that of currentTask.
LEMMA RecoveredRows ==
  ASSUME TypeOK
  PROVE  /\ Recovered \in [Task -> Row]
         /\ \A t \in Task : rows[t].status # "running" \/ t = current
              => Recovered[t] = rows[t]
BY DEF TypeOK, Recovered, Stuck, Row, Final

\* The sweep of the loops keeps their statuses.
LEMMA SweptLoops ==
  ASSUME TypeOK
  PROVE  Swept \in [Loop -> LoopStatus]
BY DEF TypeOK, Swept, LoopStatus

\* A claim finds every tick idle, because currentTask was not set.
LEMMA BeginIsSound ==
  ASSUME IInv, NEW k \in Tick, Begin(k)
  PROVE  IInv'
<1>1. TypeOK /\ phase = "up" /\ UNCHANGED <<config, detached, phase, used>>
  BY DEF IInv, Begin
<1>2. loops' \in [Loop -> LoopStatus] /\ sweepDue' \in BOOLEAN
  BY <1>1, SweptLoops DEF Begin
<1>3. CASE MayClaim /\ \E t \in Task : First(t)
  <2>1. PICK t \in Task : Claim(k, t)
    BY <1>3 DEF Begin
  <2>2. \A j \in Tick : ticks[j] = Idle
    BY <1>1, <1>3, NoneIsNoTask DEF MayClaim, IInv, TicksHaveTasks, CurrentIsAtWork
  <2>3. \/ ticks' = [ticks EXCEPT ![k] = [pc |-> "executing", task |-> t]]
        \/ ticks' = ticks
    BY <2>1 DEF Claim
  <2>4. /\ ticks'[k].task = t \/ ticks'[k] = Idle
        /\ \A j \in Tick : j # k => ticks'[j] = Idle
    BY <1>1, <2>2, <2>3 DEF TypeOK, Idle
  <2>5. rows' \in [Task -> Row]
    <3>1. Recovered[t] \in Row
      BY <1>1, RecoveredRows
    <3>2. [Recovered[t] EXCEPT !.status = "running"] \in Row
      BY <3>1 DEF Row
    <3> QED
      BY <1>1, <2>1, <3>2, RecoveredRows DEF Claim
  <2>6. TypeOK'
    <3>1. quiet' \subseteq Loop
      BY <1>1, <2>1 DEF TypeOK, Claim
    <3>2. ticks' \in [Tick -> Run]
      BY <1>1, <2>3 DEF TypeOK, Run
    <3> QED
      BY <1>1, <1>2, <2>1, <2>5, <3>1, <3>2 DEF TypeOK, Claim
  <2>7. t \notin detached /\ \A u \in detached : rows'[u] = rows[u] \/ u = t
    <3>1. t \notin detached
      BY <2>1 DEF Claim, First, IInv, GivenUpIsOver, Final
    <3>2. \A u \in detached : u \in Task /\ rows[u].status # "running"
      BY <1>1 DEF TypeOK, IInv, GivenUpIsOver, Final
    <3> QED
      BY <1>1, <2>1, <3>1, <3>2, RecoveredRows DEF Claim, TypeOK
  <2>8. GivenUpIsOver'
    <3> SUFFICES ASSUME NEW u \in detached
                 PROVE  rows'[u].status \in Final /\ \A j \in Tick : ticks'[j].task # u
      BY <1>1 DEF GivenUpIsOver
    <3>1. u \in Task /\ u # t /\ rows'[u] = rows[u]
      BY <1>1, <2>7 DEF TypeOK
    <3> QED
      BY <2>4, <3>1, NoneIsNoTask DEF IInv, GivenUpIsOver, Idle
  <2>9. TicksHaveTasks' /\ CurrentIsAtWork' /\ DownIsIdle'
    <3>1. current' = t /\ rows'[t].status = "running" /\ phase' = "up"
      <4>1. Recovered[t] \in Row /\ Recovered \in [Task -> Row]
        BY <1>1, RecoveredRows
      <4> QED
        BY <1>1, <2>1, <4>1 DEF Claim, Row
    <3> QED
      BY <2>4, <3>1 DEF TicksHaveTasks, CurrentIsAtWork, DownIsIdle
  <2> QED
    BY <2>6, <2>8, <2>9 DEF IInv
<1>4. CASE ~(MayClaim /\ \E t \in Task : First(t))
  <2>1. rows' = Recovered /\ UNCHANGED <<late, current, ticks>>
    BY <1>4 DEF Begin
  <2>2. quiet' \subseteq Loop
    BY <1>1, <1>4 DEF Begin, TypeOK
  <2>3. TypeOK'
    BY <1>1, <1>2, <2>1, <2>2, RecoveredRows DEF TypeOK
  <2>4. GivenUpIsOver'
    BY <1>1, <2>1, RecoveredRows DEF IInv, TypeOK, GivenUpIsOver, Final
  <2>5. TicksHaveTasks' /\ CurrentIsAtWork' /\ DownIsIdle'
    <3>1. current # None => rows'[current] = rows[current]
      BY <1>1, <2>1, RecoveredRows DEF TypeOK
    <3> QED
      BY <1>1, <2>1, <3>1 DEF IInv, TicksHaveTasks, CurrentIsAtWork, DownIsIdle
  <2> QED
    BY <2>3, <2>4, <2>5 DEF IInv
<1> QED
  BY <1>3, <1>4

\* However a tick ends, it leaves no trace but its task's row, which has come to
\* its end if the conversation is given up.
LEMMA ReleaseIsSound ==
  ASSUME IInv, NEW k \in Tick, NEW r \in Row, ticks[k] # Idle, Release(k),
         rows' = [rows EXCEPT ![ticks[k].task] = r],
         \/ detached' = detached
         \/ detached' = detached \cup {ticks[k].task} /\ r.status \in Final,
         UNCHANGED phase
  PROVE  /\ rows' \in [Task -> Row] /\ current' \in Task \cup {None}
         /\ ticks' \in [Tick -> Run] /\ detached' \subseteq Task
         /\ TicksHaveTasks' /\ CurrentIsAtWork' /\ DownIsIdle' /\ GivenUpIsOver'
<1>1. TypeOK /\ ticks[k].task \in Task
  BY DEF IInv, TicksHaveTasks
<1>2. ticks' = [ticks EXCEPT ![k] = Idle] /\ current' = None
  BY DEF Release, Releases
<1>3. \A j \in Tick : ticks'[j] = Idle
  BY <1>1, <1>2 DEF IInv, TypeOK, TicksHaveTasks
<1>4. Idle \in Run /\ Idle.task = None
  BY DEF Idle, Run
<1>5. ticks' \in [Tick -> Run] /\ rows' \in [Task -> Row] /\ detached' \subseteq Task
  BY <1>1, <1>2, <1>4 DEF TypeOK
<1>6. GivenUpIsOver'
  <2> SUFFICES ASSUME NEW u \in detached'
               PROVE  rows'[u].status \in Final /\ \A j \in Tick : ticks'[j].task # u
    BY DEF GivenUpIsOver
  <2>1. u \in Task
    BY <1>5
  <2>2. \A j \in Tick : ticks'[j].task # u
    BY <1>3, <1>4, <2>1, NoneIsNoTask
  <2>3. rows'[u].status \in Final
    <3>1. CASE u = ticks[k].task
      <4>1. u \notin detached /\ rows'[u] = r
        BY <1>1, <3>1 DEF IInv, GivenUpIsOver, TypeOK
      <4> QED
        BY <3>1, <4>1
    <3>2. CASE u # ticks[k].task
      BY <1>1, <2>1, <3>2 DEF IInv, GivenUpIsOver, TypeOK
    <3> QED
      BY <3>1, <3>2
  <2> QED
    BY <2>2, <2>3
<1>7. phase # "down"
  BY DEF IInv, DownIsIdle
<1> QED
  BY <1>2, <1>3, <1>5, <1>6, <1>7 DEF TicksHaveTasks, CurrentIsAtWork, DownIsIdle

\* So does the bookkeeping of a task that ends.
LEMMA EndsLoops ==
  ASSUME TypeOK, NEW t \in Task, NEW status \in LoopStatus
  PROVE  Ends(t, status) \in [Loop -> LoopStatus]
BY DEF TypeOK, Ends

\* A retry is counted, and there are at most MaxRetries.
LEMMA FailsIsSound ==
  ASSUME IInv, NEW k \in Tick, NEW timedOut \in BOOLEAN, NEW done \in BOOLEAN,
         ticks[k] # Idle, Fails(k, timedOut, done),
         \/ detached' = detached
         \/ timedOut /\ detached' = detached \cup {ticks[k].task}
  PROVE  IInv'
<1> DEFINE t == ticks[k].task
           again == [rows[t] EXCEPT !.status = "queued", !.retries = @ + 1]
           failed == [rows[t] EXCEPT !.status = "failed"]
<1>1. TypeOK /\ t \in Task /\ rows[t] \in Row
  BY DEF IInv, TicksHaveTasks, TypeOK
<1>2. PICK r \in Row : /\ rows' = [rows EXCEPT ![t] = r]
                       /\ timedOut => r.status \in Final
  <2>1. CASE ShouldRetry(t, timedOut)
    <3>1. rows[t].retries + 1 \in 0..MaxRetries
      BY <1>1, <2>1, RetriesAssumption DEF Row, ShouldRetry
    <3>2. again \in Row
      BY <1>1, <3>1 DEF Row
    <3>3. rows' = [rows EXCEPT ![t].status = "queued", ![t].retries = @ + 1]
      BY <2>1 DEF Fails
    <3>4. rows' = [rows EXCEPT ![t] = again]
      BY <1>1, <3>3 DEF TypeOK, Row
    <3>5. ~timedOut
      BY <2>1 DEF ShouldRetry
    <3> QED
      BY <3>2, <3>4, <3>5
  <2>2. CASE ~ShouldRetry(t, timedOut)
    <3>1. failed \in Row /\ failed.status \in Final
      BY <1>1 DEF Row, Final
    <3>2. rows' = [rows EXCEPT ![t] = failed]
      BY <2>2 DEF Fails
    <3> QED
      BY <3>1, <3>2
  <2> QED
    BY <2>1, <2>2
<1>3. Release(k) /\ UNCHANGED <<config, late, sweepDue, phase, used>>
  BY DEF Fails
<1>4. loops' \in [Loop -> LoopStatus] /\ quiet' \subseteq Loop
  <2>1. \A status \in {"failed", "completed"} : Ends(t, status) \in [Loop -> LoopStatus]
    BY <1>1, EndsLoops DEF LoopStatus
  <2>2. loops' \in {Ends(t, "failed"), Ends(t, "completed"), loops}
    BY DEF Fails
  <2> QED
    BY <1>1, <2>1, <2>2 DEF Fails, TypeOK
<1>5. /\ rows' \in [Task -> Row] /\ current' \in Task \cup {None}
      /\ ticks' \in [Tick -> Run] /\ detached' \subseteq Task
      /\ TicksHaveTasks' /\ CurrentIsAtWork' /\ DownIsIdle' /\ GivenUpIsOver'
  BY <1>2, <1>3, ReleaseIsSound
<1> QED
  BY <1>1, <1>3, <1>4, <1>5 DEF IInv, TypeOK

\* A conversation that answered completes its task.
LEMMA SucceedIsSound ==
  ASSUME IInv, NEW k \in Tick, Succeed(k)
  PROVE  IInv'
<1> DEFINE t == ticks[k].task
           r == [rows[t] EXCEPT !.status = "completed"]
<1>1. TypeOK /\ ticks[k] # Idle
  BY DEF IInv, Succeed, Idle
<1>2. t \in Task /\ rows[t] \in Row
  BY <1>1 DEF IInv, TicksHaveTasks, TypeOK
<1>3. r \in Row /\ rows' = [rows EXCEPT ![t] = r]
  BY <1>1, <1>2 DEF Row, Final, Succeed, TypeOK
<1>4. Release(k) /\ UNCHANGED <<config, late, sweepDue, detached, phase, used>>
  BY DEF Succeed
<1>5. loops' \in [Loop -> LoopStatus] /\ quiet' \subseteq Loop
  <2>1. loops' = Ends(t, "completed") /\ "completed" \in LoopStatus
    BY DEF Succeed, LoopStatus
  <2> QED
    BY <1>1, <1>2, <2>1, EndsLoops DEF Succeed, TypeOK
<1> HIDE DEF r
<1>6. /\ rows' \in [Task -> Row] /\ current' \in Task \cup {None}
      /\ ticks' \in [Tick -> Run] /\ detached' \subseteq Task
      /\ TicksHaveTasks' /\ CurrentIsAtWork' /\ DownIsIdle' /\ GivenUpIsOver'
  BY <1>1, <1>3, <1>4, ReleaseIsSound
<1> QED
  BY <1>1, <1>4, <1>5, <1>6 DEF IInv, TypeOK

\* A conversation that failed is retried or gives its task up.
LEMMA FailIsSound ==
  ASSUME IInv, NEW k \in Tick, Fail(k)
  PROVE  IInv'
<1>1. PICK done \in BOOLEAN : Fails(k, FALSE, done)
  BY DEF Fail
<1>2. ticks[k] # Idle /\ detached' = detached
  BY DEF Fail, Idle
<1> QED
  BY <1>1, <1>2, FailsIsSound

\* A conversation is given up only with its task.
LEMMA SettleIsSound ==
  ASSUME IInv, NEW k \in Tick, Settle(k)
  PROVE  IInv'
<1>1. ticks[k] # Idle
  BY DEF Settle, Idle
<1>2. Fails(k, TRUE, FALSE) /\ detached' \in {detached, detached \cup {ticks[k].task}}
  BY Zenon DEF Settle
<1> QED
  BY <1>1, <1>2, FailsIsSound

\* A tick whose time is up works on the same task.
LEMMA TimeOutIsSound ==
  ASSUME IInv, NEW k \in Tick, TimeOut(k)
  PROVE  IInv'
<1>1. /\ TypeOK /\ ticks[k] # Idle
      /\ ticks' = [ticks EXCEPT ![k].pc = "settling"]
      /\ UNCHANGED <<stored, time, current, detached, phase, used>>
  BY DEF IInv, TimeOut, Idle
<1>2. /\ \A j \in Tick : ticks'[j].task = ticks[j].task
      /\ \A j \in Tick : ticks'[j] # Idle <=> ticks[j] # Idle
  BY <1>1 DEF TypeOK, Run, Idle
<1>3. TypeOK'
  BY <1>1 DEF TypeOK, Run, stored, time
<1> QED
  BY <1>1, <1>2, <1>3
  DEF IInv, TicksHaveTasks, CurrentIsAtWork, DownIsIdle, GivenUpIsOver, stored

-----------------------------------------------------------------------------
(* Settings, time and the process *)

\* Changing the settings touches no task.
LEMMA ConfigureIsSound ==
  ASSUME IInv, NEW c \in [enabled : BOOLEAN, taskQueue : BOOLEAN], Configure(c)
  PROVE  IInv'
<1>1. used' \in [edits : 0..MaxEdits, stops : 0..MaxStops]
  BY BoundAssumption DEF IInv, TypeOK, Configure
<1> QED
  BY <1>1
  DEF IInv, TypeOK, TicksHaveTasks, CurrentIsAtWork, DownIsIdle, GivenUpIsOver,
      Configure, time, engine

\* The clocks decide nothing by themselves.
LEMMA TimeIsSound ==
  ASSUME IInv, RunsLong \/ FallsQuiet \/ SweepInterval
  PROVE  IInv'
BY DEF IInv, TypeOK, TicksHaveTasks, CurrentIsAtWork, DownIsIdle, GivenUpIsOver,
       RunsLong, FallsQuiet, SweepInterval, stored, engine

\* Cancelling the task at work, or marking it, spoils no end of another one.
LEMMA ShutDownIsSound ==
  ASSUME IInv, ShutDown
  PROVE  IInv'
<1>1. TypeOK /\ phase' = "stopping" /\ current' = None
      /\ UNCHANGED <<loops, config, time, ticks, detached>>
  BY DEF IInv, ShutDown
<1>2. used' \in [edits : 0..MaxEdits, stops : 0..MaxStops]
  BY <1>1, BoundAssumption DEF TypeOK, ShutDown
<1>3. rows' \in [Task -> Row]
  BY <1>1 DEF TypeOK, ShutDown, Row, Final
<1>4. TypeOK'
  BY <1>1, <1>2, <1>3 DEF TypeOK, time
<1>5. GivenUpIsOver'
  BY <1>1 DEF IInv, TypeOK, GivenUpIsOver, ShutDown, Final
<1> QED
  BY <1>1, <1>4, <1>5 DEF IInv, TicksHaveTasks, CurrentIsAtWork, DownIsIdle

\* Whatever the rows say, nothing of the process is left.
LEMMA DieIsSound ==
  ASSUME TypeOK, Die, rows' \in [Task -> Row],
         used' \in [edits : 0..MaxEdits, stops : 0..MaxStops]
  PROVE  IInv'
<1>1. \A k \in Tick : ticks'[k] = Idle
  BY DEF Die
<1>2. TypeOK'
  BY DEF TypeOK, Die, Run, Idle
<1> QED
  BY <1>1, <1>2
  DEF IInv, TicksHaveTasks, CurrentIsAtWork, DownIsIdle, GivenUpIsOver, Die

\* The process ends after a shutdown.
LEMMA ExitIsSound ==
  ASSUME IInv, Exit
  PROVE  IInv'
BY DieIsSound DEF IInv, TypeOK, Exit

\* Or it dies without one.
LEMMA CrashIsSound ==
  ASSUME IInv, Crash
  PROVE  IInv'
<1>1. TypeOK /\ Die
  BY DEF IInv, Crash
<1>2. used' \in [edits : 0..MaxEdits, stops : 0..MaxStops]
  BY <1>1, BoundAssumption DEF TypeOK, Crash
<1>3. \A t \in Task, status \in {"completed", "failed"} :
        [rows EXCEPT ![t].status = status] \in [Task -> Row]
  BY <1>1 DEF TypeOK, Row, Final
<1>4. \/ rows' = rows
      \/ \E k \in Tick, status \in {"completed", "failed"} :
           /\ ticks[k].pc \in {"executing", "settling"}
           /\ rows' = [rows EXCEPT ![ticks[k].task].status = status]
  BY DEF Crash
<1>5. \A k \in Tick : ticks[k].pc \in {"executing", "settling"} => ticks[k].task \in Task
  BY DEF IInv, TicksHaveTasks, Idle
<1>6. rows' \in [Task -> Row]
  <2>1. CASE rows' = rows
    BY <1>1, <2>1 DEF TypeOK
  <2>2. ASSUME NEW k \in Tick, NEW status \in {"completed", "failed"},
               ticks[k].pc \in {"executing", "settling"},
               rows' = [rows EXCEPT ![ticks[k].task].status = status]
        PROVE  rows' \in [Task -> Row]
    <3>1. ticks[k].task \in Task
      BY <1>5, <2>2
    <3> QED
      BY <1>3, <2>2, <3>1
  <2> QED
    BY <1>4, <2>1, <2>2
<1> QED
  BY <1>1, <1>2, <1>6, DieIsSound

\* The next boot finds no tick, so currentTask may be unset.
LEMMA BootIsSound ==
  ASSUME IInv, Boot
  PROVE  IInv'
<1>1. /\ TypeOK /\ phase = "down" /\ phase' = "up"
      /\ UNCHANGED <<stored, time, engine, used>>
  BY DEF IInv, Boot
<1> QED
  BY <1>1
  DEF IInv, TypeOK, TicksHaveTasks, CurrentIsAtWork, DownIsIdle, GivenUpIsOver,
      stored, time, engine

-----------------------------------------------------------------------------
(* The theorems *)

\* The invariant is inductive.
LEMMA StepIsSound ==
  ASSUME IInv, [Next]_vars
  PROVE  IInv'
<1>1. CASE Tasking
  BY <1>1, CreateIsSound, CancelIsSound, SettledIsSound DEF Tasking
<1>2. CASE \E k \in Tick : Begin(k) \/ Succeed(k) \/ Fail(k) \/ TimeOut(k) \/ Settle(k)
  BY <1>2, BeginIsSound, SucceedIsSound, FailIsSound, TimeOutIsSound, SettleIsSound
<1>3. CASE \E c \in [enabled : BOOLEAN, taskQueue : BOOLEAN] : Configure(c)
  BY <1>3, ConfigureIsSound
<1>4. CASE RunsLong \/ FallsQuiet \/ SweepInterval
  BY <1>4, TimeIsSound
<1>5. CASE ShutDown \/ Exit \/ Crash \/ Boot
  BY <1>5, ShutDownIsSound, ExitIsSound, CrashIsSound, BootIsSound
<1>6. CASE UNCHANGED vars
  BY <1>6
  DEF IInv, TypeOK, TicksHaveTasks, CurrentIsAtWork, DownIsIdle, GivenUpIsOver,
      vars, stored, time, engine
<1> QED
  BY <1>1, <1>2, <1>3, <1>4, <1>5, <1>6 DEF Next

\* The inductive invariant.
LEMMA AlwaysIInv == Spec => []IInv
<1>1. Init => IInv
  BY InitIsSound
<1>2. IInv /\ [Next]_vars => IInv'
  BY StepIsSound
<1> QED
  BY <1>1, <1>2, PTL DEF Spec

\* The variables keep their types, and no task is tried more often than its
\* retries allow: ShouldRetry, cancelling and crashes never count past MAX_RETRIES.
THEOREM TypeCorrect == Spec => []TypeOK
<1>1. IInv => TypeOK
  BY DEF IInv
<1> QED
  BY <1>1, AlwaysIInv, PTL

\* However many ticks overlap, one task is executed at a time, and none beside a
\* conversation about it that the daemon has given up.
THEOREM NoTaskIsDoubled == Spec => []NoTaskTwice
<1>1. IInv => NoTaskTwice
  BY DEF IInv, TicksHaveTasks, GivenUpIsOver, NoTaskTwice, Working
<1> QED
  BY <1>1, AlwaysIInv, PTL

\* No step changes the end of a task that nothing executes.
LEMMA EndsAreKept ==
  ASSUME IInv, [Next]_vars, NEW t \in Task,
         rows[t].status \in Final, Working(t) = {}
  PROVE  rows'[t].status = rows[t].status
<1>1. TypeOK /\ \A k \in Tick : ticks[k].task # t
  BY DEF IInv, Working
<1>2. rows[t].status \notin {"none", "queued", "running"}
  BY DEF Final
<1>3. CASE Tasking
  BY <1>1, <1>2, <1>3
  DEF Tasking, Create, Cancel, Cancellable, Settled, stored, TypeOK
<1>4. ASSUME NEW k \in Tick, Begin(k)
      PROVE  rows'[t] = rows[t]
  <2>1. Recovered[t] = rows[t] /\ Recovered \in [Task -> Row]
    BY <1>1, <1>2, RecoveredRows
  <2>2. rows' = Recovered \/ \E u \in Task : Claim(k, u)
    BY <1>4 DEF Begin
  <2>3. ASSUME NEW u \in Task, Claim(k, u)
        PROVE  rows'[t] = Recovered[t]
    BY <1>2, <2>1, <2>3 DEF Claim, First
  <2> QED
    BY <2>1, <2>2, <2>3
<1>5. ASSUME NEW k \in Tick, Succeed(k) \/ Fail(k) \/ TimeOut(k) \/ Settle(k)
      PROVE  rows'[t] = rows[t]
  BY <1>1, <1>5 DEF Succeed, Fail, TimeOut, Settle, Fails, stored, TypeOK
<1>6. CASE \E c \in [enabled : BOOLEAN, taskQueue : BOOLEAN] : Configure(c)
  BY <1>6 DEF Configure
<1>7. CASE RunsLong \/ FallsQuiet \/ SweepInterval \/ Exit \/ Boot \/ UNCHANGED vars
  BY <1>7 DEF RunsLong, FallsQuiet, SweepInterval, Exit, Boot, vars, stored
<1>8. CASE ShutDown
  <2>1. t = current => rows[t].status = "cancelled"
    BY <1>1, <1>2, <1>8, NoneIsNoTask DEF ShutDown, IInv, CurrentIsAtWork
  <2> QED
    BY <1>1, <1>8, <2>1 DEF ShutDown, TypeOK, Row
<1>9. CASE Crash
  BY <1>1, <1>9 DEF Crash, TypeOK
<1> QED
  BY <1>3, <1>4, <1>5, <1>6, <1>7, <1>8, <1>9 DEF Next

\* Neither the watchdog, a late retry, a shutdown nor a user who cancels too late
\* changes what became of a task that nothing executes.
THEOREM EndsStand == Spec => EndIsFinal
<1>1. IInv /\ [Next]_vars =>
        [ \A t \in Task : rows[t].status \in Final /\ Working(t) = {}
            => rows'[t].status = rows[t].status ]_vars
  BY EndsAreKept
<1> QED
  BY <1>1, AlwaysIInv, PTL DEF Spec, EndIsFinal
=============================================================================
