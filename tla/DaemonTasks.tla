---------------------------- MODULE DaemonTasks ----------------------------
(***************************************************************************)
(* The daemon's queue of tasks and the cognitive loops they work for: the  *)
(* rows that survive a crash, the ticks that claim and execute one task at *)
(* a time against a time limit, retries, the watchdog for rows a crash     *)
(* left running, the sweep of stale loops, cancelling and shutting down.   *)
(*                                                                         *)
(* Source: lib/daemon-engine.ts, lib/daemon-timeout.ts, db/daemon-store.ts *)
(* and lib/cognitive-loop.ts under apps/server/src.  The periodic job that *)
(* ticks is JobRunner's; as that module shows, two of its runs may         *)
(* overlap, and a job without a row never ticks.                           *)
(*                                                                         *)
(* A step is what the code does between two awaits.  Time is what has      *)
(* become of it: a row that has been running for too long, a loop without  *)
(* recent activity, a sweep that is due.  What a task says, pruning of old *)
(* rows, idle consolidation and the limit on escalations are left out.     *)
(***************************************************************************)
EXTENDS Naturals

CONSTANTS
  Tasks,       \* how many tasks are created
  Loop,        \* cognitive loops
  None,        \* no task, no loop
  Ticks,       \* how many runs of the job may overlap
  MaxRetries,  \* MAX_RETRIES
  MaxEdits, MaxStops  \* bounds on settings saved, and on ends of the process

ASSUME CountAssumption == Tasks \in Nat /\ Ticks \in Nat
ASSUME NoneAssumption == None \notin Nat /\ None \notin Loop
ASSUME RetriesAssumption == MaxRetries \in Nat
ASSUME BoundAssumption == MaxEdits \in Nat /\ MaxStops \in Nat

\* The tasks in the order of their creation, and names for ticks.
Task == 1..Tasks
Tick == 1..Ticks

VARIABLES
  rows,      \* daemon_tasks
  loops,     \* the status of each loop
  late,      \* tasks whose started_at is older than the watchdog's threshold
  quiet,     \* loops whose last activity is too long ago
  config,    \* the daemon's settings
  phase,     \* of the process
  current,   \* currentTask
  ticks,     \* the ticks that execute a task
  detached,  \* tasks with a conversation the daemon has given up waiting for
  sweepDue,  \* has the sweep's interval passed?
  used       \* how much of each bound has been consumed

stored == <<rows, loops, config>>
time == <<late, quiet, sweepDue>>
engine == <<current, ticks, detached>>
vars == <<stored, time, engine, phase, used>>

-----------------------------------------------------------------------------
(* Data *)

Final == {"completed", "failed", "cancelled"}

Row == [status : {"none", "queued", "running"} \cup Final, retries : 0..MaxRetries,
        priority : {0, 1}, loop : Loop \cup {None}]

\* waiting: not created yet, or paused until the user asks for a follow-up.
LoopStatus == {"waiting", "running", "completed", "failed"}

\* The task of a tick is the row as it was claimed.
Run == [pc : {"idle", "executing", "settling"}, task : Task \cup {None}]

Idle == [pc |-> "idle", task |-> None]

TypeOK ==
  /\ rows \in [Task -> Row]
  /\ loops \in [Loop -> LoopStatus]
  /\ late \subseteq Task /\ quiet \subseteq Loop
  /\ config \in [enabled : BOOLEAN, taskQueue : BOOLEAN]
  /\ phase \in {"up", "stopping", "down"}
  /\ current \in Task \cup {None}
  /\ ticks \in [Tick -> Run]
  /\ detached \subseteq Task
  /\ sweepDue \in BOOLEAN
  /\ used \in [edits : 0..MaxEdits, stops : 0..MaxStops]

Init ==
  /\ rows = [t \in Task |-> [status |-> "none", retries |-> 0, priority |-> 0,
                             loop |-> None]]
  /\ loops = [l \in Loop |-> "waiting"]
  /\ late = {} /\ quiet = {} /\ sweepDue = TRUE
  /\ config \in [enabled : BOOLEAN, taskQueue : BOOLEAN]
  /\ phase = "up"
  /\ current = None
  /\ ticks = [k \in Tick |-> Idle]
  /\ detached = {}
  /\ used = [edits |-> 0, stops |-> 0]

\* A loop, if the task has one, as appendCognitiveLoopEvent leaves it.
Ends(t, status) ==
  [l \in Loop |-> IF l = rows[t].loop THEN status ELSE loops[l]]

-----------------------------------------------------------------------------
(* The tasks *)

\* A request of the user, a remediation, an action of a dashboard or a branch; a
\* loop that is over or paused is resumed.
Create(t, priority, l) ==
  /\ phase = "up"
  /\ rows[t].status = "none" /\ \A u \in Task : u < t => rows[u].status # "none"
  /\ rows' = [rows EXCEPT ![t] = [status |-> "queued", retries |-> 0,
                                  priority |-> priority, loop |-> l]]
  /\ loops' = [m \in Loop |-> IF m = l THEN "running" ELSE loops[m]]
  /\ quiet' = quiet \ {l}
  /\ UNCHANGED <<config, late, sweepDue, engine, phase, used>>

\* cancelDaemonTask touches the row only: an execution goes on.
Cancellable(t) == rows[t].status \in {"queued", "running"}

Cancel(t) ==
  /\ phase = "up" /\ Cancellable(t)
  /\ rows' = [rows EXCEPT ![t].status = "cancelled"]
  /\ UNCHANGED <<loops, config, time, engine, phase, used>>

-----------------------------------------------------------------------------
(* A tick *)

\* recoverStaleCognitiveLoops.
Swept ==
  [l \in Loop |-> IF sweepDue /\ l \in quiet /\ loops[l] = "running"
                    THEN "failed" ELSE loops[l]]

\* recoverStuckTasks: a row that has been running for too long is failed, unless
\* it is the task at work.  (Late looks at the time alone.)
Late(t) == t \in late /\ t # current
Stuck(t) == rows[t].status = "running" /\ t \in late /\ t # current

Recovered ==
  [t \in Task |-> IF Stuck(t) THEN [rows[t] EXCEPT !.status = "failed"] ELSE rows[t]]

\* claimNextTask: the most urgent, then the oldest.
First(t) ==
  /\ rows[t].status = "queued"
  /\ \A u \in Task : rows[u].status = "queued" =>
       \/ rows[t].priority > rows[u].priority
       \/ rows[t].priority = rows[u].priority /\ t <= u

\* A task is claimed if none is at work.
MayClaim == config.taskQueue /\ current = None

\* What is told about the task before its execution begins may throw (a presence,
\* an event of its loop), outside the try: that tick is over, and nobody releases
\* currentTask.
Claim(k, t) ==
  /\ First(t)
  /\ rows' = [Recovered EXCEPT ![t].status = "running"]
  /\ current' = t
  /\ late' = late \ {t}
  /\ LET still == {l \in quiet : Swept[l] = loops[l]} IN
       \/ /\ ticks' = [ticks EXCEPT ![k] = [pc |-> "executing", task |-> t]]
          /\ quiet' = still \ {rows[t].loop}
       \/ /\ UNCHANGED ticks
          /\ quiet' \in {still, still \ {rows[t].loop}}

\* daemonTick up to its first await.  Its remaining work is for idle ticks.
Begin(k) ==
  /\ phase = "up" /\ config.enabled
  /\ ticks[k] = Idle /\ \A j \in Tick : j < k => ticks[j] # Idle
  /\ loops' = Swept
  /\ sweepDue' = FALSE
  /\ IF MayClaim /\ \E t \in Task : First(t)
       THEN \E t \in Task : Claim(k, t)
       ELSE /\ rows' = Recovered
            /\ quiet' = {l \in quiet : Swept[l] = loops[l]}
            /\ UNCHANGED <<late, current, ticks>>
  /\ UNCHANGED <<config, detached, phase, used>>

\* The finally block.  (KeepsCurrent forgets what it has to release.)
KeepsCurrent(k) == current
Releases(k) == None

Release(k) ==
  /\ current' = Releases(k)
  /\ ticks' = [ticks EXCEPT ![k] = Idle]

\* A failed task is tried again, unless it failed by its time limit.  (AnyFailure
\* retries that too, OneMore once too often.)
AnyFailure(t, timedOut) == rows[t].retries < MaxRetries
OneMore(t, timedOut) == ~timedOut /\ rows[t].retries <= MaxRetries
ShouldRetry(t, timedOut) == ~timedOut /\ rows[t].retries < MaxRetries

\* The catch block: the row and the loop after a failure; done tells that the
\* loop had been completed before.  The events of the loop may throw here too,
\* which leaves the loop as it was.
Fails(k, timedOut, done) ==
  LET t == ticks[k].task
      before == IF done THEN Ends(t, "completed") ELSE loops
  IN
  /\ rows' = IF ShouldRetry(t, timedOut)
               THEN [rows EXCEPT ![t].status = "queued", ![t].retries = @ + 1]
               ELSE [rows EXCEPT ![t].status = "failed"]
  /\ \/ loops' = before
     \/ ~ShouldRetry(t, timedOut) /\ loops' = Ends(t, "failed")
  /\ quiet' \in {quiet, quiet \ {rows[t].loop}}
  /\ Release(k)
  /\ UNCHANGED <<config, late, sweepDue, phase, used>>

\* The conversation has an answer: the task and its loop are completed.
Succeed(k) ==
  LET t == ticks[k].task IN
  /\ ticks[k].pc = "executing"
  /\ rows' = [rows EXCEPT ![t].status = "completed"]
  /\ loops' = Ends(t, "completed")
  /\ quiet' = quiet \ {rows[t].loop}
  /\ Release(k)
  /\ UNCHANGED <<config, late, sweepDue, detached, phase, used>>

\* The conversation throws, or something does in the bookkeeping of its success.
Fail(k) ==
  /\ ticks[k].pc = "executing"
  /\ \E done \in BOOLEAN : Fails(k, FALSE, done)
  /\ UNCHANGED detached

\* The time limit: the conversation is aborted.  shutdownDaemon clears the timer.
TimeOut(k) ==
  /\ phase = "up" /\ ticks[k].pc = "executing"
  /\ ticks' = [ticks EXCEPT ![k].pc = "settling"]
  /\ UNCHANGED <<stored, time, current, detached, phase, used>>

\* settleTimedOutDaemonExecution: the conversation and what it started has ended,
\* or is not waited for any longer.
Settle(k) ==
  /\ ticks[k].pc = "settling"
  /\ detached' \in {detached, detached \cup {ticks[k].task}}
  /\ Fails(k, TRUE, FALSE)

\* What was not waited for ends.
Settled(t) ==
  /\ t \in detached
  /\ detached' = detached \ {t}
  /\ UNCHANGED <<stored, time, current, ticks, phase, used>>

-----------------------------------------------------------------------------
(* Settings, time and the process *)

Configure(c) ==
  /\ phase = "up" /\ used.edits < MaxEdits
  /\ used' = [used EXCEPT !.edits = @ + 1]
  /\ config' = c
  /\ UNCHANGED <<rows, loops, time, engine, phase>>

\* Time passes, also while the machine sleeps: a row has been running for longer
\* than the watchdog allows, a loop has had no activity for as long as the sweep
\* allows, the sweep's interval is over.
RunsLong ==
  /\ \E t \in Task : /\ rows[t].status = "running" /\ t \notin late
                     /\ late' = late \cup {t}
  /\ UNCHANGED <<stored, quiet, sweepDue, engine, phase, used>>

FallsQuiet ==
  /\ \E l \in Loop : /\ loops[l] = "running" /\ l \notin quiet
                     /\ quiet' = quiet \cup {l}
  /\ UNCHANGED <<stored, late, sweepDue, engine, phase, used>>

SweepInterval ==
  /\ ~sweepDue /\ sweepDue' = TRUE
  /\ UNCHANGED <<stored, late, quiet, engine, phase, used>>

\* shutdownDaemon: the task at work is cancelled, but the tick that executes it
\* goes on until the process exits.
ShutDown ==
  /\ phase = "up" /\ used.stops < MaxStops
  /\ used' = [used EXCEPT !.stops = @ + 1]
  /\ phase' = "stopping"
  /\ rows' = [t \in Task |-> IF t = current THEN [rows[t] EXCEPT !.status = "cancelled"]
                             ELSE rows[t]]
  /\ current' = None
  /\ UNCHANGED <<loops, config, time, ticks, detached>>

\* Nothing in memory survives.
Die ==
  /\ phase' = "down"
  /\ current' = None /\ ticks' = [k \in Tick |-> Idle] /\ detached' = {}
  /\ sweepDue' = TRUE
  /\ UNCHANGED <<loops, config, late, quiet>>

Exit == phase = "stopping" /\ Die /\ UNCHANGED <<rows, used>>

\* A crash, also one that separates the end of a task from that of its loop.
Crash ==
  /\ phase = "up" /\ used.stops < MaxStops
  /\ used' = [used EXCEPT !.stops = @ + 1]
  /\ Die
  /\ \/ UNCHANGED rows
     \/ \E k \in Tick, status \in {"completed", "failed"} :
          /\ ticks[k].pc = "executing"
          /\ status = "failed" => ~ShouldRetry(ticks[k].task, FALSE)
          /\ rows' = [rows EXCEPT ![ticks[k].task].status = status]
     \/ \E k \in Tick : /\ ticks[k].pc = "settling"
                        /\ rows' = [rows EXCEPT ![ticks[k].task].status = "failed"]

Boot == phase = "down" /\ phase' = "up" /\ UNCHANGED <<stored, time, engine, used>>

-----------------------------------------------------------------------------

Tasking ==
  \E t \in Task : \/ \E p \in {0, 1}, l \in Loop \cup {None} : Create(t, p, l)
                  \/ Cancel(t) \/ Settled(t)

Next ==
  \/ Tasking
  \/ \E k \in Tick : Begin(k) \/ Succeed(k) \/ Fail(k) \/ TimeOut(k) \/ Settle(k)
  \/ \E c \in [enabled : BOOLEAN, taskQueue : BOOLEAN] : Configure(c)
  \/ RunsLong \/ FallsQuiet \/ SweepInterval \/ ShutDown \/ Exit \/ Crash \/ Boot

Spec == Init /\ [][Next]_vars

\* The timers of a task fire, time passes, a process that is stopping exits and
\* one that is down is started again.  Nothing is asked of the periodic job.
FairSpec ==
  /\ Spec
  /\ \A k \in Tick : WF_vars(TimeOut(k)) /\ WF_vars(Settle(k))
  /\ WF_vars(RunsLong) /\ WF_vars(FallsQuiet) /\ WF_vars(SweepInterval)
  /\ WF_vars(Exit) /\ WF_vars(Boot)

-----------------------------------------------------------------------------
(* Properties *)

Working(t) == {k \in Tick : ticks[k].task = t}

\* Overlapping ticks, retries, cancelled tasks and time limits notwithstanding, one
\* task is executed at a time, and none a second time while a conversation about
\* it that the daemon has stopped waiting for may still have its effects: "not
\* retried because operation settlement cannot be guaranteed".
NoTaskTwice ==
  /\ \A j, k \in Tick : ticks[j] # Idle /\ ticks[k] # Idle => j = k
  /\ \A t \in detached : Working(t) = {}

\* What became of a task is final once nothing executes it: neither the watchdog,
\* a late retry nor a user who cancels too late changes it, and it is not executed
\* again.
EndIsFinal ==
  [][ \A t \in Task : rows[t].status \in Final /\ Working(t) = {}
        => rows'[t].status = rows[t].status ]_vars

\* The job ticks, as it does when it has a row (see JobRunner).
KeepsTicking == WF_vars(\E k \in Tick : Begin(k))

\* A claim that threw keeps currentTask for the rest of the process, with a row
\* that nothing but a cancellation changes.
Wedged ==
  /\ current # None /\ Working(current) = {}
  /\ rows[current].status \in {"running", "cancelled"}

\* If the job ticks, then while the daemon is on the loops come to an end, and the
\* tasks do too unless a claim that threw has taken the place of all others,
\* whatever else fails, hangs or crashes between the steps of a task.
EverythingEnds ==
  KeepsTicking =>
    <>[]( config.enabled /\ config.taskQueue =>
            /\ \A l \in Loop : loops[l] # "running"
            /\ Wedged \/ \A t \in Task : rows[t].status \in Final \cup {"none"} )
=============================================================================
