# A TLA+ verification of the Chvor server

Chvor is a personal-assistant server: channels and a web client send it messages, an
orchestrator runs a conversation with a language model and its tools, and around it live
schedules, periodic jobs, a background daemon, stored credentials and approvals of dangerous
tool calls. It is TypeScript on Node: one event loop per process, a SQLite database that
several processes may share, timers, and many awaits. Almost everything that can go wrong
silently goes wrong between two awaits, between two processes, or across a restart. That is
what these modules are about. Paths below are relative to `apps/server/src` in the repository.

## 1. Inventory

| Component | State it keeps | Operations | Interacts with | What is hard | What makes it correct |
|---|---|---|---|---|---|
| **OAuth token refresh** `lib/oauth-token-refresh.ts`, `db/oauth-refresh-lease-store.ts`, the compare-and-swap of `db/credential-store.ts` | credential row and ciphertext, binding status, lease row, `refreshFlights` map | start or join a flight, acquire, wait, renew, redeem, commit, mark, release | token endpoint, other processes through SQLite, user edits | two processes, lost answers, stalls, crashes, rotated refresh tokens | one redeemer at a time; no answer lost by our own doing; a dead grant is reported and a live one is not |
| **Cron scheduler** `lib/scheduler.ts`, `db/schedule-store.ts`, `routes/schedules.ts` | `timers`, `running`, schedule rows | arm, fire, run, record, edit, restart | orchestrator, channels | edits during a run, clamped timers | enabled means armed, runs never overlap, disabled means quiet |
| **Job runner** `lib/job-runner.ts`, `db/job-store.ts` | `timers`, system_jobs rows | start, stop, execute, re-arm, boot | daemon, backup, retention, decay, sweeps | stop and start during an execution, crash, overdue work | a started job keeps executing; the row tells what happened |
| **Approvals** `lib/approval-gate-hitl.ts`, `db/approval-store.ts`, `lib/orchestrator/tool-call-runner.ts`, `routes/approvals.ts` | `pending` map, approvals rows, per-turn cache | ask, decide, time out, abort, sweep | WebSocket clients, REST, orchestrator | five parties race for one row | only approved calls run; first decision stays; every prompt closes |
| **Integration setup flows** `db/integration-setup-store.ts`, `lib/integration-setup-service.ts`, the secret store | flow and step rows with a revision, secret envelopes, bindings | start, submit, confirm, acknowledge, discover, cancel, expire | OAuth routes, credential store, clients | decisions on an old view, expiry racing a step, secrets that outlive the flow | a flow ends once, holds no secret afterwards, and overwrites only what the user was shown |
| **OAuth authorization of a setup** `routes/oauth.ts`, `lib/oauth-engine.ts` | the one-time PKCE envelope, the code being redeemed | initiate, callback, exchange, store | provider, setup flows | callbacks late, twice, overlapping; the same account from two flows | a state is redeemed once, a flow stores tokens once, no account twice unasked |
| **MCP connections** `lib/mcp-manager.ts` | `connections`, `spawning` | get, join or begin a spawn, call with one retry, recycle, close | credential rows, tool loop, server processes | a spawn shared by callers while others close and replace the connection; servers that hang | no server process is left behind; a call carries a secret that was current during it; every call ends |
| **Gateway and sessions** `gateway/*`, `lib/session-reset.ts`, `lib/session-cleanup.ts`, `db/session-store.ts` | chain of promises, abort controllers, cached sessions with `persistedCount`, the tables | handle, abort, store, reset, delete, evict | orchestrator, channels, session routes | resets nobody waits for, stop requests, a cap that trims, a turn that holds an old object | one message at a time and in order; a stopped turn is silent; a reset conversation starts afresh; nothing is lost |
| **Daemon tasks** `lib/daemon-engine.ts`, `lib/daemon-timeout.ts`, `db/daemon-store.ts`, `lib/cognitive-loop.ts` | task rows, `currentTask`, status of loops | claim, complete, retry, time out, cancel, recover, shut down | job runner, orchestrator, cognitive loops | ticks that overlap, conversations that outlive their time limit, crashes between two writes | a task is executed once at a time; what ended stays ended; everything ends |
| **OAuth broker** `lib/oauth-broker-callback.ts`, `lib/oauth-broker-correlation.ts`, `routes/oauth.ts` | the correlation in the flow's envelope | initiate, verify, complete | the broker's API, setup flows | callbacks late, twice, overlapping | a flow is authorized once |
| **Conversation loop** `lib/orchestrator.ts` and `lib/orchestrator/*` | messages, tool bag, checkpoints | round, tool calls, abort | everything above | side effects after an abort | Approvals covers its security gate |
| **Synthesized-tool approval gate** `lib/approval-gate.ts` | waiters, session grants, counters | ask, grant, count | SQLite, WebSocket | rehydration after a restart | grants do not cross sessions |
| Memory blocks, memory and knowledge, trajectories, evaluation, cognitive loops, credentials, PC control, channels, registry, sandbox, tool graph, voice, authentication, backup, migrations, clients | see `PROJECT.json` | | | mostly data, input and output, or single transactions | |

## 2. Modules

| Module | Models | Read it with |
|---|---|---|
| `TokenRegister` | the abstract promise of a refresh: one tuple, one status, one lock | nothing |
| `OAuthRefresh` | the refresh flights of several processes, step by step | `lib/oauth-token-refresh.ts` |
| `OAuthRefreshProofs` | every safety property of `OAuthRefresh`, and that it implements `TokenRegister` | |
| `Scheduler`, `SchedulerProofs` | one cron schedule and its timers, and its safety properties | `lib/scheduler.ts` |
| `JobRunner`, `JobRunnerProofs` | one periodic job, its row, its owner's settings, and its safety properties | `lib/job-runner.ts` |
| `Approvals` | turns, prompts, the table, the sweep | `lib/approval-gate-hitl.ts` |
| `ApprovalsProofs` | every safety property of `Approvals` | |
| `IntegrationSetup` | setup flows, their credentials, the OAuth step and the broker's | `lib/integration-setup-service.ts`, `routes/oauth.ts` |
| `IntegrationSetupProofs` | every property of `IntegrationSetup` | |
| `McpConnections`, `McpConnectionsProofs` | invocations of one tool and the connection they share | `lib/mcp-manager.ts` |
| `SessionQueue` | the abstract promise of a conversation: a queue | nothing |
| `GatewaySessions`, `GatewaySessionsProofs` | one conversation, its turns, session object and tables; that it implements `SessionQueue` | `gateway/gateway.ts`, `gateway/session.ts`, `lib/session-reset.ts` |
| `DaemonTasks`, `DaemonTasksProofs` | the queue of tasks, the ticks that execute them, the loops | `lib/daemon-engine.ts`, `db/daemon-store.ts` |
| `MC*` | the journals and the symmetry sets of the instances TLC checks | the `.cfg` files |

A step of every module is what the code does between two points where somebody else can get
in: two awaits of one event loop, or two SQLite transactions when several processes share
the database. Data is reduced to what the properties tell apart.

### OAuthRefresh
`cred` is the credentials row (`cipher` its ciphertext version, `tuple` the token set in it),
`binding` the authorisation status, `lease` the row of `oauth_refresh_leases`, `obs[p]` how
long process `p` has seen that row unchanged (the code's monotonic observation), `valid` the
refresh tokens the provider would still redeem. `flight[p]` is the local state of
`refreshOAuthTokens` in one process: `pc` names the await it is suspended at, `cipher` and
`tuple` the snapshot it took first, `expect` the ciphertext for the next compare and swap.
Actions follow the function from top to bottom: `Start`, the ensure and poll loop of a
contender, acquisition, the request, renewal, the commit loop, marking, settling. Around them:
the provider answers, denies the grant, refuses the app (`Refused`: `invalid_client` and its like, which
`lib/oauth-engine.ts:62-73` classifies as the app's configuration) or is busy, or the answer is lost; the user edits, reconnects or deletes, the app
credential changes, processes crash, time passes. Time is counted in `Tick`s of the renewal
interval, a third of the lease's TTL. `Timely` says that event loops keep up with their own
timers; the properties that depend on timing name it, the others are checked without it.

`TokenRegister` is what all this promises: a write happens under the lock, by a client whose
claim is the tuple stored, and "reauthentication required" is not lifted by bookkeeping. The
mapping reads the claim off the flight and hides a lease row whose flight is gone.

### Scheduler
`timers` is the map entry, `armed` the timers the runtime really holds; the difference between
the two is where things go wrong. `Fire` is the callback of `armTimer`, `Record` and `Close`
the two halves of `runSchedule`, `Mutate` a route followed by `syncSchedule`, `Restart` a new
process. A timer is exact, early (clamped to the 32-bit limit) or late (the occurrence had
passed, so the code fires at once and leaves no map entry). That the map never holds the handle of a
timer that fired or was cleared (`Handles`) is part of `TypeOK`, because every `clearTimeout` of the
code relies on it.

### JobRunner
The same split between map and runtime, plus the row: `next` is what is left of `next_run_at`.
`Start` is `startPeriodicJob`, `Configure` what `syncDaemon` and `restartBackupScheduler` do,
`Boot` the start-up sequence of `index.ts`, which has no await between the two calls that matter:
most owners start their job after `initJobRunner` (`:810`) has reset the rows, but
`startPeriodicCleanup` (`:770`) starts retention-cleanup before. That job is `early`: if it is overdue it
executes already when the reset puts its row back to idle, and the execution is `hidden` from then
on. (`initScheduler` and `initDaemon` await before they start anything.) `since` counts the Ticks
since the job last ended.

### Approvals
`turn[t]` is an invocation of `executeConversation` at its security gate. `settled` is what the
decision promise resolved with and `won` what the race of decision and abort did; a turn
whose race is decided continues before anything else (`Quiet`). `Respond` is a decision over
WebSocket or REST, `Timeout` the waiter's timer, `Sweep` the periodic closing of stale rows,
`Crash` the loss of all waiters.

### IntegrationSetup
`flow[f]` is the row with its journal: `pos` is the active step, `digest` the ciphertext version
of the credential the user chose (the code's `target_credential_encrypted_data_sha256`), `cands`
the candidates a pause shows. `app` holds the credentials of the integration and whether their
binding blocks their use, `account` the OAuth token credentials with the identity the provider
told; `ver` counts the writes of a ciphertext. An operation of the service is one immediate
transaction: it sweeps (`Store`), compares the revision (`Referenced`), changes the row, and
runs the diagnostics that follow by themselves (`Settled`). If it throws, all of it is undone,
the sweep too, so failures need no action. A transaction may bump the revision several times;
nobody sees that, so the model bumps it once. `envelope[f]` is what `generateAuthUrl` stored,
`exchange[x]` a callback that waits for the token endpoint: `Callback` consumes, `Tokens*`,
`ExchangeFails` and `ExchangeReduced` are the ways it comes back. `seen[f]` is what a client
last read. The history variables `spent` and `granted` only serve the properties.

A brokered step keeps its correlation in the same envelope; `Brokered` tells the two kinds of
attempt apart. `BrokerCallback` and `BrokerConfirms` are the two halves of `processBrokerCallback`:
the account is verified remotely before anything is written, so callbacks may overlap there, and
the claim of the correlation and the completion of the step are one transaction. It stores no
tokens of its own. `ConnectElsewhere` is everything else that
connects an account: another flow, the settings page, the legacy route.

### McpConnections
One tool's entry of `connections` (`cached`) and of `spawning`, `conns` the connections ever
opened (a server process each), `calls[k]` an invocation of `callTool`, and the credential as a
version that edits replace. `GetConnection` uses the entry, joins the spawn in flight or begins
one; `Resume`, `Send`, `Fail`, `Closed` and `Ensure` are what the invocation does after each await,
the second attempt included; the server answers, breaks or hangs. Connections nobody refers to
any more are forgotten, so that their names can be used again.

### GatewaySessions and SessionQueue
One conversation. `pc[m]` is the await at which the turn of message `m` is suspended, `prev` and
`lock` the chain of promises in `sessionLocks`, `objs` the session objects and `holds[m]` the one
in the turn's variable, `cache` the entry of the cache, `db` the session's row and its messages.
Each entry carries its message, role and time stamp, as the table orders by time stamps.
`Execute` is the middle of `processMessage`; `Answered`, `Synthesize`, `Aborted` are the ways the
orchestrator comes back; `EndReset` a reset nobody waits for; `Evict` what other conversations do to
the 50 places of the cache. `SessionQueue` says what follows for the conversation: messages are
taken up one at a time, in the order in which they came. The mapping takes the chain away.

### DaemonTasks
`rows` are the tasks, `ticks[k]` the runs of the job that are executing one, `current` the
process-wide `currentTask`, `detached` the conversations the daemon has given up waiting for after
their time limit. Time is only what has become of it: a row that has run for too long (`late`), a
loop without activity (`quiet`), a sweep that is due. `JobRunner` shows that two runs of the job can
overlap when settings are saved during one; that is why there is more than one tick here. What a
claim tells about its task before the `try` (`lib/daemon-engine.ts:334-346`) may throw: then the tick
is over and `current` stays set. So may the events of the loop in the catch block, which leave the
loop as it was.

## 3. Runs

| Run | Question | Bounds |
|---|---|---|
| `oauth_lease` | Is a live holder's lease its own and a dead one's given up in time, is no rotated token lost, is `TokenRegister` implemented and the status truthful? | 2 processes, 2 flights, 3 tuples, 1 edit, 1 app edit (of an app the provider may refuse), 1 crash, 1 expiry, TTL 3, wait 6, event loops that keep their timers |
| `oauth_returns` | Does every flight return? | a crash, two lost answers, a revoked grant, a refused app, time limits of 1 and no assumption about timers |
| `oauth_replay` (violation) | Does a contender never redeem a replaced token? | 2 flights, one expiry |
| `sched_runs` | No overlap, enabled is armed, runs start only when they are wanted until an edit falls into a run, disabled comes to rest | 4 timers: two chains that re-arm plus the handles in use |
| `sched_disabling` (violation) | Is disabling enough to stop a schedule? | 3 timers |
| `job_runs` | Overlap, row, overdue work, perpetual execution | a job of each place in the start-up sequence, 4 timers, 2 saves, 2 crashes, intervals 1 to 3 around a seed of 2 |
| `job_unseeded` (violation) | Is a started job armed when no migration wrote its row? | as above |
| `approvals` | Only approved calls run, the first outcome stays and is reported, every waiter settles, every prompt closes | 2 turns, at once or one after the other, 2 tabs, 2 tools, 2 prompts |
| `setup` | Does a flow end once, get authorized once, keep no secret, overwrite only what was shown, and connect nobody twice unasked? | a journal with a step of every kind and one with the broker's, 2 authorizations, 2 callbacks at once, 2 credentials, 2 accounts, 1 known identity, 1 edit, deletion or connection by others |
| `mcp` | Is no server left behind, does a call carry a current secret, does every call end? | 2 invocations, 4 names for connections, 1 edit of the credential |
| `sessions` | Is the conversation a queue, is a stopped turn silent, does a reset start afresh, is nothing lost, is every message dealt with? | 3 messages, a cap of 3 entries, a reset at 3 entries, 1 manual reset, 1 deletion, 1 restart |
| `daemon` | Is a task executed once at a time, does its end stand, does everything end if the job ticks? | 2 tasks, 1 loop, 2 ticks, 1 retry, 1 edit, 1 stop or crash |

The properties, by module (`TypeOK` is each module's type invariant):
`OAuthRefresh` `LeaseEndsWithHolder`, `NeverStranded`, `ImplementsRegister`, `RepairNeedsNewTokens`,
`NoFalseTerminal`, `FlightReturns`, and `NeverRedeemsReplaced`, which the code violates;
`Scheduler` `OneRunAtATime`, `EnabledIsArmed`, `StartsAreWanted`, `DisabledComesToRest`, and
`DisablingStopsIt`, violated; `JobRunner` `OneExecution`, `OverdueRunsAtBoot`, `KeepsExecuting`, and
`StartedIsArmed`, violated; `Approvals` `RunsOnlyApproved`, `FirstOutcomeStands`, `PromptsSettle`;
`IntegrationSetup` `OneGrant`, `SecretsAreSpent`, `TwinsAreApproved`, `EndIsFinal`, `NoLostWrite`;
`McpConnections` `OpenIffCached`, `SendsCurrentSecret`, `InvocationsEnd`; `GatewaySessions`
`StopMeansSilence`, `FreshAfterReset`, `NothingLost`, `ImplementsQueue`, `MessagesEnd`;
`DaemonTasks` `NoTaskTwice`, `EndIsFinal`, `EverythingEnds`.

Why the bounds are enough: the refresh protocol compares only with the stored tuple and
ciphertext, so a third process behaves as the second at another moment, and three tuples
separate "mine", "the one that replaced it" and "a later one". The scheduler's and the job
runner's hazards need two timers at once, and the fourth handle lets an execution and a
new timer coexist with both. Two prompts, two tabs and two tools are what a mix-up needs.
A setup's hazards are two authorizations of one flow and one meddling step of others between a
check and its use. Flows meet only in accounts and credentials, so a second flow is to the first
what `ConnectElsewhere` and `Edit` are; the theorems are about any number of flows. Two
invocations are a caller that closes a connection and one that shares it, and four names are two
for each of them, one for each attempt. Three messages are one that executes, one that waits and
one that arrives behind it; with a cap of three entries the second answer already trims. One task
executes while the other is queued, and two ticks are what an overlap needs. Symmetry is used only in
runs without liveness.
What the runs show for these sizes, section 5 proves for every size where it can.

Fairness: a ready event loop runs (`WF` of the steps), clocks advance (`WF` of `Tick`), a
request to the token endpoint ends. The usual path gives `fetch` an abort timeout
(`lib/oauth-engine.ts:836`); the pinned path has only the socket's idle timeout
(`lib/synthesized/network.ts:109`), which a provider that trickles its answer can stretch far beyond
the limit, up to the size at which the code cuts the answer off (`:112-122`). `FlightReturns` needs only
that the request ends at some time. Executions settle
(the orchestrator bounds its rounds and its calls), a crashed server is started again in
`JobRunner`, and the sweep runs because it is a periodic job. In `McpConnections` a server
may hang for ever, but spawning and calling have time limits (`SpawnFails`, `Fail`). In
`GatewaySessions` speech, the model, the channel and the extraction answer or fail, as they have
time limits of their own; nobody stops, resets or evicts by fairness. In `DaemonTasks` the time limit of a
conversation and its grace period pass, rows and loops grow old, and a stopped process is started
again; that a conversation answers is not assumed. That the job ticks is not assumed of the code
either, as `job_unseeded` shows that it does not in a database which the migrations built: it is the
hypothesis `KeepsTicking` of `EverythingEnds`, met by a database that has the row, for which
`JobRunner` shows `KeepsExecuting`. Nothing
is asked of the user or of the provider.

## 4. Where the code does something else than it says

* **`oauth_replay`** A contender that waits for the lease counts other tokens in the row as the
  holder's result only while the binding is `active`. If the holder stored rotated tokens with
  reduced scopes, the binding needs reauthentication: the wait finds nothing to use, the
  contender gets the lease and redeems the refresh token of its own, older snapshot, which
  the provider has replaced. `docs/integration-setup.md:115` says that contenders wait and use
  "the rotated ciphertext instead of redeeming the same refresh token again".
* **`sched_disabling`** A recurring schedule is edited while it executes, so `syncSchedule` arms a
  timer; the end of the run arms another and overwrites the map entry without clearing (`:122`). The user
  then disables the schedule, which clears the timer of the map; the other one fires, and `runSchedule`
  never looks at `enabled`. The property leaves one-shot schedules out, because the code disables
  those itself; an edit during the run of one arms a timer that the auto-disable (`:267-270`) forgets
  without clearing, so it runs twice.
  `StartsAreWanted` is therefore conditioned on `~meddled`: no edit fell into a run of this
  process. `OneRunAtATime`, `EnabledIsArmed` and `DisabledComesToRest` are not.
* **`job_unseeded`** No migration inserts a row for `daemon-tick`, so `startPeriodicJob` returns
  at once ("unknown job") and the daemon never ticks although it logs that it is armed.

Consequences of the same kind that have no run of their own: `lib/job-runner.ts:19` asks that
`initJobRunner` be called "before starting any jobs", and `index.ts:770` starts retention-cleanup before
it, so an overdue cleanup executes under a row that says idle (`OneExecution` names this exception and
no other); a job that is stopped, or
stopped and started, while it executes is re-armed by the end of the execution (so `OneExecution`
carries `~meddled`), and a boot compares `next_run_at` before moving it, so a job whose configured interval differs from the seeded one
can find itself overdue or not overdue by the old interval (`OverdueRunsAtBoot` carries that
condition).

What else a reader of the models will notice, all of it behaviour the modules have and no
property contradicts, because nothing in the repository promises otherwise:

* A provider that refuses the app (`invalid_client`) condemns a credential whose refresh token is still
  good, as `lib/__tests__/oauth-token-refresh.test.ts:375` wants it ("durably marks invalid_client for
  repair"). `NoFalseTerminal` therefore asks for a cause that stands: the stored token is dead, or the
  stored app is refused. Repairing the app afterwards does not lift the status by itself. A denial of
  the grant (`invalid_grant`, but also `consent_required` and its like) means in the model that the
  provider redeems the token no more.
* A claim that throws before its `try` (`lib/daemon-engine.ts:334-346`) keeps `currentTask` until the
  process ends: no later tick claims a task, the watchdog skips the row, and only the loops still come
  to an end, by the sweep. `EverythingEnds` has this case as `Wedged`.
* A refresh that is forced after a 401 joins a flight that is not forced and takes its result
  (`lib/oauth-token-refresh.ts:723`).
* A refusal that arrives late fails the setup flow whichever step and authorization are current
  by then (`routes/oauth.ts:762`): `failDurableOAuthFlow` looks only at whether the flow has ended.
* The comments of `lib/mcp-manager.ts:485` and `:513-515` say a closed connection is spawned again
  on its next use; `callTool` (`:352-353`) throws when there is no entry, and only
  `discoverTools`, at the start of a turn, spawns again (`Use` and `Discover`).
* A tool call that timed out is sent a second time whatever it did (`lib/mcp-manager.ts:366`).
* `getRecentMessages` returns the OLDEST rows of a session, while `gateway/session.ts:24-25` speaks of
  recent ones: a long conversation that was evicted continues from its beginning. Rows that were
  stored out of order come back in the order of their time stamps.
* The manual and the daily reset clear the table but not the cached object, so the conversation
  goes on with what it had; deleting a session that is cached leaves later messages without a row
  of their session. `FreshAfterReset` speaks of the resets a turn waits for.
* A stop request that comes before the controller is installed, or while speech is synthesized, is
  not acknowledged and changes nothing (`gateway/gateway.ts:177`).
* Retention may delete a session that became active while it was being archived.
* A task that its user cancels while it executes is completed or queued again all the same, and
  the "cancelled" of a shutdown is overwritten by the catch of its tick; `EndIsFinal` speaks of tasks
  that nothing executes. If the bookkeeping after a completion throws, the completed task is queued
  again; a loop is completed with its first task although a second one is queued.
* The waiter's timer (`lib/approval-gate-hitl.ts:114`) is assumed not to fire before the dynamic
  import at `:170` has resolved (`RaceIsOn`); if it did, the turn would wait for its abort.

## 5. Proofs

Checked by TLAPS for every value of the constants that satisfies the modules' assumptions.

* **`SchedulerProofs`** `TypeCorrect`, `RunsNeverOverlap` (`OneRunAtATime`), `EnabledStaysArmed`
  (`EnabledIsArmed`) and `OnlyWantedStarts` (`StartsAreWanted`). `OneRunAtATime` alone is not
  inductive: the set `running` could disagree with the runs in progress. The invariant adds
  that the flag is set exactly while a run exists, and typing, because a handle may be
  reused only if no pending timer and no run has it. That starts are wanted is a matter of the
  timers: until an edit falls into a run there is no timer during a run and at most one otherwise,
  and it is the one of the map, which an edit clears (`Tidy`). The handle in the map is always that
  of a pending timer (part of `TypeOK`).
* **`JobRunnerProofs`** `TypeCorrect`, `ExecutesOnce` (`OneExecution`), `OverdueJobsRun`
  (`OverdueRunsAtBoot`) and `StartedJobsAreArmed` (`StartedIsArmed`). The invariant is the
  scheduler's (`Tidy`), with the row: "running" is an execution that no reset has hidden, or one that a
  crash cut off (`Truthful`). It covers both places a job may have in the start-up sequence. That an
  overdue job is found overdue needs the ages: the row's next run is never further away than
  what is left of an interval since the last end (`OnSchedule`). The last two theorems assume
  `Seeded`, that a migration inserted the job's row, as `db/migrations.ts` does for every job but
  `daemon-tick`. For that one `job_unseeded` refutes `StartedIsArmed`, and the theorem says that
  the missing row is the only cause.
* **`OAuthRefreshProofs`** `TypeCorrect`, `ReauthIsSticky` (`RepairNeedsNewTokens`),
  `CondemnedForCause` (`NoFalseTerminal`), `RefreshImplementsRegister`
  (`ImplementsRegister`), `LeaseIsKept` (`LeaseEndsWithHolder`) and `CredentialNotStranded`
  (`NeverStranded`), by three arguments.
  * The first four do not mention the lease's age, so they also cover a lease that was lost and
    event loops that stall. A ciphertext changes with every write, so a flight whose
    snapshot has the row's ciphertext has its tokens too; the provider never issues a tuple
    twice, so a reply's fresh tuple is newer than what was redeemed, a rejected tuple stays dead,
    and a refusal concerns the app the flight asked with, which has to be the stored one when the
    status is written. `IInv` says this of every flight (`AllSound`), with the types, the row's tuple at most
    `minted`, and its ciphertext above zero (zero is a flight that has read nothing). For the
    refinement the initial states map to initial states and each of the refresh's steps is a
    step or a stutter of `TokenRegister` under the mapping.
  * `LeaseInv` is about event loops that keep up (`Timely`): while a flight works and the
    credential exists, the row is its own and nobody has seen its present version for longer than one
    Tick, or for no time at all until a Tick has passed since the version was written (`Holds`,
    `Age`). A contender takes over what it has watched for a TTL, so the theorem
    assumes `TTL > 1`: the TTL is more than one renewal interval. The code takes three
    (`REFRESH_LEASE_RENEW_MS` is a third of `OAUTH_REFRESH_LEASE_TTL_MS`). With a TTL of one interval a
    contender could take the lease in the moment the heartbeat is due. `Patient` bounds how
    long a contender has waited by what it saw when.
  * `Kept` adds, as long as all is calm (the hypotheses of `NeverStranded`): a flight that has the
    row's tokens has retried once per edit at most, so it cannot exhaust its retries; the app
    credential is the one it asked with; and a flight that is about to fail either has no new tokens
    or its old ones are no longer the row's (`Fit`). With `LeaseInv` only one flight can redeem,
    so nobody else invalidates what it carries.
* **`ApprovalsProofs`** `TypeCorrect`, `CallsAreApproved` (`RunsOnlyApproved`) and `OutcomesStand`
  (`FirstOutcomeStands`). What is true when a call runs was decided several steps earlier, by
  others, so the invariant says of every place of a turn what it knows of its row (`Fits`): while it
  waits without an outcome its handle is in the map; a decision to allow is the row's own, stored
  by a client that may answer; a timeout or an abort left the row undecided. Three facts carry it
  from step to step: no two turns wait for one row, the rows of handles are undecided, and
  nothing comes between a race that is decided and its return.
* **`IntegrationSetupProofs`** all six properties, for every journal with at most one OAuth step.
  The invariant adds to the types that a flow under way has a step to do, that every envelope is
  of its flow and no two share a state, and that a flow which was authorized has its OAuth step
  behind it. Every operation of the service is reduced to one shape (`StepOK`): what it may do to
  any flow, to the secrets, and to the right to authorize. That diagnostics which run by themselves
  stop within the journal needs the least-number principle, taken from the library's
  well-foundedness of the naturals. `TwinsAreApproved` is kept by what a step may do to the
  accounts; `NoLostWrite` needs that every row a submission stores has a revision of its own.
* **`McpConnectionsProofs`** `TypeCorrect`, `NoneLeftBehind` (`OpenIffCached`) and
  `OnlyCurrentSecrets` (`SendsCurrentSecret`). A spawn is begun only where there is no entry and no
  other spawn, so an open connection without an entry could come only from a close that misses
  the entry or an entry that is overwritten; names in use are never given again, so what an
  invocation remembers of its connection stays true.
* **`GatewaySessionsProofs`** `TypeCorrect`, `GatewayImplementsQueue` (`ImplementsQueue`),
  `StoppedTurnsAreSilent` (`StopMeansSilence`), `ResetsStartAfresh` (`FreshAfterReset`) and
  `NothingIsLost` (`NothingLost`), by two invariants. Of the chain: a message waits for the promise
  of one message only. That its turn comes after all earlier ones follows from the shape of the chain: it
  waits for the message directly before it, or for none because nothing was left to wait for
  (`Chained`, `Last`), and nobody is past a message that is not (`Behind`). Of the data (`DInv`): the
  cached object and the tables agree. Every object is trimmed and its count is its length; no two rows
  have one time stamp; what is newer than the last clearing is stored, also when it is trimmed or its
  object is evicted and restored; what a turn can come upon is of the current conversation; and the
  answers in the tables are of turns that stored them.
* **`DaemonTasksProofs`** `TypeCorrect`, `NoTaskIsDoubled` (`NoTaskTwice`) and `EndsStand`
  (`EndIsFinal`). The invariant relates `currentTask` to the ticks: while the process is up, a tick
  executes only the current task, and if none does, a claim threw and the row is running or cancelled,
  which is all that a shutdown makes of it too; a shutdown clears `currentTask` under a tick that goes
  on, but begins no other, and no tick survives the process. A conversation that was given up belongs to a task that
  failed for good.

Every safety property that a passing run checks is stated by a theorem. Only model-checked is what
needs fairness (`FlightReturns`, `DisabledComesToRest`, `KeepsExecuting`, `PromptsSettle`,
`InvocationsEnd`, `MessagesEnd`, `EverythingEnds`): liveness and ENABLED are beyond the prover, so
these seven are shown for the bounds of section 3 only.
The bounds of the modules (`MaxEdits`, `MaxCrashes` and their like) are constants of the theorems too,
so what is proved holds for any number of edits, crashes and retries.

## 6. Not modelled, and the plan

`PROJECT.json` gives the reason for each component left out. The share of the repository that the
modules cover is small because most of the repository is not control: the web client, type
declarations and manifests, adapters around services, prompts, ranking, rendering. What has
state that several parties change, and a way to get it wrong between two steps, is modelled.

What is left of the plan:

1. The gate of synthesized tools (`lib/approval-gate.ts`): waiters without a table, grants per
   session, and the counter of denials that `:378` resets.
2. The gaps named in the notes of the hazards: a one-shot schedule that outlives its process, the
   repeated tool call, what a turn stores while a reset reads, the oldest rows, and a cancelled
   task that goes on.

Left out of `IntegrationSetup`: the broker's own state, and a brokered step whose key is not the
flow's credential; providers synthesized by the user; flows without a journal; a manifest that
changes during a setup; repeated starts with one idempotency key; and diagnostics that do not read
the credential. Left out of `GatewaySessions`: titles, summaries, media and a storage error in the
middle of a turn. Left out of `DaemonTasks`: pruning, idle consolidation, the limit on
escalations, and a failing write of the task's own row or of the sweep. Left out of `McpConnections`: looking tool names up, and the shutdown of the process.

Abstracted everywhere: wording, formatting, logging, broadcasts to clients, the text of prompts
and results, and the contents of rows that no decision depends on.
