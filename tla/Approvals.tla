----------------------------- MODULE Approvals -----------------------------
(***************************************************************************)
(* Asking the user before a high-risk tool call runs: the waiter of        *)
(* lib/approval-gate-hitl.ts, the table of db/approval-store.ts, and the   *)
(* security gate of lib/orchestrator/tool-call-runner.ts that calls it,    *)
(* all under apps/server/src.                                              *)
(*                                                                         *)
(* Turns (invocations of executeConversation) run concurrently, each one   *)
(* tool call at a time.  A step is what runs between two awaits of the     *)
(* event loop.  A waiter whose race is decided continues as a microtask,   *)
(* before anything else.  Only calls that have to ask are modelled.        *)
(*                                                                         *)
(* The sweep compares the wall clock, the timers the monotonic one, and    *)
(* the wall clock may jump: a sweep may take any pending row.              *)
(***************************************************************************)
EXTENDS Naturals

CONSTANTS
  Turn,           \* turns that may run at the same time
  Tool,           \* what hitlKey tells apart
  Client,         \* WebSocket clients
  Rest,           \* the REST route, and a turn without an originating client
  MaxApprovals,   \* bound on the approvals of one behaviour
  MaxTurns        \* bound on the turns begun

ASSUME RestAssumption == Rest \notin Client /\ Tool # {}
ASSUME BoundAssumption == MaxApprovals \in Nat /\ MaxTurns \in Nat

VARIABLES
  rows,     \* the approvals table
  pending,  \* the ids in the map of in-memory waiters
  turn,     \* turn[t]: where the turn is and what it knows
  begun     \* how many turns began, to number them

vars == <<rows, pending, turn, begun>>

Id == 1..MaxApprovals

Decisions == {"allow-once", "allow-session", "deny"}

Closed == {"allowed", "denied", "expired"}

\* `by` is the client that decided.  Turn number `life`, tool and origin are
\* what the caller passed on.
Row == [status : {"none", "pending"} \cup Closed, decision : Decisions \cup {"none"},
        by : Client \cup {Rest}, life : 0..MaxTurns, tool : Tool,
        origin : Client \cup {Rest}]

\* `settled` is what decisionPromise resolved with, `won` what the race did.
TurnState == [pc : {"idle", "notify", "wait", "run", "over"}, life : 0..MaxTurns,
              origin : Client \cup {Rest}, id : Id \cup {0}, tool : Tool,
              allowTurn : SUBSET Tool, aborted : BOOLEAN,
              settled : Decisions \cup {"none", "expired"},
              won : Decisions \cup {"none", "expired", "aborted"}]

TypeOK ==
  /\ rows \in [Id -> Row]
  /\ pending \subseteq Id
  /\ turn \in [Turn -> TurnState]
  /\ begun \in 0..MaxTurns

NoRow(r) == r.status = "none"

Fresh(life, origin) ==
  [pc |-> "idle", life |-> life, origin |-> origin, id |-> 0,
   tool |-> CHOOSE x \in Tool : TRUE, allowTurn |-> {}, aborted |-> FALSE,
   settled |-> "none", won |-> "none"]

Over == [Fresh(0, Rest) EXCEPT !.pc = "over"]

Init ==
  /\ rows = [i \in Id |-> [status |-> "none", decision |-> "none", by |-> Rest,
                           life |-> 0, tool |-> CHOOSE x \in Tool : TRUE,
                           origin |-> Rest]]
  /\ pending = {}
  /\ turn = [t \in Turn |-> Over]
  /\ begun = 0

\* No waiter has a race that is decided: the event loop takes its next task.
Quiet == \A t \in Turn : turn[t].won = "none"

Become(t, s) == turn' = [turn EXCEPT ![t] = s]

\* executeConversation begins, with an empty hitlAllowTurn.  Names of turns are
\* all alike: any that is free will do.
Begin(t) ==
  /\ Quiet /\ turn[t].pc = "over" /\ begun < MaxTurns
  /\ t = CHOOSE u \in Turn : turn[u].pc = "over"
  /\ begun' = begun + 1
  /\ \E origin \in Client \cup {Rest} : Become(t, Fresh(begun', origin))
  /\ UNCHANGED <<rows, pending>>

\* The turn ends, after its last call or because it was aborted between calls.
End(t) ==
  /\ Quiet /\ turn[t].pc = "idle"
  /\ Become(t, Over)
  /\ UNCHANGED <<rows, pending, begun>>

\* The gate of a call whose tool was approved for the turn lets it through.
GateCached(t, tool) ==
  /\ Quiet /\ turn[t].pc = "idle" /\ ~turn[t].aborted
  /\ tool \in turn[t].allowTurn
  /\ Become(t, [turn[t] EXCEPT !.pc = "run", !.tool = tool, !.id = 0])
  /\ UNCHANGED <<rows, pending, begun>>

\* Otherwise it asks.  Row, waiter and timer exist before the first await, the
\* dynamic import of the WebSocket instance.
Request(t, tool, id) ==
  /\ Quiet /\ turn[t].pc = "idle" /\ ~turn[t].aborted
  /\ tool \notin turn[t].allowTurn
  /\ NoRow(rows[id]) /\ \A i \in Id : NoRow(rows[i]) => id <= i
  /\ rows' = [rows EXCEPT ![id] =
       [rows[id] EXCEPT !.status = "pending", !.life = turn[t].life, !.tool = tool,
                        !.origin = turn[t].origin]]
  /\ pending' = pending \cup {id}
  /\ Become(t, [turn[t] EXCEPT !.pc = "notify", !.tool = tool, !.id = id,
                               !.settled = "none"])
  /\ UNCHANGED begun

\* The import is done and the race begins: a decision that came meanwhile wins,
\* then an abort.
Notified(t) ==
  /\ Quiet /\ turn[t].pc = "notify"
  /\ Become(t, [turn[t] EXCEPT !.pc = "wait",
       !.won = CASE turn[t].settled # "none" -> turn[t].settled
                 [] turn[t].settled = "none" /\ turn[t].aborted -> "aborted"
                 [] OTHER -> "none"])
  /\ UNCHANGED <<rows, pending, begun>>

\* decisionPromise of the waiter for id resolves with v; once the race is on,
\* that decides it.
Resolve(id, v) ==
  turn' = [t \in Turn |->
    IF turn[t].id # id \/ turn[t].pc \notin {"notify", "wait"} THEN turn[t]
    ELSE [turn[t] EXCEPT !.settled = v,
                         !.won = IF turn[t].pc = "wait" THEN v ELSE @]]

\* The handle of id is taken out of the map.
Drop(id) == pending' = pending \ {id}

\* expireApprovalById closes a row only while it is pending.
ExpireById(id) ==
  rows' = [rows EXCEPT ![id].status = IF @ = "pending" THEN "expired" ELSE @]

Wins(t, outcomes) == turn[t].pc = "wait" /\ turn[t].won \in outcomes

\* requestNativeApproval returns "aborted", and the gate ends the turn.
ReturnAborted(t) ==
  /\ Wins(t, {"aborted"})
  /\ Drop(turn[t].id)
  /\ ExpireById(turn[t].id)
  /\ Become(t, Over)
  /\ UNCHANGED begun

\* The turn goes on with its next call.
Idle(t) == [turn[t] EXCEPT !.pc = "idle", !.id = 0, !.won = "none", !.settled = "none"]

\* It returns "expired", and the turn goes on without the call.
ReturnExpired(t) ==
  /\ Wins(t, {"expired"})
  /\ ExpireById(turn[t].id)
  /\ Become(t, Idle(t))
  /\ UNCHANGED <<pending, begun>>

\* It returns the user's decision, as far as the row confirms it.
Confirmed(t) ==
  rows[turn[t].id].status = "allowed" /\ turn[t].won \in {"allow-once", "allow-session"}

ReturnDecision(t) ==
  /\ Wins(t, Decisions)
  /\ Become(t, IF ~Confirmed(t) THEN Idle(t) ELSE
       [turn[t] EXCEPT !.pc = "run", !.won = "none", !.settled = "none",
          !.allowTurn = IF turn[t].won = "allow-session" THEN @ \cup {turn[t].tool} ELSE @])
  /\ UNCHANGED <<rows, pending, begun>>

\* The call runs, unless the turn was aborted since the gate let it through.
Run(t) ==
  /\ Quiet /\ turn[t].pc = "run"
  /\ Become(t, IF turn[t].aborted THEN Over ELSE Idle(t))
  /\ UNCHANGED <<rows, pending, begun>>

\* The user stops the turn, or its time is up.
Abort(t) ==
  /\ Quiet /\ turn[t].pc # "over" /\ ~turn[t].aborted
  /\ Become(t, [turn[t] EXCEPT !.aborted = TRUE,
                  !.won = IF turn[t].pc = "wait" THEN "aborted" ELSE @])
  /\ UNCHANGED <<rows, pending, begun>>

\* The timer of a waiter is far longer than the import, so it does not fire
\* before the race is on.
RaceIsOn(id) == \A t \in Turn : turn[t].id = id => turn[t].pc # "notify"

\* (DropHandle forgets to resolve.)
DropHandle(id) ==
  /\ Quiet /\ id \in pending /\ RaceIsOn(id)
  /\ pending' = pending \ {id}
  /\ UNCHANGED <<rows, turn, begun>>

Timeout(id) ==
  /\ Quiet /\ id \in pending /\ RaceIsOn(id)
  /\ Drop(id)
  /\ Resolve(id, "expired")
  /\ UNCHANGED <<rows, begun>>

\* A tab that did not originate a waiting prompt may not answer it.
\* (AnyTab looks only at the row.)
AnyTab(id, client) == FALSE

Mismatch(id, client) ==
  /\ id \in pending
  /\ rows[id].origin # Rest /\ client # Rest
  /\ client # rows[id].origin

\* The status a decision leads to.  (DecisionAsStatus stores the user's words.)
DecisionAsStatus(decision) == decision

StatusOf(decision) == IF decision = "deny" THEN "denied" ELSE "allowed"

\* decideApproval closes a row only while it is pending.
\* (LastDecides is the same without the condition.)
LastDecides(id) == ~NoRow(rows[id])

Open(id) == rows[id].status = "pending"

\* resolveHITLApproval, for a WebSocket client or the REST route; for a closed
\* row that nobody waits for it changes nothing.
Respond(id, decision, client) ==
  /\ Quiet /\ ~Mismatch(id, client) /\ ~NoRow(rows[id])
  /\ id \in pending \/ Open(id)
  /\ Drop(id)
  /\ rows' = IF Open(id)
               THEN [rows EXCEPT ![id] =
                      [rows[id] EXCEPT !.status = StatusOf(decision),
                                       !.decision = decision, !.by = client]]
               ELSE rows
  /\ IF id \in pending
       THEN Resolve(id, IF Open(id) THEN decision ELSE "expired")
       ELSE UNCHANGED turn
  /\ UNCHANGED begun

\* expireStaleApprovals, by the periodic job or the REST route.
Sweep(id) ==
  /\ Quiet /\ rows[id].status = "pending"
  /\ ExpireById(id)
  /\ UNCHANGED <<pending, turn, begun>>

\* The process dies: turns and waiters are gone, rows stay.
Crash ==
  /\ \E t \in Turn : turn[t].pc # "over"
  /\ pending' = {}
  /\ turn' = [t \in Turn |-> Over]
  /\ UNCHANGED <<rows, begun>>

Return(t) == ReturnAborted(t) \/ ReturnExpired(t) \/ ReturnDecision(t)

Next ==
  \/ \E t \in Turn : \/ Begin(t) \/ End(t) \/ Notified(t) \/ Return(t) \/ Run(t) \/ Abort(t)
                     \/ \E tool \in Tool : \/ GateCached(t, tool)
                                           \/ \E id \in Id : Request(t, tool, id)
  \/ \E id \in Id : \/ Timeout(id) \/ Sweep(id)
                    \/ \E d \in Decisions, c \in Client \cup {Rest} : Respond(id, d, c)
  \/ Crash

Spec == Init /\ [][Next]_vars

\* Imports resolve, microtasks run, timers fire, and the sweep is a periodic
\* job.  Nothing is asked of the user.
FairSpec ==
  /\ Spec
  /\ \A t \in Turn : WF_vars(Notified(t)) /\ WF_vars(Return(t))
  /\ \A id \in Id : WF_vars(Timeout(id)) /\ WF_vars(Sweep(id))

-----------------------------------------------------------------------------
\* Approval r was given to turn t, for the tool it is about to run, by a client
\* that may answer its prompts.
Covers(r, t) ==
  /\ r.status = "allowed" /\ r.life = turn[t].life /\ r.tool = turn[t].tool
  /\ r.by \in {Rest, r.origin} \/ r.origin = Rest

Runs(t) == turn[t].pc = "run" /\ turn'[t].pc = "idle"

\* A high-risk call runs only in a turn that was not stopped and only if the user
\* allowed that very call, or the tool for the rest of that very turn; approvals
\* that expired, were denied, belong to an earlier turn or were given by another
\* tab do not count.
RunsOnlyApproved ==
  [][ \A t \in Turn : Runs(t) =>
        /\ ~turn[t].aborted
        /\ IF turn[t].id # 0
             THEN Covers(rows[turn[t].id], t)
             ELSE \E id \in Id : Covers(rows[id], t) /\ rows[id].decision = "allow-session"
    ]_vars

\* Decisions, timeouts, aborts and the sweep race for a row, and the first
\* outcome stands: the record of a decision is never rewritten, and a prompt
\* reported as timed out or aborted is recorded as expired, never as allowed.
FirstOutcomeStands ==
  [][ /\ \A id \in Id : rows[id].status \in Closed => rows'[id] = rows[id]
      /\ \A t \in Turn :
           ReturnExpired(t) \/ ReturnAborted(t) => rows'[turn[t].id].status = "expired"
    ]_vars

\* "The returned promise always settles", and no prompt stays pending for ever,
\* not even one whose process died.  (Finitely many prompts are raised, so that
\* each settles means that in the end none waits.)
PromptsSettle ==
  <>[]( /\ \A t \in Turn : turn[t].pc \notin {"notify", "wait"}
        /\ \A id \in Id : rows[id].status # "pending" )
=============================================================================
