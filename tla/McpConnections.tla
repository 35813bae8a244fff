--------------------------- MODULE McpConnections ---------------------------
(***************************************************************************)
(* The connections to the MCP server of ONE tool: a map entry that is      *)
(* shared by every call, spawned lazily and once, re-checked against the   *)
(* stored credential before each dispatch, recycled when the credential    *)
(* changed and replaced once when a call fails.                            *)
(*                                                                         *)
(* Source: class McpManager of apps/server/src/lib/mcp-manager.ts.  Tools  *)
(* have entries of their own in both maps and do not interact.  The tool   *)
(* needs one credential; a tool that needs several checks each the same    *)
(* way and fails, or recycles, when any of them asks for it.               *)
(*                                                                         *)
(* A step is what the code does between two awaits; where two awaits are   *)
(* only a promise reaction apart the model lets others in as well, which   *)
(* allows more than the event loop does.                                   *)
(***************************************************************************)
EXTENDS Naturals, FiniteSets

CONSTANTS
  Call,      \* invocations of callTool, discoverTools or getConnectionStatus
  Conn,      \* names for connections, reused once nobody holds them
  None,      \* no connection
  MaxEdits   \* bound on changes of the credential in one behaviour

ASSUME CallAssumption == IsFiniteSet(Call) /\ None \notin Conn /\ Conn # {}
ASSUME EditsAssumption == MaxEdits \in Nat

VARIABLES
  cred,      \* the credential: its ciphertext version, and whether it may be used
  edits,     \* changes of the credential so far
  conns,     \* what became of each connection
  cached,    \* the tool's entry in `connections`
  spawning,  \* the tool's entry in `spawning`
  calls      \* the invocations

vars == <<cred, edits, conns, cached, spawning, calls>>

-----------------------------------------------------------------------------
(* Data *)

\* A connection still in spawnConnection, then open, then closed; or a spawn
\* that threw.
States == {"starting", "open", "closed", "failed"}

\* version is the ciphertext its secrets were decrypted from.
Connection == [state : States, version : Nat]

Kinds == {"call", "discover", "probe"}

PCs == {"idle", "awaiting", "ensure", "closing", "send", "sent"}

\* first: the call to the server has not failed yet; attempt counts the loop of
\* ensureCredentialsCurrent; regets tells a close that is followed by
\* getConnection from one that is followed by a throw; seen collects the usable
\* versions the credential has had since the invocation began, until it is
\* aborted.
Invocation == [kind : Kinds, pc : PCs, conn : Conn \cup {None}, owner : BOOLEAN,
               first : BOOLEAN, attempt : {0, 1}, regets : BOOLEAN,
               aborted : BOOLEAN, seen : SUBSET Nat]

Quiet == [kind |-> "call", pc |-> "idle", conn |-> None, owner |-> FALSE,
          first |-> TRUE, attempt |-> 0, regets |-> FALSE,
          aborted |-> FALSE, seen |-> {}]

\* Any member: names of connections are all alike.
Some(names) == CHOOSE c \in names : TRUE

Gone == [state |-> "closed", version |-> 0]

TypeOK ==
  /\ cred \in [version : Nat, usable : BOOLEAN]
  /\ edits \in 0..MaxEdits
  /\ conns \in [Conn -> Connection]
  /\ cached \in Conn \cup {None}
  /\ spawning \in Conn \cup {None}
  /\ calls \in [Call -> Invocation]

\* The server has just started, or has used the tool before the credential was
\* last saved.
Init ==
  /\ cred = [version |-> 2, usable |-> TRUE]
  /\ edits = 0
  /\ \/ cached = None /\ conns = [c \in Conn |-> Gone]
     \/ /\ cached = Some(Conn)
        /\ conns = [[c \in Conn |-> Gone] EXCEPT ![Some(Conn)] =
                      [state |-> "open", version |-> 1]]
  /\ spawning = None
  /\ calls = [k \in Call |-> Quiet]

-----------------------------------------------------------------------------
(* Small steps *)

Usable == IF cred.usable THEN {cred.version} ELSE {}

Become(k, i) == calls' = [calls EXCEPT ![k] = i]

\* The invocation returns or throws.
Return(k) == Become(k, Quiet)

\* Somebody can still reach c.
Held(c) == c = cached \/ c = spawning \/ \E k \in Call : calls[k].conn = c

\* Connections that are over are forgotten with the last reference to them; f is
\* conns after the step.
Remember(f) ==
  conns' = [c \in Conn |->
              IF f[c].state \in {"closed", "failed"} /\ ~Held(c)' THEN Gone ELSE f[c]]

\* spawnConnection up to its first await: the secrets are resolved, or it throws
\* because the credential is blocked or gone.
Spawned ==
  [state   |-> IF cred.usable THEN "starting" ELSE "failed",
   version |-> IF cred.usable THEN cred.version ELSE 0]

\* The names nobody uses.
Free == {c \in Conn : conns[c] = Gone /\ ~Held(c)}

\* getConnection up to its first await: the entry, the spawn under way, or a
\* spawn of one's own, for the invocation i.
GetConnection(k, i) ==
  \/ /\ cached # None
     /\ Become(k, [i EXCEPT !.pc = "ensure", !.conn = cached])
     /\ UNCHANGED spawning
     /\ Remember(conns)
  \/ /\ cached = None /\ spawning # None
     /\ Become(k, [i EXCEPT !.pc = "awaiting", !.conn = spawning])
     /\ UNCHANGED spawning
     /\ Remember(conns)
  \/ /\ cached = None /\ spawning = None
     /\ Free # {}
     /\ spawning' = Some(Free)
     /\ Become(k, [i EXCEPT !.pc = "awaiting", !.conn = Some(Free), !.owner = TRUE])
     /\ Remember([conns EXCEPT ![Some(Free)] = Spawned])

\* closeConnectionRecord up to its first await: the entry goes if it is this
\* very instance, and the server process is ended.
NoEntry(c) == None
WithoutEntry(c) == IF cached = c THEN None ELSE cached

Ended(c, state) == [conns EXCEPT ![c].state = state]

-----------------------------------------------------------------------------
(* The spawn under way *)

\* The credential the secrets came from is still the stored one.
Unblocked(c) == cred.usable
StillCurrent(c) == cred.usable /\ conns[c].version = cred.version

\* The server has connected and listed its tools: the connection is entered in
\* the map, or closed because the credential changed meanwhile.
Established ==
  /\ spawning # None /\ conns[spawning].state = "starting"
  /\ IF StillCurrent(spawning)
       THEN conns' = [conns EXCEPT ![spawning].state = "open"] /\ cached' = spawning
       ELSE conns' = Ended(spawning, "failed") /\ UNCHANGED cached
  /\ UNCHANGED <<cred, edits, spawning, calls>>

\* Connecting or listing fails, each at the latest by its time limit; the
\* process is ended.
Hangs == FALSE /\ UNCHANGED vars
SpawnFails ==
  /\ spawning # None /\ conns[spawning].state = "starting"
  /\ conns' = Ended(spawning, "failed")
  /\ UNCHANGED <<cred, edits, cached, spawning, calls>>

-----------------------------------------------------------------------------
(* Invocations *)

Begin(k, kind) == [Quiet EXCEPT !.kind = kind, !.seen = Usable]

\* callTool, or one round of getConnectionStatus: both start from the entry and
\* do nothing without one.
Use(k, kind) ==
  /\ calls[k].pc = "idle" /\ kind # "discover"
  /\ cached # None
  /\ Become(k, [Begin(k, kind) EXCEPT !.pc = "ensure", !.conn = cached])
  /\ UNCHANGED <<cred, edits, conns, cached, spawning>>

\* discoverTools, at the start of every turn.
Discover(k) ==
  /\ calls[k].pc = "idle"
  /\ cached = None
  /\ UNCHANGED <<cred, edits, cached>>
  /\ GetConnection(k, Begin(k, "discover"))

\* The spawn the invocation awaits has settled; the one that started it clears
\* the entry in `spawning`.  discoverTools has what it wants.
Resume(k) ==
  LET i == calls[k] IN
  /\ i.pc = "awaiting" /\ conns[i.conn].state # "starting"
  /\ spawning' = IF i.owner THEN None ELSE spawning
  /\ IF conns[i.conn].state = "failed" \/ i.kind = "discover"
       THEN Return(k)
       ELSE Become(k, [i EXCEPT !.pc = "ensure", !.owner = FALSE])
  /\ UNCHANGED <<cred, edits, cached>>
  /\ Remember(conns)

\* A second change of the credential under ensureCredentialsCurrent is too many.
RecycleAlways(i) == cred.usable
MayRecycle(i) == cred.usable /\ i.attempt = 0

\* One round of ensureCredentialsCurrent.
Ensure(k) ==
  LET i == calls[k] IN
  /\ i.pc = "ensure"
  /\ IF StillCurrent(i.conn)
       THEN /\ Become(k, [i EXCEPT !.pc = "send", !.attempt = 0])
            /\ UNCHANGED <<conns, cached>>
       ELSE /\ cached' = WithoutEntry(i.conn)
            /\ conns' = Ended(i.conn, "closed")
            /\ Become(k, [i EXCEPT !.pc = "closing", !.regets = MayRecycle(i),
                                   !.attempt = IF MayRecycle(i) THEN @ + 1 ELSE @])
  /\ UNCHANGED <<cred, edits, spawning>>

\* The close has been awaited.
Closed(k) ==
  LET i == calls[k] IN
  /\ i.pc = "closing"
  /\ UNCHANGED <<cred, edits, cached>>
  /\ IF i.regets
       THEN GetConnection(k, [i EXCEPT !.regets = FALSE])
       ELSE Return(k) /\ UNCHANGED spawning /\ Remember(conns)

\* The request goes out, also on a connection that somebody else has closed; the
\* SDK refuses one whose signal is aborted.
Send(k) ==
  LET i == calls[k] IN
  /\ i.pc = "send"
  /\ IF i.aborted THEN Return(k) ELSE Become(k, [i EXCEPT !.pc = "sent"])
  /\ UNCHANGED <<cred, edits, cached, spawning>>
  /\ Remember(conns)

\* The server answers.
Answer(k) ==
  LET i == calls[k] IN
  /\ i.pc = "sent" /\ conns[i.conn].state = "open"
  /\ Return(k)
  /\ UNCHANGED <<cred, edits, cached, spawning>>
  /\ Remember(conns)

\* The first failure of a call that is still wanted: close, reconnect and ask
\* for the credential again.
Retries(i) == i.kind = "call" /\ i.first /\ ~i.aborted

\* The request fails: an error reply, a connection that was closed or whose
\* process died, the time limit, or the abort of its signal.
Fail(k) ==
  LET i == calls[k] IN
  /\ i.pc = "sent"
  /\ IF Retries(i)
       THEN /\ Become(k, [i EXCEPT !.pc = "closing", !.first = FALSE, !.regets = TRUE])
            /\ cached' = WithoutEntry(i.conn)
            /\ conns' = Ended(i.conn, "closed")
            /\ UNCHANGED spawning
       ELSE Return(k) /\ UNCHANGED <<cached, spawning>> /\ Remember(conns)
  /\ UNCHANGED <<cred, edits>>

-----------------------------------------------------------------------------
(* What happens around them *)

\* The user stops the turn the call belongs to.
Abort(k) ==
  /\ calls[k].pc # "idle" /\ calls[k].kind = "call" /\ ~calls[k].aborted
  /\ Become(k, [calls[k] EXCEPT !.aborted = TRUE, !.seen = {}])
  /\ UNCHANGED <<cred, edits, conns, cached, spawning>>

\* The credential is saved or refreshed, which changes its ciphertext, or it is
\* blocked, or lifted from its block.
EditCredential ==
  /\ edits < MaxEdits /\ edits' = edits + 1
  /\ \/ cred' = [version |-> cred.version + 1, usable |-> TRUE]
     \/ cred' = [cred EXCEPT !.usable = ~@]
  /\ calls' = [k \in Call |->
                 IF calls[k].pc = "idle" \/ calls[k].aborted \/ ~cred'.usable THEN calls[k]
                 ELSE [calls[k] EXCEPT !.seen = @ \cup {cred'.version}]]
  /\ UNCHANGED <<conns, cached, spawning>>

\* closeConnection: the repair tool, and closeConnectionsForCredential after a
\* credential has been saved.
CloseConnection ==
  /\ cached # None
  /\ cached' = None
  /\ UNCHANGED <<cred, edits, spawning, calls>>
  /\ Remember(Ended(cached, "closed"))

Step(k) == Resume(k) \/ Ensure(k) \/ Closed(k) \/ Send(k) \/ Answer(k) \/ Fail(k)

Next ==
  \/ \E k \in Call : \/ \E kind \in {"call", "probe"} : Use(k, kind)
                     \/ Discover(k) \/ Step(k) \/ Abort(k)
  \/ Established \/ SpawnFails
  \/ EditCredential \/ CloseConnection

Spec == Init /\ [][Next]_vars

\* The event loop runs what is ready, and the timers of withTimeout fire.
\* Nothing is asked of the servers.
Fairness ==
  /\ \A k \in Call :
       /\ WF_vars(Resume(k) \/ Ensure(k) \/ Closed(k) \/ Send(k))
       /\ WF_vars(Fail(k))
  /\ WF_vars(SpawnFails)

FairSpec == Spec /\ Fairness

-----------------------------------------------------------------------------
(* Safety *)

\* A connection whose spawn is over is open exactly when it is the entry of the
\* map: no server process is left behind by callers that share, close and
\* replace connections, and no caller finds a closed one in the map.
OpenIffCached == \A c \in Conn : conns[c].state = "open" <=> cached = c

\* A request goes out only with secrets that were the stored, usable ones at
\* some time since its invocation began, also when it joined another caller's
\* spawn and when it is sent a second time; and none goes out after the user has
\* stopped it.
SendsCurrentSecret ==
  [][ \A k \in Call :
        calls[k].pc = "send" /\ calls'[k].pc = "sent"
          => conns[calls[k].conn].version \in calls[k].seen ]_vars

-----------------------------------------------------------------------------
(* Liveness *)

\* Every invocation ends, though servers may hang in any phase and spawns are
\* shared: a hung spawn does not hold up the callers that joined it for ever.
InvocationsEnd == \A k \in Call : calls[k].pc # "idle" ~> calls[k].pc = "idle"
=============================================================================
