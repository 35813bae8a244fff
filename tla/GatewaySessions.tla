-------------------------- MODULE GatewaySessions --------------------------
(***************************************************************************)
(* ONE conversation of the gateway: the chain of promises that lines up    *)
(* its messages, the turn each message runs, stop requests, the session    *)
(* object that is cached in memory, the messages and sessions tables, and  *)
(* everything that resets, deletes or evicts the session meanwhile.        *)
(*                                                                         *)
(* Source: gateway/gateway.ts, gateway/session.ts, db/session-store.ts,    *)
(* lib/session-reset.ts, lib/session-cleanup.ts and the session routes,    *)
(* under apps/server/src.  Conversations share only the 50 places of the   *)
(* cache, which the action Evict stands for.                               *)
(*                                                                         *)
(* A step is what the code does between two awaits.  What a message says,  *)
(* its media, the title, the summary and the extraction of memories are    *)
(* left out; the language model, speech and the channel answer or fail.    *)
(***************************************************************************)
EXTENDS Naturals, Sequences, FiniteSets

CONSTANTS
  Messages,   \* how many messages arrive
  None,       \* no message, no object
  Cap,        \* MAX_SESSION_MESSAGES, and the LIMIT of getRecentMessages
  ResetAt,    \* the policy's maxMessages, 0 when it is off
  MaxResets, MaxDeletes, MaxRestarts   \* bounds on what others do

ASSUME MsgAssumption == Messages \in Nat
ASSUME NoneAssumption == None \notin Nat
ASSUME CapAssumption == Cap \in Nat \ {0} /\ ResetAt \in Nat
ASSUME BoundAssumption == MaxResets \in Nat /\ MaxDeletes \in Nat /\ MaxRestarts \in Nat

\* The messages of the conversation, in the order they arrive.
Msg == 1..Messages

VARIABLES
  pc,        \* pc[m]: where the turn of m is
  prev,      \* prev[m]: the message whose promise m waits for
  lock,      \* the session's entry in sessionLocks: whose promise it is
  came,      \* came[m]: the time stamp m carries, until it is stored
  clock,     \* time stamps so far
  holds,     \* holds[m]: the session object in m's variable `session`
  objs,      \* the session objects, by the message that made them last
  cache,     \* the session's entry in the cache
  db,        \* the session's row and its rows in messages
  ctrl,      \* whose controller is in sessionAbortControllers
  stopped,   \* messages whose controller has been aborted
  resets,    \* resetSession calls under way that no turn waits for
  begun,     \* messages before this one were reset away by a turn
  wiped,     \* the clock when the messages were last cleared or deleted
  used       \* how much of each bound has been consumed

queue == <<pc, prev, lock, came, clock>>
memory == <<holds, objs, cache>>
hist == <<begun, wiped>>
vars == <<queue, memory, db, ctrl, stopped, resets, hist, used>>

-----------------------------------------------------------------------------
(* Data *)

PCs == {"unsent", "queued", "speech", "resetting", "idling", "executing",
        "synthesizing", "sending", "rejected", "done", "lost"}

\* The turn of m is being run by processMessage.
Running == {"speech", "resetting", "idling", "executing", "synthesizing", "sending"}

Roles == {"user", "assistant"}

Entry == [of : Msg, role : Roles, at : Nat]

\* saved is persistedCount.
Object == [msgs : Seq(Entry), saved : Nat]

Blank == [msgs |-> <<>>, saved |-> 0]

\* max: the reset at the message limit, which evicts when it is done; plain: the
\* manual and the daily reset, which do not.
Kinds == {"max", "plain"}

TypeOK ==
  /\ pc \in [Msg -> PCs]
  /\ prev \in [Msg -> Msg \cup {None}]
  /\ lock \in Msg \cup {None}
  /\ came \in [Msg -> Nat] /\ clock \in Nat
  /\ holds \in [Msg -> Msg \cup {None}]
  /\ \A m \in Msg : /\ objs[m].saved \in 0..Len(objs[m].msgs)
                    /\ \A i \in DOMAIN objs[m].msgs : objs[m].msgs[i] \in Entry
                    /\ Len(objs[m].msgs) <= Cap + 1
  /\ cache \in Msg \cup {None}
  /\ db.row \in BOOLEAN /\ db.msgs \subseteq Entry
  /\ ctrl \in Msg \cup {None}
  /\ stopped \subseteq Msg
  /\ resets \in [Kinds -> Nat]
  /\ begun \in Nat /\ wiped \in Nat
  /\ used \in [resets : 0..MaxResets, deletes : 0..MaxDeletes, restarts : 0..MaxRestarts]

Init ==
  /\ pc = [m \in Msg |-> "unsent"]
  /\ prev = [m \in Msg |-> None]
  /\ lock = None
  /\ came = [m \in Msg |-> 0] /\ clock = 0
  /\ holds = [m \in Msg |-> None]
  /\ objs = [m \in Msg |-> Blank]
  /\ cache = None
  /\ db = [row |-> FALSE, msgs |-> {}]
  /\ ctrl = None
  /\ stopped = {}
  /\ resets = [k \in Kinds |-> 0]
  /\ begun = 0 /\ wiped = 0
  /\ used = [resets |-> 0, deletes |-> 0, restarts |-> 0]

-----------------------------------------------------------------------------
(* The chain of promises: handleMessage *)

Goes(m, place) == pc' = [pc EXCEPT ![m] = place]

\* Messages of a conversation arrive in the order of their numbers.
Arrive(m) ==
  /\ pc[m] = "unsent" /\ \A n \in Msg : n < m => pc[n] # "unsent"
  /\ Goes(m, "queued")
  /\ prev' = [prev EXCEPT ![m] = lock]
  /\ lock' = m
  /\ clock' = clock + 1
  /\ came' = [came EXCEPT ![m] = clock']
  /\ UNCHANGED <<memory, db, ctrl, stopped, resets, hist, used>>

\* The promise m waits for has settled.
Settled(m) == prev[m] # None => pc[prev[m]] = "done"

\* The reaction that drops the session's entry once its promise has settled and
\* if no later message has chained on.
DropAny(m) == TRUE
MayDrop(m) == lock = m

Unlock(m) ==
  /\ pc[m] = "done" /\ MayDrop(m) /\ lock # None
  /\ lock' = None
  /\ UNCHANGED <<pc, prev, came, clock, memory, db, ctrl, stopped, resets, hist, used>>

\* The catch of the chain turns a turn that threw into a settled promise.
StaysRejected == "rejected"
Caught == "done"

-----------------------------------------------------------------------------
(* The session object and the tables *)

\* The rows in the order of their time stamps.
InOrder(rows) ==
  [i \in 1..Cardinality(rows) |->
     CHOOSE e \in rows : Cardinality({d \in rows : d.at < e.at}) = i - 1]

\* getRecentMessages: the first Cap rows, oldest first.
Loaded(rows) ==
  LET all == InOrder(rows)
  IN  SubSeq(all, 1, IF Len(all) < Cap THEN Len(all) ELSE Cap)

\* getOrCreate makes an object for m from the rows, or an empty one and the row
\* of the session.
Made(d) ==
  IF d.row THEN [msgs |-> Loaded(d.msgs), saved |-> Len(Loaded(d.msgs))] ELSE Blank

\* persist trims the working set and with it the count of what is stored.
KeepCount(q, n) == n
Recount(q, n) == Len(q)

Trimmed(q) == IF Len(q) > Cap THEN SubSeq(q, Len(q) - Cap + 1, Len(q)) ELSE q

\* persist: o's entries behind the count are inserted, by id.
Rows(o) == {o.msgs[i] : i \in o.saved + 1 .. Len(o.msgs)}

Persisted(o) == [msgs  |-> Trimmed(o.msgs),
                 saved |-> Recount(Trimmed(o.msgs), Len(o.msgs))]

Push(o, e) == [o EXCEPT !.msgs = Append(@, e)]

\* Objects are forgotten with the last reference to them; f is objs after the
\* step.
Remember(f) ==
  objs' = [o \in Msg |->
             IF o = cache' \/ \E n \in Msg : holds'[n] = o THEN f[o] ELSE Blank]

\* clearSessionMessages keeps the row of the session.
Cleared(d) == [d EXCEPT !.msgs = {}]
Clear == wiped' = clock

-----------------------------------------------------------------------------
(* A turn: processMessage *)

\* The session is looked up before the speech of the message is transcribed.
Start(m) ==
  /\ pc[m] = "queued" /\ Settled(m)
  /\ Goes(m, "speech")
  /\ IF cache # None
       THEN /\ holds' = [holds EXCEPT ![m] = cache]
            /\ UNCHANGED <<objs, cache, db>>
       ELSE /\ holds' = [holds EXCEPT ![m] = m]
            /\ objs' = [objs EXCEPT ![m] = Made(db)]
            /\ cache' = m
            /\ db' = [db EXCEPT !.row = TRUE]
  /\ prev' = [prev EXCEPT ![m] = None]
  /\ UNCHANGED <<lock, came, clock, ctrl, stopped, resets, hist, used>>

\* The user's message joins the session object of index o and is stored; the
\* controller is installed and the conversation executed.  d is the tables
\* before and obj the object.
Execute(m, o, obj, d) ==
  LET full == Push(obj, [of |-> m, role |-> "user", at |-> came[m]]) IN
  /\ Goes(m, "executing")
  /\ holds' = [holds EXCEPT ![m] = o]
  /\ came' = [came EXCEPT ![m] = 0]
  /\ Remember([objs EXCEPT ![o] = Persisted(full)])
  /\ db' = [d EXCEPT !.msgs = @ \cup Rows(full)]
  /\ ctrl' = m

\* preProcess returns: no reset is due.
Proceed(m) ==
  /\ pc[m] = "speech"
  /\ UNCHANGED cache
  /\ Execute(m, holds[m], objs[holds[m]], db)
  /\ UNCHANGED <<prev, lock, clock, stopped, resets, hist, used>>

\* preProcess throws: the sender gets an apology and nothing is stored.
SpeechFails(m) ==
  /\ pc[m] = "speech"
  /\ Goes(m, "sending")
  /\ UNCHANGED <<prev, lock, came, clock, memory, db, ctrl, stopped, resets, hist, used>>

\* The message is a reset trigger, or the session has been idle for too long:
\* resetSession reads the messages and waits for the extraction.
ResetCommand(m) ==
  /\ pc[m] = "speech"
  /\ Goes(m, "resetting")
  /\ UNCHANGED <<prev, lock, came, clock, memory, db, ctrl, stopped, resets, hist, used>>

IdleTooLong(m) ==
  /\ pc[m] = "speech" /\ objs[holds[m]].msgs # <<>>
  /\ Goes(m, "idling")
  /\ UNCHANGED <<prev, lock, came, clock, memory, db, ctrl, stopped, resets, hist, used>>

\* The session object is dropped from the cache after a reset.
NotEvicted == cache
Evicted == None

\* The reset of a trigger is done, and the channel is told.
CommandReset(m) ==
  /\ pc[m] = "resetting"
  /\ Goes(m, "sending")
  /\ db' = Cleared(db) /\ Clear
  /\ cache' = Evicted
  /\ begun' = m + 1
  /\ UNCHANGED holds
  /\ Remember(objs)
  /\ UNCHANGED <<prev, lock, came, clock, ctrl, stopped, resets, used>>

\* The reset for idleness is done: the turn goes on with a new object.
IdleReset(m) ==
  /\ pc[m] = "idling"
  /\ IF Evicted = None
       THEN /\ cache' = m
            /\ Execute(m, m, Made(Cleared(db)), [Cleared(db) EXCEPT !.row = TRUE])
       ELSE /\ UNCHANGED cache
            /\ Execute(m, cache, objs[cache], Cleared(db))
  /\ begun' = m /\ Clear
  /\ UNCHANGED <<prev, lock, clock, stopped, resets, used>>

\* The answer, unless it is empty, joins the object and everything is stored; at
\* the message limit a reset is begun that nobody waits for.
StoreReply(m, text) ==
  LET o    == holds[m]
      full == IF text THEN Push(objs[o], [of |-> m, role |-> "assistant", at |-> clock + 1])
                      ELSE objs[o]
  IN
  /\ objs' = [objs EXCEPT ![o] = Persisted(full)]
  /\ db' = [db EXCEPT !.msgs = @ \cup Rows(full)]
  /\ clock' = IF text THEN clock + 1 ELSE clock
  /\ resets' = IF ResetAt > 0 /\ Len(Trimmed(full.msgs)) >= ResetAt
                 THEN [resets EXCEPT !["max"] = @ + 1] ELSE resets

\* The finally block.
ControllerGoes == ctrl' = None

\* executeConversation returns a text, possibly empty, or throws and an apology
\* takes its place; without speech the answer is stored at once.
Answered(m, text) ==
  /\ pc[m] = "executing" /\ m \notin stopped
  /\ Goes(m, "sending")
  /\ ControllerGoes
  /\ StoreReply(m, text)
  /\ UNCHANGED <<prev, lock, came, holds, cache, stopped, hist, used>>

\* The same with speech: the answer is synthesized first.
Synthesize(m) ==
  /\ pc[m] = "executing" /\ m \notin stopped
  /\ Goes(m, "synthesizing")
  /\ ControllerGoes
  /\ UNCHANGED <<prev, lock, came, clock, memory, db, stopped, resets, hist, used>>

Synthesized(m) ==
  /\ pc[m] = "synthesizing"
  /\ Goes(m, "sending")
  /\ StoreReply(m, TRUE)
  /\ UNCHANGED <<prev, lock, came, holds, cache, ctrl, stopped, hist, used>>

\* The turn ends and lets go of the session object and of the message.
Ending(m) ==
  /\ holds' = [holds EXCEPT ![m] = None]
  /\ came' = [came EXCEPT ![m] = 0]
  /\ Remember(objs)

\* A conversation whose signal is aborted throws, and the turn ends there.
Apologizes == "synthesizing"
Ends == "done"

Aborted(m) ==
  /\ pc[m] = "executing" /\ m \in stopped
  /\ Goes(m, Ends)
  /\ ControllerGoes
  /\ UNCHANGED cache
  /\ Ending(m)
  /\ UNCHANGED <<prev, lock, clock, db, stopped, resets, hist, used>>

\* The channel has taken the answer, or refused it.
Sent(m) ==
  /\ pc[m] = "sending"
  /\ pc' \in {[pc EXCEPT ![m] = "done"], [pc EXCEPT ![m] = Caught]}
  /\ UNCHANGED cache
  /\ Ending(m)
  /\ UNCHANGED <<prev, lock, clock, db, ctrl, stopped, resets, hist, used>>

-----------------------------------------------------------------------------
(* What others do *)

\* abortSession: it finds the controller of the turn that executes, or does
\* nothing.
Stop ==
  /\ ctrl # None
  /\ stopped' = stopped \cup {ctrl}
  /\ UNCHANGED <<queue, memory, db, ctrl, resets, hist, used>>

\* The manual and the daily reset begin.
BeginReset ==
  /\ used.resets < MaxResets
  /\ used' = [used EXCEPT !.resets = @ + 1]
  /\ resets' = [resets EXCEPT !["plain"] = @ + 1]
  /\ UNCHANGED <<queue, memory, db, ctrl, stopped, hist>>

\* A reset that no turn waits for has extracted its memories.
EndReset(k) ==
  /\ resets[k] > 0
  /\ resets' = [resets EXCEPT ![k] = @ - 1]
  /\ db' = Cleared(db) /\ Clear
  /\ cache' = IF k = "max" THEN Evicted ELSE cache
  /\ UNCHANGED <<queue, holds, ctrl, stopped, begun, used>>
  /\ Remember(objs)

\* The session is deleted by its user or by retention.
Delete ==
  /\ used.deletes < MaxDeletes /\ db.row
  /\ used' = [used EXCEPT !.deletes = @ + 1]
  /\ db' = [row |-> FALSE, msgs |-> {}] /\ Clear
  /\ UNCHANGED <<queue, memory, ctrl, stopped, resets, begun>>

\* Other conversations push the session out of the cache.
Evict ==
  /\ cache # None
  /\ cache' = None
  /\ UNCHANGED <<queue, holds, db, ctrl, stopped, resets, hist, used>>
  /\ Remember(objs)

\* The process stops and starts again: only the tables stay.
Restart ==
  /\ used.restarts < MaxRestarts
  /\ used' = [used EXCEPT !.restarts = @ + 1]
  /\ pc' = [m \in Msg |-> IF pc[m] \in {"unsent", "done"} THEN pc[m] ELSE "lost"]
  /\ prev' = [m \in Msg |-> None]
  /\ lock' = None
  /\ holds' = [m \in Msg |-> None]
  /\ objs' = [m \in Msg |-> Blank]
  /\ cache' = None /\ ctrl' = None /\ stopped' = {}
  /\ resets' = [k \in Kinds |-> 0]
  /\ came' = [m \in Msg |-> 0]
  /\ UNCHANGED <<clock, db, hist>>

-----------------------------------------------------------------------------

Turn(m) ==
  \/ Start(m) \/ Proceed(m) \/ SpeechFails(m) \/ ResetCommand(m) \/ IdleTooLong(m)
  \/ CommandReset(m) \/ IdleReset(m)
  \/ \E text \in BOOLEAN : Answered(m, text)
  \/ Synthesize(m) \/ Synthesized(m) \/ Aborted(m) \/ Sent(m)

Next ==
  \/ \E m \in Msg : Arrive(m) \/ Unlock(m) \/ Turn(m)
  \/ Stop \/ BeginReset \/ (\E k \in Kinds : EndReset(k)) \/ Delete \/ Evict \/ Restart

Spec == Init /\ [][Next]_vars

\* Speech, the language model, the channel and the extraction answer or fail.
FairSpec == Spec /\ \A m \in Msg : WF_vars(Turn(m))

-----------------------------------------------------------------------------
(* Properties *)

\* However the entry of the chain is replaced and dropped, and however turns end,
\* the messages of a conversation are processed one at a time and in order.
AtWork == {m \in Msg : pc[m] \in Running}

Queue == INSTANCE SessionQueue WITH
  waiting <- {m \in Msg : pc[m] = "queued"},
  busy    <- IF AtWork = {} THEN None ELSE CHOOSE m \in AtWork : TRUE,
  over    <- {m \in Msg : pc[m] \in {"rejected", "done", "lost"}}

ImplementsQueue == Queue!Spec

\* A turn whose stop was acknowledged stays silent: nothing of its answer is
\* spoken, stored or sent, and the message that waits behind it is not stopped
\* with it.
StopMeansSilence ==
  \A m \in stopped :
    /\ pc[m] \in {"executing", "done"}
    /\ \A e \in db.msgs : ~(e.of = m /\ e.role = "assistant")

\* A conversation that was reset by its user or for idleness starts afresh: no
\* turn works on a message from before, whichever object it got hold of and
\* whatever was evicted, cleared or begun meanwhile.
FreshAfterReset ==
  \A m \in Msg : pc[m] = "executing" =>
    \A i \in DOMAIN objs[holds[m]].msgs : objs[holds[m]].msgs[i].of >= begun

\* Nothing is lost between the working set and the tables: whatever trims the
\* object, moves its count or replaces it, what a turn added since the messages
\* were last cleared or deleted is stored.
NothingLost ==
  \A m \in Msg : pc[m] \in {"executing", "synthesizing", "sending"} =>
    \A i \in DOMAIN objs[holds[m]].msgs :
      objs[holds[m]].msgs[i].at > wiped => objs[holds[m]].msgs[i] \in db.msgs

\* Every message that has arrived is dealt with in the end (or lost in a
\* restart), though the turns before it are stopped, fail, or reset the session.
MessagesEnd == <>[](\A m \in Msg : pc[m] \in {"unsent", "done", "lost"})
=============================================================================
