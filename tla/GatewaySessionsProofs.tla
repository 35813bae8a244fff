----------------------- MODULE GatewaySessionsProofs -----------------------
(***************************************************************************)
(* Two things about the conversations of gateway/gateway.ts, for any       *)
(* number of messages, resets, deletions and restarts.                     *)
(*                                                                         *)
(* The chain of promises processes the messages of a conversation one at a *)
(* time and in their order: GatewaySessions implements SessionQueue.  A    *)
(* message waits for one promise only, so that its turn comes after ALL    *)
(* earlier messages has to be read off the chain: the promise it waits for *)
(* is that of the message directly before it, or it waits for none because *)
(* nothing was left to wait for; and nobody is past a message that is not  *)
(* (QInv).  The entry of the map is the last message, or everything has    *)
(* ended, which is what makes dropping the entry safe.                     *)
(*                                                                         *)
(* The session objects and the tables agree (DInv): every object is        *)
(* trimmed and its count is its length; no two rows have one time stamp,   *)
(* which is what orders them; what is newer than the last clearing is      *)
(* stored; what turns can come upon is of the current conversation, even   *)
(* through an object that was evicted; and there are answers only of turns *)
(* that stored them and were not stopped.                                  *)
(***************************************************************************)
EXTENDS GatewaySessions, FiniteSetTheorems, SequenceTheorems, TLAPS

Past == {"done", "lost"}

\* Messages arrive in their order.
InTurn == \A m, n \in Msg : n < m /\ pc[m] # "unsent" => pc[n] # "unsent"

\* Whoever has been taken up is behind nobody.
Behind == \A m, n \in Msg : n < m /\ pc[m] \in Running \cup Past => pc[n] \in Past

\* Whom a message waits for.
Chained ==
  \A m \in Msg : pc[m] = "queued" =>
    IF prev[m] = None
      THEN \A n \in Msg : n < m => pc[n] \in Past
      ELSE prev[m] < m /\ \A n \in Msg : n < m => n <= prev[m]

\* Whose promise the map holds.
Last ==
  IF lock = None
    THEN \A m \in Msg : pc[m] \in Past \cup {"unsent"}
    ELSE pc[lock] # "unsent" /\ \A n \in Msg : n > lock => pc[n] = "unsent"

QTypes ==
  /\ pc \in [Msg -> PCs \ {"rejected"}]
  /\ prev \in [Msg -> Msg \cup {None}]
  /\ lock \in Msg \cup {None}

QInv == QTypes /\ InTurn /\ Behind /\ Chained /\ Last

\* A step within the turn of m: to another place of it, or to its end.
Moves(m, p) ==
  /\ pc[m] \in Running
  /\ pc' = [pc EXCEPT ![m] = p]
  /\ UNCHANGED <<prev, lock>>

Rests == UNCHANGED <<pc, prev, lock>>

-----------------------------------------------------------------------------

\* Messages are numbers, and None is not one of them.
LEMMA MsgFacts == Msg \subseteq Nat /\ None \notin Msg
BY MsgAssumption, NoneAssumption DEF Msg

\* What the steps are to the chain.
LEMMA Kind ==
  ASSUME [Next]_vars
  PROVE  \/ \E m \in Msg : \/ Arrive(m) \/ Unlock(m) \/ Start(m)
                           \/ \E p \in Running \cup {"done"} : Moves(m, p)
         \/ Restart \/ Rests
<1>1. ASSUME NEW m \in Msg, Turn(m), ~Start(m)
      PROVE  \E p \in Running \cup {"done"} : Moves(m, p)
  <2>1. CASE Proceed(m) \/ IdleReset(m)
    <3>1. Moves(m, "executing")
      BY <2>1 DEF Proceed, IdleReset, Execute, Goes, Moves, Running
    <3> QED
      BY <3>1 DEF Running
  <2>2. CASE SpeechFails(m) \/ CommandReset(m) \/ Synthesized(m) \/ \E text \in BOOLEAN : Answered(m, text)
    <3>1. Moves(m, "sending")
      BY <2>2 DEF SpeechFails, CommandReset, Synthesized, Answered, Goes, Moves, Running
    <3> QED
      BY <3>1 DEF Running
  <2>3. CASE ResetCommand(m)
    <3>1. Moves(m, "resetting")
      BY <2>3 DEF ResetCommand, Goes, Moves, Running
    <3> QED
      BY <3>1 DEF Running
  <2>4. CASE IdleTooLong(m)
    <3>1. Moves(m, "idling")
      BY <2>4 DEF IdleTooLong, Goes, Moves, Running
    <3> QED
      BY <3>1 DEF Running
  <2>5. CASE Synthesize(m)
    <3>1. Moves(m, "synthesizing")
      BY <2>5 DEF Synthesize, Goes, Moves, Running
    <3> QED
      BY <3>1 DEF Running
  <2>6. CASE Aborted(m) \/ Sent(m)
    <3>1. Moves(m, "done")
      BY <2>6 DEF Aborted, Sent, Ends, Caught, Goes, Moves, Running
    <3> QED
      BY <3>1
  <2> QED
    BY <1>1, <2>1, <2>2, <2>3, <2>4, <2>5, <2>6 DEF Turn
<1>2. ASSUME \/ UNCHANGED vars \/ Stop \/ BeginReset \/ (\E k \in Kinds : EndReset(k))
             \/ Delete \/ Evict
      PROVE  Rests
  BY <1>2 DEF vars, queue, Stop, BeginReset, EndReset, Delete, Evict, Rests
<1> QED
  BY <1>1, <1>2 DEF Next

-----------------------------------------------------------------------------
(* The chain *)

\* A message arrives: its predecessor is the last one, or all have ended.
LEMMA ArriveKeeps == ASSUME QInv, NEW m \in Msg, Arrive(m) PROVE QInv'
<1>1. /\ pc[m] = "unsent" /\ \A n \in Msg : n < m => pc[n] # "unsent"
      /\ pc' = [pc EXCEPT ![m] = "queued"] /\ prev' = [prev EXCEPT ![m] = lock] /\ lock' = m
  BY DEF Arrive, Goes
<1>2. QTypes'
  BY <1>1 DEF QInv, QTypes, PCs
<1>3. \A n \in Msg : n > m => pc[n] = "unsent"
  BY <1>1, MsgFacts DEF QInv, InTurn
<1>4. pc'[m] = "queued" /\ prev'[m] = lock
      /\ \A n \in Msg \ {m} : pc'[n] = pc[n] /\ prev'[n] = prev[n]
  BY <1>1 DEF QInv, QTypes
<1>5. InTurn'
  BY <1>1, <1>3, <1>4, MsgFacts DEF QInv, InTurn
<1>6. Behind'
  BY <1>1, <1>3, <1>4, MsgFacts DEF QInv, Behind, Running, Past
<1>7. Last'
  BY <1>1, <1>3, <1>4, MsgFacts DEF Last
<1>8. IF lock = None THEN \A n \in Msg : n < m => pc[n] \in Past
                     ELSE lock < m /\ \A n \in Msg : n < m => n <= lock
  <2>1. CASE lock = None
    BY <1>1, <2>1 DEF QInv, Last
  <2>2. CASE lock # None
    <3>1. lock \in Msg /\ pc[lock] # "unsent" /\ \A n \in Msg : n > lock => pc[n] = "unsent"
      BY <2>2 DEF QInv, QTypes, Last
    <3>2. lock < m
      BY <1>1, <1>3, <3>1, MsgFacts
    <3>3. \A n \in Msg : n < m => n <= lock
      BY <1>1, <3>1, MsgFacts
    <3> QED
      BY <2>2, <3>2, <3>3
  <2> QED
    BY <2>1, <2>2
<1>9. Chained'
  <2> SUFFICES ASSUME NEW k \in Msg, pc'[k] = "queued"
               PROVE  IF prev'[k] = None
                        THEN \A n \in Msg : n < k => pc'[n] \in Past
                        ELSE prev'[k] < k /\ \A n \in Msg : n < k => n <= prev'[k]
    BY DEF Chained
  <2>1. CASE k = m
    BY <1>4, <1>8, <2>1, MsgFacts
  <2>2. CASE k # m
    <3>1. pc[k] = "queued" /\ prev'[k] = prev[k]
      BY <1>4, <2>2
    <3>2. k < m
      <4>1. k \in Nat /\ m \in Nat /\ ~(k > m)
        BY <1>3, <3>1, MsgFacts
      <4> QED
        BY <2>2, <4>1
    <3> QED
      BY <1>4, <3>1, <3>2, MsgFacts DEF QInv, Chained
  <2> QED
    BY <2>1, <2>2
<1> QED
  BY <1>2, <1>5, <1>6, <1>7, <1>9 DEF QInv

\* A message is taken up: all before it have ended.
LEMMA TakesLast ==
  ASSUME QInv, NEW m \in Msg, Start(m)
  PROVE  pc[m] = "queued" /\ \A n \in Msg : n < m => pc[n] \in Past
<1>1. pc[m] = "queued" /\ Settled(m)
  BY DEF Start
<1>2. CASE prev[m] = None
  BY <1>1, <1>2 DEF QInv, Chained
<1>3. CASE prev[m] # None
  <2>1. prev[m] \in Msg /\ pc[prev[m]] = "done" /\ \A n \in Msg : n < m => n <= prev[m]
    BY <1>1, <1>3 DEF QInv, QTypes, Settled, Chained
  <2>2. \A n \in Msg : n < prev[m] => pc[n] \in Past
    BY <2>1 DEF QInv, Behind, Past
  <2>3. ASSUME NEW n \in Msg, n < m PROVE pc[n] \in Past
    <3>1. n \in Nat /\ prev[m] \in Nat /\ n <= prev[m]
      BY <2>1, <2>3, MsgFacts
    <3> QED
      BY <2>1, <2>2, <3>1 DEF Past
  <2> QED
    BY <1>1, <2>3
<1> QED
  BY <1>2, <1>3

\* The chain is kept by a step of one message that has arrived.
LEMMA StepKeeps ==
  ASSUME QInv, NEW m \in Msg, NEW p \in Running \cup {"done"},
         \/ Start(m) /\ p = "speech"
         \/ Moves(m, p)
  PROVE  QInv' /\ pc'[m] = p /\ \A n \in Msg \ {m} : pc'[n] = pc[n]
<1>1. /\ pc[m] \in Running \cup {"queued"} /\ \A n \in Msg : n < m => pc[n] \in Past
      /\ pc' = [pc EXCEPT ![m] = p] /\ lock' = lock
      /\ prev' = [prev EXCEPT ![m] = None] \/ prev' = prev
  <2>1. CASE Start(m) /\ p = "speech"
    BY <2>1, TakesLast DEF Start, Goes
  <2>2. CASE Moves(m, p)
    BY <2>2 DEF Moves, QInv, Behind
  <2> QED
    BY <2>1, <2>2
<1>2. pc'[m] = p /\ (\A n \in Msg \ {m} : pc'[n] = pc[n] /\ prev'[n] = prev[n])
  BY <1>1 DEF QInv, QTypes
<1>3. pc[m] \notin Past \cup {"unsent"} /\ p # "unsent" /\ p # "queued" /\ p \in PCs \ {"rejected"}
  BY <1>1 DEF Running, Past, PCs
<1>4. QTypes'
  BY <1>1, <1>3 DEF QInv, QTypes
<1>5. InTurn'
  BY <1>2, <1>3 DEF QInv, InTurn
<1>6. Behind'
  BY <1>1, <1>2, <1>3, MsgFacts DEF QInv, Behind
<1>7. \A k \in Msg : m < k => pc[k] \notin Running \cup Past
  BY <1>3 DEF QInv, Behind
<1>8. Chained'
  BY <1>2, <1>3, MsgFacts DEF QInv, Chained
<1>9. Last'
  BY <1>1, <1>2, <1>3, MsgFacts DEF QInv, QTypes, Last
<1> QED
  BY <1>2, <1>4, <1>5, <1>6, <1>8, <1>9 DEF QInv

\* The entry is dropped when all have ended.
LEMMA UnlockKeeps == ASSUME QInv, NEW m \in Msg, Unlock(m) PROVE QInv' /\ pc' = pc
<1>1. lock = m /\ lock' = None /\ pc[m] = "done" /\ pc' = pc /\ prev' = prev
  BY DEF Unlock, MayDrop
<1>2. \A n \in Msg : pc[n] \in Past \cup {"unsent"}
  <2> SUFFICES ASSUME NEW n \in Msg PROVE pc[n] \in Past \cup {"unsent"}
    OBVIOUS
  <2>1. CASE n < m
    BY <1>1, <2>1 DEF QInv, Behind, Past
  <2>2. CASE n > m
    BY <1>1, <2>2, MsgFacts DEF QInv, Last
  <2>3. CASE n = m
    BY <1>1, <2>3 DEF Past
  <2> QED
    BY <2>1, <2>2, <2>3, MsgFacts
<1> QED
  BY <1>1, <1>2 DEF QInv, QTypes, InTurn, Behind, Chained, Last

\* After a restart every message that had arrived has ended.
LEMMA RestartKeeps ==
  ASSUME QInv, Restart
  PROVE  /\ QInv'
         /\ \A m \in Msg : pc'[m] = IF pc[m] \in {"unsent", "done"} THEN pc[m] ELSE "lost"
<1>1. /\ pc' = [m \in Msg |-> IF pc[m] \in {"unsent", "done"} THEN pc[m] ELSE "lost"]
      /\ prev' = [m \in Msg |-> None] /\ lock' = None
  BY DEF Restart
<1>2. \A m \in Msg : /\ pc'[m] = IF pc[m] \in {"unsent", "done"} THEN pc[m] ELSE "lost"
                     /\ pc'[m] \in Past \cup {"unsent"}
                     /\ pc'[m] = "unsent" <=> pc[m] = "unsent"
  BY <1>1 DEF Past
<1>3. QTypes'
  BY <1>1 DEF QInv, QTypes, PCs
<1>4. InTurn' /\ Last'
  BY <1>1, <1>2 DEF QInv, InTurn, Last
<1>5. Behind'
  BY <1>2, <1>4 DEF Behind, InTurn, Running, Past
<1>6. Chained'
  BY <1>2 DEF Chained, Past
<1> QED
  BY <1>2, <1>3, <1>4, <1>5, <1>6 DEF QInv

-----------------------------------------------------------------------------
(* The refinement *)

\* Who is at work, by name.
LEMMA AtWorkIs ==
  ASSUME QInv, NEW m \in Msg, pc[m] \in Running
  PROVE  AtWork = {m}
<1>1. \A n \in Msg : pc[n] \in Running => n = m
  BY MsgFacts DEF QInv, Behind, Running, Past
<1> QED
  BY <1>1 DEF AtWork

\* The state of the queue, by the places of the turns.
Waiting == {m \in Msg : pc[m] = "queued"}
Busy == IF AtWork = {} THEN None ELSE CHOOSE m \in AtWork : TRUE
Finished == {m \in Msg : pc[m] \in {"rejected", "done", "lost"}}

\* It is one of a queue that processes one message at a time.
LEMMA BusyIs ==
  ASSUME QInv
  PROVE  /\ \A m \in Msg : pc[m] \in Running => Busy = m
         /\ (\A m \in Msg : pc[m] \notin Running) => Busy = None
         /\ Busy # None => Busy \in Msg /\ pc[Busy] \in Running
<1>1. ASSUME NEW m \in Msg, pc[m] \in Running PROVE Busy = m
  <2>1. AtWork = {m}
    BY <1>1, AtWorkIs
  <2> QED
    BY <2>1 DEF Busy
<1>2. (\A m \in Msg : pc[m] \notin Running) => Busy = None
  BY DEF Busy, AtWork
<1> QED
  BY <1>1, <1>2

\* The same of the state after a step.
LEMMA PrimedBusy ==
  ASSUME QInv'
  PROVE  /\ \A m \in Msg : pc'[m] \in Running => Busy' = m
         /\ (\A m \in Msg : pc'[m] \notin Running) => Busy' = None
<1>1. ASSUME NEW m \in Msg, pc'[m] \in Running PROVE Busy' = m
  <2>1. \A n \in Msg : pc'[n] \in Running => n = m
    BY <1>1, MsgFacts DEF QInv, Behind, Running, Past
  <2>2. AtWork' = {m}
    BY <1>1, <2>1 DEF AtWork
  <2> QED
    BY <2>2 DEF Busy
<1>2. (\A m \in Msg : pc'[m] \notin Running) => Busy' = None
  BY DEF Busy, AtWork
<1> QED
  BY <1>1, <1>2

\* What each step is to the queue.
LEMMA StepImplements ==
  ASSUME QInv, [Next]_vars
  PROVE  /\ QInv'
         /\ \/ UNCHANGED <<Waiting, Busy, Finished>>
            \/ \E m \in Msg :
                 \/ /\ m \notin Waiting \cup Finished /\ m # Busy
                    /\ Waiting' = Waiting \cup {m}
                    /\ UNCHANGED <<Busy, Finished>>
                 \/ /\ Busy = None
                    /\ m \in Waiting /\ \A n \in Waiting : m <= n
                    /\ Busy' = m
                    /\ Waiting' = Waiting \ {m}
                    /\ UNCHANGED Finished
            \/ /\ Busy # None
               /\ Finished' = Finished \cup {Busy}
               /\ Busy' = None
               /\ UNCHANGED Waiting
            \/ /\ Finished' = Finished \cup Waiting \cup ({Busy} \ {None})
               /\ Waiting' = {} /\ Busy' = None
<1> USE DEF Waiting, Finished
<1>1. ASSUME NEW m \in Msg, Arrive(m)
      PROVE  /\ QInv'
             /\ m \notin Waiting \cup Finished /\ m # Busy
             /\ Waiting' = Waiting \cup {m}
             /\ UNCHANGED <<Busy, Finished>>
  <2>1. QInv'
    BY <1>1, ArriveKeeps
  <2>2. pc[m] = "unsent" /\ pc'[m] = "queued" /\ \A n \in Msg \ {m} : pc'[n] = pc[n]
    BY <1>1 DEF Arrive, Goes, QInv, QTypes
  <2>3. AtWork' = AtWork /\ m \notin AtWork
    BY <2>2 DEF AtWork, Running
  <2>4. Busy' = Busy
    BY <2>3 DEF Busy
  <2>5. m # Busy
    BY <2>2, BusyIs, MsgFacts DEF Running
  <2> QED
    BY <2>1, <2>2, <2>4, <2>5
<1>2. ASSUME NEW m \in Msg, Start(m)
      PROVE  /\ QInv'
             /\ Busy = None
             /\ m \in Waiting /\ \A n \in Waiting : m <= n
             /\ Busy' = m
             /\ Waiting' = Waiting \ {m}
             /\ UNCHANGED Finished
  <2>1. pc[m] = "queued" /\ \A n \in Msg : n < m => pc[n] \in Past
    BY <1>2, TakesLast
  <2>2. "speech" \in Running
    BY DEF Running
  <2>3. QInv' /\ pc'[m] = "speech" /\ \A n \in Msg \ {m} : pc'[n] = pc[n]
    BY <1>2, <2>2, StepKeeps
  <2>4. \A n \in Msg : pc[n] \notin Running
    <3> SUFFICES ASSUME NEW n \in Msg, pc[n] \in Running PROVE FALSE
      OBVIOUS
    <3>1. n # m /\ ~(n < m)
      BY <2>1 DEF Running, Past
    <3>2. m < n
      BY <3>1, MsgFacts
    <3> QED
      BY <2>1, <3>2 DEF QInv, Behind, Past
  <2>5. Busy = None
    BY <2>4, BusyIs
  <2>6. \A n \in Waiting : m <= n
    <3> SUFFICES ASSUME NEW n \in Msg, pc[n] = "queued", ~(m <= n) PROVE FALSE
      OBVIOUS
    <3>1. n < m
      BY MsgFacts
    <3> QED
      BY <2>1, <3>1 DEF Past
  <2>7. Busy' = m
    BY <2>2, <2>3, BusyIs, PrimedBusy
  <2> QED
    BY <2>1, <2>3, <2>5, <2>6, <2>7
<1>3. ASSUME NEW m \in Msg, NEW p \in Running, Moves(m, p)
      PROVE  QInv' /\ UNCHANGED <<Waiting, Busy, Finished>>
  <2>1. QInv' /\ pc'[m] = p /\ \A n \in Msg \ {m} : pc'[n] = pc[n]
    BY <1>3, StepKeeps
  <2>2. pc[m] \in Running
    BY <1>3 DEF Moves
  <2>3. Busy' = m /\ Busy = m
    BY <2>1, <2>2, BusyIs, PrimedBusy
  <2> QED
    BY <2>1, <2>2, <2>3 DEF Running
<1>4. ASSUME NEW m \in Msg, Moves(m, "done")
      PROVE  /\ QInv'
             /\ Busy # None
             /\ Finished' = Finished \cup {Busy}
             /\ Busy' = None
             /\ UNCHANGED Waiting
  <2>1. QInv' /\ pc'[m] = "done" /\ \A n \in Msg \ {m} : pc'[n] = pc[n]
    BY <1>4, StepKeeps
  <2>2. pc[m] \in Running /\ Busy = m /\ AtWork = {m}
    BY <1>4, BusyIs, AtWorkIs DEF Moves
  <2>3. \A n \in Msg : pc'[n] \notin Running
    BY <2>1, <2>2 DEF AtWork, Running
  <2>4. Busy' = None
    BY <2>1, <2>3, PrimedBusy
  <2> QED
    BY <2>1, <2>2, <2>4, MsgFacts DEF Running
<1>5. ASSUME NEW m \in Msg, Unlock(m)
      PROVE  QInv' /\ UNCHANGED <<Waiting, Busy, Finished>>
  <2>1. QInv' /\ pc' = pc
    BY <1>5, UnlockKeeps
  <2>2. AtWork' = AtWork
    BY <2>1 DEF AtWork
  <2> QED
    BY <2>1, <2>2 DEF Busy
<1>6. ASSUME Restart
      PROVE  /\ QInv'
             /\ Finished' = Finished \cup Waiting \cup ({Busy} \ {None})
             /\ Waiting' = {} /\ Busy' = None
  <2>1. /\ QInv'
        /\ \A m \in Msg : pc'[m] = IF pc[m] \in {"unsent", "done"} THEN pc[m] ELSE "lost"
    BY <1>6, RestartKeeps
  <2>2. Busy' = None
    <3>1. \A m \in Msg : pc'[m] \notin Running
      BY <2>1 DEF Running
    <3> QED
      BY <2>1, <3>1, PrimedBusy
  <2>3. \A m \in Msg : m \in {Busy} \ {None} <=> pc[m] \in Running
    BY BusyIs, MsgFacts
  <2>4. {Busy} \ {None} \subseteq Msg
    BY BusyIs
  <2>5. \A m \in Msg : pc[m] \in {"unsent", "queued", "done", "lost"} \cup Running
    BY DEF QInv, QTypes, PCs, Running
  <2>6. Waiting' = {}
    BY <2>1
  <2>7. \A m \in Msg : pc'[m] \in {"rejected", "done", "lost"} <=>
                         \/ pc[m] \in {"rejected", "done", "lost"}
                         \/ pc[m] = "queued" \/ pc[m] \in Running
    BY <2>1, <2>5 DEF Running
  <2> QED
    BY <2>1, <2>2, <2>3, <2>4, <2>6, <2>7
<1>7. ASSUME Rests PROVE QInv' /\ UNCHANGED <<Waiting, Busy, Finished>>
  BY <1>7 DEF Rests, QInv, QTypes, InTurn, Behind, Chained, Last, Busy, AtWork
<1> HIDE DEF Waiting, Finished
<1> QED
  BY <1>1, <1>2, <1>3, <1>4, <1>5, <1>6, <1>7, Kind

\* The chain at the start.
LEMMA InitQInv == Init => QInv /\ Waiting = {} /\ Busy = None /\ Finished = {}
BY DEF Init, QInv, QTypes, PCs, InTurn, Behind, Chained, Last, Running, Past, Waiting, Busy,
       Finished, AtWork

-----------------------------------------------------------------------------

\* The messages of a conversation are processed one at a time and in the order
\* of their arrival, whatever ends their turns: handleMessage and processMessage
\* implement SessionQueue for any number of messages.
THEOREM GatewayImplementsQueue == Spec => ImplementsQueue
<1>1. Init => QInv /\ Queue!Init
  BY InitQInv DEF Queue!Init, Waiting, Busy, Finished
<1>2. QInv /\ [Next]_vars => QInv' /\ [Queue!Next]_(Queue!vars)
  <2> SUFFICES ASSUME QInv, [Next]_vars PROVE QInv' /\ [Queue!Next]_(Queue!vars)
    OBVIOUS
  <2> QED
    BY StepImplements DEF Queue!Next, Queue!vars, Queue!Arrive, Queue!Take, Queue!Finish,
       Queue!Restart, Waiting, Busy, Finished
<1> QED
  BY <1>1, <1>2, PTL DEF Spec, ImplementsQueue, Queue!Spec

-----------------------------------------------------------------------------
(* Session objects and rows *)

Entries(o) == {o.msgs[i] : i \in DOMAIN o.msgs}

\* Between two steps everything in an object is stored, and it is trimmed.
Shapes == {o \in Object : o.saved = Len(o.msgs) /\ Len(o.msgs) <= Cap}

\* The rows can be put in the order of their time stamps.
Stamped(rows) ==
  /\ IsFiniteSet(rows) /\ rows \subseteq Entry
  /\ \A d, e \in rows : d.at = e.at => d = e

\* Among n rows with different time stamps there is one with i - 1 before it, for
\* every i: the number of rows before a row maps them one to one to 0..n-1.
LEMMA Ranks ==
  ASSUME NEW rows, Stamped(rows), NEW i \in 1..Cardinality(rows)
  PROVE  \E e \in rows : Cardinality({d \in rows : d.at < e.at}) = i - 1
<1> DEFINE n == Cardinality(rows)
           Below(e) == {d \in rows : d.at < e.at}
           T == 0..(n - 1)
           f == [e \in rows |-> Cardinality(Below(e))]
<1>1. n \in Nat /\ \A e \in rows : e.at \in Nat
  BY FS_CardinalityType DEF Stamped, Entry
<1>2. ASSUME NEW e \in rows
      PROVE  IsFiniteSet(Below(e)) /\ Cardinality(Below(e)) \in T
  <2>1. Below(e) \in SUBSET rows /\ e \notin Below(e)
    BY <1>1
  <2>2. /\ IsFiniteSet(Below(e)) /\ Cardinality(Below(e)) <= n
        /\ Cardinality(Below(e)) # n
    BY <2>1, FS_Subset DEF Stamped
  <2>3. Cardinality(Below(e)) \in Nat
    BY <2>2, FS_CardinalityType
  <2> QED
    BY <1>1, <2>2, <2>3
<1>3. ASSUME NEW d \in rows, NEW e \in rows, d.at < e.at
      PROVE  f[d] < f[e]
  <2>1. Below(d) \in SUBSET Below(e) /\ d \in Below(e) /\ d \notin Below(d)
    BY <1>1, <1>3
  <2>2. IsFiniteSet(Below(e)) /\ Cardinality(Below(d)) \in Nat /\ Cardinality(Below(e)) \in Nat
    <3>1. IsFiniteSet(Below(d)) /\ IsFiniteSet(Below(e))
      BY <1>2
    <3> QED
      BY <3>1, FS_CardinalityType
  <2>3. Cardinality(Below(d)) <= Cardinality(Below(e))
        /\ Cardinality(Below(d)) # Cardinality(Below(e))
    BY <2>1, <2>2, FS_Subset
  <2> QED
    BY <2>2, <2>3
<1>4. f \in Injection(rows, T)
  <2>1. f \in [rows -> T]
    BY <1>2
  <2>2. ASSUME NEW d \in rows, NEW e \in rows, f[d] = f[e]
        PROVE  d = e
    <3>1. f[d] \in Int /\ f[e] \in Int
      <4>1. f[d] \in T /\ f[e] \in T
        BY <2>1
      <4> QED
        BY <1>1, <4>1
    <3>2. ~(d.at < e.at)
      <4>1. ~(f[d] < f[e])
        BY <2>2, <3>1
      <4> QED
        BY <1>3, <4>1
    <3>3. ~(e.at < d.at)
      <4>1. ~(f[e] < f[d])
        BY <2>2, <3>1
      <4> QED
        BY <1>3, <4>1
    <3> QED
      BY <1>1, <3>2, <3>3 DEF Stamped
  <2> QED
    BY <2>1, <2>2 DEF Injection, IsInjective
<1>5. IsFiniteSet(T) /\ Cardinality(T) = n
  <2>1. /\ IsFiniteSet(T)
        /\ Cardinality(T) = IF 0 > n - 1 THEN 0 ELSE n - 1 - 0 + 1
    <3> HIDE DEF n
    <3>1. 0 \in Int /\ n - 1 \in Int
      BY <1>1
    <3> QED
      BY <3>1, FS_Interval, Zenon
  <2> HIDE DEF n
  <2> QED
    BY <1>1, <2>1
<1>6. f \in Surjection(rows, T)
  BY <1>4, <1>5, FS_Injection
<1>7. i - 1 \in T
  BY <1>1
<1> QED
  BY <1>6, <1>7 DEF Surjection

\* What is loaded into an object are rows, and no more than the object holds.
LEMMA LoadedRows ==
  ASSUME NEW rows, Stamped(rows)
  PROVE  /\ Loaded(rows) \in Seq(Entry) /\ Len(Loaded(rows)) <= Cap
         /\ \A i \in DOMAIN Loaded(rows) : Loaded(rows)[i] \in rows
<1> DEFINE n == Cardinality(rows)
           all == InOrder(rows)
           k == IF Len(all) < Cap THEN Len(all) ELSE Cap
<1>1. n \in Nat /\ Cap \in Nat
  BY FS_CardinalityType, CapAssumption DEF Stamped
<1>2. \A i \in 1..n : all[i] \in rows
  <2> SUFFICES ASSUME NEW i \in 1..n PROVE all[i] \in rows
    OBVIOUS
  <2>1. all[i] = CHOOSE e \in rows : Cardinality({d \in rows : d.at < e.at}) = i - 1
    BY DEF InOrder
  <2> QED
    BY <2>1, Ranks
<1>3. all \in Seq(rows) /\ Len(all) = n
  <2>1. all \in [1..n -> rows]
    BY <1>2 DEF InOrder
  <2> HIDE DEF all, n
  <2>2. all \in Seq(rows)
    BY <1>1, <2>1
  <2>3. DOMAIN all = 1..Len(all) /\ DOMAIN all = 1..n /\ Len(all) \in Nat
    BY <2>1, <2>2, LenProperties
  <2> QED
    BY <1>1, <2>1, <2>2, <2>3
<1>4. k \in Nat /\ k <= n /\ k <= Cap
  BY <1>1, <1>3
<1>5. /\ SubSeq(all, 1, k) \in Seq(rows)
      /\ Len(SubSeq(all, 1, k)) = k
  <2>1. \A i \in 1..k : all[i] \in rows
    BY <1>1, <1>2, <1>4
  <2> HIDE DEF all, k
  <2>2. 1 \in Int /\ k \in Int
    BY <1>4
  <2>3. /\ SubSeq(all, 1, k) \in Seq(rows)
        /\ Len(SubSeq(all, 1, k)) = IF 1 <= k THEN k - 1 + 1 ELSE 0
    BY <2>1, <2>2, SubSeqProperties
  <2> QED
    BY <1>4, <2>3
<1>6. Loaded(rows) = SubSeq(all, 1, k)
  BY DEF Loaded
<1> HIDE DEF k, all
<1>7. /\ Loaded(rows) \in Seq(rows) /\ Len(Loaded(rows)) <= Cap
  BY <1>4, <1>5, <1>6
<1>8. rows \subseteq Entry
  BY DEF Stamped
<1> QED
  BY <1>7, <1>8, ElementOfSeq

\* What trimming leaves is what the object held last.
LEMMA TrimmedIsShort ==
  ASSUME NEW q \in Seq(Entry), Len(q) <= Cap + 1
  PROVE  /\ Trimmed(q) \in Seq(Entry) /\ Len(Trimmed(q)) <= Cap
         /\ \A i \in DOMAIN Trimmed(q) : \E j \in DOMAIN q : Trimmed(q)[i] = q[j]
<1>1. Len(q) \in Nat /\ Cap \in Nat /\ DOMAIN q = 1..Len(q)
  BY CapAssumption, LenProperties
<1>2. CASE Len(q) <= Cap
  BY <1>1, <1>2 DEF Trimmed
<1>3. CASE Len(q) > Cap
  <2> DEFINE a == Len(q) - Cap + 1
             b == Len(q)
             t == SubSeq(q, a, b)
  <2>1. a \in Int /\ b \in Int /\ a >= 1 /\ b - a + 1 = Cap /\ (a <= b \/ Cap = 0)
    BY <1>1, <1>3
  <2>2. \A i \in a..b : q[i] \in Entry
    BY <1>1, <2>1, ElementOfSeq
  <2>3. Trimmed(q) = t
    BY <1>3 DEF Trimmed
  <2>4. b \in Nat /\ DOMAIN q = 1..b
    BY <1>1
  <2> HIDE DEF a, b
  <2>5. /\ t \in Seq(Entry)
        /\ Len(t) = IF a <= b THEN b - a + 1 ELSE 0
        /\ \A i \in 1 .. b - a + 1 : t[i] = q[a + i - 1]
    BY <2>1, <2>2, SubSeqProperties
  <2> HIDE DEF t
  <2>6. Len(t) = Cap
    BY <1>1, <2>1, <2>5
  <2>7. DOMAIN t = 1..Cap
    BY <2>5, <2>6, LenProperties
  <2>8. ASSUME NEW i \in 1..Cap PROVE \E j \in DOMAIN q : t[i] = q[j]
    <3>1. a + i - 1 \in 1..b
      BY <1>1, <2>1, <2>4
    <3>2. t[i] = q[a + i - 1]
      BY <1>1, <2>1, <2>5
    <3> QED
      BY <2>4, <3>1, <3>2
  <2> QED
    BY <1>1, <2>3, <2>5, <2>6, <2>7, <2>8
<1> QED
  BY <1>1, <1>2, <1>3

\* An object that gains an entry: the entry is inserted into the table, alone, and
\* what the object keeps is stored.
LEMMA PushedObject ==
  ASSUME NEW o \in Shapes, NEW e \in Entry
  PROVE  /\ Persisted(Push(o, e)) \in Shapes
         /\ Entries(Persisted(Push(o, e))) \subseteq Entries(o) \cup {e}
         /\ Rows(Push(o, e)) = {e}
<1> DEFINE q == Append(o.msgs, e)
           n == Len(o.msgs)
<1>1. o.msgs \in Seq(Entry) /\ o.saved = n /\ n <= Cap /\ n \in Nat /\ Cap \in Nat
      /\ o = [msgs |-> o.msgs, saved |-> o.saved]
  BY CapAssumption DEF Shapes, Object
<1>2. /\ q \in Seq(Entry) /\ Len(q) = n + 1 /\ q[n + 1] = e
      /\ \A i \in 1..n : q[i] = o.msgs[i]
  BY <1>1
<1>3. Push(o, e).msgs = q /\ Push(o, e).saved = n
  <2> HIDE DEF q, n
  <2>1. Push(o, e) = [o EXCEPT !.msgs = q]
    BY DEF Push, q
  <2> QED
    BY <1>1, <2>1
<1>4. DOMAIN q = 1..(n + 1) /\ DOMAIN o.msgs = 1..n
  BY <1>1, <1>2, LenProperties
<1> HIDE DEF q, n
<1>5. Rows(Push(o, e)) = {e}
  <2>1. n + 1 .. n + 1 = {n + 1}
    BY <1>1
  <2>2. Rows(Push(o, e)) = {q[i] : i \in n + 1 .. n + 1}
    BY <1>2, <1>3 DEF Rows
  <2> QED
    BY <1>2, <2>1, <2>2
<1>6. /\ Trimmed(q) \in Seq(Entry) /\ Len(Trimmed(q)) <= Cap
      /\ \A i \in DOMAIN Trimmed(q) : \E j \in DOMAIN q : Trimmed(q)[i] = q[j]
  BY <1>1, <1>2, TrimmedIsShort
<1>7. Persisted(Push(o, e)) = [msgs |-> Trimmed(q), saved |-> Len(Trimmed(q))]
  BY <1>3 DEF Persisted, Recount
<1>8. Persisted(Push(o, e)) \in Shapes
  <2>1. Len(Trimmed(q)) \in Nat
    BY <1>6, LenProperties
  <2> QED
    BY <1>6, <1>7, <2>1 DEF Shapes, Object
<1>9. \A j \in DOMAIN q : q[j] \in Entries(o) \cup {e}
  <2> SUFFICES ASSUME NEW j \in 1..(n + 1) PROVE q[j] \in Entries(o) \cup {e}
    BY <1>4
  <2>1. CASE j = n + 1
    BY <1>2, <2>1
  <2>2. CASE j # n + 1
    <3>1. j \in 1..n
      BY <1>1, <2>2
    <3> QED
      BY <1>2, <1>4, <3>1 DEF Entries
  <2> QED
    BY <2>1, <2>2
<1> QED
  BY <1>5, <1>6, <1>7, <1>8, <1>9 DEF Entries

\* An object that gains nothing: nothing is inserted and nothing changes.
LEMMA IdleObject ==
  ASSUME NEW o \in Shapes
  PROVE  Persisted(o) = o /\ Rows(o) = {}
<1>1. o.msgs \in Seq(Entry) /\ o.saved = Len(o.msgs) /\ Len(o.msgs) <= Cap
      /\ Len(o.msgs) \in Nat /\ Cap \in Nat /\ o = [msgs |-> o.msgs, saved |-> o.saved]
  BY CapAssumption DEF Shapes, Object
<1>2. Trimmed(o.msgs) = o.msgs
  BY <1>1 DEF Trimmed
<1>3. Persisted(o) = [msgs |-> o.msgs, saved |-> o.saved]
  BY <1>1, <1>2 DEF Persisted, Recount
<1>4. Rows(o) = {}
  <2>1. o.saved + 1 .. Len(o.msgs) = {}
    BY <1>1
  <2> QED
    BY <2>1 DEF Rows
<1> QED
  BY <1>1, <1>3, <1>4

\* An empty object holds nothing.
LEMMA BlankObject == Blank \in Shapes /\ Entries(Blank) = {}
<1>1. <<>> \in Seq(Entry) /\ Len(<<>>) = 0 /\ DOMAIN <<>> = {}
  BY EmptySeq
<1> QED
  BY <1>1, CapAssumption DEF Blank, Shapes, Object, Entries

\* An object that is made from the tables holds nothing but their rows.
LEMMA MadeObject ==
  ASSUME NEW d, Stamped(d.msgs)
  PROVE  Made(d) \in Shapes /\ Entries(Made(d)) \subseteq d.msgs
<1>1. CASE d.row
  <2>1. /\ Loaded(d.msgs) \in Seq(Entry) /\ Len(Loaded(d.msgs)) <= Cap
        /\ \A i \in DOMAIN Loaded(d.msgs) : Loaded(d.msgs)[i] \in d.msgs
    BY LoadedRows
  <2>2. Len(Loaded(d.msgs)) \in Nat
    BY <2>1, LenProperties
  <2>3. Made(d) = [msgs |-> Loaded(d.msgs), saved |-> Len(Loaded(d.msgs))]
    BY <1>1 DEF Made
  <2> QED
    BY <2>1, <2>2, <2>3 DEF Shapes, Object, Entries
<1>2. CASE ~d.row
  BY <1>2, BlankObject DEF Made
<1> QED
  BY <1>1, <1>2

-----------------------------------------------------------------------------
(* What is true of the data between two steps *)

\* The places of a turn that may still add to its session object, and those of
\* a message whose time stamp is not used yet.
Mid == Running \ {"sending"}

Waits == {"queued", "speech", "resetting", "idling"}

\* Every entry there is, and those that the turns of the current conversation
\* can come upon.
Known == db.msgs \cup UNION {Entries(objs[o]) : o \in Msg}

Live == db.msgs \cup (IF cache = None THEN {} ELSE Entries(objs[cache]))
          \cup UNION {Entries(objs[holds[m]]) : m \in {n \in Msg : pc[n] \in Mid}}

Tables == [row : BOOLEAN, msgs : SUBSET Entry]

Links == Msg \cup {None}

DTypes ==
  /\ came \in [Msg -> Nat] /\ clock \in Nat
  /\ holds \in [Msg -> Links] /\ objs \in [Msg -> Shapes] /\ cache \in Links
  /\ db \in Tables /\ begun \in Nat /\ wiped \in Nat
  /\ \A m \in Msg : pc[m] \in Running => holds[m] \in Msg

\* No two rows have one time stamp, and none has that of a message to come.
Stamps ==
  /\ Stamped(db.msgs)
  /\ \A e \in Known : e.at <= clock
  /\ \A m \in Msg : pc[m] \in Waits => came[m] <= clock /\ \A e \in db.msgs : e.at # came[m]
  /\ \A m, n \in Msg : pc[m] \in Waits /\ pc[n] \in Waits /\ came[m] = came[n] => m = n

\* What was added since the tables were last cleared is stored.
Stored == \A e \in Known : e.at > wiped => e \in db.msgs

\* What turns can come upon is from after the last reset by a turn, and so are
\* the messages that are to come.
Current ==
  /\ \A e \in Live : e.of >= begun
  /\ \A m \in Msg : pc[m] \in Mid \cup {"unsent", "queued"} => begun <= m

\* An answer exists only of a turn that has stored it and was not stopped.
Silent ==
  /\ \A e \in Known : e.role = "assistant" => pc[e.of] \in {"sending", "done", "lost"}
                                            /\ e.of \notin stopped
  /\ \A m \in stopped : m \in Msg /\ pc[m] \in {"executing", "done"}
  /\ ctrl # None => ctrl \in Msg /\ pc[ctrl] = "executing"

DInv == DTypes /\ Stamps /\ Stored /\ Current /\ Silent

-----------------------------------------------------------------------------
(* What a step does to the data *)

\* A step that adds the entries of new, and may clear the tables before.
Effect(new) ==
  /\ new \subseteq Entry
  /\ holds' \in [Msg -> Links] /\ objs' \in [Msg -> Shapes] /\ cache' \in Links
  /\ db' \in Tables
  /\ \A m \in Msg : pc'[m] \in Running => holds'[m] \in Msg
  /\ \A o \in Msg : Entries(objs'[o]) \subseteq Entries(objs[o]) \cup db.msgs \cup new
  /\ \/ db'.msgs = db.msgs \cup new /\ wiped' = wiped
     \/ db'.msgs = new /\ wiped' = clock

\* A step after which turns come upon nothing but what they could come upon, and
\* the entries of new.
Keeps(new) ==
  /\ begun' = begun
  /\ cache' # None => Entries(objs'[cache']) \subseteq Live \cup new
  /\ \A m \in Msg : pc'[m] \in Mid => Entries(objs'[holds'[m]]) \subseteq Live \cup new

\* Whatever is in an object or in the tables is an entry.
LEMMA KnownEntries ==
  ASSUME DInv
  PROVE  Known \subseteq Entry
<1>1. \A o \in Msg : Entries(objs[o]) \subseteq Entry
  <2> SUFFICES ASSUME NEW o \in Msg PROVE Entries(objs[o]) \subseteq Entry
    OBVIOUS
  <2>1. objs[o].msgs \in Seq(Entry)
    BY DEF DInv, DTypes, Shapes, Object
  <2> QED
    BY <2>1, LenProperties, ElementOfSeq DEF Entries
<1> QED
  BY <1>1 DEF DInv, DTypes, Known, Tables

\* What a step adds is all that is new.
LEMMA KnownAfter ==
  ASSUME NEW new, Effect(new)
  PROVE  Known' \subseteq Known \cup new
<1> SUFFICES ASSUME NEW e \in Known' PROVE e \in Known \cup new
  OBVIOUS
<1>1. CASE e \in db'.msgs
  BY <1>1 DEF Effect, Known
<1>2. ASSUME NEW o \in Msg, e \in Entries(objs'[o]) PROVE e \in Known \cup new
  BY <1>2 DEF Effect, Known
<1>3. e \in db'.msgs \/ \E o \in Msg : e \in Entries(objs'[o])
  BY DEF Known, Entries
<1> QED
  BY <1>1, <1>2, <1>3

\* What turns can come upon after a step.
LEMMA LiveAfter ==
  ASSUME NEW new, Effect(new), Keeps(new)
  PROVE  Live' \subseteq Live \cup new
<1> SUFFICES ASSUME NEW e \in Live' PROVE e \in Live \cup new
  OBVIOUS
<1>1. CASE e \in db'.msgs
  BY <1>1 DEF Effect, Live
<1>2. CASE cache' # None /\ e \in Entries(objs'[cache'])
  BY <1>2 DEF Keeps
<1>3. ASSUME NEW m \in Msg, pc'[m] \in Mid, e \in Entries(objs'[holds'[m]])
      PROVE  e \in Live \cup new
  BY <1>3 DEF Keeps
<1>4. \/ e \in db'.msgs
      \/ cache' # None /\ e \in Entries(objs'[cache'])
      \/ \E m \in Msg : pc'[m] \in Mid /\ e \in Entries(objs'[holds'[m]])
  BY DEF Live, Entries
<1> QED
  BY <1>1, <1>2, <1>3, <1>4

\* The objects that are in use are remembered as they are.
LEMMA Remembered ==
  ASSUME NEW f \in [Msg -> Shapes], Remember(f)
  PROVE  /\ objs' \in [Msg -> Shapes]
         /\ \A o \in Msg : Entries(objs'[o]) \subseteq Entries(f[o])
BY BlankObject DEF Remember

\* A step that adds nothing: it may let go of session objects and of the entry of
\* the cache, and clear the tables.
Forgets ==
  /\ begun' = begun
  /\ db' \in Tables
  /\ \/ db'.msgs = db.msgs /\ wiped' = wiped
     \/ db'.msgs = {} /\ wiped' = clock
  /\ objs' \in [Msg -> Shapes] /\ \A o \in Msg : Entries(objs'[o]) \subseteq Entries(objs[o])
  /\ cache' \in {cache, None} /\ holds' \in [Msg -> Links]
  /\ \A m \in Msg : pc'[m] \in Running => pc[m] \in Running /\ holds'[m] = holds[m]
  /\ \A m \in Msg : pc'[m] \in Mid => pc[m] \in Mid

\* A step that forgets adds nothing to what turns can come upon.
LEMMA ForgetEffect ==
  ASSUME DInv, Forgets
  PROVE  Effect({}) /\ Keeps({})
<1>1. objs \in [Msg -> Shapes]
  BY DEF DInv, DTypes
<1>2. objs' \in [Msg -> Shapes] /\ \A o \in Msg : Entries(objs'[o]) \subseteq Entries(objs[o])
  BY DEF Forgets
<1>3. Effect({})
  <2>1. cache' \in Links /\ db' \in Tables /\ holds' \in [Msg -> Links]
    BY DEF Forgets, DInv, DTypes, Links
  <2>2. \A m \in Msg : pc'[m] \in Running => holds'[m] \in Msg
    BY DEF Forgets, DInv, DTypes
  <2>3. \A o \in Msg : Entries(objs'[o]) \subseteq Entries(objs[o]) \cup db.msgs \cup {}
    BY <1>2
  <2>4. \/ db'.msgs = db.msgs \cup {} /\ wiped' = wiped
        \/ db'.msgs = {} /\ wiped' = clock
    BY DEF Forgets
  <2> QED
    BY <1>2, <2>1, <2>2, <2>3, <2>4 DEF Effect
<1>4. ASSUME NEW m \in Msg, pc'[m] \in Mid PROVE Entries(objs'[holds'[m]]) \subseteq Live
  <2>1. pc[m] \in Mid /\ holds'[m] = holds[m] /\ holds[m] \in Msg
    BY <1>4 DEF Forgets, Mid, DInv, DTypes
  <2>2. Entries(objs[holds[m]]) \subseteq Live
    BY <2>1 DEF Live
  <2> QED
    BY <1>2, <2>1, <2>2
<1>5. cache' # None => Entries(objs'[cache']) \subseteq Live
  <2> SUFFICES ASSUME cache' # None PROVE Entries(objs'[cache']) \subseteq Live
    OBVIOUS
  <2>1. cache' = cache /\ cache \in Msg
    BY DEF Forgets, DInv, DTypes, Links
  <2>2. Entries(objs[cache]) \subseteq Live
    BY <2>1 DEF Live
  <2> QED
    BY <1>2, <2>1, <2>2
<1> QED
  BY <1>3, <1>4, <1>5 DEF Keeps, Forgets

\* The entries of a message and of its answer.
UserEntry(m) == [of |-> m, role |-> "user", at |-> came[m]]

ReplyEntry(m) == [of |-> m, role |-> "assistant", at |-> clock + 1]

\* An execution begins: the message joins the object of index o and the tables.
LEMMA ExecuteAdds ==
  ASSUME DTypes, NEW m \in Msg, NEW o \in Msg, NEW obj \in Shapes, NEW d \in Tables,
         Execute(m, o, obj, d)
  PROVE  /\ UserEntry(m) \in Entry
         /\ objs' \in [Msg -> Shapes]
         /\ Entries(objs'[o]) \subseteq Entries(obj) \cup {UserEntry(m)}
         /\ \A x \in Msg \ {o} : Entries(objs'[x]) \subseteq Entries(objs[x])
         /\ db' \in Tables /\ db'.msgs = d.msgs \cup {UserEntry(m)}
         /\ holds' = [holds EXCEPT ![m] = o]
<1> DEFINE e == UserEntry(m)
           full == Push(obj, e)
           f == [objs EXCEPT ![o] = Persisted(full)]
<1>1. e \in Entry
  BY DEF DTypes, UserEntry, Entry, Roles
<1>2. /\ holds' = [holds EXCEPT ![m] = o] /\ Remember(f)
      /\ db' = [d EXCEPT !.msgs = @ \cup Rows(full)]
  BY DEF Execute, UserEntry
<1> HIDE DEF e
<1>3. Persisted(full) \in Shapes /\ Entries(Persisted(full)) \subseteq Entries(obj) \cup {e}
      /\ Rows(full) = {e}
  BY <1>1, PushedObject
<1> HIDE DEF full
<1>4. f \in [Msg -> Shapes] /\ f[o] = Persisted(full) /\ \A x \in Msg \ {o} : f[x] = objs[x]
  BY <1>3 DEF DTypes
<1> HIDE DEF f
<1>5. objs' \in [Msg -> Shapes] /\ \A x \in Msg : Entries(objs'[x]) \subseteq Entries(f[x])
  BY <1>2, <1>4, Remembered
<1>6. db' \in Tables /\ db'.msgs = d.msgs \cup {e}
  BY <1>1, <1>2, <1>3 DEF Tables
<1> USE DEF e
<1> QED
  BY <1>1, <1>2, <1>3, <1>4, <1>5, <1>6

\* A turn works on by itself: others are before or behind it.
LEMMA Alone ==
  ASSUME QInv, NEW m \in Msg, pc[m] \in Running, NEW n \in Msg, n # m
  PROVE  pc[n] \notin Running /\ (pc[n] \in {"unsent", "queued"} => m < n)
<1>1. AtWork = {m}
  BY AtWorkIs
<1>2. n < m => pc[n] \in Past
  BY DEF QInv, Behind
<1> QED
  BY <1>1, <1>2, MsgFacts DEF AtWork, Past

\* The turn goes on with the object it has.
LEMMA ProceedEffect ==
  ASSUME QInv, DInv, NEW m \in Msg, Proceed(m)
  PROVE  Effect({UserEntry(m)}) /\ Keeps({UserEntry(m)})
<1> DEFINE o == holds[m]
           e == UserEntry(m)
<1>1. /\ pc[m] = "speech" /\ pc' = [pc EXCEPT ![m] = "executing"]
      /\ cache' = cache /\ begun' = begun /\ wiped' = wiped
      /\ Execute(m, o, objs[o], db)
  BY DEF Proceed, Execute, Goes, hist
<1>2. o \in Msg /\ objs[o] \in Shapes /\ db \in Tables /\ holds \in [Msg -> Links]
  BY <1>1 DEF DInv, DTypes, Running
<1>3. /\ e \in Entry /\ objs' \in [Msg -> Shapes]
      /\ Entries(objs'[o]) \subseteq Entries(objs[o]) \cup {e}
      /\ \A x \in Msg \ {o} : Entries(objs'[x]) \subseteq Entries(objs[x])
      /\ db' \in Tables /\ db'.msgs = db.msgs \cup {e}
      /\ holds' = [holds EXCEPT ![m] = o]
  BY <1>1, <1>2, ExecuteAdds DEF DInv
<1> HIDE DEF e
<1>4. holds' = holds
  BY <1>2, <1>3
<1>5. \A x \in Msg : Entries(objs'[x]) \subseteq Entries(objs[x]) \cup {e}
  BY <1>2, <1>3
<1>6. \A n \in Msg : n # m => pc'[n] = pc[n]
  BY <1>1 DEF QInv, QTypes
<1>7. Effect({e})
  <2>1. cache' \in Links /\ {e} \subseteq Entry /\ holds' \in [Msg -> Links]
    BY <1>1, <1>2, <1>3, <1>4 DEF DInv, DTypes
  <2>2. \A n \in Msg : pc'[n] \in Running => holds'[n] \in Msg
    BY <1>2, <1>4, <1>6 DEF DInv, DTypes
  <2> QED
    BY <1>1, <1>3, <1>5, <2>1, <2>2 DEF Effect
<1>8. ASSUME NEW n \in Msg, pc'[n] \in Mid
      PROVE  Entries(objs'[holds'[n]]) \subseteq Live \cup {e}
  <2>1. pc[n] \in Mid /\ holds[n] \in Msg
    BY <1>1, <1>2, <1>6, <1>8 DEF Mid, Running, DInv, DTypes
  <2>2. Entries(objs[holds[n]]) \subseteq Live
    BY <2>1 DEF Live
  <2> QED
    BY <1>4, <1>5, <2>1, <2>2
<1>9. cache' # None => Entries(objs'[cache']) \subseteq Live \cup {e}
  <2> SUFFICES ASSUME cache # None PROVE Entries(objs'[cache]) \subseteq Live \cup {e}
    BY <1>1
  <2>1. cache \in Msg
    BY DEF DInv, DTypes, Links
  <2>2. Entries(objs[cache]) \subseteq Live
    BY <2>1, MsgFacts DEF Live
  <2> QED
    BY <1>5, <2>1, <2>2
<1> USE DEF e
<1> QED
  BY <1>1, <1>7, <1>8, <1>9 DEF Keeps

\* The turn was reset for idleness: it goes on with a new object.
LEMMA IdleResetEffect ==
  ASSUME QInv, DInv, NEW m \in Msg, IdleReset(m)
  PROVE  Effect({UserEntry(m)}) /\ Live' \subseteq {UserEntry(m)} /\ wiped' = clock
<1> DEFINE e == UserEntry(m)
           d == [Cleared(db) EXCEPT !.row = TRUE]
           obj == Made(Cleared(db))
<1>1. /\ pc[m] = "idling" /\ pc' = [pc EXCEPT ![m] = "executing"]
      /\ cache' = m /\ wiped' = clock /\ Execute(m, m, obj, d)
  BY DEF IdleReset, Execute, Goes, Evicted, Clear
<1>2. Cleared(db).msgs = {} /\ d \in Tables /\ d.msgs = {}
  BY DEF DInv, DTypes, Tables, Cleared
<1>3. obj \in Shapes /\ Entries(obj) = {}
  <2>1. Stamped({})
    BY FS_EmptySet DEF Stamped
  <2> QED
    BY <1>2, <2>1, MadeObject
<1> HIDE DEF d, obj
<1>4. /\ e \in Entry /\ objs' \in [Msg -> Shapes]
      /\ Entries(objs'[m]) \subseteq Entries(obj) \cup {e}
      /\ \A x \in Msg \ {m} : Entries(objs'[x]) \subseteq Entries(objs[x])
      /\ db' \in Tables /\ db'.msgs = d.msgs \cup {e}
      /\ holds' = [holds EXCEPT ![m] = m]
  BY <1>1, <1>2, <1>3, ExecuteAdds DEF DInv
<1> HIDE DEF e
<1>5. holds \in [Msg -> Links]
  BY DEF DInv, DTypes
<1>6. pc'[m] = "executing" /\ \A n \in Msg : n # m => pc'[n] = pc[n] /\ pc[n] \notin Running
  <2>1. pc[m] \in Running
    BY <1>1 DEF Running
  <2> QED
    BY <1>1, <2>1, Alone DEF QInv, QTypes
<1>7. Effect({e})
  <2>1. cache' \in Links /\ {e} \subseteq Entry /\ holds' \in [Msg -> Links]
    BY <1>1, <1>4, <1>5 DEF Links
  <2>2. \A n \in Msg : pc'[n] \in Running => holds'[n] \in Msg
    BY <1>4, <1>5, <1>6
  <2>3. \A x \in Msg : Entries(objs'[x]) \subseteq Entries(objs[x]) \cup db.msgs \cup {e}
    BY <1>3, <1>4
  <2>4. db'.msgs = {e}
    BY <1>2, <1>4
  <2> QED
    BY <1>1, <1>4, <2>1, <2>2, <2>3, <2>4 DEF Effect
<1>8. Live' \subseteq {e}
  <2> SUFFICES ASSUME NEW x \in Live' PROVE x \in {e}
    OBVIOUS
  <2>1. \/ x \in db'.msgs
        \/ x \in Entries(objs'[m])
        \/ \E n \in Msg : pc'[n] \in Mid /\ x \in Entries(objs'[holds'[n]])
    BY <1>1 DEF Live, Entries
  <2>2. \A n \in Msg : pc'[n] \in Mid => holds'[n] = m
    BY <1>4, <1>5, <1>6 DEF Mid
  <2>3. Entries(objs'[m]) \subseteq {e}
    BY <1>3, <1>4
  <2>4. db'.msgs \subseteq {e}
    BY <1>2, <1>4
  <2> QED
    BY <2>1, <2>2, <2>3, <2>4
<1> USE DEF e
<1> QED
  BY <1>1, <1>7, <1>8

\* A reset by command: nothing is left to come upon.
LEMMA CommandResetEffect ==
  ASSUME QInv, DInv, NEW m \in Msg, CommandReset(m)
  PROVE  Effect({}) /\ Live' \subseteq {}
<1>1. /\ pc[m] = "resetting" /\ pc' = [pc EXCEPT ![m] = "sending"]
      /\ db' = Cleared(db) /\ wiped' = clock /\ cache' = None
      /\ holds' = holds /\ Remember(objs)
  BY DEF CommandReset, Goes, Evicted, Clear
<1>2. holds \in [Msg -> Links] /\ objs \in [Msg -> Shapes]
      /\ db' \in Tables /\ db'.msgs = {}
  BY <1>1 DEF DInv, DTypes, Tables, Cleared
<1>3. objs' \in [Msg -> Shapes] /\ \A o \in Msg : Entries(objs'[o]) \subseteq Entries(objs[o])
  BY <1>1, <1>2, Remembered
<1>4. pc'[m] = "sending" /\ pc[m] \in Running
      /\ \A n \in Msg : n # m => pc'[n] = pc[n] /\ pc[n] \notin Running
  <2>1. pc[m] \in Running
    BY <1>1 DEF Running
  <2> QED
    BY <1>1, <2>1, Alone DEF QInv, QTypes
<1>5. Effect({})
  <2>1. cache' \in Links /\ holds' \in [Msg -> Links]
    BY <1>1, <1>2 DEF Links
  <2>2. \A n \in Msg : pc'[n] \in Running => holds'[n] \in Msg
    BY <1>1, <1>4 DEF DInv, DTypes
  <2> QED
    BY <1>1, <1>2, <1>3, <2>1, <2>2 DEF Effect
<1>6. \A n \in Msg : pc'[n] \notin Mid
  BY <1>4 DEF Mid
<1>7. Live' \subseteq {}
  BY <1>1, <1>2, <1>6 DEF Live
<1> QED
  BY <1>5, <1>7

\* A turn begins with the cached object or with one made from the tables.
LEMMA StartEffect ==
  ASSUME QInv, DInv, NEW m \in Msg, Start(m)
  PROVE  Effect({}) /\ Keeps({})
<1>1. /\ pc[m] = "queued" /\ pc' = [pc EXCEPT ![m] = "speech"]
      /\ begun' = begun /\ wiped' = wiped
  BY DEF Start, Goes, hist
<1>2. /\ holds \in [Msg -> Links] /\ objs \in [Msg -> Shapes] /\ cache \in Links
      /\ db \in Tables /\ Stamped(db.msgs)
  BY DEF DInv, DTypes, Stamps
<1>3. pc'[m] = "speech" /\ \A n \in Msg : n # m => pc'[n] = pc[n] /\ pc[n] \notin Running
  <2>1. \A n \in Msg : n < m => pc[n] \in Past
    BY TakesLast
  <2>2. \A n \in Msg : m < n => pc[n] \notin Running
    BY <1>1 DEF QInv, Behind, Past
  <2>3. \A n \in Msg : n # m => n < m \/ m < n
    BY MsgFacts
  <2>4. \A n \in Msg : n # m => pc[n] \notin Running
    BY <2>1, <2>2, <2>3 DEF Past, Running
  <2> QED
    BY <1>1, <2>4 DEF QInv, QTypes
<1>4. /\ holds'[m] \in Msg /\ holds' \in [Msg -> Links] /\ objs' \in [Msg -> Shapes]
      /\ cache' = holds'[m] /\ db' \in Tables /\ db'.msgs = db.msgs
      /\ Entries(objs'[holds'[m]]) \subseteq Live
      /\ \A o \in Msg : Entries(objs'[o]) \subseteq Entries(objs[o]) \cup db.msgs
  <2>1. CASE cache # None
    <3>1. holds' = [holds EXCEPT ![m] = cache] /\ objs' = objs /\ cache' = cache /\ db' = db
      BY <2>1 DEF Start
    <3>2. Entries(objs[cache]) \subseteq Live
      BY <2>1 DEF Live
    <3> QED
      BY <1>2, <2>1, <3>1, <3>2 DEF Links
  <2>2. CASE cache = None
    <3>1. /\ holds' = [holds EXCEPT ![m] = m] /\ objs' = [objs EXCEPT ![m] = Made(db)]
          /\ cache' = m /\ db' = [db EXCEPT !.row = TRUE]
      BY <2>2 DEF Start
    <3>2. Made(db) \in Shapes /\ Entries(Made(db)) \subseteq db.msgs
      BY <1>2, MadeObject
    <3>3. db' \in Tables /\ db'.msgs = db.msgs
      BY <1>2, <3>1 DEF Tables
    <3>4. db.msgs \subseteq Live
      BY DEF Live
    <3>5. /\ holds'[m] = m /\ holds' \in [Msg -> Links] /\ objs' \in [Msg -> Shapes]
          /\ objs'[m] = Made(db) /\ \A o \in Msg \ {m} : objs'[o] = objs[o]
      BY <1>2, <3>1, <3>2 DEF Links
    <3> QED
      BY <3>1, <3>2, <3>3, <3>4, <3>5
  <2> QED
    BY <2>1, <2>2
<1>5. Effect({})
  <2>1. \A n \in Msg : pc'[n] \in Running => holds'[n] \in Msg
    BY <1>3, <1>4
  <2>2. cache' \in Links
    BY <1>4 DEF Links
  <2>3. db'.msgs = db.msgs \cup {} /\ wiped' = wiped
    BY <1>1, <1>4
  <2> QED
    BY <1>4, <2>1, <2>2, <2>3 DEF Effect
<1>6. \A n \in Msg : pc'[n] \in Mid => n = m
  BY <1>3 DEF Mid
<1> QED
  BY <1>1, <1>4, <1>5, <1>6 DEF Keeps

\* The end of a turn stores the answer, or nothing when it is empty.
LEMMA ReplyEffect ==
  ASSUME QInv, DInv, NEW m \in Msg, NEW text \in BOOLEAN, StoreReply(m, text),
         pc[m] \in Mid, pc' = [pc EXCEPT ![m] = "sending"], UNCHANGED <<holds, cache, hist>>
  PROVE  LET new == IF text THEN {ReplyEntry(m)} ELSE {}
         IN  Effect(new) /\ Keeps(new)
<1> DEFINE new == IF text THEN {ReplyEntry(m)} ELSE {}
           o == holds[m]
           full == IF text THEN Push(objs[o], ReplyEntry(m)) ELSE objs[o]
<1>1. /\ o \in Msg /\ objs \in [Msg -> Shapes] /\ objs[o] \in Shapes /\ db \in Tables
      /\ holds \in [Msg -> Links] /\ cache \in Links
  BY DEF Mid, DInv, DTypes
<1>2. ReplyEntry(m) \in Entry
  BY DEF DInv, DTypes, ReplyEntry, Entry, Roles
<1>3. /\ objs' = [objs EXCEPT ![o] = Persisted(full)]
      /\ db' = [db EXCEPT !.msgs = @ \cup Rows(full)]
  BY DEF StoreReply, ReplyEntry
<1>4. /\ Persisted(full) \in Shapes /\ Entries(Persisted(full)) \subseteq Entries(objs[o]) \cup new
      /\ Rows(full) = new
  <2>1. CASE text
    BY <1>1, <1>2, <2>1, PushedObject
  <2>2. CASE ~text
    BY <1>1, <2>2, IdleObject
  <2> QED
    BY <2>1, <2>2
<1>5. new \subseteq Entry
  BY <1>2
<1> HIDE DEF full, new
<1>6. db' \in Tables /\ db'.msgs = db.msgs \cup new
  BY <1>1, <1>3, <1>4, <1>5 DEF Tables
<1>7. objs' \in [Msg -> Shapes] /\ \A x \in Msg : Entries(objs'[x]) \subseteq Entries(objs[x]) \cup new
  BY <1>1, <1>3, <1>4
<1>8. pc \in [Msg -> PCs \ {"rejected"}]
  BY DEF QInv, QTypes
<1>9. Effect(new)
  <2>1. \A n \in Msg : pc'[n] \in Running => holds'[n] \in Msg
    BY <1>1, <1>8 DEF DInv, DTypes
  <2>2. holds' \in [Msg -> Links] /\ cache' \in Links /\ wiped' = wiped
    BY <1>1 DEF hist
  <2> QED
    BY <1>5, <1>6, <1>7, <2>1, <2>2 DEF Effect
<1>10. ASSUME NEW n \in Msg, pc'[n] \in Mid
       PROVE  Entries(objs'[holds'[n]]) \subseteq Live \cup new
  <2>1. pc[n] \in Mid /\ holds[n] \in Msg /\ holds'[n] = holds[n]
    BY <1>8, <1>10 DEF Mid, DInv, DTypes
  <2>2. Entries(objs[holds[n]]) \subseteq Live
    BY <2>1 DEF Live
  <2> QED
    BY <1>7, <2>1, <2>2
<1>11. cache' # None => Entries(objs'[cache']) \subseteq Live \cup new
  <2> SUFFICES ASSUME cache # None PROVE Entries(objs'[cache]) \subseteq Live \cup new
    OBVIOUS
  <2>1. cache \in Msg
    BY <1>1 DEF Links
  <2>2. Entries(objs[cache]) \subseteq Live
    BY <2>1, MsgFacts DEF Live
  <2> QED
    BY <1>7, <2>1, <2>2
<1>12. begun' = begun
  BY DEF hist
<1>13. Effect(new) /\ Keeps(new)
  BY <1>9, <1>10, <1>11, <1>12 DEF Keeps
<1> QED
  BY <1>13 DEF new

-----------------------------------------------------------------------------
(* Time stamps, answers and resets *)

\* The clock in a step that adds the entries of new.
Clocks(new) ==
  /\ came' \in [Msg -> Nat]
  /\ \/ \E m \in Msg : /\ new = {} /\ clock' = clock + 1 /\ came' = [came EXCEPT ![m] = clock + 1]
                      /\ \A n \in Msg : n # m /\ pc'[n] \in Waits => pc[n] \in Waits
     \/ /\ \A n \in Msg : pc'[n] \in Waits => pc[n] \in Waits /\ came'[n] = came[n]
        /\ \/ new = {} /\ clock' = clock
           \/ \E m \in Msg : /\ pc[m] \in Waits /\ pc'[m] \notin Waits
                            /\ new = {UserEntry(m)} /\ clock' = clock
           \/ \E m \in Msg : new = {ReplyEntry(m)} /\ clock' = clock + 1

\* Answers and stop requests in such a step.
Speaks(new) ==
  /\ \A e \in new : e.role = "assistant" => pc'[e.of] = "sending" /\ e.of \notin stopped'
  /\ \A m \in Msg : pc[m] \in {"sending", "done", "lost"} => pc'[m] \in {"sending", "done", "lost"}
  /\ stopped' \subseteq stopped \cup ({ctrl} \ {None})
  /\ \A m \in stopped' : pc'[m] \in {"executing", "done"}
  /\ ctrl' # None => ctrl' \in Msg /\ pc'[ctrl'] = "executing"

\* Nobody enters the turns of the current conversation but those who arrived in it.
Flows ==
  \A m \in Msg : pc'[m] \in Mid \cup {"unsent", "queued"} => pc[m] \in Mid \cup {"unsent", "queued"}

\* Time stamps stay different and in the past.
LEMMA StampsKept ==
  ASSUME DInv, NEW new, Effect(new), Clocks(new)
  PROVE  Stamps'
<1> USE DEF DInv, DTypes
<1>1. /\ clock \in Nat /\ clock' \in {clock, clock + 1} /\ came \in [Msg -> Nat]
      /\ came' \in [Msg -> Nat]
  BY DEF Clocks
<1>2. \A e \in Known \cup new : e.at \in Nat
  BY KnownEntries DEF Effect, Entry
<1>3. \A e \in Known : e.at <= clock
  BY DEF Stamps
<1>4. \A e \in new : e.at <= clock' /\ \A d \in db.msgs : d.at # e.at
  <2> SUFFICES ASSUME NEW e \in new PROVE e.at <= clock' /\ \A d \in db.msgs : d.at # e.at
    OBVIOUS
  <2>1. ASSUME NEW m \in Msg, pc[m] \in Waits, new = {UserEntry(m)}, clock' = clock
        PROVE  e.at <= clock' /\ \A d \in db.msgs : d.at # e.at
    BY <2>1 DEF Stamps, UserEntry
  <2>2. ASSUME NEW m \in Msg, new = {ReplyEntry(m)}, clock' = clock + 1
        PROVE  e.at <= clock' /\ \A d \in db.msgs : d.at # e.at
    <3>1. e.at = clock + 1
      BY <2>2 DEF ReplyEntry
    <3>2. \A d \in db.msgs : d.at <= clock /\ d.at \in Nat
      BY <1>2, <1>3 DEF Known
    <3> QED
      BY <1>1, <2>2, <3>1, <3>2
  <2> QED
    BY <2>1, <2>2 DEF Clocks
<1>5. \A d, e \in new : d = e
  BY DEF Clocks
<1>6. IsFiniteSet(new)
  <2>1. CASE new = {}
    BY <2>1, FS_EmptySet
  <2>2. ASSUME NEW x \in new PROVE IsFiniteSet(new)
    <3>1. new = {x}
      BY <1>5
    <3> QED
      BY <3>1, FS_Singleton
  <2> QED
    BY <2>1, <2>2
<1>7. Stamped(db'.msgs)
  <2>1. IsFiniteSet(db.msgs \cup new)
    BY <1>6, FS_Union DEF Stamps, Stamped
  <2>2. IsFiniteSet(db'.msgs) /\ db'.msgs \subseteq Entry
    BY <1>6, <2>1 DEF Effect, Tables
  <2>3. db'.msgs \subseteq db.msgs \cup new
    BY DEF Effect
  <2>4. \A d, e \in db'.msgs : d.at = e.at => d = e
    BY <1>4, <1>5, <2>3 DEF Stamps, Stamped
  <2> QED
    BY <2>2, <2>4 DEF Stamped
<1>8. \A e \in Known' : e.at <= clock'
  <2> SUFFICES ASSUME NEW e \in Known' PROVE e.at <= clock'
    OBVIOUS
  <2>1. e \in Known \cup new
    BY KnownAfter
  <2>2. e \in Known => e.at <= clock /\ e.at \in Nat
    BY <1>2, <1>3
  <2> QED
    BY <1>1, <1>4, <2>1, <2>2
<1>9. ASSUME NEW m \in Msg, pc'[m] \in Waits
      PROVE  came'[m] <= clock' /\ \A e \in db'.msgs : e.at # came'[m]
  <2>1. db'.msgs \subseteq db.msgs \cup new
    BY DEF Effect
  <2>2. CASE pc[m] \in Waits /\ came'[m] = came[m]
    <3>1. came[m] \in Nat /\ came[m] <= clock /\ \A e \in db.msgs : e.at # came[m]
      BY <2>2 DEF Stamps
    <3>2. \A e \in new : e.at # came[m]
      <4>1. ASSUME NEW n \in Msg, pc[n] \in Waits, pc'[n] \notin Waits, new = {UserEntry(n)}
            PROVE  \A e \in new : e.at # came[m]
        BY <1>9, <2>2, <4>1 DEF Stamps, UserEntry
      <4>2. ASSUME NEW n \in Msg, new = {ReplyEntry(n)}
            PROVE  \A e \in new : e.at # came[m]
        BY <1>1, <3>1, <4>2 DEF ReplyEntry
      <4> QED
        BY <4>1, <4>2 DEF Clocks
    <3> QED
      BY <1>1, <2>1, <2>2, <3>1, <3>2
  <2>3. CASE new = {} /\ clock' = clock + 1 /\ came'[m] = clock + 1
    <3>1. \A e \in db.msgs : e.at \in Nat /\ e.at <= clock
      BY <1>2, <1>3 DEF Known
    <3> QED
      BY <1>1, <2>1, <2>3, <3>1
  <2> QED
    BY <1>1, <1>9, <2>2, <2>3 DEF Clocks
<1>10. ASSUME NEW m \in Msg, NEW n \in Msg, pc'[m] \in Waits, pc'[n] \in Waits, came'[m] = came'[n]
       PROVE  m = n
  <2>1. CASE \A k \in Msg : pc'[k] \in Waits => pc[k] \in Waits /\ came'[k] = came[k]
    BY <1>10, <2>1 DEF Stamps
  <2>2. ASSUME NEW k \in Msg, came' = [came EXCEPT ![k] = clock + 1],
               \A i \in Msg : i # k /\ pc'[i] \in Waits => pc[i] \in Waits
        PROVE  m = n
    <3>1. \A i \in Msg : i # k /\ pc'[i] \in Waits =>
            pc[i] \in Waits /\ came'[i] = came[i] /\ came[i] <= clock /\ came[i] \in Nat
      BY <2>2 DEF Stamps
    <3>2. came'[k] = clock + 1
      BY <1>1, <2>2
    <3> QED
      BY <1>1, <1>10, <3>1, <3>2 DEF Stamps
  <2> QED
    BY <2>1, <2>2 DEF Clocks
<1> QED
  BY <1>7, <1>8, <1>9, <1>10 DEF Stamps

\* What is newer than the last clearing stays stored: a clearing makes everything
\* else old.
LEMMA StoredKept ==
  ASSUME DInv, NEW new, Effect(new)
  PROVE  Stored'
<1> SUFFICES ASSUME NEW e \in Known', e.at > wiped' PROVE e \in db'.msgs
  BY DEF Stored
<1>1. e \in Known \cup new
  BY KnownAfter
<1>2. CASE e \in new
  BY <1>2 DEF Effect
<1>3. CASE e \in Known
  <2>1. e.at <= clock /\ (e.at > wiped => e \in db.msgs) /\ e.at \in Nat /\ clock \in Nat
    BY <1>3, KnownEntries DEF DInv, DTypes, Stamps, Stored, Entry
  <2> QED
    BY <2>1 DEF Effect
<1> QED
  BY <1>1, <1>2, <1>3

\* Answers stay those of turns that were not stopped: only a turn that executes can
\* be stopped, and it has no answer yet.
LEMMA SilentKept ==
  ASSUME DInv, NEW new, Effect(new), Speaks(new)
  PROVE  Silent'
<1>1. stopped \subseteq Msg /\ stopped' \subseteq Msg
  BY DEF DInv, Silent, Speaks
<1>2. ASSUME NEW e \in Known', e.role = "assistant"
      PROVE  pc'[e.of] \in {"sending", "done", "lost"} /\ e.of \notin stopped'
  <2>1. e \in Known \cup new
    BY KnownAfter
  <2>2. CASE e \in new
    BY <1>2, <2>2 DEF Speaks
  <2>3. CASE e \in Known
    <3>1. e.of \in Msg /\ pc[e.of] \in {"sending", "done", "lost"} /\ e.of \notin stopped
      BY <1>2, <2>3, KnownEntries DEF DInv, Silent, Entry
    <3>2. e.of \notin {ctrl} \ {None}
      BY <3>1 DEF DInv, Silent
    <3> QED
      BY <3>1, <3>2 DEF Speaks
  <2> QED
    BY <2>1, <2>2, <2>3
<1> QED
  BY <1>1, <1>2 DEF Silent, Speaks

\* What turns can come upon stays of the current conversation.
LEMMA CurrentKept ==
  ASSUME DInv, NEW new, Effect(new), Keeps(new), Flows, \A e \in new : begun <= e.of
  PROVE  Current'
<1>1. begun' = begun /\ begun \in Nat
  BY DEF Keeps, DInv, DTypes
<1>2. \A e \in Live \cup new : e.of >= begun
  <2>1. \A e \in new : e.of \in Nat
    BY MsgFacts DEF Effect, Entry
  <2> QED
    BY <1>1, <2>1 DEF DInv, Current
<1>3. \A m \in Msg : pc[m] \in Mid \cup {"unsent", "queued"} => begun <= m
  BY DEF DInv, Current
<1> QED
  BY <1>1, <1>2, <1>3, LiveAfter DEF Flows, Current

\* After a reset by a turn.
LEMMA CurrentAfterReset ==
  ASSUME NEW new, Live' \subseteq new, begun' \in Nat,
         \A e \in new : e.of \in Nat /\ begun' <= e.of,
         \A m \in Msg : pc'[m] \in Mid \cup {"unsent", "queued"} => begun' <= m
  PROVE  Current'
BY DEF Current

\* The invariant from its parts.
LEMMA Conclude ==
  ASSUME DInv, NEW new, Effect(new), Clocks(new), Speaks(new), Current', begun' \in Nat
  PROVE  DInv'
<1>1. DTypes'
  <2>1. clock' \in Nat /\ wiped' \in Nat /\ came' \in [Msg -> Nat]
    BY DEF DInv, DTypes, Clocks, Effect
  <2> QED
    BY <2>1 DEF DTypes, Effect
<1> QED
  BY <1>1, StampsKept, StoredKept, SilentKept DEF DInv

-----------------------------------------------------------------------------
(* The steps keep what is true of the data *)

\* Steps that leave session objects and tables alone.
LEMMA QuietForgets ==
  ASSUME DInv, UNCHANGED <<memory, db, hist>>,
         \A m \in Msg : pc'[m] \in Running => pc[m] \in Running,
         \A m \in Msg : pc'[m] \in Mid => pc[m] \in Mid
  PROVE  Forgets
BY DEF DInv, DTypes, memory, hist, Forgets

\* A message arrives.
LEMMA ArriveData == ASSUME QInv, DInv, NEW m \in Msg, Arrive(m) PROVE DInv'
<1>1. /\ pc[m] = "unsent" /\ pc' = [pc EXCEPT ![m] = "queued"]
      /\ clock' = clock + 1 /\ came' = [came EXCEPT ![m] = clock']
      /\ UNCHANGED <<memory, db, ctrl, stopped, hist>>
  BY DEF Arrive, Goes
<1>2. pc'[m] = "queued" /\ \A n \in Msg : n # m => pc'[n] = pc[n]
  BY <1>1 DEF QInv, QTypes
<1>3. Forgets
  BY <1>1, <1>2, QuietForgets DEF Mid, Running
<1>4. Clocks({})
  <2>1. came' \in [Msg -> Nat] /\ came' = [came EXCEPT ![m] = clock + 1]
    BY <1>1 DEF DInv, DTypes
  <2> QED
    BY <1>1, <1>2, <2>1 DEF Clocks
<1>5. Speaks({})
  BY <1>1, <1>2 DEF Speaks, DInv, Silent
<1>6. Flows
  BY <1>1, <1>2 DEF Flows
<1>7. begun' \in Nat
  BY <1>1 DEF hist, DInv, DTypes
<1> QED
  BY <1>3, <1>4, <1>5, <1>6, <1>7, ForgetEffect, CurrentKept, Conclude

\* A turn moves on and adds nothing, without its time stamp if it needs none.
Passes(m, p) ==
  /\ pc[m] \in Running /\ pc' = [pc EXCEPT ![m] = p]
  /\ p \notin {"unsent", "queued"}
  /\ p \in Mid => pc[m] \in Mid
  /\ p \in Waits => pc[m] \in Waits
  /\ pc[m] \in {"sending", "done", "lost"} => p \in {"sending", "done", "lost"}
  /\ m \in stopped => p \in {"executing", "done"}
  /\ p = "executing" => pc[m] = "executing"
  /\ ctrl' \in {ctrl, None} /\ (ctrl' = m => p = "executing")
  /\ stopped' = stopped
  /\ clock' = clock /\ came' \in {came, [came EXCEPT ![m] = 0]}
  /\ p \in Waits => came' = came

\* Such a step keeps what is true if it also forgets nothing that is in use.
LEMMA PassData ==
  ASSUME QInv, DInv, NEW m \in Msg, NEW p \in PCs, Passes(m, p), Forgets
  PROVE  DInv'
<1>1. pc'[m] = p /\ \A n \in Msg : n # m => pc'[n] = pc[n]
  BY DEF Passes, QInv, QTypes
<1>2. came' \in [Msg -> Nat] /\ \A n \in Msg : n # m => came'[n] = came[n]
  BY DEF Passes, DInv, DTypes
<1>3. Clocks({})
  BY <1>1, <1>2 DEF Clocks, Passes
<1>4. Speaks({})
  BY <1>1 DEF Passes, Speaks, DInv, Silent
<1>5. Flows
  BY <1>1 DEF Flows, Passes
<1>6. begun' \in Nat
  BY DEF Forgets, DInv, DTypes
<1> QED
  BY <1>3, <1>4, <1>5, <1>6, ForgetEffect, CurrentKept, Conclude

\* The steps of a turn that only move it on.
LEMMA MoveData ==
  ASSUME QInv, DInv, NEW m \in Msg,
         SpeechFails(m) \/ ResetCommand(m) \/ IdleTooLong(m) \/ Synthesize(m)
  PROVE  DInv'
<1>1. PICK p \in {"sending", "resetting", "idling", "synthesizing"} :
        /\ pc' = [pc EXCEPT ![m] = p]
        /\ \/ pc[m] = "speech" /\ ctrl' = ctrl /\ p # "synthesizing"
           \/ pc[m] = "executing" /\ ctrl' = None /\ p = "synthesizing" /\ m \notin stopped
        /\ UNCHANGED <<memory, db, hist, came, clock, stopped>>
  BY DEF SpeechFails, ResetCommand, IdleTooLong, Synthesize, Goes, ControllerGoes
<1>2. pc'[m] = p /\ \A n \in Msg : n # m => pc'[n] = pc[n]
  BY <1>1 DEF QInv, QTypes
<1>3. Forgets
  BY <1>1, <1>2, QuietForgets DEF Mid, Running
<1>4. Passes(m, p)
  <2>1. pc[m] = "speech" => m \notin stopped /\ ctrl # m
    BY MsgFacts DEF DInv, Silent
  <2>2. None # m
    BY MsgFacts
  <2> QED
    BY <1>1, <2>1, <2>2 DEF Passes, Mid, Running, Waits
<1> QED
  BY <1>1, <1>3, <1>4, PassData DEF PCs

\* The steps that end a turn.
LEMMA EndData == ASSUME QInv, DInv, NEW m \in Msg, Aborted(m) \/ Sent(m) PROVE DInv'
<1>1. /\ pc' = [pc EXCEPT ![m] = "done"]
      /\ \/ pc[m] = "sending" /\ ctrl' = ctrl
         \/ pc[m] = "executing" /\ ctrl' = None
      /\ Ending(m) /\ UNCHANGED <<cache, clock, db, stopped, hist>>
  BY DEF Aborted, Sent, Goes, Ends, Caught, ControllerGoes
<1>2. pc'[m] = "done" /\ \A n \in Msg : n # m => pc'[n] = pc[n]
  BY <1>1 DEF QInv, QTypes
<1>3. Forgets
  <2>1. /\ holds' = [holds EXCEPT ![m] = None] /\ Remember(objs)
        /\ holds \in [Msg -> Links] /\ objs \in [Msg -> Shapes] /\ db' \in Tables
    BY <1>1 DEF Ending, DInv, DTypes
  <2>2. objs' \in [Msg -> Shapes] /\ \A o \in Msg : Entries(objs'[o]) \subseteq Entries(objs[o])
    BY <2>1, Remembered
  <2>3. holds' \in [Msg -> Links] /\ \A n \in Msg : n # m => holds'[n] = holds[n]
    BY <2>1 DEF Links
  <2> QED
    BY <1>1, <1>2, <2>1, <2>2, <2>3 DEF Forgets, Running, Mid, hist
<1>4. Passes(m, "done")
  <2>1. pc[m] = "sending" => ctrl # m
    BY MsgFacts DEF DInv, Silent
  <2>2. None # m
    BY MsgFacts
  <2> QED
    BY <1>1, <2>1, <2>2 DEF Passes, Mid, Running, Waits, Ending
<1> QED
  BY <1>3, <1>4, PassData DEF PCs

\* Steps that no turn takes and that leave the data of the turns alone.
LEMMA QuietData ==
  ASSUME QInv, DInv, UNCHANGED <<pc, came, clock, memory, db, ctrl, hist>>,
         stopped' \in {stopped, stopped \cup {ctrl}},
         ctrl = None => stopped' = stopped
  PROVE  DInv'
<1>1. Forgets
  BY QuietForgets
<1>2. Clocks({})
  BY DEF Clocks, DInv, DTypes
<1>3. Speaks({})
  BY DEF Speaks, DInv, Silent
<1>4. Flows
  BY DEF Flows
<1>5. begun' \in Nat
  BY DEF hist, DInv, DTypes
<1> QED
  BY <1>1, <1>2, <1>3, <1>4, <1>5, ForgetEffect, CurrentKept, Conclude

\* What others do to the cache and the tables.
LEMMA OtherData ==
  ASSUME QInv, DInv, Delete \/ Evict \/ \E k \in Kinds : EndReset(k)
  PROVE  DInv'
<1>1. UNCHANGED <<queue, holds, ctrl, stopped, begun>>
  BY DEF Delete, Evict, EndReset, memory, hist
<1>2. \/ db' = db /\ wiped' = wiped
      \/ db' \in {Cleared(db), [row |-> FALSE, msgs |-> {}]} /\ wiped' = clock
  BY DEF Delete, Evict, EndReset, Clear, hist
<1>3. /\ cache' \in {cache, None}
      /\ objs' = objs \/ Remember(objs)
  BY DEF Delete, Evict, EndReset, memory, Evicted
<1>4. Forgets
  <2>1. objs \in [Msg -> Shapes] /\ holds \in [Msg -> Links] /\ db \in Tables
    BY DEF DInv, DTypes
  <2>2. objs' \in [Msg -> Shapes] /\ \A o \in Msg : Entries(objs'[o]) \subseteq Entries(objs[o])
    BY <1>3, <2>1, Remembered
  <2>3. /\ db' \in Tables
        /\ \/ db'.msgs = db.msgs /\ wiped' = wiped
           \/ db'.msgs = {} /\ wiped' = clock
    <3>1. Cleared(db) \in Tables /\ Cleared(db).msgs = {}
      BY <2>1 DEF Tables, Cleared
    <3>2. [row |-> FALSE, msgs |-> {}] \in Tables
      BY DEF Tables
    <3>3. CASE db' = db /\ wiped' = wiped
      BY <2>1, <3>3
    <3>4. CASE db' = Cleared(db) /\ wiped' = clock
      BY <3>1, <3>4
    <3>5. CASE db' = [row |-> FALSE, msgs |-> {}] /\ wiped' = clock
      BY <3>2, <3>5
    <3> QED
      BY <1>2, <3>3, <3>4, <3>5
  <2> QED
    BY <1>1, <1>3, <2>1, <2>2, <2>3 DEF Forgets, queue
<1>5. Clocks({})
  BY <1>1 DEF Clocks, DInv, DTypes, queue
<1>6. Speaks({})
  BY <1>1 DEF Speaks, DInv, Silent, queue
<1>7. Flows
  BY <1>1 DEF Flows, queue
<1>8. begun' \in Nat
  BY <1>1 DEF DInv, DTypes
<1> QED
  BY <1>4, <1>5, <1>6, <1>7, <1>8, ForgetEffect, CurrentKept, Conclude

\* A restart leaves the tables.
LEMMA RestartData == ASSUME QInv, DInv, Restart PROVE DInv'
<1>1. /\ pc' = [m \in Msg |-> IF pc[m] \in {"unsent", "done"} THEN pc[m] ELSE "lost"]
      /\ holds' = [m \in Msg |-> None] /\ objs' = [m \in Msg |-> Blank]
      /\ cache' = None /\ ctrl' = None /\ stopped' = {} /\ came' = [m \in Msg |-> 0]
      /\ UNCHANGED <<clock, db, hist>>
  BY DEF Restart
<1>2. \A m \in Msg : (pc'[m] = "unsent" /\ pc[m] = "unsent") \/ pc'[m] \in {"done", "lost"}
  BY <1>1
<1>3. Forgets
  BY <1>1, <1>2, BlankObject DEF Forgets, DInv, DTypes, Links, Running, Mid, hist
<1>4. Clocks({})
  BY <1>1, <1>2 DEF Clocks, Waits
<1>5. Speaks({})
  BY <1>1 DEF Speaks
<1>6. Flows
  BY <1>2 DEF Flows, Mid, Running
<1>7. begun' \in Nat
  BY <1>1 DEF DInv, DTypes, hist
<1> QED
  BY <1>3, <1>4, <1>5, <1>6, <1>7, ForgetEffect, CurrentKept, Conclude

\* A turn begins.
LEMMA StartData == ASSUME QInv, DInv, NEW m \in Msg, Start(m) PROVE DInv'
<1>1. /\ pc[m] = "queued" /\ pc' = [pc EXCEPT ![m] = "speech"]
      /\ UNCHANGED <<came, clock, ctrl, stopped, hist>>
  BY DEF Start, Goes
<1>2. pc'[m] = "speech" /\ \A n \in Msg : n # m => pc'[n] = pc[n]
  BY <1>1 DEF QInv, QTypes
<1>3. Clocks({})
  BY <1>1, <1>2 DEF Clocks, Waits, DInv, DTypes
<1>4. Speaks({})
  BY <1>1, <1>2 DEF Speaks, DInv, Silent
<1>5. Flows
  BY <1>1, <1>2 DEF Flows
<1>6. begun' \in Nat
  BY <1>1 DEF hist, DInv, DTypes
<1> QED
  BY <1>3, <1>4, <1>5, <1>6, StartEffect, CurrentKept, Conclude

\* The clock and the answers when an execution begins: the message is stored with
\* the time stamp it carried, and it can be stopped from now on.
LEMMA ExecuteClocks ==
  ASSUME QInv, DInv, NEW m \in Msg, Proceed(m) \/ IdleReset(m)
  PROVE  /\ Clocks({UserEntry(m)}) /\ Speaks({UserEntry(m)})
         /\ pc[m] \in Waits \ {"queued"} /\ pc' = [pc EXCEPT ![m] = "executing"]
<1>1. /\ pc[m] \in {"speech", "idling"} /\ pc' = [pc EXCEPT ![m] = "executing"]
      /\ came' = [came EXCEPT ![m] = 0] /\ ctrl' = m /\ UNCHANGED <<clock, stopped>>
  BY DEF Proceed, IdleReset, Execute, Goes
<1>2. pc'[m] = "executing" /\ \A n \in Msg : n # m => pc'[n] = pc[n]
  BY <1>1 DEF QInv, QTypes
<1>3. came' \in [Msg -> Nat] /\ \A n \in Msg : n # m => came'[n] = came[n]
  BY <1>1 DEF DInv, DTypes
<1>4. Clocks({UserEntry(m)})
  BY <1>1, <1>2, <1>3 DEF Clocks, Waits
<1>5. Speaks({UserEntry(m)})
  BY <1>1, <1>2 DEF Speaks, DInv, Silent, UserEntry
<1> QED
  BY <1>1, <1>4, <1>5 DEF Waits

\* An execution begins, with the object of the turn.
LEMMA ProceedData == ASSUME QInv, DInv, NEW m \in Msg, Proceed(m) PROVE DInv'
<1>1. /\ Clocks({UserEntry(m)}) /\ Speaks({UserEntry(m)})
      /\ pc[m] \in Waits \ {"queued"} /\ pc' = [pc EXCEPT ![m] = "executing"]
  BY ExecuteClocks
<1>2. pc[m] \in Mid /\ \A n \in Msg : n # m => pc'[n] = pc[n]
  BY <1>1 DEF QInv, QTypes, Waits, Mid, Running
<1>3. Flows
  BY <1>1, <1>2 DEF Flows
<1>4. \A e \in {UserEntry(m)} : begun <= e.of
  BY <1>2 DEF UserEntry, DInv, Current
<1>5. Effect({UserEntry(m)}) /\ Keeps({UserEntry(m)})
  BY ProceedEffect
<1>6. begun' \in Nat
  BY <1>5 DEF Keeps, DInv, DTypes
<1>7. Current'
  BY <1>3, <1>4, <1>5, CurrentKept
<1> QED
  BY <1>1, <1>5, <1>6, <1>7, Conclude

\* Messages behind a turn that resets the session are those of the conversation
\* that begins.
LEMMA Behinds ==
  ASSUME QInv, NEW m \in Msg, NEW p, pc[m] \in Running, pc' = [pc EXCEPT ![m] = p],
         NEW n \in Msg, n # m, pc'[n] \in Mid \cup {"unsent", "queued"}
  PROVE  m + 1 <= n
<1>1. pc'[n] = pc[n]
  BY DEF QInv, QTypes
<1>2. pc[n] \notin Running /\ (pc[n] \in {"unsent", "queued"} => m < n)
  BY Alone
<1> QED
  BY <1>1, <1>2, MsgFacts DEF Mid

\* An execution begins after a reset for idleness.
LEMMA IdleResetData == ASSUME QInv, DInv, NEW m \in Msg, IdleReset(m) PROVE DInv'
<1>1. /\ Clocks({UserEntry(m)}) /\ Speaks({UserEntry(m)})
      /\ pc[m] \in Waits \ {"queued"} /\ pc' = [pc EXCEPT ![m] = "executing"]
  BY ExecuteClocks
<1>2. pc[m] \in Running /\ m \in Nat
  BY <1>1, MsgFacts DEF Waits, Running
<1>3. begun' = m
  BY DEF IdleReset
<1>4. Effect({UserEntry(m)}) /\ Live' \subseteq {UserEntry(m)}
  BY IdleResetEffect
<1>5. \A e \in {UserEntry(m)} : e.of \in Nat /\ begun' <= e.of
  BY <1>2, <1>3 DEF UserEntry
<1>6. ASSUME NEW n \in Msg, pc'[n] \in Mid \cup {"unsent", "queued"} PROVE begun' <= n
  <2>1. n # m => m + 1 <= n
    BY <1>1, <1>2, <1>6, Behinds
  <2> QED
    BY <1>2, <1>3, <2>1, MsgFacts
<1>7. Current'
  BY <1>2, <1>3, <1>4, <1>5, <1>6, CurrentAfterReset
<1> QED
  BY <1>1, <1>2, <1>3, <1>4, <1>7, Conclude

\* A reset by command.
LEMMA CommandResetData == ASSUME QInv, DInv, NEW m \in Msg, CommandReset(m) PROVE DInv'
<1>1. /\ pc[m] = "resetting" /\ pc' = [pc EXCEPT ![m] = "sending"]
      /\ begun' = m + 1 /\ UNCHANGED <<came, clock, ctrl, stopped>>
  BY DEF CommandReset, Goes
<1>2. pc'[m] = "sending" /\ \A n \in Msg : n # m => pc'[n] = pc[n]
  BY <1>1 DEF QInv, QTypes
<1>3. pc[m] \in Running /\ m \in Nat
  BY <1>1, MsgFacts DEF Running
<1>4. Clocks({})
  BY <1>1, <1>2 DEF Clocks, Waits, DInv, DTypes
<1>5. Speaks({})
  BY <1>1, <1>2 DEF Speaks, DInv, Silent
<1>6. Effect({}) /\ Live' \subseteq {}
  BY CommandResetEffect
<1>7. ASSUME NEW n \in Msg, pc'[n] \in Mid \cup {"unsent", "queued"} PROVE begun' <= n
  <2>1. n # m
    BY <1>2, <1>7 DEF Mid
  <2> QED
    BY <1>1, <1>3, <1>7, <2>1, Behinds
<1>8. begun' \in Nat
  BY <1>1, <1>3
<1>9. Current'
  BY <1>6, <1>7, <1>8, CurrentAfterReset
<1> QED
  BY <1>4, <1>5, <1>6, <1>8, <1>9, Conclude

\* An answer is stored.
LEMMA ReplyData ==
  ASSUME QInv, DInv, NEW m \in Msg,
         Synthesized(m) \/ \E text \in BOOLEAN : Answered(m, text)
  PROVE  DInv'
<1>1. PICK text \in BOOLEAN :
        /\ StoreReply(m, text)
        /\ pc[m] \in {"executing", "synthesizing"} /\ pc' = [pc EXCEPT ![m] = "sending"]
        /\ ctrl' = IF pc[m] = "executing" THEN None ELSE ctrl
        /\ m \notin stopped /\ UNCHANGED <<came, holds, cache, stopped, hist>>
  BY DEF Synthesized, Answered, Goes, ControllerGoes, DInv, Silent
<1> DEFINE new == IF text THEN {ReplyEntry(m)} ELSE {}
<1>2. pc'[m] = "sending" /\ \A n \in Msg : n # m => pc'[n] = pc[n]
  BY <1>1 DEF QInv, QTypes
<1>3. Effect(new) /\ Keeps(new)
  BY <1>1, ReplyEffect DEF Mid, Running
<1>4. \/ new = {} /\ clock' = clock
      \/ new = {ReplyEntry(m)} /\ clock' = clock + 1
  <2>1. clock' = IF text THEN clock + 1 ELSE clock
    BY <1>1 DEF StoreReply
  <2> QED
    BY <2>1
<1> HIDE DEF new
<1>5. Clocks(new)
  <2>1. \A n \in Msg : pc'[n] \in Waits => pc[n] \in Waits /\ came'[n] = came[n]
    BY <1>1, <1>2 DEF Waits
  <2> QED
    BY <1>1, <1>4, <2>1 DEF Clocks, DInv, DTypes
<1>6. Speaks(new)
  <2>1. ctrl' # m
    BY <1>1, MsgFacts DEF DInv, Silent
  <2>2. \A e \in new : e.of = m
    BY <1>4 DEF ReplyEntry
  <2> QED
    BY <1>1, <1>2, <2>1, <2>2 DEF Speaks, DInv, Silent
<1>7. Flows
  BY <1>1, <1>2 DEF Flows, Mid, Running
<1>8. \A e \in new : begun <= e.of
  BY <1>1, <1>4 DEF ReplyEntry, DInv, Current, Mid, Running
<1>9. begun' \in Nat
  BY <1>1 DEF hist, DInv, DTypes
<1>10. Current'
  BY <1>3, <1>7, <1>8, CurrentKept
<1> QED
  BY <1>3, <1>5, <1>6, <1>9, <1>10, Conclude

\* Every step.
LEMMA NextData == ASSUME QInv, DInv, [Next]_vars PROVE DInv'
<1>1. ASSUME NEW m \in Msg, Arrive(m) PROVE DInv'
  BY <1>1, ArriveData
<1>2. ASSUME NEW m \in Msg, Turn(m) PROVE DInv'
  BY <1>2, StartData, ProceedData, MoveData, CommandResetData, IdleResetData, ReplyData, EndData
     DEF Turn
<1>3. CASE Delete \/ Evict \/ \E k \in Kinds : EndReset(k)
  BY <1>3, OtherData
<1>4. CASE Restart
  BY <1>4, RestartData
<1>5. CASE (\E m \in Msg : Unlock(m)) \/ Stop \/ BeginReset \/ UNCHANGED vars
  <2>1. UNCHANGED <<pc, came, clock, memory, db, ctrl, hist>>
    BY <1>5 DEF Unlock, Stop, BeginReset, vars, queue, memory, hist
  <2>2. stopped' = stopped \/ (ctrl # None /\ stopped' = stopped \cup {ctrl})
    BY <1>5 DEF Unlock, Stop, BeginReset, vars
  <2> QED
    BY <2>1, <2>2, QuietData
<1> QED
  BY <1>1, <1>2, <1>3, <1>4, <1>5 DEF Next

-----------------------------------------------------------------------------
(* The invariant, and what follows from it *)

\* The counters of the resets under way and of what others have done.
CTypes ==
  /\ resets \in [Kinds -> Nat]
  /\ used \in [resets : 0..MaxResets, deletes : 0..MaxDeletes, restarts : 0..MaxRestarts]

IInv == QInv /\ DInv /\ CTypes

\* At the start there is nothing.
LEMMA InitIInv == Init => IInv
<1> SUFFICES ASSUME Init PROVE IInv
  OBVIOUS
<1> USE DEF Init
<1>1. QInv
  BY InitQInv
<1>2. Known = {} /\ Live = {}
  BY BlankObject, MsgFacts DEF Known, Live, Mid, Running
<1>3. DTypes
  BY BlankObject DEF DTypes, Links, Tables, Running
<1>4. Stamped({})
  BY FS_EmptySet DEF Stamped
<1>5. Stamps /\ Stored /\ Silent
  BY <1>2, <1>4 DEF Stamps, Waits, Stored, Silent
<1>6. Current
  BY <1>2, MsgFacts DEF Current
<1>7. CTypes
  BY BoundAssumption DEF CTypes
<1> QED
  BY <1>1, <1>3, <1>5, <1>6, <1>7 DEF IInv, DInv

\* Every step keeps the counters within their bounds.
LEMMA NextCTypes == ASSUME CTypes, [Next]_vars PROVE CTypes'
<1> USE DEF CTypes
<1>1. CASE UNCHANGED <<resets, used>>
  BY <1>1
<1>2. ASSUME NEW m \in Msg, NEW text \in BOOLEAN, StoreReply(m, text), used' = used
      PROVE  CTypes'
  <2>1. resets' \in {resets, [resets EXCEPT !["max"] = @ + 1]}
    BY <1>2 DEF StoreReply
  <2> QED
    BY <1>2, <2>1 DEF Kinds
<1>3. CASE BeginReset
  <2>1. used' = [used EXCEPT !.resets = @ + 1] /\ used.resets < MaxResets
        /\ resets' = [resets EXCEPT !["plain"] = @ + 1]
    BY <1>3 DEF BeginReset
  <2> QED
    BY <2>1, BoundAssumption DEF Kinds
<1>4. ASSUME NEW k \in Kinds, EndReset(k) PROVE CTypes'
  <2>1. resets[k] > 0 /\ resets' = [resets EXCEPT ![k] = @ - 1] /\ used' = used
    BY <1>4 DEF EndReset
  <2> QED
    BY <2>1
<1>5. CASE Delete
  <2>1. used' = [used EXCEPT !.deletes = @ + 1] /\ used.deletes < MaxDeletes /\ resets' = resets
    BY <1>5 DEF Delete
  <2> QED
    BY <2>1, BoundAssumption
<1>6. CASE Restart
  <2>1. used' = [used EXCEPT !.restarts = @ + 1] /\ used.restarts < MaxRestarts
        /\ resets' = [k \in Kinds |-> 0]
    BY <1>6 DEF Restart
  <2> QED
    BY <2>1, BoundAssumption
<1>7. ASSUME NEW m \in Msg, Turn(m) PROVE CTypes'
  <2>1. CASE Synthesized(m)
    BY <1>2, <2>1 DEF Synthesized
  <2>2. ASSUME NEW text \in BOOLEAN, Answered(m, text) PROVE CTypes'
    BY <1>2, <2>2 DEF Answered
  <2>3. CASE \/ Start(m) \/ Proceed(m) \/ SpeechFails(m) \/ ResetCommand(m) \/ IdleTooLong(m)
             \/ CommandReset(m) \/ IdleReset(m) \/ Synthesize(m) \/ Aborted(m) \/ Sent(m)
    BY <1>1, <2>3 DEF Start, Proceed, SpeechFails, ResetCommand, IdleTooLong, CommandReset,
         IdleReset, Synthesize, Aborted, Sent
  <2> QED
    BY <1>7, <2>1, <2>2, <2>3 DEF Turn
<1>8. CASE \/ \E m \in Msg : Arrive(m) \/ Unlock(m)
           \/ Stop \/ Evict \/ UNCHANGED vars
  BY <1>1, <1>8 DEF Arrive, Unlock, Stop, Evict, vars
<1> QED
  BY <1>3, <1>4, <1>5, <1>6, <1>7, <1>8 DEF Next

\* Every step keeps the chain (see GatewayImplementsQueue).
LEMMA NextQInv == ASSUME QInv, [Next]_vars PROVE QInv'
BY StepImplements

\* The invariant holds throughout.
LEMMA Invariance == Spec => []IInv
<1>1. IInv /\ [Next]_vars => IInv'
  BY NextQInv, NextData, NextCTypes DEF IInv
<1> QED
  BY InitIInv, <1>1, PTL DEF Spec

\* Everything has its type: the turns, the chain, the session objects, which are
\* never longer than the cap and never count more than they hold, and the tables.
THEOREM TypeCorrect == Spec => []TypeOK
<1>1. IInv => TypeOK
  <2> SUFFICES ASSUME IInv PROVE TypeOK
    OBVIOUS
  <2> USE DEF IInv, DInv
  <2>1. ASSUME NEW m \in Msg
        PROVE  /\ objs[m].saved \in 0..Len(objs[m].msgs)
               /\ \A i \in DOMAIN objs[m].msgs : objs[m].msgs[i] \in Entry
               /\ Len(objs[m].msgs) <= Cap + 1
    <3>1. /\ objs[m].msgs \in Seq(Entry) /\ objs[m].saved = Len(objs[m].msgs)
          /\ Len(objs[m].msgs) <= Cap
      BY DEF DTypes, Shapes, Object
    <3>2. Len(objs[m].msgs) \in Nat /\ \A i \in DOMAIN objs[m].msgs : objs[m].msgs[i] \in Entry
      BY <3>1, LenProperties, ElementOfSeq
    <3> QED
      BY <3>1, <3>2, CapAssumption
  <2>2. db.row \in BOOLEAN /\ db.msgs \subseteq Entry
    BY DEF DTypes, Tables
  <2>3. ctrl \in Msg \cup {None} /\ stopped \subseteq Msg
    BY DEF Silent
  <2> QED
    BY <2>1, <2>2, <2>3 DEF TypeOK, QInv, QTypes, DTypes, Links, CTypes
<1> QED
  BY Invariance, <1>1, PTL

\* An acknowledged stop silences its turn (finally and catch of processMessage,
\* abortSession): of no stopped turn an answer is ever stored, spoken or sent,
\* whoever arrives, resets, deletes, evicts or restarts meanwhile.
THEOREM StoppedTurnsAreSilent == Spec => []StopMeansSilence
<1>1. IInv => StopMeansSilence
  BY DEF IInv, DInv, Silent, StopMeansSilence, Known
<1> QED
  BY Invariance, <1>1, PTL

\* After a reset by command or for idleness no turn works on what was said before
\* (resetSession, evict, getOrCreate): the cache, the tables and the objects that
\* turns hold keep nothing of it.
THEOREM ResetsStartAfresh == Spec => []FreshAfterReset
<1>1. IInv => FreshAfterReset
  <2> SUFFICES ASSUME IInv, NEW m \in Msg, pc[m] = "executing",
                      NEW i \in DOMAIN objs[holds[m]].msgs
               PROVE  objs[holds[m]].msgs[i].of >= begun
    BY DEF FreshAfterReset
  <2>1. objs[holds[m]].msgs[i] \in Live
    BY DEF Live, Entries, Mid, Running
  <2> QED
    BY <2>1 DEF IInv, DInv, Current
<1> QED
  BY Invariance, <1>1, PTL

\* persist loses nothing (its trim, its count, and the reloading of the rows): what
\* a turn's object holds since the tables were last cleared is in the tables.
THEOREM NothingIsLost == Spec => []NothingLost
<1>1. IInv => NothingLost
  <2> SUFFICES ASSUME IInv, NEW m \in Msg, pc[m] \in {"executing", "synthesizing", "sending"},
                      NEW i \in DOMAIN objs[holds[m]].msgs, objs[holds[m]].msgs[i].at > wiped
               PROVE  objs[holds[m]].msgs[i] \in db.msgs
    BY DEF NothingLost
  <2>1. holds[m] \in Msg
    BY DEF IInv, DInv, DTypes, Running
  <2>2. objs[holds[m]].msgs[i] \in Known
    BY <2>1 DEF Known, Entries
  <2> QED
    BY <2>2 DEF IInv, DInv, Stored
<1> QED
  BY Invariance, <1>1, PTL
=============================================================================
