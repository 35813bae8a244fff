------------------------ MODULE McpConnectionsProofs ------------------------
(***************************************************************************)
(* The safety of McpConnections for any number of invocations, connections *)
(* and changes of the credential.                                          *)
(*                                                                         *)
(* OpenIffCached is not inductive by itself: a spawn that completes enters *)
(* its connection, which would leave another open one behind.  It does not *)
(* because a spawn is only begun and only under way without an entry.      *)
(* That a request carries a secret the credential has had needs two facts  *)
(* about every invocation: it has seen the present version, if usable, and *)
(* the version of the connection it is about to send on.  The second is    *)
(* lasting because a name somebody holds is neither reused nor forgotten.  *)
(***************************************************************************)
EXTENDS McpConnections, TLAPS

\* An invocation under way has a connection, and until it is aborted it has seen
\* the usable version of the credential.
Good(i) ==
  /\ i \in Invocation
  /\ i.pc # "idle" => i.conn \in Conn
  /\ i.pc # "idle" /\ ~i.aborted /\ cred.usable => cred.version \in i.seen

\* What it is about to send, it has seen.
Sendable(i) == i.pc = "send" /\ ~i.aborted => conns[i.conn].version \in i.seen

\* Only the spawn under way is starting, and there is no entry meanwhile.
SpawnsAlone ==
  \A c \in Conn : conns[c].state = "starting" /\ c = spawning => cached = None

MInv ==
  /\ TypeOK /\ OpenIffCached /\ SpawnsAlone
  /\ \A k \in Call : Good(calls[k]) /\ Sendable(calls[k])

-----------------------------------------------------------------------------
(* What a step does to the connections and to the invocations *)

MapOK ==
  /\ conns \in [Conn -> Connection] /\ cached \in Conn \cup {None}
  /\ spawning \in Conn \cup {None}
  /\ OpenIffCached /\ SpawnsAlone

\* The version of a connection that somebody keeps is lasting.
VersionsKept ==
  \A k \in Call : calls[k].conn \in Conn /\ calls'[k].conn = calls[k].conn =>
    conns'[calls[k].conn].version = conns[calls[k].conn].version

\* The invariant's parts.
LEMMA InvParts ==
  ASSUME MInv
  PROVE  /\ MapOK /\ calls \in [Call -> Invocation]
         /\ cred \in [version : Nat, usable : BOOLEAN] /\ edits \in 0..MaxEdits
BY DEF MInv, MapOK, TypeOK

\* An aborted or idle invocation has nothing to send.
LEMMA QuietIsGood == Good(Quiet) /\ Quiet.pc = "idle"
<1>1. {} \in SUBSET Nat
  OBVIOUS
<1> QED
  BY <1>1 DEF Good, Quiet, Invocation, Kinds, PCs

\* A step of one invocation leaves the others as they are.
LEMMA CallStep ==
  ASSUME MInv, NEW k \in Call, UNCHANGED <<cred, edits>>, NEW i, Good(i), Become(k, i),
         MapOK', VersionsKept,
         i.pc = "send" /\ ~i.aborted => conns'[i.conn].version \in i.seen
  PROVE  MInv'
<1>1. calls' = [calls EXCEPT ![k] = i] /\ i \in Invocation
  BY DEF Become, Good
<1>2. /\ calls' \in [Call -> Invocation] /\ calls'[k] = i
      /\ \A j \in Call \ {k} : calls'[j] = calls[j]
  BY <1>1, InvParts
<1>3. ASSUME NEW j \in Call \ {k} PROVE Good(calls[j])' /\ Sendable(calls[j])'
  <2>1. Good(calls[j]) /\ Sendable(calls[j]) /\ calls'[j] = calls[j]
    BY <1>2 DEF MInv
  <2>2. calls[j].pc = "send" => conns'[calls[j].conn].version = conns[calls[j].conn].version
    BY <2>1 DEF VersionsKept, Good
  <2> QED
    BY <2>1, <2>2 DEF Good, Sendable
<1>4. Good(calls[k])' /\ Sendable(calls[k])'
  BY <1>2 DEF Good, Sendable
<1>5. TypeOK'
  BY <1>2, InvParts DEF TypeOK, MapOK
<1> QED
  BY <1>3, <1>4, <1>5 DEF MInv, MapOK

\* Forgetting what nobody holds changes nothing that matters.
LEMMA RememberKeeps ==
  ASSUME NEW f \in [Conn -> Connection], Remember(f)
  PROVE  /\ conns' \in [Conn -> Connection]
         /\ \A c \in Conn : /\ conns'[c].state = "open" <=> f[c].state = "open"
                            /\ conns'[c].state = "starting" <=> f[c].state = "starting"
         /\ \A k \in Call : calls'[k].conn \in Conn => conns'[calls'[k].conn] = f[calls'[k].conn]
<1>1. Gone \in Connection /\ Gone.state = "closed"
  BY DEF Gone, Connection, States
<1>2. ASSUME NEW c \in Conn
      PROVE  conns'[c] = IF f[c].state \in {"closed", "failed"} /\ ~Held(c)' THEN Gone ELSE f[c]
  BY DEF Remember
<1>3. conns' \in [Conn -> Connection]
  BY <1>1 DEF Remember
<1>4. ASSUME NEW k \in Call, NEW c \in Conn, calls'[k].conn = c PROVE conns'[c] = f[c]
  <2>1. Held(c)'
    BY <1>4 DEF Held
  <2> QED
    BY <1>2, <2>1
<1> QED
  BY <1>1, <1>2, <1>3, <1>4

\* With the map as it is, or without an entry that is closed with it.
LEMMA SameMap ==
  ASSUME MInv, NEW k \in Call, UNCHANGED <<cached, spawning>>, Remember(conns)
  PROVE  MapOK' /\ VersionsKept
<1>1. MapOK
  BY InvParts
<1>2. MapOK'
  BY <1>1, RememberKeeps DEF MapOK, OpenIffCached, SpawnsAlone
<1>3. VersionsKept
  BY <1>1, RememberKeeps DEF MapOK, VersionsKept
<1> QED
  BY <1>2, <1>3

\* Closing a connection, which takes its entry out of the map.
LEMMA ClosedMap ==
  ASSUME MInv, NEW c \in Conn, cached' = WithoutEntry(c), UNCHANGED spawning,
         \/ conns' = Ended(c, "closed")
         \/ Remember(Ended(c, "closed"))
  PROVE  MapOK' /\ VersionsKept
<1>1. MapOK
  BY InvParts
<1> DEFINE f == Ended(c, "closed")
<1>2. /\ f \in [Conn -> Connection] /\ f[c].state = "closed"
      /\ \A d \in Conn : f[d].version = conns[d].version
      /\ \A d \in Conn \ {c} : f[d] = conns[d]
  BY <1>1 DEF MapOK, Ended, Connection, States
<1> HIDE DEF f
<1>3. /\ conns' \in [Conn -> Connection]
      /\ \A d \in Conn : /\ conns'[d].state = "open" <=> f[d].state = "open"
                         /\ conns'[d].state = "starting" <=> f[d].state = "starting"
      /\ \A k \in Call : calls'[k].conn \in Conn => conns'[calls'[k].conn] = f[calls'[k].conn]
  BY <1>2, RememberKeeps DEF f
<1>4. cached' \in Conn \cup {None} /\ cached' # c /\ (cached # c => cached' = cached)
  BY <1>1, CallAssumption DEF MapOK, WithoutEntry
<1>5. OpenIffCached'
  <2>1. ASSUME NEW d \in Conn PROVE (conns'[d].state = "open") <=> (cached' = d)
    <3>1. CASE d = c
      BY <1>2, <1>3, <1>4, <3>1
    <3>2. CASE d # c
      <4>1. (conns'[d].state = "open") <=> (cached = d)
        BY <1>1, <1>2, <1>3, <3>2 DEF MapOK, OpenIffCached
      <4> QED
        BY <3>2, <4>1, CallAssumption DEF WithoutEntry
    <3> QED
      BY <3>1, <3>2
  <2> QED
    BY <2>1 DEF OpenIffCached
<1>6. SpawnsAlone'
  BY <1>1, <1>2, <1>3 DEF MapOK, SpawnsAlone, WithoutEntry
<1>7. VersionsKept
  BY <1>2, <1>3 DEF VersionsKept
<1> QED
  BY <1>1, <1>3, <1>4, <1>5, <1>6, <1>7 DEF MapOK

-----------------------------------------------------------------------------
(* The actions *)

\* Using the entry, joining a spawn or beginning one.
LEMMA GetKeeps ==
  ASSUME MInv, NEW k \in Call, NEW i \in Invocation, UNCHANGED <<cred, edits, cached>>,
         i.aborted \/ ~cred.usable \/ cred.version \in i.seen,
         GetConnection(k, i)
  PROVE  MInv'
<1>1. /\ conns \in [Conn -> Connection] /\ cached \in Conn \cup {None}
      /\ spawning \in Conn \cup {None} /\ None \notin Conn
      /\ cred \in [version : Nat, usable : BOOLEAN]
  BY InvParts, CallAssumption DEF MapOK
<1>2. ASSUME NEW pc \in {"ensure", "awaiting"}, NEW c \in Conn,
             Become(k, [i EXCEPT !.pc = pc, !.conn = c]), MapOK', VersionsKept
      PROVE  MInv'
  <2> DEFINE j == [i EXCEPT !.pc = pc, !.conn = c]
  <2>1. Good(j) /\ j.pc # "send" /\ Become(k, j)
    BY <1>2 DEF Good, Invocation, PCs
  <2> HIDE DEF j
  <2> QED
    BY <1>2, <2>1, CallStep
<1>3. CASE /\ cached # None
           /\ Become(k, [i EXCEPT !.pc = "ensure", !.conn = cached])
           /\ UNCHANGED spawning
           /\ Remember(conns)
  BY <1>1, <1>2, <1>3, SameMap
<1>4. CASE /\ cached = None /\ spawning # None
           /\ Become(k, [i EXCEPT !.pc = "awaiting", !.conn = spawning])
           /\ UNCHANGED spawning
           /\ Remember(conns)
  BY <1>1, <1>2, <1>4, SameMap
<1>5. CASE /\ cached = None /\ spawning = None
           /\ Free # {}
           /\ spawning' = Some(Free)
           /\ Become(k, [i EXCEPT !.pc = "awaiting", !.conn = Some(Free), !.owner = TRUE])
           /\ Remember([conns EXCEPT ![Some(Free)] = Spawned])
  <2> DEFINE c == Some(Free)
             f == [conns EXCEPT ![c] = Spawned]
             j == [i EXCEPT !.pc = "awaiting", !.conn = c, !.owner = TRUE]
  <2>1. c \in Free
    BY <1>5 DEF Some
  <2>2. c \in Conn /\ conns[c] = Gone /\ ~Held(c)
    BY <2>1 DEF Free
  <2>3. Spawned \in Connection /\ Spawned.state # "open"
    BY <1>1 DEF Spawned, Connection, States
  <2>4. spawning' = c /\ Become(k, j) /\ Remember(f)
    BY <1>5
  <2> HIDE DEF c
  <2>5. /\ f \in [Conn -> Connection] /\ f[c] = Spawned
        /\ \A d \in Conn \ {c} : f[d] = conns[d]
    BY <1>1, <2>2, <2>3
  <2> HIDE DEF f
  <2>6. /\ conns' \in [Conn -> Connection]
        /\ \A d \in Conn : conns'[d].state = "open" <=> f[d].state = "open"
        /\ \A q \in Call : calls'[q].conn \in Conn => conns'[calls'[q].conn] = f[calls'[q].conn]
    BY <2>4, <2>5, RememberKeeps
  <2>7. MapOK'
    <3>1. OpenIffCached'
      <4>1. ASSUME NEW d \in Conn PROVE conns'[d].state # "open"
        <5>1. conns[d].state # "open"
          BY <1>1, <1>5, InvParts DEF MapOK, OpenIffCached
        <5> QED
          BY <2>3, <2>5, <2>6, <5>1
      <4> QED
        BY <1>1, <1>5, <4>1 DEF OpenIffCached
    <3>2. SpawnsAlone'
      BY <1>5 DEF SpawnsAlone
    <3> QED
      BY <1>1, <2>2, <2>4, <2>6, <3>1, <3>2 DEF MapOK
  <2>8. VersionsKept
    <3>1. ASSUME NEW q \in Call PROVE calls[q].conn # c
      BY <2>2 DEF Held
    <3> QED
      BY <2>5, <2>6, <3>1 DEF VersionsKept
  <2>9. Good(j) /\ j.pc # "send"
    BY <2>2 DEF Good, Invocation, PCs
  <2> HIDE DEF j
  <2> QED
    BY <2>4, <2>7, <2>8, <2>9, CallStep
<1> QED
  BY <1>3, <1>4, <1>5 DEF GetConnection

\* The steps of one invocation.
LEMMA StepKeeps == ASSUME MInv, NEW k \in Call, Step(k) PROVE MInv'
<1> DEFINE i == calls[k]
<1>1. Good(i) /\ Sendable(i) /\ i \in Invocation
  BY DEF MInv, Good
<1>2. /\ conns \in [Conn -> Connection] /\ MapOK
      /\ cred \in [version : Nat, usable : BOOLEAN]
  BY InvParts DEF MapOK
<1>3. Good(Quiet) /\ Quiet.pc # "send"
  BY QuietIsGood
<1>4. ASSUME Return(k), UNCHANGED <<cred, edits, cached, spawning>>, Remember(conns)
      PROVE  MInv'
  BY <1>3, <1>4, SameMap, CallStep DEF Return
<1>5. ASSUME NEW pc \in PCs \ {"idle", "send"}, i.pc # "idle",
             Become(k, [i EXCEPT !.pc = pc]),
             UNCHANGED <<cred, edits, cached, spawning>>, Remember(conns)
      PROVE  MInv'
  <2> DEFINE j == [i EXCEPT !.pc = pc]
  <2>1. Good(j) /\ j.pc # "send" /\ Become(k, j)
    BY <1>1, <1>5 DEF Good, Invocation
  <2> HIDE DEF j
  <2> QED
    BY <1>5, <2>1, SameMap, CallStep
<1>6. CASE Resume(k)
  <2> DEFINE j == [i EXCEPT !.pc = "ensure", !.owner = FALSE]
  <2>1. /\ i.pc = "awaiting" /\ spawning' \in {None, spawning}
        /\ Become(k, Quiet) \/ Become(k, j)
        /\ UNCHANGED <<cred, edits, cached>> /\ Remember(conns)
    BY <1>6 DEF Resume, Return
  <2>2. Good(j) /\ j.pc # "send"
    BY <1>1, <2>1 DEF Good, Invocation, PCs
  <2> HIDE DEF i, j
  <2>3. MapOK'
    BY <1>2, <2>1, RememberKeeps, CallAssumption DEF MapOK, OpenIffCached, SpawnsAlone
  <2>4. VersionsKept
    BY <1>2, <2>1, RememberKeeps DEF VersionsKept
  <2> QED
    BY <1>3, <2>1, <2>2, <2>3, <2>4, CallStep
<1>7. CASE Ensure(k)
  <2>1. CASE StillCurrent(i.conn)
    <3> DEFINE j == [i EXCEPT !.pc = "send", !.attempt = 0]
    <3>1. /\ i.pc = "ensure" /\ Become(k, j)
          /\ UNCHANGED <<cred, edits, conns, cached, spawning>>
      BY <1>7, <2>1 DEF Ensure
    <3>2. Good(j) /\ j.conn = i.conn /\ j.aborted = i.aborted /\ j.seen = i.seen
      BY <1>1, <3>1 DEF Good, Invocation, PCs
    <3>3. ~i.aborted => conns[i.conn].version \in i.seen
      BY <1>1, <2>1, <3>1 DEF Good, StillCurrent
    <3>4. MapOK' /\ VersionsKept
      BY <1>2, <3>1 DEF MapOK, OpenIffCached, SpawnsAlone, VersionsKept
    <3> HIDE DEF i, j
    <3> QED
      BY <3>1, <3>2, <3>3, <3>4, CallStep
  <2>2. CASE ~StillCurrent(i.conn)
    <3> DEFINE re == MayRecycle(i)
               j == [i EXCEPT !.pc = "closing", !.regets = re,
                              !.attempt = IF re THEN @ + 1 ELSE @]
    <3>1. /\ i.pc = "ensure" /\ Become(k, j) /\ cached' = WithoutEntry(i.conn)
          /\ conns' = Ended(i.conn, "closed")
          /\ UNCHANGED <<cred, edits, spawning>>
      BY <1>7, <2>2 DEF Ensure
    <3>2. i.conn \in Conn
      BY <1>1, <3>1 DEF Good
    <3>3. re \in BOOLEAN /\ (re => i.attempt = 0)
      BY <1>2 DEF MayRecycle
    <3> HIDE DEF re
    <3>4. Good(j) /\ j.pc # "send"
      <4>1. (IF re THEN i.attempt + 1 ELSE i.attempt) \in {0, 1}
        BY <1>1, <3>3 DEF Invocation
      <4> QED
        BY <1>1, <3>1, <3>3, <4>1 DEF Good, Invocation, PCs
    <3> HIDE DEF i, j
    <3> QED
      BY <3>1, <3>2, <3>4, ClosedMap, CallStep
  <2> QED
    BY <2>1, <2>2
<1>8. CASE Closed(k)
  <2>1. CASE i.regets
    <3> DEFINE j == [i EXCEPT !.regets = FALSE]
    <3>1. GetConnection(k, j) /\ UNCHANGED <<cred, edits, cached>> /\ i.pc = "closing"
      BY <1>8, <2>1 DEF Closed
    <3>2. j \in Invocation /\ (j.aborted \/ ~cred.usable \/ cred.version \in j.seen)
      BY <1>1, <1>2, <3>1 DEF Good, Invocation
    <3> HIDE DEF i, j
    <3> QED
      BY <3>1, <3>2, GetKeeps
  <2>2. CASE ~i.regets
    BY <1>4, <1>8, <2>2 DEF Closed
  <2> QED
    BY <2>1, <2>2
<1>9. CASE Send(k)
  BY <1>4, <1>5, <1>9 DEF Send, PCs
<1>10. CASE Answer(k)
  BY <1>4, <1>10 DEF Answer
<1>11. CASE Fail(k)
  <2>1. CASE Retries(i)
    <3> DEFINE j == [i EXCEPT !.pc = "closing", !.first = FALSE, !.regets = TRUE]
    <3>1. /\ i.pc = "sent" /\ Become(k, j) /\ cached' = WithoutEntry(i.conn)
          /\ conns' = Ended(i.conn, "closed")
          /\ UNCHANGED <<cred, edits, spawning>>
      BY <1>11, <2>1 DEF Fail
    <3>2. i.conn \in Conn /\ Good(j) /\ j.pc # "send"
      BY <1>1, <3>1 DEF Good, Invocation, PCs
    <3> HIDE DEF i, j
    <3> QED
      BY <3>1, <3>2, ClosedMap, CallStep
  <2>2. CASE ~Retries(i)
    BY <1>4, <1>11, <2>2 DEF Fail
  <2> QED
    BY <2>1, <2>2
<1> QED
  BY <1>6, <1>7, <1>8, <1>9, <1>10, <1>11 DEF Step

\* What happens around the invocations.
LEMMA AroundKeeps ==
  ASSUME MInv, Established \/ SpawnFails \/ EditCredential \/ CloseConnection
  PROVE  MInv'
<1>1. /\ MapOK /\ conns \in [Conn -> Connection] /\ cached \in Conn \cup {None}
      /\ spawning \in Conn \cup {None} /\ None \notin Conn
      /\ calls \in [Call -> Invocation] /\ cred \in [version : Nat, usable : BOOLEAN]
      /\ edits \in 0..MaxEdits
  BY InvParts, CallAssumption DEF MapOK
<1>2. ASSUME UNCHANGED <<cred, edits, calls>>, MapOK', VersionsKept PROVE MInv'
  <2>1. ASSUME NEW k \in Call PROVE Good(calls[k])' /\ Sendable(calls[k])'
    <3>1. Good(calls[k]) /\ Sendable(calls[k]) /\ calls'[k] = calls[k]
      BY <1>2 DEF MInv
    <3> QED
      BY <1>2, <3>1 DEF Good, Sendable, VersionsKept
  <2> QED
    BY <1>1, <1>2, <2>1 DEF MInv, MapOK, TypeOK
<1>3. ASSUME NEW state \in {"open", "failed"}, spawning # None, conns[spawning].state = "starting",
             conns' = Ended(spawning, state),
             IF state = "open" THEN cached' = spawning ELSE UNCHANGED cached,
             UNCHANGED <<cred, edits, spawning, calls>>
      PROVE  MInv'
  <2> DEFINE c == spawning
  <2>1. c \in Conn /\ cached = None
    BY <1>1, <1>3 DEF MapOK, SpawnsAlone
  <2>2. /\ conns' \in [Conn -> Connection] /\ conns'[c].state = state
        /\ \A d \in Conn : conns'[d].version = conns[d].version
        /\ \A d \in Conn \ {c} : conns'[d] = conns[d]
    BY <1>1, <1>3, <2>1 DEF Ended, Connection, States
  <2>3. \A d \in Conn : conns[d].state # "open"
    BY <1>1, <2>1 DEF MapOK, OpenIffCached
  <2>4. OpenIffCached'
    BY <1>1, <1>3, <2>1, <2>2, <2>3 DEF OpenIffCached
  <2>5. SpawnsAlone'
    BY <1>3, <2>1, <2>2 DEF SpawnsAlone
  <2>6. MapOK' /\ VersionsKept
    BY <1>1, <1>3, <2>1, <2>2, <2>4, <2>5 DEF MapOK, VersionsKept
  <2> QED
    BY <1>2, <1>3, <2>6
<1>4. CASE Established
  <2>1. CASE StillCurrent(spawning)
    BY <1>3, <1>4, <2>1 DEF Established, Ended
  <2>2. CASE ~StillCurrent(spawning)
    BY <1>3, <1>4, <2>2 DEF Established
  <2> QED
    BY <2>1, <2>2
<1>5. CASE SpawnFails
  BY <1>3, <1>5 DEF SpawnFails
<1>6. CASE EditCredential
  <2>1. /\ cred' \in [version : Nat, usable : BOOLEAN] /\ edits' \in 0..MaxEdits
        /\ UNCHANGED <<conns, cached, spawning>>
    <3> DEFINE u == ~cred.usable
    <3>1. u \in BOOLEAN /\ cred.version \in Nat
      BY <1>1
    <3>2. /\ edits < MaxEdits /\ edits' = edits + 1
          /\ \/ cred' = [version |-> cred.version + 1, usable |-> TRUE]
             \/ cred' = [cred EXCEPT !.usable = u]
          /\ UNCHANGED <<conns, cached, spawning>>
      BY <1>6 DEF EditCredential
    <3> HIDE DEF u
    <3>3. edits' \in 0..MaxEdits
      BY <1>1, <3>2, EditsAssumption
    <3>4. [cred EXCEPT !.usable = u] \in [version : Nat, usable : BOOLEAN]
      BY <1>1, <3>1
    <3>5. [version |-> cred.version + 1, usable |-> TRUE] \in [version : Nat, usable : BOOLEAN]
      BY <3>1
    <3> QED
      BY <3>2, <3>3, <3>4, <3>5
  <2>2. MapOK'
    BY <1>1, <2>1 DEF MapOK, OpenIffCached, SpawnsAlone
  <2>3. ASSUME NEW k \in Call
        PROVE  calls'[k] \in Invocation /\ Good(calls[k])' /\ Sendable(calls[k])'
    <3> DEFINE i == calls[k]
               j == [i EXCEPT !.seen = @ \cup {cred'.version}]
    <3>1. i \in Invocation /\ Good(i) /\ Sendable(i) /\ cred'.version \in Nat
      BY <1>1, <2>1 DEF MInv
    <3>2. calls'[k] = IF i.pc = "idle" \/ i.aborted \/ ~cred'.usable THEN i ELSE j
      BY <1>6 DEF EditCredential
    <3>3. /\ j \in Invocation /\ j.pc = i.pc /\ j.conn = i.conn /\ j.aborted = i.aborted
          /\ j.seen = i.seen \cup {cred'.version}
      BY <3>1 DEF Invocation
    <3> HIDE DEF i, j
    <3>4. Good(calls[k])'
      BY <3>1, <3>2, <3>3 DEF Good
    <3>5. Sendable(calls[k])'
      BY <2>1, <3>1, <3>2, <3>3 DEF Sendable
    <3> QED
      BY <3>1, <3>2, <3>3, <3>4, <3>5
  <2>4. calls' \in [Call -> Invocation]
    BY <1>6, <2>3 DEF EditCredential
  <2> QED
    BY <2>1, <2>2, <2>3, <2>4 DEF MInv, MapOK, TypeOK
<1>7. CASE CloseConnection
  <2>1. cached \in Conn /\ cached' = WithoutEntry(cached) /\ Remember(Ended(cached, "closed"))
        /\ UNCHANGED <<cred, edits, spawning, calls>>
    BY <1>1, <1>7 DEF CloseConnection, WithoutEntry
  <2>2. MapOK' /\ VersionsKept
    BY <2>1, ClosedMap
  <2> QED
    BY <1>2, <2>1, <2>2
<1> QED
  BY <1>4, <1>5, <1>6, <1>7

\* What begins or aborts an invocation.
LEMMA UseKeeps ==
  ASSUME MInv, NEW k \in Call, NEW kind \in Kinds, Use(k, kind) \/ Discover(k) \/ Abort(k)
  PROVE  MInv'
<1>1. /\ MapOK /\ calls[k] \in Invocation /\ Good(calls[k])
      /\ cred \in [version : Nat, usable : BOOLEAN] /\ cached \in Conn \cup {None}
  BY InvParts DEF MInv, MapOK
<1>2. ASSUME NEW q \in Kinds
      PROVE  /\ Begin(k, q) \in Invocation /\ ~Begin(k, q).aborted
             /\ cred.usable => cred.version \in Begin(k, q).seen
  <2>1. Usable \in SUBSET Nat /\ (cred.usable => cred.version \in Usable)
    BY <1>1 DEF Usable
  <2> QED
    BY <2>1 DEF Begin, Quiet, Invocation, PCs
<1>3. ASSUME UNCHANGED <<conns, cached, spawning>> PROVE MapOK' /\ VersionsKept
  BY <1>1, <1>3 DEF MapOK, OpenIffCached, SpawnsAlone, VersionsKept
<1>4. CASE Use(k, kind)
  <2> DEFINE i == Begin(k, kind)
             j == [i EXCEPT !.pc = "ensure", !.conn = cached]
  <2>1. cached \in Conn /\ Become(k, j) /\ UNCHANGED <<cred, edits, conns, cached, spawning>>
    BY <1>1, <1>4 DEF Use
  <2>2. i \in Invocation /\ (i.aborted \/ ~cred.usable \/ cred.version \in i.seen)
    BY <1>2
  <2> HIDE DEF i
  <2>3. Good(j) /\ j.pc # "send"
    BY <2>1, <2>2 DEF Good, Invocation, PCs
  <2> HIDE DEF j
  <2> QED
    BY <1>3, <2>1, <2>3, CallStep
<1>5. CASE Discover(k)
  <2>1. "discover" \in Kinds
    BY DEF Kinds
  <2> QED
    BY <1>2, <1>5, <2>1, GetKeeps DEF Discover
<1>6. CASE Abort(k)
  <2> DEFINE i == calls[k]
             j == [i EXCEPT !.aborted = TRUE, !.seen = {}]
  <2>1. Become(k, j) /\ UNCHANGED <<cred, edits, conns, cached, spawning>>
    BY <1>6 DEF Abort
  <2>2. Good(j) /\ j.aborted
    <3>1. {} \in SUBSET Nat
      OBVIOUS
    <3> QED
      BY <1>1, <3>1 DEF Good, Invocation
  <2> HIDE DEF i, j
  <2> QED
    BY <1>3, <2>1, <2>2, CallStep
<1> QED
  BY <1>4, <1>5, <1>6

\* Every step keeps the invariant.
LEMMA NextKeeps == ASSUME MInv, [Next]_vars PROVE MInv'
<1>1. CASE UNCHANGED vars
  BY <1>1 DEF vars, MInv, TypeOK, OpenIffCached, SpawnsAlone, Good, Sendable
<1>2. CASE Next
  BY <1>2, StepKeeps, UseKeeps, AroundKeeps DEF Next, Kinds
<1> QED
  BY <1>1, <1>2

\* It holds at the start, when nothing is connected.
LEMMA InitMInv == ASSUME Init PROVE MInv
<1>1. Some(Conn) \in Conn /\ None \notin Conn
  BY CallAssumption DEF Some
<1>2. /\ cred = [version |-> 2, usable |-> TRUE] /\ edits = 0 /\ spawning = None
      /\ calls = [k \in Call |-> Quiet]
  BY DEF Init
<1>3. Gone \in Connection /\ Gone.state = "closed"
  BY DEF Gone, Connection, States
<1>4. /\ conns \in [Conn -> Connection] /\ cached \in Conn \cup {None}
      /\ OpenIffCached
  <2>1. CASE cached = None /\ conns = [c \in Conn |-> Gone]
    BY <1>1, <1>3, <2>1 DEF OpenIffCached
  <2>2. CASE /\ cached = Some(Conn)
             /\ conns = [[c \in Conn |-> Gone] EXCEPT ![Some(Conn)] =
                           [state |-> "open", version |-> 1]]
    <3> DEFINE new == [state |-> "open", version |-> 1]
    <3>1. new \in Connection /\ new.state = "open"
      BY DEF Connection, States
    <3> HIDE DEF new
    <3>2. /\ conns \in [Conn -> Connection] /\ conns[cached] = new /\ cached \in Conn
          /\ \A c \in Conn \ {cached} : conns[c] = Gone
      BY <1>1, <1>3, <2>2, <3>1 DEF new
    <3> QED
      BY <1>3, <3>1, <3>2 DEF OpenIffCached
  <2> QED
    BY <2>1, <2>2 DEF Init
<1>5. SpawnsAlone
  BY <1>1, <1>2 DEF SpawnsAlone
<1>6. ASSUME NEW k \in Call PROVE Good(calls[k]) /\ Sendable(calls[k]) /\ calls[k] = Quiet
  BY <1>2, QuietIsGood DEF Sendable
<1>7. Quiet \in Invocation
  BY QuietIsGood DEF Good
<1> QED
  BY <1>2, <1>4, <1>5, <1>6, <1>7, EditsAssumption DEF MInv, TypeOK

\* The inductive invariant.
LEMMA Invariance == Spec => []MInv
<1>1. Init => MInv
  BY InitMInv
<1>2. MInv /\ [Next]_vars => MInv'
  BY NextKeeps
<1> QED
  BY <1>1, <1>2, PTL DEF Spec

-----------------------------------------------------------------------------
(* The theorems *)

\* Map entries, connections and invocations have their types.
THEOREM TypeCorrect == Spec => []TypeOK
<1>1. MInv => TypeOK
  BY DEF MInv
<1> QED
  BY <1>1, Invariance, PTL

\* However many callers share, close and replace connections, the open one is the
\* entry of the map: no server process is left behind, and no closed one is found.
THEOREM NoneLeftBehind == Spec => []OpenIffCached
<1>1. MInv => OpenIffCached
  BY DEF MInv
<1> QED
  BY <1>1, Invariance, PTL

\* Every request of every invocation carries a secret that was the stored one,
\* and usable, since the invocation began, and none goes out after an abort.
THEOREM OnlyCurrentSecrets == Spec => SendsCurrentSecret
<1> DEFINE Current == \A k \in Call :
             calls[k].pc = "send" /\ calls'[k].pc = "sent"
               => conns[calls[k].conn].version \in calls[k].seen
<1>1. MInv /\ [Next]_vars => [Current]_vars
  <2>1. ASSUME MInv, Next, NEW k \in Call, calls[k].pc = "send", calls'[k].pc = "sent"
        PROVE  Send(k) /\ ~calls[k].aborted
    <3>1. calls \in [Call -> Invocation]
      BY <2>1, InvParts
    <3>2. ASSUME NEW j \in Call \ {k}, NEW i, Become(j, i) PROVE FALSE
      BY <2>1, <3>1, <3>2 DEF Become
    <3>3. ASSUME NEW i, Become(k, i) PROVE i.pc = "sent"
      BY <2>1, <3>1, <3>3 DEF Become
    <3>4. ASSUME NEW j \in Call PROVE ~Use(j, "call") /\ ~Use(j, "probe") /\ ~Discover(j)
      BY <2>1, <3>2 DEF Use, Discover, GetConnection
    <3>5. ASSUME NEW j \in Call, Step(j) PROVE j = k
      BY <3>2, <3>5 DEF Step, Resume, Ensure, Closed, Send, Answer, Fail, GetConnection, Return
    <3>6. ~(Resume(k) \/ Ensure(k) \/ Closed(k) \/ Answer(k) \/ Fail(k))
      BY <2>1 DEF Resume, Ensure, Closed, Answer, Fail
    <3>7. ASSUME NEW j \in Call PROVE ~Abort(j)
      <4>1. ASSUME Abort(k) PROVE FALSE
        BY <2>1, <3>1, <4>1 DEF Abort, Become, Invocation
      <4> QED
        BY <3>2, <4>1 DEF Abort
    <3>8. ~EditCredential
      BY <2>1, <3>1 DEF EditCredential, Invocation
    <3>9. ~(Established \/ SpawnFails \/ CloseConnection)
      BY <2>1 DEF Established, SpawnFails, CloseConnection
    <3>10. Send(k)
      BY <2>1, <3>4, <3>5, <3>6, <3>7, <3>8, <3>9 DEF Next, Step
    <3>11. ~calls[k].aborted
      BY <3>3, <3>10 DEF Send, Return, Quiet
    <3> QED
      BY <3>10, <3>11
  <2> QED
    BY <2>1 DEF MInv, Sendable
<1> QED
  BY <1>1, Invariance, PTL DEF Spec, SendsCurrentSecret
=============================================================================
