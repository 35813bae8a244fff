----------------------- MODULE IntegrationSetupProofs -----------------------
(***************************************************************************)
(* What holds of setup flows for any number of flows, credentials,         *)
(* requests and authorizations, and for every journal with at most one     *)
(* OAuth step.                                                             *)
(*                                                                         *)
(* The invariant IInv adds to the types that a flow under way has a step   *)
(* to do, that a flow past its expiry was started, that every envelope is  *)
(* of its flow and no two share a state, and that a flow which was         *)
(* authorized has its OAuth step behind it.  A step of the specification   *)
(* is one of StepOK: to every flow it does what FlowSteps allows (leave    *)
(* it, start it, move it on along its journal if it is under way and in    *)
(* time, or let it expire), it keeps, uses or issues secrets, and it       *)
(* authorizes only a flow that awaits it, which then leaves the step.      *)
(* Diagnostics that run by themselves skip ahead to the least later step   *)
(* that is none, which exists because the natural numbers are well-founded.*)
(* The last two parts are about the accounts: TwinsAreApproved is kept by  *)
(* what a step may do to them, and NoLostWrite needs that every row a      *)
(* submission stores has a revision of its own.                            *)
(***************************************************************************)
EXTENDS IntegrationSetup, WellFoundedInduction, TLAPS

\* A row of a flow, with a step wherever there is something to do.
RowOK(r) ==
  /\ r \in FlowRow /\ r.pos <= Len(r.journal) + 1
  /\ r.status \in Working => r.pos <= Len(r.journal)

Started(r) == RowOK(r) /\ r.status # "none"

\* s may come after r: the same journal, no earlier step.
Follows(r, s) == Started(s) /\ s.journal = r.journal /\ s.pos >= r.pos

-----------------------------------------------------------------------------
\* Rows.

\* Journals are sequences of kinds.
LEMMA JournalsAreSequences ==
  ASSUME NEW journal \in Journals \cup {<<>>}
  PROVE  Len(journal) \in Nat
<1>1. CASE journal \in Journals
  <2>1. journal \in Seq(Kinds)
    BY <1>1, JournalAssumption
  <2> QED
    BY <2>1
<1>2. CASE journal = <<>>
  BY <1>2
<1> QED
  BY <1>1, <1>2

\* Every set of natural numbers has a least element.
LEMMA LeastExists ==
  ASSUME NEW S \in SUBSET Nat, S # {}
  PROVE  \E n \in S : \A m \in S : n <= m
<1> DEFINE R == {ss \in Nat \X Nat : ss[1] < ss[2]}
<1>1. IsWellFoundedOn(R, Nat)
  BY NatLessThanWellFounded DEF OpToRel
<1>2. \A x, y \in Nat : <<x, y>> \in R <=> x < y
  OBVIOUS
<1> HIDE DEF R
<1>3. PICK n \in S : \A m \in S : ~ (<<m, n>> \in R)
  BY <1>1, WFMin
<1>4. ASSUME NEW m \in S PROVE n <= m
  <2>1. m \in Nat /\ n \in Nat /\ ~ (<<m, n>> \in R)
    BY <1>3
  <2> QED
    BY <1>2, <2>1
<1> QED
  BY <1>4

\* Diagnostics run up to some later step, or to the end.
LEMMA HaltIsAhead ==
  ASSUME NEW journal \in Journals \cup {<<>>}, NEW p \in 1..Len(journal) + 1
  PROVE  Halt(journal, p) \in p..Len(journal) + 1
<1> DEFINE S == {Len(journal) + 1} \cup {q \in p..Len(journal) : journal[q] # "diagnostic"}
<1>1. Len(journal) \in Nat
  BY JournalsAreSequences
<1>2. S \in SUBSET (p..Len(journal) + 1) /\ S \in SUBSET Nat /\ S # {}
  BY <1>1
<1>3. \E n \in S : \A m \in S : n <= m
  BY <1>2, LeastExists
<1>4. Min(S) \in S
  BY <1>3 DEF Min
<1> QED
  BY <1>2, <1>4 DEF Halt

\* A write keeps everything but the revision.
LEMMA MovedKeeps ==
  ASSUME NEW r \in FlowRow
  PROVE  /\ Moved(r) \in FlowRow /\ Moved(r).journal = r.journal
         /\ Moved(r).pos = r.pos /\ Moved(r).status = r.status
BY DEF FlowRow, Moved

\* A row that ends or fails, pauses or advances is a row.
LEMMA EndedFollows ==
  ASSUME NEW r, RowOK(r), NEW status \in Terminal
  PROVE  Follows(r, Ended(r, status)) /\ Ended(r, status).status = status
<1> DEFINE s == Ended(r, status)
<1>1. r.pos \in Int /\ status # "none" /\ status \notin Working
  BY DEF RowOK, FlowRow, Terminal, Working
<1>2. [r EXCEPT !.status = status] \in FlowRow
  BY DEF RowOK, FlowRow
<1>3. /\ s \in FlowRow
      /\ s.pos = r.pos /\ s.journal = r.journal /\ s.status = status
  BY <1>2, MovedKeeps DEF Ended, RowOK, FlowRow
<1> QED
  BY <1>1, <1>3 DEF RowOK, Follows, Started

\* A failed row keeps its step.
LEMMA FailedFollows ==
  ASSUME NEW r, RowOK(r)
  PROVE  Follows(r, Failed(r))
<1> DEFINE s == [r EXCEPT !.status = "failed", !.auth = "failed"]
<1>1. r.pos \in Int /\ r.pos <= Len(r.journal) + 1 /\ "failed" \notin Working
  BY DEF RowOK, FlowRow, Working
<1>2. s \in FlowRow /\ s.pos = r.pos /\ s.journal = r.journal /\ s.status = "failed"
  BY DEF RowOK, FlowRow, Terminal, Auths
<1> HIDE DEF s
<1>3. /\ Moved(s) \in FlowRow /\ Moved(s).pos = r.pos
      /\ Moved(s).journal = r.journal /\ Moved(s).status = "failed"
  BY <1>2, MovedKeeps
<1>4. Follows(r, Moved(s))
  BY <1>1, <1>3 DEF RowOK, Follows, Started
<1> QED
  BY <1>4 DEF Failed, s

\* A row that asks the user keeps its step.
LEMMA PausedFollows ==
  ASSUME NEW r, RowOK(r), r.pos <= Len(r.journal), NEW ids \in SUBSET (App \cup Account)
  PROVE  Follows(r, Paused(r, ids))
<1> DEFINE s == [r EXCEPT !.status = "awaiting-confirmation", !.cands = ids]
<1>1. r.pos \in Int /\ r.pos <= Len(r.journal) + 1
  BY DEF RowOK, FlowRow
<1>2. /\ s \in FlowRow /\ s.pos = r.pos /\ s.journal = r.journal
      /\ s.status = "awaiting-confirmation"
  BY DEF RowOK, FlowRow, Working
<1> HIDE DEF s
<1>3. /\ Moved(s) \in FlowRow /\ Moved(s).pos = r.pos
      /\ Moved(s).journal = r.journal /\ Moved(s).status = "awaiting-confirmation"
  BY <1>2, MovedKeeps
<1>4. Follows(r, Moved(s))
  BY <1>1, <1>3 DEF RowOK, Follows, Started
<1> QED
  BY <1>4 DEF Paused, s

\* Every kind of step has a status of its own to wait in.
LEMMA StatusForWorks == ASSUME NEW kind PROVE StatusFor(kind) \in Working
BY DEF StatusFor, Working

\* A row advances to a later step, or to the end of the journal.
LEMMA AdvancedFollows ==
  ASSUME NEW r, RowOK(r), NEW p \in r.pos..Len(r.journal) + 1
  PROVE  Follows(r, AdvancedTo(r, p)) /\ AdvancedTo(r, p).pos = p
<1> DEFINE status == IF p > Len(r.journal) THEN "completed" ELSE StatusFor(r.journal[p])
<1>1. r.pos \in 1..Len(r.journal) + 1 /\ Len(r.journal) \in Nat /\ p \in 1..Len(r.journal) + 1
  BY JournalsAreSequences DEF RowOK, FlowRow
<1>2. status \in Working \cup Terminal /\ (status \in Working => p <= Len(r.journal))
  BY <1>1, StatusForWorks DEF Terminal, Working
<1>3. status # "none"
  BY <1>2 DEF Terminal, Working
<1> DEFINE s == [r EXCEPT !.pos = p, !.status = status]
<1>4. AdvancedTo(r, p) = Moved(s)
  BY DEF AdvancedTo
<1> HIDE DEF status
<1>5. s \in FlowRow /\ s.pos = p /\ s.journal = r.journal /\ s.status = status
  <2>1. r \in FlowRow /\ p \in Nat \ {0} /\ status \in {"none"} \cup Working \cup Terminal
    BY <1>1, <1>2 DEF RowOK
  <2> QED
    BY <2>1 DEF FlowRow
<1> HIDE DEF s
<1>6. /\ Moved(s) \in FlowRow /\ Moved(s).pos = p
      /\ Moved(s).journal = r.journal /\ Moved(s).status = status
  BY <1>5, MovedKeeps
<1>7. p <= Len(r.journal) + 1 /\ p >= r.pos
  BY <1>1
<1> QED
  BY <1>2, <1>3, <1>4, <1>6, <1>7 DEF RowOK, Follows, Started

\* What follows a follower follows.
LEMMA FollowsOn ==
  ASSUME NEW r, RowOK(r), NEW s, Follows(r, s), NEW t, Follows(s, t)
  PROVE  Follows(r, t)
<1>1. r.pos \in Int /\ s.pos \in Int /\ t.pos \in Int
  BY DEF RowOK, FlowRow, Follows, Started
<1> QED
  BY <1>1 DEF Follows

\* Running the diagnostics ahead, asking and failing keep to the journal.
LEMMA SettledFollows ==
  ASSUME NEW r, RowOK(r), NEW p \in r.pos..Len(r.journal) + 1,
         NEW a \in [App -> AppRow], account \in [Account -> AccountRow]
  PROVE  Follows(r, Settled(r, p, a))
<1> DEFINE halt == Halt(r.journal, p)
           there == [AdvancedTo(r, halt) EXCEPT
                       !.auth = IF Confirms(r.journal, p) THEN "active" ELSE @]
           ids == Candidates(r, halt, a)
<1>1. /\ r.pos \in 1..Len(r.journal) + 1 /\ Len(r.journal) \in Nat
      /\ p \in 1..Len(r.journal) + 1 /\ r.journal \in Journals \cup {<<>>}
  BY JournalsAreSequences DEF RowOK, FlowRow
<1>2. halt \in p..Len(r.journal) + 1
  BY <1>1, HaltIsAhead
<1>3. halt \in r.pos..Len(r.journal) + 1
  BY <1>1, <1>2
<1>4. Follows(r, AdvancedTo(r, halt)) /\ AdvancedTo(r, halt).pos = halt
  BY <1>3, AdvancedFollows
<1>5. Follows(r, there) /\ there.pos = halt
  BY <1>4 DEF Follows, Started, RowOK, FlowRow, Auths
<1>6. ids \in SUBSET (App \cup Account) /\ (ids # {} => halt <= Len(r.journal))
  BY DEF Candidates, LiveAccounts
<1>7. ids # {} => Follows(r, Paused(there, ids))
  <2>1. SUFFICES ASSUME ids # {} PROVE Follows(r, Paused(there, ids))
    OBVIOUS
  <2>2. RowOK(there) /\ there.pos <= Len(there.journal)
    BY <1>5, <1>6, <2>1 DEF Follows, Started
  <2>3. Follows(there, Paused(there, ids))
    BY <2>2, <1>6, PausedFollows
  <2> QED
    BY <1>5, <2>3, FollowsOn
<1>8. p < halt => Follows(r, Failed([r EXCEPT !.pos = p]))
  <2> DEFINE s == [r EXCEPT !.pos = p]
  <2>1. SUFFICES ASSUME p < halt PROVE Follows(r, Failed(s))
    OBVIOUS
  <2>2. p <= Len(r.journal)
    BY <1>1, <1>2, <2>1
  <2>3. s \in FlowRow /\ s.pos = p /\ s.journal = r.journal
    BY <1>1 DEF RowOK, FlowRow
  <2>4. RowOK(s) /\ s.pos >= r.pos /\ r.pos \in Int /\ p \in Int
    BY <1>1, <2>2, <2>3 DEF RowOK
  <2> HIDE DEF s
  <2>5. Follows(s, Failed(s)) /\ Failed(s).pos \in Int
    BY <2>4, FailedFollows DEF Follows, Started, RowOK, FlowRow
  <2> QED
    BY <2>3, <2>4, <2>5 DEF Follows
<1>9. Settled(r, p, a) = IF p < halt /\ ~Sound(r, a) THEN Failed([r EXCEPT !.pos = p])
                           ELSE IF ids = {} THEN there ELSE Paused(there, ids)
  BY <1>1, <1>2 DEF Settled
<1> HIDE DEF there, ids, halt
<1> QED
  BY <1>5, <1>7, <1>8, <1>9
-----------------------------------------------------------------------------
(* The invariant *)

\* What overdue says is said of flows that were started.
OverdueStarted == \A f \in overdue : flow[f].status # "none"

\* A flow that was authorized has its OAuth step behind it.
GrantIsBehind ==
  \A f \in Flow :
    /\ granted[f] <= 1
    /\ granted[f] = 1 => flow[f].status # "none"
    /\ granted[f] = 1 => ~OAuthAhead(flow[f].journal, flow[f].pos)

\* An envelope is of its flow, and no other has its state.
EnvelopesDiffer ==
  \A f \in Flow : envelope[f] # None =>
    /\ envelope[f].for.flow = f
    /\ envelope[f].for.state \in 1..issued
    /\ \A g \in Flow \ {f} :
         envelope[g] # None => envelope[g].for.state # envelope[f].for.state

IInv ==
  /\ TypeOK /\ \A f \in Flow : RowOK(flow[f])
  /\ OverdueStarted /\ GrantIsBehind /\ EnvelopesDiffer /\ SecretsAreSpent

-----------------------------------------------------------------------------
(* Flows *)

\* What a step may make of flow g.
Restarts(g) == flow[g].status = "none" /\ Started(flow'[g])
Works(g) ==
  flow[g].status \in Working /\ g \notin overdue /\ Follows(flow[g], flow'[g])
Expires(g) ==
  /\ flow[g].status \in Working /\ Follows(flow[g], flow'[g])
  /\ flow'[g].status = "expired"

FlowSteps ==
  /\ flow' \in [Flow -> FlowRow]
  /\ \A g \in Flow : flow'[g] = flow[g] \/ Restarts(g) \/ Works(g) \/ Expires(g)

\* Row r may be stored for f.
MayStore(f, r) ==
  \/ r = flow[f]
  \/ flow[f].status = "none" /\ Started(r)
  \/ flow[f].status \in Working /\ f \notin overdue /\ Follows(flow[f], r)

\* A sweep only lets flows expire.
LEMMA SweptExpires ==
  ASSUME IInv
  PROVE  /\ Swept \in [Flow -> FlowRow]
         /\ \A g \in Flow : \/ Swept[g] = flow[g]
                             \/ /\ flow[g].status \in Working
                                /\ Follows(flow[g], Swept[g])
                                /\ Swept[g].status = "expired"
<1>1. ASSUME NEW g \in Flow, Lapsed(g)
      PROVE  Follows(flow[g], Ended(flow[g], "expired"))
             /\ Ended(flow[g], "expired").status = "expired"
  BY EndedFollows DEF IInv, Terminal
<1>2. ASSUME NEW g \in Flow
      PROVE  Swept[g] = IF Lapsed(g) THEN Ended(flow[g], "expired") ELSE flow[g]
  BY DEF Swept
<1>3. ASSUME NEW g \in Flow
      PROVE  Swept[g] \in FlowRow
  BY <1>1, <1>2 DEF IInv, TypeOK, Follows, Started, RowOK
<1>4. Swept \in [Flow -> FlowRow]
  BY <1>2, <1>3 DEF Swept
<1> QED
  BY <1>1, <1>2, <1>4 DEF Lapsed

\* The periodic sweep, and the one of every operation, is such a step.
LEMMA SweepSteps == ASSUME IInv, flow' = Swept PROVE FlowSteps
BY SweptExpires DEF FlowSteps, Expires

\* What may be stored is a row.
LEMMA MayStoreRow == ASSUME IInv, NEW f \in Flow, NEW r, MayStore(f, r) PROVE r \in FlowRow
BY DEF IInv, TypeOK, MayStore, Started, Follows, RowOK

\* Storing it after a sweep is a step of flows,
LEMMA StoreSteps ==
  ASSUME IInv, NEW f \in Flow, NEW r, MayStore(f, r), Store(f, r)
  PROVE  FlowSteps
<1>1. r \in FlowRow
  BY MayStoreRow
<1>2. flow' = [Swept EXCEPT ![f] = r]
  BY DEF Store
<1>3. flow' \in [Flow -> FlowRow] /\ flow'[f] = r /\ \A g \in Flow \ {f} : flow'[g] = Swept[g]
  BY <1>1, <1>2, SweptExpires
<1> QED
  BY <1>3, SweptExpires DEF FlowSteps, MayStore, Restarts, Works, Expires

\* and so is storing it without one.
LEMMA StoreOnlySteps ==
  ASSUME IInv, NEW f \in Flow, NEW r, MayStore(f, r), flow' = [flow EXCEPT ![f] = r]
  PROVE  FlowSteps
<1>1. r \in FlowRow /\ flow \in [Flow -> FlowRow]
  BY MayStoreRow DEF IInv, TypeOK
<1>2. flow' \in [Flow -> FlowRow] /\ flow'[f] = r /\ \A g \in Flow \ {f} : flow'[g] = flow[g]
  BY <1>1
<1> QED
  BY <1>2 DEF FlowSteps, MayStore, Restarts, Works

\* The credentials keep their types when the outcome of a step is recorded.
LEMMA BoundTyped ==
  ASSUME NEW r \in FlowRow, NEW p, NEW a \in [App -> AppRow]
  PROVE  Bound(r, p, a) \in [App -> AppRow]
<1>1. CASE r.target = None
  BY <1>1 DEF Bound
<1>2. CASE r.target # None
  <2> DEFINE t == r.target
             b == ~Sound(r, a)
  <2>1. t \in App /\ b \in BOOLEAN
    BY <1>2 DEF FlowRow
  <2> HIDE DEF t, b
  <2>2. [a EXCEPT ![t].blocked = b] \in [App -> AppRow]
    BY <2>1 DEF AppRow
  <2> QED
    BY <2>2 DEF Bound, t, b
<1> QED
  BY <1>1, <1>2

\* Row r is what f has come to so far in an operation on it.
Proceeds(f, r) ==
  /\ RowOK(r)
  /\ \/ flow[f].status = "none"
     \/ /\ flow[f].status \in Working /\ f \notin overdue
        /\ r.journal = flow[f].journal /\ r.pos = flow[f].pos

\* Settling a step stores a row that may be stored.
LEMMA SettlesSound ==
  ASSUME IInv, NEW f \in Flow, NEW r, Proceeds(f, r), NEW p \in r.pos..Len(r.journal) + 1,
         NEW a \in [App -> AppRow], Settles(f, r, p, a)
  PROVE  FlowSteps /\ app' \in [App -> AppRow]
<1>1. Follows(r, Settled(r, p, a))
  BY SettledFollows DEF IInv, TypeOK, Proceeds
<1>2. MayStore(f, Settled(r, p, a))
  BY <1>1 DEF Proceeds, MayStore, Follows
<1>3. FlowSteps
  BY <1>2, StoreSteps DEF Settles
<1> QED
  BY <1>3, BoundTyped DEF Settles, Proceeds, RowOK

\* A flow with something to do has a step, and another may follow it.
LEMMA WorkingProceeds ==
  ASSUME IInv, NEW f \in Flow, flow[f].status \in Working, f \notin overdue
  PROVE  /\ Proceeds(f, flow[f]) /\ flow[f] \in FlowRow
         /\ flow[f].pos <= Len(flow[f].journal)
         /\ flow[f].pos \in flow[f].pos..Len(flow[f].journal) + 1
         /\ flow[f].pos + 1 \in flow[f].pos..Len(flow[f].journal) + 1
<1>1. RowOK(flow[f]) /\ flow[f].pos \in Nat /\ Len(flow[f].journal) \in Nat
  BY JournalsAreSequences DEF IInv, RowOK, FlowRow
<1> QED
  BY <1>1 DEF Proceeds, RowOK

\* A new version of the flow's row that leaves its step alone.
LEMMA TargetingProceeds ==
  ASSUME IInv, NEW f \in Flow, flow[f].status \in Working, f \notin overdue,
         NEW apps \in [App -> AppRow], NEW a \in App
  PROVE  Proceeds(f, Targeting(f, apps, a)) /\ Targeting(f, apps, a).target = a
<1> DEFINE s == Targeting(f, apps, a)
<1>1. flow[f] \in FlowRow /\ apps[a].ver \in Nat
  BY WorkingProceeds DEF AppRow
<1>2. /\ s \in FlowRow /\ s.target = a /\ s.pos = flow[f].pos
      /\ s.journal = flow[f].journal /\ s.status = flow[f].status
  BY <1>1 DEF FlowRow, Targeting
<1> HIDE DEF s
<1>3. Proceeds(f, s)
  BY <1>2, WorkingProceeds DEF Proceeds, RowOK
<1> QED
  BY <1>2, <1>3 DEF s

\* A choice of the user leaves the flow at its step.
LEMMA DecidedProceeds ==
  ASSUME IInv, NEW f \in Flow, flow[f].status \in Working, f \notin overdue,
         NEW r, Proceeds(f, r), NEW status \in {"awaiting-input", "awaiting-oauth"}
  PROVE  /\ Proceeds(f, Decided(r, status)) /\ Follows(flow[f], Decided(r, status))
         /\ Decided(r, status).target = r.target /\ Decided(r, status).pos = r.pos
<1> DEFINE s == [r EXCEPT !.status = status, !.cands = {}]
<1>1. /\ r \in FlowRow /\ r.pos = flow[f].pos /\ r.journal = flow[f].journal
      /\ status \in Working
  BY DEF Proceeds, RowOK, Working
<1>2. /\ s \in FlowRow /\ s.pos = r.pos /\ s.journal = r.journal
      /\ s.status = status /\ s.target = r.target
  BY <1>1 DEF FlowRow
<1>3. Decided(r, status) = Moved(s)
  BY DEF Decided
<1> HIDE DEF s
<1>4. /\ Moved(s) \in FlowRow /\ Moved(s).pos = r.pos /\ Moved(s).journal = r.journal
      /\ Moved(s).status = status
  BY <1>2, MovedKeeps
<1>5. Moved(s).target = r.target
  BY <1>2 DEF Moved, FlowRow
<1>6. /\ flow[f].pos <= Len(flow[f].journal) /\ flow[f].pos <= Len(flow[f].journal) + 1
      /\ flow[f].pos \in Int /\ status # "none"
  BY WorkingProceeds DEF RowOK, Proceeds, FlowRow
<1>7. RowOK(Moved(s))
  BY <1>1, <1>4, <1>6 DEF RowOK
<1> QED
  BY <1>1, <1>3, <1>4, <1>5, <1>6, <1>7 DEF Proceeds, Follows, Started

\* Adopting a credential moves the flow on, or fails it.
LEMMA AdoptSound ==
  ASSUME IInv, NEW f \in Flow, flow[f].status \in Working, f \notin overdue,
         NEW r, Proceeds(f, r), r.target \in App,
         NEW apps \in [App -> AppRow], Adopt(f, r, apps)
  PROVE  FlowSteps /\ app' \in [App -> AppRow]
<1> DEFINE t == r.target
<1>1. /\ r \in FlowRow /\ RowOK(r) /\ r.pos = flow[f].pos /\ r.journal = flow[f].journal
      /\ flow[f].pos <= Len(flow[f].journal)
      /\ flow[f].pos + 1 \in flow[f].pos..Len(flow[f].journal) + 1
  BY WorkingProceeds DEF Proceeds, RowOK, Working
<1>2. \A b \in BOOLEAN : [apps EXCEPT ![t].blocked = b] \in [App -> AppRow]
  BY DEF AppRow
<1>3. CASE ~apps[t].whole
  <2>1. Follows(r, Failed(r))
    BY <1>1, FailedFollows
  <2>2. MayStore(f, Failed(r))
    BY <1>1, <2>1 DEF MayStore, Follows
  <2>3. Store(f, Failed(r)) /\ app' = [apps EXCEPT ![t].blocked = TRUE]
    BY <1>3 DEF Adopt
  <2> QED
    BY <1>2, <2>2, <2>3, StoreSteps
<1>4. CASE apps[t].whole
  <2> DEFINE bound == [apps EXCEPT ![t].blocked = FALSE]
             s == [r EXCEPT !.auth = IF OAuthAhead(r.journal, r.pos) THEN @ ELSE "active"]
  <2>1. Settles(f, s, r.pos + 1, bound)
    BY <1>4 DEF Adopt
  <2>2. /\ s \in FlowRow /\ s.pos = r.pos /\ s.journal = r.journal /\ s.status = r.status
    BY <1>1 DEF FlowRow, Auths
  <2> HIDE DEF s
  <2>3. Proceeds(f, s) /\ r.pos + 1 \in s.pos..Len(s.journal) + 1
    BY <1>1, <2>2 DEF Proceeds, RowOK
  <2>4. bound \in [App -> AppRow]
    BY <1>2
  <2> HIDE DEF bound
  <2> QED
    BY <2>1, <2>3, <2>4, SettlesSound
<1> QED
  BY <1>3, <1>4

-----------------------------------------------------------------------------
(* The operations of the service *)

Typed == app \in [App -> AppRow] /\ account \in [Account -> AccountRow]

\* A client can only act on a flow that is under way and in time.
LEMMA ReferencedWorks ==
  ASSUME NEW f, Referenced(f)
  PROVE  flow[f].status \in Working /\ f \notin overdue
BY DEF Referenced

\* Starting a flow.
LEMMA StartSound ==
  ASSUME IInv, NEW f \in Flow, NEW journal \in Journals,
         NEW target \in App \cup {None}, NEW oauth \in Account \cup {None},
         NEW reauth \in BOOLEAN, Start(f, journal, target, oauth, reauth)
  PROVE  FlowSteps /\ Typed'
<1> DEFINE auth == IF reauth THEN "reauthentication-required" ELSE "unknown"
           digest == IF target = None THEN 0 ELSE app[target].ver
           row == [NoFlow EXCEPT !.journal = journal, !.rev = 1, !.auth = auth,
                                 !.target = target, !.oauth = oauth, !.digest = digest]
           marked == IF reauth /\ oauth = None THEN [app EXCEPT ![target].blocked = TRUE]
                                               ELSE app
<1>1. /\ flow[f].status = "none" /\ Settles(f, row, 1, marked)
      /\ target = None => ~reauth
      /\ account' = IF reauth /\ oauth # None
                      THEN [account EXCEPT ![oauth].usable = FALSE] ELSE account
  BY DEF Start
<1>2. auth \in Auths /\ digest \in Nat
  BY DEF Auths, IInv, TypeOK, AppRow
<1>3. marked \in [App -> AppRow]
  BY <1>1 DEF IInv, TypeOK, AppRow
<1> HIDE DEF auth, digest, marked
<1>4. /\ row \in FlowRow /\ row.pos = 1 /\ row.journal = journal /\ row.status = "none"
  <2>1. NoFlow \in FlowRow /\ NoFlow.pos = 1 /\ NoFlow.status = "none"
    <3>1. {} \in SUBSET (App \cup Account) /\ <<>> \in Journals \cup {<<>>}
          /\ "unknown" \in Auths /\ 1 \in Nat \ {0}
      BY DEF Auths
    <3> QED
      BY <3>1 DEF NoFlow, FlowRow
  <2>2. journal \in Journals \cup {<<>>} /\ 1 \in Nat
    OBVIOUS
  <2> QED
    BY <1>2, <2>1, <2>2 DEF FlowRow
<1> HIDE DEF row
<1>5. Len(journal) \in Nat /\ "none" \notin Working
  BY JournalsAreSequences DEF Working
<1>6. Proceeds(f, row) /\ 1 \in row.pos..Len(row.journal) + 1
  BY <1>1, <1>4, <1>5 DEF Proceeds, RowOK
<1>7. FlowSteps /\ app' \in [App -> AppRow]
  BY <1>1, <1>3, <1>6, SettlesSound
<1>8. account' \in [Account -> AccountRow]
  BY <1>1 DEF IInv, TypeOK, AccountRow
<1> QED
  BY <1>7, <1>8 DEF Typed

\* Every operation of the service.
LEMMA OperationSound ==
  ASSUME IInv, NEW f \in Flow, Operation(f)
  PROVE  FlowSteps /\ Typed'
<1> USE DEF Typed
<1>1. Typed
  BY DEF IInv, TypeOK
<1>2. CASE Look(f)
  <2>1. MayStore(f, flow[f])
    BY DEF MayStore
  <2> QED
    BY <1>1, <1>2, <2>1, StoreSteps DEF Look, stores
<1>3. CASE Acknowledge(f)
  <2>1. FlowSteps /\ app' \in [App -> AppRow]
    BY <1>1, <1>3, ReferencedWorks, WorkingProceeds, SettlesSound DEF Acknowledge
  <2> QED
    BY <1>1, <1>3, <2>1 DEF Acknowledge
<1>4. CASE SubmitToTarget(f)
  <2> DEFINE t == flow[f].target
  <2>1. /\ flow[f].status \in Working /\ f \notin overdue /\ t # None
        /\ UNCHANGED account
    BY <1>4, ReferencedWorks DEF SubmitToTarget
  <2>2. t \in App
    BY <2>1, WorkingProceeds DEF FlowRow
  <2>3. PICK whole \in {app[t].whole, TRUE} :
          LET apps == [app EXCEPT ![t].ver = @ + 1, ![t].whole = whole]
          IN  Adopt(f, Targeting(f, apps, t), apps)
    BY <1>4 DEF SubmitToTarget
  <2> DEFINE apps == [app EXCEPT ![t].ver = @ + 1, ![t].whole = whole]
  <2>4. apps \in [App -> AppRow]
    <3>1. app[t].ver + 1 \in Nat /\ whole \in BOOLEAN
      BY <1>1, <2>2, <2>3 DEF AppRow
    <3>2. [app[t] EXCEPT !.ver = @ + 1, !.whole = whole] \in AppRow
      BY <1>1, <2>2, <3>1 DEF AppRow
    <3>3. apps = [app EXCEPT ![t] = [app[t] EXCEPT !.ver = @ + 1, !.whole = whole]]
      BY <1>1, <2>2 DEF AppRow
    <3> HIDE DEF apps
    <3> QED
      BY <1>1, <2>2, <3>2, <3>3
  <2>5. Adopt(f, Targeting(f, apps, t), apps)
    BY <2>3
  <2> HIDE DEF apps
  <2>6. Proceeds(f, Targeting(f, apps, t)) /\ Targeting(f, apps, t).target \in App
    BY <2>1, <2>2, <2>4, TargetingProceeds
  <2>7. FlowSteps /\ app' \in [App -> AppRow]
    BY <2>1, <2>4, <2>5, <2>6, AdoptSound
  <2> QED
    BY <1>1, <2>1, <2>7
<1>5. CASE SubmitAsks(f)
  <2>1. Follows(flow[f], Paused(flow[f], LiveApps))
    BY <1>5, ReferencedWorks, WorkingProceeds, PausedFollows
    DEF SubmitAsks, Proceeds, LiveApps
  <2>2. MayStore(f, Paused(flow[f], LiveApps))
    BY <1>5, <2>1, ReferencedWorks DEF SubmitAsks, MayStore
  <2> QED
    BY <1>1, <1>5, <2>2, StoreSteps DEF SubmitAsks, stores
<1>6. ASSUME NEW a \in App, SubmitNew(f, a) PROVE FlowSteps /\ Typed'
  <2> DEFINE apps == [app EXCEPT ![a] = NewApp]
  <2>1. apps \in [App -> AppRow]
    BY <1>1 DEF NewApp, AppRow
  <2>2. Adopt(f, Targeting(f, apps, a), apps) /\ UNCHANGED account
    BY <1>6 DEF SubmitNew
  <2> HIDE DEF apps
  <2>3. flow[f].status \in Working /\ f \notin overdue
    BY <1>6, ReferencedWorks DEF SubmitNew
  <2>4. FlowSteps /\ app' \in [App -> AppRow]
    BY <2>1, <2>2, <2>3, TargetingProceeds, AdoptSound
  <2> QED
    BY <1>1, <2>2, <2>4
<1>7. ASSUME NEW a \in App, ReuseApp(f, a) PROVE FlowSteps /\ Typed'
  <2> DEFINE r == Targeting(f, app, a)
  <2>1. flow[f].status \in Working /\ f \notin overdue
    BY <1>7, ReferencedWorks DEF ReuseApp, Chooses
  <2>2. Proceeds(f, r) /\ r.target = a
    BY <1>1, <2>1, TargetingProceeds
  <2>3. Adopt(f, Decided(r, "awaiting-input"), app) /\ UNCHANGED account
    BY <1>7 DEF ReuseApp
  <2> HIDE DEF r
  <2>4. FlowSteps /\ app' \in [App -> AppRow]
    BY <1>1, <2>1, <2>2, <2>3, DecidedProceeds, AdoptSound
  <2> QED
    BY <1>1, <2>3, <2>4
<1>8. ASSUME NEW a \in App, ReplaceApp(f, a) PROVE FlowSteps /\ Typed'
  <2>1. flow[f].status \in Working /\ f \notin overdue
    BY <1>8, ReferencedWorks DEF ReplaceApp, Chooses
  <2>2. MayStore(f, Decided(Targeting(f, app, a), "awaiting-input"))
    BY <1>1, <2>1, TargetingProceeds, DecidedProceeds DEF MayStore
  <2> QED
    BY <1>1, <1>8, <2>2, StoreSteps DEF ReplaceApp, stores
<1>9. ASSUME NEW r, NEW status \in {"awaiting-input", "awaiting-oauth"},
             flow[f].status \in Working, f \notin overdue,
             r \in FlowRow, r.pos = flow[f].pos, r.journal = flow[f].journal,
             r.status = flow[f].status
      PROVE  Proceeds(f, r) /\ MayStore(f, Decided(r, status))
  <2>1. Proceeds(f, r)
    BY <1>9, WorkingProceeds DEF Proceeds, RowOK
  <2> QED
    BY <1>9, <2>1, DecidedProceeds DEF MayStore
<1>10. CASE CreateApp(f)
  <2> DEFINE r == [flow[f] EXCEPT !.target = None, !.digest = 0, !.createAdd = TRUE]
  <2>1. flow[f].status \in Working /\ f \notin overdue
    BY <1>10, ReferencedWorks DEF CreateApp, Chooses
  <2>2. /\ r \in FlowRow /\ r.pos = flow[f].pos /\ r.journal = flow[f].journal
        /\ r.status = flow[f].status
    BY <2>1, WorkingProceeds DEF FlowRow
  <2>3. Store(f, Decided(r, "awaiting-input")) /\ UNCHANGED stores
    BY <1>10 DEF CreateApp
  <2> HIDE DEF r
  <2> QED
    BY <1>1, <1>9, <2>1, <2>2, <2>3, StoreSteps DEF stores
<1>11. ASSUME NEW o \in Account, ReuseAccount(f, o) PROVE FlowSteps /\ Typed'
  <2> DEFINE s == [flow[f] EXCEPT !.oauth = o, !.oauthAdd = FALSE, !.auth = "active"]
             r == Decided(s, "awaiting-oauth")
  <2>1. flow[f].status \in Working /\ f \notin overdue
    BY <1>11, ReferencedWorks DEF ReuseAccount, Chooses
  <2>2. /\ s \in FlowRow /\ s.pos = flow[f].pos /\ s.journal = flow[f].journal
        /\ s.status = flow[f].status
    BY <2>1, WorkingProceeds DEF FlowRow, Auths
  <2>3. Settles(f, r, r.pos + 1, app) /\ UNCHANGED account
    BY <1>11 DEF ReuseAccount
  <2> HIDE DEF s
  <2>4. Proceeds(f, r)
    BY <1>9, <2>1, <2>2, DecidedProceeds
  <2>5. r.pos + 1 \in r.pos..Len(r.journal) + 1
    BY <2>1, <2>4, WorkingProceeds DEF Proceeds, Working
  <2> HIDE DEF r
  <2>6. FlowSteps /\ app' \in [App -> AppRow]
    BY <1>1, <2>3, <2>4, <2>5, SettlesSound
  <2> QED
    BY <1>1, <2>3, <2>6
<1>12. ASSUME NEW o \in Account, ReplaceAccount(f, o) PROVE FlowSteps /\ Typed'
  <2> DEFINE r == [flow[f] EXCEPT !.oauth = o, !.oauthAdd = FALSE]
  <2>1. flow[f].status \in Working /\ f \notin overdue
    BY <1>12, ReferencedWorks DEF ReplaceAccount, Chooses
  <2>2. /\ r \in FlowRow /\ r.pos = flow[f].pos /\ r.journal = flow[f].journal
        /\ r.status = flow[f].status
    BY <2>1, WorkingProceeds DEF FlowRow
  <2>3. Store(f, Decided(r, "awaiting-oauth")) /\ UNCHANGED stores
    BY <1>12 DEF ReplaceAccount
  <2> HIDE DEF r
  <2> QED
    BY <1>1, <1>9, <2>1, <2>2, <2>3, StoreSteps DEF stores
<1>13. CASE CreateAccount(f)
  <2> DEFINE r == [flow[f] EXCEPT !.oauth = None, !.oauthAdd = TRUE]
  <2>1. flow[f].status \in Working /\ f \notin overdue
    BY <1>13, ReferencedWorks DEF CreateAccount, Chooses
  <2>2. /\ r \in FlowRow /\ r.pos = flow[f].pos /\ r.journal = flow[f].journal
        /\ r.status = flow[f].status
    BY <2>1, WorkingProceeds DEF FlowRow
  <2>3. Store(f, Decided(r, "awaiting-oauth")) /\ UNCHANGED stores
    BY <1>13 DEF CreateAccount
  <2> HIDE DEF r
  <2> QED
    BY <1>1, <1>9, <2>1, <2>2, <2>3, StoreSteps DEF stores
<1>14. CASE Discover(f)
  <2>1. FlowSteps /\ app' \in [App -> AppRow]
    BY <1>1, <1>14, ReferencedWorks, WorkingProceeds, SettlesSound DEF Discover
  <2> QED
    BY <1>1, <1>14, <2>1 DEF Discover
<1>15. CASE Cancel(f)
  <2>1. MayStore(f, Ended(flow[f], "cancelled"))
    BY <1>15, ReferencedWorks, WorkingProceeds, EndedFollows
    DEF Cancel, MayStore, Proceeds, Terminal
  <2> QED
    BY <1>1, <1>15, <2>1, StoreSteps DEF Cancel, stores
<1> QED
  BY <1>2, <1>3, <1>4, <1>5, <1>6, <1>7, <1>8, <1>10, <1>11, <1>12, <1>13, <1>14, <1>15,
     StartSound DEF Operation
-----------------------------------------------------------------------------
(* The OAuth step *)

\* A flow that awaits its authorization is at an OAuth step.
LEMMA AwaitingIsAhead ==
  ASSUME IInv, NEW f \in Flow, AwaitingOAuth(f)
  PROVE  /\ flow[f].status \in Working /\ f \notin overdue
         /\ flow[f].pos \in 1..Len(flow[f].journal) /\ flow[f].journal \in Journals
         /\ flow[f].journal[flow[f].pos] \in OAuthKinds
<1>1. flow[f].status \in Working /\ f \notin overdue
      /\ flow[f].journal[flow[f].pos] \in OAuthKinds
  BY DEF AwaitingOAuth, ActiveKind, Working
<1>2. flow[f].pos \in 1..Len(flow[f].journal) /\ flow[f].journal \in Journals \cup {<<>>}
  BY <1>1, WorkingProceeds, JournalsAreSequences DEF FlowRow
<1>3. flow[f].journal # <<>>
  BY <1>2
<1> QED
  BY <1>1, <1>2, <1>3

\* A failure only befalls flows that are under way.
LEMMA FailSteps ==
  ASSUME IInv, NEW f \in Flow, NEW env, Fail(f, env)
  PROVE  FlowSteps /\ envelope' = Purged(flow', env)
<1> DEFINE r == IF CanFail(f) THEN Failed(flow[f]) ELSE flow[f]
<1>1. MayStore(f, r)
  BY FailedFollows DEF MayStore, CanFail, IInv
<1>2. StoreOnly(f, r, env)
  BY DEF Fail
<1> HIDE DEF r
<1> QED
  BY <1>1, <1>2, StoreOnlySteps DEF StoreOnly

\* Storing the row as it is.
LEMMA NothingSteps ==
  ASSUME IInv, NEW f \in Flow, NEW env, StoreOnly(f, flow[f], env)
  PROVE  FlowSteps /\ envelope' = Purged(flow', env)
BY StoreOnlySteps DEF MayStore, StoreOnly

\* Leaving the flows alone.
LEMMA UnchangedSteps == ASSUME IInv, UNCHANGED flow PROVE FlowSteps
BY DEF FlowSteps, IInv, TypeOK

\* A refusal fails the flow or leaves it, and at most marks the credential's binding.
LEMMA RefusedSound ==
  ASSUME IInv, Typed, NEW p \in Attempt, Direct(p), NEW why, NEW env, Refused(p, why, env)
  PROVE  FlowSteps /\ app' \in [App -> AppRow] /\ envelope' = Purged(flow', env)
<1>1. p.flow \in Flow /\ p.app \in App
  BY DEF Attempt, Direct
<1>2. FlowSteps /\ envelope' = Purged(flow', env)
  BY <1>1, FailSteps, NothingSteps DEF Refused
<1>3. [app EXCEPT ![p.app].blocked = TRUE] \in [App -> AppRow]
  BY <1>1 DEF Typed, AppRow
<1> QED
  BY <1>2, <1>3 DEF Refused, Repair, Typed

\* Completing the OAuth step leaves it behind, and no other is ahead.
LEMMA CompletedSound ==
  ASSUME IInv, NEW f \in Flow, AwaitingOAuth(f), NEW o \in Account \cup {None},
         NEW env, StoreOnly(f, Completed(f, o), env)
  PROVE  /\ FlowSteps /\ envelope' = Purged(flow', env)
         /\ flow'[f].status # "none" /\ ~OAuthAhead(flow'[f].journal, flow'[f].pos)
<1> DEFINE s == Authorized(flow[f], o)
           next == flow[f].pos + 1
           r == AdvancedTo(s, next)
<1>1. /\ flow[f].status \in Working /\ f \notin overdue
      /\ flow[f].pos \in 1..Len(flow[f].journal) /\ flow[f].journal \in Journals
      /\ flow[f].journal[flow[f].pos] \in OAuthKinds
  BY AwaitingIsAhead
<1>2. flow[f] \in FlowRow /\ RowOK(flow[f]) /\ flow[f] = flow[f]
  BY <1>1, WorkingProceeds DEF Proceeds
<1>3. /\ s \in FlowRow /\ s.pos = flow[f].pos /\ s.journal = flow[f].journal
      /\ s.status = flow[f].status
  <2>1. {} \in SUBSET (App \cup Account) /\ "active" \in Auths
    BY DEF Auths
  <2> QED
    BY <1>2, <2>1 DEF FlowRow, Authorized
<1> HIDE DEF s
<1>4. RowOK(s)
  BY <1>2, <1>3 DEF RowOK
<1>5. next \in s.pos..Len(s.journal) + 1 /\ Len(flow[f].journal) \in Nat
  BY <1>1, <1>3, JournalsAreSequences
<1>6. Follows(s, r) /\ r.pos = next
  BY <1>4, <1>5, AdvancedFollows
<1>7. Completed(f, o) = r
  BY DEF Completed, s
<1> HIDE DEF r
<1>8. Follows(flow[f], r)
  BY <1>3, <1>6 DEF Follows
<1>9. MayStore(f, r)
  BY <1>1, <1>8 DEF MayStore
<1>10. FlowSteps /\ envelope' = Purged(flow', env) /\ flow'[f] = r
  <2>1. flow' = [flow EXCEPT ![f] = r] /\ envelope' = Purged(flow', env)
    BY <1>7 DEF StoreOnly
  <2> QED
    BY <1>9, <2>1, StoreOnlySteps DEF IInv, TypeOK
<1>11. r.status # "none" /\ r.journal = flow[f].journal
  BY <1>3, <1>6 DEF Follows, Started
<1>12. ~OAuthAhead(flow[f].journal, next)
  <2>1. \A i, j \in DOMAIN flow[f].journal :
          flow[f].journal[i] \in OAuthKinds /\ flow[f].journal[j] \in OAuthKinds => i = j
    BY <1>1, JournalAssumption
  <2>2. DOMAIN flow[f].journal = 1..Len(flow[f].journal)
    BY <1>1, JournalAssumption
  <2>3. ASSUME NEW q \in next..Len(flow[f].journal)
        PROVE  flow[f].journal[q] \notin OAuthKinds
    <3>1. q \in DOMAIN flow[f].journal /\ flow[f].pos \in DOMAIN flow[f].journal
          /\ q # flow[f].pos
      BY <1>1, <1>5, <2>2
    <3> QED
      BY <1>1, <2>1, <3>1
  <2> QED
    BY <2>3 DEF OAuthAhead
<1> QED
  BY <1>6, <1>10, <1>11, <1>12

\* Which secrets a step keeps, and which flows they are of.
Keeps(env) ==
  /\ env \in [Flow -> Envelope \cup {None}]
  /\ \A g \in Flow : env[g] # None => envelope[g] # None /\ env[g].for = envelope[g].for

KeepsLive ==
  Keeps(envelope') /\ \A g \in Flow : envelope'[g] # None => flow'[g].status \in Working

\* After a purge no envelope is left of a flow that has ended.
LEMMA PurgedKeepsLive ==
  ASSUME IInv, FlowSteps, NEW env, Keeps(env), envelope' = Purged(flow', env)
  PROVE  KeepsLive /\ \A g \in Flow : env[g] = None => envelope'[g] = None
<1>1. ASSUME NEW g \in Flow
      PROVE  envelope'[g] = IF flow'[g].status \in Terminal THEN None ELSE env[g]
  BY DEF Purged
<1>2. envelope' \in [Flow -> Envelope \cup {None}]
  BY <1>1 DEF Purged, Keeps
<1>3. Keeps(envelope')
  BY <1>1, <1>2 DEF Keeps
<1>4. ASSUME NEW g \in Flow, envelope'[g] # None PROVE flow'[g].status \in Working
  <2>1. envelope[g] # None /\ flow'[g].status \notin Terminal
    BY <1>1, <1>4 DEF Keeps
  <2>2. flow[g].status \in Working
    BY <2>1 DEF IInv, SecretsAreSpent
  <2>3. flow'[g].status # "none"
    BY <2>2 DEF FlowSteps, Restarts, Works, Expires, Follows, Started, Working
  <2> QED
    BY <2>1, <2>3 DEF FlowSteps, FlowRow
<1> QED
  BY <1>1, <1>3, <1>4 DEF KeepsLive

\* What each handler keeps of the envelopes: all,
LEMMA SameKeeps == ASSUME IInv PROVE Keeps(envelope)
BY DEF IInv, TypeOK, Keeps

\* all but the one it redeems,
LEMMA ConsumeKeeps == ASSUME IInv, NEW f \in Flow PROVE Keeps(Consume(f)) /\ Consume(f)[f] = None
BY DEF IInv, TypeOK, Keeps, Consume

\* those that have not lapsed,
LEMMA UnlapsedKeeps == ASSUME IInv PROVE Keeps(Unlapsed(envelope))
BY DEF IInv, TypeOK, Keeps, Unlapsed

\* and those that lapse, until they are purged.
LEMMA StaleKeeps == ASSUME IInv, NEW f \in Flow PROVE Keeps(Stale(f, envelope))
<1> DEFINE e == IF envelope[f] = None THEN None ELSE [envelope[f] EXCEPT !.stale = TRUE]
<1>1. e \in Envelope \cup {None} /\ (e # None => envelope[f] # None /\ e.for = envelope[f].for)
  BY DEF IInv, TypeOK, Envelope
<1>2. Stale(f, envelope) = [envelope EXCEPT ![f] = e]
  BY DEF Stale, IInv, TypeOK
<1> HIDE DEF e
<1> QED
  BY <1>1, <1>2 DEF Keeps, IInv, TypeOK
-----------------------------------------------------------------------------
(* What a step does to the secrets, the authorizations and the rest *)

Uses(f) ==
  /\ envelope[f] # None /\ envelope'[f] = None /\ KeepsLive
  /\ spent' = spent \cup {envelope[f].for.state} /\ issued' = issued

Issues(f) ==
  /\ flow[f].status \in Working /\ UNCHANGED <<flow, spent>>
  /\ issued < MaxStates /\ issued' = issued + 1
  /\ \E e \in Envelope :
       /\ e.for.flow = f /\ e.for.state = issued'
       /\ envelope' = [envelope EXCEPT ![f] = e]

Secretly ==
  \/ KeepsLive /\ UNCHANGED <<issued, spent>>
  \/ \E f \in Flow : Uses(f) \/ Issues(f)

Grants(f) ==
  /\ AwaitingOAuth(f) /\ granted' = [granted EXCEPT ![f] = @ + 1]
  /\ flow'[f].status # "none" /\ ~OAuthAhead(flow'[f].journal, flow'[f].pos)

Granting == granted' = granted \/ \E f \in Flow : Grants(f)

\* The flows that run out of time are under way.
TimePasses == \A f \in overdue' : f \in overdue \/ (f \in Flow /\ flow[f].status \in Working)

Aside ==
  /\ seen' \in [Flow -> FlowRow] /\ exchange' \in [Request -> Attempt \cup {None}]
  /\ meddles' \in 0..MaxMeddles

StepOK == FlowSteps /\ Typed' /\ Secretly /\ Granting /\ TimePasses /\ Aside

\* Most of it is left alone by most operations.
LEMMA AsideStays == ASSUME IInv, UNCHANGED <<seen, exchange, meddles>> PROVE Aside
BY DEF IInv, TypeOK, Aside

\* Credentials that are left alone keep their types.
LEMMA StaysTyped == ASSUME IInv PROVE Typed /\ (UNCHANGED stores => Typed')
BY DEF IInv, TypeOK, Typed, stores

\* States are numbered.
LEMMA StatesAreNumbers == ASSUME IInv PROVE issued \in Nat /\ issued \in Int /\ MaxStates \in Int
BY BoundAssumption DEF IInv, TypeOK

\* A state is issued once, and what was spent is not kept.
LEMMA SecretsKept ==
  ASSUME IInv, FlowSteps, Secretly
  PROVE  /\ envelope' \in [Flow -> Envelope \cup {None}]
         /\ issued' \in 0..MaxStates /\ spent' \subseteq 1..issued'
         /\ EnvelopesDiffer' /\ SecretsAreSpent'
<1>1. /\ envelope \in [Flow -> Envelope \cup {None}] /\ issued \in 0..MaxStates
      /\ spent \subseteq 1..issued /\ issued \in Nat /\ MaxStates \in Nat
  BY BoundAssumption DEF IInv, TypeOK
<1>2. CASE KeepsLive /\ UNCHANGED <<issued, spent>>
  BY <1>1, <1>2 DEF IInv, KeepsLive, Keeps, EnvelopesDiffer, SecretsAreSpent
<1>3. ASSUME NEW f \in Flow, Uses(f)
      PROVE  /\ envelope' \in [Flow -> Envelope \cup {None}]
             /\ issued' \in 0..MaxStates /\ spent' \subseteq 1..issued'
             /\ EnvelopesDiffer' /\ SecretsAreSpent'
  <2>1. envelope[f].for.state \in 1..issued
    BY <1>3 DEF Uses, IInv, EnvelopesDiffer
  <2>2. issued' \in 0..MaxStates /\ spent' \subseteq 1..issued'
    BY <1>1, <1>3, <2>1 DEF Uses
  <2>3. ASSUME NEW g \in Flow, envelope'[g] # None
        PROVE  /\ g # f /\ envelope[g] # None /\ envelope'[g].for = envelope[g].for
               /\ flow'[g].status \in Working
    BY <1>3, <2>3 DEF Uses, KeepsLive, Keeps
  <2>4. EnvelopesDiffer'
    BY <1>3, <2>3 DEF IInv, EnvelopesDiffer, Uses
  <2>5. ASSUME NEW g \in Flow, envelope'[g] # None
        PROVE  envelope'[g].for.state \notin spent'
    BY <1>3, <2>3, <2>5 DEF IInv, EnvelopesDiffer, SecretsAreSpent, Uses
  <2>6. SecretsAreSpent'
    BY <2>3, <2>5 DEF SecretsAreSpent
  <2> QED
    BY <1>3, <2>2, <2>4, <2>6 DEF Uses, KeepsLive, Keeps
<1>4. ASSUME NEW f \in Flow, Issues(f)
      PROVE  /\ envelope' \in [Flow -> Envelope \cup {None}]
             /\ issued' \in 0..MaxStates /\ spent' \subseteq 1..issued'
             /\ EnvelopesDiffer' /\ SecretsAreSpent'
  <2>1. PICK e \in Envelope : /\ e.for.flow = f /\ e.for.state = issued'
                              /\ envelope' = [envelope EXCEPT ![f] = e]
    BY <1>4 DEF Issues
  <2>2. /\ envelope' \in [Flow -> Envelope \cup {None}]
        /\ envelope'[f] = e /\ \A g \in Flow \ {f} : envelope'[g] = envelope[g]
    BY <1>1, <2>1
  <2>3. issued' = issued + 1 /\ issued' \in 0..MaxStates /\ spent' \subseteq 1..issued'
        /\ issued' \in 1..issued'
    BY <1>1, <1>4 DEF Issues
  <2>4. \A s \in 1..issued : s # issued' /\ s \in 1..issued'
    BY <1>1, <2>3
  <2>5. ASSUME NEW g \in Flow, envelope'[g] # None
        PROVE  /\ envelope'[g].for.flow = g /\ envelope'[g].for.state \in 1..issued'
               /\ \A h \in Flow \ {g} : envelope'[h] # None =>
                    envelope'[h].for.state # envelope'[g].for.state
    BY <2>1, <2>2, <2>3, <2>4, <2>5 DEF IInv, EnvelopesDiffer
  <2>6. ASSUME NEW g \in Flow, envelope'[g] # None
        PROVE  flow'[g].status \in Working /\ envelope'[g].for.state \notin spent'
    BY <1>1, <1>4, <2>1, <2>2, <2>4, <2>6 DEF IInv, SecretsAreSpent, Issues
  <2> QED
    BY <2>2, <2>3, <2>5, <2>6 DEF EnvelopesDiffer, SecretsAreSpent
<1> QED
  BY <1>2, <1>3, <1>4 DEF Secretly

\* No flow comes back to an OAuth step that is behind it.
LEMMA GrantsKept ==
  ASSUME IInv, FlowSteps, Granting
  PROVE  GrantIsBehind' /\ granted' \in [Flow -> Nat]
<1>1. granted \in [Flow -> Nat]
  BY DEF IInv, TypeOK
<1>2. ASSUME NEW g \in Flow, granted[g] = 1
      PROVE  flow'[g].status # "none" /\ ~OAuthAhead(flow'[g].journal, flow'[g].pos)
  <2>1. flow[g].status # "none" /\ ~OAuthAhead(flow[g].journal, flow[g].pos)
    BY <1>2 DEF IInv, GrantIsBehind
  <2>2. flow'[g] = flow[g] \/ Follows(flow[g], flow'[g])
    BY <2>1 DEF FlowSteps, Restarts, Works, Expires
  <2>3. CASE Follows(flow[g], flow'[g])
    <3>1. /\ flow'[g].journal = flow[g].journal /\ flow'[g].pos >= flow[g].pos
          /\ flow'[g].pos \in Int /\ flow[g].pos \in Int /\ Len(flow[g].journal) \in Nat
          /\ flow'[g].status # "none"
      BY <2>3, JournalsAreSequences DEF IInv, Follows, Started, RowOK, FlowRow
    <3>2. \A q \in flow'[g].pos..Len(flow[g].journal) : q \in flow[g].pos..Len(flow[g].journal)
      BY <3>1
    <3> QED
      BY <2>1, <3>1, <3>2 DEF OAuthAhead
  <2> QED
    BY <2>1, <2>2, <2>3
<1>3. CASE granted' = granted
  BY <1>1, <1>2, <1>3 DEF IInv, GrantIsBehind
<1>4. ASSUME NEW f \in Flow, Grants(f) PROVE GrantIsBehind' /\ granted' \in [Flow -> Nat]
  <2>1. granted[f] # 1
    <3>1. OAuthAhead(flow[f].journal, flow[f].pos)
      <4>1. /\ flow[f].pos \in 1..Len(flow[f].journal) /\ flow[f].journal \in Journals
            /\ flow[f].journal[flow[f].pos] \in OAuthKinds
        BY <1>4, AwaitingIsAhead DEF Grants
      <4>2. flow[f].pos \in flow[f].pos..Len(flow[f].journal)
        BY <4>1, JournalsAreSequences
      <4> QED
        BY <4>1, <4>2 DEF OAuthAhead
    <3> QED
      BY <3>1 DEF IInv, GrantIsBehind
  <2>2. granted[f] = 0
    BY <1>1, <2>1 DEF IInv, GrantIsBehind
  <2>3. /\ granted' \in [Flow -> Nat] /\ granted'[f] = 1
        /\ \A g \in Flow \ {f} : granted'[g] = granted[g]
    BY <1>1, <1>4, <2>2 DEF Grants
  <2> QED
    BY <1>2, <1>4, <2>3 DEF IInv, GrantIsBehind, Grants
<1> QED
  BY <1>3, <1>4 DEF Granting

\* Such a step keeps the invariant.
LEMMA StepKeeps == ASSUME IInv, StepOK PROVE IInv'
<1>1. /\ envelope' \in [Flow -> Envelope \cup {None}]
      /\ issued' \in 0..MaxStates /\ spent' \subseteq 1..issued'
      /\ EnvelopesDiffer' /\ SecretsAreSpent'
  BY SecretsKept DEF StepOK
<1>2. GrantIsBehind' /\ granted' \in [Flow -> Nat]
  BY GrantsKept DEF StepOK
<1>3. \A g \in Flow : RowOK(flow'[g])
  BY DEF StepOK, FlowSteps, IInv, Restarts, Works, Expires, Follows, Started
<1>4. overdue' \subseteq Flow /\ OverdueStarted'
  <2>1. ASSUME NEW g \in overdue' PROVE g \in Flow /\ flow'[g].status # "none"
    <3>1. g \in Flow /\ flow[g].status # "none"
      BY <2>1 DEF StepOK, TimePasses, IInv, TypeOK, OverdueStarted, Working
    <3> QED
      BY <3>1 DEF StepOK, FlowSteps, Restarts, Works, Expires, Follows, Started
  <2> QED
    BY <2>1 DEF OverdueStarted
<1>5. TypeOK'
  <2>1. \A g \in Flow : flow'[g].pos <= Len(flow'[g].journal) + 1
    BY <1>3 DEF RowOK
  <2> QED
    BY <1>1, <1>2, <1>4, <2>1 DEF TypeOK, StepOK, FlowSteps, Typed, Aside
<1> QED
  BY <1>1, <1>2, <1>3, <1>4, <1>5 DEF IInv
-----------------------------------------------------------------------------
(* Every action is such a step *)

\* A step that keeps the secrets it does not purge.
LEMMA PurgingOK ==
  ASSUME IInv, FlowSteps, Typed', NEW env, Keeps(env), envelope' = Purged(flow', env),
         UNCHANGED <<issued, spent, granted, overdue>>, Aside
  PROVE  StepOK
BY PurgedKeepsLive DEF StepOK, Secretly, Granting, TimePasses

\* Every operation sweeps and purges, and leaves the rest but a snapshot alone.
LEMMA OperationStores ==
  ASSUME NEW f \in Flow, Operation(f)
  PROVE  /\ envelope' = Purged(flow', Unlapsed(envelope))
         /\ UNCHANGED <<exchange, overdue, issued, spent, meddles, granted>>
         /\ seen' = seen \/ seen' = [seen EXCEPT ![f] = flow[f]]
<1> DEFINE Leaves == UNCHANGED <<exchange, overdue, issued, spent, meddles, granted>>
           Stores == \E r : Store(f, r)
<1>1. ASSUME NEW r, NEW p, NEW a, Settles(f, r, p, a) PROVE Stores
  BY <1>1 DEF Settles
<1>2. ASSUME NEW r, NEW a, Adopt(f, r, a) PROVE Stores
  BY <1>2, <1>1 DEF Adopt
<1>3. CASE Look(f)
  BY <1>3 DEF Look, Store
<1>4. CASE Acknowledge(f) \/ Discover(f)
  BY <1>4, <1>1 DEF Acknowledge, Discover, Store, Others
<1>5. CASE SubmitToTarget(f)
  <2>1. UNCHANGED Others /\ Stores
    BY <1>5, <1>2 DEF SubmitToTarget
  <2> QED
    BY <2>1 DEF Others, Store
<1>6. CASE SubmitAsks(f) \/ CreateApp(f) \/ CreateAccount(f) \/ Cancel(f)
  BY <1>6 DEF SubmitAsks, CreateApp, CreateAccount, Cancel, Store, Others
<1>7. ASSUME NEW a \in App, SubmitNew(f, a) \/ ReuseApp(f, a) \/ ReplaceApp(f, a)
      PROVE  UNCHANGED Others /\ Stores
  BY <1>7, <1>2 DEF SubmitNew, ReuseApp, ReplaceApp
<1>8. ASSUME NEW o \in Account, ReuseAccount(f, o) \/ ReplaceAccount(f, o)
      PROVE  UNCHANGED Others /\ Stores
  BY <1>8, <1>1 DEF ReuseAccount, ReplaceAccount
<1>9. ASSUME NEW j, NEW t, NEW o, NEW re, Start(f, j, t, o, re)
      PROVE  UNCHANGED Others /\ Stores
  BY <1>9, <1>1 DEF Start
<1>10. ASSUME UNCHANGED Others, Stores
       PROVE  /\ envelope' = Purged(flow', Unlapsed(envelope))
              /\ Leaves /\ seen' = seen
  BY <1>10 DEF Others, Store
<1> QED
  BY <1>3, <1>4, <1>5, <1>6, <1>7, <1>8, <1>9, <1>10 DEF Operation

\* Operations of the service.
LEMMA OperationOK == ASSUME IInv, NEW f \in Flow, Operation(f) PROVE StepOK
<1>1. Aside
  BY OperationStores DEF Aside, IInv, TypeOK
<1> QED
  BY <1>1, OperationStores, OperationSound, UnlapsedKeeps, PurgingOK

\* The sweep.
LEMMA SweepOK == ASSUME IInv, Sweep PROVE StepOK
<1>1. /\ flow' = Swept /\ envelope' = Purged(flow', Unlapsed(envelope))
      /\ UNCHANGED stores /\ UNCHANGED <<exchange, overdue, seen, issued, spent, meddles, granted>>
  BY DEF Sweep, Others
<1> QED
  BY <1>1, AsideStays, StaysTyped, SweepSteps, UnlapsedKeeps, PurgingOK

\* An attempt as it is started.
LEMMA IssuingOK ==
  ASSUME IInv, NEW f \in Flow, AwaitingOAuth(f), issued < MaxStates, issued' = issued + 1,
         NEW p \in Attempt, p.flow = f, p.state = issued',
         envelope' = [envelope EXCEPT ![f] = [for |-> p, stale |-> FALSE]],
         UNCHANGED <<flow, stores, exchange, overdue, seen, spent, granted, meddles>>
  PROVE  StepOK
<1> DEFINE e == [for |-> p, stale |-> FALSE]
<1>1. e \in Envelope /\ e.for = p
  BY DEF Envelope
<1>2. envelope' = [envelope EXCEPT ![f] = e]
  OBVIOUS
<1> HIDE DEF e
<1>3. Issues(f)
  BY <1>1, <1>2, AwaitingIsAhead DEF Issues
<1> QED
  BY <1>3, UnchangedSteps, StaysTyped, AsideStays DEF StepOK, Secretly, Granting, TimePasses

\* A claimed envelope is gone, whatever becomes of the flow.
LEMMA UsingOK ==
  ASSUME IInv, FlowSteps, Typed', NEW f \in Flow, envelope[f] # None, Spend(f),
         envelope' = Purged(flow', Consume(f)), issued' = issued,
         Granting, overdue' = overdue, Aside
  PROVE  StepOK
<1>1. KeepsLive /\ envelope'[f] = None
  BY ConsumeKeeps, PurgedKeepsLive
<1>2. Uses(f)
  BY <1>1 DEF Uses, Spend
<1> QED
  BY <1>2 DEF StepOK, Secretly, TimePasses

\* An envelope holds an attempt of its flow.
LEMMA EnvelopeOf ==
  ASSUME IInv, NEW f \in Flow, envelope[f] # None
  PROVE  envelope[f].for \in Attempt /\ envelope[f].for.flow = f
BY DEF IInv, TypeOK, Envelope, EnvelopesDiffer

\* An exchange is of an attempt, or over.
LEMMA ExchangeTyped ==
  ASSUME IInv, NEW x \in Request, NEW p \in Attempt \cup {None}
  PROVE  [exchange EXCEPT ![x] = p] \in [Request -> Attempt \cup {None}]
BY DEF IInv, TypeOK

\* The OAuth routes up to the exchange.
LEMMA OAuthRouteOK == ASSUME IInv, NEW f \in Flow, OAuthRoute(f) PROVE StepOK
<1>1. CASE Preflight(f)
  <2>1. AwaitingOAuth(f) /\ StoreOnly(f, Paused(flow[f], LiveAccounts), envelope)
        /\ UNCHANGED <<stores, exchange, overdue, seen, issued, spent, meddles, granted>>
    BY <1>1 DEF Preflight, Initiates, Others
  <2>2. flow[f].status \in Working /\ f \notin overdue
    BY <2>1, AwaitingIsAhead
  <2>3. Follows(flow[f], Paused(flow[f], LiveAccounts))
    BY <2>2, WorkingProceeds, PausedFollows DEF Proceeds, LiveAccounts
  <2>4. MayStore(f, Paused(flow[f], LiveAccounts))
    BY <2>2, <2>3 DEF MayStore
  <2>5. FlowSteps /\ envelope' = Purged(flow', envelope)
    BY <2>1, <2>4, StoreOnlySteps DEF StoreOnly
  <2> QED
    BY <2>1, <2>5, SameKeeps, AsideStays, StaysTyped, PurgingOK
<1>2. CASE Initiate(f)
  <2> DEFINE r == flow[f]
             p == [flow |-> f, state |-> issued', app |-> r.target,
                   appVer |-> app[r.target].ver, oauth |-> r.oauth,
                   oauthVer |-> IF r.oauth = None THEN 0 ELSE account[r.oauth].ver]
  <2>1. /\ AwaitingOAuth(f) /\ r.target \in App
        /\ issued < MaxStates /\ issued' = issued + 1
        /\ envelope' = [envelope EXCEPT ![f] = [for |-> p, stale |-> FALSE]]
        /\ UNCHANGED <<flow, stores, exchange, overdue, seen, spent, granted, meddles>>
    BY <1>2 DEF Initiate, Initiates, AppReady, LiveApps
  <2>2. p \in Attempt /\ p.flow = f /\ p.state = issued'
    <3>1. r.oauth \in Account \cup {None} /\ issued' \in Nat
      <4>1. r \in FlowRow
        BY DEF IInv, TypeOK
      <4> QED
        BY <2>1, <4>1, StatesAreNumbers DEF FlowRow
    <3>2. app[r.target].ver \in Nat /\ \A o \in Account : account[o].ver \in Nat
      BY <2>1, StaysTyped DEF Typed, AppRow, AccountRow
    <3>3. (IF r.oauth = None THEN 0 ELSE account[r.oauth].ver) \in Nat
      BY <3>1, <3>2
    <3> QED
      BY <2>1, <3>1, <3>2, <3>3 DEF Attempt
  <2> HIDE DEF p
  <2> QED
    BY <2>1, <2>2, IssuingOK
<1>3. ASSUME NEW why \in Refusals, CallbackError(f, why) PROVE StepOK
  <2> DEFINE p == envelope[f].for
  <2>1. /\ envelope[f] # None /\ Direct(p) /\ Spend(f)
        /\ UNCHANGED <<account, exchange, overdue, seen, issued, granted, meddles>>
        /\ \/ StoreOnly(f, flow[f], Consume(f)) /\ UNCHANGED app
           \/ Refused(p, why, Consume(f))
    BY <1>3 DEF CallbackError
  <2>2. p \in Attempt /\ p.flow = f
    BY <2>1, EnvelopeOf
  <2> HIDE DEF p
  <2>3. FlowSteps /\ envelope' = Purged(flow', Consume(f)) /\ Typed'
    BY <2>1, <2>2, NothingSteps, RefusedSound, StaysTyped DEF Typed
  <2> QED
    BY <2>1, <2>3, AsideStays, UsingOK DEF Granting
<1>4. ASSUME NEW x \in Request, Callback(x, f) PROVE StepOK
  <2> DEFINE p == envelope[f].for
             q == IF /\ ~envelope[f].stale /\ AwaitingOAuth(f) /\ TargetsHold(p)
                     /\ AppReady(p.app) THEN p ELSE None
  <2>1. /\ envelope[f] # None /\ Spend(f)
        /\ exchange' = [exchange EXCEPT ![x] = q]
        /\ UNCHANGED <<stores, overdue, seen, issued, granted, meddles>>
        /\ Fail(f, Consume(f)) \/ StoreOnly(f, flow[f], Consume(f))
    BY <1>4 DEF Callback
  <2>2. p \in Attempt
    BY <2>1, EnvelopeOf
  <2>3. q \in Attempt \cup {None}
    BY <2>2
  <2> HIDE DEF p, q
  <2>4. Aside
    BY <2>1, <2>3, ExchangeTyped DEF Aside, IInv, TypeOK
  <2>5. FlowSteps /\ envelope' = Purged(flow', Consume(f)) /\ Typed'
    BY <2>1, NothingSteps, FailSteps, StaysTyped
  <2> QED
    BY <2>1, <2>4, <2>5, UsingOK DEF Granting
<1>5. ASSUME NEW x \in Request, BrokerCallback(x, f) PROVE StepOK
  <2>1. /\ envelope[f] # None
        /\ envelope' = Consume(f) \/ envelope' = envelope
        /\ exchange' = exchange \/ exchange' = [exchange EXCEPT ![x] = envelope[f].for]
        /\ UNCHANGED <<flow, stores, overdue, seen, issued, spent, granted, meddles>>
    BY <1>5 DEF BrokerCallback
  <2>2. Aside
    BY <2>1, EnvelopeOf, ExchangeTyped DEF Aside, IInv, TypeOK
  <2>3. KeepsLive
    BY <2>1, SameKeeps, ConsumeKeeps DEF KeepsLive, IInv, SecretsAreSpent, Keeps
  <2> QED
    BY <2>1, <2>2, <2>3, UnchangedSteps, StaysTyped
    DEF StepOK, Secretly, Granting, TimePasses
<1>6. CASE BrokerInitiate(f)
  <2> DEFINE p == [flow |-> f, state |-> issued', app |-> None, appVer |-> 0,
                   oauth |-> None, oauthVer |-> 0]
  <2>1. /\ AwaitingOAuth(f) /\ issued < MaxStates /\ issued' = issued + 1
        /\ envelope' = [envelope EXCEPT ![f] = [for |-> p, stale |-> FALSE]]
        /\ UNCHANGED <<flow, stores, exchange, overdue, seen, spent, granted, meddles>>
    BY <1>6 DEF BrokerInitiate
  <2>2. p \in Attempt /\ p.flow = f /\ p.state = issued'
    BY <2>1, StatesAreNumbers DEF Attempt
  <2> HIDE DEF p
  <2> QED
    BY <2>1, <2>2, IssuingOK
<1> QED
  BY <1>1, <1>2, <1>3, <1>4, <1>5, <1>6 DEF OAuthRoute

\* An exchange that ends without an authorization leaves the secrets alone.
LEMMA EndingOK ==
  ASSUME IInv, NEW x \in Request, Done(x), FlowSteps, Typed',
         envelope' = Purged(flow', envelope),
         UNCHANGED <<overdue, seen, issued, spent, granted, meddles>>
  PROVE  StepOK
<1>1. Aside
  BY ExchangeTyped DEF Done, Aside, IInv, TypeOK
<1> QED
  BY <1>1, SameKeeps, PurgingOK

\* Tokens are for an attempt of a flow that still awaits them.
LEMMA TokensSound ==
  ASSUME IInv, NEW x \in Request, NEW who, Tokens(x, who)
  PROVE  LET f == exchange[x].flow
         IN  /\ exchange[x] \in Attempt /\ f \in Flow /\ exchange[x].app \in App
             /\ flow[f] \in FlowRow /\ AwaitingOAuth(f) /\ Done(x)
             /\ UNCHANGED <<app, overdue, seen, issued, spent, meddles>>
<1>1. exchange[x] \in Attempt
  BY DEF IInv, TypeOK, Tokens, Direct
<1>2. exchange[x].flow \in Flow /\ exchange[x].app \in App
  BY <1>1 DEF Attempt, Tokens, Direct
<1> QED
  BY <1>1, <1>2 DEF Tokens, IInv, TypeOK

\* A connected account is an account.
LEMMA ConnectedTyped ==
  ASSUME Typed, NEW o \in Account, NEW who \in Identity \cup {Unknown},
         NEW a \in App, NEW extra \in BOOLEAN
  PROVE  Connected(o, who, a, extra) \in [Account -> AccountRow]
<1> DEFINE row == [live |-> TRUE, ver |-> account[o].ver + 1, who |-> who, usable |-> TRUE,
                   app |-> a, extra |-> account[o].extra \/ extra]
<1>1. account[o].ver + 1 \in Nat /\ (account[o].extra \/ extra) \in BOOLEAN
  BY DEF Typed, AccountRow
<1>2. row \in AccountRow
  BY <1>1 DEF AccountRow
<1> HIDE DEF row
<1>3. [account EXCEPT ![o] = row] \in [Account -> AccountRow]
  BY <1>2 DEF Typed
<1> QED
  BY <1>3 DEF Connected, row

\* What ends an exchange.
LEMMA ExchangeEndsOK == ASSUME IInv, NEW x \in Request, ExchangeEnds(x) PROVE StepOK
<1> DEFINE p == exchange[x]
           f == p.flow
<1>1. p # None => p \in Attempt /\ f \in Flow
  BY DEF IInv, TypeOK, Attempt
<1>2. Typed
  BY StaysTyped
<1>3. ASSUME NEW why \in Refusals, ExchangeFails(x, why) PROVE StepOK
  <2>1. p \in Attempt /\ Direct(p) /\ Done(x) /\ Refused(p, why, envelope)
        /\ UNCHANGED <<account, overdue, seen, issued, spent, granted, meddles>>
    BY <1>1, <1>3 DEF ExchangeFails, Direct
  <2> HIDE DEF p, f
  <2>2. FlowSteps /\ Typed' /\ envelope' = Purged(flow', envelope)
    BY <1>2, <2>1, RefusedSound DEF Typed
  <2> QED
    BY <2>1, <2>2, EndingOK
<1>4. CASE ExchangeReduced(x)
  <2>1. f \in Flow /\ Done(x) /\ Fail(f, envelope)
        /\ UNCHANGED <<stores, overdue, seen, issued, spent, granted, meddles>>
    BY <1>1, <1>4 DEF ExchangeReduced, Direct
  <2> HIDE DEF p, f
  <2>2. FlowSteps /\ envelope' = Purged(flow', envelope)
    BY <2>1, FailSteps
  <2> QED
    BY <2>1, <2>2, StaysTyped, EndingOK
<1>5. ASSUME NEW who, TokensDropped(x, who) PROVE StepOK
  <2>1. /\ f \in Flow /\ Done(x)
        /\ Fail(f, envelope) \/ StoreOnly(f, flow[f], envelope)
        /\ UNCHANGED <<stores, overdue, seen, issued, spent, granted, meddles>>
    BY <1>1, <1>5 DEF TokensDropped, Direct
  <2> HIDE DEF p, f
  <2>2. FlowSteps /\ envelope' = Purged(flow', envelope)
    BY <2>1, FailSteps, NothingSteps
  <2> QED
    BY <2>1, <2>2, StaysTyped, EndingOK
<1>6. ASSUME NEW who, TokensAsk(x, who) PROVE StepOK
  <2> DEFINE ids == Twins(flow[f].oauth, who)
             s == Paused(flow[f], ids)
             r == [s EXCEPT !.oauthAdd = FALSE]
  <2>1. Tokens(x, who) /\ StoreOnly(f, r, envelope) /\ UNCHANGED <<account, granted>>
    BY <1>6 DEF TokensAsk
  <2>2. /\ f \in Flow /\ AwaitingOAuth(f) /\ Done(x)
        /\ UNCHANGED <<app, overdue, seen, issued, spent, meddles>>
    BY <2>1, TokensSound
  <2> HIDE DEF p, f
  <2>3. flow[f].status \in Working /\ f \notin overdue
    BY <2>2, AwaitingIsAhead
  <2>4. Follows(flow[f], s)
    BY <2>2, <2>3, WorkingProceeds, PausedFollows DEF Proceeds, Twins, LiveAccounts
  <2> HIDE DEF s
  <2>5. Follows(flow[f], r)
    BY <2>4 DEF Follows, Started, RowOK, FlowRow
  <2> HIDE DEF r
  <2>6. MayStore(f, r)
    BY <2>3, <2>5 DEF MayStore
  <2>7. FlowSteps /\ envelope' = Purged(flow', envelope)
    BY <2>1, <2>2, <2>6, StoreOnlySteps DEF StoreOnly
  <2>8. Typed'
    BY <1>2, <2>1, <2>2 DEF Typed
  <2> QED
    BY <2>1, <2>2, <2>7, <2>8, EndingOK
<1>7. ASSUME NEW who \in Identity \cup {Unknown}, NEW o \in Account, TokensStored(x, who, o)
      PROVE  StepOK
  <2>1. /\ Tokens(x, who) /\ StoreOnly(f, Completed(f, o), envelope)
        /\ granted' = [granted EXCEPT ![f] = @ + 1]
        /\ account' = Connected(o, who, p.app, flow[f].oauthAdd)
    BY <1>7 DEF TokensStored
  <2>2. /\ f \in Flow /\ AwaitingOAuth(f) /\ Done(x) /\ p.app \in App /\ flow[f] \in FlowRow
        /\ UNCHANGED <<app, overdue, seen, issued, spent, meddles>>
    BY <2>1, TokensSound
  <2>3. flow[f].oauthAdd \in BOOLEAN
    BY <2>2 DEF FlowRow
  <2> HIDE DEF p, f
  <2>4. account' \in [Account -> AccountRow]
    BY <1>2, <2>1, <2>2, <2>3, ConnectedTyped DEF Typed
  <2>5. Typed'
    BY <1>2, <2>2, <2>4 DEF Typed
  <2>6. /\ FlowSteps /\ envelope' = Purged(flow', envelope)
        /\ flow'[f].status # "none" /\ ~OAuthAhead(flow'[f].journal, flow'[f].pos)
    BY <2>1, <2>2, CompletedSound
  <2>7. Granting
    BY <2>1, <2>2, <2>6 DEF Granting, Grants
  <2>8. KeepsLive
    BY <2>6, SameKeeps, PurgedKeepsLive
  <2>9. Aside
    BY <2>2, ExchangeTyped DEF Done, Aside, IInv, TypeOK
  <2> QED
    BY <2>2, <2>5, <2>6, <2>7, <2>8, <2>9 DEF StepOK, Secretly, TimePasses
<1>8. CASE BrokerConfirms(x)
  <2>1. /\ f \in Flow /\ envelope[f] # None /\ AwaitingOAuth(f) /\ Done(x) /\ Spend(f)
        /\ StoreOnly(f, Completed(f, flow[f].oauth), Consume(f))
        /\ granted' = [granted EXCEPT ![f] = @ + 1]
        /\ UNCHANGED <<stores, overdue, seen, issued, meddles>>
    BY <1>1, <1>8 DEF BrokerConfirms, Brokered, Claimable
  <2> HIDE DEF p, f
  <2>2. flow[f].oauth \in Account \cup {None}
    <3>1. flow[f] \in FlowRow
      BY <2>1 DEF IInv, TypeOK
    <3> QED
      BY <3>1 DEF FlowRow
  <2>3. /\ FlowSteps /\ envelope' = Purged(flow', Consume(f))
        /\ flow'[f].status # "none" /\ ~OAuthAhead(flow'[f].journal, flow'[f].pos)
    BY <2>1, <2>2, CompletedSound
  <2>4. Granting
    BY <2>1, <2>3 DEF Granting, Grants
  <2>5. Aside
    BY <2>1, ExchangeTyped DEF Done, Aside, IInv, TypeOK
  <2> QED
    BY <2>1, <2>3, <2>4, <2>5, StaysTyped, UsingOK
<1>9. CASE BrokerDoubts(x)
  <2>1. Done(x) /\ UNCHANGED <<flow, envelope, stores, overdue, seen, issued, spent,
                               granted, meddles>>
    BY <1>9 DEF BrokerDoubts
  <2>2. KeepsLive
    BY <2>1, SameKeeps DEF KeepsLive, IInv, SecretsAreSpent
  <2>3. Aside
    BY <2>1, ExchangeTyped DEF Done, Aside, IInv, TypeOK
  <2> QED
    BY <2>1, <2>2, <2>3, UnchangedSteps, StaysTyped
    DEF StepOK, Secretly, Granting, TimePasses
<1> QED
  BY <1>3, <1>4, <1>5, <1>6, <1>7, <1>8, <1>9 DEF ExchangeEnds

\* The process dies with its exchanges only.
LEMMA CrashOK == ASSUME IInv, Crash PROVE StepOK
<1>1. UNCHANGED <<flow, envelope, stores, overdue, seen, issued, spent, granted, meddles>>
      /\ exchange' = [x \in Request |-> None]
  BY DEF Crash
<1>2. KeepsLive
  BY <1>1, SameKeeps DEF KeepsLive, IInv, SecretsAreSpent
<1>3. Aside
  BY <1>1 DEF Aside, IInv, TypeOK
<1> QED
  BY <1>1, <1>2, <1>3, UnchangedSteps, StaysTyped
  DEF StepOK, Secretly, Granting, TimePasses

\* What others do to the credentials.
LEMMA MeddlingOK ==
  ASSUME IInv, Meddle, Typed', UNCHANGED Elsewhere
  PROVE  StepOK
<1>1. UNCHANGED <<flow, envelope, exchange, overdue, seen, issued, spent, granted>>
  BY DEF Elsewhere
<1>2. KeepsLive
  BY <1>1, SameKeeps DEF KeepsLive, IInv, SecretsAreSpent
<1>3. Aside
  BY <1>1, BoundAssumption DEF Meddle, Aside, IInv, TypeOK
<1> QED
  BY <1>1, <1>2, <1>3, UnchangedSteps DEF StepOK, Secretly, Granting, TimePasses

\* Time makes an envelope stale, and perhaps its flow overdue.
LEMMA LapsingOK ==
  ASSUME IInv, NEW f \in Flow,
         UNCHANGED <<flow, stores, exchange, seen, issued, spent, granted, meddles>>,
         envelope' = Stale(f, envelope), TimePasses
  PROVE  StepOK
<1>1. KeepsLive
  BY StaleKeeps DEF KeepsLive, Keeps, IInv, SecretsAreSpent
<1> QED
  BY <1>1, AsideStays, UnchangedSteps, StaysTyped DEF StepOK, Secretly, Granting

\* The rest of the world.
LEMMA EnvironmentOK == ASSUME IInv, Environment PROVE StepOK
<1>1. Typed
  BY StaysTyped
<1>2. ASSUME NEW a \in App, AddApp(a) PROVE StepOK
  <2>1. [app EXCEPT ![a] = NewApp] \in [App -> AppRow]
    BY <1>1 DEF NewApp, AppRow, Typed
  <2> QED
    BY <1>1, <1>2, <2>1, MeddlingOK DEF AddApp, Typed
<1>3. ASSUME NEW a \in App, EditApp(a) PROVE StepOK
  <2>1. PICK whole \in BOOLEAN : app' = [app EXCEPT ![a].ver = @ + 1, ![a].whole = whole]
    BY <1>3 DEF EditApp
  <2>2. app[a] \in AppRow /\ app[a].ver + 1 \in Nat
    BY <1>1 DEF Typed, AppRow
  <2>3. [app[a] EXCEPT !.ver = app[a].ver + 1, !.whole = whole] \in AppRow
    BY <2>2 DEF AppRow
  <2>4. app' = [app EXCEPT ![a] = [app[a] EXCEPT !.ver = app[a].ver + 1, !.whole = whole]]
    BY <1>1, <2>1 DEF Typed, AppRow
  <2>5. app' \in [App -> AppRow]
    BY <1>1, <2>3, <2>4 DEF Typed
  <2> QED
    BY <1>1, <1>3, <2>5, MeddlingOK DEF EditApp, Typed
<1>4. ASSUME NEW a \in App, DeleteApp(a) PROVE StepOK
  <2>1. Removed(app[a]) \in AppRow
    BY <1>1 DEF Typed, AppRow, Removed
  <2>2. app' = [app EXCEPT ![a] = Removed(app[a])]
    BY <1>1, <1>4 DEF DeleteApp, Typed
  <2>3. app' \in [App -> AppRow]
    BY <1>1, <2>1, <2>2 DEF Typed
  <2> QED
    BY <1>1, <1>4, <2>3, MeddlingOK DEF DeleteApp, Typed
<1>5. ASSUME NEW o \in Account, DeleteAccount(o) PROVE StepOK
  <2>1. Removed(account[o]) \in AccountRow
    BY <1>1 DEF Typed, AccountRow, Removed
  <2>2. account' = [account EXCEPT ![o] = Removed(account[o])]
    BY <1>1, <1>5 DEF DeleteAccount, Typed
  <2>3. account' \in [Account -> AccountRow]
    BY <1>1, <2>1, <2>2 DEF Typed
  <2> QED
    BY <1>1, <1>5, <2>3, MeddlingOK DEF DeleteAccount, Typed
<1>6. ASSUME NEW o \in Account, RefreshAccount(o) PROVE StepOK
  <2>1. PICK usable \in BOOLEAN :
          account' = [account EXCEPT ![o].ver = @ + 1, ![o].usable = usable]
    BY <1>6 DEF RefreshAccount
  <2>2. account[o] \in AccountRow /\ account[o].ver + 1 \in Nat
    BY <1>1 DEF Typed, AccountRow
  <2>3. [account[o] EXCEPT !.ver = account[o].ver + 1, !.usable = usable] \in AccountRow
    BY <2>2 DEF AccountRow
  <2>4. account' = [account EXCEPT ![o] =
          [account[o] EXCEPT !.ver = account[o].ver + 1, !.usable = usable]]
    BY <1>1, <2>1 DEF Typed, AccountRow
  <2>5. account' \in [Account -> AccountRow]
    BY <1>1, <2>3, <2>4 DEF Typed
  <2> QED
    BY <1>1, <1>6, <2>5, MeddlingOK DEF RefreshAccount, Typed
<1>7. ASSUME NEW o \in Account, NEW who \in Identity \cup {Unknown}, NEW extra \in BOOLEAN,
             ConnectElsewhere(o, who, extra)
      PROVE  StepOK
  <2>1. account' \in [Account -> AccountRow]
    BY <1>1, <1>7, ConnectedTyped DEF ConnectElsewhere, LiveApps
  <2> QED
    BY <1>1, <1>7, <2>1, MeddlingOK DEF ConnectElsewhere, Typed
<1>8. ASSUME NEW f \in Flow, EnvelopeLapses(f) PROVE StepOK
  BY <1>8, LapsingOK DEF EnvelopeLapses, Others, TimePasses
<1>9. ASSUME NEW f \in Flow, FlowLapses(f) PROVE StepOK
  BY <1>9, LapsingOK DEF FlowLapses, TimePasses
<1> QED
  BY <1>2, <1>3, <1>4, <1>5, <1>6, <1>7, <1>8, <1>9 DEF Environment

\* Every step of the specification.
LEMMA NextOK == ASSUME IInv, Next PROVE StepOK
BY OperationOK, OAuthRouteOK, ExchangeEndsOK, SweepOK, CrashOK, EnvironmentOK DEF Next

-----------------------------------------------------------------------------
(* The theorems *)

\* Nothing has been started, issued or authorized yet.
LEMMA InitIInv == ASSUME Init PROVE IInv
<1>1. NoFlow \in FlowRow /\ NoFlow.pos = 1 /\ NoFlow.status = "none" /\ NoFlow.journal = <<>>
  <2>1. {} \in SUBSET (App \cup Account) /\ <<>> \in Journals \cup {<<>>}
        /\ "unknown" \in Auths /\ 1 \in Nat \ {0}
    BY DEF Auths
  <2> QED
    BY <2>1 DEF NoFlow, FlowRow
<1>2. /\ flow \in [Flow -> FlowRow] /\ seen \in [Flow -> FlowRow]
      /\ \A f \in Flow : flow[f] = NoFlow /\ RowOK(flow[f])
  <2>1. Len(<<>>) = 0
    OBVIOUS
  <2>2. RowOK(NoFlow)
    BY <1>1, <2>1 DEF RowOK, Working
  <2> QED
    BY <1>1, <2>2 DEF Init
<1>3. /\ envelope = [f \in Flow |-> None] /\ exchange = [x \in Request |-> None]
      /\ overdue = {} /\ issued = 0 /\ spent = {} /\ meddles = 0
      /\ granted = [f \in Flow |-> 0]
  BY DEF Init
<1>4. app \in [App -> AppRow]
  <2>1. NoApp \in AppRow /\ NewApp \in AppRow
    BY DEF NoApp, NewApp, AppRow
  <2>2. app \in [App -> {NoApp, NewApp}]
    BY DEF Init
  <2> QED
    BY <2>1, <2>2
<1>5. account \in [Account -> AccountRow]
  <2>1. PICK who \in [Account -> Identity \cup {Unknown}], there \in SUBSET Account, a \in App :
          account = [o \in Account |-> IF o \notin there THEN NoAccount ELSE
            [NoAccount EXCEPT !.live = TRUE, !.ver = 1, !.who = who[o],
                              !.usable = TRUE, !.app = a]]
    BY DEF Init
  <2>2. NoAccount \in AccountRow
    BY DEF NoAccount, AccountRow
  <2>3. \A o \in Account : [NoAccount EXCEPT !.live = TRUE, !.ver = 1, !.who = who[o],
                                             !.usable = TRUE, !.app = a] \in AccountRow
    BY <2>2 DEF AccountRow
  <2> QED
    BY <2>1, <2>2, <2>3
<1>6. TypeOK
  BY <1>2, <1>3, <1>4, <1>5, BoundAssumption DEF TypeOK, RowOK
<1> QED
  BY <1>2, <1>3, <1>6 DEF IInv, OverdueStarted, GrantIsBehind, EnvelopesDiffer, SecretsAreSpent

\* Stuttering changes nothing.
LEMMA StutterKeeps == ASSUME IInv, UNCHANGED vars PROVE IInv'
BY DEF vars, IInv, TypeOK, RowOK, OverdueStarted, GrantIsBehind, OAuthAhead, EnvelopesDiffer,
       SecretsAreSpent

\* The invariant holds throughout.
LEMMA Invariance == Spec => []IInv
<1>1. Init => IInv
  BY InitIInv
<1>2. IInv /\ [Next]_vars => IInv'
  BY NextOK, StepKeeps, StutterKeeps
<1> QED
  BY <1>1, <1>2, PTL DEF Spec

\* The rows, envelopes, attempts and credentials have their types, and the
\* journal's current step is one of the journal or the end of it.
THEOREM TypeCorrect == Spec => []TypeOK
<1>1. IInv => TypeOK
  BY DEF IInv
<1> QED
  BY <1>1, Invariance, PTL

\* Of all the callbacks, direct and brokered, that overlap for a flow, one at
\* most authorizes it: when it does, the flow has left the OAuth step, its only
\* one, and no later write of the row brings it back to it.
THEOREM OneAuthorization == Spec => []OneGrant
<1>1. IInv => OneGrant
  BY DEF IInv, GrantIsBehind, OneGrant
<1> QED
  BY <1>1, Invariance, PTL

\* No envelope can be redeemed twice, and none outlives its flow.
THEOREM SecretsAreOneTime == Spec => []SecretsAreSpent
<1>1. IInv => SecretsAreSpent
  BY DEF IInv
<1> QED
  BY <1>1, Invariance, PTL

\* No operation, callback, failure or sweep changes a flow that has ended, and
\* one whose time is over can only expire.
THEOREM EndsAreFinal == Spec => EndIsFinal
<1> DEFINE Stays == \A f \in Flow :
             flow[f].status \in Terminal \/ f \in overdue =>
               \/ flow'[f] = flow[f]
               \/ flow[f].status \in Working /\ flow'[f].status = "expired"
<1>1. IInv /\ [Next]_vars => [Stays]_vars
  <2>1. ASSUME IInv, Next, NEW f \in Flow, flow[f].status \in Terminal \/ f \in overdue
        PROVE  \/ flow'[f] = flow[f]
               \/ flow[f].status \in Working /\ flow'[f].status = "expired"
    <3>1. flow[f].status # "none"
      BY <2>1 DEF IInv, OverdueStarted, Terminal
    <3>2. flow[f].status \in Working => flow[f].status \notin Terminal
      BY DEF Working, Terminal
    <3> QED
      BY <2>1, <3>1, <3>2, NextOK DEF StepOK, FlowSteps, Restarts, Works, Expires
  <2> QED
    BY <2>1
<1> QED
  BY <1>1, Invariance, PTL DEF Spec, EndIsFinal

-----------------------------------------------------------------------------
(* Who is connected *)

\* No account comes to life or changes its person, or a step connects one:
\* a person who has no other, or on the user's request.
Unconnected ==
  \A o \in Account : account'[o].live =>
    /\ account[o].live /\ account'[o].who = account[o].who
    /\ account'[o].extra = account[o].extra

Connecting ==
  \E o \in Account, who \in Identity \cup {Unknown}, a \in App, extra \in BOOLEAN :
    /\ account' = Connected(o, who, a, extra)
    /\ extra \/ Twins(o, who) = {}

\* Accounts that are left alone are not connected.
LEMMA UnchangedConnects == ASSUME UNCHANGED account PROVE Unconnected
BY DEF Unconnected

\* The operations of the service at most mark an account for reauthentication.
Marks ==
  \/ UNCHANGED account
  \/ \E o \in Account : account' = [account EXCEPT ![o].usable = FALSE]

\* Starting one again is what marks it.
LEMMA OperationMarks == ASSUME NEW f \in Flow, Operation(f) PROVE Marks
<1>1. ASSUME NEW j \in Journals, NEW t \in App \cup {None}, NEW o \in Account \cup {None},
             NEW re \in BOOLEAN, Start(f, j, t, o, re)
      PROVE  Marks
  BY <1>1 DEF Start, Marks
<1>2. ASSUME UNCHANGED account PROVE Marks
  BY <1>2 DEF Marks
<1> QED
  BY <1>1, <1>2 DEF Operation, Look, Acknowledge, SubmitToTarget, SubmitAsks, SubmitNew,
     ReuseApp, ReplaceApp, CreateApp, ReuseAccount, ReplaceAccount, CreateAccount, Discover,
     Cancel, stores

\* So they connect nothing.
LEMMA OperationConnects ==
  ASSUME IInv, NEW f \in Flow, Operation(f)
  PROVE  Unconnected
<1>1. ASSUME NEW o \in Account, account' = [account EXCEPT ![o].usable = FALSE]
      PROVE  Unconnected
  BY <1>1, StaysTyped DEF Typed, AccountRow, Unconnected
<1> QED
  BY <1>1, OperationMarks, UnchangedConnects DEF Marks

\* Every step connects nothing, or as it should.
LEMMA NextConnects == ASSUME IInv, Next PROVE Unconnected \/ Connecting
<1>1. Typed
  BY StaysTyped
<1>2. ASSUME NEW f \in Flow, OAuthRoute(f) PROVE UNCHANGED account
  BY <1>2 DEF OAuthRoute, Preflight, Initiate, CallbackError, Callback, BrokerCallback,
     BrokerInitiate, stores
<1>3. ASSUME NEW x \in Request, NEW who \in Identity \cup {Unknown}, NEW o \in Account,
             TokensStored(x, who, o)
      PROVE  Connecting
  <2> DEFINE r == flow[exchange[x].flow]
  <2>1. /\ account' = Connected(o, who, exchange[x].app, r.oauthAdd)
        /\ r.oauthAdd \/ Twins(r.oauth, who) = {}
        /\ IF r.oauth = None THEN account[o] = NoAccount ELSE o = r.oauth
    BY <1>3 DEF TokensStored
  <2>2. exchange[x].app \in App /\ r \in FlowRow
    BY <1>3, TokensSound DEF TokensStored
  <2> HIDE DEF r
  <2>3. r.oauthAdd \in BOOLEAN
    BY <2>2 DEF FlowRow
  <2>4. ASSUME Twins(r.oauth, who) = {} PROVE Twins(o, who) = {}
    <3>1. None \notin Account
      BY NoneAssumption
    <3> QED
      BY <2>1, <2>4, <3>1 DEF Twins, LiveAccounts
  <2> QED
    BY <2>1, <2>2, <2>3, <2>4 DEF Connecting
<1>4. ASSUME NEW x \in Request, ExchangeEnds(x) PROVE UNCHANGED account \/ Connecting
  BY <1>3, <1>4 DEF ExchangeEnds, ExchangeFails, ExchangeReduced, BrokerConfirms, BrokerDoubts,
     TokensAsk, TokensDropped, stores
<1>5. CASE Sweep \/ Crash
  BY <1>5, UnchangedConnects DEF Sweep, Crash, stores
<1>6. CASE Environment
  <2>1. ASSUME NEW o \in Account, DeleteAccount(o) PROVE Unconnected
    <3>1. account' = [account EXCEPT ![o] = Removed(account[o])]
      BY <1>1, <2>1 DEF DeleteAccount, Typed
    <3>2. ~Removed(account[o]).live
      BY <1>1 DEF Removed, Typed, AccountRow
    <3> QED
      BY <1>1, <3>1, <3>2 DEF Unconnected, Typed
  <2>2. ASSUME NEW o \in Account, RefreshAccount(o) PROVE Unconnected
    BY <1>1, <2>2 DEF RefreshAccount, Typed, AccountRow, LiveAccounts, Unconnected
  <2>3. ASSUME NEW o \in Account, NEW who \in Identity \cup {Unknown}, NEW extra \in BOOLEAN,
               ConnectElsewhere(o, who, extra)
        PROVE  Connecting
    BY <2>3 DEF ConnectElsewhere, LiveApps, Connecting
  <2>4. ASSUME NEW a \in App, AddApp(a) \/ EditApp(a) \/ DeleteApp(a) PROVE Unconnected
    BY <2>4, UnchangedConnects DEF AddApp, EditApp, DeleteApp
  <2>5. ASSUME NEW f \in Flow, EnvelopeLapses(f) \/ FlowLapses(f) PROVE Unconnected
    BY <2>5, UnchangedConnects DEF EnvelopeLapses, FlowLapses, stores
  <2> QED
    BY <1>6, <2>1, <2>2, <2>3, <2>4, <2>5 DEF Environment
<1> QED
  BY <1>2, <1>4, <1>5, <1>6, OperationConnects, UnchangedConnects DEF Next

\* So twins stay approved.
LEMMA ConnectingKeeps ==
  ASSUME IInv, TwinsAreApproved, Unconnected \/ Connecting
  PROVE  TwinsAreApproved'
<1>1. Typed
  BY StaysTyped
<1>2. CASE Unconnected
  BY <1>2 DEF Unconnected, TwinsAreApproved, LiveAccounts
<1>3. CASE Connecting
  <2>1. PICK o \in Account, who \in Identity \cup {Unknown}, a \in App, extra \in BOOLEAN :
          /\ account' = Connected(o, who, a, extra)
          /\ extra \/ Twins(o, who) = {}
    BY <1>3 DEF Connecting
  <2>2. /\ account'[o].who = who /\ account'[o].extra = (account[o].extra \/ extra)
        /\ \A q \in Account \ {o} : account'[q] = account[q]
    BY <1>1, <2>1 DEF Connected, Typed
  <2>3. ASSUME NEW q \in Account \ {o}, account[q].live, account[q].who = who, who # Unknown
        PROVE  account'[o].extra
    <3>1. q \in Twins(o, who)
      BY <2>3 DEF Twins, LiveAccounts
    <3> QED
      BY <2>1, <2>2, <3>1
  <2>4. ASSUME NEW q \in LiveAccounts', NEW s \in LiveAccounts',
               q # s, account'[q].who = account'[s].who, account'[q].who # Unknown
        PROVE  account'[q].extra \/ account'[s].extra
    <3>1. q \in Account /\ s \in Account /\ account'[q].live /\ account'[s].live
      BY DEF LiveAccounts
    <3>2. CASE q # o /\ s # o
      BY <2>2, <2>4, <3>1, <3>2 DEF TwinsAreApproved, LiveAccounts
    <3>3. CASE q = o \/ s = o
      BY <2>2, <2>3, <2>4, <3>1, <3>3
    <3> QED
      BY <3>2, <3>3
  <2> QED
    BY <2>4 DEF TwinsAreApproved
<1> QED
  BY <1>2, <1>3

\* Two live accounts of one person are there only because a user asked for an
\* additional one, whatever flows, deletions and refreshes overlap.
THEOREM TwinsApproved == Spec => []TwinsAreApproved
<1>1. Init => TwinsAreApproved
  <2>1. SUFFICES ASSUME Init, NEW o \in LiveAccounts, NEW q \in LiveAccounts,
                        o # q, account[o].who = account[q].who
                 PROVE  account[o].who = Unknown
    BY DEF TwinsAreApproved
  <2>2. PICK who \in [Account -> Identity \cup {Unknown}], there \in SUBSET Account, a \in App :
          /\ \A s, t \in there : s # t /\ who[s] = who[t] => who[s] = Unknown
          /\ account = [s \in Account |-> IF s \notin there THEN NoAccount ELSE
               [NoAccount EXCEPT !.live = TRUE, !.ver = 1, !.who = who[s],
                                 !.usable = TRUE, !.app = a]]
    BY <2>1 DEF Init
  <2>3. ASSUME NEW s \in LiveAccounts PROVE s \in there /\ account[s].who = who[s]
    BY <2>2 DEF LiveAccounts, NoAccount
  <2> QED
    BY <2>1, <2>2, <2>3
<1>2. IInv /\ TwinsAreApproved /\ [Next]_vars => TwinsAreApproved'
  <2>1. UNCHANGED vars => Unconnected
    BY UnchangedConnects DEF vars
  <2> QED
    BY <2>1, NextConnects, ConnectingKeeps
<1> QED
  BY <1>1, <1>2, Invariance, PTL DEF Spec

-----------------------------------------------------------------------------
(* What is overwritten *)

\* Whatever becomes of a row, its revision is another one.
LEMMA SettledMoves ==
  ASSUME NEW r \in FlowRow, NEW p \in 1..Len(r.journal) + 1, NEW a
  PROVE  Failed(r).rev # r.rev /\ Settled(r, p, a).rev # r.rev
<1>1. r.rev \in Nat
  BY DEF FlowRow
<1>2. ASSUME NEW s, s.rev = r.rev, s.rev \in Nat, DOMAIN s = DOMAIN r
      PROVE  Moved(s).rev = r.rev + 1 /\ DOMAIN Moved(s) = DOMAIN r
  BY <1>2 DEF Moved, FlowRow
<1>3. ASSUME NEW s \in FlowRow, s.rev = r.rev PROVE Failed(s).rev = r.rev + 1
  BY <1>1, <1>3 DEF Failed, Moved, FlowRow
<1> DEFINE halt == Halt(r.journal, p)
           there == [AdvancedTo(r, halt) EXCEPT
                       !.auth = IF Confirms(r.journal, p) THEN "active" ELSE @]
           ids == Candidates(r, halt, a)
<1>4. there.rev = r.rev + 1 /\ "rev" \in DOMAIN there
  BY <1>1 DEF AdvancedTo, Moved, FlowRow
<1> HIDE DEF there
<1>5. Paused(there, ids).rev = r.rev + 2
  BY <1>1, <1>4 DEF Paused, Moved
<1>6. p < halt => Failed([r EXCEPT !.pos = p]).rev = r.rev + 1
  <2> DEFINE s == [r EXCEPT !.pos = p]
  <2>1. r.journal \in Journals \cup {<<>>}
    BY DEF FlowRow
  <2>2. p \in Nat \ {0}
    BY <2>1, JournalsAreSequences
  <2>3. s \in FlowRow /\ s.rev = r.rev
    BY <2>2 DEF FlowRow
  <2> HIDE DEF s
  <2>4. Failed(s).rev = r.rev + 1
    BY <1>3, <2>3
  <2> QED
    BY <2>4 DEF s
<1>7. halt \in Int /\ p \in Int
  <2>1. r.journal \in Journals \cup {<<>>}
    BY DEF FlowRow
  <2>2. Len(r.journal) \in Nat
    BY <2>1, JournalsAreSequences
  <2> QED
    BY <2>1, <2>2, HaltIsAhead
<1>8. Settled(r, p, a) = IF p < halt /\ ~Sound(r, a) THEN Failed([r EXCEPT !.pos = p])
                           ELSE IF ids = {} THEN there ELSE Paused(there, ids)
  BY <1>7 DEF Settled, there
<1> HIDE DEF halt, ids
<1>9. Settled(r, p, a).rev = r.rev + 1 \/ Settled(r, p, a).rev = r.rev + 2
  BY <1>4, <1>5, <1>6, <1>8
<1> QED
  BY <1>1, <1>3, <1>9

\* Recording the outcome of a step is not a write of the credential.
LEMMA BoundKeeps ==
  ASSUME NEW r, NEW p, NEW a \in [App -> AppRow], NEW b \in App
  PROVE  Bound(r, p, a)[b].ver = a[b].ver
<1> DEFINE t == r.target
           v == ~Sound(r, a)
<1>1. [a EXCEPT ![t].blocked = v][b].ver = a[b].ver
  <2> HIDE DEF t, v
  <2> QED
    BY DEF AppRow
<1> QED
  BY <1>1 DEF Bound

\* Neither is settling a step,
LEMMA SettlesWrites ==
  ASSUME NEW f, NEW r, NEW p, NEW a \in [App -> AppRow], Settles(f, r, p, a), NEW b \in App
  PROVE  app'[b].ver = a[b].ver
BY BoundKeeps DEF Settles

\* nor adopting a credential.
LEMMA AdoptWrites ==
  ASSUME NEW f, NEW r, NEW apps \in [App -> AppRow], Adopt(f, r, apps), NEW b \in App
  PROVE  app'[b].ver = apps[b].ver
<1> DEFINE t == r.target
<1>1. ASSUME NEW v \in BOOLEAN
      PROVE  [apps EXCEPT ![t].blocked = v][b].ver = apps[b].ver
             /\ [apps EXCEPT ![t].blocked = v] \in [App -> AppRow]
  <2> HIDE DEF t
  <2> QED
    BY DEF AppRow
<1>2. CASE ~apps[t].whole
  BY <1>1, <1>2 DEF Adopt
<1>3. CASE apps[t].whole
  <2> DEFINE bound == [apps EXCEPT ![t].blocked = FALSE]
             s == [r EXCEPT !.auth = IF OAuthAhead(r.journal, r.pos) THEN @ ELSE "active"]
  <2>1. Settles(f, s, r.pos + 1, bound)
    BY <1>3 DEF Adopt
  <2>2. bound \in [App -> AppRow] /\ bound[b].ver = apps[b].ver
    BY <1>1
  <2> HIDE DEF bound, s
  <2> QED
    BY <2>1, <2>2, SettlesWrites
<1> QED
  BY <1>2, <1>3

\* The two halves of NoLostWrite.
ChosenApps ==
  \A a \in LiveApps : app'[a].ver # app[a].ver =>
    \E f \in Flow : /\ flow'[f] # flow[f]
                   /\ flow[f].target = a /\ flow[f].digest = app[a].ver

ChosenAccounts ==
  \A o \in LiveAccounts : account'[o].ver # account[o].ver =>
    \E x \in Request : /\ exchange[x] # None /\ exchange'[x] = None
                      /\ exchange[x].oauth = o
                      /\ exchange[x].oauthVer = account[o].ver

\* A submission to the target writes the version that was chosen.
LEMMA SubmissionChosen ==
  ASSUME IInv, NEW f \in Flow, SubmitToTarget(f)
  PROVE  ChosenApps
<1> DEFINE t == flow[f].target
<1>1. /\ flow[f].status \in Working /\ f \notin overdue /\ t # None
      /\ app[t].ver = flow[f].digest
  BY ReferencedWorks DEF SubmitToTarget, AsChosen
<1>2. flow[f] \in FlowRow /\ RowOK(flow[f]) /\ flow[f].pos <= Len(flow[f].journal)
  BY <1>1, WorkingProceeds DEF Proceeds
<1>3. t \in App
  BY <1>1, <1>2 DEF FlowRow
<1>4. PICK whole \in {app[t].whole, TRUE} :
        LET apps == [app EXCEPT ![t].ver = @ + 1, ![t].whole = whole]
        IN  Adopt(f, Targeting(f, apps, t), apps)
  BY DEF SubmitToTarget
<1> DEFINE apps == [app EXCEPT ![t].ver = @ + 1, ![t].whole = whole]
           r == Targeting(f, apps, t)
<1>5. Adopt(f, r, apps)
  BY <1>4
<1>6. apps \in [App -> AppRow] /\ \A b \in App \ {t} : apps[b] = app[b]
  <2>1. Typed
    BY StaysTyped
  <2>2. app[t].ver + 1 \in Nat /\ whole \in BOOLEAN
    BY <1>3, <1>4, <2>1 DEF Typed, AppRow
  <2>3. [app[t] EXCEPT !.ver = @ + 1, !.whole = whole] \in AppRow
    BY <1>3, <2>1, <2>2 DEF Typed, AppRow
  <2>4. apps = [app EXCEPT ![t] = [app[t] EXCEPT !.ver = @ + 1, !.whole = whole]]
    BY <1>3, <2>1 DEF Typed, AppRow
  <2> HIDE DEF apps
  <2> QED
    BY <1>3, <2>1, <2>3, <2>4 DEF Typed
<1> HIDE DEF apps
<1>7. /\ r \in FlowRow /\ r.rev = flow[f].rev /\ r.pos = flow[f].pos
      /\ r.journal = flow[f].journal
  <2>1. apps[t].ver \in Nat
    BY <1>3, <1>6 DEF AppRow
  <2> HIDE DEF t
  <2>2. t \in App
    BY <1>3
  <2> QED
    BY <1>2, <2>1, <2>2 DEF Targeting, FlowRow
<1>8. flow'[f] # flow[f]
  <2>1. r.pos + 1 \in 1..Len(r.journal) + 1
    BY <1>2, <1>7, JournalsAreSequences DEF FlowRow
  <2>2. ASSUME NEW s, s.rev # r.rev, Store(f, s) PROVE flow'[f] # flow[f]
    BY <1>7, <2>2, SweptExpires DEF Store
  <2>3. CASE ~apps[r.target].whole
    BY <1>5, <1>7, <2>1, <2>2, <2>3, SettledMoves DEF Adopt
  <2>4. CASE apps[r.target].whole
    <3> DEFINE bound == [apps EXCEPT ![r.target].blocked = FALSE]
               s == [r EXCEPT !.auth = IF OAuthAhead(r.journal, r.pos) THEN @ ELSE "active"]
    <3>1. Store(f, Settled(s, r.pos + 1, bound))
      BY <1>5, <2>4 DEF Adopt, Settles
    <3> HIDE DEF bound
    <3>2. s \in FlowRow /\ s.rev = r.rev /\ s.journal = r.journal
      BY <1>7 DEF FlowRow, Auths
    <3> HIDE DEF s
    <3> QED
      BY <2>1, <2>2, <3>1, <3>2, SettledMoves
  <2> QED
    BY <2>3, <2>4
<1>9. \A b \in App \ {t} : app'[b].ver = app[b].ver
  BY <1>5, <1>6, AdoptWrites
<1> QED
  BY <1>1, <1>3, <1>8, <1>9 DEF ChosenApps, LiveApps

\* The other operations write no credential that was there before.
LEMMA OperationChosen ==
  ASSUME IInv, NEW f \in Flow, Operation(f)
  PROVE  ChosenApps
<1> DEFINE Kept == \A b \in LiveApps : app'[b].ver = app[b].ver
<1>1. app \in [App -> AppRow] /\ LiveApps \subseteq App
  BY StaysTyped DEF Typed, LiveApps
<1>2. ASSUME NEW r, NEW p, Settles(f, r, p, app) PROVE Kept
  BY <1>1, <1>2, SettlesWrites
<1>3. ASSUME Acknowledge(f) \/ Discover(f) PROVE Kept
  BY <1>2, <1>3 DEF Acknowledge, Discover
<1>4. ASSUME NEW o \in Account, ReuseAccount(f, o) PROVE Kept
  BY <1>2, <1>4 DEF ReuseAccount
<1>5. ASSUME NEW a \in App, ReuseApp(f, a) PROVE Kept
  BY <1>1, <1>5, AdoptWrites DEF ReuseApp
<1>6. ASSUME NEW a \in App, SubmitNew(f, a) PROVE Kept
  <2> DEFINE apps == [app EXCEPT ![a] = NewApp]
  <2>1. Adopt(f, Targeting(f, apps, a), apps) /\ app[a] = NoApp
    BY <1>6 DEF SubmitNew
  <2>2. apps \in [App -> AppRow] /\ \A b \in LiveApps : apps[b] = app[b]
    <3>1. NewApp \in AppRow
      BY DEF NewApp, AppRow
    <3>2. a \notin LiveApps
      BY <2>1 DEF LiveApps, NoApp
    <3> QED
      BY <1>1, <3>1, <3>2
  <2> HIDE DEF apps
  <2> QED
    BY <1>1, <2>1, <2>2, AdoptWrites
<1>7. ASSUME NEW j \in Journals, NEW t \in App \cup {None}, NEW o \in Account \cup {None},
             NEW re \in BOOLEAN, Start(f, j, t, o, re)
      PROVE  Kept
  <2> DEFINE marked == IF re /\ o = None THEN [app EXCEPT ![t].blocked = TRUE] ELSE app
  <2>1. \E r : Settles(f, r, 1, marked)
    BY <1>7 DEF Start
  <2>2. marked \in [App -> AppRow] /\ \A b \in App : marked[b].ver = app[b].ver
    BY <1>1 DEF AppRow
  <2> HIDE DEF marked
  <2> QED
    BY <1>1, <2>1, <2>2, SettlesWrites
<1>8. ASSUME UNCHANGED app PROVE Kept
  BY <1>8
<1>9. Kept => ChosenApps
  BY DEF ChosenApps
<1> HIDE DEF Kept
<1> QED
  BY <1>3, <1>4, <1>5, <1>6, <1>7, <1>8, <1>9, SubmissionChosen
  DEF Operation, Look, SubmitAsks, ReplaceApp, CreateApp, ReplaceAccount, CreateAccount,
      Cancel, stores

\* A refusal marks the credential's binding at most.
LEMMA RefusedKeeps ==
  ASSUME Typed, NEW p, NEW why, NEW env, Refused(p, why, env), NEW b \in App
  PROVE  app'[b].ver = app[b].ver
BY DEF Refused, Repair, Typed, AppRow

\* Tokens overwrite the account they were asked for, in the version it had.
LEMMA StoredChosen ==
  ASSUME IInv, NEW x \in Request, NEW who, NEW o \in Account, TokensStored(x, who, o)
  PROVE  ChosenAccounts
<1> DEFINE p == exchange[x]
           r == flow[p.flow]
<1>1. /\ p # None /\ exchange' = [exchange EXCEPT ![x] = None]
      /\ r.oauth = p.oauth
      /\ p.oauth # None => account[p.oauth].ver = p.oauthVer
      /\ account' = Connected(o, who, p.app, r.oauthAdd)
      /\ IF r.oauth = None THEN account[o] = NoAccount ELSE o = r.oauth
  BY DEF TokensStored, Tokens, TargetsHold, Done, Direct
<1>2. exchange'[x] = None
  BY <1>1 DEF IInv, TypeOK
<1>3. \A q \in Account \ {o} : account'[q] = account[q]
  BY <1>1, StaysTyped DEF Connected, Typed
<1>4. o \in LiveAccounts => p.oauth = o /\ p.oauthVer = account[o].ver
  BY <1>1, NoneAssumption DEF LiveAccounts, NoAccount
<1> HIDE DEF p
<1> QED
  BY <1>1, <1>2, <1>3, <1>4 DEF ChosenAccounts, LiveAccounts, p

\* Every step but those of others.
LEMMA NextChosen ==
  ASSUME IInv, Next, meddles' = meddles
  PROVE  ChosenApps /\ ChosenAccounts
<1>1. Typed
  BY StaysTyped
<1>2. UNCHANGED app => ChosenApps
  BY DEF ChosenApps
<1>3. UNCHANGED account => ChosenAccounts
  BY DEF ChosenAccounts
<1>4. ASSUME NEW f \in Flow, Operation(f) PROVE ChosenApps /\ ChosenAccounts
  <2>1. ASSUME NEW o \in Account, account' = [account EXCEPT ![o].usable = FALSE]
        PROVE  ChosenAccounts
    BY <1>1, <2>1 DEF Typed, AccountRow, LiveAccounts, ChosenAccounts
  <2> QED
    BY <1>3, <1>4, <2>1, OperationMarks, OperationChosen DEF Marks
<1>5. ASSUME NEW f \in Flow, OAuthRoute(f) PROVE ChosenApps /\ ChosenAccounts
  <2>1. UNCHANGED account
    BY <1>5 DEF OAuthRoute, Preflight, Initiate, CallbackError, Callback, BrokerCallback,
       BrokerInitiate, stores
  <2>2. ASSUME NEW why \in Refusals, CallbackError(f, why) PROVE ChosenApps
    BY <1>1, <2>2, RefusedKeeps DEF CallbackError, ChosenApps, LiveApps
  <2>3. ChosenApps
    BY <1>2, <1>5, <2>2 DEF OAuthRoute, Preflight, Initiate, Callback, BrokerCallback,
       BrokerInitiate, stores
  <2> QED
    BY <1>3, <2>1, <2>3
<1>6. ASSUME NEW x \in Request, ExchangeEnds(x) PROVE ChosenApps /\ ChosenAccounts
  <2>1. ASSUME NEW why \in Refusals, ExchangeFails(x, why) PROVE ChosenApps
    BY <1>1, <2>1, RefusedKeeps DEF ExchangeFails, ChosenApps, LiveApps
  <2>2. ChosenApps
    BY <1>2, <1>6, <2>1 DEF ExchangeEnds, ExchangeReduced, BrokerConfirms, BrokerDoubts,
       TokensAsk, TokensStored, TokensDropped, Tokens, stores
  <2>3. ChosenAccounts
    BY <1>3, <1>6, StoredChosen DEF ExchangeEnds, ExchangeFails, ExchangeReduced,
       BrokerConfirms, BrokerDoubts, TokensAsk, TokensDropped, stores
  <2> QED
    BY <2>2, <2>3
<1>7. CASE Sweep \/ Crash
  BY <1>2, <1>3, <1>7 DEF Sweep, Crash, stores
<1>8. CASE Environment
  <2>1. ~Meddle
    <3>1. meddles \in Int
      BY BoundAssumption DEF IInv, TypeOK
    <3> QED
      BY <3>1 DEF Meddle
  <2> QED
    BY <1>2, <1>3, <1>8, <2>1 DEF Environment, AddApp, EditApp, DeleteApp, DeleteAccount,
       RefreshAccount, ConnectElsewhere, EnvelopeLapses, FlowLapses, stores
<1> QED
  BY <1>4, <1>5, <1>6, <1>7, <1>8 DEF Next

\* Whatever was edited or refreshed since the user chose it or was sent away is
\* not overwritten: the write is of the version that was chosen.
THEOREM NoWriteIsLost == Spec => NoLostWrite
<1> DEFINE Careful == meddles' = meddles => ChosenApps /\ ChosenAccounts
<1>1. IInv /\ [Next]_vars => [Careful]_vars
  BY NextChosen
<1>2. Careful =>
        (meddles' = meddles =>
           /\ \A a \in LiveApps : app'[a].ver # app[a].ver =>
                \E f \in Flow : /\ flow'[f] # flow[f]
                               /\ flow[f].target = a /\ flow[f].digest = app[a].ver
           /\ \A o \in LiveAccounts : account'[o].ver # account[o].ver =>
                \E x \in Request : /\ exchange[x] # None /\ exchange'[x] = None
                                  /\ exchange[x].oauth = o
                                  /\ exchange[x].oauthVer = account[o].ver)
  BY DEF ChosenApps, ChosenAccounts
<1> HIDE DEF Careful
<1> QED
  BY <1>1, <1>2, Invariance, PTL DEF Spec, NoLostWrite
=============================================================================
