-------------------------- MODULE ApprovalsProofs --------------------------
(***************************************************************************)
(* The safety of Approvals for any number of turns, tools, clients and     *)
(* approvals.                                                              *)
(*                                                                         *)
(* Fits says what a turn knows of its row: while it waits without an       *)
(* outcome its handle is in the map; the outcome its race was won with is  *)
(* the one of the row, or the row is undecided; a decision to allow was    *)
(* stored by a client that may answer, for this turn and tool; and every   *)
(* tool that is allowed for the turn has such a row.  It needs that two    *)
(* turns never wait for one row, that the rows of handles are undecided,   *)
(* and that nothing comes between a race that is decided and its return.   *)
(***************************************************************************)
EXTENDS Approvals, TLAPS

Waits(s) == s.pc \in {"notify", "wait"}

Undecided == {"pending", "expired"}

Allows == {"allow-once", "allow-session"}

\* Row r allows what turn state s is about to run (Covers, for a state).
Given(r, s) ==
  /\ r.status = "allowed" /\ r.life = s.life /\ r.tool = s.tool
  /\ r.by \in {Rest, r.origin} \/ r.origin = Rest

\* Row r allows tool x for the rest of the turn.
GivenFor(r, s, x) ==
  Given(r, [s EXCEPT !.tool = x]) /\ r.decision = "allow-session"

Fits(s) ==
  /\ Waits(s) => /\ s.id \in Id /\ rows[s.id].status # "none"
                 /\ rows[s.id].life = s.life /\ rows[s.id].tool = s.tool
  /\ Waits(s) /\ s.settled = "none" => s.id \in pending
  /\ s.pc = "notify" /\ s.settled = "expired" => rows[s.id].status = "expired"
  /\ s.pc = "wait" /\ s.won = "none" => s.settled = "none"
  /\ s.pc = "wait" /\ s.won \in {"expired", "aborted"} => rows[s.id].status \in Undecided
  /\ \A v \in Allows :
       (s.pc = "notify" /\ s.settled = v) \/ (s.pc = "wait" /\ s.won = v)
         => Given(rows[s.id], s) /\ rows[s.id].decision = v
  /\ s.pc = "run" => IF s.id # 0 THEN Given(rows[s.id], s) ELSE s.tool \in s.allowTurn
  /\ \A x \in s.allowTurn : \E id \in Id : GivenFor(rows[id], s, x)

\* No two turns wait for one row.
Apart ==
  \A t, u \in Turn : t # u /\ Waits(turn[t]) /\ Waits(turn[u]) => turn[t].id # turn[u].id

Handles == \A id \in pending : rows[id].status \in Undecided

AInv == TypeOK /\ Handles /\ Apart /\ \A t \in Turn : Fits(turn[t])

-----------------------------------------------------------------------------
(* Rows *)

\* What never happens to a row.
RowsStand ==
  /\ rows' \in [Id -> Row]
  /\ \A id \in Id :
       /\ rows[id].status \in Closed => rows'[id] = rows[id]
       /\ rows[id].status # "none" =>
            /\ rows'[id].status # "none"
            /\ rows'[id].life = rows[id].life /\ rows'[id].tool = rows[id].tool

\* No row is decided in the step.
NoneDecided ==
  \A id \in Id : rows[id].status \in Undecided => rows'[id].status \in Undecided

\* The types of the parts.
LEMMA TypedParts ==
  ASSUME AInv
  PROVE  /\ rows \in [Id -> Row] /\ pending \subseteq Id
         /\ turn \in [Turn -> TurnState] /\ begun \in 0..MaxTurns
BY DEF AInv, TypeOK

\* Rows that are left alone stand.
LEMMA SameRowsStand == ASSUME AInv, UNCHANGED rows PROVE RowsStand /\ NoneDecided
BY TypedParts DEF RowsStand, NoneDecided

\* Expiring a row leaves outcomes alone.
LEMMA ExpiryStands ==
  ASSUME AInv, NEW id \in Id, ExpireById(id)
  PROVE  RowsStand /\ NoneDecided /\ (rows[id].status \in Undecided => rows'[id].status = "expired")
<1> DEFINE st == IF rows[id].status = "pending" THEN "expired" ELSE rows[id].status
<1>1. rows \in [Id -> Row] /\ rows' = [rows EXCEPT ![id].status = st]
  BY TypedParts DEF ExpireById
<1>2. st \in {"none", "pending"} \cup Closed
  BY <1>1 DEF Row, Closed
<1>3. /\ rows' \in [Id -> Row] /\ rows'[id].status = st
      /\ rows'[id].life = rows[id].life /\ rows'[id].tool = rows[id].tool
      /\ st = rows[id].status => rows'[id] = rows[id]
      /\ \A i \in Id \ {id} : rows'[i] = rows[i]
  <2> HIDE DEF st
  <2> QED
    BY <1>1, <1>2 DEF Row
<1> QED
  BY <1>3 DEF RowsStand, NoneDecided, Undecided, Closed

-----------------------------------------------------------------------------
(* Turns *)

\* A turn state that fits still does when only rows that are open change, its
\* handle stays, and its row is not decided after a timeout or an abort.
LEMMA FitsOn ==
  ASSUME AInv, NEW s \in TurnState, Fits(s), RowsStand,
         s.pc = "wait" /\ s.won \in {"expired", "aborted"} /\ rows[s.id].status \in Undecided
           => rows'[s.id].status \in Undecided,
         Waits(s) /\ s.id \in pending => s.id \in pending'
  PROVE  Fits(s)'
<1>1. Waits(s) => s.id \in Id
  BY DEF Fits
<1>2. ASSUME NEW id \in Id, rows[id].status = "allowed" PROVE rows'[id] = rows[id]
  BY <1>2 DEF RowsStand, Closed
<1>3. ASSUME NEW x \in s.allowTurn PROVE \E id \in Id : GivenFor(rows'[id], s, x)
  <2>1. PICK id \in Id : GivenFor(rows[id], s, x)
    BY DEF Fits
  <2> QED
    BY <1>2, <2>1 DEF GivenFor, Given
<1>4. ASSUME NEW v \in Allows,
             (s.pc = "notify" /\ s.settled = v) \/ (s.pc = "wait" /\ s.won = v)
      PROVE  Given(rows'[s.id], s) /\ rows'[s.id].decision = v
  <2>1. s.id \in Id /\ Given(rows[s.id], s) /\ rows[s.id].decision = v
    BY <1>4, <1>1 DEF Fits, Waits
  <2> QED
    BY <1>2, <2>1 DEF Given
<1>5. s.pc = "run" => IF s.id # 0 THEN Given(rows'[s.id], s) ELSE s.tool \in s.allowTurn
  <2>1. s.id \in Id \cup {0}
    BY DEF TurnState
  <2> QED
    BY <1>2, <2>1 DEF Fits, Given
<1>6. s.pc = "notify" /\ s.settled = "expired" => rows'[s.id].status = "expired"
  BY <1>1 DEF Fits, RowsStand, Closed, Waits
<1>7. s.pc = "wait" /\ s.won \in {"expired", "aborted"} => rows'[s.id].status \in Undecided
  BY <1>1 DEF Fits, Waits
<1>8. Waits(s) => /\ s.id \in Id /\ rows'[s.id].status # "none"
                  /\ rows'[s.id].life = s.life /\ rows'[s.id].tool = s.tool
  BY DEF Fits, RowsStand
<1>9. (Waits(s) /\ s.settled = "none" => s.id \in pending')
      /\ (s.pc = "wait" /\ s.won = "none" => s.settled = "none")
  BY DEF Fits
<1> QED
  BY <1>3, <1>4, <1>5, <1>6, <1>7, <1>8, <1>9 DEF Fits

\* A step of one turn, that decides no row and takes no handle of another turn.
LEMMA OneTurn ==
  ASSUME AInv, NEW t \in Turn, NEW s \in TurnState, Become(t, s),
         RowsStand, NoneDecided, Handles', pending' \subseteq Id, begun' \in 0..MaxTurns,
         \A u \in Turn \ {t} :
           Waits(turn[u]) => /\ turn[u].id \in pending => turn[u].id \in pending'
                             /\ Waits(s) => turn[u].id # s.id,
         Fits(s)'
  PROVE  AInv'
<1>1. /\ turn' \in [Turn -> TurnState] /\ turn'[t] = s
      /\ \A u \in Turn \ {t} : turn'[u] = turn[u]
  BY TypedParts DEF Become
<1>2. TypeOK'
  BY <1>1 DEF TypeOK, RowsStand
<1>3. Apart'
  <2> SUFFICES ASSUME NEW u \in Turn, NEW v \in Turn, u # v,
                      Waits(turn'[u]), Waits(turn'[v])
               PROVE  turn'[u].id # turn'[v].id
    BY DEF Apart, Waits
  <2>1. CASE u # t /\ v # t
    BY <1>1, <2>1 DEF AInv, Apart
  <2>2. CASE u = t \/ v = t
    BY <1>1, <2>2
  <2> QED
    BY <2>1, <2>2
<1>4. ASSUME NEW u \in Turn PROVE Fits(turn[u])'
  <2>1. CASE u = t
    BY <1>1, <2>1 DEF Fits, Waits
  <2>2. CASE u # t
    <3> SUFFICES ASSUME NEW c, c = turn[u] PROVE Fits(turn[u])'
      OBVIOUS
    <3>1. c \in TurnState /\ Fits(c) /\ (Waits(c) => c.id \in Id)
      BY TypedParts DEF AInv, Fits
    <3>2. Fits(c)'
      BY <2>2, <3>1, FitsOn DEF NoneDecided, Waits
    <3> QED
      BY <1>1, <2>2, <3>2 DEF Fits, Waits
  <2> QED
    BY <2>1, <2>2
<1> QED
  BY <1>2, <1>3, <1>4 DEF AInv

\* A step of one turn that leaves the table and the handles alone.
LEMMA OneTurnAlone ==
  ASSUME AInv, NEW t \in Turn, NEW s \in TurnState, Become(t, s),
         UNCHANGED <<rows, pending>>, begun' \in 0..MaxTurns,
         Waits(s) => Waits(turn[t]) /\ s.id = turn[t].id,
         Fits(s)
  PROVE  AInv' /\ RowsStand
<1>1. RowsStand /\ NoneDecided
  BY SameRowsStand
<1>2. Handles' /\ pending' \subseteq Id
  BY TypedParts DEF AInv, Handles
<1>3. Fits(s)'
  BY DEF Fits
<1>4. \A u \in Turn \ {t} :
        Waits(turn[u]) => /\ turn[u].id \in pending => turn[u].id \in pending'
                          /\ Waits(s) => turn[u].id # s.id
  BY DEF AInv, Apart
<1> QED
  BY <1>1, <1>2, <1>3, <1>4, OneTurn

\* A turn that is over or has just begun.
LEMMA FreshFits ==
  ASSUME NEW n \in 0..MaxTurns, NEW o \in Client \cup {Rest}
  PROVE  /\ Fresh(n, o) \in TurnState /\ Fits(Fresh(n, o)) /\ ~Waits(Fresh(n, o))
         /\ Over \in TurnState /\ Fits(Over) /\ ~Waits(Over) /\ Over.pc = "over"
<1>1. (CHOOSE x \in Tool : TRUE) \in Tool
  BY RestAssumption
<1>2. 0 \in 0..MaxTurns
  BY BoundAssumption
<1>3. /\ Fresh(n, o) \in TurnState /\ Fresh(n, o).pc = "idle"
      /\ Fresh(n, o).allowTurn = {}
  BY <1>1 DEF Fresh, TurnState
<1>4. /\ Fresh(0, Rest) \in TurnState /\ Fresh(0, Rest).allowTurn = {}
  BY <1>1, <1>2 DEF Fresh, TurnState
<1>5. Over \in TurnState /\ Over.pc = "over" /\ Over.allowTurn = {}
  BY <1>4 DEF Over, TurnState
<1> QED
  BY <1>3, <1>5 DEF Fits, Waits

-----------------------------------------------------------------------------
(* The actions *)

\* What a step keeps.
Keeps == AInv' /\ RowsStand

\* A turn begins or ends.
LEMMA BeginKeeps == ASSUME AInv, NEW t \in Turn, Begin(t) \/ End(t) PROVE Keeps
<1>1. CASE Begin(t)
  <2>1. begun' \in 0..MaxTurns
    BY <1>1, TypedParts, BoundAssumption DEF Begin
  <2>2. PICK o \in Client \cup {Rest} : Become(t, Fresh(begun', o))
    BY <1>1 DEF Begin
  <2>3. PICK n \in 0..MaxTurns : n = begun'
    BY <2>1
  <2> HIDE DEF Become
  <2>4. /\ Become(t, Fresh(n, o)) /\ Fresh(n, o) \in TurnState
        /\ Fits(Fresh(n, o)) /\ ~Waits(Fresh(n, o))
    BY <2>2, <2>3, FreshFits
  <2> QED
    BY <1>1, <2>1, <2>4, OneTurnAlone DEF Begin, Keeps
<1>2. CASE End(t)
  <2>1. Over \in TurnState /\ Fits(Over) /\ ~Waits(Over)
    BY FreshFits, BoundAssumption
  <2> QED
    BY <1>2, <2>1, TypedParts, OneTurnAlone DEF End, Keeps
<1> QED
  BY <1>1, <1>2

\* The facts about the state of a turn.
LEMMA TurnFacts ==
  ASSUME AInv, NEW t \in Turn
  PROVE  /\ turn[t] \in TurnState /\ Fits(turn[t])
         /\ Waits(turn[t]) => turn[t].id \in Id
BY TypedParts DEF AInv, Fits

\* An idle turn fits, with the tools allowed so far.
LEMMA IdleFits ==
  ASSUME AInv, NEW t \in Turn
  PROVE  Idle(t) \in TurnState /\ Fits(Idle(t)) /\ ~Waits(Idle(t))
<1>1. turn[t] \in TurnState /\ Fits(turn[t])
  BY TurnFacts
<1>2. Idle(t) \in TurnState
  BY <1>1 DEF Idle, TurnState
<1>3. Idle(t).pc = "idle" /\ Idle(t).allowTurn = turn[t].allowTurn /\ Idle(t).life = turn[t].life
  BY <1>1 DEF Idle, TurnState
<1>4. \A x \in Idle(t).allowTurn : \E id \in Id : GivenFor(rows[id], Idle(t), x)
  BY <1>1, <1>2, <1>3 DEF Fits, GivenFor, Given, TurnState
<1> QED
  BY <1>2, <1>3, <1>4 DEF Fits, Waits

\* A call whose tool is allowed for the turn goes through.
LEMMA GateCachedKeeps == ASSUME AInv, NEW t \in Turn, NEW x \in Tool, GateCached(t, x) PROVE Keeps
<1> SUFFICES ASSUME NEW s, s = [turn[t] EXCEPT !.pc = "run", !.tool = x, !.id = 0] PROVE Keeps
  OBVIOUS
<1>1. turn[t] \in TurnState /\ Fits(turn[t])
  BY TurnFacts
<1>2. /\ s \in TurnState /\ s.pc = "run" /\ s.id = 0 /\ s.tool = x
      /\ s.allowTurn = turn[t].allowTurn /\ s.life = turn[t].life
  BY <1>1 DEF TurnState
<1>3. \A y \in s.allowTurn : \E id \in Id : GivenFor(rows[id], s, y)
  BY <1>1, <1>2 DEF Fits, GivenFor, Given, TurnState
<1>4. Fits(s) /\ ~Waits(s)
  BY <1>2, <1>3 DEF Fits, Waits, GateCached
<1> QED
  BY <1>2, <1>4, TypedParts, OneTurnAlone DEF GateCached, Keeps

\* The race begins.
LEMMA NotifiedKeeps == ASSUME AInv, NEW t \in Turn, Notified(t) PROVE Keeps
<1> DEFINE o == turn[t]
           w == CASE o.settled # "none" -> o.settled
                  [] o.settled = "none" /\ o.aborted -> "aborted"
                  [] OTHER -> "none"
<1> SUFFICES ASSUME NEW s, s = [o EXCEPT !.pc = "wait", !.won = w] PROVE Keeps
  OBVIOUS
<1>1. o \in TurnState /\ Fits(o) /\ o.pc = "notify" /\ o.id \in Id
  BY TurnFacts DEF Notified, Waits
<1>2. /\ w \in Decisions \cup {"none", "expired", "aborted"}
      /\ o.settled # "none" => w = o.settled
      /\ o.settled = "none" => w \in {"none", "aborted"}
  BY <1>1 DEF TurnState
<1>3. Become(t, s)
  BY DEF Notified
<1> HIDE DEF w
<1>4. /\ s \in TurnState /\ s.pc = "wait" /\ s.won = w /\ s.id = o.id /\ s.tool = o.tool
      /\ s.settled = o.settled /\ s.life = o.life /\ s.allowTurn = o.allowTurn
  BY <1>1, <1>2 DEF TurnState
<1> HIDE DEF o
<1>5. \A y \in s.allowTurn : \E id \in Id : GivenFor(rows[id], s, y)
  BY <1>1, <1>4 DEF Fits, GivenFor, Given, TurnState
<1>6. s.won \in {"expired", "aborted"} => rows[s.id].status \in Undecided
  <2>1. o.settled = "none" => rows[o.id].status \in Undecided
    BY <1>1 DEF Fits, Waits, AInv, Handles
  <2>2. o.settled = "expired" => rows[o.id].status \in Undecided
    BY <1>1 DEF Fits, Undecided
  <2>3. o.settled # "aborted"
    BY <1>1 DEF TurnState, Decisions
  <2> QED
    BY <1>2, <1>4, <2>1, <2>2, <2>3
<1>7. \A v \in Allows : s.won = v => Given(rows[s.id], s) /\ rows[s.id].decision = v
  BY <1>1, <1>2, <1>4 DEF Fits, Given, Allows
<1>8. Fits(s) /\ Waits(s)
  BY <1>1, <1>2, <1>4, <1>5, <1>6, <1>7 DEF Fits, Waits
<1>9. Waits(turn[t]) /\ s.id = turn[t].id
  BY <1>1, <1>4 DEF o, Waits
<1> QED
  BY <1>3, <1>4, <1>8, <1>9, TypedParts, OneTurnAlone DEF Notified, Keeps

\* The waiter returns a decision.
LEMMA ReturnDecisionKeeps == ASSUME AInv, NEW t \in Turn, ReturnDecision(t) PROVE Keeps
<1> DEFINE o == turn[t]
           a == IF o.won = "allow-session" THEN o.allowTurn \cup {o.tool} ELSE o.allowTurn
<1>1. o \in TurnState /\ Fits(o) /\ o.pc = "wait" /\ o.id \in Id /\ o.won \in Decisions
  BY TurnFacts DEF ReturnDecision, Wins, Waits
<1>2. CASE ~Confirmed(t)
  <2>1. Become(t, Idle(t))
    BY <1>2 DEF ReturnDecision
  <2> QED
    BY <2>1, IdleFits, TypedParts, OneTurnAlone DEF ReturnDecision, Keeps
<1>3. CASE Confirmed(t)
  <2> SUFFICES ASSUME NEW s, s = [o EXCEPT !.pc = "run", !.won = "none", !.settled = "none",
                                           !.allowTurn = a]
               PROVE  Keeps
    OBVIOUS
  <2>1. Become(t, s)
    BY <1>3 DEF ReturnDecision
  <2>2. a \in SUBSET Tool /\ (\A y \in a : y \in o.allowTurn \/ (o.won = "allow-session" /\ y = o.tool))
    BY <1>1 DEF TurnState
  <2> HIDE DEF a
  <2>3. /\ s \in TurnState /\ s.pc = "run" /\ s.id = o.id /\ s.tool = o.tool
        /\ s.life = o.life /\ s.allowTurn = a
    BY <1>1, <2>2 DEF TurnState
  <2>4. o.won \in Allows
    BY <1>3 DEF Confirmed, Allows
  <2> HIDE DEF o
  <2>5. Given(rows[o.id], o) /\ rows[o.id].decision = o.won
    BY <1>1, <2>4 DEF Fits
  <2>6. Given(rows[s.id], s)
    BY <2>3, <2>5 DEF Given
  <2>7. ASSUME NEW y \in s.allowTurn PROVE \E id \in Id : GivenFor(rows[id], s, y)
    <3>1. CASE y \in o.allowTurn
      <4>1. PICK id \in Id : GivenFor(rows[id], o, y)
        BY <1>1, <3>1 DEF Fits
      <4> QED
        BY <1>1, <2>3, <4>1 DEF GivenFor, Given, TurnState
    <3>2. CASE o.won = "allow-session" /\ y = o.tool
      BY <1>1, <2>3, <2>5, <3>2 DEF GivenFor, Given, TurnState
    <3> QED
      BY <2>2, <2>3, <3>1, <3>2
  <2>8. s.id # 0
    BY <1>1, <2>3 DEF Id
  <2>9. Fits(s) /\ ~Waits(s)
    BY <2>3, <2>6, <2>7, <2>8 DEF Fits, Waits
  <2> QED
    BY <2>1, <2>3, <2>9, TypedParts, OneTurnAlone DEF ReturnDecision, Keeps
<1> QED
  BY <1>2, <1>3

\* The call runs.
LEMMA RunKeeps == ASSUME AInv, NEW t \in Turn, Run(t) PROVE Keeps
<1>1. PICK s \in {Over, Idle(t)} : Become(t, s)
  BY DEF Run
<1>2. s \in TurnState /\ Fits(s) /\ ~Waits(s)
  BY FreshFits, IdleFits, BoundAssumption
<1> QED
  BY <1>1, <1>2, TypedParts, OneTurnAlone DEF Run, Keeps

\* The turn is aborted.
LEMMA AbortKeeps == ASSUME AInv, NEW t \in Turn, Abort(t) PROVE Keeps
<1> DEFINE o == turn[t]
           w == IF o.pc = "wait" THEN "aborted" ELSE o.won
<1> SUFFICES ASSUME NEW s, s = [o EXCEPT !.aborted = TRUE, !.won = w] PROVE Keeps
  OBVIOUS
<1>1. o \in TurnState /\ Fits(o) /\ (Waits(o) => o.id \in Id) /\ o.won = "none"
  BY TurnFacts DEF Abort, Quiet
<1>2. Become(t, s)
  BY DEF Abort
<1>3. w \in {"none", "aborted"}
  BY <1>1
<1> HIDE DEF w
<1>4. /\ s \in TurnState /\ s.pc = o.pc /\ s.won = w /\ s.id = o.id /\ s.tool = o.tool
      /\ s.settled = o.settled /\ s.life = o.life /\ s.allowTurn = o.allowTurn
  BY <1>1, <1>3 DEF TurnState
<1>5. Waits(s) => Waits(turn[t]) /\ s.id = turn[t].id
  BY <1>4 DEF Waits
<1> HIDE DEF o
<1>6. \A y \in s.allowTurn : \E id \in Id : GivenFor(rows[id], s, y)
  BY <1>1, <1>4 DEF Fits, GivenFor, Given, TurnState
<1>7. s.pc = "wait" => rows[s.id].status \in Undecided
  BY <1>1, <1>4 DEF Fits, Waits, AInv, Handles
<1>8. s.pc = "wait" => s.settled = "none"
  BY <1>1, <1>4 DEF Fits
<1>9. Fits(s)
  <2>1. \A v \in Allows : s.won # v
    BY <1>3, <1>4 DEF Allows
  <2> QED
    BY <1>1, <1>4, <1>6, <1>7, <1>8, <2>1 DEF Fits, Waits, Given
<1> QED
  BY <1>2, <1>4, <1>5, <1>9, TypedParts, OneTurnAlone DEF Abort, Keeps

\* A prompt is raised: no turn waits for its row, which did not exist.
LEMMA RequestKeeps ==
  ASSUME AInv, NEW t \in Turn, NEW x \in Tool, NEW id \in Id, Request(t, x, id) PROVE Keeps
<1> DEFINE o == turn[t]
           r == [rows[id] EXCEPT !.status = "pending", !.life = o.life, !.tool = x,
                                 !.origin = o.origin]
<1> SUFFICES ASSUME NEW s, s = [o EXCEPT !.pc = "notify", !.tool = x, !.id = id,
                                         !.settled = "none"]
             PROVE  Keeps
  OBVIOUS
<1>1. o \in TurnState /\ Fits(o) /\ rows \in [Id -> Row] /\ rows[id].status = "none"
  BY TurnFacts, TypedParts DEF Request, NoRow
<1>2. /\ Become(t, s) /\ rows' = [rows EXCEPT ![id] = r] /\ pending' = pending \cup {id}
      /\ begun' = begun
  BY DEF Request
<1>3. r \in Row /\ r.status = "pending" /\ r.life = o.life /\ r.tool = x
  <2>1. o.life \in 0..MaxTurns /\ o.origin \in Client \cup {Rest} /\ rows[id] \in Row
    BY <1>1 DEF TurnState
  <2> HIDE DEF o
  <2> SUFFICES ASSUME NEW q \in Row, q = rows[id]
               PROVE  r \in Row /\ r.status = "pending" /\ r.life = o.life /\ r.tool = x
    BY <2>1
  <2> QED
    BY <2>1 DEF Row
<1> HIDE DEF r
<1>4. rows' \in [Id -> Row] /\ rows'[id] = r /\ \A i \in Id \ {id} : rows'[i] = rows[i]
  BY <1>1, <1>2, <1>3
<1>5. RowsStand /\ NoneDecided
  BY <1>1, <1>3, <1>4 DEF RowsStand, NoneDecided, Closed, Undecided
<1>6. pending' \subseteq Id /\ Handles'
  <2>1. pending \subseteq Id
    BY TypedParts
  <2>2. \A i \in pending' : rows'[i].status \in Undecided
    BY <1>2, <1>3, <1>4, <1>5, <2>1 DEF AInv, Handles, NoneDecided, Undecided
  <2> QED
    BY <1>2, <2>1, <2>2 DEF Handles
<1>7. \A u \in Turn \ {t} :
        Waits(turn[u]) => /\ turn[u].id \in pending => turn[u].id \in pending'
                          /\ turn[u].id # id
  BY <1>1, <1>2 DEF AInv, Fits
<1>8. /\ s \in TurnState /\ s.pc = "notify" /\ s.id = id /\ s.tool = x /\ s.settled = "none"
      /\ s.life = o.life /\ s.allowTurn = o.allowTurn
  BY <1>1 DEF TurnState
<1> HIDE DEF o
<1>9. ASSUME NEW y \in s.allowTurn PROVE \E i \in Id : GivenFor(rows'[i], s, y)
  <2>1. PICK i \in Id : GivenFor(rows[i], o, y)
    BY <1>1, <1>8, <1>9 DEF Fits
  <2>2. rows'[i] = rows[i]
    BY <1>1, <1>4, <2>1 DEF GivenFor, Given
  <2> QED
    BY <1>1, <1>8, <2>1, <2>2 DEF GivenFor, Given, TurnState
<1>10. Fits(s)'
  <2>1. \A v \in Allows : s.settled # v
    BY <1>8 DEF Allows
  <2> QED
    BY <1>2, <1>3, <1>4, <1>8, <1>9, <2>1 DEF Fits, Waits
<1> QED
  BY <1>2, <1>5, <1>6, <1>7, <1>8, <1>10, TypedParts, OneTurn DEF Keeps

\* The row of a prompt that timed out or was aborted ends as expired.
LEMMA ReturnExpires ==
  ASSUME AInv, NEW t \in Turn, ReturnAborted(t) \/ ReturnExpired(t)
  PROVE  /\ turn[t].id \in Id /\ Waits(turn[t]) /\ rows[turn[t].id].status \in Undecided
         /\ RowsStand /\ NoneDecided /\ rows'[turn[t].id].status = "expired"
<1>1. turn[t].pc = "wait" /\ turn[t].won \in {"expired", "aborted"}
  BY DEF ReturnAborted, ReturnExpired, Wins
<1>2. turn[t].id \in Id /\ Waits(turn[t]) /\ rows[turn[t].id].status \in Undecided
  BY <1>1, TurnFacts DEF Fits, Waits
<1>3. PICK i \in Id : i = turn[t].id
  BY <1>2
<1>4. ExpireById(i)
  BY <1>3 DEF ReturnAborted, ReturnExpired
<1> QED
  BY <1>2, <1>3, <1>4, ExpiryStands

\* The waiter returns after a timeout or an abort.
LEMMA ReturnKeeps ==
  ASSUME AInv, NEW t \in Turn, ReturnAborted(t) \/ ReturnExpired(t) PROVE Keeps
<1>1. /\ turn[t].id \in Id /\ Waits(turn[t])
      /\ RowsStand /\ NoneDecided
  BY ReturnExpires
<1>2. PICK s \in {Over, Idle(t)} : Become(t, s)
  BY DEF ReturnAborted, ReturnExpired
<1>3. s \in TurnState /\ Fits(s) /\ ~Waits(s)
  BY <1>2, FreshFits, IdleFits, BoundAssumption
<1>4. pending' \subseteq pending /\ pending \ {turn[t].id} \subseteq pending'
  BY DEF ReturnAborted, ReturnExpired, Drop
<1>5. pending' \subseteq Id /\ Handles'
  <2>1. pending \subseteq Id
    BY TypedParts
  <2> QED
    BY <1>1, <1>4, <2>1 DEF AInv, Handles, NoneDecided
<1>6. \A u \in Turn \ {t} :
        Waits(turn[u]) => (turn[u].id \in pending => turn[u].id \in pending')
  BY <1>1, <1>4 DEF AInv, Apart
<1>7. Fits(s)'
  BY <1>1, <1>3, FitsOn DEF Waits
<1>8. begun' \in 0..MaxTurns
  BY TypedParts DEF ReturnAborted, ReturnExpired
<1> QED
  BY <1>1, <1>2, <1>3, <1>5, <1>6, <1>7, <1>8, OneTurn DEF Keeps

\* The sweep takes a row.
LEMMA SweepKeeps == ASSUME AInv, NEW id \in Id, Sweep(id) PROVE Keeps
<1>1. RowsStand /\ NoneDecided
  BY ExpiryStands DEF Sweep
<1>2. UNCHANGED <<pending, turn, begun>>
  BY DEF Sweep
<1>3. TypeOK' /\ Handles' /\ Apart'
  BY <1>1, <1>2 DEF AInv, TypeOK, Handles, Apart, Waits, RowsStand, NoneDecided
<1>4. ASSUME NEW u \in Turn PROVE Fits(turn[u])'
  <2> SUFFICES ASSUME NEW c, c = turn[u] PROVE Fits(turn[u])'
    OBVIOUS
  <2>1. c \in TurnState /\ Fits(c) /\ (Waits(c) => c.id \in Id)
    BY TurnFacts
  <2>2. Fits(c)'
    BY <1>1, <1>2, <2>1, FitsOn DEF NoneDecided, Waits
  <2> QED
    BY <1>2, <2>2 DEF Fits, Waits
<1> QED
  BY <1>1, <1>3, <1>4 DEF AInv, Keeps

\* The process dies.
LEMMA CrashKeeps == ASSUME AInv, Crash PROVE Keeps
<1>1. RowsStand
  BY SameRowsStand DEF Crash
<1>2. Over \in TurnState /\ ~Waits(Over) /\ Over.pc = "over" /\ Over.allowTurn = {}
  <2>1. Over \in TurnState /\ ~Waits(Over) /\ Over.pc = "over"
    BY FreshFits, BoundAssumption
  <2> QED
    BY <2>1 DEF Over, Fresh
<1>3. turn' \in [Turn -> TurnState] /\ \A u \in Turn : turn'[u] = Over
  BY <1>2 DEF Crash
<1>4. TypeOK' /\ Handles'
  BY <1>1, <1>3, TypedParts DEF Crash, TypeOK, Handles, RowsStand
<1>5. Apart'
  BY <1>2, <1>3 DEF Apart, Waits
<1>6. ASSUME NEW u \in Turn PROVE Fits(turn[u])'
  BY <1>2, <1>3 DEF Fits, Waits
<1> QED
  BY <1>1, <1>4, <1>5, <1>6 DEF AInv, Keeps

\* The waiter for id is resolved: for a decision to allow the row has it.
LEMMA ResolveKeeps ==
  ASSUME AInv, NEW id \in Id, NEW v \in Decisions \cup {"expired"}, Quiet,
         Drop(id), Resolve(id, v), RowsStand, begun' = begun,
         \A i \in Id \ {id} : rows'[i] = rows[i],
         v = "expired" => rows'[id].status \in Undecided,
         v = "expired" => RaceIsOn(id) \/ rows'[id].status = "expired",
         v \in Allows => /\ rows'[id].status = "allowed" /\ rows'[id].decision = v
                         /\ rows'[id].by \in {Rest, rows'[id].origin} \/ rows'[id].origin = Rest
  PROVE  Keeps
<1> DEFINE Asks(c) == c.id = id /\ Waits(c)
           Told(c) == [c EXCEPT !.settled = v, !.won = IF c.pc = "wait" THEN v ELSE c.won]
<1>1. ASSUME NEW c \in TurnState
      PROVE  /\ Told(c) \in TurnState /\ Told(c).settled = v /\ Told(c).pc = c.pc
             /\ Told(c).id = c.id /\ Told(c).life = c.life /\ Told(c).tool = c.tool
             /\ Told(c).allowTurn = c.allowTurn
             /\ Told(c).won = IF c.pc = "wait" THEN v ELSE c.won
  <2> DEFINE w == IF c.pc = "wait" THEN v ELSE c.won
  <2>1. w \in Decisions \cup {"none", "expired", "aborted"}
    BY DEF TurnState
  <2>2. Told(c) = [c EXCEPT !.settled = v, !.won = w]
    OBVIOUS
  <2> HIDE DEF w, Told
  <2>3. /\ Told(c) \in TurnState /\ Told(c).settled = v /\ Told(c).pc = c.pc
        /\ Told(c).id = c.id /\ Told(c).life = c.life /\ Told(c).tool = c.tool
        /\ Told(c).allowTurn = c.allowTurn /\ Told(c).won = w
    BY <2>1, <2>2 DEF TurnState
  <2> QED
    BY <2>3 DEF w
<1>2. \A u \in Turn : turn'[u] = IF Asks(turn[u]) THEN Told(turn[u]) ELSE turn[u]
  BY DEF Resolve, Waits
<1>3. turn' \in [Turn -> TurnState]
  <2>1. turn' = [u \in Turn |-> IF Asks(turn[u]) THEN Told(turn[u]) ELSE turn[u]]
    BY DEF Resolve, Waits
  <2> HIDE DEF Asks, Told
  <2> QED
    BY <1>1, <2>1, TypedParts
<1> HIDE DEF Told
<1>4. \A u \in Turn : turn'[u].id = turn[u].id /\ turn'[u].pc = turn[u].pc
  BY <1>1, <1>2, TypedParts
<1>5. TypeOK' /\ Handles' /\ Apart'
  <2>1. TypeOK'
    BY <1>3, TypedParts DEF TypeOK, RowsStand, Drop
  <2>2. Handles'
    BY TypedParts DEF AInv, Handles, Drop
  <2>3. Apart'
    BY <1>4 DEF AInv, Apart, Waits
  <2> QED
    BY <2>1, <2>2, <2>3
<1>6. ASSUME NEW c \in TurnState, Fits(c), c.won = "none", Asks(c),
             v = "expired" => c.pc = "wait" \/ rows'[id].status = "expired",
             NEW s, s = Told(c)
      PROVE  Fits(s)'
  <2>1. /\ s.settled = v /\ s.pc = c.pc /\ s.id = id /\ s.life = c.life /\ s.tool = c.tool
        /\ s.allowTurn = c.allowTurn /\ s.won = IF c.pc = "wait" THEN v ELSE "none"
        /\ Waits(s) /\ s.pc # "run" /\ s \in TurnState
    BY <1>1, <1>6 DEF Waits
  <2>2. /\ rows'[id].status # "none" /\ rows'[id].life = s.life /\ rows'[id].tool = s.tool
    BY <1>6, <2>1 DEF Fits, RowsStand
  <2>3. v # "none"
    BY DEF Decisions
  <2>4. v \in Allows => Given(rows'[id], s) /\ rows'[id].decision = v
    BY <2>2 DEF Given
  <2>5. ASSUME NEW x \in s.allowTurn PROVE \E i \in Id : GivenFor(rows'[i], s, x)
    <3>1. PICK i \in Id : GivenFor(rows[i], c, x)
      BY <1>6, <2>1, <2>5 DEF Fits
    <3>2. rows'[i] = rows[i]
      BY <3>1 DEF GivenFor, Given, RowsStand, Closed
    <3> QED
      BY <2>1, <3>1, <3>2 DEF GivenFor, Given, TurnState
  <2>6. s.pc = "wait" /\ s.won \in {"expired", "aborted"} => rows'[s.id].status \in Undecided
    BY <2>1 DEF Decisions
  <2> HIDE DEF Asks
  <2> QED
    BY <1>6, <2>1, <2>2, <2>3, <2>4, <2>5, <2>6 DEF Fits, Waits
<1>7. ASSUME NEW u \in Turn PROVE Fits(turn[u])'
  <2> SUFFICES ASSUME NEW c, c = turn[u] PROVE Fits(turn[u])'
    OBVIOUS
  <2>1. c \in TurnState /\ Fits(c) /\ c.won = "none" /\ (Waits(c) => c.id \in Id)
    BY TurnFacts DEF Quiet
  <2>2. CASE Asks(c)
    <3> SUFFICES ASSUME NEW s, s = Told(c) PROVE Fits(turn[u])'
      OBVIOUS
    <3>1. v = "expired" => c.pc = "wait" \/ rows'[id].status = "expired"
      BY <2>2 DEF RaceIsOn, Waits
    <3>2. Fits(s)'
      BY <1>6, <2>1, <2>2, <3>1
    <3>3. turn'[u] = s
      BY <1>2, <2>2
    <3> QED
      BY <3>2, <3>3 DEF Fits, Waits
  <2>3. CASE ~Asks(c)
    <3>1. Waits(c) /\ c.id \in pending => c.id \in pending'
      BY <2>3 DEF Drop
    <3>2. Fits(c)'
      BY <2>1, <3>1, FitsOn
    <3>3. turn'[u] = c
      BY <1>2, <2>3
    <3> QED
      BY <3>2, <3>3 DEF Fits, Waits
  <2> QED
    BY <2>2, <2>3
<1> QED
  BY <1>5, <1>7 DEF AInv, Keeps

\* The timer fires.
LEMMA TimeoutKeeps == ASSUME AInv, NEW id \in Id, Timeout(id) PROVE Keeps
<1>1. RowsStand /\ rows' = rows
  BY SameRowsStand DEF Timeout
<1>2. rows[id].status \in Undecided
  BY DEF Timeout, AInv, Handles
<1>3. "expired" \notin Allows
  BY DEF Allows
<1> QED
  BY <1>1, <1>2, <1>3, ResolveKeeps DEF Timeout

\* A decision arrives.
LEMMA RespondKeeps ==
  ASSUME AInv, NEW id \in Id, NEW d \in Decisions, NEW by \in Client \cup {Rest},
         Respond(id, d, by)
  PROVE  Keeps
<1> DEFINE r == [rows[id] EXCEPT !.status = StatusOf(d), !.decision = d, !.by = by]
<1>1. rows \in [Id -> Row] /\ pending \subseteq Id /\ Quiet /\ Drop(id) /\ begun' = begun
  BY TypedParts DEF Respond
<1>2. CASE Open(id)
  <2>1. rows' = [rows EXCEPT ![id] = r] /\ rows[id].status = "pending"
    BY <1>2 DEF Respond, Open
  <2>2. /\ r \in Row /\ r.status = StatusOf(d) /\ r.decision = d /\ r.by = by
        /\ r.life = rows[id].life /\ r.tool = rows[id].tool /\ r.origin = rows[id].origin
    <3> SUFFICES ASSUME NEW q \in Row, q = rows[id]
                 PROVE  /\ r \in Row /\ r.status = StatusOf(d) /\ r.decision = d /\ r.by = by
                        /\ r.life = q.life /\ r.tool = q.tool /\ r.origin = q.origin
      BY <1>1
    <3>1. StatusOf(d) \in {"none", "pending"} \cup Closed
      BY DEF StatusOf, Closed
    <3> QED
      BY <3>1 DEF Row
  <2> HIDE DEF r
  <2>3. rows' \in [Id -> Row] /\ rows'[id] = r /\ \A i \in Id \ {id} : rows'[i] = rows[i]
    BY <1>1, <2>1, <2>2
  <2>4. r.status # "none"
    BY <2>2 DEF StatusOf
  <2>5. RowsStand
    BY <2>1, <2>2, <2>3, <2>4 DEF RowsStand, Closed
  <2>6. CASE id \in pending
    <3>1. Resolve(id, d)
      BY <1>2, <2>6 DEF Respond
    <3>2. d # "expired"
      BY DEF Decisions
    <3>3. d \in Allows => r.status = "allowed"
      BY <2>2 DEF StatusOf, Allows
    <3>4. r.by \in {Rest, r.origin} \/ r.origin = Rest
      BY <2>2, <2>6 DEF Respond, Mismatch
    <3> QED
      BY <1>1, <2>2, <2>3, <2>5, <3>1, <3>2, <3>3, <3>4, ResolveKeeps
  <2>7. CASE id \notin pending
    <3>1. turn' = turn /\ pending' = pending
      BY <1>1, <2>7 DEF Respond, Drop
    <3>2. TypeOK' /\ Handles' /\ Apart'
      BY <1>1, <2>3, <2>7, <3>1, TypedParts DEF AInv, TypeOK, Handles, Apart, Waits
    <3>3. ASSUME NEW u \in Turn PROVE Fits(turn[u])'
      <4> SUFFICES ASSUME NEW c, c = turn[u] PROVE Fits(turn[u])'
        OBVIOUS
      <4>1. c \in TurnState /\ Fits(c) /\ c.won = "none"
        BY <1>1, TurnFacts DEF Quiet
      <4>2. Fits(c)'
        BY <2>5, <3>1, <4>1, FitsOn
      <4> QED
        BY <3>1, <4>2 DEF Fits, Waits
    <3> QED
      BY <2>5, <3>2, <3>3 DEF AInv, Keeps
  <2> QED
    BY <2>6, <2>7
<1>3. CASE ~Open(id)
  <2>1. rows' = rows /\ id \in pending /\ Resolve(id, "expired")
    BY <1>3 DEF Respond
  <2>2. rows[id].status = "expired"
    BY <1>3, <2>1 DEF AInv, Handles, Undecided, Open
  <2>3. RowsStand /\ "expired" \notin Allows /\ "expired" \in Undecided
    BY <2>1, SameRowsStand DEF Allows, Undecided
  <2> QED
    BY <1>1, <2>1, <2>2, <2>3, ResolveKeeps
<1> QED
  BY <1>2, <1>3

-----------------------------------------------------------------------------
(* Every step *)

\* Every step keeps the invariant, and rows stand.
LEMMA NextKeeps == ASSUME AInv, [Next]_vars PROVE Keeps
<1>1. CASE UNCHANGED vars
  <2>1. RowsStand
    BY <1>1, SameRowsStand DEF vars
  <2> QED
    BY <1>1, <2>1 DEF Keeps, AInv, TypeOK, Handles, Apart, Fits, Waits, vars
<1>2. ASSUME NEW t \in Turn,
             \/ Begin(t) \/ End(t) \/ Notified(t) \/ Return(t) \/ Run(t) \/ Abort(t)
             \/ \E x \in Tool : GateCached(t, x) \/ \E id \in Id : Request(t, x, id)
      PROVE  Keeps
  BY <1>2, BeginKeeps, NotifiedKeeps, ReturnKeeps, ReturnDecisionKeeps, RunKeeps, AbortKeeps,
     GateCachedKeeps, RequestKeeps DEF Return
<1>3. ASSUME NEW id \in Id,
             \/ Timeout(id) \/ Sweep(id)
             \/ \E d \in Decisions, c \in Client \cup {Rest} : Respond(id, d, c)
      PROVE  Keeps
  BY <1>3, TimeoutKeeps, SweepKeeps, RespondKeeps
<1> QED
  BY <1>1, <1>2, <1>3, CrashKeeps DEF Next

\* It holds at the start.
LEMMA InitAInv == Init => AInv
<1> SUFFICES ASSUME Init PROVE AInv
  OBVIOUS
<1>1. 0 \in 0..MaxTurns /\ (CHOOSE x \in Tool : TRUE) \in Tool
  BY BoundAssumption, RestAssumption
<1>2. rows \in [Id -> Row]
  BY <1>1 DEF Init, Row, Decisions
<1>3. Over \in TurnState /\ ~Waits(Over) /\ Over.pc = "over" /\ Fits(Over)
  BY FreshFits, BoundAssumption
<1>4. turn = [t \in Turn |-> Over] /\ pending = {} /\ begun = 0
  BY DEF Init
<1> HIDE DEF Init
<1>5. TypeOK
  BY <1>1, <1>2, <1>3, <1>4 DEF TypeOK
<1>6. Handles /\ Apart
  BY <1>3, <1>4 DEF Handles, Apart
<1> QED
  BY <1>3, <1>4, <1>5, <1>6 DEF AInv

\* The inductive invariant.
LEMMA Invariance == Spec => []AInv
<1>1. AInv /\ [Next]_vars => AInv'
  BY NextKeeps DEF Keeps
<1> QED
  BY InitAInv, <1>1, PTL DEF Spec

\* Only Run takes a turn from "run" to "idle", and it does so if it is not
\* aborted.
LEMMA RunStops == ASSUME AInv, [Next]_vars, NEW t \in Turn, Runs(t) PROVE ~turn[t].aborted
<1>1. turn \in [Turn -> TurnState] /\ turn[t].pc = "run" /\ turn'[t].pc = "idle"
  BY TypedParts DEF Runs
<1>2. ~UNCHANGED vars
  BY <1>1 DEF vars
<1>3. ASSUME NEW u \in Turn, NEW s, Become(u, s), turn[u].pc # "run" PROVE FALSE
  BY <1>1, <1>3 DEF Become
<1>4. ASSUME NEW u \in Turn,
             \/ Begin(u) \/ End(u) \/ Notified(u) \/ Return(u)
             \/ \E x \in Tool : GateCached(u, x) \/ \E id \in Id : Request(u, x, id)
      PROVE  FALSE
  <2>1. turn[u].pc # "run"
    BY <1>4 DEF Begin, End, Notified, Return, ReturnAborted, ReturnExpired, ReturnDecision, Wins,
                GateCached, Request
  <2>2. \E s : Become(u, s)
    BY <1>4 DEF Begin, End, Notified, Return, ReturnAborted, ReturnExpired, ReturnDecision,
                GateCached, Request
  <2> QED
    BY <1>3, <2>1, <2>2
<1>5. ASSUME NEW u \in Turn, Run(u) PROVE ~turn[t].aborted
  <2>1. CASE u # t
    BY <1>1, <1>5, <2>1 DEF Run, Become
  <2>2. CASE u = t /\ turn[t].aborted
    <3>1. turn'[t] = Over
      BY <1>1, <1>5, <2>2 DEF Run, Become
    <3> QED
      BY <1>1, <3>1, FreshFits, BoundAssumption
  <2> QED
    BY <2>1, <2>2
<1>6. ASSUME NEW u \in Turn, Abort(u) PROVE FALSE
  <2>1. CASE u # t
    BY <1>1, <1>6, <2>1 DEF Abort, Become
  <2>2. CASE u = t
    BY <1>1, <1>6, <2>2 DEF Abort, Become, TurnState
  <2> QED
    BY <2>1, <2>2
<1>7. ASSUME NEW id \in Id, NEW v, Resolve(id, v) PROVE FALSE
  BY <1>1, <1>7 DEF Resolve
<1>8. ASSUME NEW id \in Id,
             \/ Timeout(id) \/ Sweep(id)
             \/ \E d \in Decisions, c \in Client \cup {Rest} : Respond(id, d, c)
      PROVE  FALSE
  <2>1. turn' = turn \/ \E v : Resolve(id, v)
    BY <1>8 DEF Timeout, Sweep, Respond
  <2> QED
    BY <1>1, <1>7, <2>1
<1>9. ~Crash
  BY <1>1, FreshFits, BoundAssumption DEF Crash
<1> QED
  BY <1>2, <1>4, <1>5, <1>6, <1>8, <1>9 DEF Next

-----------------------------------------------------------------------------
(* The theorems *)

\* Rows, waiters and turns keep their types, however many turns, tabs and
\* prompts there are.
THEOREM TypeCorrect == Spec => []TypeOK
<1>1. AInv => TypeOK
  BY DEF AInv
<1> QED
  BY Invariance, <1>1, PTL

\* A high-risk call runs only in a turn that was not stopped, and only with an
\* approval for that very call, or for its tool in that very turn, by a client
\* that may answer: what runSecurityGate promises of requestNativeApproval.
THEOREM CallsAreApproved == Spec => RunsOnlyApproved
<1> DEFINE A == \A t \in Turn : Runs(t) =>
                  /\ ~turn[t].aborted
                  /\ IF turn[t].id # 0
                       THEN Covers(rows[turn[t].id], t)
                       ELSE \E id \in Id : Covers(rows[id], t) /\ rows[id].decision = "allow-session"
<1>1. ASSUME AInv, [Next]_vars PROVE [A]_vars
  <2> SUFFICES ASSUME NEW t \in Turn, Runs(t)
               PROVE  /\ ~turn[t].aborted
                      /\ IF turn[t].id # 0
                           THEN Covers(rows[turn[t].id], t)
                           ELSE \E id \in Id :
                                  Covers(rows[id], t) /\ rows[id].decision = "allow-session"
    OBVIOUS
  <2>1. turn[t] \in TurnState /\ Fits(turn[t]) /\ turn[t].pc = "run"
    BY <1>1, TurnFacts DEF Runs
  <2>2. ~turn[t].aborted
    BY <1>1, RunStops
  <2>3. CASE turn[t].id # 0
    BY <2>1, <2>2, <2>3 DEF Fits, Given, Covers
  <2>4. CASE turn[t].id = 0
    <3>1. PICK id \in Id : GivenFor(rows[id], turn[t], turn[t].tool)
      BY <2>1, <2>4 DEF Fits
    <3>2. Covers(rows[id], t) /\ rows[id].decision = "allow-session"
      BY <2>1, <3>1 DEF GivenFor, Given, Covers, TurnState
    <3> QED
      BY <2>2, <2>4, <3>2
  <2> QED
    BY <2>3, <2>4
<1> QED
  BY Invariance, <1>1, PTL DEF Spec, RunsOnlyApproved

\* The first outcome of a prompt stands, and one that is reported as timed out or
\* aborted is recorded as expired: decideApproval and expireApprovalById close a
\* row only while it is pending.
THEOREM OutcomesStand == Spec => FirstOutcomeStands
<1> DEFINE A == /\ \A id \in Id : rows[id].status \in Closed => rows'[id] = rows[id]
                /\ \A t \in Turn : ReturnExpired(t) \/ ReturnAborted(t)
                                     => rows'[turn[t].id].status = "expired"
<1>1. ASSUME AInv, [Next]_vars PROVE [A]_vars
  <2>1. RowsStand
    BY <1>1, NextKeeps DEF Keeps
  <2> QED
    BY <1>1, <2>1, ReturnExpires DEF RowsStand
<1> QED
  BY Invariance, <1>1, PTL DEF Spec, FirstOutcomeStands
=============================================================================
