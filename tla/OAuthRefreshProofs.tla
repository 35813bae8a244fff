------------------------- MODULE OAuthRefreshProofs -------------------------
(***************************************************************************)
(* For any processes, time limits and bounds: the types of OAuthRefresh,   *)
(* its safety properties, and that it implements TokenRegister. Three      *)
(* arguments, each on top of the one before.                               *)
(*                                                                         *)
(* What makes a stale flight harmless is the ciphertext (IInv). It         *)
(* changes with every write, so a flight whose snapshot has the            *)
(* ciphertext of the row has its tokens as well; and the provider never    *)
(* issues a tuple twice, so a reply differs from what was redeemed and a   *)
(* rejected tuple stays dead; a refused app is the one the flight asked    *)
(* with. The lease is not mentioned, so this holds when event loops stall, *)
(* and the refinement needs no more.                                       *)
(*                                                                         *)
(* With event loops that keep up, a flight that works under the lease has  *)
(* its row, because no other flight has seen its present version for       *)
(* longer than one renewal interval (LeaseInv).                            *)
(*                                                                         *)
(* So one flight at a time redeems the stored tokens, and as long as the   *)
(* row is edited no more often than the commit retries, it neither runs    *)
(* out of retries nor fails with their successor in hand (Kept).           *)
(***************************************************************************)
EXTENDS OAuthRefresh, TLAPS

\* The snapshot a flight f holds of the row c: no newer than the row, and with
\* the row's tokens if it is the row's version.
Snapshot(f, c) ==
  /\ f.cipher <= c.cipher /\ (f.cipher = c.cipher => f.tuple = c.tuple)
  /\ f.expect <= c.cipher /\ (f.expect = c.cipher => f.tuple = c.tuple)

\* What a flight f knows about the provider, whose newest tuple is m and whose
\* redeemable ones are v.
Knowledge(f, m, v) ==
  /\ f.tuple <= m
  /\ f.reply \in {"ok", "reduced"} => f.tuple < f.fresh /\ f.fresh <= m
  /\ f.reply = "rejected" => f.tuple \notin v
  /\ f.reply = "refused" => f.app \in Refused

\* Where a flight can be with which reply, and with retries left.
Progress(f) ==
  /\ f.pc = "renew" => f.reply \in {"ok", "reduced", "rejected", "refused"}
  /\ f.pc = "mark" => f.reply \in {"rejected", "refused"}
  /\ f.pc \in {"commit", "reread"} => f.reply \in {"ok", "reduced"}
  /\ f.pc = "reread" => f.tries < CommitRetries

Sound(f, c, m, v) ==
  f \in Flight /\ Snapshot(f, c) /\ Knowledge(f, m, v) /\ Progress(f)

AllSound == \A p \in Proc : Sound(flight[p], cred, minted, valid)

IInv ==
  /\ TypeOK
  /\ cred.cipher > 0
  /\ cred.tuple <= minted
  /\ AllSound

-----------------------------------------------------------------------------
(* Flights *)

\* How the row and the provider may change in a step: the row's tokens only
\* with its ciphertext, the provider's only by new ones.
Grows ==
  /\ cred' \in Credential /\ cred'.cipher > 0 /\ cred'.tuple <= minted'
  /\ \/ cred'.cipher = cred.cipher /\ cred'.tuple = cred.tuple
     \/ cred'.cipher = cred.cipher + 1
  /\ minted' \in Nat /\ minted <= minted'
  /\ valid' \in SUBSET Nat
  /\ \A n \in valid' : n \in valid \/ n > minted

\* A flight that does not move stays sound.
LEMMA StaysSound ==
  ASSUME IInv, Grows, NEW q \in Proc
  PROVE  Sound(flight[q], cred', minted', valid')
<1> DEFINE f == flight[q]
<1>1. Sound(f, cred, minted, valid)
  BY DEF IInv, AllSound
<1>2. cred \in Credential /\ minted \in Nat /\ f \in Flight
  BY <1>1 DEF IInv, TypeOK, Sound
<1>3. f.cipher \in Nat /\ f.expect \in Nat /\ f.tuple \in Nat /\ f.fresh \in Nat
  BY <1>2 DEF Flight
<1>4. cred.cipher \in Nat /\ cred.tuple \in Nat /\ cred'.cipher \in Nat
  BY <1>2 DEF Grows, Credential
<1>5. Snapshot(f, cred')
  BY <1>1, <1>3, <1>4 DEF Grows, Sound, Snapshot
<1>6. Knowledge(f, minted', valid')
  BY <1>1, <1>2, <1>3 DEF Grows, Sound, Knowledge
<1> HIDE DEF f
<1>7. Sound(f, cred', minted', valid')
  BY <1>1, <1>5, <1>6 DEF Sound
<1> QED
  BY <1>7 DEF f

\* If p's flight becomes f and the others do not move, all are sound.
LEMMA BecomeSound ==
  ASSUME IInv, Grows, NEW p \in Proc, NEW f, Become(p, f),
         Sound(f, cred', minted', valid')
  PROVE  flight' \in [Proc -> Flight] /\ AllSound'
<1>1. flight \in [Proc -> Flight] /\ f \in Flight
  BY DEF IInv, TypeOK, Sound
<1>2. flight' \in [Proc -> Flight]
  BY <1>1 DEF Become
<1>3. ASSUME NEW q \in Proc PROVE Sound(flight'[q], cred', minted', valid')
  <2>1. CASE q = p
    BY <1>1, <2>1 DEF Become
  <2>2. CASE q # p
    <3>1. flight'[q] = flight[q]
      BY <1>1, <2>2 DEF Become
    <3>2. Sound(flight[q], cred', minted', valid')
      BY StaysSound
    <3> QED
      BY <3>1, <3>2
  <2> QED
    BY <2>1, <2>2
<1> QED
  BY <1>2, <1>3 DEF AllSound

\* What does not change has grown.
LEMMA UnchangedGrows ==
  ASSUME IInv, UNCHANGED <<cred, valid, minted>>
  PROVE  Grows
BY DEF IInv, TypeOK, Grows, Credential

\* Returning and observing keep a flight sound.
LEMMA ReturnSound ==
  ASSUME IInv, NEW p \in Proc, NEW out \in Outcomes, Return(p, out),
         UNCHANGED <<cred, valid, minted>>
  PROVE  flight' \in [Proc -> Flight] /\ AllSound'
<1> DEFINE g == [flight[p] EXCEPT !.pc = "settle", !.out = out]
<1>1. Sound(flight[p], cred, minted, valid)
  BY DEF IInv, AllSound
<1>2. flight[p] \in Flight
  BY <1>1 DEF Sound
<1>3. g \in Flight
  BY <1>2 DEF Flight, PCs
<1>4. /\ g.pc = "settle" /\ g.cipher = flight[p].cipher /\ g.expect = flight[p].expect
      /\ g.tuple = flight[p].tuple /\ g.reply = flight[p].reply
      /\ g.fresh = flight[p].fresh /\ g.app = flight[p].app
  BY <1>2 DEF Flight
<1> HIDE DEF g
<1>5. Sound(g, cred, minted, valid)
  BY <1>1, <1>3, <1>4 DEF Sound, Snapshot, Knowledge, Progress
<1>6. Become(p, g)
  BY DEF Return, g
<1> QED
  BY <1>5, <1>6, UnchangedGrows, BecomeSound

\* A flight moves while the stored tokens stay: its new state must be sound.
LEMMA MoveSound ==
  ASSUME IInv, NEW p \in Proc, NEW f, Become(p, f),
         Sound(f, cred, minted, valid), UNCHANGED <<cred, valid, minted>>
  PROVE  flight' \in [Proc -> Flight] /\ AllSound'
BY UnchangedGrows, BecomeSound

\* Reading the credential again for a later decision claims nothing new.
LEMMA ObserveSound ==
  ASSUME IInv, NEW p \in Proc, NEW then \in Continuations, Observe(p, then),
         UNCHANGED <<cred, valid, minted>>
  PROVE  flight' \in [Proc -> Flight] /\ AllSound'
<1> DEFINE g == [flight[p] EXCEPT !.pc = "observe", !.then = then]
<1>1. Sound(flight[p], cred, minted, valid)
  BY DEF IInv, AllSound
<1>2. flight[p] \in Flight
  BY <1>1 DEF Sound
<1>3. g \in Flight
  BY <1>2 DEF Flight, PCs
<1>4. /\ g.pc = "observe" /\ g.cipher = flight[p].cipher /\ g.expect = flight[p].expect
      /\ g.tuple = flight[p].tuple /\ g.reply = flight[p].reply
      /\ g.fresh = flight[p].fresh /\ g.app = flight[p].app
  BY <1>2 DEF Flight
<1> HIDE DEF g
<1>5. Sound(g, cred, minted, valid)
  BY <1>1, <1>3, <1>4 DEF Sound, Snapshot, Knowledge, Progress
<1>6. Become(p, g)
  BY DEF Observe, g
<1> QED
  BY <1>5, <1>6, MoveSound

\* A flight that stops being refreshed is sound: it knows nothing.
LEMMA IdleFlight == Idle \in Flight
BY TimeAssumption DEF Idle, Flight, PCs, Continuations, Replies, Outcomes

\* A flight that is over knows nothing that could be wrong.
LEMMA IdleSound ==
  ASSUME IInv
  PROVE  Sound(Idle, cred, minted, valid)
<1>1. Idle \in Flight
  BY IdleFlight
<1>2. minted \in Nat /\ cred.cipher \in Nat /\ cred.cipher > 0
  BY DEF IInv, TypeOK, Credential
<1> QED
  BY <1>1, <1>2 DEF Idle, Sound, Snapshot, Knowledge, Progress

-----------------------------------------------------------------------------
(* The other variables *)

Rest ==
  /\ binding \in Statuses
  /\ lease \in Proc \cup {NoProc, Orphan}
  /\ obs \in [Proc -> 0..Unseen]
  /\ app \in Nat
  /\ used \in Bounds

\* The invariant from its parts.
LEMMA Assemble ==
  ASSUME Grows, Rest', flight' \in [Proc -> Flight], AllSound'
  PROVE  IInv'
BY DEF Grows, Rest, IInv, TypeOK

\* The variables that no flight's soundness speaks of have their types.
LEMMA RestNow == IInv => Rest
BY DEF IInv, TypeOK, Rest

\* Writing the lease row keeps it typed, and nobody has seen the new version.
LEMMA SetLeaseTypes ==
  ASSUME NEW l \in Proc \cup {NoProc, Orphan}, SetLease(l)
  PROVE  lease' \in Proc \cup {NoProc, Orphan} /\ obs' \in [Proc -> 0..Unseen]
BY TimeAssumption DEF SetLease, Unseen

\* The binding that Ensure stores is a status.
LEMMA EnsuredBindingType == IInv => EnsuredBinding \in Statuses
BY DEF IInv, TypeOK, EnsuredBinding, Statuses

-----------------------------------------------------------------------------
(* The steps of a flight *)

\* A flight starts with the tokens as they are stored.
LEMMA StartIInv ==
  ASSUME IInv, NEW p \in Proc, NEW force \in BOOLEAN, Start(p, force)
  PROVE  IInv'
<1> DEFINE g == [Idle EXCEPT !.pc = "ensure", !.force = force,
                             !.cipher = cred.cipher, !.tuple = cred.tuple,
                             !.expect = cred.cipher]
<1>1. UNCHANGED <<cred, valid, minted>> /\ Become(p, g)
  BY DEF Start, stored
<1>2. cred.cipher \in Nat /\ cred.tuple \in Nat /\ cred.tuple <= minted
  BY DEF IInv, TypeOK, Credential
<1>3. g \in Flight
  BY <1>2, IdleFlight DEF Flight, PCs
<1>4. Sound(g, cred, minted, valid)
  BY <1>2, <1>3 DEF Idle, Sound, Snapshot, Knowledge, Progress
<1>5. flight' \in [Proc -> Flight] /\ AllSound'
  BY <1>1, <1>4, MoveSound
<1>6. Rest'
  BY RestNow, BoundAssumption DEF Start, stored, Rest, Bounds
<1> QED
  BY <1>1, <1>5, <1>6, UnchangedGrows, Assemble

\* It derives the binding, and may end there.
LEMMA EnsureIInv ==
  ASSUME IInv, NEW p \in Proc, Ensure(p)
  PROVE  IInv'
<1> DEFINE g == [flight[p] EXCEPT !.pc = "poll"]
<1>1. UNCHANGED <<cred, valid, minted>>
  BY DEF Ensure
<1>2. \/ \E out \in Outcomes : Return(p, out)
      \/ Become(p, g)
  BY DEF Ensure, Outcomes
<1>3. Sound(g, cred, minted, valid)
  <2>1. Sound(flight[p], cred, minted, valid)
    BY DEF IInv, AllSound
  <2>2. flight[p] \in Flight
    BY <2>1 DEF Sound
  <2>3. g \in Flight
    BY <2>2 DEF Flight, PCs
  <2> QED
    BY <2>1, <2>2, <2>3 DEF Flight, Sound, Snapshot, Knowledge, Progress
<1>4. flight' \in [Proc -> Flight] /\ AllSound'
  BY <1>1, <1>2, <1>3, ReturnSound, MoveSound
<1>5. Rest'
  BY RestNow, EnsuredBindingType DEF Ensure, Rest
<1> QED
  BY <1>1, <1>4, <1>5, UnchangedGrows, Assemble

\* It looks at the stored tokens before it asks for the lease.
LEMMA PollIInv ==
  ASSUME IInv, NEW p \in Proc, Poll(p)
  PROVE  IInv'
<1>1. UNCHANGED <<cred, valid, minted>>
  BY DEF Poll, stored
<1>2. \E then \in Continuations : Observe(p, then)
  BY DEF Poll, Continuations
<1>3. flight' \in [Proc -> Flight] /\ AllSound'
  BY <1>1, <1>2, ObserveSound
<1>4. Rest'
  BY RestNow DEF Poll, stored, Rest
<1> QED
  BY <1>1, <1>3, <1>4, UnchangedGrows, Assemble

\* A flight whose row does not change goes to another place where nothing is
\* asked of it.
Carefree == PCs \ {"renew", "mark", "commit", "reread"}

\* Going there keeps a flight sound.
LEMMA GoSound ==
  ASSUME IInv, NEW p \in Proc, NEW pc \in Carefree,
         Become(p, [flight[p] EXCEPT !.pc = pc]), UNCHANGED <<cred, valid, minted>>
  PROVE  flight' \in [Proc -> Flight] /\ AllSound'
<1> DEFINE g == [flight[p] EXCEPT !.pc = pc]
<1>1. Sound(flight[p], cred, minted, valid)
  BY DEF IInv, AllSound
<1>2. flight[p] \in Flight
  BY <1>1 DEF Sound
<1>3. g \in Flight
  BY <1>2 DEF Flight, Carefree
<1>4. Sound(g, cred, minted, valid)
  BY <1>1, <1>2, <1>3 DEF Flight, Sound, Snapshot, Knowledge, Progress, Carefree
<1> QED
  BY <1>4, MoveSound

\* So does what follows a second look at the credential.
LEMMA AfterObserveSound ==
  ASSUME IInv, NEW p \in Proc, AfterObserve(p), UNCHANGED <<cred, valid, minted>>
  PROVE  flight' \in [Proc -> Flight] /\ AllSound'
<1>1. flight[p].then \in Continuations
  BY DEF IInv, TypeOK, Flight
<1>2. CASE flight[p].then \in {"acquire", "dispatch"}
  BY <1>2, GoSound DEF AfterObserve, Carefree, PCs
<1>3. CASE flight[p].then \notin {"acquire", "dispatch"}
  <2>1. flight[p].then \in Outcomes
    BY <1>1, <1>3 DEF Continuations, Outcomes
  <2> QED
    BY <1>3, <2>1, ReturnSound DEF AfterObserve
<1> QED
  BY <1>2, <1>3

\* The two reads of an observation.
LEMMA ObserveStepsIInv ==
  ASSUME IInv, NEW p \in Proc, ObserveCredential(p) \/ ObserveBinding(p)
  PROVE  IInv'
<1>1. UNCHANGED <<cred, valid, minted>>
  BY DEF ObserveCredential, ObserveBinding, stored
<1>2. \/ \E out \in Outcomes : Return(p, out)
      \/ AfterObserve(p)
      \/ Become(p, [flight[p] EXCEPT !.pc = "observeBinding"])
  BY DEF ObserveCredential, ObserveBinding, Outcomes
<1>3. "observeBinding" \in Carefree
  BY DEF Carefree, PCs
<1>4. flight' \in [Proc -> Flight] /\ AllSound'
  BY <1>1, <1>2, <1>3, ReturnSound, AfterObserveSound, GoSound
<1>5. Rest'
  BY RestNow DEF ObserveCredential, ObserveBinding, stored, Rest
<1> QED
  BY <1>1, <1>4, <1>5, UnchangedGrows, Assemble

\* The lease is acquired, found taken, or given up.
LEMMA AcquireIInv ==
  ASSUME IInv, NEW p \in Proc, Acquire(p)
  PROVE  IInv'
<1>1. UNCHANGED <<cred, valid, minted, binding, app, used>>
  BY DEF Acquire
<1>2. Sound(flight[p], cred, minted, valid) /\ flight[p] \in Flight
  BY DEF IInv, AllSound, Sound
<1>3. CASE /\ Contended(p)
           /\ obs' = [obs EXCEPT ![p] = IF @ = Unseen THEN 0 ELSE @]
           /\ LET f == [flight[p] EXCEPT
                          !.seenAt = IF obs[p] = Unseen THEN flight[p].wait ELSE @]
              IN Become(p, IF f.wait < WaitLimit
                             THEN [f EXCEPT !.pc = "sleep"]
                             ELSE [f EXCEPT !.pc = "observe", !.then = "lease-timeout"])
           /\ UNCHANGED lease
  <2> DEFINE at == IF obs[p] = Unseen THEN flight[p].wait ELSE flight[p].seenAt
             f == [flight[p] EXCEPT !.seenAt = at]
             g == IF f.wait < WaitLimit
                    THEN [f EXCEPT !.pc = "sleep"]
                    ELSE [f EXCEPT !.pc = "observe", !.then = "lease-timeout"]
  <2>1. f \in Flight /\ f.wait = flight[p].wait
    BY <1>2 DEF Flight
  <2>2. g \in Flight
    BY <2>1 DEF Flight, PCs, Continuations
  <2>3. /\ g.pc \in {"sleep", "observe"} /\ g.cipher = flight[p].cipher
        /\ g.expect = flight[p].expect /\ g.tuple = flight[p].tuple
        /\ g.reply = flight[p].reply /\ g.fresh = flight[p].fresh
        /\ g.app = flight[p].app
    BY <1>2 DEF Flight
  <2>4. Become(p, g)
    BY <1>2, <1>3 DEF Flight
  <2> HIDE DEF g
  <2>5. Sound(g, cred, minted, valid)
    BY <1>2, <2>2, <2>3 DEF Sound, Snapshot, Knowledge, Progress
  <2>6. flight' \in [Proc -> Flight] /\ AllSound'
    BY <1>1, <2>4, <2>5, MoveSound
  <2>7. Rest'
    BY <1>1, <1>3, RestNow, TimeAssumption DEF Rest, Unseen
  <2> QED
    BY <1>1, <2>6, <2>7, UnchangedGrows, Assemble
<1>4. CASE SetLease(p) /\ Observe(p, "dispatch")
  <2>1. flight' \in [Proc -> Flight] /\ AllSound'
    BY <1>1, <1>4, ObserveSound DEF Continuations
  <2>2. Rest'
    BY <1>1, <1>4, RestNow, SetLeaseTypes DEF Rest
  <2> QED
    BY <1>1, <2>1, <2>2, UnchangedGrows, Assemble
<1>5. CASE SetLease(NoProc) /\ Return(p, "not-found")
  <2>1. flight' \in [Proc -> Flight] /\ AllSound'
    BY <1>1, <1>5, ReturnSound DEF Outcomes
  <2>2. Rest'
    BY <1>1, <1>5, RestNow, SetLeaseTypes DEF Rest
  <2> QED
    BY <1>1, <2>1, <2>2, UnchangedGrows, Assemble
<1> QED
  BY <1>3, <1>4, <1>5 DEF Acquire

\* A flight that waited for the lease looks again.
LEMMA WakeIInv ==
  ASSUME IInv, NEW p \in Proc, Wake(p)
  PROVE  IInv'
<1>1. UNCHANGED <<cred, valid, minted>>
  BY DEF Wake, stored
<1>2. flight' \in [Proc -> Flight] /\ AllSound'
  BY <1>1, GoSound DEF Wake, Carefree, PCs
<1>3. Rest'
  BY RestNow DEF Wake, stored, Rest
<1> QED
  BY <1>1, <1>2, <1>3, UnchangedGrows, Assemble

\* The request is sent, with the tuple the flight claimed.
LEMMA DispatchIInv ==
  ASSUME IInv, NEW p \in Proc, Dispatch(p)
  PROVE  IInv'
<1> DEFINE g == [flight[p] EXCEPT !.pc = "remote", !.app = app, !.reply = "pending"]
<1>1. UNCHANGED <<cred, valid, minted>>
  BY DEF Dispatch, stored
<1>2. Sound(flight[p], cred, minted, valid) /\ flight[p] \in Flight /\ app \in Nat
  BY DEF IInv, TypeOK, AllSound, Sound
<1>3. g \in Flight
  BY <1>2 DEF Flight, PCs, Replies
<1>4. Sound(g, cred, minted, valid)
  BY <1>2, <1>3 DEF Flight, Sound, Snapshot, Knowledge, Progress
<1>5. flight' \in [Proc -> Flight] /\ AllSound'
  <2>1. CASE Return(p, "skipped")
    BY <1>1, <2>1, ReturnSound DEF Outcomes
  <2>2. CASE Become(p, g)
    BY <1>1, <1>4, <2>2, MoveSound
  <2> QED
    BY <2>1, <2>2 DEF Dispatch
<1>6. Rest'
  BY RestNow DEF Dispatch, stored, Rest
<1> QED
  BY <1>1, <1>5, <1>6, UnchangedGrows, Assemble

\* The provider's newest tuple is newer than every tuple a flight redeems.
LEMMA ProviderIInv ==
  ASSUME IInv, NEW p \in Proc, ProviderHandles(p)
  PROVE  IInv'
<1>1. UNCHANGED cred
  BY DEF ProviderHandles, stored
<1>2. Sound(flight[p], cred, minted, valid) /\ flight[p] \in Flight
  BY DEF IInv, AllSound, Sound
<1>3. cred \in Credential /\ minted \in Nat /\ valid \subseteq Nat /\ cred.tuple <= minted
      /\ cred.cipher > 0
  BY DEF IInv, TypeOK
<1>4. Grows
  BY <1>1, <1>3 DEF ProviderHandles, Grows, Credential
<1>5. PICK f : Become(p, f) /\ Sound(f, cred', minted', valid')
  <2>1. CASE UNCHANGED <<valid, minted>>
    <3> DEFINE r(reply) == [flight[p] EXCEPT !.reply = reply]
    <3>1. CASE Become(p, r("retryable"))
      <4>1. r("retryable") \in Flight
        BY <1>2 DEF Flight, Replies
      <4>2. Sound(r("retryable"), cred, minted, valid)
        BY <1>2, <4>1 DEF Flight, ProviderHandles, Sound, Snapshot, Knowledge, Progress
      <4> QED
        BY <1>1, <2>1, <3>1, <4>2
    <3>2. CASE flight[p].tuple \notin valid /\ Become(p, r("rejected"))
      <4>1. r("rejected") \in Flight
        BY <1>2 DEF Flight, Replies
      <4>2. flight[p].pc = "remote"
        BY DEF ProviderHandles
      <4>3. Sound(r("rejected"), cred, minted, valid)
        BY <1>2, <3>2, <4>1, <4>2 DEF Flight, Sound, Snapshot, Knowledge, Progress
      <4> QED
        BY <1>1, <2>1, <3>2, <4>3
    <3>3. CASE flight[p].app \in Refused /\ Become(p, r("refused"))
      <4>1. r("refused") \in Flight
        BY <1>2 DEF Flight, Replies
      <4>2. flight[p].pc = "remote"
        BY DEF ProviderHandles
      <4>3. Sound(r("refused"), cred, minted, valid)
        BY <1>2, <3>3, <4>1, <4>2 DEF Flight, Sound, Snapshot, Knowledge, Progress
      <4> QED
        BY <1>1, <2>1, <3>3, <4>3
    <3> QED
      BY <1>3, <2>1, <3>1, <3>2, <3>3 DEF ProviderHandles
  <2>2. CASE minted' = minted + 1
    <3>1. PICK reply \in {"ok", "reduced"} :
            Become(p, [flight[p] EXCEPT !.reply = reply, !.fresh = minted'])
      BY <1>3, <2>2 DEF ProviderHandles
    <3> DEFINE g == [flight[p] EXCEPT !.reply = reply, !.fresh = minted']
    <3>2. g \in Flight
      <4>1. minted' \in Nat /\ reply \in Replies
        BY <1>3, <2>2 DEF Replies
      <4> QED
        BY <1>2, <4>1 DEF Flight
    <3>3. flight[p].pc = "remote"
      BY DEF ProviderHandles
    <3>4. Sound(g, cred', minted', valid')
      BY <1>1, <1>2, <1>3, <2>2, <3>2, <3>3
      DEF Flight, Sound, Snapshot, Knowledge, Progress
    <3> QED
      BY <3>1, <3>4
  <2> QED
    BY <2>1, <2>2 DEF ProviderHandles
<1>6. flight' \in [Proc -> Flight] /\ AllSound'
  BY <1>4, <1>5, BecomeSound
<1>7. Rest'
  BY RestNow DEF ProviderHandles, stored, Rest
<1> QED
  BY <1>4, <1>6, <1>7, Assemble

\* The answer arrives; new tokens are newer than the claimed ones.
LEMMA ReceiveIInv ==
  ASSUME IInv, NEW p \in Proc, Receive(p)
  PROVE  IInv'
<1> DEFINE g == [flight[p] EXCEPT !.pc = "renew", !.due = FALSE]
<1>1. UNCHANGED <<cred, valid, minted>>
  BY DEF Receive, stored
<1>2. Sound(flight[p], cred, minted, valid) /\ flight[p] \in Flight
  BY DEF IInv, AllSound, Sound
<1>3. flight' \in [Proc -> Flight] /\ AllSound'
  <2>1. CASE Return(p, "failed")
    BY <1>1, <2>1, ReturnSound DEF Outcomes
  <2>2. CASE flight[p].reply # "retryable" /\ Become(p, g)
    <3>1. flight[p].reply \in {"ok", "reduced", "rejected", "refused"}
      BY <1>2, <2>2 DEF Receive, Flight, Replies
    <3>2. g \in Flight
      BY <1>2 DEF Flight, PCs
    <3>3. Sound(g, cred, minted, valid)
      BY <1>2, <3>1, <3>2 DEF Flight, Sound, Snapshot, Knowledge, Progress
    <3> QED
      BY <1>1, <2>2, <3>3, MoveSound
  <2> QED
    BY <2>1, <2>2 DEF Receive
<1>4. Rest'
  BY RestNow DEF Receive, stored, Rest
<1> QED
  BY <1>1, <1>3, <1>4, UnchangedGrows, Assemble

\* The answer is lost, and the flight ends without knowing.
LEMMA LoseReplyIInv ==
  ASSUME IInv, NEW p \in Proc, LoseReply(p)
  PROVE  IInv'
<1>1. UNCHANGED <<cred, valid, minted>>
  BY DEF LoseReply, stored
<1>2. flight' \in [Proc -> Flight] /\ AllSound'
  BY <1>1, ReturnSound DEF LoseReply, Outcomes
<1>3. used' \in Bounds
  BY BoundAssumption DEF LoseReply, IInv, TypeOK, Bounds
<1>4. Rest'
  BY <1>3, RestNow DEF LoseReply, stored, Rest
<1> QED
  BY <1>1, <1>2, <1>4, UnchangedGrows, Assemble

\* Renewing changes nothing but the version others have seen, releasing only
\* the row.
LEMMA LeaseStepTypes ==
  ASSUME IInv, NEW p \in Proc, Renew(p) \/ RenewFails(p) \/ Release(p)
  PROVE  lease' \in Proc \cup {NoProc, Orphan} /\ obs' \in [Proc -> 0..Unseen]
<1>1. lease \in Proc \cup {NoProc, Orphan} /\ obs \in [Proc -> 0..Unseen]
  BY DEF IInv, TypeOK
<1> QED
  BY <1>1, SetLeaseTypes DEF Renew, RenewFails, Release

\* A heartbeat renews the lease or finds it lost.
LEMMA HeartbeatIInv ==
  ASSUME IInv, NEW p \in Proc, Heartbeat(p)
  PROVE  IInv'
<1> DEFINE g == [flight[p] EXCEPT !.due = FALSE]
<1>1. UNCHANGED <<cred, valid, minted>> /\ Become(p, g)
  BY DEF Heartbeat
<1>2. Sound(flight[p], cred, minted, valid) /\ flight[p] \in Flight
  BY DEF IInv, AllSound, Sound
<1>3. g \in Flight
  BY <1>2 DEF Flight
<1>4. Sound(g, cred, minted, valid)
  BY <1>2, <1>3 DEF Flight, Sound, Snapshot, Knowledge, Progress
<1>5. flight' \in [Proc -> Flight] /\ AllSound'
  BY <1>1, <1>4, MoveSound
<1>6. Rest'
  BY RestNow, LeaseStepTypes DEF Heartbeat, Rest
<1> QED
  BY <1>1, <1>5, <1>6, UnchangedGrows, Assemble

\* The renewal before the write.
LEMMA RenewBeforeWriteIInv ==
  ASSUME IInv, NEW p \in Proc, RenewBeforeWrite(p)
  PROVE  IInv'
<1> DEFINE pc == IF Denied(flight[p].reply) THEN "mark" ELSE "commit"
           g == [flight[p] EXCEPT !.pc = pc]
<1>1. UNCHANGED <<cred, valid, minted>>
  BY DEF RenewBeforeWrite
<1>2. Sound(flight[p], cred, minted, valid) /\ flight[p] \in Flight
  BY DEF IInv, AllSound, Sound
<1>3. flight[p].reply \in {"ok", "reduced", "rejected", "refused"}
  BY <1>2 DEF RenewBeforeWrite, Sound, Progress
<1>4. g \in Flight
  BY <1>2 DEF Flight, PCs
<1>5. g.pc = pc /\ g.reply = flight[p].reply
  BY <1>2 DEF Flight
<1>6. Progress(g)
  BY <1>3, <1>5 DEF Progress, Denied
<1>7. Sound(g, cred, minted, valid)
  BY <1>2, <1>4, <1>6 DEF Flight, Sound, Snapshot, Knowledge
<1>8. flight' \in [Proc -> Flight] /\ AllSound'
  <2>1. CASE Become(p, g)
    BY <1>1, <1>7, <2>1, MoveSound
  <2>2. CASE Observe(p, "lease-lost")
    BY <1>1, <2>2, ObserveSound DEF Continuations
  <2> QED
    BY <2>1, <2>2 DEF RenewBeforeWrite
<1>9. Rest'
  BY RestNow, LeaseStepTypes DEF RenewBeforeWrite, Rest
<1> QED
  BY <1>1, <1>8, <1>9, UnchangedGrows, Assemble

\* A commit that passes the compare and swap replaces the tuple that the
\* flight redeemed by a newer one.
Commits(p) ==
  /\ flight[p].pc = "commit" /\ cred.present
  /\ cred.cipher = flight[p].expect
  /\ lease = p /\ app = flight[p].app
  /\ Rewrite(flight[p].fresh, FALSE)

\* A commit replaces the very tuple the flight redeemed, by a newer one.
LEMMA CommitIsRotation ==
  ASSUME IInv, NEW p \in Proc, Commits(p)
  PROVE  /\ flight[p].tuple = cred.tuple
         /\ flight[p].fresh \in Nat /\ cred.tuple < flight[p].fresh
         /\ flight[p].fresh <= minted
         /\ cred' = [present |-> TRUE, cipher |-> cred.cipher + 1,
                     tuple |-> flight[p].fresh, elapsed |-> FALSE]
<1>1. Sound(flight[p], cred, minted, valid) /\ flight[p] \in Flight
  BY DEF IInv, AllSound, Sound
<1>2. flight[p].tuple = cred.tuple
  BY <1>1 DEF Commits, Sound, Snapshot
<1>3. flight[p].fresh \in Nat /\ cred.tuple < flight[p].fresh /\ flight[p].fresh <= minted
  BY <1>1, <1>2 DEF Commits, Sound, Progress, Knowledge, Flight
<1>4. cred' = [present |-> TRUE, cipher |-> cred.cipher + 1,
               tuple |-> flight[p].fresh, elapsed |-> FALSE]
  BY DEF IInv, TypeOK, Credential, Commits, Rewrite
<1> QED
  BY <1>2, <1>3, <1>4

\* Writing the credential makes its version grow.
LEMMA RewriteGrows ==
  ASSUME IInv, NEW tuple \in Nat, NEW elapsed \in BOOLEAN, Rewrite(tuple, elapsed),
         minted' \in Nat, minted <= minted', tuple <= minted',
         valid' \in SUBSET Nat, \A n \in valid' : n \in valid \/ n > minted
  PROVE  Grows
<1>1. cred \in Credential /\ cred.cipher > 0
  BY DEF IInv, TypeOK
<1>2. cred' = [present |-> cred.present, cipher |-> cred.cipher + 1,
               tuple |-> tuple, elapsed |-> elapsed]
  BY <1>1 DEF Credential, Rewrite
<1>3. /\ cred' \in Credential /\ cred'.cipher > 0 /\ cred'.tuple = tuple
      /\ cred'.cipher = cred.cipher + 1
  BY <1>1, <1>2 DEF Credential
<1> QED
  BY <1>3 DEF Grows

\* The commit writes, is told of another version, or gives up.
LEMMA CommitIInv ==
  ASSUME IInv, NEW p \in Proc, Commit(p)
  PROVE  IInv'
<1>1. UNCHANGED <<valid, minted>>
  BY DEF Commit
<1>2. Sound(flight[p], cred, minted, valid) /\ flight[p] \in Flight
  BY DEF IInv, AllSound, Sound
<1>3. minted \in Nat /\ valid \in SUBSET Nat
  BY DEF IInv, TypeOK
<1>4. CASE UNCHANGED cred /\ UNCHANGED binding
  <2>1. CASE MayRetry(p) /\ Become(p, [flight[p] EXCEPT !.pc = "reread"])
    <3> DEFINE g == [flight[p] EXCEPT !.pc = "reread"]
    <3>1. g \in Flight
      BY <1>2 DEF Flight, PCs
    <3>2. flight[p].reply \in {"ok", "reduced"}
      BY <1>2 DEF Commit, Sound, Progress
    <3>3. Sound(g, cred, minted, valid)
      BY <1>2, <2>1, <3>1, <3>2
      DEF Flight, Sound, Snapshot, Knowledge, Progress, MayRetry
    <3>4. flight' \in [Proc -> Flight] /\ AllSound'
      BY <1>1, <1>4, <2>1, <3>3, MoveSound
    <3>5. Rest'
      BY <1>4, RestNow DEF Commit, Rest
    <3> QED
      BY <1>1, <1>4, <3>4, <3>5, UnchangedGrows, Assemble
  <2>2. CASE \/ \E then \in Continuations : Observe(p, then)
             \/ \E out \in Outcomes : Return(p, out)
    <3>1. flight' \in [Proc -> Flight] /\ AllSound'
      BY <1>1, <1>4, <2>2, ObserveSound, ReturnSound
    <3>2. Rest'
      BY <1>4, RestNow DEF Commit, Rest
    <3> QED
      BY <1>1, <1>4, <3>1, <3>2, UnchangedGrows, Assemble
  <2>3. "conflict" \in Continuations /\ "lease-lost" \in Continuations
    BY DEF Continuations
  <2>4. /\ "not-found" \in Outcomes /\ "app-changed" \in Outcomes
        /\ "terminal" \in Outcomes /\ "refreshed" \in Outcomes
    BY DEF Outcomes
  <2> QED
    BY <2>1, <2>2, <2>3, <2>4 DEF Commit
<1>5. CASE /\ Commits(p)
           /\ binding' = IF flight[p].reply = "reduced" THEN "reauth" ELSE "active"
           /\ Return(p, IF flight[p].reply = "reduced" THEN "terminal" ELSE "refreshed")
  <2> DEFINE out == IF flight[p].reply = "reduced" THEN "terminal" ELSE "refreshed"
             g == [flight[p] EXCEPT !.pc = "settle", !.out = out]
  <2>1. /\ flight[p].fresh \in Nat /\ flight[p].fresh <= minted
        /\ Rewrite(flight[p].fresh, FALSE)
    BY <1>5, CommitIsRotation DEF Commits
  <2>2. Grows
    <3> DEFINE fresh == flight[p].fresh
    <3>1. fresh \in Nat /\ fresh <= minted' /\ Rewrite(fresh, FALSE)
      BY <1>1, <2>1
    <3>2. /\ minted' \in Nat /\ minted <= minted' /\ valid' \in SUBSET Nat
          /\ \A n \in valid' : n \in valid \/ n > minted
      BY <1>1, <1>3
    <3> HIDE DEF fresh
    <3> QED
      BY <3>1, <3>2, RewriteGrows
  <2>3. g \in Flight
    BY <1>2 DEF Flight, PCs, Outcomes
  <2>4. Sound(flight[p], cred', minted', valid')
    BY <2>2, StaysSound
  <2>5. Sound(g, cred', minted', valid')
    BY <1>2, <2>3, <2>4 DEF Flight, Sound, Snapshot, Knowledge, Progress
  <2>6. Become(p, g)
    BY <1>5 DEF Return
  <2>7. flight' \in [Proc -> Flight] /\ AllSound'
    BY <2>2, <2>5, <2>6, BecomeSound
  <2>8. Rest'
    BY <1>5, RestNow DEF Commit, Rest, Statuses
  <2> QED
    BY <2>2, <2>7, <2>8, Assemble
<1> QED
  BY <1>4, <1>5 DEF Commit, Commits

\* After another edit the flight tries again with the version it finds.
LEMMA RereadIInv ==
  ASSUME IInv, NEW p \in Proc, Reread(p)
  PROVE  IInv'
<1>1. UNCHANGED <<cred, valid, minted>>
  BY DEF Reread, stored
<1>2. Sound(flight[p], cred, minted, valid) /\ flight[p] \in Flight
  BY DEF IInv, AllSound, Sound
<1>3. cred.cipher \in Nat
  BY DEF IInv, TypeOK, Credential
<1>4. flight' \in [Proc -> Flight] /\ AllSound'
  <2> DEFINE g == [flight[p] EXCEPT !.pc = "commit", !.expect = cred.cipher,
                                    !.tries = @ + 1]
  <2>1. CASE SameTuple(p) /\ Become(p, g)
    <3>1. flight[p].tries < CommitRetries /\ flight[p].reply \in {"ok", "reduced"}
      BY <1>2 DEF Reread, Sound, Progress
    <3>2. flight[p].tries + 1 \in 0..CommitRetries
      BY <1>2, <3>1, TimeAssumption DEF Flight
    <3>3. g \in Flight
      BY <1>2, <1>3, <3>2 DEF Flight, PCs
    <3>4. Sound(g, cred, minted, valid)
      BY <1>2, <1>3, <2>1, <3>1, <3>3
      DEF Flight, Sound, Snapshot, Knowledge, Progress, SameTuple
    <3> QED
      BY <1>1, <2>1, <3>4, MoveSound
  <2>2. CASE Observe(p, "conflict")
    BY <1>1, <2>2, ObserveSound DEF Continuations
  <2> QED
    BY <2>1, <2>2 DEF Reread
<1>5. Rest'
  BY RestNow DEF Reread, stored, Rest
<1> QED
  BY <1>1, <1>4, <1>5, UnchangedGrows, Assemble

\* The credential is marked as in need of a new authorization, or left alone.
LEMMA MarkIInv ==
  ASSUME IInv, NEW p \in Proc, Mark(p)
  PROVE  IInv'
<1>1. UNCHANGED <<cred, valid, minted>>
  BY DEF Mark
<1>2. \/ \E then \in Continuations : Observe(p, then)
      \/ \E out \in Outcomes : Return(p, out)
  BY DEF Mark, Continuations, Outcomes
<1>3. flight' \in [Proc -> Flight] /\ AllSound'
  BY <1>1, <1>2, ObserveSound, ReturnSound
<1>4. Rest'
  BY RestNow DEF Mark, Rest, Statuses
<1> QED
  BY <1>1, <1>3, <1>4, UnchangedGrows, Assemble

\* The flight ends and releases the lease it still holds.
LEMMA SettleIInv ==
  ASSUME IInv, NEW p \in Proc, Settle(p)
  PROVE  IInv'
<1>1. UNCHANGED <<cred, valid, minted>> /\ Become(p, Idle)
  BY DEF Settle
<1>2. flight' \in [Proc -> Flight] /\ AllSound'
  BY <1>1, IdleSound, MoveSound
<1>3. Rest'
  BY RestNow, LeaseStepTypes DEF Settle, Rest
<1> QED
  BY <1>1, <1>2, <1>3, UnchangedGrows, Assemble

-----------------------------------------------------------------------------
(* The steps of everything else *)

\* A process dies with its flight; its lease stays.
LEMMA CrashIInv ==
  ASSUME IInv, NEW p \in Proc, Crash(p)
  PROVE  IInv'
<1>1. UNCHANGED <<cred, valid, minted>> /\ Become(p, Idle)
  BY DEF Crash
<1>2. flight' \in [Proc -> Flight] /\ AllSound'
  BY <1>1, IdleSound, MoveSound
<1>3. used' \in Bounds
  BY BoundAssumption DEF Crash, IInv, TypeOK, Bounds
<1>4. obs' \in [Proc -> 0..Unseen] /\ lease' \in Proc \cup {NoProc, Orphan}
  BY TimeAssumption DEF Crash, IInv, TypeOK, Unseen
<1>5. Rest'
  BY <1>3, <1>4, RestNow DEF Crash, Rest
<1> QED
  BY <1>1, <1>2, <1>5, UnchangedGrows, Assemble

\* Steps that move no flight.
LEMMA StillSound ==
  ASSUME IInv, Grows, UNCHANGED flight
  PROVE  flight' \in [Proc -> Flight] /\ AllSound'
BY StaysSound DEF IInv, TypeOK, AllSound

\* The user edits, reconnects or deletes the credential.
LEMMA UserIInv ==
  ASSUME IInv, EditOther \/ Reconnect \/ Delete
  PROVE  IInv'
<1>1. cred \in Credential /\ cred.cipher > 0 /\ cred.tuple \in Nat /\ cred.elapsed \in BOOLEAN
  BY DEF IInv, TypeOK, Credential
<1>2. minted \in Nat /\ valid \in SUBSET Nat /\ cred.tuple <= minted
  BY DEF IInv, TypeOK
<1>3. Grows
  <2>1. CASE EditOther
    <3>1. UNCHANGED <<valid, minted>> /\ Rewrite(cred.tuple, cred.elapsed)
      BY <2>1 DEF EditOther
    <3>2. /\ minted' \in Nat /\ minted <= minted' /\ valid' \in SUBSET Nat
          /\ \A n \in valid' : n \in valid \/ n > minted
      BY <1>2, <3>1
    <3> DEFINE same == cred.tuple
               sameExpiry == cred.elapsed
    <3>3. /\ same \in Nat /\ same <= minted' /\ sameExpiry \in BOOLEAN
          /\ Rewrite(same, sameExpiry)
      BY <1>1, <1>2, <3>1
    <3> HIDE DEF same, sameExpiry
    <3> QED
      BY <3>2, <3>3, RewriteGrows
  <2>2. CASE Reconnect
    <3>1. minted' = minted + 1 /\ valid' = valid \cup {minted'} /\ Rewrite(minted', FALSE)
      BY <2>2 DEF Reconnect
    <3>2. /\ minted' \in Nat /\ minted <= minted' /\ valid' \in SUBSET Nat
          /\ \A n \in valid' : n \in valid \/ n > minted
      BY <1>2, <3>1
    <3> DEFINE new == minted + 1
    <3>3. new \in Nat /\ new <= minted' /\ Rewrite(new, FALSE)
      BY <1>2, <3>1 DEF Rewrite
    <3> HIDE DEF new
    <3> QED
      BY <3>2, <3>3, RewriteGrows
  <2>3. CASE Delete
    <3>1. UNCHANGED <<valid, minted>> /\ cred' = [cred EXCEPT !.present = FALSE]
      BY <2>3 DEF Delete
    <3>2. /\ cred' \in Credential /\ cred'.cipher = cred.cipher
          /\ cred'.tuple = cred.tuple
      BY <1>1, <3>1 DEF Credential
    <3> QED
      BY <1>1, <1>2, <3>1, <3>2 DEF Grows
  <2> QED
    BY <2>1, <2>2, <2>3
<1>4. flight' \in [Proc -> Flight] /\ AllSound'
  BY <1>3, StillSound DEF EditOther, Reconnect, Delete
<1>5. used' \in Bounds
  <2>1. used \in Bounds
    BY DEF IInv, TypeOK
  <2>2. used.edits < MaxEdits /\ used' = [used EXCEPT !.edits = @ + 1]
    BY DEF EditOther, Reconnect, Delete, Edit
  <2> QED
    BY <2>1, <2>2, BoundAssumption DEF Bounds
<1>6. lease' \in Proc \cup {NoProc, Orphan} /\ obs' \in [Proc -> 0..Unseen]
  BY SetLeaseTypes DEF EditOther, Reconnect, Delete, IInv, TypeOK
<1>7. Rest'
  BY <1>5, <1>6, RestNow DEF EditOther, Reconnect, Delete, Rest, Statuses
<1> QED
  BY <1>3, <1>4, <1>7, Assemble

\* The application changes, the token expires, the provider revokes.
LEMMA EnvironmentIInv ==
  ASSUME IInv, EditApp \/ Elapse \/ Revoke
  PROVE  IInv'
<1>1. Grows
  <2>1. cred \in Credential /\ cred.cipher > 0 /\ cred.tuple <= minted
        /\ minted \in Nat /\ valid \in SUBSET Nat
    BY DEF IInv, TypeOK
  <2>2. /\ cred' \in Credential /\ cred'.cipher = cred.cipher
        /\ cred'.tuple = cred.tuple
    BY <2>1 DEF EditApp, Elapse, Revoke, stored, Credential
  <2>3. minted' = minted /\ (valid' = valid \/ valid' = {})
    BY DEF EditApp, Elapse, Revoke
  <2>4. /\ minted' \in Nat /\ minted <= minted' /\ valid' \in SUBSET Nat
        /\ \A n \in valid' : n \in valid \/ n > minted
    <3>1. CASE valid' = valid
      BY <2>1, <2>3, <3>1
    <3>2. CASE valid' = {}
      BY <2>1, <2>3, <3>2
    <3> QED
      BY <2>3, <3>1, <3>2
  <2>5. cred'.cipher > 0 /\ cred'.tuple <= minted'
    BY <2>1, <2>2, <2>3
  <2> QED
    BY <2>2, <2>4, <2>5 DEF Grows
<1>2. flight' \in [Proc -> Flight] /\ AllSound'
  BY <1>1, StillSound DEF EditApp, Elapse, Revoke
<1>3. used \in Bounds
  BY DEF IInv, TypeOK
<1>4. used' \in Bounds
  BY <1>3, BoundAssumption DEF EditApp, Elapse, Revoke, Bounds
<1>5. app' \in Nat
  BY <1>3 DEF EditApp, Elapse, Revoke, IInv, TypeOK, Bounds
<1>6. Rest'
  BY <1>4, <1>5, RestNow DEF EditApp, Elapse, Revoke, stored, Rest
<1> QED
  BY <1>1, <1>2, <1>6, Assemble

\* A Tick touches only the clocks and the place of a flight that sleeps.
LEMMA TickIInv ==
  ASSUME IInv, Tick
  PROVE  IInv'
<1>1. UNCHANGED <<cred, valid, minted>>
  BY DEF Tick, stored
<1>2. ASSUME NEW n \in Nat, NEW limit \in Nat, n \in 0..limit
      PROVE  Plus1(n, limit) \in 0..limit
  BY <1>2 DEF Plus1
<1>3. ASSUME NEW q \in Proc
      PROVE  Sound(AfterTick(flight[q]), cred, minted, valid)
  <2> DEFINE f == flight[q]
  <2>1. Sound(f, cred, minted, valid) /\ f \in Flight
    BY DEF IInv, AllSound, Sound
  <2>2. Plus1(f.call, CallLimit) \in 0..CallLimit /\ Plus1(f.wait, WaitLimit) \in 0..WaitLimit
    <3>1. /\ CallLimit \in Nat /\ WaitLimit \in Nat
          /\ f.call \in 0..CallLimit /\ f.wait \in 0..WaitLimit
      BY <2>1, TimeAssumption DEF Flight
    <3>2. f.call \in Nat /\ f.wait \in Nat
      BY <3>1
    <3>3. Plus1(f.call, CallLimit) \in 0..CallLimit
      BY <1>2, <3>1, <3>2
    <3>4. Plus1(f.wait, WaitLimit) \in 0..WaitLimit
      BY <1>2, <3>1, <3>2
    <3> QED
      BY <3>3, <3>4
  <2>3. CASE f.pc = "remote"
    <3> DEFINE g == [f EXCEPT !.call = Plus1(@, CallLimit), !.due = TRUE]
    <3>1. g \in Flight
      BY <2>1, <2>2 DEF Flight
    <3>2. Sound(g, cred, minted, valid)
      BY <2>1, <3>1 DEF Flight, Sound, Snapshot, Knowledge, Progress
    <3> QED
      BY <2>3, <3>2 DEF AfterTick
  <2>4. CASE f.pc # "remote" /\ Waiting(f)
    <3> DEFINE pc == IF f.pc = "sleep" THEN "poll" ELSE f.pc
               g == [f EXCEPT !.wait = Plus1(@, WaitLimit),
                              !.pc = IF @ = "sleep" THEN "poll" ELSE @]
    <3>1. pc \in PCs
      BY <2>1 DEF Flight, PCs
    <3>2. g \in Flight /\ g.pc = pc
      BY <2>1, <2>2, <3>1 DEF Flight
    <3>3. /\ g.cipher = f.cipher /\ g.expect = f.expect /\ g.tuple = f.tuple
          /\ g.reply = f.reply /\ g.fresh = f.fresh /\ g.tries = f.tries
      BY <2>1 DEF Flight
    <3>4. Progress(g)
      BY <2>1, <3>2, <3>3 DEF Sound, Progress
    <3>5. Sound(g, cred, minted, valid)
      BY <2>1, <3>2, <3>3, <3>4 DEF Sound, Snapshot, Knowledge
    <3> QED
      BY <2>4, <3>5 DEF AfterTick
  <2>5. CASE f.pc # "remote" /\ ~Waiting(f)
    BY <2>1, <2>5 DEF AfterTick
  <2> QED
    BY <2>3, <2>4, <2>5
<1>4. flight' \in [Proc -> Flight] /\ AllSound'
  BY <1>1, <1>3 DEF Tick, Sound, AllSound
<1>5. obs' \in [Proc -> 0..Unseen]
  <2>1. ASSUME NEW q \in Proc, obs[q] # Unseen PROVE Plus1(obs[q], TTL) \in 0..Unseen
    BY <2>1, TimeAssumption DEF IInv, TypeOK, Unseen, Plus1
  <2> QED
    BY <2>1, TimeAssumption DEF Tick, Unseen
<1>6. Rest'
  BY <1>5, RestNow DEF Tick, stored, Rest
<1> QED
  BY <1>1, <1>4, <1>6, UnchangedGrows, Assemble

-----------------------------------------------------------------------------
(* The theorems *)

\* The invariant holds at the start.
LEMMA InitIInv == Init => IInv
<1> SUFFICES ASSUME Init PROVE IInv
  OBVIOUS
<1>1. PICK t \in {0, 1} :
        cred = [present |-> TRUE, cipher |-> 1, tuple |-> t, elapsed |-> FALSE]
  BY DEF Init
<1>2. cred \in Credential /\ cred.cipher > 0 /\ cred.tuple <= minted
  BY <1>1 DEF Init, Credential
<1>3. used \in Bounds
  BY BoundAssumption DEF Init, Bounds
<1>4. obs \in [Proc -> 0..Unseen]
  BY TimeAssumption DEF Init, Unseen
<1>5. flight \in [Proc -> Flight]
  BY IdleFlight DEF Init
<1>6. TypeOK
  BY <1>2, <1>3, <1>4, <1>5 DEF Init, TypeOK, Statuses
<1>7. cred.cipher \in Nat /\ minted \in Nat
  BY <1>2 DEF Init, Credential
<1>8. Sound(Idle, cred, minted, valid)
  BY <1>2, <1>7, IdleFlight DEF Idle, Sound, Snapshot, Knowledge, Progress
<1>9. AllSound
  BY <1>8 DEF Init, AllSound
<1> QED
  BY <1>2, <1>6, <1>9 DEF IInv

\* Every step keeps it.
LEMMA NextIInv == IInv /\ [Next]_vars => IInv'
<1> SUFFICES ASSUME IInv, [Next]_vars PROVE IInv'
  OBVIOUS
<1>1. ASSUME NEW p \in Proc, Step(p) PROVE IInv'
  BY <1>1, EnsureIInv, PollIInv, ObserveStepsIInv, AcquireIInv, WakeIInv,
     DispatchIInv, ReceiveIInv, HeartbeatIInv, RenewBeforeWriteIInv,
     CommitIInv, RereadIInv, MarkIInv, SettleIInv DEF Step
<1>2. ASSUME NEW p \in Proc, NEW force \in BOOLEAN, Start(p, force) PROVE IInv'
  BY <1>2, StartIInv
<1>3. ASSUME NEW p \in Proc, ProviderHandles(p) \/ LoseReply(p) \/ Crash(p)
      PROVE IInv'
  BY <1>3, ProviderIInv, LoseReplyIInv, CrashIInv
<1>4. CASE EditOther \/ Reconnect \/ Delete
  BY <1>4, UserIInv
<1>5. CASE EditApp \/ Elapse \/ Revoke
  BY <1>5, EnvironmentIInv
<1>6. CASE Tick
  BY <1>6, TickIInv
<1>7. CASE UNCHANGED vars
  <2>1. UNCHANGED <<cred, valid, minted, flight>>
    BY <1>7 DEF vars
  <2>2. flight' \in [Proc -> Flight] /\ AllSound'
    BY <2>1, UnchangedGrows, StillSound
  <2>3. Rest'
    BY <1>7, RestNow DEF vars, Rest
  <2> QED
    BY <2>1, <2>2, <2>3, UnchangedGrows, Assemble
<1> QED
  BY <1>1, <1>2, <1>3, <1>4, <1>5, <1>6, <1>7 DEF Next

\* The inductive invariant.
LEMMA IInvHolds == Spec => []IInv
BY InitIInv, NextIInv, PTL DEF Spec

\* The variables of the refresh keep their types: in particular no flight ever
\* makes more than the seven attempts of the commit loop.
THEOREM TypeCorrect == Spec => []TypeOK
<1>1. IInv => TypeOK
  BY DEF IInv
<1> QED
  BY <1>1, IInvHolds, PTL

-----------------------------------------------------------------------------
(* Action properties *)

\* Only four steps touch the authorisation status of a stored credential.
LEMMA StatusSteps ==
  ASSUME IInv, [Next]_vars, binding' # binding
  PROVE  \/ \E p \in Proc : Ensure(p) \/ Commit(p) \/ Mark(p)
         \/ Reconnect \/ Delete
BY DEF Next, Step, vars, stored, Start, Poll, ObserveCredential, ObserveBinding,
   Acquire, Wake, Dispatch, ProviderHandles, Receive, LoseReply, Heartbeat,
   RenewBeforeWrite, Reread, Settle, Crash, EditOther, EditApp, Elapse, Revoke, Tick

\* A status of reauthentication-required is lifted only by tokens that differ
\* from the rejected ones, or with the credential itself, for any number of
\* processes and any timing (ensureOAuthCredentialBinding, the commit).
THEOREM ReauthIsSticky == Spec => RepairNeedsNewTokens
<1>1. ASSUME IInv, [Next]_vars, binding = "reauth", binding' # "reauth"
      PROVE  cred'.tuple # cred.tuple \/ ~cred'.present
  <2>1. ASSUME NEW p \in Proc, Ensure(p) PROVE FALSE
    BY <1>1, <2>1 DEF Ensure, EnsuredBinding
  <2>2. ASSUME NEW p \in Proc, Commit(p) PROVE cred'.tuple # cred.tuple
    <3>1. Commits(p)
      BY <1>1, <2>2 DEF Commit, Commits
    <3>2. cred.tuple \in Nat
      BY <1>1 DEF IInv, TypeOK, Credential
    <3> QED
      BY <1>1, <3>1, <3>2, CommitIsRotation
  <2>3. ASSUME NEW p \in Proc, Mark(p) PROVE FALSE
    BY <1>1, <2>3 DEF Mark
  <2>4. CASE Reconnect
    BY <1>1, <2>4 DEF Reconnect, Rewrite, IInv, TypeOK, Credential
  <2>5. CASE Delete
    BY <1>1, <2>5 DEF Delete, IInv, TypeOK, Credential
  <2> QED
    BY <1>1, <2>1, <2>2, <2>3, <2>4, <2>5, StatusSteps
<1>2. IInv /\ [Next]_vars =>
        [ binding = "reauth" /\ binding' # "reauth"
            => cred'.tuple # cred.tuple \/ ~cred'.present ]_vars
  BY <1>1
<1> QED
  BY <1>2, IInvHolds, PTL DEF Spec, RepairNeedsNewTokens

\* A refresh condemns a credential only for a cause that stands
\* (markTerminalRefreshFailure): the provider does not redeem the refresh token
\* that is stored now, or it refuses the app credential that is stored now,
\* whatever was stored since the flight took its snapshot, whichever app the
\* request went out under and whoever holds the lease.
THEOREM CondemnedForCause == Spec => NoFalseTerminal
<1>1. ASSUME IInv, [Next]_vars, binding # "reauth", binding' = "reauth",
             cred'.tuple = cred.tuple, HasRefreshToken(cred.tuple)
      PROVE  cred.tuple \notin valid \/ app \in Refused
  <2>1. ASSUME NEW p \in Proc, Ensure(p) PROVE FALSE
    BY <1>1, <2>1 DEF Ensure, EnsuredBinding
  <2>2. ASSUME NEW p \in Proc, Commit(p) PROVE FALSE
    <3>1. Commits(p)
      BY <1>1, <2>2 DEF Commit, Commits
    <3>2. cred.tuple \in Nat
      BY <1>1 DEF IInv, TypeOK, Credential
    <3> QED
      BY <1>1, <3>1, <3>2, CommitIsRotation
  <2>3. ASSUME NEW p \in Proc, Mark(p) PROVE cred.tuple \notin valid \/ app \in Refused
    <3>1. flight[p].pc = "mark" /\ flight[p].cipher = cred.cipher /\ flight[p].app = app
      BY <1>1, <2>3 DEF Mark, RejectionApplies
    <3>2. Sound(flight[p], cred, minted, valid)
      BY <1>1 DEF IInv, AllSound
    <3> QED
      BY <3>1, <3>2 DEF Sound, Snapshot, Knowledge, Progress
  <2>4. CASE Reconnect \/ Delete
    BY <1>1, <2>4 DEF Reconnect, Delete
  <2> QED
    BY <1>1, <2>1, <2>2, <2>3, <2>4, StatusSteps
<1>2. IInv /\ [Next]_vars =>
        [ binding # "reauth" /\ binding' = "reauth" /\ cred'.tuple = cred.tuple
            /\ HasRefreshToken(cred.tuple)
          => cred.tuple \notin valid \/ app \in Refused ]_vars
  BY <1>1
<1> QED
  BY <1>2, IInvHolds, PTL DEF Spec, NoFalseTerminal

-----------------------------------------------------------------------------
(* OAuthRefresh implements TokenRegister: every initial state is one of the *)
(* register's, and every step is a step of the register or changes nothing  *)
(* it can see.  A commit is a Rotate, a rejection a Reject, the end or the  *)
(* crash of a flight an End, and a lease that changes hands a ChangeOwner.  *)

\* The register's variables, as the refinement mapping of OAuthRefresh has them.
Status == IF cred.present THEN binding ELSE "deleted"

Owner == OwnerOf(lease)

Claim == [p \in Proc |-> IF flight[p].pc = "idle" THEN NoProc ELSE flight[p].tuple]

\* A step of the register, or none.
RegisterStep == [Register!Next]_(Register!vars)

\* What the register reads is typed, and a status other than deleted has a row.
LEMMA StatusIsStored ==
  ASSUME IInv
  PROVE  /\ binding # "deleted"
         /\ Status # "deleted" => cred.present
         /\ cred.tuple \in Nat /\ cred.present \in BOOLEAN
BY DEF IInv, TypeOK, Statuses, Credential, Status

\* A flight that is on its way and stays on its way keeps its claim.
SameClaim(f, g) == g.tuple = f.tuple /\ (g.pc = "idle" <=> f.pc = "idle")

\* A flight that keeps its claim leaves the register's claims alone.
LEMMA BecomeKeepsClaim ==
  ASSUME IInv, NEW p \in Proc, NEW f, Become(p, f), SameClaim(flight[p], f)
  PROVE  Claim' = Claim
<1>1. flight \in [Proc -> Flight]
  BY DEF IInv, TypeOK
<1>2. ASSUME NEW q \in Proc PROVE SameClaim(flight[q], flight'[q])
  BY <1>1 DEF Become, SameClaim
<1> QED
  BY <1>2 DEF Claim, SameClaim

\* Returning from the commit loop gives no claim up yet.
LEMMA ReturnKeepsClaim ==
  ASSUME IInv, NEW p \in Proc, NEW out, Return(p, out), flight[p].pc # "idle"
  PROVE  Claim' = Claim
<1> DEFINE g == [flight[p] EXCEPT !.pc = "settle", !.out = out]
<1>1. flight[p] \in Flight
  BY DEF IInv, TypeOK
<1>2. SameClaim(flight[p], g)
  BY <1>1 DEF Flight, SameClaim
<1>3. Become(p, g)
  BY DEF Return
<1> QED
  BY <1>2, <1>3, BecomeKeepsClaim

\* Nor does a second look at the credential.
LEMMA ObserveKeepsClaim ==
  ASSUME IInv, NEW p \in Proc, NEW then, Observe(p, then), flight[p].pc # "idle"
  PROVE  Claim' = Claim
<1> DEFINE g == [flight[p] EXCEPT !.pc = "observe", !.then = then]
<1>1. flight[p] \in Flight
  BY DEF IInv, TypeOK
<1>2. SameClaim(flight[p], g)
  BY <1>1 DEF Flight, SameClaim
<1>3. Become(p, g)
  BY DEF Observe
<1> QED
  BY <1>2, <1>3, BecomeKeepsClaim

\* Nor does going to another place.
LEMMA GoKeepsClaim ==
  ASSUME IInv, NEW p \in Proc, NEW pc, pc # "idle",
         Become(p, [flight[p] EXCEPT !.pc = pc]), flight[p].pc # "idle"
  PROVE  Claim' = Claim
<1> DEFINE g == [flight[p] EXCEPT !.pc = pc]
<1>1. flight[p] \in Flight
  BY DEF IInv, TypeOK
<1>2. SameClaim(flight[p], g)
  BY <1>1 DEF Flight, SameClaim
<1> QED
  BY <1>2, BecomeKeepsClaim

\* Nothing the register can see has changed, but perhaps the owner.
LEMMA OnlyOwner ==
  ASSUME IInv, UNCHANGED <<cred, binding>>, Claim' = Claim
  PROVE  RegisterStep
<1>1. Owner' \in Proc \cup {NoProc}
  BY DEF Owner, OwnerOf
<1> QED
  BY <1>1 DEF RegisterStep, Register!Next, Register!ChangeOwner, Owner, Claim

-----------------------------------------------------------------------------
(* The steps of a flight *)

\* A flight that starts claims the stored tuple.
LEMMA StartBegins ==
  ASSUME IInv, NEW p \in Proc, NEW force \in BOOLEAN, Start(p, force)
  PROVE  Register!Begin(p)
<1> DEFINE g == [Idle EXCEPT !.pc = "ensure", !.force = force,
                             !.cipher = cred.cipher, !.tuple = cred.tuple,
                             !.expect = cred.cipher]
<1>1. flight \in [Proc -> Flight]
  BY DEF IInv, TypeOK
<1>2. Become(p, g) /\ flight[p].pc = "idle" /\ UNCHANGED <<cred, binding, lease>>
      /\ cred.present
  BY DEF Start, stored
<1>3. g.pc = "ensure" /\ g.tuple = cred.tuple
  BY DEF Idle
<1> HIDE DEF g
<1>4. Claim' = [Claim EXCEPT ![p] = cred.tuple] /\ Claim[p] = NoProc
  BY <1>1, <1>2, <1>3 DEF Claim, Become
<1>5. Status # "deleted"
  BY <1>2, StatusIsStored DEF Status
<1> QED
  BY <1>2, <1>4, <1>5 DEF Register!Begin, Claim, Status

\* Deriving the binding sets the register's status, or nothing.
LEMMA EnsureDerives ==
  ASSUME IInv, NEW p \in Proc, Ensure(p)
  PROVE  RegisterStep
<1>1. Claim' = Claim
  <2>1. flight[p].pc # "idle"
    BY DEF Ensure
  <2> QED
    BY <2>1, ReturnKeepsClaim, GoKeepsClaim DEF Ensure
<1>2. UNCHANGED <<cred, lease>>
  BY DEF Ensure
<1>3. CASE UNCHANGED binding
  BY <1>1, <1>2, <1>3, OnlyOwner
<1>4. CASE binding' # binding
  <2>1. cred.present /\ binding' = EnsuredBinding
    BY <1>4 DEF Ensure
  <2>2. \/ binding = "none" /\ binding' \in {"active", "expired", "reauth"}
        \/ binding = "active" /\ binding' \in {"expired", "reauth"}
    BY <1>4, <2>1 DEF EnsuredBinding
  <2>3. Register!Derive
    BY <1>1, <1>2, <2>1, <2>2 DEF Register!Derive, Claim
  <2> QED
    BY <2>3 DEF RegisterStep, Register!Next
<1> QED
  BY <1>3, <1>4

\* Steps that touch neither the row nor the binding.
LEMMA QuietSteps ==
  ASSUME IInv, NEW p \in Proc,
         \/ Poll(p) \/ ObserveCredential(p) \/ ObserveBinding(p) \/ Acquire(p)
         \/ Wake(p) \/ Dispatch(p) \/ ProviderHandles(p) \/ Receive(p)
         \/ LoseReply(p) \/ Heartbeat(p) \/ RenewBeforeWrite(p) \/ Reread(p)
  PROVE  RegisterStep
<1>1. UNCHANGED <<cred, binding>>
  BY DEF Poll, ObserveCredential, ObserveBinding, Acquire, Wake, Dispatch,
     ProviderHandles, Receive, LoseReply, Heartbeat, RenewBeforeWrite, Reread, stored
<1>2. flight[p].pc # "idle"
  BY DEF Poll, ObserveCredential, ObserveBinding, Acquire, Wake, Dispatch,
     ProviderHandles, Receive, LoseReply, Heartbeat, RenewBeforeWrite, Reread
<1>3. flight[p] \in Flight
  BY DEF IInv, TypeOK
<1>4. ASSUME AfterObserve(p) PROVE Claim' = Claim
  BY <1>2, <1>4, ReturnKeepsClaim, GoKeepsClaim DEF AfterObserve
<1>5. CASE Poll(p) \/ ObserveCredential(p) \/ ObserveBinding(p) \/ Wake(p)
  <2>1. Claim' = Claim
    BY <1>2, <1>4, <1>5, ReturnKeepsClaim, ObserveKeepsClaim, GoKeepsClaim
    DEF Poll, ObserveCredential, ObserveBinding, Wake
  <2> QED
    BY <1>1, <2>1, OnlyOwner
<1>6. CASE \E f : Become(p, f) /\ SameClaim(flight[p], f)
  BY <1>1, <1>6, BecomeKeepsClaim, OnlyOwner
<1>7. CASE \E out : Return(p, out)
  BY <1>1, <1>2, <1>7, ReturnKeepsClaim, OnlyOwner
<1>8. CASE \E then : Observe(p, then)
  BY <1>1, <1>2, <1>8, ObserveKeepsClaim, OnlyOwner
<1>9. CASE Acquire(p)
  <2> DEFINE f == [flight[p] EXCEPT
                     !.seenAt = IF obs[p] = Unseen THEN flight[p].wait ELSE @]
             g == IF f.wait < WaitLimit
                    THEN [f EXCEPT !.pc = "sleep"]
                    ELSE [f EXCEPT !.pc = "observe", !.then = "lease-timeout"]
  <2>1. SameClaim(flight[p], g)
    BY <1>2, <1>3 DEF Flight, SameClaim
  <2>2. \/ Become(p, g) \/ Observe(p, "dispatch") \/ Return(p, "not-found")
    BY <1>9 DEF Acquire
  <2> HIDE DEF g
  <2> QED
    BY <1>6, <1>7, <1>8, <2>1, <2>2
<1>10. CASE Dispatch(p) \/ Receive(p) \/ LoseReply(p) \/ Heartbeat(p)
  <2> DEFINE g1 == [flight[p] EXCEPT !.pc = "remote", !.app = app, !.reply = "pending"]
             g2 == [flight[p] EXCEPT !.pc = "renew", !.due = FALSE]
             g3 == [flight[p] EXCEPT !.due = FALSE]
  <2>1. SameClaim(flight[p], g1) /\ SameClaim(flight[p], g2) /\ SameClaim(flight[p], g3)
    BY <1>2, <1>3 DEF Flight, SameClaim
  <2>2. Return(p, "skipped") \/ Return(p, "failed") \/ Become(p, g1) \/ Become(p, g2)
        \/ Become(p, g3)
    BY <1>10 DEF Dispatch, Receive, LoseReply, Heartbeat
  <2> HIDE DEF g1, g2, g3
  <2> QED
    BY <1>6, <1>7, <2>1, <2>2
<1>11. CASE ProviderHandles(p)
  <2>1. \/ \E reply : Become(p, [flight[p] EXCEPT !.reply = reply])
        \/ \E reply, n : Become(p, [flight[p] EXCEPT !.reply = reply, !.fresh = n])
    BY <1>11 DEF ProviderHandles
  <2>2. ASSUME NEW reply, NEW n
        PROVE  /\ SameClaim(flight[p], [flight[p] EXCEPT !.reply = reply])
               /\ SameClaim(flight[p], [flight[p] EXCEPT !.reply = reply, !.fresh = n])
    BY <1>2, <1>3 DEF Flight, SameClaim
  <2> QED
    BY <1>6, <2>1, <2>2
<1>12. CASE RenewBeforeWrite(p) \/ Reread(p)
  <2> DEFINE pc == IF Denied(flight[p].reply) THEN "mark" ELSE "commit"
             g1 == [flight[p] EXCEPT !.pc = pc]
             g2 == [flight[p] EXCEPT !.pc = "commit", !.expect = cred.cipher,
                                     !.tries = @ + 1]
  <2>1. SameClaim(flight[p], g1) /\ SameClaim(flight[p], g2)
    BY <1>2, <1>3 DEF Flight, SameClaim
  <2>2. \/ Become(p, g1) \/ Become(p, g2)
        \/ Observe(p, "lease-lost") \/ Observe(p, "conflict")
    BY <1>12 DEF RenewBeforeWrite, Reread
  <2> HIDE DEF g1, g2
  <2> QED
    BY <1>6, <1>8, <2>1, <2>2
<1> QED
  BY <1>5, <1>9, <1>10, <1>11, <1>12

\* The two writes of a flight happen under the lock, over the tuple it claimed.
LEMMA CommitRotates ==
  ASSUME IInv, NEW p \in Proc, Commit(p)
  PROVE  RegisterStep
<1>1. flight[p].pc = "commit" /\ UNCHANGED lease
  BY DEF Commit
<1>2. Claim' = Claim
  <2>1. CASE \/ \E out : Return(p, out)
             \/ \E then : Observe(p, then)
    BY <1>1, <2>1, ReturnKeepsClaim, ObserveKeepsClaim
  <2>2. CASE Become(p, [flight[p] EXCEPT !.pc = "reread"])
    BY <1>1, <2>2, GoKeepsClaim
  <2> QED
    BY <2>1, <2>2 DEF Commit
<1>3. CASE UNCHANGED <<cred, binding>>
  BY <1>2, <1>3, OnlyOwner
<1>4. CASE /\ Commits(p)
           /\ binding' = IF flight[p].reply = "reduced" THEN "reauth" ELSE "active"
  <2>1. /\ flight[p].tuple = cred.tuple /\ cred'.tuple \in Nat
        /\ cred.present /\ cred'.present /\ lease = p
    <3>1. Commits(p)
      BY <1>4
    <3>2. /\ flight[p].tuple = cred.tuple /\ flight[p].fresh \in Nat
          /\ cred' = [present |-> TRUE, cipher |-> cred.cipher + 1,
                      tuple |-> flight[p].fresh, elapsed |-> FALSE]
      BY <3>1, CommitIsRotation
    <3> QED
      BY <3>1, <3>2 DEF Commits
  <2>2. Claim[p] = cred.tuple /\ Owner = p
    BY <1>1, <2>1 DEF Claim, Owner, OwnerOf
  <2>3. Status # "deleted" /\ Status' \in {"active", "reauth"}
    BY <1>4, <2>1, StatusIsStored DEF Status
  <2>4. Register!Rotate(p)
    BY <1>1, <1>2, <2>1, <2>2, <2>3 DEF Register!Rotate, Claim, Owner, Status
  <2> QED
    BY <2>4 DEF RegisterStep, Register!Next
<1> QED
  BY <1>3, <1>4 DEF Commit, Commits

\* Marking happens under the lock, for the tuple that was claimed.
LEMMA MarkRejects ==
  ASSUME IInv, NEW p \in Proc, Mark(p)
  PROVE  RegisterStep
<1>1. flight[p].pc = "mark" /\ UNCHANGED <<cred, lease>>
  BY DEF Mark
<1>2. Claim' = Claim
  BY <1>1, ReturnKeepsClaim, ObserveKeepsClaim DEF Mark
<1>3. CASE UNCHANGED binding
  BY <1>1, <1>2, <1>3, OnlyOwner
<1>4. CASE lease = p /\ RejectionApplies(p) /\ binding' = "reauth"
  <2>1. flight[p].tuple = cred.tuple /\ cred.present
    BY <1>4 DEF RejectionApplies, IInv, AllSound, Sound, Snapshot
  <2>2. Claim[p] = cred.tuple /\ Owner = p
    BY <1>1, <1>4, <2>1 DEF Claim, Owner, OwnerOf
  <2>3. Status # "deleted" /\ Status' = "reauth"
    BY <1>1, <1>4, <2>1, StatusIsStored DEF Status
  <2>4. Register!Reject(p)
    BY <1>1, <1>2, <2>1, <2>2, <2>3 DEF Register!Reject, Claim, Owner, Status
  <2> QED
    BY <2>4 DEF RegisterStep, Register!Next
<1> QED
  BY <1>3, <1>4 DEF Mark

\* A flight that ends gives up its claim, and the lock if it held it.
LEMMA ForgetEnds ==
  ASSUME IInv, NEW p \in Proc, Become(p, Idle), UNCHANGED <<cred, binding>>,
         Owner' \in {Owner, NoProc}
  PROVE  RegisterStep
<1>1. flight \in [Proc -> Flight] /\ Idle.pc = "idle"
  BY DEF IInv, TypeOK, Idle
<1>2. Claim' = [Claim EXCEPT ![p] = NoProc]
  BY <1>1 DEF Claim, Become
<1>3. CASE flight[p].pc = "idle"
  <2>1. Claim' = Claim
    BY <1>2, <1>3 DEF Claim
  <2> QED
    BY <2>1, OnlyOwner
<1>4. CASE flight[p].pc # "idle"
  <2>1. flight[p].tuple \in Nat
    BY <1>1 DEF Flight
  <2>2. Claim[p] # NoProc
    BY <1>4, <2>1, ProcAssumption DEF Claim
  <2>3. Register!End(p)
    BY <1>2, <2>2 DEF Register!End, Claim, Owner
  <2> QED
    BY <2>3 DEF RegisterStep, Register!Next
<1> QED
  BY <1>3, <1>4

\* A flight that ends or dies gives up its claim, and perhaps the lock.
LEMMA SettleEnds ==
  ASSUME IInv, NEW p \in Proc, Settle(p) \/ Crash(p)
  PROVE  RegisterStep
<1>1. lease' \in {lease, NoProc, Orphan}
  BY DEF Settle, Release, Crash, SetLease
<1>2. Owner' \in {Owner, NoProc}
  BY <1>1, ProcAssumption DEF Owner, OwnerOf
<1>3. Become(p, Idle) /\ UNCHANGED <<cred, binding>>
  BY DEF Settle, Crash
<1> QED
  BY <1>2, <1>3, ForgetEnds

-----------------------------------------------------------------------------
(* The steps of everything else *)

\* A reconnection replaces the tuple, whoever claims the old one.
LEMMA ReconnectReplaces ==
  ASSUME IInv, Reconnect
  PROVE  RegisterStep
<1>1. cred \in Credential /\ minted \in Nat
  BY DEF IInv, TypeOK
<1>2. cred.present /\ cred'.present /\ cred'.tuple \in Nat
  BY <1>1 DEF Reconnect, Rewrite, Credential
<1>3. UNCHANGED <<lease, flight>> /\ binding' \in {binding, "active"}
  BY DEF Reconnect
<1>4. Status # "deleted" /\ Status' \in {Status, "active"}
  BY <1>2, <1>3, StatusIsStored DEF Status
<1>5. Register!Replace
  BY <1>2, <1>3, <1>4 DEF Register!Replace, Status
<1> QED
  BY <1>5 DEF RegisterStep, Register!Next

\* A deletion ends the register.
LEMMA DeleteDeletes ==
  ASSUME IInv, Delete
  PROVE  RegisterStep
<1>1. cred \in Credential
  BY DEF IInv, TypeOK
<1>2. cred.present /\ ~cred'.present /\ cred'.tuple = cred.tuple
  BY <1>1 DEF Delete, Credential
<1>3. UNCHANGED flight /\ Owner' = NoProc
  BY ProcAssumption DEF Delete, SetLease, Owner, OwnerOf
<1>4. Status # "deleted" /\ Status' = "deleted"
  BY <1>2, StatusIsStored DEF Status
<1>5. Register!Delete
  BY <1>2, <1>3, <1>4 DEF Register!Delete, Status, Owner
<1> QED
  BY <1>5 DEF RegisterStep, Register!Next

\* The steps the register does not see.
LEMMA UnseenSteps ==
  ASSUME IInv, EditOther \/ EditApp \/ Elapse \/ Revoke \/ Tick
  PROVE  RegisterStep
<1>1. cred \in Credential /\ flight \in [Proc -> Flight]
  BY DEF IInv, TypeOK
<1>2. cred'.tuple = cred.tuple /\ cred'.present = cred.present
  BY <1>1 DEF EditOther, EditApp, Elapse, Revoke, Tick, Rewrite, Credential, stored
<1>3. UNCHANGED <<binding, lease>>
  BY DEF EditOther, EditApp, Elapse, Revoke, Tick, stored
<1>4. Claim' = Claim
  <2>1. ASSUME NEW q \in Proc PROVE SameClaim(flight[q], AfterTick(flight[q]))
    <3>1. flight[q] \in Flight
      BY <1>1
    <3> QED
      BY <3>1 DEF AfterTick, SameClaim, Waiting, Observing, Flight
  <2>2. CASE Tick
    BY <2>1, <2>2 DEF Tick, Claim, SameClaim
  <2>3. CASE UNCHANGED flight
    BY <2>3 DEF Claim
  <2> QED
    BY <2>2, <2>3 DEF EditOther, EditApp, Elapse, Revoke
<1> QED
  BY <1>2, <1>3, <1>4 DEF RegisterStep, Register!vars, Claim

-----------------------------------------------------------------------------

\* The refinement at the start.
LEMMA InitImplements == Init => Register!Init
<1> SUFFICES ASSUME Init PROVE Register!Init
  OBVIOUS
<1>1. cred.present /\ cred.tuple \in Nat /\ binding \in {"none", "active"}
  BY DEF Init
<1>2. Owner = NoProc
  BY DEF Init, Owner, OwnerOf
<1>3. Claim = [p \in Proc |-> NoProc]
  BY DEF Init, Claim, Idle
<1> QED
  BY <1>1, <1>2, <1>3 DEF Register!Init, Register!Status, Owner, Claim

\* Every step maps to one of the register, or to none.
LEMMA NextImplements == IInv /\ [Next]_vars => RegisterStep
<1> SUFFICES ASSUME IInv, [Next]_vars PROVE RegisterStep
  OBVIOUS
<1>1. ASSUME NEW p \in Proc, Step(p) PROVE RegisterStep
  BY <1>1, EnsureDerives, QuietSteps, CommitRotates, MarkRejects, SettleEnds DEF Step
<1>2. ASSUME NEW p \in Proc, NEW force \in BOOLEAN, Start(p, force)
      PROVE  RegisterStep
  BY <1>2, StartBegins DEF RegisterStep, Register!Next
<1>3. ASSUME NEW p \in Proc, ProviderHandles(p) \/ LoseReply(p) \/ Crash(p)
      PROVE  RegisterStep
  BY <1>3, QuietSteps, SettleEnds
<1>4. CASE Reconnect
  BY <1>4, ReconnectReplaces
<1>5. CASE Delete
  BY <1>5, DeleteDeletes
<1>6. CASE EditOther \/ EditApp \/ Elapse \/ Revoke \/ Tick
  BY <1>6, UnseenSteps
<1>7. CASE UNCHANGED vars
  BY <1>7 DEF vars, RegisterStep, Register!vars
<1> QED
  BY <1>1, <1>2, <1>3, <1>4, <1>5, <1>6, <1>7 DEF Next

\* The refresh implements the register under a lock, whatever its processes
\* suffer: tokens leave the store by a refresh only if they are the ones it
\* redeemed and its writer has the lease row (the commit's transaction).
THEOREM RefreshImplementsRegister == Spec => ImplementsRegister
<1>1. IInv /\ [Next]_vars => [Register!Next]_(Register!vars)
  BY NextImplements DEF RegisterStep
<1> QED
  BY <1>1, InitImplements, IInvHolds, PTL DEF Spec, ImplementsRegister, Register!Spec

-----------------------------------------------------------------------------
(* The lease ends with its holder *)

\* How old a version of the lease row may have been seen to be: new while nobody
\* has waited since it was written, a Tick old until the heartbeat has renewed it.
Age(f) ==
  IF \/ f.pc = "dispatch"
     \/ Observing(f) /\ f.then = "dispatch"
     \/ f.pc = "remote" /\ ~f.due
    THEN 0 ELSE 1

Holds(p, f) ==
  Working(f) /\ cred.present =>
    lease = p /\ \A q \in Proc : obs[q] = Unseen \/ obs[q] <= Age(f)

\* A flight that has not come to the lease yet.
Queued(f) ==
  \/ f.pc \in {"ensure", "poll", "acquire", "sleep"}
  \/ Observing(f) /\ f.then = "acquire"

TimedOut(f) ==
  \/ f.out = "lease-timeout"
  \/ Observing(f) /\ f.then = "lease-timeout"

\* How long a flight has waited, with its observation of the row's version being o
\* old: not longer than one TTL since it last met a new version.
Patient(f, o) ==
  /\ Queued(f) => f.wait <= f.seenAt + TTL /\ (o # Unseen => f.wait <= f.seenAt + o)
  /\ f.pc = "sleep" => f.wait < f.seenAt + TTL
  /\ TimedOut(f) => f.seenAt + TTL >= WaitLimit
  /\ f.out = "lease-timeout" => f.pc = "settle"

LeaseInv ==
  Timely => \A p \in Proc : Holds(p, flight[p]) /\ Patient(flight[p], obs[p])

\* A step of p's flight keeps the others' leases if it does not touch the lease row
\* of one that works, and sees no version for longer than before.
LEMMA FlightKeepsLease ==
  ASSUME IInv, LeaseInv, Timely, NEW p \in Proc, NEW f, Become(p, f),
         cred'.present => cred.present,
         \A q \in Proc \ {p} : obs'[q] \in {obs[q], Unseen},
         obs'[p] \in {obs[p], 0, Unseen},
         \A q \in Proc \ {p} : Working(flight[q]) /\ cred.present => lease' = lease,
         Working(f) /\ cred'.present =>
           lease' = p /\ \A q \in Proc : obs'[q] = Unseen \/ obs'[q] <= Age(f),
         Patient(f, obs'[p])
  PROVE  LeaseInv'
<1>1. flight'[p] = f /\ \A q \in Proc \ {p} : flight'[q] = flight[q]
  BY DEF IInv, TypeOK, Become
<1>2. ASSUME NEW q \in Proc \ {p}, Working(flight[q]), cred'.present
      PROVE  lease' = q /\ \A r \in Proc : obs'[r] = Unseen \/ obs'[r] <= Age(flight[q])
  <2>1. lease = q /\ \A r \in Proc : obs[r] = Unseen \/ obs[r] <= Age(flight[q])
    BY <1>2 DEF LeaseInv, Holds
  <2>2. 0 <= Age(flight[q])
    BY DEF Age
  <2> QED
    BY <1>2, <2>1, <2>2
<1>3. ASSUME NEW q \in Proc \ {p} PROVE Patient(flight[q], obs'[q])
  BY DEF LeaseInv, Patient
<1>4. ASSUME NEW q \in Proc PROVE Holds(q, flight[q])' /\ Patient(flight[q], obs[q])'
  <2>1. CASE q = p
    BY <1>1, <2>1 DEF Holds
  <2>2. CASE q # p
    <3>1. Holds(q, flight[q])'
      BY <1>1, <1>2, <2>2 DEF Holds
    <3>2. Patient(flight[q], obs[q])'
      BY <1>1, <1>3, <2>2
    <3> QED
      BY <3>1, <3>2
  <2> QED
    BY <2>1, <2>2
<1> QED
  BY <1>4 DEF LeaseInv

\* While p holds the lease, or may take it, no other flight works under it.
LEMMA NobodyElse ==
  ASSUME IInv, LeaseInv, Timely, TTL > 1, NEW p \in Proc, lease = p \/ ~Contended(p),
         NEW q \in Proc \ {p}, Working(flight[q]), cred.present
  PROVE  FALSE
<1>1. lease = q /\ (obs[p] = Unseen \/ obs[p] <= 1)
  <2>1. Age(flight[q]) \in {0, 1}
    BY DEF Age
  <2>2. lease = q /\ (obs[p] = Unseen \/ obs[p] <= Age(flight[q]))
    BY DEF LeaseInv, Holds
  <2>3. obs[p] \in Nat
    BY TimeAssumption DEF IInv, TypeOK, Unseen
  <2> QED
    BY <2>1, <2>2, <2>3
<1>2. obs[p] \in Nat /\ TTL \in Nat /\ lease # NoProc
  BY <1>1, TimeAssumption, ProcAssumption DEF IInv, TypeOK, Unseen
<1> QED
  BY <1>1, <1>2 DEF Contended

\* A step that leaves the lease row alone.
LEMMA QuietKeepsLease ==
  ASSUME IInv, LeaseInv, Timely, NEW p \in Proc, NEW f, Become(p, f),
         UNCHANGED <<lease, obs>>, cred'.present => cred.present,
         Working(f) /\ cred.present => Working(flight[p]) /\ Age(flight[p]) <= Age(f),
         Patient(f, obs[p])
  PROVE  LeaseInv'
<1>1. Working(f) /\ cred'.present =>
        lease' = p /\ \A q \in Proc : obs'[q] = Unseen \/ obs'[q] <= Age(f)
  <2> SUFFICES ASSUME Working(f), cred.present, NEW q \in Proc
               PROVE  lease = p /\ (obs[q] = Unseen \/ obs[q] <= Age(f))
    OBVIOUS
  <2>1. lease = p /\ (obs[q] = Unseen \/ obs[q] <= Age(flight[p]))
    BY DEF LeaseInv, Holds
  <2>2. obs[q] \in Nat /\ Age(f) \in Nat /\ Age(flight[p]) \in Nat
    BY TimeAssumption DEF IInv, TypeOK, Unseen, Age
  <2> QED
    BY <2>1, <2>2
<1> QED
  BY <1>1, FlightKeepsLease

\* Returning gives the lease up.
LEMMA ReturnKeepsLease ==
  ASSUME IInv, LeaseInv, Timely, NEW p \in Proc, NEW out, Return(p, out),
         out = "lease-timeout" => flight[p].seenAt + TTL >= WaitLimit,
         UNCHANGED <<lease, obs>>, cred'.present => cred.present
  PROVE  LeaseInv'
<1> DEFINE g == [flight[p] EXCEPT !.pc = "settle", !.out = out]
<1>1. flight[p] \in Flight
  BY DEF IInv, TypeOK
<1>2. g.pc = "settle" /\ g.out = out /\ g.seenAt = flight[p].seenAt
  BY <1>1 DEF Flight
<1>3. Become(p, g)
  BY DEF Return
<1> HIDE DEF g
<1>4. ~Working(g) /\ Patient(g, obs[p])
  BY <1>2 DEF Working, Observing, Patient, Queued, TimedOut
<1> QED
  BY <1>3, <1>4, QuietKeepsLease

\* A flight that works and looks again goes on working.
LEMMA ObserveKeepsLease ==
  ASSUME IInv, LeaseInv, Timely, NEW p \in Proc,
         NEW then \in {"lease-lost", "conflict", "superseded"}, Observe(p, then),
         Working(flight[p]) \/ ~cred.present, flight[p].pc # "settle",
         UNCHANGED <<lease, obs>>, cred'.present => cred.present
  PROVE  LeaseInv'
<1> DEFINE g == [flight[p] EXCEPT !.pc = "observe", !.then = then]
<1>1. flight[p] \in Flight
  BY DEF IInv, TypeOK
<1>2. g.pc = "observe" /\ g.then = then /\ g.out = flight[p].out /\ g.seenAt = flight[p].seenAt
  BY <1>1 DEF Flight
<1>3. Become(p, g)
  BY DEF Observe
<1> HIDE DEF g
<1>4. Patient(g, obs[p])
  BY <1>2 DEF LeaseInv, Patient, Observing, Queued, TimedOut
<1>5. Age(g) = 1 /\ Age(flight[p]) <= 1
  BY <1>2 DEF Age, Observing
<1> QED
  BY <1>3, <1>4, <1>5, QuietKeepsLease

-----------------------------------------------------------------------------

\* A flight begins.
LEMMA StartLease ==
  ASSUME IInv, LeaseInv, Timely, NEW p \in Proc, NEW force, Start(p, force)
  PROVE  LeaseInv'
<1> DEFINE f == [Idle EXCEPT !.pc = "ensure", !.force = force, !.cipher = cred.cipher,
                             !.tuple = cred.tuple, !.expect = cred.cipher]
<1>1. f.pc = "ensure" /\ f.wait = 0 /\ f.seenAt = 0 /\ f.out = "none"
  BY DEF Idle
<1>2. Become(p, f) /\ UNCHANGED <<cred, lease, obs>>
  BY DEF Start, stored
<1> HIDE DEF f
<1>3. obs[p] \in Nat /\ TTL \in Nat
  BY TimeAssumption DEF IInv, TypeOK, Unseen
<1>4. ~Working(f) /\ Patient(f, obs[p])
  BY <1>1, <1>3 DEF Working, Observing, Patient, Queued, TimedOut
<1> QED
  BY <1>2, <1>4, QuietKeepsLease

\* The steps on the way to the lease that do not touch it.
LEMMA WayLease ==
  ASSUME IInv, LeaseInv, Timely, NEW p \in Proc, Ensure(p) \/ Poll(p) \/ Wake(p)
  PROVE  LeaseInv'
<1> DEFINE f == flight[p]
<1>1. f \in Flight /\ Patient(f, obs[p]) /\ TTL \in Nat /\ WaitLimit \in Nat /\ obs[p] \in Nat
  BY TimeAssumption DEF IInv, TypeOK, LeaseInv, Unseen
<1>8. f.wait \in Nat /\ f.seenAt \in Nat
  BY <1>1 DEF Flight
<1>2. UNCHANGED <<cred, lease, obs>>
  BY DEF Ensure, Poll, Wake, stored
<1>3. ASSUME NEW out \in {"error", "terminal", "skipped"}, Return(p, out) PROVE LeaseInv'
  BY <1>2, <1>3, ReturnKeepsLease
<1>4. ASSUME f.pc \in {"ensure", "sleep"}, Become(p, [f EXCEPT !.pc = "poll"])
      PROVE  LeaseInv'
  <2> DEFINE g == [f EXCEPT !.pc = "poll"]
  <2>1. g.pc = "poll" /\ g.wait = f.wait /\ g.seenAt = f.seenAt /\ g.out = f.out
    BY <1>1 DEF Flight
  <2>2. Become(p, g)
    BY <1>4
  <2> HIDE DEF f, g
  <2>3. ~Working(g) /\ Patient(g, obs[p])
    BY <1>1, <1>4, <1>8, <2>1 DEF Working, Observing, Patient, Queued, TimedOut
  <2> QED
    BY <1>2, <2>2, <2>3, QuietKeepsLease
<1>5. CASE Poll(p)
  <2> DEFINE then == IF f.wait < WaitLimit THEN "acquire" ELSE "lease-timeout"
             g == [f EXCEPT !.pc = "observe", !.then = then]
  <2>1. /\ g.pc = "observe" /\ g.then = then /\ g.wait = f.wait /\ g.seenAt = f.seenAt
        /\ g.out = f.out
    BY <1>1 DEF Flight
  <2>2. Become(p, g) /\ f.pc = "poll"
    BY <1>5 DEF Poll, Observe
  <2>3. f.wait < WaitLimit \/ f.wait >= WaitLimit
    BY <1>1, <1>8
  <2> HIDE DEF f, g
  <2>4. ~Working(g)
    BY <2>1 DEF Working, Observing
  <2>5. /\ f.wait <= f.seenAt + TTL
        /\ obs[p] # Unseen => f.wait <= f.seenAt + obs[p]
        /\ f.out # "lease-timeout"
    BY <1>1, <2>2 DEF Patient, Queued, TimedOut
  <2>6. Patient(g, obs[p])
    BY <1>1, <1>8, <2>1, <2>5 DEF Observing, Patient, Queued, TimedOut
  <2> QED
    BY <1>2, <2>2, <2>4, <2>6, QuietKeepsLease
<1>6. CASE Ensure(p)
  BY <1>3, <1>4, <1>6 DEF Ensure
<1>7. CASE Wake(p)
  BY <1>4, <1>7 DEF Wake
<1> QED
  BY <1>5, <1>6, <1>7

\* What a flight does after it has looked at the credential.
LEMMA ObserveStepsLease ==
  ASSUME IInv, LeaseInv, Timely, NEW p \in Proc, ObserveCredential(p) \/ ObserveBinding(p)
  PROVE  LeaseInv'
<1> DEFINE f == flight[p]
<1>1. f \in Flight /\ Patient(f, obs[p]) /\ Observing(f)
  BY DEF IInv, TypeOK, LeaseInv, Observing, ObserveCredential, ObserveBinding
<1>2. UNCHANGED <<cred, lease, obs>>
  BY DEF ObserveCredential, ObserveBinding, stored
<1>3. ASSUME NEW out \in {"not-found", "refreshed"}, Return(p, out) PROVE LeaseInv'
  BY <1>2, <1>3, ReturnKeepsLease
<1>4. ASSUME NEW pc \in {"acquire", "dispatch", "observeBinding"},
             pc \in {"acquire", "dispatch"} => pc = f.then,
             Become(p, [f EXCEPT !.pc = pc])
      PROVE  LeaseInv'
  <2> DEFINE g == [f EXCEPT !.pc = pc]
  <2>1. /\ g.pc = pc /\ g.then = f.then /\ g.wait = f.wait /\ g.seenAt = f.seenAt
        /\ g.out = f.out /\ f.then \in Continuations
    BY <1>1 DEF Flight
  <2>2. Become(p, g)
    BY <1>4
  <2> HIDE DEF g
  <2>3. Patient(g, obs[p])
    BY <1>1, <1>4, <2>1 DEF Observing, Patient, Queued, TimedOut
  <2>4. Working(g) => Working(f) /\ Age(f) = Age(g)
    BY <1>1, <1>4, <2>1 DEF Working, Observing, Age, Continuations
  <2>5. Age(f) \in {0, 1}
    BY DEF Age
  <2> QED
    BY <1>2, <2>2, <2>3, <2>4, <2>5, QuietKeepsLease
<1>5. ASSUME AfterObserve(p) PROVE LeaseInv'
  <2>1. CASE f.then \in {"acquire", "dispatch"}
    <3>1. Become(p, [f EXCEPT !.pc = f.then])
      BY <1>5, <2>1 DEF AfterObserve
    <3> QED
      BY <1>4, <2>1, <3>1
  <2>2. CASE f.then \notin {"acquire", "dispatch"}
    <3>1. Return(p, f.then)
      BY <1>5, <2>2 DEF AfterObserve
    <3>2. f.then = "lease-timeout" => f.seenAt + TTL >= WaitLimit
      BY <1>1 DEF Patient, TimedOut
    <3> QED
      BY <1>2, <3>1, <3>2, ReturnKeepsLease
  <2> QED
    BY <2>1, <2>2
<1> QED
  BY <1>3, <1>4, <1>5 DEF ObserveCredential, ObserveBinding

\* A contender takes the lease, or waits and watches its version.
LEMMA AcquireLease ==
  ASSUME IInv, LeaseInv, Timely, TTL > 1, NEW p \in Proc, Acquire(p)
  PROVE  LeaseInv'
<1> DEFINE f == flight[p]
<1>1. /\ f \in Flight /\ Patient(f, obs[p]) /\ Queued(f) /\ f.pc = "acquire"
      /\ TTL \in Nat \ {0} /\ WaitLimit \in Nat /\ obs \in [Proc -> Nat] /\ obs[p] \in Nat
      /\ cred' = cred
  BY TimeAssumption DEF IInv, TypeOK, LeaseInv, Unseen, Acquire, Queued
<1>2. f.wait \in Nat /\ f.seenAt \in Nat
  BY <1>1 DEF Flight
<1>3. CASE Contended(p) /\ lease' = lease
  <2> DEFINE seen == IF obs[p] = Unseen THEN f.wait ELSE f.seenAt
             h == [f EXCEPT !.seenAt = IF obs[p] = Unseen THEN f.wait ELSE @]
             g == IF h.wait < WaitLimit THEN [h EXCEPT !.pc = "sleep"]
                    ELSE [h EXCEPT !.pc = "observe", !.then = "lease-timeout"]
             o == IF obs[p] = Unseen THEN 0 ELSE obs[p]
  <2>1. lease # NoProc /\ (obs[p] = Unseen \/ obs[p] < TTL)
    BY <1>3 DEF Contended
  <2>2. Become(p, g) /\ obs' = [obs EXCEPT ![p] = IF @ = Unseen THEN 0 ELSE @]
    <3>1. ~(~Contended(p))
      BY <1>3
    <3> QED
      BY <3>1 DEF Acquire
  <2>3. obs'[p] = o /\ \A q \in Proc \ {p} : obs'[q] = obs[q]
    BY <1>1, <2>2
  <2>4. /\ g.wait = f.wait /\ g.seenAt = seen /\ g.out = f.out
        /\ IF f.wait < WaitLimit THEN g.pc = "sleep"
                                 ELSE g.pc = "observe" /\ g.then = "lease-timeout"
    BY <1>1 DEF Flight
  <2>5. /\ f.wait <= f.seenAt + TTL /\ (obs[p] # Unseen => f.wait <= f.seenAt + obs[p])
    BY <1>1 DEF Patient
  <2>6. f.out # "lease-timeout"
    BY <1>1 DEF Patient
  <2>7. /\ o \in Nat /\ seen \in Nat /\ f.wait <= seen + o /\ f.wait < seen + TTL
        /\ (f.wait >= WaitLimit => seen + TTL >= WaitLimit)
    BY <1>1, <1>2, <2>1, <2>5
  <2>8. f.wait < WaitLimit \/ f.wait >= WaitLimit
    BY <1>1, <1>2
  <2> HIDE DEF f, g, o, seen
  <2>9. ~Working(g)
    BY <2>4 DEF Working, Observing
  <2>10. f.wait <= seen + TTL
    BY <1>1, <1>2, <2>7
  <2>11. Patient(g, o)
    BY <2>4, <2>6, <2>7, <2>8, <2>10 DEF Patient, Queued, TimedOut, Observing
  <2>12. obs'[p] \in {obs[p], 0, Unseen}
    BY <2>3 DEF o
  <2> QED
    BY <1>1, <1>3, <2>2, <2>3, <2>9, <2>11, <2>12, FlightKeepsLease
<1>4. ASSUME NEW g, Become(p, g), NEW l, SetLease(l), ~Contended(p),
             Working(g) => l = p, g.out = f.out \/ g.out = "not-found", ~Queued(g),
             g.pc # "sleep", Observing(g) => g.then # "lease-timeout",
             g.seenAt = f.seenAt
      PROVE  LeaseInv'
  <2>1. lease' = l /\ \A q \in Proc : obs'[q] = Unseen
    BY <1>4 DEF SetLease
  <2>2. Patient(g, obs'[p])
    BY <1>1, <1>4 DEF Patient, TimedOut
  <2> QED
    BY <1>1, <1>4, <2>1, <2>2, NobodyElse, FlightKeepsLease
<1>5. CASE ~Contended(p) /\ SetLease(p) /\ Observe(p, "dispatch")
  <2> DEFINE g == [f EXCEPT !.pc = "observe", !.then = "dispatch"]
  <2>1. g.pc = "observe" /\ g.then = "dispatch" /\ g.out = f.out /\ g.seenAt = f.seenAt
    BY <1>1 DEF Flight
  <2>2. Become(p, g)
    BY <1>5 DEF Observe
  <2> HIDE DEF g
  <2> QED
    BY <1>4, <1>5, <2>1, <2>2 DEF Queued, Observing
<1>6. CASE ~Contended(p) /\ SetLease(NoProc) /\ Return(p, "not-found")
  <2> DEFINE g == [f EXCEPT !.pc = "settle", !.out = "not-found"]
  <2>1. g.pc = "settle" /\ g.out = "not-found" /\ g.seenAt = f.seenAt
    BY <1>1 DEF Flight
  <2>2. Become(p, g)
    BY <1>6 DEF Return
  <2> HIDE DEF g
  <2> QED
    BY <1>4, <1>6, <2>1, <2>2 DEF Queued, Observing, Working
<1> QED
  BY <1>3, <1>5, <1>6 DEF Acquire

\* The request and its reply.
LEMMA RemoteLease ==
  ASSUME IInv, LeaseInv, Timely, NEW p \in Proc,
         Dispatch(p) \/ ProviderHandles(p) \/ Receive(p) \/ LoseReply(p)
  PROVE  LeaseInv'
<1> DEFINE f == flight[p]
<1>1. f \in Flight /\ Patient(f, obs[p]) /\ f.pc \in {"dispatch", "remote"}
  BY DEF IInv, TypeOK, LeaseInv, Dispatch, ProviderHandles, Receive, LoseReply
<1>2. UNCHANGED <<cred, lease, obs>>
  BY DEF Dispatch, ProviderHandles, Receive, LoseReply, stored
<1>3. ASSUME NEW out \in {"skipped", "failed"}, Return(p, out) PROVE LeaseInv'
  BY <1>2, <1>3, ReturnKeepsLease
<1>4. ASSUME NEW g, Become(p, g), g.out = f.out, g.seenAt = f.seenAt,
             g.pc \in {"remote", "renew"}, g.pc = "remote" /\ f.pc = "remote" => g.due = f.due
      PROVE  LeaseInv'
  <2> HIDE DEF f
  <2>1. Patient(g, obs[p])
    BY <1>1, <1>4 DEF Patient, Queued, TimedOut, Observing
  <2>2. Working(g) /\ Working(f) /\ Age(f) <= Age(g)
    BY <1>1, <1>4 DEF Working, Observing, Age
  <2> USE DEF f
  <2> QED
    BY <1>2, <1>4, <2>1, <2>2, QuietKeepsLease
<1>5. CASE Dispatch(p)
  <2> DEFINE g == [f EXCEPT !.pc = "remote", !.app = app, !.reply = "pending"]
  <2>1. g.out = f.out /\ g.seenAt = f.seenAt /\ g.pc = "remote" /\ f.pc = "dispatch"
    BY <1>1, <1>5 DEF Flight, Dispatch
  <2>2. Return(p, "skipped") \/ Become(p, g)
    BY <1>5 DEF Dispatch
  <2> HIDE DEF g
  <2> QED
    BY <1>3, <1>4, <2>1, <2>2
<1>6. CASE ProviderHandles(p)
  <2>1. PICK reply, fresh :
          \/ Become(p, [f EXCEPT !.reply = reply, !.fresh = fresh])
          \/ Become(p, [f EXCEPT !.reply = reply])
    BY <1>6 DEF ProviderHandles
  <2> DEFINE g == [f EXCEPT !.reply = reply, !.fresh = fresh]
             h == [f EXCEPT !.reply = reply]
  <2>2. /\ g.out = f.out /\ g.seenAt = f.seenAt /\ g.pc = f.pc /\ g.due = f.due
        /\ h.out = f.out /\ h.seenAt = f.seenAt /\ h.pc = f.pc /\ h.due = f.due
    BY <1>1 DEF Flight
  <2>3. f.pc = "remote"
    BY <1>6 DEF ProviderHandles
  <2>4. Become(p, g) \/ Become(p, h)
    BY <2>1
  <2> HIDE DEF g, h, f
  <2> QED
    BY <1>4, <2>2, <2>3, <2>4
<1>7. CASE Receive(p)
  <2> DEFINE g == [f EXCEPT !.pc = "renew", !.due = FALSE]
  <2>1. g.out = f.out /\ g.seenAt = f.seenAt /\ g.pc = "renew"
    BY <1>1 DEF Flight
  <2>2. Return(p, "failed") \/ Become(p, g)
    BY <1>7 DEF Receive
  <2> HIDE DEF g
  <2> QED
    BY <1>3, <1>4, <2>1, <2>2
<1>8. CASE LoseReply(p)
  BY <1>3, <1>8 DEF LoseReply
<1> QED
  BY <1>5, <1>6, <1>7, <1>8

\* The lease is renewed by its holder, and nobody has seen its new version.
LEMMA RenewLease ==
  ASSUME IInv, LeaseInv, Timely, TTL > 1, NEW p \in Proc, Heartbeat(p) \/ RenewBeforeWrite(p)
  PROVE  LeaseInv'
<1> DEFINE f == flight[p]
<1>1. f \in Flight /\ Patient(f, obs[p]) /\ f.pc \in {"remote", "renew"} /\ cred' = cred
  BY DEF IInv, TypeOK, LeaseInv, Heartbeat, RenewBeforeWrite
<1>2. Working(f)
  BY <1>1 DEF Working
<1>3. ASSUME NEW g, Become(p, g), Renew(p), g.out = f.out, g.seenAt = f.seenAt,
             g.pc \in {"remote", "mark", "commit"}
      PROVE  LeaseInv'
  <2>1. lease = p /\ lease' = p /\ \A q \in Proc : obs'[q] = Unseen
    BY <1>3 DEF Renew, SetLease
  <2>2. Patient(g, obs'[p])
    BY <1>1, <1>3 DEF Patient, Queued, TimedOut, Observing
  <2> QED
    BY <1>1, <1>3, <2>1, <2>2, NobodyElse, FlightKeepsLease
<1>4. ASSUME RenewFails(p) PROVE ~cred.present /\ UNCHANGED <<lease, obs>>
  BY <1>2, <1>4 DEF RenewFails, LeaseInv, Holds
<1>5. CASE Heartbeat(p)
  <2> DEFINE g == [f EXCEPT !.due = FALSE]
  <2>1. g.out = f.out /\ g.seenAt = f.seenAt /\ g.pc = f.pc
    BY <1>1 DEF Flight
  <2>2. Become(p, g) /\ (Renew(p) \/ RenewFails(p)) /\ f.pc = "remote"
    BY <1>5 DEF Heartbeat
  <2> HIDE DEF g, f
  <2>3. Patient(g, obs[p])
    BY <1>1, <2>1, <2>2 DEF Patient, Queued, TimedOut, Observing
  <2> USE DEF f
  <2>4. CASE RenewFails(p)
    BY <1>1, <1>4, <2>2, <2>3, <2>4, QuietKeepsLease
  <2>5. CASE Renew(p)
    BY <1>1, <1>3, <2>1, <2>2, <2>5
  <2> QED
    BY <2>2, <2>4, <2>5
<1>6. CASE RenewBeforeWrite(p)
  <2> DEFINE g == [f EXCEPT !.pc = IF Denied(f.reply) THEN "mark" ELSE "commit"]
  <2>1. g.out = f.out /\ g.seenAt = f.seenAt /\ g.pc \in {"mark", "commit"}
    BY <1>1 DEF Flight
  <2>2. (Renew(p) /\ Become(p, g)) \/ (RenewFails(p) /\ Observe(p, "lease-lost"))
    BY <1>6 DEF RenewBeforeWrite
  <2> HIDE DEF g
  <2>3. CASE RenewFails(p) /\ Observe(p, "lease-lost")
    BY <1>1, <1>4, <2>3, ObserveKeepsLease
  <2>4. CASE Renew(p) /\ Become(p, g)
    BY <1>3, <2>1, <2>4
  <2> QED
    BY <2>2, <2>3, <2>4
<1> QED
  BY <1>5, <1>6

\* The writes do not touch the lease.
LEMMA WriteLease ==
  ASSUME IInv, LeaseInv, Timely, NEW p \in Proc, Commit(p) \/ Reread(p) \/ Mark(p)
  PROVE  LeaseInv'
<1> DEFINE f == flight[p]
<1>1. /\ f \in Flight /\ Patient(f, obs[p]) /\ f.pc \in {"commit", "reread", "mark"}
  BY DEF IInv, TypeOK, LeaseInv, Commit, Reread, Mark
<1>2. UNCHANGED <<lease, obs>> /\ (cred'.present => cred.present)
  BY DEF Commit, Reread, Mark, stored, Rewrite, IInv, TypeOK, Credential
<1>3. Working(f)
  BY <1>1 DEF Working
<1>4. ASSUME NEW out \in {"not-found", "app-changed", "terminal", "refreshed"}, Return(p, out)
      PROVE  LeaseInv'
  BY <1>2, <1>4, ReturnKeepsLease
<1>5. ASSUME NEW then \in {"lease-lost", "conflict", "superseded"}, Observe(p, then)
      PROVE  LeaseInv'
  BY <1>1, <1>2, <1>3, <1>5, ObserveKeepsLease
<1>6. ASSUME NEW g, Become(p, g), g.out = f.out, g.seenAt = f.seenAt, g.pc \in {"reread", "commit"}
      PROVE  LeaseInv'
  <2> HIDE DEF f
  <2>1. Patient(g, obs[p])
    BY <1>1, <1>6 DEF Patient, Queued, TimedOut, Observing
  <2>2. Age(f) = 1 /\ Age(g) = 1
    BY <1>1, <1>6 DEF Age, Observing
  <2> USE DEF f
  <2> QED
    BY <1>2, <1>3, <1>6, <2>1, <2>2, QuietKeepsLease
<1>7. CASE Commit(p)
  <2> DEFINE g == [f EXCEPT !.pc = "reread"]
  <2>1. g.out = f.out /\ g.seenAt = f.seenAt /\ g.pc = "reread"
    BY <1>1 DEF Flight
  <2>2. Become(p, g) => LeaseInv'
    BY <1>6, <2>1
  <2> QED
    BY <1>4, <1>5, <1>7, <2>2 DEF Commit
<1>8. CASE Reread(p)
  <2> DEFINE g == [f EXCEPT !.pc = "commit", !.expect = cred.cipher, !.tries = @ + 1]
  <2>1. g.out = f.out /\ g.seenAt = f.seenAt /\ g.pc = "commit"
    BY <1>1 DEF Flight
  <2>2. Become(p, g) => LeaseInv'
    BY <1>6, <2>1
  <2> QED
    BY <1>5, <1>8, <2>2 DEF Reread
<1>9. CASE Mark(p)
  BY <1>4, <1>5, <1>9 DEF Mark
<1> QED
  BY <1>7, <1>8, <1>9

\* A flight that ends or whose process dies lets go of its own lease only.
LEMMA EndLease ==
  ASSUME IInv, LeaseInv, Timely, TTL > 1, NEW p \in Proc, Settle(p) \/ Crash(p)
  PROVE  LeaseInv'
<1>1. Become(p, Idle) /\ cred' = cred
  BY DEF Settle, Crash
<1>2. ~Working(Idle) /\ \A o : Patient(Idle, o)
  BY DEF Idle, Working, Observing, Patient, Queued, TimedOut
<1>3. CASE Settle(p) /\ lease = p /\ SetLease(NoProc)
  <2>1. \A q \in Proc : obs'[q] = Unseen
    BY <1>3 DEF SetLease
  <2> QED
    BY <1>1, <1>2, <1>3, <2>1, NobodyElse, FlightKeepsLease
<1>4. CASE Settle(p) /\ UNCHANGED <<lease, obs>>
  BY <1>1, <1>2, <1>4, QuietKeepsLease
<1>5. CASE Crash(p)
  <2>1. obs' = [obs EXCEPT ![p] = Unseen] /\ lease' = IF lease = p THEN Orphan ELSE lease
    BY <1>5 DEF Crash
  <2>2. obs'[p] = Unseen /\ \A q \in Proc \ {p} : obs'[q] = obs[q]
    BY <2>1 DEF IInv, TypeOK
  <2>3. \A q \in Proc \ {p} : Working(flight[q]) /\ cred.present => lease' = lease
    BY <2>1 DEF LeaseInv, Holds
  <2> QED
    BY <1>1, <1>2, <2>2, <2>3, FlightKeepsLease
<1> QED
  BY <1>3, <1>4, <1>5 DEF Settle, Release

\* Users, the app's credential, the provider and the passing of the expiry leave
\* the leases of a credential alone, or delete it.
LEMMA OutsideLease ==
  ASSUME IInv, LeaseInv, Timely,
         EditOther \/ Reconnect \/ Delete \/ EditApp \/ Elapse \/ Revoke \/ UNCHANGED vars
  PROVE  LeaseInv'
<1>1. CASE Delete
  <2>1. ~cred'.present /\ flight' = flight /\ \A q \in Proc : obs'[q] = Unseen
    BY <1>1 DEF Delete, SetLease, IInv, TypeOK, Credential
  <2>2. \A q \in Proc : Patient(flight[q], obs'[q])
    BY <2>1 DEF LeaseInv, Patient
  <2> QED
    BY <2>1, <2>2 DEF LeaseInv, Holds
<1>2. CASE EditOther \/ Reconnect \/ EditApp \/ Elapse \/ Revoke \/ UNCHANGED vars
  <2>1. UNCHANGED <<flight, lease, obs>> /\ cred'.present = cred.present
    BY <1>2 DEF EditOther, Reconnect, EditApp, Elapse, Revoke, vars, stored, Rewrite,
         IInv, TypeOK, Credential
  <2> QED
    BY <2>1 DEF LeaseInv, Holds, Patient
<1> QED
  BY <1>1, <1>2

\* A Tick finds every holder with its lease renewed since the last one, and every
\* waiter asleep.
LEMMA TickLease == ASSUME IInv, LeaseInv, Timely, Tick PROVE LeaseInv'
<1>1. UNCHANGED <<cred, lease>> /\ \A p \in Proc : KeepsUp(flight[p])
  BY DEF Tick, stored
<1>2. TTL \in Nat \ {0} /\ WaitLimit \in Nat /\ \A q \in Proc : obs[q] \in 0..Unseen
  BY TimeAssumption DEF IInv, TypeOK
<1>3. ASSUME NEW q \in Proc
      PROVE  /\ obs[q] = Unseen => obs'[q] = Unseen
             /\ obs[q] # Unseen => obs'[q] # Unseen /\ obs[q] \in 0..TTL
             /\ obs[q] # Unseen /\ obs[q] < TTL => obs'[q] = obs[q] + 1
             /\ obs[q] = TTL => obs'[q] = TTL
  BY <1>2 DEF Tick, Plus1, Unseen
<1>4. ASSUME NEW p \in Proc PROVE Holds(p, flight[p])' /\ Patient(flight[p], obs[p])'
  <2> DEFINE f == flight[p]
             g == AfterTick(f)
  <2>1. /\ f \in Flight /\ flight'[p] = g /\ KeepsUp(f) /\ Holds(p, f) /\ Patient(f, obs[p])
    BY <1>1 DEF IInv, TypeOK, Tick, LeaseInv
  <2>2. f.wait \in Nat /\ f.seenAt \in Nat
    BY <2>1 DEF Flight
  <2>3. CASE f.pc = "remote"
    <3>1. g = [f EXCEPT !.call = Plus1(@, CallLimit), !.due = TRUE]
      BY <2>3 DEF AfterTick
    <3>2. g.pc = "remote" /\ g.due /\ g.out = f.out /\ g.seenAt = f.seenAt
      BY <2>1, <2>3, <3>1 DEF Flight
    <3> HIDE DEF f, g
    <3>3. Patient(g, obs'[p])
      BY <2>1, <2>3, <3>2 DEF Patient, Queued, TimedOut, Observing
    <3>4. Age(g) = 1 /\ Age(f) = 0 /\ Working(f)
      BY <2>1, <2>3, <3>2 DEF Age, Observing, KeepsUp, Working
    <3>5. ASSUME cred.present, NEW q \in Proc
          PROVE  lease = p /\ (obs'[q] = Unseen \/ obs'[q] <= 1)
      <4>1. lease = p /\ (obs[q] = Unseen \/ obs[q] <= 0)
        BY <2>1, <3>4, <3>5 DEF Holds
      <4> QED
        BY <1>2, <1>3, <4>1
    <3>6. flight[p]'.pc = "remote" /\ flight[p]'.due
      BY <2>1, <3>2
    <3>7. Holds(p, flight[p])'
      BY <1>1, <3>5, <3>6 DEF Holds, Age, Observing
    <3> QED
      BY <2>1, <3>3, <3>7
  <2>4. CASE f.pc = "sleep"
    <3>1. g = [f EXCEPT !.wait = Plus1(@, WaitLimit), !.pc = IF @ = "sleep" THEN "poll" ELSE @]
      BY <2>4 DEF AfterTick, Waiting
    <3>2. /\ g.pc = "poll" /\ g.out = f.out /\ g.seenAt = f.seenAt
          /\ g.wait = Plus1(f.wait, WaitLimit)
      BY <2>1, <2>4, <3>1 DEF Flight
    <3> HIDE DEF f, g
    <3>3. g.wait \in {f.wait, f.wait + 1}
      BY <3>2 DEF Plus1
    <3>4. /\ f.wait < f.seenAt + TTL /\ (obs[p] # Unseen => f.wait <= f.seenAt + obs[p])
          /\ f.out # "lease-timeout"
      BY <2>1, <2>4 DEF Patient, Queued, TimedOut
    <3>5. g.wait <= g.seenAt + TTL
      BY <1>2, <2>2, <3>2, <3>3, <3>4
    <3>6. obs'[p] # Unseen => g.wait <= g.seenAt + obs'[p]
      <4>1. CASE obs[p] # Unseen /\ obs[p] < TTL
        BY <1>2, <1>3, <2>2, <3>2, <3>3, <3>4, <4>1
      <4>2. CASE obs[p] = TTL
        BY <1>2, <1>3, <2>2, <3>2, <3>3, <3>4, <4>2
      <4> QED
        BY <1>2, <1>3, <4>1, <4>2
    <3>7. Patient(g, obs'[p]) /\ ~Working(g)
      BY <3>2, <3>4, <3>5, <3>6 DEF Patient, Queued, TimedOut, Observing, Working
    <3> QED
      BY <2>1, <3>7 DEF Holds
  <2>5. CASE f.pc = "idle"
    <3>1. g = f
      BY <2>5 DEF AfterTick, Waiting, Observing
    <3>2. Patient(f, obs'[p]) /\ ~Working(f)
      BY <2>1, <2>5 DEF Patient, Queued, TimedOut, Observing, Working
    <3> QED
      BY <2>1, <3>1, <3>2 DEF Holds
  <2> QED
    BY <2>1, <2>3, <2>4, <2>5 DEF KeepsUp, Suspended
<1> QED
  BY <1>4 DEF LeaseInv

\* Every step keeps the leases.
LEMMA NextLease == ASSUME TTL > 1, IInv, LeaseInv, [Next]_vars PROVE LeaseInv'
<1> SUFFICES ASSUME Timely PROVE LeaseInv'
  BY DEF LeaseInv
<1>1. ASSUME NEW p \in Proc, Step(p) PROVE LeaseInv'
  BY <1>1, WayLease, ObserveStepsLease, AcquireLease, RemoteLease, RenewLease, WriteLease,
     EndLease DEF Step
<1>2. ASSUME NEW p \in Proc, NEW force \in BOOLEAN, Start(p, force) PROVE LeaseInv'
  BY <1>2, StartLease
<1>3. ASSUME NEW p \in Proc, ProviderHandles(p) \/ LoseReply(p) \/ Crash(p) PROVE LeaseInv'
  BY <1>3, RemoteLease, EndLease
<1>4. CASE EditOther \/ Reconnect \/ Delete \/ EditApp \/ Elapse \/ Revoke \/ UNCHANGED vars
  BY <1>4, OutsideLease
<1>5. CASE Tick
  BY <1>5, TickLease
<1> QED
  BY <1>1, <1>2, <1>3, <1>4, <1>5 DEF Next

\* Nobody works or waits at the start.
LEMMA InitLease == Init => LeaseInv
BY DEF Init, Idle, LeaseInv, Holds, Patient, Working, Observing, Queued, TimedOut

\* The leases are kept throughout.
LEMMA LeaseHolds == ASSUME TTL > 1 PROVE Spec => [](IInv /\ LeaseInv)
<1>1. IInv /\ LeaseInv /\ [Next]_vars => IInv' /\ LeaseInv'
  BY NextIInv, NextLease
<1> QED
  BY InitIInv, InitLease, <1>1, PTL DEF Spec

\* With event loops that keep up and a TTL longer than a renewal interval (the code
\* takes three), a flight that works under the lease has its row, so two flights
\* never redeem a refresh token together, and a flight gives up waiting only if the
\* row changed less than a TTL before (acquireOAuthRefreshLease,
\* waitForOAuthRefreshLease and the heartbeat).
THEOREM LeaseIsKept == ASSUME TTL > 1 PROVE Spec => []LeaseEndsWithHolder
<1>1. LeaseInv => LeaseEndsWithHolder
  BY DEF LeaseInv, Holds, Patient, TimedOut, LeaseEndsWithHolder
<1> QED
  BY <1>1, LeaseHolds, PTL

-----------------------------------------------------------------------------
(* A credential is not stranded *)

\* The hypotheses of NeverStranded.
Calm ==
  /\ Timely /\ cred.present
  /\ used.apps + used.crashes + used.lost + used.revoked = 0
  /\ used.edits <= CommitRetries

\* Flights that have not asked the provider yet, that have, and that look at the
\* credential a last time before they fail.
Early(f) == Queued(f) \/ f.pc = "dispatch" \/ (Observing(f) /\ f.then = "dispatch")

InCall(f) == f.pc \in {"remote", "renew", "commit", "reread", "mark"}

Failing(f) == Observing(f) /\ f.then \in {"lease-lost", "conflict", "superseded"}

Rotated(f) == f.reply \in {"ok", "reduced"}

\* What makes a flight f store the tokens it was issued, when the row is c, the
\* provider redeems v, the app credential is a and e edits were made: as long as
\* the row has its tokens, each of its retries was caused by an edit, and only a
\* flight whose tokens left the row is on its way to fail with tokens in hand.
Fit(f, c, v, a, e) ==
  /\ f.tuple <= c.tuple
  /\ f.pc # "idle" /\ f.tuple = c.tuple => f.tries + c.cipher <= f.expect + e
  /\ f.pc = "reread" => f.expect < c.cipher
  /\ InCall(f) => f.app = a
  /\ Early(f) => f.reply = "none"
  /\ Working(f) /\ Rotated(f) => f.fresh \in v
  /\ Failing(f) /\ Rotated(f) => f.tuple # c.tuple

AllFit == \A p \in Proc : Fit(flight[p], cred, valid, app, used.edits)

\* Carries(p), of a flight, a row and a provider.
Carrying(f, c, v) == Working(f) /\ Rotated(f) /\ f.tuple = c.tuple /\ f.fresh \in v

Redeemable ==
  HasRefreshToken(cred.tuple) =>
    cred.tuple \in valid \/ \E p \in Proc : Carrying(flight[p], cred, valid)

Kept == AllFit /\ Redeemable

Now == IInv /\ LeaseInv /\ Calm /\ Kept

\* While all is calm, none of its troubles has happened.
LEMMA NoTrouble ==
  ASSUME IInv, Calm
  PROVE  used.apps = 0 /\ used.crashes = 0 /\ used.lost = 0 /\ used.revoked = 0
<1>1. used.apps \in Nat /\ used.crashes \in Nat /\ used.lost \in Nat /\ used.revoked \in Nat
  BY BoundAssumption DEF IInv, TypeOK, Bounds
<1>2. used.apps + used.crashes + used.lost + used.revoked = 0
  BY DEF Calm
<1>3. ASSUME NEW a \in Nat, NEW b \in Nat, NEW c \in Nat, NEW d \in Nat, a + b + c + d = 0
      PROVE  a = 0 /\ b = 0 /\ c = 0 /\ d = 0
  BY <1>3
<1> QED
  BY <1>1, <1>2, <1>3

\* Only one flight works at a time, and it has the lease.
LEMMA OneWorks ==
  ASSUME Now, NEW p \in Proc, Working(flight[p])
  PROVE  lease = p /\ \A q \in Proc : Working(flight[q]) => q = p
BY DEF Now, LeaseInv, Calm, Holds

\* A step of p's flight that leaves the row and the provider alone.
LEMMA BecomeKept ==
  ASSUME Now, NEW p \in Proc, NEW g, Become(p, g), UNCHANGED <<cred, valid, app>>,
         used'.edits = used.edits, Fit(g, cred, valid, app, used.edits),
         Carrying(flight[p], cred, valid) => Carrying(g, cred, valid)
  PROVE  Kept'
<1>1. flight'[p] = g /\ \A q \in Proc \ {p} : flight'[q] = flight[q]
  BY DEF Now, IInv, TypeOK, Become
<1>2. ASSUME NEW q \in Proc PROVE Fit(flight'[q], cred, valid, app, used.edits)
  BY <1>1 DEF Now, Kept, AllFit
<1>3. AllFit'
  BY <1>2 DEF AllFit
<1>4. ASSUME NEW q \in Proc, Carrying(flight[q], cred, valid)
      PROVE  Carrying(flight'[q], cred, valid)
  BY <1>1, <1>4
<1>5. Redeemable'
  BY <1>4 DEF Redeemable, Now, Kept
<1> QED
  BY <1>3, <1>5 DEF Kept

\* A flight g has learned nothing more than f.
Alike(f, g) ==
  /\ g.tuple = f.tuple /\ g.expect = f.expect /\ g.tries = f.tries /\ g.app = f.app
  /\ g.reply = f.reply /\ g.fresh = f.fresh

\* A flight moves on and learns nothing.
LEMMA MoveKept ==
  ASSUME Now, NEW p \in Proc, NEW g, Become(p, g), UNCHANGED <<cred, valid, app>>,
         used'.edits = used.edits, Alike(flight[p], g), flight[p].pc # "idle",
         Early(g) => Early(flight[p]), InCall(g) => InCall(flight[p]),
         Working(g) => Working(flight[p]) \/ Early(flight[p]),
         g.pc = "reread" => g.expect < cred.cipher,
         Failing(g) /\ Rotated(g) => g.tuple # cred.tuple,
         Carrying(flight[p], cred, valid) => Working(g)
  PROVE  Kept'
<1>1. Fit(flight[p], cred, valid, app, used.edits)
  BY DEF Now, Kept, AllFit
<1>2. Early(flight[p]) => ~Rotated(g)
  BY <1>1 DEF Fit, Alike, Rotated
<1>3. Fit(g, cred, valid, app, used.edits)
  BY <1>1, <1>2 DEF Fit, Alike, Rotated
<1>4. Carrying(flight[p], cred, valid) => Carrying(g, cred, valid)
  BY DEF Carrying, Alike, Rotated
<1> QED
  BY <1>3, <1>4, BecomeKept

\* A flight returns without tokens that the credential needs.
LEMMA ReturnKept ==
  ASSUME Now, NEW p \in Proc, NEW out, Return(p, out), UNCHANGED <<cred, valid, app>>,
         used'.edits = used.edits, flight[p].pc # "idle",
         ~Carrying(flight[p], cred, valid)
  PROVE  Kept'
<1> DEFINE g == [flight[p] EXCEPT !.pc = "settle", !.out = out]
<1>1. flight[p] \in Flight
  BY DEF Now, IInv, TypeOK
<1>2. g.pc = "settle" /\ Alike(flight[p], g)
  BY <1>1 DEF Flight, Alike
<1>3. Become(p, g)
  BY DEF Return
<1> HIDE DEF g
<1>4. ~Early(g) /\ ~InCall(g) /\ ~Working(g) /\ ~Failing(g)
  BY <1>2 DEF Early, Queued, InCall, Working, Failing, Observing
<1> QED
  BY <1>2, <1>3, <1>4, MoveKept

\* A flight looks at the credential again.
LEMMA ObserveKept ==
  ASSUME Now, NEW p \in Proc, NEW then \in Continuations, Observe(p, then),
         UNCHANGED <<cred, valid, app>>,
         used'.edits = used.edits, flight[p].pc # "idle",
         then \in {"acquire", "dispatch"} => Early(flight[p]),
         then \in {"lease-lost", "conflict", "superseded"} =>
           Working(flight[p]) /\ ~Carrying(flight[p], cred, valid),
         then = "lease-timeout" => ~Working(flight[p])
  PROVE  Kept'
<1> DEFINE f == flight[p]
           g == [f EXCEPT !.pc = "observe", !.then = then]
<1>1. f \in Flight /\ Fit(f, cred, valid, app, used.edits)
  BY DEF Now, IInv, TypeOK, Kept, AllFit
<1>2. g.pc = "observe" /\ g.then = then /\ Alike(f, g)
  BY <1>1 DEF Flight, Alike
<1>3. Become(p, g)
  BY DEF Observe
<1> HIDE DEF f, g
<1>4. Early(g) => then \in {"acquire", "dispatch"}
  BY <1>2 DEF Early, Queued, Observing
<1>5. Working(g) <=> then \in {"dispatch", "lease-lost", "conflict", "superseded"}
  BY <1>2 DEF Working, Observing
<1>6. Failing(g) <=> then \in {"lease-lost", "conflict", "superseded"}
  BY <1>2 DEF Failing, Observing
<1>7. ~InCall(g)
  BY <1>2 DEF InCall
<1>8. Failing(g) /\ Rotated(g) => g.tuple # cred.tuple
  BY <1>1, <1>2, <1>6 DEF Carrying, Fit, Alike, Rotated, f
<1>9. Carrying(f, cred, valid) => Working(g)
  <2>1. Early(f) => ~Rotated(f)
    BY <1>1 DEF Fit, Rotated
  <2> QED
    BY <1>5, <2>1 DEF Carrying, Continuations, f
<1> QED
  BY <1>2, <1>3, <1>4, <1>5, <1>6, <1>7, <1>8, <1>9, MoveKept DEF f

\* A flight begins.
LEMMA StartKept ==
  ASSUME Now, NEW p \in Proc, NEW force, Start(p, force) PROVE Kept'
<1> DEFINE g == [Idle EXCEPT !.pc = "ensure", !.force = force, !.cipher = cred.cipher,
                             !.tuple = cred.tuple, !.expect = cred.cipher]
<1>1. /\ g.pc = "ensure" /\ g.tuple = cred.tuple /\ g.expect = cred.cipher /\ g.tries = 0
      /\ g.reply = "none"
  BY DEF Idle
<1>2. /\ Become(p, g) /\ UNCHANGED <<cred, valid, app>> /\ flight[p].pc = "idle"
      /\ used' = [used EXCEPT !.flights = @ + 1]
  BY DEF Start, stored
<1>3. used'.edits = used.edits /\ used.edits \in Nat
  BY <1>2, BoundAssumption DEF Now, IInv, TypeOK, Bounds
<1>4. cred.cipher \in Nat /\ cred.tuple \in Nat
  BY DEF Now, IInv, TypeOK, Credential
<1> HIDE DEF g
<1>5. Fit(g, cred, valid, app, used.edits)
  BY <1>1, <1>3, <1>4 DEF Fit, InCall, Working, Observing, Rotated, Failing
<1>6. ~Carrying(flight[p], cred, valid)
  BY <1>2 DEF Carrying, Working, Observing
<1> QED
  BY <1>2, <1>3, <1>5, <1>6, BecomeKept

\* The flight up to the lease.
LEMMA WayKept ==
  ASSUME Now, NEW p \in Proc, Ensure(p) \/ Poll(p) \/ Wake(p) PROVE Kept'
<1> DEFINE f == flight[p]
           g == [f EXCEPT !.pc = "poll"]
<1>1. f \in Flight /\ f.pc \in {"ensure", "poll", "sleep"}
  BY DEF Now, IInv, TypeOK, Ensure, Poll, Wake
<1>2. UNCHANGED <<cred, valid, app, used>>
  BY DEF Ensure, Poll, Wake, stored
<1>3. Early(f) /\ ~Working(f)
  BY <1>1 DEF Early, Queued, Working, Observing
<1>4. ASSUME NEW out, Return(p, out) PROVE Kept'
  BY <1>1, <1>2, <1>3, <1>4, ReturnKept DEF Carrying
<1>5. ASSUME Become(p, g) PROVE Kept'
  <2>1. g.pc = "poll" /\ Alike(f, g)
    BY <1>1 DEF Flight, Alike
  <2> HIDE DEF g
  <2>2. ~InCall(g) /\ ~Working(g) /\ ~Failing(g)
    BY <2>1 DEF InCall, Working, Failing, Observing
  <2> QED
    BY <1>1, <1>2, <1>3, <1>5, <2>1, <2>2, MoveKept DEF Carrying
<1>6. ASSUME NEW then \in {"acquire", "lease-timeout"}, Observe(p, then) PROVE Kept'
  BY <1>1, <1>2, <1>3, <1>6, ObserveKept DEF Continuations
<1> QED
  BY <1>4, <1>5, <1>6 DEF Ensure, Poll, Wake

\* A flight that has looked at the credential fails only without tokens in hand, or
\* with tokens that replace others than the stored ones.
LEMMA ObserveStepsKept ==
  ASSUME Now, NEW p \in Proc, ObserveCredential(p) \/ ObserveBinding(p) PROVE Kept'
<1> DEFINE f == flight[p]
<1>1. /\ f \in Flight /\ Observing(f) /\ f.then \in Continuations /\ f.pc # "idle"
      /\ Fit(f, cred, valid, app, used.edits)
  BY DEF Now, IInv, TypeOK, Kept, AllFit, Observing, ObserveCredential, ObserveBinding, Flight
<1>2. UNCHANGED <<cred, valid, app, used>>
  BY DEF ObserveCredential, ObserveBinding, stored
<1>3. ~Carrying(f, cred, valid)
  <2>1. Early(f) => ~Rotated(f)
    BY <1>1 DEF Fit, Rotated
  <2>2. Working(f) => Early(f) \/ Failing(f)
    BY <1>1 DEF Working, Early, Failing, Observing
  <2> QED
    BY <1>1, <2>1, <2>2 DEF Carrying, Fit
<1>4. ASSUME NEW out, Return(p, out) PROVE Kept'
  BY <1>1, <1>2, <1>3, <1>4, ReturnKept
<1>5. ASSUME NEW pc \in {"acquire", "dispatch", "observeBinding"},
             pc # "observeBinding" => pc = f.then, Become(p, [f EXCEPT !.pc = pc])
      PROVE  Kept'
  <2> DEFINE g == [f EXCEPT !.pc = pc]
  <2>1. g.pc = pc /\ g.then = f.then /\ Alike(f, g)
    BY <1>1 DEF Flight, Alike
  <2>2. Become(p, g)
    BY <1>5
  <2>7. pc = "acquire" \/ pc = "dispatch" \/ pc = "observeBinding"
    BY <1>5
  <2> HIDE DEF g
  <2>3. Early(g) => Early(f)
    BY <1>1, <1>5, <2>1, <2>7 DEF Early, Queued, Observing
  <2>4. ~InCall(g) /\ g.pc # "reread" /\ (Working(g) => Working(f))
    BY <1>1, <1>5, <2>1, <2>7 DEF InCall, Working, Observing
  <2>5. Failing(g) => Failing(f)
    BY <1>1, <2>1, <2>7 DEF Failing, Observing
  <2>6. Failing(g) /\ Rotated(g) => g.tuple # cred.tuple
    BY <1>1, <2>1, <2>5 DEF Fit, Alike, Rotated
  <2> QED
    BY <1>1, <1>2, <1>3, <2>1, <2>2, <2>3, <2>4, <2>6, MoveKept
<1>6. ASSUME AfterObserve(p) PROVE Kept'
  <2>1. CASE f.then \in {"acquire", "dispatch"}
    <3>1. Become(p, [f EXCEPT !.pc = f.then])
      BY <1>6, <2>1 DEF AfterObserve
    <3> QED
      BY <1>5, <2>1, <3>1
  <2>2. CASE f.then \notin {"acquire", "dispatch"}
    BY <1>4, <1>6, <2>2 DEF AfterObserve
  <2> QED
    BY <2>1, <2>2
<1> QED
  BY <1>4, <1>5, <1>6 DEF ObserveCredential, ObserveBinding

\* A contender waits or takes the lease.
LEMMA AcquireKept == ASSUME Now, NEW p \in Proc, Acquire(p) PROVE Kept'
<1> DEFINE f == flight[p]
<1>1. f \in Flight /\ f.pc = "acquire" /\ UNCHANGED <<cred, valid, app, used>>
  BY DEF Now, IInv, TypeOK, Acquire
<1>2. Early(f) /\ ~Working(f)
  BY <1>1 DEF Early, Queued, Working, Observing
<1>3. CASE Contended(p)
  <2> DEFINE h == [f EXCEPT !.seenAt = IF obs[p] = Unseen THEN f.wait ELSE @]
             g == IF h.wait < WaitLimit THEN [h EXCEPT !.pc = "sleep"]
                    ELSE [h EXCEPT !.pc = "observe", !.then = "lease-timeout"]
  <2>1. Become(p, g)
    BY <1>3 DEF Acquire
  <2>2. Alike(f, g) /\ (g.pc = "sleep" \/ (g.pc = "observe" /\ g.then = "lease-timeout"))
    BY <1>1 DEF Flight, Alike
  <2> HIDE DEF g
  <2>3. ~InCall(g) /\ ~Working(g) /\ ~Failing(g) /\ g.pc # "reread"
    BY <2>2 DEF InCall, Working, Failing, Observing
  <2> QED
    BY <1>1, <1>2, <2>1, <2>2, <2>3, MoveKept DEF Carrying
<1>4. CASE Observe(p, "dispatch")
  BY <1>1, <1>2, <1>4, ObserveKept DEF Continuations
<1>5. CASE Return(p, "not-found")
  BY <1>1, <1>2, <1>5, ReturnKept DEF Carrying
<1> QED
  BY <1>3, <1>4, <1>5 DEF Acquire

\* The request goes out under the app credential as it is.
LEMMA DispatchKept == ASSUME Now, NEW p \in Proc, Dispatch(p) PROVE Kept'
<1> DEFINE f == flight[p]
           g == [f EXCEPT !.pc = "remote", !.app = app, !.reply = "pending"]
<1>1. /\ f \in Flight /\ f.pc = "dispatch" /\ Fit(f, cred, valid, app, used.edits)
      /\ UNCHANGED <<cred, valid, app, used>>
  BY DEF Now, IInv, TypeOK, Kept, AllFit, Dispatch, stored
<1>2. ~Carrying(f, cred, valid)
  BY <1>1 DEF Carrying, Fit, Early, Rotated
<1>3. CASE Become(p, g)
  <2>1. /\ g.pc = "remote" /\ g.app = app /\ g.reply = "pending" /\ g.tuple = f.tuple
        /\ g.tries = f.tries /\ g.expect = f.expect
    BY <1>1 DEF Flight
  <2> HIDE DEF g
  <2>2. ~Early(g) /\ ~Rotated(g)
    BY <2>1 DEF Early, Queued, Observing, Rotated
  <2>3. Fit(g, cred, valid, app, used.edits)
    BY <1>1, <2>1, <2>2 DEF Fit
  <2> QED
    BY <1>1, <1>2, <1>3, <2>3, BecomeKept
<1>4. CASE Return(p, "skipped")
  BY <1>1, <1>2, <1>4, ReturnKept
<1> QED
  BY <1>3, <1>4 DEF Dispatch

\* The provider redeems a token for the one flight that works, or changes nothing.
LEMMA ProviderKept == ASSUME Now, NEW p \in Proc, ProviderHandles(p) PROVE Kept'
<1> DEFINE f == flight[p]
<1>1. /\ f \in Flight /\ f.pc = "remote" /\ f.reply = "pending" /\ Working(f)
      /\ Fit(f, cred, valid, app, used.edits) /\ UNCHANGED <<cred, app, used>>
  BY DEF Now, IInv, TypeOK, Kept, AllFit, ProviderHandles, stored, Working
<1>2. ~Carrying(f, cred, valid)
  BY <1>1 DEF Carrying, Rotated
<1>3. ASSUME NEW g, g.pc = "remote", g.tuple = f.tuple, g.tries = f.tries,
             g.expect = f.expect, g.app = f.app, NEW v, Rotated(g) => g.fresh \in v
      PROVE  Fit(g, cred, v, app, used.edits)
  <2> HIDE DEF f
  <2>1. InCall(f) /\ ~Early(g) /\ ~Failing(g)
    BY <1>1, <1>3 DEF InCall, Early, Queued, Failing, Observing
  <2> QED
    BY <1>1, <1>3, <2>1 DEF Fit
<1>4. ASSUME NEW reply \in {"rejected", "refused", "retryable"}, Become(p, [f EXCEPT !.reply = reply]),
             UNCHANGED valid
      PROVE  Kept'
  <2> DEFINE g == [f EXCEPT !.reply = reply]
  <2>1. /\ g.pc = "remote" /\ g.reply = reply /\ g.tuple = f.tuple /\ g.tries = f.tries
        /\ g.expect = f.expect /\ g.app = f.app
    BY <1>1 DEF Flight
  <2>2. Become(p, g)
    BY <1>4
  <2> HIDE DEF g
  <2>3. ~Rotated(g)
    BY <1>4, <2>1 DEF Rotated
  <2>4. Fit(g, cred, valid, app, used.edits)
    BY <1>3, <2>1, <2>3
  <2> QED
    BY <1>1, <1>2, <1>4, <2>2, <2>4, BecomeKept
<1>5. ASSUME f.tuple \in valid, valid' = (valid \ {f.tuple}) \cup {minted'},
             NEW reply \in {"ok", "reduced"},
             Become(p, [f EXCEPT !.reply = reply, !.fresh = minted'])
      PROVE  Kept'
  <2> DEFINE g == [f EXCEPT !.reply = reply, !.fresh = minted']
  <2>1. /\ g.pc = "remote" /\ g.reply = reply /\ g.tuple = f.tuple /\ g.tries = f.tries
        /\ g.expect = f.expect /\ g.app = f.app /\ g.fresh = minted'
    BY <1>1 DEF Flight
  <2>2. flight'[p] = g /\ \A q \in Proc \ {p} : flight'[q] = flight[q]
    BY <1>5 DEF Now, IInv, TypeOK, Become
  <2> HIDE DEF g
  <2>3. Fit(g, cred, valid', app, used.edits)
    BY <1>3, <1>5, <2>1
  <2>4. ASSUME NEW q \in Proc \ {p} PROVE Fit(flight[q], cred, valid', app, used.edits)
    <3>1. ~Working(flight[q])
      BY <1>1, OneWorks
    <3> QED
      BY <3>1 DEF Now, Kept, AllFit, Fit
  <2>5. ASSUME NEW q \in Proc PROVE Fit(flight'[q], cred', valid', app', used'.edits)
    BY <1>1, <2>2, <2>3, <2>4
  <2>6. CASE f.tuple = cred.tuple
    <3>1. Carrying(flight'[p], cred', valid')
      BY <1>1, <1>5, <2>1, <2>2, <2>6 DEF Carrying, Working, Rotated
    <3> QED
      BY <2>5, <3>1 DEF Kept, AllFit, Redeemable
  <2>7. CASE f.tuple # cred.tuple
    <3>1. \A q \in Proc : ~Carrying(flight[q], cred, valid)
      BY <1>1, <1>2, OneWorks DEF Carrying
    <3>2. HasRefreshToken(cred.tuple) => cred.tuple \in valid
      BY <3>1 DEF Now, Kept, Redeemable
    <3> QED
      BY <1>1, <1>5, <2>5, <2>7, <3>2 DEF Kept, AllFit, Redeemable
  <2> QED
    BY <2>6, <2>7
<1> QED
  BY <1>4, <1>5 DEF ProviderHandles

\* A reply arrives; it is lost only when the provider was busy.
LEMMA ReceiveKept == ASSUME Now, NEW p \in Proc, Receive(p) PROVE Kept'
<1> DEFINE f == flight[p]
           g == [f EXCEPT !.pc = "renew", !.due = FALSE]
<1>1. f \in Flight /\ f.pc = "remote" /\ UNCHANGED <<cred, valid, app, used>>
  BY DEF Now, IInv, TypeOK, Receive, stored
<1>2. CASE f.reply = "retryable" /\ Return(p, "failed")
  BY <1>1, <1>2, ReturnKept DEF Carrying, Rotated
<1>3. CASE Become(p, g)
  <2>1. g.pc = "renew" /\ Alike(f, g)
    BY <1>1 DEF Flight, Alike
  <2> HIDE DEF g
  <2>2. ~Early(g) /\ ~Failing(g) /\ Working(g) /\ Working(f) /\ InCall(f)
    BY <1>1, <2>1 DEF Early, Queued, Failing, Observing, Working, InCall
  <2> QED
    BY <1>1, <1>3, <2>1, <2>2, MoveKept
<1> QED
  BY <1>2, <1>3 DEF Receive

\* The renewals of a flight that works succeed.
LEMMA RenewKept == ASSUME Now, NEW p \in Proc, Heartbeat(p) \/ RenewBeforeWrite(p) PROVE Kept'
<1> DEFINE f == flight[p]
<1>1. /\ f \in Flight /\ f.pc \in {"remote", "renew"} /\ UNCHANGED <<cred, valid, app, used>>
  BY DEF Now, IInv, TypeOK, Heartbeat, RenewBeforeWrite
<1>2. Working(f) /\ InCall(f) /\ ~RenewFails(p)
  <2>1. Working(f) /\ InCall(f)
    BY <1>1 DEF Working, InCall
  <2>2. lease = p /\ Timely
    BY <2>1, OneWorks DEF Now, Calm
  <2> QED
    BY <2>1, <2>2 DEF RenewFails
<1>3. ASSUME NEW g, Become(p, g), Alike(f, g), g.pc \in {"remote", "mark", "commit"} PROVE Kept'
  <2>1. ~Early(g) /\ ~Failing(g) /\ Working(g)
    BY <1>3 DEF Early, Queued, Failing, Observing, Working
  <2> QED
    BY <1>1, <1>2, <1>3, <2>1, MoveKept
<1>4. CASE Heartbeat(p)
  <2> DEFINE g == [f EXCEPT !.due = FALSE]
  <2>1. g.pc = f.pc /\ f.pc = "remote" /\ Alike(f, g) /\ Become(p, g)
    BY <1>1, <1>4 DEF Flight, Alike, Heartbeat
  <2> HIDE DEF g
  <2> QED
    BY <1>3, <2>1
<1>5. CASE RenewBeforeWrite(p)
  <2> DEFINE g == [f EXCEPT !.pc = IF Denied(f.reply) THEN "mark" ELSE "commit"]
  <2>1. g.pc \in {"mark", "commit"} /\ Alike(f, g)
    BY <1>1 DEF Flight, Alike
  <2>2. Become(p, g)
    BY <1>2, <1>5 DEF RenewBeforeWrite
  <2> HIDE DEF g
  <2> QED
    BY <1>3, <2>1, <2>2
<1> QED
  BY <1>4, <1>5

\* The row has newer tokens: they are no flight's.
LEMMA NewerFits ==
  ASSUME IInv, NEW f \in Flight, NEW v, NEW a, NEW e, Fit(f, cred, v, a, e),
         NEW c \in Credential, cred.tuple < c.tuple, cred.cipher <= c.cipher,
         NEW w, v \subseteq w, NEW d
  PROVE  Fit(f, c, w, a, d)
<1>1. /\ f.tuple \in Nat /\ cred.tuple \in Nat /\ c.tuple \in Nat /\ f.expect \in Nat
      /\ cred.cipher \in Nat /\ c.cipher \in Nat
  BY DEF IInv, TypeOK, Credential, Flight
<1>2. f.tuple < c.tuple
  BY <1>1 DEF Fit
<1> QED
  BY <1>1, <1>2 DEF Fit

\* The commit either stores the tokens, or leaves them to a retry: a conflict is due to
\* an edit, and there are not more edits than retries.
LEMMA CommitKept == ASSUME Now, IInv', NEW p \in Proc, Commit(p) PROVE Kept'
<1> DEFINE f == flight[p]
<1>1. /\ f \in Flight /\ f.pc = "commit" /\ UNCHANGED <<valid, app, used>> /\ cred.present
      /\ Fit(f, cred, valid, app, used.edits) /\ Sound(f, cred, minted, valid)
  BY DEF Now, IInv, TypeOK, Kept, AllFit, AllSound, Commit, Calm
<1>2. /\ Working(f) /\ InCall(f) /\ lease = p /\ Rotated(f) /\ f.app = app
  <2>1. Working(f) /\ InCall(f)
    BY <1>1 DEF Working, InCall
  <2> QED
    BY <1>1, <2>1, OneWorks DEF Fit, Sound, Progress, Rotated
<1>3. /\ f.tries \in Nat /\ f.tries <= CommitRetries /\ f.expect \in Nat /\ cred.cipher \in Nat
      /\ used.edits \in Nat /\ used.edits <= CommitRetries /\ CommitRetries \in Nat
      /\ f.expect <= cred.cipher
  BY <1>1, TimeAssumption, BoundAssumption
  DEF Now, IInv, TypeOK, Flight, Credential, Bounds, Calm, Sound, Snapshot
<1>4. CASE cred.cipher # f.expect /\ UNCHANGED cred /\ MayRetry(p)
  <2> DEFINE g == [f EXCEPT !.pc = "reread"]
  <2>1. g.pc = "reread" /\ Alike(f, g) /\ g.expect < cred.cipher
    BY <1>1, <1>3, <1>4 DEF Flight, Alike
  <2>2. Become(p, g)
    BY <1>1, <1>4 DEF Commit
  <2> HIDE DEF g
  <2>3. ~Early(g) /\ Working(g) /\ ~Failing(g)
    BY <2>1 DEF Early, Queued, Observing, Working, Failing
  <2> QED
    BY <1>1, <1>2, <1>4, <2>1, <2>2, <2>3, MoveKept
<1>5. CASE cred.cipher # f.expect /\ UNCHANGED cred /\ ~MayRetry(p)
  <2>1. f.tries = CommitRetries
    BY <1>3, <1>5 DEF MayRetry
  <2>2. f.tuple # cred.tuple
    BY <1>1, <1>3, <1>5, <2>1 DEF Fit
  <2>3. Observe(p, "conflict")
    BY <1>1, <1>5 DEF Commit
  <2> QED
    BY <1>1, <1>2, <1>5, <2>2, <2>3, ObserveKept DEF Carrying, Continuations
<1>6. CASE Commits(p) /\ \E out : Return(p, out)
  <2>1. PICK out : Return(p, out)
    BY <1>6
  <2> DEFINE g == [f EXCEPT !.pc = "settle", !.out = out]
  <2>2. g.pc = "settle" /\ Alike(f, g) /\ g \in Flight
    <3>1. flight'[p] = g
      BY <2>1 DEF Return, Become, Now, IInv, TypeOK
    <3>2. g \in Flight
      BY <3>1 DEF IInv, TypeOK
    <3> QED
      BY <1>1, <3>2 DEF Flight, Alike
  <2>3. flight'[p] = g /\ \A q \in Proc \ {p} : flight'[q] = flight[q]
    BY <2>1 DEF Return, Become, Now, IInv, TypeOK
  <2> HIDE DEF g
  <2>4. /\ cred.tuple < cred'.tuple /\ cred'.tuple = f.fresh /\ cred' \in Credential
        /\ cred.cipher <= cred'.cipher
    <3>1. /\ cred.tuple < f.fresh
          /\ cred' = [present |-> TRUE, cipher |-> cred.cipher + 1,
                      tuple |-> f.fresh, elapsed |-> FALSE]
      BY <1>6, CommitIsRotation DEF Now
    <3>2. cred' \in Credential /\ cred.cipher \in Nat
      BY <1>3 DEF IInv, TypeOK
    <3> QED
      BY <3>1, <3>2
  <2>5. ASSUME NEW q \in Proc PROVE Fit(flight[q], cred', valid, app, used.edits)
    <3>1. flight[q] \in Flight /\ Fit(flight[q], cred, valid, app, used.edits)
      BY DEF Now, IInv, TypeOK, Kept, AllFit
    <3> QED
      BY <2>4, <3>1, NewerFits DEF Now
  <2>6. Fit(g, cred', valid, app, used.edits)
    <3>1. f.tuple # cred'.tuple /\ Fit(f, cred', valid, app, used.edits)
      <4>1. f.tuple = cred.tuple /\ cred.tuple \in Nat /\ cred'.tuple \in Nat
        BY <1>6, <2>4, CommitIsRotation DEF Now, IInv, TypeOK, Credential
      <4> QED
        BY <2>4, <2>5, <4>1
    <3>2. ~Early(g) /\ ~InCall(g) /\ ~Working(g) /\ ~Failing(g)
      BY <2>2 DEF Early, Queued, InCall, Working, Failing, Observing
    <3> QED
      BY <2>2, <3>1, <3>2 DEF Fit, Alike
  <2>7. ASSUME NEW q \in Proc PROVE Fit(flight'[q], cred', valid', app', used'.edits)
    BY <1>1, <2>3, <2>5, <2>6
  <2>8. cred'.tuple \in valid'
    BY <1>1, <1>2, <2>4 DEF Fit
  <2> QED
    BY <2>7, <2>8 DEF Kept, AllFit, Redeemable
<1> QED
  BY <1>1, <1>2, <1>4, <1>5, <1>6 DEF Commit, Commits

\* After a conflict the flight goes on while the row has its tokens.
LEMMA RereadKept == ASSUME Now, NEW p \in Proc, Reread(p) PROVE Kept'
<1> DEFINE f == flight[p]
           g == [f EXCEPT !.pc = "commit", !.expect = cred.cipher, !.tries = @ + 1]
<1>1. /\ f \in Flight /\ f.pc = "reread" /\ UNCHANGED <<cred, valid, app, used>> /\ cred.present
      /\ Fit(f, cred, valid, app, used.edits)
  BY DEF Now, IInv, TypeOK, Kept, AllFit, Reread, Calm, stored
<1>2. Working(f) /\ InCall(f)
  BY <1>1 DEF Working, InCall
<1>3. CASE f.tuple = cred.tuple
  <2>1. /\ g.pc = "commit" /\ g.tuple = f.tuple /\ g.expect = cred.cipher
        /\ g.tries = f.tries + 1 /\ g.app = f.app /\ g.reply = f.reply /\ g.fresh = f.fresh
    BY <1>1 DEF Flight
  <2>2. Become(p, g)
    BY <1>1, <1>3 DEF Reread, SameTuple
  <2> HIDE DEF g
  <2>3. ~Early(g) /\ Working(g) /\ ~Failing(g)
    BY <2>1 DEF Early, Queued, Observing, Working, Failing
  <2>4. /\ f.tries \in Nat /\ f.expect \in Nat /\ cred.cipher \in Nat /\ used.edits \in Nat
    BY <1>1, BoundAssumption, TimeAssumption DEF Now, IInv, TypeOK, Flight, Credential, Bounds
  <2>5. f.tries + cred.cipher <= f.expect + used.edits /\ f.expect < cred.cipher
    BY <1>1, <1>3 DEF Fit
  <2>6. g.tries + cred.cipher <= g.expect + used.edits
    BY <2>1, <2>4, <2>5
  <2>7. Fit(g, cred, valid, app, used.edits)
    BY <1>1, <1>2, <2>1, <2>3, <2>6 DEF Fit, Rotated
  <2>8. Carrying(f, cred, valid) => Carrying(g, cred, valid)
    BY <2>1, <2>3 DEF Carrying, Rotated
  <2> QED
    BY <1>1, <2>2, <2>7, <2>8, BecomeKept
<1>4. CASE f.tuple # cred.tuple
  <2>1. Observe(p, "conflict")
    BY <1>1, <1>4 DEF Reread, SameTuple
  <2> QED
    BY <1>1, <1>2, <1>4, <2>1, ObserveKept DEF Carrying, Continuations
<1> QED
  BY <1>3, <1>4

\* A rejection has no tokens in hand.
LEMMA MarkKept == ASSUME Now, NEW p \in Proc, Mark(p) PROVE Kept'
<1> DEFINE f == flight[p]
<1>1. /\ f.pc = "mark" /\ f.reply \in {"rejected", "refused"} /\ UNCHANGED <<cred, valid, app, used>>
  BY DEF Now, IInv, AllSound, Sound, Progress, Mark
<1>2. Working(f) /\ ~Carrying(f, cred, valid)
  BY <1>1 DEF Working, Carrying, Rotated
<1>3. ASSUME NEW out, Return(p, out) PROVE Kept'
  BY <1>1, <1>2, <1>3, ReturnKept
<1>4. ASSUME NEW then \in {"lease-lost", "superseded"}, Observe(p, then) PROVE Kept'
  BY <1>1, <1>2, <1>4, ObserveKept DEF Continuations
<1> QED
  BY <1>3, <1>4 DEF Mark

\* A flight that is over leaves nothing behind.
LEMMA SettleKept == ASSUME Now, NEW p \in Proc, Settle(p) PROVE Kept'
<1>1. Become(p, Idle) /\ flight[p].pc = "settle" /\ UNCHANGED <<cred, valid, app, used>>
  BY DEF Settle
<1>2. cred.tuple \in Nat
  BY DEF Now, IInv, TypeOK, Credential
<1>3. Fit(Idle, cred, valid, app, used.edits)
  BY <1>2 DEF Idle, Fit, InCall, Early, Queued, Observing, Working, Rotated, Failing
<1>4. ~Carrying(flight[p], cred, valid)
  BY <1>1 DEF Carrying, Working, Observing
<1> QED
  BY <1>1, <1>3, <1>4, BecomeKept

\* The user rewrites the row: with the same tokens, which costs a flight at most one
\* retry, or with tokens of a new authorisation.
LEMMA EditKept ==
  ASSUME Now, IInv', EditOther \/ Reconnect \/ Elapse PROVE Kept'
<1>1. /\ cred \in Credential /\ cred' \in Credential /\ used \in Bounds
      /\ cred.cipher \in Nat /\ cred.tuple \in Nat /\ minted \in Nat /\ cred.tuple <= minted
      /\ used.edits \in Nat
  BY BoundAssumption DEF Now, IInv, TypeOK, Credential, Bounds
<1>2. ASSUME NEW q \in Proc
      PROVE  /\ flight[q] \in Flight /\ Fit(flight[q], cred, valid, app, used.edits)
             /\ flight[q].expect \in Nat /\ flight[q].tries \in Nat /\ flight[q].tuple \in Nat
  BY TimeAssumption DEF Now, IInv, TypeOK, Kept, AllFit, Flight
<1>3. UNCHANGED <<flight, app>>
  BY DEF EditOther, Reconnect, Elapse
<1>4. CASE EditOther \/ Elapse
  <2>1. /\ cred'.tuple = cred.tuple /\ valid' = valid
        /\ \/ cred'.cipher = cred.cipher + 1 /\ used'.edits = used.edits + 1
           \/ cred'.cipher = cred.cipher /\ used'.edits = used.edits
    BY <1>1, <1>4 DEF EditOther, Elapse, Rewrite, Edit, Credential, Bounds
  <2>2. ASSUME NEW q \in Proc PROVE Fit(flight[q], cred', valid', app', used'.edits)
    BY <1>1, <1>2, <1>3, <2>1 DEF Fit
  <2>3. \A q \in Proc : Carrying(flight[q], cred, valid) => Carrying(flight'[q], cred', valid')
    BY <1>3, <2>1 DEF Carrying
  <2> QED
    BY <1>3, <2>1, <2>2, <2>3 DEF Kept, AllFit, Now, Redeemable
<1>5. CASE Reconnect
  <2>1. /\ minted' = minted + 1 /\ valid' = valid \cup {minted'}
        /\ cred'.tuple = minted' /\ cred'.cipher = cred.cipher + 1
    BY <1>1, <1>5 DEF Reconnect, Rewrite, Credential
  <2>2. cred.tuple < cred'.tuple /\ cred.cipher <= cred'.cipher /\ valid \subseteq valid'
    BY <1>1, <2>1
  <2>3. ASSUME NEW q \in Proc PROVE Fit(flight[q], cred', valid', app', used'.edits)
    BY <1>1, <1>2, <1>3, <2>2, NewerFits DEF Now
  <2>4. cred'.tuple \in valid'
    BY <2>1
  <2> QED
    BY <1>3, <2>3, <2>4 DEF Kept, AllFit, Redeemable
<1> QED
  BY <1>4, <1>5

\* Time changes nothing a flight knows.
LEMMA TickKept == ASSUME Now, Tick PROVE Kept'
<1>1. UNCHANGED <<cred, valid, app, used>> /\ \A p \in Proc : KeepsUp(flight[p])
  BY DEF Tick, stored, Now, Calm
<1>2. ASSUME NEW p \in Proc
      PROVE  /\ Fit(flight'[p], cred, valid, app, used.edits)
             /\ Carrying(flight[p], cred, valid) => Carrying(flight'[p], cred, valid)
  <2> DEFINE f == flight[p]
             g == AfterTick(f)
  <2>1. f \in Flight /\ Fit(f, cred, valid, app, used.edits) /\ flight'[p] = g
    BY DEF Now, IInv, TypeOK, Kept, AllFit, Tick
  <2>2. CASE f.pc = "remote"
    <3>1. g = [f EXCEPT !.call = Plus1(@, CallLimit), !.due = TRUE]
      BY <2>2 DEF AfterTick
    <3>2. g.pc = "remote" /\ Alike(f, g)
      BY <2>1, <2>2, <3>1 DEF Flight, Alike
    <3> HIDE DEF f, g
    <3>3. InCall(f) /\ Working(f) /\ Working(g) /\ ~Early(g) /\ ~Failing(g)
      BY <2>2, <3>2 DEF InCall, Working, Early, Queued, Failing, Observing
    <3>4. Fit(g, cred, valid, app, used.edits)
      BY <2>1, <2>2, <3>2, <3>3 DEF Fit, Alike, Rotated
    <3>5. Carrying(f, cred, valid) => Carrying(g, cred, valid)
      BY <3>2, <3>3 DEF Carrying, Alike, Rotated
    <3> QED
      BY <2>1, <3>4, <3>5 DEF f
  <2>3. CASE f.pc = "sleep"
    <3>1. g = [f EXCEPT !.wait = Plus1(@, WaitLimit), !.pc = IF @ = "sleep" THEN "poll" ELSE @]
      BY <2>3 DEF AfterTick, Waiting
    <3>2. g.pc = "poll" /\ Alike(f, g)
      BY <2>1, <2>3, <3>1 DEF Flight, Alike
    <3> HIDE DEF f, g
    <3>3. Early(f) /\ ~Working(f) /\ ~InCall(g) /\ ~Working(g) /\ ~Failing(g)
      BY <2>3, <3>2 DEF InCall, Working, Early, Queued, Failing, Observing
    <3>4. Fit(g, cred, valid, app, used.edits)
      BY <2>1, <2>3, <3>2, <3>3 DEF Fit, Alike
    <3>5. ~Carrying(f, cred, valid)
      BY <3>3 DEF Carrying
    <3> QED
      BY <2>1, <3>4, <3>5 DEF f
  <2>4. CASE f.pc = "idle"
    <3>1. g = f
      BY <2>4 DEF AfterTick, Waiting, Observing
    <3> QED
      BY <2>1, <3>1
  <2> QED
    BY <1>1, <2>2, <2>3, <2>4 DEF KeepsUp, Suspended
<1> QED
  BY <1>1, <1>2 DEF Kept, AllFit, Redeemable, Now

\* What has gone wrong stays wrong.
LEMMA CalmBefore ==
  ASSUME IInv, IInv', [Next]_vars, Calm'
  PROVE  /\ Calm
         /\ ~(\E p \in Proc : LoseReply(p) \/ Crash(p)) /\ ~Delete /\ ~EditApp /\ ~Revoke
<1>1. /\ used.apps \in Nat /\ used.crashes \in Nat /\ used.lost \in Nat /\ used.revoked \in Nat
      /\ used'.apps \in Nat /\ used'.crashes \in Nat /\ used'.lost \in Nat
      /\ used'.revoked \in Nat /\ used.edits \in Nat /\ used'.edits \in Nat
      /\ used \in Bounds /\ cred \in Credential
  BY BoundAssumption DEF IInv, TypeOK, Bounds
<1>2. used'.apps + used'.crashes + used'.lost + used'.revoked = 0
  BY DEF Calm
<1>3. used'.apps = 0 /\ used'.crashes = 0 /\ used'.lost = 0 /\ used'.revoked = 0
  <2>1. ASSUME NEW a \in Nat, NEW b \in Nat, NEW c \in Nat, NEW d \in Nat, a + b + c + d = 0
        PROVE  a = 0 /\ b = 0 /\ c = 0 /\ d = 0
    BY <2>1
  <2> QED
    BY <1>1, <1>2, <2>1
<1>4. ASSUME NEW p \in Proc, LoseReply(p) \/ Crash(p) PROVE FALSE
  BY <1>1, <1>3, <1>4 DEF LoseReply, Crash, Bounds
<1>5. ASSUME EditApp \/ Revoke PROVE FALSE
  BY <1>1, <1>3, <1>5 DEF EditApp, Revoke, Bounds
<1>6. ASSUME Delete PROVE FALSE
  BY <1>1, <1>6 DEF Delete, Calm, Credential
<1>7. /\ used'.apps = used.apps /\ used'.crashes = used.crashes /\ used'.lost = used.lost
      /\ used'.revoked = used.revoked /\ used.edits <= used'.edits
      /\ cred'.present = cred.present
  <2>1. ASSUME NEW p \in Proc, Commit(p) PROVE cred'.present = cred.present /\ used' = used
    BY <1>1, <2>1 DEF Commit, Rewrite, Credential
  <2>2. ASSUME NEW p \in Proc, Step(p) PROVE cred'.present = cred.present /\ used' = used
    BY <2>1, <2>2 DEF Step, Ensure, Poll, ObserveCredential, ObserveBinding, Acquire, Wake,
       Dispatch, Receive, Heartbeat, RenewBeforeWrite, Reread, Mark, Settle, stored
  <2>3. ASSUME NEW p \in Proc, NEW force \in BOOLEAN, Start(p, force)
        PROVE  cred' = cred /\ used' = [used EXCEPT !.flights = @ + 1]
    BY <2>3 DEF Start, stored
  <2>4. ASSUME NEW p \in Proc, ProviderHandles(p) PROVE cred' = cred /\ used' = used
    BY <2>4 DEF ProviderHandles, stored
  <2>5. ASSUME EditOther \/ Reconnect
        PROVE  cred'.present = cred.present /\ used' = [used EXCEPT !.edits = @ + 1]
    BY <1>1, <2>5 DEF EditOther, Reconnect, Edit, Rewrite, Credential
  <2>6. ASSUME Elapse
        PROVE  cred'.present = cred.present /\ used' = [used EXCEPT !.elapsed = @ + 1]
    BY <1>1, <2>6 DEF Elapse, Credential
  <2>7. ASSUME Tick \/ UNCHANGED vars PROVE cred' = cred /\ used' = used
    BY <2>7 DEF Tick, vars, stored
  <2>8. /\ cred'.present = cred.present
        /\ \/ used' = used
           \/ used' = [used EXCEPT !.flights = @ + 1]
           \/ used' = [used EXCEPT !.edits = @ + 1]
           \/ used' = [used EXCEPT !.elapsed = @ + 1]
    BY <1>4, <1>5, <1>6, <2>2, <2>3, <2>4, <2>5, <2>6, <2>7 DEF Next
  <2> QED
    BY <1>1, <2>8 DEF Bounds
<1>8. Calm
  <2>1. Timely /\ cred'.present /\ used'.edits <= CommitRetries
    BY DEF Calm
  <2>2. used.edits <= CommitRetries
    BY <1>1, <1>7, <2>1, TimeAssumption
  <2>3. used.apps + used.crashes + used.lost + used.revoked = 0
    <3>1. ASSUME NEW a, NEW b, NEW c, NEW d, a = 0, b = 0, c = 0, d = 0
          PROVE  a + b + c + d = 0
      BY <3>1
    <3>2. used.apps = 0 /\ used.crashes = 0 /\ used.lost = 0 /\ used.revoked = 0
      BY <1>3, <1>7
    <3> QED
      BY <3>1, <3>2
  <2> QED
    BY <1>7, <2>1, <2>2, <2>3 DEF Calm
<1> QED
  BY <1>4, <1>5, <1>6, <1>8

\* Every calm step keeps it so.
LEMMA NextKept ==
  ASSUME IInv, IInv', LeaseInv, Calm => Kept, [Next]_vars
  PROVE  Calm' => Kept'
<1> SUFFICES ASSUME Calm' PROVE Kept'
  OBVIOUS
<1>1. Now
  BY CalmBefore DEF Now
<1>2. ASSUME NEW p \in Proc, Step(p) PROVE Kept'
  BY <1>1, <1>2, WayKept, ObserveStepsKept, AcquireKept, DispatchKept, ReceiveKept, RenewKept,
     CommitKept, RereadKept, MarkKept, SettleKept DEF Step
<1>3. ASSUME NEW p \in Proc, NEW force \in BOOLEAN, Start(p, force) PROVE Kept'
  BY <1>1, <1>3, StartKept
<1>4. ASSUME NEW p \in Proc, ProviderHandles(p) \/ LoseReply(p) \/ Crash(p) PROVE Kept'
  BY <1>1, <1>4, CalmBefore, ProviderKept
<1>5. CASE EditOther \/ Reconnect \/ Elapse
  BY <1>1, <1>5, EditKept
<1>6. CASE Delete \/ EditApp \/ Revoke
  BY <1>6, CalmBefore
<1>7. CASE Tick
  BY <1>1, <1>7, TickKept
<1>8. CASE UNCHANGED vars
  BY <1>1, <1>8 DEF vars, Now, Kept, AllFit, Redeemable
<1> QED
  BY <1>2, <1>3, <1>4, <1>5, <1>6, <1>7, <1>8 DEF Next

\* At the start the stored refresh token, if there is one, is the provider's.
LEMMA InitKept == Init => Kept
<1> SUFFICES ASSUME Init PROVE Kept
  OBVIOUS
<1>1. /\ cred.tuple \in {0, 1} /\ valid = {1} /\ \A p \in Proc : flight[p] = Idle
  BY DEF Init
<1>2. Fit(Idle, cred, valid, app, used.edits)
  BY <1>1 DEF Idle, Fit, InCall, Early, Queued, Observing, Working, Rotated, Failing
<1> QED
  BY <1>1, <1>2 DEF Kept, AllFit, Redeemable, HasRefreshToken

\* While no reply is lost, no process dies or stalls, the app credential and the grant
\* stay and the row is edited no more often than the commit retries, the stored refresh
\* token can be redeemed or the flight that redeemed it is about to store its successor
\* (the commit loop of refreshOAuthCredentialOnce, under the lease).
THEOREM CredentialNotStranded == ASSUME TTL > 1 PROVE Spec => []NeverStranded
<1>1. IInv /\ (Calm => Kept) => NeverStranded
  <2> SUFFICES ASSUME IInv, Calm => Kept, Calm, HasRefreshToken(cred.tuple)
               PROVE  cred.tuple \in valid \/ \E p \in Proc : Carries(p)
    BY DEF NeverStranded, Calm
  <2>1. \A p \in Proc : Carrying(flight[p], cred, valid) => Carries(p)
    BY DEF Carrying, Carries, Rotated
  <2> QED
    BY <2>1 DEF Kept, Redeemable
<1>2. Init => (Calm => Kept)
  BY InitKept
<1>3. IInv /\ IInv' /\ LeaseInv /\ (Calm => Kept) /\ [Next]_vars => (Calm => Kept)'
  BY NextKept
<1> QED
  BY <1>1, <1>2, <1>3, LeaseHolds, PTL DEF Spec
=============================================================================
