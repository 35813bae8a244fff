---------------------------- MODULE OAuthRefresh ----------------------------
(***************************************************************************)
(* Refreshing the tokens of ONE stored OAuth credential from several       *)
(* server processes that share the SQLite database.                        *)
(*                                                                         *)
(* Source: lib/oauth-token-refresh.ts (the refresh flight),                *)
(* db/oauth-refresh-lease-store.ts (the lease row), and the compare and    *)
(* swap of db/credential-store.ts, all under apps/server/src.              *)
(*                                                                         *)
(* Every row is keyed by the credential's id, so credentials do not        *)
(* interact and one stands for all.  A process runs at most one flight per *)
(* credential (the refreshFlights map), so a flight is named by its        *)
(* process.  A step of the model is what the code does between two points  *)
(* where another process can get in: one SQLite transaction or one read.   *)
(*                                                                         *)
(* Time passes in Ticks of REFRESH_LEASE_RENEW_MS, a third of the lease    *)
(* TTL; the code measures all of it on the monotonic clock of one process, *)
(* so the model keeps ages and no absolute time.                           *)
(***************************************************************************)
EXTENDS Naturals, FiniteSets

CONSTANTS
  Proc,           \* the server processes
  NoProc,         \* no row in oauth_refresh_leases
  Orphan,         \* a row whose flight is gone (crash, or a failed release)
  TTL,            \* OAUTH_REFRESH_LEASE_TTL_MS, in Ticks
  WaitLimit,      \* REFRESH_LEASE_WAIT_MS, in Ticks
  CallLimit,      \* TOKEN_TIMEOUT_MS, in Ticks, rounded up
  CommitRetries,  \* the "attempt < 7" of the commit loop
  Timely,         \* event loops keep up and SQLite renewals do not fail
  Refused,        \* app versions that the provider may refuse to serve
  MaxFlights, MaxMinted, MaxEdits, MaxAppEdits, MaxCrashes, MaxLost,
  MaxRevoked, MaxElapsed  \* bounds on what may happen in one behaviour

ASSUME ProcAssumption ==
  NoProc \notin Proc \cup Nat /\ Orphan \notin Proc \cup {NoProc}
ASSUME TimeAssumption ==
  /\ TTL \in Nat \ {0} /\ WaitLimit \in Nat \ {0} /\ CallLimit \in Nat \ {0}
  /\ CommitRetries \in Nat /\ Timely \in BOOLEAN
ASSUME BoundAssumption ==
  /\ MaxFlights \in Nat /\ MaxMinted \in Nat /\ MaxEdits \in Nat
  /\ MaxAppEdits \in Nat /\ MaxCrashes \in Nat /\ MaxLost \in Nat /\ MaxRevoked \in Nat
  /\ MaxElapsed \in Nat

VARIABLES
  cred,     \* the credentials row: [present, cipher, tuple, elapsed]
  binding,  \* auth_status of its integration_credential_bindings row
  lease,    \* whose row is in oauth_refresh_leases
  obs,      \* obs[p]: how long p has seen the present lease row unchanged
  app,      \* version of the OAuth app credential's row, 0 when not usable
  valid,    \* the refresh tokens the provider would still redeem
  minted,   \* the newest token tuple the provider has issued
  flight,   \* flight[p]: the refresh p is running
  used      \* how much of each bound has been consumed

stored == <<cred, binding, lease>>
vars == <<cred, binding, lease, obs, app, valid, minted, flight, used>>

-----------------------------------------------------------------------------
(* Data *)

\* Tuple 0 has no refresh token; the provider issues tuples 1, 2, ...
HasRefreshToken(tuple) == tuple > 0

Unseen == TTL + 1                 \* p holds no observation of the present row

Statuses == {"none", "active", "expired", "reauth"}

Replies == {"none", "pending", "ok", "reduced", "rejected", "refused",
            "retryable"}

\* The replies classified as anything but retryable: the provider denies the
\* grant, or it refuses the app or what the app asks for.
Denied(reply) == reply \in {"rejected", "refused"}

PCs == {"idle", "ensure", "poll", "observe", "observeBinding", "acquire",
        "sleep", "dispatch", "remote", "renew", "commit", "reread", "mark",
        "settle"}

Outcomes == {"none", "refreshed", "skipped", "not-found", "terminal",
             "lease-timeout", "lease-lost", "app-changed", "conflict",
             "superseded", "failed", "error"}

Continuations == {"acquire", "dispatch", "lease-timeout", "lease-lost",
                  "conflict", "superseded"}

\* A flight: where it is, what it read before its first await, and what it
\* has learned since.  cipher and tuple are the snapshot `stored`; expect is
\* the ciphertext the next compare and swap asks for; seenAt is the age of the
\* wait at which the flight last met a lease version it did not know.
Flight == [pc : PCs, force : BOOLEAN, cipher : Nat, tuple : Nat, expect : Nat,
           then : Continuations, app : Nat, wait : 0..WaitLimit, seenAt : 0..WaitLimit,
           call : 0..CallLimit, due : BOOLEAN, reply : Replies, fresh : Nat,
           tries : 0..CommitRetries, out : Outcomes]

Idle == [pc |-> "idle", force |-> FALSE, cipher |-> 0, tuple |-> 0,
         expect |-> 0, then |-> "acquire", app |-> 0, wait |-> 0, seenAt |-> 0,
         call |-> 0, due |-> FALSE, reply |-> "none", fresh |-> 0, tries |-> 0,
         out |-> "none"]

Credential == [present : BOOLEAN, cipher : Nat, tuple : Nat, elapsed : BOOLEAN]

Bounds == [flights : 0..MaxFlights, edits : 0..MaxEdits, apps : 0..MaxAppEdits,
           crashes : 0..MaxCrashes, lost : 0..MaxLost, revoked : 0..MaxRevoked,
           elapsed : 0..MaxElapsed]

TypeOK ==
  /\ cred \in Credential
  /\ binding \in Statuses
  /\ lease \in Proc \cup {NoProc, Orphan}
  /\ obs \in [Proc -> 0..Unseen]
  /\ app \in Nat
  /\ valid \in SUBSET Nat
  /\ minted \in Nat
  /\ flight \in [Proc -> Flight]
  /\ used \in Bounds

Init ==
  /\ \E t \in {0, 1} :
       cred = [present |-> TRUE, cipher |-> 1, tuple |-> t, elapsed |-> FALSE]
  /\ binding \in {"none", "active"}
  /\ lease = NoProc
  /\ obs = [p \in Proc |-> Unseen]
  /\ app \in {0, 1}
  /\ valid = {1}
  /\ minted = 1
  /\ flight = [p \in Proc |-> Idle]
  /\ used = [flights |-> 0, edits |-> 0, apps |-> 0, crashes |-> 0,
             lost |-> 0, revoked |-> 0, elapsed |-> 0]

-----------------------------------------------------------------------------
(* Small steps every part of the flight uses *)

\* p's flight becomes f.
Become(p, f) == flight' = [flight EXCEPT ![p] = f]

\* p's flight returns; its finally block is the step "settle".
Return(p, out) == Become(p, [flight[p] EXCEPT !.pc = "settle", !.out = out])

\* p calls observedRemoteRefresh and, unless that returns a result, goes on
\* with `then`.
Observe(p, then) ==
  Become(p, [flight[p] EXCEPT !.pc = "observe", !.then = then])

\* The row in oauth_refresh_leases changes to l: whoever watched the old row
\* no longer knows the present one.  A renewal is such a change, because it
\* makes expires_at strictly larger, and no version ever comes back.
SetLease(l) == lease' = l /\ obs' = [p \in Proc |-> Unseen]

\* Flights past the acquisition of the lease: the try block.
Observing(f) == f.pc \in {"observe", "observeBinding"}

Working(f) ==
  \/ f.pc \in {"dispatch", "remote", "renew", "commit", "reread", "mark"}
  \/ Observing(f) /\ f.then \in {"dispatch", "lease-lost", "conflict", "superseded"}

Waiting(f) ==
  \/ f.pc \in {"poll", "acquire", "sleep"}
  \/ Observing(f) /\ f.then = "acquire"

\* Steps at which the event loop has to come back to the flight by itself.
Suspended(f) == f.pc \in {"idle", "sleep", "remote"}

-----------------------------------------------------------------------------
(* The flight up to the lease *)

\* refreshOAuthCredential finds no active flight; refreshOAuthCredentialOnce
\* reads the row.  (A caller that finds one awaits it: no step.)
Start(p, force) ==
  /\ flight[p].pc = "idle"
  /\ used.flights < MaxFlights
  /\ used' = [used EXCEPT !.flights = @ + 1]
  /\ cred.present            \* else "skipped", with nothing done
  /\ Become(p, [Idle EXCEPT !.pc = "ensure", !.force = force,
                            !.cipher = cred.cipher, !.tuple = cred.tuple,
                            !.expect = cred.cipher])
  /\ UNCHANGED <<stored, obs, app, valid, minted>>

\* ensureOAuthCredentialBinding: what the status becomes, from the current row.
\* (ExpireAnyStatus forgets to look at the status before expiring it.)
ExpireAnyStatus ==
  IF cred.elapsed
    THEN IF HasRefreshToken(cred.tuple) THEN "expired" ELSE "reauth"
    ELSE IF binding = "none" THEN "active" ELSE binding

EnsuredBinding ==
  IF cred.elapsed /\ binding \in {"none", "active"}
    THEN IF HasRefreshToken(cred.tuple) THEN "expired" ELSE "reauth"
    ELSE IF binding = "none" THEN "active" ELSE binding

\* The binding transaction, and the early returns that follow it.  A refresh
\* that is not forced goes on only near the expiry, which the model decides
\* freely while the tuple has not elapsed.
Ensure(p) ==
  /\ flight[p].pc = "ensure"
  /\ IF ~cred.present
       THEN Return(p, "error") /\ UNCHANGED binding
       ELSE /\ binding' = EnsuredBinding
            /\ \/ /\ binding' = "reauth"
                  /\ ~flight[p].force \/ ~HasRefreshToken(flight[p].tuple)
                  /\ Return(p, "terminal")
               \/ /\ binding' # "reauth" \/ flight[p].force
                  /\ HasRefreshToken(flight[p].tuple)
                  /\ Become(p, [flight[p] EXCEPT !.pc = "poll"])
               \/ /\ binding' # "reauth"
                  /\ \/ ~HasRefreshToken(flight[p].tuple)
                     \/ ~flight[p].force /\ ~cred.elapsed
                  /\ Return(p, "skipped")
  /\ UNCHANGED <<cred, lease, obs, app, valid, minted, used>>

\* The head of waitForOAuthRefreshLease's loop: is the deadline still ahead?
Poll(p) ==
  /\ flight[p].pc = "poll"
  /\ Observe(p, IF flight[p].wait < WaitLimit THEN "acquire" ELSE "lease-timeout")
  /\ UNCHANGED <<stored, obs, app, valid, minted, used>>

\* What the caller of observedRemoteRefresh does when it returned null.
\* (GoOnAnyway does not return the failure it was about to return.)
GoOnAnyway(p) == Become(p, [flight[p] EXCEPT !.pc = flight[p].then])

AfterObserve(p) ==
  LET then == flight[p].then IN
    IF then \in {"acquire", "dispatch"}
      THEN Become(p, [flight[p] EXCEPT !.pc = then])
      ELSE Return(p, then)

\* observedRemoteRefresh reads the credential: gone, untouched, or rewritten
\* with the same tokens, it decides at once; with other tokens it goes on to
\* the binding.
ObserveCredential(p) ==
  /\ flight[p].pc = "observe"
  /\ \/ ~cred.present /\ Return(p, "not-found")
     \/ cred.present /\ cred.tuple = flight[p].tuple /\ AfterObserve(p)
     \/ /\ cred.present /\ cred.tuple # flight[p].tuple
        /\ Become(p, [flight[p] EXCEPT !.pc = "observeBinding"])
  /\ UNCHANGED <<stored, obs, app, valid, minted, used>>

\* ... and counts other tokens as a refresh only under an active binding.
ObserveBinding(p) ==
  /\ flight[p].pc = "observeBinding"
  /\ IF cred.present /\ binding = "active" THEN Return(p, "refreshed")
                                            ELSE AfterObserve(p)
  /\ UNCHANGED <<stored, obs, app, valid, minted, used>>

\* acquireOAuthRefreshLease, one immediate transaction.  obs[p] = Unseen: the
\* version is new to p, which starts timing it.  A version p has watched for
\* a whole TTL is deleted and the lease taken over.
\* (TakeOverOnSight only waits the first time.)
TakeOverOnSight(p) == lease # NoProc /\ obs[p] = Unseen

Contended(p) ==
  /\ lease # NoProc
  /\ obs[p] = Unseen \/ obs[p] < TTL

Acquire(p) ==
  /\ flight[p].pc = "acquire"
  /\ \/ /\ Contended(p)
        /\ obs' = [obs EXCEPT ![p] = IF @ = Unseen THEN 0 ELSE @]
        /\ LET f == [flight[p] EXCEPT
                       !.seenAt = IF obs[p] = Unseen THEN flight[p].wait ELSE @]
           IN Become(p, IF f.wait < WaitLimit
                          THEN [f EXCEPT !.pc = "sleep"]
                          ELSE [f EXCEPT !.pc = "observe", !.then = "lease-timeout"])
        /\ UNCHANGED lease
     \/ /\ ~Contended(p) /\ cred.present
        /\ SetLease(p)
        /\ Observe(p, "dispatch")
     \/ /\ ~Contended(p) /\ ~cred.present
        /\ SetLease(NoProc)
        /\ Return(p, "not-found")
  /\ UNCHANGED <<cred, binding, app, valid, minted, used>>

\* waitForLeasePoll: the 50 ms timer, far shorter than a Tick.
Wake(p) ==
  /\ flight[p].pc = "sleep"
  /\ Become(p, [flight[p] EXCEPT !.pc = "poll"])
  /\ UNCHANGED <<stored, obs, app, valid, minted, used>>

-----------------------------------------------------------------------------
(* The flight while it works under the lease *)

\* getDirectAppCredentialForToken, then refreshAccessToken sends the snapshot's
\* refresh token.  The app row is read and re-read with no await in between.
Dispatch(p) ==
  /\ flight[p].pc = "dispatch"
  /\ IF app = 0
       THEN Return(p, "skipped")
       ELSE Become(p, [flight[p] EXCEPT !.pc = "remote", !.app = app,
                                        !.reply = "pending"])
  /\ UNCHANGED <<stored, obs, app, valid, minted, used>>

\* The provider redeems a refresh token once and issues the next tuple, with
\* all the scopes or fewer; it rejects one it no longer knows; it refuses the
\* app (invalid_client, invalid_scope, ...), whose refresh token it would still
\* redeem; or it is busy.
ProviderHandles(p) ==
  /\ flight[p].pc = "remote" /\ flight[p].reply = "pending"
  /\ \/ /\ flight[p].tuple \in valid /\ minted < MaxMinted
        /\ minted' = minted + 1
        /\ valid' = (valid \ {flight[p].tuple}) \cup {minted'}
        /\ \E reply \in {"ok", "reduced"} :
             Become(p, [flight[p] EXCEPT !.reply = reply, !.fresh = minted'])
     \/ /\ flight[p].tuple \notin valid
        /\ Become(p, [flight[p] EXCEPT !.reply = "rejected"])
        /\ UNCHANGED <<valid, minted>>
     \/ /\ flight[p].app \in Refused
        /\ Become(p, [flight[p] EXCEPT !.reply = "refused"])
        /\ UNCHANGED <<valid, minted>>
     \/ /\ Become(p, [flight[p] EXCEPT !.reply = "retryable"])
        /\ UNCHANGED <<valid, minted>>
  /\ UNCHANGED <<stored, obs, app, used>>

\* refreshAccessToken returns or throws.
Receive(p) ==
  /\ flight[p].pc = "remote" /\ flight[p].reply \notin {"none", "pending"}
  /\ IF flight[p].reply = "retryable"
       THEN Return(p, "failed")
       ELSE Become(p, [flight[p] EXCEPT !.pc = "renew", !.due = FALSE])
  /\ UNCHANGED <<stored, obs, app, valid, minted, used>>

\* The request times out or its connection breaks, before or after the
\* provider has acted on it.  (LoseReplyOnceHandled has no time limit of its
\* own: it notices a broken connection only after the provider answered.)
LoseReplyOnceHandled(p) ==
  /\ flight[p].pc = "remote" /\ flight[p].reply # "pending"
  /\ used.lost < MaxLost
  /\ used' = [used EXCEPT !.lost = @ + 1]
  /\ Return(p, "failed")
  /\ UNCHANGED <<stored, obs, app, valid, minted>>

LoseReply(p) ==
  /\ flight[p].pc = "remote"
  /\ used.lost < MaxLost
  /\ used' = [used EXCEPT !.lost = @ + 1]
  /\ Return(p, "failed")
  /\ UNCHANGED <<stored, obs, app, valid, minted>>

\* renewOAuthRefreshLease by id: it works only on the row this flight inserted.
Renew(p) == lease = p /\ SetLease(p)

\* renewOAuthRefreshLeaseSafely fails: the row is another's, or SQLite threw.
RenewFails(p) == (lease # p \/ ~Timely) /\ UNCHANGED <<lease, obs>>

\* The setInterval of startOAuthRefreshLeaseHeartbeat; it can fire only while
\* the flight awaits the provider.
Heartbeat(p) ==
  /\ flight[p].pc = "remote" /\ flight[p].due
  /\ Renew(p) \/ RenewFails(p)
  /\ Become(p, [flight[p] EXCEPT !.due = FALSE])
  /\ UNCHANGED <<cred, binding, app, valid, minted, used>>

\* Before anything is written the lease is renewed once more.
RenewBeforeWrite(p) ==
  /\ flight[p].pc = "renew"
  /\ \/ /\ Renew(p)
        /\ Become(p, [flight[p] EXCEPT
              !.pc = IF Denied(flight[p].reply) THEN "mark" ELSE "commit"])
     \/ RenewFails(p) /\ Observe(p, "lease-lost")
  /\ UNCHANGED <<cred, binding, app, valid, minted, used>>

\* A write of the credential's data: fresh ciphertext, and maybe a new tuple.
Rewrite(tuple, elapsed) ==
  cred' = [cred EXCEPT !.cipher = @ + 1, !.tuple = tuple, !.elapsed = elapsed]

\* The condition of the commit loop.
MayRetry(p) == flight[p].tries < CommitRetries

\* updateCredentialDataIfUnchanged with the callback of the commit, in one
\* transaction.  The row's version is compared first; the lease and the app
\* credential are checked after the write and roll it back.
Commit(p) ==
  /\ flight[p].pc = "commit"
  /\ \/ /\ ~cred.present
        /\ Return(p, "not-found")
        /\ UNCHANGED <<cred, binding>>
     \/ /\ cred.present /\ cred.cipher # flight[p].expect
        /\ IF MayRetry(p)
             THEN Become(p, [flight[p] EXCEPT !.pc = "reread"])
             ELSE Observe(p, "conflict")
        /\ UNCHANGED <<cred, binding>>
     \/ /\ cred.present /\ cred.cipher = flight[p].expect
        /\ lease # p
        /\ Observe(p, "lease-lost")
        /\ UNCHANGED <<cred, binding>>
     \/ /\ cred.present /\ cred.cipher = flight[p].expect
        /\ lease = p /\ app # flight[p].app
        /\ Return(p, "app-changed")
        /\ UNCHANGED <<cred, binding>>
     \/ /\ cred.present /\ cred.cipher = flight[p].expect
        /\ lease = p /\ app = flight[p].app
        /\ Rewrite(flight[p].fresh, FALSE)
        /\ binding' = IF flight[p].reply = "reduced" THEN "reauth" ELSE "active"
        /\ Return(p, IF flight[p].reply = "reduced" THEN "terminal" ELSE "refreshed")
  /\ UNCHANGED <<lease, obs, app, valid, minted, used>>

\* After a conflict: try again on the new ciphertext, but only if the tokens
\* in it are still those the flight set out to replace.
\* (SameCipher asks for an untouched row, AnyTuple for any row.)
SameCipher(p) == cred.present /\ cred.cipher = flight[p].expect

AnyTuple(p) == cred.present

SameTuple(p) == cred.present /\ cred.tuple = flight[p].tuple

Reread(p) ==
  /\ flight[p].pc = "reread"
  /\ IF SameTuple(p)
       THEN Become(p, [flight[p] EXCEPT !.pc = "commit", !.expect = cred.cipher,
                                        !.tries = @ + 1])
       ELSE Observe(p, "conflict")
  /\ UNCHANGED <<stored, obs, app, valid, minted, used>>

\* Does the provider's denial still concern the stored row?
\* (RowExists condemns whatever is stored.)
RowExists(p) == cred.present

RejectionApplies(p) == cred.present /\ cred.cipher = flight[p].cipher

\* markTerminalRefreshFailure, one transaction.
Mark(p) ==
  /\ flight[p].pc = "mark"
  /\ \/ /\ lease # p
        /\ Observe(p, "lease-lost")
        /\ UNCHANGED binding
     \/ /\ lease = p /\ app # flight[p].app
        /\ Return(p, "app-changed")
        /\ UNCHANGED binding
     \/ /\ lease = p /\ app = flight[p].app
        /\ ~RejectionApplies(p)
        /\ Observe(p, "superseded")
        /\ UNCHANGED binding
     \/ /\ lease = p /\ app = flight[p].app
        /\ RejectionApplies(p)
        /\ binding' = "reauth"
        /\ Return(p, "terminal")
  /\ UNCHANGED <<cred, lease, obs, app, valid, minted, used>>

\* The finally block: the lease row is deleted by this flight's id, so only its
\* own row can go (a failure is logged and leaves the row behind), and the
\* process forgets the flight.
Release(p) ==
  \/ lease = p /\ SetLease(NoProc)
  \/ lease = p /\ ~Timely /\ lease' = Orphan /\ UNCHANGED obs
  \/ lease # p /\ UNCHANGED <<lease, obs>>

Settle(p) ==
  /\ flight[p].pc = "settle"
  /\ Release(p)
  /\ Become(p, Idle)
  /\ UNCHANGED <<cred, binding, app, valid, minted, used>>

Step(p) ==
  \/ Ensure(p) \/ Poll(p) \/ ObserveCredential(p) \/ ObserveBinding(p)
  \/ Acquire(p) \/ Wake(p) \/ Dispatch(p) \/ Receive(p) \/ Heartbeat(p)
  \/ RenewBeforeWrite(p) \/ Commit(p) \/ Reread(p) \/ Mark(p) \/ Settle(p)

-----------------------------------------------------------------------------
(* Everything else that can happen *)

\* The process dies.  Its flight and what it observed are gone; a lease row it
\* had inserted stays, and no flight will ever renew it.
Crash(p) ==
  /\ used.crashes < MaxCrashes
  /\ used' = [used EXCEPT !.crashes = @ + 1]
  /\ flight[p].pc # "idle" \/ obs[p] # Unseen
  /\ Become(p, Idle)
  /\ obs' = [obs EXCEPT ![p] = Unseen]
  /\ lease' = IF lease = p THEN Orphan ELSE lease
  /\ UNCHANGED <<cred, binding, app, valid, minted>>

Edit == used.edits < MaxEdits /\ used' = [used EXCEPT !.edits = @ + 1]

\* updateCredential with a patch that leaves the tokens alone.
EditOther ==
  /\ Edit /\ cred.present
  /\ Rewrite(cred.tuple, cred.elapsed)
  /\ UNCHANGED <<binding, lease, obs, app, valid, minted, flight>>

\* The user authorises again and the new tokens are stored: by the OAuth
\* callback, which also makes the binding active, or by a patch of the fields.
Reconnect ==
  /\ Edit /\ cred.present /\ minted < MaxMinted
  /\ minted' = minted + 1
  /\ valid' = valid \cup {minted'}
  /\ Rewrite(minted', FALSE)
  /\ binding' \in {binding, "active"}
  /\ UNCHANGED <<lease, obs, app, flight>>

\* deleteCredential; the lease and the binding go with the row (ON DELETE
\* CASCADE).
Delete ==
  /\ Edit /\ cred.present
  /\ cred' = [cred EXCEPT !.present = FALSE]
  /\ binding' = "none"
  /\ SetLease(NoProc)
  /\ UNCHANGED <<app, valid, minted, flight>>

\* The OAuth app's own credential is edited, or becomes unusable.
EditApp ==
  /\ used.apps < MaxAppEdits
  /\ used' = [used EXCEPT !.apps = @ + 1]
  /\ app' \in {0, used.apps + 2} /\ app' # app
  /\ UNCHANGED <<stored, obs, valid, minted, flight>>

\* The access token's expiry passes.
Elapse ==
  /\ cred.present /\ ~cred.elapsed
  /\ used.elapsed < MaxElapsed
  /\ used' = [used EXCEPT !.elapsed = @ + 1]
  /\ cred' = [cred EXCEPT !.elapsed = TRUE]
  /\ UNCHANGED <<binding, lease, obs, app, valid, minted, flight>>

\* The grant is revoked at the provider.
Revoke ==
  /\ used.revoked < MaxRevoked
  /\ used' = [used EXCEPT !.revoked = @ + 1]
  /\ valid' = {}
  /\ UNCHANGED <<stored, obs, app, minted, flight>>

\* A flight that keeps up is never caught by a Tick in the middle of its
\* synchronous code, with a heartbeat overdue or with a request past its limit.
KeepsUp(f) == Suspended(f) /\ ~f.due /\ (f.pc = "remote" => f.call < CallLimit)

Plus1(n, limit) == IF n < limit THEN n + 1 ELSE n

AfterTick(f) ==
  IF f.pc = "remote"
    THEN [f EXCEPT !.call = Plus1(@, CallLimit), !.due = TRUE]
    ELSE IF Waiting(f)
      THEN [f EXCEPT !.wait = Plus1(@, WaitLimit),
                     !.pc = IF @ = "sleep" THEN "poll" ELSE @]
      ELSE f

\* One Tick on every monotonic clock; polls that were asleep are due.
Tick ==
  /\ Timely => \A p \in Proc : KeepsUp(flight[p])
  /\ obs' = [p \in Proc |-> IF obs[p] = Unseen THEN Unseen ELSE Plus1(obs[p], TTL)]
  /\ flight' = [p \in Proc |-> AfterTick(flight[p])]
  /\ UNCHANGED <<stored, app, valid, minted, used>>

Next ==
  \/ \E p \in Proc : \/ \E force \in BOOLEAN : Start(p, force)
                     \/ Step(p)
                     \/ ProviderHandles(p) \/ LoseReply(p) \/ Crash(p)
  \/ EditOther \/ Reconnect \/ Delete \/ EditApp \/ Elapse \/ Revoke \/ Tick

Spec == Init /\ [][Next]_vars

\* Event loops run what is ready, clocks advance, and a request that reached
\* its time limit ends.  Nothing is asked of the user, and of the provider only
\* that it does not keep a connection alive without ever ending the reply.
Fairness ==
  /\ \A p \in Proc : WF_vars(Step(p))
  /\ \A p \in Proc : WF_vars(flight[p].call = CallLimit /\ LoseReply(p))
  /\ WF_vars(Tick)

FairSpec == Spec /\ Fairness

-----------------------------------------------------------------------------
(* Safety *)

\* With event loops that keep up, the lease ends with its holder, whatever the
\* wall clocks do (acquireOAuthRefreshLease's comment and the heartbeat).  A
\* flight that works under it still has its row, unless the credential was
\* deleted under it, so two flights never redeem a refresh token together; and a
\* flight gives up waiting only if the row changed less than one TTL before its
\* deadline, so a holder that died is always taken over in time.
LeaseEndsWithHolder ==
  Timely => \A p \in Proc :
    /\ Working(flight[p]) /\ cred.present => lease = p
    /\ flight[p].out = "lease-timeout" => flight[p].seenAt + TTL >= WaitLimit

\* p carries a reply with the tokens that replace the stored ones.
Carries(p) ==
  /\ Working(flight[p])
  /\ flight[p].reply \in {"ok", "reduced"}
  /\ flight[p].tuple = cred.tuple
  /\ flight[p].fresh \in valid

\* A rotating provider kills the old refresh token when it issues the next, so
\* a reply that is not stored strands the credential.  While no reply is lost, no
\* process dies or stalls, the app credential stays, the grant is not revoked and
\* the row is edited no more often than the commit retries, the stored refresh
\* token is redeemable or a flight is about to store its successor.
NeverStranded ==
  /\ Timely /\ used.apps + used.crashes + used.lost + used.revoked = 0
  /\ used.edits <= CommitRetries
  /\ cred.present /\ HasRefreshToken(cred.tuple)
  => cred.tuple \in valid \/ \E p \in Proc : Carries(p)

\* A refresh that leaves the tokens as they are puts the credential into
\* reauthentication-required only for a cause that still stands: the provider
\* would not redeem the stored refresh token any longer, or it refuses the app
\* credential that is stored now (where the token itself may be good: "durably
\* marks invalid_client for repair").  A stale denial condemns neither newer
\* tokens nor tokens whose app has been repaired.
NoFalseTerminal ==
  [][ binding # "reauth" /\ binding' = "reauth" /\ cred'.tuple = cred.tuple
        /\ HasRefreshToken(cred.tuple)
      => cred.tuple \notin valid \/ app \in Refused ]_vars

\* Whatever the timing, a status of reauthentication-required is lifted only by
\* new tokens, a new authorisation or the deletion of the credential, never by
\* bookkeeping or by a flight that lost its lease.
RepairNeedsNewTokens ==
  [][ binding = "reauth" /\ binding' # "reauth"
        => cred'.tuple # cred.tuple \/ ~cred'.present ]_vars

\* Tokens that leave the store by a refresh are exactly the ones the refresh
\* redeemed, its writer owns the lease row, and nothing else changes them but
\* the user: the flight implements the register under a lock.
OwnerOf(l) == IF l \in Proc THEN l ELSE NoProc

Register == INSTANCE TokenRegister WITH
  NoClaim <- NoProc,
  tuple   <- cred.tuple,
  status  <- IF cred.present THEN binding ELSE "deleted",
  owner   <- OwnerOf(lease),
  claim   <- [p \in Proc |-> IF flight[p].pc = "idle" THEN NoProc
                                                      ELSE flight[p].tuple]

ImplementsRegister == Register!Spec

\* A contender that waited for the lease uses the tokens its holder stored
\* "instead of redeeming the same refresh token again": no flight sends a
\* refresh token after another flight has replaced it in the store.
NeverRedeemsReplaced ==
  [][ \A p \in Proc :
        flight[p].pc = "dispatch" /\ flight'[p].pc = "remote"
          => ~cred.present \/ flight[p].tuple = cred.tuple ]_vars

-----------------------------------------------------------------------------
(* Liveness *)

\* Every flight returns, so the in-process map never pins a credential to a
\* refresh that hangs: neither a dead holder nor a silent provider stops it.
FlightReturns == \A p \in Proc : flight[p].pc # "idle" ~> flight[p].pc = "idle"
=============================================================================
