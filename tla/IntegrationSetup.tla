-------------------------- MODULE IntegrationSetup --------------------------
(***************************************************************************)
(* Setting up an integration, all under apps/server/src: the journaled     *)
(* flows of db/integration-setup-store.ts, the operations on them in       *)
(* lib/integration-setup-service.ts, the one-time OAuth envelopes of       *)
(* db/integration-setup-secret-store.ts, the direct OAuth attempt of       *)
(* routes/oauth.ts and lib/oauth-engine.ts, and the brokered one of        *)
(* lib/oauth-broker-callback.ts.                                           *)
(*                                                                         *)
(* Each operation is one immediate transaction and checks the revision its *)
(* caller read.  Only the token exchange and the broker's verification     *)
(* wait: the first has consumed its envelope before, the second consumes   *)
(* it after, and both meet whatever happened to the flow and the           *)
(* credentials meanwhile.  Manifests stay active; journals have at most    *)
(* one OAuth step.  A ciphertext is represented by the number of writes of *)
(* its row.                                                                *)
(***************************************************************************)
EXTENDS Naturals, Sequences, FiniteSetsExt

CONSTANTS
  Flow,        \* ids of flows
  App,         \* ids of credentials of the integration's type
  Account,     \* ids of OAuth token credentials
  Identity,    \* who an account belongs to, as the provider tells it
  Unknown,     \* the provider told no identity
  None,        \* no credential, envelope or exchange
  Request,     \* callback requests that may be in progress together
  Journals,    \* the manifests' steps, by their kinds
  MaxStates,   \* bound on the authorizations started
  MaxMeddles   \* bound on what others do to the credentials

\* A step of kind "oauth" whose declaration has the mode "broker" is "broker".
OAuthKinds == {"oauth", "broker"}
Kinds == {"instruction", "credential", "diagnostic"} \cup OAuthKinds

ASSUME JournalAssumption ==
  \A journal \in Journals :
    /\ journal \in Seq(Kinds) /\ journal # <<>>
    /\ \A i, j \in DOMAIN journal :
         journal[i] \in OAuthKinds /\ journal[j] \in OAuthKinds => i = j
ASSUME NoneAssumption == None \notin App \cup Account /\ Unknown \notin Identity
ASSUME BoundAssumption == MaxStates \in Nat /\ MaxMeddles \in Nat

VARIABLES
  flow,      \* the rows of integration_setup_flows with their steps
  envelope,  \* envelope[f]: the PKCE envelope of f, or its broker correlation
  exchange,  \* exchange[x]: the attempt whose code or account x is checking
  app,       \* the credentials of the integration, with their bindings
  account,   \* the OAuth accounts, with their bindings
  overdue,   \* the flows past their expiry
  seen,      \* seen[f]: a snapshot of f that a client acts on
  issued,    \* how many OAuth states were issued, to number them
  spent,     \* history: the OAuth states that were redeemed or refused
  granted,   \* history: granted[f] is how often f was authorized
  meddles    \* how often others touched the credentials

vars == <<flow, envelope, exchange, app, account, overdue, seen, issued, spent, granted, meddles>>
stores == <<app, account>>

Working == {"awaiting-input", "awaiting-oauth", "awaiting-confirmation", "discovering"}
Terminal == {"completed", "failed", "cancelled", "expired"}
Auths == {"unknown", "active", "reauthentication-required", "failed"}

\* pos is the active step, or the one that failed; those before it are
\* completed.  digest is the version of the target the user chose.
FlowRow ==
  [status : {"none"} \cup Working \cup Terminal, journal : Journals \cup {<<>>},
   rev : Nat, pos : Nat \ {0}, auth : Auths,
   target : App \cup {None}, digest : Nat, createAdd : BOOLEAN,
   oauth : Account \cup {None}, oauthAdd : BOOLEAN, cands : SUBSET (App \cup Account)]

\* A brokered attempt names no credentials of ours: its tokens stay away.
Attempt == [flow : Flow, state : Nat, app : App \cup {None}, appVer : Nat,
            oauth : Account \cup {None}, oauthVer : Nat]

Envelope == [for : Attempt, stale : BOOLEAN]

Brokered(p) == p # None /\ p.app = None
Direct(p) == p # None /\ p.app # None

\* ver 0 is an id not given out yet.
AppRow == [live : BOOLEAN, ver : Nat, whole : BOOLEAN, blocked : BOOLEAN]

\* extra (history): created because the user asked for an additional account.
AccountRow == [live : BOOLEAN, ver : Nat, who : Identity \cup {Unknown},
               usable : BOOLEAN, app : App \cup {None}, extra : BOOLEAN]

TypeOK ==
  /\ flow \in [Flow -> FlowRow] /\ seen \in [Flow -> FlowRow]
  /\ \A f \in Flow : flow[f].pos <= Len(flow[f].journal) + 1
  /\ envelope \in [Flow -> Envelope \cup {None}]
  /\ exchange \in [Request -> Attempt \cup {None}]
  /\ app \in [App -> AppRow] /\ account \in [Account -> AccountRow]
  /\ overdue \subseteq Flow
  /\ issued \in 0..MaxStates /\ spent \subseteq 1..issued
  /\ granted \in [Flow -> Nat] /\ meddles \in 0..MaxMeddles

NoFlow == [status |-> "none", journal |-> <<>>, rev |-> 0, pos |-> 1, auth |-> "unknown",
           target |-> None, digest |-> 0, createAdd |-> FALSE,
           oauth |-> None, oauthAdd |-> FALSE, cands |-> {}]

NoApp == [live |-> FALSE, ver |-> 0, whole |-> FALSE, blocked |-> FALSE]
NewApp == [live |-> TRUE, ver |-> 1, whole |-> TRUE, blocked |-> FALSE]
NoAccount == [live |-> FALSE, ver |-> 0, who |-> Unknown, usable |-> FALSE,
              app |-> None, extra |-> FALSE]

\* Some credentials may exist before, but no two accounts of one identity.
Init ==
  /\ flow = [f \in Flow |-> NoFlow] /\ seen = flow
  /\ envelope = [f \in Flow |-> None]
  /\ exchange = [x \in Request |-> None]
  /\ app \in [App -> {NoApp, NewApp}]
  /\ \E who \in [Account -> Identity \cup {Unknown}], there \in SUBSET Account, a \in App :
       /\ \A o, q \in there : o # q /\ who[o] = who[q] => who[o] = Unknown
       /\ account = [o \in Account |-> IF o \notin there THEN NoAccount ELSE
            [NoAccount EXCEPT !.live = TRUE, !.ver = 1, !.who = who[o],
                              !.usable = TRUE, !.app = a]]
  /\ overdue = {} /\ issued = 0 /\ spent = {} /\ meddles = 0
  /\ granted = [f \in Flow |-> 0]

LiveApps == {a \in App : app[a].live}
LiveAccounts == {o \in Account : account[o].live}

ActiveKind(f) ==
  IF flow[f].status \in Working THEN flow[f].journal[flow[f].pos] ELSE "none"

\* hasRemainingOauth: an OAuth step is active at p or pending behind it.
OAuthAhead(journal, p) == \E q \in p..Len(journal) : journal[q] \in OAuthKinds

-----------------------------------------------------------------------------
\* What transitions make of a row.

\* Every write moves the revision.
Moved(r) == [r EXCEPT !.rev = @ + 1]

Ended(r, status) == Moved([r EXCEPT !.status = status])
Failed(r) == Moved([r EXCEPT !.status = "failed", !.auth = "failed"])

Paused(r, ids) == Moved([r EXCEPT !.status = "awaiting-confirmation", !.cands = ids])

StatusFor(kind) ==
  CASE kind \in OAuthKinds -> "awaiting-oauth"
    [] kind = "diagnostic" -> "discovering"
    [] OTHER -> "awaiting-input"

\* advanceIntegrationSetupFlow, up to step p.
AdvancedTo(r, p) ==
  Moved([r EXCEPT !.pos = p, !.status =
    IF p > Len(r.journal) THEN "completed" ELSE StatusFor(r.journal[p])])

\* settleActivatedStep: diagnostics from step p on run at once, all of the same
\* credential.  `a` holds the credentials as they are by then.
Sound(r, a) == r.target # None /\ a[r.target].live /\ a[r.target].whole

\* (HaltBeyond overruns the journal.)
HaltBeyond(journal, p) ==
  Min({Len(journal) + 2} \cup {q \in p..Len(journal) : journal[q] # "diagnostic"})
Halt(journal, p) ==
  Min({Len(journal) + 1} \cup {q \in p..Len(journal) : journal[q] # "diagnostic"})

Confirms(journal, p) == p < Halt(journal, p) /\ ~OAuthAhead(journal, p)

\* At step p the user is asked first, if there are candidates.
Candidates(r, p, a) ==
  CASE p <= Len(r.journal) /\ r.journal[p] = "credential" /\ r.target = None ->
         {b \in App : a[b].live}
    [] p <= Len(r.journal) /\ r.journal[p] = "oauth" /\ r.oauth = None /\ ~r.oauthAdd ->
         LiveAccounts
    [] OTHER -> {}

Settled(r, p, a) ==
  LET halt == Halt(r.journal, p)
      there == [AdvancedTo(r, halt) EXCEPT !.auth = IF Confirms(r.journal, p) THEN "active" ELSE @]
      ids == Candidates(r, halt, a)
  IN  CASE p < halt /\ ~Sound(r, a) -> Failed([r EXCEPT !.pos = p])
        [] p >= halt \/ Sound(r, a) -> IF ids = {} THEN there ELSE Paused(there, ids)

\* bindCredential records the outcome; it throws for a deleted credential, and
\* the operation is undone.
Bindable(r, p, a) ==
  p < Halt(r.journal, p) /\ ~Sound(r, a) /\ r.target # None => a[r.target].live

Bound(r, p, a) ==
  IF p < Halt(r.journal, p) /\ r.target # None /\ (Sound(r, a) => Confirms(r.journal, p))
    THEN [a EXCEPT ![r.target].blocked = ~Sound(r, a)]
    ELSE a

\* Terminal flows and lapsed envelopes lose their secrets.
\* (KeepSecrets purges nothing.)
KeepSecrets(rows, env) == env
Purged(rows, env) == [g \in Flow |-> IF rows[g].status \in Terminal THEN None ELSE env[g]]

Unlapsed(env) == [g \in Flow |-> IF env[g] # None /\ env[g].stale THEN None ELSE env[g]]

\* expireIntegrationSetupFlows.
Lapsed(g) == g \in overdue /\ flow[g].status \in Working
Swept == [g \in Flow |-> IF Lapsed(g) THEN Ended(flow[g], "expired") ELSE flow[g]]

\* An operation of the service sweeps first and then stores row r of f.
Store(f, r) ==
  /\ flow' = [Swept EXCEPT ![f] = r]
  /\ envelope' = Purged(flow', Unlapsed(envelope))

\* The OAuth routes store without sweeping.
StoreOnly(f, r, env) ==
  /\ flow' = [flow EXCEPT ![f] = r]
  /\ envelope' = Purged(flow', env)

-----------------------------------------------------------------------------
\* The operations of the service, for a client that acts on a snapshot.

\* referencedFlow: the flow has not expired and has the revision the client read.
Referenced(f) ==
  /\ flow[f].status \in Working /\ f \notin overdue
  /\ seen[f].rev = flow[f].rev

\* The client reads the flow, which sweeps too.
Look(f) ==
  /\ flow[f].status # "none" /\ ~Lapsed(f)
  /\ Store(f, flow[f])
  /\ seen' = [seen EXCEPT ![f] = flow[f]]
  /\ UNCHANGED <<exchange, stores, overdue, issued, spent, granted, meddles>>

Others == <<exchange, overdue, seen, issued, spent, meddles, granted>>

\* advanceAndSettle at step p of r, with the credentials in a.
Settles(f, r, p, a) ==
  /\ Bindable(r, p, a)
  /\ Store(f, Settled(r, p, a))
  /\ app' = Bound(r, p, a)

\* startIntegrationSetup: setup chooses no credential, the other modes name one,
\* and reauthentication marks what is to be authorized again.  A brokered
\* connection is no credential that could be named.
Start(f, journal, target, oauth, reauth) ==
  LET hasOauth == OAuthAhead(journal, 1)
      auth == IF reauth THEN "reauthentication-required" ELSE "unknown"
      row == [NoFlow EXCEPT !.journal = journal, !.rev = 1, !.auth = auth,
                            !.target = target, !.oauth = oauth,
                            !.digest = IF target = None THEN 0 ELSE app[target].ver]
      marked == IF reauth /\ oauth = None THEN [app EXCEPT ![target].blocked = TRUE] ELSE app
  IN  /\ flow[f].status = "none"
      /\ target \in LiveApps \cup {None} /\ oauth \in LiveAccounts \cup {None}
      /\ target = None => oauth = None /\ ~reauth
      /\ oauth # None => \E i \in DOMAIN journal : journal[i] = "oauth"
      /\ reauth /\ hasOauth => oauth # None
      /\ Settles(f, row, 1, marked)
      /\ account' = IF reauth /\ oauth # None
                      THEN [account EXCEPT ![oauth].usable = FALSE] ELSE account
      /\ UNCHANGED Others

Awaits(f, kind) == flow[f].status = "awaiting-input" /\ ActiveKind(f) = kind

\* acknowledgeIntegrationSetupInstruction.
Acknowledge(f) ==
  /\ Referenced(f) /\ Awaits(f, "instruction")
  /\ Settles(f, flow[f], flow[f].pos + 1, app)
  /\ UNCHANGED <<account, Others>>

\* Credential `a` is the target now, in the version it has in `apps`.
Targeting(f, apps, a) ==
  [flow[f] EXCEPT !.target = a, !.digest = apps[a].ver, !.createAdd = FALSE]

\* The target is good: its binding becomes active, and so does the flow unless
\* it has to be authorized.  Or it lacks a required field and the flow fails.
Adopt(f, r, apps) ==
  IF ~apps[r.target].whole
    THEN /\ Store(f, Failed(r))
         /\ app' = [apps EXCEPT ![r.target].blocked = TRUE]
    ELSE LET bound == [apps EXCEPT ![r.target].blocked = FALSE]
             row == [r EXCEPT !.auth = IF OAuthAhead(r.journal, r.pos) THEN @ ELSE "active"]
         IN  Settles(f, row, r.pos + 1, bound)

\* submitIntegrationSetupCredentials updates the target if it is still the
\* version that was chosen.  (BlindWrite does not compare.)
BlindWrite(r) == app[r.target].live
AsChosen(r) == app[r.target].live /\ app[r.target].ver = r.digest

SubmitToTarget(f) ==
  LET r == flow[f]
  IN  /\ Referenced(f) /\ Awaits(f, "credential") /\ r.target # None
      /\ AsChosen(r)
      /\ \E whole \in {app[r.target].whole, TRUE} :
           LET apps == [app EXCEPT ![r.target].ver = @ + 1, ![r.target].whole = whole]
           IN  Adopt(f, Targeting(f, apps, r.target), apps)
      /\ UNCHANGED <<account, Others>>

\* Without a target it asks if there are others, or creates a credential.
SubmitAsks(f) ==
  /\ Referenced(f) /\ Awaits(f, "credential") /\ flow[f].target = None
  /\ ~flow[f].createAdd /\ LiveApps # {}
  /\ Store(f, Paused(flow[f], LiveApps))
  /\ UNCHANGED <<stores, Others>>

SubmitNew(f, a) ==
  /\ Referenced(f) /\ Awaits(f, "credential") /\ flow[f].target = None
  /\ flow[f].createAdd \/ LiveApps = {}
  /\ app[a] = NoApp
  /\ LET apps == [app EXCEPT ![a] = NewApp] IN Adopt(f, Targeting(f, apps, a), apps)
  /\ UNCHANGED <<account, Others>>

\* confirmIntegrationSetupDuplicate for the credential step: reuse, replace,
\* create another.  Candidates that were deleted are no longer offered.
Chooses(f, kind) ==
  Referenced(f) /\ flow[f].status = "awaiting-confirmation" /\ ActiveKind(f) = kind

Decided(r, status) == Moved([r EXCEPT !.status = status, !.cands = {}])

ReuseApp(f, a) ==
  /\ Chooses(f, "credential") /\ a \in flow[f].cands \cap LiveApps
  /\ Adopt(f, Decided(Targeting(f, app, a), "awaiting-input"), app)
  /\ UNCHANGED <<account, Others>>

ReplaceApp(f, a) ==
  /\ Chooses(f, "credential") /\ a \in flow[f].cands \cap LiveApps
  /\ Store(f, Decided(Targeting(f, app, a), "awaiting-input"))
  /\ UNCHANGED <<stores, Others>>

CreateApp(f) ==
  /\ Chooses(f, "credential")
  /\ Store(f, Decided([flow[f] EXCEPT !.target = None, !.digest = 0, !.createAdd = TRUE],
                      "awaiting-input"))
  /\ UNCHANGED <<stores, Others>>

\* confirmOAuthDuplicate, for the OAuth step.  Reuse adopts an account of the
\* same app as it is, and the step is done without authorization.
ReuseAccount(f, o) ==
  LET r == Decided([flow[f] EXCEPT !.oauth = o, !.oauthAdd = FALSE, !.auth = "active"],
                   "awaiting-oauth")
  IN  /\ Chooses(f, "oauth") /\ o \in flow[f].cands \cap LiveAccounts
      /\ account[o].usable /\ account[o].app = flow[f].target
      /\ Settles(f, r, r.pos + 1, app)
      /\ UNCHANGED <<account, Others>>

ReplaceAccount(f, o) ==
  /\ Chooses(f, "oauth") /\ o \in flow[f].cands \cap LiveAccounts
  /\ Store(f, Decided([flow[f] EXCEPT !.oauth = o, !.oauthAdd = FALSE], "awaiting-oauth"))
  /\ UNCHANGED <<stores, Others>>

CreateAccount(f) ==
  /\ Chooses(f, "oauth")
  /\ Store(f, Decided([flow[f] EXCEPT !.oauth = None, !.oauthAdd = TRUE], "awaiting-oauth"))
  /\ UNCHANGED <<stores, Others>>

\* submitIntegrationSetupDiscovery, where the OAuth callback left off.
Discover(f) ==
  /\ Referenced(f) /\ flow[f].status = "discovering" /\ ActiveKind(f) = "diagnostic"
  /\ Settles(f, flow[f], flow[f].pos, app)
  /\ UNCHANGED <<account, Others>>

\* cancelIntegrationSetup, or cancelling the choice.
Cancel(f) ==
  /\ Referenced(f)
  /\ Store(f, Ended(flow[f], "cancelled"))
  /\ UNCHANGED <<stores, Others>>

\* startIntegrationSetupCleanup, every minute.
Sweep ==
  /\ flow' = Swept
  /\ envelope' = Purged(Swept, Unlapsed(envelope))
  /\ <<flow', envelope'>> # <<flow, envelope>>
  /\ UNCHANGED <<stores, Others>>

-----------------------------------------------------------------------------
\* The OAuth step.

\* requireAwaitingOAuthFlow.
AwaitingOAuth(f) ==
  flow[f].status = "awaiting-oauth" /\ f \notin overdue /\ ActiveKind(f) \in OAuthKinds

\* assertCredentialAuthUsable; a deleted credential has no binding to block it.
AppBlocked(a) == a \in LiveApps /\ app[a].blocked
AppReady(a) == a \in LiveApps /\ ~app[a].blocked

\* preflightOAuthAccountChoice: accounts that appeared since the step began.
Initiates(f) ==
  /\ AwaitingOAuth(f) /\ ActiveKind(f) = "oauth"
  /\ AppReady(flow[f].target) /\ app[flow[f].target].whole
  /\ flow[f].oauth # None => flow[f].oauth \in LiveAccounts

Preflight(f) ==
  /\ Initiates(f) /\ flow[f].oauth = None /\ ~flow[f].oauthAdd /\ LiveAccounts # {}
  /\ StoreOnly(f, Paused(flow[f], LiveAccounts), envelope)
  /\ UNCHANGED <<stores, Others>>

\* generateAuthUrl: a fresh state, and an envelope that replaces the flow's last.
Initiate(f) ==
  /\ Initiates(f) /\ (flow[f].oauth # None \/ flow[f].oauthAdd \/ LiveAccounts = {})
  /\ issued < MaxStates /\ issued' = issued + 1
  /\ LET r == flow[f]
         attempt == [flow |-> f, state |-> issued', app |-> r.target,
                     appVer |-> app[r.target].ver, oauth |-> r.oauth,
                     oauthVer |-> IF r.oauth = None THEN 0 ELSE account[r.oauth].ver]
     IN  envelope' = [envelope EXCEPT ![f] = [for |-> attempt, stale |-> FALSE]]
  /\ UNCHANGED <<flow, stores, exchange, overdue, seen, spent, granted, meddles>>

\* assertPendingOAuthFlowTargets and the compare and swap of the token write:
\* flow and credentials are those the user was sent away with.
TargetsHold(p) ==
  /\ flow[p.flow].oauth = p.oauth /\ flow[p.flow].target = p.app
  /\ p.app \in LiveApps /\ app[p.app].ver = p.appVer
  /\ p.oauth # None => p.oauth \in LiveAccounts /\ account[p.oauth].ver = p.oauthVer

\* failDurableOAuthFlow; ended and expired flows stay as they are.
\* (FailAnyway does not look.)
FailAnyway(f) == flow[f].status # "none"
CanFail(f) == flow[f].status \in Working /\ f \notin overdue

Fail(f, env) == StoreOnly(f, IF CanFail(f) THEN Failed(flow[f]) ELSE flow[f], env)

\* markOAuthAppCredentialRepairRequired.
Repair(p) ==
  IF flow[p.flow].target = p.app /\ app[p.app].live
    THEN [app EXCEPT ![p.app].blocked = TRUE] ELSE app

\* The provider refuses: the app's configuration, the user's denial, or
\* something worth another try.
Refused(p, why, env) ==
  /\ IF why = "retry" THEN StoreOnly(p.flow, flow[p.flow], env) ELSE Fail(p.flow, env)
  /\ app' = IF why = "app" THEN Repair(p) ELSE app

Refusals == {"app", "denied", "retry"}

\* consumePendingFlow deletes the envelope before the first await.
\* (Remember leaves it.)
Remember(f) == envelope
Consume(f) == [envelope EXCEPT ![f] = None]

Spend(f) == spent' = spent \cup {envelope[f].for.state}

\* A callback with an error from the provider.
CallbackError(f, why) ==
  /\ envelope[f] # None /\ Direct(envelope[f].for)
  /\ IF envelope[f].stale
       THEN StoreOnly(f, flow[f], Consume(f)) /\ UNCHANGED app
       ELSE Refused(envelope[f].for, why, Consume(f))
  /\ Spend(f)
  /\ UNCHANGED <<account, exchange, overdue, seen, issued, granted, meddles>>

\* A callback with a code: the exchange begins, unless things have changed.
Callback(x, f) ==
  LET p == envelope[f].for
      holds == ~envelope[f].stale /\ AwaitingOAuth(f) /\ TargetsHold(p)
  IN  /\ envelope[f] # None /\ Direct(p) /\ exchange[x] = None
      /\ IF holds /\ app[p.app].blocked
           THEN Fail(f, Consume(f))
           ELSE StoreOnly(f, flow[f], Consume(f))
      /\ exchange' = [exchange EXCEPT ![x] = IF holds /\ AppReady(p.app) THEN p ELSE None]
      /\ Spend(f)
      /\ UNCHANGED <<stores, overdue, seen, issued, granted, meddles>>

Done(x) == exchange' = [exchange EXCEPT ![x] = None]

\* The token endpoint refuses, or the answer lacks a required scope.
ExchangeFails(x, why) ==
  /\ Direct(exchange[x]) /\ Done(x)
  /\ Refused(exchange[x], why, envelope)
  /\ UNCHANGED <<account, overdue, seen, issued, spent, granted, meddles>>

ExchangeReduced(x) ==
  /\ Direct(exchange[x]) /\ AwaitingOAuth(exchange[x].flow)
  /\ ~AppBlocked(exchange[x].app) /\ Done(x)
  /\ Fail(exchange[x].flow, envelope)
  /\ UNCHANGED <<stores, overdue, seen, issued, spent, granted, meddles>>

\* Tokens arrive: saveOAuthCredential.  The account the user chose has to be the
\* one that was authorized.
SamePerson(o, who) == o # None => account[o].who \in {Unknown, who}

\* matchingAccountBindingIds.
\* (NoTwins finds none.)
NoTwins(o, who) == {}
Twins(o, who) == {q \in LiveAccounts \ {o} : who # Unknown /\ account[q].who = who}

\* completeDurableOAuthFlow advances to the next step without settling it.
\* (StayHere does not advance.)
Authorized(r, o) == [r EXCEPT !.cands = {}, !.auth = "active", !.oauthAdd = FALSE, !.oauth = o]

StayHere(f, o) == Moved(Authorized(flow[f], o))
Completed(f, o) == AdvancedTo(Authorized(flow[f], o), flow[f].pos + 1)

Tokens(x, who) ==
  LET p == exchange[x]
      r == flow[p.flow]
  IN  /\ Direct(p) /\ AwaitingOAuth(p.flow) /\ AppReady(p.app)
      /\ TargetsHold(p) /\ SamePerson(r.oauth, who)
      /\ Done(x)
      /\ UNCHANGED <<app, overdue, seen, issued, spent, meddles>>

\* The account turns out to be connected already: the tokens are dropped.
TokensAsk(x, who) ==
  LET p == exchange[x] r == flow[p.flow] IN
  /\ Tokens(x, who)
  /\ ~r.oauthAdd /\ Twins(r.oauth, who) # {}
  /\ StoreOnly(p.flow, [Paused(r, Twins(r.oauth, who)) EXCEPT !.oauthAdd = FALSE], envelope)
  /\ UNCHANGED <<account, granted>>

\* A new account, or new tokens for o.
Connected(o, who, a, extra) ==
  [account EXCEPT ![o] =
     [live |-> TRUE, ver |-> account[o].ver + 1, who |-> who, usable |-> TRUE, app |-> a,
      extra |-> account[o].extra \/ extra]]

TokensStored(x, who, o) ==
  LET p == exchange[x] r == flow[p.flow] IN
  /\ Tokens(x, who)
  /\ r.oauthAdd \/ Twins(r.oauth, who) = {}
  /\ IF r.oauth = None THEN account[o] = NoAccount ELSE o = r.oauth
  /\ account' = Connected(o, who, p.app, r.oauthAdd)
  /\ StoreOnly(p.flow, Completed(p.flow, o), envelope)
  /\ granted' = [granted EXCEPT ![p.flow] = @ + 1]

\* Or they are useless by now, and if the app is blocked the flow fails.
TokensDropped(x, who) ==
  LET p == exchange[x] IN
  /\ Direct(p) /\ Done(x)
  /\ ~(AwaitingOAuth(p.flow) /\ AppReady(p.app) /\ TargetsHold(p)
       /\ SamePerson(flow[p.flow].oauth, who))
  /\ IF AwaitingOAuth(p.flow) /\ AppBlocked(p.app)
       THEN Fail(p.flow, envelope) ELSE StoreOnly(p.flow, flow[p.flow], envelope)
  /\ UNCHANGED <<stores, overdue, seen, issued, spent, granted, meddles>>

-----------------------------------------------------------------------------
\* The OAuth step by a broker, which keeps the tokens.

\* The broker names the connection, and its correlation replaces the flow's
\* last.  (The flow is looked at before and after the broker's answer; what
\* happens between makes no difference, so the model has the second look only.)
BrokerInitiate(f) ==
  /\ AwaitingOAuth(f) /\ ActiveKind(f) = "broker"
  /\ issued < MaxStates /\ issued' = issued + 1
  /\ envelope' = [envelope EXCEPT ![f] =
       [for |-> [flow |-> f, state |-> issued', app |-> None, appVer |-> 0,
                 oauth |-> None, oauthVer |-> 0],
        stale |-> FALSE]]
  /\ UNCHANGED <<flow, stores, exchange, overdue, seen, spent, granted, meddles>>

\* processBrokerCallback reads the correlation without claiming it, which
\* deletes one that has lapsed, and verifies the account with the broker.
BrokerCallback(x, f) ==
  /\ envelope[f] # None /\ Brokered(envelope[f].for) /\ exchange[x] = None
  /\ \/ /\ envelope[f].stale
        /\ envelope' = Consume(f) /\ UNCHANGED exchange
     \/ /\ ~envelope[f].stale /\ AwaitingOAuth(f)
        /\ exchange' = [exchange EXCEPT ![x] = envelope[f].for]
        /\ UNCHANGED envelope
  /\ UNCHANGED <<flow, stores, overdue, seen, issued, spent, granted, meddles>>

\* The last transaction claims the correlation, if it is still there, and
\* completes the step; or it is undone and another callback may try again.
Claimable(p) ==
  LET e == envelope[p.flow] IN e # None /\ ~e.stale /\ e.for = p

BrokerConfirms(x) ==
  LET p == exchange[x] IN
  /\ Brokered(p) /\ Claimable(p) /\ AwaitingOAuth(p.flow) /\ Done(x)
  /\ Spend(p.flow)
  /\ StoreOnly(p.flow, Completed(p.flow, flow[p.flow].oauth), Consume(p.flow))
  /\ granted' = [granted EXCEPT ![p.flow] = @ + 1]
  /\ UNCHANGED <<stores, overdue, seen, issued, meddles>>

\* The broker does not know the account as active, or the claim fails.
BrokerDoubts(x) ==
  /\ Brokered(exchange[x]) /\ Done(x)
  /\ UNCHANGED <<flow, envelope, stores, overdue, seen, issued, spent, granted, meddles>>

\* The process dies with its exchanges.
Crash ==
  /\ \E x \in Request : exchange[x] # None
  /\ exchange' = [x \in Request |-> None]
  /\ UNCHANGED <<flow, envelope, stores, overdue, seen, issued, spent, granted, meddles>>

-----------------------------------------------------------------------------
\* Everything else that touches the credentials.
Meddle == meddles < MaxMeddles /\ meddles' = meddles + 1
Elsewhere == <<flow, envelope, exchange, overdue, seen, issued, spent, granted>>

\* The credential routes: another one, an edit, a deletion.
AddApp(a) ==
  /\ Meddle /\ app[a] = NoApp
  /\ app' = [app EXCEPT ![a] = NewApp]
  /\ UNCHANGED <<account, Elsewhere>>

EditApp(a) ==
  /\ Meddle /\ a \in LiveApps
  /\ \E whole \in BOOLEAN : app' = [app EXCEPT ![a].ver = @ + 1, ![a].whole = whole]
  /\ UNCHANGED <<account, Elsewhere>>

Removed(row) == [row EXCEPT !.live = FALSE]

DeleteApp(a) ==
  /\ Meddle /\ a \in LiveApps
  /\ app' = [app EXCEPT ![a] = Removed(@)]
  /\ UNCHANGED <<account, Elsewhere>>

DeleteAccount(o) ==
  /\ Meddle /\ o \in LiveAccounts
  /\ account' = [account EXCEPT ![o] = Removed(@)]
  /\ UNCHANGED <<app, Elsewhere>>

\* Another flow connects an account: of a person who has none yet, unless its
\* user asked for an additional one.
ConnectElsewhere(o, who, extra) ==
  /\ Meddle /\ account[o] = NoAccount
  /\ extra \/ Twins(o, who) = {}
  /\ \E a \in LiveApps : account' = Connected(o, who, a, extra)
  /\ UNCHANGED <<app, Elsewhere>>

\* A token refresh: new tokens, and the binding may need reauthentication.
RefreshAccount(o) ==
  /\ Meddle /\ o \in LiveAccounts
  /\ \E usable \in BOOLEAN :
       account' = [account EXCEPT ![o].ver = @ + 1, ![o].usable = usable]
  /\ UNCHANGED <<app, Elsewhere>>

\* Time: an envelope lapses after ten minutes, a flow after its lifetime, and
\* no envelope outlives its flow.
Stale(f, env) == [env EXCEPT ![f] = IF @ = None THEN None ELSE [@ EXCEPT !.stale = TRUE]]

EnvelopeLapses(f) ==
  /\ envelope[f] # None /\ ~envelope[f].stale
  /\ envelope' = Stale(f, envelope)
  /\ UNCHANGED <<flow, stores, Others>>

FlowLapses(f) ==
  /\ flow[f].status \in Working /\ f \notin overdue
  /\ overdue' = overdue \cup {f}
  /\ envelope' = Stale(f, envelope)
  /\ UNCHANGED <<flow, stores, exchange, seen, issued, spent, granted, meddles>>

Operation(f) ==
  \/ Look(f) \/ Acknowledge(f) \/ SubmitToTarget(f) \/ SubmitAsks(f)
  \/ CreateApp(f) \/ CreateAccount(f) \/ Discover(f) \/ Cancel(f)
  \/ \E a \in App : SubmitNew(f, a) \/ ReuseApp(f, a) \/ ReplaceApp(f, a)
  \/ \E o \in Account : ReuseAccount(f, o) \/ ReplaceAccount(f, o)
  \/ \E j \in Journals, t \in App \cup {None}, o \in Account \cup {None}, re \in BOOLEAN :
       Start(f, j, t, o, re)

OAuthRoute(f) ==
  \/ Preflight(f) \/ Initiate(f)
  \/ \E why \in Refusals : CallbackError(f, why)
  \/ \E x \in Request : Callback(x, f) \/ BrokerCallback(x, f)
  \/ BrokerInitiate(f)

ExchangeEnds(x) ==
  \/ \E why \in Refusals : ExchangeFails(x, why)
  \/ ExchangeReduced(x) \/ BrokerConfirms(x) \/ BrokerDoubts(x)
  \/ \E who \in Identity \cup {Unknown} :
       \/ TokensAsk(x, who) \/ TokensDropped(x, who)
       \/ \E o \in Account : TokensStored(x, who, o)

Environment ==
  \/ \E a \in App : AddApp(a) \/ EditApp(a) \/ DeleteApp(a)
  \/ \E o \in Account :
       \/ DeleteAccount(o) \/ RefreshAccount(o)
       \/ \E who \in Identity \cup {Unknown}, extra \in BOOLEAN : ConnectElsewhere(o, who, extra)
  \/ \E f \in Flow : EnvelopeLapses(f) \/ FlowLapses(f)

Next ==
  \/ \E f \in Flow : Operation(f) \/ OAuthRoute(f)
  \/ \E x \in Request : ExchangeEnds(x)
  \/ Sweep \/ Crash \/ Environment

Spec == Init /\ [][Next]_vars

-----------------------------------------------------------------------------
\* However many authorizations of one flow overlap, directly or at the broker,
\* and whatever is decided meanwhile, at most one of them takes effect.
OneGrant == \A f \in Flow : granted[f] <= 1

\* "Callback state is one-time": no envelope is left for a state that was
\* redeemed or refused, and none for a flow that has ended.
SecretsAreSpent ==
  \A f \in Flow : envelope[f] # None =>
    flow[f].status \in Working /\ envelope[f].for.state \notin spent

\* A flow that has ended, or whose time is over, is not brought back by a late
\* callback, a failure or a client: all that can happen to it is to expire.
EndIsFinal ==
  [][ \A f \in Flow :
        flow[f].status \in Terminal \/ f \in overdue =>
          \/ flow'[f] = flow[f]
          \/ flow[f].status \in Working /\ flow'[f].status = "expired"
    ]_vars

\* A flow overwrites a credential only in the version that the user chose or
\* was sent away with: an edit or a token refresh since is not lost.
NoLostWrite ==
  [][ meddles' = meddles =>
        /\ \A a \in LiveApps : app'[a].ver # app[a].ver =>
             \E f \in Flow : /\ flow'[f] # flow[f]
                            /\ flow[f].target = a /\ flow[f].digest = app[a].ver
        /\ \A o \in LiveAccounts : account'[o].ver # account[o].ver =>
             \E x \in Request : /\ exchange[x] # None /\ exchange'[x] = None
                               /\ exchange[x].oauth = o
                               /\ exchange[x].oauthVer = account[o].ver
    ]_vars

\* Setup connects no account twice unless the user asked for an additional one,
\* even when another flow connects the same person at the same time.
TwinsAreApproved ==
  \A o, q \in LiveAccounts :
    o # q /\ account[o].who = account[q].who /\ account[o].who # Unknown =>
      account[o].extra \/ account[q].extra
=============================================================================
