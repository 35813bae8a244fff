--------------------------- MODULE TokenRegister ---------------------------
(***************************************************************************)
(* What refreshing an OAuth credential promises, without leases, polling,  *)
(* ciphertexts or a provider: a register that holds one token tuple and    *)
(* its authorisation status, a lock, and clients each of which remembers   *)
(* the tuple it set out to replace.  A client changes the register only    *)
(* while it owns the lock, and only if the register still holds the tuple  *)
(* the client set out from.  The user may do anything at any time.         *)
(***************************************************************************)
EXTENDS Naturals

CONSTANTS
  Proc,    \* the clients
  NoProc,  \* "nobody owns the lock", not a client
  NoClaim  \* "this client is not refreshing", not a tuple

VARIABLES
  tuple,   \* the stored token tuple, a natural number that names it
  status,  \* its authorisation status, "deleted" once the credential is gone
  owner,   \* the client that may write, or NoProc
  claim    \* claim[p]: the tuple p set out to replace, or NoClaim

vars == <<tuple, status, owner, claim>>

Status == {"none", "active", "expired", "reauth", "deleted"}

TypeOK ==
  /\ tuple \in Nat
  /\ status \in Status
  /\ owner \in Proc \cup {NoProc}
  /\ claim \in [Proc -> Nat \cup {NoClaim}]

Init ==
  /\ tuple \in Nat
  /\ status \in Status \ {"deleted"}
  /\ owner = NoProc
  /\ claim = [p \in Proc |-> NoClaim]

\* A client begins: it remembers the tuple that is stored now.
Begin(p) ==
  /\ claim[p] = NoClaim
  /\ status # "deleted"
  /\ claim' = [claim EXCEPT ![p] = tuple]
  /\ UNCHANGED <<tuple, status, owner>>

\* The lock changes hands.  Nothing is promised about who gets it or when: a
\* client that stopped renewing may lose it.
ChangeOwner ==
  /\ owner' \in Proc \cup {NoProc}
  /\ UNCHANGED <<tuple, status, claim>>

\* The owner replaces exactly the tuple it set out from.
Rotate(p) ==
  /\ owner = p
  /\ status # "deleted"
  /\ claim[p] = tuple
  /\ tuple' \in Nat
  /\ status' \in {"active", "reauth"}
  /\ UNCHANGED <<owner, claim>>

\* The owner reports that it cannot replace the tuple it set out from.
Reject(p) ==
  /\ owner = p
  /\ status # "deleted"
  /\ claim[p] = tuple
  /\ status' = "reauth"
  /\ UNCHANGED <<tuple, owner, claim>>

\* A client stops, by finishing or by crashing; if it owned the lock the lock
\* may be freed in the same step.
End(p) ==
  /\ claim[p] # NoClaim
  /\ claim' = [claim EXCEPT ![p] = NoClaim]
  /\ owner' \in {owner, NoProc}
  /\ UNCHANGED <<tuple, status>>

\* Clock and bookkeeping: a status that was never set is derived, an active
\* one may turn out to have expired.  It never leaves "reauth" this way.
Derive ==
  /\ \/ status = "none" /\ status' \in {"active", "expired", "reauth"}
     \/ status = "active" /\ status' \in {"expired", "reauth"}
  /\ UNCHANGED <<tuple, owner, claim>>

\* The user connects again, edits the tokens by hand, or deletes.
Replace ==
  /\ status # "deleted"
  /\ tuple' \in Nat
  /\ status' \in {status, "active"}
  /\ UNCHANGED <<owner, claim>>

Delete ==
  /\ status # "deleted"
  /\ status' = "deleted"
  /\ owner' = NoProc
  /\ UNCHANGED <<tuple, claim>>

Next ==
  \/ \E p \in Proc : Begin(p) \/ Rotate(p) \/ Reject(p) \/ End(p)
  \/ ChangeOwner \/ Derive \/ Replace \/ Delete

Spec == Init /\ [][Next]_vars
=============================================================================
