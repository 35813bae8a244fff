------------------------- MODULE MCIntegrationSetup -------------------------
EXTENDS IntegrationSetup, TLC

\* A step of every kind, with the authorization direct or at the broker.
EveryKind == {<<"instruction", "credential", "oauth", "diagnostic">>,
              <<"credential", "broker", "diagnostic">>}

Symmetric == Permutations(App) \cup Permutations(Account) \cup Permutations(Request)
=============================================================================
