--------------------------- MODULE MCOAuthRefresh ---------------------------
EXTENDS OAuthRefresh, TLC

Processes == Permutations(Proc)
=============================================================================
