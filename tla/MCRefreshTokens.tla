--------------------------- MODULE MCRefreshTokens ---------------------------
EXTENDS RefreshTokens, TLC

\* Users, tokens and calls are interchangeable.
Symmetry == Permutations(Users) \cup Permutations(Tokens) \cup Permutations(Calls)
=============================================================================
