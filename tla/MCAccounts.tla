----------------------------- MODULE MCAccounts ------------------------------
EXTENDS Accounts, TLC

CONSTANTS owner, a1, a2

\* Identities come and go; verification; the second factor with wrong codes
\* and logins, with its own removal, and under an account that is deleted, with
\* wrong codes and with logins; tickets.
MCWorkloads ==
  { [ids |-> {owner, a1, a2}, kinds |-> {"register", "login", "delete", "purge"}],
    [ids |-> {a1}, kinds |-> {"register", "verify", "resend", "delete"}],
    [ids |-> {owner}, kinds |-> {"setup", "confirm", "guess", "login", "mfa"}],
    [ids |-> {owner}, kinds |-> {"setup", "confirm", "disable", "regenerate"}],
    [ids |-> {a1}, kinds |-> {"register", "setup", "confirm", "guess", "delete"}],
    [ids |-> {a1}, kinds |-> {"register", "setup", "confirm", "delete", "login", "mfa"}],
    [ids |-> {owner}, kinds |-> {"login", "logout", "gateway"}] }

Symmetry == Permutations(Calls) \cup Permutations({a1, a2}) \cup Permutations(Names)
=============================================================================
