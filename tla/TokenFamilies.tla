---------------------------- MODULE TokenFamilies ----------------------------
(***************************************************************************)
(* What the refresh-token store promises, without keys, indexes or         *)
(* deadlines: every user has a family of valid tokens; a token is valid    *)
(* for one user at a time, is issued fresh, can be exchanged once for a    *)
(* fresh one, may expire at any moment, and disappears with the rest of    *)
(* its family when the family is revoked.  A token that was valid once     *)
(* and is not any more never becomes valid again.                          *)
(***************************************************************************)
CONSTANTS Users, Tokens

VARIABLES
  valid,    \* the tokens each user can still redeem
  spent,    \* tokens that were valid and are not any more
  heir      \* the token each one was exchanged for, if any

vars == <<valid, spent, heir>>

Fresh == {t \in Tokens : t \notin spent /\ \A u \in Users : t \notin valid[u]}

Init ==
  /\ valid = [u \in Users |-> {}]
  /\ spent = {}
  /\ heir = [t \in Tokens |-> {}]

Issue(u, new) ==
  /\ new \in Fresh
  /\ valid' = [valid EXCEPT ![u] = @ \cup {new}]
  /\ UNCHANGED <<spent, heir>>

Exchange(u, old, new) ==
  /\ old \in valid[u]
  /\ new \in Fresh
  /\ valid' = [valid EXCEPT ![u] = (@ \ {old}) \cup {new}]
  /\ spent' = spent \cup {old}
  /\ heir' = [heir EXCEPT ![old] = {new}]

RevokeFamily(u) ==
  /\ valid' = [valid EXCEPT ![u] = {}]
  /\ spent' = spent \cup valid[u]
  /\ UNCHANGED heir

Expire(dead) ==
  /\ valid' = [u \in Users |-> valid[u] \ dead]
  /\ spent' = spent \cup dead
  /\ UNCHANGED heir

Next ==
  \/ \E u \in Users, new \in Tokens : Issue(u, new)
  \/ \E u \in Users, old, new \in Tokens : Exchange(u, old, new)
  \/ \E u \in Users : RevokeFamily(u)
  \/ \E dead \in SUBSET (UNION {valid[u] : u \in Users}) : Expire(dead)

Spec == Init /\ [][Next]_vars
=============================================================================
