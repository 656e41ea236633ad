---------------------------- MODULE MCMembership -----------------------------
EXTENDS Membership, TLC

CONSTANTS everyone, r1, r2, c1

MCPosition == [r \in Roles |-> IF r = everyone THEN 0 ELSE IF r = r1 THEN 1 ELSE 2]

\* Open joins and invites, every new member gets the top role.
AutoTop == {[openJoin |-> TRUE, autoRoles |-> {r1}]}

\* Invites with one role, and open joins with a role that can be assigned.
MCStarts == {[roles |-> {everyone, r1}, revoked |-> {}],
             [roles |-> {everyone, r1, r2}, revoked |-> {c1}]}

Symmetry == Permutations(Users \ {Owner}) \cup Permutations(Requests)
=============================================================================
