------------------------ MODULE PermissionResolution -------------------------
(***************************************************************************)
(* The permission algorithm run on every database a bounded set of values  *)
(* can make: role bitfields, assignments, and the override rows of one     *)
(* channel and its category.  Answer answers one request.                  *)
(***************************************************************************)
EXTENDS Permissions

VARIABLES requester, roleBits, assigned, category, channel, answer

input == <<requester, roleBits, assigned, category, channel>>
resolutionVars == <<input, answer>>

NoAnswer == [done |-> FALSE, perm |-> {}]

ResolutionInit ==
  /\ requester \in Users
  /\ roleBits \in [Roles -> RoleValues]
  /\ assigned \in SUBSET (Roles \ {Everyone})
  /\ category \in [Principals -> OverrideValues]
  /\ channel \in [Principals -> OverrideValues]
  /\ answer = NoAnswer

\* Resolver.Resolve on a cache miss.
Answer ==
  /\ ~answer.done
  /\ answer' = [done |-> TRUE,
                perm |-> Compute(requester, roleBits, RoleIDs(assigned), category, channel)]
  /\ UNCHANGED input

ResolutionSpec == ResolutionInit /\ [][Answer]_resolutionVars

-----------------------------------------------------------------------------
\* The four steps of compute (owner bypass, role union, category and channel
\* overrides, "deny wins at same level", user row "highest precedence") answer
\* what the reference promises for each bit.
ResolvesToReference ==
  answer.done =>
    answer.perm = Reference(requester, roleBits, RoleIDs(assigned), category, channel)
=============================================================================
