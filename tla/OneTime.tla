------------------------------- MODULE OneTime -------------------------------
(***************************************************************************)
(* What a one-time credential promises, without tables, keys or deadlines: *)
(* it is issued once, redeemed at most once while it is live, and never    *)
(* comes back once it was redeemed, replaced or dropped.                   *)
(***************************************************************************)
EXTENDS Naturals

CONSTANT Credentials

VARIABLES
  live,      \* credentials that can still be redeemed
  issued,    \* credentials that were ever issued
  redeemed   \* how often each one was redeemed

vars == <<live, issued, redeemed>>

Init ==
  /\ live = {}
  /\ issued = {}
  /\ redeemed = [c \in Credentials |-> 0]

Redeem(c) ==
  /\ c \in live
  /\ live' = live \ {c}
  /\ redeemed' = [redeemed EXCEPT ![c] = @ + 1]
  /\ UNCHANGED issued

\* New credentials may be issued, and live ones replaced or dropped; what is
\* live afterwards was live before or has just been issued.
Turn ==
  /\ issued \subseteq issued' /\ issued' \subseteq Credentials
  /\ live' \subseteq live \cup (issued' \ issued)
  /\ UNCHANGED redeemed

Next == Turn \/ \E c \in Credentials : Redeem(c)

Spec == Init /\ [][Next]_vars
=============================================================================
