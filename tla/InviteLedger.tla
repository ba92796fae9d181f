---------------------------- MODULE InviteLedger ----------------------------
(***************************************************************************)
(* What office invites promise, as atomic operations: an invite is issued, *)
(* and is either spent on one new office or made void.  An office          *)
(* comes from one invite and no two offices share an identity.             *)
(***************************************************************************)
CONSTANTS Invites, Identities

VARIABLES
  phase,   \* "none", "open", "spent" or "void", for each invite
  offices  \* offices opened: the invite each came from, and its identity

vars == <<phase, offices>>

Init ==
  /\ phase \in [Invites -> {"none", "open"}]
  /\ offices = {}

Become(i, p) == phase' = [phase EXCEPT ![i] = p]

Issue(i) ==
  /\ phase[i] = "none"
  /\ Become(i, "open")
  /\ UNCHANGED offices

Spend(i, d) ==
  /\ phase[i] = "open"
  /\ \A o \in offices : o.identity # d
  /\ Become(i, "spent")
  /\ offices' = offices \cup {[invite |-> i, identity |-> d]}

\* Revoked or expired; a list may void several at once.
Void(S) ==
  /\ \A i \in S : phase[i] = "open"
  /\ phase' = [i \in Invites |-> IF i \in S THEN "void" ELSE phase[i]]
  /\ UNCHANGED offices

Next == \/ \E i \in Invites : Issue(i)
        \/ \E i \in Invites, d \in Identities : Spend(i, d)
        \/ \E S \in SUBSET Invites : Void(S)

Spec == Init /\ [][Next]_vars
=============================================================================
