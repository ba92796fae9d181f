--------------------------- MODULE MCOfficeInvite ---------------------------
(***************************************************************************)
(* OfficeInvite for TLC: two invites, of which the second is addressed to  *)
(* one e-mail only, and two identities.                                    *)
(***************************************************************************)
EXTENDS OfficeInvite, TLC

CONSTANTS i1, i2, d1, d2

MCInvited == [i \in Invites |-> IF i = i2 THEN {d1} ELSE Identities]

RegisterAs(i, d) == [kind |-> "register", invite |-> i, identity |-> d]

\* Two applicants for one invite, one of them for the other invite too, and
\* whatever else may touch the first.
InviteCalls == {RegisterAs(i1, d1), RegisterAs(i1, d2), RegisterAs(i2, d1),
                [kind |-> "create"], [kind |-> "list"],
                [kind |-> "revoke", invite |-> i1], [kind |-> "find", invite |-> i1]}

\* The first invite has been created before.
MCInit == Init /\ status[i1] = "PENDING"

MCSpec == MCInit /\ [][Next]_vars /\ Fairness
=============================================================================
