-------------------------- MODULE MCOperatorAccess --------------------------
(***************************************************************************)
(* Instances of OperatorAccess for TLC: one auction of the office `house', *)
(* two accesses and a handful of codes.                                    *)
(***************************************************************************)
EXTENDS OperatorAccess, TLC

CONSTANTS a1, a2, auction1, house, rival, c1, c2, c3, ip1

MCAuctionOf == [a \in Accesses |-> auction1]
MCHouseOf == [a \in Auctions |-> house]

LoginWith(c, ip) == [kind |-> "login", code |-> c, ip |-> ip]
CreateBy(office) == [kind |-> "create", auction |-> auction1, office |-> office]
ReissueBy(office) == [kind |-> "reissue", access |-> a1, office |-> office]
RevokeBy(office) == [kind |-> "revoke", access |-> a1, office |-> office]

\* Everything that can happen to one access at the same time.
LedgerCalls == {LoginWith(c1, ip1), LoginWith(c2, ip1), CreateBy(house),
                ReissueBy(house), RevokeBy(house)}

RequestSymmetry == Permutations(Requests)
=============================================================================
