--------------------------- MODULE MCGestureRelay ---------------------------
(***************************************************************************)
(* Instances of GestureRelay and of its rooms for TLC: the office `house'  *)
(* with its auctions, a rival office that they may pass to, an operator    *)
(* access of auction1 and a buyer.                                         *)
(***************************************************************************)
EXTENDS GestureRelay, TLC

CONSTANTS s1, s2, house, rival, auction1, auction2, x1, u1, e1, e2

Operator == [kind |-> "OPERATOR", id |-> x1]
Office(o) == [kind |-> "AUCTION_HOUSE", id |-> o]
Buyer == [kind |-> "USER", id |-> u1]

MCTokens == {Operator, Office(house), Office(rival), Buyer}
NoTokens == {}
MCAuctionOf == [x \in Accesses |-> auction1]

JoinOf(s, a) == [kind |-> "auction", socket |-> s, auction |-> a]
NotifyOf(s) == [kind |-> "notifications", socket |-> s]
Snapshot(e, t, a) == [event |-> e, capturedAt |-> t, auction |-> a, office |-> house]

\* Every socket to both auctions, and an operator's private room.
JoinCalls == {JoinOf(s, a) : s \in Sockets, a \in Auctions} \cup {NotifyOf(s) : s \in Sockets}

\* The same gesture again, and another one, for two auctions.
GestureCalls == {Snapshot(e1, 2, auction1), Snapshot(e2, 2, auction1), Snapshot(e2, 2, auction2)}

OneSnapshot == {Snapshot(e1, 0, auction1)}

NoCalls == {}

RequestSymmetry == Permutations(Requests)
UploadSymmetry == Permutations(Uploads)
=============================================================================
