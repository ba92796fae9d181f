--------------------------- MODULE MCAuctionDesk ---------------------------
(***************************************************************************)
(* AuctionDesk for TLC: one auction of the office `house', a rival that it *)
(* may pass to, and one buyer.                                             *)
(***************************************************************************)
EXTENDS AuctionDesk, TLC

CONSTANTS auction1, house, rival, buyer1

AtDesk(k) == [kind |-> k, auction |-> auction1, office |-> house]
ReviewAs(s) == [kind |-> "review", auction |-> auction1, office |-> house,
                buyer |-> buyer1, status |-> s]
MineAs(s) == [kind |-> "reviewMine", office |-> house, buyer |-> buyer1, status |-> s]

DeskCalls == {AtDesk("create"), AtDesk("remove"), AtDesk("upload"), AtDesk("clear"),
              [kind |-> "update", auction |-> auction1, office |-> house, to |-> rival]}

BuyerCalls == {ReviewAs("BLOCKED"), MineAs("APPROVED"),
               [kind |-> "register", auction |-> auction1, buyer |-> buyer1],
               [kind |-> "registerAt", office |-> house, buyer |-> buyer1],
               [kind |-> "profile", buyer |-> buyer1],
               [kind |-> "leave", buyer |-> buyer1]}

MCCalls == DeskCalls \cup BuyerCalls

RequestSymmetry == Permutations(Requests)
=============================================================================
