--------------------------- MODULE MCAuctionFloor ---------------------------
(***************************************************************************)
(* Instances of AuctionFloor for TLC: one auction with the lots l1 and l2, *)
(* the bidders u1 and u2 and one operator access.  Each configuration      *)
(* chooses how many requests run concurrently and which calls they carry.  *)
(***************************************************************************)
EXTENDS AuctionFloor, TLC

CONSTANTS l1, l2, auction1, house, seller, u1, u2, op1

MCAuctionOf == [l \in Lots |-> auction1]
MCHouseOf == [a \in Auctions |-> house]
MCSellerOf == [l \in Lots |-> seller]
MCConsignedTo == [l \in Lots |-> house]
MCAccessAuction == [a \in Accesses |-> auction1]
MCInitialPrice == [l \in Lots |-> IF l = l1 THEN 5 ELSE NoPrice]

OnlineBid(l, u, n) == [kind |-> "bid", lot |-> l, bidder |-> u, amount |-> n, access |-> Online]
OnSiteBid(l, u, n) == [kind |-> "bid", lot |-> l, bidder |-> u, amount |-> n, access |-> op1]
StageTo(l, target) == [kind |-> "stage", lot |-> l, actor |-> house, target |-> target]
SaleOfLot(l, who) == [kind |-> "sale", lot |-> l, actor |-> who]
Removal(l, who) == [kind |-> "removeLot", lot |-> l, actor |-> who]
AuctionRemoval == [kind |-> "removeAuction", auction |-> auction1, actor |-> house]
UserRemoval(u) == [kind |-> "removeUser", user |-> u]

\* Bids racing on one lot: the last has to beat three rivals to be outrun.
BidCalls == {OnlineBid(l1, u1, 5), OnSiteBid(l1, u1, 10), OnlineBid(l1, u1, 15)}

\* Bids, stage changes, sales and removals on two lots of one auction.
TradeCalls == {OnlineBid(l1, u1, 5), OnSiteBid(l1, u2, 10), OnlineBid(l2, u1, 0),
               StageTo(l1, "IN_AUCTION"), StageTo(l1, "AVAILABLE"), StageTo(l2, "IN_AUCTION"),
               SaleOfLot(l1, house), SaleOfLot(l1, seller), Removal(l1, seller),
               UserRemoval(u1), AuctionRemoval}

\* One sale among bids and stage changes.
SaleCalls == {OnlineBid(l1, u1, 5), OnSiteBid(l1, u2, 10), SaleOfLot(l1, house),
              StageTo(l1, "IN_AUCTION"), StageTo(l1, "AVAILABLE")}

\* A call of each kind that has to end, with bids online and through an operator access.
EndingCalls == {OnlineBid(l1, u1, 5), OnSiteBid(l1, u1, 10), StageTo(l1, "AVAILABLE"),
                SaleOfLot(l1, house), Removal(l1, house), UserRemoval(u1),
                UserRemoval(seller), AuctionRemoval}

RequestSymmetry == Permutations(Requests)
=============================================================================
