SPECIFICATION Spec
CONSTANTS
  r1 = r1
  r2 = r2
  r3 = r3
  r4 = r4
  l1 = l1
  l2 = l2
  auction1 = auction1
  house = house
  seller = seller
  u1 = u1
  u2 = u2
  op1 = op1
  Lots = {l1}
  Auctions = {auction1}
  AuctionOf <- MCAuctionOf
  Actors = {house, seller, u1, u2}
  HouseOf <- MCHouseOf
  SellerOf <- MCSellerOf
  ConsignedTo <- MCConsignedTo
  Users = {u1}
  Accesses = {op1}
  AccessAuction <- MCAccessAuction
  Online = Online
  NoPrice = NoPrice
  InitialPrice <- MCInitialPrice
  MinBidIncrement = 0
  Requests = {r1, r2, r3, r4}
  Calls <- BidCalls
SYMMETRY RequestSymmetry
INVARIANTS TypeOK OneWinningBid WinnerTopsHistory FailedBidWasOutrun
CHECK_DEADLOCK FALSE
