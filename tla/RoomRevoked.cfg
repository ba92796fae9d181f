SPECIFICATION Spec
CONSTANTS
  s1 = s1
  s2 = s2
  house = house
  rival = rival
  auction1 = auction1
  auction2 = auction2
  x1 = x1
  u1 = u1
  e1 = e1
  e2 = e2
  NoOffice = NoOffice
  q1 = q1
  g1 = g1
  AuctionOf <- MCAuctionOf
  Tokens <- MCTokens
  Sockets = {s1}
  Auctions = {auction1, auction2}
  Offices = {house, rival}
  Accesses = {x1}
  Users = {u1}
  Requests = {q1}
  Calls <- JoinCalls
  Uploads = {g1}
  UploadCalls <- OneSnapshot
  Events = {e1}
  RateWindow = 1
  IdTtl = 2
  IdLimit = 1
  CaptureSkew = 1
  MaxTime = 0
SYMMETRY RequestSymmetry
INVARIANTS RevokedHearsNothing
CHECK_DEADLOCK FALSE
