SPECIFICATION Spec
CONSTANTS
  s1 = s1
  s2 = s2
  house = house
  rival = rival
  auction1 = auction1
  auction2 = auction2
  x1 = x1
  u1 = u1
  e1 = e1
  e2 = e2
  NoOffice = NoOffice
  g1 = g1
  g2 = g2
  g3 = g3
  AuctionOf <- MCAuctionOf
  Tokens <- NoTokens
  Sockets = {}
  Auctions = {auction1, auction2}
  Offices = {house}
  Accesses = {}
  Users = {}
  Requests = {}
  Calls <- NoCalls
  Uploads = {g1, g2, g3}
  UploadCalls <- GestureCalls
  Events = {e1, e2}
  RateWindow = 1
  IdTtl = 2
  IdLimit = 1
  CaptureSkew = 1
  MaxTime = 3
SYMMETRY UploadSymmetry
INVARIANTS RelaysSpaced RepeatsSpaced
CHECK_DEADLOCK FALSE
