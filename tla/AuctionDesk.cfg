SPECIFICATION Spec
CONSTANTS
  auction1 = auction1
  house = house
  rival = rival
  buyer1 = buyer1
  r1 = r1
  r2 = r2
  r3 = r3
  Auctions = {auction1}
  Offices = {house, rival}
  NoOffice = NoOffice
  Deleted = Deleted
  Buyers = {buyer1}
  Requests = {r1, r2, r3}
  Calls <- MCCalls
  Stored = Stored
  NoFile = NoFile
SYMMETRY RequestSymmetry
INVARIANTS ThumbnailExists
PROPERTIES ApprovalNeedsIe DecisionStands
CHECK_DEADLOCK FALSE
