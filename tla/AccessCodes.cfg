SPECIFICATION Spec
CONSTANTS
  r1 = r1
  r2 = r2
  r3 = r3
  a1 = a1
  a2 = a2
  auction1 = auction1
  house = house
  rival = rival
  c1 = c1
  c2 = c2
  c3 = c3
  ip1 = ip1
  Accesses = {a1, a2}
  Auctions = {auction1}
  AuctionOf <- MCAuctionOf
  Offices = {house, rival}
  HouseOf <- MCHouseOf
  Codes = {c1, c2, c3}
  NoCode = NoCode
  Addresses = {ip1}
  Requests = {r1, r2, r3}
  Calls <- LedgerCalls
  Second = 2
  Lifetime = 1
  Window = 1
  FailureLimit = 2
  MaxTime = 1
SYMMETRY RequestSymmetry
INVARIANTS TypeOK CodesInvariant OneSessionPerAccess SessionCodeIsFinal ReissuesAreLinear UsedIsPaidFor
PROPERTIES KeepsLedger RevokedStaysOut BlockedStaysBlocked
CHECK_DEADLOCK FALSE
