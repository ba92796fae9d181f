SPECIFICATION StreamSpec
CONSTANTS
  r1 = r1
  r2 = r2
  r3 = r3
  auction1 = auction1
  auction2 = auction2
  house = house
  rival = rival
  s1 = s1
  s2 = s2
  s3 = s3
  Auctions = {auction1, auction2}
  Houses = {house, rival}
  User = User
  Sockets = {s1, s2, s3}
  ActorOf <- MCActorOf
  None = None
  Requests = {r1, r2, r3}
  Calls <- StreamCalls
SYMMETRY RequestSymmetry
INVARIANTS TypeOK
PROPERTIES OfficesSettle SlotChangesHands EndedOnceSettled
CHECK_DEADLOCK FALSE
