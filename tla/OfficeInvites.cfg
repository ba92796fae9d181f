SPECIFICATION MCSpec
CONSTANTS
  i1 = i1
  i2 = i2
  d1 = d1
  d2 = d2
  r1 = r1
  r2 = r2
  r3 = r3
  Invites = {i1, i2}
  Identities = {d1, d2}
  Invited <- MCInvited
  Requests = {r1, r2, r3}
  NoRequest = NoRequest
  Calls <- InviteCalls
  Lifetime = 1
  MaxTime = 1
INVARIANTS UsedIsBacked
PROPERTIES KeepsInvites EveryInviteCallEnds
CHECK_DEADLOCK FALSE
