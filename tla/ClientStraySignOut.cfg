SPECIFICATION Spec
CONSTANTS
  u1 = u1
  u2 = u2
  Users <- MCUsers
  NoUser = NoUser
  Limit = 1
  MaxSent = 7
INVARIANTS HoldsSession
