SPECIFICATION FairSpec
CONSTANTS
  u1 = u1
  u2 = u2
  Users <- MCUsers
  NoUser = NoUser
  Limit = 2
  MaxSent = 7
INVARIANTS TypeOK NothingHeldInSession AccountAgrees
PROPERTIES KeptCallsFindSession SignsBackIn
