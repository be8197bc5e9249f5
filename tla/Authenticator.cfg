SPECIFICATION Spec
CONSTANTS
  alice = alice
  bob = bob
  Users <- MCUsers
  NoUser = NoUser
  Mechanisms = {"password", "forget", "key", "token", "otp"}
  MaxClaims = 3
SYMMETRY UserSymmetry
INVARIANTS TypeOK SlotsMatchFrames LogoutLasts AuthenticatedIsSignedIn SameAccount
PROPERTIES NeverOvertakes
