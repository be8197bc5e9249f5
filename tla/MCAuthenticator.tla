--------------------------- MODULE MCAuthenticator ---------------------------
(***************************************************************************)
(* TLC instance: two accounts, which are interchangeable.                  *)
(***************************************************************************)
EXTENDS Authenticator, TLC

CONSTANTS alice, bob

MCUsers == {alice, bob}
UserSymmetry == Permutations(MCUsers)
=============================================================================
