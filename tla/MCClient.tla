------------------------------- MODULE MCClient -------------------------------
(***************************************************************************)
(* TLC instance: two accounts.                                             *)
(***************************************************************************)
EXTENDS Client, TLC

CONSTANTS u1, u2

MCUsers == {u1, u2}
=============================================================================
