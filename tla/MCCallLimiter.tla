--------------------------- MODULE MCCallLimiter ---------------------------
(* Bounds for TLC: two places and five requests, so that two calls can be  *)
(* on the wire, two held from a lost socket and one sent after the loss.   *)
EXTENDS CallLimiter
=============================================================================
