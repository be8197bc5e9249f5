---------------------------- MODULE MCJobTracking ----------------------------
(* Bounds for TLC: a job that is started, moves once and ends, and five      *)
(* reads: an opening one and, however it went, four sessions that read       *)
(* again.                                                                    *)
EXTENDS JobTracking
=============================================================================
