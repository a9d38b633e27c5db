---------------------------- MODULE MCRetirement ----------------------------
(* Three versions.  The first can be drained by time 1, the second by time 0, a
   deadline that the next tick leaves behind; the third has no deadline. *)
EXTENDS Retirement, TLC

CONSTANTS v1, v2, v3

MCDeadlines == v1 :> 1 @@ v2 :> 0 @@ v3 :> None
=============================================================================
