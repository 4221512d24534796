---------------------------- MODULE MCJobDelivery ----------------------------
(* Instances of JobDelivery for TLC. *)
EXTENDS JobDelivery, TLC

CONSTANTS j1, j2, w1, w2
=============================================================================
