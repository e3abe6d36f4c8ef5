---------------------------- MODULE MCFollowing ----------------------------
(* A small instance of Following: two sessions, a fight here and one elsewhere. *)
EXTENDS Following, TLC

CONSTANTS s1, s2, near, far

=============================================================================
