---------------------------- MODULE MCOwnership ----------------------------
(* Instances of Ownership for TLC. *)
EXTENDS Ownership, TLC

CONSTANTS a1, a2, x, y, p1, p2

\* Two servers with an id each; one restarted beside its successor (or a
\* second one given its id by mistake).
TwoIds == a1 :> x @@ a2 :> y
OneId == a1 :> x @@ a2 :> x

Either == Permutations({p1, p2})
=============================================================================
