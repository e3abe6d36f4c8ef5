------------------------------ MODULE MCWorld ------------------------------
(***************************************************************************)
(* A shrine, a path that may be too cold, and a den with a trap: a wolf    *)
(* that is always hostile and hides in bad weather, a snake that may miss  *)
(* a player, and a guard whose faction changes its mind.                   *)
(***************************************************************************)
EXTENDS World, TLC

CONSTANTS p1, p2, shrine, path, den, wolf, guard, snake, f1, f2, f3

MCExits == {<<shrine, path>>, <<path, shrine>>, <<path, den>>, <<den, path>>}
MCMoves == {<<guard, path>>, <<guard, den>>}
MCSlow == {<<path, den>>}
MCHome == wolf :> den @@ guard :> path @@ snake :> den
Symmetry == Permutations({p1, p2}) \cup Permutations({f1, f2, f3})

=============================================================================
