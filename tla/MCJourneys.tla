----------------------------- MODULE MCJourneys -----------------------------
(* A ride of two waypoints, that a later seed cuts short, or takes away. *)
EXTENDS Journeys, TLC

CONSTANTS dock, town, wilds, island, shrine, start, pass, ford, none

MCPaths == {<<pass, ford>>, <<ford>>, none}
=============================================================================
