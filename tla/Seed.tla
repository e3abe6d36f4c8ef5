-------------------------------- MODULE Seed --------------------------------
(***************************************************************************)
(* The world as it is loaded (world.py: load_seed, validate_seed): the     *)
(* seed file and its zones are merged, what they say of rooms, exits,      *)
(* routes and quests is checked, and a world with a problem is refused.    *)
(* Then people live in it.  The checks are the source's own, loop by loop; *)
(* what they are for is said of the people.                                *)
(*                                                                         *)
(* Of what a seed says, what decides where a player can get to is kept:    *)
(* positions, words, prices and the rest of the checks are left out.  One  *)
(* route and one quest stand for all, and a file stands for the rooms it   *)
(* defines.                                                                *)
(***************************************************************************)
EXTENDS Integers, Sequences, FiniteSets

CONSTANTS
  Rooms, Waypoints,  \* rooms, and those of them that are waypoints
  NoRoom,
  Steps, Done,       \* a quest's steps; no next one
  Seeds,             \* bound: the seeds that are tried
  Careless           \* bound: whether they may break what the checks take for granted

(* A seed: files, the rooms that the seed file and each zone define;       *)
(* start; begin, the rooms backgrounds begin in; shrine; exits; oneWay,    *)
(* those that are meant to have no way back; cutOff, rooms that are cut    *)
(* off on purpose; from, to, strand, path of the route; teleports, rooms a *)
(* quest teleports to; maroons, rooms an event maroons in; first and then, *)
(* the quest.                                                              *)
ASSUME SeedAssumption ==
  /\ Waypoints \subseteq Rooms /\ NoRoom \notin Rooms /\ Done \notin Steps
  /\ IsFiniteSet(Rooms)
  /\ \A s \in Seeds : /\ s.files \in Seq(SUBSET Rooms) /\ s.files # <<>>
                      /\ s.exits \cup s.oneWay \subseteq Rooms \X Rooms
                      /\ {s.start, s.shrine, s.from, s.to} \cup s.begin \subseteq Rooms
                      /\ s.teleports \cup s.maroons \cup s.cutOff \subseteq Rooms
                      /\ s.strand \in Rooms \cup {NoRoom}
                      /\ DOMAIN s.then \subseteq Steps

VARIABLES
  seed,
  stage,   \* "loading", "reach", "home", "quest", "open", "refused"
  loaded,  \* load_seed: how many files are in, and the rooms they define
  seen, todo,      \* the search that is on
  reached,         \* _graph_problems: what the first search found
  problem,         \* whether anything is wrong
  at, held,        \* a player: where, and whether a quest holds their journey there
  step, been       \* their quest: the step they are on, and those before it

vars == <<seed, stage, loaded, seen, todo, reached, problem, at, held, step, been>>

-----------------------------------------------------------------------------
(* The seed file and the zones, merged. *)

clash(zone) == loaded.rooms \cap zone

load_seed ==
  LET zone == seed.files[loaded.files + 1]
  IN  /\ stage = "loading" /\ loaded.files < Len(seed.files)
      /\ IF clash(zone) # {} THEN stage' = "refused" /\ UNCHANGED loaded
         ELSE loaded' = [files |-> loaded.files + 1, rooms |-> loaded.rooms \cup zone] /\ UNCHANGED stage
      /\ UNCHANGED <<seed, seen, todo, reached, problem, at, held, step, been>>

-----------------------------------------------------------------------------
(* What one record says of another. *)

Known(rooms) == rooms \subseteq loaded.rooms

exit_problems ==
  \E e \in seed.exits :
    /\ e[1] \in loaded.rooms
    /\ \/ e[1] \in Waypoints
       \/ e[2] \notin loaded.rooms \ Waypoints
       \/ <<e[2], e[1]>> \notin seed.exits /\ e \notin seed.oneWay

_route_problems ==
  \/ ~Known({seed.from, seed.to}) \/ {seed.from, seed.to, seed.strand} \cap Waypoints # {}
  \/ \E w \in seed.path : w \notin loaded.rooms \cap Waypoints
  \/ seed.strand # NoRoom /\ ~Known({seed.strand})

shrine_problems == ~Known({seed.shrine})

start_problems == ~Known({seed.start})

_event_problems == ~Known(seed.maroons)

_teleport_problems == ~Known(seed.teleports)

\* Where a background begins.
_character_problems == ~Known(seed.begin) \/ seed.begin \cap Waypoints # {}

-----------------------------------------------------------------------------
(* The world as a whole. *)

Places == loaded.rooms \ Waypoints

\* Bug: a route leads where it goes, and nowhere else.
world_graphRides ==
  {e \in seed.exits : e[1] \in Places /\ e[2] \in Places}
    \cup {<<seed.from, r>> : r \in {seed.to} \cap Places}

\* Where a player can walk or ride to from each room.
world_graph ==
  {e \in seed.exits : e[1] \in Places /\ e[2] \in Places}
    \cup {<<seed.from, r>> : r \in {seed.to, seed.strand} \cap Places}

Back(edges) == {<<e[2], e[1]>> : e \in edges}

Search(next, starts) ==
  stage' = next /\ seen' = {} /\ todo' = starts \cap Places

\* One turn of _reach's loop.
_reach(edges) ==
  \E rid \in todo :
    IF rid \in seen THEN todo' = todo \ {rid} /\ UNCHANGED seen
    ELSE /\ seen' = seen \cup {rid}
         /\ todo' = (todo \ {rid}) \cup {r \in Places \ seen : <<rid, r>> \in edges}

\* The records are checked, and where characters begin is where to search from.
validate_seed ==
  /\ stage = "loading" /\ loaded.files = Len(seed.files)
  /\ problem' = (exit_problems \/ shrine_problems \/ _route_problems \/ start_problems \/ _character_problems
                  \/ _event_problems \/ _teleport_problems)
  /\ Search("reach", {seed.start} \cup seed.begin \cup seed.teleports \cup seed.maroons)
  /\ UNCHANGED <<seed, loaded, reached, at, held, step, been>>

Reaching ==
  /\ stage = "reach" /\ todo # {} /\ _reach(world_graph)
  /\ UNCHANGED <<seed, stage, loaded, reached, problem, at, held, step, been>>

\* Every room can be reached, or is cut off on purpose: now the way home.
Reached ==
  /\ stage = "reach" /\ todo = {}
  /\ reached' = seen
  /\ problem' = (problem \/ ~(Places \subseteq seen \cup seed.cutOff))
  /\ Search("home", {seed.start} \cup seed.maroons)
  /\ UNCHANGED <<seed, loaded, at, held, step, been>>

Homing ==
  /\ stage = "home" /\ todo # {} /\ _reach(Back(world_graph))
  /\ UNCHANGED <<seed, stage, loaded, reached, problem, at, held, step, been>>

traps == reached \ seen

Homed ==
  /\ stage = "home" /\ todo = {}
  /\ problem' = (problem \/ traps # {})
  /\ stage' = "quest" /\ seen' = {} /\ todo' = {seed.first}
  /\ UNCHANGED <<seed, loaded, reached, at, held, step, been>>

Defined == DOMAIN seed.then

\* Bug: a quest that comes round to a step again counts as one that ends.
nextRound(s) == IF s \in seen THEN {Done} ELSE {seed.then[s]}

next(s) == IF s \in seen THEN {} ELSE {seed.then[s]}

\* One turn of _quest_problems' loop; Done comes of a step with no `then`.
Questing ==
  /\ stage = "quest" /\ todo \cap Defined # {}
  /\ \E s \in todo \cap Defined : todo' = (todo \ {s}) \cup next(s) /\ seen' = seen \cup {s}
  /\ UNCHANGED <<seed, stage, loaded, reached, problem, at, held, step, been>>

\* Refused if anything is wrong; if not, characters begin.
Decided ==
  /\ stage = "quest" /\ todo \cap Defined = {}
  /\ IF problem \/ Done \notin todo \/ seen # Defined
     THEN stage' = "refused" /\ UNCHANGED <<at, step>>
     ELSE stage' = "open" /\ at' \in {seed.start} \cup seed.begin /\ step' = seed.first
  /\ UNCHANGED <<seed, loaded, seen, todo, reached, problem, held, been>>

-----------------------------------------------------------------------------
(* A player in the world (alzendor.lua). *)

Goes(r, holds) ==
  /\ stage = "open"
  /\ at' = r /\ held' = holds
  /\ UNCHANGED <<seed, stage, loaded, seen, todo, reached, problem, step, been>>

Walk(r) == <<at, r>> \in seed.exits /\ Goes(r, held)

\* A ride ends where it goes, or thrown off it, or ashore with a quest to do.
Ride(r) ==
  /\ at = seed.from /\ ~held
  /\ \/ r \in {seed.to, seed.strand} \ {NoRoom} /\ Goes(r, FALSE)
     \/ r \in seed.maroons /\ Goes(r, TRUE)

\* Back on the road.
Mend(r) == held /\ r \in {seed.to, seed.strand} \ {NoRoom} /\ Goes(r, FALSE)

Teleported(r) == r \in seed.teleports /\ Goes(r, FALSE)

Dies(r) == r = seed.shrine /\ Goes(r, FALSE)

\* The quest moves on.
Progress ==
  /\ stage = "open" /\ step # Done
  /\ step' = seed.then[step] /\ been' = been \cup {step}
  /\ UNCHANGED <<seed, stage, loaded, seen, todo, reached, problem, at, held>>

\* What the checks take for granted: nothing but a marooning leads into a room
\* people are marooned in, a quest teleports to rooms, and the dead wake where
\* the living come.
Careful(s) ==
  /\ s.maroons \cap ({s.to, s.strand, s.shrine, s.start} \cup s.begin \cup s.teleports \cup {e[2] : e \in s.exits}) = {}
  /\ s.teleports \cap Waypoints = {}
  /\ s.shrine \notin s.cutOff \cup Waypoints
  /\ s.start \notin Waypoints

Init ==
  /\ seed \in Seeds /\ (Careless \/ Careful(seed))
  /\ stage = "loading" /\ loaded = [files |-> 0, rooms |-> {}]
  /\ seen = {} /\ todo = {} /\ reached = {} /\ problem = FALSE
  /\ at = NoRoom /\ held = FALSE /\ step = Done /\ been = {}

Next ==
  \/ load_seed \/ validate_seed
  \/ Reaching \/ Reached \/ Homing \/ Homed \/ Questing \/ Decided
  \/ \E r \in Rooms : Walk(r) \/ Ride(r) \/ Mend(r) \/ Teleported(r) \/ Dies(r)
  \/ Progress

Spec == Init /\ [][Next]_vars

-----------------------------------------------------------------------------
(* What must hold. *)

\* Rooms from which no way is out of the set they are in.
Closed(rooms) ==
  \A r \in rooms : /\ \A e \in seed.exits : e[1] = r => e[2] \in rooms
                   /\ r = seed.from => {seed.to, seed.strand} \ {NoRoom} \subseteq rooms

\* _graph_problems: "from every room there is a way back to the home realm's
\* start".  Whatever walks, rides, strandings, maroonings, teleports and deaths
\* an accepted world leads its players through, they can go home, or a quest
\* will put them back on the road.
NeverTrapped ==
  stage = "open" /\ ~held => \A rooms \in SUBSET Rooms : at \in rooms /\ Closed(rooms) => seed.start \in rooms

\* _quest_problems: "every step reachable, every quest able to end".  A quest of
\* an accepted world never comes back to a step, and has no step left over.
QuestsEnd ==
  stage = "open" => /\ step \in (Defined \cup {Done}) \ been
                    /\ step = Done => been = Defined

\* load_seed: "a zone can't redefine anything".  Each room of an accepted world
\* is as one file has it.
OneFileEach ==
  stage = "open" => \A i, j \in 1..Len(seed.files) : i # j => seed.files[i] \cap seed.files[j] = {}
=============================================================================
