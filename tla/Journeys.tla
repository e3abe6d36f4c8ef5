------------------------------ MODULE Journeys ------------------------------
(***************************************************************************)
(* A ride on a route (alzendor.lua: routes, travel events, ambushes,       *)
(* strandings and maroonings).  The ride is one player's: a hash, a due    *)
(* time in alz:journeys, a waypoint to be at, and now and then attackers   *)
(* of their own or a priority quest that holds it.  Each Lua function is   *)
(* one step of Redis, so the order that matters is that of whole calls:    *)
(* tick and upkeep, fights, other tabs, the end of a connection, an        *)
(* admin's jump and a new seed, each between any two of the others.        *)
(*                                                                         *)
(* What a function does on the way is an operator from the state of the    *)
(* player to the states it may lead to.  Fares, checks and what an outcome *)
(* pays are left out; an outcome is the one effect of it that a ride can   *)
(* tell from the others.  A due time is whether it has come.               *)
(***************************************************************************)
EXTENDS Naturals, Sequences

CONSTANTS
  Dock, Town, Wilds,  \* where the route leaves, where it goes, where it strands
  Island,             \* the pocket area a maroon effect puts you in
  Shrine, Start,
  Waypoints,
  Paths,              \* the route's path, in one seed or another; NoRoute: it is gone
  NoRoute,
  Dangerous,          \* rooms where something may attack
  Exposed,            \* rooms whose weather may kill
  Delays,             \* bound: how long a delay may add up to
  LateChanges         \* bound: whether a new seed or an admin comes to a rider
                      \* in an event, an ambush or a marooning

Land == {Dock, Town, Wilds, Shrine, Start}
Rooms == Land \cup {Island} \cup Waypoints

ASSUME JourneysAssumption ==
  /\ Waypoints \cap (Land \cup {Island}) = {}
  /\ Island \notin Land
  /\ NoRoute \in Paths
  /\ \A path \in Paths \ {NoRoute} : path \in Seq(Waypoints) /\ path # <<>>
  /\ Dangerous \cup Exposed \subseteq {Town, Wilds}  \* where people wake is safe, and the island is mild
  /\ Delays \in Nat
  /\ LateChanges \in BOOLEAN

VARIABLE player

\* What letting an event pass comes to: its last visible choice is free, or asks
\* for coins the rider may not have, or no choice is visible (all are for other
\* backgrounds, or a new seed dropped the event).
Moments == {"free", "costly", "barred"}

NoJourney == [on |-> FALSE, stage |-> 1, event |-> "none", evented |-> FALSE, ambush |-> FALSE,
              marooned |-> FALSE, delay |-> 0, skip |-> 0]

Players ==
  [session  : BOOLEAN,                        \* PLAYER:<id>:session
   tab      : BOOLEAN,                        \* which of two tabs it is
   asleep   : BOOLEAN,                        \* ACCOUNT:<id> asleep, and alz:sleepers
   room     : Rooms,                          \* PLAYER:<id>:room
   floor    : SUBSET Rooms,                   \* whose ROOM:<id>:players they are in
   back     : BOOLEAN,                        \* history: they came back to the world at this waypoint
   journey  : [on : BOOLEAN, stage : Nat, event : {"none"} \cup Moments, evented : BOOLEAN, ambush : BOOLEAN,
               marooned : BOOLEAN, delay : Nat, skip : {0, 1}],  \* PLAYER:<id>:journey
   due      : {"no", "later", "now"},         \* their place in alz:journeys
   waited   : BOOLEAN,                        \* event_until is past
   quest    : {"none", "active", "done", "failed"},  \* the priority quest
   fighting : BOOLEAN,                        \* PLAYER:<id>:encounter
   ambushed : SUBSET Waypoints,               \* rooms whose ROOM:<id>:npcs hold their ambusher
   ambusher : BOOLEAN,                        \* it is alive
   path     : Paths]                          \* ROUTE:<id> path

On(s) == s.journey.on
AtWaypoint(s) == s.room \in Waypoints
Gone(s) == s.path = NoRoute

Ended(s) == [s EXCEPT !.journey = NoJourney, !.due = "no"]
DropPlayer(s) == [s EXCEPT !.fighting = FALSE]

\* A waypoint's floor is not stood on.
relocate(s, dest) ==
  [s EXCEPT !.floor = (@ \ {s.room}) \cup ({dest} \ Waypoints), !.room = dest, !.back = FALSE]

\* Schedules the next stage.
journey_next(s) == [s EXCEPT !.due = "later"]

-----------------------------------------------------------------------------
(* Deaths and jumps. *)

\* Leaving a priority quest's area fails it, and with it the journey it holds.
check_priority(s, dest, dying) ==
  IF s.quest = "active" /\ (dying \/ dest # Island)
  THEN IF s.journey.marooned THEN Ended([s EXCEPT !.quest = "failed"]) ELSE [s EXCEPT !.quest = "failed"]
  ELSE s

\* A death (defeat, of a player who is not ambushed).
Dies(s) ==
  LET t == DropPlayer(Ended(check_priority(s, s.room, TRUE)))
  IN  IF s.session THEN relocate(t, Shrine)
      ELSE [t EXCEPT !.floor = @ \ {s.room}, !.asleep = FALSE, !.room = Shrine, !.back = FALSE]

\* The one rule, as far as it goes here: whoever is hostile may start a fight.
aggro(s) ==
  IF s.session /\ ~s.asleep /\ (s.room \in Dangerous \/ (s.ambusher /\ s.room \in s.ambushed))
  THEN {s, [s EXCEPT !.fighting = TRUE]}
  ELSE {s}

teleport(s, dest) ==
  LET t == DropPlayer(s)
      u == relocate(IF dest \in Waypoints THEN t ELSE check_priority(t, dest, FALSE), dest)
  IN  aggro(u) \cup (IF dest \in Exposed THEN {Dies(u)} ELSE {})

end_journey(s, dest) == teleport(Ended(s), dest)

\* The route is gone: the ride ends somewhere known.
lose_journey(s) == end_journey(s, Start)

-----------------------------------------------------------------------------
(* Ambushes. *)

spawn_ambushers(s) ==
  aggro([s EXCEPT !.journey.ambush = TRUE, !.floor = @ \cup {s.room},
                  !.ambushed = @ \cup {s.room},
                  !.ambusher = TRUE, !.due = "later"])

\* Bug: the rider is left standing on the waypoint's floor.
clear_ambushStanding(s) ==
  [DropPlayer(s) EXCEPT !.ambushed = @ \ {s.room}, !.ambusher = FALSE, !.journey.ambush = FALSE]

clear_ambush(s) ==
  [DropPlayer(s) EXCEPT !.ambushed = @ \ {s.room}, !.ambusher = FALSE,
                        !.floor = @ \ {s.room}, !.back = FALSE, !.journey.ambush = FALSE]

\* Thrown off the route.
strand(s) == end_journey(IF s.journey.ambush THEN clear_ambush(s) ELSE s, Wilds)

\* Beaten on the road is thrown off it, not killed.
defeat(s) == IF s.journey.ambush THEN strand(s) ELSE {Dies(s)}

\* Bug: climbing back aboard, nothing sets the ride going again.
ambush_dueIdly(s) ==
  IF s.room \in s.ambushed THEN {[s EXCEPT !.due = "later"]} ELSE {clear_ambush(s)}

ambush_due(s) ==
  IF s.room \in s.ambushed THEN {[s EXCEPT !.due = "later"]} ELSE {journey_next(clear_ambush(s))}

-----------------------------------------------------------------------------
(* Stages and events. *)

\* Something happens at a waypoint: once a ride at most.
maybe_event(s, moment) ==
  [s EXCEPT !.journey.event = moment, !.journey.evented = TRUE, !.waited = FALSE, !.due = "later"]

\* A waypoint is reached, and perhaps something happens there.
journey_stage(s) ==
  IF Gone(s) \/ s.journey.stage > Len(s.path) \/ s.path[s.journey.stage] # s.room
  THEN IF AtWaypoint(s) THEN lose_journey(s) ELSE {[s EXCEPT !.journey = NoJourney]}
  ELSE {s} \cup (IF s.journey.evented THEN {} ELSE {maybe_event(s, moment) : moment \in Moments})

\* What follows a stage: the next, unless an event waits for a choice.
AndOn(states) == {IF On(t) /\ t.journey.event = "none" THEN journey_next(t) ELSE t : t \in states}

ride_to(s, dest) == relocate(s, dest)

\* Bug: a delay drags on without ever counting down.
journey_advanceDelayed(s) ==
  LET n == s.journey.stage + 1 + s.journey.skip
      t == [s EXCEPT !.journey.skip = 0]
  IN  IF Gone(s) THEN lose_journey(s)
      ELSE IF s.journey.delay > 0 THEN {journey_next(s)}
      ELSE IF n > Len(s.path) THEN end_journey(t, Town)
      ELSE AndOn(journey_stage(ride_to([t EXCEPT !.journey.stage = n], s.path[n])))

journey_advance(s) ==
  LET n == s.journey.stage + 1 + s.journey.skip
      t == [s EXCEPT !.journey.skip = 0]
  IN  IF Gone(s) THEN lose_journey(s)
      ELSE IF s.journey.delay > 0 THEN {journey_next([s EXCEPT !.journey.delay = @ - 1])}
      ELSE IF n > Len(s.path) THEN end_journey(t, Town)
      ELSE AndOn(journey_stage(ride_to([t EXCEPT !.journey.stage = n], s.path[n])))

\* Sets a player off on the route.
begin(s) ==
  LET t == [DropPlayer(s) EXCEPT !.journey = [NoJourney EXCEPT !.on = TRUE]]
  IN  AndOn(journey_stage(ride_to(t, s.path[1])))

\* Marooned: the ride waits, out of the schedule, while its quest is done.
maroon(s) ==
  {[t EXCEPT !.quest = "active"] :
     t \in teleport([s EXCEPT !.journey.marooned = TRUE, !.due = "no"], Island)}

Effects == {"none", "delay", "hasten", "wound", "death", "strand", "ambush", "maroon"}

\* The states an outcome leads to: the ride goes on, unless the effect saw to that.
apply_effects(s, effect) ==
  CASE effect = "none"   -> {journey_next(s)}
    [] effect = "delay"  -> {journey_next([s EXCEPT !.journey.delay = @ + 1])}
    [] effect = "hasten" -> {journey_next([s EXCEPT !.journey.skip = 1])}
    [] effect = "wound"  -> defeat(s)
    [] effect = "death"  -> {Dies(Ended(s))}
    [] effect = "strand" -> strand(s)
    [] effect = "ambush" -> spawn_ambushers(s)
    [] effect = "maroon" -> maroon(s)

\* A choice, or the last one for a rider who let the moment pass.  Refused, if
\* it is not there or cannot be paid for, it changes nothing: the event is
\* still set, and nothing is scheduled.
resolve_event(s, effect) ==
  (IF s.journey.event # "free" THEN {s} ELSE {}) \cup
  (IF s.journey.event # "barred" THEN apply_effects([s EXCEPT !.journey.event = "none"], effect) ELSE {})

-----------------------------------------------------------------------------
(* What happens to the player, each a call of its own. *)

Becomes(states) == player' \in states

Free == player.session /\ ~player.fighting

\* The rider pays and gets on.
Travel ==
  /\ Free /\ player.room = Dock /\ ~Gone(player)
  /\ Becomes(begin(player))

\* On land, a step (fights are left by FLEE).
Walk(dest) ==
  /\ Free /\ player.room \in Land /\ dest # player.room
  /\ Becomes(aggro(relocate(player, dest)) \cup (IF dest \in Exposed THEN {Dies(relocate(player, dest))} ELSE {}))

\* A choice is made.
Choose(effect) ==
  /\ player.session /\ player.journey.event # "none"
  /\ effect = "delay" => player.journey.delay < Delays
  /\ Becomes(resolve_event(player, effect))

Flee ==
  /\ player.session /\ player.journey.ambush
  /\ Becomes(strand(player))

\* Bug: the ride resumes, and is held still.
MendHeld ==
  LET s == [player EXCEPT !.quest = "done"]
      at == s.journey.stage
  IN  /\ Free /\ player.room = Island /\ player.quest = "active"
      /\ Becomes(IF Gone(s) \/ ~On(s) \/ at > Len(s.path) THEN {s}
                 ELSE {journey_next(t) : t \in teleport(s, s.path[at])})

\* The marooned mend their ride: the quest is done, and the ride resumes.
Mend ==
  LET s == [player EXCEPT !.quest = "done"]
      at == s.journey.stage
  IN  /\ Free /\ player.room = Island /\ player.quest = "active"
      /\ Becomes(IF Gone(s) \/ ~On(s) \/ at > Len(s.path) THEN {s}
                 ELSE {journey_next(t) : t \in teleport([s EXCEPT !.journey.marooned = FALSE], s.path[at])})

\* The last of a fight's NPCs is down.
Wins ==
  /\ player.session /\ player.fighting
  /\ player' = [DropPlayer(player) EXCEPT !.ambushed = @ \ {player.room},
                                          !.ambusher = @ /\ player.room \notin player.ambushed]

\* A blow, or the cold, is the end of them: the sleeping are struck as well.
Loses ==
  /\ player.fighting
  /\ Becomes(defeat(player))

\* Where their journey had got to, and on.
resume_journey(s) ==
  IF s.journey.marooned THEN {s}
  ELSE IF Gone(s) THEN lose_journey(s)
  ELSE IF s.journey.event # "none" THEN {[s EXCEPT !.due = IF s.waited THEN "now" ELSE "later"]}
  ELSE {journey_next(s)}

Resumed(s) == IF On(s) THEN resume_journey(s) ELSE {s}

\* A second connection takes over.
TakeOver ==
  /\ player.session
  /\ Becomes(Resumed([player EXCEPT !.tab = ~@]))

\* Whoever comes back stands on the floor, riders too: a missing ambush field is
\* false to Lua, never nil, so the branch for those aboard is not taken.
connect ==
  LET s == [player EXCEPT !.session = TRUE, !.asleep = FALSE, !.floor = @ \cup {player.room},
                          !.back = AtWaypoint(player)]
  IN  /\ ~player.session
      /\ Becomes(UNION {aggro(t) : t \in Resumed(s)})

disconnect ==
  /\ player.session
  /\ player' = IF player.room \notin Dangerous /\ ~player.fighting
               THEN [player EXCEPT !.session = FALSE, !.floor = @ \ {player.room}]
               ELSE [player EXCEPT !.session = FALSE, !.asleep = TRUE]

fade_out ==
  /\ player.asleep
  /\ player' = [DropPlayer(player) EXCEPT !.asleep = FALSE, !.floor = @ \ {player.room}]

\* The due time comes, and with it an event's last moment.
Passes ==
  /\ \/ player.due = "later"
     \/ player.journey.event # "none" /\ ~player.waited
  /\ player' = [player EXCEPT !.due = IF @ = "later" THEN "now" ELSE @,
                              !.waited = @ \/ player.journey.event # "none"]

\* What is due is taken off the schedule, and done for those who are here.
journeys_due ==
  LET s == [player EXCEPT !.due = "no"]
  IN  /\ player.due = "now"
      /\ \/ ~(On(s) /\ s.session) /\ player' = s
         \/ On(s) /\ s.session /\ s.journey.marooned /\ player' = s
         \/ /\ On(s) /\ s.session /\ ~s.journey.marooned /\ s.journey.event # "none"
            /\ \E effect \in Effects : /\ effect = "delay" => s.journey.delay < Delays
                                       /\ Becomes(resolve_event(s, effect))
         \/ /\ On(s) /\ s.session /\ ~s.journey.marooned /\ s.journey.event = "none" /\ s.journey.ambush
            /\ Becomes(ambush_due(s))
         \/ /\ On(s) /\ s.session /\ ~s.journey.marooned /\ s.journey.event = "none" /\ ~s.journey.ambush
            /\ Becomes(journey_advance(s))

Untroubled == player.journey.event = "none" /\ ~player.journey.ambush /\ ~player.journey.marooned

\* An admin jumps.
goto(dest) ==
  /\ player.session /\ (LateChanges \/ Untroubled)
  /\ Becomes(teleport(Ended(player), dest))

\* A new seed, with another path or none, and other travel events.
Seed(path) ==
  /\ LateChanges \/ Untroubled
  /\ \E moment \in IF player.journey.event = "none" THEN {"none"} ELSE Moments :
       player' = [player EXCEPT !.path = path, !.journey.event = moment]

Init ==
  \E path \in Paths \ {NoRoute} :
    player = [session |-> FALSE, tab |-> FALSE, asleep |-> FALSE, room |-> Start, floor |-> {}, back |-> FALSE,
              journey |-> NoJourney,
              due |-> "no", waited |-> FALSE, quest |-> "none", fighting |-> FALSE, ambushed |-> {},
              ambusher |-> FALSE, path |-> path]

Next ==
  \/ Travel \/ Flee \/ Mend \/ Wins \/ Loses
  \/ TakeOver \/ connect \/ disconnect \/ fade_out
  \/ Passes \/ journeys_due
  \/ \E effect \in Effects : Choose(effect)
  \/ \E dest \in Land : Walk(dest)
  \/ \E dest \in Land \cup {Island} : goto(dest)
  \/ \E path \in Paths : Seed(path)

vars == <<player>>

Spec == Init /\ [][Next]_vars

\* Every server ticks every tenth of a second, and time passes.
FairSpec == Spec /\ WF_vars(journeys_due) /\ WF_vars(Passes)

-----------------------------------------------------------------------------
(* What must hold. *)

TypeOK == player \in Players

\* A rider whose event was let pass, and its last choice refused.
Refused ==
  /\ player.journey.event # "none" /\ player.waited /\ player.due = "no"
  /\ player.journey.event = "free" => LateChanges

\* journey_stage's note: a waypoint has no exits, so a rider left there is
\* stuck.  Whoever is in the world with a ride that nothing holds has a place
\* in the schedule: whatever ended or put off the last stage (an event, an
\* ambush, a time away, another tab) saw to the next.  Only a lapsed event
\* whose last choice is refused takes them off it, and it is there to answer.
RidesGoOn ==
  player.session /\ On(player) /\ ~player.journey.marooned /\ player.due = "no" => Refused

\* place_channels' note: "riders aren't in the room's player set".  Nobody is in
\* two rooms' sets, and a rider is in a waypoint's only in an ambush, or once
\* they came back to the world there: no stage, event, ambush that is over, jump
\* or death leaves them standing on one.
StandsWhereTheyAre ==
  /\ player.floor \subseteq {player.room}
  /\ AtWaypoint(player) /\ player.room \in player.floor => player.journey.ambush \/ player.back

\* "Other players can't see you in a waypoint room": but in an ambush, nobody
\* stands on a waypoint's floor.  Those who come back to the world there do.
RideIsPrivate == AtWaypoint(player) /\ player.room \in player.floor => player.journey.ambush

\* "If you don't choose within 60 s, the event resolves with its last choice":
\* an event let pass is still to be resolved.  A refused choice is not.
LapsedIsDue ==
  player.session /\ player.journey.event # "none" /\ player.waited => player.due # "no"

\* A held ride has the quest that will let it go; what fails the quest on the
\* way (a jump, a death) drops the ride too.
HeldByItsQuest == player.journey.marooned => player.quest = "active" /\ player.room = Island

\* Nobody is left at a waypoint without a ride to take them on.
NoneLeftBehind == AtWaypoint(player) => On(player)

\* Every ride gets off each waypoint, unless its rider keeps opening new tabs
\* (each of those starts the stage's wait again), or let an event pass whose
\* last choice was refused.
RidesArrive ==
  <>[][player'.tab = player.tab]_vars =>
    \A r \in Waypoints :
      (player.session /\ player.room = r)
        ~> (player.room # r \/ ~player.session \/ player.journey.ambush \/ Refused)
=============================================================================
