------------------------------- MODULE World -------------------------------
(***************************************************************************)
(* Who is where, and who fights whom: the bodies of players in rooms, the  *)
(* NPCs that live there, and the fights between them.  Each Lua function   *)
(* is a step of its own in Redis; what it calls on the way is an operator  *)
(* here that takes the state of the world to the next, so that a handler   *)
(* is the composition its source is.                                       *)
(*                                                                         *)
(* The one loop in which a function calls the one rule for several players *)
(* is a step for each of them (Turn), and nothing else happens meanwhile.  *)
(*                                                                         *)
(* How hard a blow is, what a deed is worth and what the weather does are  *)
(* any choice.  Fights are identities that may be used again once a fight  *)
(* is over.                                                                *)
(***************************************************************************)
EXTENDS Naturals, FiniteSets

CONSTANTS Players,
          Npcs,      \* NPCs with attacks
          Rooms,
          Fights,    \* bound: fights at a time; more than there are players
          NoFight,
          Home,      \* Home[n]: where the first seed puts an NPC
          Exits,     \* ROOM:<id>:exits, as pairs of rooms
          Slow,      \* exits that snow, mud or creeping may hold a player up at
          Safe,      \* rooms to rest in
          Trapped,   \* rooms with a trap
          Exposed,   \* rooms whose cold, heat or air hurts
          Start,     \* alz:start_room
          Shrine,    \* where the defeated wake
          Hostile,   \* NPCs hostile to someone they have no opinion of
          Fickle,    \* NPCs of a faction: what they think of a player may change
          Wary,      \* NPCs that may miss a player (`notice`)
          Weather,   \* alz:weather_npcs
          Moves,     \* <<n, r>>: an NPC that a later seed puts in room r
          LiveMoves  \* bound: whether it may while someone is in the world

ASSUME WorldAssumption ==
  /\ NoFight \notin Fights
  /\ Home \in [Npcs -> Rooms]
  /\ Exits \subseteq Rooms \X Rooms
  /\ Start \in Rooms
  /\ Shrine \in Rooms
  /\ Hostile \subseteq Npcs
  /\ Moves \subseteq Npcs \X (Rooms \ {Shrine})
  /\ \A n \in Npcs : Home[n] # Shrine   \* as in the seed's realms
  /\ LiveMoves \in BOOLEAN

VARIABLE world   \* what Redis holds

NoMove == <<>>

Worlds ==
  [online   : SUBSET Players,                     \* PLAYER:<id>:session
   asleep   : SUBSET Players,                     \* ACCOUNT:<id> asleep
   sleepers : SUBSET Players,                     \* alz:sleepers
   room     : [Players -> Rooms],                 \* PLAYER:<id>:room
   floor    : [Rooms -> SUBSET Players],          \* ROOM:<id>:players
   pending  : [Players -> Exits \cup {NoMove}],   \* PLAYER:<id>:pending
   hostile  : [Players -> SUBSET Npcs],           \* disposition_for
   home     : [Npcs -> Rooms],                    \* NPC:<id> room
   here     : [Rooms -> SUBSET Npcs],             \* ROOM:<id>:npcs
   hidden   : SUBSET Npcs,                        \* NPC:<id> hidden
   respawns : SUBSET Npcs,                        \* alz:respawns
   live     : SUBSET Fights,                      \* alz:encounters
   place    : [Fights -> Rooms],                  \* ENC:<id> room; Start if it is not there
   members  : [Fights -> SUBSET Players],         \* ENC:<id>:players
   foes     : [Fights -> SUBSET Npcs],            \* ENC:<id>:npcs
   inRoom   : [Rooms -> Fights \cup {NoFight}],   \* ROOM:<id>:encounter
   fight    : [Players -> Fights \cup {NoFight}], \* PLAYER:<id>:encounter
   busy     : [Npcs -> Fights \cup {NoFight}],    \* NPC:<id>:encounter
   turning  : SUBSET (Players \X Rooms)]          \* players a loop has yet to come to

-----------------------------------------------------------------------------
(* Fights. *)

Create(s, e, r) ==
  [s EXCEPT !.live = @ \cup {e}, !.place[e] = r, !.inRoom[r] = e]

AddPlayer(s, e, p) ==
  IF s.fight[p] = e THEN s
  ELSE [s EXCEPT !.members[e] = @ \cup {p}, !.fight[p] = e]

AddNpcs(s, e, ns) ==
  [s EXCEPT !.foes[e] = @ \cup ns,
            !.busy = [n \in Npcs |-> IF n \in ns THEN e ELSE s.busy[n]]]

Finish(s, e) ==
  [s EXCEPT !.fight = [p \in Players |-> IF p \in s.members[e] THEN NoFight ELSE s.fight[p]],
            !.busy = [n \in Npcs |-> IF n \in s.foes[e] THEN NoFight ELSE s.busy[n]],
            !.inRoom[s.place[e]] = IF @ = e THEN NoFight ELSE @,
            !.place[e] = Start,
            !.members[e] = {},
            !.foes[e] = {},
            !.live = @ \ {e}]

\* Bug: the last one out leaves the fight to the NPCs.
DropPlayerKeepingFight(s, p) ==
  LET e == s.fight[p]
  IN  IF e = NoFight THEN s
      ELSE [s EXCEPT !.members[e] = @ \ {p}, !.fight[p] = NoFight]

DropPlayer(s, p) ==
  LET e == s.fight[p]
      t == [s EXCEPT !.members[e] = @ \ {p}, !.fight[p] = NoFight]
  IN  IF e = NoFight THEN s
      ELSE IF t.members[e] = {} THEN Finish(t, e)
      ELSE t

DropNpc(s, n) ==
  LET e == s.busy[n]
      t == [s EXCEPT !.foes[e] = @ \ {n}, !.busy[n] = NoFight]
  IN  IF e = NoFight THEN s
      ELSE IF t.foes[e] = {} THEN Finish(t, e)
      ELSE t

\* The fight a player would join in a room: their own, or the room's.
Here(s, p, r) ==
  LET e == IF s.fight[p] # NoFight THEN s.fight[p] ELSE s.inRoom[r]
  IN  IF e \in s.live /\ s.place[e] = r THEN e ELSE NoFight

\* Bug: the one rule does not look whether the player is awake.
AggroAsleep(s, p, r, missed, f) ==
  LET e     == Here(s, p, r)
      fresh == {n \in s.here[r] : s.busy[n] = NoFight /\ n \in s.hostile[p] \ missed}
      join  == /\ e # NoFight
               /\ s.fight[p] = e \/ fresh # {} \/ s.foes[e] \cap s.hostile[p] # {}
      id    == IF join THEN e ELSE f
      t     == IF join THEN s ELSE Create(s, f, r)
  IN  IF s.room[p] = r /\ (join \/ fresh # {})
      THEN AddPlayer(AddNpcs(t, id, fresh), id, p)
      ELSE s

\* Bug: walking in on a fight, a player joins it only if an enemy is free.
AggroFree(s, p, r, missed, f) ==
  LET e     == Here(s, p, r)
      fresh == {n \in s.here[r] : s.busy[n] = NoFight /\ n \in s.hostile[p] \ missed}
      id    == IF e # NoFight THEN e ELSE f
      t     == IF e # NoFight THEN s ELSE Create(s, f, r)
  IN  IF p \in s.online \ s.asleep /\ s.room[p] = r /\ fresh # {}
      THEN AddPlayer(AddNpcs(t, id, fresh), id, p)
      ELSE s

\* The one rule.  The wary NPCs in `missed` do not notice the player; f is the
\* fight that it starts if it starts one.
Aggro(s, p, r, missed, f) ==
  LET e     == Here(s, p, r)
      fresh == {n \in s.here[r] : s.busy[n] = NoFight /\ n \in s.hostile[p] \ missed}
      join  == /\ e # NoFight
               /\ s.fight[p] = e \/ fresh # {} \/ s.foes[e] \cap s.hostile[p] # {}
      id    == IF join THEN e ELSE f
      t     == IF join THEN s ELSE Create(s, f, r)
  IN  IF p \in s.online \ s.asleep /\ s.room[p] = r /\ (join \/ fresh # {})
      THEN AddPlayer(AddNpcs(t, id, fresh), id, p)
      ELSE s

-----------------------------------------------------------------------------
(* What a handler does on the way: the worlds it may lead to. *)

Opinions(s, p) == {h \in SUBSET Npcs : h \ Fickle = s.hostile[p] \ Fickle}

\* A deed, judged by every faction; if it moves an opinion, the NPCs here act
\* on it (deed, shift_rep, after_rep).
Deed(s, p, missed, f) ==
  {s} \cup {Aggro([s EXCEPT !.hostile[p] = h], p, s.room[p], missed, f) : h \in Opinions(s, p)}

Relocate(s, p, d) ==
  [s EXCEPT !.floor[s.room[p]] = @ \ {p}, !.floor[d] = @ \cup {p}, !.room[p] = d]

\* Beaten: home to the shrine, or, asleep, struck from the field.
Fall(s, p) ==
  LET t == DropPlayer(s, p)
  IN  IF p \in s.online THEN Relocate(t, p, Shrine)
      ELSE [t EXCEPT !.floor[t.room[p]] = @ \ {p},
                     !.sleepers = @ \ {p},
                     !.asleep = @ \ {p},
                     !.room[p] = Shrine]

Defeat(s, p, missed, f) == Deed(Fall(s, p), p, missed, f)

\* A step into the next room, which may be the end of a player.
FinishMove(s, p, d, missed, f) ==
  LET t == Relocate(s, p, d)
  IN  {Aggro(t, p, d, missed, f)} \cup (IF d \in Trapped \cup Exposed THEN {Fall(t, p)} ELSE {})

Teleport(s, p, d, missed, f) ==
  LET t == Relocate([DropPlayer(s, p) EXCEPT !.pending[p] = NoMove], p, d)
  IN  {Aggro(t, p, d, missed, f)} \cup (IF d \in Exposed THEN {Fall(t, p)} ELSE {})

\* An NPC is down: out of room r until it respawns, and its killer judged.
NpcDown(s, p, r, n, missed, f) ==
  LET t == DropNpc(s, n)
  IN  Deed([t EXCEPT !.here[r] = @ \ {n}, !.respawns = @ \cup {n}], p, missed, f)

\* Whether a player can attack an NPC in room r (attack_refusal).
Attackable(s, p, r, n) ==
  /\ n \in s.here[r]
  /\ s.busy[n] \in {NoFight, Here(s, p, r)}

\* An NPC in its room again; everyone there who is in the world is next for
\* the one rule.
Appear(s, n) ==
  [s EXCEPT !.here[s.home[n]] = @ \cup {n},
            !.turning = {<<p, s.home[n]>> : p \in s.floor[s.home[n]] \cap s.online}]

-----------------------------------------------------------------------------
(* What players do. *)

\* Bug: who wakes is still bound to fade.
ConnectDrowsy(p, missed, f) ==
  /\ p \notin world.online
  /\ world' = Aggro([world EXCEPT !.online = @ \cup {p},
                                  !.asleep = @ \ {p},
                                  !.floor[world.room[p]] = @ \cup {p}],
                    p, world.room[p], missed, f)

Connect(p, missed, f) ==
  /\ p \notin world.online
  /\ world' = Aggro([world EXCEPT !.online = @ \cup {p},
                                  !.asleep = @ \ {p},
                                  !.sleepers = @ \ {p},
                                  !.floor[world.room[p]] = @ \cup {p}],
                    p, world.room[p], missed, f)

\* By the player, for idling, or by the reaper.
Disconnect(p) ==
  /\ p \in world.online
  /\ LET gone == [world EXCEPT !.online = @ \ {p}]
     IN  IF world.room[p] \in Safe /\ world.fight[p] = NoFight
         THEN world' = [gone EXCEPT !.floor[world.room[p]] = @ \ {p}]
         ELSE world' = [gone EXCEPT !.asleep = @ \cup {p}, !.sleepers = @ \cup {p}]

\* At once, or held up.
Move(p, d, missed, f) ==
  /\ p \in world.online
  /\ <<world.room[p], d>> \in Exits
  /\ world.fight[p] = NoFight
  /\ world.pending[p] = NoMove
  /\ \/ world' \in FinishMove(world, p, d, missed, f)
     \/ /\ <<world.room[p], d>> \in Slow
        /\ world' = [world EXCEPT !.pending[p] = <<world.room[p], d>>]

\* A ferry without a way, a passage, a quest, an administrator.
Jump(p, d, missed, f) ==
  /\ p \in world.online
  /\ world' \in Teleport(world, p, d, missed, f)

\* Striking first, out of a fight (use, attack).
Attack(p, n, f) ==
  /\ p \in world.online
  /\ world.fight[p] = NoFight
  /\ LET r == world.room[p]
         e == IF world.busy[n] # NoFight THEN world.busy[n] ELSE Here(world, p, r)
         t == IF e = NoFight THEN Create(world, f, r) ELSE world
         id == IF e = NoFight THEN f ELSE e
     IN  /\ Attackable(world, p, r, n)
         /\ world' = AddPlayer(AddNpcs(t, id, {n}), id, p)

\* A strike that its fight's owner carries out: it may bring an NPC in, be
\* judged an ambush, and kill.
Strike(p, n, missed, f) ==
  /\ world.fight[p] # NoFight
  /\ LET e == world.fight[p]
         r == world.place[e]
         drawn == IF world.busy[n] = e THEN world ELSE AddNpcs(world, e, {n})
     IN  /\ world.busy[n] = e \/ Attackable(world, p, r, n)
         /\ \E t \in Deed(drawn, p, missed, f) :
              \/ world' = t
              \/ world' \in NpcDown(t, p, r, n, missed, f)

\* A blow that ends it.
Blow(p, n, missed, f) ==
  /\ world.fight[p] # NoFight
  /\ n \in world.foes[world.fight[p]]
  /\ world' \in Defeat(world, p, missed, f)

\* Away, if the toughest enemy's parting blow leaves the player standing.
Flee(p, d, missed, f) ==
  /\ world.fight[p] # NoFight
  /\ <<world.place[world.fight[p]], d>> \in Exits
  /\ \/ world' \in Defeat(world, p, missed, f)
     \/ \E t \in FinishMove(DropPlayer(world, p), p, d, missed, f) :
          world' \in Deed(t, p, missed, f)

\* A trap springs on the one who meant to disarm it, from next door.
Disarm(p) ==
  /\ p \in world.online
  /\ \E d \in Trapped : <<world.room[p], d>> \in Exits
  /\ world' = Fall(world, p)

\* Anything else factions judge: a greeting, a taunt, a gift, a heal, a quest.
Behave(p, missed, f) ==
  /\ p \in world.online
  /\ world' \in Deed(world, p, missed, f)

-----------------------------------------------------------------------------
(* What the servers' tickers do. *)

\* Bug: a held-up move is carried out whatever holds the player.
MoveDueAnyway(p, missed, f) ==
  /\ world.pending[p] # NoMove
  /\ world.pending[p][1] = world.room[p]
  /\ p \in world.online
  /\ world' \in FinishMove([world EXCEPT !.pending[p] = NoMove], p, world.pending[p][2], missed, f)

\* tick: a held-up move is due.
MoveDue(p, missed, f) ==
  /\ world.pending[p] # NoMove
  /\ LET t == [world EXCEPT !.pending[p] = NoMove]
     IN  IF /\ world.pending[p][1] = world.room[p]
            /\ p \in world.online
            /\ world.fight[p] = NoFight
         THEN world' \in FinishMove(t, p, world.pending[p][2], missed, f)
         ELSE world' = t

\* upkeep: a sleeping body fades.
Fade(p) ==
  /\ p \in world.sleepers
  /\ LET t == DropPlayer(world, p)
     IN  world' = [t EXCEPT !.sleepers = @ \ {p},
                            !.asleep = @ \ {p},
                            !.floor[t.room[p]] = @ \ {p}]

\* upkeep: an NPC's time has come, unless the weather keeps it hidden.
Respawn(n) ==
  /\ n \in world.respawns
  /\ LET t == [world EXCEPT !.respawns = @ \ {n}]
     IN  \/ world' = Appear(t, n)
         \/ n \in Weather /\ world' = [t EXCEPT !.hidden = @ \cup {n}]

\* weather_tick: the weather turns for an NPC, or against it.
Emerge(n) ==
  /\ n \in world.hidden
  /\ world' = Appear([world EXCEPT !.hidden = @ \ {n}], n)

\* Bug: the weather takes an NPC out of its fight.
HideFighting(n) ==
  /\ n \in Weather \cap world.here[world.home[n]]
  /\ world' = [world EXCEPT !.here[world.home[n]] = @ \ {n}, !.hidden = @ \cup {n}]

Hide(n) ==
  /\ n \in Weather \cap world.here[world.home[n]]
  /\ world.busy[n] = NoFight
  /\ world' = [world EXCEPT !.here[world.home[n]] = @ \ {n}, !.hidden = @ \cup {n}]

\* encounter_end: the fight's owner is gone.
EndLost(e) ==
  /\ e \in world.live
  /\ world' = [Finish(world, e) EXCEPT !.turning = world.members[e] \X {world.place[e]}]

\* A server starts and loads its seed, in which an NPC has moved: it moves in
\* the world too, or comes back there.
Reseed(n, r) ==
  /\ LiveMoves \/ world.online \cup world.asleep = {}
  /\ r # world.home[n]
  /\ LET was == world.home[n]
         t   == [world EXCEPT !.home[n] = r]
     IN  IF n \in world.here[was]
         THEN world' = [t EXCEPT !.here[was] = @ \ {n}, !.here[r] = @ \cup {n}]
         ELSE world' = t

\* reset_character: back to nothing, and to the start on the next login.
Reset(p) ==
  LET t == DropPlayer([world EXCEPT !.floor[world.room[p]] = @ \ {p}], p)
  IN  world' = [t EXCEPT !.online = @ \ {p},
                         !.asleep = @ \ {p},
                         !.sleepers = @ \ {p},
                         !.pending[p] = NoMove,
                         !.hostile[p] = Hostile,
                         !.room[p] = Start]

\* The next player of a loop.
Turn(t, missed, f) ==
  world' = Aggro([world EXCEPT !.turning = @ \ {t}], t[1], t[2], missed, f)

-----------------------------------------------------------------------------

Init ==
  world = [online   |-> {},
           asleep   |-> {},
           sleepers |-> {},
           room     |-> [p \in Players |-> Start],
           floor    |-> [r \in Rooms |-> {}],
           pending  |-> [p \in Players |-> NoMove],
           hostile  |-> [p \in Players |-> Hostile],
           home     |-> Home,
           here     |-> [r \in Rooms |-> {n \in Npcs : Home[n] = r}],
           hidden   |-> {},
           respawns |-> {},
           live     |-> {},
           place    |-> [e \in Fights |-> Start],
           members  |-> [e \in Fights |-> {}],
           foes     |-> [e \in Fights |-> {}],
           inRoom   |-> [r \in Rooms |-> NoFight],
           fight    |-> [p \in Players |-> NoFight],
           busy     |-> [n \in Npcs |-> NoFight],
           turning  |-> {}]

\* What starts no fight, and what may.
PlayerStep(p) == Disconnect(p) \/ Disarm(p) \/ Fade(p) \/ Reset(p)

NpcStep(n) ==
  \/ Respawn(n) \/ Emerge(n) \/ Hide(n)
  \/ \E r \in Rooms : <<n, r>> \in Moves /\ Reseed(n, r)

RuleStep(p, missed, f) ==
  \/ Connect(p, missed, f) \/ Behave(p, missed, f) \/ MoveDue(p, missed, f)
  \/ \E d \in Rooms : Move(p, d, missed, f) \/ Jump(p, d, missed, f) \/ Flee(p, d, missed, f)
  \/ \E n \in Npcs : Attack(p, n, f) \/ Strike(p, n, missed, f) \/ Blow(p, n, missed, f)

Next ==
  \/ /\ world.turning = {}
     /\ \/ \E p \in Players : PlayerStep(p)
        \/ \E n \in Npcs : NpcStep(n)
        \/ \E e \in Fights : EndLost(e)
        \/ \E p \in Players, missed \in SUBSET Wary, f \in Fights \ world.live :
             RuleStep(p, missed, f)
  \/ \E t \in world.turning, missed \in SUBSET Wary, f \in Fights \ world.live :
       Turn(t, missed, f)

vars == <<world>>

Spec == Init /\ [][Next]_vars

-----------------------------------------------------------------------------
(* Properties. *)

TypeOK == world \in Worlds

\* The two sides of every fight agree on it, it has players and NPCs as long
\* as it lives, and each room has one fight at most and knows it (enc.create,
\* enc.add_player, enc.drop_player, enc.drop_npc, enc.finish).
FightSides ==
  /\ \A e \in Fights : /\ world.members[e] = {p \in Players : world.fight[p] = e}
                       /\ world.foes[e] = {n \in Npcs : world.busy[n] = e}
                       /\ e \in world.live <=> world.members[e] # {}
                       /\ e \in world.live <=> world.foes[e] # {}
                       /\ e \in world.live => world.inRoom[world.place[e]] = e
  /\ \A r \in Rooms : world.inRoom[r] # NoFight =>
       world.inRoom[r] \in world.live /\ world.place[world.inRoom[r]] = r

\* Whoever is in a fight is where it is: nobody walks on, jumps, wakes, falls
\* or hides without leaving it (finish_move, teleport, pending_moves_due,
\* defeat, disconnect, weather_npcs).
FightsInPlace ==
  /\ \A p \in Players : world.fight[p] # NoFight =>
       p \in world.floor[world.place[world.fight[p]]]
  /\ \A n \in Npcs : world.busy[n] # NoFight =>
       n \in world.here[world.place[world.busy[n]]]

\* A body is in the room its player is in, and nowhere else, as long as the
\* player is in the world or asleep; whoever sleeps is bound to fade, and
\* nobody else is (connect, disconnect, relocate, defeat, fade_out).
BodiesLie ==
  /\ \A r \in Rooms : world.floor[r] =
       {p \in world.online \cup world.asleep : world.room[p] = r}
  /\ world.asleep = world.sleepers
  /\ world.asleep \cap world.online = {}

\* An NPC is at home, hidden, or dead and due back, and no two of these: none
\* is lost to the world for good (npc_down, respawn_due, weather_npcs).
NpcSomewhere ==
  LET about == {n \in Npcs : n \in world.here[world.home[n]]}
  IN  /\ Npcs = about \cup world.hidden \cup world.respawns
      /\ about \cap world.hidden = {}
      /\ about \cap world.respawns = {}
      /\ world.hidden \cap world.respawns = {}

\* docs/combat.md:25: a player who is awake and an enemy hostile to them in
\* the same room fight, whichever of them came, woke, came back or changed
\* their mind; but for a wary enemy, which may have missed them (aggro).
OneRule ==
  world.turning = {} =>
    \A p \in world.online, n \in Npcs \ Wary :
      n \in world.here[world.room[p]] \cap world.hostile[p] =>
        world.fight[p] # NoFight /\ world.busy[n] = world.fight[p]

\* No sleeper is drawn into a fight (aggro, appear, encounter_end).
SleepersAreLeftAlone ==
  [][\A p \in world.asleep :
       p \in world'.asleep => world'.fight[p] \in {world.fight[p], NoFight}]_vars

\* README.md:555: a body that lies down in a fight stays in it, taking its
\* blows, until it fades or falls.  While it lies there, a fight leaves it only
\* for want of enemies.
BodiesStayInFights ==
  [][\A p \in world.asleep \cap world'.asleep :
       LET e == world.fight[p]
       IN  e # NoFight /\ world'.fight[p] # e /\ world'.room[p] = world.room[p] =>
             world.foes[e] \cap world'.here[world.room[p]] = {}]_vars

=============================================================================
