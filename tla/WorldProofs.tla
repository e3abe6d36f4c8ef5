---------------------------- MODULE WorldProofs ----------------------------
(***************************************************************************)
(* Proofs about World, for any players, NPCs and rooms: its types; and     *)
(* what holds of every reachable world, by induction: each operator takes  *)
(* a sound world to a sound one, and each action is made of them.          *)
(***************************************************************************)
EXTENDS World, TLAPS

LEMMA CreateTyped ==
  ASSUME NEW s \in Worlds, NEW e \in Fights, NEW r \in Rooms
  PROVE  Create(s, e, r) \in Worlds
BY DEF Create, Worlds

LEMMA AddPlayerTyped ==
  ASSUME NEW s \in Worlds, NEW e \in Fights, NEW p \in Players
  PROVE  AddPlayer(s, e, p) \in Worlds
<1>1. [s EXCEPT !.members[e] = @ \cup {p}, !.fight[p] = e] \in Worlds
  BY ZenonT(60) DEF Worlds
<1> QED
  BY <1>1 DEF AddPlayer

LEMMA AddNpcsTyped ==
  ASSUME NEW s \in Worlds, NEW e \in Fights, NEW ns \in SUBSET Npcs
  PROVE  AddNpcs(s, e, ns) \in Worlds
BY DEF AddNpcs, Worlds

LEMMA FinishTyped ==
  ASSUME NEW s \in Worlds, NEW e \in Fights
  PROVE  Finish(s, e) \in Worlds
<1> DEFINE a == [s EXCEPT !.fight = [p \in Players |-> IF p \in s.members[e] THEN NoFight ELSE s.fight[p]],
                          !.busy = [n \in Npcs |-> IF n \in s.foes[e] THEN NoFight ELSE s.busy[n]]]
           b == [a EXCEPT !.inRoom[s.place[e]] = IF @ = e THEN NoFight ELSE @,
                          !.place[e] = Start]
<1>1. a \in Worlds
  BY DEF Worlds
<1>2. b \in Worlds
  <2> HIDE DEF a
  <2> QED
    BY <1>1, WorldAssumption, ZenonT(60) DEF Worlds
<1>3. [b EXCEPT !.members[e] = {}, !.foes[e] = {}, !.live = @ \ {e}] \in Worlds
  <2> HIDE DEF b
  <2> QED
    BY <1>2 DEF Worlds
<1> QED
  BY <1>3 DEF Finish

LEMMA DropPlayerTyped ==
  ASSUME NEW s \in Worlds, NEW p \in Players
  PROVE  DropPlayer(s, p) \in Worlds
<1> DEFINE e == s.fight[p]
           t == [s EXCEPT !.members[e] = @ \ {p}, !.fight[p] = NoFight]
<1>1. CASE e = NoFight
  BY <1>1 DEF DropPlayer
<1>2. CASE e # NoFight
  <2>1. e \in Fights
    BY <1>2 DEF Worlds
  <2>2. t \in Worlds
    BY DEF Worlds
  <2> QED
    BY <1>2, <2>1, <2>2, FinishTyped DEF DropPlayer
<1> QED
  BY <1>1, <1>2

LEMMA DropNpcTyped ==
  ASSUME NEW s \in Worlds, NEW n \in Npcs
  PROVE  DropNpc(s, n) \in Worlds
<1> DEFINE e == s.busy[n]
           t == [s EXCEPT !.foes[e] = @ \ {n}, !.busy[n] = NoFight]
<1>1. CASE e = NoFight
  BY <1>1 DEF DropNpc
<1>2. CASE e # NoFight
  <2>1. e \in Fights
    BY <1>2 DEF Worlds
  <2>2. t \in Worlds
    BY DEF Worlds
  <2> QED
    BY <1>2, <2>1, <2>2, FinishTyped DEF DropNpc
<1> QED
  BY <1>1, <1>2

LEMMA HereTyped ==
  ASSUME NEW s \in Worlds, NEW p \in Players, NEW r \in Rooms
  PROVE  Here(s, p, r) \in Fights \cup {NoFight}
BY DEF Here, Worlds

LEMMA AggroTyped ==
  ASSUME NEW s \in Worlds, NEW p \in Players, NEW r \in Rooms, NEW missed, NEW f \in Fights
  PROVE  Aggro(s, p, r, missed, f) \in Worlds
<1> DEFINE e     == Here(s, p, r)
           fresh == {n \in s.here[r] : s.busy[n] = NoFight /\ n \in s.hostile[p] \ missed}
           join  == /\ e # NoFight
                    /\ s.fight[p] = e \/ fresh # {} \/ s.foes[e] \cap s.hostile[p] # {}
           id    == IF join THEN e ELSE f
           t     == IF join THEN s ELSE Create(s, f, r)
<1>1. fresh \in SUBSET Npcs
  BY DEF Worlds
<1>2. id \in Fights
  BY HereTyped
<1>3. t \in Worlds
  BY CreateTyped
<1>4. AddPlayer(AddNpcs(t, id, fresh), id, p) \in Worlds
  BY <1>1, <1>2, <1>3, AddNpcsTyped, AddPlayerTyped
<1> QED
  BY <1>4 DEF Aggro

LEMMA HostileTyped ==
  ASSUME NEW s \in Worlds, NEW p \in Players, NEW h \in SUBSET Npcs
  PROVE  [s EXCEPT !.hostile[p] = h] \in Worlds
BY DEF Worlds

LEMMA DeedTyped ==
  ASSUME NEW s \in Worlds, NEW p \in Players, NEW missed, NEW f \in Fights,
         NEW t \in Deed(s, p, missed, f)
  PROVE  t \in Worlds
<1>1. ASSUME NEW h \in SUBSET Npcs
      PROVE  [s EXCEPT !.hostile[p] = h] \in Worlds
  BY HostileTyped
<1>2. s.room[p] \in Rooms
  BY DEF Worlds
<1>3. Opinions(s, p) \subseteq SUBSET Npcs
  BY DEF Opinions
<1>4. CASE t = s
  BY <1>4
<1>5. ASSUME NEW h \in Opinions(s, p),
             t = Aggro([s EXCEPT !.hostile[p] = h], p, s.room[p], missed, f)
      PROVE  t \in Worlds
  <2>1. [s EXCEPT !.hostile[p] = h] \in Worlds
    BY <1>1, <1>3
  <2> QED
    BY <1>2, <1>5, <2>1, AggroTyped
<1> QED
  BY <1>4, <1>5 DEF Deed

LEMMA RelocateTyped ==
  ASSUME NEW s \in Worlds, NEW p \in Players, NEW d \in Rooms
  PROVE  Relocate(s, p, d) \in Worlds
<1> DEFINE u == [s EXCEPT !.floor[s.room[p]] = @ \ {p}]
<1>1. u \in Worlds
  BY DEF Worlds
<1>2. [u EXCEPT !.floor[d] = @ \cup {p}, !.room[p] = d] \in Worlds
  <2> HIDE DEF u
  <2> DEFINE v == [u EXCEPT !.floor[d] = @ \cup {p}]
  <2>1. v \in Worlds
    BY <1>1, ZenonT(60) DEF Worlds
  <2>2. [v EXCEPT !.room[p] = d] \in Worlds
    <3> HIDE DEF v
    <3> QED
      BY <2>1 DEF Worlds
  <2> QED
    BY <2>2
<1> QED
  BY <1>2 DEF Relocate

LEMMA FallTyped ==
  ASSUME NEW s \in Worlds, NEW p \in Players
  PROVE  Fall(s, p) \in Worlds
<1> DEFINE t == DropPlayer(s, p)
<1>1. t \in Worlds
  BY DropPlayerTyped
<1>2. Relocate(t, p, Shrine) \in Worlds
  BY <1>1, RelocateTyped, WorldAssumption
<1>3. [t EXCEPT !.floor[t.room[p]] = @ \ {p},
                !.sleepers = @ \ {p},
                !.asleep = @ \ {p},
                !.room[p] = Shrine] \in Worlds
  <2> HIDE DEF t
  <2> QED
    BY <1>1, WorldAssumption, ZenonT(60) DEF Worlds
<1> QED
  BY <1>2, <1>3 DEF Fall

LEMMA FinishMoveTyped ==
  ASSUME NEW s \in Worlds, NEW p \in Players, NEW d \in Rooms, NEW missed, NEW f \in Fights,
         NEW t \in FinishMove(s, p, d, missed, f)
  PROVE  t \in Worlds
BY RelocateTyped, AggroTyped, FallTyped DEF FinishMove

LEMMA TeleportTyped ==
  ASSUME NEW s \in Worlds, NEW p \in Players, NEW d \in Rooms, NEW missed, NEW f \in Fights,
         NEW t \in Teleport(s, p, d, missed, f)
  PROVE  t \in Worlds
<1> DEFINE u == DropPlayer(s, p)
<1>1. u \in Worlds
  BY DropPlayerTyped
<1>2. [u EXCEPT !.pending[p] = NoMove] \in Worlds
  <2> HIDE DEF u
  <2> QED
    BY <1>1 DEF Worlds
<1> QED
  BY <1>2, RelocateTyped, AggroTyped, FallTyped DEF Teleport

LEMMA NpcDownTyped ==
  ASSUME NEW s \in Worlds, NEW p \in Players, NEW r \in Rooms, NEW n \in Npcs, NEW missed,
         NEW f \in Fights, NEW t \in NpcDown(s, p, r, n, missed, f)
  PROVE  t \in Worlds
<1> DEFINE u == DropNpc(s, n)
<1>1. u \in Worlds
  BY DropNpcTyped
<1>2. [u EXCEPT !.here[r] = @ \ {n}, !.respawns = @ \cup {n}] \in Worlds
  <2> HIDE DEF u
  <2> QED
    BY <1>1, ZenonT(60) DEF Worlds
<1> QED
  BY <1>2, DeedTyped DEF NpcDown

LEMMA AppearTyped ==
  ASSUME NEW s \in Worlds, NEW n \in Npcs
  PROVE  Appear(s, n) \in Worlds
<1> DEFINE r == s.home[n]
           due == {<<p, r>> : p \in s.floor[r] \cap s.online}
<1>1. r \in Rooms
  BY DEF Worlds
<1>2. due \in SUBSET (Players \X Rooms)
  BY <1>1 DEF Worlds
<1> HIDE DEF r, due
<1>3. [s EXCEPT !.here[r] = @ \cup {n}, !.turning = due] \in Worlds
  BY <1>1, <1>2, ZenonT(60) DEF Worlds
<1> QED
  BY <1>3 DEF Appear, r, due

-----------------------------------------------------------------------------

LEMMA InitTyped == Init => TypeOK
BY WorldAssumption DEF Init, TypeOK, Worlds, NoMove

LEMMA PlayerStepTyped ==
  ASSUME world \in Worlds, NEW p \in Players, PlayerStep(p)
  PROVE  world' \in Worlds
<1>1. CASE Disconnect(p)
  <2> DEFINE gone == [world EXCEPT !.online = @ \ {p}]
  <2>1. gone \in Worlds
    BY DEF Worlds
  <2> HIDE DEF gone
  <2>2. [gone EXCEPT !.floor[world.room[p]] = @ \ {p}] \in Worlds
    BY <2>1 DEF Worlds
  <2>3. [gone EXCEPT !.asleep = @ \cup {p}, !.sleepers = @ \cup {p}] \in Worlds
    BY <2>1 DEF Worlds
  <2> QED
    BY <1>1, <2>2, <2>3 DEF Disconnect, gone
<1>2. CASE Disarm(p)
  BY <1>2, FallTyped DEF Disarm
<1>3. CASE Fade(p)
  <2> DEFINE t == DropPlayer(world, p)
  <2>1. t \in Worlds
    BY DropPlayerTyped
  <2> HIDE DEF t
  <2>2. [t EXCEPT !.sleepers = @ \ {p},
                  !.asleep = @ \ {p},
                  !.floor[t.room[p]] = @ \ {p}] \in Worlds
    BY <2>1, ZenonT(60) DEF Worlds
  <2> QED
    BY <1>3, <2>2 DEF Fade, t
<1>4. CASE Reset(p)
  <2> DEFINE u == [world EXCEPT !.floor[world.room[p]] = @ \ {p}]
             t == DropPlayer(u, p)
  <2>1. u \in Worlds
    BY DEF Worlds
  <2>2. t \in Worlds
    BY <2>1, DropPlayerTyped
  <2> HIDE DEF t
  <2>3. [t EXCEPT !.online = @ \ {p},
                  !.asleep = @ \ {p},
                  !.sleepers = @ \ {p}] \in Worlds
    BY <2>2 DEF Worlds
  <2> DEFINE v == [t EXCEPT !.online = @ \ {p},
                            !.asleep = @ \ {p},
                            !.sleepers = @ \ {p}]
  <2> HIDE DEF v
  <2>4. [v EXCEPT !.pending[p] = NoMove, !.hostile[p] = Hostile, !.room[p] = Start] \in Worlds
    BY <2>3, WorldAssumption, ZenonT(60) DEF Worlds, v
  <2> QED
    BY <1>4, <2>4 DEF Reset, t, v
<1> QED
  BY <1>1, <1>2, <1>3, <1>4 DEF PlayerStep

LEMMA NpcStepTyped ==
  ASSUME world \in Worlds, NEW n \in Npcs, NpcStep(n)
  PROVE  world' \in Worlds
<1>1. CASE Respawn(n)
  <2> DEFINE t == [world EXCEPT !.respawns = @ \ {n}]
  <2>1. t \in Worlds
    BY DEF Worlds
  <2> HIDE DEF t
  <2>2. [t EXCEPT !.hidden = @ \cup {n}] \in Worlds
    BY <2>1 DEF Worlds
  <2> QED
    BY <1>1, <2>1, <2>2, AppearTyped DEF Respawn, t
<1>2. CASE Emerge(n)
  <2>1. [world EXCEPT !.hidden = @ \ {n}] \in Worlds
    BY DEF Worlds
  <2> QED
    BY <1>2, <2>1, AppearTyped DEF Emerge
<1>3. CASE Hide(n)
  BY <1>3, ZenonT(60) DEF Hide, Worlds
<1>4. ASSUME NEW r \in Rooms, Reseed(n, r)
      PROVE  world' \in Worlds
  <2> DEFINE was == world.home[n]
             t == [world EXCEPT !.home[n] = r]
             a == [t EXCEPT !.here[was] = @ \ {n}]
  <2>1. t \in Worlds /\ was \in Rooms
    BY DEF Worlds
  <2> HIDE DEF t, was
  <2>2. a \in Worlds /\ (r # was => a.here[r] = t.here[r])
    BY <2>1 DEF Worlds
  <2> HIDE DEF a
  <2>3. [a EXCEPT !.here[r] = @ \cup {n}] \in Worlds
    BY <2>2, ZenonT(60) DEF Worlds
  <2>4. world' = t \/ world' = [a EXCEPT !.here[r] = @ \cup {n}]
    <3>1. CASE n \in world.here[was]
      <4>1. world' = [t EXCEPT !.here[was] = @ \ {n}, !.here[r] = @ \cup {n}]
        BY <1>4, <3>1 DEF Reseed, t, was
      <4> QED
        BY <1>4, <2>2, <4>1 DEF Reseed, a, was
    <3>2. CASE n \notin world.here[was]
      BY <1>4, <3>2 DEF Reseed, t, was
    <3> QED
      BY <3>1, <3>2
  <2> QED
    BY <2>1, <2>3, <2>4
<1> QED
  BY <1>1, <1>2, <1>3, <1>4 DEF NpcStep

LEMMA RuleStepTyped ==
  ASSUME world \in Worlds, NEW p \in Players, NEW missed, NEW f \in Fights,
         RuleStep(p, missed, f)
  PROVE  world' \in Worlds
<1>1. CASE Connect(p, missed, f)
  <2> DEFINE t == [world EXCEPT !.online = @ \cup {p},
                                !.asleep = @ \ {p},
                                !.sleepers = @ \ {p},
                                !.floor[world.room[p]] = @ \cup {p}]
  <2> DEFINE u == [world EXCEPT !.online = @ \cup {p},
                                !.asleep = @ \ {p},
                                !.sleepers = @ \ {p}]
  <2>1. u \in Worlds
    BY DEF Worlds
  <2> HIDE DEF u
  <2>2. [u EXCEPT !.floor[world.room[p]] = @ \cup {p}] \in Worlds
    BY <2>1, ZenonT(60) DEF Worlds
  <2>3. t \in Worlds
    BY <2>2 DEF u
  <2>4. world.room[p] \in Rooms
    BY DEF Worlds
  <2> QED
    BY <1>1, <2>3, <2>4, AggroTyped DEF Connect
<1>2. CASE Behave(p, missed, f)
  BY <1>2, DeedTyped DEF Behave
<1>3. CASE MoveDue(p, missed, f)
  <2> DEFINE t == [world EXCEPT !.pending[p] = NoMove]
  <2>1. t \in Worlds
    BY DEF Worlds
  <2>2. world.pending[p][2] \in Rooms
    BY <1>3, WorldAssumption DEF MoveDue, Worlds
  <2> HIDE DEF t
  <2> QED
    BY <1>3, <2>1, <2>2, FinishMoveTyped DEF MoveDue, t
<1>4. ASSUME NEW d \in Rooms, Move(p, d, missed, f)
      PROVE  world' \in Worlds
  <2>1. [world EXCEPT !.pending[p] = <<world.room[p], d>>] \in Worlds
    BY <1>4 DEF Move, Worlds
  <2> QED
    BY <1>4, <2>1, FinishMoveTyped DEF Move
<1>5. ASSUME NEW d \in Rooms, Jump(p, d, missed, f)
      PROVE  world' \in Worlds
  BY <1>5, TeleportTyped DEF Jump
<1>6. ASSUME NEW d \in Rooms, Flee(p, d, missed, f)
      PROVE  world' \in Worlds
  BY <1>6, DropPlayerTyped, FinishMoveTyped, FallTyped, DeedTyped DEF Flee, Defeat
<1>7. ASSUME NEW n \in Npcs, Attack(p, n, f)
      PROVE  world' \in Worlds
  <2> DEFINE r == world.room[p]
             e == IF world.busy[n] # NoFight THEN world.busy[n] ELSE Here(world, p, r)
             t == IF e = NoFight THEN Create(world, f, r) ELSE world
             id == IF e = NoFight THEN f ELSE e
  <2>1. r \in Rooms
    BY DEF Worlds
  <2>2. e \in Fights \cup {NoFight}
    BY <2>1, HereTyped DEF Worlds
  <2>3. t \in Worlds /\ id \in Fights
    BY <2>1, <2>2, CreateTyped
  <2>4. AddNpcs(t, id, {n}) \in Worlds
    BY <2>3, AddNpcsTyped
  <2>5. AddPlayer(AddNpcs(t, id, {n}), id, p) \in Worlds
    BY <2>3, <2>4, AddPlayerTyped
  <2> QED
    BY <1>7, <2>5 DEF Attack
<1>8. ASSUME NEW n \in Npcs, Strike(p, n, missed, f)
      PROVE  world' \in Worlds
  <2> DEFINE e == world.fight[p]
             r == world.place[e]
             drawn == IF world.busy[n] = e THEN world ELSE AddNpcs(world, e, {n})
  <2>1. e \in Fights /\ r \in Rooms
    BY <1>8 DEF Strike, Worlds
  <2>2. drawn \in Worlds
    BY <2>1, AddNpcsTyped
  <2> QED
    BY <1>8, <2>1, <2>2, DeedTyped, NpcDownTyped DEF Strike
<1>9. ASSUME NEW n \in Npcs, Blow(p, n, missed, f)
      PROVE  world' \in Worlds
  BY <1>9, FallTyped, DeedTyped DEF Blow, Defeat
<1> QED
  BY <1>1, <1>2, <1>3, <1>4, <1>5, <1>6, <1>7, <1>8, <1>9 DEF RuleStep

LEMMA EndLostTyped ==
  ASSUME world \in Worlds, NEW e \in Fights, EndLost(e)
  PROVE  world' \in Worlds
<1> DEFINE t == Finish(world, e)
           due == world.members[e] \X {world.place[e]}
<1>1. t \in Worlds
  BY FinishTyped
<1>2. due \in SUBSET (Players \X Rooms)
  BY DEF Worlds
<1> HIDE DEF t, due
<1>3. [t EXCEPT !.turning = due] \in Worlds
  BY <1>1, <1>2 DEF Worlds
<1> QED
  BY <1>3 DEF EndLost, t, due

LEMMA TurnTyped ==
  ASSUME world \in Worlds, NEW t \in world.turning, NEW missed, NEW f \in Fights,
         Turn(t, missed, f)
  PROVE  world' \in Worlds
<1>1. [world EXCEPT !.turning = @ \ {t}] \in Worlds
  BY DEF Worlds
<1>2. t[1] \in Players /\ t[2] \in Rooms
  BY DEF Worlds
<1> QED
  BY <1>1, <1>2, AggroTyped DEF Turn

\* The world keeps to its type, for any rooms, players, NPCs and seeds.
THEOREM WorldTyped == Spec => []TypeOK
<1>1. Init => TypeOK
  BY InitTyped
<1>2. TypeOK /\ [Next]_vars => TypeOK'
  <2>1. ASSUME TypeOK, Next
        PROVE  TypeOK'
    BY <2>1, PlayerStepTyped, NpcStepTyped, EndLostTyped, RuleStepTyped, TurnTyped
    DEF Next, TypeOK
  <2>2. CASE UNCHANGED vars
    BY <2>2 DEF vars, TypeOK
  <2> QED
    BY <2>1, <2>2
<1> QED
  BY <1>1, <1>2, PTL DEF Spec

-----------------------------------------------------------------------------
(* Sound worlds. *)

\* The parts of a sound world.  Matched and Placed hold at every point of a
\* handler; a fight may be short of players or NPCs until it is finished.
Matched(s) ==
  \A e \in Fights : /\ s.members[e] = {p \in Players : s.fight[p] = e}
                    /\ s.foes[e] = {n \in Npcs : s.busy[n] = e}

Placed(s) ==
  /\ \A e \in s.live : s.inRoom[s.place[e]] = e
  /\ \A r \in Rooms : s.inRoom[r] # NoFight =>
       s.inRoom[r] \in s.live /\ s.place[s.inRoom[r]] = r

Manned(s, e) ==
  /\ e \in s.live <=> s.members[e] # {}
  /\ e \in s.live <=> s.foes[e] # {}

Sides(s) == Matched(s) /\ Placed(s) /\ \A e \in Fights : Manned(s, e)

InPlace(s) ==
  /\ \A p \in Players : s.fight[p] # NoFight => p \in s.floor[s.place[s.fight[p]]]
  /\ \A n \in Npcs : s.busy[n] # NoFight => n \in s.here[s.place[s.busy[n]]]

Bodies(s) ==
  /\ \A r \in Rooms : s.floor[r] = {p \in s.online \cup s.asleep : s.room[p] = r}
  /\ s.asleep = s.sleepers
  /\ s.asleep \cap s.online = {}

\* NPCs are nowhere but at home, and at home unless hidden or dead.
Roster(s) ==
  /\ \A n \in Npcs, r \in Rooms : n \in s.here[r] => s.home[n] = r
  /\ \A n \in Npcs : /\ n \in s.here[s.home[n]] \/ n \in s.hidden \/ n \in s.respawns
                     /\ ~(n \in s.here[s.home[n]] /\ n \in s.hidden)
                     /\ ~(n \in s.here[s.home[n]] /\ n \in s.respawns)
                     /\ ~(n \in s.hidden /\ n \in s.respawns)
                     /\ s.home[n] # Shrine

Sound(s) == s \in Worlds /\ Sides(s) /\ InPlace(s) /\ Bodies(s) /\ Roster(s)

\* The one rule, for one player.
Rule(s, p) ==
  \A n \in Npcs \ Wary :
    n \in s.here[s.room[p]] \cap s.hostile[p] => s.fight[p] # NoFight /\ s.busy[n] = s.fight[p]

\* It holds for every player who is up but those a loop has yet to come to.
Ruled(s) == \A p \in s.online : Rule(s, p) \/ <<p, s.room[p]>> \in s.turning

\* From s to t, it goes on holding for everybody but p.
OthersRuled(s, t, p) ==
  \A q \in Players \ {p} : q \in t.online => q \in s.online /\ (Rule(s, q) => Rule(t, q))

-----------------------------------------------------------------------------
(* What operators leave alone. *)

SameFights(s, t) ==
  /\ t.live = s.live
  /\ t.place = s.place
  /\ t.members = s.members
  /\ t.foes = s.foes
  /\ t.inRoom = s.inRoom
  /\ t.fight = s.fight
  /\ t.busy = s.busy

SameBodies(s, t) ==
  /\ t.online = s.online
  /\ t.asleep = s.asleep
  /\ t.sleepers = s.sleepers
  /\ t.room = s.room
  /\ t.floor = s.floor

SameNpcs(s, t) ==
  /\ t.home = s.home
  /\ t.here = s.here
  /\ t.hidden = s.hidden
  /\ t.respawns = s.respawns

\* Only fights differ.
Still(s, t) == SameBodies(s, t) /\ SameNpcs(s, t) /\ t.hostile = s.hostile /\ t.turning = s.turning

\* From s to t, fights only let go; or only take in.
LetGo(s, t) ==
  /\ Still(s, t)
  /\ t.live \subseteq s.live
  /\ \A e \in t.live : t.place[e] = s.place[e]
  /\ \A p \in Players : t.fight[p] \in {s.fight[p], NoFight}
  /\ \A n \in Npcs : t.busy[n] \in {s.busy[n], NoFight}

LEMMA CreateShape ==
  ASSUME NEW s \in Worlds, NEW e \in Fights, NEW r \in Rooms, NEW t, t = Create(s, e, r)
  PROVE  /\ Still(s, t)
         /\ t.live = s.live \cup {e}
         /\ t.place = [s.place EXCEPT ![e] = r]
         /\ t.inRoom = [s.inRoom EXCEPT ![r] = e]
         /\ t.members = s.members /\ t.foes = s.foes /\ t.fight = s.fight /\ t.busy = s.busy
<1>1. Still(s, t)
  BY DEF Create, Worlds, Still, SameBodies, SameNpcs
<1>2. t.live = s.live \cup {e} /\ t.place = [s.place EXCEPT ![e] = r]
  BY DEF Create, Worlds
<1>3. t.inRoom = [s.inRoom EXCEPT ![r] = e]
  BY DEF Create, Worlds
<1>4. t.members = s.members /\ t.foes = s.foes /\ t.fight = s.fight /\ t.busy = s.busy
  BY DEF Create, Worlds
<1> QED
  BY <1>1, <1>2, <1>3, <1>4

LEMMA FinishShape ==
  ASSUME NEW s \in Worlds, NEW e \in Fights, NEW t, t = Finish(s, e)
  PROVE  /\ Still(s, t)
         /\ t.fight = [p \in Players |-> IF p \in s.members[e] THEN NoFight ELSE s.fight[p]]
         /\ t.busy = [n \in Npcs |-> IF n \in s.foes[e] THEN NoFight ELSE s.busy[n]]
         /\ t.inRoom = [s.inRoom EXCEPT ![s.place[e]] = IF @ = e THEN NoFight ELSE @]
         /\ t.place = [s.place EXCEPT ![e] = Start]
         /\ t.members = [s.members EXCEPT ![e] = {}]
         /\ t.foes = [s.foes EXCEPT ![e] = {}]
         /\ t.live = s.live \ {e}
<1>1. SameBodies(s, t)
  BY DEF Finish, Worlds, SameBodies
<1>2. SameNpcs(s, t)
  BY DEF Finish, Worlds, SameNpcs
<1>3. t.hostile = s.hostile /\ t.turning = s.turning
  BY DEF Finish, Worlds
<1>4. t.fight = [p \in Players |-> IF p \in s.members[e] THEN NoFight ELSE s.fight[p]]
  BY DEF Finish, Worlds
<1>5. t.busy = [n \in Npcs |-> IF n \in s.foes[e] THEN NoFight ELSE s.busy[n]]
  BY DEF Finish, Worlds
<1>6. t.inRoom = [s.inRoom EXCEPT ![s.place[e]] = IF @ = e THEN NoFight ELSE @]
  BY DEF Finish, Worlds
<1>7. t.place = [s.place EXCEPT ![e] = Start] /\ t.live = s.live \ {e}
  BY DEF Finish, Worlds
<1>8. t.members = [s.members EXCEPT ![e] = {}] /\ t.foes = [s.foes EXCEPT ![e] = {}]
  BY DEF Finish, Worlds
<1> QED
  BY <1>1, <1>2, <1>3, <1>4, <1>5, <1>6, <1>7, <1>8 DEF Still

LEMMA FinishFrees ==
  ASSUME NEW s \in Worlds, NEW e \in Fights, NEW t, t = Finish(s, e)
  PROVE  /\ \A q \in Players : t.fight[q] = IF q \in s.members[e] THEN NoFight ELSE s.fight[q]
         /\ \A n \in Npcs : t.busy[n] = IF n \in s.foes[e] THEN NoFight ELSE s.busy[n]
<1>1. \A q \in Players : t.fight[q] = IF q \in s.members[e] THEN NoFight ELSE s.fight[q]
  BY DEF Finish, Worlds
<1>2. \A n \in Npcs : t.busy[n] = IF n \in s.foes[e] THEN NoFight ELSE s.busy[n]
  BY DEF Finish, Worlds
<1> QED
  BY <1>1, <1>2

\* From s to t, a body moves to d.
Relocated(s, t, p, d) ==
  /\ SameFights(s, t) /\ SameNpcs(s, t)
  /\ t.hostile = s.hostile /\ t.turning = s.turning
  /\ t.online = s.online /\ t.asleep = s.asleep /\ t.sleepers = s.sleepers
  /\ t.room = [s.room EXCEPT ![p] = d]
  /\ \A r \in Rooms : t.floor[r] = IF r = d THEN s.floor[r] \cup {p}
                                   ELSE IF r = s.room[p] THEN s.floor[r] \ {p}
                                   ELSE s.floor[r]

LEMMA RelocateShape ==
  ASSUME NEW s \in Worlds, NEW p \in Players, NEW d \in Rooms, NEW t, t = Relocate(s, p, d)
  PROVE  Relocated(s, t, p, d)
<1>1. SameFights(s, t)
  BY DEF Relocate, Worlds, SameFights
<1>2. SameNpcs(s, t) /\ t.hostile = s.hostile /\ t.turning = s.turning
  BY DEF Relocate, Worlds, SameNpcs
<1>3. t.online = s.online /\ t.asleep = s.asleep /\ t.sleepers = s.sleepers
  BY DEF Relocate, Worlds
<1>4. t.room = [s.room EXCEPT ![p] = d]
  BY DEF Relocate, Worlds
<1>5. \A r \in Rooms : t.floor[r] = IF r = d THEN s.floor[r] \cup {p}
                                    ELSE IF r = s.room[p] THEN s.floor[r] \ {p}
                                    ELSE s.floor[r]
  BY DEF Relocate, Worlds
<1> QED
  BY <1>1, <1>2, <1>3, <1>4, <1>5 DEF Relocated

-----------------------------------------------------------------------------
(* Fights that let go. *)

\* A fight that is short of players or NPCs is finished.
LEMMA FinishSides ==
  ASSUME NEW s \in Worlds, NEW e \in s.live, NEW t, t = Finish(s, e),
         Matched(s), Placed(s), \A x \in Fights \ {e} : Manned(s, x)
  PROVE  Sides(t) /\ LetGo(s, t)
<1>1. e \in Fights
  BY DEF Worlds
<1>2. /\ Still(s, t)
      /\ t.fight = [p \in Players |-> IF p \in s.members[e] THEN NoFight ELSE s.fight[p]]
      /\ t.busy = [n \in Npcs |-> IF n \in s.foes[e] THEN NoFight ELSE s.busy[n]]
      /\ t.inRoom = [s.inRoom EXCEPT ![s.place[e]] = IF @ = e THEN NoFight ELSE @]
      /\ t.place = [s.place EXCEPT ![e] = Start]
      /\ t.members = [s.members EXCEPT ![e] = {}]
      /\ t.foes = [s.foes EXCEPT ![e] = {}]
      /\ t.live = s.live \ {e}
  BY <1>1, FinishShape, SMTT(30)
<1>3. Matched(t)
  <2>1. ASSUME NEW x \in Fights
        PROVE  t.members[x] = {p \in Players : t.fight[p] = x}
    BY <1>1, <1>2, WorldAssumption DEF Matched, Worlds
  <2>2. ASSUME NEW x \in Fights
        PROVE  t.foes[x] = {n \in Npcs : t.busy[n] = x}
    BY <1>1, <1>2, WorldAssumption DEF Matched, Worlds
  <2> QED
    BY <2>1, <2>2 DEF Matched
<1>4. Placed(t)
  <2>1. ASSUME NEW x \in t.live
        PROVE  t.inRoom[t.place[x]] = x
    BY <1>1, <1>2 DEF Placed, Worlds
  <2>2. ASSUME NEW r \in Rooms, t.inRoom[r] # NoFight
        PROVE  t.inRoom[r] \in t.live /\ t.place[t.inRoom[r]] = r
    BY <1>1, <1>2, <2>2 DEF Placed, Worlds
  <2> QED
    BY <2>1, <2>2 DEF Placed
<1>5. ASSUME NEW x \in Fights
      PROVE  Manned(t, x)
  BY <1>1, <1>2 DEF Manned, Worlds
<1>6. LetGo(s, t)
  BY <1>1, <1>2 DEF LetGo, Worlds
<1> QED
  BY <1>3, <1>4, <1>5, <1>6 DEF Sides

LEMMA DropPlayerSides ==
  ASSUME NEW s \in Worlds, Sides(s), NEW p \in Players, NEW t, t = DropPlayer(s, p)
  PROVE  /\ Sides(t)
         /\ LetGo(s, t)
         /\ t.fight[p] = NoFight
         /\ \A q \in Players \ {p}, n \in Npcs :
              s.fight[q] # NoFight /\ s.busy[n] = s.fight[q] =>
                t.fight[q] = s.fight[q] /\ t.busy[n] = s.busy[n]
<1> DEFINE e == s.fight[p]
           u == [s EXCEPT !.members[e] = @ \ {p}, !.fight[p] = NoFight]
<1>1. CASE e = NoFight
  BY <1>1 DEF DropPlayer, LetGo, Still, SameBodies, SameNpcs
<1>2. CASE e # NoFight
  <2>1. e \in Fights /\ p \in s.members[e] /\ e \in s.live
    BY <1>2 DEF Sides, Matched, Manned, Worlds
  <2>2. u \in Worlds
    BY DEF Worlds
  <2>3. SameBodies(s, u) /\ SameNpcs(s, u)
    BY DEF Worlds, SameBodies, SameNpcs
  <2>4. u.hostile = s.hostile /\ u.turning = s.turning
    BY DEF Worlds
  <2>5. /\ u.live = s.live /\ u.place = s.place /\ u.inRoom = s.inRoom
        /\ u.foes = s.foes /\ u.busy = s.busy
    BY DEF Worlds
  <2>6. u.members = [s.members EXCEPT ![e] = @ \ {p}] /\ u.fight = [s.fight EXCEPT ![p] = NoFight]
    BY DEF Worlds
  <2> HIDE DEF u
  <2>7. Matched(u)
    BY <2>1, <2>5, <2>6, WorldAssumption DEF Sides, Matched, Worlds
  <2>8. Placed(u)
    BY <2>5 DEF Sides, Placed
  <2>9. \A x \in Fights \ {e} : Manned(u, x)
    BY <2>1, <2>5, <2>6 DEF Sides, Manned, Worlds
  <2>10. LetGo(s, u)
    BY <2>3, <2>4, <2>5, <2>6 DEF LetGo, Still, Worlds
  <2>11. CASE u.members[e] = {}
    <3>1. t = Finish(u, e)
      BY <1>2, <2>11 DEF DropPlayer, u
    <3>2. Sides(t) /\ LetGo(u, t)
      BY <2>1, <2>2, <2>5, <2>7, <2>8, <2>9, <3>1, FinishSides
    <3>3. LetGo(s, t)
      BY <2>10, <3>2 DEF LetGo, Still, SameBodies, SameNpcs
    <3>4. /\ \A q \in Players : t.fight[q] = IF q \in u.members[e] THEN NoFight ELSE u.fight[q]
          /\ \A n \in Npcs : t.busy[n] = IF n \in u.foes[e] THEN NoFight ELSE u.busy[n]
      BY <2>1, <2>2, <3>1, FinishFrees
    <3>5. \A q \in Players \ {p} : s.fight[q] # e
      BY <2>1, <2>6, <2>11 DEF Sides, Matched, Worlds
    <3>6. \A n \in Npcs : s.busy[n] # e => t.busy[n] = s.busy[n]
      BY <2>1, <2>5, <3>4 DEF Sides, Matched, Worlds
    <3>7. \A q \in Players : t.fight[q] = IF q = p THEN NoFight ELSE s.fight[q]
      BY <2>6, <2>11, <3>4 DEF Worlds
    <3> QED
      BY <3>2, <3>3, <3>5, <3>6, <3>7
  <2>12. CASE u.members[e] # {}
    <3>1. t = u
      BY <1>2, <2>12 DEF DropPlayer, u
    <3>2. Manned(u, e)
      BY <2>1, <2>5, <2>12 DEF Sides, Manned
    <3> QED
      BY <2>5, <2>6, <2>7, <2>8, <2>9, <2>10, <3>1, <3>2 DEF Sides, Worlds
  <2> QED
    BY <2>11, <2>12
<1> QED
  BY <1>1, <1>2

LEMMA DropNpcSides ==
  ASSUME NEW s \in Worlds, Sides(s), NEW m \in Npcs, NEW t, t = DropNpc(s, m)
  PROVE  /\ Sides(t)
         /\ LetGo(s, t)
         /\ t.busy[m] = NoFight
         /\ \A q \in Players, n \in Npcs \ {m} :
              s.fight[q] # NoFight /\ s.busy[n] = s.fight[q] =>
                t.fight[q] = s.fight[q] /\ t.busy[n] = s.busy[n]
<1> DEFINE e == s.busy[m]
           u == [s EXCEPT !.foes[e] = @ \ {m}, !.busy[m] = NoFight]
<1>1. CASE e = NoFight
  BY <1>1 DEF DropNpc, LetGo, Still, SameBodies, SameNpcs
<1>2. CASE e # NoFight
  <2>1. e \in Fights /\ m \in s.foes[e] /\ e \in s.live
    BY <1>2 DEF Sides, Matched, Manned, Worlds
  <2>2. u \in Worlds
    BY DEF Worlds
  <2>3. SameBodies(s, u) /\ SameNpcs(s, u)
    BY DEF Worlds, SameBodies, SameNpcs
  <2>4. u.hostile = s.hostile /\ u.turning = s.turning
    BY DEF Worlds
  <2>5. /\ u.live = s.live /\ u.place = s.place /\ u.inRoom = s.inRoom
        /\ u.members = s.members /\ u.fight = s.fight
    BY DEF Worlds
  <2>6. u.foes = [s.foes EXCEPT ![e] = @ \ {m}] /\ u.busy = [s.busy EXCEPT ![m] = NoFight]
    BY DEF Worlds
  <2> HIDE DEF u
  <2>7. Matched(u)
    BY <2>1, <2>5, <2>6, WorldAssumption DEF Sides, Matched, Worlds
  <2>8. Placed(u)
    BY <2>5 DEF Sides, Placed
  <2>9. \A x \in Fights \ {e} : Manned(u, x)
    BY <2>1, <2>5, <2>6 DEF Sides, Manned, Worlds
  <2>10. LetGo(s, u)
    BY <2>3, <2>4, <2>5, <2>6 DEF LetGo, Still, Worlds
  <2>11. CASE u.foes[e] = {}
    <3>1. t = Finish(u, e)
      BY <1>2, <2>11 DEF DropNpc, u
    <3>2. Sides(t) /\ LetGo(u, t)
      BY <2>1, <2>2, <2>5, <2>7, <2>8, <2>9, <3>1, FinishSides
    <3>3. LetGo(s, t)
      BY <2>10, <3>2 DEF LetGo, Still, SameBodies, SameNpcs
    <3>4. /\ \A q \in Players : t.fight[q] = IF q \in u.members[e] THEN NoFight ELSE u.fight[q]
          /\ \A n \in Npcs : t.busy[n] = IF n \in u.foes[e] THEN NoFight ELSE u.busy[n]
      BY <2>1, <2>2, <3>1, FinishFrees
    <3>5. \A n \in Npcs \ {m} : s.busy[n] # e
      BY <2>1, <2>6, <2>11 DEF Sides, Matched, Worlds
    <3>6. \A q \in Players : s.fight[q] # e => t.fight[q] = s.fight[q]
      BY <2>1, <2>5, <3>4 DEF Sides, Matched, Worlds
    <3>7. \A n \in Npcs : t.busy[n] = IF n = m THEN NoFight ELSE s.busy[n]
      BY <2>6, <2>11, <3>4 DEF Worlds
    <3> QED
      BY <3>2, <3>3, <3>5, <3>6, <3>7
  <2>12. CASE u.foes[e] # {}
    <3>1. t = u
      BY <1>2, <2>12 DEF DropNpc, u
    <3>2. Manned(u, e)
      BY <2>1, <2>5, <2>12 DEF Sides, Manned
    <3> QED
      BY <2>5, <2>6, <2>7, <2>8, <2>9, <2>10, <3>1, <3>2 DEF Sides, Worlds
  <2> QED
    BY <2>11, <2>12
<1> QED
  BY <1>1, <1>2

\* Whoever is still in a fight is still where it is.
LEMMA LetGoSound ==
  ASSUME NEW s \in Worlds, NEW t \in Worlds, InPlace(s), Bodies(s), Roster(s), Sides(t), LetGo(s, t)
  PROVE  Sound(t)
<1>1. ASSUME NEW p \in Players, t.fight[p] # NoFight
      PROVE  t.fight[p] = s.fight[p] /\ t.place[t.fight[p]] = s.place[s.fight[p]]
  <2>1. t.fight[p] \in t.live
    BY <1>1 DEF Sides, Matched, Manned, Worlds
  <2> QED
    BY <1>1, <2>1 DEF LetGo
<1>2. ASSUME NEW n \in Npcs, t.busy[n] # NoFight
      PROVE  t.busy[n] = s.busy[n] /\ t.place[t.busy[n]] = s.place[s.busy[n]]
  <2>1. t.busy[n] \in t.live
    BY <1>2 DEF Sides, Matched, Manned, Worlds
  <2> QED
    BY <1>2, <2>1 DEF LetGo
<1>3. InPlace(t)
  BY <1>1, <1>2 DEF InPlace, LetGo, Still, SameBodies, SameNpcs
<1>4. Bodies(t) /\ Roster(t)
  BY DEF Bodies, Roster, LetGo, Still, SameBodies, SameNpcs
<1> QED
  BY <1>3, <1>4 DEF Sound

-----------------------------------------------------------------------------
(* Fights that take in. *)

\* From s to t, NPCs or a player are taken into e.
NpcsAdded(s, t, e, ns) ==
  /\ Still(s, t)
  /\ t.live = s.live /\ t.place = s.place /\ t.inRoom = s.inRoom
  /\ t.members = s.members /\ t.fight = s.fight
  /\ \A x \in Fights : t.foes[x] = IF x = e THEN s.foes[x] \cup ns ELSE s.foes[x]
  /\ \A n \in Npcs : t.busy[n] = IF n \in ns THEN e ELSE s.busy[n]

PlayerAdded(s, t, e, p) ==
  /\ Still(s, t)
  /\ t.live = s.live /\ t.place = s.place /\ t.inRoom = s.inRoom
  /\ t.foes = s.foes /\ t.busy = s.busy
  /\ \A x \in Fights : t.members[x] = IF x = e THEN s.members[x] \cup {p} ELSE s.members[x]
  /\ \A q \in Players : t.fight[q] = IF q = p THEN e ELSE s.fight[q]

\* Both.
Brought(s, t, e, p, ns) ==
  /\ Still(s, t)
  /\ t.live = s.live \cup {e}
  /\ \A q \in Players : t.fight[q] = IF q = p THEN e ELSE s.fight[q]
  /\ \A n \in Npcs : t.busy[n] = IF n \in ns THEN e ELSE s.busy[n]

LEMMA AddNpcsShape ==
  ASSUME NEW s \in Worlds, NEW e \in Fights, NEW ns \in SUBSET Npcs, NEW t, t = AddNpcs(s, e, ns)
  PROVE  NpcsAdded(s, t, e, ns)
<1>1. SameBodies(s, t) /\ SameNpcs(s, t)
  BY DEF AddNpcs, Worlds, SameBodies, SameNpcs
<1>2. t.hostile = s.hostile /\ t.turning = s.turning
  BY DEF AddNpcs, Worlds
<1>3. /\ t.live = s.live /\ t.place = s.place /\ t.inRoom = s.inRoom
      /\ t.members = s.members /\ t.fight = s.fight
  BY DEF AddNpcs, Worlds
<1>4. \A x \in Fights : t.foes[x] = IF x = e THEN s.foes[x] \cup ns ELSE s.foes[x]
  BY DEF AddNpcs, Worlds
<1>5. \A n \in Npcs : t.busy[n] = IF n \in ns THEN e ELSE s.busy[n]
  BY DEF AddNpcs, Worlds
<1> QED
  BY <1>1, <1>2, <1>3, <1>4, <1>5 DEF Still, NpcsAdded

LEMMA AddPlayerShape ==
  ASSUME NEW s \in Worlds, NEW e \in Fights, NEW p \in Players, NEW t, t = AddPlayer(s, e, p),
         s.fight[p] = e => p \in s.members[e]
  PROVE  PlayerAdded(s, t, e, p)
<1>1. CASE s.fight[p] = e
  BY <1>1 DEF AddPlayer, Still, SameBodies, SameNpcs, PlayerAdded
<1>2. CASE s.fight[p] # e
  <2>1. t = [s EXCEPT !.members[e] = @ \cup {p}, !.fight[p] = e]
    BY <1>2 DEF AddPlayer
  <2>2. SameBodies(s, t) /\ SameNpcs(s, t)
    BY <2>1 DEF Worlds, SameBodies, SameNpcs
  <2>3. t.hostile = s.hostile /\ t.turning = s.turning
    BY <2>1 DEF Worlds
  <2>4. /\ t.live = s.live /\ t.place = s.place /\ t.inRoom = s.inRoom
        /\ t.foes = s.foes /\ t.busy = s.busy
    BY <2>1 DEF Worlds
  <2>5. \A x \in Fights : t.members[x] = IF x = e THEN s.members[x] \cup {p} ELSE s.members[x]
    <3>1. t.members = [s.members EXCEPT ![e] = @ \cup {p}]
      BY <2>1 DEF Worlds
    <3> QED
      BY <3>1 DEF Worlds
  <2>6. \A q \in Players : t.fight[q] = IF q = p THEN e ELSE s.fight[q]
    BY <2>1 DEF Worlds
  <2> QED
    BY <2>2, <2>3, <2>4, <2>5, <2>6 DEF Still, PlayerAdded
<1> QED
  BY <1>1, <1>2

\* NPCs and a player, all of them there and free or in it already, join a fight.
LEMMA BringSound ==
  ASSUME NEW s \in Worlds, NEW e \in s.live, NEW p \in Players, NEW ns \in SUBSET Npcs,
         NEW t, t = AddPlayer(AddNpcs(s, e, ns), e, p),
         Matched(s), Placed(s), \A x \in Fights \ {e} : Manned(s, x),
         InPlace(s), Bodies(s), Roster(s),
         p \in s.floor[s.place[e]], s.fight[p] \in {NoFight, e},
         ns \subseteq s.here[s.place[e]], \A n \in ns : s.busy[n] \in {NoFight, e},
         ns # {} \/ s.foes[e] # {}
  PROVE  Sound(t) /\ Brought(s, t, e, p, ns)
<1> DEFINE u == AddNpcs(s, e, ns)
<1>1. e \in Fights
  BY DEF Worlds
<1>2. u \in Worlds /\ t \in Worlds
  BY <1>1, AddNpcsTyped, AddPlayerTyped
<1>3. NpcsAdded(s, u, e, ns)
  BY <1>1, AddNpcsShape
<1>4. t = AddPlayer(u, e, p)
  OBVIOUS
<1> HIDE DEF u
<1>5. u.fight[p] = e => p \in u.members[e]
  BY <1>1, <1>3 DEF Matched, NpcsAdded
<1>6. PlayerAdded(u, t, e, p)
  BY <1>1, <1>2, <1>4, <1>5, AddPlayerShape
<1>7. Still(s, t)
  BY <1>3, <1>6 DEF Still, SameBodies, SameNpcs, NpcsAdded, PlayerAdded
<1>8. /\ \A q \in Players : t.fight[q] = IF q = p THEN e ELSE s.fight[q]
      /\ \A n \in Npcs : t.busy[n] = IF n \in ns THEN e ELSE s.busy[n]
  BY <1>3, <1>6 DEF NpcsAdded, PlayerAdded
<1>9. /\ \A x \in Fights : t.members[x] = IF x = e THEN s.members[x] \cup {p} ELSE s.members[x]
      /\ \A x \in Fights : t.foes[x] = IF x = e THEN s.foes[x] \cup ns ELSE s.foes[x]
      /\ t.live = s.live /\ t.place = s.place /\ t.inRoom = s.inRoom
  BY <1>3, <1>6 DEF NpcsAdded, PlayerAdded
<1>10. Matched(t)
  <2>1. ASSUME NEW x \in Fights
        PROVE  t.members[x] = {q \in Players : t.fight[q] = x}
    <3>1. s.members[x] = {q \in Players : s.fight[q] = x}
      BY DEF Matched
    <3>2. ASSUME NEW q \in Players
          PROVE  q \in t.members[x] <=> t.fight[q] = x
      <4>1. t.members[x] = IF x = e THEN s.members[x] \cup {p} ELSE s.members[x]
        BY <1>9
      <4>2. t.fight[q] = IF q = p THEN e ELSE s.fight[q]
        BY <1>8
      <4>3. x # NoFight
        BY WorldAssumption
      <4> QED
        BY <3>1, <4>1, <4>2, <4>3
    <3>3. t.members[x] \subseteq Players
      BY <1>2 DEF Worlds
    <3> QED
      BY <3>2, <3>3
  <2>2. ASSUME NEW x \in Fights
        PROVE  t.foes[x] = {n \in Npcs : t.busy[n] = x}
    <3>1. s.foes[x] = {n \in Npcs : s.busy[n] = x}
      BY DEF Matched
    <3>2. ASSUME NEW n \in Npcs
          PROVE  n \in t.foes[x] <=> t.busy[n] = x
      <4>1. t.foes[x] = IF x = e THEN s.foes[x] \cup ns ELSE s.foes[x]
        BY <1>9
      <4>2. t.busy[n] = IF n \in ns THEN e ELSE s.busy[n]
        BY <1>8
      <4>3. x # NoFight
        BY WorldAssumption
      <4> QED
        BY <3>1, <4>1, <4>2, <4>3
    <3>3. t.foes[x] \subseteq Npcs
      BY <1>2 DEF Worlds
    <3> QED
      BY <3>2, <3>3
  <2> QED
    BY <2>1, <2>2 DEF Matched
<1>11. Placed(t)
  BY <1>9 DEF Placed
<1>12. \A x \in Fights : Manned(t, x)
  BY <1>9 DEF Manned
<1>13. InPlace(t)
  BY <1>7, <1>8, <1>9 DEF InPlace, Still, SameBodies, SameNpcs
<1>14. Bodies(t) /\ Roster(t)
  BY <1>7 DEF Bodies, Roster, Still, SameBodies, SameNpcs
<1> QED
  BY <1>2, <1>7, <1>8, <1>9, <1>10, <1>11, <1>12, <1>13, <1>14 DEF Sound, Sides, Brought

\* A fight that starts is found by nobody else in the room.
LEMMA StartSound ==
  ASSUME NEW s, Sound(s), NEW f \in Fights \ s.live, NEW r \in Rooms, NEW p \in Players,
         NEW ns \in SUBSET Npcs, NEW t, t = AddPlayer(AddNpcs(Create(s, f, r), f, ns), f, p),
         s.inRoom[r] = NoFight, p \in s.floor[r], s.fight[p] = NoFight,
         ns # {}, ns \subseteq s.here[r], \A n \in ns : s.busy[n] = NoFight
  PROVE  Sound(t) /\ Brought(s, t, f, p, ns)
<1> DEFINE u == Create(s, f, r)
<1>1. s \in Worlds
  BY DEF Sound
<1>2. u \in Worlds
  BY <1>1, CreateTyped
<1>3. /\ Still(s, u)
      /\ u.live = s.live \cup {f}
      /\ u.place = [s.place EXCEPT ![f] = r]
      /\ u.inRoom = [s.inRoom EXCEPT ![r] = f]
      /\ u.members = s.members /\ u.foes = s.foes /\ u.fight = s.fight /\ u.busy = s.busy
  BY <1>1, CreateShape
<1>4. t = AddPlayer(AddNpcs(u, f, ns), f, p)
  OBVIOUS
<1> HIDE DEF u
<1>5. Matched(u)
  BY <1>3 DEF Matched, Sound, Sides
<1>6. Placed(u)
  <2>1. ASSUME NEW x \in u.live
        PROVE  u.inRoom[u.place[x]] = x
    BY <1>1, <1>3, WorldAssumption DEF Placed, Sound, Sides, Worlds
  <2>2. ASSUME NEW q \in Rooms, u.inRoom[q] # NoFight
        PROVE  u.inRoom[q] \in u.live /\ u.place[u.inRoom[q]] = q
    BY <1>1, <1>3, <2>2 DEF Placed, Sound, Sides, Worlds
  <2> QED
    BY <2>1, <2>2 DEF Placed
<1>7. \A x \in Fights \ {f} : Manned(u, x)
  BY <1>3 DEF Manned, Sound, Sides
<1>8. \A q \in Players : s.fight[q] # f
  BY DEF Sound, Sides, Manned, Matched
<1>9. \A n \in Npcs : s.busy[n] # f
  BY DEF Sound, Sides, Manned, Matched
<1>10. InPlace(u)
  BY <1>1, <1>3, <1>8, <1>9 DEF InPlace, Sound, Still, SameBodies, SameNpcs, Worlds
<1>11. Bodies(u) /\ Roster(u)
  BY <1>3 DEF Bodies, Roster, Sound, Still, SameBodies, SameNpcs
<1>12. f \in u.live /\ u.place[f] = r
  BY <1>1, <1>3 DEF Worlds
<1>13. p \in u.floor[u.place[f]] /\ ns \subseteq u.here[u.place[f]]
  BY <1>3, <1>12 DEF Still, SameBodies, SameNpcs
<1>14. u.fight[p] \in {NoFight, f} /\ \A n \in ns : u.busy[n] = NoFight
  BY <1>3
<1>15. Sound(t) /\ Brought(u, t, f, p, ns)
  BY <1>2, <1>4, <1>5, <1>6, <1>7, <1>10, <1>11, <1>12, <1>13, <1>14, BringSound
<1> QED
  BY <1>3, <1>15 DEF Still, SameBodies, SameNpcs, Brought

-----------------------------------------------------------------------------
(* The one rule. *)

\* From s to t, whoever is in a fight stays in it.
Held(s, t) ==
  /\ \A q \in Players : s.fight[q] # NoFight => t.fight[q] = s.fight[q]
  /\ \A n \in Npcs : s.busy[n] # NoFight => t.busy[n] = s.busy[n]

LEMMA HeldRule ==
  ASSUME NEW s, NEW t, Still(s, t), Held(s, t), NEW q \in Players, Rule(s, q)
  PROVE  Rule(t, q)
BY DEF Rule, Held, Still, SameBodies, SameNpcs

\* A player in a fight is in its room, and so is an NPC; the room knows it.
LEMMA WhereFought ==
  ASSUME NEW s, Sound(s)
  PROVE  /\ \A p \in Players : s.fight[p] # NoFight =>
              /\ s.fight[p] \in s.live /\ s.place[s.fight[p]] = s.room[p]
              /\ s.inRoom[s.room[p]] = s.fight[p]
              /\ p \in s.online \cup s.asleep
         /\ \A n \in Npcs, r \in Rooms : s.busy[n] # NoFight /\ n \in s.here[r] =>
              /\ s.busy[n] \in s.live /\ s.place[s.busy[n]] = r
              /\ s.inRoom[r] = s.busy[n]
              /\ n \in s.foes[s.busy[n]]
<1>1. ASSUME NEW p \in Players, s.fight[p] # NoFight
      PROVE  /\ s.fight[p] \in s.live /\ s.place[s.fight[p]] = s.room[p]
             /\ s.inRoom[s.room[p]] = s.fight[p]
             /\ p \in s.online \cup s.asleep
  <2>1. s.fight[p] \in Fights /\ s.fight[p] \in s.live
    BY <1>1 DEF Sound, Sides, Matched, Manned, Worlds
  <2>2. p \in s.floor[s.place[s.fight[p]]] /\ s.place[s.fight[p]] \in Rooms
    BY <1>1, <2>1 DEF Sound, InPlace, Worlds
  <2>3. s.place[s.fight[p]] = s.room[p] /\ p \in s.online \cup s.asleep
    BY <2>2 DEF Sound, Bodies
  <2> QED
    BY <2>1, <2>3 DEF Sound, Sides, Placed
<1>2. ASSUME NEW n \in Npcs, NEW r \in Rooms, s.busy[n] # NoFight, n \in s.here[r]
      PROVE  /\ s.busy[n] \in s.live /\ s.place[s.busy[n]] = r
             /\ s.inRoom[r] = s.busy[n]
             /\ n \in s.foes[s.busy[n]]
  <2>1. s.busy[n] \in Fights /\ s.busy[n] \in s.live /\ n \in s.foes[s.busy[n]]
    BY <1>2 DEF Sound, Sides, Matched, Manned, Worlds
  <2>2. n \in s.here[s.place[s.busy[n]]] /\ s.place[s.busy[n]] \in Rooms
    BY <1>2, <2>1 DEF Sound, InPlace, Worlds
  <2>3. s.place[s.busy[n]] = r
    BY <1>2, <2>2 DEF Sound, Roster
  <2> QED
    BY <2>1, <2>3 DEF Sound, Sides, Placed
<1> QED
  BY <1>1, <1>2

\* What Here finds, of those in the room.
LEMMA HereFound ==
  ASSUME NEW s, Sound(s), NEW p \in Players, NEW r \in Rooms, s.room[p] = r
  PROVE  /\ Here(s, p, r) \in s.live \cup {NoFight}
         /\ Here(s, p, r) # NoFight => s.place[Here(s, p, r)] = r
         /\ Here(s, p, r) = s.inRoom[r]
         /\ s.fight[p] # NoFight => Here(s, p, r) = s.fight[p]
<1>1. s.inRoom[r] # NoFight => s.inRoom[r] \in s.live /\ s.place[s.inRoom[r]] = r
  BY DEF Sound, Sides, Placed
<1>2. CASE s.fight[p] # NoFight
  <2>1. s.fight[p] \in s.live /\ s.place[s.fight[p]] = r /\ s.inRoom[r] = s.fight[p]
    BY <1>2, WhereFought
  <2> QED
    BY <1>2, <2>1 DEF Here
<1>3. CASE s.fight[p] = NoFight
  BY <1>1, <1>3 DEF Here
<1> QED
  BY <1>2, <1>3

\* A fight that p may start is not there yet, but that p may be in it.
Spare(s, p, f) == f \in s.live => s.fight[p] = f

\* From s to t, the one rule has run for p in r.
RuleRun(s, t, p, r, f) ==
  /\ Spare(t, p, f)
  /\ Still(s, t)
  /\ Held(s, t)
  /\ p \in s.online /\ s.room[p] = r => Rule(t, p)
  /\ t.fight[p] # s.fight[p] => p \in s.online
  /\ \A q \in Players \ {p} : t.fight[q] = s.fight[q]

LEMMA AggroSound ==
  ASSUME NEW s, Sound(s), NEW p \in Players, NEW r \in Rooms, NEW missed \in SUBSET Wary,
         NEW f \in Fights, Spare(s, p, f), NEW t, t = Aggro(s, p, r, missed, f)
  PROVE  Sound(t) /\ RuleRun(s, t, p, r, f)
<1> DEFINE e     == Here(s, p, r)
           fresh == {n \in s.here[r] : s.busy[n] = NoFight /\ n \in s.hostile[p] \ missed}
           join  == /\ e # NoFight
                    /\ s.fight[p] = e \/ fresh # {} \/ s.foes[e] \cap s.hostile[p] # {}
           id    == IF join THEN e ELSE f
           u     == IF join THEN s ELSE Create(s, f, r)
           acts  == p \in s.online \ s.asleep /\ s.room[p] = r /\ (join \/ fresh # {})
<1>1. t = IF acts THEN AddPlayer(AddNpcs(u, id, fresh), id, p) ELSE s
  BY DEF Aggro
<1>2. s \in Worlds /\ fresh \in SUBSET Npcs
  BY DEF Sound, Worlds
<1>3. /\ \A n \in fresh : s.busy[n] = NoFight
      /\ fresh \subseteq s.here[r]
  OBVIOUS
<1>4. CASE ~acts
  <2>1. t = s
    BY <1>1, <1>4
  <2>2. ASSUME p \in s.online, s.room[p] = r
        PROVE  Rule(s, p)
    <3>1. ~join /\ fresh = {}
      BY <1>4, <2>2 DEF Sound, Bodies
    <3>2. SUFFICES ASSUME NEW n \in Npcs \ Wary, n \in s.here[r] \cap s.hostile[p]
                   PROVE  s.fight[p] # NoFight /\ s.busy[n] = s.fight[p]
      BY <2>2 DEF Rule
    <3>3. s.busy[n] # NoFight
      BY <3>1, <3>2
    <3>4. n \in s.foes[s.busy[n]] /\ s.inRoom[r] = s.busy[n]
      BY <3>2, <3>3, WhereFought
    <3>5. e = s.busy[n]
      BY <2>2, <3>4, HereFound
    <3> QED
      BY <3>1, <3>2, <3>3, <3>4, <3>5
  <2> QED
    BY <2>1, <2>2 DEF RuleRun, Still, SameBodies, SameNpcs, Held
<1>5. CASE acts
  <2>1. p \in s.floor[r] /\ s.room[p] = r /\ p \in s.online
    BY <1>5 DEF Sound, Bodies
  <2>2. /\ e \in s.live \cup {NoFight} /\ e = s.inRoom[r]
        /\ e # NoFight => s.place[e] = r
        /\ s.fight[p] # NoFight => e = s.fight[p]
    BY <2>1, HereFound
  <2> HIDE DEF e, fresh
  <2>3. Sound(t) /\ Brought(s, t, id, p, fresh)
    <3>1. CASE join
      <4>1. t = AddPlayer(AddNpcs(s, e, fresh), e, p)
        BY <1>1, <1>5, <3>1
      <4>2. e \in s.live /\ s.place[e] = r /\ s.fight[p] \in {NoFight, e}
        BY <2>2, <3>1
      <4>3. s.foes[e] # {}
        BY <4>2 DEF Sound, Sides, Manned, Worlds
      <4>4. Matched(s) /\ Placed(s) /\ (\A x \in Fights \ {e} : Manned(s, x)) /\ InPlace(s) /\ Bodies(s) /\ Roster(s)
        BY DEF Sound, Sides
      <4>5. Sound(t) /\ Brought(s, t, e, p, fresh)
        BY <1>2, <1>3, <2>1, <4>1, <4>2, <4>3, <4>4, BringSound
      <4> QED
        BY <3>1, <4>5
    <3>2. CASE ~join
      <4>1. t = AddPlayer(AddNpcs(Create(s, f, r), f, fresh), f, p)
        BY <1>1, <1>5, <3>2
      <4>2. fresh # {} /\ e = NoFight
        BY <1>5, <3>2
      <4>3. s.inRoom[r] = NoFight /\ s.fight[p] = NoFight /\ f \in Fights \ s.live
        BY <2>2, <4>2, WorldAssumption DEF Spare
      <4>4. Sound(t) /\ Brought(s, t, f, p, fresh)
        BY <1>2, <1>3, <2>1, <4>1, <4>2, <4>3, StartSound
      <4> QED
        BY <3>2, <4>4
    <3> QED
      BY <3>1, <3>2
  <2>4. Still(s, t)
    BY <2>3 DEF Brought
  <2>5. s.fight[p] # NoFight => id = s.fight[p]
    BY <2>2
  <2>6. Held(s, t)
    BY <1>3, <2>3, <2>5 DEF Brought, Held
  <2>7. id # NoFight
    BY <2>2, WorldAssumption
  <2>8. Rule(t, p)
    <3>1. SUFFICES ASSUME NEW n \in Npcs \ Wary, n \in s.here[r] \cap s.hostile[p]
                   PROVE  t.busy[n] = id
      BY <2>1, <2>3, <2>4, <2>7 DEF Rule, Still, SameBodies, SameNpcs, Brought
    <3>2. CASE s.busy[n] = NoFight
      <4>1. n \in fresh
        BY <3>1, <3>2 DEF fresh
      <4> QED
        BY <2>3, <4>1 DEF Brought
    <3>3. CASE s.busy[n] # NoFight
      <4>1. n \in s.foes[s.busy[n]] /\ s.inRoom[r] = s.busy[n]
        BY <3>1, <3>3, WhereFought
      <4>2. join /\ id = s.busy[n]
        BY <2>2, <3>1, <3>3, <4>1
      <4> QED
        BY <2>6, <3>3, <4>2 DEF Held
    <3> QED
      BY <3>2, <3>3
  <2>9. Spare(t, p, f)
    BY <2>2, <2>3, <2>5, WorldAssumption DEF Spare, Brought
  <2> QED
    BY <2>1, <2>3, <2>4, <2>6, <2>8, <2>9 DEF Brought, RuleRun
<1> QED
  BY <1>4, <1>5

-----------------------------------------------------------------------------
(* What a handler does on the way. *)

\* From s to t, p was judged: nothing but fights and p's enemies differ, and p
\* keeps to the rule.
Judged(s, t, p) ==
  /\ SameBodies(s, t) /\ SameNpcs(s, t) /\ t.turning = s.turning
  /\ Held(s, t)
  /\ \A q \in Players \ {p} : t.fight[q] = s.fight[q] /\ t.hostile[q] = s.hostile[q]
  /\ t.fight[p] # s.fight[p] => p \in s.online
  /\ p \in s.online /\ Rule(s, p) => Rule(t, p)

LEMMA DeedSound ==
  ASSUME NEW s, Sound(s), NEW p \in Players, NEW missed \in SUBSET Wary,
         NEW f \in Fights, Spare(s, p, f), NEW t \in Deed(s, p, missed, f)
  PROVE  Sound(t) /\ Judged(s, t, p) /\ Spare(t, p, f)
<1>1. CASE t = s
  BY <1>1 DEF Judged, SameBodies, SameNpcs, Held
<1>2. ASSUME NEW h \in Opinions(s, p),
             t = Aggro([s EXCEPT !.hostile[p] = h], p, s.room[p], missed, f)
      PROVE  Sound(t) /\ Judged(s, t, p) /\ Spare(t, p, f)
  <2> DEFINE u == [s EXCEPT !.hostile[p] = h]
  <2>1. s \in Worlds /\ h \in SUBSET Npcs
    BY DEF Sound, Opinions
  <2>2. u \in Worlds
    BY <2>1, HostileTyped
  <2>3. SameFights(s, u)
    BY <2>1 DEF Worlds, SameFights
  <2>4. SameBodies(s, u) /\ SameNpcs(s, u)
    BY <2>1 DEF Worlds, SameBodies, SameNpcs
  <2>5. u.turning = s.turning /\ u.hostile = [s.hostile EXCEPT ![p] = h]
    BY <2>1 DEF Worlds
  <2> HIDE DEF u
  <2>6. Sound(u)
    BY <2>2, <2>3, <2>4 DEF Sound, Sides, Matched, Placed, Manned, InPlace, Bodies, Roster,
                            SameFights, SameBodies, SameNpcs
  <2>7. s.room[p] \in Rooms /\ Spare(u, p, f) /\ u.room = s.room
    BY <2>1, <2>3, <2>4 DEF SameFights, SameBodies, Worlds, Spare
  <2>8. t = Aggro(u, p, s.room[p], missed, f)
    BY <1>2 DEF u
  <2>9. Sound(t) /\ RuleRun(u, t, p, s.room[p], f)
    BY <2>6, <2>7, <2>8, AggroSound
  <2>10. /\ Sound(t) /\ Still(u, t) /\ Held(u, t) /\ Spare(t, p, f)
         /\ p \in u.online => Rule(t, p)
         /\ t.fight[p] # u.fight[p] => p \in u.online
         /\ \A q \in Players \ {p} : t.fight[q] = u.fight[q]
    BY <2>7, <2>9 DEF RuleRun
  <2>11. SameBodies(s, t) /\ SameNpcs(s, t) /\ t.turning = s.turning
    BY <2>4, <2>5, <2>10 DEF Still, SameBodies, SameNpcs
  <2>12. Held(s, t)
    BY <2>3, <2>10 DEF Held, SameFights
  <2>13. \A q \in Players \ {p} : t.fight[q] = s.fight[q] /\ t.hostile[q] = s.hostile[q]
    BY <2>1, <2>3, <2>5, <2>10 DEF SameFights, Still, Worlds
  <2>14. p \in s.online => Rule(t, p)
    BY <2>4, <2>10 DEF SameBodies
  <2>15. t.fight[p] # s.fight[p] => p \in s.online
    BY <2>3, <2>4, <2>10 DEF SameBodies, SameFights
  <2> QED
    BY <2>10, <2>11, <2>12, <2>13, <2>14, <2>15 DEF Judged
<1> QED
  BY <1>1, <1>2 DEF Deed

\* Everybody keeps to the rule.
LEMMA JudgedRule ==
  ASSUME NEW s, NEW t, NEW p \in Players, Judged(s, t, p), NEW q \in s.online, q \in Players, Rule(s, q)
  PROVE  Rule(t, q)
BY DEF Rule, Judged, Held, SameBodies, SameNpcs

\* A free body moves.
LEMMA RelocateSound ==
  ASSUME NEW s, Sound(s), NEW p \in Players, NEW d \in Rooms, NEW t, t = Relocate(s, p, d),
         s.fight[p] = NoFight, p \in s.online \cup s.asleep
  PROVE  /\ Sound(t)
         /\ t.live = s.live /\ t.turning = s.turning /\ t.fight = s.fight
         /\ t.online = s.online /\ t.asleep = s.asleep
         /\ t.room[p] = d
         /\ t.here = s.here /\ t.home = s.home
         /\ OthersRuled(s, t, p)
<1>1. s \in Worlds /\ t \in Worlds
  BY RelocateTyped DEF Sound
<1>2. /\ SameFights(s, t) /\ SameNpcs(s, t)
      /\ t.hostile = s.hostile /\ t.turning = s.turning
      /\ t.online = s.online /\ t.asleep = s.asleep /\ t.sleepers = s.sleepers
      /\ t.room = [s.room EXCEPT ![p] = d]
  BY <1>1, RelocateShape DEF Relocated
<1>3. \A r \in Rooms : t.floor[r] = IF r = d THEN s.floor[r] \cup {p}
                                    ELSE IF r = s.room[p] THEN s.floor[r] \ {p}
                                    ELSE s.floor[r]
  <2>1. Relocated(s, t, p, d)
    BY <1>1, RelocateShape
  <2> QED
    BY <2>1 DEF Relocated
<1>4. /\ t.room[p] = d
      /\ \A q \in Players \ {p} : t.room[q] = s.room[q]
  BY <1>1, <1>2 DEF Worlds
<1>5. Sides(t) /\ Roster(t)
  BY <1>2 DEF Sound, Sides, Matched, Placed, Manned, Roster, SameFights, SameNpcs
<1>6. InPlace(t)
  <2>1. ASSUME NEW q \in Players, t.fight[q] # NoFight
        PROVE  q \in t.floor[t.place[t.fight[q]]]
    <3>1. q # p /\ t.fight[q] = s.fight[q] /\ t.place[t.fight[q]] = s.place[s.fight[q]]
      BY <1>2, <2>1 DEF SameFights
    <3>2. q \in s.floor[s.place[s.fight[q]]]
      BY <2>1, <3>1 DEF Sound, InPlace
    <3>3. s.place[s.fight[q]] \in Rooms
      BY <1>1, <2>1, <3>1 DEF Worlds
    <3> QED
      BY <1>3, <3>1, <3>2, <3>3
  <2>2. ASSUME NEW n \in Npcs, t.busy[n] # NoFight
        PROVE  n \in t.here[t.place[t.busy[n]]]
    BY <1>2, <2>2 DEF Sound, InPlace, SameFights, SameNpcs
  <2> QED
    BY <2>1, <2>2 DEF InPlace
<1>7. Bodies(t)
  <2>1. ASSUME NEW r \in Rooms
        PROVE  t.floor[r] = {q \in t.online \cup t.asleep : t.room[q] = r}
    <3>1. s.floor[r] = {q \in s.online \cup s.asleep : s.room[q] = r}
      BY DEF Sound, Bodies
    <3>2. s.online \cup s.asleep \subseteq Players
      BY <1>1 DEF Worlds
    <3>3. ASSUME NEW q \in Players
          PROVE  q \in t.floor[r] <=> q \in t.online \cup t.asleep /\ t.room[q] = r
      <4>1. t.floor[r] = IF r = d THEN s.floor[r] \cup {p}
                         ELSE IF r = s.room[p] THEN s.floor[r] \ {p}
                         ELSE s.floor[r]
        BY <1>3
      <4>2. t.online = s.online /\ t.asleep = s.asleep
        BY <1>2
      <4>3. q \in s.floor[r] <=> q \in s.online \cup s.asleep /\ s.room[q] = r
        BY <3>1, <3>2
      <4>4. t.room[q] = IF q = p THEN d ELSE s.room[q]
        BY <1>4
      <4> QED
        BY <4>1, <4>2, <4>3, <4>4
    <3>4. t.floor[r] \subseteq Players /\ t.online \cup t.asleep \subseteq Players
      BY <1>1, <1>2, <3>2 DEF Worlds
    <3> QED
      BY <3>3, <3>4
  <2> QED
    BY <1>2, <2>1 DEF Sound, Bodies
<1>8. OthersRuled(s, t, p)
  BY <1>2, <1>4 DEF OthersRuled, Rule, SameFights, SameNpcs
<1> QED
  BY <1>1, <1>2, <1>4, <1>5, <1>6, <1>7, <1>8 DEF Sound, SameFights, SameNpcs

LEMMA DropPlayerSound ==
  ASSUME NEW s, Sound(s), NEW p \in Players, NEW t, t = DropPlayer(s, p)
  PROVE  Sound(t) /\ LetGo(s, t) /\ t.fight[p] = NoFight /\ OthersRuled(s, t, p)
<1>1. s \in Worlds /\ t \in Worlds
  BY DropPlayerTyped DEF Sound
<1>2. Sides(t) /\ LetGo(s, t) /\ t.fight[p] = NoFight
  BY <1>1, DropPlayerSides DEF Sound
<1>3. \A q \in Players \ {p}, n \in Npcs :
        s.fight[q] # NoFight /\ s.busy[n] = s.fight[q] =>
          t.fight[q] = s.fight[q] /\ t.busy[n] = s.busy[n]
  BY <1>1, DropPlayerSides DEF Sound
<1>4. Sound(t)
  BY <1>1, <1>2, LetGoSound DEF Sound
<1>5. OthersRuled(s, t, p)
  BY <1>2, <1>3 DEF OthersRuled, Rule, LetGo, Still, SameBodies, SameNpcs
<1> QED
  BY <1>2, <1>4, <1>5

\* At the shrine there is no NPC to fight.
LEMMA ShrineRule ==
  ASSUME NEW s, Sound(s), NEW p \in Players, s.room[p] = Shrine
  PROVE  Rule(s, p)
BY WorldAssumption DEF Sound, Roster, Rule

LEMMA OthersTwice ==
  ASSUME NEW s, NEW t, NEW u, NEW p \in Players, OthersRuled(s, t, p), OthersRuled(t, u, p)
  PROVE  OthersRuled(s, u, p)
BY DEF OthersRuled

\* Who fell is free, and if still in the world, at the shrine.
Fallen(s, t, p) ==
  /\ t.fight[p] = NoFight /\ t.room[p] = Shrine
  /\ t.online = s.online /\ t.asleep = s.asleep \ (IF p \in s.online THEN {} ELSE {p})
  /\ t.live \subseteq s.live /\ t.turning = s.turning
  /\ OthersRuled(s, t, p)
  /\ Rule(t, p)

LEMMA FallSound ==
  ASSUME NEW s, Sound(s), NEW p \in Players, NEW t, t = Fall(s, p)
  PROVE  Sound(t) /\ Fallen(s, t, p)
<1> DEFINE u == DropPlayer(s, p)
<1>1. Sound(u) /\ LetGo(s, u) /\ u.fight[p] = NoFight /\ OthersRuled(s, u, p)
  BY DropPlayerSound
<1>2. t = IF p \in s.online THEN Relocate(u, p, Shrine)
          ELSE [u EXCEPT !.floor[u.room[p]] = @ \ {p},
                         !.sleepers = @ \ {p},
                         !.asleep = @ \ {p},
                         !.room[p] = Shrine]
  BY DEF Fall
<1> HIDE DEF u
<1>3. CASE p \in s.online
  <2>1. p \in u.online \cup u.asleep /\ t = Relocate(u, p, Shrine)
    BY <1>1, <1>2, <1>3 DEF LetGo, Still, SameBodies
  <2>2. /\ Sound(t)
        /\ t.live = u.live /\ t.turning = u.turning /\ t.fight = u.fight
        /\ t.online = u.online /\ t.asleep = u.asleep
        /\ t.room[p] = Shrine
        /\ OthersRuled(u, t, p)
    BY <1>1, <2>1, RelocateSound, WorldAssumption
  <2>3. OthersRuled(s, t, p)
    BY <1>1, <2>2, OthersTwice
  <2>4. Rule(t, p)
    BY <2>2, ShrineRule
  <2> QED
    BY <1>1, <1>3, <2>2, <2>3, <2>4 DEF Fallen, LetGo, Still, SameBodies
<1>4. CASE p \notin s.online
  <2>1. u \in Worlds /\ p \notin u.online
    BY <1>1, <1>4 DEF Sound, LetGo, Still, SameBodies
  <2>2. t = [u EXCEPT !.floor[u.room[p]] = @ \ {p},
                      !.sleepers = @ \ {p},
                      !.asleep = @ \ {p},
                      !.room[p] = Shrine]
    BY <1>2, <1>4
  <2>3. t \in Worlds
    BY FallTyped DEF Sound
  <2>4. SameFights(u, t) /\ SameNpcs(u, t)
    BY <2>1, <2>2 DEF Worlds, SameFights, SameNpcs
  <2>5. t.online = u.online /\ t.hostile = u.hostile /\ t.turning = u.turning
    BY <2>1, <2>2 DEF Worlds
  <2>6. t.sleepers = u.sleepers \ {p} /\ t.asleep = u.asleep \ {p}
    BY <2>1, <2>2 DEF Worlds
  <2>7. t.room = [u.room EXCEPT ![p] = Shrine] /\ t.floor = [u.floor EXCEPT ![u.room[p]] = @ \ {p}]
    BY <2>1, <2>2 DEF Worlds
  <2>8. Sides(t) /\ Roster(t)
    BY <1>1, <2>4 DEF Sound, Sides, Matched, Placed, Manned, Roster, SameFights, SameNpcs
  <2>9. InPlace(t)
    BY <1>1, <2>1, <2>4, <2>7 DEF Sound, InPlace, SameFights, SameNpcs, Worlds
  <2>10. Bodies(t)
    <3>1. ASSUME NEW r \in Rooms
          PROVE  t.floor[r] = {q \in t.online \cup t.asleep : t.room[q] = r}
      <4>1. u.floor[r] = {q \in u.online \cup u.asleep : u.room[q] = r}
        BY <1>1 DEF Sound, Bodies
      <4>2. t.floor[r] = u.floor[r] \ {p}
        BY <2>1, <2>7, <4>1 DEF Worlds
      <4>3. \A q \in Players \ {p} : t.room[q] = u.room[q]
        BY <2>1, <2>7 DEF Worlds
      <4>4. t.online \cup t.asleep \subseteq Players \ {p}
        BY <2>1, <2>5, <2>6 DEF Worlds
      <4> QED
        BY <2>1, <2>5, <2>6, <4>1, <4>2, <4>3, <4>4
    <3> QED
      BY <1>1, <2>5, <2>6, <3>1 DEF Sound, Bodies
  <2>11. Sound(t)
    BY <2>3, <2>8, <2>9, <2>10 DEF Sound
  <2>12. OthersRuled(u, t, p)
    BY <2>1, <2>4, <2>5, <2>7 DEF OthersRuled, Rule, SameFights, SameNpcs, Worlds
  <2>13. t.room[p] = Shrine /\ t.fight[p] = NoFight
    BY <1>1, <2>1, <2>4, <2>7 DEF SameFights, Worlds
  <2>14. OthersRuled(s, t, p) /\ Rule(t, p)
    BY <1>1, <2>11, <2>12, <2>13, OthersTwice, ShrineRule
  <2> QED
    BY <1>1, <1>4, <2>4, <2>5, <2>6, <2>11, <2>13, <2>14
    DEF Fallen, LetGo, Still, SameBodies, SameFights
<1> QED
  BY <1>3, <1>4

-----------------------------------------------------------------------------
(* Handlers. *)

\* From s to t, p has done something that leaves everybody to the one rule.
Done(s, t, p) ==
  /\ t.turning = s.turning
  /\ OthersRuled(s, t, p)
  /\ p \in t.online => Rule(t, p)

LEMMA RunDone ==
  ASSUME NEW s, NEW t, NEW p \in Players, NEW r, NEW f, RuleRun(s, t, p, r, f), s.room[p] = r
  PROVE  Done(s, t, p)
<1>1. Still(s, t) /\ Held(s, t) /\ (p \in s.online => Rule(t, p))
  BY DEF RuleRun
<1>2. t.online = s.online /\ t.turning = s.turning
  BY <1>1 DEF Still, SameBodies
<1>3. OthersRuled(s, t, p)
  BY <1>1, <1>2, HeldRule DEF OthersRuled
<1> QED
  BY <1>1, <1>2, <1>3 DEF Done

LEMMA JudgedDone ==
  ASSUME NEW s, NEW t, NEW u, NEW p \in Players, Done(s, t, p), Judged(t, u, p)
  PROVE  Done(s, u, p)
<1>1. u.online = t.online /\ u.turning = t.turning
  BY DEF Judged, SameBodies
<1>2. p \in u.online => Rule(u, p)
  BY <1>1 DEF Done, Judged
<1>3. OthersRuled(t, u, p)
  BY <1>1, JudgedRule DEF OthersRuled
<1> QED
  BY <1>1, <1>2, <1>3, OthersTwice DEF Done

LEMMA FinishMoveDone ==
  ASSUME NEW s, Sound(s), NEW p \in Players, NEW d \in Rooms, NEW missed \in SUBSET Wary,
         NEW f \in Fights, Spare(s, p, f), s.fight[p] = NoFight, p \in s.online \cup s.asleep,
         NEW t \in FinishMove(s, p, d, missed, f)
  PROVE  Sound(t) /\ Done(s, t, p) /\ Spare(t, p, f)
<1> DEFINE u == Relocate(s, p, d)
<1>1. /\ Sound(u)
      /\ u.live = s.live /\ u.turning = s.turning /\ u.fight = s.fight
      /\ u.online = s.online /\ u.asleep = s.asleep
      /\ u.room[p] = d
      /\ OthersRuled(s, u, p)
  BY RelocateSound
<1>2. t = Aggro(u, p, d, missed, f) \/ t = Fall(u, p)
  BY DEF FinishMove
<1> HIDE DEF u
<1>3. Spare(u, p, f)
  BY <1>1 DEF Spare
<1>4. CASE t = Aggro(u, p, d, missed, f)
  <2>1. Sound(t) /\ RuleRun(u, t, p, d, f)
    BY <1>1, <1>3, <1>4, AggroSound
  <2>2. Done(u, t, p) /\ Spare(t, p, f)
    BY <1>1, <2>1, RunDone DEF RuleRun
  <2> QED
    BY <1>1, <2>1, <2>2, OthersTwice DEF Done
<1>5. CASE t = Fall(u, p)
  <2>1. Sound(t) /\ Fallen(u, t, p)
    BY <1>1, <1>5, FallSound
  <2>2. OthersRuled(s, t, p)
    BY <1>1, <2>1, OthersTwice DEF Fallen
  <2>3. f \notin t.live
    BY <1>1, <2>1, WorldAssumption DEF Fallen, Spare
  <2> QED
    BY <1>1, <2>1, <2>2, <2>3 DEF Fallen, Done, Spare
<1> QED
  BY <1>2, <1>4, <1>5

\* An NPC that is taken out of its room is taken out of all of them.
LEMMA HereElsewhere ==
  ASSUME NEW s, Sound(s), NEW n \in Npcs, NEW r \in Rooms, n \in s.here[r]
  PROVE  \A x \in Rooms : [s.here EXCEPT ![r] = @ \ {n}][x] = s.here[x] \ {n}
BY DEF Sound, Roster, Worlds

LEMMA TeleportDone ==
  ASSUME NEW s, Sound(s), NEW p \in Players, NEW d \in Rooms, NEW missed \in SUBSET Wary,
         NEW f \in Fights \ s.live, p \in s.online \cup s.asleep,
         NEW t \in Teleport(s, p, d, missed, f)
  PROVE  Sound(t) /\ Done(s, t, p)
<1> DEFINE u == DropPlayer(s, p)
           v == [u EXCEPT !.pending[p] = NoMove]
<1>1. Sound(u) /\ LetGo(s, u) /\ u.fight[p] = NoFight /\ OthersRuled(s, u, p)
  BY DropPlayerSound
<1>2. t \in FinishMove(v, p, d, missed, f) \/ t = Fall(Relocate(v, p, d), p)
  BY DEF Teleport, FinishMove
<1> HIDE DEF u
<1>3. v \in Worlds
  BY <1>1, ZenonT(60) DEF Sound, Worlds
<1>4. SameFights(u, v)
  BY <1>1 DEF Sound, Worlds, SameFights
<1>5. SameBodies(u, v) /\ SameNpcs(u, v)
  BY <1>1 DEF Sound, Worlds, SameBodies, SameNpcs
<1>6. v.hostile = u.hostile /\ v.turning = u.turning
  BY <1>1 DEF Sound, Worlds
<1> HIDE DEF v
<1>7. Sound(v)
  BY <1>1, <1>3, <1>4, <1>5 DEF Sound, Sides, Matched, Placed, Manned, InPlace, Bodies, Roster,
                                SameFights, SameBodies, SameNpcs
<1>8. OthersRuled(s, v, p)
  BY <1>1, <1>4, <1>5, <1>6 DEF OthersRuled, Rule, SameFights, SameBodies, SameNpcs
<1>9. v.fight[p] = NoFight /\ p \in v.online \cup v.asleep /\ Spare(v, p, f) /\ v.turning = s.turning
  BY <1>1, <1>4, <1>5, <1>6 DEF LetGo, Still, SameBodies, SameFights, Spare
<1>10. CASE t \in FinishMove(v, p, d, missed, f)
  <2>1. Sound(t) /\ Done(v, t, p)
    BY <1>7, <1>9, <1>10, FinishMoveDone
  <2> QED
    BY <1>8, <1>9, <2>1, OthersTwice DEF Done
<1>11. CASE t = Fall(Relocate(v, p, d), p)
  <2> DEFINE w == Relocate(v, p, d)
  <2>1. Sound(w) /\ w.turning = v.turning /\ OthersRuled(v, w, p)
    BY <1>7, <1>9, RelocateSound
  <2> HIDE DEF w
  <2>2. Sound(t) /\ Fallen(w, t, p)
    BY <1>11, <2>1, FallSound DEF w
  <2> QED
    BY <1>8, <1>9, <2>1, <2>2, OthersTwice DEF Fallen, Done
<1> QED
  BY <1>2, <1>10, <1>11

LEMMA DefeatDone ==
  ASSUME NEW s, Sound(s), NEW p \in Players, NEW missed \in SUBSET Wary,
         NEW f \in Fights \ s.live, NEW t \in Defeat(s, p, missed, f)
  PROVE  Sound(t) /\ Done(s, t, p)
<1> DEFINE u == Fall(s, p)
<1>1. Sound(u) /\ Fallen(s, u, p)
  BY FallSound
<1>2. t \in Deed(u, p, missed, f)
  BY DEF Defeat
<1> HIDE DEF u
<1>3. Done(s, u, p) /\ Spare(u, p, f)
  BY <1>1 DEF Fallen, Done, Spare
<1>4. Sound(t) /\ Judged(u, t, p)
  BY <1>1, <1>2, <1>3, DeedSound
<1> QED
  BY <1>3, <1>4, JudgedDone

\* An NPC falls in its fight, and p, who struck it, is judged.
LEMMA NpcDownDone ==
  ASSUME NEW s, Sound(s), NEW p \in Players, NEW r \in Rooms, NEW n \in Npcs,
         NEW missed \in SUBSET Wary, NEW f \in Fights \ s.live, n \in s.here[r],
         p \in s.online => Rule(s, p),
         NEW t \in NpcDown(s, p, r, n, missed, f)
  PROVE  Sound(t) /\ Done(s, t, p)
<1> DEFINE u == DropNpc(s, n)
           v == [u EXCEPT !.here[r] = @ \ {n}, !.respawns = @ \cup {n}]
<1>1. u \in Worlds
  BY DropNpcTyped DEF Sound
<1>2. Sides(u) /\ LetGo(s, u) /\ u.busy[n] = NoFight
  BY DropNpcSides DEF Sound
<1>3. \A q \in Players, m \in Npcs \ {n} :
        s.fight[q] # NoFight /\ s.busy[m] = s.fight[q] =>
          u.fight[q] = s.fight[q] /\ u.busy[m] = s.busy[m]
  BY DropNpcSides DEF Sound
<1>4. Sound(u)
  BY <1>1, <1>2, LetGoSound DEF Sound
<1>5. t \in Deed(v, p, missed, f)
  BY DEF NpcDown
<1> HIDE DEF u
<1>6. v \in Worlds
  BY <1>1 DEF Worlds
<1>7. SameFights(u, v)
  BY <1>1 DEF Worlds, SameFights
<1>8. SameBodies(u, v) /\ v.hostile = u.hostile /\ v.turning = u.turning
  BY <1>1 DEF Worlds, SameBodies
<1>9. v.home = u.home /\ v.hidden = u.hidden /\ v.respawns = u.respawns \cup {n}
  BY <1>1 DEF Worlds
<1>10. v.here = [u.here EXCEPT ![r] = @ \ {n}]
  BY <1>1 DEF Worlds
<1>11. \A x \in Rooms : v.here[x] = u.here[x] \ {n}
  <2>1. n \in u.here[r]
    BY <1>2 DEF LetGo, Still, SameNpcs
  <2>2. \A x \in Rooms : [u.here EXCEPT ![r] = @ \ {n}][x] = u.here[x] \ {n}
    BY <1>4, <2>1, HereElsewhere
  <2> QED
    BY <1>10, <2>2
<1> HIDE DEF v
<1>12. Sound(v)
  <2>1. Sides(v) /\ Bodies(v)
    BY <1>4, <1>7, <1>8 DEF Sound, Sides, Matched, Placed, Manned, Bodies, SameFights, SameBodies
  <2>2. InPlace(v)
    <3>1. ASSUME NEW m \in Npcs, v.busy[m] # NoFight
          PROVE  m \in v.here[v.place[v.busy[m]]]
      <4>1. m # n /\ u.busy[m] # NoFight /\ v.busy[m] = u.busy[m] /\ v.place = u.place
        BY <1>2, <1>7, <3>1 DEF SameFights
      <4>2. m \in u.here[u.place[u.busy[m]]] /\ u.place[u.busy[m]] \in Rooms
        BY <1>1, <1>4, <4>1 DEF Sound, InPlace, Worlds
      <4> QED
        BY <1>11, <4>1, <4>2
    <3> QED
      BY <1>4, <1>7, <1>8, <3>1 DEF Sound, InPlace, SameFights, SameBodies
  <2>3. n \in u.here[r] /\ u.home[n] = r
    BY <1>2, <1>4 DEF LetGo, Still, SameNpcs, Sound, Roster
  <2>4. \A m \in Npcs : v.home[m] \in Rooms
    BY <1>6 DEF Worlds
  <2>5. Roster(v)
    BY <1>4, <1>9, <1>11, <2>3, <2>4 DEF Sound, Roster
  <2> QED
    BY <1>6, <2>1, <2>2, <2>5 DEF Sound
<1>13. ASSUME NEW q \in Players, Rule(s, q)
       PROVE  Rule(v, q)
  <2>1. v.room[q] = s.room[q] /\ v.hostile[q] = s.hostile[q] /\ s.room[q] \in Rooms
    BY <1>2, <1>8 DEF LetGo, Still, SameBodies, Sound, Worlds
  <2>2. v.here[s.room[q]] = s.here[s.room[q]] \ {n}
    BY <1>2, <1>11, <2>1 DEF LetGo, Still, SameNpcs
  <2> QED
    BY <1>3, <1>7, <1>13, <2>1, <2>2 DEF Rule, SameFights
<1>14. v.online = s.online /\ v.turning = s.turning /\ v.live \subseteq s.live
  BY <1>2, <1>7, <1>8 DEF LetGo, Still, SameBodies, SameFights
<1>15. Done(s, v, p) /\ Spare(v, p, f)
  BY <1>13, <1>14 DEF Done, OthersRuled, Spare
<1>16. Sound(t) /\ Judged(v, t, p)
  BY <1>5, <1>12, <1>15, DeedSound
<1> QED
  BY <1>15, <1>16, JudgedDone

-----------------------------------------------------------------------------
(* What players do. *)

\* p's body leaves the world, and p its fight.
LEMMA BodyGone ==
  ASSUME NEW s, Sound(s), NEW p \in Players, NEW u \in Worlds, NEW t \in Worlds,
         Sides(u), LetGo(s, u), u.fight[p] = NoFight,
         SameFights(u, t), SameNpcs(u, t),
         t.online = s.online \ {p}, t.asleep = s.asleep \ {p}, t.sleepers = s.sleepers \ {p},
         \A q \in Players \ {p} : t.room[q] = s.room[q],
         t.floor = [s.floor EXCEPT ![s.room[p]] = @ \ {p}]
  PROVE  Sound(t)
<1>1. Sound(u)
  BY LetGoSound DEF Sound
<1>2. s \in Worlds
  BY DEF Sound
<1>3. Sides(t) /\ Roster(t)
  BY <1>1 DEF Sound, Sides, Matched, Placed, Manned, Roster, SameFights, SameNpcs
<1>4. \A r \in Rooms : t.floor[r] = s.floor[r] \ {p}
  BY <1>2 DEF Sound, Bodies, Worlds
<1>5. InPlace(t)
  <2>1. ASSUME NEW q \in Players, t.fight[q] # NoFight
        PROVE  q \in t.floor[t.place[t.fight[q]]]
    <3>1. q # p /\ u.fight[q] # NoFight /\ t.place[t.fight[q]] = u.place[u.fight[q]]
      BY <2>1 DEF SameFights
    <3>2. q \in s.floor[u.place[u.fight[q]]] /\ u.place[u.fight[q]] \in Rooms
      BY <1>1, <3>1 DEF Sound, InPlace, LetGo, Still, SameBodies, Worlds
    <3> QED
      BY <1>4, <3>1, <3>2
  <2>2. ASSUME NEW n \in Npcs, t.busy[n] # NoFight
        PROVE  n \in t.here[t.place[t.busy[n]]]
    BY <1>1, <2>2 DEF Sound, InPlace, SameFights, SameNpcs
  <2> QED
    BY <2>1, <2>2 DEF InPlace
<1>6. Bodies(t)
  <2>1. ASSUME NEW r \in Rooms
        PROVE  t.floor[r] = {q \in t.online \cup t.asleep : t.room[q] = r}
    <3>1. s.floor[r] = {q \in s.online \cup s.asleep : s.room[q] = r}
      BY DEF Sound, Bodies
    <3>2. s.online \cup s.asleep \subseteq Players
      BY <1>2 DEF Worlds
    <3>3. t.online \cup t.asleep = (s.online \cup s.asleep) \ {p}
      OBVIOUS
    <3>4. t.floor[r] = s.floor[r] \ {p}
      BY <1>4
    <3> QED
      BY <3>1, <3>2, <3>3, <3>4
  <2> QED
    BY <2>1 DEF Sound, Bodies
<1> QED
  BY <1>3, <1>5, <1>6 DEF Sound

LEMMA ConnectDone ==
  ASSUME Sound(world), NEW p \in Players, NEW missed \in SUBSET Wary,
         NEW f \in Fights \ world.live, Connect(p, missed, f)
  PROVE  Sound(world') /\ Done(world, world', p)
<1> DEFINE a == [world EXCEPT !.online = @ \cup {p},
                              !.asleep = @ \ {p},
                              !.sleepers = @ \ {p}]
           u == [a EXCEPT !.floor[world.room[p]] = @ \cup {p}]
<1>1. world \in Worlds /\ p \notin world.online
  BY DEF Sound, Connect
<1>2. a \in Worlds
  BY <1>1 DEF Worlds
<1>3. /\ a.online = world.online \cup {p} /\ a.asleep = world.asleep \ {p}
      /\ a.sleepers = world.sleepers \ {p}
  BY <1>1 DEF Worlds
<1>4. a.room = world.room /\ a.floor = world.floor /\ a.hostile = world.hostile /\ a.turning = world.turning
  BY <1>1 DEF Worlds
<1>5. SameFights(world, a) /\ SameNpcs(world, a)
  BY <1>1 DEF Worlds, SameFights, SameNpcs
<1>6. world' = Aggro(u, p, world.room[p], missed, f)
  BY <1>1, <1>2 DEF Connect
<1> HIDE DEF a
<1>7. u \in Worlds
  BY <1>2, ZenonT(60) DEF Worlds
<1>8. u.online = a.online /\ u.asleep = a.asleep /\ u.sleepers = a.sleepers
  BY <1>2 DEF Worlds
<1>9. /\ u.room = a.room /\ u.hostile = a.hostile /\ u.turning = a.turning
      /\ u.floor = [a.floor EXCEPT ![world.room[p]] = @ \cup {p}]
  BY <1>2 DEF Worlds
<1>10. SameFights(a, u) /\ SameNpcs(a, u)
  BY <1>2 DEF Worlds, SameFights, SameNpcs
<1> HIDE DEF u
<1>11. SameFights(world, u) /\ SameNpcs(world, u)
  BY <1>5, <1>10 DEF SameFights, SameNpcs
<1>12. \A r \in Rooms : u.floor[r] = IF r = world.room[p] THEN world.floor[r] \cup {p} ELSE world.floor[r]
  <2>1. u.floor = [world.floor EXCEPT ![world.room[p]] = @ \cup {p}]
    BY <1>4, <1>9
  <2>2. world.floor \in [Rooms -> SUBSET Players]
    BY <1>1 DEF Worlds
  <2> QED
    BY <2>1, <2>2
<1>13. Sound(u)
  <2>1. Sides(u) /\ Roster(u)
    BY <1>11 DEF Sound, Sides, Matched, Placed, Manned, Roster, SameFights, SameNpcs
  <2>2. InPlace(u)
    <3>1. \A q \in Players : world.fight[q] # NoFight => world.place[world.fight[q]] \in Rooms
      BY <1>1 DEF Worlds
    <3>2. \A r \in Rooms : world.floor[r] \subseteq u.floor[r]
      BY <1>12
    <3> QED
      BY <1>11, <3>1, <3>2 DEF Sound, InPlace, SameFights, SameNpcs
  <2>3. ASSUME NEW r \in Rooms
        PROVE  u.floor[r] = {q \in u.online \cup u.asleep : u.room[q] = r}
    <3>1. world.floor[r] = {q \in world.online \cup world.asleep : world.room[q] = r}
      BY DEF Sound, Bodies
    <3>2. u.online \cup u.asleep = world.online \cup world.asleep \cup {p}
      BY <1>3, <1>8
    <3>3. u.room = world.room
      BY <1>4, <1>9
    <3> QED
      BY <1>12, <3>1, <3>2, <3>3
  <2>4. Bodies(u)
    BY <1>1, <1>3, <1>8, <2>3 DEF Sound, Bodies
  <2> QED
    BY <1>7, <2>1, <2>2, <2>4 DEF Sound
<1>14. OthersRuled(world, u, p)
  BY <1>3, <1>4, <1>8, <1>9, <1>11 DEF OthersRuled, Rule, SameFights, SameNpcs
<1>15. Spare(u, p, f) /\ u.room[p] = world.room[p] /\ world.room[p] \in Rooms /\ u.turning = world.turning
  BY <1>1, <1>4, <1>9, <1>11 DEF Spare, SameFights, Worlds
<1>16. Sound(world') /\ RuleRun(u, world', p, world.room[p], f)
  BY <1>6, <1>13, <1>15, AggroSound
<1>17. Done(u, world', p)
  BY <1>15, <1>16, RunDone
<1> QED
  BY <1>14, <1>15, <1>16, <1>17, OthersTwice DEF Done

LEMMA DisconnectDone ==
  ASSUME Sound(world), NEW p \in Players, Disconnect(p)
  PROVE  Sound(world') /\ Done(world, world', p)
<1> DEFINE a == [world EXCEPT !.online = @ \ {p}]
<1>1. world \in Worlds /\ p \in world.online /\ p \notin world.asleep
  BY DEF Sound, Bodies, Disconnect
<1>2. a \in Worlds /\ a.online = world.online \ {p}
  BY <1>1 DEF Worlds
<1>3. /\ a.asleep = world.asleep /\ a.sleepers = world.sleepers /\ a.room = world.room
      /\ a.floor = world.floor /\ a.hostile = world.hostile /\ a.turning = world.turning
  BY <1>1 DEF Worlds
<1>4. SameFights(world, a) /\ SameNpcs(world, a)
  BY <1>1 DEF Worlds, SameFights, SameNpcs
<1>5. CASE world.room[p] \in Safe /\ world.fight[p] = NoFight
  <2> DEFINE t == [a EXCEPT !.floor[world.room[p]] = @ \ {p}]
  <2>1. world' = t
    BY <1>5 DEF Disconnect
  <2> HIDE DEF a
  <2>2. t \in Worlds
    BY <1>2 DEF Worlds
  <2>3. /\ t.online = a.online /\ t.asleep = a.asleep /\ t.sleepers = a.sleepers /\ t.room = a.room
        /\ t.hostile = a.hostile /\ t.turning = a.turning
    BY <1>2 DEF Worlds
  <2>4. t.floor = [a.floor EXCEPT ![world.room[p]] = @ \ {p}]
    BY <1>2 DEF Worlds
  <2>5. SameFights(a, t) /\ SameNpcs(a, t)
    BY <1>2 DEF Worlds, SameFights, SameNpcs
  <2> HIDE DEF t
  <2>6. SameFights(world, t) /\ SameNpcs(world, t)
    BY <1>4, <2>5 DEF SameFights, SameNpcs
  <2>7. Sides(world) /\ LetGo(world, world)
    BY DEF Sound, LetGo, Still, SameBodies, SameNpcs
  <2>8. t.asleep = world.asleep \ {p} /\ t.sleepers = world.sleepers \ {p}
    BY <1>1, <1>3, <2>3 DEF Sound, Bodies
  <2>9. Sound(t)
    BY <1>1, <1>2, <1>3, <1>5, <2>2, <2>3, <2>4, <2>6, <2>7, <2>8, BodyGone
  <2>10. Done(world, t, p)
    BY <1>2, <1>3, <2>3, <2>6 DEF Done, OthersRuled, Rule, SameFights, SameNpcs
  <2> QED
    BY <2>1, <2>9, <2>10
<1>6. CASE ~(world.room[p] \in Safe /\ world.fight[p] = NoFight)
  <2> DEFINE t == [a EXCEPT !.asleep = @ \cup {p}, !.sleepers = @ \cup {p}]
  <2>1. world' = t
    BY <1>6 DEF Disconnect
  <2> HIDE DEF a
  <2>2. t \in Worlds
    BY <1>2 DEF Worlds
  <2>3. /\ t.online = a.online /\ t.room = a.room /\ t.floor = a.floor
        /\ t.hostile = a.hostile /\ t.turning = a.turning
    BY <1>2 DEF Worlds
  <2>4. t.asleep = a.asleep \cup {p} /\ t.sleepers = a.sleepers \cup {p}
    BY <1>2 DEF Worlds
  <2>5. SameFights(a, t) /\ SameNpcs(a, t)
    BY <1>2 DEF Worlds, SameFights, SameNpcs
  <2> HIDE DEF t
  <2>6. SameFights(world, t) /\ SameNpcs(world, t)
    BY <1>4, <2>5 DEF SameFights, SameNpcs
  <2>7. Bodies(t)
    <3>1. t.online \cup t.asleep = world.online \cup world.asleep
      BY <1>1, <1>2, <1>3, <2>3, <2>4
    <3> QED
      BY <1>1, <1>2, <1>3, <2>3, <2>4, <3>1 DEF Sound, Bodies
  <2>8. Sound(t)
    BY <1>3, <2>2, <2>3, <2>6, <2>7
    DEF Sound, Sides, Matched, Placed, Manned, InPlace, Roster, SameFights, SameNpcs
  <2>9. Done(world, t, p)
    BY <1>2, <1>3, <2>3, <2>6 DEF Done, OthersRuled, Rule, SameFights, SameNpcs
  <2> QED
    BY <2>1, <2>8, <2>9
<1> QED
  BY <1>5, <1>6

\* A fight that lets p go leaves everybody else to the rule.
LEMMA GoneDone ==
  ASSUME NEW s, NEW p \in Players, NEW u, NEW t, OthersRuled(s, u, p), Still(s, u),
         SameFights(u, t), SameNpcs(u, t),
         t.online = s.online \ {p}, t.turning = s.turning,
         \A q \in Players \ {p} : t.room[q] = s.room[q] /\ t.hostile[q] = s.hostile[q]
  PROVE  Done(s, t, p)
BY DEF Done, OthersRuled, Rule, SameFights, SameNpcs, Still, SameBodies

LEMMA FadeDone ==
  ASSUME Sound(world), NEW p \in Players, Fade(p)
  PROVE  Sound(world') /\ Done(world, world', p)
<1> DEFINE u == DropPlayer(world, p)
           t == [u EXCEPT !.sleepers = @ \ {p},
                          !.asleep = @ \ {p},
                          !.floor[u.room[p]] = @ \ {p}]
<1>1. Sound(u) /\ LetGo(world, u) /\ u.fight[p] = NoFight /\ OthersRuled(world, u, p)
  BY DropPlayerSound
<1>2. world' = t /\ p \in world.sleepers
  BY DEF Fade
<1> HIDE DEF u
<1>3. u \in Worlds /\ Still(world, u)
  BY <1>1 DEF Sound, LetGo
<1>4. t.asleep = u.asleep \ {p} /\ t.sleepers = u.sleepers \ {p}
  BY <1>3 DEF Worlds
<1>5. /\ t.online = u.online /\ t.room = u.room /\ t.hostile = u.hostile /\ t.turning = u.turning
      /\ t.floor = [u.floor EXCEPT ![u.room[p]] = @ \ {p}]
  BY <1>3 DEF Worlds
<1>6. SameFights(u, t) /\ SameNpcs(u, t)
  BY <1>3 DEF Worlds, SameFights, SameNpcs
<1>7. t \in Worlds
  <2> DEFINE v == [u EXCEPT !.sleepers = @ \ {p}, !.asleep = @ \ {p}]
  <2>1. v \in Worlds
    BY <1>3 DEF Worlds
  <2>2. v.room = u.room /\ v.floor = u.floor
    BY <1>3 DEF Worlds
  <2> HIDE DEF v
  <2>3. [v EXCEPT !.floor[u.room[p]] = @ \ {p}] \in Worlds
    BY <2>1 DEF Worlds
  <2> QED
    BY <2>2, <2>3 DEF v
<1> HIDE DEF t
<1>8. p \notin world.online
  BY <1>2 DEF Sound, Bodies
<1>9. /\ t.online = world.online \ {p} /\ t.asleep = world.asleep \ {p}
      /\ t.sleepers = world.sleepers \ {p}
  BY <1>3, <1>4, <1>5, <1>8 DEF Still, SameBodies
<1>10. /\ t.room = world.room /\ t.hostile = world.hostile /\ t.turning = world.turning
       /\ t.floor = [world.floor EXCEPT ![world.room[p]] = @ \ {p}]
       /\ SameNpcs(world, t)
  BY <1>3, <1>5, <1>6 DEF Still, SameBodies, SameNpcs
<1>11. Sides(u)
  BY <1>1 DEF Sound
<1>12. Sound(t)
  BY <1>1, <1>3, <1>6, <1>7, <1>9, <1>10, <1>11, BodyGone
<1>13. Done(world, t, p)
  BY <1>1, <1>3, <1>6, <1>9, <1>10, GoneDone
<1> QED
  BY <1>2, <1>12, <1>13

LEMMA ResetDone ==
  ASSUME Sound(world), NEW p \in Players, Reset(p)
  PROVE  Sound(world') /\ Done(world, world', p)
<1> DEFINE a == [world EXCEPT !.floor[world.room[p]] = @ \ {p}]
           u == DropPlayer(a, p)
           t == [u EXCEPT !.online = @ \ {p},
                          !.asleep = @ \ {p},
                          !.sleepers = @ \ {p},
                          !.pending[p] = NoMove,
                          !.hostile[p] = Hostile,
                          !.room[p] = Start]
<1>1. world' = t
  BY SMTT(30) DEF Reset
<1>2. t \in Worlds
  BY <1>1, PlayerStepTyped DEF PlayerStep, Sound
<1>3. world \in Worlds /\ a \in Worlds
  BY DEF Sound, Worlds
<1>4. SameFights(world, a) /\ SameNpcs(world, a)
  BY <1>3 DEF Worlds, SameFights, SameNpcs
<1>5. /\ a.online = world.online /\ a.asleep = world.asleep /\ a.sleepers = world.sleepers
      /\ a.room = world.room /\ a.hostile = world.hostile /\ a.turning = world.turning
  BY <1>3, SMTT(30) DEF Worlds
<1>6. a.floor = [world.floor EXCEPT ![world.room[p]] = @ \ {p}]
  BY <1>3 DEF Worlds
<1>7. Sides(a)
  BY <1>4 DEF Sound, Sides, Matched, Placed, Manned, SameFights
<1> HIDE DEF a
<1>8. Sides(u) /\ LetGo(a, u) /\ u.fight[p] = NoFight /\ u \in Worlds
  BY <1>3, <1>7, DropPlayerSides, DropPlayerTyped
<1>9. \A q \in Players \ {p}, n \in Npcs :
        a.fight[q] # NoFight /\ a.busy[n] = a.fight[q] =>
          u.fight[q] = a.fight[q] /\ u.busy[n] = a.busy[n]
  BY <1>3, <1>7, DropPlayerSides
<1> HIDE DEF u
<1>10. /\ t.online = u.online \ {p} /\ t.asleep = u.asleep \ {p} /\ t.sleepers = u.sleepers \ {p}
       /\ t.floor = u.floor /\ t.turning = u.turning
  BY <1>8 DEF Worlds
<1>11. t.room = [u.room EXCEPT ![p] = Start] /\ t.hostile = [u.hostile EXCEPT ![p] = Hostile]
  BY <1>8 DEF Worlds
<1>12. SameFights(u, t) /\ SameNpcs(u, t)
  BY <1>8 DEF Worlds, SameFights, SameNpcs
<1> HIDE DEF t
\* The fights as they would be had the body not gone first.
<1> DEFINE v == [t EXCEPT !.online = world.online, !.asleep = world.asleep,
                          !.sleepers = world.sleepers, !.floor = world.floor,
                          !.room = world.room, !.hostile = world.hostile]
<1>13. v \in Worlds
  BY <1>2, <1>3 DEF Worlds
<1>14. SameFights(t, v) /\ SameNpcs(t, v)
  BY <1>2 DEF Worlds, SameFights, SameNpcs
<1>15. SameBodies(world, v) /\ v.hostile = world.hostile /\ v.turning = t.turning
  BY <1>2 DEF Worlds, SameBodies
<1> HIDE DEF v
<1>16. SameFights(v, t) /\ SameNpcs(v, t) /\ SameFights(u, v)
  BY <1>12, <1>14 DEF SameFights, SameNpcs
<1>17. Sides(v) /\ v.fight[p] = NoFight
  BY <1>8, <1>16 DEF Sides, Matched, Placed, Manned, SameFights
<1>18. LetGo(world, v)
  <2>1. SameNpcs(world, v) /\ v.turning = world.turning
    BY <1>4, <1>5, <1>8, <1>10, <1>12, <1>14, <1>15 DEF LetGo, Still, SameNpcs
  <2> QED
    BY <1>4, <1>8, <1>15, <1>16, <2>1 DEF LetGo, Still, SameFights
<1>19. /\ t.online = world.online \ {p} /\ t.asleep = world.asleep \ {p}
       /\ t.sleepers = world.sleepers \ {p} /\ t.turning = world.turning
       /\ t.floor = [world.floor EXCEPT ![world.room[p]] = @ \ {p}]
  BY <1>5, <1>6, <1>8, <1>10 DEF LetGo, Still, SameBodies
<1>20. \A q \in Players \ {p} : t.room[q] = world.room[q] /\ t.hostile[q] = world.hostile[q]
  <2>1. u.room = world.room /\ u.hostile = world.hostile
    BY <1>5, <1>8 DEF LetGo, Still, SameBodies
  <2> QED
    BY <1>3, <1>11, <2>1 DEF Worlds
<1>21. Sound(t)
  BY <1>2, <1>13, <1>16, <1>17, <1>18, <1>19, <1>20, BodyGone
<1>22. OthersRuled(world, v, p)
  BY <1>4, <1>9, <1>16, <1>18 DEF OthersRuled, Rule, LetGo, Still, SameBodies, SameNpcs, SameFights
<1>23. Done(world, t, p)
  BY <1>16, <1>18, <1>19, <1>20, <1>22, GoneDone DEF LetGo
<1> QED
  BY <1>1, <1>21, <1>23

LEMMA FallenDone ==
  ASSUME NEW s, NEW t, NEW p \in Players, Fallen(s, t, p)
  PROVE  Done(s, t, p)
BY DEF Fallen, Done

LEMMA PlayerStepDone ==
  ASSUME Sound(world), NEW p \in Players, PlayerStep(p)
  PROVE  Sound(world') /\ Done(world, world', p)
<1>1. CASE Disarm(p)
  BY <1>1, FallSound, FallenDone DEF Disarm
<1> QED
  BY <1>1, DisconnectDone, FadeDone, ResetDone DEF PlayerStep

\* What it takes for p to act: p keeps to the rule, and f is not there yet.
May(p, missed, f) ==
  /\ Sound(world)
  /\ p \in world.online => Rule(world, p)
  /\ missed \in SUBSET Wary
  /\ f \in Fights \ world.live

LEMMA SpareFresh ==
  ASSUME NEW s, NEW p, NEW f, f \notin s.live
  PROVE  Spare(s, p, f)
BY DEF Spare

\* Who joins the fight of the room fights every enemy there that fights at all.
LEMMA BroughtDone ==
  ASSUME NEW s, Sound(s), NEW t, Sound(t), NEW p \in Players, NEW e \in Fights, NEW ns,
         Brought(s, t, e, p, ns), s.fight[p] \in {NoFight, e}, \A n \in ns : s.busy[n] \in {NoFight, e},
         p \in s.online => Rule(s, p)
  PROVE  Done(s, t, p)
<1>1. Still(s, t) /\ Held(s, t)
  BY WorldAssumption DEF Brought, Held
<1>2. t.online = s.online /\ t.turning = s.turning
  BY <1>1 DEF Still, SameBodies
<1>3. \A q \in Players : Rule(s, q) => Rule(t, q)
  BY <1>1, HeldRule
<1> QED
  BY <1>2, <1>3 DEF Done, OthersRuled

\* A held-up move changes nothing else.
LEMMA PendingDone ==
  ASSUME Sound(world), NEW p \in Players, NEW m, NEW t, t = [world EXCEPT !.pending[p] = m],
         t \in Worlds, p \in world.online => Rule(world, p)
  PROVE  /\ Sound(t) /\ Done(world, t, p)
         /\ t.live = world.live /\ t.fight = world.fight
         /\ t.online = world.online /\ t.asleep = world.asleep
<1>1. world \in Worlds
  BY DEF Sound
<1>2. SameFights(world, t)
  BY <1>1 DEF Worlds, SameFights
<1>3. SameBodies(world, t) /\ SameNpcs(world, t)
  BY <1>1 DEF Worlds, SameBodies, SameNpcs
<1>4. t.hostile = world.hostile /\ t.turning = world.turning
  BY <1>1 DEF Worlds
<1>5. Sound(t)
  BY <1>2, <1>3 DEF Sound, Sides, Matched, Placed, Manned, InPlace, Bodies, Roster,
                    SameFights, SameBodies, SameNpcs
<1>6. Done(world, t, p)
  BY <1>2, <1>3, <1>4 DEF Done, OthersRuled, Rule, SameFights, SameBodies, SameNpcs
<1> QED
  BY <1>2, <1>3, <1>5, <1>6 DEF SameFights, SameBodies

LEMMA MoveDone ==
  ASSUME NEW p \in Players, NEW missed, NEW f, May(p, missed, f), NEW d \in Rooms,
         Move(p, d, missed, f)
  PROVE  Sound(world') /\ Done(world, world', p)
<1>1. /\ Sound(world) /\ missed \in SUBSET Wary /\ f \in Fights /\ Spare(world, p, f)
      /\ p \in world.online => Rule(world, p)
  BY SpareFresh DEF May
<1>2. CASE world' \in FinishMove(world, p, d, missed, f)
  BY <1>1, <1>2, FinishMoveDone DEF Move
<1>3. CASE world' = [world EXCEPT !.pending[p] = <<world.room[p], d>>]
  <2>1. world' \in Worlds
    BY <1>1, RuleStepTyped DEF RuleStep, Sound
  <2> QED
    BY <1>1, <1>3, <2>1, PendingDone
<1> QED
  BY <1>2, <1>3 DEF Move

LEMMA MoveDueDone ==
  ASSUME NEW p \in Players, NEW missed, NEW f, May(p, missed, f), MoveDue(p, missed, f)
  PROVE  Sound(world') /\ Done(world, world', p)
<1> DEFINE t == [world EXCEPT !.pending[p] = NoMove]
<1>1. /\ Sound(world) /\ missed \in SUBSET Wary /\ f \in Fights \ world.live
      /\ p \in world.online => Rule(world, p)
  BY DEF May
<1>2. world.pending[p] # NoMove => world.pending[p][2] \in Rooms
  <2>1. world.pending[p] \in Exits \cup {NoMove}
    BY <1>1 DEF Sound, Worlds
  <2> QED
    BY <2>1, WorldAssumption
<1>3. /\ Sound(t) /\ Done(world, t, p)
      /\ t.live = world.live /\ t.fight = world.fight
      /\ t.online = world.online /\ t.asleep = world.asleep
  <2>1. world \in Worlds
    BY <1>1 DEF Sound
  <2>2. t \in Worlds
    BY <2>1 DEF Worlds
  <2> QED
    BY <1>1, <2>2, PendingDone
<1>4. CASE world' = t
  BY <1>3, <1>4
<1>5. CASE /\ p \in world.online
           /\ world.fight[p] = NoFight
           /\ world' \in FinishMove(t, p, world.pending[p][2], missed, f)
  <2> HIDE DEF t
  <2>1. Spare(t, p, f) /\ t.fight[p] = NoFight /\ p \in t.online \cup t.asleep
    BY <1>1, <1>3, <1>5 DEF Spare
  <2>2. world.pending[p][2] \in Rooms
    BY <1>2 DEF MoveDue
  <2>3. Sound(world') /\ Done(t, world', p)
    BY <1>1, <1>3, <1>5, <2>1, <2>2, FinishMoveDone
  <2> QED
    BY <1>3, <2>3, OthersTwice DEF Done
<1> QED
  BY <1>4, <1>5 DEF MoveDue

\* An NPC that can be attacked is free or in the player's fight, and there.
LEMMA AttackDone ==
  ASSUME NEW p \in Players, NEW missed, NEW f, May(p, missed, f), NEW n \in Npcs, Attack(p, n, f)
  PROVE  Sound(world') /\ Done(world, world', p)
<1> DEFINE r == world.room[p]
           e == IF world.busy[n] # NoFight THEN world.busy[n] ELSE Here(world, p, r)
           t == IF e = NoFight THEN Create(world, f, r) ELSE world
           id == IF e = NoFight THEN f ELSE e
<1>1. /\ Sound(world) /\ world \in Worlds /\ f \in Fights \ world.live
      /\ p \in world.online /\ Rule(world, p)
      /\ world.fight[p] = NoFight
  BY DEF May, Sound, Attack
<1>2. /\ r \in Rooms
      /\ n \in world.here[r] /\ world.busy[n] \in {NoFight, Here(world, p, r)}
      /\ world' = AddPlayer(AddNpcs(t, id, {n}), id, p)
  BY <1>1 DEF Attack, Attackable, Worlds
<1>3. p \in world.floor[r]
  BY <1>1, <1>2 DEF Sound, Bodies
<1>4. /\ Here(world, p, r) \in world.live \cup {NoFight}
      /\ Here(world, p, r) # NoFight => world.place[Here(world, p, r)] = r
      /\ Here(world, p, r) = world.inRoom[r]
  BY <1>1, <1>2, HereFound
<1>5. e = Here(world, p, r) /\ (e # NoFight => e \in Fights)
  BY <1>1, <1>2, <1>4 DEF Worlds
<1> HIDE DEF e
<1>6. CASE e = NoFight
  <2>1. world.inRoom[r] = NoFight /\ world.busy[n] = NoFight
    BY <1>2, <1>4, <1>5, <1>6
  <2>2. world' = AddPlayer(AddNpcs(Create(world, f, r), f, {n}), f, p)
    BY <1>2, <1>6
  <2>3. \A m \in {n} : world.busy[m] = NoFight
    BY <2>1
  <2>4. Sound(world') /\ Brought(world, world', f, p, {n})
    BY <1>1, <1>2, <1>3, <2>1, <2>2, <2>3, StartSound
  <2>5. f \in Fights /\ world.fight[p] \in {NoFight, f} /\ \A m \in {n} : world.busy[m] \in {NoFight, f}
    BY <1>1, <2>3
  <2> QED
    BY <1>1, <2>4, <2>5, BroughtDone
<1>7. CASE e # NoFight
  <2>1. e \in world.live /\ world.place[e] = r
    BY <1>4, <1>5, <1>7
  <2>2. world.foes[e] # {}
    BY <1>5, <1>7, <2>1, <1>1 DEF Sound, Sides, Manned
  <2>3. world' = AddPlayer(AddNpcs(world, e, {n}), e, p)
    BY <1>2, <1>7
  <2>4. \A m \in {n} : world.busy[m] \in {NoFight, e}
    BY <1>2, <1>5
  <2>5. /\ Matched(world) /\ Placed(world) /\ (\A x \in Fights \ {e} : Manned(world, x))
        /\ InPlace(world) /\ Bodies(world) /\ Roster(world)
    BY <1>1 DEF Sound, Sides
  <2>6. Sound(world') /\ Brought(world, world', e, p, {n})
    BY <1>1, <1>2, <1>3, <2>1, <2>2, <2>3, <2>4, <2>5, BringSound
  <2>7. e \in Fights /\ world.fight[p] \in {NoFight, e}
    BY <1>1, <1>5, <1>7
  <2> QED
    BY <1>1, <2>4, <2>6, <2>7, BroughtDone
<1> QED
  BY <1>6, <1>7

LEMMA DoneTwice ==
  ASSUME NEW s, NEW t, NEW u, NEW p \in Players, Done(s, t, p), Done(t, u, p)
  PROVE  Done(s, u, p)
BY OthersTwice DEF Done

\* What a strike does before it is judged.
LEMMA DrawnDone ==
  ASSUME NEW p \in Players, NEW missed, NEW f, May(p, missed, f), NEW n \in Npcs,
         NEW e, e = world.fight[p], e # NoFight,
         world.busy[n] = e \/ Attackable(world, p, world.place[e], n),
         NEW t, t = IF world.busy[n] = e THEN world ELSE AddNpcs(world, e, {n})
  PROVE  /\ Sound(t) /\ Done(world, t, p) /\ Spare(t, p, f)
         /\ t.fight[p] = e /\ e # f
         /\ world.place[e] \in Rooms /\ n \in t.here[world.place[e]]
<1>1. /\ Sound(world) /\ world \in Worlds /\ missed \in SUBSET Wary /\ f \in Fights \ world.live
      /\ p \in world.online => Rule(world, p)
  BY DEF May, Sound
<1>2. e \in world.live /\ e \in Fights /\ world.place[e] = world.room[p]
  BY <1>1, WhereFought DEF Worlds
<1>3. world.place[e] \in Rooms /\ p \in world.floor[world.place[e]]
  BY <1>1, <1>2 DEF Sound, InPlace, Worlds
<1>4. Here(world, p, world.place[e]) = e
  BY <1>1, <1>2, <1>3, HereFound, SMTT(30)
<1>5. n \in world.here[world.place[e]] /\ world.busy[n] \in {NoFight, e}
  BY <1>1, <1>4 DEF Attackable, Sound, InPlace
<1>6. CASE world.busy[n] = e
  <2>1. t = world
    BY <1>6
  <2>2. Done(world, t, p)
    BY <1>1, <2>1 DEF Done, OthersRuled
  <2> QED
    BY <1>1, <1>2, <1>3, <1>5, <2>1, <2>2, SpareFresh
<1>7. CASE world.busy[n] # e
  <2>1. t = AddNpcs(world, e, {n})
    BY <1>7
  <2>2. NpcsAdded(world, t, e, {n})
    BY <1>1, <1>2, <2>1, AddNpcsShape
  <2>3. t.fight[p] = e
    BY <2>2 DEF NpcsAdded
  <2>4. t = AddPlayer(AddNpcs(world, e, {n}), e, p)
    BY <2>1, <2>3 DEF AddPlayer
  <2>5. \A m \in {n} : world.busy[m] \in {NoFight, e}
    BY <1>5
  <2>6. /\ Matched(world) /\ Placed(world) /\ (\A x \in Fights \ {e} : Manned(world, x))
        /\ InPlace(world) /\ Bodies(world) /\ Roster(world)
    BY <1>1 DEF Sound, Sides
  <2>7. Sound(t) /\ Brought(world, t, e, p, {n})
    BY <1>1, <1>2, <1>3, <1>5, <2>4, <2>5, <2>6, BringSound
  <2>8. Done(world, t, p)
    BY <1>1, <1>2, <2>5, <2>7, BroughtDone
  <2>9. t.live = world.live /\ t.here = world.here
    BY <2>2 DEF NpcsAdded, Still, SameNpcs
  <2> QED
    BY <1>1, <1>2, <1>3, <1>5, <2>3, <2>7, <2>8, <2>9, SpareFresh
<1> QED
  BY <1>6, <1>7

LEMMA StrikeDone ==
  ASSUME NEW p \in Players, NEW missed, NEW f, May(p, missed, f), NEW n \in Npcs,
         Strike(p, n, missed, f)
  PROVE  Sound(world') /\ Done(world, world', p)
<1> DEFINE e     == world.fight[p]
           r     == world.place[e]
           drawn == IF world.busy[n] = e THEN world ELSE AddNpcs(world, e, {n})
<1>1. missed \in SUBSET Wary /\ f \in Fights
  BY DEF May
<1>2. /\ e # NoFight /\ (world.busy[n] = e \/ Attackable(world, p, r, n))
      /\ \E t \in Deed(drawn, p, missed, f) :
           world' = t \/ world' \in NpcDown(t, p, r, n, missed, f)
  BY DEF Strike
<1>3. /\ Sound(drawn) /\ Done(world, drawn, p) /\ Spare(drawn, p, f)
      /\ drawn.fight[p] = e /\ e # f
      /\ r \in Rooms /\ n \in drawn.here[r]
  BY <1>2, DrawnDone
<1> HIDE DEF drawn
<1>4. PICK t \in Deed(drawn, p, missed, f) : world' = t \/ world' \in NpcDown(t, p, r, n, missed, f)
  BY <1>2
<1>5. Sound(t) /\ Judged(drawn, t, p) /\ Spare(t, p, f)
  BY <1>1, <1>3, DeedSound
<1>6. Done(world, t, p)
  BY <1>3, <1>5, JudgedDone
<1>7. CASE world' \in NpcDown(t, p, r, n, missed, f)
  <2>1. t.fight[p] = e /\ n \in t.here[r]
    BY <1>2, <1>3, <1>5 DEF Judged, Held, SameNpcs
  <2>2. f \in Fights \ t.live
    BY <1>1, <1>3, <1>5, <2>1 DEF Spare
  <2>3. p \in t.online => Rule(t, p)
    BY <1>6 DEF Done
  <2>4. Sound(world') /\ Done(t, world', p)
    BY <1>1, <1>3, <1>5, <1>7, <2>1, <2>2, <2>3, NpcDownDone
  <2> QED
    BY <1>6, <2>4, DoneTwice
<1> QED
  BY <1>4, <1>5, <1>6, <1>7

LEMMA FleeDone ==
  ASSUME NEW p \in Players, NEW missed, NEW f, May(p, missed, f), NEW d \in Rooms,
         Flee(p, d, missed, f)
  PROVE  Sound(world') /\ Done(world, world', p)
<1>1. /\ Sound(world) /\ missed \in SUBSET Wary /\ f \in Fights \ world.live
  BY DEF May
<1>2. CASE world' \in Defeat(world, p, missed, f)
  BY <1>1, <1>2, DefeatDone
<1>3. ASSUME NEW t \in FinishMove(DropPlayer(world, p), p, d, missed, f),
             world' \in Deed(t, p, missed, f)
      PROVE  Sound(world') /\ Done(world, world', p)
  <2> DEFINE u == DropPlayer(world, p)
  <2>1. Sound(u) /\ LetGo(world, u) /\ u.fight[p] = NoFight /\ OthersRuled(world, u, p)
    BY <1>1, DropPlayerSound
  <2>2. t \in FinishMove(u, p, d, missed, f)
    BY <1>3
  <2> HIDE DEF u
  <2>3. p \in world.online \cup world.asleep
    BY <1>1, WhereFought DEF Flee
  <2>4. p \in u.online \cup u.asleep /\ Spare(u, p, f) /\ u.turning = world.turning
    BY <1>1, <2>1, <2>3 DEF LetGo, Still, SameBodies, Spare
  <2>5. Sound(t) /\ Done(u, t, p) /\ Spare(t, p, f)
    BY <1>1, <2>1, <2>2, <2>4, FinishMoveDone
  <2>6. Sound(world') /\ Judged(t, world', p)
    BY <1>1, <1>3, <2>5, DeedSound
  <2>7. Done(u, world', p)
    BY <2>5, <2>6, JudgedDone
  <2> QED
    BY <2>1, <2>4, <2>6, <2>7, OthersTwice DEF Done
<1> QED
  BY <1>2, <1>3 DEF Flee

LEMMA BehaveDone ==
  ASSUME NEW p \in Players, NEW missed, NEW f, May(p, missed, f), Behave(p, missed, f)
  PROVE  Sound(world') /\ Done(world, world', p)
<1>1. /\ Sound(world) /\ missed \in SUBSET Wary /\ f \in Fights /\ Spare(world, p, f)
      /\ world' \in Deed(world, p, missed, f) /\ Rule(world, p)
  BY SpareFresh DEF May, Behave
<1>2. Sound(world') /\ Judged(world, world', p)
  BY <1>1, DeedSound
<1>3. Done(world, world, p)
  BY <1>1 DEF Done, OthersRuled
<1> QED
  BY <1>2, <1>3, JudgedDone

LEMMA RuleStepDone ==
  ASSUME NEW p \in Players, NEW missed, NEW f, May(p, missed, f), RuleStep(p, missed, f)
  PROVE  Sound(world') /\ Done(world, world', p)
<1>1. /\ Sound(world) /\ missed \in SUBSET Wary /\ f \in Fights \ world.live
  BY DEF May
<1>2. CASE Connect(p, missed, f)
  BY <1>1, <1>2, ConnectDone
<1>3. ASSUME NEW d \in Rooms, Jump(p, d, missed, f)
      PROVE  Sound(world') /\ Done(world, world', p)
  BY <1>1, <1>3, TeleportDone DEF Jump
<1>4. ASSUME NEW n \in Npcs, Blow(p, n, missed, f)
      PROVE  Sound(world') /\ Done(world, world', p)
  BY <1>1, <1>4, DefeatDone DEF Blow
<1> QED
  BY <1>2, <1>3, <1>4, BehaveDone, MoveDueDone, MoveDone, FleeDone, AttackDone, StrikeDone
  DEF RuleStep

-----------------------------------------------------------------------------
(* What the tickers do. *)

\* No NPC moves to another room while a body lies in one.
Unmoved == ~LiveMoves

WorldInv == Sound(world) /\ Ruled(world)

\* An NPC comes back to its room, and whoever is up there is next for the rule.
LEMMA BackSound ==
  ASSUME WorldInv, NEW n \in Npcs, n \in world.hidden \cup world.respawns,
         NEW t \in Worlds, SameFights(world, t), SameBodies(world, t), t.hostile = world.hostile,
         t.home = world.home, t.hidden = world.hidden \ {n}, t.respawns = world.respawns \ {n},
         t.here = [world.here EXCEPT ![world.home[n]] = @ \cup {n}],
         t.turning = {<<p, world.home[n]>> : p \in world.floor[world.home[n]] \cap world.online}
  PROVE  Sound(t) /\ (world.turning = {} => Ruled(t))
<1>1. Sound(world) /\ world \in Worlds
  BY DEF WorldInv, Sound
<1>2. \A r \in Rooms : t.here[r] = IF r = world.home[n] THEN world.here[r] \cup {n} ELSE world.here[r]
  BY <1>1 DEF Worlds
<1>3. Sides(t) /\ Bodies(t)
  BY <1>1 DEF Sound, Sides, Matched, Placed, Manned, Bodies, SameFights, SameBodies
<1>4. InPlace(t)
  <2>1. \A m \in Npcs : world.busy[m] # NoFight => world.place[world.busy[m]] \in Rooms
    BY <1>1 DEF Worlds
  <2>2. \A r \in Rooms : world.here[r] \subseteq t.here[r]
    BY <1>2
  <2> QED
    BY <1>1, <2>1, <2>2 DEF Sound, InPlace, SameFights, SameBodies
<1>5. Roster(t)
  <2>1. \A m \in Npcs : world.home[m] \in Rooms
    BY <1>1 DEF Worlds
  <2> QED
    BY <1>1, <1>2, <2>1 DEF Sound, Roster
<1>6. ASSUME world.turning = {}, NEW p \in t.online
      PROVE  Rule(t, p) \/ <<p, t.room[p]>> \in t.turning
  <2>1. p \in world.online /\ p \in Players /\ Rule(world, p) /\ world.room[p] \in Rooms
    BY <1>1, <1>6 DEF WorldInv, Ruled, SameBodies, Worlds
  <2>2. CASE world.room[p] = world.home[n]
    <3>1. p \in world.floor[world.home[n]]
      BY <1>1, <2>1, <2>2 DEF Sound, Bodies
    <3> QED
      BY <2>1, <2>2, <3>1 DEF SameBodies
  <2>3. CASE world.room[p] # world.home[n]
    BY <1>2, <2>1, <2>3 DEF Rule, SameFights, SameBodies
  <2> QED
    BY <2>2, <2>3
<1> QED
  BY <1>3, <1>4, <1>5, <1>6 DEF Sound, Ruled

\* What Appear does to a world.
LEMMA AppearShape ==
  ASSUME NEW s \in Worlds, NEW n \in Npcs, NEW t, t = Appear(s, n)
  PROVE  /\ t \in Worlds /\ SameFights(s, t) /\ SameBodies(s, t) /\ t.hostile = s.hostile
         /\ t.home = s.home /\ t.hidden = s.hidden /\ t.respawns = s.respawns
         /\ t.here = [s.here EXCEPT ![s.home[n]] = @ \cup {n}]
         /\ t.turning = {<<p, s.home[n]>> : p \in s.floor[s.home[n]] \cap s.online}
<1>1. t \in Worlds
  BY AppearTyped
<1>2. SameFights(s, t) /\ t.hostile = s.hostile
  BY DEF Appear, Worlds, SameFights
<1>3. SameBodies(s, t)
  BY DEF Appear, Worlds, SameBodies
<1>4. t.home = s.home /\ t.hidden = s.hidden /\ t.respawns = s.respawns
  BY DEF Appear, Worlds
<1>5. t.here = [s.here EXCEPT ![s.home[n]] = @ \cup {n}]
  BY DEF Appear, Worlds
<1>6. t.turning = {<<p, s.home[n]>> : p \in s.floor[s.home[n]] \cap s.online}
  BY DEF Appear, Worlds
<1> QED
  BY <1>1, <1>2, <1>3, <1>4, <1>5, <1>6

\* A free NPC that leaves the rooms, or is dead already, is hidden.
LEMMA HiddenSound ==
  ASSUME WorldInv, NEW n \in Npcs, world.busy[n] = NoFight, n \notin world.hidden,
         NEW t \in Worlds, SameFights(world, t), SameBodies(world, t), t.hostile = world.hostile,
         t.turning = world.turning,
         t.home = world.home, t.hidden = world.hidden \cup {n}, t.respawns = world.respawns \ {n},
         \A r \in Rooms : t.here[r] = world.here[r] \ {n}
  PROVE  Sound(t) /\ Ruled(t)
<1>1. Sound(world) /\ world \in Worlds
  BY DEF WorldInv, Sound
<1>2. Sides(t) /\ Bodies(t)
  BY <1>1 DEF Sound, Sides, Matched, Placed, Manned, Bodies, SameFights, SameBodies
<1>3. InPlace(t)
  <2>1. \A m \in Npcs : world.busy[m] # NoFight => world.place[world.busy[m]] \in Rooms
    BY <1>1 DEF Worlds
  <2> QED
    BY <1>1, <2>1 DEF Sound, InPlace, SameFights, SameBodies
<1>4. Roster(t)
  <2>1. \A m \in Npcs : world.home[m] \in Rooms
    BY <1>1 DEF Worlds
  <2> QED
    BY <1>1, <2>1 DEF Sound, Roster
<1>5. ASSUME NEW p \in t.online
      PROVE  Rule(t, p) \/ <<p, t.room[p]>> \in t.turning
  <2>1. p \in world.online /\ world.room[p] \in Rooms
    BY <1>1, <1>5 DEF SameBodies, Worlds
  <2>2. Rule(world, p) => Rule(t, p)
    BY <2>1 DEF Rule, SameFights, SameBodies
  <2> QED
    BY <2>1, <2>2 DEF WorldInv, Ruled, SameBodies
<1> QED
  BY <1>2, <1>3, <1>4, <1>5 DEF Sound, Ruled

LEMMA RespawnInv ==
  ASSUME WorldInv, world.turning = {}, NEW n \in Npcs, Respawn(n)
  PROVE  WorldInv'
<1> DEFINE a == [world EXCEPT !.respawns = @ \ {n}]
           t == [a EXCEPT !.hidden = @ \cup {n}]
<1>1. Sound(world) /\ world \in Worlds /\ n \in world.respawns
  BY DEF WorldInv, Sound, Respawn
<1>2. a \in Worlds
  BY <1>1 DEF Worlds
<1>3. SameFights(world, a) /\ a.hostile = world.hostile /\ a.turning = world.turning
  BY <1>1 DEF Worlds, SameFights
<1>4. SameBodies(world, a)
  BY <1>1 DEF Worlds, SameBodies
<1>5. /\ a.home = world.home /\ a.here = world.here /\ a.hidden = world.hidden
      /\ a.respawns = world.respawns \ {n}
  BY <1>1 DEF Worlds
<1>6. n \notin world.hidden
  BY <1>1 DEF Sound, Roster
<1>7. world' = Appear(a, n) \/ world' = t
  BY DEF Respawn
<1> HIDE DEF a
<1>8. CASE world' = Appear(a, n)
  <2>1. /\ world' \in Worlds /\ SameFights(a, world') /\ SameBodies(a, world')
        /\ world'.hostile = a.hostile
        /\ world'.home = a.home /\ world'.hidden = a.hidden /\ world'.respawns = a.respawns
        /\ world'.here = [a.here EXCEPT ![a.home[n]] = @ \cup {n}]
        /\ world'.turning = {<<p, a.home[n]>> : p \in a.floor[a.home[n]] \cap a.online}
    BY <1>2, <1>8, AppearShape
  <2>2. SameFights(world, world') /\ SameBodies(world, world')
    BY <1>3, <1>4, <2>1 DEF SameFights, SameBodies
  <2>3. /\ world'.hostile = world.hostile
        /\ world'.home = world.home /\ world'.hidden = world.hidden \ {n}
        /\ world'.respawns = world.respawns \ {n}
        /\ world'.here = [world.here EXCEPT ![world.home[n]] = @ \cup {n}]
    BY <1>3, <1>5, <1>6, <2>1
  <2>4. world'.turning = {<<p, world.home[n]>> : p \in world.floor[world.home[n]] \cap world.online}
    BY <1>4, <1>5, <2>1 DEF SameBodies
  <2> QED
    BY <1>1, <2>1, <2>2, <2>3, <2>4, BackSound DEF WorldInv
<1>9. CASE world' = t
  <2>1. t \in Worlds
    BY <1>2 DEF Worlds
  <2>2. SameFights(a, t) /\ t.hostile = a.hostile /\ t.turning = a.turning
    BY <1>2 DEF Worlds, SameFights
  <2>3. SameBodies(a, t)
    BY <1>2 DEF Worlds, SameBodies
  <2>4. t.home = a.home /\ t.here = a.here /\ t.hidden = a.hidden \cup {n} /\ t.respawns = a.respawns
    BY <1>2 DEF Worlds
  <2> HIDE DEF t
  <2>5. SameFights(world, t) /\ SameBodies(world, t)
    BY <1>3, <1>4, <2>2, <2>3 DEF SameFights, SameBodies
  <2>6. \A r \in Rooms : n \notin world.here[r]
    BY <1>1 DEF Sound, Roster
  <2>7. \A r \in Rooms : t.here[r] = world.here[r] \ {n}
    BY <1>5, <2>4, <2>6
  <2>8. world.busy[n] = NoFight
    BY <1>1, <2>6 DEF Sound, InPlace, Worlds
  <2>9. Sound(t) /\ Ruled(t)
    BY <1>3, <1>5, <1>6, <2>1, <2>2, <2>4, <2>5, <2>7, <2>8, HiddenSound
  <2> QED
    BY <1>9, <2>9 DEF WorldInv
<1> QED
  BY <1>7, <1>8, <1>9

LEMMA EmergeInv ==
  ASSUME WorldInv, world.turning = {}, NEW n \in Npcs, Emerge(n)
  PROVE  WorldInv'
<1> DEFINE a == [world EXCEPT !.hidden = @ \ {n}]
<1>1. Sound(world) /\ world \in Worlds /\ n \in world.hidden
  BY DEF WorldInv, Sound, Emerge
<1>2. a \in Worlds
  BY <1>1 DEF Worlds
<1>3. SameFights(world, a) /\ a.hostile = world.hostile
  BY <1>1 DEF Worlds, SameFights
<1>4. SameBodies(world, a)
  BY <1>1 DEF Worlds, SameBodies
<1>5. /\ a.home = world.home /\ a.here = world.here /\ a.respawns = world.respawns
      /\ a.hidden = world.hidden \ {n}
  BY <1>1 DEF Worlds
<1>6. n \notin world.respawns
  BY <1>1 DEF Sound, Roster
<1>7. world' = Appear(a, n)
  BY DEF Emerge
<1> HIDE DEF a
<1>8. /\ world' \in Worlds /\ SameFights(a, world') /\ SameBodies(a, world')
      /\ world'.hostile = a.hostile
      /\ world'.home = a.home /\ world'.hidden = a.hidden /\ world'.respawns = a.respawns
      /\ world'.here = [a.here EXCEPT ![a.home[n]] = @ \cup {n}]
      /\ world'.turning = {<<p, a.home[n]>> : p \in a.floor[a.home[n]] \cap a.online}
  BY <1>2, <1>7, AppearShape
<1>9. SameFights(world, world') /\ SameBodies(world, world')
  BY <1>3, <1>4, <1>8 DEF SameFights, SameBodies
<1>10. /\ world'.hostile = world.hostile
       /\ world'.home = world.home /\ world'.hidden = world.hidden \ {n}
       /\ world'.respawns = world.respawns \ {n}
       /\ world'.here = [world.here EXCEPT ![world.home[n]] = @ \cup {n}]
  BY <1>3, <1>5, <1>6, <1>8
<1>11. world'.turning = {<<p, world.home[n]>> : p \in world.floor[world.home[n]] \cap world.online}
  BY <1>4, <1>5, <1>8 DEF SameBodies
<1> QED
  BY <1>1, <1>8, <1>9, <1>10, <1>11, BackSound DEF WorldInv

LEMMA HideInv ==
  ASSUME WorldInv, NEW n \in Npcs, Hide(n)
  PROVE  WorldInv'
<1> DEFINE r == world.home[n]
           t == [world EXCEPT !.here[r] = @ \ {n}, !.hidden = @ \cup {n}]
<1>1. Sound(world) /\ world \in Worlds /\ r \in Rooms
  BY DEF WorldInv, Sound, Worlds
<1>2. n \in world.here[r] /\ world.busy[n] = NoFight /\ world' = t
  BY DEF Hide
<1>3. t \in Worlds
  BY <1>1 DEF Worlds
<1>4. SameFights(world, t) /\ t.hostile = world.hostile /\ t.turning = world.turning
  BY <1>1 DEF Worlds, SameFights
<1>5. SameBodies(world, t)
  BY <1>1 DEF Worlds, SameBodies
<1>6. /\ t.home = world.home /\ t.respawns = world.respawns /\ t.hidden = world.hidden \cup {n}
      /\ t.here = [world.here EXCEPT ![r] = @ \ {n}]
  BY <1>1 DEF Worlds
<1> HIDE DEF t
<1>7. n \notin world.hidden /\ n \notin world.respawns
  BY <1>1, <1>2 DEF Sound, Roster
<1>8. \A x \in Rooms : t.here[x] = world.here[x] \ {n}
  <2>1. \A x \in Rooms : [world.here EXCEPT ![r] = @ \ {n}][x] = world.here[x] \ {n}
    BY <1>1, <1>2, HereElsewhere
  <2> QED
    BY <1>6, <2>1
<1>9. t.respawns = world.respawns \ {n}
  BY <1>6, <1>7
<1>10. Sound(t) /\ Ruled(t)
  BY <1>2, <1>3, <1>4, <1>5, <1>6, <1>7, <1>8, <1>9, HiddenSound
<1> QED
  BY <1>2, <1>10 DEF WorldInv

\* With nobody in the world there is no fight for a seed to pull an NPC from.
LEMMA ReseedInv ==
  ASSUME Unmoved, WorldInv, NEW n \in Npcs, NEW r \in Rooms, <<n, r>> \in Moves, Reseed(n, r),
         world' \in Worlds
  PROVE  WorldInv'
<1> DEFINE was == world.home[n]
           a   == [world EXCEPT !.home[n] = r]
           t   == [a EXCEPT !.here[was] = @ \ {n}, !.here[r] = @ \cup {n}]
<1>1. Sound(world) /\ world \in Worlds /\ was \in Rooms
  BY DEF WorldInv, Sound, Worlds
<1>2. world.online \cup world.asleep = {} /\ r # was /\ r # Shrine
  BY WorldAssumption DEF Unmoved, Reseed
<1>3. world' = IF n \in world.here[was] THEN t ELSE a
  BY DEF Reseed
<1>4. \A p \in Players : world.fight[p] = NoFight
  BY <1>1, <1>2, WhereFought
<1>5. ASSUME NEW m \in Npcs
      PROVE  world.busy[m] = NoFight
  <2>1. SUFFICES ASSUME world.busy[m] \in Fights
                 PROVE  FALSE
    BY <1>1 DEF Worlds
  <2>2. m \in world.foes[world.busy[m]]
    BY <1>1, <2>1 DEF Sound, Sides, Matched
  <2>3. world.members[world.busy[m]] # {}
    BY <1>1, <2>1, <2>2 DEF Sound, Sides, Manned
  <2> QED
    BY <1>1, <1>4, <2>1, <2>3, WorldAssumption DEF Sound, Sides, Matched
<1>6. a \in Worlds
  BY <1>1 DEF Worlds
<1>7. SameFights(world, a)
  BY <1>1 DEF Worlds, SameFights
<1>8. SameBodies(world, a)
  BY <1>1 DEF Worlds, SameBodies
<1>9. a.hidden = world.hidden /\ a.respawns = world.respawns /\ a.here = world.here
  BY <1>1 DEF Worlds
<1>10. \A m \in Npcs : a.home[m] = IF m = n THEN r ELSE world.home[m]
  BY <1>1 DEF Worlds
<1> HIDE DEF a
<1>11. SameFights(a, t)
  BY <1>6 DEF Worlds, SameFights
<1>12. SameBodies(a, t)
  BY <1>6 DEF Worlds, SameBodies
<1>13. t.home = a.home /\ t.hidden = a.hidden /\ t.respawns = a.respawns
  BY <1>6 DEF Worlds
<1>14. t.here = [[a.here EXCEPT ![was] = @ \ {n}] EXCEPT ![r] = @ \cup {n}]
  BY <1>1, <1>2, <1>6 DEF Worlds
<1> HIDE DEF t
<1>15. SameFights(world, world')
  BY <1>3, <1>7, <1>11 DEF SameFights
<1>16. SameBodies(world, world')
  BY <1>3, <1>8, <1>12 DEF SameBodies
<1>17. \A m \in Npcs : world'.home[m] = IF m = n THEN r ELSE world.home[m]
  BY <1>3, <1>10, <1>13
<1>18. world'.hidden = world.hidden /\ world'.respawns = world.respawns
  BY <1>3, <1>9, <1>13
<1>19. \A x \in Rooms : world'.here[x] = IF x = r /\ n \in world.here[was] THEN world.here[x] \cup {n}
                                        ELSE world.here[x] \ {n}
  <2>1. world.here \in [Rooms -> SUBSET Npcs]
    BY <1>1 DEF Worlds
  <2>2. \A x \in Rooms \ {was} : n \notin world.here[x]
    BY <1>1 DEF Sound, Roster
  <2>3. CASE n \in world.here[was]
    <3>1. world'.here = [[world.here EXCEPT ![was] = @ \ {n}] EXCEPT ![r] = @ \cup {n}]
      BY <1>3, <1>9, <1>14, <2>3
    <3>2. \A x \in Rooms : world'.here[x] = IF x = r THEN world.here[x] \cup {n}
                                            ELSE IF x = was THEN world.here[x] \ {n}
                                            ELSE world.here[x]
      BY <1>1, <1>2, <2>1, <3>1
    <3> QED
      BY <2>2, <2>3, <3>2
  <2>4. CASE n \notin world.here[was]
    BY <1>3, <1>9, <2>2, <2>4
  <2> QED
    BY <2>3, <2>4
<1>20. Sides(world') /\ Bodies(world')
  BY <1>1, <1>15, <1>16 DEF Sound, Sides, Matched, Placed, Manned, Bodies, SameFights, SameBodies
<1>21. InPlace(world')
  BY <1>4, <1>5, <1>15 DEF InPlace, SameFights
<1>22. Roster(world')
  <2>1. \A m \in Npcs : world.home[m] \in Rooms
    BY <1>1 DEF Worlds
  <2>2. ASSUME NEW m \in Npcs, NEW x \in Rooms, m \in world'.here[x]
        PROVE  world'.home[m] = x
    <3>1. CASE m = n
      BY <1>17, <1>19, <2>2, <3>1
    <3>2. CASE m # n
      <4>1. m \in world.here[x]
        BY <1>19, <2>2, <3>2
      <4> QED
        BY <1>1, <1>17, <3>2, <4>1 DEF Sound, Roster
    <3> QED
      BY <3>1, <3>2
  <2>3. ASSUME NEW m \in Npcs
        PROVE  m \in world'.here[world'.home[m]] <=> m \in world.here[world.home[m]]
    <3>1. CASE m = n
      <4>1. world'.home[n] = r
        BY <1>17
      <4>2. world'.here[r] = IF n \in world.here[was] THEN world.here[r] \cup {n} ELSE world.here[r] \ {n}
        BY <1>19
      <4>3. n \in world'.here[r] <=> n \in world.here[was]
        BY <4>2
      <4> QED
        BY <3>1, <4>1, <4>3
    <3>2. CASE m # n
      <4>1. world'.home[m] = world.home[m] /\ world.home[m] \in Rooms
        BY <1>17, <2>1, <3>2
      <4>2. \A x \in Rooms : m \in world'.here[x] <=> m \in world.here[x]
        BY <1>19, <3>2
      <4> QED
        BY <4>1, <4>2
    <3> QED
      BY <3>1, <3>2
  <2>4. \A m \in Npcs : world'.home[m] # Shrine
    BY <1>1, <1>2, <1>17 DEF Sound, Roster
  <2> QED
    BY <1>1, <1>18, <2>2, <2>3, <2>4 DEF Sound, Roster
<1>23. Ruled(world')
  BY <1>2, <1>16 DEF Ruled, SameBodies
<1> QED
  BY <1>20, <1>21, <1>22, <1>23 DEF WorldInv, Sound

LEMMA NpcStepInv ==
  ASSUME Unmoved, WorldInv, world.turning = {}, NEW n \in Npcs, NpcStep(n)
  PROVE  WorldInv'
<1>1. world' \in Worlds
  BY NpcStepTyped DEF WorldInv, Sound
<1> QED
  BY <1>1, RespawnInv, EmergeInv, HideInv, ReseedInv DEF NpcStep

\* Whoever was in the fight is next for the rule; nobody else was at its enemies.
LEMMA EndLostInv ==
  ASSUME WorldInv, world.turning = {}, NEW e \in Fights, EndLost(e)
  PROVE  WorldInv'
<1> DEFINE u   == Finish(world, e)
           due == world.members[e] \X {world.place[e]}
<1>1. Sound(world) /\ world \in Worlds /\ e \in world.live
  BY DEF WorldInv, Sound, EndLost
<1>2. u \in Worlds /\ world' \in Worlds
  BY <1>1, FinishTyped, EndLostTyped
<1>3. Sides(u) /\ LetGo(world, u)
  BY <1>1, FinishSides DEF Sound, Sides
<1>4. /\ \A q \in Players : u.fight[q] = IF q \in world.members[e] THEN NoFight ELSE world.fight[q]
      /\ \A n \in Npcs : u.busy[n] = IF n \in world.foes[e] THEN NoFight ELSE world.busy[n]
  BY <1>1, FinishFrees
<1>5. Sound(u)
  BY <1>1, <1>2, <1>3, LetGoSound DEF Sound
<1>6. world' = [u EXCEPT !.turning = due]
  BY DEF EndLost
<1> HIDE DEF u
<1>7. SameFights(u, world') /\ world'.hostile = u.hostile /\ world'.turning = due
  BY <1>2, <1>6 DEF Worlds, SameFights
<1>8. SameBodies(u, world') /\ SameNpcs(u, world')
  BY <1>2, <1>6 DEF Worlds, SameBodies, SameNpcs
<1>9. Sound(world')
  BY <1>2, <1>5, <1>7, <1>8
  DEF Sound, Sides, Matched, Placed, Manned, InPlace, Bodies, Roster, SameFights, SameBodies, SameNpcs
<1>10. ASSUME NEW p \in world'.online
       PROVE  Rule(world', p) \/ <<p, world'.room[p]>> \in world'.turning
  <2>1. p \in world.online /\ p \in Players /\ Rule(world, p) /\ world'.room = world.room
    BY <1>1, <1>3, <1>8 DEF WorldInv, Ruled, LetGo, Still, SameBodies, Worlds
  <2>2. CASE p \in world.members[e]
    <3>1. world.fight[p] = e /\ e # NoFight
      BY <1>1, <2>1, <2>2, WorldAssumption DEF Sound, Sides, Matched
    <3>2. world.room[p] = world.place[e]
      BY <1>1, <2>1, <3>1, WhereFought
    <3> QED
      BY <1>7, <2>1, <2>2, <3>2
  <2>3. CASE p \notin world.members[e]
    <3>1. world.fight[p] # e /\ \A n \in Npcs : n \in world.foes[e] <=> world.busy[n] = e
      BY <1>1, <2>1, <2>3 DEF Sound, Sides, Matched
    <3>2. u.fight[p] = world.fight[p] /\ \A n \in Npcs : world.busy[n] = world.fight[p] => u.busy[n] = world.busy[n]
      BY <1>4, <2>1, <2>3, <3>1
    <3> QED
      BY <1>3, <1>7, <1>8, <2>1, <3>2 DEF Rule, LetGo, Still, SameFights, SameBodies, SameNpcs
  <2> QED
    BY <2>2, <2>3
<1> QED
  BY <1>9, <1>10 DEF WorldInv, Ruled

LEMMA TurnInv ==
  ASSUME WorldInv, NEW t \in world.turning, NEW missed \in SUBSET Wary,
         NEW f \in Fights \ world.live, Turn(t, missed, f)
  PROVE  WorldInv'
<1> DEFINE u == [world EXCEPT !.turning = @ \ {t}]
<1>1. Sound(world) /\ world \in Worlds
  BY DEF WorldInv, Sound
<1>2. t[1] \in Players /\ t[2] \in Rooms /\ t = <<t[1], t[2]>>
  BY <1>1 DEF Worlds
<1>3. u \in Worlds
  BY <1>1 DEF Worlds
<1>4. SameFights(world, u) /\ u.hostile = world.hostile /\ u.turning = world.turning \ {t}
  BY <1>1 DEF Worlds, SameFights
<1>5. SameBodies(world, u) /\ SameNpcs(world, u)
  BY <1>1 DEF Worlds, SameBodies, SameNpcs
<1>6. world' = Aggro(u, t[1], t[2], missed, f)
  BY DEF Turn
<1> HIDE DEF u
<1>7. Sound(u) /\ Spare(u, t[1], f)
  BY <1>1, <1>3, <1>4, <1>5
  DEF Sound, Sides, Matched, Placed, Manned, InPlace, Bodies, Roster, SameFights, SameBodies, SameNpcs, Spare
<1>8. Sound(world') /\ RuleRun(u, world', t[1], t[2], f)
  BY <1>2, <1>6, <1>7, AggroSound
<1>9. /\ Still(u, world') /\ Held(u, world')
      /\ t[1] \in u.online /\ u.room[t[1]] = t[2] => Rule(world', t[1])
  BY <1>8 DEF RuleRun
<1>10. world'.online = world.online /\ world'.room = world.room /\ world'.turning = world.turning \ {t}
  BY <1>4, <1>5, <1>9 DEF Still, SameBodies
<1>11. ASSUME NEW p \in world'.online
       PROVE  Rule(world', p) \/ <<p, world'.room[p]>> \in world'.turning
  <2>1. p \in world.online /\ p \in Players
    BY <1>1, <1>10 DEF Worlds
  <2>2. CASE Rule(world, p)
    <3>1. Rule(u, p)
      BY <1>4, <1>5, <2>2 DEF Rule, SameFights, SameBodies, SameNpcs
    <3> QED
      BY <1>9, <2>1, <3>1, HeldRule
  <2>3. CASE <<p, world.room[p]>> = t
    BY <1>5, <1>9, <2>1, <2>3 DEF SameBodies
  <2> QED
    BY <1>10, <2>1, <2>2, <2>3 DEF WorldInv, Ruled
<1> QED
  BY <1>8, <1>11 DEF WorldInv, Ruled

-----------------------------------------------------------------------------

LEMMA InitInv == Init => WorldInv
<1>1. SUFFICES ASSUME Init
               PROVE  WorldInv
  OBVIOUS
<1>2. world \in Worlds
  BY <1>1, InitTyped DEF TypeOK
<1>3. Sides(world) /\ InPlace(world)
  BY <1>1, WorldAssumption DEF Init, Sides, Matched, Placed, Manned, InPlace
<1>4. Bodies(world) /\ Ruled(world)
  BY <1>1 DEF Init, Bodies, Ruled
<1>5. Roster(world)
  BY <1>1, WorldAssumption DEF Init, Roster
<1> QED
  BY <1>2, <1>3, <1>4, <1>5 DEF WorldInv, Sound

\* Before p acts nobody is waiting for the rule; after it, nobody is either.
LEMMA DoneInv ==
  ASSUME WorldInv, world.turning = {}, NEW p \in Players, Sound(world'), Done(world, world', p)
  PROVE  WorldInv'
<1>1. ASSUME NEW q \in world'.online
      PROVE  Rule(world', q)
  <2>1. q \in Players
    BY DEF Sound, Worlds
  <2>2. CASE q = p
    BY <2>2 DEF Done
  <2>3. CASE q # p
    <3>1. q \in world.online /\ (Rule(world, q) => Rule(world', q))
      BY <2>1, <2>3 DEF Done, OthersRuled
    <3> QED
      BY <3>1 DEF WorldInv, Ruled
  <2> QED
    BY <2>2, <2>3
<1> QED
  BY <1>1 DEF WorldInv, Ruled

LEMMA StepInv ==
  ASSUME Unmoved, WorldInv, [Next]_vars
  PROVE  WorldInv'
<1>1. ASSUME world.turning = {}, NEW p \in Players, PlayerStep(p)
      PROVE  WorldInv'
  BY <1>1, PlayerStepDone, DoneInv DEF WorldInv
<1>2. ASSUME world.turning = {}, NEW n \in Npcs, NpcStep(n)
      PROVE  WorldInv'
  BY <1>2, NpcStepInv
<1>3. ASSUME world.turning = {}, NEW e \in Fights, EndLost(e)
      PROVE  WorldInv'
  BY <1>3, EndLostInv
<1>4. ASSUME world.turning = {}, NEW p \in Players, NEW missed \in SUBSET Wary,
             NEW f \in Fights \ world.live, RuleStep(p, missed, f)
      PROVE  WorldInv'
  <2>1. May(p, missed, f)
    BY <1>4 DEF WorldInv, Ruled, May
  <2>2. Sound(world') /\ Done(world, world', p)
    BY <1>4, <2>1, RuleStepDone
  <2> QED
    BY <1>4, <2>2, DoneInv
<1>5. ASSUME NEW t \in world.turning, NEW missed \in SUBSET Wary, NEW f \in Fights \ world.live,
             Turn(t, missed, f)
      PROVE  WorldInv'
  BY <1>5, TurnInv
<1>6. CASE UNCHANGED vars
  BY <1>6 DEF vars, WorldInv, Sound, Sides, Matched, Placed, Manned, InPlace, Bodies, Roster, Ruled, Rule
<1> QED
  BY <1>1, <1>2, <1>3, <1>4, <1>5, <1>6 DEF Next

\* As long as seeds move no NPC while a body is in the world, every reachable
\* world is sound, and keeps to the one rule between loops: the induction all
\* handlers have a part in.
THEOREM WorldSound == ASSUME Unmoved PROVE Spec => []WorldInv
<1>1. WorldInv /\ [Next]_vars => WorldInv'
  BY StepInv
<1> QED
  BY <1>1, InitInv, PTL DEF Spec

\* Both sides of every fight agree on it, whatever the order of joins, deaths,
\* flights, resets and owners lost (enc.create to enc.finish).
THEOREM SidesAgree == ASSUME Unmoved PROVE Spec => []FightSides
<1>1. WorldInv => FightSides
  BY DEF WorldInv, Sound, Sides, Matched, Placed, Manned, FightSides, Worlds
<1> QED
  BY <1>1, WorldSound, PTL

\* Nobody fights from another room (finish_move, teleport, defeat, disconnect,
\* weather_npcs).
THEOREM FightersInPlace == ASSUME Unmoved PROVE Spec => []FightsInPlace
<1>1. WorldInv => FightsInPlace
  BY DEF WorldInv, Sound, InPlace, FightsInPlace
<1> QED
  BY <1>1, WorldSound, PTL

\* A body lies where its player is, and whoever sleeps is bound to fade
\* (connect, disconnect, relocate, fade_out).
THEOREM BodiesInPlace == ASSUME Unmoved PROVE Spec => []BodiesLie
<1>1. WorldInv => BodiesLie
  BY DEF WorldInv, Sound, Bodies, BodiesLie
<1> QED
  BY <1>1, WorldSound, PTL

\* No NPC is lost, or in two places of its life at once (npc_down, respawn_due,
\* weather_npcs).
THEOREM NpcsSomewhere == ASSUME Unmoved PROVE Spec => []NpcSomewhere
<1>1. ASSUME WorldInv
      PROVE  NpcSomewhere
  <2> DEFINE about == {n \in Npcs : n \in world.here[world.home[n]]}
  <2>1. world.hidden \subseteq Npcs /\ world.respawns \subseteq Npcs
    BY <1>1 DEF WorldInv, Sound, Worlds
  <2>2. Npcs = about \cup world.hidden \cup world.respawns
    BY <1>1, <2>1 DEF WorldInv, Sound, Roster
  <2>3. about \cap world.hidden = {} /\ about \cap world.respawns = {} /\ world.hidden \cap world.respawns = {}
    BY <1>1, <2>1 DEF WorldInv, Sound, Roster
  <2> QED
    BY <2>2, <2>3 DEF NpcSomewhere
<1> QED
  BY <1>1, WorldSound, PTL

\* Whoever is up fights every enemy that has noticed them: no handler forgets
\* the one rule (aggro, and everything that calls it).
THEOREM RuleHolds == ASSUME Unmoved PROVE Spec => []OneRule
<1>1. WorldInv => OneRule
  BY DEF WorldInv, Ruled, Rule, OneRule
<1> QED
  BY <1>1, WorldSound, PTL

-----------------------------------------------------------------------------
(* Sleepers. *)

\* From s to t nobody falls asleep or wakes up, and whoever sleeps on is in no
\* fight that they were not in.
Alone(s, t) ==
  /\ t.asleep \subseteq s.asleep /\ t.online \subseteq s.online
  /\ \A q \in t.asleep : t.fight[q] \in {s.fight[q], NoFight}

\* Nobody is asleep and awake.
AwakeInv == TypeOK /\ world.asleep \cap world.online = {}

LEMMA AloneTwice ==
  ASSUME NEW s, NEW u, NEW t, Alone(s, u), Alone(u, t)
  PROVE  Alone(s, t)
BY DEF Alone

\* Whoever a fight takes in is awake.
LEMMA AddPlayerAlone ==
  ASSUME NEW s \in Worlds, NEW e \in Fights, NEW p \in Players, p \notin s.asleep
  PROVE  Alone(s, AddPlayer(s, e, p))
<1> DEFINE t == [s EXCEPT !.members[e] = @ \cup {p}, !.fight[p] = e]
<1>1. t.asleep = s.asleep /\ t.online = s.online
  BY DEF Worlds
<1>2. \A q \in Players : q # p => t.fight[q] = s.fight[q]
  BY DEF Worlds
<1>3. s.asleep \subseteq Players
  BY DEF Worlds
<1>4. Alone(s, t)
  <2> HIDE DEF t
  <2> QED BY <1>1, <1>2, <1>3 DEF Alone
<1> QED BY <1>4 DEF AddPlayer, Alone

\* The fight that is brought to a room, with its NPCs.
LEMMA CreateAlone ==
  ASSUME NEW s \in Worlds, NEW e \in Fights, NEW r \in Rooms
  PROVE  Alone(s, Create(s, e, r)) /\ Create(s, e, r).asleep = s.asleep
BY DEF Create, Worlds, Alone

LEMMA AddNpcsAlone ==
  ASSUME NEW s \in Worlds, NEW e \in Fights, NEW ns \in SUBSET Npcs
  PROVE  Alone(s, AddNpcs(s, e, ns)) /\ AddNpcs(s, e, ns).asleep = s.asleep
BY AddNpcsShape DEF NpcsAdded, Still, SameBodies, Alone

\* A fight that is brought a player who is awake, and NPCs.
LEMMA BringAlone ==
  ASSUME NEW s \in Worlds, NEW u, NEW e \in Fights, NEW f \in Fights, NEW r \in Rooms,
         u = s \/ u = Create(s, f, r), NEW ns \in SUBSET Npcs, NEW p \in Players, p \notin s.asleep
  PROVE  Alone(s, AddPlayer(AddNpcs(u, e, ns), e, p))
<1>1. u \in Worlds /\ Alone(s, u) /\ u.asleep = s.asleep
  BY CreateTyped, CreateAlone DEF Alone
<1> DEFINE v == AddNpcs(u, e, ns)
<1>2. v \in Worlds /\ Alone(u, v) /\ v.asleep = u.asleep
  BY <1>1, AddNpcsTyped, AddNpcsAlone
<1> HIDE DEF v
<1>3. Alone(v, AddPlayer(v, e, p))
  BY <1>1, <1>2, AddPlayerAlone
<1>4. Alone(s, AddPlayer(v, e, p))
  BY <1>1, <1>2, <1>3, AloneTwice
<1> QED BY <1>4 DEF v

\* The one rule looks whether the player is awake.
LEMMA AggroAlone ==
  ASSUME NEW s \in Worlds, NEW p \in Players, NEW r \in Rooms, NEW missed, NEW f \in Fights
  PROVE  Alone(s, Aggro(s, p, r, missed, f))
<1> DEFINE e     == Here(s, p, r)
           fresh == {n \in s.here[r] : s.busy[n] = NoFight /\ n \in s.hostile[p] \ missed}
           join  == /\ e # NoFight
                    /\ s.fight[p] = e \/ fresh # {} \/ s.foes[e] \cap s.hostile[p] # {}
           id    == IF join THEN e ELSE f
           t     == IF join THEN s ELSE Create(s, f, r)
<1>1. fresh \in SUBSET Npcs
  BY DEF Worlds
<1>2. id \in Fights
  BY HereTyped
<1>3. t = s \/ t = Create(s, f, r)
  OBVIOUS
<1>4. p \notin s.asleep => Alone(s, AddPlayer(AddNpcs(t, id, fresh), id, p))
  <2> HIDE DEF fresh, id, t
  <2> QED BY <1>1, <1>2, <1>3, BringAlone
<1>5. Alone(s, s)
  BY DEF Alone
<1> QED BY <1>4, <1>5 DEF Aggro

LEMMA DeedAlone ==
  ASSUME NEW s \in Worlds, NEW p \in Players, NEW missed, NEW f \in Fights,
         NEW t \in Deed(s, p, missed, f)
  PROVE  Alone(s, t)
<1>1. CASE t = s
  BY <1>1 DEF Alone
<1>2. ASSUME NEW h \in Opinions(s, p), t = Aggro([s EXCEPT !.hostile[p] = h], p, s.room[p], missed, f)
      PROVE  Alone(s, t)
  <2> DEFINE u == [s EXCEPT !.hostile[p] = h]
  <2>1. h \in SUBSET Npcs
    BY DEF Opinions
  <2>2. u \in Worlds
    BY <2>1, HostileTyped
  <2>3. Alone(s, u)
    BY DEF Worlds, Alone
  <2>4. s.room[p] \in Rooms
    BY DEF Worlds
  <2> HIDE DEF u
  <2>5. Alone(u, Aggro(u, p, s.room[p], missed, f))
    BY <2>2, <2>4, AggroAlone
  <2>6. Alone(s, Aggro(u, p, s.room[p], missed, f))
    BY <2>3, <2>5, AloneTwice
  <2> QED BY <1>2, <2>6 DEF u
<1> QED BY <1>1, <1>2 DEF Deed

LEMMA FinishAlone ==
  ASSUME NEW s \in Worlds, NEW e \in Fights
  PROVE  Alone(s, Finish(s, e))
<1>1. PICK t : t = Finish(s, e)
  OBVIOUS
<1>2. \A q \in Players : t.fight[q] = IF q \in s.members[e] THEN NoFight ELSE s.fight[q]
  BY <1>1, FinishFrees
<1>3. s.asleep \subseteq Players
  BY DEF Worlds
<1>4. \A q \in Players : t.fight[q] \in {s.fight[q], NoFight}
  BY <1>2
<1>5. Still(s, t)
  BY <1>1, FinishShape
<1>6. Alone(s, t)
  BY <1>3, <1>4, <1>5 DEF Still, SameBodies, Alone
<1> QED BY <1>1, <1>6

LEMMA DropPlayerAlone ==
  ASSUME NEW s \in Worlds, NEW p \in Players
  PROVE  Alone(s, DropPlayer(s, p))
<1> DEFINE e == s.fight[p]
           t == [s EXCEPT !.members[e] = @ \ {p}, !.fight[p] = NoFight]
<1>1. CASE e = NoFight
  BY <1>1 DEF DropPlayer, Alone
<1>2. CASE e # NoFight
  <2>1. e \in Fights
    BY <1>2 DEF Worlds
  <2>2. t \in Worlds
    BY DEF Worlds
  <2>3. Alone(s, t)
    BY DEF Worlds, Alone
  <2> HIDE DEF t
  <2>4. Alone(t, Finish(t, e))
    BY <2>1, <2>2, FinishAlone
  <2>5. Alone(s, Finish(t, e))
    BY <2>3, <2>4, AloneTwice
  <2> QED BY <1>2, <2>3, <2>5 DEF DropPlayer, t
<1> QED BY <1>1, <1>2

LEMMA DropNpcAlone ==
  ASSUME NEW s \in Worlds, NEW n \in Npcs
  PROVE  Alone(s, DropNpc(s, n))
<1> DEFINE e == s.busy[n]
           t == [s EXCEPT !.foes[e] = @ \ {n}, !.busy[n] = NoFight]
<1>1. CASE e = NoFight
  BY <1>1 DEF DropNpc, Alone
<1>2. CASE e # NoFight
  <2>1. e \in Fights
    BY <1>2 DEF Worlds
  <2>2. t \in Worlds
    BY DEF Worlds
  <2>3. Alone(s, t)
    BY DEF Worlds, Alone
  <2> HIDE DEF t
  <2>4. Alone(t, Finish(t, e))
    BY <2>1, <2>2, FinishAlone
  <2>5. Alone(s, Finish(t, e))
    BY <2>3, <2>4, AloneTwice
  <2> QED BY <1>2, <2>3, <2>5 DEF DropNpc, t
<1> QED BY <1>1, <1>2

LEMMA RelocateAlone ==
  ASSUME NEW s \in Worlds, NEW p \in Players, NEW d \in Rooms
  PROVE  Alone(s, Relocate(s, p, d))
BY DEF Relocate, Worlds, Alone

LEMMA FallAlone ==
  ASSUME NEW s \in Worlds, NEW p \in Players
  PROVE  Alone(s, Fall(s, p))
<1> DEFINE t == DropPlayer(s, p)
           u == [t EXCEPT !.floor[t.room[p]] = @ \ {p},
                          !.sleepers = @ \ {p},
                          !.asleep = @ \ {p},
                          !.room[p] = Shrine]
<1>1. t \in Worlds /\ Alone(s, t)
  BY DropPlayerTyped, DropPlayerAlone
<1> HIDE DEF t
<1>2. Alone(t, Relocate(t, p, Shrine))
  BY <1>1, RelocateAlone, WorldAssumption
<1>3. Alone(t, u)
  BY <1>1 DEF Worlds, Alone
<1> HIDE DEF u
<1>4. Alone(s, Relocate(t, p, Shrine)) /\ Alone(s, u)
  BY <1>1, <1>2, <1>3, AloneTwice
<1> QED BY <1>4 DEF Fall, t, u

LEMMA FinishMoveAlone ==
  ASSUME NEW s \in Worlds, NEW p \in Players, NEW d \in Rooms, NEW missed, NEW f \in Fights,
         NEW t \in FinishMove(s, p, d, missed, f)
  PROVE  Alone(s, t)
<1> DEFINE u == Relocate(s, p, d)
<1>1. u \in Worlds /\ Alone(s, u)
  BY RelocateTyped, RelocateAlone
<1>2. t = Aggro(u, p, d, missed, f) \/ t = Fall(u, p)
  BY DEF FinishMove
<1> HIDE DEF u
<1>3. Alone(u, t)
  BY <1>1, <1>2, AggroAlone, FallAlone
<1> QED BY <1>1, <1>3, AloneTwice

LEMMA TeleportAlone ==
  ASSUME NEW s \in Worlds, NEW p \in Players, NEW d \in Rooms, NEW missed, NEW f \in Fights,
         NEW t \in Teleport(s, p, d, missed, f)
  PROVE  Alone(s, t)
<1> DEFINE u == DropPlayer(s, p)
           v == [u EXCEPT !.pending[p] = NoMove]
           w == Relocate(v, p, d)
<1>1. u \in Worlds /\ Alone(s, u)
  BY DropPlayerTyped, DropPlayerAlone
<1>2. v \in Worlds /\ Alone(u, v)
  <2> HIDE DEF u
  <2> QED BY <1>1 DEF Worlds, Alone
<1>3. t = Aggro(w, p, d, missed, f) \/ t = Fall(w, p)
  BY DEF Teleport
<1> HIDE DEF u, v
<1>4. w \in Worlds /\ Alone(v, w)
  BY <1>2, RelocateTyped, RelocateAlone
<1> HIDE DEF w
<1>5. Alone(w, t)
  BY <1>3, <1>4, AggroAlone, FallAlone
<1>6. Alone(s, v)
  BY <1>1, <1>2, AloneTwice
<1>7. Alone(s, w)
  BY <1>4, <1>6, AloneTwice
<1> QED BY <1>5, <1>7, AloneTwice

LEMMA NpcDownAlone ==
  ASSUME NEW s \in Worlds, NEW p \in Players, NEW r \in Rooms, NEW n \in Npcs, NEW missed,
         NEW f \in Fights, NEW t \in NpcDown(s, p, r, n, missed, f)
  PROVE  Alone(s, t)
<1> DEFINE u == DropNpc(s, n)
           v == [u EXCEPT !.here[r] = @ \ {n}, !.respawns = @ \cup {n}]
<1>1. u \in Worlds /\ Alone(s, u)
  BY DropNpcTyped, DropNpcAlone
<1>2. v \in Worlds /\ Alone(u, v)
  <2> HIDE DEF u
  <2> QED BY <1>1 DEF Worlds, Alone
<1>3. t \in Deed(v, p, missed, f)
  BY DEF NpcDown
<1> HIDE DEF u, v
<1>4. Alone(v, t)
  BY <1>2, <1>3, DeedAlone
<1>5. Alone(s, v)
  BY <1>1, <1>2, AloneTwice
<1> QED BY <1>4, <1>5, AloneTwice

LEMMA DefeatAlone ==
  ASSUME NEW s \in Worlds, NEW p \in Players, NEW missed, NEW f \in Fights,
         NEW t \in Defeat(s, p, missed, f)
  PROVE  Alone(s, t)
<1> DEFINE u == Fall(s, p)
<1>1. u \in Worlds /\ Alone(s, u) /\ t \in Deed(u, p, missed, f)
  BY FallTyped, FallAlone DEF Defeat
<1> HIDE DEF u
<1>2. Alone(u, t)
  BY <1>1, DeedAlone
<1> QED BY <1>1, <1>2, AloneTwice

\* A step that leaves sleepers alone, and what it leaves of being awake.
Sleeps(s, t) ==
  /\ s.asleep \cap s.online = {} => t.asleep \cap t.online = {}
  /\ \A q \in s.asleep \cap t.asleep : t.fight[q] \in {s.fight[q], NoFight}

LEMMA AloneSleeps ==
  ASSUME NEW s, NEW t, Alone(s, t)
  PROVE  Sleeps(s, t)
BY DEF Alone, Sleeps

LEMMA PlayerStepSleeps ==
  ASSUME world \in Worlds, NEW p \in Players, PlayerStep(p)
  PROVE  Sleeps(world, world')
<1> DEFINE u == DropPlayer(world, p)
<1>1. u \in Worlds /\ Alone(world, u)
  BY DropPlayerTyped, DropPlayerAlone
<1>2. CASE Disconnect(p)
  <2>1. /\ world'.online = world.online \ {p} /\ world'.fight = world.fight
        /\ world'.asleep = world.asleep \/ world'.asleep = world.asleep \cup {p}
    BY <1>2 DEF Disconnect, Worlds
  <2> QED BY <2>1 DEF Sleeps
<1>3. CASE Disarm(p)
  BY <1>3, FallAlone, AloneSleeps DEF Disarm
<1>4. CASE Fade(p)
  <2> DEFINE v == [u EXCEPT !.sleepers = @ \ {p}, !.asleep = @ \ {p}, !.floor[u.room[p]] = @ \ {p}]
  <2>1. Alone(u, v)
    <3> HIDE DEF u
    <3> QED BY <1>1 DEF Worlds, Alone
  <2>2. world' = v
    BY <1>4 DEF Fade
  <2> HIDE DEF u, v
  <2>3. Alone(world, v)
    BY <1>1, <2>1, AloneTwice
  <2> QED BY <2>2, <2>3, AloneSleeps
<1>5. CASE Reset(p)
  <2> DEFINE a == [world EXCEPT !.floor[world.room[p]] = @ \ {p}]
             b == DropPlayer(a, p)
             c == [b EXCEPT !.online = @ \ {p},
                            !.asleep = @ \ {p},
                            !.sleepers = @ \ {p},
                            !.pending[p] = NoMove,
                            !.hostile[p] = Hostile,
                            !.room[p] = Start]
  <2>1. a \in Worlds /\ Alone(world, a)
    BY DEF Worlds, Alone
  <2> HIDE DEF a
  <2>2. b \in Worlds /\ Alone(a, b)
    BY <2>1, DropPlayerTyped, DropPlayerAlone
  <2> HIDE DEF b
  <2>3. Alone(b, c)
    BY <2>2 DEF Worlds, Alone
  <2>4. world' = c
    BY <1>5 DEF Reset, a, b
  <2> HIDE DEF c
  <2>5. Alone(world, b)
    BY <2>1, <2>2, AloneTwice
  <2>6. Alone(world, c)
    BY <2>3, <2>5, AloneTwice
  <2> QED BY <2>4, <2>6, AloneSleeps
<1> QED BY <1>2, <1>3, <1>4, <1>5 DEF PlayerStep

LEMMA NpcStepSleeps ==
  ASSUME world \in Worlds, NEW n \in Npcs, NpcStep(n)
  PROVE  Sleeps(world, world')
<1>1. /\ world'.asleep = world.asleep /\ world'.online = world.online
      /\ world'.fight = world.fight
  <2>1. CASE Respawn(n)
    BY <2>1 DEF Respawn, Appear, Worlds
  <2>2. CASE Emerge(n)
    BY <2>2 DEF Emerge, Appear, Worlds
  <2>3. CASE Hide(n)
    BY <2>3 DEF Hide, Worlds
  <2>4. ASSUME NEW r \in Rooms, Reseed(n, r) PROVE world'.asleep = world.asleep /\ world'.online = world.online /\ world'.fight = world.fight
    BY <2>4, ZenonT(60) DEF Reseed, Worlds
  <2> QED BY <2>1, <2>2, <2>3, <2>4 DEF NpcStep
<1> QED BY <1>1 DEF Sleeps

LEMMA LiesTyped ==
  ASSUME NEW s \in Worlds, NEW p \in Players, NEW r \in Rooms
  PROVE  [s EXCEPT !.floor[r] = @ \cup {p}] \in Worlds
BY ZenonT(60) DEF Worlds

LEMMA RuleStepSleeps ==
  ASSUME world \in Worlds, world.asleep \cap world.online = {}, NEW p \in Players, NEW missed, NEW f \in Fights,
         RuleStep(p, missed, f)
  PROVE  Sleeps(world, world')
<1>1. CASE Connect(p, missed, f)
  <2> DEFINE u == [world EXCEPT !.online = @ \cup {p},
                                !.asleep = @ \ {p},
                                !.sleepers = @ \ {p},
                                !.floor[world.room[p]] = @ \cup {p}]
             v == Aggro(u, p, world.room[p], missed, f)
  <2>1. /\ u.online = world.online \cup {p} /\ u.asleep = world.asleep \ {p}
        /\ u.fight = world.fight
    BY DEF Worlds
  <2>2. u \in Worlds /\ world.room[p] \in Rooms
    <3> DEFINE a == [world EXCEPT !.online = @ \cup {p}, !.asleep = @ \ {p}, !.sleepers = @ \ {p}]
    <3>1. a \in Worlds /\ world.room[p] \in Rooms
      BY DEF Worlds
    <3>2. u = [a EXCEPT !.floor[world.room[p]] = @ \cup {p}]
      OBVIOUS
    <3> HIDE DEF a, u, v
    <3> QED BY <3>1, <3>2, LiesTyped
  <2>3. world' = v
    BY <1>1 DEF Connect
  <2> HIDE DEF u
  <2>4. Alone(u, v)
    BY <2>2, AggroAlone
  <2> HIDE DEF v
  <2> QED BY <2>1, <2>3, <2>4 DEF Alone, Sleeps
<1>2. CASE Behave(p, missed, f)
  BY <1>2, DeedAlone, AloneSleeps DEF Behave
<1>3. CASE MoveDue(p, missed, f)
  <2> DEFINE u == [world EXCEPT !.pending[p] = NoMove]
  <2>1. u \in Worlds /\ Alone(world, u)
    BY DEF Worlds, Alone
  <2>2. world.pending[p][2] \in Rooms
    BY <1>3, WorldAssumption DEF MoveDue, Worlds
  <2>3. world' = u \/ world' \in FinishMove(u, p, world.pending[p][2], missed, f)
    BY <1>3 DEF MoveDue
  <2> HIDE DEF u
  <2>4. Alone(u, world')
    BY <2>1, <2>2, <2>3, FinishMoveAlone DEF Alone
  <2> QED BY <2>1, <2>4, AloneTwice, AloneSleeps
<1>4. ASSUME NEW d \in Rooms, Move(p, d, missed, f) PROVE Sleeps(world, world')
  <2>1. CASE world' \in FinishMove(world, p, d, missed, f)
    BY <2>1, FinishMoveAlone, AloneSleeps
  <2>2. CASE world' = [world EXCEPT !.pending[p] = <<world.room[p], d>>]
    <3>1. Alone(world, world')
      BY <2>2 DEF Worlds, Alone
    <3> QED BY <3>1, AloneSleeps
  <2> QED BY <1>4, <2>1, <2>2 DEF Move
<1>5. ASSUME NEW d \in Rooms, Jump(p, d, missed, f) PROVE Sleeps(world, world')
  BY <1>5, TeleportAlone, AloneSleeps DEF Jump
<1>6. ASSUME NEW d \in Rooms, Flee(p, d, missed, f) PROVE Sleeps(world, world')
  <2>1. CASE world' \in Defeat(world, p, missed, f)
    BY <2>1, DefeatAlone, AloneSleeps
  <2>2. ASSUME NEW t \in FinishMove(DropPlayer(world, p), p, d, missed, f), world' \in Deed(t, p, missed, f)
        PROVE  Sleeps(world, world')
    <3> DEFINE u == DropPlayer(world, p)
    <3>1. u \in Worlds /\ Alone(world, u)
      BY DropPlayerTyped, DropPlayerAlone
    <3> HIDE DEF u
    <3>2. t \in Worlds /\ Alone(u, t)
      BY <2>2, <3>1, FinishMoveTyped, FinishMoveAlone DEF u
    <3>3. Alone(t, world')
      BY <2>2, <3>2, DeedAlone
    <3>4. Alone(world, t)
      BY <3>1, <3>2, AloneTwice
    <3> QED BY <3>3, <3>4, AloneTwice, AloneSleeps
  <2> QED BY <1>6, <2>1, <2>2 DEF Flee
<1>7. ASSUME NEW n \in Npcs, Attack(p, n, f) PROVE Sleeps(world, world')
  <2> DEFINE r == world.room[p]
             e == IF world.busy[n] # NoFight THEN world.busy[n] ELSE Here(world, p, r)
             t == IF e = NoFight THEN Create(world, f, r) ELSE world
             id == IF e = NoFight THEN f ELSE e
  <2>1. r \in Rooms /\ p \notin world.asleep
    BY <1>7 DEF Attack, Worlds
  <2>2. e \in Fights \cup {NoFight}
    BY <2>1, HereTyped DEF Worlds
  <2>3. id \in Fights /\ (t = world \/ t = Create(world, f, r))
    BY <2>2
  <2>4. world' = AddPlayer(AddNpcs(t, id, {n}), id, p)
    BY <1>7 DEF Attack
  <2> HIDE DEF r, e, t, id
  <2>5. Alone(world, world')
    BY <2>1, <2>3, <2>4, BringAlone
  <2> QED BY <2>5, AloneSleeps
<1>8. ASSUME NEW n \in Npcs, Strike(p, n, missed, f) PROVE Sleeps(world, world')
  <2> DEFINE e == world.fight[p]
             r == world.place[e]
             u == IF world.busy[n] = e THEN world ELSE AddNpcs(world, e, {n})
  <2>1. e \in Fights /\ r \in Rooms
    BY <1>8 DEF Strike, Worlds
  <2>2. u \in Worlds /\ Alone(world, u)
    BY <2>1, AddNpcsTyped, AddNpcsAlone DEF Alone
  <2>3. PICK t \in Deed(u, p, missed, f) : world' = t \/ world' \in NpcDown(t, p, r, n, missed, f)
    BY <1>8 DEF Strike
  <2> HIDE DEF e, r, u
  <2>4. t \in Worlds /\ Alone(u, t)
    BY <2>2, <2>3, DeedTyped, DeedAlone
  <2>5. Alone(t, world')
    BY <2>1, <2>3, <2>4, NpcDownAlone DEF Alone
  <2>6. Alone(world, t)
    BY <2>2, <2>4, AloneTwice
  <2> QED BY <2>5, <2>6, AloneTwice, AloneSleeps
<1>9. ASSUME NEW n \in Npcs, Blow(p, n, missed, f) PROVE Sleeps(world, world')
  BY <1>9, DefeatAlone, AloneSleeps DEF Blow
<1> QED BY <1>1, <1>2, <1>3, <1>4, <1>5, <1>6, <1>7, <1>8, <1>9 DEF RuleStep

LEMMA SleepNext ==
  ASSUME AwakeInv, Next
  PROVE  Sleeps(world, world')
<1>1. world \in Worlds
  BY DEF AwakeInv, TypeOK
<1>2. ASSUME NEW e \in Fights, EndLost(e) PROVE Sleeps(world, world')
  <2> DEFINE t == Finish(world, e)
  <2>1. t \in Worlds /\ Alone(world, t)
    BY <1>1, FinishTyped, FinishAlone
  <2>2. world' = [t EXCEPT !.turning = world.members[e] \X {world.place[e]}]
    BY <1>2 DEF EndLost
  <2> HIDE DEF t
  <2>3. Alone(t, world')
    BY <2>1, <2>2 DEF Worlds, Alone
  <2> QED BY <2>1, <2>3, AloneTwice, AloneSleeps
<1>3. ASSUME NEW x \in world.turning, NEW missed, NEW f \in Fights, Turn(x, missed, f)
      PROVE  Sleeps(world, world')
  <2> DEFINE t == [world EXCEPT !.turning = @ \ {x}]
  <2>1. t \in Worlds /\ Alone(world, t) /\ x[1] \in Players /\ x[2] \in Rooms
    BY <1>1 DEF Worlds, Alone
  <2>2. world' = Aggro(t, x[1], x[2], missed, f)
    BY <1>3 DEF Turn
  <2> HIDE DEF t
  <2>3. Alone(t, world')
    BY <2>1, <2>2, AggroAlone
  <2> QED BY <2>1, <2>3, AloneTwice, AloneSleeps
<1>4. world.asleep \cap world.online = {}
  BY DEF AwakeInv
<1> QED BY <1>1, <1>2, <1>3, <1>4, PlayerStepSleeps, NpcStepSleeps, RuleStepSleeps DEF Next

\* No sleeper is drawn into a fight, by whoever comes, wakes, changes or ends
\* (aggro, appear, encounter_end).
THEOREM SleepersAlone == Spec => SleepersAreLeftAlone
<1>1. Init => AwakeInv
  <2>1. Init => world.asleep = {}
    BY DEF Init
  <2> QED BY <2>1, InitTyped DEF AwakeInv
<1>2. AwakeInv /\ [Next]_vars =>
        AwakeInv' /\ [\A p \in world.asleep :
          p \in world'.asleep => world'.fight[p] \in {world.fight[p], NoFight}]_vars
  <2>1. ASSUME AwakeInv, Next
        PROVE  AwakeInv' /\ \A p \in world.asleep :
                 p \in world'.asleep => world'.fight[p] \in {world.fight[p], NoFight}
    <3>1. TypeOK'
      BY <2>1, PlayerStepTyped, NpcStepTyped, EndLostTyped, RuleStepTyped, TurnTyped DEF Next, TypeOK, AwakeInv
    <3> QED BY <2>1, <3>1, SleepNext DEF AwakeInv, Sleeps
  <2>2. CASE UNCHANGED vars
    BY <2>2 DEF vars, AwakeInv, TypeOK
  <2> QED BY <2>1, <2>2
<1> QED BY <1>1, <1>2, PTL DEF Spec, SleepersAreLeftAlone
=============================================================================
