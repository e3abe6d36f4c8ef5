--------------------------- MODULE JourneysProofs ---------------------------
(***************************************************************************)
(* Proofs about Journeys, for any waypoints, paths, dangerous and exposed  *)
(* rooms and delays: its types, and that a ride goes on, leaves no rider   *)
(* standing on the road and nobody behind, whatever comes between stages.  *)
(***************************************************************************)
EXTENDS Journeys, SequenceTheorems, TLAPS

-----------------------------------------------------------------------------
(* The inductive invariant, of the player's state. *)

\* A ride is at a waypoint, or waits for the marooned.
Placed(s) ==
  /\ On(s) => IF s.journey.marooned THEN s.room = Island ELSE AtWaypoint(s)
  /\ AtWaypoint(s) => On(s)
  /\ s.journey.event # "none" \/ s.journey.ambush => AtWaypoint(s)
  /\ ~(s.journey.event # "none" /\ s.journey.ambush)
  /\ ~On(s) => s.journey = NoJourney
  /\ s.journey.stage # 0

\* Nobody is on two floors, nor on a waypoint's but in an ambush or back there.
Standing(s) ==
  /\ s.floor \subseteq {s.room}
  /\ s.room \in s.floor /\ AtWaypoint(s) => s.journey.ambush \/ s.back

\* An event let pass, its last choice refused.
Unanswered(s) ==
  s.journey.event # "none" /\ s.waited /\ (s.journey.event = "free" => LateChanges)

\* A ride goes on, and an event is not due before its time.
Scheduled(s) ==
  /\ s.session /\ On(s) /\ ~s.journey.marooned /\ s.due = "no" => Unanswered(s)
  /\ s.journey.event # "none" /\ s.due = "now" => s.waited

\* While the route stays as it is, so does what there is of it to come back to.
Held(s) ==
  /\ s.journey.event # "none" \/ s.journey.marooned => ~Gone(s) /\ s.journey.stage <= Len(s.path)
  /\ s.journey.marooned => s.quest = "active"

Sound(s) == s \in Players /\ Placed(s) /\ Standing(s) /\ (LateChanges \/ Held(s))
Good(s) == Sound(s) /\ Scheduled(s)

\* No longer on a ride, on one floor at most.
Off(s) == s \in Players /\ s.floor \subseteq {s.room} /\ s.journey = NoJourney
Landed(s) == Off(s) /\ ~AtWaypoint(s)

IInv == Good(player)

-----------------------------------------------------------------------------
(* Getting off. *)

Rides == [on : BOOLEAN, stage : Nat, event : {"none"} \cup Moments, evented : BOOLEAN, ambush : BOOLEAN,
          marooned : BOOLEAN, delay : Nat, skip : {0, 1}]

LEMMA PlacesAre ==
  /\ Land \subseteq Rooms /\ Island \in Rooms /\ Waypoints \subseteq Rooms
  /\ Shrine \in Land /\ Start \in Land /\ Town \in Land /\ Wilds \in Land /\ Dock \in Land
  /\ \A dest \in Land \cup {Island} : dest \notin Waypoints
  /\ Island \notin Land /\ Island \notin Dangerous /\ Island \notin Exposed
  /\ \A w \in Waypoints : w \notin Dangerous /\ w \notin Exposed
BY JourneysAssumption DEF JourneysAssumption, Land, Rooms

LEMMA NoJourneyIs ==
  /\ NoJourney.on = FALSE /\ NoJourney.stage = 1 /\ NoJourney.event = "none" /\ NoJourney.ambush = FALSE
  /\ NoJourney.marooned = FALSE /\ NoJourney.delay = 0 /\ NoJourney.skip = 0 /\ NoJourney.evented = FALSE
BY DEF NoJourney

LEMMA LandedGood ==
  ASSUME NEW s, Landed(s)
  PROVE  Good(s) /\ ~On(s)
BY NoJourneyIs DEF Landed, Off, Good, Sound, Placed, Standing, Held, Scheduled, On, AtWaypoint, Gone

\* What changes a player without moving them.
LEMMA EndedIs ==
  ASSUME NEW s \in Players
  PROVE  /\ Ended(s) \in Players /\ Ended(s).journey = NoJourney
         /\ Ended(s).floor = s.floor /\ Ended(s).room = s.room /\ Ended(s).session = s.session
         /\ Ended(s).quest = s.quest
BY DEF Ended, Players, NoJourney

LEMMA DropIs ==
  ASSUME NEW s \in Players
  PROVE  /\ DropPlayer(s) \in Players /\ DropPlayer(s).journey = s.journey
         /\ DropPlayer(s).floor = s.floor /\ DropPlayer(s).room = s.room /\ DropPlayer(s).session = s.session
         /\ DropPlayer(s).quest = s.quest /\ DropPlayer(s).path = s.path /\ DropPlayer(s).due = s.due
         /\ DropPlayer(s).back = s.back /\ DropPlayer(s).waited = s.waited
BY DEF DropPlayer, Players

LEMMA CheckIs ==
  ASSUME NEW s \in Players, NEW dest, NEW dying \in BOOLEAN
  PROVE  LET t == check_priority(s, dest, dying)
         IN /\ t \in Players /\ t.floor = s.floor /\ t.room = s.room /\ t.session = s.session
            /\ t.journey \in {s.journey, NoJourney}
<1> DEFINE failed == [s EXCEPT !.quest = "failed"]
<1>1. /\ failed \in Players /\ failed.floor = s.floor /\ failed.room = s.room
      /\ failed.session = s.session /\ failed.journey = s.journey
  BY DEF Players
<1>2. check_priority(s, dest, dying) \in {s, failed, Ended(failed)}
  BY DEF check_priority
<1> HIDE DEF failed
<1> QED BY <1>1, <1>2, EndedIs

LEMMA RelocateIs ==
  ASSUME NEW s \in Players, NEW dest \in Rooms, s.floor \subseteq {s.room}
  PROVE  LET t == relocate(s, dest)
         IN /\ t \in Players /\ t.room = dest /\ t.floor = {dest} \ Waypoints
            /\ t.journey = s.journey /\ t.session = s.session /\ t.quest = s.quest /\ t.path = s.path
            /\ t.due = s.due
BY DEF relocate, Players

LEMMA AggroIs ==
  ASSUME NEW s \in Players, NEW t \in aggro(s)
  PROVE  /\ t \in Players /\ t.floor = s.floor /\ t.room = s.room /\ t.session = s.session
         /\ t.journey = s.journey /\ t.quest = s.quest /\ t.path = s.path /\ t.due = s.due
         /\ t.back = s.back /\ t.waited = s.waited
<1> DEFINE fights == [s EXCEPT !.fighting = TRUE]
<1>1. /\ fights \in Players /\ fights.floor = s.floor /\ fights.room = s.room /\ fights.session = s.session
      /\ fights.journey = s.journey /\ fights.quest = s.quest /\ fights.path = s.path /\ fights.due = s.due
      /\ fights.back = s.back /\ fights.waited = s.waited
  BY DEF Players
<1>2. t \in {s, fights}
  BY DEF aggro
<1> HIDE DEF fights
<1> QED BY <1>1, <1>2

-----------------------------------------------------------------------------
(* Deaths, jumps and ends. *)

LEMMA RelocateLanded ==
  ASSUME NEW s, Off(s), NEW dest \in Land \cup {Island}
  PROVE  Landed(relocate(s, dest))
<1>1. dest \in Rooms /\ dest \notin Waypoints
  BY PlacesAre
<1>2. /\ relocate(s, dest) \in Players /\ relocate(s, dest).room = dest
      /\ relocate(s, dest).floor = {dest} \ Waypoints /\ relocate(s, dest).journey = NoJourney
  BY <1>1, RelocateIs DEF Off
<1> QED BY <1>1, <1>2 DEF Landed, Off, AtWaypoint

LEMMA AggroLanded ==
  ASSUME NEW s, Landed(s), NEW t \in aggro(s)
  PROVE  Landed(t)
BY AggroIs DEF Landed, Off, AtWaypoint

LEMMA DiesLanded ==
  ASSUME NEW s \in Players, s.floor \subseteq {s.room}
  PROVE  Landed(Dies(s))
<1> DEFINE t == DropPlayer(Ended(check_priority(s, s.room, TRUE)))
           faded == [t EXCEPT !.floor = @ \ {s.room}, !.asleep = FALSE, !.room = Shrine, !.back = FALSE]
<1>1. Off(t) /\ t.floor = s.floor /\ t.room = s.room
  <2> DEFINE c == check_priority(s, s.room, TRUE)
             e == Ended(c)
  <2>1. c \in Players /\ c.floor = s.floor /\ c.room = s.room
    BY CheckIs
  <2> HIDE DEF c
  <2>2. e \in Players /\ e.floor = s.floor /\ e.room = s.room /\ e.journey = NoJourney
    BY <2>1, EndedIs
  <2> HIDE DEF e
  <2>3. /\ DropPlayer(e) \in Players /\ DropPlayer(e).floor = s.floor /\ DropPlayer(e).room = s.room
        /\ DropPlayer(e).journey = NoJourney
    BY <2>2, DropIs
  <2> QED BY <2>3 DEF Off, e, c
<1>2. Dies(s) = IF s.session THEN relocate(t, Shrine) ELSE faded
  BY DEF Dies
<1> HIDE DEF t
<1>3. Landed(relocate(t, Shrine))
  BY <1>1, RelocateLanded, PlacesAre
<1>4. faded \in Players /\ faded.floor = {} /\ faded.room = Shrine /\ faded.journey = NoJourney
  BY <1>1, PlacesAre DEF Off, Players
<1> HIDE DEF faded
<1>5. Landed(faded)
  BY <1>4, PlacesAre DEF Landed, Off, AtWaypoint
<1> QED BY <1>2, <1>3, <1>5

LEMMA TeleportLanded ==
  ASSUME NEW s, Off(s), NEW dest \in Land \cup {Island}, NEW u \in teleport(s, dest)
  PROVE  Landed(u)
<1> DEFINE t == DropPlayer(s)
           v == relocate(check_priority(t, dest, FALSE), dest)
<1>1. Off(t)
  BY DropIs DEF Off
<1>2. Off(check_priority(t, dest, FALSE))
  BY <1>1, CheckIs DEF Off
<1>3. Landed(v)
  BY <1>2, RelocateLanded
<1>4. u \in aggro(v) \/ u = Dies(v)
  BY PlacesAre DEF teleport
<1> HIDE DEF v
<1> QED BY <1>3, <1>4, AggroLanded, DiesLanded DEF Landed, Off

LEMMA EndLanded ==
  ASSUME NEW s \in Players, s.floor \subseteq {s.room}, NEW dest \in Land \cup {Island},
         NEW u \in end_journey(s, dest)
  PROVE  Landed(u)
<1>1. Off(Ended(s))
  BY EndedIs DEF Off
<1> QED BY <1>1, TeleportLanded DEF end_journey

LEMMA LoseLanded ==
  ASSUME NEW s \in Players, s.floor \subseteq {s.room}, NEW u \in lose_journey(s)
  PROVE  Landed(u)
BY EndLanded, PlacesAre DEF lose_journey

LEMMA ClearIs ==
  ASSUME NEW s \in Players, s.floor \subseteq {s.room}
  PROVE  LET t == clear_ambush(s)
         IN /\ t \in Players /\ t.floor = {} /\ t.room = s.room /\ t.session = s.session
            /\ t.journey = [s.journey EXCEPT !.ambush = FALSE] /\ t.quest = s.quest /\ t.path = s.path
<1> DEFINE d == DropPlayer(s)
<1>1. /\ d \in Players /\ d.journey = s.journey /\ d.floor = s.floor /\ d.room = s.room
      /\ d.session = s.session /\ d.quest = s.quest /\ d.path = s.path
  BY DropIs
<1> DEFINE j == [d.journey EXCEPT !.ambush = FALSE]
           b == d.ambushed \ {s.room}
           f == d.floor \ {s.room}
<1>2. clear_ambush(s) = [d EXCEPT !.ambushed = b, !.ambusher = FALSE, !.floor = f, !.back = FALSE, !.journey = j]
  BY <1>1 DEF clear_ambush, Players
<1>3. /\ j = [s.journey EXCEPT !.ambush = FALSE] /\ f = {}
      /\ j \in Rides /\ b \in SUBSET Waypoints /\ f \in SUBSET Rooms
  <2>1. d.journey \in Rides /\ d.ambushed \in SUBSET Waypoints /\ d.floor \in SUBSET Rooms
    BY <1>1 DEF Players, Rides
  <2> QED BY <1>1, <2>1 DEF Rides
<1> HIDE DEF d, j, b, f
<1>4. /\ clear_ambush(s).floor = f /\ clear_ambush(s).journey = j /\ clear_ambush(s).room = d.room
      /\ clear_ambush(s).session = d.session /\ clear_ambush(s).quest = d.quest
      /\ clear_ambush(s).path = d.path
  BY <1>1, <1>2 DEF Players
<1>5. clear_ambush(s) \in Players
  BY <1>1, <1>2, <1>3, ZenonT(60) DEF Players, Rides
<1> QED BY <1>1, <1>3, <1>4, <1>5

LEMMA StrandLanded ==
  ASSUME NEW s \in Players, s.floor \subseteq {s.room}, NEW u \in strand(s)
  PROVE  Landed(u)
<1>1. clear_ambush(s) \in Players /\ clear_ambush(s).floor \subseteq {clear_ambush(s).room}
  BY ClearIs
<1> QED BY <1>1, EndLanded, PlacesAre DEF strand

LEMMA DefeatLanded ==
  ASSUME NEW s \in Players, s.floor \subseteq {s.room}, NEW u \in defeat(s)
  PROVE  Landed(u)
BY StrandLanded, DiesLanded DEF defeat

-----------------------------------------------------------------------------
(* Stages. *)

LEMMA NextIs ==
  ASSUME NEW s \in Players
  PROVE  LET t == journey_next(s)
         IN /\ t \in Players /\ t.floor = s.floor /\ t.room = s.room /\ t.session = s.session
            /\ t.journey = s.journey /\ t.quest = s.quest /\ t.path = s.path /\ t.due = "later"
            /\ t.back = s.back
BY DEF journey_next, Players

LEMMA NextGood ==
  ASSUME NEW s, Sound(s)
  PROVE  Good(journey_next(s))
<1> DEFINE t == journey_next(s)
<1>1. /\ t \in Players /\ t.floor = s.floor /\ t.room = s.room /\ t.session = s.session
      /\ t.journey = s.journey /\ t.quest = s.quest /\ t.path = s.path /\ t.due = "later"
      /\ t.back = s.back
  BY NextIs DEF Sound
<1> HIDE DEF t
<1> QED BY <1>1 DEF Good, Sound, Placed, Standing, Held, Scheduled, On, AtWaypoint, Gone, t

LEMMA PathIs ==
  ASSUME NEW s \in Players, ~Gone(s)
  PROVE  /\ s.path \in Seq(Waypoints) /\ Len(s.path) \in Nat \ {0}
         /\ \A n \in 1..Len(s.path) : s.path[n] \in Waypoints
<1>1. s.path \in Seq(Waypoints) /\ s.path # <<>>
  BY JourneysAssumption DEF JourneysAssumption, Gone, Players
<1> QED BY <1>1, LenProperties, EmptySeq

\* A rider who reaches a waypoint.
Riding(s) ==
  /\ s \in Players /\ s.floor = {} /\ AtWaypoint(s) /\ On(s)
  /\ s.journey.event = "none" /\ ~s.journey.ambush /\ ~s.journey.marooned /\ s.journey.stage # 0

LEMMA RidingSound ==
  ASSUME NEW s, Riding(s)
  PROVE  Sound(s)
BY DEF Riding, Sound, Placed, Standing, Held

\* What comes of a stage is a ride that goes on, or one that is over.
LEMMA StageGood ==
  ASSUME NEW s, Riding(s), NEW u \in AndOn(journey_stage(s))
  PROVE  Good(u)
<1> DEFINE j(moment) == [s.journey EXCEPT !.event = moment, !.evented = TRUE]
           e(moment) == [s EXCEPT !.journey = j(moment), !.waited = FALSE, !.due = "later"]
<1>1. PICK t \in journey_stage(s) : u = IF On(t) /\ t.journey.event = "none" THEN journey_next(t) ELSE t
  BY DEF AndOn
<1>2. s \in Players /\ s.floor \subseteq {s.room} /\ s.journey \in Rides
  BY DEF Riding, Players, Rides
<1>3. CASE t \in lose_journey(s)
  <2>1. Landed(t)
    BY <1>2, <1>3, LoseLanded
  <2> QED BY <1>1, <2>1, LandedGood
<1>4. CASE t = s
  BY <1>1, <1>4, RidingSound, NextGood DEF Riding
<1>5. ASSUME ~Gone(s), s.journey.stage <= Len(s.path), NEW moment \in Moments, t = maybe_event(s, moment)
      PROVE  Good(u)
  <2> DEFINE k == j(moment)
             v == e(moment)
  <2>1. moment # "none"
    BY DEF Moments
  <2>2. /\ k \in Rides /\ k.on = s.journey.on /\ k.stage = s.journey.stage /\ k.event = moment
        /\ ~k.ambush /\ ~k.marooned
    BY <1>2 DEF Rides, Riding
  <2>3. t = v
    BY <1>2, <1>5 DEF maybe_event, Players, Rides
  <2>4. v = [s EXCEPT !.journey = k, !.waited = FALSE, !.due = "later"]
    OBVIOUS
  <2> HIDE DEF k, v
  <2>5. /\ v \in Players /\ v.floor = s.floor /\ v.room = s.room /\ v.session = s.session
        /\ v.journey = k /\ v.quest = s.quest /\ v.path = s.path /\ v.due = "later"
    BY <1>2, <2>2, <2>4 DEF Players, Rides
  <2>6. Good(v)
    BY <1>5, <2>1, <2>2, <2>5 DEF Riding, Good, Sound, Placed, Standing, Held, Scheduled, On, AtWaypoint, Gone
  <2>7. u = v
    BY <1>1, <2>1, <2>2, <2>3, <2>5
  <2> QED BY <2>6, <2>7
<1>6. ~Gone(s) => s.journey.stage \in Nat /\ Len(s.path) \in Nat
  BY <1>2, PathIs DEF Rides
<1>7. \/ t \in lose_journey(s) \/ t = s
      \/ /\ ~Gone(s) /\ s.journey.stage <= Len(s.path)
         /\ \E moment \in Moments : t = maybe_event(s, moment)
  BY <1>1, <1>6 DEF journey_stage, Riding
<1> QED BY <1>3, <1>4, <1>5, <1>7

LEMMA AdvanceGood ==
  ASSUME NEW s, Sound(s), On(s), s.journey.event = "none", ~s.journey.ambush, ~s.journey.marooned,
         NEW u \in journey_advance(s)
  PROVE  Good(u)
<1> DEFINE n == s.journey.stage + 1 + s.journey.skip
           t == [s EXCEPT !.journey.skip = 0]
           at == [t EXCEPT !.journey.stage = n]
           slower == [s EXCEPT !.journey.delay = @ - 1]
<1>1. s \in Players /\ s.floor \subseteq {s.room} /\ s.journey \in Rides /\ AtWaypoint(s) /\ n \in Nat \ {0}
  BY DEF Sound, Standing, Placed, Players, Rides
<1>2. CASE Gone(s)
  BY <1>1, <1>2, LoseLanded, LandedGood DEF journey_advance
<1>3. CASE ~Gone(s) /\ s.journey.delay > 0
  <2>1. /\ slower \in Players /\ slower.floor = s.floor /\ slower.room = s.room /\ slower.session = s.session
        /\ slower.back = s.back /\ slower.quest = s.quest /\ slower.path = s.path
    BY <1>1, <1>3 DEF Players, Rides
  <2>2. /\ slower.journey.on = s.journey.on /\ slower.journey.stage = s.journey.stage
        /\ slower.journey.event = s.journey.event /\ slower.journey.ambush = s.journey.ambush
        /\ slower.journey.marooned = s.journey.marooned
    BY <1>1 DEF Players, Rides
  <2>3. u = journey_next(slower)
    BY <1>3 DEF journey_advance
  <2> HIDE DEF slower
  <2>4. Sound(slower)
    BY <2>1, <2>2 DEF Sound, Placed, Standing, Held, On, AtWaypoint, Gone
  <2> QED BY <2>3, <2>4, NextGood
<1>4. t \in Players /\ t.floor = s.floor /\ t.room = s.room
  BY <1>1 DEF Players, Rides
<1>5. CASE ~Gone(s) /\ ~(s.journey.delay > 0) /\ n > Len(s.path)
  <2>1. u \in end_journey(t, Town)
    BY <1>5 DEF journey_advance
  <2> HIDE DEF t
  <2> QED BY <1>1, <1>4, <2>1, EndLanded, LandedGood, PlacesAre
<1>6. CASE ~Gone(s) /\ ~(s.journey.delay > 0) /\ ~(n > Len(s.path))
  <2>1. u \in AndOn(journey_stage(relocate(at, s.path[n])))
    BY <1>6 DEF journey_advance, ride_to
  <2>2. s.path[n] \in Waypoints /\ s.path[n] \in Rooms
    BY <1>1, <1>6, PathIs, PlacesAre
  <2>3. /\ at \in Players /\ at.floor = s.floor /\ at.room = s.room
        /\ at.journey.on = s.journey.on /\ at.journey.stage = n /\ at.journey.event = s.journey.event
        /\ at.journey.ambush = s.journey.ambush /\ at.journey.marooned = s.journey.marooned
    BY <1>1 DEF Players, Rides
  <2> HIDE DEF n, at
  <2>4. /\ relocate(at, s.path[n]) \in Players /\ relocate(at, s.path[n]).room = s.path[n]
        /\ relocate(at, s.path[n]).floor = {s.path[n]} \ Waypoints
        /\ relocate(at, s.path[n]).journey = at.journey
    BY <1>1, <2>2, <2>3, RelocateIs
  <2>5. Riding(relocate(at, s.path[n]))
    BY <1>1, <2>2, <2>3, <2>4 DEF Riding, AtWaypoint, On
  <2> QED BY <2>1, <2>5, StageGood
<1> QED BY <1>2, <1>3, <1>5, <1>6

LEMMA BeginGood ==
  ASSUME NEW s \in Players, s.floor \subseteq {s.room}, ~Gone(s), NEW u \in begin(s)
  PROVE  Good(u)
<1> DEFINE j == [NoJourney EXCEPT !.on = TRUE]
           d == DropPlayer(s)
           t == [d EXCEPT !.journey = j]
           w == s.path[1]
<1>1. w \in Waypoints /\ w \in Rooms
  BY PathIs, PlacesAre
<1>2. /\ j \in Rides /\ j.on /\ j.stage = 1 /\ j.event = "none" /\ ~j.ambush /\ ~j.marooned
  BY DEF NoJourney, Rides
<1>3. d \in Players /\ d.floor = s.floor /\ d.room = s.room
  BY DropIs
<1>4. u \in AndOn(journey_stage(relocate(t, w)))
  BY DEF begin, ride_to
<1> HIDE DEF j, d, w
<1>5. /\ t \in Players /\ t.floor = s.floor /\ t.room = s.room /\ t.journey = j
  BY <1>2, <1>3 DEF Players, Rides
<1> HIDE DEF t
<1>6. /\ relocate(t, w) \in Players /\ relocate(t, w).room = w
      /\ relocate(t, w).floor = {w} \ Waypoints /\ relocate(t, w).journey = j
  BY <1>1, <1>5, RelocateIs
<1>7. Riding(relocate(t, w))
  BY <1>1, <1>2, <1>6 DEF Riding, AtWaypoint, On
<1> QED BY <1>4, <1>7, StageGood

-----------------------------------------------------------------------------
(* What an event leads to. *)

\* An event that is over: the ride is at its waypoint, with what it needs to be
\* come back to.
Over(s) ==
  /\ Sound(s) /\ On(s) /\ AtWaypoint(s) /\ s.journey.event = "none" /\ ~s.journey.ambush /\ ~s.journey.marooned
  /\ LateChanges \/ (~Gone(s) /\ s.journey.stage <= Len(s.path))

LEMMA OverIs ==
  ASSUME NEW s, Sound(s), s.journey.event # "none"
  PROVE  Over([s EXCEPT !.journey.event = "none"])
<1> DEFINE t == [s EXCEPT !.journey.event = "none"]
<1>1. s \in Players /\ s.journey \in Rides
  BY DEF Sound, Players, Rides
<1>2. /\ t \in Players /\ t.floor = s.floor /\ t.room = s.room /\ t.quest = s.quest /\ t.path = s.path
      /\ t.back = s.back
      /\ t.journey.on = s.journey.on /\ t.journey.stage = s.journey.stage /\ t.journey.event = "none"
      /\ t.journey.ambush = s.journey.ambush /\ t.journey.marooned = s.journey.marooned
  BY <1>1 DEF Players, Rides
<1> HIDE DEF t
<1>3. s.room # Island \/ ~AtWaypoint(s)
  BY PlacesAre DEF AtWaypoint
<1>4. s.journey.ambush \in BOOLEAN /\ s.journey.marooned \in BOOLEAN
  BY <1>1 DEF Rides
<1> QED BY <1>1, <1>2, <1>3, <1>4 DEF Over, Sound, Placed, Standing, Held, On, AtWaypoint, Gone, t

LEMMA AmbushersGood ==
  ASSUME NEW s, Over(s), NEW u \in spawn_ambushers(s)
  PROVE  Good(u)
<1> DEFINE j == [s.journey EXCEPT !.ambush = TRUE]
           f == s.floor \cup {s.room}
           b == s.ambushed \cup {s.room}
           t == [s EXCEPT !.journey = j, !.floor = f, !.ambushed = b, !.ambusher = TRUE, !.due = "later"]
<1>1. /\ s \in Players /\ s.journey \in Rides /\ s.floor \subseteq {s.room} /\ s.room \in Waypoints
  BY DEF Over, Sound, Standing, Players, Rides, AtWaypoint
<1>2. /\ j \in Rides /\ j.on = s.journey.on /\ j.stage = s.journey.stage /\ j.event = s.journey.event
      /\ j.ambush /\ j.marooned = s.journey.marooned
  BY <1>1 DEF Rides
<1>3. f \in SUBSET Rooms /\ f = {s.room} /\ b \in SUBSET Waypoints
  BY <1>1, PlacesAre DEF Players
<1>4. u \in aggro(t)
  BY <1>1 DEF spawn_ambushers, Players, Rides
<1> HIDE DEF j, f, b
<1>5. /\ t \in Players /\ t.floor = f /\ t.room = s.room /\ t.journey = j
      /\ t.quest = s.quest /\ t.path = s.path /\ t.due = "later"
  BY <1>1, <1>2, <1>3 DEF Players, Rides
<1> HIDE DEF t
<1>6. /\ u \in Players /\ u.floor = f /\ u.room = s.room /\ u.journey = j
      /\ u.quest = s.quest /\ u.path = s.path /\ u.due = "later"
  BY <1>4, <1>5, AggroIs
<1> QED BY <1>2, <1>3, <1>6 DEF Over, Good, Sound, Placed, Standing, Held, Scheduled, On, AtWaypoint, Gone

LEMMA MaroonGood ==
  ASSUME NEW s, Over(s), NEW u \in maroon(s)
  PROVE  Good(u)
<1> DEFINE j == [s.journey EXCEPT !.marooned = TRUE]
           m == [s EXCEPT !.journey = j, !.due = "no"]
           d == DropPlayer(m)
           v == relocate(d, Island)
<1>1. s \in Players /\ s.journey \in Rides /\ s.floor \subseteq {s.room}
  BY DEF Over, Sound, Standing, Players, Rides
<1>2. /\ j \in Rides /\ j.on = s.journey.on /\ j.stage = s.journey.stage /\ j.event = s.journey.event
      /\ j.ambush = s.journey.ambush /\ j.marooned
  BY <1>1 DEF Rides
<1>3. PICK t \in teleport([s EXCEPT !.journey.marooned = TRUE, !.due = "no"], Island) :
        u = [t EXCEPT !.quest = "active"]
  BY DEF maroon
<1>4. [s EXCEPT !.journey.marooned = TRUE, !.due = "no"] = m
  BY <1>1 DEF Players, Rides
<1> HIDE DEF j
<1>5. m \in Players /\ m.floor = s.floor /\ m.room = s.room /\ m.journey = j /\ m.path = s.path
  BY <1>1, <1>2 DEF Players, Rides
<1> HIDE DEF m
<1>6. d \in Players /\ d.floor = s.floor /\ d.room = s.room /\ d.journey = j /\ d.path = s.path
  BY <1>5, DropIs
<1>7. check_priority(d, Island, FALSE) = d
  BY DEF check_priority
<1>8. t \in aggro(v)
  BY <1>3, <1>4, <1>7, PlacesAre DEF teleport
<1> HIDE DEF d
<1>9. v \in Players /\ v.room = Island /\ v.floor \subseteq {Island} /\ v.journey = j /\ v.path = s.path
  BY <1>1, <1>6, RelocateIs, PlacesAre
<1> HIDE DEF v
<1>10. t \in Players /\ t.room = Island /\ t.floor \subseteq {Island} /\ t.journey = j /\ t.path = s.path
  BY <1>8, <1>9, AggroIs
<1>11. /\ u \in Players /\ u.room = Island /\ u.floor \subseteq {Island} /\ u.journey = j /\ u.path = s.path
       /\ u.quest = "active"
  BY <1>3, <1>10 DEF Players
<1> QED BY <1>2, <1>11, PlacesAre DEF Over, Good, Sound, Placed, Standing, Held, Scheduled, On, AtWaypoint, Gone

\* The delays and the hastening of a ride that is at its waypoint.
LEMMA EffectGood ==
  ASSUME NEW s, Over(s), NEW effect \in Effects, NEW u \in apply_effects(s, effect)
  PROVE  Good(u)
<1> DEFINE slower == [s EXCEPT !.journey.delay = @ + 1]
           faster == [s EXCEPT !.journey.skip = 1]
<1>1. s \in Players /\ s.journey \in Rides /\ s.floor \subseteq {s.room} /\ Sound(s)
  BY DEF Over, Sound, Standing, Players, Rides
<1>2. CASE effect = "none"
  BY <1>1, <1>2, NextGood DEF apply_effects
<1>3. CASE effect = "delay"
  <2>1. u = journey_next(slower)
    BY <1>3 DEF apply_effects
  <2>2. /\ slower \in Players /\ slower.floor = s.floor /\ slower.room = s.room
        /\ slower.back = s.back /\ slower.quest = s.quest /\ slower.path = s.path
        /\ slower.journey.on = s.journey.on /\ slower.journey.stage = s.journey.stage
        /\ slower.journey.event = s.journey.event /\ slower.journey.ambush = s.journey.ambush
        /\ slower.journey.marooned = s.journey.marooned
    BY <1>1 DEF Players, Rides
  <2> HIDE DEF slower
  <2>3. Sound(slower)
    BY <1>1, <2>2 DEF Over, Sound, Placed, Standing, Held, On, AtWaypoint, Gone
  <2> QED BY <2>1, <2>3, NextGood
<1>4. CASE effect = "hasten"
  <2>1. u = journey_next(faster)
    BY <1>4 DEF apply_effects
  <2>2. /\ faster \in Players /\ faster.floor = s.floor /\ faster.room = s.room
        /\ faster.back = s.back /\ faster.quest = s.quest /\ faster.path = s.path
        /\ faster.journey.on = s.journey.on /\ faster.journey.stage = s.journey.stage
        /\ faster.journey.event = s.journey.event /\ faster.journey.ambush = s.journey.ambush
        /\ faster.journey.marooned = s.journey.marooned
    BY <1>1 DEF Players, Rides
  <2> HIDE DEF faster
  <2>3. Sound(faster)
    BY <1>1, <2>2 DEF Over, Sound, Placed, Standing, Held, On, AtWaypoint, Gone
  <2> QED BY <2>1, <2>3, NextGood
<1>5. CASE effect = "wound"
  BY <1>1, <1>5, DefeatLanded, LandedGood DEF apply_effects
<1>6. CASE effect = "death"
  <2>1. u = Dies(Ended(s)) /\ Ended(s) \in Players /\ Ended(s).floor \subseteq {Ended(s).room}
    BY <1>1, <1>6, EndedIs DEF apply_effects
  <2> QED BY <2>1, DiesLanded, LandedGood
<1>7. CASE effect = "strand"
  BY <1>1, <1>7, StrandLanded, LandedGood DEF apply_effects
<1>8. CASE effect = "ambush"
  BY <1>8, AmbushersGood DEF apply_effects
<1>9. CASE effect = "maroon"
  BY <1>9, MaroonGood DEF apply_effects
<1> QED BY <1>2, <1>3, <1>4, <1>5, <1>6, <1>7, <1>8, <1>9 DEF Effects

\* Resolved, an event leads to what its effects do; refused, to where it was.
LEMMA EventGood ==
  ASSUME NEW s, Sound(s), s.journey.event # "none", s.journey.event # "free" => Good(s),
         NEW effect \in Effects, NEW u \in resolve_event(s, effect)
  PROVE  Good(u)
BY OverIs, EffectGood DEF resolve_event

LEMMA AmbushDueGood ==
  ASSUME NEW s, Sound(s), s.journey.ambush, ~s.journey.marooned, NEW u \in ambush_due(s)
  PROVE  Good(u)
<1>1. s \in Players /\ s.floor \subseteq {s.room} /\ s.journey \in Rides
  BY DEF Sound, Standing, Players, Rides
<1>2. CASE s.room \in s.ambushed
  BY <1>2, NextGood DEF ambush_due, journey_next
<1>3. CASE s.room \notin s.ambushed
  <2>1. /\ clear_ambush(s) \in Players /\ clear_ambush(s).floor = {} /\ clear_ambush(s).room = s.room
        /\ clear_ambush(s).journey = [s.journey EXCEPT !.ambush = FALSE]
        /\ clear_ambush(s).quest = s.quest /\ clear_ambush(s).path = s.path
    BY <1>1, ClearIs
  <2>2. /\ clear_ambush(s).journey.on = s.journey.on /\ clear_ambush(s).journey.stage = s.journey.stage
        /\ clear_ambush(s).journey.event = s.journey.event /\ clear_ambush(s).journey.ambush = FALSE
        /\ clear_ambush(s).journey.marooned = s.journey.marooned
    BY <1>1, <2>1 DEF Rides
  <2>3. On(s)
    BY NoJourneyIs DEF Sound, Placed
  <2>4. Sound(clear_ambush(s))
    BY <2>1, <2>2, <2>3 DEF Sound, Placed, Standing, Held, On, AtWaypoint, Gone
  <2> QED BY <1>3, <2>4, NextGood DEF ambush_due
<1> QED BY <1>2, <1>3

-----------------------------------------------------------------------------
(* What happens to the player. *)

\* A player who is no rider stays none, wherever on land they are put.
LEMMA LandOff ==
  ASSUME NEW s, Good(s), s.room \in Land \/ ~On(s)
  PROVE  Off(s)
<1>1. s.room \in Land => s.room # Island /\ s.room \notin Waypoints
  BY PlacesAre
<1> QED BY <1>1 DEF Good, Sound, Placed, Standing, Off, On, AtWaypoint

LEMMA ResumedGood ==
  ASSUME NEW s, Sound(s), NEW u \in Resumed(s)
  PROVE  Good(u)
<1>1. s \in Players /\ s.floor \subseteq {s.room} /\ s.waited \in BOOLEAN
  BY DEF Sound, Standing, Players
<1>2. CASE ~On(s) \/ s.journey.marooned
  <2>1. u = s
    BY <1>2 DEF Resumed, resume_journey
  <2>2. s.journey.event = "none"
    BY <1>2, NoJourneyIs, PlacesAre DEF Sound, Placed, On, AtWaypoint
  <2> QED BY <1>2, <2>1, <2>2 DEF Good, Scheduled
<1>3. CASE u \in lose_journey(s)
  BY <1>1, <1>3, LoseLanded, LandedGood
<1>4. CASE s.journey.event # "none" /\ u = [s EXCEPT !.due = IF s.waited THEN "now" ELSE "later"]
  <2>1. /\ u \in Players /\ u.floor = s.floor /\ u.room = s.room /\ u.journey = s.journey
        /\ u.quest = s.quest /\ u.path = s.path /\ u.due # "no" /\ u.back = s.back
        /\ u.due = "now" => u.waited
    BY <1>1, <1>4 DEF Players
  <2> QED BY <2>1 DEF Good, Sound, Placed, Standing, Held, Scheduled, On, AtWaypoint, Gone
<1>5. CASE u = journey_next(s)
  BY <1>5, NextGood
<1> QED BY <1>2, <1>3, <1>4, <1>5 DEF Resumed, resume_journey

\* Steps that leave the ride as it is.
LEMMA AloneGood ==
  ASSUME NEW s, Good(s), NEW u \in Players, u.room = s.room, u.floor \subseteq s.floor, u.journey = s.journey,
         u.back = s.back, u.quest = s.quest, u.path = s.path,
         Scheduled(u)
  PROVE  Good(u)
BY DEF Good, Sound, Placed, Standing, Held, On, AtWaypoint, Gone

LEMMA TravelGood == ASSUME IInv, Travel PROVE IInv'
<1>1. player \in Players /\ player.floor \subseteq {player.room} /\ ~Gone(player) /\ player' \in begin(player)
  BY DEF IInv, Good, Sound, Standing, Travel, Becomes
<1> QED BY <1>1, BeginGood DEF IInv

LEMMA WalkGood == ASSUME IInv, NEW dest \in Land, Walk(dest) PROVE IInv'
<1> DEFINE v == relocate(player, dest)
<1>1. Off(player) /\ player' \in aggro(v) \cup {Dies(v)}
  BY LandOff DEF IInv, Walk, Becomes
<1>2. Landed(v)
  BY <1>1, RelocateLanded
<1> HIDE DEF v
<1>3. Landed(player')
  BY <1>1, <1>2, AggroLanded, DiesLanded DEF Landed, Off
<1> QED BY <1>3, LandedGood DEF IInv

LEMMA ChooseGood == ASSUME IInv, NEW effect \in Effects, Choose(effect) PROVE IInv'
BY EventGood DEF IInv, Good, Choose, Becomes

LEMMA FleeGood == ASSUME IInv, Flee PROVE IInv'
<1>1. player \in Players /\ player.floor \subseteq {player.room} /\ player' \in strand(player)
  BY DEF IInv, Good, Sound, Standing, Flee, Becomes
<1> QED BY <1>1, StrandLanded, LandedGood DEF IInv

LEMMA LosesGood == ASSUME IInv, Loses PROVE IInv'
<1>1. player \in Players /\ player.floor \subseteq {player.room} /\ player' \in defeat(player)
  BY DEF IInv, Good, Sound, Standing, Loses, Becomes
<1> QED BY <1>1, DefeatLanded, LandedGood DEF IInv

\* A held ride resumes where it had got to, or, its route gone, goes on waiting.
LEMMA MendGood == ASSUME IInv, Mend PROVE IInv'
<1> DEFINE s == [player EXCEPT !.quest = "done"]
           j == [player.journey EXCEPT !.marooned = FALSE]
           m == [s EXCEPT !.journey = j]
           d == DropPlayer(m)
           w == player.path[player.journey.stage]
           v == relocate(d, w)
<1>1. /\ player \in Players /\ player.journey \in Rides /\ player.floor \subseteq {player.room}
      /\ player.room = Island /\ ~AtWaypoint(player) /\ player.journey.stage \in Nat \ {0}
      /\ Placed(player) /\ Good(player)
  BY PlacesAre DEF IInv, Good, Sound, Standing, Placed, Mend, Players, Rides, AtWaypoint
<1>2. /\ s \in Players /\ s.room = player.room /\ s.floor = player.floor /\ s.journey = player.journey
      /\ s.path = player.path /\ s.due = player.due /\ s.session = player.session
      /\ s.back = player.back /\ s.waited = player.waited
  BY <1>1 DEF Players
<1>3. CASE (Gone(s) \/ ~On(s) \/ s.journey.stage > Len(s.path)) /\ player' = s
  <2>1. On(s) => player.journey.marooned
    BY <1>1, <1>2 DEF Placed, On
  <2>2. LateChanges \/ Held(player)
    BY <1>1 DEF Good, Sound
  <2>3. player.journey.stage <= Len(player.path) => ~(s.journey.stage > Len(s.path)) \/ Gone(player)
    BY <1>1, <1>2, PathIs
  <2>4. LateChanges \/ ~On(s)
    BY <1>2, <1>3, <2>1, <2>2, <2>3 DEF Held, Gone
  <2>5. ~On(s) => player.journey = NoJourney
    BY <1>1, <1>2 DEF Placed, On
  <2> HIDE DEF s
  <2>6. Sound(s)
    BY <1>1, <1>2, <2>4, <2>5, NoJourneyIs DEF Good, Sound, Placed, Standing, Held, On, AtWaypoint, Gone
  <2>7. Scheduled(s)
    BY <1>1, <1>2 DEF Good, Scheduled, Unanswered, On
  <2> QED BY <1>3, <2>6, <2>7 DEF Good, IInv
<1>4. CASE ~(Gone(s) \/ ~On(s) \/ s.journey.stage > Len(s.path))
  <2>1. PICK t \in teleport([s EXCEPT !.journey.marooned = FALSE], s.path[s.journey.stage]) :
          player' = journey_next(t)
    BY <1>4 DEF Mend, Becomes
  <2>2. [s EXCEPT !.journey.marooned = FALSE] = m
    BY <1>1 DEF Players, Rides
  <2>3. ~Gone(player) /\ On(player) /\ player.journey.stage <= Len(player.path)
    BY <1>1, <1>2, <1>4, PathIs DEF Gone, On
  <2>4. w \in Waypoints /\ w \in Rooms
    BY <1>1, <2>3, PathIs, PlacesAre
  <2>5. /\ j \in Rides /\ j.on = player.journey.on /\ j.stage = player.journey.stage
        /\ j.event = player.journey.event /\ j.ambush = player.journey.ambush /\ ~j.marooned
    BY <1>1 DEF Rides
  <2>6. s.path[s.journey.stage] = w
    BY <1>2
  <2> HIDE DEF s, j, w
  <2>7. m \in Players /\ m.floor = player.floor /\ m.room = player.room /\ m.journey = j /\ m.path = player.path
    BY <1>1, <1>2, <2>5 DEF Players, Rides
  <2> HIDE DEF m
  <2>8. d \in Players /\ d.floor = player.floor /\ d.room = player.room /\ d.journey = j /\ d.path = player.path
    BY <2>7, DropIs
  <2>9. t \in aggro(v)
    BY <2>1, <2>2, <2>4, <2>6, PlacesAre DEF teleport
  <2> HIDE DEF d
  <2>10. v \in Players /\ v.room = w /\ v.floor = {} /\ v.journey = j /\ v.path = player.path
    BY <1>1, <2>4, <2>8, RelocateIs
  <2> HIDE DEF v
  <2>11. t \in Players /\ t.room = w /\ t.floor = {} /\ t.journey = j /\ t.path = player.path
    BY <2>9, <2>10, AggroIs
  <2>12. player.journey.event = "none" /\ ~player.journey.ambush
    BY <1>1 DEF Placed
  <2>13. Sound(t)
    BY <1>1, <2>3, <2>4, <2>5, <2>11, <2>12 DEF Sound, Placed, Standing, Held, On, AtWaypoint, Gone
  <2> QED BY <2>1, <2>13, NextGood DEF IInv
<1> QED BY <1>3, <1>4 DEF Mend, Becomes

LEMMA WinsGood == ASSUME IInv, Wins PROVE IInv'
<1> DEFINE d == DropPlayer(player)
           b == d.ambushed \ {player.room}
           alive == d.ambusher /\ player.room \notin player.ambushed
<1>1. /\ d \in Players /\ d.room = player.room /\ d.floor = player.floor /\ d.journey = player.journey
      /\ d.quest = player.quest /\ d.path = player.path /\ d.due = player.due /\ d.session = player.session
      /\ d.back = player.back /\ d.waited = player.waited
  BY DropIs DEF IInv, Good, Sound
<1>2. player' = [d EXCEPT !.ambushed = b, !.ambusher = alive]
  BY DEF Wins
<1>3. b \in SUBSET Waypoints /\ alive \in BOOLEAN
  BY <1>1 DEF Players
<1> HIDE DEF d, b, alive
<1>4. /\ player' \in Players /\ player'.room = player.room /\ player'.floor = player.floor
      /\ player'.journey = player.journey /\ player'.quest = player.quest /\ player'.path = player.path
      /\ player'.due = player.due /\ player'.session = player.session
      /\ player'.back = player.back /\ player'.waited = player.waited
  BY <1>1, <1>2, <1>3 DEF Players
<1>5. Scheduled(player')
  BY <1>4 DEF IInv, Good, Scheduled, Unanswered, On
<1> QED BY <1>4, <1>5, AloneGood DEF IInv

LEMMA TakeOverGood == ASSUME IInv, TakeOver PROVE IInv'
<1> DEFINE s == [player EXCEPT !.tab = ~@]
<1>1. player' \in Resumed(s)
  BY DEF TakeOver, Becomes
<1>2. /\ s \in Players /\ s.room = player.room /\ s.floor = player.floor /\ s.journey = player.journey
      /\ s.quest = player.quest /\ s.path = player.path /\ s.due = player.due /\ s.session = player.session
      /\ s.back = player.back /\ s.waited = player.waited
  BY DEF IInv, Good, Sound, Players
<1> HIDE DEF s
<1>3. Scheduled(s)
  BY <1>2 DEF IInv, Good, Scheduled, Unanswered, On
<1>4. Good(s)
  BY <1>2, <1>3, AloneGood DEF IInv
<1> QED BY <1>1, <1>4, ResumedGood DEF IInv, Good

LEMMA ConnectGood == ASSUME IInv, connect PROVE IInv'
<1> DEFINE f == player.floor \cup {player.room}
           b == AtWaypoint(player)
           s == [player EXCEPT !.session = TRUE, !.asleep = FALSE, !.floor = f, !.back = b]
<1>1. PICK t \in Resumed(s) : player' \in aggro(t)
  BY DEF connect, Becomes, IInv, Good, Sound, Players
<1>2. player \in Players /\ f \in SUBSET Rooms /\ f \subseteq {player.room} /\ b \in BOOLEAN
  BY DEF IInv, Good, Sound, Standing, Players, AtWaypoint
<1>3. AtWaypoint(player) => b
  OBVIOUS
<1> HIDE DEF f, b
<1>4. /\ s \in Players /\ s.room = player.room /\ s.floor = f /\ s.journey = player.journey
      /\ s.quest = player.quest /\ s.path = player.path /\ s.back = b
  BY <1>2 DEF Players
<1> HIDE DEF s
<1>5. Sound(s)
  BY <1>2, <1>3, <1>4 DEF IInv, Good, Sound, Placed, Standing, Held, On, AtWaypoint, Gone
<1>6. Good(t)
  BY <1>1, <1>5, ResumedGood
<1>7. /\ player' \in Players /\ player'.floor = t.floor /\ player'.room = t.room
      /\ player'.session = t.session /\ player'.journey = t.journey /\ player'.quest = t.quest
      /\ player'.path = t.path /\ player'.due = t.due /\ player'.back = t.back /\ player'.waited = t.waited
  BY <1>1, <1>6, AggroIs DEF Good, Sound
<1>8. Scheduled(player')
  BY <1>6, <1>7 DEF Good, Scheduled, Unanswered, On
<1> QED BY <1>6, <1>7, <1>8, AloneGood DEF IInv

LEMMA DisconnectGood == ASSUME IInv, disconnect PROVE IInv'
<1> DEFINE f == player.floor \ {player.room}
           left == [player EXCEPT !.session = FALSE, !.floor = f]
           slept == [player EXCEPT !.session = FALSE, !.asleep = TRUE]
<1>1. player \in Players /\ f \in SUBSET Rooms /\ f \subseteq player.floor /\ player' \in {left, slept}
  <2>1. player \in Players
    BY DEF IInv, Good, Sound
  <2>2. player.floor \in SUBSET Rooms
    BY <2>1 DEF Players
  <2> QED BY <2>1, <2>2 DEF disconnect
<1> HIDE DEF f
<1>2. \A t \in {left, slept} :
        /\ t \in Players /\ t.room = player.room /\ t.floor \subseteq player.floor /\ t.journey = player.journey
        /\ t.quest = player.quest /\ t.path = player.path /\ t.session = FALSE
        /\ t.back = player.back /\ t.waited = player.waited /\ t.due = player.due
  <2>1. left \in Players /\ slept \in Players
    BY <1>1 DEF Players
  <2>2. /\ left.room = player.room /\ left.floor = f /\ left.journey = player.journey
        /\ left.quest = player.quest /\ left.path = player.path /\ left.session = FALSE
        /\ left.back = player.back /\ left.waited = player.waited /\ left.due = player.due
    BY <1>1 DEF Players
  <2>3. /\ slept.room = player.room /\ slept.floor = player.floor /\ slept.journey = player.journey
        /\ slept.quest = player.quest /\ slept.path = player.path /\ slept.session = FALSE
        /\ slept.back = player.back /\ slept.waited = player.waited /\ slept.due = player.due
    BY <1>1 DEF Players
  <2> HIDE DEF left, slept
  <2> QED BY <1>1, <2>1, <2>2, <2>3
<1> HIDE DEF left, slept
<1>3. Scheduled(player')
  BY <1>1, <1>2 DEF IInv, Good, Scheduled
<1> QED BY <1>1, <1>2, <1>3, AloneGood DEF IInv

LEMMA FadeGood == ASSUME IInv, fade_out PROVE IInv'
<1> DEFINE d == DropPlayer(player)
           f == d.floor \ {player.room}
<1>1. /\ d \in Players /\ d.room = player.room /\ d.floor = player.floor /\ d.journey = player.journey
      /\ d.quest = player.quest /\ d.path = player.path /\ d.due = player.due /\ d.session = player.session
      /\ d.back = player.back /\ d.waited = player.waited
  BY DropIs DEF IInv, Good, Sound
<1>2. player' = [d EXCEPT !.asleep = FALSE, !.floor = f]
  BY DEF fade_out
<1>3. f \in SUBSET Rooms /\ f \subseteq player.floor
  BY <1>1 DEF Players
<1> HIDE DEF d, f
<1>4. /\ player' \in Players /\ player'.room = player.room /\ player'.floor \subseteq player.floor
      /\ player'.journey = player.journey /\ player'.quest = player.quest /\ player'.path = player.path
      /\ player'.due = player.due /\ player'.session = player.session
      /\ player'.back = player.back /\ player'.waited = player.waited
  BY <1>1, <1>2, <1>3 DEF Players
<1>5. Scheduled(player')
  BY <1>4 DEF IInv, Good, Scheduled, Unanswered, On
<1> QED BY <1>4, <1>5, AloneGood DEF IInv

LEMMA PassesGood == ASSUME IInv, Passes PROVE IInv'
<1> DEFINE due == IF player.due = "later" THEN "now" ELSE player.due
           waited == player.waited \/ player.journey.event # "none"
<1>1. player' = [player EXCEPT !.due = due, !.waited = waited]
  BY DEF Passes
<1>2. player \in Players /\ due \in {"no", "later", "now"} /\ waited \in BOOLEAN
  BY DEF IInv, Good, Sound, Players
<1>3. /\ due = "no" => player.due = "no"
      /\ player.waited \/ player.journey.event # "none" => waited
  OBVIOUS
<1> HIDE DEF due, waited
<1>4. /\ player' \in Players /\ player'.room = player.room /\ player'.floor = player.floor
      /\ player'.journey = player.journey /\ player'.quest = player.quest /\ player'.path = player.path
      /\ player'.due = due /\ player'.session = player.session
      /\ player'.back = player.back /\ player'.waited = waited
  BY <1>1, <1>2 DEF Players
<1>5. Scheduled(player')
  BY <1>3, <1>4 DEF IInv, Good, Scheduled, Unanswered, On
<1> QED BY <1>4, <1>5, AloneGood DEF IInv

\* Whatever is taken off the schedule is put back on it, or is over.
LEMMA DueGood == ASSUME IInv, journeys_due PROVE IInv'
<1> DEFINE s == [player EXCEPT !.due = "no"]
<1>1. /\ s \in Players /\ s.room = player.room /\ s.floor = player.floor /\ s.journey = player.journey
      /\ s.quest = player.quest /\ s.path = player.path /\ s.session = player.session
      /\ s.back = player.back /\ s.waited = player.waited /\ s.due = "no" /\ player.due = "now"
  BY DEF IInv, Good, Sound, Players, journeys_due
<1>2. \/ ~(On(s) /\ s.session) /\ player' = s
      \/ On(s) /\ s.session /\ s.journey.marooned /\ player' = s
      \/ \E effect \in Effects : s.journey.event # "none" /\ player' \in resolve_event(s, effect)
      \/ ~s.journey.marooned /\ s.journey.ambush /\ player' \in ambush_due(s)
      \/ /\ On(s) /\ ~s.journey.marooned /\ s.journey.event = "none" /\ ~s.journey.ambush
         /\ player' \in journey_advance(s)
  BY DEF journeys_due, Becomes
<1> HIDE DEF s
<1>3. Sound(s)
  BY <1>1 DEF IInv, Good, Sound, Placed, Standing, Held, On, AtWaypoint, Gone
<1>4. CASE ~(On(s) /\ s.session) /\ player' = s
  BY <1>1, <1>3, <1>4 DEF IInv, Good, Scheduled
<1>5. CASE s.journey.marooned /\ player' = s
  BY <1>1, <1>3, <1>5 DEF IInv, Good, Scheduled
<1>6. CASE \E effect \in Effects : s.journey.event # "none" /\ player' \in resolve_event(s, effect)
  <2>1. s.journey.event # "free" => Good(s)
    BY <1>1, <1>3, <1>6 DEF IInv, Good, Scheduled, Unanswered
  <2> QED BY <1>3, <1>6, <2>1, EventGood DEF IInv
<1>7. CASE ~s.journey.marooned /\ s.journey.ambush /\ player' \in ambush_due(s)
  BY <1>3, <1>7, AmbushDueGood DEF IInv
<1>8. CASE /\ On(s) /\ ~s.journey.marooned /\ s.journey.event = "none" /\ ~s.journey.ambush
           /\ player' \in journey_advance(s)
  BY <1>3, <1>8, AdvanceGood DEF IInv
<1> QED BY <1>2, <1>4, <1>5, <1>6, <1>7, <1>8

LEMMA GotoGood == ASSUME IInv, NEW dest \in Land \cup {Island}, goto(dest) PROVE IInv'
<1>1. Off(Ended(player)) /\ player' \in teleport(Ended(player), dest)
  BY EndedIs DEF IInv, Good, Sound, Standing, Off, goto, Becomes
<1> QED BY <1>1, TeleportLanded, LandedGood DEF IInv

LEMMA SeedGood == ASSUME IInv, NEW path \in Paths, Seed(path) PROVE IInv'
<1> DEFINE j(moment) == [player.journey EXCEPT !.event = moment]
<1>1. PICK moment \in {"none"} \cup Moments :
        /\ moment = "none" <=> player.journey.event = "none"
        /\ player' = [player EXCEPT !.path = path, !.journey.event = moment]
  BY DEF Seed, Moments
<1> DEFINE k == j(moment)
<1>2. player \in Players /\ player.journey \in Rides
  BY DEF IInv, Good, Sound, Players, Rides
<1>3. /\ k \in Rides /\ k.on = player.journey.on /\ k.stage = player.journey.stage /\ k.event = moment
      /\ k.ambush = player.journey.ambush /\ k.marooned = player.journey.marooned
  BY <1>2 DEF Rides
<1>4. player' = [player EXCEPT !.path = path, !.journey = k]
  BY <1>1, <1>2 DEF Players, Rides
<1>5. moment = "none" => k = player.journey
  BY <1>1, <1>2 DEF Rides
<1> HIDE DEF k
<1>6. /\ player' \in Players /\ player'.room = player.room /\ player'.floor = player.floor
      /\ player'.journey = k /\ player'.quest = player.quest /\ player'.back = player.back
      /\ player'.due = player.due /\ player'.session = player.session /\ player'.waited = player.waited
  BY <1>2, <1>3, <1>4 DEF Players, Rides
<1>7. LateChanges \/ (moment = "none" /\ ~k.marooned)
  BY <1>1, <1>3 DEF Seed, Untroubled
<1>8. Placed(player')
  BY <1>1, <1>3, <1>5, <1>6 DEF IInv, Good, Sound, Placed, On, AtWaypoint
<1>9. Standing(player') /\ (LateChanges \/ Held(player'))
  BY <1>3, <1>6, <1>7 DEF IInv, Good, Sound, Standing, Held, AtWaypoint
<1>10. Scheduled(player')
  BY <1>1, <1>3, <1>6, <1>7 DEF IInv, Good, Scheduled, Unanswered, On
<1> QED BY <1>6, <1>8, <1>9, <1>10 DEF IInv, Good, Sound

-----------------------------------------------------------------------------
(* The invariant. *)

LEMMA InitInv == Init => IInv
<1> SUFFICES ASSUME Init PROVE IInv
  OBVIOUS
<1>1. NoJourney \in Rides
  BY DEF NoJourney, Rides
<1>2. /\ player \in Players /\ player.room = Start /\ player.floor = {} /\ player.journey = NoJourney
  BY <1>1, PlacesAre DEF Init, Players, Rides
<1>3. Landed(player)
  BY <1>2, PlacesAre DEF Landed, Off, AtWaypoint
<1> QED BY <1>3, LandedGood DEF IInv

LEMMA StepInv == IInv /\ [Next]_vars => IInv'
<1> SUFFICES ASSUME IInv, [Next]_vars PROVE IInv'
  OBVIOUS
<1>1. CASE UNCHANGED vars
  BY <1>1 DEF vars, IInv
<1>2. CASE Travel
  BY <1>2, TravelGood
<1>3. CASE Flee
  BY <1>3, FleeGood
<1>4. CASE Mend
  BY <1>4, MendGood
<1>5. CASE Wins
  BY <1>5, WinsGood
<1>6. CASE Loses
  BY <1>6, LosesGood
<1>7. CASE TakeOver
  BY <1>7, TakeOverGood
<1>8. CASE connect
  BY <1>8, ConnectGood
<1>9. CASE disconnect
  BY <1>9, DisconnectGood
<1>10. CASE fade_out
  BY <1>10, FadeGood
<1>11. CASE Passes
  BY <1>11, PassesGood
<1>12. CASE journeys_due
  BY <1>12, DueGood
<1>13. CASE \E effect \in Effects : Choose(effect)
  BY <1>13, ChooseGood
<1>14. CASE \E dest \in Land : Walk(dest)
  BY <1>14, WalkGood
<1>15. CASE \E dest \in Land \cup {Island} : goto(dest)
  BY <1>15, GotoGood
<1>16. CASE \E path \in Paths : Seed(path)
  BY <1>16, SeedGood
<1> QED BY <1>1, <1>2, <1>3, <1>4, <1>5, <1>6, <1>7, <1>8, <1>9, <1>10, <1>11, <1>12, <1>13, <1>14,
           <1>15, <1>16 DEF Next

LEMMA AlwaysInv == Spec => []IInv
BY InitInv, StepInv, PTL DEF Spec

-----------------------------------------------------------------------------
(* What holds for every route. *)

\* The player's record is what its type says, whatever comes between stages.
THEOREM TypeCorrect == Spec => []TypeOK
<1>1. IInv => TypeOK
  BY DEF IInv, Good, Sound, TypeOK
<1> QED BY <1>1, AlwaysInv, PTL

\* No end of a stage, an event, an ambush, a time away or another tab leaves a
\* rider out of the schedule, but for the refusal of a lapsed event's last
\* choice (journey_next, resume_journey, ambush_due, resolve_event).
THEOREM RidesGoOnHolds == Spec => []RidesGoOn
<1>1. IInv => RidesGoOn
  BY DEF IInv, Good, Scheduled, Unanswered, Refused, RidesGoOn
<1> QED BY <1>1, AlwaysInv, PTL

\* Nobody is in two rooms' player sets, and nobody in a waypoint's but in an
\* ambush or back in the world there (relocate, ride_to, spawn_ambushers,
\* clear_ambush, connect).
THEOREM StandsWhereTheyAreHolds == Spec => []StandsWhereTheyAre
<1>1. IInv => StandsWhereTheyAre
  BY DEF IInv, Good, Sound, Standing, StandsWhereTheyAre
<1> QED BY <1>1, AlwaysInv, PTL

\* Whoever is at a waypoint has a ride to take them on, whatever a new seed or
\* an admin does to the route (lose_journey, check_priority, strand).
THEOREM NoneLeftBehindHolds == Spec => []NoneLeftBehind
<1>1. IInv => NoneLeftBehind
  BY DEF IInv, Good, Sound, Placed, NoneLeftBehind
<1> QED BY <1>1, AlwaysInv, PTL

\* While no new seed and no admin comes to a rider who is held, a held ride has
\* the quest that will let it go, and its rider is where that is done.
THEOREM HeldByItsQuestHolds ==
  ASSUME LateChanges = FALSE
  PROVE  Spec => []HeldByItsQuest
<1>1. IInv => HeldByItsQuest
  BY NoJourneyIs DEF IInv, Good, Sound, Placed, Held, HeldByItsQuest, On
<1> QED BY <1>1, AlwaysInv, PTL

=============================================================================
